# Aelion: TLA+ models, checks and proofs

This directory models the program in `src/aelion` (and the few files beside it)
in TLA+. It says what the code does, which properties make it right, what TLC
has checked on small instances and what TLAPS has proved for every instance.

    tlc -workers 2 -config ApiServer_counters.cfg MCApiServer.tla   # one run
    tlapm ApiServer_proofs.tla                                      # one proof

`PROJECT.json` lists the runs, and for every definition the source lines it
stands for.

## 1. The system

Aelion is two programs built from one tree, with some scripts around them.

- **`aelion_binary`** (`src/aelion/src/main.c`, portable C). Without
  `--serve` it parses one sentence, checks it, prints it and exits. With
  `--serve` it is an HTTP server (`services/api/api_server.c`): the only part
  that is concurrent, long-lived and persistent on POSIX, and so the core.
- **The Windows shell** (`src/aelion/src/core/aelion_main.c` and its
  neighbours): a command loop over an SQLite database, with a background
  file scan, a file watcher and a table of loaded plugins.
- Around them: a web page that shows the server (`src/aelion/src/hud/web`), a
  small backend of its own for Termux (`src/aelion.sh`), and a script that
  lets the repository upgrade itself (`src/upgrade-aelion-ladder.ps1`).

### Components, their state, and what makes them right

| Component | State | Operations | Hard behaviour | Right when |
|---|---|---|---|---|
| API server, `api_server.c:311-420` | listening socket, flag `shutdown_requested`, one detached worker per connection, `ApiMetrics` (four counters, `last_event`) under `metrics_lock` | boot, accept, receive, handle, append, answer, unlock, shutdown | threads, signals, faults at every system call, kill, restart, frame of `api_server_run` left while workers run | counters match answers, 201 means durable, every connection ends, a shutdown ends the process |
| Request reception, `api_server.c:136-157` | buffer, `received`, `expected` | `recv` in a loop | any chunking, timeout, lengths that lie | stays in the buffer, hands on whole requests, ends |
| Journal, `api_server.c:85-116` | `events.log` | append, load | torn writes, lost tails, glued lines, `fgets` limit | a restart reads what was accepted |
| Security check, `security.c` | none | `security_check` | - | a blocked intent is never recorded |
| USP and JSON text, `usp.c`, `api_server.c:159-197` | none | parse, serialize, escape | truncation, missing quote | round trips, no overrun |
| Shell session, `aelion_shell.c`, `aelion_main.c` | command loop, `AELION_CONFIG`, database handle | about 25 commands | input ends, threads outlive the database | the shell ends, nothing is used after close |
| Background scan, `aelion_bgscan.c` | `g_scanThread` | start, (wait) | the handle is never reset | a finished scan can be started again |
| Watcher, `aelion_watcher.c` | `g_watchThread`, `g_stopEvent` | start, stop, log | stop waits for a thread that sleeps in the kernel | stop returns, no notification is lost |
| File scan, changes, duplicates | tables `fs_items`, `fs_changes` | insert, self-join, group | the tree changes during the scan, the table during the join; scans cut short | a scan of a still tree is exact, reported changes have a cause, changes are found |
| Plugin table, `aelion_plugin.c`; manifest, `aelion_plugin_autoload.c` | 64 slots | load, unload, call, autoload | table full, swap on removal | names unique, handle belongs to name |
| Configuration, key-value store, timeline store | a record, one pair, ten entries | load, save, set, get, add | truncation, silent drop | reload equals save |
| Web dashboard, `hud.js` | the page | refresh every 3 s, send | overlapping asynchronous answers | never goes back alone, comes to show the last event |
| Termux backend, `aelion.sh` | one JSON file | four routes that load, append and save, one that shows | threads without a lock, truncation before the write | what was answered as stored stays stored, the file stays readable |
| Upgrade ladder, `upgrade-aelion-ladder.ps1` | branch, worktrees | pass over rungs, loop | failure between steps, dry run, two runs at once | the branch only moves forward, to validated commits |
| Bus, router, engines, registry, scheduler, supervisor | none | print a line | - | - |

Interactions: `main` calls `api_server_run`, which starts workers that share
`ApiMetrics` through a pointer into its frame; a worker calls `usp_parse`,
`security_check`, the bus (which prints), then `append_journal`. The signal
handler shares one flag with the main loop. The dashboard, the Android bridge
and the tests only use the HTTP interface or the same parser and check. The
shell passes one database handle and a pointer to the configured root to the
scan and watcher threads.

## 2. The modules

    EventText            texts, from request to journal
      |- Journal         events.log line by line, torn tails, what load_journal makes of it
      |    `- JournalText        the same file character by character (checks Journal)
      `- ApiRequest      what handle_request can tell apart, its guards, cut requests
           |- ApiContract        abstract specification: a durable log of submissions
           `- ApiServer          Journal + ApiRequest: the server (implements ApiContract)
                `- ApiServer_proofs
    RequestText          json_value and json_escape, from a client's body to an answer
      `- JournalText              Journal + RequestText
    ReceiveRequest       receive_request, chunk by chunk
      `- Request_proofs           about ReceiveRequest, RequestText and JournalText
    PluginTable          the plugin table and its manifest     `- PluginTable_proofs
    Session              shell, scan, watcher, connection      `- Session_proofs
    Inventory            scan, table of files, the queries     `- Inventory_proofs
    Dashboard            the page, and what it needs of the server  `- Dashboard_proofs
    Backend              the Flask application of aelion.sh    `- Backend_proofs
    Ladder               the upgrade ladder and its branch     `- Ladder_proofs
    MCApiServer, MCJournalText, MCReceiveRequest, MCPluginTable, MCSession,
    MCInventory, MCDashboard, MCBackend, MCLadder              instances for TLC

### ApiServer

One variable `mpc` says where the main thread is in `api_server_run`
(`check` is the test of the flag, `accept` is inside `accept()`), and `pc[c]`
where the worker of connection `c` is in `serve_client`. Every point where the
real threads can interleave in a way another thread or the outside sees is a
value of these: taking the mutex, each early return of `handle_request`, the
write, the `fsync`, the answer, the unlock.

| Action | Code | Notes |
|---|---|---|
| `Boot` | 331-345 | handlers, zeroed metrics, `load_journal`; `fopen` may fail, which is an empty journal |
| `Listen`, `BindFails` | 354-368 | |
| `CheckShutdown` | 369 | reads the flag; the sleep in `accept()` is a later step |
| `Accept(c)`, `AcceptFails` | 370-400 | failing `malloc` or `pthread_create` closes the connection |
| `CloseServer`, `Exit` | 414-419 | the return of `api_server_run` and the end of the process are two steps: workers still run in between |
| `Signal(s)` | 57-64, 339-340 | may or may not interrupt `accept()` |
| `Kill`, `PowerLoss` | external | the end of the process; what the disk keeps |
| `Receive(c)` | 316 | whole, cut (`ShortReads`), or nothing |
| `Lock(c)`, `Unlock(c)` | 317, 324 | |
| `Ignore`, `RefuseOverflow`, `RefuseLarge`, `Health`, `Deny`, `View`, `Invalid`, `Block`, `Publish`, `NotRouted` | 229-308, 318-324 | one per early return; each counts as the code does |
| `Write`, `WriteTorn`, `OpenFails`, `WriteAstray`, `Sync`, `SyncFails` | 103-116, 291-296 | `WriteAstray` and the second case of `OpenFails`: the journal path was in the dead frame |
| `Reply`, `ReplyLost`, `BrokenPipe` | 126-134, 199-207 | nothing handles SIGPIPE |
| `Close(c)` | 325-327 | |

`acked`, `astray` and `loaded` are history variables: the clients that have
received a 201, the records that went to some other file, and the number of
records that the last boot counted. `synced` is the number of lines that are
on the disk.

**Faults** is the set of things that may go wrong in a run; each is guarded by
its name in the action that suffers it.

### ApiContract

The abstract specification: a log, and clients that have been told that their
request is in it. Only authorized, correctly routed, unblocked submissions
enter, each client's at most once (`Record`); a client is told after its record
is there (`Acknowledge`); a crash may take an end of the log but no record of a
client that has been told (`Crash`). `ApiServer` implements it with
`log <- lines, acked <- acked \ astray`.

### ReceiveRequest, Journal, JournalText, RequestText

`ApiServer` takes `receive_request` as one step and the journal as a sequence
of lines. The detailed modules justify that. `ReceiveRequest` runs the loop
on streams described by offsets (end of the headers, end of the length header,
announced length, total). `JournalText` keeps the characters of the file next
to the lines and the tail of `Journal` and checks that `load_journal`, written
there over characters with the `fgets` limit, agrees with the two operators
`LoadedRequests` and `LoadedEvent` that `ApiServer` uses.

The texts of `JournalText` are what clients send, through the code that reads
and shows them: `RequestText` has `Encode` (how a client writes a text into
JSON; the page itself sends its field as it was typed, `hud.js:31`, so this is
any client's), `json_value` (`api_server.c:176-197`; at a backslash the place stays 0,
which ends the string for every reader), `Raw` (what `handle_request` has of
it) and `json_escape` (159-174). A body may be cut at every character, as
`receive_request` may hand on a part. The loops of the code
(`Opens` in `json_value`, `json_escape`, `load_journal`) are recursive functions
over the places of a text, so that they can be proved about. `RoundTrip` relates a text a client
typed to what the events route answers after a restart. A text of several
lines is the last write of a behaviour (a bound): `Journal` has no line for it.

### PluginTable

`plugins` is the part of the static array that is in use, `uses` the loader's
own reference counts (two names of one file share a library), `overrun` a
history variable: the code does not test `MAX_PLUGINS`, so a load into a full
table (`LoadBeyond`) is undefined behaviour and ends the model.

| Action | Code | Notes |
|---|---|---|
| `ReadEntry`, `StartShell` | `aelion_plugin_autoload.c:33-73` | one round of the loop; `Autoload` is the search for the flag, which runs on into later entries |
| `Command` | `aelion_shell.c:54-60` | any sequence of `plugin load` and `plugin unload` |
| `Load`, `LoadBeyond`, `Refuse` | `aelion_plugin.c:19-51` | already loaded, no library, no entry point |
| `aelion_plugin_unload` | `aelion_plugin.c:53-72` | frees, then moves the last slot into the hole |

`Stored` is the cut of `strncpy` to the name field. A name that is cut is never
found again, which is why `NamesUnique` and `OverrunNeedsPlugins` speak of
`Plain` names. Nothing in the repository calls `aelion_plugins_autoload`; the
model has it run before the shell, as its name says.

### Session

`shell` says where the shell thread is (`stopping` is inside `watch off`),
`pc[t]` where the scan (thread 0) or the `t`-th watcher is, and `use[t]` what
it holds of the database: every write goes through `aelion_db_prepare`, in
which the thread first has the handle (`Enter`), then a statement (`Prepare`),
then finishes it (`Finish`). `tables` are the tables the database has before
the shell runs, one of `Databases`: each start has created those of the schema
file in place, and neither file of the repository has all three that the
threads write to (see `Inventory`). `connection` is that of SQLite:
`aelion_db_close` frees it, except while a statement is unfinished.

| Action | Code | Notes |
|---|---|---|
| `FileChange` | external | also the database's own writes, if it lies under the root; changes that no watcher can hear of are left out |
| `Enter`, `Prepare`, `Finish`, `UseAfterFree` | `aelion_db.c:31-37`, `aelion_watcher.c:17-37`, `aelion_hud.c:24-47`, `aelion_fs_scan.c:41-62` | a table the database does not have fails in `Prepare`; `UseAfterFree` is the close between `Enter` and `Prepare` |
| `Open`, `Check`, `Call`, `CallFails` | `aelion_watcher.c:39-113` | `Call` waits, takes the first record of what the kernel kept, or after an overflow re-reads the old one |
| `Scan`, `ScanRefused` | `aelion_bgscan.c:24-53` | |
| `WatchOn`, `StartWatcher` | `aelion_watcher.c:115-128` | event and thread may each fail |
| `WatchOff`, `WatchJoined` | `aelion_watcher.c:130-144` | before and after the wait |
| `Reload`, `Reloaded` | `aelion_config.c:13-45` | the root is overwritten while threads hold a pointer to it |
| `Exit`, `ProcessExits` | `aelion_db.c:14-19`, `aelion_main.c:37-41` | threads run between the two |

`lossy` and `misused` are history variables: a notification buffer has
overflowed, and the threads that have used a freed connection. `fs_changes` has
the rows of the watchers only, as the numbers of the changes they are about.
Commands that query or print, and the shell's own messages (`hud msg`), are
left out; the plugin commands are in `PluginTable`. A write that SQLite refuses
after it was prepared (a full disk) is left out too, and `ReadIsLogged` depends
on that. The end of the input is a prompt at which nothing is typed any more.

### Inventory

`Session` says when the scan uses the database; `Inventory` says what it puts
there. `fs_items` is the table, a sequence of rows that outlives the process.
`tables` says which of `fs_items` and `fs_changes` the database has. A start
executes the file `src/db/aelion_schema.sql` of its directory
(`aelion_main.c:7-23`), and the repository has two such files:
`aelion/aelion/src/db` creates `fs_items` (and `hud_events`) but not
`fs_changes`, and `aelion/src/db` creates `fs_changes` alone. The constant
`Schemas` is the set of what these files create, and every start executes
either. With the first alone the scan stores its rows and `changes` compares
them but stores nothing; with the second alone neither does anything; a
database that was started with both has both tables.
`query` is the number of rows that were there when a running `changes` began.
SQLite evaluates the self-join of `aelion_changes.c:36-43` with an automatic
index that it builds in the first step, while the outer loop goes by row
number and comes to rows inserted later as well (`Ahead`); between two rows of
the answer the scan thread may use the connection.

| Action | Code | Notes |
|---|---|---|
| `Edit(p, c)` | external | another program writes or deletes a file; not while the scan has it open, if it is a deletion |
| `Restart` | `aelion_main.c:7-41` | the end of the process anywhere; the next one starts with the tables as they are and adds those of its schema file |
| `Count`, `List`, `Find` | `aelion_fs_scan.c:64-112` | the enumeration returns what was there at its first call, and perhaps what came since |
| `OpenFails`, `Open`, `Read` | `aelion_hash.c:14-55` | a file that cannot be opened has the empty hash; one that is written meanwhile, any content |
| `Insert`, `FinishScan` | `aelion_fs_scan.c:51-62`, `113-119` | |
| `InsertFails` | `aelion_fs_scan.c:41-62` | the prepare fails without the table, before the file is opened; or SQLite refuses the row, which nothing looks at |
| `StartQuery`, `LogChange`, `FinishQuery` | `aelion_changes.c:7-62` | `Answer(i)` is the part of the join for row `i`; `log_change` returns at once without the table, and its row may be refused |
| `Dupes` | `aelion_dupes.c:6-47` | one statement that sorts before its first row, hence an operator |

`trees` is a history variable: for every scan during which nothing changed,
nothing was locked and every row was stored, the tree, the number of rows at
its end and whether the progress ended at the count. `past`, `failed`, `late`,
`refused` and `told` are what the properties name as causes; `told` is set by
queries of a database that has `fs_changes`. A process scans once, as `Session`
says, so two scans are two processes.

### Dashboard

A refresh of `hud.js` sends three requests at once and applies the answers
together (`Promise.all`), and nothing keeps two refreshes apart. The server is
`handle_request` as one step per request, and its restarts, which the page
lives through. An answer is the moment it is of: the number of the server's
start and its last event. The moment stands for the four counters too. In one
start they never decrease; a new start zeroes all four and then sets `requests`
and `authorized` to the number of lines in the journal (`api_server.c:334`,
85-101), which may be less than what the page shows. So going back is `Later` the other way round: an earlier start, or an
earlier event of the same one. `saved` is the last event in the journal, which
the next start shows; `unsaved` is a history variable, the events that an
append has not brought into the journal or a start has not read there.

| Action | Code | Notes |
|---|---|---|
| `Timer`, `Begin` | `hud.js:10-16`, `37-38` | every 3 s and on a click; the token is read here |
| `EnterToken`, `Send`, `Sent` | 3, 29-33 | a refresh follows every request sent |
| `Apply` | 17-21 | |
| `Catch`, `Garbled`, `Blocked`, `Lose`, `PostFails` | 13-25, 34 | the first failure ends a refresh; an answer that is no JSON, a page from another origin, a lost answer |
| `Answer`, `Store`, `StoreOther` | `api_server.c:249-301` | `Submit`: the event is shown before it is appended, so a failing journal leaves it in memory only |
| `Restart` | `api_server.c:331-345`, 85-101 | `last_event` is that of the journal, or none when the journal cannot be opened |

`Blocked` stands for the headers of `http_response` (`api_server.c:199-207`),
which allow any origin but not the header `Authorization`. `Raw` are the events
whose text makes the answers no JSON: control characters that `json_escape`
leaves as they are, or a field cut inside a character.

### Backend

The Flask application that `aelion.sh` writes and starts: every request, in a
thread of its own, loads one JSON file, appends to one of its lists and saves
it whole. All routes load and save all four lists, so the file is one set.

| Action | Code | Notes |
|---|---|---|
| `Start`, `Create` | `aelion.sh:21-23` | the file is made only if it is missing; a crash may come between the two |
| `LoadFails`, `All`, `Refuse`, `Load` | 25-27, 33-37, 65-67 | `request.json` is read after the file |
| `Open`, `Save` | 29-30 | `open(.., "w")` truncates; the data are written when the file is closed, at offset 0: a shorter text leaves the end of a longer one that another thread wrote since (`over`) |
| `Crash` | external | |

### Ladder

A commit is its history: the `HEAD` it started from and its rungs, each with a
note whether its validation commands passed on the commit before. `branch` is
the checkpoint branch, `trees` the worktrees in use and `left` those that stay
on the disk. Several runs share the repository and no lock.

| Action | Code | Notes |
|---|---|---|
| `Start` | `upgrade-aelion-ladder.ps1:75-92` | with any of its switches |
| `Resolve`, `Reset` | 95-106 | the branch is resumed, or set to `HEAD`; `-DryRun` sets it too |
| `RefuseRung` | 113-114 | before there is a worktree |
| `AddWorktree`, `RunCommands`, `RejectCommand`, `CommandFails` | 116-130, 57-72 | `-DryRun` only looks at the commands |
| `CommitRung`, `MoveBranch` | 132-147 | commit and move are two steps |
| `Clean`, `CleanFails` | 152-156 | the `finally`; the result of the removal is not looked at |
| `Complete`, `Caught`, `Then` | 159-180 | the loop; both drop `-Restart` |
| `GitFails` | 95-142 | any call of git |
| `Kill` | external | no `finally` runs |

`validated`, `raced`, `forgot` and `stuck` are history variables: which runs'
commands have passed, in whose pass another run moved the branch, who failed
before the reset, and whose removal failed. `-AllowNetwork` makes a network
rung a plain one and has no switch of its own.

### Simplifications

- A connection is used once. `Conn` therefore bounds both the connections and
  the requests. Connections are never reused by the code either.
- The backlog of 16 never fills and `send` never blocks: an answer is shorter
  than a socket buffer, so a client that does not read cannot hold the mutex.
- Counters do not reach the width of `unsigned long`.
- `fsync` also makes the directory entry durable; the code never syncs the
  directory. Cygwin builds do not call `fsync` at all and are not covered.
- After a failed `fflush`, `fclose` tries to write the rest of the buffer
  again. The model has the two extremes: the record stays torn (`WriteTorn`),
  or it is whole and the client told 503 (`SyncFails`).
- One process at a time uses the data directory.
- The build uses `-std=c11` with `_POSIX_C_SOURCE`: `signal` is the System V
  one, which resets the handler and does not restart `accept`. A second signal
  of the same kind ends the process, which is `Kill`.
- Use of the dead frame is undefined behaviour. The model keeps the outcomes
  that matter to the properties: the path names no file, or some other file.
- Windows: the native build handles one connection at a time with the same
  functions and has no signals; it is not modelled apart.
- Texts of several lines, and lines longer than the `fgets` buffer, occur in
  `JournalText` only; `ApiServer` is about texts of one line.
- `Inventory`: hashes do not collide; sizes and times of files, and names
  longer than `MAX_PATH`, are left out. A `changes` whose prepare fails (no
  `fs_items`) changes nothing and is no action. The messages to `hud_events`
  are left out.
- `Session`: the tables stay as they are while the process runs, as the schema
  file is executed before the shell.
- `Dashboard`: the `last-seen` field follows the event stream; the endpoint
  field keeps its value; the answer on the health is only ever "ok" or lost.
  The field `response`, which shows the last answer or error as it is, is left
  out. Moments stand for the counters: what a refresh or a refused request adds
  to them is not counted apart, and whether the counters of a later start are
  lower or higher than those before is left open. Every start has the same
  token. A record that a fault leaves torn, and what a later one glued to it
  shows, is the subject of `ApiServer` and `JournalText`; here an append brings
  its event into the journal or not. The requests that a server is at when it
  ends are lost one by one, each within `MaxLost`.
- `Backend`: a file of up to the 8 KB that Python buffers is written in one
  piece. `Ladder`: a fault is a failing command, call of git or removal, or a
  kill; `git worktree add` either makes the worktree or leaves nothing.

## 3. The runs

| Run | Instance | Properties | Shows |
|---|---|---|---|
| `counters` | 2 connections, a request for every early return, all faults but power loss and bind, no signals, 2 boots | `TypeOK`, `CountersMatchAnswers` | counters agree with the answers given, whatever fails |
| `durable` | 3 connections that submit an allowed or a blocked event, cut requests, failing opens and syncs, kills, power losses, 2 boots | `AckedIsDurable`, `RestartShowsSameEvent`, `ImplementsContract` | a 201 is durable; refinement |
| `live` | 3 connections, both signals, failing opens, kills | `ConnectionsEnd`, `ShutdownUnlessIdle` | nobody waits for ever |
| `receive` | buffer of 7, `size_t` of 4 bits, all streams of up to 8 bytes, all chunkings | `TypeOK`, `RecvHasRoom`, `WholeRequest`, `Returns` | the receive loop |
| `journal_text` | 7 texts (plain, too long, with TAB, CR, line feed, quote, backslash), every cut body, a field of 4, 3 writes, torn anywhere, power losses | `RestartAgrees`, `RoundTrip`, `FieldHasRoom`, `LosesOnlyTail` | the line-by-line journal is right; what a client typed comes back; findings 1, 2 |
| `plugins` | 5 names (two of one file, one that is cut), a table of 4, every manifest of up to 2 entries | `TypeOK`, `NamesUnique`, `HandlesBalanced`, `HandleOfName`, `OverrunNeedsPlugins`, `AutoloadAsWritten` | the table under any sequence of loads and unloads |
| `session` | a root that can be watched and one that cannot, a database of one or both schema files, 2 watchers, 4 changes, a kernel buffer of 2, failing events, threads and reads | `StopReachesWatcher`, `LogInOrder`, `SafeAfterWatchOff`, `WatchOffReturns`, `ReadIsLogged` | what `watch on`, `watch off` and `exit` may count on |
| `ladder` | 2 runs, one after the other or at once, with 4 sets of switches; ladders of passing, vacuous, network and refused rungs; 1 fault; no branch or an old one | `OnlyValidated`, `ResumesKnownGood`, `RestartHonoured`, `LeftoversExplained`, `KeepsProgress`, `LadderCompletes` | what the branch and the worktrees may become; finding 5 |
| `inventory` | 2 files, 2 contents, either schema file at each start, 2 scans, 3 edits, 1 locked file or refused row, 1 query | `StillScanIsExact`, `ReportsExplained`, `ChangesFound`, `DupesOfStillScans` | which rows and reports there can be; findings 7, 9 |
| `backend` | 4 POSTs (one longer, one malformed), 2 GETs, 2 crashes | `StoredUnlessRaced`, `BrokenForAReason` | which entries can be lost, when the file breaks; finding 8 |
| `dashboard` | 2 refreshes at a time, 2 events (one garbles its answer), 2 starts of the server, 1 failure of the journal, 1 lost answer, both origins | `GoesBackOnlyOverlapped`, `Converges` | what the page comes to show; finding 6 |
| `frame` | 1 connection, SIGTERM | `MetricsOutliveWorkers` violated | finding 4 |

**Bounds.** Two workers are enough to lose an update or to interleave two
requests; `durable` and `live` have three so that a third can come between, or
wait behind, two that race. Two boots are one crash and one recovery with
records before and after; three connections give up to three records. A
buffer of 7 bytes can be filled exactly, exceeded, and filled by headers
alone; 4 bits let an announced length wrap around. In `journal_text`, three
writes glue a record to a fragment that was itself glued, and `LineCap` is
small enough that three glued records overflow it; a field of 4 is filled
exactly, overflowed, and ended by an escape at its last place. The four slots of `plugins`
hold every plugin at once, so that any leak or double load would overrun them;
four slots have a first, a middle and a last one to unload, and two entries of
a manifest are enough for one to take the other's flag. In `session`, two
watchers are a stop and a new start; with a kernel buffer of two records, four
changes are one that is logged, two that one call returns, of which the second
is dropped, and one that overflows. The
scan's files are not counted: `Written` may go on or end after each. In
`ladder`, two rungs have one that is kept when the next fails, and one fault
can hit any step of either run; two runs are a race, or a failure and its
resumption. In `inventory`, two files and two contents are enough to be
duplicates, to swap, and to change back (three edits); two scans are what a
change needs, and the second one runs beside the query. Starts are not
bounded: the database may have either table, both, or both from some start on. In `backend`, three
entries that can be stored are two that race and one told before; the longer
one leaves an end behind, and two crashes are one that cuts a file and one
after it. In `dashboard`, two refreshes are what overlapping takes, and the
second event comes after one that garbles the answers; two starts are answers
from before a restart that come or are overtaken after it, and the one failure
of the journal hits either event or the second start.

**Symmetry** permutes the connections in `counters` and `durable`, files and
contents in `inventory`, and equal requests in `backend`: all their properties
are safety properties that name none of these. Runs with a liveness property
have none.

**Deadlock** is checked in all the runs of `ApiServer`: `Quiescent` marks the
states in which the server may rest (down for good, or asleep in `accept()`
with no client left), so a worker that waits for a mutex nobody frees would be
reported. It is checked in `dashboard`, too, whose page never rests. It is off
in `receive` and `journal_text`, where the function has returned or the writes
are used up, in `plugins`, where an overrun ends the model, in `session`, where
the process has exited or `watch off` waits for a watcher that nothing wakes,
in `ladder`, whose runs end, and in `inventory` and `backend`, where edits,
scans or requests are used up.

**Fairness.** `WF(Main)` and `WF(Worker(c))`: the kernel runs every runnable
thread, and `recv` returns within `REQUEST_TIMEOUT_SECONDS`
(`SO_RCVTIMEO`, `api_server.c:378-381`). Weak fairness suffices for the mutex
because each connection asks for it once: the others cannot keep it for ever.
In `receive`, `WF(Step)` is the same timeout. In `session`, every thread that
can run does (`WF(ThreadStep(t))`), and so does the shell inside a command
(`WF(Follows)`); nobody has to type and no file has to change, and
`ReadDirectoryChangesW` has no timeout. In `ladder`, `WF(Script(r))`: a script
that was started runs on, and each of its commands ends; nothing makes a run
start. In `dashboard`, `WF` on `Timer` (`setInterval`), on `Apply`, `Garbled`
and `Blocked` (the browser's event loop) and on `Answer` (`live` shows that the
server answers every request); nobody has to send, no event has to come, and
the server need not restart.
`inventory` and `backend` check safety only. Nothing makes a client connect or
send, a signal arrive, or a stopped process start again.

### Findings

Where the code does not do what a document, a comment or a message of the
repository says. All but finding 4 are kept as a named exception inside a
property that holds, which thereby says that nothing else goes wrong.

1. `journal_text` (`RoundTrip`, exceptions `torn` and `several`): nothing
   repairs a fragment that a full disk leaves at the end of `events.log`, and
   the next record, acknowledged with 201, is glued to it; and a text with a
   line feed comes back as its first line. README.md of the program: "accepted
   requests and the latest event survive a process restart".
2. `journal_text` (`RoundTrip`): `json_value` does not decode escapes. A text
   with a quote or a backslash is accepted, recorded and shown up to it.
3. `live` (`ShutdownUnlessIdle`): a signal between the test of the flag and
   `accept()`, or handled on a worker's thread, leaves the server asleep until
   a client connects. The property says that this is the only way to hang.
4. `frame` (violated): detached workers use the metrics in the frame of
   `api_server_run` after it has returned.
5. `ladder` (`OnlyValidated`, exception "vacuous"): line 114 means to refuse
   rungs without validation commands, but `@($null)` has the `Count` 1, so a
   rung without the key is committed unvalidated.
6. `dashboard` (`Converges`, exception of origin): a page opened as a file, as
   the program's README.md:133 says, never gets an answer, since its
   preflight requests are answered with 401 and without the header's name.
7. `inventory` (`ReportsExplained`): `aelion_changes.c:50` logs DELETED, which
   no deleted file ever is; files that a scan inserts while the query runs are.
8. `backend` (`StoredUnlessRaced`, exception `raced`): two threads load the
   same file and the later save drops the entry of the other, answered as
   stored.
9. `inventory` (`ChangesFound`, last conjunct): no schema file of the
   repository creates both `fs_items` and `fs_changes`. With the one that has
   `fs_items`, `log_change` returns at `aelion_changes.c:16` for every change,
   and "File change detection complete" is logged all the same. That changes
   are found holds only for a database that was started with both files.

Seen on the way, and stated as exceptions or in comments where a property needs
them, without contradicting anything written down:

- Restarting the server takes the counters of an open page back, and its event
  stream too when the journal had failed (`GoesBackOnlyOverlapped`).
- `last_event` is set before `append_journal` and stays when that fails with
  503 (exception of `RestartShowsSameEvent`).
- `json_value` ends a text one place behind `raw` when an escape is at its last
  place (`api_server.c:192`, exception of `FieldHasRoom`).
- `g_scanThread` is never reset: one scan per process, and every further one is
  answered "Scan already running" (`aelion_bgscan.c:25`).
- `watch off` hangs while no file changes (`WatchOffReturns`); the scan, or a
  watcher left on, may use the connection after `aelion_db_close` has freed it
  (`SafeAfterWatchOff`).
- The ladder drops `-Restart` after a first pass that failed before the reset
  (line 173, `RestartHonoured`), and a dry run sets the branch.
- A crash of the backend inside a save leaves a file that no later start
  repairs: every request is answered 500 (`BrokenForAReason`).
- Before the first event the events route answers one event with an empty
  message, which `hud.js:21` writes over the "No events received." of line 19.

## 4. The proofs

`ApiServer_proofs`, for every set of connections, requests, signals and faults
and any number of boots:

- **`TypeCorrect`**: `Spec => []TypeOK`. Not inductive alone: that a written
  line is well typed follows from the guard of `Publish`, two steps earlier.
  The invariant is `TypeInv == TypeOK /\ AppendsAcceptable`.
- **`MutualExclusion`**: no two workers in `handle_request` or
  `append_journal`. Invariant `LockInv`: the worker inside holds the mutex, and
  no connection outlives its process (`Boot` frees the mutex).
- **`AckedSurvives`**: `"torn" \notin Faults` implies `Spec => []AckedIsDurable`.
  `DurableInv` follows a record on its way: a worker that has not written has
  neither a record nor a 201; at `sync` its record is in the file; at a `reply`
  with 201 it is within the synced lines; after it stays there. Most actions
  are `Calm` (they leave the journal, the requests and the acknowledgements
  alone); `Receive`, `Write`, `WriteAstray`, `Sync`, `Reply` and `PowerLoss`
  have a lemma each. The assumption is needed: `WriteTorn` glues an acknowledged
  record to a fragment (finding 1).
- **`ServerImplementsContract`**: under the same assumption `Spec =>
  Contract!Spec`. Each action maps to `Record`, `Acknowledge`, `Crash` or a
  stutter; besides `DurableInv` it needs that what a worker handles is what its
  client sent, or a part of it (`ReceivedFromClient`).
- **`CountersAreAnswers`**: `Spec => []CountersMatchAnswers`. The counters are
  cardinalities of sets of connections, and between two answers they are ahead
  of them. `CountInv` says that each counter is the number of connections that
  have passed its line (`Tallied`), the worker that holds the mutex included;
  each early return has a lemma that names the one set that grows, by
  `FS_AddElement`.
- **`RestartKeepsEvent`**: without "torn" and "load" in `Faults`,
  `Spec => []RestartShowsSameEvent`. `EventInv` relates `last_event` to the last
  line, to the record of the worker that holds the mutex, and to the 503 after
  which `last_event` stays ahead. A journal that cannot be opened at boot
  ("load") is read as an empty one, hence the second assumption.

`Request_proofs`, first for every buffer size, every width of `size_t` and every
stream: **`BufferIsEnough`** (`TypeOK`), **`RecvAlwaysHasRoom`**,
**`RequestIsWhole`** (`WholeRequest`), all from one inductive `ReceiveInv`,
whose extra conjunct says that nothing is expected before the end of the
headers has been seen. Then, for every alphabet, every set of texts, and every
size of the fields, of the buffer of `fgets` and of the time stamp:

- **`FieldsHaveRoom`** (`FieldHasRoom`). `BodyInv`: the body is a beginning of
  what a client can send. `ValueFits` counts what `json_value` copies: it ends
  at the capacity unless an escape was opened on the last place.
  `EscapeIsWhole`: `json_escape` never stops early, since `escaped` is twice
  as long as `raw`.
- **`LossIsInTheTail`** (`LosesOnlyTail`) and **`RestartsAgree`**
  (`RestartAgrees`). What a file holds cannot be said by `load_journal`, which
  reads it from its beginning: the file is cut at its end. `FileInv` says it
  place by place. There are places `e[0] < .. < e[n]`, of which all but the
  first hold the newlines of the file (`Ends`); between two of them is the
  record of one element of `lines`: what stands behind the first TAB is its
  event, or anything when `Journal` calls it garbled (`LineIs`), and behind the
  last of them is what `tail` says (`TailIs`). A whole write, a torn write and a
  power loss have a lemma each (`WriteLined`, `TornLined`, `LoseLined`).
  `LoadAgrees` then walks through the file with `load_journal`: before place
  `i` it has read the lines that end before it and holds the characters since
  (`Reading`, `ReadNext`).
- **`TextsComeBack`** (`RoundTrip`). `TripInv`, beside `FileInv`: without a torn
  record every line is one record and so fits the buffer of `fgets` (`Tight`,
  hence `Fits` is no premise of it), and the last one is what `json_value` reads
  of the last body. `RawOfBody`: that is the text the client typed up to its
  first quote or backslash, or as far as it fits; `EscapeIsCopy`: shown, it is
  the same.

The library's induction theorems take an operator as a parameter and cannot be
cited. `NumbersInduction` states induction for a set of numbers, and follows
from the least element of its complement (`WFMin`). `LoopExists` and
`LoopUnique` derive from it, once for all loops, that a recursive function over
`0 .. n` has a value at each place and which one; what a loop computes is then
proved by `NumbersInduction` over its places.

`PluginTable_proofs`, for every set of names and libraries, every manifest and
every size of the table: **`TableTypeCorrect`**, **`NamesAreUnique`**,
**`CountsAreSlots`** (`HandlesBalanced`) and **`PluginsKeepLibrary`**
(`HandleOfName`), from `IInv`, the conjunction of the four: that a count stays
in `Nat` when it is decremented follows from the balance, and that a load finds
the name missing from all slots follows from unique names. `UnloadCounts`
compares the slots of each library before and after the move of the last slot.
**`OverrunHasReason`** (`OverrunNeedsPlugins`): with uncut names, slot to name
is an injection into the plugins without the one being loaded
(`FullTableMisses`), so a full table that misses a plugin is too small.
**`AutoloadLoadsAsWritten`** (`AutoloadAsWritten`): by `OwnFlag`, the first flag
that `strstr` finds behind a name is the name's own when the manifest is
orderly.

`Session_proofs`, for every number of watchers, roots, changes and faults, every
set of databases and every kernel buffer:

- **`WatchOffReachesAll`** (`StopReachesWatcher`). That a new watcher is the
  only one follows from `g_watchThread` being NULL; that its number is new, and
  that a thread uses the database only where it writes, is `Started`. Invariant
  `IInv == Started /\ StopReachesWatcher`.
- **`RowsInOrder`** (`LogInOrder`). `RecordInv` follows a record on its way: it
  is newer than all rows while the kernel keeps it (`Kept`), and in the buffer
  it is newer than all of them until it becomes a row (`Buffered`), unless an
  overflow has left it there. It needs `IInv`: another watcher that ran could
  write a row in between.
- **`StoppedDoNoHarm`** (`SafeAfterWatchOff`), from `IInv` and `UseInv`: only
  `exit` frees the connection, and after it no command changes `g_watchThread`.

`Ladder_proofs`, for every number of runs, ladders, switches, faults and rungs:

- **`LadderTypeCorrect`** (`TypeOK`).
- **`LadderOnlyValidated`** (`OnlyValidated`). `SoundInv` says it of the
  checkpoint of every run as well, and of a run that is about to commit that
  its rung is vacuous or its commands have passed: a commit is made from a
  checkpoint, and another run may have moved the branch meanwhile.
- **`LadderResumesKnownGood`** (`ResumesKnownGood`) and **`LadderKeepsProgress`**
  (an action property), from `TrackInv`: a run that nobody overtook has the
  branch as its checkpoint, except between commit and move, where the
  checkpoint extends the branch.
- **`LadderRestartHonoured`** (`RestartHonoured`), from `BaseInv`: once the reset
  is done, both the branch and the checkpoint start from `HEAD`, and the next
  passes of a loop resume that branch.
- **`LadderLeftovers`** (`LeftoversExplained`), from `LeftInv`.

`Inventory_proofs`, for every number of files, contents, edits, scans and
queries, and every set of schema files:

- **`ChangesHaveCauses`** (`ReportsExplained`). `RowsInv` follows every row of
  the table: its hash is a content the file has had, or the file could not be
  read; and rows behind the index of a running query are `late`. A read of a
  file that is written meanwhile may give anything, but then, by `ScanInv`, the
  file has had two contents.
- **`StillScansAreExact`** (`StillScanIsExact`). `WalkInv`: the last rows that a
  scan of an unchanged tree has inserted are those of the files it has left
  behind, one each, and `counter` is their number. At the end these are all
  files; `DoneInv`: rows that come later leave the rows of finished scans alone.
- **`FinishedQueryFindsChanges`** (`ChangesFound`). `JoinInv`: in a database with
  `fs_changes` a running query has logged its whole answer up to its cursor,
  but for refused rows (`LogStores`), and in one without it nothing was ever
  logged, since no start takes a table away; rows added meanwhile are not in its
  index, so that they change no answer (`JoinBefore`).
- **`DupesAreDuplicates`** (`DupesOfStillScans`). `ApartInv`: no two scans share
  a row, as a still one has stored all of its own. `OneRowEach`: the rows of a scan that have a content and the files that
  had it are a bijection, so that the sizes of the groups are numbers of files,
  added up over one scan or two (`RowsOfTwo`).

`Backend_proofs`, for every set of requests and every number of crashes:
**`BackendTypeCorrect`**, **`StoredStays`** (`StoredUnlessRaced`) and
**`FileBreaksForAReason`** (`BrokenForAReason`). `BusyInv`: when two requests
are between load and save, both are in `raced`. `KeptInv`: an unraced request
that saves has all that was acknowledged before, since nobody saved after its
load. `WholeInv`: what a lone request writes into a file it has truncated
leaves nothing over.

`Dashboard_proofs`, for every number of refreshes, events, starts of the server
and losses: **`PageGoesBackOnlyOverlapped`** (`GoesBackOnlyOverlapped`).
`PageInv`: an answer to a refresh that nothing has overlapped is not behind
what the page shows (`Proper`), and the page shows only moments the server has
been at (`Known`). `ServerInv`: the server and its journal are behind `unsaved`
events only, so that the present moment is a fit successor of every known one
(`NowIsAfter`). `TypeOK` is part of the invariant and of no run.

Assumptions are those of the modules (`EventAssumption`, `RequestAssumption`,
`ServerAssumption`, `CapacityAssumption`, `StreamAssumption`,
`PluginAssumption`, `SessionAssumption`, `LadderAssumption`,
`InventoryAssumption`, `BackendAssumption`, `DashboardAssumption`,
`FieldAssumption`, `TextAssumption`); TLC evaluates each of them on the instances.

`TextAssumption` says of the texts that clients send what the types need: that
they have no NUL and that what `json_value` reads of them is an event; of the
code, that a record fits the buffer of `fgets` (768 characters, against a field
of 512, a TAB and the digits of a time). `FieldAssumption`: `escaped` (1024) is
twice `raw` (512).

**Only model-checked**: the liveness properties
`ConnectionsEnd`, `ShutdownUnlessIdle`, `Returns`, `WatchOffReturns`,
`ReadIsLogged`, `LadderCompletes` and `Converges`. Fairness and `ENABLED` are
out of the prover's reach. Every safety property of a run is a theorem, but for
`MetricsOutliveWorkers`, which is false (finding 4).

## 5. The plan

*Done*: the API server with its journal, its texts and its receive loop; the
plugin table; the session; the inventory; the dashboard; the Termux backend;
the ladder; theorems about all of these. What is left, in this order:

1. The commands of the shell that query, and the shell's own writes
   (`hud msg`), in `Session`.
2. `usp_parse` in `RequestText`.
3. In the proofs: what stays true of acknowledged records with torn writes
   (`AckedSurvives` assumes there are none), by the lemmas of `Request_proofs`
   on glued records; type theorems for `Session` and `Inventory`; that a step of
   `JournalText` is one that `ApiServer` takes on `lines` and `tail`.

## 6. Not modelled

- The vendored SQLite. With its shell it is about 274,000 of the 277,000 lines
  of C of the tree, so the share of all lines that the models stand for is
  small whatever is modelled; of `api_server.c` it is four lines in five. What
  Aelion needs of SQLite (which connection may still be used, which rows a
  running query comes to) is in `Session` and `Inventory`.
- The engines, bus, registry, scheduler and supervisor: each function prints
  one line or answers a constant, and none has a state.
- The stores `kv.c`, `logs.c` and `timeline_store.c`: nothing calls them, and
  each operation is one assignment. (The timeline drops its eleventh event and
  prints that it was added.)
- `usp_parse` and `usp_serialize`: what the server uses of them, the intent, is
  the event of `ApiRequest`.
- The terminal dashboards (queries and escape sequences), the Android bridge
  (one call of the parser, the check and the bus), the build and diagnostic
  scripts.
- The pages that `aelion.sh` means to generate: line 129 is no parameter
  expansion of bash, so that none is written.
