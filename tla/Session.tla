------------------------------- MODULE Session -------------------------------
(***************************************************************************)
(* The Windows shell with its two threads: the command loop                *)
(* (src/core/aelion_shell.c), the background scan (aelion_bgscan.c), the   *)
(* file watcher (aelion_watcher.c) and the one database connection they    *)
(* share, from the prompt to the end of the process (aelion_main.c).       *)
(*                                                                         *)
(* The numbers of the watchers are those of "watch on": the n-th creates   *)
(* the stop event n and the thread n.  Changes of files are numbered in    *)
(* the order in which they happen.                                         *)
(***************************************************************************)
EXTENDS Naturals, Sequences, FiniteSets

CONSTANTS
    Root,        \* the values the configured root may have
    Dirs,        \* those that name a directory
    Databases,   \* the sets of tables the database may have
    Faults,      \* subset of {"thread", "event", "read"}: what may fail
    MaxStarts,   \* bound: watchers that are started
    MaxChanges,  \* bound: changes of files
    KernelBuffer \* notifications the kernel keeps between two calls

ASSUME SessionAssumption ==
    /\ Dirs \subseteq Root /\ "mixed" \notin Root /\ "none" \notin Dirs
    /\ MaxStarts \in Nat /\ MaxChanges \in Nat /\ KernelBuffer \in Nat \ {0}

Watcher == 1 .. MaxStarts
Scanner == 0
Thread == Watcher \cup {Scanner}
Mixed == "mixed"     \* a root that is being overwritten
NoDir == "none"

VARIABLES
    shell,      \* where the shell thread is
    root,       \* AELION_CONFIG.root
    scanHandle, \* g_scanThread is not NULL
    watchHandle,\* g_watchThread, 0 for NULL
    stopEvent,  \* g_stopEvent, 0 for NULL
    events,     \* the events that are not closed
    signaled,   \* the events that are set
    starts,     \* how often "watch on" got as far as CreateEvent
    pc,         \* pc[t]: where thread t is
    use,        \* use[t]: what thread t has of the database
    dir,        \* dir[w]: the directory w has opened
    armed,      \* the watchers for which the kernel keeps notifications
    queue,      \* queue[w]: what it has kept
    buffer,     \* buffer[w]: the first record of w's buffer
    changes,    \* how many files have changed
    tables,     \* the tables the database has, created before the shell runs
    fs_changes, \* the watchers' rows of that table, as the changes they are about
    handle,     \* db->handle is not NULL
    connection, \* the connection: open, or freed
    lossy,      \* history: a watcher's notifications overflowed
    misused     \* history: the threads that have used a freed connection

shellVars == <<shell, root, scanHandle>>
watchVars == <<watchHandle, stopEvent, events, signaled, starts>>
diskVars == <<dir, armed, queue, buffer, changes>>
dbVars == <<tables, fs_changes, handle, connection>>
history == <<lossy, misused>>
vars == <<shellVars, watchVars, pc, use, diskVars, dbVars, history>>

(* Where a thread writes to the database, and into which table; "sayScan"  *)
(* stands for both of the messages before the first file.                  *)
Says == {"sayFailed", "sayStarted", "sayChange", "sayStopped",
         "sayScan", "sayScanned"}
Writes == Says \cup {"logChange", "insert"}
TableOf(p) == IF p \in Says THEN "hud_events"
              ELSE IF p = "insert" THEN "fs_items" ELSE "fs_changes"

Pc == Writes \cup {"none", "open", "check", "call", "read", "gone"}

Alive(t) == pc[t] \notin {"none", "gone"}

Init ==
    /\ shell = "prompt" /\ root \in Root /\ scanHandle = FALSE
    /\ watchHandle = 0 /\ stopEvent = 0 /\ events = {} /\ signaled = {} /\ starts = 0
    /\ pc = [t \in Thread |-> "none"] /\ use = [t \in Thread |-> "nothing"]
    /\ dir = [w \in Watcher |-> NoDir] /\ armed = {}
    /\ queue = [w \in Watcher |-> <<>>] /\ buffer = [w \in Watcher |-> 0] /\ changes = 0
    /\ tables \in Databases /\ fs_changes = <<>> /\ handle = TRUE /\ connection = "open"
    /\ lossy = FALSE /\ misused = {}

-------------------------------------------------------------------------------
(* Files and notifications *)

(* A file under directory r changes, one of the database itself if that is *)
(* there.  A watcher that waits in ReadDirectoryChangesW has the record at *)
(* once; for another the kernel keeps it, up to its buffer.  A longer      *)
(* queue stands for one that has overflowed.  Changes that no watcher can  *)
(* hear of are left out.                                                   *)
Change(r) ==
    LET heard == {w \in armed : dir[w] = r}
        woken == {w \in heard : pc[w] = "read"}
        c == changes + 1
    IN  /\ heard # {} /\ changes' = c
        /\ pc' = [t \in Thread |-> IF t \in woken THEN "logChange" ELSE pc[t]]
        /\ buffer' = [w \in Watcher |-> IF w \in woken THEN c ELSE buffer[w]]
        /\ queue' = [w \in Watcher |->
                        IF w \in heard \ woken /\ Len(queue[w]) <= KernelBuffer
                        THEN Append(queue[w], c) ELSE queue[w]]

FileChange ==
    /\ shell # "exited" /\ changes < MaxChanges
    /\ \E r \in Dirs : Change(r)
    /\ UNCHANGED <<shellVars, watchVars, use, dir, armed, dbVars, history>>

-------------------------------------------------------------------------------
(* Writing to the database: aelion_hud_log, log_change, insert_file_record *)

(* Where a thread may be after a write, and after one that was not         *)
(* prepared.  scan_dir goes on to the next file, or there is none.         *)
Written(p) ==
    CASE p \in {"sayFailed", "sayStopped", "sayScanned"} -> {"gone"}
      [] p \in {"sayStarted", "sayChange"} -> {"check"}
      [] p = "logChange" -> {"sayChange"}
      [] OTHER -> {"insert", "sayScanned"}

Unwritten(p) == IF p = "logChange" THEN {"check"} ELSE Written(p)

(* A mutant of Enter: a watcher that is to stop drops its change. *)
EnterUnlessStopped(t) ==
    /\ pc[t] \in Writes /\ use[t] = "nothing"
    /\ IF handle /\ ~(pc[t] = "logChange" /\ stopEvent \in signaled)
       THEN use' = [use EXCEPT ![t] = "handle"] /\ pc' = pc
       ELSE use' = use /\ \E p \in Unwritten(pc[t]) : pc' = [pc EXCEPT ![t] = p]
    /\ UNCHANGED <<shellVars, watchVars, diskVars, dbVars, history>>

(* aelion_db_prepare reads db->handle; SQLite refuses NULL. *)
Enter(t) ==
    /\ pc[t] \in Writes /\ use[t] = "nothing"
    /\ IF handle THEN use' = [use EXCEPT ![t] = "handle"] /\ pc' = pc
                 ELSE use' = use /\ \E p \in Unwritten(pc[t]) : pc' = [pc EXCEPT ![t] = p]
    /\ UNCHANGED <<shellVars, watchVars, diskVars, dbVars, history>>

Prepare(t) ==
    /\ use[t] = "handle" /\ connection = "open"
    /\ IF TableOf(pc[t]) \in tables
       THEN use' = [use EXCEPT ![t] = "statement"] /\ pc' = pc
       ELSE /\ use' = [use EXCEPT ![t] = "nothing"]
            /\ \E p \in Unwritten(pc[t]) : pc' = [pc EXCEPT ![t] = p]
    /\ UNCHANGED <<shellVars, watchVars, diskVars, dbVars, history>>

(* Between the two the shell has closed the connection.  What SQLite does  *)
(* then is undefined; here it is remembered, and the write fails.          *)
UseAfterFree(t) ==
    /\ use[t] = "handle" /\ connection = "freed"
    /\ misused' = misused \cup {t}
    /\ use' = [use EXCEPT ![t] = "nothing"]
    /\ \E p \in Unwritten(pc[t]) : pc' = [pc EXCEPT ![t] = p]
    /\ UNCHANGED <<shellVars, watchVars, diskVars, dbVars, lossy>>

(* sqlite3_step and sqlite3_finalize. *)
Finish(t) ==
    /\ use[t] = "statement"
    /\ use' = [use EXCEPT ![t] = "nothing"]
    /\ fs_changes' = IF pc[t] = "logChange" THEN Append(fs_changes, buffer[t]) ELSE fs_changes
    /\ \E p \in Written(pc[t]) : pc' = [pc EXCEPT ![t] = p]
    /\ UNCHANGED <<shellVars, watchVars, diskVars, tables, handle, connection, history>>

Database(t) == Enter(t) \/ Prepare(t) \/ UseAfterFree(t) \/ Finish(t)

-------------------------------------------------------------------------------
(* watcher_thread *)

(* CreateFileW.  The thread reads the root through a pointer; while the    *)
(* shell overwrites it, it reads some path, most likely of no directory.   *)
Open(w) ==
    /\ pc[w] = "open"
    /\ \E r \in IF root = Mixed THEN Dirs \cup {Mixed} ELSE {root} :
          IF r \in Dirs
          THEN dir' = [dir EXCEPT ![w] = r] /\ pc' = [pc EXCEPT ![w] = "sayStarted"]
          ELSE dir' = dir /\ pc' = [pc EXCEPT ![w] = "sayFailed"]
    /\ UNCHANGED <<shellVars, watchVars, use, armed, queue, buffer, changes, dbVars, history>>

(* The loop reads g_stopEvent anew; an event that is NULL or closed is     *)
(* never set.                                                              *)
Check(w) ==
    /\ pc[w] = "check"
    /\ IF stopEvent \in signaled \cap events
       THEN /\ pc' = [pc EXCEPT ![w] = "sayStopped"]
            /\ dir' = [dir EXCEPT ![w] = NoDir]
            /\ armed' = armed \ {w}
            /\ queue' = [queue EXCEPT ![w] = <<>>]
       ELSE pc' = [pc EXCEPT ![w] = "call"] /\ UNCHANGED <<dir, armed, queue>>
    /\ UNCHANGED <<shellVars, watchVars, use, buffer, changes, dbVars, history>>

(* A mutant of Call: a record that was read stays. *)
CallAgain(w) ==
    /\ pc[w] = "call"
    /\ armed' = armed \cup {w}
    /\ IF queue[w] = <<>>
       THEN pc' = [pc EXCEPT ![w] = "read"] /\ UNCHANGED buffer
       ELSE pc' = [pc EXCEPT ![w] = "logChange"] /\ buffer' = [buffer EXCEPT ![w] = queue[w][1]]
    /\ UNCHANGED <<shellVars, watchVars, use, dir, queue, changes, dbVars, history>>

(* ReadDirectoryChangesW waits, or returns what the kernel has kept, of    *)
(* which the loop looks at the first record.  After an overflow it returns *)
(* no bytes and succeeds: the record of the last call is read again.       *)
Call(w) ==
    /\ pc[w] = "call"
    /\ armed' = armed \cup {w}
    /\ queue' = [queue EXCEPT ![w] = <<>>]
    /\ lossy' = (lossy \/ Len(queue[w]) > KernelBuffer)
    /\ buffer' = [buffer EXCEPT ![w] = IF Len(queue[w]) \in 1 .. KernelBuffer
                                       THEN queue[w][1] ELSE @]
    /\ pc' = [pc EXCEPT ![w] = IF queue[w] = <<>> THEN "read" ELSE "logChange"]
    /\ UNCHANGED <<shellVars, watchVars, use, dir, changes, dbVars, misused>>

(* The call fails at once, as for a directory that is no more. *)
CallFails(w) ==
    /\ "read" \in Faults
    /\ pc[w] = "call" /\ pc' = [pc EXCEPT ![w] = "check"]
    /\ UNCHANGED <<shellVars, watchVars, use, diskVars, dbVars, history>>

watcher_thread(w) == Open(w) \/ Check(w) \/ Call(w) \/ CallFails(w)

-------------------------------------------------------------------------------
(* aelion_shell *)

(* aelion_start_bg_scan.  Nothing ever resets g_scanThread. *)
Scan ==
    /\ shell = "prompt" /\ ~scanHandle
    /\ \/ scanHandle' = TRUE /\ pc' = [pc EXCEPT ![Scanner] = "sayScan"]
       \/ "thread" \in Faults /\ UNCHANGED <<scanHandle, pc>>
    /\ UNCHANGED <<shell, root, watchVars, use, diskVars, dbVars, history>>

(* While it is not NULL, "scan" is refused: "Scan already running". *)
ScanRefused == shell = "prompt" /\ scanHandle /\ UNCHANGED vars

(* CreateEvent and CreateThread: the event of a thread that could not be   *)
(* created stays behind.                                                   *)
StartWatcher(w) ==
    /\ starts' = w
    /\ \/ stopEvent' = w /\ events' = events \cup {w}
       \/ "event" \in Faults /\ stopEvent' = 0 /\ events' = events
    /\ \/ watchHandle' = w /\ pc' = [pc EXCEPT ![w] = "open"]
       \/ "thread" \in Faults /\ watchHandle' = 0 /\ pc' = pc
    /\ UNCHANGED <<shellVars, signaled, use, diskVars, dbVars, history>>

(* A mutant of WatchOn: a watcher that runs is not noticed. *)
WatchOnAgain ==
    shell = "prompt" /\ starts < MaxStarts /\ StartWatcher(starts + 1)

(* aelion_start_watcher *)
WatchOn ==
    /\ shell = "prompt" /\ watchHandle = 0 /\ starts < MaxStarts
    /\ StartWatcher(starts + 1)

(* A mutant of WatchOff: the event is not set. *)
WatchOffUnset ==
    /\ shell = "prompt" /\ watchHandle # 0
    /\ shell' = "stopping"
    /\ UNCHANGED <<root, scanHandle, watchVars, pc, use, diskVars, dbVars, history>>

(* aelion_stop_watcher, up to the wait for the thread. *)
WatchOff ==
    /\ shell = "prompt" /\ watchHandle # 0
    /\ shell' = "stopping"
    /\ signaled' = signaled \cup (events \cap {stopEvent})
    /\ UNCHANGED <<root, scanHandle, watchHandle, stopEvent, events, starts, pc, use,
                   diskVars, dbVars, history>>

(* A mutant of WatchJoined: the wait has a timeout. *)
WatchTimeout ==
    /\ shell = "stopping" /\ shell' = "prompt"
    /\ events' = events \ {stopEvent}
    /\ watchHandle' = 0 /\ stopEvent' = 0
    /\ UNCHANGED <<root, scanHandle, signaled, starts, pc, use, diskVars, dbVars, history>>

WatchJoined ==
    /\ shell = "stopping" /\ pc[watchHandle] = "gone"
    /\ shell' = "prompt"
    /\ events' = events \ {stopEvent}
    /\ watchHandle' = 0 /\ stopEvent' = 0
    /\ UNCHANGED <<root, scanHandle, signaled, starts, pc, use, diskVars, dbVars, history>>

(* "config reload" overwrites the root character by character. *)
Reload ==
    /\ shell = "prompt" /\ shell' = "reloading" /\ root' = Mixed
    /\ UNCHANGED <<scanHandle, watchVars, pc, use, diskVars, dbVars, history>>

Reloaded ==
    /\ shell = "reloading" /\ shell' = "prompt" /\ root' \in Root
    /\ UNCHANGED <<scanHandle, watchVars, pc, use, diskVars, dbVars, history>>

(* "exit" and aelion_db_close: SQLite does not free a connection that has  *)
(* an unfinished statement.                                                *)
Exit ==
    /\ shell = "prompt" /\ shell' = "closed"
    /\ handle' = FALSE
    /\ connection' = IF \E t \in Thread : use[t] = "statement" THEN connection ELSE "freed"
    /\ UNCHANGED <<root, scanHandle, watchVars, pc, use, diskVars, tables, fs_changes, history>>

ProcessExits ==
    /\ shell = "closed" /\ shell' = "exited"
    /\ pc' = [t \in Thread |-> IF Alive(t) THEN "gone" ELSE pc[t]]
    /\ use' = [t \in Thread |-> "nothing"]
    /\ UNCHANGED <<root, scanHandle, watchVars, diskVars, dbVars, history>>

(* What a user may type, and what follows from it.  At the end of the      *)
(* input the loop calls fgets for ever: a prompt at which nothing is       *)
(* typed any more.                                                         *)
Typed ==
    Scan \/ ScanRefused \/ WatchOn \/ WatchOff \/ Reload \/ Exit

Follows == WatchJoined \/ Reloaded \/ ProcessExits

ThreadStep(t) == Database(t) \/ (t \in Watcher /\ watcher_thread(t))

Next ==
    \/ FileChange
    \/ \E t \in Thread : ThreadStep(t)
    \/ Typed
    \/ Follows

(* The kernel runs every thread that can run.  Nobody has to type, and no  *)
(* file has to change.                                                     *)
Fairness ==
    /\ \A t \in Thread : WF_vars(ThreadStep(t))
    /\ WF_vars(Follows)

Spec == Init /\ [][Next]_vars /\ Fairness

-------------------------------------------------------------------------------
(* Properties *)

TypeOK ==
    /\ shell \in {"prompt", "stopping", "reloading", "closed", "exited"}
    /\ root \in Root \cup {Mixed} /\ scanHandle \in BOOLEAN
    /\ watchHandle \in Watcher \cup {0} /\ stopEvent \in Watcher \cup {0}
    /\ events \subseteq Watcher /\ signaled \subseteq Watcher /\ starts \in 0 .. MaxStarts
    /\ pc \in [Thread -> Pc] /\ use \in [Thread -> {"nothing", "handle", "statement"}]
    /\ dir \in [Watcher -> Dirs \cup {NoDir}] /\ armed \subseteq Watcher
    /\ queue \in [Watcher -> Seq(1 .. changes)] /\ buffer \in [Watcher -> 0 .. changes]
    /\ changes \in 0 .. MaxChanges /\ fs_changes \in Seq(1 .. changes)
    /\ handle \in BOOLEAN /\ connection \in {"open", "freed"}
    /\ lossy \in BOOLEAN /\ misused \subseteq Thread

(* A watcher that runs is the one g_watchThread names, and the event that  *)
(* it looks at is its own and open: "watch off" stops it and no other, and *)
(* once that has returned no watcher runs.  Only where CreateEvent failed  *)
(* is there no event.                                                      *)
StopReachesWatcher ==
    \A w \in Watcher : Alive(w) =>
        /\ watchHandle = w
        /\ stopEvent = 0 \/ (stopEvent = w /\ w \in events)

(* The rows of fs_changes are in the order of the changes, and without an  *)
(* overflow no change has two, across watchers that are stopped and        *)
(* started.                                                                *)
LogInOrder ==
    \A i, j \in DOMAIN fs_changes : i < j =>
        \/ fs_changes[i] < fs_changes[j]
        \/ lossy /\ fs_changes[i] = fs_changes[j]

(* aelion_db_close does not ask whether threads run.  A freed connection   *)
(* is used by the scan, or by a watcher that was not turned off: what      *)
(* "watch off" has stopped does no harm.                                   *)
SafeAfterWatchOff == misused \subseteq {Scanner, watchHandle}

(* "watch off" returns, unless the watcher sleeps in ReadDirectoryChangesW *)
(* and no file changes any more, or its event could not be created.        *)
WatchOffReturns ==
    <>[](shell = "stopping") =>
        <>[](pc[watchHandle] = "read" \/ stopEvent = 0)

(* A change that a watcher has read is logged, also when "watch off" comes *)
(* in between, unless the session ends, or the database has no table for   *)
(* it: the schema file that creates hud_events does not create fs_changes. *)
ReadIsLogged ==
    \A c \in 1 .. MaxChanges :
        (\E w \in Watcher : pc[w] = "logChange" /\ buffer[w] = c) ~>
            \/ \E i \in DOMAIN fs_changes : fs_changes[i] = c
            \/ shell \in {"closed", "exited"}
            \/ "fs_changes" \notin tables
===============================================================================
