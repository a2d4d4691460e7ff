------------------------------ MODULE ApiServer ------------------------------
(***************************************************************************)
(* The HTTP service of aelion --serve: src/services/api/api_server.c, its  *)
(* POSIX build.  A main thread accepts connections and starts one detached *)
(* worker per connection; workers share the metrics and the journal under  *)
(* one mutex; a signal handler raises a flag; the journal outlives the     *)
(* process.                                                                *)
(*                                                                         *)
(* Simplifications:                                                        *)
(*   - a connection is used once, so Conn also bounds the requests;        *)
(*   - the backlog of 16 is never full and send() never blocks: a response *)
(*     is shorter than a socket buffer;                                    *)
(*   - the counters do not reach the width of unsigned long;               *)
(*   - a successful fsync makes the whole file durable, its directory      *)
(*     entry included;                                                     *)
(*   - the texts of the answers and the output on stdout are left out.     *)
(***************************************************************************)
EXTENDS Journal, ApiRequest, FiniteSets

CONSTANTS
    Requests,   \* the requests clients may send
    NoRequest,  \* receive_request returned 0: nothing to handle
    Nobody,     \* the owner of a free mutex
    Signals,    \* SIGINT and SIGTERM, or those of them that may be sent
    Faults,     \* which of AllFaults may happen
    MaxBoots    \* how many times the process is started

AllFaults ==
    {"load", "bind", "accept", "spawn",   \* main: fopen, bind, accept, thread
     "short",                             \* recv: timeout, signal, peer closed
     "open", "torn", "sync",              \* append_journal: fopen, write, fsync
     "disconnect",                        \* send: the client is gone
     "kill", "power"}                     \* the process or the machine dies

ASSUME ServerAssumption ==
    /\ IsFiniteSet(Conn)
    /\ Requests \subseteq Request
    /\ NoRequest \notin Request
    /\ Nobody \notin Conn
    /\ Faults \subseteq AllFaults
    /\ MaxBoots \in Nat

VARIABLES
    mpc,                 \* where the main thread is
    shutdown_requested,  \* the flag of the signal handler
    armed,               \* signals whose handler is installed
    boots,               \* processes started so far
    pc,                  \* where the worker of each connection is
    sent,                \* the request each client has on the wire
    req,                 \* what receive_request made of it
    status,              \* the status code of the answer, 0 when there is none
    metrics_lock,        \* the worker that holds the mutex
    metrics,             \* the shared ApiMetrics
    lines, tail,         \* events.log as the operating system shows it
    synced,              \* how many of the lines are on the disk
    acked,               \* history: clients that have received a 201
    astray,              \* history: records written to some other file
    loaded               \* history: the requests load_journal counted

main == <<mpc, shutdown_requested, armed, boots>>
client == <<sent, acked>>
work == <<req, status>>
shared == <<metrics_lock, metrics, loaded>>
disk == <<lines, tail, synced, astray>>
vars == <<main, pc, client, work, shared, disk>>

MainPc == {"down", "bind", "check", "accept", "close", "returned"}
InLock == {"handle", "append", "sync", "reply", "unlock"}
Pc == {"idle", "queued", "recv", "lock", "close", "closed", "gone"} \cup InLock
Status == {0, 200, 201, 400, 401, 403, 404, 405, 413, 503}
Metrics == [requests : Nat, authorized : Nat, rejected : Nat, errors : Nat,
            last_event : Text \cup {NoEvent}]

LoadedMetrics(n, event) ==
    [requests |-> n, authorized |-> n, rejected |-> 0, errors |-> 0,
     last_event |-> event]

Init ==
    /\ mpc = "down"
    /\ shutdown_requested = FALSE
    /\ armed = {}
    /\ boots = 0
    /\ pc = [c \in Conn |-> "idle"]
    /\ sent \in [Conn -> Requests]
    /\ req = [c \in Conn |-> NoRequest]
    /\ status = [c \in Conn |-> 0]
    /\ metrics_lock = Nobody
    /\ metrics = LoadedMetrics(0, NoEvent)
    /\ lines = <<>>
    /\ tail = "none"
    /\ synced = 0
    /\ acked = {}
    /\ astray = {}
    /\ loaded = 0

-------------------------------------------------------------------------------
(* The main thread: api_server_run. *)

(* A mutant of Load: the first line is taken for a header. *)
LoadOffByOne(n, event) ==
    /\ metrics' = LoadedMetrics(n - 1, event)
    /\ loaded' = n

(* The process starts: the handlers are installed, load_journal rebuilds   *)
(* the metrics.  A journal that cannot be opened is an empty one.          *)

Load(n, event) ==
    /\ metrics' = LoadedMetrics(n, event)
    /\ loaded' = n

Boot ==
    /\ mpc = "down" /\ boots < MaxBoots
    /\ mpc' = "bind"
    /\ boots' = boots + 1
    /\ shutdown_requested' = FALSE
    /\ armed' = Signals
    /\ metrics_lock' = Nobody
    /\ \/ Load(LoadedRequests(lines, tail), LoadedEvent(lines, tail))
       \/ "load" \in Faults /\ Load(0, NoEvent)
    /\ UNCHANGED <<pc, client, work, disk>>

(* The end of the process closes every socket and stops every worker. *)
ProcessEnds ==
    /\ mpc' = "down"
    /\ pc' = [c \in Conn |-> IF pc[c] = "idle" THEN "idle" ELSE "gone"]
    /\ UNCHANGED <<shutdown_requested, armed, boots, client, work, shared>>

BindFails ==
    /\ "bind" \in Faults /\ mpc = "bind"
    /\ ProcessEnds
    /\ UNCHANGED disk

Listen ==
    /\ mpc = "bind"
    /\ mpc' = "check"
    /\ UNCHANGED <<shutdown_requested, armed, boots, pc, client, work, shared, disk>>

(* A mutant of CheckShutdown: the loop is while (1). *)
CheckNothing ==
    /\ mpc = "check"
    /\ mpc' = "accept"
    /\ UNCHANGED <<shutdown_requested, armed, boots, pc, client, work, shared, disk>>

CheckShutdown ==
    /\ mpc = "check"
    /\ mpc' = IF shutdown_requested THEN "close" ELSE "accept"
    /\ UNCHANGED <<shutdown_requested, armed, boots, pc, client, work, shared, disk>>

(* accept() returns a connection; its worker starts, or malloc or          *)
(* pthread_create fails and the connection is closed unanswered.           *)
Accept(c) ==
    /\ mpc = "accept" /\ pc[c] = "queued"
    /\ mpc' = "check"
    /\ \/ pc' = [pc EXCEPT ![c] = "recv"]
       \/ "spawn" \in Faults /\ pc' = [pc EXCEPT ![c] = "closed"]
    /\ UNCHANGED <<shutdown_requested, armed, boots, client, work, shared, disk>>

AcceptFails ==
    /\ "accept" \in Faults /\ mpc = "accept"
    /\ mpc' = "check"
    /\ UNCHANGED <<shutdown_requested, armed, boots, pc, client, work, shared, disk>>

(* Closing the listening socket resets the connections of the backlog. *)
CloseServer ==
    /\ mpc = "close"
    /\ mpc' = "returned"
    /\ pc' = [c \in Conn |-> IF pc[c] = "queued" THEN "gone" ELSE pc[c]]
    /\ UNCHANGED <<shutdown_requested, armed, boots, client, work, shared, disk>>

(* api_server_run has returned, and with it the frame that holds the       *)
(* metrics; main() returns and ends the process.                           *)
Exit ==
    /\ mpc = "returned"
    /\ ProcessEnds
    /\ UNCHANGED disk

-------------------------------------------------------------------------------
(* The world around the process. *)

(* A client connects; outside these states the connection is refused. *)
Connect(c) ==
    /\ mpc \in {"check", "accept", "close"} /\ pc[c] = "idle"
    /\ pc' = [pc EXCEPT ![c] = "queued"]
    /\ UNCHANGED <<main, client, work, shared, disk>>

(* request_shutdown raises the flag.  signal() of a -std=c11 build resets  *)
(* the handler and does not restart accept(), which the signal interrupts  *)
(* when it finds the main thread inside; it may as well run in a worker or *)
(* between the test of the flag and the system call.  A second signal of   *)
(* the same kind has the default action: it is a Kill.                     *)
Signal(s) ==
    /\ mpc # "down" /\ s \in armed
    /\ armed' = armed \ {s}
    /\ shutdown_requested' = TRUE
    /\ \/ mpc' = mpc
       \/ mpc = "accept" /\ mpc' = "check"
    /\ UNCHANGED <<boots, pc, client, work, shared, disk>>

Kill ==
    /\ "kill" \in Faults /\ mpc # "down"
    /\ ProcessEnds
    /\ UNCHANGED disk

(* A power loss leaves a prefix of the file that has the synced lines; it  *)
(* ends at a line unless records can be torn.                              *)
PowerLoss ==
    /\ "power" \in Faults
    /\ ProcessEnds
    /\ \E n \in synced .. Len(lines) :
         /\ lines' = SubSeq(lines, 1, n)
         /\ synced' = n
         /\ tail' \in IF n = Len(lines) THEN Remains[tail]
                     ELSE IF "torn" \in Faults THEN Remains["text"]
                     ELSE {"none"}
    /\ UNCHANGED astray

-------------------------------------------------------------------------------
(* A worker: serve_client. *)

Goto(c, from, to) == pc[c] = from /\ pc' = [pc EXCEPT ![c] = to]

(* receive_request: the whole request, what came before a timeout or the   *)
(* end of the stream, or nothing.                                          *)
Receive(c) ==
    /\ Goto(c, "recv", "lock")
    /\ \/ req' = [req EXCEPT ![c] = sent[c]]
       \/ /\ "short" \in Faults
          /\ \E r \in ShortReads(sent[c]) \cup {NoRequest} :
                req' = [req EXCEPT ![c] = r]
    /\ UNCHANGED <<main, client, status, shared, disk>>

(* A mutant of Lock: the mutex is missing. *)
LockNothing(c) ==
    /\ Goto(c, "lock", "handle")
    /\ metrics_lock' = c
    /\ UNCHANGED <<main, client, work, metrics, loaded, disk>>

Lock(c) ==
    /\ Goto(c, "lock", "handle")
    /\ metrics_lock = Nobody
    /\ metrics_lock' = c
    /\ UNCHANGED <<main, client, work, metrics, loaded, disk>>

(* handle_request, one action per early return.  Every path counts the     *)
(* request first; a, r and e are what it adds to authorized, rejected and  *)
(* errors.                                                                 *)
Count(a, r, e) ==
    metrics' = [metrics EXCEPT !.requests = @ + 1, !.authorized = @ + a,
                               !.rejected = @ + r, !.errors = @ + e]

Answer(c, code) == status' = [status EXCEPT ![c] = code]

Respond(c, code, a, r, e) ==
    /\ Goto(c, "handle", "reply")
    /\ Count(a, r, e)
    /\ Answer(c, code)
    /\ UNCHANGED <<main, client, req, metrics_lock, loaded, disk>>

Ignore(c) ==
    /\ req[c] = NoRequest
    /\ Goto(c, "handle", "unlock")
    /\ UNCHANGED <<main, client, work, shared, disk>>

(* receive_request returned -1: answered without being counted. *)
RefuseOverflow(c) ==
    /\ req[c] # NoRequest /\ Overflow(req[c])
    /\ Goto(c, "handle", "reply")
    /\ Answer(c, 413)
    /\ UNCHANGED <<main, client, req, shared, disk>>

RefuseLarge(c) == req[c] # NoRequest /\ TooLarge(req[c]) /\ Respond(c, 413, 0, 0, 1)

Health(c) == req[c] # NoRequest /\ Public(req[c]) /\ Respond(c, 200, 0, 0, 0)

Deny(c) == req[c] # NoRequest /\ Denied(req[c]) /\ Respond(c, 401, 0, 1, 0)

View(c) == req[c] # NoRequest /\ Viewed(req[c]) /\ Respond(c, 200, 1, 0, 0)

NotRouted(c) ==
    /\ req[c] # NoRequest /\ Unrouted(req[c])
    /\ Respond(c, IF req[c].path = "requests" THEN 405 ELSE 404, 1, 0, 0)

Invalid(c) ==
    /\ req[c] # NoRequest /\ Posted(req[c]) /\ req[c].event = NoEvent
    /\ Respond(c, 400, 1, 0, 1)

Block(c) ==
    /\ req[c] # NoRequest /\ Posted(req[c]) /\ req[c].event # NoEvent
    /\ ~security_check(req[c].event)
    /\ Respond(c, 403, 1, 0, 1)

(* A mutant of Publish: it does not ask security_check. *)
PublishUnchecked(c) ==
    /\ req[c] # NoRequest /\ Posted(req[c]) /\ req[c].event # NoEvent
    /\ Goto(c, "handle", "append")
    /\ metrics' = [metrics EXCEPT !.requests = @ + 1, !.authorized = @ + 1,
                                  !.last_event = req[c].event]
    /\ UNCHANGED <<main, client, work, metrics_lock, loaded, disk>>

(* The event is published and becomes last_event before it is recorded. *)
Publish(c) ==
    /\ req[c] # NoRequest /\ Posted(req[c]) /\ req[c].event # NoEvent
    /\ security_check(req[c].event)
    /\ Goto(c, "handle", "append")
    /\ metrics' = [metrics EXCEPT !.requests = @ + 1, !.authorized = @ + 1,
                                  !.last_event = req[c].event]
    /\ UNCHANGED <<main, client, work, metrics_lock, loaded, disk>>

(* append_journal returned 0. *)
Unavailable(c, from) ==
    /\ Goto(c, from, "reply")
    /\ metrics' = [metrics EXCEPT !.errors = @ + 1]
    /\ Answer(c, 503)
    /\ UNCHANGED <<main, client, req, metrics_lock, loaded>>

(* fopen fails or nothing is written.  Once api_server_run has returned    *)
(* the path lies in a dead frame and need not name a file.                 *)
OpenFails(c) ==
    /\ "open" \in Faults \/ mpc = "returned"
    /\ Unavailable(c, "append")
    /\ UNCHANGED disk

Write(c) ==
    /\ Goto(c, "append", "sync")
    /\ lines' = Append(lines, WholeLine(tail, c, req[c].event))
    /\ tail' = "none"
    /\ UNCHANGED <<main, client, work, shared, synced, astray>>

(* The disk is full in the middle of the record. *)
WriteTorn(c) ==
    /\ "torn" \in Faults
    /\ Unavailable(c, "append")
    /\ \E cut \in Cut : tail' = TornTail(tail, cut)
    /\ UNCHANGED <<lines, synced, astray>>

(* The path in the dead frame names some other file. *)
WriteAstray(c) ==
    /\ mpc = "returned"
    /\ Goto(c, "append", "reply")
    /\ Answer(c, 201)
    /\ astray' = astray \cup {c}
    /\ UNCHANGED <<main, client, req, shared, lines, tail, synced>>

(* A mutant of Sync: the record is flushed but not synced. *)
SyncNothing(c) ==
    /\ Goto(c, "sync", "reply")
    /\ Answer(c, 201)
    /\ UNCHANGED <<main, client, req, shared, disk>>

Sync(c) ==
    /\ Goto(c, "sync", "reply")
    /\ synced' = Len(lines)
    /\ Answer(c, 201)
    /\ UNCHANGED <<main, client, req, shared, lines, tail, astray>>

(* The record stays in the file although its client is told 503. *)
SyncFails(c) ==
    /\ "sync" \in Faults
    /\ Unavailable(c, "sync")
    /\ UNCHANGED disk

(* http_response: the answer reaches the client, is lost, or raises        *)
(* SIGPIPE, which nothing handles and which ends the process.              *)
Reply(c) ==
    /\ Goto(c, "reply", "unlock")
    /\ acked' = IF status[c] = 201 THEN acked \cup {c} ELSE acked
    /\ UNCHANGED <<main, sent, work, shared, disk>>

ReplyLost(c) ==
    /\ "disconnect" \in Faults
    /\ Goto(c, "reply", "unlock")
    /\ UNCHANGED <<main, client, work, shared, disk>>

BrokenPipe(c) ==
    /\ "disconnect" \in Faults /\ pc[c] = "reply"
    /\ ProcessEnds
    /\ UNCHANGED disk

(* A mutant of Unlock: the early return of a failed append keeps the mutex. *)
UnlockForgotten(c) ==
    /\ Goto(c, "unlock", "close")
    /\ metrics_lock' = IF status[c] = 503 THEN c ELSE Nobody
    /\ UNCHANGED <<main, client, work, metrics, loaded, disk>>

Unlock(c) ==
    /\ Goto(c, "unlock", "close")
    /\ metrics_lock' = Nobody
    /\ UNCHANGED <<main, client, work, metrics, loaded, disk>>

Close(c) ==
    /\ Goto(c, "close", "closed")
    /\ UNCHANGED <<main, client, work, shared, disk>>

-------------------------------------------------------------------------------
Handle(c) ==
    \/ Ignore(c) \/ RefuseOverflow(c) \/ RefuseLarge(c) \/ Health(c) \/ Deny(c)
    \/ View(c) \/ NotRouted(c) \/ Invalid(c) \/ Block(c) \/ Publish(c)

AppendJournal(c) ==
    \/ OpenFails(c) \/ Write(c) \/ WriteTorn(c) \/ WriteAstray(c)
    \/ Sync(c) \/ SyncFails(c)

Worker(c) ==
    \/ Receive(c) \/ Lock(c) \/ Handle(c) \/ AppendJournal(c)
    \/ Reply(c) \/ ReplyLost(c) \/ BrokenPipe(c) \/ Unlock(c) \/ Close(c)

Main ==
    \/ Listen \/ BindFails \/ CheckShutdown \/ CloseServer \/ Exit \/ AcceptFails
    \/ \E c \in Conn : Accept(c)

Environment ==
    \/ Boot \/ Kill \/ PowerLoss
    \/ \E s \in Signals : Signal(s)
    \/ \E c \in Conn : Connect(c)

(* Nothing is in progress: the process is down for good, or the main       *)
(* thread sleeps in accept() and no client is left.                        *)
Quiescent ==
    /\ \/ mpc = "down" /\ boots = MaxBoots
       \/ mpc = "accept"
    /\ \A c \in Conn : pc[c] \in {"closed", "gone"} \/ (mpc = "down" /\ pc[c] = "idle")
    /\ UNCHANGED vars

Next == Main \/ Environment \/ Quiescent \/ \E c \in Conn : Worker(c)

(* The kernel schedules every thread that can run; recv() returns within   *)
(* REQUEST_TIMEOUT_SECONDS.  Nothing makes a client connect, a signal      *)
(* arrive or a stopped process start again.                                *)
Fairness ==
    /\ WF_vars(Main)
    /\ \A c \in Conn : WF_vars(Worker(c))

Spec == Init /\ [][Next]_vars /\ Fairness
-------------------------------------------------------------------------------
(* Properties *)

TypeOK ==
    /\ mpc \in MainPc
    /\ shutdown_requested \in BOOLEAN
    /\ armed \subseteq Signals
    /\ boots \in 0 .. MaxBoots
    /\ pc \in [Conn -> Pc]
    /\ sent \in [Conn -> Requests]
    /\ req \in [Conn -> Request \cup {NoRequest}]
    /\ status \in [Conn -> Status]
    /\ metrics_lock \in Conn \cup {Nobody}
    /\ metrics \in Metrics
    /\ lines \in Seq(Line)
    /\ tail \in Tail_
    /\ synced \in 0 .. Len(lines)
    /\ acked \subseteq Conn
    /\ astray \subseteq Conn
    /\ loaded \in Nat

Running == mpc \notin {"down", "returned"}

(* The connections this process has counted and answered. *)
Counted == {c \in Conn : /\ pc[c] \in {"unlock", "close", "closed"}
                        /\ status[c] # 0
                        /\ ~Overflow(req[c])}

(* Whenever the mutex is free the counters that GET /api/v1/metrics shows  *)
(* are those of the journal that was loaded plus exactly one count for     *)
(* every answer given since: no update of two workers is lost, none is     *)
(* seen half done, whichever way append_journal or the client failed.      *)
CountersMatchAnswers ==
    Running /\ metrics_lock = Nobody =>
        /\ metrics.requests = loaded + Cardinality(Counted)
        /\ metrics.authorized = loaded + Cardinality({c \in Counted : Admitted(req[c])})
        /\ metrics.rejected = Cardinality({c \in Counted : status[c] = 401})
        /\ metrics.errors =
              Cardinality({c \in Counted : status[c] \in {400, 403, 413, 503}})

(* The event the running server shows is the one a restarted server would  *)
(* load, whenever the mutex is free and no answer of this process was a    *)
(* 503: last_event, set before append_journal, and the journal do not      *)
(* drift apart through the order of the workers.                           *)
RestartShowsSameEvent ==
    Running /\ metrics_lock = Nobody
    /\ ~(\E c \in Conn : pc[c] \in {"unlock", "close", "closed"} /\ status[c] = 503)
        => metrics.last_event = LoadedEvent(lines, tail)

(* The record of c is in the first n lines, with the text that was         *)
(* accepted.                                                               *)
Recorded(c, n) ==
    \E i \in 1 .. n : lines[i] = [by |-> c, event |-> req[c].event]

(* A client that has received a 201 finds its record, unaltered, in the    *)
(* part of the journal that is on the disk, whatever fails or crashes in   *)
(* or after append_journal.  Records accepted by a worker that outlived    *)
(* api_server_run are the exception.                                       *)
AckedIsDurable == \A c \in acked \ astray : Recorded(c, synced)

(* The journal with its acknowledgements is a durable log that only        *)
(* authorized, unblocked submissions enter, each of them once.             *)
Contract == INSTANCE ApiContract WITH log <- lines, acked <- acked \ astray
ImplementsContract == Contract!Spec

(* Every accepted connection is closed, or lost with the process: no       *)
(* worker waits for the mutex for ever, whichever way the others end.      *)
ConnectionsEnd ==
    \A c \in Conn : pc[c] = "recv" ~> pc[c] \in {"closed", "gone"}

(* A requested shutdown ends the process, however many workers and queued  *)
(* clients there are, unless the main thread sleeps in accept() without a  *)
(* client; then it ends after the next client comes.                       *)
Asleep == mpc = "accept" /\ \A c \in Conn : pc[c] # "queued"
ShutdownUnlessIdle == (shutdown_requested /\ ~Asleep) ~> mpc = "down"

-------------------------------------------------------------------------------
(* What the documentation says and the code does not do. *)

(* docs/architecture.md: "metrics and journal writes are synchronized so   *)
(* concurrent requests cannot corrupt shared state".  No worker is in      *)
(* handle_request when the metrics it uses are gone.                       *)
MetricsOutliveWorkers ==
    mpc = "returned" => \A c \in Conn : pc[c] \notin InLock
===============================================================================
