--------------------------- MODULE ApiServer_proofs ---------------------------
(***************************************************************************)
(* Theorems about ApiServer, for every set of connections, requests,       *)
(* signals and faults and every number of restarts.                        *)
(***************************************************************************)
EXTENDS ApiServer, FiniteSetTheorems, TLAPS

(* What append_journal is called with. *)
Acceptable(r) ==
    r # NoRequest /\ Posted(r) /\ r.event # NoEvent /\ security_check(r.event)

(* TypeOK is not inductive: that lines are well typed depends on the       *)
(* guard of Publish, which still holds when the worker writes.             *)
AppendsAcceptable == \A c \in Conn : pc[c] = "append" => Acceptable(req[c])

TypeInv == TypeOK /\ AppendsAcceptable

-------------------------------------------------------------------------------
(* Lemmas about requests and the journal. *)

(* A whole record of an event is a line. *)
LEMMA WholeLineType ==
    ASSUME NEW c \in Conn, NEW e \in Event, NEW t
    PROVE  WholeLine(t, c, e) \in Line
BY DEF WholeLine, Line, Text

(* What load_journal makes of a journal. *)
LEMMA LoadedType ==
    ASSUME NEW ls \in Seq(Line), NEW t
    PROVE  /\ LoadedRequests(ls, t) \in Nat
           /\ LoadedEvent(ls, t) \in Text \cup {NoEvent}
<1>1. LoadedRequests(ls, t) \in Nat
  BY DEF LoadedRequests
<1>2. CASE t = "text" \/ ls = <<>>
  BY <1>1, <1>2 DEF LoadedEvent, Text
<1>3. CASE t # "text" /\ ls # <<>>
  <2>1. Len(ls) \in 1 .. Len(ls)
    BY <1>3
  <2>2. ls[Len(ls)] \in Line
    BY <2>1
  <2>. QED  BY <1>1, <1>3, <2>2 DEF LoadedEvent, Line
<1>. QED  BY <1>2, <1>3
-------------------------------------------------------------------------------
(* Type correctness *)

LEMMA TypeInit == Init => TypeInv
<1>. SUFFICES ASSUME Init PROVE TypeInv
  OBVIOUS
<1>. USE DEF Init
<1>1. metrics \in Metrics
  BY DEF Metrics, LoadedMetrics
<1>2. lines \in Seq(Line) /\ synced \in 0 .. Len(lines) /\ tail \in Tail_
  BY DEF Tail_
<1>3. mpc \in MainPc /\ armed \subseteq Signals
  BY DEF MainPc
<1>4. shutdown_requested \in BOOLEAN
  OBVIOUS
<1>5. boots \in 0 .. MaxBoots
  BY ServerAssumption
<1>6. pc \in [Conn -> Pc] /\ req \in [Conn -> Request \cup {NoRequest}]
  BY DEF Pc
<1>7. status \in [Conn -> Status]
  BY DEF Status
<1>8. AppendsAcceptable
  BY DEF AppendsAcceptable
<1>. QED  BY <1>1, <1>2, <1>3, <1>4, <1>5, <1>6, <1>7, <1>8 DEF TypeInv, TypeOK

LEMMA TypeMain == TypeInv /\ Main => TypeInv'
<1>. SUFFICES ASSUME TypeInv, Main PROVE TypeInv'
  OBVIOUS
<1>. USE DEF TypeInv, TypeOK, AppendsAcceptable, MainPc, Pc, InLock,
             main, client, work, shared, disk
<1>1. CASE Listen \/ CheckShutdown \/ AcceptFails
  BY <1>1 DEF Listen, CheckShutdown, AcceptFails
<1>2. CASE BindFails \/ Exit
  BY <1>2 DEF BindFails, Exit, ProcessEnds
<1>3. CASE CloseServer
  BY <1>3 DEF CloseServer
<1>4. ASSUME NEW c \in Conn, Accept(c) PROVE TypeInv'
  BY <1>4 DEF Accept
<1>. QED  BY <1>1, <1>2, <1>3, <1>4 DEF Main

LEMMA TypeEnvironment == TypeInv /\ Environment => TypeInv'
<1>. SUFFICES ASSUME TypeInv, Environment PROVE TypeInv'
  OBVIOUS
<1>. USE DEF TypeInv, TypeOK, AppendsAcceptable, MainPc, Pc, InLock,
             main, client, work, shared, disk
<1>1. CASE Boot
  <2>1. \E n \in Nat, e \in Text \cup {NoEvent} : Load(n, e)
    <3>1. /\ LoadedRequests(lines, tail) \in Nat
          /\ LoadedEvent(lines, tail) \in Text \cup {NoEvent}
      BY LoadedType
    <3>2. 0 \in Nat /\ NoEvent \in Text \cup {NoEvent}
      OBVIOUS
    <3>. QED  BY <1>1, <3>1, <3>2 DEF Boot
  <2>2. metrics' \in Metrics /\ loaded' \in Nat
    BY <2>1 DEF Load, LoadedMetrics, Metrics
  <2>3. boots' \in 0 .. MaxBoots
    BY <1>1, ServerAssumption DEF Boot
  <2>4. UNCHANGED <<pc, client, work, disk>> /\ mpc' = "bind" /\ armed' = Signals
        /\ shutdown_requested' = FALSE /\ metrics_lock' = Nobody
    BY <1>1 DEF Boot
  <2>. QED  BY <2>2, <2>3, <2>4
<1>2. CASE Kill
  BY <1>2 DEF Kill, ProcessEnds
<1>3. CASE PowerLoss
  <2>1. PICK n \in synced .. Len(lines) :
          /\ lines' = SubSeq(lines, 1, n)
          /\ synced' = n
          /\ tail' \in IF n = Len(lines) THEN Remains[tail]
                      ELSE IF "torn" \in Faults THEN Remains["text"]
                      ELSE {"none"}
    BY <1>3 DEF PowerLoss
  <2>2. lines' \in Seq(Line) /\ synced' \in 0 .. Len(lines')
    BY <2>1
  <2>3. tail' \in Tail_
    BY <2>1 DEF Remains, Tail_, Cut
  <2>. QED  BY <1>3, <2>2, <2>3 DEF PowerLoss, ProcessEnds
<1>4. ASSUME NEW s \in Signals, Signal(s) PROVE TypeInv'
  BY <1>4 DEF Signal
<1>5. ASSUME NEW c \in Conn, Connect(c) PROVE TypeInv'
  BY <1>5 DEF Connect
<1>. QED  BY <1>1, <1>2, <1>3, <1>4, <1>5 DEF Environment

(* Answering from the handler: the counters stay numbers. *)
LEMMA CountType ==
    ASSUME metrics \in Metrics, NEW a \in Nat, NEW r \in Nat, NEW e \in Nat,
           Count(a, r, e)
    PROVE  metrics' \in Metrics
<1>1. /\ metrics.requests + 1 \in Nat /\ metrics.authorized + a \in Nat
      /\ metrics.rejected + r \in Nat /\ metrics.errors + e \in Nat
  BY DEF Metrics
<1>. QED  BY <1>1 DEF Metrics, Count

LEMMA TypeRespond ==
    ASSUME TypeInv, NEW c \in Conn, NEW code \in Status,
           NEW a \in Nat, NEW r \in Nat, NEW e \in Nat,
           Respond(c, code, a, r, e)
    PROVE  TypeInv'
<1>1. metrics' \in Metrics
  BY CountType DEF Respond, TypeInv, TypeOK
<1>. QED  BY <1>1 DEF Respond, Goto, Answer, TypeInv, TypeOK, AppendsAcceptable,
       Pc, InLock, main, client, disk

LEMMA TypeHandle == \A c \in Conn : TypeInv /\ Handle(c) => TypeInv'
<1>. SUFFICES ASSUME NEW c \in Conn, TypeInv, Handle(c) PROVE TypeInv'
  OBVIOUS
<1>1. CASE Ignore(c)
  BY <1>1 DEF Ignore, Goto, TypeInv, TypeOK, AppendsAcceptable, Pc, InLock,
     main, client, work, shared, disk
<1>2. CASE RefuseOverflow(c)
  BY <1>2 DEF RefuseOverflow, Goto, Answer, TypeInv, TypeOK, AppendsAcceptable,
     Pc, InLock, Status, main, client, shared, disk
<1>3. CASE RefuseLarge(c)
  BY <1>3, TypeRespond DEF RefuseLarge, Status
<1>4. CASE Health(c)
  BY <1>4, TypeRespond DEF Health, Status
<1>5. CASE Deny(c)
  BY <1>5, TypeRespond DEF Deny, Status
<1>6. CASE View(c)
  BY <1>6, TypeRespond DEF View, Status
<1>7. CASE NotRouted(c)
  BY <1>7, TypeRespond DEF NotRouted, Status
<1>8. CASE Invalid(c)
  BY <1>8, TypeRespond DEF Invalid, Status
<1>9. CASE Block(c)
  BY <1>9, TypeRespond DEF Block, Status
<1>10. CASE Publish(c)
  <2>1. Acceptable(req[c]) /\ req[c].event \in Text
    BY <1>10 DEF Publish, Acceptable, TypeInv, TypeOK, Request, Text
  <2>2. metrics' \in Metrics
    <3>1. metrics.requests + 1 \in Nat /\ metrics.authorized + 1 \in Nat
      BY DEF TypeInv, TypeOK, Metrics
    <3>. QED  BY <1>10, <2>1, <3>1 DEF Publish, TypeInv, TypeOK, Metrics
  <2>3. pc' = [pc EXCEPT ![c] = "append"] /\ UNCHANGED <<main, client, work, metrics_lock, loaded, disk>>
    BY <1>10 DEF Publish, Goto
  <2>4. TypeOK'
    BY <2>2, <2>3 DEF TypeInv, TypeOK, Pc, InLock, main, client, work, disk
  <2>5. AppendsAcceptable'
    BY <2>1, <2>3 DEF TypeInv, TypeOK, AppendsAcceptable, work
  <2>. QED  BY <2>4, <2>5 DEF TypeInv
<1>. QED  BY <1>1, <1>2, <1>3, <1>4, <1>5, <1>6, <1>7, <1>8, <1>9, <1>10 DEF Handle
LEMMA TypeAppend == \A c \in Conn : TypeInv /\ AppendJournal(c) => TypeInv'
<1>. SUFFICES ASSUME NEW c \in Conn, TypeInv, AppendJournal(c) PROVE TypeInv'
  OBVIOUS
<1>. USE DEF TypeInv, TypeOK, AppendsAcceptable, Pc, InLock, main, client, work, shared, disk
<1>1. ASSUME NEW from \in Pc, Unavailable(c, from),
             UNCHANGED <<lines, synced, astray>>, tail' \in Tail_
      PROVE  TypeInv'
  <2>1. metrics' \in Metrics
    <3>1. metrics.errors + 1 \in Nat
      BY DEF Metrics
    <3>. QED  BY <1>1, <3>1 DEF Unavailable, Metrics
  <2>2. status' \in [Conn -> Status]
    BY <1>1 DEF Unavailable, Answer, Status
  <2>3. pc' = [pc EXCEPT ![c] = "reply"] /\ UNCHANGED <<main, client, req, metrics_lock, loaded>>
    BY <1>1 DEF Unavailable, Goto
  <2>. QED  BY <1>1, <2>1, <2>2, <2>3
<1>2. CASE OpenFails(c)
  BY <1>1, <1>2 DEF OpenFails
<1>3. CASE Write(c)
  <2>1. req[c].event \in Event
    BY <1>3 DEF Write, Goto, Acceptable, Request
  <2>2. WholeLine(tail, c, req[c].event) \in Line
    BY <2>1, WholeLineType
  <2>3. lines' \in Seq(Line) /\ synced' \in 0 .. Len(lines') /\ tail' \in Tail_
    BY <1>3, <2>2 DEF Write, Tail_
  <2>. QED  BY <1>3, <2>3 DEF Write, Goto
<1>4. CASE WriteTorn(c)
  BY <1>1, <1>4 DEF WriteTorn, TornTail, Tail_, Cut
<1>5. CASE WriteAstray(c)
  BY <1>5 DEF WriteAstray, Goto, Answer, Status
<1>6. CASE Sync(c)
  BY <1>6 DEF Sync, Goto, Answer, Status
<1>7. CASE SyncFails(c)
  BY <1>1, <1>7 DEF SyncFails
<1>. QED  BY <1>2, <1>3, <1>4, <1>5, <1>6, <1>7 DEF AppendJournal

LEMMA TypeWorker == \A c \in Conn : TypeInv /\ Worker(c) => TypeInv'
<1>. SUFFICES ASSUME NEW c \in Conn, TypeInv, Worker(c) PROVE TypeInv'
  OBVIOUS
<1>1. CASE Receive(c)
  <2>1. req' \in [Conn -> Request \cup {NoRequest}]
    BY <1>1, ServerAssumption DEF Receive, ShortReads, TypeInv, TypeOK
  <2>2. \A d \in Conn : d # c => req'[d] = req[d]
    BY <1>1 DEF Receive, TypeInv, TypeOK
  <2>. QED  BY <1>1, <2>1, <2>2 DEF Receive, Goto, TypeInv, TypeOK, AppendsAcceptable,
         Pc, InLock, main, client, shared, disk
<1>2. CASE Lock(c)
  BY <1>2 DEF Lock, Goto, TypeInv, TypeOK, AppendsAcceptable, Pc, InLock,
     main, client, work, disk
<1>3. CASE Reply(c)
  BY <1>3 DEF Reply, Goto, TypeInv, TypeOK, AppendsAcceptable, Pc, InLock,
     main, work, shared, disk
<1>4. CASE ReplyLost(c)
  BY <1>4 DEF ReplyLost, Goto, TypeInv, TypeOK, AppendsAcceptable, Pc, InLock,
     main, client, work, shared, disk
<1>5. CASE BrokenPipe(c)
  BY <1>5 DEF BrokenPipe, ProcessEnds, TypeInv, TypeOK, AppendsAcceptable, MainPc,
     Pc, InLock, client, work, shared, disk
<1>6. CASE Unlock(c)
  BY <1>6 DEF Unlock, Goto, TypeInv, TypeOK, AppendsAcceptable, Pc, InLock,
     main, client, work, disk
<1>7. CASE Close(c)
  BY <1>7 DEF Close, Goto, TypeInv, TypeOK, AppendsAcceptable, Pc, InLock,
     main, client, work, shared, disk
<1>. QED  BY <1>1, <1>2, <1>3, <1>4, <1>5, <1>6, <1>7, TypeHandle, TypeAppend DEF Worker

LEMMA TypeStutter == TypeInv /\ UNCHANGED vars => TypeInv'
BY DEF TypeInv, TypeOK, AppendsAcceptable, vars, main, client, work, shared, disk

LEMMA TypeInvariant == Spec => []TypeInv
<1>1. TypeInv /\ [Next]_vars => TypeInv'
  BY TypeMain, TypeEnvironment, TypeWorker, TypeStutter DEF Next, Quiescent
<1>. QED  BY <1>1, TypeInit, PTL DEF Spec

(* Every variable keeps its type: in particular what load_journal and the  *)
(* workers put into the journal and the metrics is always a well formed    *)
(* line and a well formed set of counters.                                 *)
THEOREM TypeCorrect == Spec => []TypeOK
<1>1. TypeInv => TypeOK
  BY DEF TypeInv
<1>. QED  BY <1>1, TypeInvariant, PTL
-------------------------------------------------------------------------------
(* Mutual exclusion *)

(* The worker inside handle_request is the one that holds the mutex. *)
LockHeld == \A c \in Conn : pc[c] \in InLock => metrics_lock = c

(* No connection outlives the process: why Boot may free the mutex. *)
NothingOutlives == mpc = "down" => \A c \in Conn : pc[c] \in {"idle", "gone"}

LockInv == LockHeld /\ NothingOutlives

LEMMA LockMain == TypeOK /\ LockInv /\ Main => LockInv'
<1>. SUFFICES ASSUME TypeOK, LockInv, Main PROVE LockInv'
  OBVIOUS
<1>. USE DEF LockInv, LockHeld, NothingOutlives, TypeOK, InLock, main, shared
<1>1. CASE Listen \/ CheckShutdown \/ AcceptFails
  BY <1>1 DEF Listen, CheckShutdown, AcceptFails
<1>2. CASE BindFails \/ Exit
  BY <1>2 DEF BindFails, Exit, ProcessEnds
<1>3. CASE CloseServer
  BY <1>3 DEF CloseServer
<1>4. ASSUME NEW c \in Conn, Accept(c) PROVE LockInv'
  BY <1>4 DEF Accept
<1>. QED  BY <1>1, <1>2, <1>3, <1>4 DEF Main

LEMMA LockEnvironment == TypeOK /\ LockInv /\ Environment => LockInv'
<1>. SUFFICES ASSUME TypeOK, LockInv, Environment PROVE LockInv'
  OBVIOUS
<1>. USE DEF LockInv, LockHeld, NothingOutlives, TypeOK, InLock, main, shared
<1>1. CASE Boot
  BY <1>1 DEF Boot
<1>2. CASE Kill \/ PowerLoss
  BY <1>2 DEF Kill, PowerLoss, ProcessEnds
<1>3. ASSUME NEW s \in Signals, Signal(s) PROVE LockInv'
  BY <1>3 DEF Signal
<1>4. ASSUME NEW c \in Conn, Connect(c) PROVE LockInv'
  BY <1>4 DEF Connect
<1>. QED  BY <1>1, <1>2, <1>3, <1>4 DEF Environment

LEMMA LockWorker == \A c \in Conn : TypeOK /\ LockInv /\ Worker(c) => LockInv'
<1>. SUFFICES ASSUME NEW c \in Conn, TypeOK, LockInv, Worker(c) PROVE LockInv'
  OBVIOUS
<1>. USE DEF LockInv, LockHeld, NothingOutlives, TypeOK, InLock, main, shared, Goto
<1>1. ASSUME NEW to \in Pc, pc[c] \in InLock, pc' = [pc EXCEPT ![c] = to],
             UNCHANGED <<main, metrics_lock>>
      PROVE  LockInv'
  BY <1>1
<1>2. CASE Receive(c) \/ Close(c)
  BY <1>2 DEF Receive, Close
<1>3. CASE Lock(c)
  BY <1>3, ServerAssumption DEF Lock
<1>4. CASE Handle(c)
  BY <1>1, <1>4 DEF Handle, Ignore, RefuseOverflow, RefuseLarge, Health, Deny, View,
     NotRouted, Invalid, Block, Publish, Respond, Pc
<1>5. CASE AppendJournal(c)
  BY <1>1, <1>5 DEF AppendJournal, OpenFails, Write, WriteTorn, WriteAstray, Sync,
     SyncFails, Unavailable, Pc
<1>6. CASE Reply(c) \/ ReplyLost(c)
  BY <1>1, <1>6 DEF Reply, ReplyLost, Pc
<1>7. CASE BrokenPipe(c)
  BY <1>7 DEF BrokenPipe, ProcessEnds
<1>8. CASE Unlock(c)
  BY <1>8 DEF Unlock
<1>. QED  BY <1>2, <1>3, <1>4, <1>5, <1>6, <1>7, <1>8 DEF Worker

LEMMA LockInvariant == Spec => []LockInv
<1>1. Init => LockInv
  BY DEF Init, LockInv, LockHeld, NothingOutlives, InLock
<1>2. TypeOK /\ LockInv /\ UNCHANGED vars => LockInv'
  BY DEF LockInv, LockHeld, NothingOutlives, vars, main, shared
<1>3. TypeOK /\ LockInv /\ [Next]_vars => LockInv'
  BY <1>2, LockMain, LockEnvironment, LockWorker DEF Next, Quiescent
<1>. QED  BY <1>1, <1>3, TypeCorrect, PTL DEF Spec

(* metrics_lock does what its name says: no two workers are ever inside    *)
(* handle_request and append_journal at once, across every kill and        *)
(* restart.                                                                *)
THEOREM MutualExclusion ==
    Spec => [](\A c, d \in Conn : pc[c] \in InLock /\ pc[d] \in InLock => c = d)
<1>1. LockInv => \A c, d \in Conn : pc[c] \in InLock /\ pc[d] \in InLock => c = d
  BY DEF LockInv, LockHeld
<1>. QED  BY <1>1, LockInvariant, PTL
-------------------------------------------------------------------------------
(* Durability *)

(* The worker has not written yet. *)
Early == {"idle", "queued", "recv", "lock", "handle", "append"}

(* A connection that is still early has neither a record nor a 201. *)
EarlyIsFresh ==
    \A c \in Conn : pc[c] \in Early =>
        c \notin acked /\ c \notin astray /\ \A i \in 1 .. Len(lines) : lines[i].by # c

(* The way of a record to its acknowledgement: in the file when the worker *)
(* calls fsync, on the disk when a 201 is about to be sent, and on the     *)
(* disk for ever after.                                                    *)
WrittenBeforeSync == \A c \in Conn : pc[c] = "sync" => Recorded(c, Len(lines))

DurableBeforeReply ==
    \A c \in Conn \ astray :
        pc[c] = "reply" /\ status[c] = 201 => Recorded(c, synced)

DurableInv ==
    /\ tail = "none"
    /\ EarlyIsFresh
    /\ WrittenBeforeSync
    /\ DurableBeforeReply
    /\ AckedIsDurable

(* A step that leaves the journal, the requests and the acknowledgements   *)
(* alone, and takes no worker back or to its sync or its 201.              *)
Calm ==
    /\ UNCHANGED <<lines, tail, synced, acked, astray, req, sent>>
    /\ \A c \in Conn :
          /\ pc'[c] \in Early => pc[c] \in Early
          /\ pc'[c] = "append" => pc[c] = "append" \/ Acceptable(req[c])
          /\ pc'[c] = "sync" => pc[c] = "sync"
          /\ pc'[c] = "reply" /\ status'[c] = 201 =>
                 pc[c] = "reply" /\ status[c] = 201

LEMMA CalmMain == TypeOK /\ Main => Calm
<1>. SUFFICES ASSUME TypeOK, Main PROVE Calm
  OBVIOUS
<1>. USE DEF Calm, TypeOK, Early, main, client, work, disk
<1>1. CASE Listen \/ CheckShutdown \/ AcceptFails
  BY <1>1 DEF Listen, CheckShutdown, AcceptFails
<1>2. CASE BindFails \/ Exit
  BY <1>2 DEF BindFails, Exit, ProcessEnds
<1>3. CASE CloseServer
  BY <1>3 DEF CloseServer
<1>4. ASSUME NEW c \in Conn, Accept(c) PROVE Calm
  BY <1>4 DEF Accept
<1>. QED  BY <1>1, <1>2, <1>3, <1>4 DEF Main

LEMMA CalmEnvironment == TypeOK /\ Environment => Calm \/ PowerLoss
<1>. SUFFICES ASSUME TypeOK, Environment, ~PowerLoss PROVE Calm
  OBVIOUS
<1>. USE DEF Calm, TypeOK, Early, main, client, work, disk
<1>1. CASE Boot
  BY <1>1 DEF Boot
<1>2. CASE Kill
  BY <1>2 DEF Kill, ProcessEnds
<1>3. ASSUME NEW s \in Signals, Signal(s) PROVE Calm
  BY <1>3 DEF Signal
<1>4. ASSUME NEW c \in Conn, Connect(c) PROVE Calm
  BY <1>4 DEF Connect
<1>. QED  BY <1>1, <1>2, <1>3, <1>4 DEF Environment

LEMMA CalmHandle == \A c \in Conn : TypeOK /\ Handle(c) => Calm
<1>. SUFFICES ASSUME NEW c \in Conn, TypeOK, Handle(c) PROVE Calm
  OBVIOUS
<1>. USE DEF Calm, TypeOK, Early, Goto, main, client, work, disk
<1>1. ASSUME NEW code \in Status \ {201}, NEW a, NEW r, NEW e, Respond(c, code, a, r, e)
      PROVE  Calm
  BY <1>1 DEF Respond, Answer
<1>2. CASE Ignore(c)
  BY <1>2 DEF Ignore
<1>3. CASE RefuseOverflow(c)
  BY <1>3 DEF RefuseOverflow, Answer
<1>4. CASE RefuseLarge(c) \/ Health(c) \/ Deny(c) \/ View(c)
  BY <1>1, <1>4 DEF RefuseLarge, Health, Deny, View, Status
<1>5. CASE NotRouted(c) \/ Invalid(c) \/ Block(c)
  BY <1>1, <1>5 DEF NotRouted, Invalid, Block, Status
<1>6. CASE Publish(c)
  BY <1>6 DEF Publish, Acceptable
<1>. QED  BY <1>2, <1>3, <1>4, <1>5, <1>6 DEF Handle

(* Only these steps are not calm. *)
LEMMA CalmWorker ==
    \A c \in Conn : TypeOK /\ Worker(c) =>
        \/ Calm
        \/ Receive(c) \/ Write(c) \/ WriteTorn(c) \/ WriteAstray(c) \/ Sync(c) \/ Reply(c)
<1>. SUFFICES ASSUME NEW c \in Conn, TypeOK, Worker(c)
              PROVE  \/ Calm
                     \/ Receive(c) \/ Write(c) \/ WriteTorn(c)
                     \/ WriteAstray(c) \/ Sync(c) \/ Reply(c)
  OBVIOUS
<1>1. CASE OpenFails(c) \/ SyncFails(c)
  BY <1>1 DEF OpenFails, SyncFails, Unavailable, Goto, Answer, Calm, TypeOK, Early,
     client, disk
<1>2. CASE Lock(c) \/ ReplyLost(c) \/ Unlock(c) \/ Close(c)
  BY <1>2 DEF Lock, ReplyLost, Unlock, Close, Goto, Calm, TypeOK, Early, client,
     work, disk
<1>3. CASE BrokenPipe(c)
  BY <1>3 DEF BrokenPipe, ProcessEnds, Calm, TypeOK, Early, client, work, disk
<1>. QED  BY <1>1, <1>2, <1>3, CalmHandle DEF Worker, AppendJournal

LEMMA CalmNext ==
    ASSUME TypeOK, [Next]_vars
    PROVE  \/ Calm \/ PowerLoss
           \/ \E c \in Conn : \/ Receive(c) \/ Write(c) \/ WriteTorn(c)
                             \/ WriteAstray(c) \/ Sync(c) \/ Reply(c)
<1>1. UNCHANGED vars => Calm
  BY DEF Calm, vars, client, work, disk
<1>. QED  BY <1>1, CalmMain, CalmEnvironment, CalmWorker DEF Next, Quiescent
LEMMA DurableCalm == TypeInv /\ DurableInv /\ Calm => DurableInv'
<1>. SUFFICES ASSUME TypeInv, DurableInv, Calm PROVE DurableInv'
  OBVIOUS
<1>1. EarlyIsFresh'
  BY DEF DurableInv, EarlyIsFresh, Calm
<1>2. WrittenBeforeSync'
  BY DEF DurableInv, WrittenBeforeSync, Recorded, Calm
<1>3. DurableBeforeReply'
  BY DEF DurableInv, DurableBeforeReply, Recorded, Calm
<1>4. AckedIsDurable'
  BY DEF DurableInv, AckedIsDurable, Recorded, Calm
<1>. QED  BY <1>1, <1>2, <1>3, <1>4 DEF DurableInv, Calm

(* What a power loss leaves: the synced lines are untouched, no worker is. *)
LEMMA DurablePowerLoss ==
    ASSUME "torn" \notin Faults, TypeInv, DurableInv, PowerLoss
    PROVE  DurableInv'
<1>1. PICK n \in synced .. Len(lines) :
        /\ lines' = SubSeq(lines, 1, n)
        /\ synced' = n
        /\ tail' \in IF n = Len(lines) THEN Remains[tail] ELSE {"none"}
  BY DEF PowerLoss
<1>2. tail' = "none"
  BY <1>1 DEF Remains, DurableInv
<1>3. synced \in 0 .. n /\ n \in 0 .. Len(lines) /\ lines \in Seq(Line)
  BY <1>1 DEF TypeInv, TypeOK
<1>4. Len(lines') = n /\ \A i \in 1 .. n : lines'[i] = lines[i]
  BY <1>1, <1>3
<1>5. /\ \A c \in Conn : pc'[c] = IF pc[c] = "idle" THEN "idle" ELSE "gone"
      /\ UNCHANGED <<req, acked, astray>>
  BY DEF PowerLoss, ProcessEnds, client, work
<1>6. EarlyIsFresh'
  BY <1>3, <1>4, <1>5 DEF DurableInv, EarlyIsFresh, Early
<1>7. WrittenBeforeSync' /\ DurableBeforeReply'
  BY <1>5 DEF WrittenBeforeSync, DurableBeforeReply
<1>8. AckedIsDurable'
  <2>. SUFFICES ASSUME NEW c \in acked' \ astray' PROVE Recorded(c, synced)'
    BY DEF AckedIsDurable
  <2>1. PICK i \in 1 .. synced : lines[i] = [by |-> c, event |-> req[c].event]
    BY <1>5 DEF DurableInv, AckedIsDurable, Recorded
  <2>2. i \in 1 .. n
    BY <1>3, <2>1
  <2>. QED  BY <1>1, <1>4, <1>5, <2>1, <2>2 DEF Recorded
<1>. QED  BY <1>2, <1>6, <1>7, <1>8 DEF DurableInv

LEMMA DurableReceive ==
    ASSUME TypeInv, DurableInv, NEW c \in Conn, Receive(c)
    PROVE  DurableInv'
<1>1. /\ \A d \in Conn : d # c => req'[d] = req[d] /\ pc'[d] = pc[d]
      /\ pc[c] = "recv" /\ pc'[c] = "lock"
      /\ UNCHANGED <<status, lines, tail, synced, acked, astray>>
  BY DEF Receive, Goto, TypeInv, TypeOK, client, disk
<1>2. c \notin acked /\ acked \subseteq Conn
  BY <1>1 DEF DurableInv, EarlyIsFresh, Early, TypeInv, TypeOK
<1>3. EarlyIsFresh'
  BY <1>1 DEF DurableInv, EarlyIsFresh, Early
<1>4. WrittenBeforeSync'
  BY <1>1 DEF DurableInv, WrittenBeforeSync, Recorded
<1>5. DurableBeforeReply'
  BY <1>1 DEF DurableInv, DurableBeforeReply, Recorded
<1>6. AckedIsDurable'
  BY <1>1, <1>2 DEF DurableInv, AckedIsDurable, Recorded
<1>. QED  BY <1>1, <1>3, <1>4, <1>5, <1>6 DEF DurableInv

(* The record is the last line, whole, because no fragment precedes it. *)
LEMMA WriteEffect ==
    ASSUME TypeInv, DurableInv, NEW c \in Conn, Write(c)
    PROVE  /\ lines' = Append(lines, [by |-> c, event |-> req[c].event])
           /\ Len(lines') = Len(lines) + 1
           /\ \A i \in 1 .. Len(lines) : lines'[i] = lines[i]
           /\ lines'[Len(lines) + 1] = [by |-> c, event |-> req[c].event]
<1>1. lines' = Append(lines, [by |-> c, event |-> req[c].event])
  BY DEF Write, WholeLine, DurableInv
<1>2. lines \in Seq(Line) /\ [by |-> c, event |-> req[c].event] \in Line
  BY WholeLineType DEF Write, Goto, TypeInv, TypeOK, AppendsAcceptable, Acceptable,
     Request, Line, Text
<1>. QED  BY <1>1, <1>2

LEMMA DurableWrite ==
    ASSUME TypeInv, DurableInv, NEW c \in Conn, Write(c)
    PROVE  DurableInv'
<1>1. /\ \A d \in Conn : d # c => pc'[d] = pc[d]
      /\ pc[c] = "append" /\ pc'[c] = "sync" /\ tail' = "none"
      /\ UNCHANGED <<req, status, synced, acked, astray>>
  BY DEF Write, Goto, TypeInv, TypeOK, client, work
<1>2. Len(lines) \in Nat /\ synced \in 0 .. Len(lines)
  BY DEF TypeInv, TypeOK
<1>3. ASSUME NEW d \in Conn, NEW n \in 0 .. Len(lines), Recorded(d, n)
      PROVE  Recorded(d, n)' /\ Recorded(d, Len(lines))'
  <2>1. PICK i \in 1 .. n : lines[i] = [by |-> d, event |-> req[d].event]
    BY <1>3 DEF Recorded
  <2>2. i \in 1 .. Len(lines) /\ i \in 1 .. Len(lines) + 1
    BY <1>2, <2>1
  <2>3. lines'[i] = [by |-> d, event |-> req'[d].event]
    BY <1>1, <2>1, <2>2, WriteEffect
  <2>. QED  BY <2>1, <2>2, <2>3, WriteEffect DEF Recorded
<1>4. EarlyIsFresh'
  <2>. SUFFICES ASSUME NEW d \in Conn, pc'[d] \in Early
                PROVE  /\ d \notin acked' /\ d \notin astray'
                       /\ \A i \in 1 .. Len(lines') : lines'[i].by # d
    BY DEF EarlyIsFresh
  <2>1. d # c /\ pc[d] \in Early
    BY <1>1 DEF Early
  <2>2. \A i \in 1 .. Len(lines) : lines'[i].by # d
    <3>1. \A i \in 1 .. Len(lines) : lines[i].by # d
      BY <2>1 DEF DurableInv, EarlyIsFresh
    <3>2. \A i \in 1 .. Len(lines) : lines'[i] = lines[i]
      BY WriteEffect
    <3>. QED  BY <3>1, <3>2
  <2>3. lines'[Len(lines) + 1].by # d
    <3>1. lines'[Len(lines) + 1] = [by |-> c, event |-> req[c].event]
      BY WriteEffect
    <3>. QED  BY <2>1, <3>1
  <2>4. \A i \in 1 .. Len(lines') : i \in 1 .. Len(lines) \/ i = Len(lines) + 1
    <3>1. Len(lines') = Len(lines) + 1
      BY WriteEffect
    <3>. QED  BY <1>2, <3>1
  <2>. QED  BY <1>1, <2>1, <2>2, <2>3, <2>4 DEF DurableInv, EarlyIsFresh
<1>5. WrittenBeforeSync'
  <2>1. Recorded(c, Len(lines))'
    BY <1>1, <1>2, WriteEffect DEF Recorded
  <2>2. \A d \in Conn : d # c /\ pc'[d] = "sync" => Recorded(d, Len(lines))'
    BY <1>1, <1>2, <1>3 DEF DurableInv, WrittenBeforeSync
  <2>. QED  BY <2>1, <2>2 DEF WrittenBeforeSync
<1>6. DurableBeforeReply'
  BY <1>1, <1>2, <1>3 DEF DurableInv, DurableBeforeReply
<1>7. AckedIsDurable'
  BY <1>1, <1>2, <1>3 DEF DurableInv, AckedIsDurable, TypeInv, TypeOK
<1>. QED  BY <1>1, <1>4, <1>5, <1>6, <1>7 DEF DurableInv

LEMMA DurableWriteAstray ==
    ASSUME TypeInv, DurableInv, NEW c \in Conn, WriteAstray(c)
    PROVE  DurableInv'
<1>1. /\ \A d \in Conn : d # c => pc'[d] = pc[d] /\ status'[d] = status[d]
      /\ pc'[c] = "reply" /\ astray' = astray \cup {c}
      /\ UNCHANGED <<req, lines, tail, synced, acked>>
  BY DEF WriteAstray, Goto, Answer, TypeInv, TypeOK, client, shared
<1>2. EarlyIsFresh'
  BY <1>1 DEF DurableInv, EarlyIsFresh, Early
<1>3. WrittenBeforeSync'
  BY <1>1 DEF DurableInv, WrittenBeforeSync, Recorded
<1>4. DurableBeforeReply'
  BY <1>1 DEF DurableInv, DurableBeforeReply, Recorded
<1>5. AckedIsDurable'
  BY <1>1 DEF DurableInv, AckedIsDurable, Recorded
<1>. QED  BY <1>1, <1>2, <1>3, <1>4, <1>5 DEF DurableInv

LEMMA DurableSync ==
    ASSUME TypeInv, DurableInv, NEW c \in Conn, Sync(c)
    PROVE  DurableInv'
<1>1. /\ \A d \in Conn : d # c => pc'[d] = pc[d] /\ status'[d] = status[d]
      /\ pc[c] = "sync" /\ pc'[c] = "reply" /\ synced' = Len(lines)
      /\ UNCHANGED <<req, lines, tail, acked, astray>>
  BY DEF Sync, Goto, Answer, TypeInv, TypeOK, client, shared
<1>2. Len(lines) \in Nat /\ synced \in 0 .. Len(lines)
  BY DEF TypeInv, TypeOK
<1>3. ASSUME NEW d \in Conn, Recorded(d, synced) PROVE Recorded(d, synced)'
  BY <1>1, <1>2, <1>3 DEF Recorded
<1>4. EarlyIsFresh'
  BY <1>1 DEF DurableInv, EarlyIsFresh, Early
<1>5. WrittenBeforeSync'
  BY <1>1 DEF DurableInv, WrittenBeforeSync, Recorded
<1>6. DurableBeforeReply'
  <2>1. Recorded(c, synced)'
    BY <1>1 DEF DurableInv, WrittenBeforeSync, Recorded
  <2>. QED  BY <1>1, <1>3, <2>1 DEF DurableInv, DurableBeforeReply
<1>7. AckedIsDurable'
  BY <1>1, <1>3 DEF DurableInv, AckedIsDurable, TypeInv, TypeOK
<1>. QED  BY <1>1, <1>4, <1>5, <1>6, <1>7 DEF DurableInv

LEMMA DurableReply ==
    ASSUME TypeInv, DurableInv, NEW c \in Conn, Reply(c)
    PROVE  DurableInv'
<1>1. /\ \A d \in Conn : d # c => pc'[d] = pc[d]
      /\ pc[c] = "reply" /\ pc'[c] = "unlock"
      /\ acked' = IF status[c] = 201 THEN acked \cup {c} ELSE acked
      /\ UNCHANGED <<req, status, lines, tail, synced, astray>>
  BY DEF Reply, Goto, TypeInv, TypeOK, work, disk
<1>2. EarlyIsFresh'
  BY <1>1 DEF DurableInv, EarlyIsFresh, Early
<1>3. WrittenBeforeSync' /\ DurableBeforeReply'
  BY <1>1 DEF DurableInv, WrittenBeforeSync, DurableBeforeReply, Recorded
<1>4. AckedIsDurable'
  BY <1>1 DEF DurableInv, AckedIsDurable, DurableBeforeReply, Recorded
<1>. QED  BY <1>1, <1>2, <1>3, <1>4 DEF DurableInv

LEMMA DurableInvariant == ASSUME "torn" \notin Faults PROVE Spec => []DurableInv
<1>1. Init => DurableInv
  BY DEF Init, DurableInv, EarlyIsFresh, WrittenBeforeSync, DurableBeforeReply,
     AckedIsDurable
<1>2. TypeInv /\ DurableInv /\ [Next]_vars => DurableInv'
  <2>. SUFFICES ASSUME TypeInv, DurableInv, [Next]_vars PROVE DurableInv'
    OBVIOUS
  <2>1. \A c \in Conn : ~WriteTorn(c)
    BY DEF WriteTorn
  <2>. QED  BY <2>1, CalmNext, DurableCalm, DurablePowerLoss, DurableReceive,
         DurableWrite, DurableWriteAstray, DurableSync, DurableReply DEF TypeInv
<1>. QED  BY <1>1, <1>2, TypeInvariant, PTL DEF Spec

(* As long as no write is torn, a record whose client has received a 201   *)
(* is whole and on the disk for ever: through failed opens and syncs,      *)
(* killed processes, power losses and restarts, whatever the workers do.   *)
THEOREM AckedSurvives == ASSUME "torn" \notin Faults PROVE Spec => []AckedIsDurable
<1>1. DurableInv => AckedIsDurable
  BY DEF DurableInv
<1>. QED  BY <1>1, DurableInvariant, PTL
-------------------------------------------------------------------------------
(* The server implements ApiContract. *)

(* What a worker handles is what its client sent, or a part of it. *)
ReceivedFromClient ==
    \A c \in Conn :
        req[c] # NoRequest => req[c] = sent[c] \/ req[c] \in ShortReads(sent[c])

LEMMA ReceivedInvariant == Spec => []ReceivedFromClient
<1>1. Init => ReceivedFromClient
  BY DEF Init, ReceivedFromClient
<1>2. TypeOK /\ ReceivedFromClient /\ [Next]_vars => ReceivedFromClient'
  <2>. SUFFICES ASSUME TypeOK, ReceivedFromClient, [Next]_vars PROVE ReceivedFromClient'
    OBVIOUS
  <2>1. CASE UNCHANGED <<req, sent>>
    BY <2>1 DEF ReceivedFromClient
  <2>2. ASSUME NEW c \in Conn, Receive(c) PROVE ReceivedFromClient'
    BY <2>2 DEF ReceivedFromClient, Receive, TypeOK, client
  <2>3. ASSUME NEW c \in Conn, Write(c) \/ WriteTorn(c) \/ WriteAstray(c) \/ Sync(c) \/ Reply(c)
        PROVE  UNCHANGED <<req, sent>>
    BY <2>3 DEF Write, WriteTorn, Unavailable, WriteAstray, Sync, Reply, client, work
  <2>4. Calm \/ PowerLoss => UNCHANGED <<req, sent>>
    BY DEF Calm, PowerLoss, ProcessEnds, client, work
  <2>. QED  BY <2>1, <2>2, <2>3, <2>4, CalmNext
<1>. QED  BY <1>1, <1>2, TypeCorrect, PTL DEF Spec

(* A request that is accepted entitles its client to a record: cutting a   *)
(* request never adds a permission or a text the client did not send.      *)
LEMMA AcceptedIsEntitled ==
    ASSUME TypeOK, ReceivedFromClient, NEW c \in Conn, Acceptable(req[c])
    PROVE  Contract!Entitled(c) /\ req[c].event \in Contract!Texts(c)
<1>1. req[c] = sent[c] \/ req[c] \in ShortReads(sent[c])
  BY DEF ReceivedFromClient, Acceptable
<1>2. /\ sent[c].auth /\ sent[c].post /\ sent[c].path = "requests"
      /\ req[c].event \in {sent[c].event} \cup CutInside(sent[c].event)
  BY <1>1 DEF ShortReads, Acceptable, Posted, Admitted
<1>. QED  BY <1>2 DEF Contract!Entitled, Contract!Texts, Contract!CutInside, CutInside,
       Contract!security_check, security_check, Acceptable

LEMMA RecordedIsIn ==
    ASSUME NEW c, NEW n \in Nat, NEW k \in 0 .. n, Recorded(c, k)
    PROVE  Contract!In(c, n)
<1>1. PICK i \in 1 .. k : lines[i] = [by |-> c, event |-> req[c].event]
  BY DEF Recorded
<1>2. i \in 1 .. n /\ lines[i].by = c
  BY <1>1
<1>. QED  BY <1>2 DEF Contract!In

LEMMA ContractCalm == Calm => UNCHANGED Contract!vars
BY DEF Calm, Contract!vars

LEMMA ContractWrite ==
    ASSUME TypeInv, DurableInv, ReceivedFromClient, NEW c \in Conn, Write(c)
    PROVE  Contract!Record(c)
<1>1. pc[c] = "append" /\ UNCHANGED <<sent, acked, astray>>
  BY DEF Write, Goto, client
<1>2. Acceptable(req[c])
  BY <1>1 DEF TypeInv, AppendsAcceptable
<1>3. Contract!Entitled(c) /\ req[c].event \in Contract!Texts(c)
  BY <1>2, AcceptedIsEntitled DEF TypeInv
<1>4. ~Contract!In(c, Len(lines))
  BY <1>1 DEF DurableInv, EarlyIsFresh, Early, Contract!In
<1>5. lines' = Append(lines, [by |-> c, event |-> req[c].event])
  BY WriteEffect
<1>. QED  BY <1>1, <1>3, <1>4, <1>5 DEF Contract!Record

LEMMA ContractReply ==
    ASSUME TypeInv, DurableInv, NEW c \in Conn, Reply(c)
    PROVE  [Contract!Acknowledge(c)]_Contract!vars
<1>1. /\ pc[c] = "reply" /\ UNCHANGED <<sent, lines, astray>>
      /\ acked' = IF status[c] = 201 THEN acked \cup {c} ELSE acked
  BY DEF Reply, Goto, disk
<1>2. CASE status[c] # 201 \/ c \in astray
  BY <1>1, <1>2 DEF Contract!vars
<1>3. CASE status[c] = 201 /\ c \notin astray
  <2>1. Contract!In(c, Len(lines))
    <3>1. Len(lines) \in Nat /\ synced \in 0 .. Len(lines)
      BY DEF TypeInv, TypeOK
    <3>2. Recorded(c, synced)
      BY <1>1, <1>3 DEF DurableInv, DurableBeforeReply
    <3>. QED  BY <3>1, <3>2, RecordedIsIn
  <2>2. acked' \ astray' = (acked \ astray) \cup {c}
    BY <1>1, <1>3
  <2>. QED  BY <1>1, <2>1, <2>2 DEF Contract!Acknowledge
<1>. QED  BY <1>2, <1>3

LEMMA ContractPowerLoss ==
    ASSUME TypeInv, DurableInv, PowerLoss
    PROVE  Contract!Crash
<1>1. PICK n \in synced .. Len(lines) : lines' = SubSeq(lines, 1, n)
  BY DEF PowerLoss
<1>2. n \in 0 .. Len(lines) /\ synced \in 0 .. n
  BY <1>1 DEF TypeInv, TypeOK
<1>3. \A c \in acked \ astray : Contract!In(c, n)
  <2>1. n \in Nat
    BY <1>2 DEF TypeInv, TypeOK
  <2>. QED  BY <1>2, <2>1, RecordedIsIn DEF DurableInv, AckedIsDurable
<1>4. UNCHANGED <<sent, acked, astray>>
  BY DEF PowerLoss, ProcessEnds, client
<1>. QED  BY <1>1, <1>2, <1>3, <1>4 DEF Contract!Crash

(* As long as no write is torn, the server implements the contract: its    *)
(* journal is a log of authorized, unblocked submissions, each recorded at *)
(* most once and only with a text its client sent, and no crash takes a    *)
(* record that was acknowledged.                                           *)
THEOREM ServerImplementsContract ==
    ASSUME "torn" \notin Faults PROVE Spec => ImplementsContract
<1>1. Init => Contract!Init
  BY DEF Init, Contract!Init
<1>2. TypeInv /\ DurableInv /\ ReceivedFromClient /\ [Next]_vars
        => [Contract!Next]_Contract!vars
  <2>. SUFFICES ASSUME TypeInv, DurableInv, ReceivedFromClient, [Next]_vars
                PROVE  [Contract!Next]_Contract!vars
    OBVIOUS
  <2>1. ASSUME NEW c \in Conn, Receive(c) PROVE UNCHANGED Contract!vars
    BY <2>1 DEF Receive, client, disk, Contract!vars
  <2>2. ASSUME NEW c \in Conn, Sync(c) PROVE UNCHANGED Contract!vars
    BY <2>2 DEF Sync, client, Contract!vars
  <2>3. ASSUME NEW c \in Conn, WriteAstray(c) PROVE UNCHANGED Contract!vars
    BY <2>3 DEF WriteAstray, Goto, client, DurableInv, EarlyIsFresh, Early, Contract!vars
  <2>4. \A c \in Conn : ~WriteTorn(c)
    BY DEF WriteTorn
  <2>5. \A c \in Conn : Write(c) => Contract!Next
    BY ContractWrite DEF Contract!Next
  <2>6. \A c \in Conn : Reply(c) => [Contract!Next]_Contract!vars
    BY ContractReply DEF Contract!Next
  <2>7. PowerLoss => Contract!Next
    BY ContractPowerLoss DEF Contract!Next
  <2>. QED  BY <2>1, <2>2, <2>3, <2>4, <2>5, <2>6, <2>7, ContractCalm, CalmNext DEF TypeInv
<1>. QED  BY <1>1, <1>2, TypeInvariant, DurableInvariant, ReceivedInvariant, PTL
       DEF Spec, ImplementsContract, Contract!Spec
-------------------------------------------------------------------------------
(* Counters *)

(* The connections that have been counted, those of the worker inside the  *)
(* mutex too, and what each counter counts of them.                        *)
IsCounted(c) ==
    \/ pc[c] \in {"append", "sync"}
    \/ /\ pc[c] \in {"reply", "unlock", "close", "closed"}
       /\ status[c] # 0 /\ ~Overflow(req[c])
Requested == {c \in Conn : IsCounted(c)}
Authorized == {c \in Conn : IsCounted(c) /\ Admitted(req[c])}
Rejected == {c \in Conn : IsCounted(c) /\ status[c] = 401}
Errors == {c \in Conn : IsCounted(c) /\ status[c] \in {400, 403, 413, 503}}

Tallied ==
    /\ metrics.requests = loaded + Cardinality(Requested)
    /\ metrics.authorized = loaded + Cardinality(Authorized)
    /\ metrics.rejected = Cardinality(Rejected)
    /\ metrics.errors = Cardinality(Errors)

Unanswered == {"idle", "queued", "recv", "lock", "handle", "append", "sync"}

CountInv ==
    /\ \A c \in Conn : pc[c] \in Unanswered => status[c] = 0
    /\ \A c \in Conn : pc[c] \in {"append", "sync"} => Posted(req[c])
    /\ mpc # "down" => Tallied

AllInv == TypeOK /\ LockInv /\ CountInv

LEMMA CountMore ==
    ASSUME NEW S \in SUBSET Conn, NEW c \in Conn, c \notin S
    PROVE  /\ Cardinality(S) \in Nat
           /\ Cardinality(S \cup {c}) = Cardinality(S) + 1
<1>1. IsFiniteSet(S)
  BY FS_Subset, ServerAssumption
<1>. QED  BY <1>1, FS_AddElement, FS_CardinalityType

(* A step that counts nothing. *)
LEMMA NothingCounted ==
    ASSUME Tallied, metrics' = metrics, loaded' = loaded, Requested' = Requested,
           Authorized' = Authorized, Rejected' = Rejected, Errors' = Errors
    PROVE  Tallied'
BY DEF Tallied

(* What a step of c does to the others: nothing. *)
OthersStay(c) ==
    \A d \in Conn \ {c} : pc'[d] = pc[d] /\ status'[d] = status[d] /\ req'[d] = req[d]

LEMMA StayCounted ==
    ASSUME NEW c \in Conn, OthersStay(c),
           IsCounted(c)' <=> IsCounted(c),
           IsCounted(c) => /\ Admitted(req'[c]) <=> Admitted(req[c])
                           /\ status'[c] = 401 <=> status[c] = 401
                           /\ status'[c] \in {400, 403, 413, 503} <=>
                                 status[c] \in {400, 403, 413, 503}
    PROVE  /\ Requested' = Requested /\ Authorized' = Authorized
           /\ Rejected' = Rejected /\ Errors' = Errors
<1>1. \A d \in Conn \ {c} : IsCounted(d)' <=> IsCounted(d)
  BY DEF OthersStay, IsCounted
<1>2. \A d \in Conn : IsCounted(d)' <=> IsCounted(d)
  BY <1>1
<1>3. \A d \in Conn : IsCounted(d) =>
         /\ Admitted(req'[d]) <=> Admitted(req[d])
         /\ status'[d] = 401 <=> status[d] = 401
         /\ status'[d] \in {400, 403, 413, 503} <=> status[d] \in {400, 403, 413, 503}
  BY DEF OthersStay
<1>4. Requested' = Requested
  BY <1>2 DEF Requested
<1>5. Authorized' = Authorized
  BY <1>2, <1>3 DEF Authorized
<1>6. Rejected' = Rejected
  BY <1>2, <1>3 DEF Rejected
<1>7. Errors' = Errors
  BY <1>2, <1>3 DEF Errors
<1>. QED  BY <1>4, <1>5, <1>6, <1>7

LEMMA CountInit == Init => CountInv
BY DEF Init, CountInv

(* The process ends: nothing is counted any more. *)
LEMMA CountEnds == AllInv /\ ProcessEnds => CountInv'
<1>. SUFFICES ASSUME AllInv, ProcessEnds PROVE CountInv'
  OBVIOUS
<1>1. /\ mpc' = "down" /\ status' = status /\ req' = req
      /\ \A c \in Conn : pc'[c] \in {"idle", "gone"} /\ (pc'[c] = "idle" => pc[c] = "idle")
  BY DEF ProcessEnds, work
<1>. QED  BY <1>1 DEF AllInv, CountInv, Unanswered

LEMMA CountMain == AllInv /\ Main => CountInv'
<1>. SUFFICES ASSUME AllInv, Main PROVE CountInv'
  OBVIOUS
<1>. USE DEF AllInv
<1>1. CASE Listen \/ CheckShutdown \/ AcceptFails
  <2>1. /\ UNCHANGED <<pc, status, req, metrics, loaded>> /\ mpc # "down"
    BY <1>1 DEF Listen, CheckShutdown, AcceptFails, work, shared
  <2>2. Tallied'
    BY <2>1 DEF CountInv, Tallied, Requested, Authorized, Rejected, Errors, IsCounted
  <2>. QED  BY <2>1, <2>2 DEF CountInv
<1>2. CASE BindFails \/ Exit
  BY <1>2, CountEnds DEF BindFails, Exit
<1>3. CASE CloseServer
  <2>1. /\ UNCHANGED <<status, req, metrics, loaded>> /\ mpc # "down"
        /\ pc' = [c \in Conn |-> IF pc[c] = "queued" THEN "gone" ELSE pc[c]]
    BY <1>3 DEF CloseServer, work, shared
  <2>2. \A c \in Conn : IsCounted(c)' <=> IsCounted(c)
    BY <2>1 DEF IsCounted
  <2>3. Tallied'
    BY <2>1, <2>2 DEF CountInv, Tallied, Requested, Authorized, Rejected, Errors
  <2>. QED  BY <2>1, <2>3 DEF CountInv, Unanswered
<1>4. ASSUME NEW c \in Conn, Accept(c) PROVE CountInv'
  <2>1. /\ UNCHANGED <<status, req, metrics, loaded>> /\ mpc # "down"
        /\ pc[c] = "queued" /\ pc'[c] \in {"recv", "closed"} /\ status[c] = 0
        /\ \A d \in Conn \ {c} : pc'[d] = pc[d]
    BY <1>4 DEF Accept, work, shared, TypeOK, CountInv, Unanswered
  <2>2. ~IsCounted(c) /\ ~IsCounted(c)' /\ OthersStay(c)
    BY <2>1 DEF IsCounted, OthersStay
  <2>3. Tallied'
    BY <2>1, <2>2, StayCounted, NothingCounted DEF CountInv
  <2>. QED  BY <2>1, <2>3 DEF CountInv, Unanswered
<1>. QED  BY <1>1, <1>2, <1>3, <1>4 DEF Main

LEMMA CountEnvironment == AllInv /\ Environment => CountInv'
<1>. SUFFICES ASSUME AllInv, Environment PROVE CountInv'
  OBVIOUS
<1>. USE DEF AllInv
<1>1. CASE Boot
  <2>1. /\ UNCHANGED <<pc, status, req>> /\ mpc = "down"
        /\ \E n, e : metrics' = LoadedMetrics(n, e) /\ loaded' = n /\ n \in Nat
    BY <1>1, LoadedType DEF Boot, Load, TypeOK, work
  <2>2. \A c \in Conn : ~IsCounted(c)'
    BY <2>1 DEF LockInv, NothingOutlives, IsCounted
  <2>3. Requested' = {} /\ Authorized' = {} /\ Rejected' = {} /\ Errors' = {}
    BY <2>2 DEF Requested, Authorized, Rejected, Errors
  <2>4. Tallied'
    BY <2>1, <2>3, FS_EmptySet DEF Tallied, LoadedMetrics
  <2>. QED  BY <2>1, <2>4 DEF CountInv
<1>2. CASE Kill \/ PowerLoss
  BY <1>2, CountEnds DEF Kill, PowerLoss
<1>3. ASSUME NEW s \in Signals, Signal(s) PROVE CountInv'
  <2>1. UNCHANGED <<pc, status, req, metrics, loaded>> /\ mpc # "down"
    BY <1>3 DEF Signal, work, shared
  <2>2. Tallied'
    BY <2>1 DEF CountInv, Tallied, Requested, Authorized, Rejected, Errors, IsCounted
  <2>. QED  BY <2>1, <2>2 DEF CountInv
<1>4. ASSUME NEW c \in Conn, Connect(c) PROVE CountInv'
  <2>1. /\ UNCHANGED <<status, req, metrics, loaded, mpc>>
        /\ pc[c] = "idle" /\ pc'[c] = "queued" /\ mpc # "down"
        /\ \A d \in Conn \ {c} : pc'[d] = pc[d]
    BY <1>4 DEF Connect, main, work, shared, TypeOK
  <2>2. ~IsCounted(c) /\ ~IsCounted(c)' /\ OthersStay(c)
    BY <2>1 DEF IsCounted, OthersStay
  <2>3. Tallied'
    BY <2>1, <2>2, StayCounted, NothingCounted DEF CountInv
  <2>. QED  BY <2>1, <2>3 DEF CountInv, Unanswered
<1>. QED  BY <1>1, <1>2, <1>3, <1>4 DEF Environment

(* An answer that is counted: in all requests, and in the counters for     *)
(* which the handler adds one.                                             *)
LEMMA CountRespond ==
    ASSUME AllInv, NEW c \in Conn, NEW code \in Status \ {0},
           NEW a \in {0, 1}, NEW r \in {0, 1}, NEW e \in {0, 1}, Respond(c, code, a, r, e),
           ~Overflow(req[c]), Admitted(req[c]) <=> a = 1,
           code = 401 <=> r = 1, code \in {400, 403, 413, 503} <=> e = 1
    PROVE  CountInv'
<1>. USE DEF AllInv
<1>1. /\ pc[c] = "handle" /\ pc'[c] = "reply" /\ status'[c] = code /\ req' = req
      /\ mpc' = mpc /\ loaded' = loaded /\ OthersStay(c)
  BY DEF Respond, Goto, Answer, TypeOK, main, OthersStay
<1>2. mpc # "down"
  BY <1>1 DEF LockInv, NothingOutlives
<1>3. /\ metrics'.requests = metrics.requests + 1 /\ metrics'.authorized = metrics.authorized + a
      /\ metrics'.rejected = metrics.rejected + r /\ metrics'.errors = metrics.errors + e
  BY DEF Respond, Count, TypeOK, Metrics
<1>4. ~IsCounted(c) /\ IsCounted(c)'
  BY <1>1 DEF IsCounted
<1>5. \A d \in Conn \ {c} : IsCounted(d)' <=> IsCounted(d)
  BY <1>1 DEF OthersStay, IsCounted
<1>6. /\ Requested' = Requested \cup {c}
      /\ Authorized' = IF a = 1 THEN Authorized \cup {c} ELSE Authorized
  BY <1>1, <1>4, <1>5 DEF OthersStay, Requested, Authorized
<1>7. /\ Rejected' = IF r = 1 THEN Rejected \cup {c} ELSE Rejected
      /\ Errors' = IF e = 1 THEN Errors \cup {c} ELSE Errors
  BY <1>1, <1>4, <1>5 DEF OthersStay, Rejected, Errors
<1>8. /\ c \notin Requested /\ c \notin Authorized /\ c \notin Rejected /\ c \notin Errors
      /\ {Requested, Authorized, Rejected, Errors} \subseteq SUBSET Conn
  BY <1>4 DEF Requested, Authorized, Rejected, Errors
<1>9. Tallied
  BY <1>2 DEF CountInv
<1>10. Tallied'
  <2>1. \A S \in {Requested, Authorized, Rejected, Errors} :
           Cardinality(S) \in Nat /\ Cardinality(S \cup {c}) = Cardinality(S) + 1
    BY <1>8, CountMore
  <2>2. metrics'.requests = loaded' + Cardinality(Requested')
    BY <1>1, <1>3, <1>6, <1>9, <2>1 DEF Tallied, TypeOK
  <2>3. metrics'.authorized = loaded' + Cardinality(Authorized')
    <3>1. CASE a = 0
      BY <1>1, <1>3, <1>6, <1>9, <2>1, <3>1 DEF Tallied, TypeOK
    <3>2. CASE a = 1
      BY <1>1, <1>3, <1>6, <1>9, <2>1, <3>2 DEF Tallied, TypeOK
    <3>. QED  BY <3>1, <3>2
  <2>4. metrics'.rejected = Cardinality(Rejected')
    <3>1. CASE r = 0
      BY <1>3, <1>7, <1>9, <2>1, <3>1 DEF Tallied
    <3>2. CASE r = 1
      BY <1>3, <1>7, <1>9, <2>1, <3>2 DEF Tallied
    <3>. QED  BY <3>1, <3>2
  <2>5. metrics'.errors = Cardinality(Errors')
    <3>1. CASE e = 0
      BY <1>3, <1>7, <1>9, <2>1, <3>1 DEF Tallied
    <3>2. CASE e = 1
      BY <1>3, <1>7, <1>9, <2>1, <3>2 DEF Tallied
    <3>. QED  BY <3>1, <3>2
  <2>. QED  BY <2>2, <2>3, <2>4, <2>5 DEF Tallied
<1>. QED  BY <1>1, <1>10 DEF CountInv, OthersStay, Unanswered

LEMMA CountHandle == \A c \in Conn : AllInv /\ Handle(c) => CountInv'
<1>. SUFFICES ASSUME NEW c \in Conn, AllInv, Handle(c) PROVE CountInv'
  OBVIOUS
<1>. USE DEF Admitted, Overflow, Status
<1>0. mpc # "down"
  BY DEF AllInv, LockInv, NothingOutlives, Handle, Ignore, RefuseOverflow, RefuseLarge, Health,
     Deny, View, NotRouted, Invalid, Block, Publish, Respond, Goto
<1>1. CASE Ignore(c)
  <2>1. /\ UNCHANGED <<status, req, metrics, loaded, mpc>> /\ OthersStay(c)
        /\ pc[c] = "handle" /\ pc'[c] = "unlock" /\ status[c] = 0
    BY <1>1 DEF Ignore, Goto, AllInv, TypeOK, CountInv, Unanswered, OthersStay, main, work, shared
  <2>2. ~IsCounted(c) /\ ~IsCounted(c)'
    BY <2>1 DEF IsCounted
  <2>3. Tallied'
    BY <1>0, <2>1, <2>2, StayCounted, NothingCounted DEF AllInv, CountInv
  <2>. QED  BY <2>1, <2>3 DEF AllInv, CountInv, OthersStay, Unanswered
<1>2. CASE RefuseOverflow(c)
  <2>1. /\ UNCHANGED <<req, metrics, loaded, mpc>> /\ OthersStay(c)
        /\ pc[c] = "handle" /\ pc'[c] = "reply" /\ Overflow(req[c])
    BY <1>2 DEF RefuseOverflow, Goto, Answer, AllInv, TypeOK, OthersStay, main, shared
  <2>2. ~IsCounted(c) /\ ~IsCounted(c)'
    BY <2>1 DEF IsCounted
  <2>3. Tallied'
    BY <1>0, <2>1, <2>2, StayCounted, NothingCounted DEF AllInv, CountInv
  <2>. QED  BY <2>1, <2>3 DEF AllInv, CountInv, OthersStay, Unanswered
<1>3. CASE RefuseLarge(c)
  BY <1>3, CountRespond DEF RefuseLarge, TooLarge
<1>4. CASE Health(c)
  BY <1>4, CountRespond DEF Health, Public
<1>5. CASE Deny(c)
  BY <1>5, CountRespond DEF Deny, Denied
<1>6. CASE View(c)
  BY <1>6, CountRespond DEF View, Viewed
<1>7. CASE NotRouted(c)
  BY <1>7, CountRespond DEF NotRouted, Unrouted
<1>8. CASE Invalid(c)
  BY <1>8, CountRespond DEF Invalid, Posted
<1>9. CASE Block(c)
  BY <1>9, CountRespond DEF Block, Posted
<1>10. CASE Publish(c)
  <2>1. /\ UNCHANGED <<status, req, loaded, mpc>> /\ OthersStay(c)
        /\ pc[c] = "handle" /\ pc'[c] = "append" /\ Posted(req[c]) /\ status[c] = 0
        /\ metrics'.requests = metrics.requests + 1
        /\ metrics'.authorized = metrics.authorized + 1
        /\ metrics'.rejected = metrics.rejected /\ metrics'.errors = metrics.errors
    BY <1>10 DEF Publish, Goto, AllInv, TypeOK, Metrics, CountInv, Unanswered, OthersStay, main, work
  <2>2. ~IsCounted(c) /\ IsCounted(c)' /\ Admitted(req[c])
    BY <2>1 DEF IsCounted, Posted
  <2>3. \A d \in Conn \ {c} : IsCounted(d)' <=> IsCounted(d)
    BY <2>1 DEF OthersStay, IsCounted
  <2>4. Requested' = Requested \cup {c} /\ Authorized' = Authorized \cup {c}
    BY <2>1, <2>2, <2>3 DEF OthersStay, Requested, Authorized
  <2>5. Rejected' = Rejected /\ Errors' = Errors
    BY <2>1, <2>2, <2>3 DEF OthersStay, Rejected, Errors
  <2>6. /\ c \notin Requested /\ c \notin Authorized
        /\ {Requested, Authorized} \subseteq SUBSET Conn
    BY <2>2 DEF Requested, Authorized
  <2>7. Tallied
    BY <1>0 DEF AllInv, CountInv
  <2>8. Tallied'
    BY <2>1, <2>4, <2>5, <2>6, <2>7, CountMore DEF Tallied, AllInv, TypeOK
  <2>. QED  BY <2>1, <2>8 DEF AllInv, CountInv, OthersStay, Unanswered
<1>. QED  BY <1>1, <1>2, <1>3, <1>4, <1>5, <1>6, <1>7, <1>8, <1>9, <1>10 DEF Handle

LEMMA CountAppend == \A c \in Conn : AllInv /\ AppendJournal(c) => CountInv'
<1>. SUFFICES ASSUME NEW c \in Conn, AllInv, AppendJournal(c) PROVE CountInv'
  OBVIOUS
<1>. USE DEF AllInv
<1>0. /\ pc[c] \in {"append", "sync"} /\ mpc # "down" /\ req' = req /\ loaded' = loaded /\ mpc' = mpc
      /\ OthersStay(c)
  BY DEF AppendJournal, OpenFails, Write, WriteTorn, WriteAstray, Sync, SyncFails, Unavailable,
     Goto, Answer, LockInv, NothingOutlives, OthersStay, TypeOK, main, work, shared
<1>1. /\ status[c] = 0 /\ Posted(req[c]) /\ ~Overflow(req[c]) /\ IsCounted(c)
  BY <1>0 DEF CountInv, Unanswered, Posted, Admitted, Overflow, IsCounted
<1>2. ASSUME NEW from \in {"append", "sync"}, Unavailable(c, from) PROVE CountInv'
  <2>1. /\ pc'[c] = "reply" /\ status'[c] = 503
        /\ metrics'.requests = metrics.requests /\ metrics'.authorized = metrics.authorized
        /\ metrics'.rejected = metrics.rejected /\ metrics'.errors = metrics.errors + 1
    BY <1>2 DEF Unavailable, Goto, Answer, TypeOK, Metrics
  <2>2. IsCounted(c)'
    BY <1>0, <1>1, <2>1 DEF IsCounted
  <2>3. \A d \in Conn \ {c} : IsCounted(d)' <=> IsCounted(d)
    BY <1>0 DEF OthersStay, IsCounted
  <2>4. Requested' = Requested /\ Authorized' = Authorized
    BY <1>0, <1>1, <2>2, <2>3 DEF OthersStay, Requested, Authorized
  <2>5. Rejected' = Rejected /\ Errors' = Errors \cup {c}
    BY <1>0, <1>1, <2>1, <2>2, <2>3 DEF OthersStay, Rejected, Errors
  <2>6. c \notin Errors /\ Errors \in SUBSET Conn
    BY <1>1 DEF Errors
  <2>7. Tallied
    BY <1>0 DEF CountInv
  <2>8. Tallied'
    BY <1>0, <2>1, <2>4, <2>5, <2>6, <2>7, CountMore DEF Tallied
  <2>. QED  BY <1>0, <2>1, <2>8 DEF CountInv, OthersStay, Unanswered
<1>3. ASSUME metrics' = metrics,
             \/ pc'[c] = "sync" /\ status'[c] = 0
             \/ pc'[c] = "reply" /\ status'[c] = 201
      PROVE  CountInv'
  <2>1. IsCounted(c)'
    BY <1>0, <1>1, <1>3 DEF IsCounted
  <2>2. Tallied'
    BY <1>0, <1>1, <1>3, <2>1, StayCounted, NothingCounted DEF CountInv
  <2>. QED  BY <1>0, <1>1, <1>3, <2>2 DEF CountInv, OthersStay, Unanswered
<1>4. CASE OpenFails(c) \/ WriteTorn(c) \/ SyncFails(c)
  BY <1>2, <1>4 DEF OpenFails, WriteTorn, SyncFails
<1>5. CASE Write(c)
  BY <1>1, <1>3, <1>5 DEF Write, Goto, TypeOK, work, shared
<1>6. CASE WriteAstray(c)
  BY <1>3, <1>6 DEF WriteAstray, Goto, Answer, TypeOK, shared
<1>7. CASE Sync(c)
  BY <1>3, <1>7 DEF Sync, Goto, Answer, TypeOK, shared
<1>. QED  BY <1>4, <1>5, <1>6, <1>7 DEF AppendJournal

LEMMA CountWorker == \A c \in Conn : AllInv /\ Worker(c) => CountInv'
<1>. SUFFICES ASSUME NEW c \in Conn, AllInv, Worker(c) PROVE CountInv'
  OBVIOUS
<1>. USE DEF AllInv
<1>1. CASE BrokenPipe(c)
  BY <1>1, CountEnds DEF BrokenPipe
(* The steps that leave the counters alone. *)
<1>2. ASSUME UNCHANGED <<status, metrics, loaded, mpc>>, OthersStay(c),
             \/ /\ pc[c] \in {"recv", "lock"} /\ pc'[c] \in {"lock", "handle"}
             \/ /\ pc[c] \in {"reply", "unlock", "close"} /\ req' = req
                /\ pc'[c] \in {"unlock", "close", "closed"}
      PROVE  CountInv'
  <2>1. mpc # "down"
    BY <1>2 DEF LockInv, NothingOutlives
  <2>2. IsCounted(c)' <=> IsCounted(c)
    BY <1>2 DEF IsCounted
  <2>3. IsCounted(c) => req' = req
    BY <1>2 DEF IsCounted
  <2>4. Tallied'
    BY <1>2, <2>1, <2>2, <2>3, StayCounted, NothingCounted DEF CountInv
  <2>. QED  BY <1>2, <2>4 DEF CountInv, OthersStay, Unanswered
<1>3. CASE Receive(c)
  BY <1>2, <1>3 DEF Receive, Goto, TypeOK, OthersStay, main, shared
<1>4. CASE Lock(c)
  BY <1>2, <1>4 DEF Lock, Goto, TypeOK, OthersStay, main, work
<1>5. CASE Reply(c) \/ ReplyLost(c)
  BY <1>2, <1>5 DEF Reply, ReplyLost, Goto, TypeOK, OthersStay, main, work, shared
<1>6. CASE Unlock(c)
  BY <1>2, <1>6 DEF Unlock, Goto, TypeOK, OthersStay, main, work
<1>7. CASE Close(c)
  BY <1>2, <1>7 DEF Close, Goto, TypeOK, OthersStay, main, work, shared
<1>. QED  BY <1>1, <1>3, <1>4, <1>5, <1>6, <1>7, CountHandle, CountAppend DEF Worker

LEMMA CountedInvariant == Spec => []AllInv
<1>1. AllInv /\ [Next]_vars => CountInv'
  <2>. SUFFICES ASSUME AllInv, [Next]_vars PROVE CountInv'
    OBVIOUS
  <2>1. CASE UNCHANGED vars
    <3>1. UNCHANGED <<mpc, pc, status, req, metrics, loaded>>
      BY <2>1 DEF vars, main, work, shared
    <3>. QED  BY <3>1 DEF AllInv, CountInv, Tallied, Requested, Authorized, Rejected, Errors, IsCounted
  <2>. QED  BY <2>1, CountMain, CountEnvironment, CountWorker DEF Next, Quiescent
<1>. QED  BY <1>1, CountInit, TypeCorrect, LockInvariant, PTL DEF Spec, AllInv

(* CountersMatchAnswers: no update of the counters is lost or seen half    *)
(* done, for every number of workers, whichever of them fail, and however  *)
(* often the server restarts (handle_request, api_server.c).               *)
THEOREM CountersAreAnswers == Spec => []CountersMatchAnswers
<1>1. AllInv => CountersMatchAnswers
  <2>. SUFFICES ASSUME AllInv, Running, metrics_lock = Nobody PROVE Tallied
                         /\ Requested = Counted
                         /\ Authorized = {c \in Counted : Admitted(req[c])}
                         /\ Rejected = {c \in Counted : status[c] = 401}
                         /\ Errors = {c \in Counted : status[c] \in {400, 403, 413, 503}}
    BY DEF CountersMatchAnswers, Tallied
  <2>1. \A c \in Conn : pc[c] \notin InLock
    BY ServerAssumption DEF AllInv, LockInv, LockHeld
  <2>2. \A c \in Conn : IsCounted(c) <=> c \in Counted
    BY <2>1 DEF IsCounted, Counted, InLock
  <2>3. Tallied
    BY DEF AllInv, CountInv, Running
  <2>4. Counted \subseteq Conn
    BY DEF Counted
  <2>. QED  BY <2>2, <2>3, <2>4 DEF Requested, Authorized, Rejected, Errors
<1>. QED  BY <1>1, CountedInvariant, PTL
-------------------------------------------------------------------------------
(* The event a restart would show *)

Refusal(c) == pc[c] \in {"reply", "unlock", "close", "closed"} /\ status[c] = 503

(* last_event is the event of the worker that is about to write, or, if    *)
(* none is and none has failed, the one of the journal.                    *)
EventInv ==
    Running =>
        /\ \A c \in Conn : pc[c] = "append" => metrics.last_event = req[c].event
        /\ (\A c \in Conn : pc[c] # "append" /\ ~Refusal(c)) =>
               metrics.last_event = LoadedEvent(lines, tail)

(* A step that is none of those. *)
Lull ==
    /\ Running' => Running
    /\ metrics'.last_event = metrics.last_event /\ lines' = lines /\ tail' = tail
    /\ \A c \in Conn : /\ pc'[c] = "append" <=> pc[c] = "append"
                       /\ pc[c] = "append" => req'[c] = req[c]
                       /\ Refusal(c) => Refusal(c)'

LEMMA EventLull == ASSUME EventInv, Lull PROVE EventInv'
BY DEF EventInv, Lull

LEMMA EventDown == ASSUME ~Running' PROVE EventInv'
BY DEF EventInv

LEMMA EventEnds == ASSUME ProcessEnds PROVE EventInv'
BY EventDown DEF ProcessEnds, Running

LEMMA EventMain == AllInv /\ EventInv /\ Main => EventInv'
<1>. SUFFICES ASSUME AllInv, EventInv, Main PROVE EventInv'
  OBVIOUS
<1>1. CASE Listen \/ CheckShutdown \/ AcceptFails
  BY <1>1, EventLull DEF Listen, CheckShutdown, AcceptFails, Running, Lull, Refusal, work, shared, disk
<1>2. CASE BindFails \/ Exit
  BY <1>2, EventEnds DEF BindFails, Exit
<1>3. CASE CloseServer
  BY <1>3, EventDown DEF CloseServer, Running
<1>4. ASSUME NEW c \in Conn, Accept(c) PROVE EventInv'
  <2>1. /\ UNCHANGED <<status, req, metrics, lines, tail>> /\ mpc = "accept"
        /\ pc[c] = "queued" /\ pc'[c] \in {"recv", "closed"}
        /\ \A d \in Conn \ {c} : pc'[d] = pc[d]
    BY <1>4 DEF Accept, work, shared, disk, AllInv, TypeOK
  <2>. QED  BY <2>1, EventLull DEF Running, Lull, Refusal
<1>. QED  BY <1>1, <1>2, <1>3, <1>4 DEF Main

LEMMA EventEnvironment ==
    ASSUME "load" \notin Faults, AllInv, EventInv, Environment PROVE EventInv'
<1>1. CASE Boot
  <2>1. /\ metrics'.last_event = LoadedEvent(lines, tail)
        /\ lines' = lines /\ tail' = tail /\ pc' = pc /\ mpc = "down"
    BY <1>1 DEF Boot, Load, LoadedMetrics, disk
  <2>2. \A c \in Conn : pc'[c] # "append"
    BY <2>1 DEF AllInv, LockInv, NothingOutlives
  <2>. QED  BY <2>1, <2>2 DEF EventInv
<1>2. CASE Kill \/ PowerLoss
  BY <1>2, EventEnds DEF Kill, PowerLoss
<1>3. ASSUME NEW s \in Signals, Signal(s) PROVE EventInv'
  BY <1>3, EventLull DEF Signal, Running, Lull, Refusal, work, shared, disk
<1>4. ASSUME NEW c \in Conn, Connect(c) PROVE EventInv'
  <2>1. /\ UNCHANGED <<mpc, status, req, metrics, lines, tail>>
        /\ pc[c] = "idle" /\ pc'[c] = "queued"
        /\ \A d \in Conn \ {c} : pc'[d] = pc[d]
    BY <1>4 DEF Connect, main, work, shared, disk, AllInv, TypeOK
  <2>. QED  BY <2>1, EventLull DEF Running, Lull, Refusal
<1>. QED  BY <1>1, <1>2, <1>3, <1>4 DEF Environment

LEMMA EventWorker ==
    ASSUME "torn" \notin Faults, AllInv, DurableInv, EventInv, NEW c \in Conn, Worker(c)
    PROVE  EventInv'
<1>. USE DEF AllInv
<1>1. CASE BrokenPipe(c)
  BY <1>1, EventEnds DEF BrokenPipe
(* The steps outside append_journal and Publish. *)
<1>2. ASSUME mpc' = mpc, metrics'.last_event = metrics.last_event, lines' = lines, tail' = tail,
             OthersStay(c), pc[c] # "append", pc'[c] # "append",
             Refusal(c) => Refusal(c)'
      PROVE  EventInv'
  <2>1. \A d \in Conn \ {c} : Refusal(d) => Refusal(d)'
    BY <1>2 DEF OthersStay, Refusal
  <2>. QED  BY <1>2, <2>1, EventLull DEF OthersStay, Running, Lull
<1>3. CASE Receive(c) \/ Lock(c)
  BY <1>2, <1>3 DEF Receive, Lock, Goto, TypeOK, OthersStay, Refusal, main, work, shared, disk
<1>4. CASE Reply(c) \/ ReplyLost(c) \/ Unlock(c) \/ Close(c)
  <2>1. /\ mpc' = mpc /\ metrics' = metrics /\ lines' = lines /\ tail' = tail /\ OthersStay(c)
        /\ pc[c] \in {"reply", "unlock", "close"} /\ pc'[c] \in {"unlock", "close", "closed"}
        /\ status' = status
    BY <1>4 DEF Reply, ReplyLost, Unlock, Close, Goto, TypeOK, OthersStay, main, work, shared, disk
  <2>. QED  BY <1>2, <2>1 DEF Refusal
<1>5. ASSUME NEW code, NEW a, NEW r, NEW e, Respond(c, code, a, r, e) PROVE EventInv'
  <2>1. metrics'.last_event = metrics.last_event
    BY <1>5 DEF Respond, Count, TypeOK, Metrics
  <2>. QED  BY <1>2, <1>5, <2>1 DEF Respond, Goto, Answer, TypeOK, OthersStay, Refusal, main, disk
<1>6. CASE Handle(c) /\ ~Publish(c)
  <2>1. CASE Ignore(c) \/ RefuseOverflow(c)
    BY <1>2, <2>1 DEF Ignore, RefuseOverflow, Goto, Answer, TypeOK, OthersStay, Refusal,
       main, work, shared, disk
  <2>. QED  BY <1>5, <1>6, <2>1 DEF Handle, RefuseLarge, Health, Deny, View, NotRouted, Invalid, Block
<1>7. CASE Publish(c)
  <2>1. /\ pc[c] = "handle" /\ pc'[c] = "append" /\ metrics'.last_event = req[c].event
        /\ req' = req /\ OthersStay(c)
    BY <1>7 DEF Publish, Goto, TypeOK, Metrics, OthersStay, work
  <2>2. \A d \in Conn \ {c} : pc'[d] # "append"
    BY <2>1 DEF LockInv, LockHeld, InLock, OthersStay
  <2>. QED  BY <2>1, <2>2 DEF EventInv
<1>8. ASSUME NEW from, Unavailable(c, from) PROVE EventInv'
  <2>1. pc'[c] = "reply" /\ status'[c] = 503 /\ pc[c] = from /\ OthersStay(c)
    BY <1>8 DEF Unavailable, Goto, Answer, TypeOK, OthersStay
  <2>2. Refusal(c)'
    BY <2>1 DEF Refusal
  <2>3. metrics'.last_event = metrics.last_event /\ req' = req /\ mpc' = mpc
    BY <1>8 DEF Unavailable, TypeOK, Metrics, main
  <2>. QED  BY <2>1, <2>2, <2>3 DEF EventInv, OthersStay, Running
<1>9. CASE Write(c)
  <2>1. /\ pc[c] = "append" /\ lines \in Seq(Line) /\ mpc' = mpc /\ metrics' = metrics
        /\ tail' = "none" /\ lines' = Append(lines, WholeLine("none", c, req[c].event))
        /\ pc'[c] = "sync" /\ OthersStay(c)
    BY <1>9 DEF Write, Goto, DurableInv, TypeOK, OthersStay, main, work, shared
  <2>2. Len(lines') = Len(lines) + 1 /\ lines'[Len(lines) + 1] = WholeLine("none", c, req[c].event)
    BY <2>1
  <2>3. LoadedEvent(lines', tail') = req[c].event
    BY <2>1, <2>2 DEF LoadedEvent, WholeLine
  <2>4. \A d \in Conn : pc'[d] # "append"
    BY <2>1 DEF LockInv, LockHeld, InLock, OthersStay
  <2>. QED  BY <2>1, <2>3, <2>4 DEF EventInv, Running
<1>10. CASE WriteAstray(c)
  BY <1>10, EventDown DEF WriteAstray, Running, main
<1>11. CASE Sync(c)
  <2>1. /\ mpc' = mpc /\ metrics' = metrics /\ lines' = lines /\ tail' = tail /\ OthersStay(c)
        /\ pc[c] = "sync" /\ pc'[c] = "reply"
    BY <1>11 DEF Sync, Goto, Answer, TypeOK, OthersStay, main, shared
  <2>. QED  BY <1>2, <2>1 DEF Refusal
<1>12. CASE AppendJournal(c)
  BY <1>8, <1>9, <1>10, <1>11, <1>12 DEF AppendJournal, OpenFails, WriteTorn, SyncFails
<1>. QED  BY <1>1, <1>3, <1>4, <1>6, <1>7, <1>12 DEF Worker

(* RestartShowsSameEvent: as long as no write is torn and the journal can  *)
(* be opened, the event that a server without a failed append shows is the *)
(* one of the journal (handle_request, load_journal).                      *)
THEOREM RestartKeepsEvent ==
    ASSUME "torn" \notin Faults, "load" \notin Faults
    PROVE  Spec => []RestartShowsSameEvent
<1>1. AllInv /\ DurableInv /\ EventInv /\ [Next]_vars => EventInv'
  <2>. SUFFICES ASSUME AllInv, DurableInv, EventInv, [Next]_vars PROVE EventInv'
    OBVIOUS
  <2>1. CASE UNCHANGED vars
    BY <2>1, EventLull DEF vars, main, work, shared, disk, Running, Lull, Refusal
  <2>. QED  BY <2>1, EventMain, EventEnvironment, EventWorker DEF Next, Quiescent
<1>2. AllInv /\ EventInv => RestartShowsSameEvent
  <2>. SUFFICES ASSUME AllInv, EventInv, Running, metrics_lock = Nobody,
                       ~(\E c \in Conn : pc[c] \in {"unlock", "close", "closed"} /\ status[c] = 503)
                PROVE  metrics.last_event = LoadedEvent(lines, tail)
    BY DEF RestartShowsSameEvent
  <2>1. \A c \in Conn : pc[c] \notin InLock
    BY ServerAssumption DEF AllInv, LockInv, LockHeld
  <2>. QED  BY <2>1 DEF EventInv, Refusal, InLock
<1>3. Init => EventInv
  BY DEF Init, EventInv, Running
<1>. QED  BY <1>1, <1>2, <1>3, CountedInvariant, DurableInvariant, PTL DEF Spec
===============================================================================
