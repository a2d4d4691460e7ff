---------------------------- MODULE Session_proofs ----------------------------
(***************************************************************************)
(* The watcher and "watch off", for any number of watchers, roots, changes *)
(* and faults: no watcher runs that "watch off" does not reach, the rows   *)
(* of fs_changes are in order, and a watcher that was stopped does not use *)
(* the connection after it is closed.                                      *)
(***************************************************************************)
EXTENDS Session, TLAPS

(* Threads are numbered as they are started, and only a thread that runs   *)
(* has something of the database.                                          *)
Started ==
    /\ starts \in 0 .. MaxStarts /\ watchHandle \in 0 .. MaxStarts
    /\ pc \in [Thread -> Pc] /\ use \in [Thread -> {"nothing", "handle", "statement"}]
    /\ \A w \in Watcher : w > starts => pc[w] = "none"
    /\ \A t \in Thread : use[t] # "nothing" => pc[t] \in Writes
    /\ shell = "stopping" => watchHandle # 0

(* StopReachesWatcher is not inductive alone: that a new watcher is the    *)
(* only one follows from g_watchThread being NULL, but that it is new, and *)
(* that nobody else comes to life, is Started.                             *)
IInv == Started /\ StopReachesWatcher

LEMMA Start == Init => IInv
BY SessionAssumption
   DEF Init, IInv, Started, StopReachesWatcher, Alive, Thread, Watcher, Scanner, Pc

(* Where a thread goes on to is never "none".                              *)
LEMMA NextPc ==
    ASSUME NEW p \in Writes
    PROVE  Written(p) \subseteq Pc /\ Unwritten(p) \subseteq Pc
BY DEF Written, Unwritten, Pc, Writes, Says

(* A step that leaves the handles alone and moves only threads that run    *)
(* keeps the invariant.                                                    *)
LEMMA Calm ==
    ASSUME IInv, UNCHANGED watchVars, shell' = "stopping" => shell = "stopping",
           pc' \in [Thread -> Pc], use' \in [Thread -> {"nothing", "handle", "statement"}],
           \A w \in Watcher : pc'[w] = pc[w] \/ Alive(w),
           \A t \in Thread : use'[t] # "nothing" => pc'[t] \in Writes
    PROVE  IInv'
<1>1. \A w \in Watcher : Alive(w)' => Alive(w)
    BY DEF Alive
<1>2. StopReachesWatcher'
    BY <1>1 DEF IInv, StopReachesWatcher, watchVars
<1>3. \A w \in Watcher : w > starts => pc'[w] = "none"
    BY DEF IInv, Started, Alive
<1> QED
    BY <1>2, <1>3 DEF IInv, Started, watchVars

(* The same for a thread that goes from p to q.                            *)
LEMMA Moves ==
    ASSUME IInv, NEW t \in Thread, NEW q \in Pc, Alive(t), UNCHANGED <<shell, watchVars>>,
           pc' = [pc EXCEPT ![t] = q],
           \/ use' = [use EXCEPT ![t] = "nothing"]
           \/ use' = use /\ use[t] = "nothing"
    PROVE  IInv'
<1>1. /\ pc \in [Thread -> Pc] /\ use \in [Thread -> {"nothing", "handle", "statement"}]
      /\ Watcher \subseteq Thread
      /\ \A s \in Thread : use[s] # "nothing" => pc[s] \in Writes
    BY DEF IInv, Started, Thread
<1>2. pc' \in [Thread -> Pc] /\ use' \in [Thread -> {"nothing", "handle", "statement"}]
    BY <1>1
<1>3. \A w \in Watcher : pc'[w] = pc[w] \/ Alive(w)
    BY <1>1
<1>4. \A s \in Thread : use'[s] # "nothing" => pc'[s] \in Writes
    BY <1>1
<1> QED
    BY <1>2, <1>3, <1>4, Calm

(* A change wakes watchers that wait in ReadDirectoryChangesW, and those   *)
(* run.                                                                    *)
LEMMA ChangeWakes ==
    ASSUME IInv, NEW r, Change(r)
    PROVE  /\ pc' \in [Thread -> Pc]
           /\ \A t \in Thread : pc'[t] = pc[t] \/ (pc[t] = "read" /\ pc'[t] = "logChange")
<1>1. "logChange" \in Pc /\ pc \in [Thread -> Pc]
    BY DEF Pc, Writes, IInv, Started
<1> QED
    BY <1>1 DEF Change

LEMMA DatabaseStep ==
    ASSUME IInv, NEW t \in Thread, Database(t)
    PROVE  IInv'
<1>1. /\ pc \in [Thread -> Pc] /\ use \in [Thread -> {"nothing", "handle", "statement"}]
      /\ Watcher \subseteq Thread
      /\ \A s \in Thread : use[s] # "nothing" => pc[s] \in Writes
    BY DEF IInv, Started, Thread
<1>2. pc[t] \in Writes
    BY <1>1 DEF Database, Enter, Prepare, UseAfterFree, Finish
<1>3. Alive(t)
    BY <1>2 DEF Alive, Writes, Says
<1>4. UNCHANGED <<shell, watchVars>>
    BY DEF Database, Enter, Prepare, UseAfterFree, Finish, shellVars
<1>5. \/ /\ pc' = pc /\ use' \in [Thread -> {"nothing", "handle", "statement"}]
         /\ \A s \in Thread : s # t => use'[s] = use[s]
      \/ /\ \E p \in Written(pc[t]) \cup Unwritten(pc[t]) : pc' = [pc EXCEPT ![t] = p]
         /\ \/ use' = [use EXCEPT ![t] = "nothing"]
            \/ use' = use /\ use[t] = "nothing"
    BY <1>1 DEF Database, Enter, Prepare, UseAfterFree, Finish
<1>6. CASE pc' = pc /\ use' \in [Thread -> {"nothing", "handle", "statement"}]
           /\ \A s \in Thread : s # t => use'[s] = use[s]
    <2>1. \A s \in Thread : use'[s] # "nothing" => pc'[s] \in Writes
        BY <1>1, <1>2, <1>6
    <2> QED
        BY <1>1, <1>4, <1>6, <2>1, Calm
<1>7. CASE /\ \E p \in Written(pc[t]) \cup Unwritten(pc[t]) : pc' = [pc EXCEPT ![t] = p]
           /\ \/ use' = [use EXCEPT ![t] = "nothing"]
              \/ use' = use /\ use[t] = "nothing"
    <2>1. PICK p \in Pc : pc' = [pc EXCEPT ![t] = p]
        BY <1>2, <1>7, NextPc
    <2> QED
        BY <1>3, <1>4, <1>7, <2>1, Moves
<1> QED
    BY <1>5, <1>6, <1>7

LEMMA WatcherStep ==
    ASSUME IInv, NEW w \in Watcher, watcher_thread(w)
    PROVE  IInv'
<1>1. Alive(w) /\ w \in Thread /\ use' = use
    BY DEF watcher_thread, Open, Check, Call, CallFails, Alive, Thread
<1>2. UNCHANGED <<shell, watchVars>>
    BY DEF watcher_thread, Open, Check, Call, CallFails, shellVars
<1>3. pc[w] \notin Writes
    BY DEF watcher_thread, Open, Check, Call, CallFails, Writes, Says
<1>4. use[w] = "nothing"
    BY <1>1, <1>3 DEF IInv, Started
<1>5. \E q \in Pc : pc' = [pc EXCEPT ![w] = q]
    <2>1. \E q \in {"sayStarted", "sayFailed", "sayStopped", "call", "read", "logChange", "check"} :
              pc' = [pc EXCEPT ![w] = q]
        BY DEF watcher_thread, Open, Check, Call, CallFails
    <2> QED
        BY <2>1 DEF Pc, Writes, Says
<1> QED
    BY <1>1, <1>2, <1>4, <1>5, Moves

-------------------------------------------------------------------------------
(* The commands *)

(* aelion_start_watcher: the new watcher, and nobody else, is handled.     *)
LEMMA WatchOnStep ==
    ASSUME IInv, WatchOn
    PROVE  IInv'
<1> DEFINE w == starts + 1
<1>1. /\ pc \in [Thread -> Pc] /\ starts \in 0 .. MaxStarts /\ Watcher \subseteq Thread
      /\ MaxStarts \in Nat /\ starts < MaxStarts /\ watchHandle = 0
      /\ \A v \in Watcher : v > starts => pc[v] = "none"
    BY SessionAssumption DEF IInv, Started, Thread, WatchOn
<1>2. w \in Watcher /\ w \in Thread /\ w > 0
    BY <1>1 DEF Watcher
<1>3. /\ StartWatcher(w) /\ starts' = w /\ UNCHANGED <<shell, use>>
      /\ shell # "stopping"
    BY DEF WatchOn, StartWatcher, shellVars
<1>4. \A v \in Watcher : ~Alive(v)
    BY <1>1, <1>2 DEF IInv, StopReachesWatcher, Watcher
<1>5. /\ \/ stopEvent' = w /\ w \in events'
         \/ stopEvent' = 0
      /\ \/ watchHandle' = w /\ pc' = [pc EXCEPT ![w] = "open"]
         \/ watchHandle' = 0 /\ pc' = pc
    BY <1>3 DEF StartWatcher
<1>6. pc' \in [Thread -> Pc] /\ \A v \in Watcher : v # w => pc'[v] = pc[v]
    BY <1>1, <1>5 DEF Pc
<1>7. \A v \in Watcher : v > starts' => pc'[v] = "none"
    BY <1>1, <1>3, <1>6 DEF Watcher
<1>8. StopReachesWatcher'
    <2> SUFFICES ASSUME NEW v \in Watcher, Alive(v)'
                 PROVE  watchHandle' = v /\ (stopEvent' = 0 \/ (stopEvent' = v /\ v \in events'))
        BY DEF StopReachesWatcher
    <2>1. v = w
        BY <1>4, <1>6 DEF Alive
    <2>2. pc' # pc
        BY <1>4, <2>1 DEF Alive
    <2> QED
        BY <1>5, <2>1, <2>2
<1>9. \A t \in Thread : use'[t] # "nothing" => pc'[t] \in Writes
    <2> SUFFICES ASSUME NEW t \in Thread, use[t] # "nothing" PROVE pc'[t] \in Writes
        BY <1>3
    <2>1. pc[t] \in Writes
        BY DEF IInv, Started
    <2>2. t # w
        BY <1>1, <1>2, <2>1 DEF Writes, Says, Watcher
    <2> QED
        BY <1>1, <1>5, <2>1, <2>2
<1>10. starts' \in 0 .. MaxStarts /\ watchHandle' \in 0 .. MaxStarts
    BY <1>1, <1>3, <1>5
<1> QED
    BY <1>3, <1>6, <1>7, <1>8, <1>9, <1>10 DEF IInv, Started

(* aelion_stop_watcher after its wait: the only watcher that could run has *)
(* ended.                                                                  *)
LEMMA WatchJoinedStep ==
    ASSUME IInv, WatchJoined
    PROVE  IInv'
<1>1. \A w \in Watcher : ~Alive(w)
    BY DEF IInv, StopReachesWatcher, WatchJoined, Alive
<1>2. StopReachesWatcher'
    BY <1>1 DEF StopReachesWatcher, WatchJoined, Alive
<1>3. 0 \in 0 .. MaxStarts
    BY SessionAssumption
<1> QED
    BY <1>2, <1>3 DEF IInv, Started, WatchJoined

LEMMA TypedStep ==
    ASSUME IInv, Typed \/ Follows
    PROVE  IInv'
<1>1. /\ pc \in [Thread -> Pc] /\ use \in [Thread -> {"nothing", "handle", "statement"}]
      /\ Watcher \subseteq Thread /\ Scanner \in Thread /\ Scanner \notin Watcher
      /\ \A s \in Thread : use[s] # "nothing" => pc[s] \in Writes
    BY SessionAssumption DEF IInv, Started, Thread, Scanner, Watcher
<1>2. CASE Scan
    <2>1. pc' = pc \/ pc' = [pc EXCEPT ![Scanner] = "sayScan"]
        BY <1>2 DEF Scan
    <2>2. "sayScan" \in Pc /\ "sayScan" \in Writes
        BY DEF Pc, Writes, Says
    <2>3. pc' \in [Thread -> Pc] /\ \A w \in Watcher : pc'[w] = pc[w]
        BY <1>1, <2>1, <2>2
    <2>4. \A s \in Thread : use[s] # "nothing" => pc'[s] \in Writes
        BY <1>1, <2>1, <2>2
    <2> QED
        BY <1>1, <1>2, <2>3, <2>4, Calm DEF Scan
<1>3. CASE ScanRefused \/ Reload \/ Reloaded \/ Exit
    BY <1>1, <1>3, Calm DEF ScanRefused, Reload, Reloaded, Exit, vars, shellVars
<1>5. CASE WatchOn
    BY <1>5, WatchOnStep
<1>6. CASE WatchOff
    BY <1>6 DEF WatchOff, IInv, Started, StopReachesWatcher, Alive
<1>7. CASE WatchJoined
    BY <1>7, WatchJoinedStep
<1>8. CASE ProcessExits
    <2>1. UNCHANGED watchVars /\ shell' # "stopping"
        BY <1>8 DEF ProcessExits
    <2>2. pc' = [t \in Thread |-> IF Alive(t) THEN "gone" ELSE pc[t]]
        BY <1>8 DEF ProcessExits
    <2>3. use' = [t \in Thread |-> "nothing"]
        BY <1>8 DEF ProcessExits
    <2>4. pc' \in [Thread -> Pc] /\ \A w \in Watcher : pc'[w] = pc[w] \/ Alive(w)
        BY <1>1, <2>2 DEF Pc
    <2>5. use' \in [Thread -> {"nothing", "handle", "statement"}]
        BY <2>3
    <2>6. \A t \in Thread : use'[t] = "nothing"
        BY <2>3
    <2> QED
        BY <2>1, <2>4, <2>5, <2>6, Calm
<1> QED
    BY <1>2, <1>3, <1>5, <1>6, <1>7, <1>8 DEF Typed, Follows

LEMMA Step == IInv /\ [Next]_vars => IInv'
<1> SUFFICES ASSUME IInv, [Next]_vars PROVE IInv'
    OBVIOUS
<1>1. /\ pc \in [Thread -> Pc] /\ use \in [Thread -> {"nothing", "handle", "statement"}]
      /\ Watcher \subseteq Thread
      /\ \A s \in Thread : use[s] # "nothing" => pc[s] \in Writes
    BY DEF IInv, Started, Thread
<1>2. CASE FileChange
    <2>1. UNCHANGED <<shell, watchVars, use>> /\ \E r \in Dirs : Change(r)
        BY <1>2 DEF FileChange, shellVars
    <2>2. /\ pc' \in [Thread -> Pc]
          /\ \A s \in Thread : pc'[s] = pc[s] \/ (pc[s] = "read" /\ pc'[s] = "logChange")
        BY <1>1, <2>1, ChangeWakes
    <2> QED
        BY <1>1, <2>1, <2>2, Calm DEF Alive, Writes
<1>3. CASE \E t \in Thread : ThreadStep(t)
    BY <1>3, DatabaseStep, WatcherStep DEF ThreadStep
<1>4. CASE Typed \/ Follows
    BY <1>4, TypedStep
<1>5. CASE UNCHANGED vars
    BY <1>1, <1>5, Calm DEF vars, shellVars
<1> QED
    BY <1>2, <1>3, <1>4, <1>5 DEF Next

(* At most one watcher runs; g_watchThread is its handle and g_stopEvent   *)
(* its event, open until it has ended.                                     *)
THEOREM WatchOffReachesAll == Spec => []StopReachesWatcher
<1>1. IInv => StopReachesWatcher
    BY DEF IInv
<1> QED
    BY <1>1, Start, Step, PTL DEF Spec

-------------------------------------------------------------------------------
(* The rows of fs_changes *)

RecordType ==
    /\ changes \in Nat /\ buffer \in [Watcher -> Nat] /\ queue \in [Watcher -> Seq(Nat)]
    /\ fs_changes \in Seq(Nat) /\ lossy \in BOOLEAN /\ armed \subseteq Watcher
    /\ pc[Scanner] # "logChange"

(* A record is newer than all rows and than the buffer while the kernel    *)
(* keeps it,                                                               *)
Kept(w) ==
    /\ pc[w] = "read" => queue[w] = <<>>
    /\ \A k \in DOMAIN queue[w] :
          /\ buffer[w] < queue[w][k] /\ queue[w][k] <= changes
          /\ \A i \in DOMAIN fs_changes : fs_changes[i] < queue[w][k]

(* no older than any row while it is in the buffer, and newer than all of  *)
(* them when it becomes a row, unless an overflow has left it there.       *)
Buffered(w) ==
    /\ w \in armed /\ pc[w] # "read" => \A i \in DOMAIN fs_changes : fs_changes[i] <= buffer[w]
    /\ pc[w] = "logChange" =>
          /\ w \in armed
          /\ \A i \in DOMAIN fs_changes : fs_changes[i] = buffer[w] => lossy

RecordInv ==
    /\ RecordType
    /\ LogInOrder
    /\ \A i \in DOMAIN fs_changes : fs_changes[i] <= changes
    /\ \A w \in Watcher : buffer[w] <= changes
    /\ \A w \in Watcher : w \notin armed => queue[w] = <<>>
    /\ \A w \in Watcher : pc[w] \in {"none", "open"} => w \notin armed
    /\ \A w \in Watcher : Alive(w) => Kept(w) /\ Buffered(w)

LEMMA RecordStart == Init => RecordInv
<1> SUFFICES ASSUME Init PROVE RecordInv
    OBVIOUS
<1>1. Watcher \subseteq Thread /\ Scanner \in Thread
    BY DEF Thread
<1>2. \A w \in Watcher : ~Alive(w)
    BY <1>1 DEF Init, Alive
<1>3. pc[Scanner] # "logChange" /\ <<>> \in Seq(Nat) /\ DOMAIN fs_changes = {}
    BY <1>1 DEF Init
<1>4. RecordType
    BY <1>3 DEF Init, RecordType
<1>5. LogInOrder
    BY <1>3 DEF LogInOrder
<1> QED
    BY <1>2, <1>3, <1>4, <1>5 DEF Init, RecordInv

(* How a step may move watcher w without touching its records.             *)
Quiet(w) ==
    \/ pc'[w] = pc[w]
    \/ pc'[w] = "gone"
    \/ pc[w] = "none" /\ pc'[w] = "open"
    \/ /\ Alive(w) /\ pc[w] # "read"
       /\ pc'[w] \notin {"none", "open", "read", "logChange"}

LEMMA RecordCalm ==
    ASSUME RecordInv, UNCHANGED <<armed, queue, buffer, changes, fs_changes, lossy>>,
           \A w \in Watcher : Quiet(w), pc'[Scanner] # "logChange"
    PROVE  RecordInv'
<1>1. RecordType' /\ LogInOrder'
    BY DEF RecordInv, RecordType, LogInOrder
<1>2. \A w \in Watcher : pc'[w] \in {"none", "open"} => w \notin armed'
    BY DEF RecordInv, Quiet
<1>3. ASSUME NEW w \in Watcher, Alive(w)' PROVE Kept(w)' /\ Buffered(w)'
    <2>1. CASE Alive(w)
        <3>1. Kept(w) /\ Buffered(w)
            BY <2>1 DEF RecordInv
        <3>2. pc'[w] = pc[w] \/ (pc[w] # "read" /\ pc'[w] \notin {"read", "logChange"})
            BY <1>3, <2>1 DEF Quiet, Alive
        <3> QED
            BY <3>1, <3>2 DEF Kept, Buffered
    <2>2. CASE ~Alive(w)
        <3>1. pc[w] = "none" /\ pc'[w] = "open"
            BY <1>3, <2>2 DEF Quiet, Alive
        <3>2. w \notin armed /\ queue[w] = <<>>
            BY <3>1 DEF RecordInv
        <3> QED
            BY <3>1, <3>2 DEF Kept, Buffered
    <2> QED
        BY <2>1, <2>2
<1> QED
    BY <1>1, <1>2, <1>3 DEF RecordInv

(* A new change is newer than everything.                                  *)
LEMMA RecordChange ==
    ASSUME IInv, RecordInv, FileChange
    PROVE  RecordInv'
<1> DEFINE c == changes + 1
<1>1. PICK r \in Dirs : Change(r)
    BY DEF FileChange
<1> DEFINE heard == {w \in armed : dir[w] = r}
           woken == {w \in heard : pc[w] = "read"}
<1>2. /\ changes' = c /\ c \in Nat /\ c > changes
      /\ UNCHANGED <<armed, fs_changes, lossy>> /\ Watcher \subseteq Thread
      /\ woken \subseteq Watcher /\ Scanner \notin Watcher /\ Scanner \in Thread
      /\ \A w \in Watcher : w \in woken => pc'[w] = "logChange" /\ buffer'[w] = c
      /\ \A w \in Watcher : w \notin woken => pc'[w] = pc[w] /\ buffer'[w] = buffer[w]
      /\ \A w \in Watcher : \/ queue'[w] = queue[w]
                            \/ w \in heard \ woken /\ queue'[w] = Append(queue[w], c)
    <2>1. /\ changes' = c /\ changes \in Nat /\ armed \subseteq Watcher
          /\ UNCHANGED <<armed, fs_changes, lossy>>
        BY <1>1 DEF FileChange, Change, dbVars, history, RecordInv, RecordType
    <2>2. Watcher \subseteq Thread /\ Scanner \notin Watcher /\ Scanner \in Thread
        BY SessionAssumption DEF Thread, Scanner, Watcher
    <2>3. /\ pc' = [t \in Thread |-> IF t \in woken THEN "logChange" ELSE pc[t]]
          /\ buffer' = [w \in Watcher |-> IF w \in woken THEN c ELSE buffer[w]]
          /\ queue' = [w \in Watcher |->
                          IF w \in heard \ woken /\ Len(queue[w]) <= KernelBuffer
                          THEN Append(queue[w], c) ELSE queue[w]]
        BY <1>1 DEF Change
    <2>4. woken \subseteq Watcher /\ c \in Nat /\ c > changes
        BY <2>1
    <2> HIDE DEF heard, woken, c
    <2> QED
        BY <2>1, <2>2, <2>3, <2>4
<1>3. RecordType'
    <2>1. buffer' \in [Watcher -> Nat]
        BY <1>1, <1>2 DEF Change, RecordInv, RecordType
    <2>2. queue' \in [Watcher -> Seq(Nat)]
        <3>1. \A w \in Watcher : Append(queue[w], c) \in Seq(Nat)
            BY <1>2 DEF RecordInv, RecordType
        <3> QED
            BY <1>1, <3>1 DEF Change, RecordInv, RecordType
    <2>3. pc'[Scanner] # "logChange"
        BY <1>1, <1>2 DEF Change, RecordInv, RecordType
    <2> QED
        BY <1>2, <2>1, <2>2, <2>3 DEF RecordInv, RecordType
<1>4. LogInOrder' /\ \A i \in DOMAIN fs_changes' : fs_changes'[i] <= changes'
    BY <1>2 DEF RecordInv, RecordType, LogInOrder
<1>5. ASSUME NEW w \in Watcher PROVE buffer'[w] <= changes'
    <2>1. buffer[w] <= changes /\ buffer[w] \in Nat /\ changes \in Nat
        BY DEF RecordInv, RecordType
    <2>2. buffer'[w] = c \/ buffer'[w] = buffer[w]
        BY <1>2
    <2> QED
        BY <1>2, <2>1, <2>2
<1>6. \A w \in Watcher : w \notin armed' => queue'[w] = <<>>
    BY <1>2 DEF RecordInv
<1>7. \A w \in Watcher : pc'[w] \in {"none", "open"} => w \notin armed'
    BY <1>2 DEF RecordInv
<1>8. ASSUME NEW w \in Watcher, Alive(w)' PROVE Kept(w)' /\ Buffered(w)'
    <2>1. Alive(w)
        BY <1>2, <1>8 DEF Alive
    <2>2. Kept(w) /\ Buffered(w)
        BY <2>1 DEF RecordInv
    <2>3. /\ queue[w] \in Seq(Nat) /\ buffer[w] \in Nat /\ buffer[w] <= changes /\ changes \in Nat
          /\ fs_changes \in Seq(Nat) /\ \A i \in DOMAIN fs_changes : fs_changes[i] <= changes
        BY DEF RecordInv, RecordType
    <2>4. CASE w \in woken
        <3>1. queue'[w] = <<>>
            BY <1>2, <2>2, <2>4 DEF Kept
        <3>2. \A i \in DOMAIN fs_changes : fs_changes[i] < c
            BY <1>2, <2>3
        <3>3. Buffered(w)'
            BY <1>2, <2>3, <2>4, <3>2 DEF Buffered
        <3> QED
            BY <3>1, <3>3 DEF Kept
    <2>5. CASE w \notin woken
        <3>1. Buffered(w)'
            BY <1>2, <2>2, <2>5 DEF Buffered
        <3>2. CASE queue'[w] = queue[w]
            <4>1. \A k \in DOMAIN queue[w] : queue[w][k] \in Nat
                BY <2>3
            <4> QED
                BY <1>2, <2>2, <2>3, <2>5, <3>1, <3>2, <4>1 DEF Kept
        <3>3. CASE w \in heard \ woken /\ queue'[w] = Append(queue[w], c)
            <4>1. pc'[w] # "read"
                BY <1>2, <3>3
            <4>2. ASSUME NEW k \in DOMAIN queue'[w]
                  PROVE  /\ buffer'[w] < queue'[w][k] /\ queue'[w][k] <= changes'
                         /\ \A i \in DOMAIN fs_changes' : fs_changes'[i] < queue'[w][k]
                <5>1. (k \in DOMAIN queue[w] /\ queue'[w][k] = queue[w][k]) \/ queue'[w][k] = c
                    BY <2>3, <3>3
                <5>2. CASE queue'[w][k] = c
                    BY <1>2, <2>3, <2>5, <5>2
                <5>3. CASE k \in DOMAIN queue[w] /\ queue'[w][k] = queue[w][k]
                    <6>1. queue[w][k] \in Nat
                        BY <2>3, <5>3
                    <6> QED
                        BY <1>2, <2>2, <2>3, <2>5, <5>3, <6>1 DEF Kept
                <5> QED
                    BY <5>1, <5>2, <5>3
            <4> QED
                BY <3>1, <4>1, <4>2 DEF Kept
        <3> QED
            BY <1>2, <3>2, <3>3
    <2> QED
        BY <2>4, <2>5
<1> QED
    BY <1>3, <1>4, <1>5, <1>6, <1>7, <1>8 DEF RecordInv

(* A watcher that empties its queue, as Call and the end of the loop do,   *)
(* disturbs only what is said of its own buffer.                           *)
LEMMA RecordOthers ==
    ASSUME RecordInv, NEW w \in Watcher, pc \in [Thread -> Pc],
           UNCHANGED <<changes, fs_changes>>, lossy' \in BOOLEAN, lossy => lossy',
           queue' = [queue EXCEPT ![w] = <<>>],
           NEW q, pc' = [pc EXCEPT ![w] = q], q \notin {"none", "open"},
           NEW b \in Nat, buffer' = [buffer EXCEPT ![w] = b], b <= changes,
           armed' = armed \cup {w} \/ armed' = armed \ {w},
           Buffered(w)'
    PROVE  RecordInv'
<1>1. /\ Watcher \subseteq Thread /\ Scanner \in Thread /\ Scanner \notin Watcher
      /\ RecordType /\ LogInOrder
    BY SessionAssumption DEF Thread, Scanner, Watcher, RecordInv
<1>2. /\ queue'[w] = <<>> /\ pc'[w] = q /\ buffer'[w] = b
      /\ \A v \in Watcher : v # w =>
            /\ queue'[v] = queue[v] /\ pc'[v] = pc[v] /\ buffer'[v] = buffer[v]
            /\ v \in armed' <=> v \in armed
    BY <1>1 DEF RecordType
<1>3. RecordType'
    <2>1. pc'[Scanner] # "logChange"
        BY <1>1 DEF RecordType
    <2>2. <<>> \in Seq(Nat)
        OBVIOUS
    <2> QED
        BY <1>1, <2>1, <2>2 DEF RecordType
<1>4. LogInOrder'
    BY <1>1 DEF LogInOrder, RecordType
<1>5. ASSUME NEW v \in Watcher, Alive(v)' PROVE Kept(v)' /\ Buffered(v)'
    <2>1. CASE v = w
        BY <1>2, <2>1 DEF Kept
    <2>2. CASE v # w
        <3>1. Alive(v)
            BY <1>2, <1>5, <2>2 DEF Alive
        <3>2. Kept(v) /\ Buffered(v)
            BY <3>1 DEF RecordInv
        <3>3. Kept(v)'
            BY <1>2, <2>2, <3>2 DEF Kept
        <3>4. Buffered(v)'
            BY <1>2, <2>2, <3>2 DEF Buffered
        <3> QED
            BY <3>3, <3>4
    <2> QED
        BY <2>1, <2>2
<1>6. \A v \in Watcher : v \notin armed' => queue'[v] = <<>>
    BY <1>2 DEF RecordInv
<1>7. \A v \in Watcher : pc'[v] \in {"none", "open"} => v \notin armed'
    BY <1>2 DEF RecordInv
<1>8. /\ \A i \in DOMAIN fs_changes' : fs_changes'[i] <= changes'
      /\ \A v \in Watcher : buffer'[v] <= changes'
    BY <1>2 DEF RecordInv
<1> QED
    BY <1>3, <1>4, <1>5, <1>6, <1>7, <1>8 DEF RecordInv

(* The call takes the oldest record the kernel has kept, or after an       *)
(* overflow leaves the last one.                                           *)
LEMMA RecordCall ==
    ASSUME IInv, RecordInv, NEW w \in Watcher, Call(w)
    PROVE  RecordInv'
<1>1. /\ pc[w] = "call" /\ Alive(w) /\ pc \in [Thread -> Pc] /\ w \in Thread
      /\ Watcher \subseteq Thread
    BY DEF Call, Alive, IInv, Started, Thread
<1>2. /\ Kept(w) /\ Buffered(w) /\ queue[w] \in Seq(Nat) /\ buffer[w] \in Nat /\ changes \in Nat
      /\ buffer \in [Watcher -> Nat] /\ queue \in [Watcher -> Seq(Nat)] /\ Len(queue[w]) \in Nat
      /\ fs_changes \in Seq(Nat) /\ KernelBuffer \in Nat \ {0}
    BY <1>1, SessionAssumption DEF RecordInv, RecordType
<1>3. /\ armed' = armed \cup {w} /\ queue' = [queue EXCEPT ![w] = <<>>]
      /\ lossy' = (lossy \/ Len(queue[w]) > KernelBuffer)
      /\ buffer' = [buffer EXCEPT ![w] = IF Len(queue[w]) \in 1 .. KernelBuffer
                                         THEN queue[w][1] ELSE @]
      /\ pc' = [pc EXCEPT ![w] = IF queue[w] = <<>> THEN "read" ELSE "logChange"]
      /\ UNCHANGED <<changes, fs_changes>>
    BY DEF Call, dbVars
<1>4. CASE Len(queue[w]) \in 1 .. KernelBuffer
    <2>1. 1 \in DOMAIN queue[w] /\ queue[w][1] \in Nat /\ queue[w] # <<>>
        BY <1>2, <1>4
    <2>2. /\ queue[w][1] <= changes
          /\ \A i \in DOMAIN fs_changes : fs_changes[i] < queue[w][1]
        BY <1>2, <2>1 DEF Kept
    <2>3. buffer'[w] = queue[w][1] /\ pc'[w] = "logChange"
        BY <1>1, <1>2, <1>3, <1>4, <2>1
    <2>4. Buffered(w)'
        BY <1>2, <1>3, <2>1, <2>2, <2>3 DEF Buffered
    <2>5. /\ buffer' = [buffer EXCEPT ![w] = queue[w][1]]
          /\ pc' = [pc EXCEPT ![w] = "logChange"] /\ lossy' \in BOOLEAN
        BY <1>2, <1>3, <1>4, <2>1 DEF RecordInv, RecordType
    <2> QED
        BY <1>1, <1>2, <1>3, <2>1, <2>2, <2>4, <2>5, RecordOthers
<1>5. CASE Len(queue[w]) \notin 1 .. KernelBuffer
    <2>1. /\ buffer' = [buffer EXCEPT ![w] = buffer[w]] /\ buffer' = buffer
          /\ buffer[w] <= changes /\ lossy' \in BOOLEAN
        BY <1>2, <1>3, <1>5 DEF RecordInv, RecordType
    <2>2. CASE queue[w] = <<>>
        <3>1. pc' = [pc EXCEPT ![w] = "read"]
            BY <1>3, <2>2
        <3>2. Buffered(w)'
            BY <1>1, <3>1 DEF Buffered
        <3> QED
            BY <1>1, <1>2, <1>3, <2>1, <3>1, <3>2, RecordOthers
    <2>3. CASE queue[w] # <<>>
        <3>1. Len(queue[w]) > KernelBuffer
            BY <1>2, <1>5, <2>3
        <3>2. lossy' /\ pc' = [pc EXCEPT ![w] = "logChange"] /\ w \in armed
            BY <1>3, <2>3, <3>1 DEF RecordInv
        <3>3. Buffered(w)'
            BY <1>1, <1>2, <1>3, <2>1, <3>2 DEF Buffered
        <3> QED
            BY <1>1, <1>2, <1>3, <2>1, <3>2, <3>3, RecordOthers
    <2> QED
        BY <2>2, <2>3
<1> QED
    BY <1>4, <1>5

(* The row is newer than the others, or repeats the last one after an      *)
(* overflow.  No other watcher runs.                                       *)
LEMMA RecordFinish ==
    ASSUME IInv, RecordInv, NEW w \in Watcher, Finish(w), pc[w] = "logChange"
    PROVE  RecordInv'
<1> DEFINE L == Len(fs_changes)
<1>1. /\ Alive(w) /\ pc \in [Thread -> Pc] /\ w \in Thread /\ Watcher \subseteq Thread
      /\ Scanner # w /\ Scanner \in Thread /\ \A v \in Watcher : Alive(v) => v = w
    BY SessionAssumption
       DEF Alive, IInv, Started, StopReachesWatcher, Thread, Scanner, Watcher
<1>2. /\ fs_changes' = Append(fs_changes, buffer[w]) /\ pc' = [pc EXCEPT ![w] = "sayChange"]
      /\ UNCHANGED <<armed, queue, buffer, changes, lossy>>
    BY DEF Finish, Written, diskVars, history
<1>3. /\ Kept(w) /\ Buffered(w) /\ RecordType /\ fs_changes \in Seq(Nat) /\ L \in Nat
      /\ buffer[w] \in Nat /\ buffer[w] <= changes /\ changes \in Nat /\ queue[w] \in Seq(Nat)
      /\ \A i \in DOMAIN fs_changes : fs_changes[i] <= changes
    BY <1>1 DEF RecordInv, RecordType
<1>4. /\ DOMAIN fs_changes = 1 .. L /\ DOMAIN fs_changes' = 1 .. L + 1
      /\ \A i \in 1 .. L : fs_changes'[i] = fs_changes[i] /\ fs_changes[i] \in Nat
      /\ fs_changes'[L + 1] = buffer[w] /\ fs_changes' \in Seq(Nat)
    BY <1>2, <1>3
<1>5. \A i \in 1 .. L : fs_changes[i] <= buffer[w] /\ (fs_changes[i] = buffer[w] => lossy)
    BY <1>3, <1>4 DEF Buffered
<1>6. LogInOrder'
    <2> SUFFICES ASSUME NEW i \in 1 .. L + 1, NEW j \in 1 .. L + 1, i < j
                 PROVE  \/ fs_changes'[i] < fs_changes'[j]
                        \/ lossy' /\ fs_changes'[i] = fs_changes'[j]
        BY <1>4 DEF LogInOrder
    <2>1. CASE j = L + 1
        BY <1>2, <1>3, <1>4, <1>5, <2>1
    <2>2. CASE j # L + 1
        <3>1. i \in DOMAIN fs_changes /\ j \in DOMAIN fs_changes
            BY <1>3, <1>4, <2>2
        <3> QED
            BY <1>2, <1>4, <3>1 DEF RecordInv, LogInOrder
    <2> QED
        BY <2>1, <2>2
<1>7. RecordType' /\ \A i \in DOMAIN fs_changes' : fs_changes'[i] <= changes'
    BY <1>1, <1>2, <1>3, <1>4 DEF RecordType
<1>8. \A v \in Watcher : pc'[v] \in {"none", "open"} => v \notin armed'
    BY <1>1, <1>2 DEF RecordInv
<1>9. ASSUME NEW v \in Watcher, Alive(v)' PROVE Kept(v)' /\ Buffered(v)'
    <2>1. v = w
        BY <1>1, <1>2, <1>9 DEF Alive
    <2>2. pc'[w] = "sayChange"
        BY <1>1, <1>2
    <2>3. Buffered(w)'
        BY <1>2, <1>3, <1>4, <1>5, <2>2 DEF Buffered
    <2>4. ASSUME NEW k \in DOMAIN queue[w], NEW i \in 1 .. L + 1
          PROVE  fs_changes'[i] < queue[w][k]
        <3>1. CASE i \in 1 .. L
            BY <1>3, <1>4, <3>1 DEF Kept
        <3>2. CASE i = L + 1
            BY <1>3, <1>4, <3>2 DEF Kept
        <3> QED
            BY <1>3, <3>1, <3>2
    <2>5. Kept(w)'
        BY <1>2, <1>3, <1>4, <2>2, <2>4 DEF Kept
    <2> QED
        BY <2>1, <2>3, <2>5
<1> QED
    BY <1>2, <1>6, <1>7, <1>8, <1>9 DEF RecordInv

(* No write leads to a step of the watcher that handles a record.          *)
LEMMA NextNoRecord ==
    ASSUME NEW p \in Writes, NEW q \in Written(p) \cup Unwritten(p)
    PROVE  q \notin {"none", "open", "read", "logChange"}
BY DEF Written, Unwritten

LEMMA RecordDatabase ==
    ASSUME IInv, RecordInv, NEW t \in Thread, Database(t)
    PROVE  RecordInv'
<1>1. /\ pc \in [Thread -> Pc] /\ Watcher \subseteq Thread /\ Scanner \in Thread
      /\ \A s \in Thread : use[s] # "nothing" => pc[s] \in Writes
      /\ \A s \in Thread : s \in Watcher \/ s = Scanner
      /\ pc[Scanner] # "logChange"
    BY DEF IInv, Started, Thread, Scanner, RecordInv, RecordType
<1>2. CASE Finish(t) /\ pc[t] = "logChange"
    BY <1>1, <1>2, RecordFinish
<1>3. CASE ~(Finish(t) /\ pc[t] = "logChange")
    <2>1. UNCHANGED <<armed, queue, buffer, changes, fs_changes, lossy>>
        BY <1>3 DEF Database, Enter, Prepare, UseAfterFree, Finish, diskVars, dbVars, history
    <2>2. pc[t] \in Writes
        BY <1>1 DEF Database, Enter, Prepare, UseAfterFree, Finish
    <2>3. pc' = pc \/ \E q \in Written(pc[t]) \cup Unwritten(pc[t]) : pc' = [pc EXCEPT ![t] = q]
        BY DEF Database, Enter, Prepare, UseAfterFree, Finish
    <2>4. pc' = pc \/ \E q : /\ pc' = [pc EXCEPT ![t] = q]
                              /\ q \notin {"none", "open", "read", "logChange"}
        BY <2>2, <2>3, NextNoRecord
    <2>5. Alive(t) /\ pc[t] # "read"
        BY <2>2 DEF Alive, Writes, Says
    <2>6. \A w \in Watcher : Quiet(w)
        BY <1>1, <2>4, <2>5 DEF Quiet
    <2>7. pc'[Scanner] # "logChange"
        BY <1>1, <2>4
    <2> QED
        BY <2>1, <2>6, <2>7, RecordCalm
<1> QED
    BY <1>2, <1>3

LEMMA RecordWatcher ==
    ASSUME IInv, RecordInv, NEW w \in Watcher, watcher_thread(w)
    PROVE  RecordInv'
<1>1. /\ pc \in [Thread -> Pc] /\ Watcher \subseteq Thread /\ Scanner \in Thread
      /\ Scanner # w /\ pc[Scanner] # "logChange" /\ lossy \in BOOLEAN
      /\ buffer \in [Watcher -> Nat] /\ buffer[w] <= changes
    BY SessionAssumption DEF IInv, Started, Thread, Scanner, Watcher, RecordInv, RecordType
<1>2. CASE Call(w)
    BY <1>2, RecordCall
<1>3. CASE Check(w) /\ stopEvent \in signaled \cap events
    <2>1. /\ pc' = [pc EXCEPT ![w] = "sayStopped"] /\ armed' = armed \ {w}
          /\ queue' = [queue EXCEPT ![w] = <<>>]
          /\ UNCHANGED <<buffer, changes, fs_changes, lossy>>
        BY <1>3 DEF Check, dbVars, history
    <2>2. Buffered(w)'
        BY <1>1, <2>1 DEF Buffered
    <2>3. buffer' = [buffer EXCEPT ![w] = buffer[w]] /\ buffer[w] \in Nat
        BY <1>1, <2>1
    <2>4. lossy' \in BOOLEAN /\ (lossy => lossy')
        BY <1>1, <2>1
    <2>5. /\ UNCHANGED <<changes, fs_changes>> /\ "sayStopped" \notin {"none", "open"}
          /\ armed' = armed \cup {w} \/ armed' = armed \ {w}
        BY <2>1
    <2> QED
        BY <1>1, <2>1, <2>2, <2>3, <2>4, <2>5, RecordOthers
<1>4. CASE Open(w) \/ CallFails(w) \/ (Check(w) /\ stopEvent \notin signaled \cap events)
    <2>1. UNCHANGED <<armed, queue, buffer, changes, fs_changes, lossy>>
        BY <1>4 DEF Open, CallFails, Check, diskVars, dbVars, history
    <2>2. /\ pc[w] \in {"open", "call", "check"}
          /\ \E q \in {"sayStarted", "sayFailed", "check", "call"} : pc' = [pc EXCEPT ![w] = q]
        BY <1>4 DEF Open, CallFails, Check
    <2>3. \A v \in Watcher : Quiet(v)
        BY <1>1, <2>2 DEF Quiet, Alive
    <2>4. pc'[Scanner] # "logChange"
        BY <1>1, <2>2
    <2> QED
        BY <2>1, <2>3, <2>4, RecordCalm
<1> QED
    BY <1>2, <1>3, <1>4 DEF watcher_thread

(* A command moves no thread but to its start or to its end.               *)
LEMMA RecordShell ==
    ASSUME IInv, RecordInv, Typed \/ Follows
    PROVE  RecordInv'
<1>1. /\ pc \in [Thread -> Pc] /\ Watcher \subseteq Thread /\ Scanner \in Thread
      /\ Scanner \notin Watcher /\ pc[Scanner] # "logChange"
    BY SessionAssumption DEF IInv, Started, Thread, Scanner, Watcher, RecordInv, RecordType
<1>2. UNCHANGED <<armed, queue, buffer, changes, fs_changes, lossy>>
    BY DEF Typed, Follows, Scan, ScanRefused, WatchOn, StartWatcher, WatchOff, Reload, Exit,
           WatchJoined, Reloaded, ProcessExits, vars, diskVars, dbVars, history
<1>3. CASE Scan
    <2>1. pc' = pc \/ pc' = [pc EXCEPT ![Scanner] = "sayScan"]
        BY <1>3 DEF Scan
    <2> QED
        BY <1>1, <1>2, <2>1, RecordCalm DEF Quiet
<1>4. CASE WatchOn
    <2>1. StartWatcher(starts + 1)
        BY <1>4 DEF WatchOn
    <2>2. pc' = pc \/ pc' = [pc EXCEPT ![starts + 1] = "open"]
        BY <2>1 DEF StartWatcher
    <2>3. starts + 1 \in Watcher /\ pc[starts + 1] = "none"
        BY <1>4, SessionAssumption DEF WatchOn, IInv, Started, Watcher
    <2> QED
        BY <1>1, <1>2, <2>2, <2>3, RecordCalm DEF Quiet
<1>5. CASE ProcessExits
    <2>1. \A t \in Thread : pc'[t] = pc[t] \/ pc'[t] = "gone"
        BY <1>5 DEF ProcessExits
    <2> QED
        BY <1>1, <1>2, <2>1, RecordCalm DEF Quiet
<1>6. CASE ScanRefused \/ WatchOff \/ Reload \/ Exit \/ WatchJoined \/ Reloaded
    <2>1. pc' = pc
        BY <1>6 DEF ScanRefused, WatchOff, Reload, Exit, WatchJoined, Reloaded, vars
    <2> QED
        BY <1>1, <1>2, <2>1, RecordCalm DEF Quiet
<1> QED
    BY <1>3, <1>4, <1>5, <1>6 DEF Typed, Follows

LEMMA RecordStep == IInv /\ RecordInv /\ [Next]_vars => RecordInv'
<1> SUFFICES ASSUME IInv, RecordInv, [Next]_vars PROVE RecordInv'
    OBVIOUS
<1>1. CASE FileChange
    BY <1>1, RecordChange
<1>2. CASE \E t \in Thread : ThreadStep(t)
    BY <1>2, RecordDatabase, RecordWatcher DEF ThreadStep
<1>3. CASE Typed \/ Follows
    BY <1>3, RecordShell
<1>4. CASE UNCHANGED vars
    <2>1. UNCHANGED <<pc, armed, queue, buffer, changes, fs_changes, lossy>>
        BY <1>4 DEF vars, diskVars, dbVars, history
    <2> QED
        BY <2>1, RecordCalm DEF Quiet, RecordInv, RecordType
<1> QED
    BY <1>1, <1>2, <1>3, <1>4 DEF Next

(* A watcher logs changes in their order and each once, unless a           *)
(* notification buffer has overflowed, and so do the watchers of a session *)
(* one after the other.                                                    *)
THEOREM RowsInOrder == Spec => []LogInOrder
<1>1. RecordInv => LogInOrder
    BY DEF RecordInv
<1> QED
    BY <1>1, Start, Step, RecordStart, RecordStep, PTL DEF Spec

-------------------------------------------------------------------------------
(* The freed connection *)

(* Only "exit" frees the connection, and after it no command moves         *)
(* g_watchThread.                                                          *)
UseInv ==
    /\ connection = "freed" => shell \in {"closed", "exited"}
    /\ misused # {} => connection = "freed"
    /\ SafeAfterWatchOff

LEMMA UseStart == Init => UseInv
BY DEF Init, UseInv, SafeAfterWatchOff

(* Who uses it runs, and the only watcher that runs is g_watchThread.      *)
LEMMA UseOfThread ==
    ASSUME IInv, UseInv, NEW t \in Thread, ThreadStep(t)
    PROVE  UseInv'
<1>1. UNCHANGED <<shell, watchHandle, connection>>
    BY DEF ThreadStep, Database, Enter, Prepare, UseAfterFree, Finish, watcher_thread,
           Open, Check, Call, CallFails, shellVars, watchVars, dbVars
<1>2. CASE UseAfterFree(t)
    <2>1. misused' = misused \cup {t} /\ connection = "freed" /\ use[t] # "nothing"
        BY <1>2 DEF UseAfterFree
    <2>2. t \in Watcher => Alive(t)
        BY <2>1 DEF IInv, Started, Alive, Writes, Says
    <2>3. t \in {Scanner, watchHandle}
        BY <2>2 DEF IInv, StopReachesWatcher, Thread
    <2> QED
        BY <1>1, <2>1, <2>3 DEF UseInv, SafeAfterWatchOff
<1>3. CASE ~UseAfterFree(t)
    <2>1. misused' = misused
        BY <1>3 DEF ThreadStep, Database, Enter, Prepare, Finish, watcher_thread,
                    Open, Check, Call, CallFails, history
    <2> QED
        BY <1>1, <2>1 DEF UseInv, SafeAfterWatchOff
<1> QED
    BY <1>2, <1>3

LEMMA UseStep == IInv /\ UseInv /\ [Next]_vars => UseInv'
<1> SUFFICES ASSUME IInv, UseInv, [Next]_vars PROVE UseInv'
    OBVIOUS
<1>1. CASE \E t \in Thread : ThreadStep(t)
    BY <1>1, UseOfThread
<1>2. CASE Exit
    BY <1>2 DEF Exit, UseInv, SafeAfterWatchOff, watchVars, history
<1>3. CASE Typed /\ ~Exit
    <2>1. shell = "prompt" /\ UNCHANGED <<connection, misused>>
        BY <1>3 DEF Typed, Scan, ScanRefused, WatchOn, StartWatcher, WatchOff, Reload,
                    vars, shellVars, dbVars, history
    <2> QED
        BY <2>1 DEF UseInv, SafeAfterWatchOff
<1>4. CASE WatchJoined \/ Reloaded
    <2>1. shell \in {"stopping", "reloading"} /\ UNCHANGED <<connection, misused>>
        BY <1>4 DEF WatchJoined, Reloaded, dbVars, history
    <2> QED
        BY <2>1 DEF UseInv, SafeAfterWatchOff
<1>5. CASE ProcessExits
    BY <1>5 DEF ProcessExits, UseInv, SafeAfterWatchOff, watchVars, dbVars, history
<1>6. CASE FileChange \/ UNCHANGED vars
    BY <1>6 DEF FileChange, vars, UseInv, SafeAfterWatchOff, shellVars, watchVars, dbVars,
                history
<1> QED
    BY <1>1, <1>2, <1>3, <1>4, <1>5, <1>6 DEF Next, Follows

(* A watcher that "watch off" has stopped never uses the connection after  *)
(* aelion_db_close: only the scan and a watcher that was left on can.      *)
THEOREM StoppedDoNoHarm == Spec => []SafeAfterWatchOff
<1>1. UseInv => SafeAfterWatchOff
    BY DEF UseInv
<1> QED
    BY <1>1, Start, Step, UseStart, UseStep, PTL DEF Spec
===============================================================================
