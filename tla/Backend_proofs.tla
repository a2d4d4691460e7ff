---------------------------- MODULE Backend_proofs ----------------------------
(***************************************************************************)
(* Theorems about Backend, for every number of requests and of crashes.    *)
(***************************************************************************)
EXTENDS Backend, FiniteSetTheorems, TLAPS

LEMMA StepCases ==
    ASSUME Next, NEW G, Start => G, Create => G, Crash => G,
           \A r \in Request : LoadFails(r) => G, \A r \in Request : All(r) => G,
           \A r \in Request : Refuse(r) => G, \A r \in Request : Load(r) => G,
           \A r \in Request : Open(r) => G, \A r \in Request : Save(r) => G
    PROVE  G
BY DEF Next, Serve

LEMMA LengthType ==
    ASSUME NEW d \in SUBSET Post PROVE Length(d) \in Nat \ {0}
<1>1. IsFiniteSet(d) /\ IsFiniteSet(d \cap Long)
  BY BackendAssumption, FS_Subset
<1>2. Cardinality(d) \in Nat /\ Cardinality(d \cap Long) \in Nat
  BY <1>1, FS_CardinalityType
<1>. QED  BY <1>2 DEF Length

(* A write says what was to be written, and leaves something over only of  *)
(* a file that said something.                                             *)
LEMMA WrittenFile ==
    ASSUME NEW d \in SUBSET Post, NEW f \in [data : (SUBSET Post) \cup {None}, over : Nat]
    PROVE  /\ Written(d, f) \in [data : (SUBSET Post) \cup {None}, over : Nat]
           /\ Written(d, f).data = d
           /\ f.data = None => Written(d, f).over = 0
<1>. DEFINE old == IF f.data = None THEN 0 ELSE Length(f.data) + f.over
            over == IF old > Length(d) THEN old - Length(d) ELSE 0
<1>1. Written(d, f) = [data |-> d, over |-> over]
  BY DEF Written
<1>2. Length(d) \in Nat \ {0}
  BY LengthType
<1>3. f.data # None => Length(f.data) \in Nat
  BY LengthType
<1>4. old \in Nat /\ (f.data = None => old = 0)
  BY <1>3
<1>5. over \in Nat /\ (f.data = None => over = 0)
  BY <1>2, <1>4
<1>. QED  BY <1>1, <1>5

LEMMA TruncatedFile ==
    /\ Truncated \in [data : (SUBSET Post) \cup {None}, over : Nat]
    /\ Truncated.data = None /\ Truncated # None /\ ~Readable(Truncated)
<1>1. Truncated \in [data : (SUBSET Post) \cup {None}, over : Nat] /\ Truncated.data = None
  BY DEF Truncated
<1>. QED  BY <1>1, BackendAssumption DEF Readable

LEMMA ReadableFile ==
    ASSUME TypeOK, Readable(file)
    PROVE  file \in [data : (SUBSET Post) \cup {None}, over : Nat] /\ file.data \in SUBSET Post
BY DEF TypeOK, Readable

-------------------------------------------------------------------------------
(* Where requests may be. *)

BusyInv ==
    /\ \A r \in Busy : r \in Post /\ r \in data[r] /\ server = "up"
    /\ \A r, s \in Busy : r # s => r \in raced
    /\ file = None \/ server = "create" => \A r \in Request : pc[r] = "new" /\ shown[r] = None
    /\ server = "create" => file = Truncated
    /\ server = "up" => file # None

BaseInv == TypeOK /\ BusyInv

LEMMA BaseInit == Init => BaseInv
<1>. SUFFICES ASSUME Init PROVE BaseInv
  OBVIOUS
<1>1. TypeOK
  BY BackendAssumption DEF Init, TypeOK
<1>2. Busy = {}
  BY DEF Init, Busy
<1>3. BusyInv
  BY <1>2 DEF Init, BusyInv
<1>. QED  BY <1>1, <1>3 DEF BaseInv

LEMMA BaseStep == BaseInv /\ [Next]_vars => BaseInv'
<1>. SUFFICES ASSUME BaseInv, [Next]_vars PROVE BaseInv'
  OBVIOUS
<1>. USE DEF BaseInv
<1>1. CASE UNCHANGED vars
  BY <1>1 DEF vars, TypeOK, BusyInv, Busy
<1>2. ASSUME Start PROVE BaseInv'
  BY <1>2, TruncatedFile DEF Start, Exists, TypeOK, BusyInv, Busy
<1>3. ASSUME Create PROVE BaseInv'
  <2>1. /\ Written({}, file) \in [data : (SUBSET Post) \cup {None}, over : Nat]
        /\ Written({}, file) # None
    BY <1>3, TruncatedFile, WrittenFile, BackendAssumption DEF Create, BusyInv
  <2>. QED  BY <1>3, <2>1 DEF Create, TypeOK, BusyInv, Busy
<1>4. ASSUME Crash PROVE BaseInv'
  BY <1>4 DEF Crash, TypeOK, BusyInv, Busy
<1>5. ASSUME NEW r \in Request, LoadFails(r) PROVE BaseInv'
  BY <1>5 DEF LoadFails, Goto, TypeOK, BusyInv, Busy
<1>6. ASSUME NEW r \in Request, All(r) PROVE BaseInv'
  BY <1>6, ReadableFile DEF All, Goto, TypeOK, BusyInv, Busy
<1>7. ASSUME NEW r \in Request, Refuse(r) PROVE BaseInv'
  BY <1>7 DEF Refuse, Goto, TypeOK, BusyInv, Busy
<1>8. ASSUME NEW r \in Request, Load(r) PROVE BaseInv'
  <2>1. Appended(r) \in SUBSET Post /\ r \in Appended(r) /\ r \in Post
    BY <1>8, ReadableFile, BackendAssumption DEF Load, Appended
  <2>2. Busy' = Busy \cup {r} /\ r \notin Busy
    BY <1>8 DEF Load, Goto, TypeOK, Busy
  <2>3. raced' \subseteq Post /\ raced \subseteq raced'
        /\ (Busy # {} => Busy \cup {r} \subseteq raced')
    BY <1>8, <2>1 DEF Load, TypeOK, BusyInv
  <2>4. data' = [data EXCEPT ![r] = Appended(r)]
    BY <1>8 DEF Load
  <2>5. TypeOK'
    BY <1>8, <2>1, <2>3, <2>4 DEF Load, Goto, TypeOK
  <2>6. /\ \A s \in Busy' : s \in Post /\ s \in data'[s] /\ server' = "up"
        /\ \A s, u \in Busy' : s # u => s \in raced'
    BY <1>8, <2>1, <2>2, <2>3, <2>4 DEF Load, TypeOK, BusyInv, Busy
  <2>. QED  BY <1>8, <2>5, <2>6 DEF Load, BusyInv
<1>9. ASSUME NEW r \in Request, Open(r) PROVE BaseInv'
  BY <1>9, TruncatedFile DEF Open, Goto, TypeOK, BusyInv, Busy
<1>10. ASSUME NEW r \in Request, Save(r) PROVE BaseInv'
  <2>1. r \in Busy /\ file # None
    BY <1>10 DEF Save, Busy, BusyInv
  <2>2. file \in [data : (SUBSET Post) \cup {None}, over : Nat] /\ data[r] \in SUBSET Post
    BY <2>1 DEF TypeOK
  <2>3. /\ Written(data[r], file) \in [data : (SUBSET Post) \cup {None}, over : Nat]
        /\ Written(data[r], file) # None
    BY <2>2, WrittenFile, BackendAssumption
  <2>. QED  BY <1>10, <2>1, <2>3 DEF Save, Goto, TypeOK, BusyInv, Busy
<1>. QED  BY <1>1, <1>2, <1>3, <1>4, <1>5, <1>6, <1>7, <1>8, <1>9, <1>10, StepCases

(* Every variable of the backend keeps its type, and the requests that are *)
(* storing are POSTs of a server that is up (aelion.sh:14-69).             *)
THEOREM BackendTypeCorrect == Spec => []TypeOK
<1>1. BaseInv => TypeOK
  BY DEF BaseInv
<1>. QED  BY BaseInit, BaseStep, <1>1, PTL DEF Spec

-------------------------------------------------------------------------------
(* StoredUnlessRaced *)

Shown == {e \in Post : \E r \in Request : shown[r] # None /\ e \in shown[r]}
Told == (Acked \cup Shown) \ raced

(* The entries that did not race are in the file, and in what every        *)
(* request under way is going to write; and these differ in nothing else   *)
(* than what has raced.                                                    *)
KeptInv ==
    /\ Readable(file) => Told \subseteq file.data
    /\ \A r \in Busy : Told \subseteq data[r]
    /\ \A r, s \in Busy : r # s => data[s] \ raced \subseteq data[r]
    /\ \A r \in Busy : Readable(file) =>
          /\ file.data \ raced \subseteq data[r]
          /\ data[r] \ (raced \cup {r}) \subseteq file.data

StoreInv == BaseInv /\ KeptInv

LEMMA NobodyTold ==
    ASSUME \A r \in Request : pc[r] = "new" /\ shown[r] = None
    PROVE  Busy = {} /\ Told = {}
<1>1. Busy = {} /\ Acked \cap Request = {}
  BY DEF Busy, Acked
<1>2. Acked = {}
  BY <1>1, BackendAssumption DEF Acked
<1>3. Shown = {}
  BY DEF Shown
<1>. QED  BY <1>1, <1>2, <1>3 DEF Told

LEMMA StoredInit == Init => KeptInv
<1>. SUFFICES ASSUME Init PROVE KeptInv
  OBVIOUS
<1>1. \A r \in Request : pc[r] = "new" /\ shown[r] = None
  BY DEF Init
<1>. QED  BY <1>1, NobodyTold DEF KeptInv

(* A step that answers nobody and leaves file and data alone. *)
LEMMA Unanswered ==
    ASSUME KeptInv, Busy' \subseteq Busy, Told' \subseteq Told, raced' = raced,
           file' = file, data' = data
    PROVE  KeptInv'
BY DEF KeptInv, Readable

LEMMA LoadKeeps ==
    ASSUME StoreInv, NEW r \in Request, Load(r) PROVE KeptInv'
<1>. USE DEF StoreInv, BaseInv
<1>1. /\ Readable(file) /\ file' = file /\ shown' = shown
      /\ data' = [data EXCEPT ![r] = Appended(r)] /\ r \in Post
  BY BackendAssumption DEF Load
<1>2. Busy' = Busy \cup {r} /\ r \notin Busy
  BY DEF Load, Goto, TypeOK, Busy
<1>3. raced \subseteq raced' /\ (Busy # {} => Busy \cup {r} \subseteq raced')
  BY DEF Load
<1>4. Told' \subseteq Told
  BY <1>1, <1>3 DEF Load, Goto, TypeOK, Told, Acked, Shown
<1>5. data'[r] = file.data \cup {r} /\ \A s \in Busy : data'[s] = data[s]
  BY <1>1, <1>2 DEF Appended, TypeOK, Busy
<1>6. Readable(file') /\ Told' \subseteq file'.data
  BY <1>1, <1>4 DEF KeptInv
<1>7. \A s \in Busy' : Told' \subseteq data'[s]
  BY <1>1, <1>2, <1>4, <1>5 DEF KeptInv
<1>8. \A s, u \in Busy' : s # u => data'[u] \ raced' \subseteq data'[s]
  <2>1. SUFFICES ASSUME NEW s \in Busy', NEW u \in Busy', s # u PROVE data'[u] \ raced' \subseteq data'[s]
    OBVIOUS
  <2>2. CASE s # r /\ u # r
    BY <1>2, <1>3, <1>5, <2>1, <2>2 DEF KeptInv
  <2>3. CASE s = r
    BY <1>1, <1>2, <1>3, <1>5, <2>1, <2>3 DEF KeptInv
  <2>4. CASE u = r
    BY <1>1, <1>2, <1>3, <1>5, <2>1, <2>4 DEF KeptInv
  <2>. QED  BY <2>2, <2>3, <2>4
<1>9. \A s \in Busy' : file'.data \ raced' \subseteq data'[s]
                       /\ data'[s] \ (raced' \cup {s}) \subseteq file'.data
  BY <1>1, <1>2, <1>3, <1>5 DEF KeptInv
<1>. QED  BY <1>6, <1>7, <1>8, <1>9 DEF KeptInv

LEMMA SaveKeeps ==
    ASSUME StoreInv, NEW r \in Request, Save(r) PROVE KeptInv'
<1>. USE DEF StoreInv, BaseInv
<1>1. /\ r \in Busy /\ file \in [data : (SUBSET Post) \cup {None}, over : Nat]
      /\ data[r] \in SUBSET Post /\ r \in data[r]
  BY DEF Save, Busy, BusyInv, TypeOK
<1>2. file'.data = data[r]
  BY <1>1, WrittenFile DEF Save
<1>3. /\ Busy' = Busy \ {r} /\ data' = data /\ shown' = shown /\ raced' = raced
      /\ Acked' \subseteq Acked \cup {r}
  BY DEF Save, Goto, TypeOK, Busy, Acked
<1>4. Told' \subseteq Told \cup ({r} \ raced)
  BY <1>3 DEF Told, Shown
<1>5. Told' \subseteq data[r]
  BY <1>1, <1>4 DEF KeptInv
<1>6. \A s \in Busy' : Told' \subseteq data[s] /\ r \in raced /\ s \in raced
  BY <1>1, <1>3, <1>4 DEF KeptInv, BusyInv
<1>7. \A s \in Busy' : data[r] \ raced \subseteq data[s] /\ data[s] \ raced \subseteq data[r]
  BY <1>1, <1>3 DEF KeptInv
<1>8. \A s, u \in Busy' : s # u => data'[u] \ raced' \subseteq data'[s]
  BY <1>3 DEF KeptInv
<1>9. \A s \in Busy' : file'.data \ raced' \subseteq data'[s]
                       /\ data'[s] \ (raced' \cup {s}) \subseteq file'.data
  BY <1>2, <1>3, <1>7
<1>. QED  BY <1>2, <1>3, <1>5, <1>6, <1>8, <1>9 DEF KeptInv

LEMMA AllKeeps ==
    ASSUME StoreInv, NEW r \in Request, All(r) PROVE KeptInv'
<1>. USE DEF StoreInv, BaseInv
<1>1. /\ Readable(file) /\ file' = file /\ data' = data /\ raced' = raced
      /\ shown' = [shown EXCEPT ![r] = file.data] /\ r \notin Post
  BY DEF All
<1>2. Busy' = Busy /\ Acked' = Acked
  BY <1>1 DEF All, Goto, TypeOK, Busy, Acked
<1>3. Shown' \subseteq Shown \cup file.data
  BY <1>1 DEF Shown, TypeOK
<1>4. Told' \subseteq Told \cup (file.data \ raced)
  BY <1>1, <1>2, <1>3 DEF Told
<1>. QED  BY <1>1, <1>2, <1>4 DEF KeptInv

LEMMA KeptStep == StoreInv /\ [Next]_vars => KeptInv'
<1>. SUFFICES ASSUME StoreInv, [Next]_vars PROVE KeptInv'
  OBVIOUS
<1>. USE DEF StoreInv, BaseInv
<1>1. CASE UNCHANGED vars
  BY <1>1, Unanswered DEF vars, Busy, Told, Acked, Shown
<1>2. ASSUME Start PROVE KeptInv'
  <2>1. CASE Exists
    BY <1>2, <2>1, Unanswered DEF Start, Busy, Told, Acked, Shown
  <2>2. CASE ~Exists
    <3>1. Busy' = {} /\ ~Readable(file')
      BY <1>2, <2>2, TruncatedFile DEF Start, Exists, Busy, BusyInv
    <3>. QED  BY <3>1 DEF KeptInv
  <2>. QED  BY <2>1, <2>2
<1>3. ASSUME Create PROVE KeptInv'
  <2>2. \A r \in Request : pc[r] = "new" /\ shown[r] = None
    BY <1>3 DEF Create, BusyInv
  <2>3. Busy' = Busy /\ Told' = Told
    BY <1>3 DEF Create, Busy, Told, Acked, Shown
  <2>1. Busy' = {} /\ Told' = {}
    BY <2>2, <2>3, NobodyTold
  <2>. QED  BY <2>1 DEF KeptInv
<1>4. ASSUME Crash PROVE KeptInv'
  <2>2. /\ pc' = [r \in Request |-> IF pc[r] \in {"open", "save"} THEN "broken" ELSE pc[r]]
        /\ file' = file /\ raced' = raced /\ shown' = shown
    BY <1>4 DEF Crash
  <2>3. Busy' = {}
    BY <2>2 DEF Busy
  <2>4. Acked' = Acked
    BY <2>2, BackendAssumption DEF Acked
  <2>5. Told' = Told
    BY <2>2, <2>4 DEF Told, Shown
  <2>1. Busy' = {} /\ Told' \subseteq Told /\ file' = file /\ raced' = raced
    BY <2>2, <2>3, <2>5
  <2>. QED  BY <2>1 DEF KeptInv
<1>5. ASSUME NEW r \in Request, LoadFails(r) PROVE KeptInv'
  BY <1>5, Unanswered DEF LoadFails, Goto, TypeOK, Busy, Told, Acked, Shown
<1>6. ASSUME NEW r \in Request, Refuse(r) PROVE KeptInv'
  BY <1>6, Unanswered DEF Refuse, Goto, TypeOK, Busy, Told, Acked, Shown
<1>7. ASSUME NEW r \in Request, Open(r) PROVE KeptInv'
  <2>1. /\ Busy' = Busy /\ Told' = Told /\ data' = data /\ raced' = raced
        /\ ~Readable(file')
    BY <1>7, TruncatedFile DEF Open, Goto, TypeOK, Busy, Told, Acked, Shown
  <2>. QED  BY <2>1 DEF KeptInv
<1>. QED  BY <1>1, <1>2, <1>3, <1>4, <1>5, <1>6, <1>7, AllKeeps, LoadKeeps, SaveKeeps, StepCases

(* StoredUnlessRaced: what a request that overlapped no other was told to  *)
(* be stored, or was shown, is in the file whenever it can be read, however *)
(* many requests, crashes and restarts there were (aelion.sh:29-39).       *)
THEOREM StoredStays == Spec => []StoredUnlessRaced
<1>1. ASSUME StoreInv PROVE StoredUnlessRaced
  <2>1. ASSUME Readable(file) PROVE Told \subseteq file.data
    BY <1>1, <2>1 DEF StoreInv, KeptInv
  <2>2. Acked \ raced \subseteq Told
    BY DEF Told
  <2>3. ASSUME NEW r \in Request, shown[r] # None PROVE shown[r] \ raced \subseteq Told
    <3>1. shown[r] \subseteq Post
      BY <1>1, <2>3 DEF StoreInv, BaseInv, TypeOK
    <3>. QED  BY <2>3, <3>1 DEF Shown, Told
  <2>. QED  BY <2>1, <2>2, <2>3 DEF StoredUnlessRaced
<1>2. Init => StoreInv
  BY BaseInit, StoredInit DEF StoreInv
<1>3. StoreInv /\ [Next]_vars => StoreInv'
  BY BaseStep, KeptStep DEF StoreInv
<1>. QED  BY <1>1, <1>2, <1>3, PTL DEF Spec

-------------------------------------------------------------------------------
(* BrokenForAReason *)

(* What the file is when neither a crash nor an overlap has spoilt it. *)
WholeInv ==
    ~cut /\ raced = {} =>
        /\ server = "start" => file = None \/ Readable(file)
        /\ server = "up" => IF Saving = {} THEN Readable(file) ELSE file = Truncated

LEMMA WrittenOnTruncated ==
    ASSUME NEW d \in SUBSET Post PROVE Readable(Written(d, Truncated))
<1>1. /\ Written(d, Truncated) \in [data : (SUBSET Post) \cup {None}, over : Nat]
      /\ Written(d, Truncated).data = d /\ Written(d, Truncated).over = 0
  BY TruncatedFile, WrittenFile
<1>. QED  BY <1>1, BackendAssumption DEF Readable

LEMMA WholeInit == Init => WholeInv
BY DEF Init, WholeInv

LEMMA WholeStep == BaseInv /\ WholeInv /\ [Next]_vars => WholeInv'
<1>. SUFFICES ASSUME BaseInv, WholeInv, [Next]_vars PROVE WholeInv'
  OBVIOUS
<1>. USE DEF BaseInv
<1>1. CASE UNCHANGED vars
  BY <1>1 DEF vars, WholeInv, Readable, Saving
<1>2. ASSUME Start PROVE WholeInv'
  <2>1. Saving = {}
    BY <1>2 DEF Start, BusyInv, Busy, Saving
  <2>. QED  BY <1>2, <2>1 DEF Start, Exists, WholeInv, Readable, Saving
<1>3. ASSUME Create PROVE WholeInv'
  <2>1. Saving' = {}
    BY <1>3 DEF Create, BusyInv, Busy, Saving
  <2>2. Readable(file')
    BY <1>3, WrittenOnTruncated DEF Create, BusyInv
  <2>. QED  BY <1>3, <2>1, <2>2 DEF Create, WholeInv
<1>4. ASSUME Crash PROVE WholeInv'
  BY <1>4 DEF Crash, TypeOK, WholeInv, Readable, Saving
<1>5. ASSUME NEW r \in Request, LoadFails(r) PROVE WholeInv'
  <2>1. Saving' = Saving
    BY <1>5 DEF LoadFails, Goto, TypeOK, Saving
  <2>. QED  BY <1>5, <2>1 DEF LoadFails, WholeInv, Readable
<1>6. ASSUME NEW r \in Request, All(r) PROVE WholeInv'
  <2>1. Saving' = Saving
    BY <1>6 DEF All, Goto, TypeOK, Saving
  <2>. QED  BY <1>6, <2>1 DEF All, WholeInv, Readable
<1>7. ASSUME NEW r \in Request, Refuse(r) PROVE WholeInv'
  <2>1. Saving' = Saving
    BY <1>7 DEF Refuse, Goto, TypeOK, Saving
  <2>. QED  BY <1>7, <2>1 DEF Refuse, WholeInv, Readable
<1>8. ASSUME NEW r \in Request, Load(r) PROVE WholeInv'
  <2>1. Saving' = Saving
    BY <1>8 DEF Load, Goto, TypeOK, Saving
  <2>2. raced \subseteq raced'
    BY <1>8 DEF Load
  <2>. QED  BY <1>8, <2>1, <2>2 DEF Load, WholeInv, Readable
<1>9. ASSUME NEW r \in Request, Open(r) PROVE WholeInv'
  <2>1. server = "up" /\ r \in Saving'
    BY <1>9 DEF Open, Goto, TypeOK, BusyInv, Busy, Saving
  <2>. QED  BY <1>9, <2>1 DEF Open, WholeInv
<1>10. ASSUME NEW r \in Request, Save(r), ~cut, raced = {} PROVE WholeInv'
  <2>1. r \in Saving /\ r \in Busy /\ server = "up" /\ data[r] \in SUBSET Post
    BY <1>10 DEF Save, BusyInv, Busy, Saving, TypeOK
  <2>2. file = Truncated
    BY <1>10, <2>1 DEF WholeInv
  <2>3. Readable(file')
    BY <1>10, <2>1, <2>2, WrittenOnTruncated DEF Save
  <2>4. Busy = {r}
    BY <1>10, <2>1 DEF BusyInv
  <2>5. Saving' = {}
    BY <1>10, <2>4 DEF Save, Goto, TypeOK, Busy, Saving
  <2>. QED  BY <1>10, <2>1, <2>3, <2>5 DEF Save, WholeInv
<1>11. ASSUME NEW r \in Request, Save(r) PROVE WholeInv'
  BY <1>10, <1>11 DEF Save, WholeInv
<1>. QED  BY <1>1, <1>2, <1>3, <1>4, <1>5, <1>6, <1>7, <1>8, <1>9, <1>11, StepCases

(* BrokenForAReason: unless a crash cut a save short or requests overlapped, *)
(* a backend that is up can read its file (aelion.sh:24-27, 29-36).        *)
THEOREM FileBreaksForAReason == Spec => []BrokenForAReason
<1>1. BaseInv /\ WholeInv => BrokenForAReason
  BY DEF WholeInv, BrokenForAReason
<1>. QED  BY BaseInit, BaseStep, WholeInit, WholeStep, <1>1, PTL DEF Spec
===============================================================================
