--------------------------- MODULE Inventory_proofs ---------------------------
(***************************************************************************)
(* Theorems about Inventory, for every number of files, contents, scans,   *)
(* edits and queries.                                                      *)
(***************************************************************************)
EXTENDS Inventory, FiniteSetTheorems, TLAPS

LEMMA StepCases ==
    ASSUME Next, NEW G,
           \A p \in Path : \A c \in Content \cup {Gone} : Edit(p, c) => G,
           Restart => G, Count => G, List => G, \A p \in Path : Find(p) => G,
           OpenFails => G, Open => G, Read => G, Insert => G,
           InsertFails => G, FinishScan => G,
           StartQuery => G, LogChange => G, FinishQuery => G
    PROVE  G
BY DEF Next, Scan

LEMMA PresentCount == Cardinality(Present) \in Nat
<1>1. IsFiniteSet(Present)
  BY InventoryAssumption, FS_Subset DEF Present
<1>. QED  BY <1>1, FS_CardinalityType

-------------------------------------------------------------------------------
(* Types, and where the scan is *)

(* The file that is being read is there, and was written if it is dirty.   *)
ScanInv ==
    /\ pc \in {"open", "read", "insert"} => entry \in Row
    /\ pc = "read" => file[entry.path] # Gone /\ (dirty => Changed(entry.path))
    /\ \A p \in Path : file[p] # Gone => file[p] \in past[p]

BaseInv == TypeOK /\ ScanInv

LEMMA BaseInit == Init => BaseInv
<1>. SUFFICES ASSUME Init PROVE BaseInv
  OBVIOUS
<1>1. /\ file \in [Path -> Content \cup {Gone}]
      /\ past = [p \in Path |-> {file[p]} \ {Gone}]
  BY DEF Init
<1>2. past \in [Path -> SUBSET Content]
      /\ \A p \in Path : file[p] # Gone => file[p] \in past[p]
  BY <1>1
<1>3. fs_items \in Seq(Row)
  BY DEF Init
<1>5. dirty \in BOOLEAN /\ still \in BOOLEAN
  BY Zenon DEF Init
<1>4. {total, counter, query, cursor, told} \subseteq Nat
  BY DEF Init
<1>. QED  BY <1>1, <1>2, <1>3, <1>4, <1>5 DEF Init, BaseInv, TypeOK, ScanInv

LEMMA EditKeepsBase ==
    ASSUME BaseInv, NEW p \in Path, NEW c \in Content \cup {Gone}, Edit(p, c)
    PROVE  BaseInv'
<1>. USE DEF BaseInv
<1>1. /\ file[p] # c /\ file' = [file EXCEPT ![p] = c]
      /\ past' = [past EXCEPT ![p] = @ \cup ({c} \ {Gone})]
      /\ pc' = pc /\ entry' = entry
  BY DEF Edit
<1>2. \A o \in Path : past[o] \subseteq past'[o] /\ (o # p => file'[o] = file[o])
  BY <1>1 DEF TypeOK
<1>3. file'[p] = c /\ (c # Gone => c \in past'[p])
  BY <1>1 DEF TypeOK
<1>4. TypeOK'
  BY <1>1 DEF Edit, TypeOK, queryVars
<1>5. \A o \in Path : file'[o] # Gone => file'[o] \in past'[o]
  BY <1>2, <1>3 DEF ScanInv
<1>6. ASSUME pc = "read" PROVE file'[entry.path] # Gone /\ (dirty' => Changed(entry.path)')
  <2>1. entry \in Row /\ entry.path \in Path /\ file[entry.path] # Gone
    BY <1>6 DEF ScanInv, Row
  <2>2. CASE entry.path = p
    <3>1. c # Gone
      BY <1>6, <2>2 DEF Edit
    <3>2. file[p] \in past[p]
      BY <2>1, <2>2 DEF ScanInv
    <3>3. {file[p], c} \subseteq past'[p]
      BY <1>2, <1>3, <3>1, <3>2
    <3>. QED  BY <1>1, <1>3, <2>2, <3>1, <3>3 DEF Changed
  <2>3. CASE entry.path # p
    <3>1. dirty' => dirty
      BY <1>6, <2>3 DEF Edit
    <3>. QED  BY <1>1, <1>2, <1>6, <2>1, <2>3, <3>1 DEF ScanInv, Changed
  <2>. QED  BY <2>2, <2>3
<1>. QED  BY <1>1, <1>4, <1>5, <1>6 DEF ScanInv

LEMMA BaseStep == BaseInv /\ [Next]_vars => BaseInv'
<1>. SUFFICES ASSUME BaseInv, [Next]_vars PROVE BaseInv'
  OBVIOUS
<1>. USE DEF BaseInv
<1>1. CASE UNCHANGED vars
  BY <1>1 DEF vars, scanVars, queryVars, history, TypeOK, ScanInv, Changed
<1>2. ASSUME Restart PROVE BaseInv'
  <2>1. /\ pc' = "idle" /\ entry' = Null /\ file' = file /\ past' = past
    BY <1>2 DEF Restart, history
  <2>2. dirty' \in BOOLEAN
    BY <1>2, Zenon DEF Restart
  <2>3. TypeOK'
    BY <1>2, <2>1, <2>2 DEF Restart, history, TypeOK
  <2>. QED  BY <2>1, <2>3 DEF ScanInv
<1>3. ASSUME Count PROVE BaseInv'
  BY <1>3, PresentCount DEF Count, queryVars, TypeOK, ScanInv
<1>4. ASSUME List PROVE BaseInv'
  BY <1>4 DEF List, Present, queryVars, history, TypeOK, ScanInv
<1>5. ASSUME NEW p \in Path, Find(p) PROVE BaseInv'
  <2>1. entry' \in Row
    BY <1>5 DEF Find, Row, Hash
  <2>. QED  BY <1>5, <2>1 DEF Find, queryVars, history, TypeOK, ScanInv
<1>6. ASSUME OpenFails PROVE BaseInv'
  <2>1. entry.path \in Path
    BY <1>6 DEF OpenFails, ScanInv, Row
  <2>. QED  BY <1>6, <2>1 DEF OpenFails, queryVars, TypeOK, ScanInv
<1>7. ASSUME Open PROVE BaseInv'
  BY <1>7 DEF Open, queryVars, history, TypeOK, ScanInv
<1>8. ASSUME Read PROVE BaseInv'
  <2>1. PICK c \in Content : entry' = [entry EXCEPT !.hash = c]
    BY <1>8 DEF Read, ScanInv, TypeOK, Row
  <2>2. entry' \in Row
    BY <1>8, <2>1 DEF Read, ScanInv, Row, Hash
  <2>. QED  BY <1>8, <2>2 DEF Read, queryVars, history, TypeOK, ScanInv
<1>9. ASSUME Insert PROVE BaseInv'
  <2>1. entry \in Row /\ entry.path \in Path
    BY <1>9 DEF Insert, ScanInv, Row
  <2>2. fs_items' \in Seq(Row)
    BY <1>9, <2>1 DEF Insert, TypeOK
  <2>. QED  BY <1>9, <2>1, <2>2 DEF Insert, queryVars, TypeOK, ScanInv
<1>10. ASSUME FinishScan PROVE BaseInv'
  BY <1>10 DEF FinishScan, queryVars, TypeOK, ScanInv
<1>11. ASSUME StartQuery PROVE BaseInv'
  BY <1>11 DEF StartQuery, scanVars, history, TypeOK, ScanInv, Changed
<1>12. ASSUME LogChange PROVE BaseInv'
  BY <1>12 DEF LogChange, Ahead, scanVars, history, TypeOK, ScanInv, Changed
<1>13. ASSUME FinishQuery PROVE BaseInv'
  BY <1>13 DEF FinishQuery, scanVars, TypeOK, ScanInv, Changed
<1>14. ASSUME NEW p \in Path, NEW c \in Content \cup {Gone}, Edit(p, c) PROVE BaseInv'
  BY <1>14, EditKeepsBase
<1>15. ASSUME InsertFails PROVE BaseInv'
  <2>1. /\ pc' = "find" /\ counter' = counter + 1 /\ still' = FALSE
        /\ UNCHANGED <<file, total, seen, listed, entry, dirty, fs_items, query, cursor,
                       past, failed, late, told>>
    BY <1>15 DEF InsertFails, queryVars
  <2>2. {total, counter', query, cursor, told} \subseteq Nat
    BY <2>1 DEF TypeOK
  <2>3. TypeOK'
    BY <2>1, <2>2 DEF TypeOK
  <2>. QED  BY <2>1, <2>3 DEF ScanInv
<1>. QED  BY <1>1, <1>2, <1>3, <1>4, <1>5, <1>6, <1>7, <1>8, <1>9, <1>10, <1>11, <1>12,
            <1>13, <1>14, <1>15, StepCases

-------------------------------------------------------------------------------
(* ReportsExplained *)

(* The hash of a row is one the file has had, or it was not read whole. *)
Caused(e) == e.path \in failed \/ Changed(e.path) \/ e.hash \in past[e.path]

RowsInv ==
    /\ pc = "insert" => Caused(entry)
    /\ \A i \in 1 .. Len(fs_items) : Caused(fs_items[i])
    /\ query <= Len(fs_items)
    /\ query > 0 => \A i \in query + 1 .. Len(fs_items) : fs_items[i].path \in late
    /\ \A c \in fs_changes \cup refused : c.path \in Path

ReportInv == BaseInv /\ RowsInv /\ ReportsExplained

LEMMA ReportInit == Init => RowsInv /\ ReportsExplained
BY DEF Init, RowsInv, ReportsExplained

(* What has caused a row or a report goes on to. *)
Grows == failed \subseteq failed' /\ late \subseteq late'
         /\ \A p \in Path : past[p] \subseteq past'[p]

LEMMA CausesStay ==
    ASSUME Grows, TypeOK PROVE \A e \in Row : Caused(e) => Caused(e)'
BY DEF Grows, Caused, Changed, Row

LEMMA EditGrows ==
    ASSUME TypeOK, NEW p \in Path, NEW c \in Content \cup {Gone}, Edit(p, c) PROVE Grows
BY DEF Edit, TypeOK, Grows

(* A step that leaves the table, the query and its reports alone.          *)
LEMMA RowsStay ==
    ASSUME BaseInv, RowsInv, Grows, fs_items' = fs_items, query' = query,
           fs_changes' = fs_changes, refused' = refused,
           pc' = "insert" => (pc = "insert" /\ entry' = entry) \/ Caused(entry)'
    PROVE  RowsInv'
<1>. USE DEF BaseInv
<1>1. ASSUME NEW i \in 1 .. Len(fs_items) PROVE Caused(fs_items[i])'
  <2>1. fs_items[i] \in Row
    BY DEF TypeOK
  <2>2. Caused(fs_items[i])
    BY DEF RowsInv
  <2>3. fs_items'[i] = fs_items[i] /\ fs_items[i] \in Row
    BY <2>1
  <2>. QED  BY <2>2, <2>3, CausesStay DEF Caused, Changed, Grows
<1>2. pc' = "insert" => Caused(entry)'
  <2>1. ASSUME pc = "insert", entry' = entry PROVE Caused(entry)'
    BY <2>1 DEF RowsInv, ScanInv, Caused, Changed, Grows, Row
  <2>. QED  BY <2>1
<1>. QED  BY <1>1, <1>2 DEF RowsInv, Grows

LEMMA ReportsStay ==
    ASSUME ReportInv, Grows, fs_changes' = fs_changes, refused' = refused
    PROVE  ReportsExplained'
BY DEF ReportInv, RowsInv, ReportsExplained, Grows, Changed

(* What the query says of a row is explained.                              *)
LEMMA AnswerExplained ==
    ASSUME ReportInv, NEW i \in 1 .. Len(fs_items), query > 0, NEW a \in Answer(i)
    PROVE  /\ a.path \in Path
           /\ \/ /\ a.type = "MODIFIED" /\ a.old # a.new
                 /\ a.path \in failed \/ Changed(a.path)
              \/ a.type = "DELETED" /\ a.path \in late
<1>. USE DEF ReportInv, BaseInv
<1>4. fs_items[i] \in Row
  BY DEF TypeOK
<1>1. fs_items[i] \in Row /\ fs_items[i].path \in Path
  BY <1>4 DEF Row
<1>2. CASE \E j \in Same(i) : /\ fs_items[j].hash # fs_items[i].hash
                              /\ a = Record("MODIFIED", i, fs_items[j].hash)
  <2>1. PICK j \in Same(i) : /\ fs_items[j].hash # fs_items[i].hash
                             /\ a = Record("MODIFIED", i, fs_items[j].hash)
    BY <1>2
  <2>2. /\ a.type = "MODIFIED" /\ a.path = fs_items[i].path
        /\ a.old = fs_items[i].hash /\ a.new = fs_items[j].hash
    BY <2>1 DEF Record
  <2>3. j \in 1 .. Len(fs_items) /\ fs_items[j].path = fs_items[i].path
    BY <2>1 DEF Same, RowsInv, TypeOK
  <2>4. Caused(fs_items[i]) /\ Caused(fs_items[j])
    BY <2>3 DEF RowsInv
  <2>. QED  BY <1>1, <2>1, <2>2, <2>3, <2>4 DEF Caused, Changed
<1>3. CASE Same(i) = {} /\ a = Record("DELETED", i, Null)
  <2>1. a.type = "DELETED" /\ a.path = fs_items[i].path
    BY <1>3 DEF Record
  <2>2. i \in query + 1 .. Len(fs_items)
    BY <1>3 DEF Same, TypeOK
  <2>. QED  BY <1>1, <2>1, <2>2 DEF RowsInv
<1>. QED  BY <1>2, <1>3 DEF Answer

(* What a step of the query leaves stored or refused.                      *)
LEMMA LogStores ==
    ASSUME LogChange
    PROVE  \E i \in Ahead :
              /\ \A k \in Ahead : i <= k
              /\ cursor' = i
              /\ fs_changes' \cup refused' \subseteq fs_changes \cup refused \cup Answer(i)
              /\ fs_changes \cup refused \subseteq fs_changes' \cup refused'
              /\ "fs_changes" \in tables => Answer(i) \subseteq fs_changes' \cup refused'
              /\ "fs_changes" \notin tables => fs_changes' = fs_changes
<1>1. PICK i \in Ahead :
          /\ \A k \in Ahead : i <= k
          /\ cursor' = i
          /\ \/ "fs_changes" \notin tables /\ fs_changes' = fs_changes /\ refused' = refused
             \/ /\ "fs_changes" \in tables
                /\ \E lost \in SUBSET Answer(i) :
                      /\ fs_changes' = fs_changes \cup (Answer(i) \ lost)
                      /\ refused' = refused \cup lost
  BY DEF LogChange
<1>. QED  BY <1>1

LEMMA ReportStep == ReportInv /\ [Next]_vars => RowsInv' /\ ReportsExplained'
<1>. SUFFICES ASSUME ReportInv, [Next]_vars PROVE RowsInv' /\ ReportsExplained'
  OBVIOUS
<1>. USE DEF ReportInv, BaseInv
<1>1. CASE UNCHANGED vars
  <2>1. Grows
    BY <1>1 DEF vars, history, Grows
  <2>. QED  BY <1>1, <2>1, RowsStay, ReportsStay DEF vars, scanVars, queryVars
<1>2. ASSUME Restart PROVE RowsInv' /\ ReportsExplained'
  <2>1. /\ Grows /\ past' = past /\ failed' = failed
        /\ fs_items' = fs_items /\ fs_changes' = fs_changes /\ refused' = refused
        /\ pc' = "idle" /\ query' = 0
    BY <1>2 DEF Restart, history, Grows
  <2>2. \A i \in 1 .. Len(fs_items) : Caused(fs_items[i])'
    BY <2>1 DEF RowsInv, Caused, Changed
  <2>. QED  BY <2>1, <2>2, ReportsStay DEF RowsInv, TypeOK
<1>3. ASSUME Count PROVE RowsInv' /\ ReportsExplained'
  <2>1. Grows
    BY <1>3 DEF Count, Grows
  <2>. QED  BY <1>3, <2>1, RowsStay, ReportsStay DEF Count, queryVars
<1>4. ASSUME List PROVE RowsInv' /\ ReportsExplained'
  <2>1. Grows
    BY <1>4 DEF List, history, Grows
  <2>. QED  BY <1>4, <2>1, RowsStay, ReportsStay DEF List, queryVars
<1>5. ASSUME NEW p \in Path, Find(p) PROVE RowsInv' /\ ReportsExplained'
  <2>1. Grows
    BY <1>5 DEF Find, history, Grows
  <2>. QED  BY <1>5, <2>1, RowsStay, ReportsStay DEF Find, queryVars
<1>6. ASSUME OpenFails PROVE RowsInv' /\ ReportsExplained'
  <2>1. Grows
    BY <1>6 DEF OpenFails, Grows
  <2>2. Caused(entry)'
    BY <1>6 DEF OpenFails, Caused
  <2>. QED  BY <1>6, <2>1, <2>2, RowsStay, ReportsStay DEF OpenFails, queryVars
<1>7. ASSUME Open PROVE RowsInv' /\ ReportsExplained'
  <2>1. Grows
    BY <1>7 DEF Open, history, Grows
  <2>. QED  BY <1>7, <2>1, RowsStay, ReportsStay DEF Open, queryVars
<1>8. ASSUME Read PROVE RowsInv' /\ ReportsExplained'
  <2>1. Grows /\ past' = past /\ entry \in Row
    BY <1>8 DEF Read, history, Grows, ScanInv
  <2>2. entry'.path = entry.path /\ (dirty \/ entry'.hash = file[entry.path])
    BY <1>8, <2>1 DEF Read, Row
  <2>3. Caused(entry)'
    BY <1>8, <2>1, <2>2 DEF Read, ScanInv, Caused, Changed, Row
  <2>. QED  BY <1>8, <2>1, <2>3, RowsStay, ReportsStay DEF Read, queryVars
<1>9. ASSUME Insert PROVE RowsInv' /\ ReportsExplained'
  <2>1. /\ Grows /\ past' = past /\ failed' = failed /\ query' = query
        /\ fs_changes' = fs_changes /\ refused' = refused
        /\ pc' = "find" /\ fs_items' = Append(fs_items, entry)
        /\ query > 0 => entry.path \in late'
    BY <1>9 DEF Insert, queryVars, Grows, TypeOK
  <2>2. entry \in Row /\ Caused(entry) /\ fs_items \in Seq(Row) /\ query \in Nat
    BY <1>9 DEF Insert, ScanInv, RowsInv, TypeOK
  <2>3. /\ Len(fs_items') = Len(fs_items) + 1 /\ fs_items'[Len(fs_items) + 1] = entry
        /\ \A i \in 1 .. Len(fs_items) : fs_items'[i] = fs_items[i]
    BY <2>1, <2>2
  <2>7. ASSUME NEW i \in 1 .. Len(fs_items') PROVE Caused(fs_items'[i])
    <3>1. CASE i \in 1 .. Len(fs_items)
      BY <2>3, <3>1 DEF RowsInv
    <3>2. CASE i = Len(fs_items) + 1
      BY <2>2, <2>3, <3>2
    <3>. QED  BY <2>2, <2>3, <3>1, <3>2
  <2>4. \A i \in 1 .. Len(fs_items') : Caused(fs_items[i])'
    BY <2>1, <2>7 DEF Caused, Changed
  <2>5. query > 0 => \A i \in query + 1 .. Len(fs_items') : fs_items'[i].path \in late'
    BY <2>1, <2>2, <2>3 DEF RowsInv, Grows
  <2>6. query' <= Len(fs_items')
    BY <2>1, <2>2, <2>3 DEF RowsInv
  <2>. QED  BY <2>1, <2>4, <2>5, <2>6, ReportsStay DEF RowsInv
<1>10. ASSUME FinishScan PROVE RowsInv' /\ ReportsExplained'
  <2>1. Grows
    BY <1>10 DEF FinishScan, Grows
  <2>. QED  BY <1>10, <2>1, RowsStay, ReportsStay DEF FinishScan, queryVars
<1>11. ASSUME StartQuery PROVE RowsInv' /\ ReportsExplained'
  <2>1. /\ Grows /\ past' = past /\ failed' = failed /\ fs_items' = fs_items
        /\ fs_changes' = fs_changes /\ refused' = refused
        /\ pc' = pc /\ entry' = entry /\ query' = Len(fs_items)
    BY <1>11 DEF StartQuery, scanVars, history, Grows
  <2>2. Len(fs_items) \in Nat
    BY DEF TypeOK
  <2>. QED  BY <2>1, <2>2, ReportsStay DEF RowsInv, Caused, Changed
<1>12. ASSUME LogChange PROVE RowsInv' /\ ReportsExplained'
  <2>1. PICK i \in Ahead :
           fs_changes' \cup refused' \subseteq fs_changes \cup refused \cup Answer(i)
    BY <1>12, LogStores
  <2>2. /\ query > 0 /\ Grows /\ past' = past /\ failed' = failed /\ late' = late
        /\ fs_items' = fs_items /\ query' = query /\ pc' = pc /\ entry' = entry
    BY <1>12 DEF LogChange, scanVars, history, Grows
  <2>3. i \in 1 .. Len(fs_items)
    BY DEF Ahead, TypeOK
  <2>4. \A a \in Answer(i) :
           /\ a.path \in Path
           /\ \/ /\ a.type = "MODIFIED" /\ a.old # a.new
                 /\ a.path \in failed \/ Changed(a.path)
              \/ a.type = "DELETED" /\ a.path \in late
    BY <2>2, <2>3, AnswerExplained
  <2>5. RowsInv'
    BY <2>1, <2>2, <2>4 DEF RowsInv, Caused, Changed
  <2>6. ReportsExplained'
    BY <2>1, <2>2, <2>4 DEF ReportsExplained, Changed
  <2>. QED  BY <2>5, <2>6
<1>13. ASSUME FinishQuery PROVE RowsInv' /\ ReportsExplained'
  <2>1. /\ Grows /\ past' = past /\ failed' = failed /\ fs_items' = fs_items
        /\ fs_changes' = fs_changes /\ refused' = refused
        /\ pc' = pc /\ entry' = entry /\ query' = 0
    BY <1>13 DEF FinishQuery, scanVars, Grows
  <2>. QED  BY <2>1, ReportsStay DEF RowsInv, Caused, Changed, TypeOK
<1>14. ASSUME NEW p \in Path, NEW c \in Content \cup {Gone}, Edit(p, c)
       PROVE  RowsInv' /\ ReportsExplained'
  <2>1. Grows
    BY <1>14, EditGrows
  <2>. QED  BY <1>14, <2>1, RowsStay, ReportsStay DEF Edit, queryVars
<1>15. ASSUME InsertFails PROVE RowsInv' /\ ReportsExplained'
  <2>1. Grows
    BY <1>15 DEF InsertFails, Grows
  <2>. QED  BY <1>15, <2>1, RowsStay, ReportsStay DEF InsertFails, queryVars
<1>. QED  BY <1>1, <1>2, <1>3, <1>4, <1>5, <1>6, <1>7, <1>8, <1>9, <1>10, <1>11, <1>12,
            <1>13, <1>14, <1>15, StepCases

(* ReportsExplained: whatever changes on the disk while a scan and a query *)
(* run, and in whatever order scans, queries, deaths and restarts follow,  *)
(* every change that "changes" logs has a cause (aelion_changes.c:29-58).  *)
THEOREM ChangesHaveCauses == Spec => []ReportsExplained
<1>1. Init => ReportInv
  BY BaseInit, ReportInit DEF ReportInv
<1>2. ReportInv /\ [Next]_vars => ReportInv'
  BY BaseStep, ReportStep DEF ReportInv
<1>3. ReportInv => ReportsExplained
  BY DEF ReportInv
<1>. QED  BY <1>1, <1>2, <1>3, PTL DEF Spec
-------------------------------------------------------------------------------
(* StillScanIsExact *)

Walking == pc \in {"find", "open", "read", "insert"}

(* The files whose rows the scan has inserted, its last n rows, and the    *)
(* row that file p has.                                                    *)
Rowed == IF pc = "find" THEN seen ELSE seen \ {entry.path}
LastRows(n) == {fs_items[i] : i \in Len(fs_items) - n + 1 .. Len(fs_items)}
RowOf(p) == [path |-> p, hash |-> file[p]]

(* A scan that has been still has inserted one row for each file that it   *)
(* has left behind, and has still to come to the others.                   *)
WalkInv ==
    /\ counter <= Len(fs_items)
    /\ listed \cup seen = Present /\ listed \cap seen = {}
    /\ pc # "find" => entry.path \in seen
    /\ pc = "read" => ~dirty
    /\ pc = "insert" => entry = RowOf(entry.path)
    /\ counter = Cardinality(Rowed)
    /\ LastRows(counter) = {RowOf(p) : p \in Rowed}

ExactInv ==
    /\ pc \in {"idle", "list"} => seen = {} /\ counter = 0
    /\ still /\ (pc = "list" \/ Walking) => total = Cardinality(Present)
    /\ still /\ Walking => WalkInv

FilesOf(t) == {[path |-> p, hash |-> t.file[p]] : p \in {q \in Path : t.file[q] # Gone}}
Exact(t) == {fs_items[i] : i \in RowsOf(t)} = FilesOf(t) /\ t.full

DoneInv == \A t \in trees : t.upto \in Nat /\ t.upto <= Len(fs_items) /\ Exact(t)

ScanExactInv == BaseInv /\ ExactInv /\ DoneInv

LEMMA ExactInit == Init => ExactInv /\ DoneInv
BY DEF Init, ExactInv, DoneInv, Walking

(* A step that leaves the scan and the files alone. *)
LEMMA ExactFrame ==
    ASSUME ExactInv, UNCHANGED <<file, scanVars, fs_items, still>> PROVE ExactInv'
BY DEF ExactInv, WalkInv, Walking, Rowed, LastRows, RowOf, Present, scanVars

LEMMA DoneStays ==
    ASSUME DoneInv, UNCHANGED <<trees, fs_items>> PROVE DoneInv'
BY DEF DoneInv, Exact, RowsOf, FilesOf

(* Rows that are added leave the rows of a finished scan as they were.     *)
LEMMA DoneBefore ==
    ASSUME TypeOK, DoneInv, NEW e \in Row, fs_items' = Append(fs_items, e), trees' = trees
    PROVE  DoneInv'
<1>1. /\ Len(fs_items) \in Nat /\ Len(fs_items') = Len(fs_items) + 1
      /\ \A i \in 1 .. Len(fs_items) : fs_items'[i] = fs_items[i]
  BY DEF TypeOK
<1>2. ASSUME NEW t \in trees
      PROVE  t.upto \in Nat /\ t.upto <= Len(fs_items') /\ Exact(t)'
  <2>1. t.upto \in Nat /\ t.upto <= Len(fs_items) /\ Exact(t)
    BY DEF DoneInv
  <2>2. \A i \in RowsOf(t) : fs_items'[i] = fs_items[i]
    BY <1>1, <2>1 DEF RowsOf
  <2>3. {fs_items'[i] : i \in RowsOf(t)} = {fs_items[i] : i \in RowsOf(t)}
    BY <2>2
  <2>4. RowsOf(t)' = RowsOf(t) /\ FilesOf(t)' = FilesOf(t)
    BY DEF RowsOf, FilesOf
  <2>5. Exact(t)'
    BY <2>1, <2>3, <2>4 DEF Exact
  <2>. QED  BY <1>1, <2>1, <2>5
<1>. QED  BY <1>2 DEF DoneInv

LEMMA FindKeepsExact ==
    ASSUME BaseInv, ExactInv, NEW p \in Path, Find(p) PROVE ExactInv'
<1>. USE DEF BaseInv
<1>1. /\ pc = "find" /\ pc' = "open" /\ p \in (listed \cup Present) \ seen
      /\ seen' = seen \cup {p} /\ listed' = listed \ {p} /\ entry'.path = p
      /\ UNCHANGED <<file, total, counter, fs_items, still>>
  BY DEF Find, history
<1>2. Present' = Present
  BY <1>1 DEF Present
<1>3. ASSUME still PROVE WalkInv'
  <2>1. WalkInv
    BY <1>1, <1>3 DEF ExactInv, Walking
  <2>2. p \notin seen /\ Rowed = seen /\ Rowed' = seen
    BY <1>1 DEF Rowed
  <2>3. listed' \cup seen' = Present' /\ listed' \cap seen' = {}
    BY <1>1, <1>2, <2>1 DEF WalkInv
  <2>4. LastRows(counter)' = {RowOf(o)' : o \in Rowed'}
    BY <1>1, <2>1, <2>2 DEF WalkInv, LastRows, RowOf
  <2>5. counter' <= Len(fs_items') /\ counter' = Cardinality(Rowed')
    BY <1>1, <2>1, <2>2 DEF WalkInv
  <2>. QED  BY <1>1, <2>3, <2>4, <2>5 DEF WalkInv
<1>. QED  BY <1>1, <1>2, <1>3 DEF ExactInv, Walking

LEMMA InsertKeepsExact == ASSUME BaseInv, ExactInv, Insert PROVE ExactInv'
<1>. USE DEF BaseInv
<1>1. /\ pc = "insert" /\ pc' = "find" /\ counter' = counter + 1
      /\ fs_items' = Append(fs_items, entry)
      /\ UNCHANGED <<file, total, seen, listed, entry, still>>
  BY DEF Insert
<1>2. Present' = Present
  BY <1>1 DEF Present
<1>3. ASSUME still PROVE WalkInv'
  <2>1. WalkInv
    BY <1>1, <1>3 DEF ExactInv, Walking
  <2>2. /\ entry.path \in seen /\ entry = RowOf(entry.path)
        /\ Rowed = seen \ {entry.path} /\ Rowed' = Rowed \cup {entry.path}
    BY <1>1, <2>1 DEF WalkInv, Rowed
  <2>3. counter' = Cardinality(Rowed')
    <3>1. IsFiniteSet(Rowed)
      BY InventoryAssumption, FS_Subset DEF Rowed, TypeOK
    <3>2. Cardinality(Rowed \cup {entry.path}) = Cardinality(Rowed) + 1
      BY <2>2, <3>1, FS_AddElement
    <3>. QED  BY <1>1, <2>1, <2>2, <3>2 DEF WalkInv
  <2>4. LastRows(counter)' = LastRows(counter) \cup {entry}
    <3>. DEFINE n == Len(fs_items)
    <3>1. /\ n \in Nat /\ counter \in Nat /\ counter <= n
          /\ fs_items \in Seq(Row) /\ entry \in Row
      BY <1>1, <2>1 DEF TypeOK, ScanInv, WalkInv
    <3>2. /\ Len(fs_items') = n + 1 /\ fs_items'[n + 1] = entry
          /\ \A i \in 1 .. n : fs_items'[i] = fs_items[i]
      BY <1>1, <3>1
    <3>3. /\ Len(fs_items') - counter' + 1 = n - counter + 1
          /\ n - counter + 1 .. n + 1 = (n - counter + 1 .. n) \cup {n + 1}
          /\ n - counter + 1 .. n \subseteq 1 .. n
      BY <1>1, <3>1, <3>2
    <3>4. LastRows(counter)' = {fs_items'[i] : i \in (n - counter + 1 .. n) \cup {n + 1}}
      BY <3>2, <3>3 DEF LastRows
    <3>. HIDE DEF n
    <3>5. {fs_items'[i] : i \in (n - counter + 1 .. n) \cup {n + 1}}
             = {fs_items[i] : i \in n - counter + 1 .. n} \cup {entry}
      BY <3>2, <3>3
    <3>. QED  BY <3>4, <3>5 DEF LastRows, n
  <2>5. LastRows(counter)' = {RowOf(o)' : o \in Rowed'}
    BY <1>1, <2>1, <2>2, <2>4 DEF WalkInv, RowOf
  <2>6. counter' <= Len(fs_items')
    BY <1>1, <2>1 DEF WalkInv, TypeOK, ScanInv
  <2>7. listed' \cup seen' = Present' /\ listed' \cap seen' = {}
    BY <1>1, <1>2, <2>1 DEF WalkInv
  <2>. QED  BY <1>1, <2>3, <2>5, <2>6, <2>7 DEF WalkInv
<1>. QED  BY <1>1, <1>2, <1>3 DEF ExactInv, Walking

(* The end of a still scan: nothing is listed, so every file has its row.  *)
LEMMA FinishIsExact ==
    ASSUME ScanExactInv, FinishScan, still
    PROVE  Exact([file |-> file, upto |-> Len(fs_items), full |-> counter = total])
<1>. DEFINE t == [file |-> file, upto |-> Len(fs_items), full |-> counter = total]
            n == Len(fs_items)
<1>1. pc = "find" /\ listed = {}
  BY DEF FinishScan, Exhausted
<1>2. WalkInv /\ total = Cardinality(Present)
  BY <1>1 DEF ScanExactInv, ExactInv, Walking
<1>3. Rowed = Present /\ counter = Cardinality(Present)
  BY <1>1, <1>2 DEF WalkInv, Rowed
<1>4. n \in Nat /\ counter \in Nat /\ counter <= n
  BY <1>2 DEF ScanExactInv, BaseInv, TypeOK, WalkInv
<1>5. {q \in Path : t.file[q] # Gone} = Present
  BY DEF Present
<1>6. RowsOf(t) = {i \in 1 .. n : n - i < counter}
  BY <1>3, <1>5 DEF RowsOf
<1>7. RowsOf(t) = n - counter + 1 .. n
  <2>1. ASSUME NEW m \in Nat, NEW k \in Nat, k <= m
        PROVE  {i \in 1 .. m : m - i < k} = m - k + 1 .. m
    BY <2>1
  <2>2. {i \in 1 .. n : n - i < counter} = n - counter + 1 .. n
    BY <1>4, <2>1
  <2>. QED  BY <1>6, <2>2
<1>8. {fs_items[i] : i \in RowsOf(t)} = {RowOf(p) : p \in Present}
  BY <1>2, <1>3, <1>7 DEF WalkInv, LastRows
<1>. QED  BY <1>2, <1>3, <1>5, <1>8 DEF Exact, RowOf, FilesOf

LEMMA ExactStep == ScanExactInv /\ [Next]_vars => ExactInv' /\ DoneInv'
<1>. SUFFICES ASSUME ScanExactInv, [Next]_vars PROVE ExactInv' /\ DoneInv'
  OBVIOUS
<1>. USE DEF ScanExactInv, BaseInv
<1>1. CASE UNCHANGED vars
  BY <1>1, ExactFrame, DoneStays DEF vars, history
<1>2. ASSUME Restart PROVE ExactInv' /\ DoneInv'
  BY <1>2, DoneStays DEF Restart, history, ExactInv, Walking
<1>3. ASSUME Count PROVE ExactInv' /\ DoneInv'
  BY <1>3, DoneStays DEF Count, ExactInv, Walking, Present
<1>4. ASSUME List PROVE ExactInv' /\ DoneInv'
  <2>1. /\ pc = "list" /\ pc' = "find" /\ listed' = Present /\ seen' = {} /\ counter' = 0
        /\ UNCHANGED <<file, total, fs_items, still, trees>>
    BY <1>4 DEF List, history, ExactInv
  <2>2. Rowed' = {} /\ Present' = Present
    BY <2>1 DEF Rowed, Present
  <2>3. LastRows(counter)' = {} /\ Len(fs_items) \in Nat
    BY <2>1 DEF LastRows, TypeOK
  <2>4. WalkInv'
    BY <2>1, <2>2, <2>3, FS_EmptySet DEF WalkInv
  <2>. QED  BY <2>1, <2>2, <2>4, DoneStays DEF ExactInv, Walking
<1>5. ASSUME NEW p \in Path, Find(p) PROVE ExactInv' /\ DoneInv'
  BY <1>5, FindKeepsExact, DoneStays DEF Find, history
<1>6. ASSUME OpenFails PROVE ExactInv' /\ DoneInv'
  BY <1>6, DoneStays DEF OpenFails, ExactInv
<1>7. ASSUME Open PROVE ExactInv' /\ DoneInv'
  <2>1. /\ pc = "open" /\ pc' = "read" /\ dirty' = FALSE
        /\ UNCHANGED <<file, total, counter, seen, listed, entry, fs_items, still, trees>>
    BY <1>7 DEF Open, history
  <2>. QED  BY <2>1, DoneStays DEF ExactInv, Walking, WalkInv, Rowed, LastRows, RowOf, Present
<1>8. ASSUME Read PROVE ExactInv' /\ DoneInv'
  <2>1. /\ pc = "read" /\ pc' = "insert"
        /\ UNCHANGED <<file, total, counter, seen, listed, dirty, fs_items, still, trees>>
    BY <1>8 DEF Read, history
  <2>2. /\ entry \in Row /\ entry'.path = entry.path
        /\ ~dirty => entry' = [entry EXCEPT !.hash = file[entry.path]]
    BY <1>8 DEF Read, ScanInv, Row
  <2>3. ~dirty => entry' = RowOf(entry.path)
    BY <2>2 DEF Row, RowOf
  <2>4. Rowed' = Rowed /\ Present' = Present
    BY <2>1, <2>2 DEF Rowed, Present
  <2>5. still => WalkInv'
    BY <2>1, <2>2, <2>3, <2>4 DEF ExactInv, Walking, WalkInv, LastRows, RowOf
  <2>. QED  BY <2>1, <2>4, <2>5, DoneStays DEF ExactInv, Walking
<1>9. ASSUME Insert PROVE ExactInv' /\ DoneInv'
  <2>1. entry \in Row /\ fs_items' = Append(fs_items, entry) /\ trees' = trees
    BY <1>9 DEF Insert, ScanInv
  <2>. QED  BY <1>9, <2>1, InsertKeepsExact, DoneBefore
<1>10. ASSUME FinishScan PROVE ExactInv' /\ DoneInv'
  <2>. DEFINE t == [file |-> file, upto |-> Len(fs_items), full |-> counter = total]
  <2>1. ExactInv'
    BY <1>10 DEF FinishScan, ExactInv, Walking
  <2>2. fs_items' = fs_items /\ trees' \subseteq trees \cup {t} /\ (~still => trees' = trees)
    BY <1>10 DEF FinishScan
  <2>3. still => Exact(t)
    BY <1>10, FinishIsExact
  <2>4. t.upto = Len(fs_items) /\ Len(fs_items) \in Nat
    BY DEF TypeOK
  <2>. HIDE DEF t
  <2>5. \A u \in trees' : u.upto \in Nat /\ u.upto <= Len(fs_items) /\ Exact(u)
    BY <2>2, <2>3, <2>4 DEF DoneInv
  <2>6. \A u : Exact(u)' <=> Exact(u)
    BY <2>2 DEF Exact, RowsOf, FilesOf
  <2>. QED  BY <2>1, <2>2, <2>5, <2>6 DEF DoneInv
<1>11. ASSUME StartQuery PROVE ExactInv' /\ DoneInv'
  BY <1>11, ExactFrame, DoneStays DEF StartQuery, history
<1>12. ASSUME LogChange PROVE ExactInv' /\ DoneInv'
  BY <1>12, ExactFrame, DoneStays DEF LogChange, history
<1>13. ASSUME FinishQuery PROVE ExactInv' /\ DoneInv'
  BY <1>13, ExactFrame, DoneStays DEF FinishQuery
<1>14. ASSUME NEW p \in Path, NEW c \in Content \cup {Gone}, Edit(p, c)
       PROVE  ExactInv' /\ DoneInv'
  BY <1>14, DoneStays DEF Edit, ExactInv
<1>15. ASSUME InsertFails PROVE ExactInv' /\ DoneInv'
  BY <1>15, DoneStays DEF InsertFails, ExactInv
<1>. QED  BY <1>1, <1>2, <1>3, <1>4, <1>5, <1>6, <1>7, <1>8, <1>9, <1>10, <1>11, <1>12,
            <1>13, <1>14, <1>15, StepCases

LEMMA ScanExactInvariant == Spec => []ScanExactInv
<1>1. Init => ScanExactInv
  BY BaseInit, ExactInit DEF ScanExactInv
<1>2. ScanExactInv /\ [Next]_vars => ScanExactInv'
  BY BaseStep, ExactStep DEF ScanExactInv
<1>. QED  BY <1>1, <1>2, PTL DEF Spec

(* StillScanIsExact: a scan of a tree that stood still has one row for     *)
(* each file, whatever earlier scans, crashes and queries did              *)
(* (aelion_fs_scan.c:41-119).                                              *)
THEOREM StillScansAreExact == Spec => []StillScanIsExact
<1>1. ScanExactInv => StillScanIsExact
  BY DEF ScanExactInv, DoneInv, Exact, FilesOf, StillScanIsExact
<1>. QED  BY <1>1, ScanExactInvariant, PTL
-------------------------------------------------------------------------------
(* ChangesFound *)

Differ(i, j) == fs_items[i].path = fs_items[j].path /\ fs_items[i].hash # fs_items[j].hash
Report(i, j) == Record("MODIFIED", i, fs_items[j].hash)
Logged == fs_changes \cup refused

(* A running query has logged all of its answer up to its cursor, if it    *)
(* can, and the last one that finished and could has logged every two rows *)
(* that differ.  A table that is not there has no rows.                    *)
JoinInv ==
    /\ query <= Len(fs_items) /\ told <= Len(fs_items)
    /\ cursor <= Len(fs_items) /\ (query = 0 => cursor = 0)
    /\ query > 0 /\ "fs_changes" \in tables =>
          \A i \in 1 .. cursor : Answer(i) \subseteq Logged
    /\ \A i, j \in 1 .. told : Differ(i, j) => Report(i, j) \in Logged
    /\ "fs_changes" \notin tables => fs_changes = {}

LEMMA JoinInit == Init => JoinInv
BY DEF Init, JoinInv

LEMMA JoinFrame ==
    ASSUME JoinInv, UNCHANGED <<tables, fs_items, query, cursor, fs_changes, refused, told>>
    PROVE  JoinInv'
BY DEF JoinInv, Answer, Same, Record, Differ, Report, Logged

LEMMA AnswerFinds ==
    ASSUME NEW i, NEW j \in 1 .. query, Differ(i, j) PROVE Report(i, j) \in Answer(i)
BY DEF Differ, Report, Same, Answer

(* Rows that are added change no answer: the index does not have them.     *)
LEMMA JoinBefore ==
    ASSUME TypeOK, JoinInv, NEW e \in Row, fs_items' = Append(fs_items, e),
           UNCHANGED <<tables, query, cursor, fs_changes, refused, told>>
    PROVE  JoinInv'
<1>1. /\ Len(fs_items) \in Nat /\ Len(fs_items') = Len(fs_items) + 1
      /\ \A i \in 1 .. Len(fs_items) : fs_items'[i] = fs_items[i]
      /\ {query, cursor, told} \subseteq Nat
  BY DEF TypeOK
<1>2. /\ 1 .. query \subseteq 1 .. Len(fs_items) /\ 1 .. cursor \subseteq 1 .. Len(fs_items)
      /\ 1 .. told \subseteq 1 .. Len(fs_items)
  BY <1>1 DEF JoinInv
<1>3. ASSUME NEW i \in 1 .. Len(fs_items) PROVE Answer(i)' = Answer(i)
  <2>1. Same(i)' = Same(i)
    BY <1>1, <1>2 DEF Same
  <2>2. fs_items'[i] = fs_items[i] /\ \A j \in Same(i) : fs_items'[j] = fs_items[j]
    BY <1>1, <1>2 DEF Same
  <2>. QED  BY <2>1, <2>2 DEF Answer, Record
<1>4. ASSUME NEW i \in 1 .. told, NEW j \in 1 .. told
      PROVE  Differ(i, j)' = Differ(i, j) /\ Report(i, j)' = Report(i, j)
  <2>1. fs_items'[i] = fs_items[i] /\ fs_items'[j] = fs_items[j]
    BY <1>1, <1>2
  <2>. QED  BY <2>1 DEF Differ, Report, Record
<1>5. /\ query' <= Len(fs_items') /\ told' <= Len(fs_items')
      /\ cursor' <= Len(fs_items') /\ (query' = 0 => cursor' = 0)
  BY <1>1 DEF JoinInv
<1>6. query > 0 /\ "fs_changes" \in tables => \A i \in 1 .. cursor : Answer(i)' \subseteq Logged
  BY <1>2, <1>3 DEF JoinInv
<1>7. \A i, j \in 1 .. told : Differ(i, j)' => Report(i, j)' \in Logged
  BY <1>4 DEF JoinInv
<1>. QED  BY <1>5, <1>6, <1>7 DEF JoinInv, Logged

LEMMA LogKeepsJoin == ASSUME TypeOK, JoinInv, LogChange PROVE JoinInv'
<1>1. PICK i \in Ahead :
          /\ \A k \in Ahead : i <= k
          /\ cursor' = i /\ Logged \subseteq Logged'
          /\ "fs_changes" \in tables => Answer(i) \subseteq Logged'
          /\ "fs_changes" \notin tables => fs_changes' = fs_changes
  BY LogStores DEF Logged
<1>2. query > 0 /\ UNCHANGED <<tables, fs_items, query, told>>
  BY DEF LogChange, history
<1>3. /\ Len(fs_items) \in Nat /\ {query, cursor, told} \subseteq Nat
      /\ i \in cursor + 1 .. Len(fs_items)
  BY DEF TypeOK, Ahead
<1>4. ASSUME "fs_changes" \in tables, NEW k \in 1 .. i PROVE Answer(k) \subseteq Logged'
  <2>1. CASE k \in 1 .. cursor
    BY <1>1, <1>2, <1>4, <2>1 DEF JoinInv
  <2>2. CASE k \in cursor + 1 .. i - 1
    <3>1. k \in cursor + 1 .. Len(fs_items) /\ ~(i <= k)
      BY <1>3, <2>2
    <3>2. k \notin Ahead
      BY <1>1, <3>1
    <3>. QED  BY <3>1, <3>2 DEF Ahead
  <2>3. CASE k = i
    BY <1>1, <1>4, <2>3
  <2>. QED  BY <1>3, <2>1, <2>2, <2>3
<1>5. \A k : Answer(k)' = Answer(k)
  BY <1>2 DEF Answer, Same, Record
<1>6. \A k, j : Differ(k, j)' = Differ(k, j) /\ Report(k, j)' = Report(k, j)
  BY <1>2 DEF Differ, Report, Record
<1>7. "fs_changes" \in tables' => \A k \in 1 .. cursor' : Answer(k)' \subseteq Logged'
  BY <1>1, <1>2, <1>4, <1>5
<1>8. \A k, j \in 1 .. told' : Differ(k, j)' => Report(k, j)' \in Logged'
  BY <1>1, <1>2, <1>6 DEF JoinInv
<1>9. /\ query' <= Len(fs_items') /\ told' <= Len(fs_items')
      /\ cursor' <= Len(fs_items') /\ query' # 0
      /\ "fs_changes" \notin tables' => fs_changes' = {}
  BY <1>1, <1>2, <1>3 DEF JoinInv
<1>. QED  BY <1>7, <1>8, <1>9 DEF JoinInv

(* When no answer is ahead, every two rows of the index were compared.     *)
LEMMA FinishKeepsJoin == ASSUME TypeOK, JoinInv, FinishQuery PROVE JoinInv'
<1>1. /\ query > 0 /\ Ahead = {} /\ query' = 0 /\ cursor' = 0
      /\ told' = IF "fs_changes" \in tables THEN query ELSE told
      /\ UNCHANGED <<tables, fs_items, fs_changes, refused>>
  BY DEF FinishQuery
<1>2. /\ Len(fs_items) \in Nat /\ {query, cursor} \subseteq Nat
      /\ query <= Len(fs_items) /\ cursor <= Len(fs_items)
  BY DEF TypeOK, JoinInv
<1>3. ASSUME "fs_changes" \in tables, NEW i \in 1 .. query PROVE Answer(i) \subseteq Logged
  <2>1. CASE i \in 1 .. cursor
    BY <1>1, <1>3, <2>1 DEF JoinInv
  <2>2. CASE i \in cursor + 1 .. Len(fs_items)
    <3>1. Answer(i) = {}
      BY <1>1, <2>2 DEF Ahead
    <3>. QED  BY <3>1
  <2>. QED  BY <1>2, <2>1, <2>2
<1>4. "fs_changes" \in tables => \A i, j \in 1 .. query : Differ(i, j) => Report(i, j) \in Logged
  BY <1>3, AnswerFinds
<1>5. /\ \A i, j : Differ(i, j)' = Differ(i, j) /\ Report(i, j)' = Report(i, j)
      /\ Logged' = Logged
  BY <1>1 DEF Differ, Report, Record, Logged
<1>6. \A i, j \in 1 .. told' : Differ(i, j)' => Report(i, j)' \in Logged'
  BY <1>1, <1>4, <1>5 DEF JoinInv
<1>7. /\ query' <= Len(fs_items') /\ told' <= Len(fs_items') /\ cursor' <= Len(fs_items')
      /\ "fs_changes" \notin tables' => fs_changes' = {}
  BY <1>1, <1>2 DEF JoinInv
<1>. QED  BY <1>1, <1>6, <1>7 DEF JoinInv

LEMMA JoinStep == BaseInv /\ JoinInv /\ [Next]_vars => JoinInv'
<1>. SUFFICES ASSUME BaseInv, JoinInv, [Next]_vars PROVE JoinInv'
  OBVIOUS
<1>. USE DEF BaseInv
<1>1. CASE UNCHANGED vars
  BY <1>1, JoinFrame DEF vars, queryVars, history
<1>2. ASSUME Restart PROVE JoinInv'
  <2>1. /\ query' = 0 /\ cursor' = 0 /\ UNCHANGED <<fs_items, fs_changes, refused, told>>
        /\ tables \subseteq tables' /\ Len(fs_items) \in Nat
    BY <1>2 DEF Restart, history, TypeOK
  <2>2. /\ \A i, j : Differ(i, j)' = Differ(i, j) /\ Report(i, j)' = Report(i, j)
        /\ Logged' = Logged
    BY <2>1 DEF Differ, Report, Record, Logged
  <2>. QED  BY <2>1, <2>2 DEF JoinInv
<1>3. ASSUME Count PROVE JoinInv'
  BY <1>3, JoinFrame DEF Count, queryVars
<1>4. ASSUME List PROVE JoinInv'
  BY <1>4, JoinFrame DEF List, queryVars, history
<1>5. ASSUME NEW p \in Path, Find(p) PROVE JoinInv'
  BY <1>5, JoinFrame DEF Find, queryVars, history
<1>6. ASSUME OpenFails PROVE JoinInv'
  BY <1>6, JoinFrame DEF OpenFails, queryVars
<1>7. ASSUME Open PROVE JoinInv'
  BY <1>7, JoinFrame DEF Open, queryVars, history
<1>8. ASSUME Read PROVE JoinInv'
  BY <1>8, JoinFrame DEF Read, queryVars, history
<1>9. ASSUME Insert PROVE JoinInv'
  BY <1>9, JoinBefore DEF Insert, queryVars, ScanInv
<1>10. ASSUME FinishScan PROVE JoinInv'
  BY <1>10, JoinFrame DEF FinishScan, queryVars
<1>11. ASSUME StartQuery PROVE JoinInv'
  <2>1. /\ query = 0 /\ query' = Len(fs_items) /\ fs_items # <<>>
        /\ UNCHANGED <<tables, fs_items, cursor, fs_changes, refused, told>>
    BY <1>11 DEF StartQuery, history
  <2>2. Len(fs_items) \in Nat /\ cursor = 0
    BY <2>1 DEF TypeOK, JoinInv
  <2>3. /\ \A i, j : Differ(i, j)' = Differ(i, j) /\ Report(i, j)' = Report(i, j)
        /\ Logged' = Logged
    BY <2>1 DEF Differ, Report, Record, Logged
  <2>. QED  BY <2>1, <2>2, <2>3 DEF JoinInv
<1>12. ASSUME LogChange PROVE JoinInv'
  BY <1>12, LogKeepsJoin
<1>13. ASSUME FinishQuery PROVE JoinInv'
  BY <1>13, FinishKeepsJoin
<1>14. ASSUME NEW p \in Path, NEW c \in Content \cup {Gone}, Edit(p, c) PROVE JoinInv'
  BY <1>14, JoinFrame DEF Edit, queryVars
<1>15. ASSUME InsertFails PROVE JoinInv'
  BY <1>15, JoinFrame DEF InsertFails, queryVars
<1>. QED  BY <1>1, <1>2, <1>3, <1>4, <1>5, <1>6, <1>7, <1>8, <1>9, <1>10, <1>11, <1>12,
            <1>13, <1>14, <1>15, StepCases

(* A file that a still scan has found has a row with its content.          *)
LEMMA RowOfFile ==
    ASSUME DoneInv, NEW t \in trees, NEW p \in Path, t.file[p] # Gone
    PROVE  \E i \in 1 .. t.upto : fs_items[i] = [path |-> p, hash |-> t.file[p]]
<1>1. [path |-> p, hash |-> t.file[p]] \in FilesOf(t)
  BY DEF FilesOf
<1>2. [path |-> p, hash |-> t.file[p]] \in {fs_items[i] : i \in RowsOf(t)}
  BY <1>1 DEF DoneInv, Exact
<1>3. RowsOf(t) \subseteq 1 .. t.upto
  BY DEF RowsOf
<1>. QED  BY <1>2, <1>3

LEMMA JoinFinds == TypeOK /\ DoneInv /\ JoinInv => ChangesFound
<1>. SUFFICES ASSUME TypeOK, DoneInv, JoinInv PROVE ChangesFound
  OBVIOUS
<1>. SUFFICES ASSUME NEW t \in trees, NEW u \in trees, NEW p \in Path,
                     t.upto <= told, u.upto <= told, t.file[p] # u.file[p],
                     t.file[p] # Gone, u.file[p] # Gone
              PROVE  [type |-> "MODIFIED", path |-> p, old |-> t.file[p], new |-> u.file[p]]
                        \in fs_changes \cup refused
  BY DEF ChangesFound, JoinInv
<1>1. PICK i \in 1 .. t.upto : fs_items[i] = [path |-> p, hash |-> t.file[p]]
  BY RowOfFile
<1>2. PICK j \in 1 .. u.upto : fs_items[j] = [path |-> p, hash |-> u.file[p]]
  BY RowOfFile
<1>3. i \in 1 .. told /\ j \in 1 .. told
  BY <1>1, <1>2 DEF DoneInv, TypeOK
<1>4. Differ(i, j) /\ Report(i, j) = [type |-> "MODIFIED", path |-> p, old |-> t.file[p],
                                      new |-> u.file[p]]
  BY <1>1, <1>2 DEF Differ, Report, Record
<1>. QED  BY <1>3, <1>4 DEF JoinInv, Logged

(* ChangesFound: a query that finishes with the table fs_changes there has *)
(* stored, but for rows that SQLite refused, every file that two still     *)
(* scans have found with different contents, both ways, also when rows     *)
(* were inserted while it ran (aelion_changes.c:32-58); without the table, *)
(* which the schema with fs_items does not create, nothing is ever stored. *)
THEOREM FinishedQueryFindsChanges == Spec => []ChangesFound
<1>1. Init => BaseInv /\ JoinInv
  BY BaseInit, JoinInit
<1>2. (BaseInv /\ JoinInv) /\ [Next]_vars => (BaseInv /\ JoinInv)'
  BY BaseStep, JoinStep
<1>3. ScanExactInv /\ JoinInv => ChangesFound
  BY JoinFinds DEF ScanExactInv, BaseInv
<1>. QED  BY <1>1, <1>2, <1>3, ScanExactInvariant, PTL DEF Spec
-------------------------------------------------------------------------------
(* DupesOfStillScans *)

(* No two scans share a row: a still scan, which has a row for each file   *)
(* it has counted, inserts behind all that are finished.                   *)
ApartInv ==
    /\ still /\ pc # "done" => \A t \in trees : t.upto + counter <= Len(fs_items)
    /\ \A t, u \in trees : t # u => RowsOf(t) \cap RowsOf(u) = {}

DupesInv == ScanExactInv /\ ApartInv

LEMMA ApartFrame ==
    ASSUME ApartInv, UNCHANGED <<fs_items, trees, counter>>,
           still' /\ pc' # "done" => still /\ pc # "done"
    PROVE  ApartInv'
BY DEF ApartInv, RowsOf

LEMMA ApartInsert == ASSUME DupesInv, Insert PROVE ApartInv'
<1>1. /\ pc # "done" /\ counter' = counter + 1 /\ fs_items' = Append(fs_items, entry)
      /\ trees' = trees /\ still' = still
      /\ fs_items \in Seq(Row) /\ entry \in Row /\ counter \in Nat
  BY DEF Insert, DupesInv, ScanExactInv, BaseInv, ScanInv, TypeOK
<1>2. Len(fs_items') = Len(fs_items) + 1 /\ Len(fs_items) \in Nat
  BY <1>1
<1>3. still => \A t \in trees : t.upto + counter' <= Len(fs_items')
  BY <1>1, <1>2 DEF DupesInv, ScanExactInv, DoneInv, ApartInv
<1>4. \A t : RowsOf(t)' = RowsOf(t)
  BY DEF RowsOf
<1>. QED  BY <1>1, <1>3, <1>4 DEF DupesInv, ApartInv

LEMMA ApartFinish == ASSUME DupesInv, FinishScan PROVE ApartInv'
<1>. DEFINE s == [file |-> file, upto |-> Len(fs_items), full |-> counter = total]
            n == Len(fs_items)
<1>1. /\ pc = "find" /\ pc' = "done" /\ listed = {} /\ trees' \subseteq trees \cup {s}
      /\ (~still => trees' = trees)
  BY DEF FinishScan, Exhausted
<1>2. n \in Nat /\ counter \in Nat
  BY DEF DupesInv, ScanExactInv, BaseInv, TypeOK
<1>3. ASSUME still, NEW t \in trees PROVE RowsOf(t) \cap RowsOf(s) = {}
  <2>1. WalkInv
    BY <1>1, <1>3 DEF DupesInv, ScanExactInv, ExactInv, Walking
  <2>2. counter = Cardinality({q \in Path : s.file[q] # Gone})
    BY <1>1, <2>1 DEF WalkInv, Rowed, Present
  <2>3. \A i \in RowsOf(s) : i \in 1 .. n /\ n - i < counter
    BY <2>2 DEF RowsOf
  <2>4. t.upto \in Nat /\ t.upto + counter <= n
    BY <1>1, <1>3 DEF DupesInv, ScanExactInv, DoneInv, ApartInv
  <2>5. \A i \in RowsOf(t) : i \in 1 .. t.upto
    BY DEF RowsOf
  <2>. HIDE DEF n, s
  <2>6. ASSUME NEW i \in RowsOf(t), i \in RowsOf(s) PROVE FALSE
    BY <1>2, <2>3, <2>4, <2>5, <2>6
  <2>. QED  BY <2>6
<1>4. \A t : RowsOf(t)' = RowsOf(t)
  BY DEF RowsOf
<1>. HIDE DEF s
<1>5. \A t, u \in trees' : t # u => RowsOf(t) \cap RowsOf(u) = {}
  BY <1>1, <1>3 DEF DupesInv, ApartInv
<1>. QED  BY <1>1, <1>4, <1>5 DEF ApartInv

LEMMA ApartStep == DupesInv /\ [Next]_vars => ApartInv'
<1>. SUFFICES ASSUME DupesInv, [Next]_vars PROVE ApartInv'
  OBVIOUS
<1>. USE DEF DupesInv
<1>1. CASE UNCHANGED vars
  BY <1>1, ApartFrame DEF vars, scanVars, history
<1>2. ASSUME Restart PROVE ApartInv'
  <2>1. counter' = 0 /\ fs_items' = fs_items /\ trees' = trees
    BY <1>2 DEF Restart, history
  <2>2. \A t \in trees : t.upto + 0 <= Len(fs_items)
    BY DEF ScanExactInv, DoneInv
  <2>. QED  BY <2>1, <2>2 DEF ApartInv, RowsOf
<1>3. ASSUME Count PROVE ApartInv'
  <2>1. counter' = 0 /\ fs_items' = fs_items /\ trees' = trees
    BY <1>3 DEF Count, ScanExactInv, ExactInv
  <2>2. \A t \in trees : t.upto + 0 <= Len(fs_items)
    BY DEF ScanExactInv, DoneInv
  <2>. QED  BY <2>1, <2>2 DEF ApartInv, RowsOf
<1>4. ASSUME List PROVE ApartInv'
  BY <1>4, ApartFrame DEF List, history
<1>5. ASSUME NEW p \in Path, Find(p) PROVE ApartInv'
  BY <1>5, ApartFrame DEF Find, history
<1>6. ASSUME OpenFails PROVE ApartInv'
  BY <1>6, ApartFrame DEF OpenFails
<1>7. ASSUME Open PROVE ApartInv'
  BY <1>7, ApartFrame DEF Open, history
<1>8. ASSUME Read PROVE ApartInv'
  BY <1>8, ApartFrame DEF Read, history
<1>9. ASSUME Insert PROVE ApartInv'
  BY <1>9, ApartInsert
<1>10. ASSUME FinishScan PROVE ApartInv'
  BY <1>10, ApartFinish
<1>11. ASSUME StartQuery PROVE ApartInv'
  BY <1>11, ApartFrame DEF StartQuery, scanVars, history
<1>12. ASSUME LogChange PROVE ApartInv'
  BY <1>12, ApartFrame DEF LogChange, scanVars, history
<1>13. ASSUME FinishQuery PROVE ApartInv'
  BY <1>13, ApartFrame DEF FinishQuery, scanVars
<1>14. ASSUME NEW p \in Path, NEW c \in Content \cup {Gone}, Edit(p, c) PROVE ApartInv'
  BY <1>14, ApartFrame DEF Edit
<1>15. ASSUME InsertFails PROVE ApartInv'
  BY <1>15 DEF InsertFails, ApartInv, RowsOf
<1>. QED  BY <1>1, <1>2, <1>3, <1>4, <1>5, <1>6, <1>7, <1>8, <1>9, <1>10, <1>11, <1>12,
            <1>13, <1>14, <1>15, StepCases

(* The rows of scan t with hash h, and the files it has found with it.     *)
Having(t, h) == {i \in RowsOf(t) : fs_items[i].hash = h}
Holding(t, h) == {p \in Path : t.file[p] = h}

LEMMA RowsFinite ==
    ASSUME TypeOK, DoneInv, NEW t \in trees
    PROVE  /\ IsFiniteSet(RowsOf(t)) /\ RowsOf(t) \subseteq 1 .. Len(fs_items)
           /\ Cardinality(RowsOf(t)) <= Cardinality({p \in Path : t.file[p] # Gone})
<1>. DEFINE k == Cardinality({p \in Path : t.file[p] # Gone})
            m == t.upto
<1>1. k \in Nat
  <2>1. IsFiniteSet({p \in Path : t.file[p] # Gone})
    BY InventoryAssumption, FS_Subset
  <2>. QED  BY <2>1, FS_CardinalityType
<1>2. m \in Nat /\ m <= Len(fs_items) /\ Len(fs_items) \in Nat
  BY DEF DoneInv, TypeOK
<1>3. RowsOf(t) = {i \in 1 .. m : m - i < k}
  BY DEF RowsOf
<1>. HIDE DEF k, m
<1>4. RowsOf(t) \subseteq m - k + 1 .. m /\ RowsOf(t) \subseteq 1 .. Len(fs_items)
  BY <1>1, <1>2, <1>3
<1>5. IsFiniteSet(m - k + 1 .. m) /\ Cardinality(m - k + 1 .. m) = k
  <2>1. m - k + 1 \in Int /\ m \in Int
    BY <1>1, <1>2
  <2>2. /\ IsFiniteSet(m - k + 1 .. m)
        /\ Cardinality(m - k + 1 .. m) = IF m - k + 1 > m THEN 0 ELSE m - (m - k + 1) + 1
    BY <2>1, FS_Interval
  <2>. QED  BY <1>1, <1>2, <2>2
<1>6. IsFiniteSet(RowsOf(t)) /\ Cardinality(RowsOf(t)) <= k
  BY <1>4, <1>5, FS_Subset
<1>. QED  BY <1>4, <1>6 DEF k

(* A finished still scan has one row for each file, and not more.          *)
LEMMA OneRowEach ==
    ASSUME TypeOK, DoneInv, NEW t \in trees, NEW h \in Content
    PROVE  IsFiniteSet(Having(t, h)) /\ Cardinality(Having(t, h)) = Cardinality(Holding(t, h))
<1>. DEFINE F == {p \in Path : t.file[p] # Gone}
            f == [i \in RowsOf(t) |-> fs_items[i].path]
            g == [i \in Having(t, h) |-> fs_items[i].path]
<1>1. {fs_items[i] : i \in RowsOf(t)} = {[path |-> p, hash |-> t.file[p]] : p \in F}
  BY DEF DoneInv, Exact, FilesOf
<1>2. \A i \in RowsOf(t) : \E p \in F : fs_items[i] = [path |-> p, hash |-> t.file[p]]
  BY <1>1
<1>3. \A p \in F : \E i \in RowsOf(t) : fs_items[i] = [path |-> p, hash |-> t.file[p]]
  BY <1>1
<1>. HIDE DEF F
<1>4. ASSUME NEW i \in RowsOf(t)
      PROVE  fs_items[i].path \in F /\ fs_items[i].hash = t.file[fs_items[i].path]
  <2>1. PICK p \in F : fs_items[i] = [path |-> p, hash |-> t.file[p]]
    BY <1>2
  <2>2. fs_items[i].path = p /\ fs_items[i].hash = t.file[p]
    BY <2>1
  <2>. QED  BY <2>2
<1>5. ASSUME NEW p \in F
      PROVE  \E i \in RowsOf(t) : fs_items[i].path = p /\ fs_items[i].hash = t.file[p]
  <2>1. PICK i \in RowsOf(t) : fs_items[i] = [path |-> p, hash |-> t.file[p]]
    BY <1>3
  <2>2. fs_items[i].path = p /\ fs_items[i].hash = t.file[p]
    BY <2>1
  <2>. QED  BY <2>2
<1>6. f \in Surjection(RowsOf(t), F)
  BY <1>4, <1>5 DEF Surjection
<1>7. IsFiniteSet(RowsOf(t)) /\ Cardinality(RowsOf(t)) <= Cardinality(F)
  BY RowsFinite DEF F
<1>8. /\ Cardinality(F) <= Cardinality(RowsOf(t))
      /\ Cardinality(F) = Cardinality(RowsOf(t)) <=> f \in Injection(RowsOf(t), F)
      /\ IsFiniteSet(F)
  <2>. HIDE DEF f
  <2>. QED  BY <1>6, <1>7, FS_Surjection
<1>9. Cardinality(F) \in Nat /\ Cardinality(RowsOf(t)) \in Nat
  BY <1>7, <1>8, FS_CardinalityType
<1>10. f \in Injection(RowsOf(t), F)
  <2>. HIDE DEF f
  <2>. QED  BY <1>7, <1>8, <1>9
<1>11. \A i, j \in RowsOf(t) : fs_items[i].path = fs_items[j].path => i = j
  BY <1>10 DEF Injection, IsInjective
<1>12. g \in Bijection(Having(t, h), Holding(t, h))
  <2>1. Having(t, h) \subseteq RowsOf(t)
    BY DEF Having
  <2>2. \A i \in Having(t, h) : fs_items[i].path \in Holding(t, h)
    BY <1>4 DEF Having, Holding, F
  <2>3. \A p \in Holding(t, h) : p \in F
    BY InventoryAssumption DEF Holding, F
  <2>4. \A p \in Holding(t, h) : \E i \in Having(t, h) : fs_items[i].path = p
    BY <1>5, <2>3 DEF Having, Holding
  <2>5. g \in [Having(t, h) -> Holding(t, h)]
    BY <2>2
  <2>6. g \in Injection(Having(t, h), Holding(t, h))
    BY <1>11, <2>1, <2>5 DEF Injection, IsInjective
  <2>7. g \in Surjection(Having(t, h), Holding(t, h))
    BY <2>4, <2>5 DEF Surjection
  <2>. QED  BY <2>6, <2>7 DEF Bijection
<1>13. IsFiniteSet(Having(t, h))
  BY <1>7, FS_Subset DEF Having
<1>14. ExistsBijection(Having(t, h), Holding(t, h))
  BY <1>12 DEF ExistsBijection
<1>. QED  BY <1>13, <1>14, FS_Bijection

(* The rows of the table with hash h, when two scans have inserted all.    *)
LEMMA RowsOfTwo ==
    ASSUME DupesInv, NEW t \in trees, NEW u \in trees, NEW h \in Content,
           Cardinality(RowsOf(t) \cup RowsOf(u)) = Len(fs_items)
    PROVE  Cardinality(Rows(h)) = Cardinality(Holding(t, h))
                                    + (IF t = u THEN 0 ELSE Cardinality(Holding(u, h)))
<1>. USE DEF DupesInv, ScanExactInv, BaseInv
<1>1. /\ RowsOf(t) \subseteq 1 .. Len(fs_items)
      /\ RowsOf(u) \subseteq 1 .. Len(fs_items) /\ Len(fs_items) \in Nat
  <2>1. TypeOK /\ DoneInv
    OBVIOUS
  <2>2. RowsOf(t) \subseteq 1 .. Len(fs_items)
    BY <2>1, RowsFinite
  <2>3. RowsOf(u) \subseteq 1 .. Len(fs_items)
    BY <2>1, RowsFinite
  <2>. QED  BY <2>2, <2>3 DEF TypeOK
<1>2. RowsOf(t) \cup RowsOf(u) = 1 .. Len(fs_items)
  <2>1. IsFiniteSet(1 .. Len(fs_items)) /\ Cardinality(1 .. Len(fs_items)) = Len(fs_items)
    <3>1. 1 \in Int /\ Len(fs_items) \in Int
      BY <1>1
    <3>2. /\ IsFiniteSet(1 .. Len(fs_items))
          /\ Cardinality(1 .. Len(fs_items))
               = IF 1 > Len(fs_items) THEN 0 ELSE Len(fs_items) - 1 + 1
      BY <3>1, FS_Interval
    <3>. QED  BY <1>1, <3>2
  <2>2. RowsOf(t) \cup RowsOf(u) \in SUBSET (1 .. Len(fs_items))
    BY <1>1
  <2>. QED  BY <2>1, <2>2, FS_Subset
<1>3. Rows(h) = Having(t, h) \cup Having(u, h)
  BY <1>2 DEF Rows, Having
<1>4. /\ IsFiniteSet(Having(t, h)) /\ Cardinality(Having(t, h)) = Cardinality(Holding(t, h))
      /\ IsFiniteSet(Having(u, h)) /\ Cardinality(Having(u, h)) = Cardinality(Holding(u, h))
  BY OneRowEach
<1>5. Cardinality(Having(t, h)) \in Nat /\ Cardinality(Having(u, h)) \in Nat
  BY <1>4, FS_CardinalityType
<1>6. CASE t = u
  <2>1. Rows(h) = Having(t, h)
    BY <1>3, <1>6
  <2>2. Cardinality(Rows(h)) = Cardinality(Holding(t, h)) /\ Cardinality(Holding(t, h)) \in Nat
    BY <1>4, <1>5, <2>1
  <2>. QED  BY <1>6, <2>2
<1>7. CASE t # u
  <2>1. Having(t, h) \cap Having(u, h) = {}
    BY <1>7 DEF ApartInv, Having
  <2>2. Cardinality(Rows(h)) = Cardinality(Having(t, h)) + Cardinality(Having(u, h))
                                 - Cardinality(Having(t, h) \cap Having(u, h))
    BY <1>3, <1>4, FS_Union
  <2>3. Cardinality(Having(t, h) \cap Having(u, h)) = 0
    BY <2>1, FS_EmptySet
  <2>4. Cardinality(Rows(h)) = Cardinality(Having(t, h)) + Cardinality(Having(u, h))
    BY <1>5, <2>2, <2>3
  <2>. QED  BY <1>4, <1>7, <2>4
<1>. QED  BY <1>6, <1>7

(* DupesOfStillScans: what "dupes" groups is what one or two still scans   *)
(* have found more than once, for any number of files (aelion_dupes.c).    *)
THEOREM DupesAreDuplicates == Spec => []DupesOfStillScans
<1>1. Init => ApartInv
  BY DEF Init, ApartInv
<1>2. ScanExactInv /\ ApartInv /\ [Next]_vars => ApartInv'
  BY ApartStep DEF DupesInv
<1>3. DupesInv => DupesOfStillScans
  BY RowsOfTwo DEF DupesOfStillScans, Dupes, Holding
<1>4. ScanExactInv /\ ApartInv => DupesOfStillScans
  BY <1>3 DEF DupesInv
<1>. QED  BY <1>1, <1>2, <1>4, ScanExactInvariant, PTL DEF Spec
===============================================================================
