------------------------------ MODULE Inventory ------------------------------
(***************************************************************************)
(* The inventory of files: the scan of a tree that goes on changing        *)
(* (src/core/aelion_fs_scan.c, aelion_hash.c), the table fs_items it fills *)
(* and the queries of the shell over it, "changes" (aelion_changes.c) and  *)
(* "dupes" (aelion_dupes.c).  The table outlives the process; the scan and *)
(* a query run at the same time, on one connection.  A process scans once  *)
(* (Session).  Each start creates the tables of the schema file that is in *)
(* place; the two of the repository, aelion/src/db/aelion_schema.sql and   *)
(* aelion/aelion/src/db/aelion_schema.sql, create one of the two tables    *)
(* each.  Hashes do not collide: the hash of a file is its content.        *)
(***************************************************************************)
EXTENDS Naturals, Sequences, FiniteSets

CONSTANTS
    Path,        \* the files there may be
    Content,     \* what they may contain
    Gone,        \* no such file
    NoHash,      \* the empty hash of a file that could not be read
    Null,        \* NULL of SQL
    Schemas,     \* which of the two tables a schema file creates
    MaxScans,    \* bound: scans
    MaxEdits,    \* bound: files written or deleted
    MaxLocked,   \* bound: files that cannot be opened, and rows SQLite refuses
    MaxQueries   \* bound: "changes"

Hash == Content \cup {NoHash}

ASSUME InventoryAssumption ==
    /\ Gone \notin Content /\ NoHash \notin Content /\ Null \notin Hash
    /\ IsFiniteSet(Path) /\ Schemas \subseteq SUBSET {"fs_items", "fs_changes"}
    /\ {MaxScans, MaxEdits, MaxLocked, MaxQueries} \subseteq Nat

VARIABLES
    file,        \* file[p]: what file p contains, or Gone
    pc,          \* where the scan is
    total,       \* count_files
    counter,     \* *counter
    seen,        \* the files the enumeration has returned
    listed,      \* the files that it has still to return, deleted or not
    entry,       \* the row the scan is at
    dirty,       \* that file was written since it was opened
    tables,      \* the tables the database has
    fs_items,    \* the rows of fs_items
    query,       \* the rows the index of a running "changes" has, 0 when none runs
    cursor,      \* the row the query is at
    fs_changes,  \* the rows of that table that "changes" has written
    refused,     \* history: the rows of fs_changes that SQLite has refused
    count,       \* what the bounds count
    still,       \* history: since this scan began no file changed, none was locked, and
                 \* every row was stored
    trees,       \* history: the trees of the finished scans that were still
    past,        \* history: past[p]: what file p has contained
    failed,      \* history: the files that could not be opened
    late,        \* history: the files inserted while a query ran
    told         \* history: the rows compared by the last finished query that could log

scanVars == <<pc, total, counter, seen, listed, entry, dirty>>
queryVars == <<query, cursor, fs_changes, refused>>
history == <<still, trees, past, failed, late, told>>
vars == <<file, scanVars, tables, fs_items, queryVars, count, history>>

Changed(p) == \E c, d \in past[p] : c # d
Present == {p \in Path : file[p] # Gone}
Spend(what, most) == count[what] < most /\ count' = [count EXCEPT ![what] = @ + 1]

Init ==
    /\ file \in [Path -> Content \cup {Gone}]
    /\ pc = "idle" /\ total = 0 /\ counter = 0
    /\ seen = {} /\ listed = {} /\ entry = Null /\ dirty = FALSE
    /\ tables \in Schemas /\ fs_items = <<>>
    /\ query = 0 /\ cursor = 0 /\ fs_changes = {} /\ refused = {}
    /\ count = [what \in {"scans", "edits", "locked", "queries"} |-> 0]
    /\ still = FALSE /\ trees = {} /\ past = [p \in Path |-> {file[p]} \ {Gone}]
    /\ failed = {} /\ late = {} /\ told = 0

-------------------------------------------------------------------------------
(* Files and the process *)

(* Another program writes file p, or deletes it, which Windows refuses     *)
(* while the scan reads it.                                                *)
Edit(p, c) ==
    LET reading == pc = "read" /\ entry.path = p
    IN  /\ Spend("edits", MaxEdits) /\ file[p] # c /\ ~(reading /\ c = Gone)
        /\ file' = [file EXCEPT ![p] = c] /\ dirty' = (dirty \/ reading)
        /\ past' = [past EXCEPT ![p] = @ \cup ({c} \ {Gone})]
        /\ still' = FALSE
        /\ UNCHANGED <<pc, total, counter, seen, listed, entry, tables, fs_items, queryVars,
                       trees, failed, late, told>>

(* The process ends, in the middle of a scan and of a query too, and the   *)
(* next one begins with the tables as they are and those of its schema.    *)
Restart ==
    /\ \E schema \in Schemas : tables' = tables \cup schema
    /\ pc' = "idle" /\ seen' = {} /\ listed' = {} /\ entry' = Null
    /\ total' = 0 /\ counter' = 0 /\ dirty' = FALSE
    /\ query' = 0 /\ cursor' = 0
    /\ UNCHANGED <<file, fs_items, fs_changes, refused, count, history>>

-------------------------------------------------------------------------------
(* aelion_fs_scan *)

Count ==
    /\ pc = "idle" /\ Spend("scans", MaxScans)
    /\ pc' = "list" /\ still' = TRUE /\ total' = Cardinality(Present)
    /\ UNCHANGED <<file, counter, seen, listed, entry, dirty, tables, fs_items, queryVars,
                   trees, past, failed, late, told>>

List ==
    /\ pc = "list" /\ pc' = "find" /\ listed' = Present
    /\ UNCHANGED <<file, total, counter, seen, entry, dirty, tables, fs_items, queryVars, count,
                   history>>

(* FindNextFile returns all files that were there at the first call, those *)
(* deleted since too, and a file created since if it comes by.             *)
Find(p) ==
    /\ pc = "find" /\ p \in (listed \cup Present) \ seen /\ pc' = "open"
    /\ seen' = seen \cup {p} /\ listed' = listed \ {p}
    /\ entry' = [path |-> p, hash |-> NoHash]
    /\ UNCHANGED <<file, total, counter, dirty, tables, fs_items, queryVars, count, history>>

OpenFails ==
    /\ pc = "open" /\ "fs_items" \in tables /\ pc' = "insert"
    /\ \/ file[entry.path] = Gone /\ UNCHANGED count
       \/ file[entry.path] # Gone /\ Spend("locked", MaxLocked)
    /\ still' = FALSE /\ failed' = failed \cup {entry.path}
    /\ UNCHANGED <<file, total, counter, seen, listed, entry, dirty, tables, fs_items, queryVars,
                   trees, past, late, told>>

Open ==
    /\ pc = "open" /\ "fs_items" \in tables /\ file[entry.path] # Gone
    /\ pc' = "read" /\ dirty' = FALSE
    /\ UNCHANGED <<file, total, counter, seen, listed, entry, tables, fs_items, queryVars, count,
                   history>>

(* What is read of a file that is being written may be anything. *)
Read ==
    /\ pc = "read" /\ pc' = "insert"
    /\ \E c \in IF dirty THEN Content ELSE {file[entry.path]} :
          entry' = [entry EXCEPT !.hash = c]
    /\ UNCHANGED <<file, total, counter, seen, listed, dirty, tables, fs_items, queryVars,
                   count, history>>

Insert ==
    /\ pc = "insert" /\ pc' = "find" /\ counter' = counter + 1
    /\ fs_items' = Append(fs_items, entry)
    /\ late' = IF query > 0 THEN late \cup {entry.path} ELSE late
    /\ UNCHANGED <<file, total, seen, listed, entry, dirty, tables, queryVars, count,
                   still, trees, past, failed, told>>

(* The prepare fails without the table, before the file is opened; or      *)
(* SQLite refuses the row, the database being locked by another program,   *)
(* which nothing looks at.  The file is counted all the same.              *)
InsertFails ==
    /\ \/ pc = "open" /\ "fs_items" \notin tables /\ UNCHANGED count
       \/ pc = "insert" /\ Spend("locked", MaxLocked)
    /\ pc' = "find" /\ counter' = counter + 1 /\ still' = FALSE
    /\ UNCHANGED <<file, total, seen, listed, entry, dirty, tables, fs_items, queryVars,
                   trees, past, failed, late, told>>

(* A mutant of Exhausted: the first entry is taken for the last. *)
ExhaustedEarly == seen # {} \/ listed = {}
Exhausted == listed = {}

FinishScan ==
    /\ pc = "find" /\ Exhausted /\ pc' = "done"
    /\ trees' = IF ~still THEN trees
                ELSE trees \cup {[file |-> file, upto |-> Len(fs_items), full |-> counter = total]}
    /\ UNCHANGED <<file, total, counter, seen, listed, entry, dirty, tables, fs_items, queryVars,
                   count, still, past, failed, late, told>>

Scan == Count \/ List \/ (\E p \in Path : Find(p)) \/ OpenFails \/ Open \/ Read \/ Insert
        \/ InsertFails \/ FinishScan

-------------------------------------------------------------------------------
(* aelion_detect_changes.  SQLite joins fs_items with an index that it     *)
(* builds of it in the first step; the outer loop goes by row, and comes   *)
(* to the rows inserted meanwhile too.  Between two rows of the answer the *)
(* scan may use the connection.  A query that SQLite refuses is not begun. *)

Same(i) == {j \in 1 .. query : fs_items[j].path = fs_items[i].path}
Record(type, i, new) ==
    [type |-> type, path |-> fs_items[i].path, old |-> fs_items[i].hash, new |-> new]

(* Mutants of Answer: the join has no path; and a row is compared only     *)
(* with the one before it.                                                 *)
AnswerAcross(i) ==
    {Record("MODIFIED", i, fs_items[j].hash) :
        j \in {k \in 1 .. query : fs_items[k].hash # fs_items[i].hash}}
AnswerLast(i) ==
    {Record("MODIFIED", i, fs_items[j].hash) :
        j \in {k \in Same(i) : k = i - 1 /\ fs_items[k].hash # fs_items[i].hash}}

(* The rows of the answer for row i, as they are logged. *)
Answer(i) ==
    {Record("MODIFIED", i, fs_items[j].hash) :
        j \in {k \in Same(i) : fs_items[k].hash # fs_items[i].hash}}
    \cup IF Same(i) = {} THEN {Record("DELETED", i, Null)} ELSE {}

Ahead == {i \in cursor + 1 .. Len(fs_items) : Answer(i) # {}}

StartQuery ==
    /\ query = 0 /\ fs_items # <<>> /\ Spend("queries", MaxQueries)
    /\ query' = Len(fs_items)
    /\ UNCHANGED <<file, scanVars, tables, fs_items, cursor, fs_changes, refused, history>>

(* The next row of the answer: log_change returns at once without the      *)
(* table, and does not look whether SQLite has taken the row.              *)
LogChange ==
    /\ query > 0
    /\ \E i \in Ahead :
          /\ \A k \in Ahead : i <= k
          /\ cursor' = i
          /\ \/ /\ "fs_changes" \notin tables /\ UNCHANGED <<fs_changes, refused, count>>
             \/ /\ "fs_changes" \in tables
                /\ \E lost \in SUBSET Answer(i) :
                      /\ fs_changes' = fs_changes \cup (Answer(i) \ lost)
                      /\ refused' = refused \cup lost
                      /\ IF lost = {} THEN UNCHANGED count ELSE Spend("locked", MaxLocked)
    /\ UNCHANGED <<file, scanVars, tables, fs_items, query, history>>

FinishQuery ==
    /\ query > 0 /\ Ahead = {}
    /\ told' = IF "fs_changes" \in tables THEN query ELSE told
    /\ query' = 0 /\ cursor' = 0
    /\ UNCHANGED <<file, scanVars, tables, fs_items, fs_changes, refused, count,
                   still, trees, past, failed, late>>

(* aelion_dupes_scan: the groups, sorted in the first step of the query.   *)
(* A mutant of Dupes: HAVING is not said.                                  *)
Rows(h) == {i \in 1 .. Len(fs_items) : fs_items[i].hash = h}
DupesAll == {h \in Content : Rows(h) # {}}
Dupes == {h \in Content : Cardinality(Rows(h)) > 1}

Next ==
    \/ \E p \in Path, c \in Content \cup {Gone} : Edit(p, c)
    \/ Restart \/ Scan \/ StartQuery \/ LogChange \/ FinishQuery

Spec == Init /\ [][Next]_vars

-------------------------------------------------------------------------------
(* Properties *)

Row == [path : Path, hash : Hash]

TypeOK ==
    /\ file \in [Path -> Content \cup {Gone}] /\ past \in [Path -> SUBSET Content]
    /\ pc \in {"idle", "list", "find", "open", "read", "insert", "done"}
    /\ entry \in Row \cup {Null} /\ fs_items \in Seq(Row)
    /\ seen \subseteq Path /\ listed \subseteq Path
    /\ failed \subseteq Path /\ late \subseteq Path
    /\ {total, counter, query, cursor, told} \subseteq Nat
    /\ dirty \in BOOLEAN /\ still \in BOOLEAN

RowsOf(t) == {i \in 1 .. t.upto : t.upto - i < Cardinality({p \in Path : t.file[p] # Gone})}

(* A scan during which no file changed or was locked, and which could      *)
(* store its rows, has added one row for each file, with the hash it had,  *)
(* whatever earlier scans left behind; and the progress it has shown ended *)
(* at the number counted before.                                           *)
StillScanIsExact ==
    \A t \in trees :
        /\ {fs_items[i] : i \in RowsOf(t)}
             = {[path |-> p, hash |-> t.file[p]] : p \in {q \in Path : t.file[q] # Gone}}
        /\ t.full

(* What "changes" says of a file has a cause.  MODIFIED: the file has had  *)
(* more than one content, or could not be read once.  DELETED: no file is  *)
(* missing; the row was inserted while the query ran, behind the index.    *)
ReportsExplained ==
    \A c \in fs_changes \cup refused :
        \/ /\ c.type = "MODIFIED" /\ c.old # c.new
           /\ c.path \in failed \/ Changed(c.path)
        \/ c.type = "DELETED" /\ c.path \in late

(* When "changes" is finished in a database with the table fs_changes, it  *)
(* has stored a report of every file that two still scans before it have   *)
(* found with different contents, from the old to the new and from the new *)
(* to the old, unless SQLite has refused the row.  In one without it, as   *)
(* the schema file with fs_items leaves it, no change is stored at all,    *)
(* though "changes" says that it is complete (aelion_changes.c:15-16, 60). *)
ChangesFound ==
    /\ \A t \in trees, u \in trees : \A p \in Path :
          /\ t.upto <= told /\ u.upto <= told
          /\ t.file[p] # u.file[p] /\ Gone \notin {t.file[p], u.file[p]}
          => [type |-> "MODIFIED", path |-> p, old |-> t.file[p], new |-> u.file[p]]
                \in fs_changes \cup refused
    /\ "fs_changes" \notin tables => fs_changes = {}

(* After one scan, a still one, the groups of "dupes" are the contents of  *)
(* more than one file; after two, all files that both have found as well.  *)
DupesOfStillScans ==
    \A t \in trees, u \in trees :
        /\ t.upto <= u.upto /\ u.upto = Len(fs_items)
        /\ Cardinality(RowsOf(t) \cup RowsOf(u)) = Len(fs_items)
        => Dupes = {h \in Content :
                       Cardinality({p \in Path : t.file[p] = h})
                         + (IF t = u THEN 0 ELSE Cardinality({p \in Path : u.file[p] = h})) > 1}
==============================================================================
