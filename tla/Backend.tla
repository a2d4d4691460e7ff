------------------------------- MODULE Backend -------------------------------
(***************************************************************************)
(* The Termux backend that aelion.sh installs: a Flask application whose   *)
(* requests, each in a thread of its own, load one JSON file, append to it *)
(* and save it whole, with no lock.  The four lists of the file are one    *)
(* set of entries here: every route loads and saves all of them.           *)
(*                                                                         *)
(* A file is written when it is closed, in one piece, at offset 0: json    *)
(* data of up to the 8 KB that Python buffers.                             *)
(***************************************************************************)
EXTENDS Naturals, FiniteSets

CONSTANTS
    Request,     \* the requests; a POST's name is its entry too
    Post,        \* those to one of the four routes that store
    Malformed,   \* the POSTs whose body is no JSON
    Long,        \* the POSTs with a longer entry
    None,        \* no such file, no data
    MaxCrashes   \* bound: crashes of the backend

ASSUME BackendAssumption ==
    /\ Post \subseteq Request /\ Malformed \subseteq Post /\ Long \subseteq Post
    /\ IsFiniteSet(Request) /\ MaxCrashes \in Nat
    /\ None \notin [data : (SUBSET Post) \cup {None}, over : Nat] /\ \A d \in SUBSET Post : None # d

VARIABLES
    server,      \* where app.run is, or the lines before it
    file,        \* DATA_FILE: what it says, and how much is left over behind
    pc,          \* pc[r]: where request r is
    data,        \* data[r]: its data
    shown,       \* shown[r]: what GET /api/all has answered
    crashes,
    raced,       \* history: the POSTs that overlapped another between load and save
    cut          \* history: the backend crashed while a file was open for writing

vars == <<server, file, pc, data, shown, crashes, raced, cut>>

Empty == [data |-> {}, over |-> 0]  \* the empty lists
Length(d) == 1 + Cardinality(d) + Cardinality(d \cap Long)
Truncated == [data |-> None, over |-> 0]
Readable(f) == f # None /\ f.data # None /\ f.over = 0

(* What a write of d at offset 0 makes of file f. *)
Written(d, f) ==
    [data |-> d,
     over |-> LET old == IF f.data = None THEN 0 ELSE Length(f.data) + f.over
              IN  IF old > Length(d) THEN old - Length(d) ELSE 0]

Saving == {r \in Request : pc[r] = "save"}
Busy == {r \in Request : pc[r] \in {"open", "save"}}
Goto(r, p) == pc' = [pc EXCEPT ![r] = p]

Init ==
    /\ server = "start" /\ file = None
    /\ pc = [r \in Request |-> "new"] /\ data = [r \in Request |-> {}]
    /\ shown = [r \in Request |-> None] /\ crashes = 0 /\ raced = {} /\ cut = FALSE

-------------------------------------------------------------------------------
(* Before app.run *)

(* A mutant of Exists: a file that cannot be read is made anew. *)
ExistsReadable == Readable(file)
Exists == file # None

Start ==
    /\ server = "start"
    /\ IF Exists THEN server' = "up" /\ UNCHANGED file
                 ELSE server' = "create" /\ file' = Truncated
    /\ UNCHANGED <<pc, data, shown, crashes, raced, cut>>

(* A mutant of Create: the file is only made, not written. *)
CreateTouched ==
    /\ server = "create" /\ server' = "up"
    /\ UNCHANGED <<file, pc, data, shown, crashes, raced, cut>>

Create ==
    /\ server = "create" /\ server' = "up" /\ file' = Written({}, file)
    /\ UNCHANGED <<pc, data, shown, crashes, raced, cut>>

(* The process ends with all its requests, whose connections break. *)
Crash ==
    /\ crashes < MaxCrashes /\ crashes' = crashes + 1 /\ server' = "start"
    /\ pc' = [r \in Request |-> IF pc[r] \in {"open", "save"} THEN "broken" ELSE pc[r]]
    /\ cut' = (cut \/ server = "create" \/ Saving # {})
    /\ UNCHANGED <<file, data, shown, raced>>

-------------------------------------------------------------------------------
(* A request *)

(* load() raises for a file that is not JSON, and Flask answers 500. *)
LoadFails(r) ==
    /\ server = "up" /\ pc[r] = "new" /\ ~Readable(file) /\ Goto(r, "500")
    /\ UNCHANGED <<server, file, data, shown, crashes, raced, cut>>

All(r) ==
    /\ server = "up" /\ pc[r] = "new" /\ r \notin Post /\ Readable(file)
    /\ Goto(r, "200") /\ shown' = [shown EXCEPT ![r] = file.data]
    /\ UNCHANGED <<server, file, data, crashes, raced, cut>>

(* request.json is read after the file. *)
Refuse(r) ==
    /\ server = "up" /\ pc[r] = "new" /\ r \in Malformed /\ Readable(file)
    /\ Goto(r, "400")
    /\ UNCHANGED <<server, file, data, shown, crashes, raced, cut>>

Appended(r) == file.data \cup {r}

Load(r) ==
    /\ server = "up" /\ pc[r] = "new" /\ r \in Post \ Malformed /\ Readable(file)
    /\ Goto(r, "open") /\ data' = [data EXCEPT ![r] = Appended(r)]
    /\ raced' = IF Busy = {} THEN raced ELSE raced \cup Busy \cup {r}
    /\ UNCHANGED <<server, file, shown, crashes, cut>>

(* open(DATA_FILE, "w"). *)
Open(r) ==
    /\ pc[r] = "open" /\ Goto(r, "save") /\ file' = Truncated
    /\ UNCHANGED <<server, data, shown, crashes, raced, cut>>

(* The end of the with: the file is written and closed. *)
Save(r) ==
    /\ pc[r] = "save" /\ Goto(r, "200") /\ file' = Written(data[r], file)
    /\ UNCHANGED <<server, data, shown, crashes, raced, cut>>

Serve(r) == LoadFails(r) \/ All(r) \/ Refuse(r) \/ Load(r) \/ Open(r) \/ Save(r)

Next == Start \/ Create \/ Crash \/ \E r \in Request : Serve(r)

Spec == Init /\ [][Next]_vars

-------------------------------------------------------------------------------
(* Properties *)

TypeOK ==
    /\ server \in {"start", "create", "up"}
    /\ file \in [data : (SUBSET Post) \cup {None}, over : Nat] \cup {None}
    /\ pc \in [Request -> {"new", "open", "save", "200", "400", "500", "broken"}]
    /\ data \in [Request -> SUBSET Post] /\ shown \in [Request -> (SUBSET Post) \cup {None}]
    /\ crashes \in Nat /\ raced \subseteq Post /\ cut \in BOOLEAN

Acked == {r \in Post : pc[r] = "200"}

(* The answer "stored" (aelion.sh:39) is true, now and after any restart:  *)
(* while the file can be read it has the entry, and so it has what         *)
(* /api/all has shown, but for the requests that overlapped another.       *)
StoredUnlessRaced ==
    Readable(file) =>
        /\ Acked \ raced \subseteq file.data
        /\ \A r \in Request : shown[r] # None => shown[r] \ raced \subseteq file.data

(* The backend cannot read its file, and answers 500, only while the file  *)
(* is being saved, after a crash in the middle of that, or after requests  *)
(* have overlapped, of which one wrote less over the data of the other.    *)
BrokenForAReason ==
    server = "up" /\ ~Readable(file) => Saving # {} \/ cut \/ raced # {}
==============================================================================
