------------------------------- MODULE Journal -------------------------------
(***************************************************************************)
(* The file events.log of the API server, line by line.                    *)
(*                                                                         *)
(* append_journal writes "<time>\t<event>\n".  A write that completes      *)
(* gives a whole line; one that stops half way (disk full, power loss)     *)
(* leaves a fragment at the end of the file that nothing repairs, so the   *)
(* next record is glued to it.  What load_journal makes of a line depends  *)
(* only on whether its first TAB is the record's own.  The unterminated    *)
(* last line of the file, its tail, is one of:                             *)
(*                                                                         *)
(*   "none"   nothing: the file ends with a newline or is empty            *)
(*   "bare"   some digits of a time and no TAB yet                         *)
(*   "tab"    a time and its TAB, no character of the event                *)
(*   "text"   a time, its TAB and at least one character of the event      *)
(*                                                                         *)
(* Events are single lines shorter than the fgets buffer; JournalText      *)
(* models the file character by character and shows what the others do.    *)
(***************************************************************************)
EXTENDS Naturals, Sequences, EventText

CONSTANT Conn  \* the connections; a record remembers the one it came by

Line == [by : Conn, event : Text]
Cut == {"bare", "tab", "text"}
Tail_ == Cut \cup {"none"}

(* A whole record of event e written after tail.  Digits glued to digits   *)
(* still precede the record's own TAB; after a TAB the fragment, the new   *)
(* time and the new TAB all become part of the event.                      *)
WholeLine(tail, c, e) ==
    [by |-> c, event |-> IF tail \in {"none", "bare"} THEN e ELSE Garbled]

(* A mutant of TornTail: the record starts a line of its own. *)
TornAlone(tail, cut) == cut

(* The fragment left by a record cut at cut, written after tail. *)
TornTail(tail, cut) == IF tail \in {"none", "bare"} THEN cut ELSE "text"

(* What can be left of a tail whose last bytes are lost. *)
Remains == [none |-> {"none"}, bare |-> {"none", "bare"},
            tab |-> {"none", "bare", "tab"}, text |-> Tail_]

(* load_journal: every whole line and a last line with some event text     *)
(* count as one request; a line without TAB or with an empty event does    *)
(* not.                                                                    *)
LoadedRequests(lines, tail) == Len(lines) + (IF tail = "text" THEN 1 ELSE 0)

LoadedEvent(lines, tail) ==
    IF tail = "text" THEN Garbled
    ELSE IF lines = <<>> THEN NoEvent ELSE lines[Len(lines)].event
==============================================================================
