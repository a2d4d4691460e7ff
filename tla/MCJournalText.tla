----------------------------- MODULE MCJournalText -----------------------------
(***************************************************************************)
(* A small instance of JournalText: records of at most 7 characters, a     *)
(* line buffer that two glued records fill and three overflow.             *)
(***************************************************************************)
EXTENDS JournalText

(* Texts that are plain, that fill and overflow the field, with a TAB or a *)
(* CR, with two lines, and with an escape in the middle and at the end.    *)
MCSent == {<<"a">>, <<"a", "b", "c", "d">>, <<"\t", "b">>, <<"b", "\r", "a">>,
           <<"a", "\n", "b">>, <<"a", "\"", "b">>, <<"a", "b", "\\">>}
MCEvent == UNION {[1 .. n -> {"a", "b", "c", "d", "\t", "\r", "\n", "\"", "\\"}] : n \in 1 .. 4}
MCChar == {"a", "b", "c", "d", "1", "2", " ", "\t", "\r", "\n", "\"", "\\", Nul}
MCTime == <<"1", "2">>
MCNoEvent == <<>>
MCGarbled == <<"?">>
===============================================================================
