----------------------------- MODULE RequestText -----------------------------
(***************************************************************************)
(* The text of a request, character by character: how a client writes it   *)
(* into the JSON of its body, what json_value reads of it, and how the     *)
(* answers show it (json_escape, src/services/api/api_server.c).           *)
(***************************************************************************)
EXTENDS Naturals, Sequences, SequencesExt

CONSTANTS
    Char,        \* the characters
    Nul,         \* the one that ends a string of C
    FieldCap,    \* the size of handle_request's raw and of last_event
    EscapeCap    \* the size of handle_request's escaped

Quote == "\""
Backslash == "\\"

(* escaped has room for a raw that is escaped throughout. *)
ASSUME FieldAssumption ==
    /\ {Nul, Quote, Backslash, "\t", "\r", "\n", " "} \subseteq Char
    /\ Nul \notin {Quote, Backslash, "\t", "\r", "\n", " "}
    /\ FieldCap \in Nat \ {0} /\ EscapeCap \in Nat /\ EscapeCap >= 2 * FieldCap

(* A client escapes what would end the JSON string.  It need not escape    *)
(* line breaks: the page (hud.js:31) sends the body as it was typed.       *)
EncodeChar(ch) == IF ch \in {Quote, Backslash} THEN <<Backslash, ch>> ELSE <<ch>>
Encode(t) == FlattenSeq([i \in 1 .. Len(t) |-> EncodeChar(t[i])])

(* The body behind the opening quote of the value. *)
Body(t) == Encode(t) \o <<Quote>>

(* The backslashes that take the character behind them along: not one that *)
(* has been taken along itself, nor one at the end of the body.            *)
Opens(s) ==
    LET o[i \in 0 .. Len(s)] == i > 0 /\ i < Len(s) /\ s[i] = Backslash /\ ~o[i - 1]
    IN  {i \in 1 .. Len(s) : o[i]}

(* A mutant of json_value: the place of the final NUL is not kept free. *)
json_value_full(s) ==
    LET ends == {i \in 1 .. Len(s) : i - 1 \notin Opens(s) /\ (s[i] = Quote \/ i > FieldCap)}
    IN  [i \in 1 .. Min(ends \cup {Len(s) + 1}) - 1 |-> IF i \in Opens(s) THEN Nul ELSE s[i]]

(* What is copied before the final NUL.  A backslash has the character     *)
(* behind it copied, whatever it is, to its own place: that of the         *)
(* backslash stays as it was, 0.  The copy ends at a quote, at the end of  *)
(* the body or when the field is full, which is not looked at between a    *)
(* backslash and the character behind it.                                  *)
json_value(s) ==
    LET ends == {i \in 1 .. Len(s) : i - 1 \notin Opens(s) /\ (s[i] = Quote \/ i >= FieldCap)}
    IN  [i \in 1 .. Min(ends \cup {Len(s) + 1}) - 1 |-> IF i \in Opens(s) THEN Nul ELSE s[i]]

CString(s) == SubSeq(s, 1, Min({i \in 1 .. Len(s) : s[i] = Nul} \cup {Len(s) + 1}) - 1)

(* What handle_request has of a body: raw. *)
Raw(s) == CString(json_value(s))

EscapeChar(ch) ==
    IF ch \in {Quote, Backslash} THEN <<Backslash, ch>>
    ELSE IF ch \in {"\n", "\r"} THEN <<" ">> ELSE <<ch>>

(* The loop stops for good where two characters have no room. *)
EscapeStep(out, ch) == IF Len(out) + 2 < EscapeCap THEN out \o EscapeChar(ch) ELSE out

json_escape(s) ==
    LET out[i \in 0 .. Len(s)] == IF i = 0 THEN <<>> ELSE EscapeStep(out[i - 1], s[i])
    IN  out[Len(s)]
==============================================================================
