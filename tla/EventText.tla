------------------------------ MODULE EventText ------------------------------
(***************************************************************************)
(* The texts that travel from a client's request to the journal and back.  *)
(***************************************************************************)
CONSTANTS
    Event,    \* the texts a client can submit
    NoEvent,  \* the empty string: a body without text, a zeroed last_event
    Garbled   \* any text that is not the one that was submitted

ASSUME EventAssumption ==
    NoEvent \notin Event /\ Garbled \notin Event /\ NoEvent # Garbled

Text == Event \cup {Garbled}
==============================================================================
