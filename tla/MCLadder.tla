------------------------------ MODULE MCLadder ------------------------------
(***************************************************************************)
(* A small instance of Ladder: two runs, one after the other or at once.   *)
(***************************************************************************)
EXTENDS Ladder

CONSTANTS r1, r2

MCLadders == {<<"plain", "plain">>, <<"vacuous", "network">>, <<"refused">>}
MCOptions == [r \in {r1, r2} |-> IF r = r1 THEN {{"restart", "loop", "keep"}, {"keep"}}
                                 ELSE {{}, {"dryrun", "restart"}}]
(* No branch, or one that an earlier run has moved to its first rung. *)
MCBranches == {None, [base |-> 0, rungs |-> <<[rung |-> 1, validated |-> TRUE]>>]}
==============================================================================
