----------------------------- MODULE MCApiServer -----------------------------
(***************************************************************************)
(* Small instances of ApiServer.                                           *)
(***************************************************************************)
EXTENDS ApiServer, TLC

CONSTANTS c1, c2, c3, review, rev, mining

MCEvent == {review, rev, mining}
MCBlocked == {mining}
(* "justice.review" can be cut to "justice.rev"; a prefix of the blocked   *)
(* "mining.start" is not blocked.                                          *)
MCShortened == [e \in MCEvent |-> IF e = rev THEN {} ELSE {rev}]

R(path, post, auth, size, event) ==
    [path |-> path, post |-> post, auth |-> auth, size |-> size, event |-> event]

Submit(e) == R("requests", TRUE, TRUE, "fits", e)

(* One request for each early return of handle_request. *)
OneOfEach ==
    {Submit(review), Submit(mining), Submit(NoEvent),
     R("requests", TRUE, TRUE, "large", review),
     R("requests", TRUE, TRUE, "overflow", review),
     R("requests", TRUE, FALSE, "fits", review),
     R("requests", FALSE, TRUE, "fits", NoEvent),
     R("other", FALSE, TRUE, "fits", NoEvent),
     R("health", FALSE, FALSE, "fits", NoEvent),
     R("metrics", FALSE, TRUE, "fits", NoEvent)}

(* Submissions only. *)
OneSubmission == {Submit(review)}
Submissions == {Submit(review), Submit(mining)}

(* Connections are interchangeable. *)
Symmetry == Permutations(Conn)
==============================================================================
