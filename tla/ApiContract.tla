----------------------------- MODULE ApiContract -----------------------------
(***************************************************************************)
(* What the API promises the clients that submit requests: a durable log.  *)
(* A request that is authorized, well routed and not blocked may be        *)
(* recorded, once; the client may then be told so; a crash may lose the    *)
(* end of the log but nothing that a client was told of.                   *)
(***************************************************************************)
EXTENDS ApiRequest, Naturals, Sequences

CONSTANTS Conn, Requests

VARIABLES
    sent,   \* the request of each client
    log,    \* the records
    acked   \* the clients whose request was acknowledged

vars == <<sent, log, acked>>

Entitled(c) == sent[c].auth /\ sent[c].post /\ sent[c].path = "requests"

(* The texts that may be recorded for c: a body can be cut on its way. *)
Texts(c) ==
    {e \in {sent[c].event} \cup CutInside(sent[c].event) :
        e # NoEvent /\ security_check(e)}

In(c, n) == \E i \in 1 .. n : log[i].by = c

Init ==
    /\ sent \in [Conn -> Requests]
    /\ log = <<>>
    /\ acked = {}

Record(c) ==
    /\ Entitled(c) /\ ~In(c, Len(log))
    /\ \E e \in Texts(c) : log' = Append(log, [by |-> c, event |-> e])
    /\ UNCHANGED <<sent, acked>>

Acknowledge(c) ==
    /\ In(c, Len(log))
    /\ acked' = acked \cup {c}
    /\ UNCHANGED <<sent, log>>

Crash ==
    /\ \E n \in 0 .. Len(log) :
         /\ \A c \in acked : In(c, n)
         /\ log' = SubSeq(log, 1, n)
    /\ UNCHANGED <<sent, acked>>

Next == Crash \/ \E c \in Conn : Record(c) \/ Acknowledge(c)

Spec == Init /\ [][Next]_vars
==============================================================================
