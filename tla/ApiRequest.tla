------------------------------ MODULE ApiRequest ------------------------------
(***************************************************************************)
(* What handle_request and receive_request can tell apart about a request. *)
(***************************************************************************)
EXTENDS EventText

CONSTANTS
    Blocked,    \* the events security_check refuses ("mining.start")
    Shortened   \* Shortened[e]: the events a body cut inside e can read as

ASSUME RequestAssumption ==
    /\ Blocked \subseteq Event
    /\ Shortened \in [Event -> SUBSET Event]

(* path is the route, post is method = "POST", auth the outcome of         *)
(* authorized(); size says whether the body fits MAX_BODY_SIZE ("fits"),   *)
(* only the receive buffer ("large"), or neither ("overflow").             *)
Request ==
    [path  : {"health", "metrics", "events", "requests", "other"},
     post  : BOOLEAN,
     auth  : BOOLEAN,
     size  : {"fits", "large", "overflow"},
     event : Event \cup {NoEvent}]

(* The guards of handle_request, in the order of its early returns. *)
Overflow(r) == r.size = "overflow"
TooLarge(r) == r.size = "large"
Public(r)   == r.size = "fits" /\ r.path = "health"
Denied(r)   == r.size = "fits" /\ r.path # "health" /\ ~r.auth
Admitted(r) == r.size = "fits" /\ r.path # "health" /\ r.auth
Viewed(r)   == Admitted(r) /\ r.path \in {"metrics", "events"}
Posted(r)   == Admitted(r) /\ r.path = "requests" /\ r.post
Unrouted(r) == Admitted(r) /\ ~Viewed(r) /\ ~Posted(r)

security_check(e) == e \notin Blocked

(* What a body cut inside the text e can read as. *)
CutInside(e) == IF e = NoEvent THEN {} ELSE Shortened[e]

(* receive_request returns what it has when recv times out, fails or is    *)
(* interrupted, when the peer closes, and at the end of the headers when   *)
(* it does not recognise the length header, so any proper prefix of the    *)
(* bytes can reach handle_request.  A prefix that ends in the request line *)
(* has no headers, and its path may be cut to an unknown one or from one;  *)
(* one that ends in the headers has no body, and a token that is cut can   *)
(* become wrong or right; one that ends in the body has its headers, and   *)
(* its text may be cut: json_value does not require the closing quote.     *)
ShortReads(r) ==
    {s \in Request :
        /\ s.post = r.post
        /\ \/ /\ "other" \in {s.path, r.path} /\ ~s.auth
              /\ s.size = "fits" /\ s.event = NoEvent
           \/ /\ s.path = r.path
              /\ s.size = "fits" /\ s.event = NoEvent
           \/ /\ s.path = r.path /\ s.auth = r.auth
              /\ r.size = "fits" => s.size = "fits"
              /\ s.size # "overflow"
              /\ s.event \in {NoEvent, r.event} \cup CutInside(r.event)}
===============================================================================
