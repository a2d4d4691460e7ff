---------------------------- MODULE ReceiveRequest ----------------------------
(***************************************************************************)
(* receive_request of api_server.c: one worker reads one request from its  *)
(* socket, a chunk at a time, into a buffer of Capacity bytes.  ApiServer  *)
(* takes the whole loop as one step, Receive; this module shows which      *)
(* outcomes that step has.                                                 *)
(*                                                                         *)
(* Bytes are counted, not spelled: a stream is described by the offsets at *)
(* which strstr finds what the loop looks for.  A stream has no NUL byte,  *)
(* and a number that is looked up is there with all its digits.            *)
(***************************************************************************)
EXTENDS Naturals

CONSTANTS
    Capacity,  \* REQUEST_LIMIT
    Modulus,   \* one more than the largest size_t
    Stream     \* the streams clients may send

ASSUME CapacityAssumption ==
    /\ Capacity \in Nat /\ Capacity > 1
    /\ Modulus \in Nat /\ Modulus > Capacity

(* total    how many bytes the client sends before it closes               *)
(* headers  the end of the empty line that ends the headers, 0 for none    *)
(* marker   the end of the first "Content-Length: n", 0 for none: it may   *)
(*          be missing, spelled in lower case, or occur only in the body   *)
(* length   the value strtoul reads there                                  *)
ASSUME StreamAssumption ==
    Stream \subseteq [total : Nat, headers : Nat, marker : Nat, length : 0 .. Modulus - 1]

VARIABLES
    stream,    \* what the client is sending
    wire,      \* how many of its bytes have arrived at the socket
    received,  \* how many recv() has put into the buffer
    expected,  \* the size of the request, as far as the loop knows
    result     \* "running", then what receive_request returns

vars == <<stream, wire, received, expected, result>>

(* "request" and "cut" return the bytes received, "none" 0, "overflow" -1. *)
Result == {"running", "request", "cut", "none", "overflow"}

Init ==
    /\ stream \in Stream
    /\ wire = 0
    /\ received = 0
    /\ expected = 0
    /\ result = "running"

Send(k) ==
    /\ wire + k <= stream.total
    /\ wire' = wire + k
    /\ UNCHANGED <<stream, received, expected, result>>

Seen(offset, n) == offset > 0 /\ n >= offset

(* A mutant of Expect: the headers do not count. *)
ExpectBody(n) ==
    IF Seen(stream.headers, n) /\ Seen(stream.marker, n) THEN stream.length
    ELSE expected

(* What the loop expects after n bytes.  expected keeps its old value when *)
(* there is no length, and the end of the headers is added every time.     *)
Expect(n) ==
    IF ~Seen(stream.headers, n) THEN expected
    ELSE ((IF Seen(stream.marker, n) THEN stream.length ELSE expected)
             + stream.headers) % Modulus

(* A mutant of Recv: it leaves no room for the final NUL. *)
RecvNoRoomForNul(k) ==
    LET n == received + k IN
    /\ result = "running"
    /\ n <= wire /\ n <= Capacity
    /\ received' = n
    /\ IF n >= Capacity - 1
       THEN result' = "overflow" /\ UNCHANGED expected
       ELSE /\ expected' = Expect(n)
            /\ result' = IF Seen(stream.headers, n) /\ n >= Expect(n)
                         THEN "request" ELSE "running"
    /\ UNCHANGED <<stream, wire>>

(* A mutant of Recv: it does not notice that the buffer is full. *)
RecvNeverOverflows(k) ==
    LET n == received + k IN
    /\ result = "running"
    /\ n <= wire /\ n <= Capacity - 1
    /\ received' = n
    /\ expected' = Expect(n)
    /\ result' = IF Seen(stream.headers, n) /\ n >= Expect(n)
                 THEN "request" ELSE "running"
    /\ UNCHANGED <<stream, wire>>

(* recv() returns k bytes, never more than the rest of the buffer. *)
Recv(k) ==
    LET n == received + k IN
    /\ result = "running"
    /\ n <= wire /\ n <= Capacity - 1
    /\ received' = n
    /\ IF n >= Capacity - 1
       THEN result' = "overflow" /\ UNCHANGED expected
       ELSE /\ expected' = Expect(n)
            /\ result' = IF Seen(stream.headers, n) /\ n >= Expect(n)
                         THEN "request" ELSE "running"
    /\ UNCHANGED <<stream, wire>>

(* A mutant of RecvFails: it tries again. *)
RecvRetries == result = "running" /\ UNCHANGED vars

(* recv() returns 0 or -1: the peer has closed, REQUEST_TIMEOUT_SECONDS    *)
(* have passed, a signal or an error has interrupted it.                   *)
RecvFails ==
    /\ result = "running"
    /\ result' = IF received = 0 THEN "none" ELSE "cut"
    /\ UNCHANGED <<stream, wire, received, expected>>

Step == RecvFails \/ \E k \in 1 .. Capacity - 1 : Recv(k)

Next == Step \/ \E k \in 1 .. stream.total : Send(k)

(* recv() returns: it has a timeout. *)
Spec == Init /\ [][Next]_vars /\ WF_vars(Step)

-------------------------------------------------------------------------------
(* Properties *)

TypeOK ==
    /\ stream \in Stream
    /\ wire \in 0 .. stream.total
    /\ received \in 0 .. Capacity - 1
    /\ expected \in 0 .. Modulus - 1
    /\ result \in Result

(* The loop never asks recv() for 0 bytes, whose answer it would take for  *)
(* the end of the stream: a full buffer has been refused before.           *)
RecvHasRoom == result = "running" => received < Capacity - 1

(* The length is announced in the headers and does not wrap around. *)
Announced ==
    /\ 0 < stream.marker /\ stream.marker <= stream.headers
    /\ stream.headers + stream.length < Modulus

(* However the stream is cut into chunks, a request with a recognised      *)
(* length is handed on as complete only when all of it is in the buffer,   *)
(* and as soon as it is: the loop does not wait for bytes that no client   *)
(* will send.  Without any marker the headers are the request.             *)
WholeRequest ==
    /\ Announced /\ result = "request" => received >= stream.headers + stream.length
    /\ Announced /\ result = "running" => received < stream.headers + stream.length
    /\ stream.marker = 0 /\ stream.headers > 0 =>
         /\ result = "request" => received >= stream.headers
         /\ result = "running" => received < stream.headers

(* A client cannot hold a worker for ever, however slowly it sends. *)
Returns == <>(result # "running")
===============================================================================
