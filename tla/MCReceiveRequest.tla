--------------------------- MODULE MCReceiveRequest ---------------------------
(***************************************************************************)
(* A small instance of ReceiveRequest: a buffer of 7 bytes, a size_t of 4  *)
(* bits, and every stream of at most 8 bytes, shorter and longer than what *)
(* it announces, with its length in the headers, in the body or nowhere.   *)
(***************************************************************************)
EXTENDS ReceiveRequest

MCStream ==
    {s \in [total : 1 .. 8, headers : 0 .. 5, marker : 0 .. 6, length : {0, 1, 2, 4, 12, 15}] :
        /\ s.headers <= s.total /\ s.marker <= s.total
        /\ s.marker = 0 => s.length = 0
        /\ s.headers = 0 => s.marker = 0}
===============================================================================
