--------------------------- MODULE Request_proofs ---------------------------
(***************************************************************************)
(* Theorems about the way of a request: how receive_request gets it, for   *)
(* every buffer, every width of size_t and every stream (ReceiveRequest);  *)
(* and what becomes of its text, for every alphabet, every set of texts,   *)
(* and every size of the buffers (RequestText, JournalText).               *)
(*                                                                         *)
(* The loops of the code are recursive functions of the model.  What such  *)
(* a function computes is proved by induction over its places; induction   *)
(* is stated for a set of numbers (NumbersInduction) and comes from the    *)
(* least element of a set, because the theorems of the library take an     *)
(* operator, which no backend can instantiate.  LoopExists and LoopUnique  *)
(* say once that a loop has a value at every place and only one.           *)
(***************************************************************************)
EXTENDS ReceiveRequest, JournalText,
        SequenceTheorems, FiniteSetTheorems, FunctionTheorems, WellFoundedInduction, TLAPS

-------------------------------------------------------------------------------
(* receive_request *)

(* WholeRequest is not inductive: without a marker the size expected is    *)
(* right only because expected is still 0 when the headers end.            *)
NothingExpected ==
    result = "running" /\ ~Seen(stream.headers, received) => expected = 0

ReceiveInv == TypeOK /\ RecvHasRoom /\ NothingExpected /\ WholeRequest

LEMMA StreamType ==
    ASSUME TypeOK
    PROVE  /\ stream.total \in Nat /\ stream.headers \in Nat /\ stream.marker \in Nat
           /\ stream.length \in 0 .. Modulus - 1
           /\ Capacity \in Nat /\ Modulus \in Nat /\ Capacity > 1 /\ Modulus > Capacity
BY StreamAssumption, CapacityAssumption DEF TypeOK

LEMMA ModulusIsIdentity ==
    ASSUME NEW m \in Nat, NEW n \in Nat, n < m
    PROVE  n % m = n
OBVIOUS

LEMMA ExpectType == ASSUME TypeOK, NEW n \in Nat PROVE Expect(n) \in 0 .. Modulus - 1
<1>1. CASE ~Seen(stream.headers, n)
  BY <1>1 DEF Expect, TypeOK
<1>2. CASE Seen(stream.headers, n)
  <2>. DEFINE size == (IF Seen(stream.marker, n) THEN stream.length ELSE expected) + stream.headers
  <2>1. size \in Nat /\ Modulus \in Nat /\ Modulus > 0
    BY StreamType DEF TypeOK
  <2>2. size % Modulus \in 0 .. Modulus - 1
    BY <2>1
  <2>. QED  BY <1>2, <2>2 DEF Expect
<1>. QED  BY <1>1, <1>2

(* What the loop expects once it sees the end of the headers. *)
LEMMA ExpectAnnounced ==
    ASSUME TypeOK, Announced, NEW n \in Nat, Seen(stream.headers, n)
    PROVE  Expect(n) = stream.headers + stream.length
<1>1. Seen(stream.marker, n)
  BY StreamType DEF Announced, Seen
<1>2. stream.length + stream.headers \in Nat /\ stream.length + stream.headers < Modulus
  BY StreamType DEF Announced
<1>3. (stream.length + stream.headers) % Modulus = stream.length + stream.headers
  BY <1>2, ModulusIsIdentity, StreamType
<1>. QED  BY <1>1, <1>3, StreamType DEF Expect

LEMMA ExpectHeaders ==
    ASSUME TypeOK, stream.marker = 0, expected = 0,
           NEW n \in 0 .. Capacity - 1, Seen(stream.headers, n)
    PROVE  Expect(n) = stream.headers
<1>1. ~Seen(stream.marker, n)
  BY DEF Seen
<1>2. stream.headers < Modulus
  BY StreamType DEF Seen
<1>3. (0 + stream.headers) % Modulus = stream.headers
  BY <1>2, ModulusIsIdentity, StreamType
<1>. QED  BY <1>1, <1>3 DEF Expect

LEMMA RecvStep ==
    ASSUME ReceiveInv, NEW k \in 1 .. Capacity - 1, Recv(k)
    PROVE  ReceiveInv'
<1>. DEFINE n == received + k
<1>1. /\ result = "running" /\ received' = n /\ UNCHANGED <<stream, wire>>
      /\ n \in 1 .. Capacity - 1
  BY StreamType DEF Recv, ReceiveInv, TypeOK
<1>2. CASE n >= Capacity - 1
  <2>1. result' = "overflow" /\ UNCHANGED expected
    BY <1>2 DEF Recv
  <2>. QED  BY <1>1, <2>1 DEF ReceiveInv, TypeOK, Result, RecvHasRoom, NothingExpected,
         WholeRequest, Announced, Seen
<1>3. CASE ~(n >= Capacity - 1)
  <2>1. /\ expected' = Expect(n)
        /\ result' = IF Seen(stream.headers, n) /\ n >= Expect(n)
                     THEN "request" ELSE "running"
    BY <1>3 DEF Recv
  <2>2. TypeOK'
    BY <1>1, <2>1, ExpectType DEF ReceiveInv, TypeOK, Result
  <2>3. RecvHasRoom'
    BY <1>1, <1>3, StreamType DEF RecvHasRoom, ReceiveInv
  <2>4. CASE ~Seen(stream.headers, n)
    <3>1. ~Seen(stream.headers, received)
      BY <1>1, <2>4, StreamType DEF Seen, ReceiveInv, TypeOK
    <3>2. expected' = 0 /\ result' = "running"
      BY <1>1, <2>1, <2>4, <3>1 DEF Expect, ReceiveInv, NothingExpected
    <3>3. WholeRequest'
      <4>1. Announced => n < stream.headers + stream.length
        BY <1>1, <2>4, StreamType DEF Announced, Seen, ReceiveInv
      <4>2. stream.headers > 0 => n < stream.headers
        BY <1>1, <2>4, StreamType DEF Seen, ReceiveInv
      <4>. QED  BY <1>1, <3>2, <4>1, <4>2 DEF WholeRequest, Announced
    <3>. QED  BY <1>1, <2>2, <2>3, <3>2, <3>3 DEF ReceiveInv, NothingExpected
  <2>5. CASE Seen(stream.headers, n)
    <3>1. NothingExpected'
      BY <1>1, <2>5 DEF NothingExpected
    <3>2. Announced => Expect(n) = stream.headers + stream.length
      BY <1>1, <2>5, ExpectAnnounced DEF ReceiveInv
    <3>3. ASSUME stream.marker = 0, stream.headers > 0 PROVE Expect(n) = stream.headers
      <4>1. ~Seen(stream.headers, received)
        BY <1>1, <3>3, StreamType DEF ReceiveInv, WholeRequest, Seen, TypeOK
      <4>2. expected = 0
        BY <1>1, <4>1 DEF ReceiveInv, NothingExpected
      <4>. QED  BY <1>1, <2>5, <3>3, <4>2, ExpectHeaders DEF ReceiveInv
    <3>4. stream.headers > 0 /\ n >= stream.headers
      BY <2>5 DEF Seen
    <3>5. Expect(n) \in Nat
      BY <1>1, ExpectType, StreamType DEF ReceiveInv
    <3>6. WholeRequest'
      <4>1. Announced' <=> Announced
        BY <1>1 DEF Announced
      <4>2. Announced => /\ result' = "request" => n >= stream.headers + stream.length
                         /\ result' = "running" => n < stream.headers + stream.length
        BY <1>1, <2>1, <2>5, <3>2, <3>5
      <4>3. stream.marker = 0 =>
              /\ result' = "request" => n >= stream.headers
              /\ result' = "running" => n < stream.headers
        BY <1>1, <2>1, <2>5, <3>3, <3>4, <3>5
      <4>. QED  BY <1>1, <4>1, <4>2, <4>3 DEF WholeRequest
    <3>. QED  BY <2>2, <2>3, <3>1, <3>6 DEF ReceiveInv
  <2>. QED  BY <2>4, <2>5
<1>. QED  BY <1>2, <1>3

LEMMA ReceiveInductive == Spec => []ReceiveInv
<1>1. Init => ReceiveInv
  BY StreamAssumption, CapacityAssumption DEF Init, ReceiveInv, TypeOK, Result, RecvHasRoom,
     NothingExpected, WholeRequest, Announced
<1>2. ReceiveInv /\ [Next]_vars => ReceiveInv'
  <2>. SUFFICES ASSUME ReceiveInv, [Next]_vars PROVE ReceiveInv'
    OBVIOUS
  <2>1. CASE RecvFails
    BY <2>1 DEF RecvFails, ReceiveInv, TypeOK, Result, RecvHasRoom, NothingExpected,
       WholeRequest, Announced, Seen
  <2>2. ASSUME NEW k \in 1 .. stream.total, Send(k) PROVE ReceiveInv'
    BY <2>2, StreamType DEF Send, ReceiveInv, TypeOK, RecvHasRoom, NothingExpected,
       WholeRequest, Announced, Seen
  <2>3. CASE UNCHANGED vars
    BY <2>3 DEF vars, ReceiveInv, TypeOK, RecvHasRoom, NothingExpected, WholeRequest,
       Announced, Seen
  <2>. QED  BY <2>1, <2>2, <2>3, RecvStep DEF Next, Step
<1>. QED  BY <1>1, <1>2, PTL DEF Spec

(* receive_request never overruns its buffer. *)
THEOREM BufferIsEnough == Spec => []TypeOK
<1>1. ReceiveInv => TypeOK
  BY DEF ReceiveInv
<1>. QED  BY <1>1, ReceiveInductive, PTL

(* Whatever the chunks, recv() is never asked for 0 bytes.                 *)
THEOREM RecvAlwaysHasRoom == Spec => []RecvHasRoom
<1>1. ReceiveInv => RecvHasRoom
  BY DEF ReceiveInv
<1>. QED  BY <1>1, ReceiveInductive, PTL

(* Whatever the chunks, a request is handed on when it is complete, not    *)
(* before and not after, unless its length wraps around or is hidden.      *)
THEOREM RequestIsWhole == Spec => []WholeRequest
<1>1. ReceiveInv => WholeRequest
  BY DEF ReceiveInv
<1>. QED  BY <1>1, ReceiveInductive, PTL

-------------------------------------------------------------------------------
(* Numbers and texts *)

(* Every set of numbers that is not empty has a least element.             *)
LEMMA LeastNumber ==
    ASSUME NEW T \in SUBSET Nat, T # {} PROVE \E x \in T : \A y \in T : x <= y
<1>. DEFINE R == OpToRel(<, Nat)
<1>1. IsWellFoundedOn(R, Nat)
  BY NatLessThanWellFounded
<1>2. \A x, y \in Nat : y < x => <<y, x>> \in R
  BY DEF OpToRel
<1>. HIDE DEF R
<1>3. PICK x \in T : \A y \in T : <<y, x>> \notin R
  BY <1>1, WFMin
<1>4. \A y \in T : ~(y < x)
  BY <1>2, <1>3
<1>. QED  BY <1>3, <1>4

(* Induction, for a set of numbers: what holds for 0 and for the successor *)
(* of each number for which it holds, holds for all numbers.               *)
LEMMA NumbersInduction ==
    ASSUME NEW T, 0 \in T, \A n \in Nat : n \in T => n + 1 \in T
    PROVE  Nat \subseteq T
<1>. SUFFICES ASSUME Nat \ T # {} PROVE FALSE
  OBVIOUS
<1>1. PICK x \in Nat \ T : \A y \in Nat \ T : x <= y
  BY LeastNumber
<1>2. x - 1 \in Nat /\ x - 1 \in T
  BY <1>1
<1>. QED  BY <1>1, <1>2

LEMMA MinIsLeast ==
    ASSUME NEW T \in SUBSET Nat, T # {} PROVE Min(T) \in T /\ \A x \in T : Min(T) <= x
<1>1. \E x \in T : \A y \in T : x <= y
  BY LeastNumber
<1>. QED  BY <1>1 DEF Min

LEMMA MaxIsGreatest ==
    ASSUME NEW n \in Nat, NEW T \in SUBSET (0 .. n), T # {}
    PROVE  Max(T) \in T /\ \A x \in T : x <= Max(T)
<1>. DEFINE U == {n - x : x \in T}
<1>1. U \in SUBSET Nat /\ U # {}
  <2>1. \A x \in T : n - x \in Nat
    OBVIOUS
  <2>. QED  BY <2>1
<1>2. PICK u \in U : \A y \in U : u <= y
  BY <1>1, LeastNumber
<1>3. PICK x \in T : u = n - x
  BY <1>2
<1>4. \A y \in T : n - x <= n - y
  BY <1>2, <1>3
<1>5. \A y \in T : y <= x
  BY <1>4
<1>. QED  BY <1>3, <1>5 DEF Max

Texts == Seq(Char)

(* A function of places is a text. *)
LEMMA IsText ==
    ASSUME NEW n \in Nat, NEW f \in [1 .. n -> Char]
    PROVE  f \in Texts /\ Len(f) = n
BY DEF Texts

(* Texts are equal when they agree at every place. *)
LEMMA SameText ==
    ASSUME NEW S, NEW s \in Seq(S), NEW t \in Seq(S), Len(s) = Len(t),
           \A i \in 1 .. Len(s) : s[i] = t[i]
    PROVE  s = t
BY SeqEqual

(* A loop over n places has a value at each place: a function that is      *)
(* defined by recursion exists.                                            *)
Loop(f, n, A, a, F) ==
    f \in [0 .. n -> A] /\ f[0] = a /\ \A i \in 1 .. n : f[i] = F[i][f[i - 1]]

LEMMA LoopExists ==
    ASSUME NEW n \in Nat, NEW A, NEW a \in A, NEW F \in [1 .. n -> [A -> A]]
    PROVE  \E f : Loop(f, n, A, a, F)
<1>. DEFINE Good(m, f) == f[0] = a /\ \A i \in 1 .. m : f[i] = F[i][f[i - 1]]
            T == {m \in Nat : m <= n => \E f \in [0 .. m -> A] : Good(m, f)}
<1>1. 0 \in T
  <2>. DEFINE f == [i \in 0 .. 0 |-> a]
  <2>1. f \in [0 .. 0 -> A] /\ Good(0, f)
    OBVIOUS
  <2>. QED  BY <2>1
<1>2. ASSUME NEW m \in Nat, m \in T PROVE m + 1 \in T
  <2>. SUFFICES ASSUME m + 1 <= n PROVE \E g \in [0 .. m + 1 -> A] : Good(m + 1, g)
    OBVIOUS
  <2>1. PICK f \in [0 .. m -> A] : Good(m, f)
    BY <1>2
  <2>. DEFINE g == [i \in 0 .. m + 1 |-> IF i <= m THEN f[i] ELSE F[m + 1][f[m]]]
  <2>2. f[m] \in A /\ F[m + 1] \in [A -> A]
    OBVIOUS
  <2>3. F[m + 1][f[m]] \in A
    BY <2>2
  <2>4. g \in [0 .. m + 1 -> A]
    BY <2>3
  <2>5. \A i \in 0 .. m : g[i] = f[i]
    OBVIOUS
  <2>6. g[m + 1] = F[m + 1][f[m]]
    OBVIOUS
  <2>7. \A i \in 1 .. m + 1 : g[i] = F[i][g[i - 1]]
    <3>. HIDE DEF g
    <3>. SUFFICES ASSUME NEW i \in 1 .. m + 1 PROVE g[i] = F[i][g[i - 1]]
      OBVIOUS
    <3>1. CASE i = m + 1
      BY <2>5, <2>6, <3>1
    <3>2. CASE i # m + 1
      <4>1. i \in 1 .. m /\ i \in 0 .. m /\ i - 1 \in 0 .. m
        BY <3>2
      <4>. QED  BY <2>1, <2>5, <4>1
    <3>. QED  BY <3>1, <3>2
  <2>8. g[0] = a
    BY <2>1, <2>5
  <2>. QED  BY <2>4, <2>7, <2>8
<1>3. n \in T
  BY <1>1, <1>2, NumbersInduction
<1>. QED  BY <1>3 DEF Loop

-------------------------------------------------------------------------------
(* json_value *)

LEMMA OpensValue ==
    ASSUME NEW s \in Texts
    PROVE  \A i \in 0 .. Len(s) :
               i \in Opens(s) <=> i > 0 /\ i < Len(s) /\ s[i] = Backslash /\ i - 1 \notin Opens(s)
<1>. DEFINE n == Len(s)
            Bit == {0, 1}
            F == [i \in 1 .. n |-> [b \in Bit |->
                     IF i < n /\ s[i] = Backslash /\ b = 0 THEN 1 ELSE 0]]
<1>1. n \in Nat
  BY DEF Texts
<1>2. F \in [1 .. n -> [Bit -> Bit]] /\ 0 \in Bit
  OBVIOUS
<1>3. PICK f : Loop(f, n, Bit, 0, F)
  <2>. HIDE DEF F, n, Bit
  <2>. QED  BY <1>1, <1>2, LoopExists
<1>. USE DEF Loop
<1>. DEFINE g == [i \in 0 .. n |-> f[i] = 1]
<1>4. \A i \in 1 .. n : g[i] = (i < n /\ s[i] = Backslash /\ ~g[i - 1])
  <2>. SUFFICES ASSUME NEW i \in 1 .. n
       PROVE  g[i] = (i < n /\ s[i] = Backslash /\ ~g[i - 1])
    OBVIOUS
  <2>1. i \in 0 .. n /\ i - 1 \in 0 .. n
    BY <1>1
  <2>2. g[i] = (f[i] = 1) /\ g[i - 1] = (f[i - 1] = 1)
    BY <2>1, Zenon
  <2>3. f[i - 1] \in Bit /\ f[i] = F[i][f[i - 1]]
    BY <1>3, <2>1
  <2>4. f[i] = IF i < n /\ s[i] = Backslash /\ f[i - 1] = 0 THEN 1 ELSE 0
    BY <2>3
  <2>5. (f[i] = 1) = (i < n /\ s[i] = Backslash /\ ~(f[i - 1] = 1))
    BY <2>3, <2>4
  <2>. QED  BY <2>2, <2>5, Zenon
<1>. DEFINE G(o) == [i \in 0 .. n |-> i > 0 /\ i < n /\ s[i] = Backslash /\ ~o[i - 1]]
<1>5. g = G(g)
  <2>1. \A i \in 0 .. n : g[i] = (i > 0 /\ i < n /\ s[i] = Backslash /\ ~g[i - 1])
    BY <1>1, <1>3, <1>4
  <2>. HIDE DEF n
  <2>. QED  BY <2>1
<1>. DEFINE o == CHOOSE x : x = G(x)
<1>6. o = G(o)
  BY <1>5, Zenon
<1>7. Opens(s) = {i \in 1 .. n : o[i]}
  BY DEF Opens
<1>. HIDE DEF o
<1>8. \A i \in 0 .. n : o[i] = (i > 0 /\ i < n /\ s[i] = Backslash /\ ~o[i - 1])
  BY <1>6, Zenon
<1>9. \A i \in 0 .. n : i > 0 => i \in 1 .. n /\ i - 1 \in 0 .. n
  BY <1>1
<1>10. \A i \in 1 .. n : i > 0
  BY <1>1
<1>11. \A i \in 0 .. n : i \in Opens(s) <=> o[i]
  BY <1>7, <1>8, <1>9, Zenon
<1>. QED  BY <1>8, <1>9, <1>11, Zenon

(* The place before the first of some places, or the last place of all.    *)
LEMMA BeforeFirst ==
    ASSUME NEW m \in Nat, NEW E \in SUBSET (1 .. m)
    PROVE  /\ Min(E \cup {m + 1}) \in 1 .. m + 1 /\ Min(E \cup {m + 1}) - 1 \in 0 .. m
           /\ \A i \in 1 .. Min(E \cup {m + 1}) - 1 : i \in 1 .. m /\ i \notin E
           /\ Min(E \cup {m + 1}) - 1 < m => Min(E \cup {m + 1}) \in E
<1>. DEFINE T == E \cup {m + 1}
            k == Min(T)
<1>1. T \in SUBSET Nat /\ T # {} /\ \A x \in T : x \in 1 .. m + 1
  OBVIOUS
<1>2. k \in T /\ \A x \in T : k <= x
  <2>. HIDE DEF T
  <2>. QED  BY <1>1, MinIsLeast
<1>. HIDE DEF k
<1>3. k \in 1 .. m + 1 /\ (k = m + 1 \/ k \in E) /\ \A x \in E : k <= x
  BY <1>1, <1>2
<1>4. /\ k \in 1 .. m + 1 /\ k - 1 \in 0 .. m
      /\ \A i \in 1 .. k - 1 : i \in 1 .. m /\ i \notin E
      /\ k - 1 < m => k \in E
  BY <1>3
<1>. QED  BY <1>4 DEF k

LEMMA FieldNumbers == FieldCap \in Nat /\ FieldCap > 0 /\ EscapeCap \in Nat
<1>1. FieldCap \in Nat \ {0}
  BY FieldAssumption
<1>2. EscapeCap \in Nat
  BY FieldAssumption
<1>. QED  BY <1>1, <1>2

LEMMA FieldChars ==
    /\ Nul \in Char /\ Quote \in Char /\ Backslash \in Char
    /\ "\t" \in Char /\ "\r" \in Char /\ "\n" \in Char /\ " " \in Char
    /\ Nul # Quote /\ Nul # Backslash /\ Nul # "\t" /\ Nul # "\r" /\ Nul # "\n"
<1>1. /\ Nul \in Char /\ Quote \in Char /\ Backslash \in Char
      /\ "\t" \in Char /\ "\r" \in Char /\ "\n" \in Char /\ " " \in Char
  BY FieldAssumption
<1>2. Nul # Quote /\ Nul # Backslash /\ Nul # "\t" /\ Nul # "\r" /\ Nul # "\n"
  BY FieldAssumption
<1>. QED  BY <1>1, <1>2

(* What json_value has copied: it has stopped at the first place where it  *)
(* looks and finds a quote or a full field.                                *)
LEMMA ValueShape ==
    ASSUME NEW s \in Texts
    PROVE  \E n \in 0 .. Len(s) :
               /\ json_value(s) \in Texts /\ Len(json_value(s)) = n
               /\ \A i \in 1 .. n :
                      /\ json_value(s)[i] = IF i \in Opens(s) THEN Nul ELSE s[i]
                      /\ i - 1 \in Opens(s) \/ (s[i] # Quote /\ i < FieldCap)
               /\ n < Len(s) => n \notin Opens(s) /\ (s[n + 1] = Quote \/ n + 1 >= FieldCap)
<1>. DEFINE ends == {i \in 1 .. Len(s) : i - 1 \notin Opens(s) /\ (s[i] = Quote \/ i >= FieldCap)}
            n == Min(ends \cup {Len(s) + 1}) - 1
<1>1. Len(s) \in Nat /\ ends \in SUBSET (1 .. Len(s))
  BY DEF Texts
<1>2. /\ n \in 0 .. Len(s) /\ \A i \in 1 .. n : i \in 1 .. Len(s) /\ i \notin ends
      /\ n < Len(s) => n + 1 \in ends
  <2>1. /\ n \in 0 .. Len(s) /\ \A i \in 1 .. n : i \in 1 .. Len(s) /\ i \notin ends
        /\ n < Len(s) => Min(ends \cup {Len(s) + 1}) \in ends
        /\ Min(ends \cup {Len(s) + 1}) \in 1 .. Len(s) + 1
    <3>. HIDE DEF ends
    <3>. QED  BY <1>1, BeforeFirst
  <2>. HIDE DEF ends
  <2>2. n < Len(s) => Min(ends \cup {Len(s) + 1}) = n + 1
    BY <1>1, <2>1
  <2>. QED  BY <2>1, <2>2
<1>3. json_value(s) = [i \in 1 .. n |-> IF i \in Opens(s) THEN Nul ELSE s[i]]
  BY DEF json_value
<1>. HIDE DEF n
<1>4. \A i \in 1 .. n : (IF i \in Opens(s) THEN Nul ELSE s[i]) \in Char
  <2>1. Nul \in Char
    BY FieldChars
  <2>2. \A i \in 1 .. Len(s) : s[i] \in Char
    BY DEF Texts
  <2>3. \A i \in 1 .. n : i \in 1 .. Len(s)
    BY <1>2
  <2>. QED  BY <2>1, <2>2, <2>3
<1>5. json_value(s) \in Texts /\ Len(json_value(s)) = n
  <2>1. json_value(s) \in [1 .. n -> Char]
    BY <1>3, <1>4
  <2>. QED  BY <1>2, <2>1, IsText
<1>6. \A i \in 1 .. n : i - 1 \in Opens(s) \/ (s[i] # Quote /\ i < FieldCap)
  <2>. SUFFICES ASSUME NEW i \in 1 .. n, i - 1 \notin Opens(s)
       PROVE  s[i] # Quote /\ i < FieldCap
    OBVIOUS
  <2>1. i \in 1 .. Len(s) /\ i \notin ends
    BY <1>2
  <2>2. s[i] # Quote /\ ~(i >= FieldCap)
    BY <2>1
  <2>3. i \in Nat /\ FieldCap \in Nat
    BY <1>2, FieldNumbers
  <2>. QED  BY <2>2, <2>3
<1>7. n < Len(s) => n \notin Opens(s) /\ (s[n + 1] = Quote \/ n + 1 >= FieldCap)
  <2>1. n + 1 - 1 = n
    BY <1>2
  <2>. QED  BY <1>2, <2>1
<1>. QED  BY <1>2, <1>3, <1>5, <1>6, <1>7

(* A string of C ends at its first NUL.                                    *)
LEMMA CStringShape ==
    ASSUME NEW s \in Texts
    PROVE  \E n \in 0 .. Len(s) :
               /\ CString(s) \in Texts /\ Len(CString(s)) = n
               /\ \A i \in 1 .. n : CString(s)[i] = s[i] /\ s[i] # Nul
               /\ n < Len(s) => s[n + 1] = Nul
<1>. DEFINE nuls == {i \in 1 .. Len(s) : s[i] = Nul}
            n == Min(nuls \cup {Len(s) + 1}) - 1
<1>1. Len(s) \in Nat /\ nuls \in SUBSET (1 .. Len(s))
  BY DEF Texts
<1>2. /\ n \in 0 .. Len(s) /\ \A i \in 1 .. n : i \in 1 .. Len(s) /\ i \notin nuls
      /\ n < Len(s) => n + 1 \in nuls
  <2>1. /\ n \in 0 .. Len(s) /\ \A i \in 1 .. n : i \in 1 .. Len(s) /\ i \notin nuls
        /\ n < Len(s) => Min(nuls \cup {Len(s) + 1}) \in nuls
        /\ Min(nuls \cup {Len(s) + 1}) \in 1 .. Len(s) + 1
    <3>. HIDE DEF nuls
    <3>. QED  BY <1>1, BeforeFirst
  <2>. HIDE DEF nuls
  <2>2. n < Len(s) => Min(nuls \cup {Len(s) + 1}) = n + 1
    BY <1>1, <2>1
  <2>. QED  BY <2>1, <2>2
<1>3. CString(s) = SubSeq(s, 1, n)
  BY DEF CString
<1>. HIDE DEF n
<1>4. \A i \in 1 .. n : s[i] \in Char
  BY <1>2 DEF Texts
<1>5. CString(s) \in Texts /\ Len(CString(s)) = n /\ \A i \in 1 .. n : CString(s)[i] = s[i]
  <2>1. 1 \in Int /\ n \in Int /\ n - 1 + 1 = n
    BY <1>2
  <2>. QED  BY <1>2, <1>3, <1>4, <2>1, SubSeqProperties DEF Texts
<1>. QED  BY <1>2, <1>5

(* FieldHasRoom, without the answer: raw has room for what is copied.      *)
LEMMA ValueFits ==
    ASSUME NEW s \in Texts
    PROVE  LET v == json_value(s) IN
           /\ v \in Texts
           /\ Len(v) < FieldCap \/ (Len(v) = FieldCap /\ FieldCap > 1 /\ v[FieldCap - 1] = Nul)
<1>1. PICK n \in 0 .. Len(s) :
          /\ json_value(s) \in Texts /\ Len(json_value(s)) = n
          /\ \A i \in 1 .. n :
                 /\ json_value(s)[i] = IF i \in Opens(s) THEN Nul ELSE s[i]
                 /\ i - 1 \in Opens(s) \/ (s[i] # Quote /\ i < FieldCap)
  BY ValueShape
<1>2. Len(s) \in Nat
  BY DEF Texts
<1>3. \A i \in 1 .. n : i >= FieldCap => i - 1 \in Opens(s) /\ i \notin Opens(s)
  <2>. SUFFICES ASSUME NEW i \in 1 .. n, i >= FieldCap
       PROVE  i - 1 \in Opens(s) /\ i \notin Opens(s)
    OBVIOUS
  <2>1. i - 1 \in Opens(s)
    <3>1. i \in Nat /\ ~(i < FieldCap)
      BY <1>2, FieldNumbers
    <3>. QED  BY <1>1, <3>1
  <2>2. i \in 0 .. Len(s)
    BY <1>2
  <2>. QED  BY <2>1, <2>2, OpensValue
<1>4. n <= FieldCap
  <2>. SUFFICES ASSUME n > FieldCap PROVE FALSE
    BY <1>2, FieldNumbers
  <2>1. n \in 1 .. n /\ n >= FieldCap /\ n - 1 \in 1 .. n /\ n - 1 >= FieldCap
    BY <1>2, FieldNumbers
  <2>. QED  BY <1>3, <2>1
<1>5. CASE n < FieldCap
  BY <1>1, <1>5
<1>6. CASE n = FieldCap
  <2>1. FieldCap - 1 \in Opens(s)
    BY <1>3, <1>6, FieldNumbers
  <2>2. FieldCap - 1 \in 0 .. Len(s)
    BY <1>2, <1>6, FieldNumbers
  <2>3. FieldCap - 1 > 0
    BY <2>1, <2>2, OpensValue
  <2>4. FieldCap - 1 \in 1 .. n
    BY <1>2, <1>6, <2>3, FieldNumbers
  <2>. QED  BY <1>1, <1>6, <2>1, <2>3, <2>4, FieldNumbers
<1>. QED  BY <1>2, <1>4, <1>5, <1>6, FieldNumbers

(* What handle_request has of a body, and that it fits last_event.         *)
LEMMA RawFits == ASSUME NEW s \in Texts PROVE Raw(s) \in Texts /\ Len(Raw(s)) < FieldCap
<1>. DEFINE v == json_value(s)
<1>1. v \in Texts /\ (Len(v) < FieldCap \/ (Len(v) = FieldCap /\ FieldCap > 1 /\ v[FieldCap - 1] = Nul))
  BY ValueFits
<1>. HIDE DEF v
<1>2. PICK n \in 0 .. Len(v) :
          /\ CString(v) \in Texts /\ Len(CString(v)) = n
          /\ \A i \in 1 .. n : v[i] # Nul
  BY <1>1, CStringShape
<1>3. Len(v) \in Nat
  BY <1>1 DEF Texts
<1>4. n < FieldCap
  <2>1. CASE Len(v) < FieldCap
    BY <1>3, <2>1, FieldNumbers
  <2>2. CASE Len(v) = FieldCap /\ v[FieldCap - 1] = Nul
    <3>1. FieldCap - 1 \notin 1 .. n
      BY <1>2, <2>2
    <3>2. FieldCap > 1
      BY <1>1, <1>3, <2>2, FieldNumbers
    <3>. QED  BY <1>3, <2>2, <3>1, <3>2, FieldNumbers
  <2>. QED  BY <1>1, <2>1, <2>2
<1>. QED  BY <1>2, <1>4 DEF Raw, v

-------------------------------------------------------------------------------
(* json_escape and FlattenSeq *)

(* What makes the same steps from the same start is the same.              *)
Steps(g, n, A, a, F) == g[0] = a /\ \A i \in 1 .. n : g[i - 1] \in A => g[i] = F[i][g[i - 1]]

LEMMA LoopUnique ==
    ASSUME NEW n \in Nat, NEW A, NEW a \in A, NEW F, NEW f, Loop(f, n, A, a, F),
           NEW g, Steps(g, n, A, a, F)
    PROVE  \A i \in 0 .. n : g[i] = f[i]
<1>. DEFINE T == {i \in Nat : i <= n => g[i] = f[i]}
<1>1. 0 \in T
  BY DEF Loop, Steps
<1>2. ASSUME NEW i \in Nat, i \in T PROVE i + 1 \in T
  <2>. SUFFICES ASSUME i + 1 <= n PROVE g[i + 1] = f[i + 1]
    OBVIOUS
  <2>1. i \in 0 .. n /\ i + 1 \in 1 .. n /\ i + 1 - 1 = i /\ g[i] = f[i]
    BY <1>2
  <2>2. f[i] \in A /\ f[i + 1] = F[i + 1][f[i]]
    BY <2>1 DEF Loop
  <2>3. g[i + 1] = F[i + 1][g[i]]
    BY <2>1, <2>2 DEF Steps
  <2>. QED  BY <2>1, <2>2, <2>3
<1>. HIDE DEF T
<1>3. \A i \in 0 .. n : i \in T
  BY <1>1, <1>2, NumbersInduction
<1>. QED  BY <1>3 DEF T

LEMMA FlattenLoop ==
    ASSUME NEW ss \in Seq(Texts)
    PROVE  \E f \in [0 .. Len(ss) -> Texts] :
               /\ f[0] = <<>> /\ \A i \in 1 .. Len(ss) : f[i] = f[i - 1] \o ss[i]
               /\ FlattenSeq(ss) = f[Len(ss)]
<1>. DEFINE n == Len(ss)
            F == [i \in 1 .. n |-> [u \in Texts |-> u \o ss[i]]]
<1>1. n \in Nat /\ <<>> \in Texts /\ \A i \in 1 .. n : ss[i] \in Texts
  BY DEF Texts
<1>2. F \in [1 .. n -> [Texts -> Texts]]
  <2>1. \A u, v \in Texts : u \o v \in Texts
    BY DEF Texts
  <2>. QED  BY <1>1, <2>1
<1>3. PICK f : Loop(f, n, Texts, <<>>, F)
  <2>. HIDE DEF F, n
  <2>. QED  BY <1>1, <1>2, LoopExists
<1>4. f \in [0 .. n -> Texts] /\ f[0] = <<>> /\ \A i \in 1 .. n : f[i] = F[i][f[i - 1]]
  BY <1>3 DEF Loop
<1>5. \A i \in 1 .. n : i - 1 \in 0 .. n /\ f[i - 1] \in Texts
  BY <1>1, <1>4
<1>6. \A i \in 1 .. n : f[i] = f[i - 1] \o ss[i]
  BY <1>4, <1>5
<1>. DEFINE G(g) == [i \in 1 .. n |-> IF i = 1 THEN ss[i] ELSE g[i - 1] \o ss[i]]
            h == [i \in 1 .. n |-> f[i]]
            o == CHOOSE g : g = G(g)
<1>7. h = G(h)
  <2>1. \A i \in 1 .. n : h[i] = IF i = 1 THEN ss[i] ELSE h[i - 1] \o ss[i]
    <3>. SUFFICES ASSUME NEW i \in 1 .. n
         PROVE  f[i] = IF i = 1 THEN ss[i] ELSE h[i - 1] \o ss[i]
      OBVIOUS
    <3>1. CASE i = 1
      <4>1. f[i - 1] = <<>>
        BY <1>4, <3>1
      <4>2. <<>> \o ss[i] = ss[i]
        BY <1>1, ConcatEmptySeq DEF Texts
      <4>. QED  BY <1>6, <3>1, <4>1, <4>2
    <3>2. CASE i # 1
      <4>1. i - 1 \in 1 .. n
        BY <1>1, <3>2
      <4>2. h[i - 1] = f[i - 1]
        BY <4>1
      <4>. QED  BY <1>6, <3>2, <4>2
    <3>. QED  BY <3>1, <3>2
  <2>. HIDE DEF h, n
  <2>2. DOMAIN h = 1 .. n /\ h = [i \in 1 .. n |-> h[i]]
    BY DEF h
  <2>. QED  BY <2>1, <2>2, Zenon
<1>8. o = G(o)
  BY <1>7, Zenon
<1>9. FlattenSeq(ss) = IF n = 0 THEN ss ELSE o[n]
  BY DEF FlattenSeq
<1>. HIDE DEF o, h
<1>. DEFINE p == [i \in 0 .. n |-> IF i = 0 THEN <<>> ELSE o[i]]
<1>10. \A i \in 0 .. n : p[i] = f[i]
  <2>1. p[0] = <<>>
    BY <1>1
  <2>2. ASSUME NEW i \in 1 .. n, p[i - 1] \in Texts PROVE p[i] = F[i][p[i - 1]]
    <3>1. F[i][p[i - 1]] = p[i - 1] \o ss[i]
      <4>. HIDE DEF p
      <4>. QED  BY <2>2
    <3>2. p[i] = o[i] /\ o[i] = IF i = 1 THEN ss[i] ELSE o[i - 1] \o ss[i]
      <4>1. p[i] = o[i]
        BY <1>1
      <4>. HIDE DEF p, n
      <4>. QED  BY <1>8, <4>1
    <3>3. CASE i = 1
      <4>1. p[i - 1] = <<>>
        BY <1>1, <3>3
      <4>2. <<>> \o ss[i] = ss[i]
        BY <1>1, ConcatEmptySeq DEF Texts
      <4>. QED  BY <3>1, <3>2, <3>3, <4>1, <4>2
    <3>4. CASE i # 1
      <4>1. p[i - 1] = o[i - 1]
        BY <1>1, <3>4
      <4>. QED  BY <3>1, <3>2, <3>4, <4>1
    <3>. QED  BY <3>3, <3>4
  <2>3. Steps(p, n, Texts, <<>>, F)
    <3>. HIDE DEF p, F, n
    <3>. QED  BY <2>1, <2>2 DEF Steps
  <2>. HIDE DEF p, F, n
  <2>. QED  BY <1>1, <1>3, <2>3, LoopUnique
<1>11. FlattenSeq(ss) = f[n]
  <2>1. CASE n = 0
    <3>1. ss = <<>>
      BY <2>1
    <3>. QED  BY <1>4, <1>9, <2>1, <3>1
  <2>2. CASE n # 0
    <3>1. p[n] = o[n] /\ n \in 0 .. n
      BY <1>1, <2>2
    <3>. HIDE DEF p
    <3>. QED  BY <1>9, <1>10, <2>2, <3>1
  <2>. QED  BY <2>1, <2>2
<1>. QED  BY <1>4, <1>6, <1>11

LEMMA ShortTexts ==
    ASSUME NEW ch \in Char, NEW ch2 \in Char
    PROVE  /\ <<ch>> \in Texts /\ Len(<<ch>>) = 1
           /\ <<ch, ch2>> \in Texts /\ Len(<<ch, ch2>>) = 2
BY DEF Texts

LEMMA EscapeCharText ==
    ASSUME NEW ch \in Char
    PROVE  EscapeChar(ch) \in Texts /\ Len(EscapeChar(ch)) \in 1 .. 2
<1>1. Quote \in Char /\ Backslash \in Char /\ " " \in Char
  BY FieldChars
<1>2. CASE ch \in {Quote, Backslash}
  <2>1. EscapeChar(ch) = <<Backslash, ch>>
    BY <1>2 DEF EscapeChar
  <2>2. <<Backslash, ch>> \in Texts /\ Len(<<Backslash, ch>>) = 2
    BY <1>1, ShortTexts, Zenon
  <2>. QED  BY <2>1, <2>2
<1>3. CASE ch \notin {Quote, Backslash} /\ ch \in {"\n", "\r"}
  <2>1. EscapeChar(ch) = <<" ">>
    BY <1>3 DEF EscapeChar
  <2>2. <<" ">> \in Texts /\ Len(<<" ">>) = 1
    BY <1>1, ShortTexts, Zenon
  <2>3. 1 \in 1 .. 2
    OBVIOUS
  <2>. QED  BY <2>1, <2>2, <2>3, Zenon
<1>4. CASE ch \notin {Quote, Backslash} /\ ch \notin {"\n", "\r"}
  <2>1. EscapeChar(ch) = <<ch>>
    BY <1>4 DEF EscapeChar
  <2>2. <<ch>> \in Texts /\ Len(<<ch>>) = 1
    BY ShortTexts, Zenon
  <2>. QED  BY <2>1, <2>2
<1>. QED  BY <1>2, <1>3, <1>4

LEMMA EscapeLoop ==
    ASSUME NEW s \in Texts
    PROVE  \E f \in [0 .. Len(s) -> Texts] :
               /\ f[0] = <<>> /\ \A i \in 1 .. Len(s) : f[i] = EscapeStep(f[i - 1], s[i])
               /\ json_escape(s) = f[Len(s)]
<1>. DEFINE n == Len(s)
            F == [i \in 1 .. n |-> [u \in Texts |-> EscapeStep(u, s[i])]]
<1>1. n \in Nat /\ <<>> \in Texts /\ \A i \in 1 .. n : s[i] \in Char
  BY DEF Texts
<1>2. F \in [1 .. n -> [Texts -> Texts]]
  <2>1. \A u \in Texts, i \in 1 .. n : EscapeStep(u, s[i]) \in Texts
    BY <1>1, EscapeCharText, ConcatProperties DEF EscapeStep, Texts
  <2>. QED  BY <2>1
<1>3. PICK f : Loop(f, n, Texts, <<>>, F)
  <2>. HIDE DEF F, n
  <2>. QED  BY <1>1, <1>2, LoopExists
<1>4. f \in [0 .. n -> Texts] /\ f[0] = <<>> /\ \A i \in 1 .. n : f[i] = F[i][f[i - 1]]
  BY <1>3 DEF Loop
<1>5. \A i \in 1 .. n : i - 1 \in 0 .. n /\ f[i - 1] \in Texts
  BY <1>1, <1>4
<1>6. \A i \in 1 .. n : f[i] = EscapeStep(f[i - 1], s[i])
  BY <1>4, <1>5
<1>. DEFINE G(g) == [i \in 0 .. n |-> IF i = 0 THEN <<>> ELSE EscapeStep(g[i - 1], s[i])]
            o == CHOOSE g : g = G(g)
<1>7. f = G(f)
  <2>1. \A i \in 0 .. n : f[i] = IF i = 0 THEN <<>> ELSE EscapeStep(f[i - 1], s[i])
    <3>1. \A i \in 0 .. n : i # 0 => i \in 1 .. n
      BY <1>1
    <3>. HIDE DEF F
    <3>. QED  BY <1>4, <1>6, <3>1
  <2>2. f = [i \in 0 .. n |-> f[i]]
    BY <1>4
  <2>. HIDE DEF n
  <2>. QED  BY <2>1, <2>2, Zenon
<1>8. o = G(o)
  BY <1>7, Zenon
<1>9. json_escape(s) = o[n]
  BY DEF json_escape
<1>. HIDE DEF o
<1>10. \A i \in 0 .. n : o[i] = f[i]
  <2>1. o[0] = <<>>
    BY <1>1, <1>8
  <2>2. ASSUME NEW i \in 1 .. n, o[i - 1] \in Texts PROVE o[i] = F[i][o[i - 1]]
    <3>1. o[i] = EscapeStep(o[i - 1], s[i])
      BY <1>1, <1>8
    <3>. QED  BY <2>2, <3>1
  <2>3. Steps(o, n, Texts, <<>>, F)
    <3>. HIDE DEF F, n
    <3>. QED  BY <2>1, <2>2 DEF Steps
  <2>. HIDE DEF F, n
  <2>. QED  BY <1>1, <1>3, <2>3, LoopUnique
<1>11. json_escape(s) = f[n]
  <2>. HIDE DEF n
  <2>. QED  BY <1>1, <1>9, <1>10
<1>. QED  BY <1>4, <1>6, <1>11

(* When escaped has twice the size of the text, no character is dropped.   *)
LEMMA EscapeIsWhole ==
    ASSUME NEW s \in Texts, Len(s) < FieldCap
    PROVE  json_escape(s) = FlattenSeq([i \in 1 .. Len(s) |-> EscapeChar(s[i])])
<1>. DEFINE n == Len(s)
            ss == [i \in 1 .. n |-> EscapeChar(s[i])]
<1>1. n \in Nat /\ \A i \in 1 .. n : EscapeChar(s[i]) \in Texts /\ Len(EscapeChar(s[i])) \in 1 .. 2
  BY EscapeCharText DEF Texts
<1>2. ss \in Seq(Texts) /\ Len(ss) = n
  BY <1>1
<1>. HIDE DEF ss
<1>3. PICK f \in [0 .. n -> Texts] :
          /\ f[0] = <<>> /\ \A i \in 1 .. n : f[i] = f[i - 1] \o ss[i]
          /\ FlattenSeq(ss) = f[n]
  BY <1>2, FlattenLoop
<1>4. PICK h \in [0 .. n -> Texts] :
          /\ h[0] = <<>> /\ \A i \in 1 .. n : h[i] = EscapeStep(h[i - 1], s[i])
          /\ json_escape(s) = h[n]
  BY EscapeLoop
<1>. DEFINE T == {i \in Nat : i <= n => h[i] = f[i] /\ Len(f[i]) <= 2 * i}
<1>5. 0 \in T
  BY <1>3, <1>4
<1>6. ASSUME NEW i \in Nat, i \in T PROVE i + 1 \in T
  <2>. SUFFICES ASSUME i + 1 <= n PROVE h[i + 1] = f[i + 1] /\ Len(f[i + 1]) <= 2 * (i + 1)
    OBVIOUS
  <2>1. i \in 0 .. n /\ i + 1 \in 1 .. n /\ i + 1 - 1 = i
    BY <1>1
  <2>2. h[i] = f[i] /\ Len(f[i]) <= 2 * i /\ f[i] \in Texts /\ Len(f[i]) \in Nat
    BY <1>3, <1>6, <2>1 DEF Texts
  <2>3. Len(f[i]) + 2 < EscapeCap
    <3>1. EscapeCap >= 2 * FieldCap
      BY FieldAssumption
    <3>. QED  BY <1>1, <2>1, <2>2, <3>1, FieldNumbers
  <2>4. h[i + 1] = f[i] \o EscapeChar(s[i + 1])
    <3>1. h[i + 1] = EscapeStep(h[i], s[i + 1])
      BY <1>4, <2>1
    <3>. QED  BY <2>2, <2>3, <3>1 DEF EscapeStep
  <2>5. f[i + 1] = f[i] \o EscapeChar(s[i + 1])
    <3>1. PICK j \in 1 .. n : j = i + 1 /\ j - 1 = i
      BY <2>1
    <3>2. f[j] = f[j - 1] \o ss[j]
      BY <1>3, <3>1
    <3>3. ss[i + 1] = EscapeChar(s[i + 1])
      BY <2>1 DEF ss
    <3>. QED  BY <3>1, <3>2, <3>3
  <2>6. Len(f[i + 1]) = Len(f[i]) + Len(EscapeChar(s[i + 1]))
    BY <1>1, <2>1, <2>2, <2>5, ConcatProperties DEF Texts
  <2>7. Len(EscapeChar(s[i + 1])) \in 1 .. 2
    BY <1>1, <2>1
  <2>8. Len(f[i + 1]) <= 2 * (i + 1)
    <3>1. \A a \in Nat, b \in 1 .. 2 : a <= 2 * i => a + b <= 2 * (i + 1)
      OBVIOUS
    <3>. QED  BY <2>2, <2>6, <2>7, <3>1
  <2>. QED  BY <2>2, <2>4, <2>5, <2>8
<1>. HIDE DEF T
<1>7. n \in T
  BY <1>1, <1>5, <1>6, NumbersInduction
<1>8. h[n] = f[n]
  BY <1>1, <1>7 DEF T
<1>. QED  BY <1>3, <1>4, <1>8 DEF ss

-------------------------------------------------------------------------------
(* The body of a request, and FieldHasRoom *)

LEMMA EncodeCharText ==
    ASSUME NEW ch \in Char
    PROVE  /\ EncodeChar(ch) \in Texts /\ Len(EncodeChar(ch)) > 0
           /\ EncodeChar(ch)[1] = IF ch = Quote THEN Backslash ELSE ch
           /\ ch \notin {Quote, Backslash} => Len(EncodeChar(ch)) = 1
<1>1. Backslash \in Char
  BY FieldChars
<1>2. CASE ch \in {Quote, Backslash}
  <2>1. EncodeChar(ch) = <<Backslash, ch>>
    BY <1>2 DEF EncodeChar
  <2>2. <<Backslash, ch>> \in Texts /\ Len(<<Backslash, ch>>) = 2
    BY <1>1, ShortTexts, Zenon
  <2>. QED  BY <1>2, <2>1, <2>2
<1>3. CASE ch \notin {Quote, Backslash}
  <2>1. EncodeChar(ch) = <<ch>>
    BY <1>3 DEF EncodeChar
  <2>2. <<ch>> \in Texts /\ Len(<<ch>>) = 1
    BY ShortTexts, Zenon
  <2>. QED  BY <1>3, <2>1, <2>2
<1>. QED  BY <1>2, <1>3

LEMMA EncodeLoop ==
    ASSUME NEW t \in Texts
    PROVE  \E f \in [0 .. Len(t) -> Texts] :
               /\ f[0] = <<>> /\ \A i \in 1 .. Len(t) : f[i] = f[i - 1] \o EncodeChar(t[i])
               /\ Encode(t) = f[Len(t)]
<1>. DEFINE n == Len(t)
            ss == [i \in 1 .. n |-> EncodeChar(t[i])]
<1>1. n \in Nat /\ \A i \in 1 .. n : EncodeChar(t[i]) \in Texts
  BY EncodeCharText DEF Texts
<1>2. ss \in Seq(Texts) /\ Len(ss) = n /\ \A i \in 1 .. n : ss[i] = EncodeChar(t[i])
  BY <1>1
<1>3. Encode(t) = FlattenSeq(ss)
  BY DEF Encode
<1>. HIDE DEF ss
<1>4. PICK f \in [0 .. n -> Texts] :
          /\ f[0] = <<>> /\ \A i \in 1 .. n : f[i] = f[i - 1] \o ss[i]
          /\ FlattenSeq(ss) = f[n]
  BY <1>2, FlattenLoop
<1>. QED  BY <1>2, <1>3, <1>4

LEMMA BodyText ==
    ASSUME NEW t \in Texts
    PROVE  /\ Encode(t) \in Texts /\ Body(t) \in Texts /\ Len(Body(t)) = Len(Encode(t)) + 1
           /\ \A i \in 1 .. Len(Encode(t)) : Body(t)[i] = Encode(t)[i]
           /\ Body(t)[Len(Body(t))] = Quote
<1>1. Encode(t) \in Texts
  <2>1. Len(t) \in 0 .. Len(t)
    BY DEF Texts
  <2>2. PICK f \in [0 .. Len(t) -> Texts] : Encode(t) = f[Len(t)]
    BY EncodeLoop
  <2>. QED  BY <2>1, <2>2
<1>2. <<Quote>> \in Texts /\ Len(<<Quote>>) = 1 /\ <<Quote>>[1] = Quote
  BY FieldChars, ShortTexts
<1>. DEFINE e == Encode(t)
            q == <<Quote>>
<1>3. /\ e \o q \in Texts /\ Len(e \o q) = Len(e) + Len(q)
      /\ \A i \in 1 .. Len(e) + Len(q) : (e \o q)[i] = IF i <= Len(e) THEN e[i] ELSE q[i - Len(e)]
  <2>. HIDE DEF e, q
  <2>1. e \in Seq(Char) /\ q \in Seq(Char)
    BY <1>1, <1>2 DEF Texts, e, q
  <2>. QED  BY <2>1, ConcatProperties DEF Texts
<1>4. Body(t) = e \o q /\ Len(e) \in Nat
  BY <1>1 DEF Body, Texts
<1>. HIDE DEF e, q
<1>5. Len(q) = 1 /\ q[1] = Quote
  BY <1>2 DEF q
<1>6. Len(Body(t)) = Len(e) + 1 /\ \A i \in 1 .. Len(e) : Body(t)[i] = e[i]
  BY <1>3, <1>4, <1>5
<1>7. Body(t)[Len(e) + 1] = Quote
  <2>1. Len(e) + 1 \in 1 .. Len(e) + Len(q) /\ ~(Len(e) + 1 <= Len(e)) /\ Len(e) + 1 - Len(e) = 1
    BY <1>4, <1>5
  <2>2. (e \o q)[Len(e) + 1] = q[Len(e) + 1 - Len(e)]
    BY <1>3, <2>1
  <2>. QED  BY <1>4, <1>5, <2>1, <2>2
<1>. QED  BY <1>1, <1>3, <1>4, <1>6, <1>7 DEF e

(* A beginning of a text. *)
LEMMA PrefixText ==
    ASSUME NEW s \in Texts, NEW k \in 0 .. Len(s)
    PROVE  /\ SubSeq(s, 1, k) \in Texts /\ Len(SubSeq(s, 1, k)) = k
           /\ \A i \in 1 .. k : SubSeq(s, 1, k)[i] = s[i]
<1>1. Len(s) \in Nat /\ k \in Int /\ 1 \in Int /\ k - 1 + 1 = k /\ \A i \in 1 .. k : s[i] \in Char
  BY DEF Texts
<1>. QED  BY <1>1, SubSeqProperties DEF Texts

LEMMA SentText == ASSUME NEW t \in Sent PROVE t \in Texts /\ \A i \in 1 .. Len(t) : t[i] # Nul
<1>1. t \in Seq(Char \ {Nul})
  BY TextAssumption
<1>2. Len(t) \in Nat /\ t \in [1 .. Len(t) -> Char \ {Nul}]
  BY <1>1, LenProperties
<1>. QED  BY <1>2, IsText

(* body is a beginning of what a client has sent, unless it is the first.  *)
BodyInv == body \in Texts /\ (body # <<>> => sent \in Sent)

LEMMA BodyStep == BodyInv /\ [FileNext]_fileVars => BodyInv'
<1>. SUFFICES ASSUME BodyInv, [FileNext]_fileVars PROVE BodyInv'
  OBVIOUS
<1>1. CASE UNCHANGED <<body, sent>>
  BY <1>1 DEF BodyInv
<1>2. ASSUME NEW t \in Sent, NEW k \in 1 .. Len(Body(t)), Submitted(t, SubSeq(Body(t), 1, k))
      PROVE  BodyInv'
  <2>1. t \in Texts /\ Body(t) \in Texts
    BY SentText, BodyText
  <2>2. k \in 0 .. Len(Body(t))
    BY <2>1 DEF Texts
  <2>. QED  BY <1>2, <2>1, <2>2, PrefixText DEF Submitted, BodyInv
<1>3. ASSUME NEW t \in Sent, Submitted(t, Body(t)) PROVE BodyInv'
  <2>1. t \in Texts /\ Body(t) \in Texts
    BY SentText, BodyText
  <2>. QED  BY <1>3, <2>1 DEF Submitted, BodyInv
<1>. QED  BY <1>1, <1>2, <1>3 DEF FileNext, Write, WriteTorn, Lose, fileVars, history

LEMMA BodyInit == FileInit => BodyInv
BY EmptySeq DEF FileInit, BodyInv, Texts

(* FieldHasRoom: whatever a client sends and wherever it is cut, raw,      *)
(* last_event and escaped have room for what handle_request copies into    *)
(* them, but for the NUL behind an escape at the last place of raw.        *)
THEOREM FieldsHaveRoom == FileSpec => []FieldHasRoom
<1>1. BodyInv => FieldHasRoom
  <2>. SUFFICES ASSUME body \in Texts PROVE FieldHasRoom
    BY DEF BodyInv
  <2>1. Len(json_value(body)) < FieldCap
           \/ (Len(json_value(body)) = FieldCap /\ json_value(body)[FieldCap - 1] = Nul)
    BY ValueFits
  <2>2. Raw(body) \in Texts /\ Len(Raw(body)) < FieldCap
    BY RawFits
  <2>. QED  BY <2>1, <2>2, EscapeIsWhole DEF FieldHasRoom
<1>. QED  BY <1>1, BodyInit, BodyStep, PTL DEF FileSpec

-------------------------------------------------------------------------------
(* The characters of a file and its lines *)

LEMMA ConcatText ==
    ASSUME NEW u \in Texts, NEW v \in Texts
    PROVE  /\ u \o v \in Texts /\ Len(u \o v) = Len(u) + Len(v)
           /\ \A i \in 1 .. Len(u) : (u \o v)[i] = u[i]
           /\ \A i \in 1 .. Len(v) : (u \o v)[Len(u) + i] = v[i]
<1>1. Len(u) \in Nat /\ Len(v) \in Nat
  BY DEF Texts
<1>2. /\ u \o v \in Texts /\ Len(u \o v) = Len(u) + Len(v)
      /\ \A i \in 1 .. Len(u) + Len(v) : (u \o v)[i] = IF i <= Len(u) THEN u[i] ELSE v[i - Len(u)]
  BY ConcatProperties DEF Texts
<1>3. \A i \in 1 .. Len(u) : (u \o v)[i] = u[i]
  BY <1>1, <1>2
<1>4. ASSUME NEW i \in 1 .. Len(v) PROVE (u \o v)[Len(u) + i] = v[i]
  <2>1. Len(u) + i \in 1 .. Len(u) + Len(v) /\ ~(Len(u) + i <= Len(u)) /\ Len(u) + i - Len(u) = i
    BY <1>1
  <2>. QED  BY <1>2, <2>1
<1>. QED  BY <1>2, <1>3, <1>4

LEMMA TimeText ==
    /\ Time \in Texts /\ Len(Time) \in Nat \ {0}
    /\ \A i \in 1 .. Len(Time) : Time[i] \notin {"\t", "\r", "\n"}
<1>1. Time \in Seq(Char \ {"\t", "\r", "\n"}) /\ Len(Time) > 0
  BY TextAssumption
<1>2. Len(Time) \in Nat /\ Time \in [1 .. Len(Time) -> Char \ {"\t", "\r", "\n"}]
  BY <1>1, LenProperties
<1>3. Time \in [1 .. Len(Time) -> Char]
  BY <1>2
<1>. QED  BY <1>1, <1>2, <1>3, IsText

(* What append_journal writes: the time, a TAB, the text and a newline.    *)
LEMMA RecordText ==
    ASSUME NEW x \in Texts
    PROVE  /\ Record(x) \in Texts /\ Len(Record(x)) = Len(Time) + 1 + Len(x) + 1
           /\ \A i \in 1 .. Len(Time) : Record(x)[i] = Time[i]
           /\ Record(x)[Len(Time) + 1] = "\t"
           /\ \A i \in 1 .. Len(x) : Record(x)[Len(Time) + 1 + i] = x[i]
           /\ Record(x)[Len(Time) + 1 + Len(x) + 1] = "\n"
<1>. DEFINE t == Time \o <<"\t">>
            r == t \o x
            n == <<"\n">>
<1>1. <<"\t">> \in Texts /\ Len(<<"\t">>) = 1 /\ <<"\t">>[1] = "\t"
  BY FieldChars, ShortTexts, Zenon
<1>2. n \in Texts /\ Len(n) = 1 /\ n[1] = "\n"
  BY FieldChars, ShortTexts, Zenon
<1>3. /\ t \in Texts /\ Len(t) = Len(Time) + 1
      /\ \A i \in 1 .. Len(Time) : t[i] = Time[i]
      /\ t[Len(Time) + 1] = "\t"
  <2>. DEFINE s == <<"\t">>
  <2>1. s \in Texts /\ Len(s) = 1 /\ s[1] = "\t"
    BY <1>1
  <2>. HIDE DEF s
  <2>2. /\ Time \o s \in Texts /\ Len(Time \o s) = Len(Time) + Len(s)
        /\ \A i \in 1 .. Len(Time) : (Time \o s)[i] = Time[i]
        /\ \A i \in 1 .. Len(s) : (Time \o s)[Len(Time) + i] = s[i]
    BY <2>1, TimeText, ConcatText
  <2>3. (Time \o s)[Len(Time) + 1] = "\t"
    BY <2>1, <2>2
  <2>. QED  BY <2>1, <2>2, <2>3 DEF s
<1>. HIDE DEF t, n
<1>4. /\ r \in Texts /\ Len(r) = Len(t) + Len(x)
      /\ \A i \in 1 .. Len(t) : r[i] = t[i]
      /\ \A i \in 1 .. Len(x) : r[Len(t) + i] = x[i]
  BY <1>3, ConcatText
<1>. HIDE DEF r
<1>5. /\ r \o n \in Texts /\ Len(r \o n) = Len(r) + 1
      /\ \A i \in 1 .. Len(r) : (r \o n)[i] = r[i]
      /\ (r \o n)[Len(r) + 1] = "\n"
  <2>1. /\ r \o n \in Texts /\ Len(r \o n) = Len(r) + Len(n)
        /\ \A i \in 1 .. Len(r) : (r \o n)[i] = r[i]
        /\ \A i \in 1 .. Len(n) : (r \o n)[Len(r) + i] = n[i]
    BY <1>2, <1>4, ConcatText
  <2>. QED  BY <1>2, <2>1
<1>6. Record(x) = r \o n
  BY DEF Record, r, t, n
<1>7. Len(x) \in Nat /\ Len(Time) \in Nat
  BY TimeText DEF Texts
<1>8. \A i \in 1 .. Len(Time) : Record(x)[i] = Time[i]
  BY <1>3, <1>4, <1>5, <1>6, <1>7
<1>9. Record(x)[Len(Time) + 1] = "\t"
  <2>1. Len(Time) + 1 \in 1 .. Len(t) /\ Len(Time) + 1 \in 1 .. Len(r)
    BY <1>3, <1>4, <1>7
  <2>. QED  BY <1>3, <1>4, <1>5, <1>6, <2>1
<1>10. ASSUME NEW i \in 1 .. Len(x) PROVE Record(x)[Len(Time) + 1 + i] = x[i]
  <2>1. Len(t) + i \in 1 .. Len(r) /\ Len(Time) + 1 + i = Len(t) + i
    BY <1>3, <1>4, <1>7
  <2>. QED  BY <1>4, <1>5, <1>6, <2>1
<1>11. Len(Record(x)) = Len(Time) + 1 + Len(x) + 1 /\ Len(r) + 1 = Len(Time) + 1 + Len(x) + 1
  BY <1>3, <1>4, <1>5, <1>6, <1>7
<1>. QED  BY <1>5, <1>6, <1>8, <1>9, <1>10, <1>11

(* The first TAB behind place a of f is at place p.                        *)
FirstTab(f, a, p) == a < p /\ f[p] = "\t" /\ \A j \in a + 1 .. p - 1 : f[j] # "\t"

LineEnd == {"\n", "\r"}

(* Between the places a and b of f is the tail tl of a file; behind its    *)
(* first TAB comes no line end.                                            *)
TailIs(f, a, b, tl) ==
    \/ tl = "none" /\ a = b
    \/ tl = "bare" /\ a < b /\ \A j \in a + 1 .. b : f[j] # "\t"
    \/ tl = "tab" /\ FirstTab(f, a, b)
    \/ tl = "text" /\ \E p \in a + 1 .. b - 1 : FirstTab(f, a, p) /\ f[p + 1] \notin LineEnd

Uncut(f, a, b) == \A p \in a + 1 .. b - 1 : FirstTab(f, a, p) => f[p + 1] \notin LineEnd

LEMMA SegmentText ==
    ASSUME NEW f \in Texts, NEW a \in 0 .. Len(f), NEW b \in a .. Len(f)
    PROVE  LET s == SubSeq(f, a + 1, b) IN
           s \in Texts /\ Len(s) = b - a /\ \A i \in 1 .. b - a : s[i] = f[a + i]
<1>. DEFINE s == SubSeq(f, a + 1, b)
<1>1. Len(f) \in Nat /\ a \in Nat /\ b \in Nat /\ a + 1 \in Int /\ b \in Int /\ b - (a + 1) + 1 = b - a
  BY DEF Texts
<1>2. \A i \in a + 1 .. b : f[i] \in Char
  BY <1>1 DEF Texts
<1>3. /\ s \in Seq(Char) /\ Len(s) = IF a + 1 <= b THEN b - (a + 1) + 1 ELSE 0
      /\ \A i \in 1 .. b - (a + 1) + 1 : s[i] = f[a + 1 + i - 1]
  BY <1>1, <1>2, SubSeqProperties
<1>4. \A i \in 1 .. b - a : a + 1 + i - 1 = a + i
  BY <1>1
<1>. HIDE DEF s
<1>5. s \in Texts /\ Len(s) = b - a /\ \A i \in 1 .. b - a : s[i] = f[a + i]
  BY <1>1, <1>3, <1>4 DEF Texts
<1>. QED  BY <1>5 DEF s


(* Texts that agree up to place c have the same TABs up to there.          *)
Agree(f, g, c) == \A i \in 1 .. c : f[i] = g[i]

LEMMA SameTab ==
    ASSUME NEW f, NEW g, NEW c \in Nat, Agree(f, g, c), NEW a \in Nat, NEW p \in a + 1 .. c
    PROVE  FirstTab(f, a, p) <=> FirstTab(g, a, p)
<1>1. p \in 1 .. c /\ \A j \in a + 1 .. p - 1 : j \in 1 .. c
  OBVIOUS
<1>. QED  BY <1>1 DEF FirstTab, Agree

LEMMA OneFirstTab ==
    ASSUME NEW f, NEW a \in Nat, NEW p \in Nat, NEW q \in Nat, FirstTab(f, a, p), FirstTab(f, a, q)
    PROVE  p = q
<1>1. ~(p < q)
  <2>. SUFFICES ASSUME p < q PROVE FALSE
    OBVIOUS
  <2>1. p \in a + 1 .. q - 1
    BY DEF FirstTab
  <2>. QED  BY <2>1 DEF FirstTab
<1>2. ~(q < p)
  <2>. SUFFICES ASSUME q < p PROVE FALSE
    OBVIOUS
  <2>1. q \in a + 1 .. p - 1
    BY DEF FirstTab
  <2>. QED  BY <2>1 DEF FirstTab
<1>. QED  BY <1>1, <1>2

LEMMA SameTail ==
    ASSUME NEW f, NEW g, NEW c \in Nat, Agree(f, g, c),
           NEW a \in Nat, NEW b \in 0 .. c, NEW tl
    PROVE  TailIs(f, a, b, tl) => TailIs(g, a, b, tl)
<1>1. tl = "bare" /\ a < b /\ (\A j \in a + 1 .. b : f[j] # "\t") => TailIs(g, a, b, tl)
  <2>1. \A j \in a + 1 .. b : j \in 1 .. c
    OBVIOUS
  <2>. QED  BY <2>1 DEF TailIs, Agree
<1>2. tl = "tab" /\ FirstTab(f, a, b) => TailIs(g, a, b, tl)
  <2>1. FirstTab(f, a, b) => b \in a + 1 .. c
    BY DEF FirstTab
  <2>. QED  BY <2>1, SameTab DEF TailIs
<1>3. ASSUME NEW p \in a + 1 .. b - 1, tl = "text", FirstTab(f, a, p), f[p + 1] \notin LineEnd
      PROVE  TailIs(g, a, b, tl)
  <2>1. p \in a + 1 .. c /\ p + 1 \in 1 .. c
    OBVIOUS
  <2>2. FirstTab(g, a, p)
    BY <1>3, <2>1, SameTab
  <2>3. g[p + 1] = f[p + 1]
    BY <2>1 DEF Agree
  <2>. QED  BY <1>3, <2>2, <2>3 DEF TailIs
<1>. QED  BY <1>1, <1>2, <1>3 DEF TailIs

(* A tail is uncut, and so is what remains of it.                          *)
LEMMA TailUncut ==
    ASSUME NEW f, NEW a \in Nat, NEW b \in Nat, NEW tl, TailIs(f, a, b, tl)
    PROVE  Uncut(f, a, b)
<1>. SUFFICES ASSUME NEW p \in a + 1 .. b - 1, FirstTab(f, a, p) PROVE f[p + 1] \notin LineEnd
  BY DEF Uncut
<1>1. p \in Nat /\ p < b /\ a < p /\ f[p] = "\t"
  BY DEF FirstTab
<1>2. CASE a = b
  BY <1>1, <1>2
<1>3. CASE \A j \in a + 1 .. b : f[j] # "\t"
  <2>1. p \in a + 1 .. b
    BY <1>1
  <2>. QED  BY <1>1, <1>3, <2>1
<1>4. CASE FirstTab(f, a, b)
  BY <1>1, <1>4, OneFirstTab
<1>5. CASE \E q \in a + 1 .. b - 1 : FirstTab(f, a, q) /\ f[q + 1] \notin LineEnd
  <2>1. PICK q \in a + 1 .. b - 1 : FirstTab(f, a, q) /\ f[q + 1] \notin LineEnd
    BY <1>5
  <2>2. q \in Nat
    OBVIOUS
  <2>3. p = q
    BY <1>1, <2>1, <2>2, OneFirstTab
  <2>. QED  BY <2>1, <2>3
<1>. QED  BY <1>2, <1>3, <1>4, <1>5 DEF TailIs

LEMMA UncutPart ==
    ASSUME NEW f, NEW g, NEW c \in Nat, Agree(f, g, c), NEW a \in Nat, NEW b \in Nat,
           NEW d \in 0 .. c, d <= b, Uncut(f, a, b)
    PROVE  Uncut(g, a, d)
<1>. SUFFICES ASSUME NEW p \in a + 1 .. d - 1, FirstTab(g, a, p) PROVE g[p + 1] \notin LineEnd
  BY DEF Uncut
<1>1. p \in a + 1 .. c /\ p + 1 \in 1 .. c /\ p \in a + 1 .. b - 1
  OBVIOUS
<1>2. FirstTab(f, a, p)
  BY <1>1, SameTab
<1>. QED  BY <1>1, <1>2 DEF Uncut, Agree

(* Shape tells which tail it is.                                           *)
LEMMA ShapeIsTail ==
    ASSUME NEW f \in Texts, NEW a \in 0 .. Len(f), NEW b \in a .. Len(f), Uncut(f, a, b)
    PROVE  TailIs(f, a, b, Shape(SubSeq(f, a + 1, b)))
<1>. DEFINE s == SubSeq(f, a + 1, b)
            tabs == {i \in 1 .. Len(s) : s[i] = "\t"}
<1>1. s \in Texts /\ Len(s) = b - a /\ \A i \in 1 .. b - a : s[i] = f[a + i]
  BY SegmentText
<1>2. Shape(s) = IF s = <<>> THEN "none"
                 ELSE IF tabs = {} THEN "bare"
                 ELSE IF tabs = {Len(s)} THEN "tab" ELSE "text"
  BY DEF Shape
<1>. HIDE DEF s
<1>3. Len(f) \in Nat /\ a \in Nat /\ b \in Nat /\ a <= b
  BY DEF Texts
<1>4. \A j \in a + 1 .. b : j - a \in 1 .. b - a /\ s[j - a] = f[j]
  <2>1. \A j \in a + 1 .. b : j - a \in 1 .. b - a /\ a + (j - a) = j
    BY <1>3
  <2>. QED  BY <1>1, <2>1
<1>5. CASE s = <<>>
  <2>1. a = b
    BY <1>1, <1>3, <1>5
  <2>. QED  BY <1>2, <1>5, <2>1 DEF TailIs, s
<1>6. CASE s # <<>> /\ tabs = {}
  <2>1. a < b
    BY <1>1, <1>3, <1>6 DEF Texts
  <2>2. \A j \in a + 1 .. b : f[j] # "\t"
    BY <1>1, <1>4, <1>6
  <2>. QED  BY <1>2, <1>6, <2>1, <2>2 DEF TailIs, s
<1>7. CASE s # <<>> /\ tabs # {}
  <2>1. tabs \in SUBSET Nat
    OBVIOUS
  <2>2. PICK i \in tabs : \A x \in tabs : i <= x
    <3>. HIDE DEF tabs
    <3>. QED  BY <1>7, <2>1, LeastNumber
  <2>3. i \in 1 .. b - a /\ f[a + i] = "\t" /\ a + i \in a + 1 .. b /\ a + i \in Nat
    BY <1>1, <1>3
  <2>4. FirstTab(f, a, a + i)
    <3>. SUFFICES ASSUME NEW j \in a + 1 .. a + i - 1, f[j] = "\t" PROVE FALSE
      BY <1>3, <2>3 DEF FirstTab
    <3>1. j \in a + 1 .. b
      BY <1>3, <2>3
    <3>2. j - a \in tabs
      BY <1>1, <1>4, <3>1
    <3>. QED  BY <1>3, <2>2, <2>3, <3>2
  <2>5. CASE a + i = b
    <3>1. i = b - a
      BY <1>3, <2>3, <2>5
    <3>2. tabs \subseteq {b - a}
      BY <1>1, <1>3, <2>2, <3>1
    <3>3. tabs = {Len(s)}
      BY <1>1, <2>2, <3>1, <3>2
    <3>4. Shape(s) = "tab"
      BY <1>2, <1>7, <3>3
    <3>. QED  BY <2>4, <2>5, <3>4 DEF TailIs, s
  <2>6. CASE a + i # b
    <3>1. i # Len(s) /\ a + i \in a + 1 .. b - 1
      BY <1>1, <1>3, <2>3, <2>6
    <3>2. tabs # {Len(s)}
      BY <2>2, <3>1
    <3>3. Shape(s) = "text"
      BY <1>2, <1>7, <3>2
    <3>4. f[a + i + 1] \notin LineEnd
      BY <2>4, <3>1 DEF Uncut
    <3>. QED  BY <2>4, <3>1, <3>3, <3>4 DEF TailIs, s
  <2>. QED  BY <2>5, <2>6
<1>. QED  BY <1>5, <1>6, <1>7

(* A place of a file has one tail.                                         *)
LEMMA OneTail ==
    ASSUME NEW f, NEW a \in Nat, NEW b \in Nat, NEW tl, NEW tm,
           TailIs(f, a, b, tl), TailIs(f, a, b, tm)
    PROVE  tl = tm
<1>. DEFINE None == a = b
            Bare == a < b /\ \A j \in a + 1 .. b : f[j] # "\t"
            Tab == FirstTab(f, a, b)
            Txt == \E p \in a + 1 .. b - 1 : FirstTab(f, a, p) /\ f[p + 1] \notin LineEnd
<1>1. None => ~Bare /\ ~Tab /\ ~Txt
  BY DEF FirstTab
<1>2. Bare => ~Tab /\ ~Txt
  <2>1. Bare => ~Tab
    <3>1. a < b => b \in a + 1 .. b
      OBVIOUS
    <3>. QED  BY <3>1 DEF FirstTab
  <2>2. Bare => ~Txt
    <3>1. \A p \in a + 1 .. b - 1 : p \in a + 1 .. b
      OBVIOUS
    <3>. QED  BY <3>1 DEF FirstTab
  <2>. QED  BY <2>1, <2>2
<1>3. Tab => ~Txt
  <2>. SUFFICES ASSUME Tab, NEW p \in a + 1 .. b - 1, FirstTab(f, a, p) PROVE FALSE
    OBVIOUS
  <2>1. p \in Nat /\ p # b
    OBVIOUS
  <2>. QED  BY <2>1, OneFirstTab
<1>4. /\ (tl = "none" /\ None) \/ (tl = "bare" /\ Bare) \/ (tl = "tab" /\ Tab) \/ (tl = "text" /\ Txt)
      /\ (tm = "none" /\ None) \/ (tm = "bare" /\ Bare) \/ (tm = "tab" /\ Tab) \/ (tm = "text" /\ Txt)
  BY DEF TailIs
<1>. HIDE DEF None, Bare, Tab, Txt
<1>. QED  BY <1>1, <1>2, <1>3, <1>4

(* What is left of a tail is what Journal says can be left of it.          *)
LEMMA PartOfTail ==
    ASSUME NEW f, NEW g, NEW c \in Nat, Agree(f, g, c), NEW a \in Nat, NEW b \in Nat,
           c <= b, NEW tl, NEW tm, TailIs(f, a, b, tl), TailIs(g, a, c, tm)
    PROVE  tm \in Remains[tl]
<1>1. CASE a = c
  BY <1>1 DEF TailIs, FirstTab, Remains, Tail_, Cut
<1>2. CASE tl = "bare" /\ a # c
  <2>1. \A j \in a + 1 .. c : g[j] # "\t"
    <3>1. \A j \in a + 1 .. c : j \in 1 .. c /\ j \in a + 1 .. b
      OBVIOUS
    <3>2. \A j \in a + 1 .. b : f[j] # "\t"
      BY <1>2 DEF TailIs
    <3>. QED  BY <3>1, <3>2 DEF Agree
  <2>2. a < c
    BY <1>2 DEF TailIs, FirstTab
  <2>3. TailIs(g, a, c, "bare")
    BY <2>1, <2>2 DEF TailIs
  <2>4. tm = "bare"
    BY <2>3, OneTail
  <2>. QED  BY <1>2, <2>4 DEF Remains
<1>3. CASE tl = "tab" /\ a # c
  <2>. SUFFICES ASSUME tm = "text" PROVE FALSE
    BY <1>3 DEF TailIs, Remains
  <2>1. PICK p \in a + 1 .. c - 1 : FirstTab(g, a, p)
    BY DEF TailIs
  <2>2. p \in a + 1 .. c /\ p \in Nat /\ p # b
    OBVIOUS
  <2>3. FirstTab(f, a, p) /\ FirstTab(f, a, b)
    BY <1>3, <2>1, <2>2, SameTab DEF TailIs
  <2>. QED  BY <2>2, <2>3, OneFirstTab
<1>4. CASE tl = "text"
  BY <1>4 DEF TailIs, Remains, Tail_, Cut
<1>5. CASE tl = "none" /\ a # c
  BY <1>5 DEF TailIs, FirstTab
<1>. QED  BY <1>1, <1>2, <1>3, <1>4, <1>5 DEF TailIs

-------------------------------------------------------------------------------
(* The lines of events.log, and LosesOnlyTail *)

(* The first n lines of f end at the places e[1], ..., e[n], and f has no  *)
(* other newlines.                                                         *)
Ends(f, n, e) ==
    /\ e \in [0 .. n -> 0 .. Len(f)] /\ e[0] = 0
    /\ \A i, j \in 0 .. n : i < j => e[i] < e[j]
    /\ \A i \in 1 .. n : f[e[i]] = "\n"
    /\ \A p \in 1 .. Len(f) : f[p] = "\n" => \E i \in 1 .. n : p = e[i]

(* Behind the TAB at place p comes the event ev, up to the newline at b.   *)
EventIs(f, p, b, ev) ==
    /\ ev \in Texts /\ Len(ev) \in 1 .. FieldCap - 1 /\ b = p + Len(ev) + 1
    /\ ev[1] \notin LineEnd /\ ev[Len(ev)] \notin LineEnd
    /\ \A i \in 1 .. Len(ev) : f[p + i] = ev[i]

(* Behind place a comes the line of event ev, up to the newline at b.      *)
LineIs(f, a, b, ev) ==
    \E p \in a + 1 .. b - 1 :
        /\ FirstTab(f, a, p) /\ f[p + 1] \notin LineEnd
        /\ ev # Garbled => EventIs(f, p, b, ev)

Lined(f, ls, tl, e) ==
    /\ Ends(f, Len(ls), e)
    /\ \A i \in 1 .. Len(ls) : LineIs(f, e[i - 1], e[i], ls[i].event)
    /\ TailIs(f, e[Len(ls)], Len(f), tl)

(* file is, character by character, what lines and tail say of it.         *)
FileInv ==
    /\ file \in Texts /\ lines \in Seq(Line) /\ writes \in Nat
    /\ ~several => \E e : Lined(file, lines, tail, e)

LEMMA SameEvent ==
    ASSUME NEW f, NEW g, NEW c \in Nat, Agree(f, g, c),
           NEW p \in Nat, NEW b \in 0 .. c, NEW ev, EventIs(f, p, b, ev)
    PROVE  EventIs(g, p, b, ev)
<1>1. Len(ev) \in Nat /\ b = p + Len(ev) + 1
  BY DEF EventIs, Texts
<1>2. \A i \in 1 .. Len(ev) : p + i \in 1 .. c
  BY <1>1
<1>3. \A i \in 1 .. Len(ev) : g[p + i] = f[p + i]
  BY <1>2 DEF Agree
<1>. QED  BY <1>3 DEF EventIs

LEMMA SameLine ==
    ASSUME NEW f, NEW g, NEW c \in Nat, Agree(f, g, c),
           NEW a \in Nat, NEW b \in 0 .. c, NEW ev, LineIs(f, a, b, ev)
    PROVE  LineIs(g, a, b, ev)
<1>1. PICK p \in a + 1 .. b - 1 :
          /\ FirstTab(f, a, p) /\ f[p + 1] \notin LineEnd
          /\ ev # Garbled => EventIs(f, p, b, ev)
  BY DEF LineIs
<1>2. p \in a + 1 .. c /\ p + 1 \in 1 .. c /\ p \in Nat
  OBVIOUS
<1>3. FirstTab(g, a, p) /\ g[p + 1] \notin LineEnd
  BY <1>1, <1>2, SameTab DEF Agree
<1>4. ev # Garbled => EventIs(g, p, b, ev)
  BY <1>1, <1>2, SameEvent
<1>. QED  BY <1>3, <1>4 DEF LineIs

LEMMA LineUncut ==
    ASSUME NEW f, NEW a \in Nat, NEW b \in Nat, NEW ev, LineIs(f, a, b, ev)
    PROVE  Uncut(f, a, b)
<1>. SUFFICES ASSUME NEW p \in a + 1 .. b - 1, FirstTab(f, a, p) PROVE f[p + 1] \notin LineEnd
  BY DEF Uncut
<1>1. PICK q \in a + 1 .. b - 1 : FirstTab(f, a, q) /\ f[q + 1] \notin LineEnd
  BY DEF LineIs
<1>2. p \in Nat /\ q \in Nat
  OBVIOUS
<1>3. p = q
  BY <1>1, <1>2, OneFirstTab
<1>. QED  BY <1>1, <1>3

(* The types of the places. *)
LEMMA EndsType ==
    ASSUME NEW f \in Texts, NEW n \in Nat, NEW e, Ends(f, n, e)
    PROVE  /\ Len(f) \in Nat /\ n \in 0 .. n /\ \A i \in 0 .. n : e[i] \in 0 .. Len(f) /\ e[i] \in Nat
           /\ \A i \in 1 .. n : i - 1 \in 0 .. n /\ i \in 0 .. n /\ e[i - 1] < e[i]
<1>1. Len(f) \in Nat /\ n \in 0 .. n
  BY DEF Texts
<1>2. \A i \in 0 .. n : e[i] \in 0 .. Len(f) /\ e[i] \in Nat
  BY <1>1 DEF Ends
<1>3. \A i \in 1 .. n : i - 1 \in 0 .. n /\ i \in 0 .. n /\ i - 1 < i
  OBVIOUS
<1>. QED  BY <1>1, <1>2, <1>3 DEF Ends

(* Between two ends, and behind the last one, is no newline.               *)
LEMMA NoOtherEnd ==
    ASSUME NEW f \in Texts, NEW n \in Nat, NEW e, Ends(f, n, e), NEW i \in 0 .. n,
           NEW p \in e[i] + 1 .. Len(f), i < n => p < e[i + 1]
    PROVE  f[p] # "\n"
<1>. SUFFICES ASSUME f[p] = "\n" PROVE FALSE
  OBVIOUS
<1>1. e[i] \in Nat /\ p \in 1 .. Len(f)
  BY EndsType
<1>2. PICK j \in 1 .. n : p = e[j]
  BY <1>1 DEF Ends
<1>3. j \in 0 .. n
  BY EndsType
<1>4. i < j
  <2>. SUFFICES ASSUME ~(i < j) PROVE FALSE
    OBVIOUS
  <2>1. j = i \/ j < i
    OBVIOUS
  <2>2. e[j] <= e[i]
    BY <1>3, <2>1, EndsType DEF Ends
  <2>. QED  BY <1>1, <1>2, <2>2
<1>5. i + 1 \in 0 .. n /\ (i + 1 = j \/ i + 1 < j)
  BY <1>4
<1>6. e[i + 1] <= e[j]
  BY <1>3, <1>5, EndsType DEF Ends
<1>7. p < e[i + 1]
  BY <1>5
<1>8. e[i + 1] \in Nat /\ e[j] \in Nat /\ p \in Nat
  BY <1>1, <1>3, <1>5, EndsType
<1>. QED  BY <1>2, <1>6, <1>7, <1>8

(* LastLine is what comes behind the last end. *)
LEMMA LastLineIs ==
    ASSUME NEW f \in Texts, NEW n \in Nat, NEW e, Ends(f, n, e)
    PROVE  LastLine(f) = SubSeq(f, e[n] + 1, Len(f))
<1>. DEFINE T == Newlines(f) \cup {0}
<1>1. Len(f) \in Nat /\ T \in SUBSET (0 .. Len(f)) /\ T # {}
  BY DEF Texts, Newlines
<1>2. Max(T) \in T /\ \A x \in T : x <= Max(T)
  <2>. HIDE DEF T
  <2>. QED  BY <1>1, MaxIsGreatest
<1>3. e[n] \in T
  <2>1. CASE n = 0
    BY <2>1 DEF Ends
  <2>2. CASE n # 0
    <3>1. n \in 1 .. n /\ n \in 0 .. n /\ 0 \in 0 .. n /\ 0 < n
      BY <2>2
    <3>2. f[e[n]] = "\n" /\ e[0] < e[n] /\ e[0] = 0
      BY <3>1 DEF Ends
    <3>3. e[n] \in 1 .. Len(f)
      BY <3>1, <3>2, EndsType
    <3>. QED  BY <3>2, <3>3 DEF Newlines
  <2>. QED  BY <2>1, <2>2
<1>4. \A x \in T : x <= e[n]
  <2>. SUFFICES ASSUME NEW x \in T, ~(x <= e[n]) PROVE FALSE
    OBVIOUS
  <2>1. e[n] \in Nat /\ n \in 0 .. n
    BY EndsType
  <2>2. x \in e[n] + 1 .. Len(f) /\ f[x] = "\n"
    BY <1>1, <2>1 DEF Newlines
  <2>. QED  BY <2>1, <2>2, NoOtherEnd
<1>5. Max(T) = e[n]
  <2>1. Max(T) \in Nat /\ e[n] \in Nat
    BY <1>1, <1>2, EndsType
  <2>2. Max(T) <= e[n] /\ e[n] <= Max(T)
    BY <1>2, <1>3, <1>4
  <2>. HIDE DEF T
  <2>. QED  BY <2>1, <2>2
<1>. QED  BY <1>5 DEF LastLine

LEMMA SingleLineText ==
    ASSUME NEW x \in Texts, x # <<>>, SingleLine(x)
    PROVE  /\ Len(x) \in Nat /\ Len(x) >= 1 /\ \A i \in 1 .. Len(x) : x[i] # "\n"
           /\ x[1] \notin LineEnd /\ x[Len(x)] \notin LineEnd
<1>1. Len(x) \in Nat /\ Len(x) >= 1 /\ DOMAIN x = 1 .. Len(x)
  BY DEF Texts
<1>2. \A i \in 1 .. Len(x) : x[i] # "\n"
  BY <1>1 DEF SingleLine, ToSet
<1>3. x[1] # "\r" /\ x[Len(x)] # "\r"
  BY <1>1 DEF SingleLine, Last
<1>4. x[1] # "\n" /\ x[Len(x)] # "\n"
  BY <1>1, <1>2
<1>. QED  BY <1>1, <1>2, <1>3, <1>4 DEF LineEnd

LEMMA AgreeConcat ==
    ASSUME NEW f \in Texts, NEW v \in Texts
    PROVE  Agree(f, f \o v, Len(f)) /\ Agree(f \o v, f, Len(f))
BY ConcatText DEF Agree

(* What is written behind a fragment without a TAB has its own first TAB.  *)
LEMMA GluedTab ==
    ASSUME NEW f \in Texts, NEW a \in 0 .. Len(f), NEW tl \in {"none", "bare"},
           TailIs(f, a, Len(f), tl),
           NEW v \in Texts, NEW q \in 1 .. Len(v), FirstTab(v, 0, q)
    PROVE  FirstTab(f \o v, a, Len(f) + q)
<1>. DEFINE g == f \o v
<1>1. /\ \A i \in 1 .. Len(f) : g[i] = f[i]
      /\ \A i \in 1 .. Len(v) : g[Len(f) + i] = v[i]
  BY ConcatText
<1>. HIDE DEF g
<1>2. Len(f) \in Nat /\ Len(v) \in Nat /\ a \in Nat
  BY DEF Texts
<1>3. \A j \in a + 1 .. Len(f) : f[j] # "\t"
  BY <1>2 DEF TailIs
<1>4. g[Len(f) + q] = "\t"
  BY <1>1 DEF FirstTab
<1>5. ASSUME NEW j \in a + 1 .. Len(f) + q - 1 PROVE g[j] # "\t"
  <2>1. CASE j <= Len(f)
    <3>1. j \in 1 .. Len(f) /\ j \in a + 1 .. Len(f)
      BY <1>2, <2>1
    <3>. QED  BY <1>1, <1>3, <3>1
  <2>2. CASE ~(j <= Len(f))
    <3>1. j - Len(f) \in 1 .. Len(v) /\ j - Len(f) \in 0 + 1 .. q - 1 /\ Len(f) + (j - Len(f)) = j
      BY <1>2, <2>2
    <3>2. g[j] = v[j - Len(f)]
      BY <1>1, <3>1
    <3>. QED  BY <3>1, <3>2 DEF FirstTab
  <2>. QED  BY <2>1, <2>2
<1>6. a < Len(f) + q
  BY <1>2
<1>. QED  BY <1>4, <1>5, <1>6 DEF FirstTab, g

(* What is written behind a fragment with a TAB becomes part of its text.  *)
LEMMA GluedText ==
    ASSUME NEW f \in Texts, NEW a \in 0 .. Len(f), NEW tl \in {"tab", "text"},
           TailIs(f, a, Len(f), tl),
           NEW v \in Texts, v # <<>>, v[1] \notin LineEnd
    PROVE  \E p \in a + 1 .. Len(f) : FirstTab(f \o v, a, p) /\ (f \o v)[p + 1] \notin LineEnd
<1>. DEFINE g == f \o v
<1>1. /\ \A i \in 1 .. Len(f) : g[i] = f[i]
      /\ \A i \in 1 .. Len(v) : g[Len(f) + i] = v[i]
      /\ Agree(f, g, Len(f))
  BY ConcatText, AgreeConcat
<1>. HIDE DEF g
<1>2. Len(f) \in Nat /\ Len(v) \in Nat /\ Len(v) > 0 /\ a \in Nat
  BY DEF Texts
<1>3. CASE tl = "tab"
  <2>1. FirstTab(f, a, Len(f))
    BY <1>3 DEF TailIs
  <2>2. Len(f) \in a + 1 .. Len(f)
    BY <1>2, <2>1 DEF FirstTab
  <2>3. FirstTab(g, a, Len(f))
    BY <1>1, <1>2, <2>1, <2>2, SameTab
  <2>4. g[Len(f) + 1] = v[1]
    BY <1>1, <1>2
  <2>. QED  BY <2>2, <2>3, <2>4 DEF g
<1>4. CASE tl = "text"
  <2>1. PICK p \in a + 1 .. Len(f) - 1 : FirstTab(f, a, p) /\ f[p + 1] \notin LineEnd
    BY <1>4 DEF TailIs
  <2>2. p \in a + 1 .. Len(f) /\ p + 1 \in 1 .. Len(f)
    BY <1>2
  <2>3. FirstTab(g, a, p)
    BY <1>1, <1>2, <2>1, <2>2, SameTab
  <2>4. g[p + 1] = f[p + 1]
    BY <1>1, <2>2
  <2>. QED  BY <2>1, <2>2, <2>3, <2>4 DEF g
<1>. QED  BY <1>3, <1>4

LEMMA RecordTab ==
    ASSUME NEW x \in Texts
    PROVE  FirstTab(Record(x), 0, Len(Time) + 1)
<1>1. Len(Time) \in Nat /\ 0 < Len(Time) + 1
  BY TimeText
<1>2. \A j \in 0 + 1 .. Len(Time) + 1 - 1 : j \in 1 .. Len(Time)
  BY <1>1
<1>3. \A j \in 1 .. Len(Time) : Record(x)[j] # "\t"
  BY RecordText, TimeText
<1>. QED  BY <1>1, <1>2, <1>3, RecordText DEF FirstTab

(* Only the last character of the record of a single line is a newline.    *)
LEMMA RecordEnd ==
    ASSUME NEW x \in Texts, x # <<>>, SingleLine(x)
    PROVE  \A i \in 1 .. Len(Record(x)) : Record(x)[i] = "\n" <=> i = Len(Record(x))
<1>1. /\ Len(Time) \in Nat /\ Len(x) \in Nat /\ Len(Record(x)) = Len(Time) + 1 + Len(x) + 1
      /\ Record(x)[Len(Record(x))] = "\n"
  <2>1. Len(Time) \in Nat /\ Len(x) \in Nat
    BY TimeText DEF Texts
  <2>2. /\ Len(Record(x)) = Len(Time) + 1 + Len(x) + 1
        /\ Record(x)[Len(Time) + 1 + Len(x) + 1] = "\n"
    BY RecordText
  <2>. QED  BY <2>1, <2>2
<1>. SUFFICES ASSUME NEW i \in 1 .. Len(Record(x)), i # Len(Record(x)) PROVE Record(x)[i] # "\n"
  BY <1>1
<1>2. CASE i <= Len(Time)
  <2>1. i \in 1 .. Len(Time)
    BY <1>1, <1>2
  <2>. QED  BY <2>1, RecordText, TimeText
<1>3. CASE i = Len(Time) + 1
  BY <1>3, RecordText
<1>4. CASE i > Len(Time) + 1
  <2>1. PICK j \in 1 .. Len(x) : i = Len(Time) + 1 + j
    <3>1. i - (Len(Time) + 1) \in 1 .. Len(x) /\ i = Len(Time) + 1 + (i - (Len(Time) + 1))
      BY <1>1, <1>4
    <3>. QED  BY <3>1
  <2>2. Record(x)[i] = x[j]
    BY <2>1, RecordText
  <2>. QED  BY <2>1, <2>2, SingleLineText
<1>. QED  BY <1>1, <1>2, <1>3, <1>4

(* The ends of a file that has grown by v.                                 *)
LEMMA EndsGrow ==
    ASSUME NEW f \in Texts, NEW n \in Nat, NEW e, Ends(f, n, e), NEW v \in Texts,
           \A i \in 1 .. Len(v) : v[i] # "\n"
    PROVE  Ends(f \o v, n, e)
<1>. DEFINE g == f \o v
<1>1. /\ g \in Texts /\ Len(g) = Len(f) + Len(v)
      /\ \A i \in 1 .. Len(f) : g[i] = f[i]
      /\ \A i \in 1 .. Len(v) : g[Len(f) + i] = v[i]
  BY ConcatText
<1>. HIDE DEF g
<1>2. Len(f) \in Nat /\ Len(v) \in Nat
  BY DEF Texts
<1>3. e \in [0 .. n -> 0 .. Len(g)]
  BY <1>1, <1>2 DEF Ends
<1>4. \A i \in 1 .. n : g[e[i]] = "\n"
  <2>. SUFFICES ASSUME NEW i \in 1 .. n PROVE g[e[i]] = "\n"
    OBVIOUS
  <2>1. e[i] \in 1 .. Len(f)
    BY EndsType
  <2>2. f[e[i]] = "\n"
    BY DEF Ends
  <2>. QED  BY <1>1, <2>1, <2>2
<1>5. ASSUME NEW p \in 1 .. Len(g), g[p] = "\n" PROVE \E i \in 1 .. n : p = e[i]
  <2>1. CASE p <= Len(f)
    <3>1. p \in 1 .. Len(f) /\ f[p] = "\n"
      BY <1>1, <1>2, <1>5, <2>1
    <3>. QED  BY <3>1 DEF Ends
  <2>2. CASE ~(p <= Len(f))
    <3>1. p - Len(f) \in 1 .. Len(v) /\ Len(f) + (p - Len(f)) = p
      BY <1>1, <1>2, <2>2
    <3>. QED  BY <1>1, <1>5, <3>1
  <2>. QED  BY <2>1, <2>2
<1>. QED  BY <1>3, <1>4, <1>5 DEF Ends, g

LEMMA EndsGrowLine ==
    ASSUME NEW f \in Texts, NEW n \in Nat, NEW e, Ends(f, n, e), NEW v \in Texts, v # <<>>,
           \A i \in 1 .. Len(v) : v[i] = "\n" <=> i = Len(v)
    PROVE  Ends(f \o v, n + 1, [i \in 0 .. n + 1 |-> IF i <= n THEN e[i] ELSE Len(f \o v)])
<1>. DEFINE g == f \o v
            d == [i \in 0 .. n + 1 |-> IF i <= n THEN e[i] ELSE Len(g)]
<1>1. /\ g \in Texts /\ Len(g) = Len(f) + Len(v)
      /\ \A i \in 1 .. Len(f) : g[i] = f[i]
      /\ \A i \in 1 .. Len(v) : g[Len(f) + i] = v[i]
  BY ConcatText
<1>2. Len(f) \in Nat /\ Len(v) \in Nat /\ Len(v) > 0
  BY DEF Texts
<1>. HIDE DEF g
<1>3. (\A i \in 0 .. n : d[i] = e[i]) /\ d[n + 1] = Len(g) /\ DOMAIN d = 0 .. n + 1
  OBVIOUS
<1>4. \A i \in 0 .. n : e[i] \in 0 .. Len(f)
  BY EndsType
<1>5. d \in [0 .. n + 1 -> 0 .. Len(g)] /\ d[0] = 0
  BY <1>1, <1>2, <1>4 DEF Ends
<1>. HIDE DEF d
<1>6. ASSUME NEW i \in 0 .. n + 1, NEW j \in 0 .. n + 1, i < j PROVE d[i] < d[j]
  <2>1. i \in 0 .. n
    BY <1>6
  <2>2. CASE j = n + 1
    BY <1>1, <1>2, <1>3, <1>4, <2>1, <2>2
  <2>3. CASE j # n + 1
    <3>1. j \in 0 .. n
      BY <2>3
    <3>. QED  BY <1>3, <1>6, <2>1, <3>1 DEF Ends
  <2>. QED  BY <2>2, <2>3
<1>7. g[Len(g)] = "\n"
  BY <1>1, <1>2
<1>8. ASSUME NEW i \in 1 .. n + 1 PROVE g[d[i]] = "\n"
  <2>1. CASE i = n + 1
    BY <1>3, <1>7, <2>1
  <2>2. CASE i # n + 1
    <3>1. i \in 1 .. n /\ i \in 0 .. n
      BY <2>2
    <3>2. e[i] \in 1 .. Len(f)
      BY <3>1, EndsType
    <3>. QED  BY <1>1, <1>3, <3>1, <3>2 DEF Ends
  <2>. QED  BY <2>1, <2>2
<1>9. ASSUME NEW p \in 1 .. Len(g), g[p] = "\n" PROVE \E i \in 1 .. n + 1 : p = d[i]
  <2>1. CASE p <= Len(f)
    <3>1. p \in 1 .. Len(f) /\ f[p] = "\n"
      BY <1>1, <1>2, <1>9, <2>1
    <3>2. PICK i \in 1 .. n : p = e[i]
      BY <3>1 DEF Ends
    <3>3. i \in 0 .. n /\ i \in 1 .. n + 1
      OBVIOUS
    <3>. QED  BY <1>3, <3>2, <3>3
  <2>2. CASE ~(p <= Len(f))
    <3>1. p - Len(f) \in 1 .. Len(v) /\ Len(f) + (p - Len(f)) = p
      BY <1>1, <1>2, <2>2
    <3>2. p - Len(f) = Len(v)
      BY <1>1, <1>9, <3>1
    <3>3. p = Len(g) /\ n + 1 \in 1 .. n + 1
      BY <1>1, <1>2, <3>1, <3>2
    <3>. QED  BY <1>3, <3>3
  <2>. QED  BY <2>1, <2>2
<1>10. Ends(g, n + 1, d)
  BY <1>5, <1>6, <1>8, <1>9 DEF Ends
<1>. QED  BY <1>10 DEF d, g

(* append_journal writes a whole record: f becomes g, with one more line.  *)
NextEnd(e, n, g) == [i \in 0 .. n + 1 |-> IF i <= n THEN e[i] ELSE Len(g)]

LEMMA WriteLined ==
    ASSUME NEW f \in Texts, NEW ls \in Seq(Line), NEW tl, NEW e, Lined(f, ls, tl, e),
           NEW c \in Conn, NEW x \in Event, x \in Texts, x # <<>>, Len(x) < FieldCap, SingleLine(x)
    PROVE  Lined(f \o Record(x), Append(ls, WholeLine(tl, c, x)), "none",
                 NextEnd(e, Len(ls), f \o Record(x)))
<1>. DEFINE n == Len(ls)
            v == Record(x)
            g == f \o v
            l == WholeLine(tl, c, x)
            ms == Append(ls, l)
            d == [i \in 0 .. n + 1 |-> IF i <= n THEN e[i] ELSE Len(g)]
<1>1. /\ v \in Texts /\ Len(v) = Len(Time) + 1 + Len(x) + 1
      /\ \A i \in 1 .. Len(x) : v[Len(Time) + 1 + i] = x[i]
      /\ v[1] = Time[1]
  <2>1. 1 \in 1 .. Len(Time)
    BY TimeText
  <2>. QED  BY <2>1, RecordText
<1>2. /\ Len(x) \in Nat /\ Len(x) >= 1 /\ x[1] \notin LineEnd /\ x[Len(x)] \notin LineEnd
      /\ Len(Time) \in Nat /\ Len(Time) >= 1 /\ Time[1] \notin LineEnd
  <2>1. Len(Time) \in Nat /\ Len(Time) >= 1 /\ 1 \in 1 .. Len(Time)
    BY TimeText
  <2>2. Time[1] \notin LineEnd
    BY <2>1, TimeText DEF LineEnd
  <2>. QED  BY <2>1, <2>2, SingleLineText
<1>3. FirstTab(v, 0, Len(Time) + 1)
  BY RecordTab
<1>4. \A i \in 1 .. Len(v) : v[i] = "\n" <=> i = Len(v)
  BY RecordEnd
<1>5. n \in Nat /\ Ends(f, n, e) /\ TailIs(f, e[n], Len(f), tl) /\ tl \in Tail_
  BY DEF Lined, TailIs, Tail_, Cut
<1>6. l \in Line /\ ms \in Seq(Line) /\ Len(ms) = n + 1 /\ ms[n + 1] = l
      /\ \A i \in 1 .. n : ms[i] = ls[i]
  <2>1. l \in Line
    BY DEF WholeLine, Line, Text
  <2>. HIDE DEF l
  <2>. QED  BY <2>1, AppendProperties
<1>7. l.event = IF tl \in {"none", "bare"} THEN x ELSE Garbled
  BY DEF WholeLine
<1>. HIDE DEF l, ms, v
<1>8. /\ g \in Texts /\ Len(g) = Len(f) + Len(v) /\ Len(f) \in Nat
      /\ \A i \in 1 .. Len(v) : g[Len(f) + i] = v[i]
      /\ Agree(f, g, Len(f))
  <2>1. Agree(f, g, Len(f)) /\ Len(f) \in Nat
    BY <1>1, AgreeConcat DEF Texts
  <2>. QED  BY <1>1, <2>1, ConcatText
<1>9. Ends(g, n + 1, d)
  <2>1. v # <<>>
    BY <1>1, <1>2
  <2>. QED  BY <1>1, <1>4, <1>5, <2>1, EndsGrowLine
<1>10. (\A i \in 0 .. n : d[i] = e[i]) /\ d[n + 1] = Len(g)
  BY <1>5
<1>11. /\ \A i \in 0 .. n : e[i] \in 0 .. Len(f) /\ e[i] \in Nat
       /\ n \in 0 .. n
  BY <1>5, EndsType
<1>. DEFINE a == e[n]
<1>12. a \in 0 .. Len(f) /\ a \in Nat /\ TailIs(f, a, Len(f), tl)
  BY <1>5, <1>11
<1>. HIDE DEF g, d, a
<1>13. LineIs(g, a, Len(g), l.event)
  <2>1. CASE tl \in {"none", "bare"}
    <3>. DEFINE p == Len(f) + (Len(Time) + 1)
    <3>1. Len(Time) + 1 \in 1 .. Len(v)
      BY <1>1, <1>2
    <3>2. FirstTab(g, a, p)
      BY <1>1, <1>3, <1>12, <2>1, <3>1, GluedTab DEF g
    <3>3. ASSUME NEW i \in 1 .. Len(x) PROVE g[p + i] = x[i]
      <4>1. Len(Time) + 1 + i \in 1 .. Len(v) /\ p + i = Len(f) + (Len(Time) + 1 + i)
        BY <1>1, <1>2, <1>8
      <4>2. g[Len(f) + (Len(Time) + 1 + i)] = v[Len(Time) + 1 + i]
        BY <1>8, <4>1
      <4>. QED  BY <1>1, <4>1, <4>2
    <3>4. Len(g) = p + Len(x) + 1 /\ p \in a + 1 .. Len(g) - 1 /\ 1 \in 1 .. Len(x)
      BY <1>1, <1>2, <1>8, <1>12
    <3>5. EventIs(g, p, Len(g), x)
      <4>1. Len(x) \in 1 .. FieldCap - 1
        BY <1>2, FieldNumbers
      <4>. QED  BY <1>2, <3>3, <3>4, <4>1 DEF EventIs
    <3>6. g[p + 1] \notin LineEnd
      BY <1>2, <3>3, <3>4
    <3>. HIDE DEF p
    <3>. QED  BY <1>7, <2>1, <3>2, <3>4, <3>5, <3>6 DEF LineIs
  <2>2. CASE tl \in {"tab", "text"}
    <3>1. v # <<>> /\ v[1] \notin LineEnd
      BY <1>1, <1>2
    <3>2. PICK p \in a + 1 .. Len(f) : FirstTab(g, a, p) /\ g[p + 1] \notin LineEnd
      BY <1>1, <1>12, <2>2, <3>1, GluedText DEF g
    <3>3. p \in a + 1 .. Len(g) - 1
      BY <1>1, <1>2, <1>8, <1>12
    <3>4. l.event = Garbled
      BY <1>7, <2>2
    <3>. QED  BY <3>2, <3>3, <3>4 DEF LineIs
  <2>. QED  BY <1>5, <2>1, <2>2 DEF Tail_, Cut
<1>14. ASSUME NEW i \in 1 .. n + 1 PROVE LineIs(g, d[i - 1], d[i], ms[i].event)
  <2>1. CASE i = n + 1
    <3>1. i - 1 = n /\ d[i - 1] = a /\ d[i] = Len(g) /\ ms[i] = l
      BY <1>5, <1>6, <1>10, <1>11, <2>1 DEF a
    <3>. QED  BY <1>13, <3>1
  <2>2. CASE i # n + 1
    <3>1. i \in 1 .. n /\ i \in 0 .. n /\ i - 1 \in 0 .. n
      BY <1>5, <2>2
    <3>2. d[i] = e[i] /\ d[i - 1] = e[i - 1] /\ ms[i] = ls[i]
      BY <1>6, <1>10, <3>1
    <3>3. LineIs(f, e[i - 1], e[i], ls[i].event)
      BY <3>1 DEF Lined
    <3>4. e[i - 1] \in Nat /\ e[i] \in 0 .. Len(f)
      BY <1>11, <3>1
    <3>. QED  BY <1>8, <3>2, <3>3, <3>4, SameLine
  <2>. QED  BY <2>1, <2>2
<1>15. TailIs(g, d[n + 1], Len(g), "none")
  BY <1>10 DEF TailIs
<1>16. Lined(g, ms, "none", d)
  BY <1>6, <1>9, <1>14, <1>15 DEF Lined
<1>. QED  BY <1>16 DEF g, v, ms, l, d, NextEnd

(* A cut record has no newline, and Shape says how far it has come.        *)
LEMMA CutRecord ==
    ASSUME NEW x \in Texts, x # <<>>, SingleLine(x), NEW k \in 1 .. Len(Record(x)) - 1
    PROVE  LET v == SubSeq(Record(x), 1, k) IN
           /\ v \in Texts /\ Len(v) = k /\ v # <<>> /\ v[1] \notin LineEnd
           /\ \A i \in 1 .. Len(v) : v[i] # "\n"
           /\ TailIs(v, 0, k, Shape(v))
<1>. DEFINE r == Record(x)
            v == SubSeq(r, 1, k)
            n == Len(Time)
<1>1. /\ r \in Texts /\ Len(r) = n + 1 + Len(x) + 1
      /\ r[1] = Time[1] /\ \A i \in 1 .. Len(x) : r[n + 1 + i] = x[i]
  <2>1. 1 \in 1 .. Len(Time)
    BY TimeText
  <2>. QED  BY <2>1, RecordText
<1>2. /\ Len(x) \in Nat /\ Len(x) >= 1 /\ x[1] \notin LineEnd
      /\ n \in Nat /\ n >= 1 /\ Time[1] \notin LineEnd
  <2>1. n \in Nat /\ n >= 1 /\ 1 \in 1 .. n
    BY TimeText
  <2>2. Time[1] \notin LineEnd
    BY <2>1, TimeText DEF LineEnd
  <2>. QED  BY <2>1, <2>2, SingleLineText
<1>3. FirstTab(r, 0, n + 1)
  BY RecordTab
<1>4. \A i \in 1 .. Len(r) : r[i] = "\n" <=> i = Len(r)
  BY RecordEnd
<1>. HIDE DEF r, n
<1>5. k \in 0 .. Len(r) /\ Len(r) \in Nat /\ k \in Nat /\ k >= 1 /\ k < Len(r)
  BY <1>1, <1>2 DEF r
<1>6. v \in Texts /\ Len(v) = k /\ \A i \in 1 .. k : v[i] = r[i]
  BY <1>1, <1>5, PrefixText
<1>. HIDE DEF v
<1>7. v # <<>> /\ v[1] \notin LineEnd
  BY <1>1, <1>2, <1>5, <1>6
<1>8. \A i \in 1 .. Len(v) : v[i] # "\n"
  BY <1>4, <1>5, <1>6
<1>9. Uncut(v, 0, k)
  <2>. SUFFICES ASSUME NEW p \in 0 + 1 .. k - 1, FirstTab(v, 0, p) PROVE v[p + 1] \notin LineEnd
    BY DEF Uncut
  <2>1. Agree(v, r, k) /\ p \in 0 + 1 .. k /\ p + 1 \in 1 .. k /\ p \in Nat
    BY <1>5, <1>6 DEF Agree
  <2>2. FirstTab(r, 0, p)
    BY <1>5, <2>1, SameTab
  <2>3. p = n + 1
    BY <1>2, <1>3, <2>1, <2>2, OneFirstTab
  <2>4. n + 1 + 1 \in 1 .. k /\ 1 \in 1 .. Len(x)
    BY <1>2, <2>1, <2>3
  <2>5. v[p + 1] = x[1]
    BY <1>1, <1>6, <2>3, <2>4
  <2>. QED  BY <1>2, <2>5
<1>10. TailIs(v, 0, k, Shape(v))
  <2>1. 0 \in 0 .. Len(v) /\ k \in 0 .. Len(v)
    BY <1>5, <1>6
  <2>2. TailIs(v, 0, k, Shape(SubSeq(v, 0 + 1, k)))
    BY <1>6, <1>9, <2>1, ShapeIsTail
  <2>3. SubSeq(v, 0 + 1, k) = v
    <3>1. /\ SubSeq(v, 1, k) \in Seq(Char) /\ Len(SubSeq(v, 1, k)) = k
          /\ \A i \in 1 .. k : SubSeq(v, 1, k)[i] = v[i]
      BY <1>5, <1>6, PrefixText DEF Texts
    <3>2. SubSeq(v, 1, k) = v
      BY <1>6, <3>1, SameText DEF Texts
    <3>3. 0 + 1 = 1
      OBVIOUS
    <3>. QED  BY <3>2, <3>3
  <2>. QED  BY <2>2, <2>3
<1>. QED  BY <1>6, <1>7, <1>8, <1>10 DEF v, r

(* append_journal is stopped in the middle of a record.                    *)
LEMMA TornLined ==
    ASSUME NEW f \in Texts, NEW ls \in Seq(Line), NEW tl, NEW e, Lined(f, ls, tl, e),
           NEW v \in Texts, v # <<>>, v[1] \notin LineEnd, \A i \in 1 .. Len(v) : v[i] # "\n",
           NEW cut, TailIs(v, 0, Len(v), cut)
    PROVE  Lined(f \o v, ls, TornTail(tl, cut), e)
<1>. DEFINE n == Len(ls)
            g == f \o v
<1>1. n \in Nat /\ Ends(f, n, e) /\ TailIs(f, e[n], Len(f), tl) /\ tl \in Tail_
  BY DEF Lined, TailIs, Tail_, Cut
<1>2. /\ g \in Texts /\ Len(g) = Len(f) + Len(v)
      /\ \A i \in 1 .. Len(f) : g[i] = f[i]
      /\ \A i \in 1 .. Len(v) : g[Len(f) + i] = v[i]
  BY ConcatText
<1>3. Agree(f, g, Len(f)) /\ Len(f) \in Nat /\ Len(v) \in Nat /\ Len(v) >= 1
  BY AgreeConcat DEF Texts
<1>4. Ends(g, n, e)
  BY <1>1, EndsGrow
<1>5. /\ \A i \in 0 .. n : e[i] \in 0 .. Len(f) /\ e[i] \in Nat
      /\ \A i \in 1 .. n : i - 1 \in 0 .. n /\ i \in 0 .. n
      /\ n \in 0 .. n
  BY <1>1, EndsType
<1>. DEFINE a == e[n]
<1>6. a \in 0 .. Len(f) /\ a \in Nat /\ TailIs(f, a, Len(f), tl)
  BY <1>1, <1>5
<1>. HIDE DEF g, a
<1>7. ASSUME NEW i \in 1 .. n PROVE LineIs(g, e[i - 1], e[i], ls[i].event)
  <2>1. LineIs(f, e[i - 1], e[i], ls[i].event)
    BY DEF Lined
  <2>. QED  BY <1>3, <1>5, <2>1, SameLine
<1>8. TailIs(g, a, Len(g), TornTail(tl, cut))
  <2>1. CASE tl \in {"tab", "text"}
    <3>1. PICK p \in a + 1 .. Len(f) : FirstTab(g, a, p) /\ g[p + 1] \notin LineEnd
      BY <1>6, <2>1, GluedText DEF g
    <3>2. p \in a + 1 .. Len(g) - 1
      BY <1>2, <1>3, <1>6
    <3>3. TornTail(tl, cut) = "text"
      BY <2>1 DEF TornTail
    <3>. QED  BY <3>1, <3>2, <3>3 DEF TailIs
  <2>2. CASE tl \in {"none", "bare"}
    <3>1. TornTail(tl, cut) = cut
      BY <2>2 DEF TornTail
    <3>2. CASE cut = "none"
      BY <1>3, <3>2 DEF TailIs
    <3>3. CASE cut = "bare"
      <4>1. \A j \in 1 .. Len(v) : v[j] # "\t"
        BY <3>3 DEF TailIs
      <4>2. \A j \in a + 1 .. Len(f) : f[j] # "\t"
        BY <1>3, <1>6, <2>2 DEF TailIs
      <4>3. ASSUME NEW j \in a + 1 .. Len(g) PROVE g[j] # "\t"
        <5>1. CASE j <= Len(f)
          <6>1. j \in a + 1 .. Len(f) /\ j \in 1 .. Len(f)
            BY <1>3, <1>6, <5>1
          <6>. QED  BY <1>2, <4>2, <6>1
        <5>2. CASE ~(j <= Len(f))
          <6>1. j - Len(f) \in 1 .. Len(v) /\ Len(f) + (j - Len(f)) = j
            BY <1>2, <1>3, <1>6, <5>2
          <6>. QED  BY <1>2, <4>1, <6>1
        <5>. QED  BY <5>1, <5>2
      <4>4. a < Len(g)
        BY <1>2, <1>3, <1>6
      <4>. QED  BY <3>1, <3>3, <4>3, <4>4 DEF TailIs
    <3>4. CASE cut = "tab"
      <4>1. FirstTab(v, 0, Len(v)) /\ Len(v) \in 1 .. Len(v)
        BY <1>3, <3>4 DEF TailIs
      <4>2. FirstTab(g, a, Len(f) + Len(v))
        BY <1>6, <2>2, <4>1, GluedTab DEF g
      <4>. QED  BY <1>2, <3>1, <3>4, <4>2 DEF TailIs
    <3>5. CASE cut = "text"
      <4>1. PICK p \in 0 + 1 .. Len(v) - 1 : FirstTab(v, 0, p) /\ v[p + 1] \notin LineEnd
        BY <3>5 DEF TailIs
      <4>2. p \in 1 .. Len(v) /\ p + 1 \in 1 .. Len(v) /\ Len(f) + p + 1 = Len(f) + (p + 1)
        BY <1>3
      <4>3. FirstTab(g, a, Len(f) + p)
        BY <1>6, <2>2, <4>1, <4>2, GluedTab DEF g
      <4>4. g[Len(f) + p + 1] = v[p + 1]
        BY <1>2, <4>2
      <4>5. Len(f) + p \in a + 1 .. Len(g) - 1
        BY <1>2, <1>3, <1>6
      <4>. QED  BY <3>1, <3>5, <4>1, <4>3, <4>4, <4>5 DEF TailIs
    <3>. QED  BY <3>2, <3>3, <3>4, <3>5 DEF TailIs
  <2>. QED  BY <1>1, <2>1, <2>2 DEF Tail_, Cut
<1>. QED  BY <1>4, <1>7, <1>8 DEF Lined, g, a

(* A power loss keeps the first k characters: the lines that end there, a  *)
(* tail behind them, and no other line.                                    *)
KeptLines(ls, g) == SubSeq(ls, 1, Min({Len(ls), Cardinality(Newlines(g))}))

StillLined(ls, g, e, m) ==
    /\ m \in 0 .. Len(ls) /\ Len(KeptLines(ls, g)) = m /\ e[m] <= Len(g)
    /\ Lined(g, KeptLines(ls, g), Shape(LastLine(g)), [i \in 0 .. m |-> e[i]])

LEMMA LoseLined ==
    ASSUME NEW f \in Texts, NEW ls \in Seq(Line), NEW tl, NEW e, Lined(f, ls, tl, e),
           NEW k \in 0 .. Len(f) - 1
    PROVE  \E m : StillLined(ls, SubSeq(f, 1, k), e, m)
<1>. DEFINE n == Len(ls)
            g == SubSeq(f, 1, k)
<1>1. n \in Nat /\ Ends(f, n, e) /\ TailIs(f, e[n], Len(f), tl)
  BY DEF Lined
<1>2. Len(f) \in Nat /\ k \in Nat /\ k \in 0 .. Len(f) /\ k < Len(f)
  BY DEF Texts
<1>3. g \in Texts /\ Len(g) = k /\ \A i \in 1 .. k : g[i] = f[i]
  BY <1>2, PrefixText
<1>. HIDE DEF g
<1>4. Agree(f, g, k)
  BY <1>3 DEF Agree
<1>5. /\ \A i \in 0 .. n : e[i] \in 0 .. Len(f) /\ e[i] \in Nat
      /\ \A i \in 1 .. n : i - 1 \in 0 .. n /\ i \in 0 .. n /\ e[i - 1] < e[i]
      /\ n \in 0 .. n
  BY <1>1, EndsType
<1>. DEFINE T == {i \in 0 .. n : e[i] <= k}
            m == Max(T)
<1>6. m \in 0 .. n /\ e[m] <= k /\ \A i \in 0 .. n : e[i] <= k => i <= m
  <2>1. 0 \in T
    BY <1>1, <1>2 DEF Ends
  <2>2. m \in T /\ \A x \in T : x <= m
    <3>1. T \in SUBSET (0 .. n) /\ T # {}
      BY <2>1
    <3>. HIDE DEF T
    <3>. QED  BY <1>1, <3>1, MaxIsGreatest
  <2>. HIDE DEF m
  <2>. QED  BY <2>2
<1>. HIDE DEF m
<1>7. \A i \in 0 .. m : i \in 0 .. n /\ e[i] \in 0 .. k
  <2>. SUFFICES ASSUME NEW i \in 0 .. m PROVE i \in 0 .. n /\ e[i] \in 0 .. k
    OBVIOUS
  <2>1. i \in 0 .. n /\ (i = m \/ i < m)
    BY <1>6
  <2>2. e[i] <= e[m] /\ e[i] \in Nat /\ e[m] \in Nat
    BY <1>1, <1>5, <1>6, <2>1 DEF Ends
  <2>. QED  BY <1>2, <1>6, <2>1, <2>2
<1>8. \A i \in 1 .. m : i \in 1 .. n /\ i \in 0 .. m /\ e[i] \in 1 .. k
  <2>. SUFFICES ASSUME NEW i \in 1 .. m PROVE i \in 1 .. n /\ i \in 0 .. m /\ e[i] \in 1 .. k
    OBVIOUS
  <2>1. i \in 1 .. n /\ i \in 0 .. m
    BY <1>6
  <2>2. e[i] > 0
    BY <1>5, <2>1
  <2>. QED  BY <1>2, <1>7, <2>1, <2>2
<1>. DEFINE d == [i \in 0 .. m |-> e[i]]
<1>9. \A i \in 0 .. m : d[i] = e[i]
  OBVIOUS
<1>10. \A p \in 1 .. k : g[p] = "\n" => \E i \in 1 .. m : p = e[i]
  <2>. SUFFICES ASSUME NEW p \in 1 .. k, g[p] = "\n" PROVE \E i \in 1 .. m : p = e[i]
    OBVIOUS
  <2>1. p \in 1 .. Len(f) /\ f[p] = "\n"
    BY <1>2, <1>3
  <2>2. PICK i \in 1 .. n : p = e[i]
    BY <1>1, <2>1 DEF Ends
  <2>3. i \in 0 .. n /\ e[i] <= k
    BY <1>2, <2>2
  <2>. QED  BY <1>6, <2>2, <2>3
<1>11. \A i \in 1 .. m : g[e[i]] = "\n"
  <2>. SUFFICES ASSUME NEW i \in 1 .. m PROVE g[e[i]] = "\n"
    OBVIOUS
  <2>1. g[e[i]] = f[e[i]] /\ f[e[i]] = "\n"
    BY <1>1, <1>3, <1>8 DEF Ends
  <2>. QED  BY <2>1
<1>12. Ends(g, m, d)
  <2>1. d \in [0 .. m -> 0 .. Len(g)]
    BY <1>3, <1>7
  <2>2. d[0] = 0
    BY <1>1, <1>6 DEF Ends
  <2>3. \A i, j \in 0 .. m : i < j => d[i] < d[j]
    BY <1>1, <1>7 DEF Ends
  <2>4. \A i \in 1 .. m : g[d[i]] = "\n"
    BY <1>8, <1>11
  <2>5. \A p \in 1 .. Len(g) : g[p] = "\n" => \E i \in 1 .. m : p = d[i]
    BY <1>3, <1>8, <1>10
  <2>. HIDE DEF d
  <2>. QED  BY <2>1, <2>2, <2>3, <2>4, <2>5 DEF Ends
<1>13. Cardinality(Newlines(g)) = m
  <2>. DEFINE h == [i \in 1 .. m |-> e[i]]
  <2>1. \A i \in 1 .. m : e[i] \in Newlines(g)
    BY <1>3, <1>8, <1>11 DEF Newlines
  <2>2. h \in [1 .. m -> Newlines(g)]
    BY <2>1
  <2>3. \A i, j \in 1 .. m : h[i] = h[j] => i = j
    <3>. SUFFICES ASSUME NEW i \in 1 .. m, NEW j \in 1 .. m, i < j PROVE e[i] < e[j]
      <4>1. \A i, j \in 1 .. m : i < j => e[i] < e[j]
        OBVIOUS
      <4>2. \A i \in 1 .. m : e[i] \in Nat
        BY <1>5, <1>8
      <4>. QED  BY <1>6, <4>1, <4>2
    <3>1. i \in 0 .. n /\ j \in 0 .. n
      BY <1>5, <1>8
    <3>. QED  BY <1>1, <3>1 DEF Ends
  <2>4. \A p \in Newlines(g) : \E i \in 1 .. m : h[i] = p
    <3>. SUFFICES ASSUME NEW p \in Newlines(g) PROVE \E i \in 1 .. m : e[i] = p
      OBVIOUS
    <3>1. p \in 1 .. k /\ g[p] = "\n"
      BY <1>3 DEF Newlines
    <3>. QED  BY <1>10, <3>1
  <2>. HIDE DEF h
  <2>5. h \in Bijection(1 .. m, Newlines(g))
    BY <2>2, <2>3, <2>4, Fun_IsBij
  <2>6. ExistsBijection(1 .. m, Newlines(g))
    BY <2>5 DEF ExistsBijection
  <2>7. m \in Nat
    BY <1>6
  <2>. QED  BY <2>6, <2>7, FS_CountingElements
<1>14. Min({n, Cardinality(Newlines(g))}) = m
  <2>. DEFINE U == {n, m}
  <2>1. U \in SUBSET Nat /\ U # {}
    BY <1>1, <1>6
  <2>2. Min(U) \in U /\ \A x \in U : Min(U) <= x
    <3>. HIDE DEF U
    <3>. QED  BY <2>1, MinIsLeast
  <2>3. Min(U) = m
    BY <1>1, <1>6, <2>2
  <2>. QED  BY <1>13, <2>3
<1>. DEFINE ms == SubSeq(ls, 1, m)
<1>15. ms \in Seq(Line) /\ Len(ms) = m /\ \A i \in 1 .. m : ms[i] = ls[i]
  <2>1. m \in Nat /\ m \in Int /\ 1 \in Int /\ m - 1 + 1 = m /\ (1 <= m \/ m = 0)
    BY <1>1, <1>6
  <2>2. \A i \in 1 .. m : ls[i] \in Line
    <3>1. \A i \in 1 .. n : ls[i] \in Line
      OBVIOUS
    <3>. QED  BY <1>8, <3>1
  <2>3. /\ ms \in Seq(Line) /\ Len(ms) = IF 1 <= m THEN m - 1 + 1 ELSE 0
        /\ \A i \in 1 .. m - 1 + 1 : ms[i] = ls[1 + i - 1]
    BY <2>1, <2>2, SubSeqProperties
  <2>4. \A i \in 1 .. m : 1 + i - 1 = i
    BY <2>1
  <2>. HIDE DEF ms
  <2>. QED  BY <2>1, <2>3, <2>4
<1>. HIDE DEF ms
<1>16. \A i \in 1 .. m : LineIs(g, d[i - 1], d[i], ms[i].event)
  <2>. SUFFICES ASSUME NEW i \in 1 .. m PROVE LineIs(g, d[i - 1], d[i], ms[i].event)
    OBVIOUS
  <2>1. i \in 0 .. m /\ i - 1 \in 0 .. m /\ i \in 1 .. n
    BY <1>6, <1>8
  <2>2. LineIs(f, e[i - 1], e[i], ls[i].event)
    BY <2>1 DEF Lined
  <2>3. e[i - 1] \in Nat /\ e[i] \in 0 .. k
    BY <1>7, <2>1
  <2>4. LineIs(g, e[i - 1], e[i], ls[i].event)
    BY <1>2, <1>4, <2>2, <2>3, SameLine
  <2>. QED  BY <1>9, <1>15, <2>1, <2>4
<1>17. m \in 0 .. m /\ m \in Nat /\ e[m] \in 0 .. k /\ e[m] \in Nat /\ d[m] = e[m]
  BY <1>6, <1>7
<1>18. Uncut(g, e[m], k)
  <2>1. CASE m = n
    <3>1. Uncut(f, e[m], Len(f))
      BY <1>1, <1>2, <1>17, <2>1, TailUncut
    <3>. QED  BY <1>2, <1>4, <1>17, <3>1, UncutPart
  <2>2. CASE m # n
    <3>1. m + 1 \in 1 .. n /\ m + 1 \in 0 .. n /\ m + 1 - 1 = m
      BY <1>6, <2>2
    <3>2. LineIs(f, e[m], e[m + 1], ls[m + 1].event)
      <4>1. PICK i \in 1 .. n : i = m + 1 /\ i - 1 = m
        BY <1>17, <3>1
      <4>2. LineIs(f, e[i - 1], e[i], ls[i].event)
        BY DEF Lined
      <4>. QED  BY <4>1, <4>2
    <3>3. e[m + 1] \in Nat /\ k <= e[m + 1]
      BY <1>2, <1>5, <1>6, <1>17, <3>1
    <3>4. Uncut(f, e[m], e[m + 1])
      BY <1>17, <3>2, <3>3, LineUncut
    <3>. QED  BY <1>2, <1>4, <1>17, <3>3, <3>4, UncutPart
  <2>. QED  BY <2>1, <2>2
<1>19. TailIs(g, d[m], Len(g), Shape(LastLine(g)))
  <2>1. LastLine(g) = SubSeq(g, d[m] + 1, Len(g))
    BY <1>3, <1>12, <1>17, LastLineIs
  <2>2. d[m] \in 0 .. Len(g) /\ Len(g) \in d[m] .. Len(g)
    BY <1>3, <1>17
  <2>. QED  BY <1>3, <1>17, <1>18, <2>1, <2>2, ShapeIsTail
<1>20. Lined(g, ms, Shape(LastLine(g)), d)
  BY <1>12, <1>15, <1>16, <1>19 DEF Lined
<1>21. KeptLines(ls, g) = ms
  BY <1>14 DEF ms, KeptLines
<1>22. StillLined(ls, g, e, m)
  BY <1>3, <1>6, <1>15, <1>20, <1>21 DEF StillLined
<1>. QED  BY <1>22 DEF g

(* What handle_request has of a body that some client has sent.            *)
LEMMA SubmittedText ==
    ASSUME NEW t \in Sent, NEW k \in 1 .. Len(Body(t)), NEW x,
           x = Raw(SubSeq(Body(t), 1, k)), x # NoEvent
    PROVE  x \in Event /\ x \in Texts /\ x # <<>> /\ Len(x) < FieldCap
<1>1. t \in Texts /\ Body(t) \in Texts
  BY SentText, BodyText
<1>2. k \in 0 .. Len(Body(t))
  BY <1>1 DEF Texts
<1>3. SubSeq(Body(t), 1, k) \in Texts
  BY <1>1, <1>2, PrefixText
<1>4. x \in Event \cup {NoEvent} /\ NoEvent = <<>>
  BY TextAssumption
<1>. QED  BY <1>3, <1>4, RawFits

LEMMA WholeBody ==
    ASSUME NEW t \in Sent
    PROVE  Len(Body(t)) \in 1 .. Len(Body(t)) /\ SubSeq(Body(t), 1, Len(Body(t))) = Body(t)
<1>. DEFINE s == Body(t)
            k == Len(s)
<1>1. t \in Texts /\ s \in Texts /\ k = Len(Encode(t)) + 1
  BY SentText, BodyText
<1>2. k \in 1 .. k /\ k \in 0 .. k
  <2>1. Len(Encode(t)) \in Nat
    BY <1>1, BodyText DEF Texts
  <2>. QED  BY <1>1, <2>1
<1>. HIDE DEF s
<1>3. SubSeq(s, 1, k) \in Texts /\ Len(SubSeq(s, 1, k)) = k /\ \A i \in 1 .. k : SubSeq(s, 1, k)[i] = s[i]
  BY <1>1, <1>2, PrefixText
<1>4. SubSeq(s, 1, k) = s
  BY <1>1, <1>3, SameText DEF Texts
<1>. QED  BY <1>2, <1>4 DEF s

LEMMA FileInit_FileInv == FileInit => FileInv
<1>. SUFFICES ASSUME FileInit PROVE FileInv
  OBVIOUS
<1>1. file = <<>> /\ lines = <<>> /\ tail = "none"
  BY DEF FileInit
<1>. DEFINE e == [i \in 0 .. 0 |-> 0]
<1>2. Ends(<<>>, 0, e)
  BY DEF Ends
<1>3. TailIs(<<>>, e[0], 0, "none")
  BY DEF TailIs
<1>4. Len(<<>>) = 0 /\ <<>> \in Texts /\ <<>> \in Seq(Line) /\ writes \in Nat
  BY DEF Texts, FileInit
<1>. HIDE DEF e
<1>5. Lined(<<>>, <<>>, "none", e)
  BY <1>2, <1>3, <1>4 DEF Lined
<1>. QED  BY <1>1, <1>4, <1>5 DEF FileInv

LEMMA WriteFileInv ==
    ASSUME FileInv, NEW c \in Conn, NEW t \in Sent, NEW k \in 1 .. Len(Body(t)),
           Write(c, t, SubSeq(Body(t), 1, k))
    PROVE  FileInv'
<1>. DEFINE x == Raw(SubSeq(Body(t), 1, k))
<1>1. x # NoEvent /\ ~several /\ several' = ~SingleLine(x)
      /\ file' = file \o Record(x) /\ lines' = Append(lines, WholeLine(tail, c, x)) /\ tail' = "none"
  BY DEF Write, Submitted
<1>2. x \in Event /\ x \in Texts /\ x # <<>> /\ Len(x) < FieldCap
  BY <1>1, SubmittedText
<1>. HIDE DEF x
<1>3. file' \in Texts
  <2>1. Record(x) \in Texts /\ file \in Texts
    BY <1>2, RecordText DEF FileInv
  <2>. QED  BY <1>1, <2>1, ConcatText
<1>4. lines' \in Seq(Line)
  <2>1. WholeLine(tail, c, x) \in Line
    BY <1>2 DEF WholeLine, Line, Text
  <2>. QED  BY <1>1, <2>1, AppendProperties DEF FileInv
<1>5. ASSUME ~several' PROVE \E e : Lined(file', lines', tail', e)
  <2>1. PICK e : Lined(file, lines, tail, e)
    BY <1>1 DEF FileInv
  <2>2. Lined(file \o Record(x), Append(lines, WholeLine(tail, c, x)), "none",
              NextEnd(e, Len(lines), file \o Record(x)))
    BY <1>1, <1>2, <1>5, <2>1, WriteLined DEF FileInv
  <2>. QED  BY <1>1, <2>2
<1>6. writes' \in Nat
  BY DEF FileInv, Write, Submitted
<1>. QED  BY <1>3, <1>4, <1>5, <1>6 DEF FileInv

LEMMA TornFileInv ==
    ASSUME FileInv, NEW t \in Sent, NEW k \in 1 .. Len(Record(Raw(Body(t)))) - 1, WriteTorn(t, k)
    PROVE  FileInv'
<1>. DEFINE x == Raw(Body(t))
            v == SubSeq(Record(x), 1, k)
<1>1. x # NoEvent /\ ~several /\ several' = ~SingleLine(x)
      /\ file' = file \o v /\ lines' = lines /\ tail' = TornTail(tail, Shape(v))
  BY DEF WriteTorn, Submitted
<1>2. x \in Texts /\ x # <<>>
  BY <1>1, WholeBody, SubmittedText
<1>. HIDE DEF x
<1>3. Record(x) \in Texts /\ k \in 0 .. Len(Record(x))
  <2>1. Record(x) \in Texts /\ k \in 1 .. Len(Record(x)) - 1
    BY <1>2, RecordText DEF x
  <2>. QED  BY <2>1 DEF Texts
<1>4. v \in Texts /\ Len(v) = k
  BY <1>3, PrefixText
<1>5. file' \in Texts
  BY <1>1, <1>4, ConcatText DEF FileInv
<1>6. ASSUME ~several' PROVE Lined(file', lines', tail', CHOOSE e : Lined(file, lines, tail, e))
  <2>1. k \in 1 .. Len(Record(x)) - 1
    BY DEF x
  <2>2. /\ v # <<>> /\ v[1] \notin LineEnd /\ \A i \in 1 .. Len(v) : v[i] # "\n"
        /\ TailIs(v, 0, Len(v), Shape(v))
    BY <1>1, <1>2, <1>4, <1>6, <2>1, CutRecord
  <2>. HIDE DEF v
  <2>3. PICK e : e = CHOOSE d : Lined(file, lines, tail, d)
    OBVIOUS
  <2>4. Lined(file, lines, tail, e)
    BY <1>1, <2>3 DEF FileInv
  <2>5. Lined(file \o v, lines, TornTail(tail, Shape(v)), e)
    BY <1>4, <2>2, <2>4, TornLined DEF FileInv
  <2>. QED  BY <1>1, <2>3, <2>5
<1>7. writes' \in Nat
  BY DEF FileInv, WriteTorn, Submitted
<1>. QED  BY <1>1, <1>5, <1>6, <1>7 DEF FileInv

LEMMA LoseFileInv ==
    ASSUME FileInv, NEW k \in 0 .. Len(file) - 1, Lose(k)
    PROVE  FileInv'
<1>. DEFINE g == SubSeq(file, 1, k)
            q == Min({Len(lines), Cardinality(Newlines(g))})
<1>1. file' = g /\ lines' = SubSeq(lines, 1, q) /\ tail' = Shape(LastLine(g)) /\ several' = several
  BY DEF Lose
<1>2. file \in Texts /\ lines \in Seq(Line) /\ Len(file) \in Nat /\ Len(lines) \in Nat
  BY DEF FileInv, Texts
<1>3. file' \in Texts /\ g \in Texts
  <2>1. k \in 0 .. Len(file)
    BY <1>2
  <2>. QED  BY <1>1, <1>2, <2>1, PrefixText
<1>4. q \in 0 .. Len(lines)
  <2>. DEFINE U == {Len(lines), Cardinality(Newlines(g))}
  <2>1. Cardinality(Newlines(g)) \in Nat
    <3>1. Newlines(g) \in SUBSET (1 .. Len(g)) /\ Len(g) \in Nat
      BY <1>3 DEF Newlines, Texts
    <3>2. IsFiniteSet(1 .. Len(g))
      BY <3>1, 1 \in Int, Len(g) \in Int, FS_Interval
    <3>3. IsFiniteSet(Newlines(g))
      BY <3>1, <3>2, FS_Subset
    <3>. QED  BY <3>3, FS_CardinalityType
  <2>2. U \in SUBSET Nat /\ U # {} /\ Len(lines) \in U
    BY <1>2, <2>1
  <2>3. Min(U) \in U /\ \A y \in U : Min(U) <= y
    <3>. HIDE DEF U
    <3>. QED  BY <2>2, MinIsLeast
  <2>4. Min(U) \in Nat /\ Min(U) <= Len(lines)
    <3>. HIDE DEF U
    <3>. QED  BY <2>2, <2>3
  <2>. QED  BY <1>2, <2>4
<1>5. lines' \in Seq(Line)
  <2>. HIDE DEF q
  <2>1. q \in Int /\ 1 \in Int /\ \A i \in 1 .. q : lines[i] \in Line
    BY <1>2, <1>4
  <2>. QED  BY <1>1, <2>1, SubSeqProperties
<1>6. ASSUME ~several' PROVE \E e : Lined(file', lines', tail', e)
  <2>1. PICK e : Lined(file, lines, tail, e)
    BY <1>1, <1>6 DEF FileInv
  <2>2. \E d : Lined(g, SubSeq(lines, 1, q), Shape(LastLine(g)), d)
    BY <1>2, <2>1, LoseLined DEF StillLined, KeptLines
  <2>. QED  BY <1>1, <2>2
<1>7. writes' \in Nat
  BY DEF FileInv, Lose
<1>. QED  BY <1>3, <1>5, <1>6, <1>7 DEF FileInv

LEMMA FileStep == FileInv /\ [FileNext]_fileVars => FileInv'
<1>. SUFFICES ASSUME FileInv, [FileNext]_fileVars PROVE FileInv'
  OBVIOUS
<1>1. CASE UNCHANGED fileVars
  BY <1>1 DEF FileInv, Lined, fileVars, history
<1>. QED  BY <1>1, WriteFileInv, TornFileInv, LoseFileInv DEF FileNext

LEMMA FileLined == FileSpec => []FileInv
BY FileInit_FileInv, FileStep, PTL DEF FileSpec

(* LosesOnlyTail: a power loss that takes no whole line leaves a beginning *)
(* of the tail, which is one of the tails that Journal allows for it.      *)
THEOREM LossIsInTheTail == FileSpec => LosesOnlyTail
<1>. DEFINE A == ~several /\ writes' = writes /\ Len(lines') = Len(lines) => tail' \in Remains[tail]
<1>1. FileInv /\ [FileNext]_fileVars => [A]_fileVars
  <2>. SUFFICES ASSUME FileInv, FileNext, ~several, writes' = writes, Len(lines') = Len(lines)
       PROVE  tail' \in Remains[tail]
    BY DEF fileVars
  <2>1. PICK k \in 0 .. Len(file) - 1 : Lose(k)
    BY DEF FileInv, FileNext, Write, WriteTorn, Submitted
  <2>. DEFINE g == SubSeq(file, 1, k)
              n == Len(lines)
  <2>2. /\ lines' = SubSeq(lines, 1, Min({n, Cardinality(Newlines(g))}))
        /\ tail' = Shape(LastLine(g))
    BY <2>1 DEF Lose
  <2>3. file \in Texts /\ lines \in Seq(Line) /\ Len(file) \in Nat
    BY DEF FileInv, Texts
  <2>4. PICK e : Lined(file, lines, tail, e)
    BY DEF FileInv
  <2>5. PICK m \in 0 .. n : /\ Len(lines') = m /\ e[m] <= k
                            /\ Lined(g, lines', Shape(LastLine(g)), [i \in 0 .. m |-> e[i]])
    <3>1. PICK m : StillLined(lines, g, e, m)
      BY <2>3, <2>4, LoseLined
    <3>2. lines' = KeptLines(lines, g)
      BY <2>2 DEF KeptLines
    <3>3. Len(g) = k
      <4>1. k \in 0 .. Len(file)
        BY <2>3
      <4>. QED  BY <2>3, <4>1, PrefixText
    <3>. QED  BY <3>1, <3>2, <3>3 DEF StillLined
  <2>6. m = n /\ n \in 0 .. n
    BY <2>5
  <2>7. g \in Texts /\ Len(g) = k /\ Agree(file, g, k) /\ k <= Len(file) /\ k \in Nat
    <3>1. k \in 0 .. Len(file)
      BY <2>3
    <3>. QED  BY <2>3, <3>1, PrefixText DEF Agree
  <2>. HIDE DEF g
  <2>8. TailIs(g, e[n], k, tail')
    <3>. DEFINE d == [i \in 0 .. m |-> e[i]]
    <3>1. TailIs(g, d[Len(lines')], Len(g), Shape(LastLine(g)))
      BY <2>5 DEF Lined
    <3>2. d[Len(lines')] = e[n]
      BY <2>5, <2>6
    <3>. QED  BY <2>2, <2>7, <3>1, <3>2
  <2>9. TailIs(file, e[n], Len(file), tail) /\ e[n] \in Nat
    <3>1. TailIs(file, e[n], Len(file), tail) /\ Ends(file, n, e)
      BY <2>4 DEF Lined
    <3>. QED  BY <2>3, <2>6, <3>1, EndsType
  <2>. QED  BY <2>3, <2>7, <2>8, <2>9, PartOfTail
<1>. QED  BY <1>1, FileLined, PTL DEF FileSpec, LosesOnlyTail

-------------------------------------------------------------------------------
(* load_journal *)

LEMMA StripShape ==
    ASSUME NEW s \in Texts
    PROVE  \E n \in 0 .. Len(s) :
               /\ Strip(s) \in Texts /\ Len(Strip(s)) = n
               /\ \A i \in 1 .. n : Strip(s)[i] = s[i]
               /\ \A i \in 1 .. Len(s) : i > n => s[i] \in LineEnd
               /\ n > 0 => s[n] \notin LineEnd
<1>. DEFINE text == {i \in 1 .. Len(s) : s[i] \notin {"\n", "\r"}}
            n == IF text = {} THEN 0 ELSE Max(text)
<1>1. Len(s) \in Nat /\ text \in SUBSET (0 .. Len(s))
  BY DEF Texts
<1>2. n \in 0 .. Len(s) /\ (n > 0 => n \in text) /\ \A i \in text : i <= n
  <2>1. CASE text = {}
    BY <1>1, <2>1
  <2>2. CASE text # {}
    <3>1. Max(text) \in text /\ \A x \in text : x <= Max(text)
      <4>. HIDE DEF text
      <4>. QED  BY <1>1, <2>2, MaxIsGreatest
    <3>. HIDE DEF text
    <3>. QED  BY <1>1, <2>2, <3>1
  <2>. QED  BY <2>1, <2>2
<1>3. Strip(s) = SubSeq(s, 1, n)
  BY DEF Strip
<1>. HIDE DEF n
<1>4. Strip(s) \in Texts /\ Len(Strip(s)) = n /\ \A i \in 1 .. n : Strip(s)[i] = s[i]
  BY <1>2, <1>3, PrefixText
<1>5. \A i \in 1 .. Len(s) : i > n => s[i] \in LineEnd
  BY <1>1, <1>2 DEF LineEnd
<1>6. n > 0 => s[n] \notin LineEnd
  BY <1>2 DEF LineEnd
<1>. QED  BY <1>2, <1>4, <1>5, <1>6

Metrics_ == [requests : Nat, last_event : Texts]

(* Without a TAB the line is skipped.                                      *)
LEMMA LoadNoTab ==
    ASSUME NEW m, NEW l, \A i \in 1 .. Len(l) : l[i] # "\t"
    PROVE  LoadLine(m, l) = m
<1>1. {i \in 1 .. Len(l) : l[i] = "\t"} = {}
  OBVIOUS
<1>. QED  BY <1>1 DEF LoadLine

(* What LoadLine makes of a line whose first TAB is at place p.            *)
LEMMA LoadTab ==
    ASSUME NEW m \in Metrics_, NEW l \in Texts, NEW p \in 1 .. Len(l), FirstTab(l, 0, p)
    PROVE  LET ev == Strip(SubSeq(l, p + 1, Len(l))) IN
           /\ ev = <<>> => LoadLine(m, l) = m
           /\ ev # <<>> => /\ LoadLine(m, l) \in Metrics_
                           /\ LoadLine(m, l).requests = m.requests + 1
                           /\ Len(ev) < FieldCap => LoadLine(m, l).last_event = ev
<1>. DEFINE tabs == {i \in 1 .. Len(l) : l[i] = "\t"}
            ev == Strip(SubSeq(l, p + 1, Len(l)))
<1>1. Len(l) \in Nat /\ p \in Nat
  BY DEF Texts
<1>2. p \in tabs /\ \A i \in tabs : p <= i
  BY <1>1 DEF FirstTab
<1>3. Min(tabs) = p
  <2>1. tabs \in SUBSET Nat /\ tabs # {}
    BY <1>2
  <2>2. Min(tabs) \in tabs /\ \A x \in tabs : Min(tabs) <= x
    <3>. HIDE DEF tabs
    <3>. QED  BY <2>1, MinIsLeast
  <2>3. Min(tabs) \in Nat /\ Min(tabs) <= p /\ p <= Min(tabs)
    <3>. HIDE DEF tabs
    <3>. QED  BY <1>2, <2>1, <2>2
  <2>. HIDE DEF tabs
  <2>. QED  BY <1>1, <2>3
<1>. DEFINE q == Min({Len(ev), FieldCap - 1})
            new == [requests |-> m.requests + 1, last_event |-> SubSeq(ev, 1, q)]
<1>4. LoadLine(m, l) = IF ev = <<>> THEN m ELSE new
  <2>1. tabs # {}
    BY <1>2
  <2>2. LoadLine(m, l) =
           IF tabs = {} \/ Strip(SubSeq(l, Min(tabs) + 1, Len(l))) = <<>> THEN m
           ELSE [requests |-> m.requests + 1,
                 last_event |-> SubSeq(Strip(SubSeq(l, Min(tabs) + 1, Len(l))), 1,
                     Min({Len(Strip(SubSeq(l, Min(tabs) + 1, Len(l)))), FieldCap - 1}))]
    BY DEF LoadLine
  <2>. HIDE DEF tabs
  <2>. QED  BY <1>3, <2>1, <2>2
<1>5. ev \in Texts
  <2>1. p \in 0 .. Len(l) /\ Len(l) \in p .. Len(l)
    BY <1>1
  <2>2. SubSeq(l, p + 1, Len(l)) \in Texts
    BY <2>1, SegmentText
  <2>. QED  BY <2>2, StripShape
<1>. HIDE DEF ev
<1>6. Len(ev) \in Nat /\ q \in 0 .. Len(ev) /\ (Len(ev) < FieldCap => q = Len(ev))
  <2>. DEFINE U == {Len(ev), FieldCap - 1}
  <2>1. Len(ev) \in Nat /\ FieldCap - 1 \in Nat
    BY <1>5, FieldNumbers DEF Texts
  <2>2. U \in SUBSET Nat /\ U # {} /\ Len(ev) \in U
    BY <2>1
  <2>3. Min(U) \in U /\ \A x \in U : Min(U) <= x
    <3>. HIDE DEF U
    <3>. QED  BY <2>2, MinIsLeast
  <2>4. Min(U) \in 0 .. Len(ev)
    <3>1. Min(U) \in Nat /\ Min(U) <= Len(ev)
      <4>. HIDE DEF U
      <4>. QED  BY <2>2, <2>3
    <3>. QED  BY <2>1, <3>1
  <2>5. ASSUME Len(ev) < FieldCap PROVE Min(U) = Len(ev)
    <3>1. Len(ev) <= FieldCap - 1
      BY <2>1, <2>5, FieldNumbers
    <3>2. Min(U) = Len(ev) \/ Min(U) = FieldCap - 1
      BY <2>3
    <3>. QED  BY <2>1, <2>4, <3>1, <3>2
  <2>. QED  BY <2>1, <2>4, <2>5
<1>. HIDE DEF q
<1>7. /\ SubSeq(ev, 1, q) \in Texts /\ Len(SubSeq(ev, 1, q)) = q
      /\ \A i \in 1 .. q : SubSeq(ev, 1, q)[i] = ev[i]
  BY <1>5, <1>6, PrefixText
<1>8. new \in Metrics_ /\ new.requests = m.requests + 1 /\ new.last_event = SubSeq(ev, 1, q)
  <2>1. m.requests + 1 \in Nat
    BY DEF Metrics_
  <2>. QED  BY <1>7, <2>1 DEF Metrics_
<1>9. Len(ev) < FieldCap => SubSeq(ev, 1, q) = ev
  BY <1>5, <1>6, <1>7, SameText DEF Texts
<1>. HIDE DEF new
<1>10. /\ ev = <<>> => LoadLine(m, l) = m
       /\ ev # <<>> => /\ LoadLine(m, l) \in Metrics_
                       /\ LoadLine(m, l).requests = m.requests + 1
                       /\ Len(ev) < FieldCap => LoadLine(m, l).last_event = ev
  BY <1>4, <1>8, <1>9
<1>. QED  BY <1>10 DEF ev

(* load_journal's metrics stay metrics.                                    *)
LEMMA LoadLineType ==
    ASSUME NEW m \in Metrics_, NEW l \in Texts PROVE LoadLine(m, l) \in Metrics_
<1>. DEFINE tabs == {i \in 1 .. Len(l) : l[i] = "\t"}
<1>1. CASE tabs = {}
  <2>1. \A i \in 1 .. Len(l) : l[i] # "\t"
    BY <1>1
  <2>. QED  BY <2>1, LoadNoTab
<1>2. CASE tabs # {}
  <2>1. tabs \in SUBSET Nat
    OBVIOUS
  <2>2. PICK p \in tabs : \A x \in tabs : p <= x
    <3>. HIDE DEF tabs
    <3>. QED  BY <1>2, <2>1, LeastNumber
  <2>3. p \in 1 .. Len(l) /\ FirstTab(l, 0, p)
    <3>1. p \in 1 .. Len(l) /\ l[p] = "\t" /\ Len(l) \in Nat
      BY DEF Texts
    <3>2. ASSUME NEW j \in 0 + 1 .. p - 1, l[j] = "\t" PROVE FALSE
      <4>1. j \in tabs /\ j < p
        BY <3>1, <3>2
      <4>. QED  BY <2>2, <3>1, <4>1
    <3>. QED  BY <3>1, <3>2 DEF FirstTab
  <2>. QED  BY <2>3, LoadTab
<1>. QED  BY <1>1, <1>2

(* A fragment that ends with its TAB is skipped.                           *)
LEMMA LoadTabOnly ==
    ASSUME NEW m \in Metrics_, NEW l \in Texts, FirstTab(l, 0, Len(l))
    PROVE  LoadLine(m, l) = m
<1>1. Len(l) \in Nat /\ Len(l) \in 1 .. Len(l)
  BY DEF FirstTab, Texts
<1>. DEFINE s == SubSeq(l, Len(l) + 1, Len(l))
<1>2. s \in Texts /\ Len(s) = 0
  <2>1. Len(l) \in 0 .. Len(l) /\ Len(l) \in Len(l) .. Len(l) /\ Len(l) - Len(l) = 0
    BY <1>1
  <2>. QED  BY <2>1, SegmentText
<1>. HIDE DEF s
<1>3. Strip(s) \in Texts /\ Len(Strip(s)) = 0
  BY <1>2, StripShape
<1>4. Strip(s) = <<>>
  BY <1>3 DEF Texts
<1>. QED  BY <1>1, <1>4, LoadTab DEF s

(* A line with some text behind its first TAB is a request.                *)
LEMMA LoadText ==
    ASSUME NEW m \in Metrics_, NEW l \in Texts, NEW p \in 1 .. Len(l) - 1,
           FirstTab(l, 0, p), l[p + 1] \notin LineEnd
    PROVE  LoadLine(m, l).requests = m.requests + 1
<1>. DEFINE s == SubSeq(l, p + 1, Len(l))
<1>1. Len(l) \in Nat /\ p \in Nat /\ p \in 1 .. Len(l) /\ p \in 0 .. Len(l) /\ Len(l) \in p .. Len(l)
  BY DEF Texts
<1>2. s \in Texts /\ Len(s) = Len(l) - p /\ \A i \in 1 .. Len(l) - p : s[i] = l[p + i]
  BY <1>1, SegmentText
<1>. HIDE DEF s
<1>3. 1 \in 1 .. Len(s) /\ s[1] \notin LineEnd
  BY <1>1, <1>2
<1>4. Strip(s) # <<>>
  <2>1. PICK n \in 0 .. Len(s) :
            /\ Len(Strip(s)) = n
            /\ \A i \in 1 .. Len(s) : i > n => s[i] \in LineEnd
    BY <1>2, StripShape
  <2>2. n # 0
    BY <1>3, <2>1
  <2>. QED  BY <2>1, <2>2
<1>. QED  BY <1>1, <1>4, LoadTab DEF s

(* The line of an event is read as that event.                             *)
LEMMA LoadEvent ==
    ASSUME NEW m \in Metrics_, NEW l \in Texts, NEW p \in 1 .. Len(l) - 1, FirstTab(l, 0, p),
           NEW ev, EventIs(l, p, Len(l), ev), l[Len(l)] = "\n"
    PROVE  LoadLine(m, l).last_event = ev
<1>. DEFINE s == SubSeq(l, p + 1, Len(l))
            k == Len(ev)
<1>1. Len(l) \in Nat /\ p \in Nat /\ p \in 1 .. Len(l) /\ p \in 0 .. Len(l) /\ Len(l) \in p .. Len(l)
  BY DEF Texts
<1>2. s \in Texts /\ Len(s) = Len(l) - p /\ \A i \in 1 .. Len(l) - p : s[i] = l[p + i]
  BY <1>1, SegmentText
<1>. HIDE DEF s
<1>3. /\ ev \in Texts /\ k \in Nat /\ k >= 1 /\ k < FieldCap /\ Len(l) = p + k + 1
      /\ ev[k] \notin LineEnd /\ \A i \in 1 .. k : l[p + i] = ev[i]
  BY FieldNumbers DEF EventIs
<1>4. /\ Len(s) = k + 1 /\ \A i \in 1 .. k : s[i] = ev[i]
      /\ s[k + 1] = "\n"
  <2>1. Len(l) - p = k + 1 /\ k + 1 \in 1 .. Len(l) - p /\ p + (k + 1) = Len(l)
    BY <1>1, <1>3
  <2>2. \A i \in 1 .. k : i \in 1 .. Len(l) - p
    BY <1>1, <1>3
  <2>. QED  BY <1>2, <1>3, <2>1, <2>2
<1>5. PICK n \in 0 .. Len(s) :
          /\ Strip(s) \in Texts /\ Len(Strip(s)) = n
          /\ \A i \in 1 .. n : Strip(s)[i] = s[i]
          /\ \A i \in 1 .. Len(s) : i > n => s[i] \in LineEnd
          /\ n > 0 => s[n] \notin LineEnd
  BY <1>2, StripShape
<1>6. n = k
  <2>1. ~(n < k)
    <3>1. k \in 1 .. Len(s) /\ s[k] \notin LineEnd
      BY <1>3, <1>4
    <3>. QED  BY <1>3, <1>5, <3>1
  <2>2. n # k + 1
    BY <1>3, <1>4, <1>5 DEF LineEnd
  <2>. QED  BY <1>3, <1>4, <2>1, <2>2
<1>7. Strip(s) = ev
  BY <1>3, <1>4, <1>5, <1>6, SameText DEF Texts
<1>8. ev # <<>>
  BY <1>3
<1>. QED  BY <1>1, <1>3, <1>7, <1>8, LoadTab DEF s

Reads == [metrics : Metrics_, line : Texts]
NoReads == [metrics |-> [requests |-> 0, last_event |-> <<>>], line |-> <<>>]

LEMMA FeedType == ASSUME NEW r \in Reads, NEW ch \in Char PROVE Feed(r, ch) \in Reads
<1>. DEFINE l == Append(r.line, ch)
<1>1. r.metrics \in Metrics_ /\ r.line \in Texts
  BY DEF Reads
<1>2. l \in Texts /\ <<>> \in Texts
  BY <1>1 DEF Texts
<1>3. LoadLine(r.metrics, l) \in Metrics_
  BY <1>1, <1>2, LoadLineType
<1>4. Feed(r, ch) = IF ch = "\n" \/ Len(l) = LineCap - 1
                    THEN [metrics |-> LoadLine(r.metrics, l), line |-> <<>>]
                    ELSE [r EXCEPT !.line = l]
  BY DEF Feed
<1>. HIDE DEF l
<1>5. [metrics |-> LoadLine(r.metrics, l), line |-> <<>>] \in Reads
  BY <1>2, <1>3 DEF Reads
<1>6. [r EXCEPT !.line = l] \in Reads
  BY <1>2 DEF Reads
<1>. QED  BY <1>4, <1>5, <1>6

LEMMA ReadsLoop ==
    ASSUME NEW s \in Texts
    PROVE  \E f \in [0 .. Len(s) -> Reads] :
               /\ f[0] = NoReads /\ \A i \in 1 .. Len(s) : f[i] = Feed(f[i - 1], s[i])
               /\ load_journal(s) = LoadLine(f[Len(s)].metrics, f[Len(s)].line)
<1>. DEFINE n == Len(s)
            F == [i \in 1 .. n |-> [r \in Reads |-> Feed(r, s[i])]]
<1>1. n \in Nat /\ n \in 0 .. n /\ NoReads \in Reads /\ \A i \in 1 .. n : s[i] \in Char
  <2>1. <<>> \in Texts /\ 0 \in Nat /\ n \in Nat /\ \A i \in 1 .. n : s[i] \in Char
    BY DEF Texts
  <2>2. NoReads \in Reads
    BY <2>1 DEF NoReads, Reads, Metrics_
  <2>. QED  BY <2>1, <2>2
<1>2. F \in [1 .. n -> [Reads -> Reads]]
  <2>1. \A r \in Reads, i \in 1 .. n : Feed(r, s[i]) \in Reads
    BY <1>1, FeedType
  <2>. QED  BY <2>1
<1>3. PICK f : Loop(f, n, Reads, NoReads, F)
  <2>. HIDE DEF F, n
  <2>. QED  BY <1>1, <1>2, LoopExists
<1>4. f \in [0 .. n -> Reads] /\ f[0] = NoReads /\ \A i \in 1 .. n : f[i] = F[i][f[i - 1]]
  BY <1>3 DEF Loop
<1>5. \A i \in 1 .. n : i - 1 \in 0 .. n /\ f[i - 1] \in Reads
  BY <1>1, <1>4
<1>6. \A i \in 1 .. n : f[i] = Feed(f[i - 1], s[i])
  BY <1>4, <1>5
<1>. DEFINE G(g) == [i \in 0 .. n |-> IF i = 0 THEN NoReads ELSE Feed(g[i - 1], s[i])]
            o == CHOOSE g : g = G(g)
<1>7. f = G(f)
  <2>1. \A i \in 0 .. n : f[i] = IF i = 0 THEN NoReads ELSE Feed(f[i - 1], s[i])
    <3>1. \A i \in 0 .. n : i # 0 => i \in 1 .. n
      BY <1>1
    <3>. HIDE DEF F
    <3>. QED  BY <1>4, <1>6, <3>1
  <2>2. f = [i \in 0 .. n |-> f[i]]
    BY <1>4
  <2>. HIDE DEF n
  <2>. QED  BY <2>1, <2>2, Zenon
<1>8. o = G(o)
  BY <1>7, Zenon
<1>9. load_journal(s) = LoadLine(o[n].metrics, o[n].line)
  BY DEF load_journal, NoReads
<1>. HIDE DEF o
<1>10. \A i \in 0 .. n : o[i] = f[i]
  <2>1. o[0] = NoReads
    <3>. HIDE DEF n
    <3>1. 0 \in 0 .. n
      BY <1>1
    <3>. QED  BY <1>8, <3>1
  <2>2. ASSUME NEW i \in 1 .. n, o[i - 1] \in Reads PROVE o[i] = F[i][o[i - 1]]
    <3>1. o[i] = Feed(o[i - 1], s[i])
      <4>1. i \in 0 .. n /\ i # 0
        BY <1>1
      <4>. HIDE DEF n
      <4>. QED  BY <1>8, <4>1
    <3>. QED  BY <2>2, <3>1
  <2>3. Steps(o, n, Reads, NoReads, F)
    <3>. HIDE DEF F, n
    <3>. QED  BY <2>1, <2>2 DEF Steps
  <2>. HIDE DEF F, n
  <2>. QED  BY <1>1, <1>3, <2>3, LoopUnique
<1>11. load_journal(s) = LoadLine(f[n].metrics, f[n].line)
  <2>. HIDE DEF n
  <2>. QED  BY <1>1, <1>9, <1>10
<1>. QED  BY <1>4, <1>6, <1>11

(* A line of a file, taken out of it.                                      *)
LEMMA SegmentTab ==
    ASSUME NEW f \in Texts, NEW a \in 0 .. Len(f), NEW b \in a .. Len(f),
           NEW p \in a + 1 .. b, FirstTab(f, a, p)
    PROVE  FirstTab(SubSeq(f, a + 1, b), 0, p - a) /\ p - a \in 1 .. b - a
<1>. DEFINE s == SubSeq(f, a + 1, b)
<1>1. s \in Texts /\ Len(s) = b - a /\ \A i \in 1 .. b - a : s[i] = f[a + i]
  BY SegmentText
<1>. HIDE DEF s
<1>2. Len(f) \in Nat /\ a \in Nat /\ b \in Nat /\ p \in Nat /\ a < p /\ p <= b
  BY DEF Texts
<1>3. p - a \in 1 .. b - a /\ a + (p - a) = p /\ 0 < p - a
  BY <1>2
<1>4. s[p - a] = "\t"
  BY <1>1, <1>3 DEF FirstTab
<1>5. ASSUME NEW j \in 0 + 1 .. p - a - 1 PROVE s[j] # "\t"
  <2>1. j \in 1 .. b - a /\ a + j \in a + 1 .. p - 1
    BY <1>2
  <2>. QED  BY <1>1, <2>1 DEF FirstTab
<1>. QED  BY <1>3, <1>4, <1>5 DEF FirstTab, s

LEMMA SegmentLine ==
    ASSUME NEW f \in Texts, NEW a \in 0 .. Len(f), NEW b \in a .. Len(f),
           NEW ev, LineIs(f, a, b, ev)
    PROVE  LineIs(SubSeq(f, a + 1, b), 0, b - a, ev)
<1>. DEFINE s == SubSeq(f, a + 1, b)
<1>1. s \in Texts /\ Len(s) = b - a /\ \A i \in 1 .. b - a : s[i] = f[a + i]
  BY SegmentText
<1>2. PICK p \in a + 1 .. b - 1 :
          /\ FirstTab(f, a, p) /\ f[p + 1] \notin LineEnd
          /\ ev # Garbled => EventIs(f, p, b, ev)
  BY DEF LineIs
<1>3. Len(f) \in Nat /\ a \in Nat /\ b \in Nat /\ p \in Nat /\ a < p /\ p < b /\ p \in a + 1 .. b
  BY DEF Texts
<1>4. FirstTab(s, 0, p - a)
  BY <1>2, <1>3, SegmentTab
<1>. HIDE DEF s
<1>5. p - a \in 0 + 1 .. b - a - 1 /\ p - a + 1 \in 1 .. b - a /\ a + (p - a + 1) = p + 1
  BY <1>3
<1>6. s[p - a + 1] \notin LineEnd
  BY <1>1, <1>2, <1>5
<1>7. ASSUME ev # Garbled PROVE EventIs(s, p - a, b - a, ev)
  <2>1. EventIs(f, p, b, ev)
    BY <1>2, <1>7
  <2>2. Len(ev) \in Nat /\ b = p + Len(ev) + 1 /\ \A i \in 1 .. Len(ev) : f[p + i] = ev[i]
    BY <2>1 DEF EventIs, Texts
  <2>3. b - a = p - a + Len(ev) + 1
    BY <1>3, <2>2
  <2>4. ASSUME NEW i \in 1 .. Len(ev) PROVE s[p - a + i] = ev[i]
    <3>1. p - a + i \in 1 .. b - a /\ a + (p - a + i) = p + i
      BY <1>3, <2>2
    <3>. QED  BY <1>1, <2>2, <3>1
  <2>. QED  BY <2>1, <2>3, <2>4 DEF EventIs
<1>. QED  BY <1>4, <1>5, <1>6, <1>7 DEF LineIs, s

LEMMA SegmentGrows ==
    ASSUME NEW f \in Texts, NEW a \in 0 .. Len(f), NEW p \in a .. Len(f) - 1
    PROVE  Append(SubSeq(f, a + 1, p), f[p + 1]) = SubSeq(f, a + 1, p + 1)
<1>. DEFINE s == SubSeq(f, a + 1, p)
            t == SubSeq(f, a + 1, p + 1)
<1>1. Len(f) \in Nat /\ a \in Nat /\ p \in Nat /\ p \in a .. Len(f) /\ p + 1 \in a .. Len(f)
      /\ f[p + 1] \in Char /\ p + 1 - a = p - a + 1
  BY DEF Texts
<1>2. s \in Seq(Char) /\ Len(s) = p - a /\ \A i \in 1 .. p - a : s[i] = f[a + i]
  BY <1>1, SegmentText DEF Texts
<1>3. t \in Seq(Char) /\ Len(t) = p + 1 - a /\ \A i \in 1 .. p + 1 - a : t[i] = f[a + i]
  <2>1. PICK b \in a .. Len(f) : b = p + 1
    BY <1>1
  <2>2. SubSeq(f, a + 1, b) \in Texts /\ Len(SubSeq(f, a + 1, b)) = b - a
        /\ \A i \in 1 .. b - a : SubSeq(f, a + 1, b)[i] = f[a + i]
    BY SegmentText
  <2>. QED  BY <2>1, <2>2 DEF Texts
<1>. HIDE DEF s, t
<1>. DEFINE u == Append(s, f[p + 1])
<1>4. /\ u \in Seq(Char) /\ Len(u) = Len(s) + 1 /\ u[Len(s) + 1] = f[p + 1]
      /\ \A i \in 1 .. Len(s) : u[i] = s[i]
  BY <1>1, <1>2, AppendProperties
<1>. HIDE DEF u
<1>5. ASSUME NEW i \in 1 .. Len(u) PROVE u[i] = t[i]
  <2>1. CASE i = p - a + 1
    <3>1. a + i = p + 1 /\ i \in 1 .. p + 1 - a
      BY <1>1, <2>1
    <3>. QED  BY <1>2, <1>3, <1>4, <2>1, <3>1
  <2>2. CASE i # p - a + 1
    <3>1. i \in 1 .. p - a /\ i \in 1 .. p + 1 - a
      BY <1>1, <1>2, <1>4, <2>2
    <3>. QED  BY <1>2, <1>3, <1>4, <3>1
  <2>. QED  BY <2>1, <2>2
<1>6. u = t
  BY <1>1, <1>2, <1>3, <1>4, <1>5, SameText
<1>. QED  BY <1>6 DEF u, s, t

(* The lines of f fit the buffer of fgets.                                 *)
Short(f, n, e) ==
    \A i \in 0 .. n : \A p \in e[i] + 1 .. Len(f) : (i < n => p < e[i + 1]) => p - e[i] < LineCap - 1

(* load_journal has read i whole lines of f, and the next one up to p.     *)
Reading(r, f, ls, e, i, p) ==
    /\ e[i] <= p /\ (i < Len(ls) => p < e[i + 1])
    /\ r.line = SubSeq(f, e[i] + 1, p)
    /\ r.metrics \in Metrics_ /\ r.metrics.requests = i
    /\ i = 0 => r.metrics.last_event = <<>>
    /\ i > 0 /\ ls[i].event # Garbled => r.metrics.last_event = ls[i].event

(* It reads one more character. *)
LEMMA ReadNext ==
    ASSUME NEW f \in Texts, NEW ls \in Seq(Line), NEW tl, NEW e, Lined(f, ls, tl, e),
           Short(f, Len(ls), e), NEW p \in 0 .. Len(f) - 1,
           NEW r \in Reads, NEW i \in 0 .. Len(ls), Reading(r, f, ls, e, i, p)
    PROVE  \E j \in 0 .. Len(ls) : Reading(Feed(r, f[p + 1]), f, ls, e, j, p + 1)
<1>. DEFINE n == Len(ls)
            a == e[i]
            l == SubSeq(f, a + 1, p + 1)
            s == Feed(r, f[p + 1])
<1>1. n \in Nat /\ i \in Nat /\ Ends(f, n, e) /\ Len(f) \in Nat /\ p \in Nat /\ p + 1 <= Len(f)
  BY DEF Lined, Texts
<1>2. \A j \in 0 .. n : e[j] \in 0 .. Len(f) /\ e[j] \in Nat
  BY <1>1, EndsType
<1>3. a \in 0 .. Len(f) /\ a \in Nat /\ a <= p /\ (i < n => p < e[i + 1])
  BY <1>2 DEF Reading
<1>4. l \in Texts /\ Len(l) = p + 1 - a /\ \A j \in 1 .. p + 1 - a : l[j] = f[a + j]
  <2>. DEFINE b == p + 1
  <2>1. b \in a .. Len(f)
    BY <1>1, <1>3
  <2>. HIDE DEF b
  <2>2. /\ SubSeq(f, a + 1, b) \in Texts /\ Len(SubSeq(f, a + 1, b)) = b - a
        /\ \A j \in 1 .. b - a : SubSeq(f, a + 1, b)[j] = f[a + j]
    BY <1>3, <2>1, SegmentText
  <2>3. b - a = p + 1 - a
    BY <1>1, <1>3 DEF b
  <2>4. l = SubSeq(f, a + 1, b)
    BY DEF b
  <2>. HIDE DEF l
  <2>. QED  BY <2>2, <2>3, <2>4
<1>5. Append(r.line, f[p + 1]) = l
  <2>1. p \in a .. Len(f) - 1
    BY <1>1, <1>3
  <2>2. r.line = SubSeq(f, a + 1, p)
    BY DEF Reading
  <2>. QED  BY <1>3, <2>1, <2>2, SegmentGrows
<1>. HIDE DEF l
<1>6. s = IF f[p + 1] = "\n" \/ Len(l) = LineCap - 1
          THEN [metrics |-> LoadLine(r.metrics, l), line |-> <<>>]
          ELSE [r EXCEPT !.line = l]
  BY <1>5 DEF Feed
<1>. HIDE DEF s
<1>7. /\ r.metrics \in Metrics_ /\ r.metrics.requests = i
      /\ i = 0 => r.metrics.last_event = <<>>
      /\ i > 0 /\ ls[i].event # Garbled => r.metrics.last_event = ls[i].event
  BY DEF Reading
<1>8. CASE i < n /\ p + 1 = e[i + 1]
  <2>1. i + 1 \in 1 .. n /\ i + 1 \in 0 .. n /\ i + 1 > 0 /\ i + 1 # 0
    BY <1>1, <1>8
  <2>2. f[p + 1] = "\n"
    BY <1>1, <1>8, <2>1 DEF Ends
  <2>3. s = [metrics |-> LoadLine(r.metrics, l), line |-> <<>>]
    BY <1>6, <2>2
  <2>. DEFINE ev == ls[i + 1].event
  <2>4. LineIs(f, a, p + 1, ev)
    <3>1. PICK j \in 1 .. n : j = i + 1 /\ j - 1 = i
      BY <1>1, <2>1
    <3>2. LineIs(f, e[j - 1], e[j], ls[j].event)
      BY DEF Lined
    <3>. QED  BY <1>8, <3>1, <3>2
  <2>. HIDE DEF ev
  <2>5. LineIs(l, 0, p + 1 - a, ev)
    <3>1. p + 1 \in a .. Len(f)
      BY <1>1, <1>3
    <3>. QED  BY <1>3, <2>4, <3>1, SegmentLine DEF l
  <2>6. PICK d \in Nat : d = p + 1 - a
    BY <1>1, <1>3
  <2>7. PICK q \in 0 + 1 .. d - 1 :
            /\ FirstTab(l, 0, q) /\ l[q + 1] \notin LineEnd
            /\ ev # Garbled => EventIs(l, q, d, ev)
    BY <2>5, <2>6 DEF LineIs
  <2>8. q \in 1 .. Len(l) - 1 /\ (ev # Garbled => EventIs(l, q, Len(l), ev))
    <3>1. Len(l) = d
      BY <1>4, <2>6
    <3>. QED  BY <2>6, <2>7, <3>1
  <2>9. l[Len(l)] = "\n"
    <3>1. p + 1 - a \in 1 .. p + 1 - a /\ a + (p + 1 - a) = p + 1
      BY <1>1, <1>3
    <3>. QED  BY <1>4, <2>2, <3>1
  <2>10. LoadLine(r.metrics, l).requests = i + 1
    BY <1>4, <1>7, <2>7, <2>8, LoadText
  <2>11. ev # Garbled => LoadLine(r.metrics, l).last_event = ev
    BY <1>4, <1>7, <2>7, <2>8, <2>9, LoadEvent
  <2>12. LoadLine(r.metrics, l) \in Metrics_
    BY <1>4, <1>7, LoadLineType
  <2>13. SubSeq(f, p + 1 + 1, p + 1) = <<>>
    <3>1. p + 1 \in 0 .. Len(f) /\ p + 1 \in p + 1 .. Len(f) /\ p + 1 - (p + 1) = 0
      BY <1>1
    <3>2. SubSeq(f, p + 1 + 1, p + 1) \in Texts /\ Len(SubSeq(f, p + 1 + 1, p + 1)) = 0
      BY <3>1, SegmentText
    <3>. QED  BY <3>2 DEF Texts
  <2>14. i + 1 < n => p + 1 < e[i + 1 + 1]
    <3>. SUFFICES ASSUME i + 1 < n PROVE p + 1 < e[i + 1 + 1]
      OBVIOUS
    <3>1. i + 1 + 1 \in 0 .. n /\ i + 1 < i + 1 + 1
      BY <1>1
    <3>2. e[i + 1] < e[i + 1 + 1]
      BY <1>1, <2>1, <3>1 DEF Ends
    <3>. QED  BY <1>8, <3>2
  <2>15. e[i + 1] <= p + 1
    BY <1>1, <1>8
  <2>16. SubSeq(f, e[i + 1] + 1, p + 1) = <<>>
    BY <1>8, <2>13
  <2>17. Reading(s, f, ls, e, i + 1, p + 1)
    BY <2>1, <2>3, <2>10, <2>11, <2>12, <2>14, <2>15, <2>16 DEF Reading, ev
  <2>. QED  BY <2>1, <2>17 DEF s
<1>9. CASE ~(i < n /\ p + 1 = e[i + 1])
  <2>1. i < n => p + 1 < e[i + 1]
    <3>1. i < n => i + 1 \in 0 .. n
      BY <1>1
    <3>. QED  BY <1>1, <1>2, <1>3, <1>9, <3>1
  <2>2. p + 1 \in a + 1 .. Len(f)
    BY <1>1, <1>3
  <2>3. f[p + 1] # "\n"
    BY <1>1, <2>1, <2>2, NoOtherEnd
  <2>4. p + 1 - a < LineCap - 1
    <3>1. PICK b \in e[i] + 1 .. Len(f) : b = p + 1
      BY <2>2
    <3>2. (i < n => b < e[i + 1]) => b - e[i] < LineCap - 1
      BY DEF Short
    <3>. QED  BY <1>1, <1>3, <2>1, <3>1, <3>2
  <2>5. Len(l) # LineCap - 1
    <3>1. LineCap \in Nat
      BY TextAssumption
    <3>. QED  BY <1>1, <1>3, <1>4, <2>4, <3>1
  <2>6. s = [r EXCEPT !.line = l]
    BY <1>6, <2>3, <2>5
  <2>7. s.line = l /\ s.metrics = r.metrics
    BY <2>6 DEF Reads
  <2>8. a <= p + 1
    BY <1>1, <1>3
  <2>9. Reading(s, f, ls, e, i, p + 1)
    BY <1>7, <2>1, <2>7, <2>8 DEF Reading, l
  <2>. QED  BY <2>9 DEF s
<1>. QED  BY <1>8, <1>9

LEMMA FitsShort ==
    ASSUME file \in Texts, NEW n \in Nat, NEW e, Ends(file, n, e), Fits
    PROVE  Short(file, n, e)
<1>. DEFINE L == Len(file)
            ends == Newlines(file) \cup {0, L + 1}
<1>1. L \in Nat /\ LineCap \in Nat /\ \A i \in 0 .. n : e[i] \in 0 .. L
  <2>1. LineCap \in Nat
    BY TextAssumption
  <2>. QED  BY <2>1, EndsType
<1>. SUFFICES ASSUME NEW i \in 0 .. n, NEW p \in e[i] + 1 .. L, i < n => p < e[i + 1]
     PROVE  p - e[i] < LineCap - 1
  BY DEF Short
<1>. DEFINE a == e[i]
<1>2. a \in 0 .. L /\ a \in Nat /\ p \in a + 1 .. L
  BY <1>1
<1>3. PICK j \in ends : a < j /\ j <= a + LineCap - 1
  BY <1>1, <1>2 DEF Fits
<1>4. j \in Nat
  BY <1>1 DEF Newlines
<1>5. p < j
  <2>1. CASE j = L + 1
    BY <1>1, <1>2, <2>1
  <2>2. CASE j \in Newlines(file)
    <3>. SUFFICES ASSUME ~(p < j) PROVE FALSE
      OBVIOUS
    <3>1. j \in a + 1 .. L /\ file[j] = "\n" /\ j <= p
      BY <1>1, <1>2, <1>3, <1>4, <2>2 DEF Newlines
    <3>2. ASSUME i < n PROVE j < e[i + 1]
      <4>1. i + 1 \in 0 .. n
        BY <3>2
      <4>2. e[i + 1] \in Nat
        BY <1>1, <4>1
      <4>. QED  BY <1>2, <1>4, <3>1, <3>2, <4>2
    <3>. QED  BY <3>1, <3>2, NoOtherEnd
  <2>3. j # 0
    BY <1>2, <1>3
  <2>. QED  BY <2>1, <2>2, <2>3
<1>6. p - a < LineCap - 1
  <2>. HIDE DEF a
  <2>. QED  BY <1>1, <1>2, <1>3, <1>4, <1>5
<1>. QED  BY <1>6

LEMMA LoadAgrees ==
    ASSUME NEW f \in Texts, NEW ls \in Seq(Line), NEW tl, NEW e, Lined(f, ls, tl, e),
           Short(f, Len(ls), e)
    PROVE  /\ load_journal(f).requests = LoadedRequests(ls, tl)
           /\ LoadedEvent(ls, tl) # Garbled => load_journal(f).last_event = LoadedEvent(ls, tl)
<1>. DEFINE n == Len(ls)
            L == Len(f)
<1>1. n \in Nat /\ L \in Nat /\ Ends(f, n, e) /\ TailIs(f, e[n], L, tl) /\ L \in 0 .. L /\ 0 \in 0 .. L
  BY DEF Lined, Texts
<1>2. \A i \in 0 .. n : e[i] \in 0 .. L /\ e[i] \in Nat
  BY <1>1, EndsType
<1>3. PICK r \in [0 .. L -> Reads] :
          /\ r[0] = NoReads /\ \A i \in 1 .. L : r[i] = Feed(r[i - 1], f[i])
          /\ load_journal(f) = LoadLine(r[L].metrics, r[L].line)
  BY ReadsLoop
<1>. DEFINE T == {p \in Nat : p <= L => \E i \in 0 .. n : Reading(r[p], f, ls, e, i, p)}
<1>4. 0 \in T
  <2>1. 0 \in 0 .. n /\ e[0] = 0
    BY <1>1 DEF Ends
  <2>2. 0 < n => 0 < e[0 + 1]
    <3>1. 0 < n => 1 \in 0 .. n /\ 0 < 1 /\ 0 + 1 = 1
      BY <1>1
    <3>. QED  BY <1>1, <2>1, <3>1 DEF Ends
  <2>3. SubSeq(f, 0 + 1, 0) = <<>>
    <3>1. 0 \in 0 .. L /\ 0 \in 0 .. 0 /\ 0 - 0 = 0
      BY <1>1
    <3>2. SubSeq(f, 0 + 1, 0) \in Texts /\ Len(SubSeq(f, 0 + 1, 0)) = 0 - 0
      <4>1. PICK z : z = 0
        OBVIOUS
      <4>2. z \in 0 .. Len(f) /\ z \in z .. Len(f)
        BY <1>1, <4>1
      <4>3. SubSeq(f, z + 1, z) \in Texts /\ Len(SubSeq(f, z + 1, z)) = z - z
        BY <4>2, SegmentText
      <4>. QED  BY <4>1, <4>3
    <3>. QED  BY <3>1, <3>2 DEF Texts
  <2>4. /\ NoReads.line = <<>> /\ NoReads.metrics \in Metrics_
        /\ NoReads.metrics.requests = 0 /\ NoReads.metrics.last_event = <<>>
    BY EmptySeq DEF NoReads, Metrics_, Texts
  <2>5. Reading(NoReads, f, ls, e, 0, 0)
    BY <2>1, <2>2, <2>3, <2>4 DEF Reading
  <2>. QED  BY <1>3, <2>1, <2>5
<1>5. ASSUME NEW p \in Nat, p \in T PROVE p + 1 \in T
  <2>. SUFFICES ASSUME p + 1 <= L PROVE \E i \in 0 .. n : Reading(r[p + 1], f, ls, e, i, p + 1)
    OBVIOUS
  <2>1. p \in 0 .. L - 1 /\ p \in 0 .. L /\ p + 1 \in 1 .. L /\ p <= L
    BY <1>1
  <2>2. PICK i \in 0 .. n : Reading(r[p], f, ls, e, i, p)
    BY <1>5, <2>1
  <2>3. r[p] \in Reads
    BY <1>3, <2>1
  <2>4. r[p + 1] = Feed(r[p], f[p + 1])
    <3>1. PICK j \in 1 .. L : j = p + 1 /\ j - 1 = p
      BY <1>1, <2>1
    <3>2. r[j] = Feed(r[j - 1], f[j])
      BY <1>3
    <3>. QED  BY <3>1, <3>2
  <2>. QED  BY <2>1, <2>2, <2>3, <2>4, ReadNext
<1>. HIDE DEF T
<1>6. L \in T
  BY <1>1, <1>4, <1>5, NumbersInduction
<1>7. PICK i \in 0 .. n : Reading(r[L], f, ls, e, i, L)
  BY <1>1, <1>6 DEF T
<1>8. i = n
  <2>. SUFFICES ASSUME i < n PROVE FALSE
    BY <1>1
  <2>1. i + 1 \in 0 .. n
    BY <1>1
  <2>2. e[i + 1] <= L
    BY <1>1, <1>2, <2>1
  <2>3. e[i + 1] \in Nat /\ L < e[i + 1]
    BY <1>2, <1>7, <2>1 DEF Reading
  <2>. QED  BY <1>1, <2>2, <2>3
<1>. DEFINE a == e[n]
            l == SubSeq(f, a + 1, L)
            m == r[L].metrics
<1>9. /\ m \in Metrics_ /\ m.requests = n /\ r[L].line = l
      /\ n = 0 => m.last_event = <<>>
      /\ n > 0 /\ ls[n].event # Garbled => m.last_event = ls[n].event
  BY <1>7, <1>8 DEF Reading
<1>10. load_journal(f) = LoadLine(m, l)
  BY <1>3, <1>9
<1>11. a \in 0 .. L /\ a \in Nat /\ L \in a .. L
  BY <1>1, <1>2
<1>12. l \in Texts /\ Len(l) = L - a /\ \A j \in 1 .. L - a : l[j] = f[a + j]
  BY <1>11, SegmentText
<1>. HIDE DEF m
<1>13. CASE tl = "text"
  <2>1. PICK p \in a + 1 .. L - 1 : FirstTab(f, a, p) /\ f[p + 1] \notin LineEnd
    BY <1>1, <1>13 DEF TailIs
  <2>2. p \in a + 1 .. L /\ p - a + 1 \in 1 .. L - a /\ a + (p - a + 1) = p + 1
        /\ p - a \in 1 .. L - a - 1
    BY <1>1, <1>11
  <2>3. FirstTab(l, 0, p - a)
    BY <1>11, <2>1, <2>2, SegmentTab
  <2>4. l[p - a + 1] \notin LineEnd
    <3>1. l[p - a + 1] = f[a + (p - a + 1)]
      BY <1>12, <2>2
    <3>2. l[p - a + 1] = f[p + 1]
      BY <2>2, <3>1
    <3>. QED  BY <2>1, <3>2
  <2>. HIDE DEF l
  <2>5. LoadLine(m, l).requests = n + 1
    <3>1. p - a \in 1 .. Len(l) - 1
      BY <1>12, <2>2
    <3>. QED  BY <1>9, <1>12, <2>3, <2>4, <3>1, LoadText
  <2>. QED  BY <1>10, <1>13, <2>5 DEF LoadedRequests, LoadedEvent
<1>14. CASE tl # "text"
  <2>1. LoadLine(m, l) = m
    <3>1. CASE \A j \in a + 1 .. L : f[j] # "\t"
      <4>1. \A j \in 1 .. Len(l) : a + j \in a + 1 .. L /\ j \in 1 .. L - a
        BY <1>1, <1>11, <1>12
      <4>2. \A j \in 1 .. Len(l) : l[j] # "\t"
        <5>1. \A j \in 1 .. Len(l) : l[j] = f[a + j]
          BY <1>12, <4>1
        <5>. HIDE DEF l, a
        <5>. QED  BY <3>1, <4>1, <5>1 DEF a
      <4>. HIDE DEF l
      <4>. QED  BY <4>2, LoadNoTab
    <3>2. CASE FirstTab(f, a, L)
      <4>1. L \in a + 1 .. L
        BY <1>1, <1>11, <3>2 DEF FirstTab
      <4>2. FirstTab(l, 0, L - a)
        BY <1>11, <3>2, <4>1, SegmentTab
      <4>. HIDE DEF l
      <4>. QED  BY <1>9, <1>12, <4>2, LoadTabOnly
    <3>3. a = L => \A j \in a + 1 .. L : f[j] # "\t"
      BY <1>1
    <3>. QED  BY <1>1, <1>14, <3>1, <3>2, <3>3 DEF TailIs
  <2>2. load_journal(f) = m
    BY <1>10, <2>1
  <2>3. LoadedRequests(ls, tl) = n
    BY <1>1, <1>14 DEF LoadedRequests
  <2>4. CASE n = 0
    <3>1. ls = <<>> /\ NoEvent = <<>>
      BY <2>4, TextAssumption
    <3>2. LoadedEvent(ls, tl) = <<>>
      BY <1>14, <3>1 DEF LoadedEvent
    <3>. QED  BY <1>9, <2>2, <2>3, <2>4, <3>2
  <2>5. CASE n # 0
    <3>1. ls # <<>> /\ n > 0
      BY <1>1, <2>5
    <3>2. LoadedEvent(ls, tl) = ls[n].event
      BY <1>14, <3>1 DEF LoadedEvent
    <3>. QED  BY <1>9, <2>2, <2>3, <3>1, <3>2
  <2>. QED  BY <2>4, <2>5
<1>. QED  BY <1>13, <1>14

(* RestartAgrees: whatever is written, torn and lost, load_journal makes   *)
(* of the characters of events.log what Journal says of its lines, as long *)
(* as the lines fit its buffer and no text has several lines.              *)
THEOREM RestartsAgree == FileSpec => []RestartAgrees
<1>1. FileInv => RestartAgrees
  <2>. SUFFICES ASSUME FileInv, Fits, ~several PROVE RestartAgrees
    BY DEF RestartAgrees
  <2>1. file \in Texts /\ lines \in Seq(Line) /\ Len(lines) \in Nat /\ Len(file) \in Nat
    BY DEF FileInv, Texts
  <2>2. PICK e : Lined(file, lines, tail, e)
    BY DEF FileInv
  <2>3. Ends(file, Len(lines), e) /\ TailIs(file, e[Len(lines)], Len(file), tail)
    BY <2>2 DEF Lined
  <2>4. Short(file, Len(lines), e)
    BY <2>1, <2>3, FitsShort
  <2>5. tail = Shape(LastLine(file))
    <3>. DEFINE a == e[Len(lines)]
    <3>1. a \in 0 .. Len(file) /\ a \in Nat /\ Len(file) \in a .. Len(file)
      <4>1. Len(lines) \in 0 .. Len(lines)
        BY <2>1
      <4>2. a \in 0 .. Len(file)
        BY <2>1, <2>3, <4>1, EndsType
      <4>. QED  BY <2>1, <4>2
    <3>2. Uncut(file, a, Len(file))
      BY <2>1, <2>3, <3>1, TailUncut
    <3>3. TailIs(file, a, Len(file), Shape(SubSeq(file, a + 1, Len(file))))
      BY <2>1, <3>1, <3>2, ShapeIsTail
    <3>4. LastLine(file) = SubSeq(file, a + 1, Len(file))
      BY <2>1, <2>3, LastLineIs
    <3>. QED  BY <2>1, <2>3, <3>1, <3>3, <3>4, OneTail
  <2>6. /\ load_journal(file).requests = LoadedRequests(lines, tail)
        /\ LoadedEvent(lines, tail) # Garbled =>
               load_journal(file).last_event = LoadedEvent(lines, tail)
    BY <2>1, <2>2, <2>4, LoadAgrees
  <2>. QED  BY <2>5, <2>6 DEF RestartAgrees
<1>. QED  BY <1>1, FileLined, PTL DEF FileSpec

-------------------------------------------------------------------------------
(* The text that comes back                                                *)

(* As long as one character is added at a time, the text is copied.        *)
Copies(f, n, t, k) ==
    \A i \in 0 .. k : Len(f[i]) = i /\ \A j \in 1 .. i : f[i][j] = t[j]

LEMMA CopyLoop ==
    ASSUME NEW n \in Nat, NEW f \in [0 .. n -> Texts], f[0] = <<>>,
           NEW g, \A i \in 1 .. n : g[i] \in Texts /\ f[i] = f[i - 1] \o g[i],
           NEW t \in Texts, NEW k \in 0 .. n, k <= Len(t),
           \A i \in 1 .. k : Len(g[i]) = 1 /\ g[i][1] = t[i]
    PROVE  Copies(f, n, t, k)
<1>. DEFINE T == {i \in Nat : i <= k => Len(f[i]) = i /\ \A j \in 1 .. i : f[i][j] = t[j]}
<1>1. 0 \in T
  OBVIOUS
<1>2. ASSUME NEW i \in Nat, i \in T PROVE i + 1 \in T
  <2>. SUFFICES ASSUME i + 1 <= k
       PROVE  Len(f[i + 1]) = i + 1 /\ \A j \in 1 .. i + 1 : f[i + 1][j] = t[j]
    OBVIOUS
  <2>1. i + 1 \in 1 .. n /\ i + 1 \in 1 .. k /\ i \in 0 .. n /\ i <= k
    OBVIOUS
  <2>2. f[i + 1] = f[i] \o g[i + 1]
    <3>1. PICK j \in 1 .. n : j = i + 1 /\ j - 1 = i
      BY <2>1
    <3>2. f[j] = f[j - 1] \o g[j]
      OBVIOUS
    <3>. QED  BY <3>1, <3>2
  <2>3. /\ f[i] \in Texts /\ g[i + 1] \in Texts /\ Len(f[i]) = i
        /\ \A j \in 1 .. i : f[i][j] = t[j]
        /\ Len(g[i + 1]) = 1 /\ g[i + 1][1] = t[i + 1]
    BY <1>2, <2>1
  <2>. DEFINE u == f[i]
              v == g[i + 1]
  <2>4. /\ u \in Texts /\ v \in Texts /\ Len(u) = i /\ \A j \in 1 .. i : u[j] = t[j]
        /\ Len(v) = 1 /\ v[1] = t[i + 1]
    BY <2>3
  <2>5. f[i + 1] = u \o v
    BY <2>2
  <2>. HIDE DEF u, v
  <2>6. /\ Len(u \o v) = Len(u) + Len(v)
        /\ \A j \in 1 .. Len(u) : (u \o v)[j] = u[j]
        /\ \A j \in 1 .. Len(v) : (u \o v)[Len(u) + j] = v[j]
    BY <2>4, ConcatText
  <2>7. Len(u \o v) = i + 1 /\ (u \o v)[i + 1] = t[i + 1]
    BY <2>4, <2>6
  <2>8. \A j \in 1 .. i : (u \o v)[j] = t[j]
    BY <2>4, <2>6
  <2>9. \A j \in 1 .. i + 1 : j \in 1 .. i \/ j = i + 1
    OBVIOUS
  <2>. QED  BY <2>5, <2>7, <2>8, <2>9
<1>. HIDE DEF T
<1>3. \A i \in 0 .. k : i \in T
  BY <1>1, <1>2, NumbersInduction
<1>. QED  BY <1>3 DEF Copies, T

(* A text without quotes, backslashes and line ends is answered as it is.  *)
LEMMA EscapeIsCopy ==
    ASSUME NEW t \in Texts, Len(t) < FieldCap,
           \A i \in 1 .. Len(t) : t[i] \notin {Quote, Backslash, "\n", "\r"}
    PROVE  json_escape(t) = t
<1>. DEFINE n == Len(t)
            ss == [i \in 1 .. n |-> EscapeChar(t[i])]
<1>1. n \in Nat /\ n \in 0 .. n /\ \A i \in 1 .. n : t[i] \in Char
  BY DEF Texts
<1>2. ss \in Seq(Texts) /\ Len(ss) = n /\ \A i \in 1 .. n : ss[i] \in Texts /\ ss[i] = EscapeChar(t[i])
  BY <1>1, EscapeCharText
<1>3. json_escape(t) = FlattenSeq(ss)
  BY EscapeIsWhole
<1>. HIDE DEF ss
<1>4. PICK f \in [0 .. n -> Texts] :
          /\ f[0] = <<>> /\ \A i \in 1 .. n : f[i] = f[i - 1] \o ss[i]
          /\ FlattenSeq(ss) = f[n]
  BY <1>2, FlattenLoop
<1>5. \A i \in 1 .. n : Len(ss[i]) = 1 /\ ss[i][1] = t[i]
  <2>. SUFFICES ASSUME NEW i \in 1 .. n PROVE Len(ss[i]) = 1 /\ ss[i][1] = t[i]
    OBVIOUS
  <2>1. EscapeChar(t[i]) = <<t[i]>>
    BY DEF EscapeChar
  <2>. QED  BY <1>2, <2>1
<1>6. Copies(f, n, t, n)
  BY <1>1, <1>2, <1>4, <1>5, CopyLoop
<1>7. Len(f[n]) = n /\ (\A j \in 1 .. n : f[n][j] = t[j]) /\ f[n] \in Texts
  BY <1>1, <1>4, <1>6 DEF Copies
<1>8. f[n] = t
  BY <1>7, SameText DEF Texts
<1>. QED  BY <1>3, <1>4, <1>8

(* The encoding of a text is the text itself up to its first quote or      *)
(* backslash, behind place k, and then a backslash.                        *)
LEMMA EncodeShape ==
    ASSUME NEW t \in Texts, NEW k \in 0 .. Len(t),
           \A i \in 1 .. k : t[i] \notin {Quote, Backslash},
           k < Len(t) => t[k + 1] \in {Quote, Backslash}
    PROVE  /\ \A i \in 1 .. k : Encode(t)[i] = t[i]
           /\ k = Len(t) => Len(Encode(t)) = k
           /\ k < Len(t) => Len(Encode(t)) > k /\ Encode(t)[k + 1] = Backslash
<1>. DEFINE n == Len(t)
            g == [i \in 1 .. n |-> EncodeChar(t[i])]
<1>1. n \in Nat /\ n \in 0 .. n /\ k \in Nat /\ \A i \in 1 .. n : t[i] \in Char
  BY DEF Texts
<1>2. PICK f \in [0 .. n -> Texts] :
          /\ f[0] = <<>> /\ \A i \in 1 .. n : f[i] = f[i - 1] \o EncodeChar(t[i])
          /\ Encode(t) = f[n]
  BY EncodeLoop
<1>3. \A i \in 1 .. n : g[i] \in Texts /\ Len(g[i]) > 0 /\ f[i] = f[i - 1] \o g[i]
                        /\ g[i][1] = (IF t[i] = Quote THEN Backslash ELSE t[i])
                        /\ (t[i] \notin {Quote, Backslash} => Len(g[i]) = 1)
  BY <1>1, <1>2, EncodeCharText
<1>. HIDE DEF g
<1>4. Copies(f, n, t, k)
  <2>1. \A i \in 1 .. k : i \in 1 .. n /\ t[i] # Quote
    BY <1>1
  <2>2. \A i \in 1 .. k : Len(g[i]) = 1 /\ g[i][1] = t[i]
    BY <1>3, <2>1
  <2>. QED  BY <1>1, <1>2, <1>3, <2>2, CopyLoop
<1>5. Len(f[k]) = k /\ \A j \in 1 .. k : f[k][j] = t[j]
  BY <1>1, <1>4 DEF Copies
<1>6. CASE k = n
  BY <1>1, <1>2, <1>5, <1>6
<1>7. CASE k < n
  <2>. DEFINE T == {i \in Nat : k + 1 <= i /\ i <= n =>
                        /\ Len(f[i]) > k /\ f[i][k + 1] = Backslash
                        /\ \A j \in 1 .. k : f[i][j] = t[j]}
  <2>1. ASSUME NEW i \in Nat, i + 1 <= n
        PROVE  /\ i + 1 \in 1 .. n /\ i \in 0 .. n /\ f[i] \in Texts /\ g[i + 1] \in Texts
               /\ Len(f[i]) \in Nat /\ Len(g[i + 1]) \in Nat /\ Len(g[i + 1]) > 0
               /\ Len(f[i + 1]) = Len(f[i]) + Len(g[i + 1])
               /\ \A j \in 1 .. Len(f[i]) : f[i + 1][j] = f[i][j]
               /\ f[i + 1][Len(f[i]) + 1] = g[i + 1][1]
    <3>1. PICK j \in 1 .. n : j = i + 1 /\ j - 1 = i
      BY <1>1, <2>1
    <3>2. f[j] = f[j - 1] \o g[j] /\ g[j] \in Texts /\ Len(g[j]) > 0
      BY <1>3
    <3>3. i \in 0 .. n /\ f[i] \in Texts
      BY <1>1, <2>1
    <3>. DEFINE u == f[i]
                v == g[j]
    <3>4. u \in Texts /\ v \in Texts /\ Len(u) \in Nat /\ Len(v) \in Nat /\ Len(v) > 0 /\ f[i + 1] = u \o v
      BY <3>1, <3>2, <3>3 DEF Texts
    <3>. HIDE DEF u, v
    <3>5. /\ Len(u \o v) = Len(u) + Len(v)
          /\ \A l \in 1 .. Len(u) : (u \o v)[l] = u[l]
          /\ \A l \in 1 .. Len(v) : (u \o v)[Len(u) + l] = v[l]
      BY <3>4, ConcatText
    <3>6. 1 \in 1 .. Len(v)
      BY <3>4
    <3>7. /\ Len(f[i + 1]) = Len(u) + Len(v)
          /\ \A l \in 1 .. Len(u) : f[i + 1][l] = u[l]
          /\ f[i + 1][Len(u) + 1] = v[1]
      BY <3>4, <3>5, <3>6
    <3>8. u = f[i] /\ v = g[i + 1]
      BY <3>1 DEF u, v
    <3>. QED  BY <3>1, <3>3, <3>4, <3>7, <3>8
  <2>2. 0 \in T
    BY <1>1
  <2>3. ASSUME NEW i \in Nat, i \in T PROVE i + 1 \in T
    <3>. SUFFICES ASSUME k + 1 <= i + 1, i + 1 <= n
         PROVE  /\ Len(f[i + 1]) > k /\ f[i + 1][k + 1] = Backslash
                /\ \A j \in 1 .. k : f[i + 1][j] = t[j]
      OBVIOUS
    <3>1. /\ i + 1 \in 1 .. n /\ Len(f[i]) \in Nat /\ Len(g[i + 1]) \in Nat /\ Len(g[i + 1]) > 0
          /\ Len(f[i + 1]) = Len(f[i]) + Len(g[i + 1])
          /\ \A j \in 1 .. Len(f[i]) : f[i + 1][j] = f[i][j]
          /\ f[i + 1][Len(f[i]) + 1] = g[i + 1][1]
      BY <2>1
    <3>2. CASE i = k
      <4>1. t[k + 1] \in {Quote, Backslash}
        BY <1>7
      <4>2. g[i + 1][1] = Backslash
        BY <1>3, <3>1, <3>2, <4>1
      <4>. QED  BY <1>1, <1>5, <3>1, <3>2, <4>2
    <3>3. CASE i # k
      <4>1. k + 1 <= i /\ i <= n
        BY <1>1, <3>3
      <4>2. Len(f[i]) > k /\ f[i][k + 1] = Backslash /\ \A j \in 1 .. k : f[i][j] = t[j]
        BY <2>3, <4>1
      <4>3. k + 1 \in 1 .. Len(f[i]) /\ \A j \in 1 .. k : j \in 1 .. Len(f[i])
        BY <1>1, <3>1, <4>2
      <4>4. f[i + 1][k + 1] = f[i][k + 1] /\ \A j \in 1 .. k : f[i + 1][j] = f[i][j]
        BY <3>1, <4>3
      <4>5. Len(f[i + 1]) > k
        <5>1. \A a, b \in Nat : a > k => a + b > k
          BY <1>1
        <5>. QED  BY <3>1, <4>2, <5>1
      <4>. QED  BY <4>2, <4>4, <4>5
    <3>. QED  BY <3>2, <3>3
  <2>. HIDE DEF T
  <2>4. n \in T
    BY <1>1, <2>2, <2>3, NumbersInduction
  <2>5. Len(f[n]) > k /\ f[n][k + 1] = Backslash /\ \A j \in 1 .. k : f[n][j] = t[j]
    BY <1>1, <1>7, <2>4 DEF T
  <2>. QED  BY <1>1, <1>2, <1>7, <2>5
<1>. QED  BY <1>1, <1>6, <1>7

(* What handle_request has of the body of a text is a beginning of the     *)
(* text; it is the text when that fits and has no quote and no backslash.  *)
LEMMA RawOfBody ==
    ASSUME NEW t \in Texts, \A i \in 1 .. Len(t) : t[i] # Nul
    PROVE  LET r == Raw(Body(t)) IN
           /\ Len(r) <= Len(t) /\ \A i \in 1 .. Len(r) : r[i] = t[i]
           /\ Len(t) < FieldCap /\ (\A i \in 1 .. Len(t) : t[i] \notin {Quote, Backslash})
                  => Len(r) = Len(t)
<1>. DEFINE s == Body(t)
            v == json_value(s)
            r == Raw(s)
            E == {i \in 1 .. Len(t) : t[i] \in {Quote, Backslash}}
            k == Min(E \cup {Len(t) + 1}) - 1
<1>1. Len(t) \in Nat /\ E \in SUBSET (1 .. Len(t))
  BY DEF Texts
<1>2. /\ k \in 0 .. Len(t) /\ k \in Nat
      /\ \A i \in 1 .. k : i \in 1 .. Len(t) /\ t[i] \notin {Quote, Backslash}
      /\ k < Len(t) => t[k + 1] \in {Quote, Backslash}
      /\ E = {} => k = Len(t)
  <2>1. /\ Min(E \cup {Len(t) + 1}) \in 1 .. Len(t) + 1 /\ k \in 0 .. Len(t)
        /\ \A i \in 1 .. k : i \in 1 .. Len(t) /\ i \notin E
        /\ k < Len(t) => Min(E \cup {Len(t) + 1}) \in E
    <3>. HIDE DEF E
    <3>. QED  BY <1>1, BeforeFirst
  <2>2. Min(E \cup {Len(t) + 1}) = k + 1
    <3>. HIDE DEF E
    <3>. QED  BY <1>1, <2>1
  <2>. HIDE DEF k
  <2>3. k < Len(t) => k + 1 \in E
    BY <2>1, <2>2
  <2>. QED  BY <1>1, <2>1, <2>3
<1>. HIDE DEF k
<1>3. /\ s \in Texts /\ Len(s) = Len(Encode(t)) + 1 /\ Encode(t) \in Texts /\ Len(Encode(t)) \in Nat
      /\ \A i \in 1 .. Len(Encode(t)) : s[i] = Encode(t)[i]
      /\ s[Len(s)] = Quote
  BY BodyText DEF Texts
<1>4. /\ \A i \in 1 .. k : Encode(t)[i] = t[i]
      /\ k = Len(t) => Len(Encode(t)) = k
      /\ k < Len(t) => Len(Encode(t)) > k /\ Encode(t)[k + 1] = Backslash
  BY <1>2, EncodeShape
<1>. HIDE DEF s
<1>5. /\ Len(s) \in Nat /\ k < Len(s) /\ \A i \in 1 .. k : s[i] = t[i]
      /\ k = Len(t) => Len(s) = k + 1 /\ s[k + 1] = Quote
      /\ k < Len(t) => k + 1 < Len(s) /\ s[k + 1] = Backslash
  <2>1. k <= Len(Encode(t))
    BY <1>1, <1>2, <1>4
  <2>2. \A i \in 1 .. k : s[i] = t[i]
    BY <1>2, <1>3, <1>4, <2>1
  <2>3. k = Len(t) => Len(s) = k + 1 /\ s[k + 1] = Quote
    BY <1>3, <1>4
  <2>4. k < Len(t) => k + 1 < Len(s) /\ s[k + 1] = Backslash
    <3>. SUFFICES ASSUME k < Len(t) PROVE k + 1 < Len(s) /\ s[k + 1] = Backslash
      OBVIOUS
    <3>1. k + 1 \in 1 .. Len(Encode(t))
      BY <1>2, <1>3, <1>4
    <3>. QED  BY <1>2, <1>3, <1>4, <3>1
  <2>5. Len(s) \in Nat /\ k < Len(s)
    BY <1>2, <1>3, <2>1
  <2>. QED  BY <2>2, <2>3, <2>4, <2>5
<1>6. \A i \in 0 .. k : i \notin Opens(s)
  <2>. SUFFICES ASSUME NEW i \in 0 .. k, i \in Opens(s) PROVE FALSE
    OBVIOUS
  <2>1. i \in 0 .. Len(s)
    BY <1>2, <1>5
  <2>2. i > 0 /\ s[i] = Backslash
    BY <1>3, <2>1, OpensValue
  <2>3. i \in 1 .. k
    BY <1>2, <2>2
  <2>. QED  BY <1>2, <1>5, <2>2, <2>3
<1>7. PICK n \in 0 .. Len(s) :
          /\ v \in Texts /\ Len(v) = n
          /\ \A i \in 1 .. n :
                 /\ v[i] = IF i \in Opens(s) THEN Nul ELSE s[i]
                 /\ i - 1 \in Opens(s) \/ (s[i] # Quote /\ i < FieldCap)
          /\ n < Len(s) => n \notin Opens(s) /\ (s[n + 1] = Quote \/ n + 1 >= FieldCap)
  BY <1>3, ValueShape
<1>. HIDE DEF v
<1>8. PICK l \in 0 .. n :
          /\ r \in Texts /\ Len(r) = l
          /\ \A i \in 1 .. l : r[i] = v[i] /\ v[i] # Nul
          /\ l < n => v[l + 1] = Nul
  <2>1. r = CString(v)
    BY DEF Raw, v
  <2>. HIDE DEF r
  <2>. QED  BY <1>7, <2>1, CStringShape
<1>. HIDE DEF r
<1>9. n \in Nat /\ l \in Nat /\ l <= n
  BY <1>5, <1>7, <1>8
<1>10. k = Len(t) => n <= k
  <2>. SUFFICES ASSUME k = Len(t), ~(n <= k) PROVE FALSE
    OBVIOUS
  <2>1. PICK i \in 1 .. n : i = k + 1 /\ i - 1 = k
    BY <1>2, <1>9
  <2>2. k \in 0 .. k
    BY <1>2
  <2>. QED  BY <1>5, <1>6, <1>7, <2>1, <2>2
<1>11. k < Len(t) => l <= k
  <2>. SUFFICES ASSUME k < Len(t), ~(l <= k) PROVE FALSE
    OBVIOUS
  <2>1. PICK i \in 1 .. l : i = k + 1 /\ i - 1 = k
    BY <1>2, <1>9
  <2>2. i \in 1 .. n /\ i \in 0 .. Len(s) /\ k \in 0 .. k /\ i > 0 /\ i < Len(s) /\ s[i] = Backslash
    BY <1>2, <1>5, <1>7, <1>9, <2>1
  <2>3. i - 1 \notin Opens(s)
    BY <1>6, <2>1, <2>2
  <2>4. i \in Opens(s)
    BY <1>3, <2>2, <2>3, OpensValue
  <2>. QED  BY <1>7, <1>8, <2>1, <2>2, <2>4
<1>12. l <= k
  BY <1>1, <1>2, <1>9, <1>10, <1>11
<1>13. \A i \in 1 .. k : i <= n => v[i] = t[i]
  <2>. SUFFICES ASSUME NEW i \in 1 .. k, i <= n PROVE v[i] = t[i]
    OBVIOUS
  <2>1. i \in 1 .. n /\ i \in 0 .. k
    BY <1>2, <1>9
  <2>. QED  BY <1>5, <1>6, <1>7, <2>1
<1>14. \A i \in 1 .. l : r[i] = t[i]
  <2>. SUFFICES ASSUME NEW i \in 1 .. l PROVE r[i] = t[i]
    OBVIOUS
  <2>1. i \in 1 .. k /\ i <= n
    BY <1>2, <1>9, <1>12
  <2>. QED  BY <1>8, <1>13, <2>1
<1>15. ASSUME Len(t) < FieldCap, \A i \in 1 .. Len(t) : t[i] \notin {Quote, Backslash}
       PROVE  l = Len(t)
  <2>1. k = Len(t)
    BY <1>2, <1>15
  <2>2. n = k
    <3>. SUFFICES ASSUME n # k PROVE FALSE
      OBVIOUS
    <3>1. n < k /\ n < Len(s) /\ n + 1 \in 1 .. k
      BY <1>2, <1>5, <1>9, <1>10, <2>1
    <3>2. s[n + 1] = t[n + 1] /\ t[n + 1] # Quote
      BY <1>2, <1>5, <3>1
    <3>3. n + 1 >= FieldCap
      BY <1>7, <3>1, <3>2
    <3>. QED  BY <1>1, <1>2, <1>9, <1>15, <2>1, <3>1, <3>3, FieldNumbers
  <2>3. l = n
    <3>. SUFFICES ASSUME l # n PROVE FALSE
      OBVIOUS
    <3>1. l < n /\ l + 1 \in 1 .. k /\ l + 1 <= n /\ l + 1 \in 1 .. Len(t)
      BY <1>2, <1>9, <2>1, <2>2
    <3>2. v[l + 1] = t[l + 1] /\ v[l + 1] = Nul
      BY <1>8, <1>13, <3>1
    <3>. QED  BY <3>1, <3>2
  <2>. QED  BY <2>1, <2>2, <2>3
<1>16. /\ Len(r) <= Len(t) /\ \A i \in 1 .. Len(r) : r[i] = t[i]
       /\ Len(t) < FieldCap /\ (\A i \in 1 .. Len(t) : t[i] \notin {Quote, Backslash}) => Len(r) = Len(t)
  BY <1>1, <1>2, <1>8, <1>9, <1>12, <1>14, <1>15
<1>. QED  BY <1>16 DEF r, s

(* No line is longer than the longest record.                              *)
Tight(n, e) == \A i \in 1 .. n : e[i] - e[i - 1] <= Len(Time) + 1 + FieldCap

(* As long as no record is cut and no text has several lines, each line of *)
(* the file is one record, and the last one is what was read of body.      *)
TripInv ==
    ~torn /\ ~several =>
        /\ tail = "none"
        /\ \E e : Lined(file, lines, tail, e) /\ Tight(Len(lines), e)
        /\ \A i \in 1 .. Len(lines) : lines[i].event # Garbled
        /\ lines # <<>> => /\ sent \in Sent
                           /\ lines[Len(lines)].event = Raw(body)
                           /\ Raw(body) # <<>> /\ SingleLine(Raw(body))

LEMMA TripInit == FileInit => TripInv
<1>. SUFFICES ASSUME FileInit PROVE TripInv
  OBVIOUS
<1>1. FileInv /\ file = <<>> /\ lines = <<>> /\ tail = "none" /\ several = FALSE
  BY FileInit_FileInv DEF FileInit
<1>2. PICK e : Lined(file, lines, tail, e)
  BY <1>1 DEF FileInv
<1>3. Len(lines) = 0
  BY <1>1
<1>4. Tight(Len(lines), e) /\ \A i \in 1 .. Len(lines) : lines[i].event # Garbled
  BY <1>3 DEF Tight
<1>. QED  BY <1>1, <1>2, <1>4 DEF TripInv

LEMMA TripWrite ==
    ASSUME FileInv, TripInv, NEW c \in Conn, NEW t \in Sent, NEW k \in 1 .. Len(Body(t)),
           Write(c, t, SubSeq(Body(t), 1, k)), ~torn', ~several'
    PROVE  TripInv'
<1>. DEFINE b == SubSeq(Body(t), 1, k)
            x == Raw(b)
            l == WholeLine(tail, c, x)
            n == Len(lines)
            g == file \o Record(x)
<1>1. /\ x # NoEvent /\ ~several /\ several' = ~SingleLine(x) /\ torn' = torn
      /\ file' = g /\ lines' = Append(lines, l) /\ tail' = "none" /\ sent' = t /\ body' = b
  BY DEF Write, Submitted
<1>2. x \in Event /\ x \in Texts /\ x # <<>> /\ Len(x) < FieldCap /\ SingleLine(x)
  BY <1>1, SubmittedText
<1>3. file \in Texts /\ lines \in Seq(Line) /\ n \in Nat /\ Len(file) \in Nat
  BY DEF FileInv, Texts
<1>4. ~torn /\ tail = "none" /\ \A i \in 1 .. n : lines[i].event # Garbled
  BY <1>1 DEF TripInv
<1>5. PICK e : Lined(file, lines, tail, e) /\ Tight(n, e)
  BY <1>1 DEF TripInv
<1>6. /\ l \in Line /\ l.event = x /\ x # Garbled
  BY <1>2, <1>4, EventAssumption DEF WholeLine, Line, Text
<1>. DEFINE d == NextEnd(e, n, g)
<1>7. Lined(g, Append(lines, l), "none", d)
  BY <1>2, <1>3, <1>5, WriteLined
<1>8. Len(g) = Len(file) + (Len(Time) + 1 + Len(x) + 1)
  <2>1. Record(x) \in Texts /\ Len(Record(x)) = Len(Time) + 1 + Len(x) + 1
    BY <1>2, RecordText
  <2>2. PICK u \in Texts : u = Record(x)
    BY <2>1
  <2>3. Len(file \o u) = Len(file) + Len(u)
    BY <1>3, ConcatText
  <2>. QED  BY <2>1, <2>2, <2>3
<1>. HIDE DEF l, g, b, x
<1>9. /\ Len(lines') = n + 1 /\ lines'[n + 1] = l /\ lines' # <<>>
      /\ \A i \in 1 .. n : lines'[i] = lines[i]
  BY <1>1, <1>3, <1>6, AppendProperties
<1>10. Tight(n + 1, d)
  <2>. SUFFICES ASSUME NEW i \in 1 .. n + 1 PROVE d[i] - d[i - 1] <= Len(Time) + 1 + FieldCap
    BY DEF Tight
  <2>1. (\A j \in 0 .. n : d[j] = e[j]) /\ d[n + 1] = Len(g)
    BY <1>3 DEF NextEnd
  <2>. HIDE DEF d
  <2>2. CASE i = n + 1
    <3>1. e[n] = Len(file)
      BY <1>4, <1>5 DEF Lined, TailIs
    <3>2. d[i] = Len(g) /\ d[i - 1] = Len(file)
      <4>1. i - 1 = n /\ n \in 0 .. n
        BY <1>3, <2>2
      <4>. QED  BY <2>1, <2>2, <3>1, <4>1
    <3>3. Len(x) \in Nat /\ Len(Time) \in Nat
      BY <1>2, TimeText DEF Texts
    <3>. QED  BY <1>2, <1>3, <1>8, <3>2, <3>3, FieldNumbers
  <2>3. CASE i # n + 1
    <3>1. i \in 1 .. n /\ i \in 0 .. n /\ i - 1 \in 0 .. n
      BY <1>3, <2>3
    <3>. QED  BY <1>5, <2>1, <3>1 DEF Tight
  <2>. QED  BY <2>2, <2>3
<1>. HIDE DEF d
<1>11. Lined(file', lines', tail', d) /\ Tight(Len(lines'), d)
  BY <1>1, <1>7, <1>9, <1>10
<1>12. \A i \in 1 .. Len(lines') : lines'[i].event # Garbled
  <2>1. \A i \in 1 .. n + 1 : i \in 1 .. n \/ i = n + 1
    BY <1>3
  <2>. QED  BY <1>4, <1>6, <1>9, <2>1
<1>13. Raw(body') = x
  BY <1>1 DEF x
<1>14. lines'[Len(lines')].event = Raw(body')
  BY <1>6, <1>9, <1>13
<1>. QED  BY <1>1, <1>2, <1>11, <1>12, <1>13, <1>14 DEF TripInv

LEMMA TripStep == FileInv /\ TripInv /\ [FileNext]_fileVars => TripInv'
<1>. SUFFICES ASSUME FileInv, TripInv, [FileNext]_fileVars, ~torn', ~several' PROVE TripInv'
  BY DEF TripInv
<1>1. CASE UNCHANGED fileVars
  BY <1>1 DEF TripInv, Lined, fileVars, history
<1>2. CASE FileNext
  BY <1>2, TripWrite DEF FileNext, WriteTorn, Lose
<1>. QED  BY <1>1, <1>2

LEMMA TightShort ==
    ASSUME NEW f \in Texts, NEW n \in Nat, NEW e, Ends(f, n, e), e[n] = Len(f), Tight(n, e)
    PROVE  Short(f, n, e)
<1>1. Len(f) \in Nat /\ \A i \in 0 .. n : e[i] \in Nat
  BY EndsType
<1>2. LineCap \in Nat /\ Len(Time) + 1 + FieldCap < LineCap /\ Len(Time) \in Nat /\ FieldCap \in Nat
  <2>1. LineCap \in Nat /\ Len(Time) + 1 + FieldCap < LineCap
    BY TextAssumption
  <2>. QED  BY <2>1, TimeText, FieldNumbers
<1>. SUFFICES ASSUME NEW i \in 0 .. n, NEW p \in e[i] + 1 .. Len(f), i < n => p < e[i + 1]
     PROVE  p - e[i] < LineCap - 1
  BY DEF Short
<1>3. i < n
  <2>. SUFFICES ASSUME i = n PROVE FALSE
    OBVIOUS
  <2>. QED  BY <1>1
<1>4. PICK j \in 1 .. n : j = i + 1 /\ j - 1 = i
  BY <1>3
<1>5. e[j] - e[i] <= Len(Time) + 1 + FieldCap /\ p < e[j]
  BY <1>3, <1>4 DEF Tight
<1>6. e[j] \in Nat /\ e[i] \in Nat /\ p \in Nat
  BY <1>1, <1>4
<1>. QED  BY <1>2, <1>5, <1>6

(* RoundTrip: without torn writes and power losses a restart finds every   *)
(* request and the last event; that event is what the client sent, up to   *)
(* its first quote or backslash, and comes back as it was sent if it fits. *)
THEOREM TextsComeBack == FileSpec => []RoundTrip
<1>1. FileInv /\ TripInv => RoundTrip
  <2>. SUFFICES ASSUME FileInv, TripInv, ~torn, ~several PROVE RoundTrip
    BY DEF RoundTrip
  <2>. DEFINE m == load_journal(file)
              n == Len(lines)
              r == Raw(body)
  <2>1. file \in Texts /\ lines \in Seq(Line) /\ n \in Nat
    BY DEF FileInv
  <2>2. tail = "none" /\ \A i \in 1 .. n : lines[i].event # Garbled
    BY DEF TripInv
  <2>3. PICK e : Lined(file, lines, tail, e) /\ Tight(n, e)
    BY DEF TripInv
  <2>4. Short(file, n, e)
    <3>1. Ends(file, n, e) /\ e[n] = Len(file)
      BY <2>2, <2>3 DEF Lined, TailIs
    <3>. QED  BY <2>1, <2>3, <3>1, TightShort
  <2>5. /\ m.requests = LoadedRequests(lines, tail)
        /\ LoadedEvent(lines, tail) # Garbled => m.last_event = LoadedEvent(lines, tail)
    BY <2>1, <2>3, <2>4, LoadAgrees
  <2>. HIDE DEF m
  <2>6. m.requests = n
    BY <2>1, <2>2, <2>5 DEF LoadedRequests
  <2>7. m.last_event = IF lines = <<>> THEN NoEvent ELSE lines[n].event
    <3>1. LoadedEvent(lines, tail) = IF lines = <<>> THEN NoEvent ELSE lines[n].event
      BY <2>2 DEF LoadedEvent
    <3>2. lines # <<>> => n \in 1 .. n
      BY <2>1
    <3>. QED  BY <2>2, <2>5, <3>1, <3>2, EventAssumption
  <2>8. ASSUME lines # <<>>, body = Body(sent)
        PROVE  /\ IsPrefix(m.last_event, sent)
               /\ Len(sent) < FieldCap /\ ToSet(sent) \cap {Quote, Backslash, "\r"} = {}
                      => json_escape(m.last_event) = sent
    <3>1. sent \in Sent /\ lines[n].event = r /\ r # <<>> /\ SingleLine(r)
      BY <2>8 DEF TripInv
    <3>2. m.last_event = r /\ sent \in Texts /\ \A i \in 1 .. Len(sent) : sent[i] # Nul
      BY <2>7, <2>8, <3>1, SentText
    <3>3. r \in Texts
      BY <2>8, <3>2, BodyText, RawFits
    <3>4. /\ Len(r) <= Len(sent) /\ \A i \in 1 .. Len(r) : r[i] = sent[i]
          /\ Len(sent) < FieldCap /\ (\A i \in 1 .. Len(sent) : sent[i] \notin {Quote, Backslash})
                 => Len(r) = Len(sent)
      BY <2>8, <3>2, RawOfBody
    <3>. HIDE DEF r
    <3>5. Len(r) \in Nat /\ Len(sent) \in Nat
      BY <3>2, <3>3 DEF Texts
    <3>6. IsPrefix(r, sent)
      <4>1. Len(r) \in 0 .. Len(r) /\ Len(r) \in 0 .. Len(sent)
        BY <3>4, <3>5
      <4>. DEFINE u == SubSeq(r, 1, Len(r))
                  w == SubSeq(sent, 1, Len(r))
      <4>2. u \in Texts /\ Len(u) = Len(r) /\ \A i \in 1 .. Len(r) : u[i] = r[i]
        BY <3>3, <4>1, PrefixText
      <4>3. w \in Texts /\ Len(w) = Len(r) /\ \A i \in 1 .. Len(r) : w[i] = sent[i]
        BY <3>2, <4>1, PrefixText
      <4>. HIDE DEF u, w
      <4>4. u = w
        BY <3>4, <4>2, <4>3, SameText DEF Texts
      <4>. QED  BY <3>4, <4>4 DEF IsPrefix, u, w
    <3>7. ASSUME Len(sent) < FieldCap, ToSet(sent) \cap {Quote, Backslash, "\r"} = {}
          PROVE  json_escape(r) = sent
      <4>1. \A i \in 1 .. Len(sent) : sent[i] \notin {Quote, Backslash, "\r"}
        <5>1. \A i \in 1 .. Len(sent) : sent[i] \in ToSet(sent)
          BY <3>2 DEF ToSet, Texts
        <5>. QED  BY <3>7, <5>1
      <4>2. Len(r) = Len(sent)
        BY <3>4, <3>7, <4>1
      <4>3. r = sent
        BY <3>2, <3>3, <3>4, <4>2, SameText DEF Texts
      <4>4. \A i \in 1 .. Len(r) : r[i] # "\n"
        BY <3>1, <3>3, SingleLineText
      <4>5. \A i \in 1 .. Len(r) : r[i] \notin {Quote, Backslash, "\n", "\r"}
        BY <4>1, <4>3, <4>4
      <4>. QED  BY <3>3, <3>7, <4>2, <4>3, <4>5, EscapeIsCopy
    <3>. QED  BY <3>2, <3>6, <3>7
  <2>. QED  BY <2>6, <2>7, <2>8 DEF RoundTrip, Last, m
<1>. QED  BY <1>1, FileLined, TripInit, TripStep, PTL DEF FileSpec
=============================================================================
