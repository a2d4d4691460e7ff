--------------------------- MODULE Dashboard_proofs ---------------------------
(***************************************************************************)
(* A theorem about Dashboard, for every number of refreshes under way at   *)
(* the same time, of events, of starts of the server and of lost answers.  *)
(***************************************************************************)
EXTENDS Dashboard, TLAPS

LEMMA StepCases ==
    ASSUME Next, NEW G,
           \A r \in Refresh : Timer(r) => G, \A r \in Refresh : Sent(r) => G,
           \A r \in Refresh : Apply(r) => G,
           \A r \in Refresh : Garbled(r) \/ Blocked(r) \/ Lose(r) => G,
           \A r \in Refresh, k \in Kind : Answer(r, k) => G,
           Store => G, StoreOther => G, Restart => G, EnterToken => G, Send => G,
           PostFails => G
    PROVE  G
BY DEF Next, Browser, Server

Moment == [boot : Nat, event : Nat]

TypeOK ==
    /\ {boot, events, last, saved} \subseteq Nat
    /\ counters \in Moment /\ text \in Moment \cup {None}
    /\ asked \subseteq Refresh
    /\ answer \in [Refresh -> [Kind -> Moment \cup {None, Refused}]]

(* Neither the server nor its journal is behind an event that the journal  *)
(* has got and every start has read.                                       *)
ServerInv ==
    /\ saved <= events /\ last <= events
    /\ \A e \in 0 .. events : (e <= saved /\ e <= last) \/ e \in unsaved

(* A moment of the server, now or before. *)
Known(m) == m.event <= events /\ Later(Now, m)

(* What the text of moment m may be replaced with. *)
After(a, m) == Later(a, m) /\ (a.event >= m.event \/ m.event \in unsaved)

(* An answer that refresh r may have.  One to a refresh that no other has  *)
(* overlapped is not behind the page.                                      *)
Proper(r, a) ==
    /\ a = Refused => r \notin bearer
    /\ a \in Moment =>
          /\ Known(a)
          /\ r \notin overlapped =>
                Later(a, counters) /\ (text # None => After(a, text))

PageInv ==
    /\ TypeOK /\ ServerInv
    /\ Known(counters) /\ (text # None => Known(text))
    /\ \A r \in asked, k \in Kind : Proper(r, answer[r][k])
    /\ \A r \in Refresh \ asked : answer[r] = NoAnswer

LEMMA Apart == /\ None \notin Moment /\ Refused \notin Moment /\ None # Refused
               /\ Asked \notin Refresh
BY DashboardAssumption DEF Moment

LEMMA PageInit == Init => PageInv
<1>. SUFFICES ASSUME Init PROVE PageInv
  OBVIOUS
<1>1. TypeOK
  BY DEF Init, TypeOK, Moment, Zero, NoAnswer
<1>2. ServerInv /\ Known(counters) /\ text = None /\ asked = {}
  BY DEF Init, ServerInv, Known, Later, Now, Zero
<1>. QED  BY <1>1, <1>2 DEF Init, PageInv

(* The next moment of the server is later than all it has known, and has   *)
(* lost of what any of them shows only what the journal has not got.       *)
LEMMA NowIsAfter ==
    ASSUME TypeOK, ServerInv
    PROVE  /\ Now \in Moment /\ Known(Now)
           /\ \A m \in Moment : Known(m) => After(Now, m)
<1>1. Now \in Moment /\ Known(Now)
  BY DEF TypeOK, ServerInv, Now, Known, Later, Moment
<1>2. ASSUME NEW m \in Moment, Known(m) PROVE After(Now, m)
  <2>1. m.event \in Nat /\ m.event \in 0 .. events /\ Later(Now, m)
    BY <1>2 DEF Known, Moment, TypeOK
  <2>2. m.event <= last \/ m.event \in unsaved
    BY <2>1 DEF ServerInv
  <2>. QED  BY <2>1, <2>2 DEF After, Now, TypeOK, ServerInv
<1>. QED  BY <1>1, <1>2

(* A step that leaves the page and the answers alone, and with which the   *)
(* server only gets on.                                                    *)
LEMMA PageKept ==
    ASSUME PageInv, TypeOK', ServerInv', UNCHANGED <<page, asked, answer, overlapped>>,
           \A r \in Refresh : r \in bearer' => r \in bearer,
           unsaved \subseteq unsaved', \A m \in Moment : Known(m) => Known(m)'
    PROVE  PageInv'
<1>1. \A a, m : After(a, m) => After(a, m)'
  BY DEF After, Later
<1>2. Known(counters)' /\ (text # None => Known(text)')
  BY DEF PageInv, TypeOK, page, Known, Later, Now
<1>3. ASSUME NEW r \in asked, NEW k \in Kind PROVE Proper(r, answer[r][k])'
  <2>. DEFINE a == answer[r][k]
  <2>1. Proper(r, a) /\ r \in Refresh
    BY DEF PageInv, TypeOK
  <2>2. a' = a
    OBVIOUS
  <2>. HIDE DEF a
  <2>3. a \in Moment => Known(a)'
    BY <2>1, <2>2 DEF Proper, Known, Later, Now
  <2>4. a \in Moment /\ r \notin overlapped =>
           Later(a, counters) /\ (text # None => After(a, text)')
    BY <1>1, <2>1, <2>2 DEF Proper, page
  <2>5. Proper(r, a)'
    BY <2>1, <2>2, <2>3, <2>4 DEF Proper, page, Known, Later, After, Now
  <2>. QED  BY <2>5 DEF a
<1>. QED  BY <1>2, <1>3 DEF PageInv, page

(* A refresh that begins has no answers yet. *)
LEMMA BeginKeeps ==
    ASSUME PageInv, NEW r \in Refresh, Begin(r), UNCHANGED <<server, page>>
    PROVE  PageInv'
<1>1. /\ asked' = asked \cup {r} /\ answer' = answer /\ overlapped' = overlapped
      /\ \A s \in Refresh \ {r} : s \in bearer' => s \in bearer
      /\ r \notin asked
  BY DEF Begin
<1>2. \A k \in Kind : answer[r][k] = None
  BY <1>1 DEF PageInv, NoAnswer
<1>3. ASSUME NEW s \in asked', NEW k \in Kind PROVE Proper(s, answer[s][k])'
  <2>1. CASE s = r
    BY <1>1, <1>2, <2>1, Apart DEF Proper
  <2>2. CASE s # r
    <3>1. s \in asked /\ s \in Refresh /\ Proper(s, answer[s][k])
      BY <1>1, <2>2 DEF PageInv, TypeOK
    <3>. QED  BY <1>1, <2>2, <3>1 DEF Proper, Known, Later, After, Now, server, page
  <2>. QED  BY <2>1, <2>2
<1>. QED  BY <1>1, <1>3 DEF PageInv, TypeOK, ServerInv, Known, Later, Now, server, page

(* A refresh that ends has no answers any more. *)
LEMMA EndKeeps ==
    ASSUME PageInv, NEW r \in Refresh, End(r)
    PROVE  /\ asked' \subseteq asked /\ r \notin asked' /\ asked' \subseteq Refresh
           /\ answer' \in [Refresh -> [Kind -> Moment \cup {None, Refused}]]
           /\ \A s \in asked' : answer'[s] = answer[s]
           /\ \A s \in Refresh \ asked' : answer'[s] = NoAnswer
           /\ bearer' \subseteq bearer
<1>1. NoAnswer \in [Kind -> Moment \cup {None, Refused}]
  BY DEF NoAnswer
<1>. QED  BY <1>1 DEF PageInv, TypeOK, End

LEMMA AppliedAnswer ==
    ASSUME PageInv, NEW r \in Refresh, Apply(r), NEW k \in Kind
    PROVE  r \in asked /\ answer[r][k] \in Moment \cup {Refused} /\ Proper(r, answer[r][k])
BY DEF Apply, End, Pending, PageInv, TypeOK

(* What a refresh shows. *)
LEMMA ApplyShows ==
    ASSUME PageInv, NEW r \in Refresh, Apply(r)
    PROVE  /\ counters' \in Moment /\ Known(counters')
           /\ text' \in Moment \cup {None} /\ (text' # None => Known(text'))
           /\ r \notin overlapped =>
                 /\ Later(counters', counters) \/ r \notin bearer
                 /\ text # None /\ text' # None => After(text', text)
<1>. DEFINE a == answer[r]["metrics"]
            b == answer[r]["events"]
<1>1. /\ counters' = IF a = Refused THEN Zero ELSE a
      /\ text' = IF b = Refused THEN None ELSE b
  BY DEF Apply
<1>2. {"metrics", "events"} = Kind
  BY DEF Kind
<1>3. /\ a \in Moment \cup {Refused} /\ Proper(r, a)
      /\ b \in Moment \cup {Refused} /\ Proper(r, b)
  BY <1>2, AppliedAnswer
<1>. HIDE DEF a, b
<1>4. Zero \in Moment /\ Known(Zero)
  BY DEF Zero, Moment, Known, Later, Now, PageInv, TypeOK, ServerInv
<1>5. counters' \in Moment /\ Known(counters')
  BY <1>1, <1>3, <1>4 DEF Proper
<1>6. text' \in Moment \cup {None} /\ (text' # None => Known(text'))
  BY <1>1, <1>3 DEF Proper
<1>7. r \notin overlapped =>
         /\ Later(counters', counters) \/ r \notin bearer
         /\ text # None /\ text' # None => After(text', text)
  BY <1>1, <1>3 DEF Proper
<1>. QED  BY <1>5, <1>6, <1>7

LEMMA ServerStep ==
    ASSUME TypeOK, ServerInv, Submit \/ Restart
    PROVE  /\ {boot', events', last', saved'} \subseteq Nat /\ ServerInv'
           /\ unsaved \subseteq unsaved' /\ \A m \in Moment : Known(m) => Known(m)'
<1>1. CASE Submit
  <2>1. /\ events' = events + 1 /\ last' = events + 1 /\ boot' = boot
        /\ unsaved \subseteq unsaved'
        /\ \/ saved' = events + 1
           \/ events + 1 \in unsaved' /\ saved' = saved
    BY <1>1 DEF Submit
  <2>2. ServerInv' /\ {boot', events', last', saved'} \subseteq Nat
    BY <2>1 DEF TypeOK, ServerInv
  <2>3. \A m \in Moment : Known(m) => Known(m)'
    BY <2>1 DEF TypeOK, ServerInv, Known, Later, Now, Moment
  <2>. QED  BY <2>1, <2>2, <2>3
<1>2. CASE Restart
  <2>1. /\ boot' = boot + 1 /\ events' = events /\ saved' = saved
        /\ \/ last' = saved /\ unsaved' = unsaved
           \/ last' = 0 /\ unsaved' = unsaved \cup 1 .. events
    BY <1>2 DEF Restart
  <2>2. {boot', events', last', saved'} \subseteq Nat
    BY <2>1 DEF TypeOK
  <2>3. ServerInv' /\ unsaved \subseteq unsaved'
    BY <2>1 DEF TypeOK, ServerInv
  <2>4. \A m \in Moment : Known(m) => Known(m)'
    BY <2>1 DEF TypeOK, Known, Later, Now, Moment
  <2>. QED  BY <2>2, <2>3, <2>4
<1>. QED  BY <1>1, <1>2

LEMMA PageStep == PageInv /\ [Next]_vars => PageInv'
<1>. SUFFICES ASSUME PageInv, [Next]_vars PROVE PageInv'
  OBVIOUS
<1>0. ASSUME UNCHANGED <<server, page, asked, answer, overlapped>>,
             \A r \in Refresh : r \in bearer' => r \in bearer
      PROVE  PageInv'
  <2>1. TypeOK' /\ ServerInv' /\ \A m \in Moment : Known(m) => Known(m)'
    BY <1>0 DEF PageInv, TypeOK, ServerInv, Known, Later, Now, server, page
  <2>. QED  BY <1>0, <2>1, PageKept DEF server
<1>1. CASE UNCHANGED vars
  BY <1>0, <1>1 DEF vars
<1>2. ASSUME NEW r \in Refresh, Timer(r) PROVE PageInv'
  BY <1>2, BeginKeeps DEF Timer
<1>3. ASSUME NEW r \in Refresh, Sent(r) PROVE PageInv'
  BY <1>3, BeginKeeps DEF Sent
<1>4. ASSUME NEW r \in Refresh, Apply(r) PROVE PageInv'
  <2>1. End(r) /\ overlapped' = (overlapped \cup asked) \ {r} /\ UNCHANGED server
    BY <1>4 DEF Apply
  <2>2. TypeOK' /\ ServerInv'
    BY <1>4, <2>1, EndKeeps, ApplyShows DEF PageInv, TypeOK, ServerInv, server
  <2>3. Known(counters)' /\ (text # None => Known(text))'
    BY <1>4, <2>1, ApplyShows DEF Known, Later, Now, server
  <2>4. ASSUME NEW s \in asked', NEW k \in Kind PROVE Proper(s, answer[s][k])'
    <3>1. s \in asked /\ s \in overlapped' /\ answer'[s] = answer[s]
      BY <2>1, EndKeeps
    <3>2. Proper(s, answer[s][k])
      BY <3>1 DEF PageInv
    <3>. QED  BY <2>1, <3>1, <3>2, EndKeeps DEF Proper, Known, Later, Now, server
  <2>. QED  BY <2>1, <2>2, <2>3, <2>4, EndKeeps DEF PageInv
<1>5. ASSUME NEW r \in Refresh, Garbled(r) \/ Blocked(r) \/ Lose(r) PROVE PageInv'
  <2>1. /\ End(r) /\ overlapped' = overlapped \ {r}
        /\ UNCHANGED <<server, counters, text>>
    BY <1>5 DEF Garbled, Blocked, Lose, Catch
  <2>2. TypeOK' /\ ServerInv' /\ Known(counters)' /\ (text # None => Known(text))'
    BY <2>1, EndKeeps DEF PageInv, TypeOK, ServerInv, server, Known, Later, Now
  <2>3. ASSUME NEW s \in asked', NEW k \in Kind PROVE Proper(s, answer[s][k])'
    <3>1. s \in asked /\ s # r /\ answer'[s] = answer[s] /\ Proper(s, answer[s][k])
      BY <2>1, EndKeeps DEF PageInv
    <3>. QED  BY <2>1, <3>1, EndKeeps DEF Proper, Known, Later, After, Now, server
  <2>. QED  BY <2>1, <2>2, <2>3, EndKeeps DEF PageInv
<1>6. ASSUME NEW r \in Refresh, NEW k \in Kind, Answer(r, k) PROVE PageInv'
  <2>. DEFINE a == IF r \in bearer THEN Now ELSE Refused
  <2>1. /\ answer' = [answer EXCEPT ![r][k] = a] /\ r \in asked
        /\ UNCHANGED <<server, asked, bearer, overlapped, page>>
    BY <1>6 DEF Answer
  <2>2. a \in Moment \cup {Refused} /\ Proper(r, a)
    <3>1. /\ Now \in Moment /\ Known(Now)
          /\ \A m \in Moment : Known(m) => After(Now, m)
      BY NowIsAfter DEF PageInv
    <3>2. Later(Now, counters) /\ (text # None => After(Now, text))
      BY <3>1 DEF PageInv, TypeOK, After
    <3>. QED  BY <3>1, <3>2, Apart DEF Proper
  <2>. HIDE DEF a
  <2>3. /\ answer' \in [Refresh -> [Kind -> Moment \cup {None, Refused}]]
        /\ answer'[r][k] = a
        /\ \A s \in Refresh, l \in Kind : s # r \/ l # k => answer'[s][l] = answer[s][l]
        /\ \A s \in Refresh \ {r} : answer'[s] = answer[s]
    BY <2>1, <2>2 DEF PageInv, TypeOK
  <2>4. ASSUME NEW s \in asked, NEW l \in Kind PROVE Proper(s, answer'[s][l])
    <3>1. CASE s = r /\ l = k
      BY <2>2, <2>3, <3>1
    <3>2. CASE s # r \/ l # k
      BY <2>3, <3>2 DEF PageInv, TypeOK
    <3>. QED  BY <3>1, <3>2
  <2>5. \A s \in asked, l \in Kind : Proper(s, answer[s][l])'
    BY <2>1, <2>4 DEF Proper, Known, Later, After, Now, server, page
  <2>6. TypeOK' /\ ServerInv' /\ Known(counters)' /\ (text # None => Known(text))'
    BY <2>1, <2>3 DEF PageInv, TypeOK, ServerInv, Known, Later, Now, server, page
  <2>. QED  BY <2>1, <2>3, <2>5, <2>6 DEF PageInv
<1>7. ASSUME Submit \/ Restart, UNCHANGED <<page, asked, answer, overlapped>>,
             \A r \in Refresh : r \in bearer' => r \in bearer
      PROVE  PageInv'
  <2>1. /\ {boot', events', last', saved'} \subseteq Nat /\ ServerInv'
        /\ unsaved \subseteq unsaved' /\ \A m \in Moment : Known(m) => Known(m)'
    BY <1>7, ServerStep DEF PageInv
  <2>2. TypeOK'
    BY <1>7, <2>1 DEF PageInv, TypeOK, page
  <2>. QED  BY <1>7, <2>1, <2>2, PageKept
<1>8. ASSUME Store PROVE PageInv'
  BY <1>0, <1>7, <1>8 DEF Store
<1>9. ASSUME StoreOther PROVE PageInv'
  BY <1>7, <1>9 DEF StoreOther
<1>10. ASSUME Restart PROVE PageInv'
  BY <1>7, <1>10 DEF Restart
<1>11. ASSUME EnterToken PROVE PageInv'
  BY <1>0, <1>11 DEF EnterToken
<1>12. ASSUME Send PROVE PageInv'
  BY <1>0, <1>12, Apart DEF Send
<1>13. ASSUME PostFails PROVE PageInv'
  BY <1>0, <1>13 DEF PostFails
<1>. QED  BY <1>1, <1>2, <1>3, <1>4, <1>5, <1>6, <1>8, <1>9, <1>10, <1>11, <1>12, <1>13,
            StepCases

(* GoesBackOnlyOverlapped: a refresh that no other one overlapped shows    *)
(* nothing of an earlier moment (hud.js:10-21), in whatever order answers  *)
(* come or are lost.  Its counters go back only behind a restart of the    *)
(* server (api_server.c:334, 345), its event only with one that has not    *)
(* read the event shown in the journal (api_server.c:88, 291-292).         *)
THEOREM PageGoesBackOnlyOverlapped == Spec => GoesBackOnlyOverlapped
<1>. DEFINE Forward(r) ==
        /\ None \notin {text, text'} =>
              Later(text', text) /\ (text'.event >= text.event \/ text.event \in unsaved)
        /\ Later(counters', counters) \/ r \notin bearer
<1>1. ASSUME PageInv, NEW r \in asked, Apply(r), r \notin overlapped PROVE Forward(r)
  <2>1. r \in Refresh
    BY <1>1 DEF PageInv, TypeOK
  <2>. QED  BY <1>1, <2>1, ApplyShows DEF After
<1>2. PageInv /\ [Next]_vars =>
         [\A r \in asked \ asked' : Apply(r) /\ r \notin overlapped => Forward(r)]_vars
  BY <1>1
<1>. QED  BY PageInit, PageStep, <1>2, PTL DEF Spec, GoesBackOnlyOverlapped
===============================================================================
