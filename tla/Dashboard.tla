------------------------------ MODULE Dashboard ------------------------------
(***************************************************************************)
(* The web dashboard (src/hud/web/hud.js) in a browser, and what it needs  *)
(* of the API server (api_server.c).  A refresh asks for the health, the   *)
(* metrics and the events at once, and applies the three answers together. *)
(* Refreshes overlap: one is begun every three seconds, by a click and     *)
(* behind every request sent.  The server restarts, and the page stays.    *)
(* Events have the numbers 1, 2, ..., and an answer is the moment it is    *)
(* of: the boot of the server and its last event.  The moment stands for   *)
(* the counters too, which never decrease in one boot and begin anew with  *)
(* the next: "requests" and "authorized" at the lines of the journal, the  *)
(* other two at 0.  The answer on the health is always "ok": only its loss *)
(* matters.                                                                *)
(***************************************************************************)
EXTENDS Naturals

CONSTANTS
    Refresh,     \* the refreshes that may be under way at the same time
    Raw,         \* the events whose text makes the answers no JSON
    None,        \* no answer yet, no request, and "No events received."
    Asked,       \* a request that is not answered yet
    Answered,    \* a request that is, with 201, 503 or 401
    Refused,     \* the answer 401
    Origins,     \* where the page may have come from: "server", "elsewhere"
    MaxEvents,   \* bound: events
    MaxBoots,    \* bound: starts of the server
    MaxFailed,   \* bound: failures of the journal
    MaxLost      \* bound: answers that are lost

ASSUME DashboardAssumption ==
    /\ {None, Refused} \cap [boot : Nat, event : Nat] = {} /\ None # Refused
    /\ Asked \notin {None, Answered} \cup Refresh /\ Answered # None
    /\ Raw \subseteq Nat \ {0} /\ Origins \subseteq {"server", "elsewhere"}
    /\ {MaxEvents, MaxBoots, MaxFailed, MaxLost} \subseteq Nat

VARIABLES
    origin,      \* where the page has come from
    boot,        \* the number of the server's start
    events,      \* how many events there were
    last,        \* last_event, 0 when there is none
    saved,       \* the last event in the journal
    failed,      \* how often the journal has failed
    token,       \* the token in the page is the server's
    asked,       \* the refreshes under way
    bearer,      \* those that were asked with the right token, and so Send's
    answer,      \* answer[r][k]: what the server has answered r
    post,        \* the request being sent, or that it is answered
    lost,        \* how many answers were lost
    label,       \* connection-label
    counters,    \* the four counters, as the moment they are of
    text,        \* the event stream: a moment's last event, empty for 0
    unsaved,     \* history: the events that the journal has not got, or a start not read
    overlapped   \* history: the refreshes during which another was applied

server == <<boot, events, last, saved, failed, unsaved>>
page == <<label, counters, text>>
vars == <<origin, server, token, asked, bearer, answer, post, lost, page, overlapped>>

Zero == [boot |-> 0, event |-> 0]
Now == [boot |-> boot, event |-> last]

Kind == {"metrics", "events"}
NoAnswer == [k \in Kind |-> None]
Pending(r) == {k \in Kind : answer[r][k] = None}
NoJson(r) == \E k \in Kind : answer[r][k] \notin {None, Refused} /\ answer[r][k].event \in Raw

Init ==
    /\ origin \in Origins /\ token \in BOOLEAN
    /\ boot = 1 /\ events = 0 /\ last = 0 /\ saved = 0 /\ failed = 0 /\ unsaved = {}
    /\ asked = {} /\ bearer = {} /\ answer = [r \in Refresh |-> NoAnswer]
    /\ post = None /\ lost = 0
    /\ label = "Connecting" /\ counters = Zero /\ text = None
    /\ overlapped = {}

-------------------------------------------------------------------------------
(* The page *)

(* A mutant of Begin: requests that are under way already are shared.      *)
BeginShared(r) ==
    /\ r \notin asked /\ asked' = asked \cup {r}
    /\ bearer' = IF token THEN bearer \cup {r} ELSE bearer
    /\ \E s \in asked \cup {r} : answer' = [answer EXCEPT ![r] = answer[s]]
    /\ UNCHANGED overlapped

(* refresh() reads the token and sends the three requests. *)
Begin(r) ==
    /\ r \notin asked /\ asked' = asked \cup {r}
    /\ bearer' = IF token THEN bearer \cup {r} ELSE bearer
    /\ UNCHANGED <<answer, overlapped>>

(* The end of refresh(), with which its answers are gone. *)
End(r) ==
    /\ r \in asked /\ asked' = asked \ {r} /\ bearer' = bearer \ {r}
    /\ answer' = [answer EXCEPT ![r] = NoAnswer]

Timer(r) ==
    /\ Begin(r)
    /\ UNCHANGED <<origin, server, token, post, lost, page>>

EnterToken ==
    /\ ~token /\ token' = TRUE
    /\ UNCHANGED <<origin, server, asked, bearer, answer, post, lost, page, overlapped>>

Send ==
    /\ post = None /\ post' = Asked
    /\ bearer' = IF token THEN bearer \cup {Asked} ELSE bearer
    /\ UNCHANGED <<origin, server, token, asked, answer, lost, page, overlapped>>

(* The request sent is answered, and the page refreshed. *)
Sent(r) ==
    /\ post = Answered /\ post' = None /\ Begin(r)
    /\ UNCHANGED <<origin, server, token, lost, page>>

(* A mutant of Apply: an answer does not say again that the API is online. *)
ApplyUnlabelled(r) ==
    /\ End(r) /\ Pending(r) = {} /\ ~NoJson(r)
    /\ label' = IF label = "Connecting" THEN "API online" ELSE label
    /\ counters' = IF answer[r]["metrics"] = Refused THEN Zero ELSE answer[r]["metrics"]
    /\ text' = IF answer[r]["events"] = Refused THEN None ELSE answer[r]["events"]
    /\ overlapped' = (overlapped \cup asked) \ {r}
    /\ UNCHANGED <<origin, server, token, post, lost>>

(* All three answers have come. *)
Apply(r) ==
    /\ End(r) /\ Pending(r) = {} /\ ~NoJson(r)
    /\ label' = "API online"
    /\ counters' = IF answer[r]["metrics"] = Refused THEN Zero ELSE answer[r]["metrics"]
    /\ text' = IF answer[r]["events"] = Refused THEN None ELSE answer[r]["events"]
    /\ overlapped' = (overlapped \cup asked) \ {r}
    /\ UNCHANGED <<origin, server, token, post, lost>>

(* catch: the first failure ends the refresh; the other answers are        *)
(* dropped.                                                                *)
Catch(r) ==
    /\ End(r) /\ overlapped' = overlapped \ {r}
    /\ label' = "API offline"
    /\ UNCHANGED <<origin, server, token, post, counters, text>>

(* response.json() of an answer that is no JSON. *)
Garbled(r) ==
    /\ NoJson(r) /\ Catch(r) /\ UNCHANGED lost

(* The browser asks the server first whether a page from elsewhere may     *)
(* send the header Authorization.  The server does not say so.             *)
Blocked(r) == origin # "server" /\ Catch(r) /\ UNCHANGED lost

Lose(r) == lost < MaxLost /\ lost' = lost + 1 /\ Catch(r)

PostFails ==
    /\ post # None /\ post' = None /\ bearer' = bearer \ {Asked}
    /\ \/ origin # "server" /\ UNCHANGED lost
       \/ lost < MaxLost /\ lost' = lost + 1
    /\ UNCHANGED <<origin, server, token, asked, answer, page, overlapped>>

-------------------------------------------------------------------------------
(* The server: handle_request, one request at a time *)

Answer(r, k) ==
    /\ origin = "server" /\ r \in asked /\ k \in Pending(r)
    /\ answer' = [answer EXCEPT ![r][k] = IF r \in bearer THEN Now ELSE Refused]
    /\ UNCHANGED <<origin, server, token, asked, bearer, post, lost, page, overlapped>>

JournalFails == failed < MaxFailed /\ failed' = failed + 1

(* last_event is set before append_journal: an open or a write that fails, *)
(* and so a 503, leaves the event in memory only.  (A sync that fails, and *)
(* so a 503 too, leaves it in the journal.)                                *)
Submit ==
    /\ events < MaxEvents /\ events' = events + 1 /\ last' = events'
    /\ \/ saved' = events' /\ UNCHANGED <<failed, unsaved>>
       \/ JournalFails /\ unsaved' = unsaved \cup {events'} /\ UNCHANGED saved
    /\ UNCHANGED boot

Store ==
    /\ origin = "server" /\ post = Asked /\ post' = Answered
    /\ IF Asked \in bearer THEN Submit ELSE UNCHANGED server
    /\ bearer' = bearer \ {Asked}
    /\ UNCHANGED <<origin, token, asked, answer, lost, page, overlapped>>

StoreOther ==
    /\ Submit
    /\ UNCHANGED <<origin, token, asked, bearer, answer, post, lost, page, overlapped>>

(* The server ends, and the next one loads the journal, or cannot open it. *)
(* The requests it was at are lost (Lose, PostFails); the others find the  *)
(* new one.                                                                *)
Restart ==
    /\ boot < MaxBoots /\ boot' = boot + 1
    /\ \/ last' = saved /\ UNCHANGED <<failed, unsaved>>
       \/ JournalFails /\ last' = 0 /\ unsaved' = unsaved \cup 1 .. events
    /\ UNCHANGED <<origin, events, saved, token, asked, bearer, answer, post, lost,
                   page, overlapped>>

Browser(r) == Timer(r) \/ Apply(r) \/ Garbled(r) \/ Blocked(r)
Server == Store \/ \E r \in Refresh, k \in Kind : Answer(r, k)

Next ==
    \/ \E r \in Refresh : Browser(r) \/ Sent(r) \/ Lose(r)
    \/ Server \/ StoreOther \/ Restart \/ EnterToken \/ Send \/ PostFails

Fairness ==
    /\ \A r \in Refresh : WF_vars(Timer(r)) /\ WF_vars(Apply(r))
                          /\ WF_vars(Garbled(r)) /\ WF_vars(Blocked(r))
    /\ \A r \in Refresh, k \in Kind : WF_vars(Answer(r, k))

Spec == Init /\ [][Next]_vars /\ Fairness

-------------------------------------------------------------------------------
(* Properties *)

Later(m, n) == m.boot > n.boot \/ (m.boot = n.boot /\ m.event >= n.event)

(* A refresh that overlapped no other one shows nothing of an earlier      *)
(* moment.  The counters go back with it only when the server has started  *)
(* anew, or the token was wrong; and the event stream to an older event    *)
(* only when the server has started anew without the event that was shown: *)
(* the journal has failed then (api_server.c:88, 291-292).                 *)
GoesBackOnlyOverlapped ==
    [][\A r \in asked \ asked' :
          Apply(r) /\ r \notin overlapped =>
              /\ None \notin {text, text'} =>
                    Later(text', text) /\ (text'.event >= text.event \/ text.event \in unsaved)
              /\ Later(counters', counters) \/ r \notin bearer]_vars

(* What the page shows for good, when no more events come. *)
Settled ==
    IF origin # "server" \/ (token /\ last \in Raw) THEN label = "API offline"
    ELSE /\ label = "API online"
         /\ IF token THEN text = Now /\ counters = Now
                     ELSE text = None /\ counters = Zero

(* A page of the server's comes to show the last event that the server     *)
(* has, whatever was lost or came late, and after restarts of the server,  *)
(* unless the text of that event is not escaped; one opened elsewhere, as  *)
(* src/aelion/README.md:133 says, says "API offline" for ever, though the  *)
(* server answers.                                                         *)
Converges == <>[]Settled
==============================================================================
