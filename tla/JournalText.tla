----------------------------- MODULE JournalText -----------------------------
(***************************************************************************)
(* events.log character by character: what append_journal writes, what a   *)
(* torn write or a power loss leaves, and what load_journal reads, beside  *)
(* the same journal line by line.  Journal's operators, on which ApiServer *)
(* is built, are right when the two agree.  The texts come from clients    *)
(* (RequestText), whole or in bodies that were cut.                        *)
(*                                                                         *)
(* A text of several lines is recorded as several lines, of which Journal  *)
(* knows nothing: its operators are for the texts of SingleLine.           *)
(***************************************************************************)
EXTENDS Journal, RequestText

CONSTANTS
    Sent,        \* the texts that clients send
    Time,        \* the digits of time(NULL)
    LineCap,     \* the size of load_journal's line
    MaxWrites    \* how many writes are tried

ASSUME TextAssumption ==
    /\ Time \in Seq(Char \ {"\t", "\r", "\n"}) /\ Len(Time) > 0
    /\ LineCap \in Nat /\ Len(Time) + 1 + FieldCap < LineCap
    /\ MaxWrites \in Nat
    /\ NoEvent = <<>>
    /\ Sent \subseteq Seq(Char \ {Nul})
    /\ \A t \in Sent : \A k \in 1 .. Len(Body(t)) :
           Raw(SubSeq(Body(t), 1, k)) \in Event \cup {NoEvent}

(* load_journal neither splits such a text nor strips anything from it. *)
SingleLine(e) == "\n" \notin ToSet(e) /\ Head(e) # "\r" /\ Last(e) # "\r"

VARIABLES
    file,         \* the characters of events.log
    lines, tail,  \* the same, line by line
    writes,       \* how many writes have been tried
    torn,         \* history: some record has been cut
    several,      \* history: some text was not a single line, and lines says nothing more
    sent, body    \* history: the last text that was written, and the body it came in

history == <<torn, several, sent, body>>
fileVars == <<file, lines, tail, writes, history>>

(* What append_journal prints. *)
Record(e) == Time \o <<"\t">> \o e \o <<"\n">>

-------------------------------------------------------------------------------
(* load_journal *)

(* A mutant of Strip: the line end stays. *)
StripNothing(s) == s

(* The event without the line end. *)
Strip(s) ==
    LET text == {i \in 1 .. Len(s) : s[i] \notin {"\n", "\r"}}
    IN  SubSeq(s, 1, IF text = {} THEN 0 ELSE Max(text))

(* A mutant of LoadLine: a line without TAB is an event. *)
LoadAnyLine(m, l) ==
    LET tabs  == {i \in 1 .. Len(l) : l[i] = "\t"}
        event == Strip(IF tabs = {} THEN l ELSE SubSeq(l, Min(tabs) + 1, Len(l)))
    IN  IF event = <<>> THEN m
        ELSE [requests |-> m.requests + 1,
              last_event |-> SubSeq(event, 1, Min({Len(event), FieldCap - 1}))]

(* One line that fgets has returned.  Only the characters behind the first *)
(* TAB count; a line without TAB or without such characters is skipped.    *)
LoadLine(m, l) ==
    LET tabs  == {i \in 1 .. Len(l) : l[i] = "\t"}
        event == Strip(SubSeq(l, Min(tabs) + 1, Len(l)))
    IN  IF tabs = {} \/ event = <<>> THEN m
        ELSE [requests |-> m.requests + 1,
              last_event |-> SubSeq(event, 1, Min({Len(event), FieldCap - 1}))]

(* fgets returns a line at a newline or when its buffer is full. *)
Feed(s, ch) ==
    LET l == Append(s.line, ch)
    IN  IF ch = "\n" \/ Len(l) = LineCap - 1
        THEN [metrics |-> LoadLine(s.metrics, l), line |-> <<>>]
        ELSE [s EXCEPT !.line = l]

load_journal(text) ==
    LET reads[i \in 0 .. Len(text)] ==
            IF i = 0
            THEN [metrics |-> [requests |-> 0, last_event |-> <<>>], line |-> <<>>]
            ELSE Feed(reads[i - 1], text[i])
    IN  LoadLine(reads[Len(text)].metrics, reads[Len(text)].line)

-------------------------------------------------------------------------------
(* The file grows and is cut. *)

FileInit ==
    /\ file = <<>> /\ lines = <<>> /\ tail = "none" /\ writes = 0
    /\ torn = FALSE /\ several = FALSE /\ sent = <<>> /\ body = <<>>

(* handle_request appends what it has read of body b, a beginning of the   *)
(* body that a client has sent with the text t.  Bound: a text of several  *)
(* lines is the last.                                                      *)
Submitted(t, b) ==
    /\ Raw(b) # NoEvent /\ sent' = t /\ body' = b
    /\ ~several /\ several' = ~SingleLine(Raw(b))
    /\ writes < MaxWrites /\ writes' = writes + 1

Write(c, t, b) ==
    /\ Submitted(t, b)
    /\ file' = file \o Record(Raw(b))
    /\ lines' = Append(lines, WholeLine(tail, c, Raw(b)))
    /\ tail' = "none"
    /\ UNCHANGED torn

(* The kind of fragment the characters behind the last newline are. *)
Shape(s) ==
    LET tabs == {i \in 1 .. Len(s) : s[i] = "\t"}
    IN  IF s = <<>> THEN "none"
        ELSE IF tabs = {} THEN "bare"
        ELSE IF tabs = {Len(s)} THEN "tab" ELSE "text"

(* Only k characters of the record are written. *)
WriteTorn(t, k) ==
    LET cut == SubSeq(Record(Raw(Body(t))), 1, k) IN
    /\ Submitted(t, Body(t))
    /\ file' = file \o cut
    /\ tail' = TornTail(tail, Shape(cut))
    /\ torn' = TRUE
    /\ UNCHANGED lines

Newlines(s) == {i \in 1 .. Len(s) : s[i] = "\n"}
LastLine(s) == SubSeq(s, Max(Newlines(s) \cup {0}) + 1, Len(s))

(* A power loss keeps the first k characters. *)
Lose(k) ==
    LET kept == SubSeq(file, 1, k) IN
    /\ file' = kept
    /\ lines' = SubSeq(lines, 1, Min({Len(lines), Cardinality(Newlines(kept))}))
    /\ tail' = Shape(LastLine(kept))
    /\ torn' = TRUE
    /\ UNCHANGED <<writes, several, sent, body>>

FileNext ==
    \/ \E c \in Conn, t \in Sent : \E k \in 1 .. Len(Body(t)) : Write(c, t, SubSeq(Body(t), 1, k))
    \/ \E t \in Sent : \E k \in 1 .. Len(Record(Raw(Body(t)))) - 1 : WriteTorn(t, k)
    \/ \E k \in 0 .. Len(file) - 1 : Lose(k)

FileSpec == FileInit /\ [][FileNext]_fileVars

-------------------------------------------------------------------------------
(* Properties *)

(* Every line fits the buffer of fgets. *)
Fits ==
    LET ends == Newlines(file) \cup {0, Len(file) + 1}
    IN  \A i \in 0 .. Len(file) : \E j \in ends : i < j /\ j <= i + LineCap - 1

(* After any history of whole and torn writes and power losses, a restart  *)
(* counts the requests that Journal says it counts and shows the event     *)
(* that Journal says it shows, unless a line has grown beyond the buffer.  *)
(* What Journal calls garbled is some other text.                          *)
RestartAgrees ==
    Fits /\ ~several =>
        LET m == load_journal(file) IN
        /\ tail = Shape(LastLine(file))
        /\ m.requests = LoadedRequests(lines, tail)
        /\ LoadedEvent(lines, tail) # Garbled =>
               m.last_event = LoadedEvent(lines, tail)

(* README.md: "so accepted requests and the latest event survive a process *)
(* restart".  Without a torn write or a text of several lines a restart    *)
(* finds all of the requests and the latest event, as it was accepted.     *)
(* When the body was not cut, that event is a beginning of the text that   *)
(* the client sent, up to its first quote or backslash or as far as it     *)
(* fits the field; and the events route answers with the text that was     *)
(* sent, when it fits and has none of these and no line break.             *)
RoundTrip ==
    ~torn /\ ~several =>
        LET m == load_journal(file) IN
        /\ m.requests = Len(lines)
        /\ m.last_event = IF lines = <<>> THEN NoEvent ELSE Last(lines).event
        /\ lines # <<>> /\ body = Body(sent) =>
               /\ IsPrefix(m.last_event, sent)
               /\ Len(sent) < FieldCap /\ ToSet(sent) \cap {Quote, Backslash, "\r"} = {}
                      => json_escape(m.last_event) = sent

(* Whatever the body, and wherever it was cut: the copy of the text and    *)
(* its NUL stay inside raw, and fit last_event and, escaped, the answer;   *)
(* but for an escape at the last place of raw, whose NUL is one behind it. *)
FieldHasRoom ==
    body # <<>> =>
        /\ Len(json_value(body)) < FieldCap
              \/ (Len(json_value(body)) = FieldCap /\ json_value(body)[FieldCap - 1] = Nul)
        /\ Len(Raw(body)) < FieldCap
        /\ json_escape(Raw(body)) = FlattenSeq([i \in 1 .. Len(Raw(body)) |-> EscapeChar(Raw(body)[i])])

(* A power loss that takes no whole line leaves a tail that Journal allows *)
(* for it: ApiServer's PowerLoss has every outcome that the text has.      *)
LosesOnlyTail ==
    [][~several /\ writes' = writes /\ Len(lines') = Len(lines) => tail' \in Remains[tail]]_fileVars
==============================================================================
