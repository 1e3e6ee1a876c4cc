------------------------------ MODULE Answers ------------------------------
(***************************************************************************)
(* `cotty ask`: how a question goes out to the guests and how their chat   *)
(* comes back to it.  internal/host/say.go and, of internal/host/host.go,  *)
(* ask and onSay.                                                          *)
(*                                                                         *)
(* An asker is a control connection: it carries one request and has its    *)
(* own goroutine (internal/ctl/ctl.go).  The guests' chat is handled by    *)
(* one goroutine per guest (or by one reader for all of them through a     *)
(* relay, whose interleavings are among these).  A timer may fire at any   *)
(* moment after it is set; the clock below is only the limiter's.          *)
(***************************************************************************)
EXTENDS Naturals, Sequences, FiniteSets, SequencesExt

CONSTANTS
  Askers,    \* the control connections, one question each
  Guests,
  Roster,    \* the guests in the order they joined: a broadcast serves them in it
  None,      \* no question, no text
  NoAnswer,  \* errNoAnswer, as a reply
  Burst,     \* sayBurst
  Window,    \* sayWindow, in clock ticks
  MaxSays    \* bound: chat messages the guests send

ASSUME RosterAssumption == Roster \in Seq(Guests)
ASSUME LimitsAssumption == Burst \in Nat /\ Window \in Nat \ {0} /\ MaxSays \in Nat
ASSUME NoneAssumption == None \notin Askers

VARIABLES
  apc,      \* asker -> where its goroutine is
  sent,     \* asker -> how many guests its question has reached
  waiters,  \* answers.waiters: the askers waiting for a text, oldest first
  chan,     \* asker -> its channel (capacity 1)
  reply,    \* asker -> what ask returned
  gpc,      \* guest -> where its handler is
  say,      \* guest -> the text its handler is dealing with
  heard,    \* guest -> the questions it has received and not answered yet
  said,     \* how many texts were sent
  notices,  \* the texts shown on every terminal
  recent,   \* guest -> sayLimiter.recent: the texts whose times are in it
  age,      \* text -> how long ago it was sent
  joined,   \* history: the askers in the order they began to wait
  spoken    \* history: guest -> the texts that passed the limiter

vars == <<apc, sent, waiters, chan, reply, gpc, say, heard, said, notices, recent, age, joined, spoken>>
askVars == <<apc, sent, waiters, chan, reply, joined>>
sayVars == <<gpc, say, said, notices, recent, age, spoken>>

Texts == 1 .. MaxSays

Text == [n : Texts, re : Askers \cup {None}]

ASSUME ReplyAssumption == NoAnswer # None /\ None \notin Text /\ NoAnswer \notin Text

-----------------------------------------------------------------------------
(* ask *)

\* The request arrives and is logged.
Ask(a) ==
  /\ apc[a] = "idle"
  /\ apc' = [apc EXCEPT ![a] = "sending"]
  /\ UNCHANGED <<sent, waiters, chan, reply, heard, joined, sayVars>>

\* tr.broadcast: one guest after the other, each as slow as its connection.
SendQuestion(a) ==
  /\ apc[a] = "sending"
  /\ sent[a] < Len(Roster)
  /\ heard' = [heard EXCEPT ![Roster[sent[a] + 1]] = @ \cup {a}]
  /\ sent' = [sent EXCEPT ![a] = @ + 1]
  /\ UNCHANGED <<apc, waiters, chan, reply, joined, sayVars>>

\* wait: the asker joins the waiters when the broadcast is over.
Register(a) ==
  /\ apc[a] = "sending"
  /\ sent[a] = Len(Roster)
  /\ waiters' = Append(waiters, a)
  /\ joined' = Append(joined, a)
  /\ apc' = [apc EXCEPT ![a] = "waiting"]
  /\ UNCHANGED <<sent, chan, reply, heard, sayVars>>

Return(a, r) ==
  /\ reply' = [reply EXCEPT ![a] = r]
  /\ apc' = [apc EXCEPT ![a] = "done"]

TakeFrom(a) ==
  /\ chan[a] # << >>
  /\ Return(a, Head(chan[a]))
  /\ chan' = [chan EXCEPT ![a] = Tail(@)]
  /\ UNCHANGED <<sent, waiters, heard, joined, sayVars>>

\* select, first case: a text is there.
Receive(a) == apc[a] = "waiting" /\ TakeFrom(a)

\* select, second case: the timer; the select may pick it also when a text is there.
TimerFires(a) ==
  /\ apc[a] = "waiting"
  /\ apc' = [apc EXCEPT ![a] = "expired"]
  /\ UNCHANGED <<sent, waiters, chan, reply, heard, joined, sayVars>>

\* Faulty variant: the append without its second half, a.waiters[i+1:].
GiveUpTruncates(a) ==
  /\ apc[a] = "expired"
  /\ \E i \in DOMAIN waiters : waiters[i] = a /\ waiters' = SubSeq(waiters, 1, i - 1)
  /\ Return(a, NoAnswer)
  /\ UNCHANGED <<sent, chan, heard, joined, sayVars>>

\* After the timer, under the lock: still among the waiters, so nobody will answer.
GiveUp(a) ==
  /\ apc[a] = "expired"
  /\ \E i \in DOMAIN waiters : waiters[i] = a /\ waiters' = RemoveAt(waiters, i)
  /\ Return(a, NoAnswer)
  /\ UNCHANGED <<sent, chan, heard, joined, sayVars>>

\* Faulty variant: the timer's case returns errNoAnswer whatever was delivered.
LateIsNoAnswer(a) ==
  /\ apc[a] = "expired" /\ a \notin ToSet(waiters)
  /\ Return(a, NoAnswer)
  /\ UNCHANGED <<sent, waiters, chan, heard, joined, sayVars>>

\* After the timer, no longer among the waiters: "Delivered while timing out."
TakeLate(a) == apc[a] = "expired" /\ a \notin ToSet(waiters) /\ TakeFrom(a)

-----------------------------------------------------------------------------
(* onSay *)

Kept(g) == {n \in recent[g] : age[n] < Window}

\* Faulty variant: one text too many passes.
MayPassOneMore(g) == Cardinality(Kept(g)) <= Burst

\* sayLimiter.allow
MayPass(g) == Cardinality(Kept(g)) < Burst

\* A text arrives from guest g: an answer to a question it got, or just chat.
\* A text the limiter refuses is dropped.
Speak(g, re) ==
  /\ gpc[g] = "idle"
  /\ said < MaxSays
  /\ re \in heard[g] \cup {None}
  /\ said' = said + 1
  /\ heard' = [heard EXCEPT ![g] = @ \ {re}]
  /\ IF MayPass(g)
       THEN /\ recent' = [recent EXCEPT ![g] = Kept(g) \cup {said + 1}]
            /\ spoken' = [spoken EXCEPT ![g] = @ \cup {said + 1}]
            /\ age' = [age EXCEPT ![said + 1] = 0]
            /\ gpc' = [gpc EXCEPT ![g] = "deliver"]
            /\ say' = [say EXCEPT ![g] = [n |-> said + 1, re |-> re]]
       ELSE /\ recent' = [recent EXCEPT ![g] = Kept(g)]
            /\ UNCHANGED <<spoken, age, gpc, say>>
  /\ UNCHANGED <<askVars, notices>>

\* Faulty variants: the waiter is dropped and its channel stays empty; the
\* waiter stays in the queue.
DeliverNothing(g) ==
  /\ gpc[g] = "deliver"
  /\ IF waiters = << >>
       THEN /\ gpc' = [gpc EXCEPT ![g] = "notice"]
            /\ UNCHANGED <<waiters, say>>
       ELSE /\ waiters' = Tail(waiters)
            /\ gpc' = [gpc EXCEPT ![g] = "idle"]
            /\ say' = [say EXCEPT ![g] = None]
  /\ UNCHANGED <<apc, sent, chan, reply, heard, said, notices, recent, age, joined, spoken>>
DeliverAndKeep(g) ==
  /\ gpc[g] = "deliver"
  /\ IF waiters = << >>
       THEN /\ gpc' = [gpc EXCEPT ![g] = "notice"]
            /\ UNCHANGED <<chan, say>>
       ELSE /\ chan' = [chan EXCEPT ![Head(waiters)] = Append(@, say[g])]
            /\ gpc' = [gpc EXCEPT ![g] = "idle"]
            /\ say' = [say EXCEPT ![g] = None]
  /\ UNCHANGED <<apc, sent, waiters, reply, heard, said, notices, recent, age, joined, spoken>>

\* deliver: the oldest waiter leaves the queue and gets the text, or nobody
\* waits and the text will be a notice.
Deliver(g) ==
  /\ gpc[g] = "deliver"
  /\ IF waiters = << >>
       THEN /\ gpc' = [gpc EXCEPT ![g] = "notice"]
            /\ UNCHANGED <<waiters, chan, say>>
       ELSE /\ chan' = [chan EXCEPT ![Head(waiters)] = Append(@, say[g])]
            /\ waiters' = Tail(waiters)
            /\ gpc' = [gpc EXCEPT ![g] = "idle"]
            /\ say' = [say EXCEPT ![g] = None]
  /\ UNCHANGED <<apc, sent, reply, heard, said, notices, recent, age, joined, spoken>>

\* The text is shown on every terminal.
Notice(g) ==
  /\ gpc[g] = "notice"
  /\ notices' = notices \cup {say[g]}
  /\ gpc' = [gpc EXCEPT ![g] = "idle"]
  /\ say' = [say EXCEPT ![g] = None]
  /\ UNCHANGED <<askVars, heard, said, recent, age, spoken>>

\* Time passes for the limiter, which does not tell ages beyond its window apart.
Tick ==
  /\ \E n \in Texts : age[n] < Window
  /\ age' = [n \in Texts |-> IF age[n] < Window THEN age[n] + 1 ELSE age[n]]
  /\ UNCHANGED <<askVars, gpc, say, heard, said, notices, recent, spoken>>

-----------------------------------------------------------------------------
Init ==
  /\ apc = [a \in Askers |-> "idle"]
  /\ sent = [a \in Askers |-> 0]
  /\ waiters = << >>
  /\ chan = [a \in Askers |-> << >>]
  /\ reply = [a \in Askers |-> None]
  /\ gpc = [g \in Guests |-> "idle"]
  /\ say = [g \in Guests |-> None]
  /\ heard = [g \in Guests |-> {}]
  /\ said = 0
  /\ notices = {}
  /\ recent = [g \in Guests |-> {}]
  /\ age = [n \in Texts |-> Window]
  /\ joined = << >>
  /\ spoken = [g \in Guests |-> {}]

AskStep(a) == SendQuestion(a) \/ Register(a) \/ Receive(a) \/ TimerFires(a) \/ GiveUp(a) \/ TakeLate(a)
SayStep(g) == Deliver(g) \/ Notice(g)

Next ==
  \/ \E a \in Askers : Ask(a) \/ AskStep(a)
  \/ \E g \in Guests : SayStep(g)
  \/ \E g \in Guests, re \in Askers \cup {None} : Speak(g, re)
  \/ Tick

\* The goroutines that serve a request or a text are scheduled until they are
\* done, a write to a guest ends (it has a 10 s limit, internal/wsconn), and
\* the timer fires.  Nobody has to ask or to answer.
Fairness ==
  /\ \A a \in Askers : WF_vars(AskStep(a))
  /\ \A g \in Guests : WF_vars(SayStep(g))

Spec == Init /\ [][Next]_vars /\ Fairness

-----------------------------------------------------------------------------
(* Properties *)

\* Types; a channel never holds more than its capacity, so that deliver never
\* blocks with the lock held (say.go:93).
TypeOK ==
  /\ apc \in [Askers -> {"idle", "sending", "waiting", "expired", "done"}]
  /\ sent \in [Askers -> 0 .. Len(Roster)]
  /\ waiters \in Seq(Askers) /\ joined \in Seq(Askers)
  /\ chan \in [Askers -> Seq(Text)]
  /\ \A a \in Askers : Len(chan[a]) <= 1
  /\ reply \in [Askers -> Text \cup {None, NoAnswer}]
  /\ gpc \in [Guests -> {"idle", "deliver", "notice"}]
  /\ say \in [Guests -> Text \cup {None}]
  /\ heard \in [Guests -> SUBSET Askers]
  /\ said \in 0 .. MaxSays
  /\ notices \subseteq Text
  /\ recent \in [Guests -> SUBSET Texts]
  /\ age \in [Texts -> 0 .. Window]
  /\ spoken \in [Guests -> SUBSET Texts]

\* say.go:78, "Delivered while timing out": an asker whose timer fired either
\* still waits in the queue or already has its text, so that the last receive
\* never blocks and a stranger's timeout never takes its place away.
TimeoutNeverHangs ==
  /\ IsInjective(waiters)
  /\ \A a \in Askers :
       apc[a] \in {"waiting", "expired"} <=> (a \in ToSet(waiters) \/ chan[a] # << >>)
  /\ \A a \in ToSet(waiters) : chan[a] = << >>

Answered == {a \in Askers : reply[a] \notin {None, NoAnswer}}

\* The places where text n is on its way or has arrived.  A channel counts
\* while its asker will still read it.
Handling(n) == {g \in Guests : gpc[g] # "idle" /\ say[g].n = n}
Holding(n) == {a \in Askers : apc[a] # "done" /\ \E i \in DOMAIN chan[a] : chan[a][i].n = n}
Replied(n) == {a \in Answered : reply[a].n = n}
Noticed(n) == {t \in notices : t.n = n}

Places(n) ==
  ({"handler"} \X Handling(n)) \cup ({"channel"} \X Holding(n))
    \cup ({"reply"} \X Replied(n)) \cup ({"notice"} \X Noticed(n))

\* onSay and answers: a text that passed the limiter is somewhere, and never
\* in two places: it becomes one asker's answer or a notice, also when the
\* asker's timer fires while it is being delivered.
NoTextLost ==
  \A n \in Texts : Cardinality(Places(n)) = IF \E g \in Guests : n \in spoken[g] THEN 1 ELSE 0

\* say.go:51-53, "oldest question first": nobody is served while an asker that
\* began to wait earlier is still in the queue.
OldestFirst ==
  \A i, j \in DOMAIN joined :
    /\ i < j
    /\ chan[joined[j]] # << >> \/ joined[j] \in Answered
    => joined[i] \notin ToSet(waiters)

\* say.go:20-22, "at most sayBurst messages per sayWindow" pass, however the
\* texts and the refusals fall around the ends of the window; and a guest is
\* refused only while that many of its texts of the window did pass, so that
\* what was refused does not count.
RateLimited ==
  \A g \in Guests :
    LET passed == {n \in spoken[g] : age[n] < Window}
    IN /\ Cardinality(passed) <= Burst
       /\ ~MayPass(g) => Cardinality(passed) = Burst

\* What Questions sees of the state: a text has been taken from the moment deliver
\* has handled it, also when its asker or its handler has not moved on yet.
QOutcome ==
  [a \in Askers |-> IF apc[a] = "done" \/ chan[a] = << >> THEN reply[a] ELSE Head(chan[a])]
QRemarks == notices \cup {say[g] : g \in {h \in Guests : gpc[h] = "notice"}}
Q == INSTANCE Questions WITH open <- waiters, outcome <- QOutcome, remarks <- QRemarks

\* say.go:51-53: a question is answered by one text, oldest question first, or not at
\* all, and a text is shown only when nobody waits for one: each step of a goroutine
\* is a step of Questions or none, a delivery that crosses a timeout included.
ImplementsQuestions == Q!Spec

\* Every `cotty ask` returns, with an answer or with errNoAnswer.
AskReturns == \A a \in Askers : (apc[a] = "sending") ~> (apc[a] = "done")

\* host.go:343-344, ask "waits for the first answer": no answer to a question
\* is shown as a mere notice before its asker has begun to wait.
FirstAnswerIsTheReply == \A t \in notices : t.re # None => apc[t.re] # "sending"
=============================================================================
