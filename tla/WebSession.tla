----------------------------- MODULE WebSession -----------------------------
(***************************************************************************)
(* A page (WebClient) in a session.  The server side is the handler that   *)
(* welcomes it (handleWS in internal/host/local.go, handleGuest in         *)
(* internal/relay/relay.go) and what the host broadcasts and reads         *)
(* (internal/host/host.go).  Commands are decided as Ballots says, which   *)
(* Multisig implements.  net and wire are the websocket: frames in order,  *)
(* the last of them lost when it closes.                                   *)
(***************************************************************************)
EXTENDS WebClient, FiniteSets

CONSTANTS
  Granted,      \* <<the name asked for, the name Join gives>>
  Quorum,
  Scenarios     \* bound: the links and sessions, with how many frames of each kind

Told == {"output", "resize", "info", "activity", "say"}
Kinds == Told \cup {"proposal", "input"}

ASSUME SessionAssumption ==
  /\ Granted \subseteq (Names \cup {Blank}) \X Names
  /\ Scenarios \subseteq [link : Links, enc : BOOLEAN, room : [Kinds -> Nat]]

VARIABLES
  room,        \* bound: the scenario's
  enc,         \* the session is end-to-end encrypted
  seat,        \* the page's place in the registry: "out", "joined", "welcome"
  named,       \* the name it has there
  net,         \* frames to the page
  wire,        \* keys and votes to the host
  frames,      \* kind -> how many such frames went to the page
  told,        \* history: id -> the last tally that went to the page
  toldSize,    \* history: the last size that did
  early,       \* history: something went before the welcome
  got,         \* the keys that reached the shell
  owed,        \* tallies to be announced
  pstate, yes, no  \* the proposals, as in Ballots

ballots == <<pstate, yes, no>>
sent == <<net, frames, told, toldSize, early>>
serverVars == <<room, enc, seat, named, sent, wire, got, owed, ballots>>
vars == <<pageVars, serverVars>>

B == INSTANCE Ballots WITH status <- pstate, ran <- {}

Untold == [pending |-> FALSE, yes |-> {}, no |-> {}]

-----------------------------------------------------------------------------
(* To the page *)

\* A frame is sent to whoever is in the list, also before the welcome.
Put(f) ==
  /\ seat # "out"
  /\ net' = IF page = "open" THEN Append(net, f) ELSE net
  /\ early' = (early \/ seat = "joined")

\* Join.
Join ==
  /\ seat = "out"
  /\ page = "open"
  /\ seat' = "joined"
  /\ \E g \in Granted : g[1] = link.name /\ named' = g[2]
  /\ UNCHANGED <<pageVars, room, enc, sent, wire, got, owed, ballots>>

\* ... and the welcome after it.
Welcome ==
  /\ seat = "joined"
  /\ seat' = "welcome"
  /\ net' = IF page = "open" THEN Append(net, [kind |-> "hello", sealed |-> enc, name |-> named]) ELSE net
  /\ UNCHANGED <<pageVars, room, enc, named, frames, told, toldSize, early, wire, got, owed, ballots>>

\* What the session says apart from votes.
Broadcast(kind) ==
  /\ page = "open"
  /\ frames[kind] < room[kind]
  /\ frames' = [frames EXCEPT ![kind] = @ + 1]
  /\ \/ kind # "resize" /\ toldSize' = toldSize /\ Put([kind |-> kind, sealed |-> enc, n |-> frames[kind] + 1])
     \/ kind = "resize" /\ \E s \in Sizes : toldSize' = s /\ Put([kind |-> kind, size |-> s])
  /\ UNCHANGED <<pageVars, room, enc, seat, named, told, wire, got, owed, ballots>>

\* announce: by whichever goroutine gets there first.
Announce(x) ==
  /\ x \in owed
  /\ owed' = owed \ {x}
  /\ IF seat # "out" /\ page = "open"
       THEN /\ Put([kind |-> "proposal", sealed |-> enc, id |-> x.id, tally |-> x.tally])
            /\ told' = [told EXCEPT ![x.id] = x.tally]
       ELSE UNCHANGED <<net, early, told>>
  /\ UNCHANGED <<pageVars, room, enc, seat, named, frames, toldSize, wire, got, ballots>>

-----------------------------------------------------------------------------
(* Proposals *)

\* A changed tally is to be announced.
Owe(i) ==
  owed' = owed \cup {[id |-> i, tally |-> [pending |-> pstate'[i] = "pending", yes |-> yes'[i], no |-> no'[i]]]}

\* A command is held for approval.
Hold(i) ==
  /\ i <= room["proposal"]
  /\ B!Open(i, {})
  /\ Owe(i)
  /\ UNCHANGED <<pageVars, room, enc, seat, named, sent, wire, got>>

\* It runs out of time, which is not announced.
Expire(i) ==
  /\ i \in B!Pending
  /\ B!Lapse({i})
  /\ UNCHANGED <<pageVars, room, enc, seat, named, sent, wire, got, owed>>

\* a's vote counts.
Count(i, a, op) ==
  /\ B!Cast(i, a, {})
  /\ IF op = "approve" THEN a \in yes'[i] ELSE a \in no'[i]
  /\ Owe(i)

\* Another approver votes.
OtherVote(i, a, op) ==
  /\ a # named \/ seat = "out"
  /\ Count(i, a, op)
  /\ UNCHANGED <<pageVars, room, enc, seat, named, sent, wire, got>>

\* The host can make sense of what the page sends.
Opens == IF enc THEN link.key = "right" ELSE ~HasKey

Mine(x) == x.kind = "vote" /\ x.voter = named /\ Opens

\* It reads a key of a guest that may type; a plain session types what it gets, sealed or not.
ReadKey ==
  /\ seat = "welcome"
  /\ wire # << >>
  /\ Head(wire).kind = "input"
  /\ wire' = Tail(wire)
  /\ got' = IF enc /\ ~Opens THEN got ELSE Append(got, Head(wire).n)
  /\ UNCHANGED <<pageVars, room, enc, seat, named, sent, owed, ballots>>

Counts(x) ==
  /\ Mine(x)
  /\ named \in Approvers
  /\ x.id \in B!Pending
  /\ named \notin yes[x.id] \cup no[x.id]

\* onVote: a vote under another name is ignored, one that cannot count is answered.
ReadVote ==
  /\ seat = "welcome"
  /\ wire # << >>
  /\ Head(wire).kind = "vote"
  /\ wire' = Tail(wire)
  /\ LET x == Head(wire)
     IN \/ Counts(x) /\ Count(x.id, named, x.op) /\ UNCHANGED sent
        \/ ~Counts(x) /\ Mine(x) /\ Put([kind |-> "info", sealed |-> enc, n |-> 0]) /\ UNCHANGED <<frames, told, toldSize, owed, ballots>>
        \/ ~Mine(x) /\ UNCHANGED <<sent, owed, ballots>>
  /\ UNCHANGED <<pageVars, room, enc, seat, named, got>>

-----------------------------------------------------------------------------
(* The page's steps *)

\* What has not arrived when the page closes the connection never does.
Unread == IF page' = "open" THEN net ELSE << >>

Deliver ==
  /\ net # << >>
  /\ Message(Head(net))
  /\ net' = Tail(net)
  /\ UNCHANGED <<room, enc, seat, named, frames, told, toldSize, early, wire, got, owed, ballots>>

PageTurn ==
  /\ Handle
  /\ net' = Unread
  /\ UNCHANGED <<room, enc, seat, named, frames, told, toldSize, early, wire, got, owed, ballots>>

Lose ==
  /\ Close
  /\ net' = << >>
  /\ \E k \in 0 .. Len(wire) : wire' = SubSeq(wire, 1, k)
  /\ UNCHANGED <<room, enc, seat, named, frames, told, toldSize, early, got, owed, ballots>>

SendTurn ==
  /\ Send
  /\ wire' = Sent(wire)
  /\ UNCHANGED <<room, enc, seat, named, sent, got, owed, ballots>>

Alone(A) == A /\ UNCHANGED serverVars

-----------------------------------------------------------------------------
Init ==
  /\ \E s \in Scenarios : link = s.link /\ enc = s.enc /\ room = s.room
  /\ PageInit
  /\ seat = "out" /\ named = Blank
  /\ net = << >> /\ wire = << >>
  /\ frames = [k \in Told |-> 0]
  /\ told = [i \in Ids |-> Untold] /\ toldSize = Blank /\ early = FALSE
  /\ got = << >> /\ owed = {}
  /\ pstate = [i \in Ids |-> "none"]
  /\ yes = [i \in Ids |-> {}] /\ no = [i \in Ids |-> {}]

Server == Join \/ Welcome \/ ReadKey \/ ReadVote \/ \E x \in owed : Announce(x)
Browser == Alone(ImportKey) \/ Deliver \/ PageTurn \/ SendTurn
Person ==
  \/ \E l \in Links : Alone(Submit(l))
  \/ typed < room["input"] /\ Alone(Type)
  \/ \E i \in Ids, op \in Ops : Alone(Click(i, op))
  \/ room["resize"] > 0 /\ \E s \in Windows : Alone(WindowResize(s))
World ==
  \/ Alone(Connect)
  \/ Lose
  \/ \E b \in Boxes, t \in {"own", "older"} : Alone(Fire(b, t))
  \/ \E k \in Told : Broadcast(k)
  \/ \E i \in Ids : Hold(i) \/ Expire(i)
  \/ \E i \in Ids, a \in Approvers, op \in Ops : OtherVote(i, a, op)

Next == Server \/ Browser \/ Person \/ World

Fairness ==
  /\ WF_vars(Join) /\ WF_vars(Welcome) /\ WF_vars(ReadKey) /\ WF_vars(ReadVote)
  /\ WF_vars(Deliver) /\ WF_vars(PageTurn) /\ WF_vars(SendTurn)

Spec == Init /\ [][Next]_vars
FairSpec == Spec /\ Fairness

-----------------------------------------------------------------------------
(* Properties *)

Tallies == [pending : BOOLEAN, yes : SUBSET Approvers, no : SUBSET Approvers]
Frames ==
  [kind : {"hello"}, sealed : BOOLEAN, name : Names \cup {Blank}]
    \cup [kind : {"output", "info", "activity", "say"}, sealed : BOOLEAN, n : Nat]
    \cup [kind : {"resize"}, size : Sizes]
    \cup [kind : {"proposal"}, sealed : BOOLEAN, id : Ids, tally : Tallies]
Items ==
  [kind : {"input"}, n : Nat]
    \cup [kind : {"vote"}, id : Ids, op : Ops, voter : Names \cup {Blank}]
Cards == {NoCard} \cup [there : {TRUE}, tally : Tallies, row : BOOLEAN]
Pages == {"form", "importing", "invalid", "connecting", "open", "closing", "closed"}
Failures == {"no key", "needless key", "cannot decrypt"}
Statuses == Failures \cup {"not connected", "connecting", "invalid key", "joined", "disconnected"}

FlagsOK == failed \in BOOLEAN /\ hostSized \in BOOLEAN /\ enc \in BOOLEAN /\ early \in BOOLEAN

PageTypeOK ==
  /\ link \in Links
  /\ page \in Pages
  /\ status \in Statuses
  /\ me \in Names \cup {Blank}
  /\ inbox \in Seq(Frames) /\ outbox \in Seq(Items)
  /\ screen \in Seq(Nat) /\ size \in Windows \cup Sizes
  /\ cards \in [Ids -> Cards]
  /\ typed \in Nat /\ first \in [Ids -> Ops \cup {"none"}]
  /\ shown \in [Boxes -> BOOLEAN] /\ timers \in [Boxes -> SUBSET {"own", "older"}]

SessionTypeOK ==
  /\ room \in [Kinds -> Nat]
  /\ seat \in {"out", "joined", "welcome"}
  /\ named \in Names \cup {Blank}
  /\ net \in Seq(Frames) /\ wire \in Seq(Items)
  /\ frames \in [Told -> Nat]
  /\ told \in [Ids -> Tallies] /\ toldSize \in Sizes \cup {Blank}
  /\ got \in Seq(Nat)
  /\ owed \in SUBSET [id : Ids, tally : Tallies]
  /\ pstate \in [Ids -> {"none", "pending", "executed", "rejected", "expired"}]
  /\ yes \in [Ids -> SUBSET Approvers] /\ no \in [Ids -> SUBSET Approvers]

\* Types, of the page and of the session.
TypeOK == FlagsOK /\ PageTypeOK /\ SessionTypeOK

\* app.js:126-127, "Frames must be applied in order even though decryption is
\* async", and app.js:205, keystrokes "sealed (in order)": the terminal shows
\* the output since the join without a gap or a swap, and the keys that reach
\* the shell are consecutive ones.
InOrder ==
  /\ \A i \in 1 .. Len(screen) : screen[i] = i
  /\ \A i \in 1 .. Len(got) - 1 : got[i + 1] = got[i] + 1

\* The page has nothing to do.
Quiet == page = "open" /\ net = << >> /\ inbox = << >>

\* With nothing under way, the page shows what the session told it last: a card
\* for each proposal that it last heard of as pending, with that tally, and the
\* host's size.
ShowsLastTold ==
  Quiet =>
    /\ \A i \in Ids :
         IF told[i].pending /\ Opens THEN cards[i].there /\ cards[i].tally = told[i] ELSE ~cards[i].there
    /\ toldSize # Blank => size = toldSize

\* A vote of ours for the proposal is on its way.
UnderWay(i) == \E x \in {outbox[k] : k \in DOMAIN outbox} \cup {wire[k] : k \in DOMAIN wire} : Mine(x) /\ x.id = i

Undecided(i) == pstate[i] = "pending" /\ named \in Approvers \ (yes[i] \cup no[i])

\* app.js:218-219, "with vote buttons for approvers": an approver who was
\* welcomed before anything else and has not voted has the buttons or a vote on
\* its way, whichever button was clicked and whichever tally came in between.
CanVote ==
  Quiet /\ ~early /\ seat = "welcome" =>
    \A i \in Ids : cards[i].there /\ Undecided(i) => cards[i].row \/ UnderWay(i)

\* The first button clicked is the vote: when a tally of somebody else's vote
\* brings the buttons back and the other one is clicked, the first one counts.
VoteAsClicked ==
  [][\A i \in Ids :
       ~early /\ seat = "welcome" /\ Undecided(i) /\ named \in yes'[i] \cup no'[i]
         => first[i] = IF named \in yes'[i] THEN "approve" ELSE "reject"]_vars

\* A vote on its way counts in the end, unless the proposal settles or the
\* connection ends first.
ClickCounts ==
  \A i \in Ids : UnderWay(i) ~> (page # "open" \/ ~Undecided(i))

\* A page that failed says why, and a page whose connection is gone does not say
\* that it has joined, unless something came before the welcome.
StatusHonest ==
  \/ early
  \/ (failed => status \in Failures) /\ (page = "closed" => status # "joined")

\* A notice is displayed for its whole time: no earlier notice's timer takes it away.
NoticesLast ==
  [][\A b \in Boxes : shown[b] /\ ~shown'[b] => "own" \in timers[b] /\ "own" \notin timers'[b]]_vars

\* app.js:218-219, "with vote buttons for approvers": with nothing under way, a
\* card that was not clicked has buttons exactly for an approver.
ButtonsForApprovers ==
  Quiet /\ seat = "welcome" =>
    \A i \in Ids : cards[i].there /\ cards[i].row => named \in Approvers
=============================================================================
