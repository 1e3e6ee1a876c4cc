-------------------------- MODULE WebSessionProofs --------------------------
(***************************************************************************)
(* Proofs about WebSession, for every link, session, set of names and      *)
(* approvers, however many frames, keys and proposals there are.           *)
(***************************************************************************)
EXTENDS WebSession, SequenceTheorems, TLAPS

USE DEF vars, pageVars, serverVars, chains, display, notices, sent, ballots

-----------------------------------------------------------------------------
(* Types *)

LEMMA InitTypes == Init => TypeOK
<1> SUFFICES ASSUME Init PROVE TypeOK
  OBVIOUS
<1>1. PICK s \in Scenarios : link = s.link /\ enc = s.enc /\ room = s.room
  BY DEF Init
<1>2. link \in Links /\ enc \in BOOLEAN /\ room \in [Kinds -> Nat]
  BY <1>1, SessionAssumption
<1>3. link.name \in Names \cup {Blank} /\ link.code \in BOOLEAN
  BY <1>2, LinksAssumption
<1>4. page \in Pages
  BY <1>3, LinksAssumption, <1>2 DEF Init, PageInit, Opened, Pages
<1>5. PageTypeOK
  <2>1. status \in Statuses
    BY DEF Init, PageInit, Statuses
  <2>2. me \in Names \cup {Blank}
    BY <1>3 DEF Init, PageInit
  <2>0. inbox = << >> /\ outbox = << >> /\ screen = << >> /\ size \in Windows
    BY DEF Init, PageInit
  <2>3. inbox \in Seq(Frames) /\ outbox \in Seq(Items)
    BY <2>0
  <2>4. screen \in Seq(Nat) /\ size \in Windows \cup Sizes
    BY <2>0
  <2>5. cards \in [Ids -> Cards]
    BY DEF Init, PageInit, Cards
  <2>6. typed \in Nat /\ first \in [Ids -> Ops \cup {"none"}]
    BY DEF Init, PageInit
  <2>7. shown \in [Boxes -> BOOLEAN] /\ timers \in [Boxes -> SUBSET {"own", "older"}]
    BY DEF Init, PageInit
  <2> QED
    BY <1>2, <1>4, <2>1, <2>2, <2>3, <2>4, <2>5, <2>6, <2>7 DEF PageTypeOK
<1>6. SessionTypeOK
  <2>1. /\ seat = "out" /\ named = Blank /\ net = << >> /\ wire = << >> /\ got = << >> /\ owed = {}
        /\ frames = [k \in Told |-> 0] /\ told = [i \in Ids |-> Untold]
        /\ toldSize = Blank
        /\ pstate = [i \in Ids |-> "none"] /\ yes = [i \in Ids |-> {}] /\ no = [i \in Ids |-> {}]
    BY DEF Init
  <2>2. Untold \in Tallies
    BY DEF Untold, Tallies
  <2>3. net \in Seq(Frames) /\ wire \in Seq(Items) /\ got \in Seq(Nat)
    BY <2>1
  <2>4. frames \in [Told -> Nat] /\ told \in [Ids -> Tallies]
    BY <2>1, <2>2
  <2>5. /\ pstate \in [Ids -> {"none", "pending", "executed", "rejected", "expired"}]
        /\ yes \in [Ids -> SUBSET Approvers] /\ no \in [Ids -> SUBSET Approvers]
    BY <2>1
  <2> QED
    BY <1>2, <2>1, <2>3, <2>4, <2>5 DEF SessionTypeOK
<1>7. FlagsOK
  BY <1>2 DEF Init, PageInit, FlagsOK
<1> QED
  BY <1>5, <1>6, <1>7 DEF TypeOK

\* The steps of the page, whatever the session does meanwhile.
LEMMA PersonTypes ==
  ASSUME PageTypeOK,
         \/ \E l \in Links : Submit(l)
         \/ Type
         \/ \E i \in Ids, op \in Ops : Click(i, op)
         \/ \E s \in Windows : WindowResize(s)
  PROVE  PageTypeOK'
<1>1. CASE \E l \in Links : Submit(l)
  <2>1. PICK l \in Links : Submit(l)
    BY <1>1
  <2>2. l.name \in Names \cup {Blank} /\ Opened(l) \in Pages
    BY LinksAssumption DEF Opened, Pages
  <2>3. link' \in Links /\ page' \in Pages /\ me' \in Names \cup {Blank} /\ status' \in Statuses
    BY <2>1, <2>2 DEF Submit, Statuses
  <2>4. UNCHANGED <<chains, screen, size, cards, typed, first, notices>>
    BY <2>1 DEF Submit
  <2> QED
    BY <2>3, <2>4 DEF PageTypeOK
<1>2. CASE Type
  <2>1. [kind |-> "input", n |-> typed + 1] \in Items
    BY DEF PageTypeOK, Items
  <2>2. outbox' \in Seq(Items) /\ typed' \in Nat
    BY <1>2, <2>1 DEF Type, Queue, PageTypeOK
  <2>3. UNCHANGED <<link, page, status, me, inbox, display, cards, first, notices>>
    BY <1>2 DEF Type
  <2> QED
    BY <2>2, <2>3 DEF PageTypeOK
<1>3. CASE \E i \in Ids, op \in Ops : Click(i, op)
  <2>1. PICK i \in Ids, op \in Ops : Click(i, op)
    BY <1>3
  <2>2. [kind |-> "vote", id |-> i, op |-> op, voter |-> me] \in Items
    BY DEF PageTypeOK, Items
  <2>3. cards' \in [Ids -> Cards]
    <3>1. cards[i] \in [there : {TRUE}, tally : Tallies, row : BOOLEAN]
      <4>1. cards[i].there /\ cards[i] \in Cards
        BY <2>1 DEF Click, PageTypeOK
      <4>2. NoCard.there = FALSE
        BY DEF NoCard
      <4>3. cards[i] # NoCard
        BY <4>1, <4>2
      <4> QED
        BY <4>1, <4>3 DEF Cards
    <3>2. [cards[i] EXCEPT !.row = FALSE] \in Cards
      BY <3>1 DEF Cards
    <3> QED
      BY <2>1, <3>2 DEF Click, PageTypeOK
  <2>4. outbox' \in Seq(Items)
    BY <2>1, <2>2 DEF Click, Queue, PageTypeOK
  <2>5. first' \in [Ids -> Ops \cup {"none"}]
    BY <2>1 DEF Click, PageTypeOK
  <2>6. UNCHANGED <<link, page, status, me, inbox, display, typed, notices>>
    BY <2>1 DEF Click
  <2> QED
    BY <2>3, <2>4, <2>5, <2>6 DEF PageTypeOK
<1>4. CASE \E s \in Windows : WindowResize(s)
  <2>1. size' \in Windows \cup {size}
    BY <1>4 DEF WindowResize
  <2>2. UNCHANGED <<link, page, status, me, chains, screen, cards, typed, first, notices>>
    BY <1>4 DEF WindowResize
  <2> QED
    BY <2>1, <2>2 DEF PageTypeOK
<1> QED
  BY <1>1, <1>2, <1>3, <1>4

LEMMA NoteTypes ==
  ASSUME NEW b \in Boxes, Note(b), PageTypeOK
  PROVE  shown' \in [Boxes -> BOOLEAN] /\ timers' \in [Boxes -> SUBSET {"own", "older"}]
BY DEF Note, PageTypeOK

LEMMA FailTypes ==
  ASSUME PageTypeOK, NEW t \in Failures, Fail(t)
  PROVE  /\ status' \in Statuses /\ page' \in Pages
         /\ shown' \in [Boxes -> BOOLEAN] /\ timers' \in [Boxes -> SUBSET {"own", "older"}]
<1>1. Note("toast") /\ "toast" \in Boxes
  BY DEF Fail, Boxes
<1> QED
  BY <1>1, NoteTypes DEF Fail, PageTypeOK, Pages, Statuses

LEMMA HandleTypes ==
  ASSUME PageTypeOK, Handle
  PROVE  PageTypeOK'
<1>0. /\ inbox # << >> /\ Head(inbox) \in Frames /\ inbox' = Tail(inbox) /\ inbox' \in Seq(Frames)
      /\ UNCHANGED <<link, outbox, typed, first>>
  <2>1. inbox # << >> /\ inbox' = Tail(inbox) /\ UNCHANGED <<link, outbox, typed, first>>
    BY DEF Handle, Hello, Output, Resize, Info, Activity, Say, Proposal, Turn
  <2> QED
    BY <2>1 DEF PageTypeOK
<1>1. CASE Hello
  <2>1. Head(inbox).name \in Names \cup {Blank}
    BY <1>0, <1>1 DEF Hello, Turn, Frames
  <2>2. CASE Head(inbox).sealed = HasKey
    <3>1. status' \in Statuses /\ me' \in Names \cup {Blank} /\ UNCHANGED <<page, notices, screen, size, cards>>
      BY <1>1, <2>1, <2>2 DEF Hello, Welcomed, Statuses
    <3> QED
      BY <1>0, <3>1 DEF PageTypeOK
  <2>3. CASE Head(inbox).sealed # HasKey
    <3>1. PICK t \in Failures : Fail(t)
      BY <1>1, <2>3 DEF Hello, Failures
    <3>2. UNCHANGED <<me, screen, size, cards>>
      BY <1>1, <2>3 DEF Hello
    <3> QED
      BY <1>0, <3>1, <3>2, FailTypes DEF PageTypeOK
  <2> QED
    BY <2>2, <2>3
<1>2. CASE Output
  <2>1. Head(inbox).n \in Nat
    BY <1>0, <1>2 DEF Output, Turn, Frames
  <2>2. CASE HasKey /\ ~Readable(Head(inbox))
    <3>1. "cannot decrypt" \in Failures /\ Fail("cannot decrypt")
      BY <1>2, <2>2 DEF Output, Failures
    <3>2. UNCHANGED <<me, screen, size, cards>>
      BY <1>2, <2>2 DEF Output
    <3> QED
      BY <1>0, <3>1, <3>2, FailTypes DEF PageTypeOK
  <2>3. CASE ~(HasKey /\ ~Readable(Head(inbox)))
    <3>1. screen' = Append(screen, Head(inbox).n)
      BY <1>2, <2>3 DEF Output
    <3>2. UNCHANGED <<page, status, notices, me, size, cards>>
      BY <1>2, <2>3 DEF Output
    <3> QED
      BY <1>0, <2>1, <3>1, <3>2 DEF PageTypeOK
  <2> QED
    BY <2>2, <2>3
<1>3. CASE Resize
  BY <1>0, <1>3 DEF Resize, Turn, Frames, PageTypeOK
<1>4. CASE Info
  BY <1>0, <1>4, NoteTypes DEF Info, PageTypeOK, Boxes
<1>5. CASE Activity
  BY <1>0, <1>5, NoteTypes DEF Activity, PageTypeOK, Boxes
<1>6. CASE Say
  BY <1>0, <1>6, NoteTypes DEF Say, PageTypeOK, Boxes
<1>7. CASE Proposal
  <2>1. Head(inbox).id \in Ids /\ Head(inbox).tally \in Tallies
    BY <1>0, <1>7 DEF Proposal, Turn, Frames
  <2>2. Card(Head(inbox).tally) \in Cards
    BY <2>1 DEF Card, Cards
  <2>3. cards' \in [Ids -> Cards]
    BY <1>7, <2>1, <2>2 DEF Proposal, PageTypeOK
  <2>4. UNCHANGED <<page, status, me, screen, size, notices>>
    BY <1>7 DEF Proposal
  <2> QED
    BY <1>0, <2>3, <2>4 DEF PageTypeOK
<1> QED
  BY <1>1, <1>2, <1>3, <1>4, <1>5, <1>6, <1>7 DEF Handle

\* The other steps of the page.
LEMMA BrowserTypes ==
  ASSUME PageTypeOK,
         ImportKey \/ Connect \/ Close \/ Send \/ \E b \in Boxes, t \in {"own", "older"} : Fire(b, t)
  PROVE  PageTypeOK'
<1>1. CASE ImportKey
  <2>1. page' \in Pages /\ status' \in Statuses
    BY <1>1 DEF ImportKey, PageTypeOK, Pages, Statuses
  <2>2. UNCHANGED <<link, me, chains, screen, size, cards, typed, first, notices>>
    BY <1>1 DEF ImportKey
  <2> QED
    BY <2>1, <2>2 DEF PageTypeOK
<1>2. CASE Connect
  <2>1. page' \in Pages
    BY <1>2 DEF Connect, Pages
  <2>2. UNCHANGED <<link, status, me, chains, screen, size, cards, typed, first, notices>>
    BY <1>2 DEF Connect
  <2> QED
    BY <2>1, <2>2 DEF PageTypeOK
<1>3. CASE Close
  <2>1. page' \in Pages /\ status' \in Statuses
    BY <1>3 DEF Close, ClosedStatus, PageTypeOK, Pages, Statuses
  <2>2. UNCHANGED <<link, me, chains, screen, size, cards, typed, first, notices>>
    BY <1>3 DEF Close
  <2> QED
    BY <2>1, <2>2 DEF PageTypeOK
<1>4. CASE Send
  <2>1. outbox' \in Seq(Items)
    BY <1>4 DEF Send, PageTypeOK
  <2>2. UNCHANGED <<link, page, status, me, inbox, screen, size, cards, typed, first, notices>>
    BY <1>4 DEF Send
  <2> QED
    BY <2>1, <2>2 DEF PageTypeOK
<1>5. CASE \E b \in Boxes, t \in {"own", "older"} : Fire(b, t)
  <2>1. shown' \in [Boxes -> BOOLEAN] /\ timers' \in [Boxes -> SUBSET {"own", "older"}]
    BY <1>5 DEF Fire, PageTypeOK
  <2>2. UNCHANGED <<link, page, status, me, chains, screen, size, cards, typed, first>>
    BY <1>5 DEF Fire
  <2> QED
    BY <2>1, <2>2 DEF PageTypeOK
<1> QED
  BY <1>1, <1>2, <1>3, <1>4, <1>5

\* A frame of this kind is a frame.
LEMMA PutTypes ==
  ASSUME SessionTypeOK, NEW f \in Frames, net' = IF page = "open" THEN Append(net, f) ELSE net
  PROVE  net' \in Seq(Frames)
BY DEF SessionTypeOK

LEMMA BroadcastTypes ==
  ASSUME FlagsOK, SessionTypeOK, NEW k \in Told, Broadcast(k)
  PROVE  SessionTypeOK'
<1>1. frames' \in [Told -> Nat]
  BY DEF Broadcast, SessionTypeOK
<1>2. UNCHANGED <<room, seat, named, told, wire, got, owed, ballots>>
  BY DEF Broadcast
<1>3. CASE k # "resize"
  <2>1. frames[k] + 1 \in Nat
    BY DEF SessionTypeOK
  <2>2. [kind |-> k, sealed |-> enc, n |-> frames[k] + 1] \in Frames
    <3>1. k \in {"output", "info", "activity", "say"} /\ enc \in BOOLEAN
      BY <1>3 DEF Told, FlagsOK
    <3> QED
      BY <2>1, <3>1, Zenon DEF Frames
  <2>3. net' = IF page = "open" THEN Append(net, [kind |-> k, sealed |-> enc, n |-> frames[k] + 1]) ELSE net
    BY <1>3 DEF Broadcast, Put
  <2>4. toldSize' = toldSize
    BY <1>3 DEF Broadcast
  <2>5. net' \in Seq(Frames)
    BY <2>2, <2>3, PutTypes
  <2> QED
    BY <1>1, <1>2, <2>4, <2>5 DEF SessionTypeOK
<1>4. CASE k = "resize"
  <2>1. PICK s \in Sizes : /\ toldSize' = s
                          /\ net' = IF page = "open" THEN Append(net, [kind |-> "resize", size |-> s]) ELSE net
    BY <1>4 DEF Broadcast, Put
  <2>2. [kind |-> "resize", size |-> s] \in Frames
    BY DEF Frames
  <2>3. net' \in Seq(Frames)
    BY <2>1, <2>2, PutTypes
  <2> QED
    BY <1>1, <1>2, <2>1, <2>3 DEF SessionTypeOK
<1> QED
  BY <1>3, <1>4

LEMMA AnnounceTypes ==
  ASSUME FlagsOK, SessionTypeOK, NEW x \in owed, Announce(x)
  PROVE  SessionTypeOK'
<1>1. x.id \in Ids /\ x.tally \in Tallies /\ owed' \in SUBSET [id : Ids, tally : Tallies]
  BY DEF SessionTypeOK, Announce
<1>2. UNCHANGED <<room, seat, named, frames, toldSize, wire, got, ballots>>
  BY DEF Announce
<1> DEFINE f == [kind |-> "proposal", sealed |-> enc, id |-> x.id, tally |-> x.tally]
<1>3. f \in Frames
  <2>1. enc \in BOOLEAN
    BY DEF FlagsOK
  <2> QED
    BY <1>1, <2>1, Zenon DEF Frames
<1>4. CASE seat # "out" /\ page = "open"
  <2>1. net' = IF page = "open" THEN Append(net, f) ELSE net
    BY <1>4 DEF Announce, Put
  <2>2. net' \in Seq(Frames)
    <3> HIDE DEF f
    <3> QED BY <1>3, <2>1, PutTypes
  <2>3. told' \in [Ids -> Tallies]
    <3>1. told' = [told EXCEPT ![x.id] = x.tally]
      BY <1>4 DEF Announce
    <3> QED
      BY <1>1, <3>1 DEF SessionTypeOK
  <2> QED
    BY <1>1, <1>2, <2>2, <2>3 DEF SessionTypeOK
<1>5. CASE ~(seat # "out" /\ page = "open")
  <2>1. UNCHANGED <<net, told>>
    BY <1>5 DEF Announce
  <2> QED
    BY <1>1, <1>2, <2>1 DEF SessionTypeOK
<1> QED
  BY <1>4, <1>5

\* A tally in the making, and the votes that it counts.
LEMMA OweTypes ==
  ASSUME SessionTypeOK, NEW i \in Ids, Owe(i),
         yes' \in [Ids -> SUBSET Approvers], no' \in [Ids -> SUBSET Approvers]
  PROVE  owed' \in SUBSET [id : Ids, tally : Tallies]
<1> DEFINE t == [pending |-> pstate'[i] = "pending", yes |-> yes'[i], no |-> no'[i]]
<1>1. yes'[i] \in SUBSET Approvers /\ no'[i] \in SUBSET Approvers /\ (pstate'[i] = "pending") \in BOOLEAN
  OBVIOUS
<1>2. t \in Tallies
  BY <1>1, Zenon DEF Tallies
<1>3. owed' = owed \cup {[id |-> i, tally |-> t]}
  BY DEF Owe
<1> HIDE DEF t
<1>4. [id |-> i, tally |-> t] \in [id : Ids, tally : Tallies]
  BY <1>2
<1> QED
  BY <1>3, <1>4 DEF SessionTypeOK

LEMMA HoldTypes ==
  ASSUME SessionTypeOK, NEW i \in Ids, Hold(i) \/ Expire(i)
  PROVE  SessionTypeOK'
<1>1. pstate' \in [Ids -> {"none", "pending", "executed", "rejected", "expired"}] /\ UNCHANGED <<yes, no>>
  BY DEF Hold, Expire, B!Open, B!Lapse, B!Lapsed, B!Ids, Ids, SessionTypeOK
<1>2. yes' \in [Ids -> SUBSET Approvers] /\ no' \in [Ids -> SUBSET Approvers]
  BY <1>1 DEF SessionTypeOK
<1>3. owed' \in SUBSET [id : Ids, tally : Tallies]
  <2>1. CASE Hold(i)
    BY <1>2, <2>1, OweTypes DEF Hold
  <2>2. CASE Expire(i)
    BY <2>2 DEF Expire, SessionTypeOK
  <2> QED
    BY <2>1, <2>2
<1>4. UNCHANGED <<room, seat, named, net, frames, told, toldSize, wire, got>>
  BY DEF Hold, Expire
<1> QED
  BY <1>1, <1>2, <1>3, <1>4 DEF SessionTypeOK

\* A vote that counts.
LEMMA CountTypes ==
  ASSUME SessionTypeOK, NEW i \in Ids, NEW a \in Approvers, NEW op \in Ops, Count(i, a, op)
  PROVE  /\ pstate' \in [Ids -> {"none", "pending", "executed", "rejected", "expired"}]
         /\ yes' \in [Ids -> SUBSET Approvers] /\ no' \in [Ids -> SUBSET Approvers]
         /\ owed' \in SUBSET [id : Ids, tally : Tallies]
<1>1. B!Cast(i, a, {}) /\ Owe(i)
  BY DEF Count
<1>2. yes' \in [Ids -> SUBSET Approvers] /\ no' \in [Ids -> SUBSET Approvers]
  <2>1. \/ yes' = [yes EXCEPT ![i] = @ \cup {a}] /\ no' = no
        \/ no' = [no EXCEPT ![i] = @ \cup {a}] /\ yes' = yes
    BY <1>1 DEF B!Cast
  <2> QED
    BY <2>1 DEF SessionTypeOK
<1>3. pstate' \in [Ids -> {"none", "pending", "executed", "rejected", "expired"}]
  <2>1. B!Lapsed({}) = pstate
    BY DEF B!Lapsed, B!Ids, Ids, SessionTypeOK
  <2>2. B!Verdict(yes'[i], no'[i]) \in {"none", "pending", "executed", "rejected", "expired"}
    BY DEF B!Verdict
  <2>3. pstate' = [pstate EXCEPT ![i] = B!Verdict(yes'[i], no'[i])]
    BY <1>1, <2>1 DEF B!Cast
  <2> QED
    BY <2>2, <2>3 DEF SessionTypeOK
<1> QED
  BY <1>1, <1>2, <1>3, OweTypes

LEMMA VoteTypes ==
  ASSUME FlagsOK, SessionTypeOK,
         ReadVote \/ \E i \in Ids, a \in Approvers, op \in Ops : OtherVote(i, a, op)
  PROVE  SessionTypeOK'
<1>1. CASE \E i \in Ids, a \in Approvers, op \in Ops : OtherVote(i, a, op)
  <2>1. PICK i \in Ids, a \in Approvers, op \in Ops : OtherVote(i, a, op)
    BY <1>1
  <2>2. Count(i, a, op) /\ UNCHANGED <<room, seat, named, net, frames, told, toldSize, wire, got>>
    BY <2>1 DEF OtherVote
  <2> QED
    BY <2>2, CountTypes DEF SessionTypeOK
<1>2. CASE ReadVote
  <2> DEFINE x == Head(wire)
  <2>1. /\ wire # << >> /\ x.kind = "vote" /\ wire' = Tail(wire)
        /\ UNCHANGED <<room, seat, named, got>>
    BY <1>2 DEF ReadVote
  <2>2. x \in Items /\ wire' \in Seq(Items)
    BY <2>1 DEF SessionTypeOK
  <2>3. CASE Counts(x) /\ Count(x.id, named, x.op) /\ UNCHANGED sent
    <3>1. x.id \in Ids /\ x.op \in Ops /\ named \in Approvers
      BY <2>1, <2>2, <2>3 DEF Items, Counts
    <3> QED
      BY <2>1, <2>2, <2>3, <3>1, CountTypes DEF SessionTypeOK
  <2>4. CASE Put([kind |-> "info", sealed |-> enc, n |-> 0]) /\ UNCHANGED <<frames, told, toldSize, owed, ballots>>
    <3>1. enc \in BOOLEAN
      BY DEF FlagsOK
    <3>2. [kind |-> "info", sealed |-> enc, n |-> 0] \in Frames
      BY <3>1, Zenon DEF Frames
    <3>3. net' \in Seq(Frames)
      BY <2>4, <3>2, PutTypes DEF Put
    <3> QED
      BY <2>1, <2>2, <2>4, <3>3 DEF SessionTypeOK
  <2>5. CASE UNCHANGED <<sent, owed, ballots>>
    BY <2>1, <2>2, <2>5 DEF SessionTypeOK
  <2> QED
    BY <1>2, <2>3, <2>4, <2>5 DEF ReadVote
<1> QED
  BY <1>1, <1>2

LEMMA ServerTypes ==
  ASSUME FlagsOK, SessionTypeOK, Join \/ Welcome \/ ReadKey
  PROVE  SessionTypeOK'
<1>1. CASE Join
  <2>1. named' \in Names /\ seat' = "joined"
    BY <1>1, SessionAssumption DEF Join
  <2>2. UNCHANGED <<room, net, frames, told, toldSize, wire, got, owed, ballots>>
    BY <1>1 DEF Join
  <2> QED
    BY <2>1, <2>2 DEF SessionTypeOK
<1>2. CASE Welcome
  <2> DEFINE f == [kind |-> "hello", sealed |-> enc, name |-> named]
  <2>1. f \in Frames
    <3>1. enc \in BOOLEAN /\ named \in Names \cup {Blank}
      BY DEF FlagsOK, SessionTypeOK
    <3> QED
      BY <3>1, Zenon DEF Frames
  <2>2. seat' = "welcome" /\ net' = IF page = "open" THEN Append(net, f) ELSE net
    BY <1>2 DEF Welcome
  <2>3. UNCHANGED <<room, named, frames, told, toldSize, wire, got, owed, ballots>>
    BY <1>2 DEF Welcome
  <2> HIDE DEF f
  <2>4. net' \in Seq(Frames)
    BY <2>1, <2>2, PutTypes
  <2> QED
    BY <2>2, <2>3, <2>4 DEF SessionTypeOK
<1>3. CASE ReadKey
  <2>1. wire # << >> /\ Head(wire).kind = "input" /\ wire' = Tail(wire) /\ got' \in {got, Append(got, Head(wire).n)}
    BY <1>3 DEF ReadKey
  <2>2. Head(wire) \in Items /\ wire' \in Seq(Items)
    BY <2>1 DEF SessionTypeOK
  <2>3. Head(wire).n \in Nat
    BY <2>1, <2>2 DEF Items
  <2>4. got' \in Seq(Nat)
    <3>1. CASE got' = got
      BY <3>1 DEF SessionTypeOK
    <3>2. CASE got' = Append(got, Head(wire).n)
      BY <3>2, <2>3 DEF SessionTypeOK
    <3> QED
      BY <2>1, <3>1, <3>2
  <2>5. UNCHANGED <<room, seat, named, net, frames, told, toldSize, owed, ballots>>
    BY <1>3 DEF ReadKey
  <2> QED
    BY <2>2, <2>4, <2>5 DEF SessionTypeOK
<1> QED
  BY <1>1, <1>2, <1>3

\* Steps that move a frame or an item on, or lose some.
LEMMA MoveTypes ==
  ASSUME PageTypeOK, SessionTypeOK, Deliver \/ PageTurn \/ SendTurn \/ Lose
  PROVE  PageTypeOK' /\ SessionTypeOK'
<1>1. CASE Deliver
  <2>1. net # << >> /\ net' = Tail(net) /\ inbox' = Append(inbox, Head(net))
    BY <1>1 DEF Deliver, Message, Arrive
  <2>2. net' \in Seq(Frames) /\ inbox' \in Seq(Frames)
    BY <2>1 DEF PageTypeOK, SessionTypeOK
  <2>3. UNCHANGED <<link, page, status, me, outbox, screen, size, cards, typed, first, notices>>
    BY <1>1 DEF Deliver, Message
  <2>4. UNCHANGED <<room, seat, named, frames, told, toldSize, wire, got, owed, ballots>>
    BY <1>1 DEF Deliver
  <2> QED
    BY <2>2, <2>3, <2>4 DEF PageTypeOK, SessionTypeOK
<1>2. CASE PageTurn
  <2>1. net' \in {net, << >>}
    BY <1>2 DEF PageTurn, Unread
  <2>2. UNCHANGED <<room, seat, named, frames, told, toldSize, wire, got, owed, ballots>>
    BY <1>2 DEF PageTurn
  <2>3. PageTypeOK'
    BY <1>2, HandleTypes DEF PageTurn
  <2>4. net' \in Seq(Frames)
    <3>1. CASE net' = net
      BY <3>1 DEF SessionTypeOK
    <3>2. CASE net' = << >>
      BY <3>2
    <3> QED
      BY <2>1, <3>1, <3>2
  <2> QED
    BY <2>2, <2>3, <2>4 DEF SessionTypeOK
<1>3. CASE SendTurn
  <2>1. outbox # << >> /\ wire' \in {wire, Append(wire, Head(outbox))}
    BY <1>3 DEF SendTurn, Send, Sent
  <2>2. wire' \in Seq(Items)
    <3>1. CASE wire' = wire
      BY <3>1 DEF SessionTypeOK
    <3>2. CASE wire' = Append(wire, Head(outbox))
      BY <2>1, <3>2 DEF PageTypeOK, SessionTypeOK
    <3> QED
      BY <2>1, <3>1, <3>2
  <2>3. UNCHANGED <<room, seat, named, net, frames, told, toldSize, got, owed, ballots>>
    BY <1>3 DEF SendTurn
  <2>4. PageTypeOK'
    BY <1>3, BrowserTypes DEF SendTurn
  <2> QED
    BY <2>2, <2>3, <2>4 DEF SessionTypeOK
<1>4. CASE Lose
  <2>1. PICK k \in 0 .. Len(wire) : wire' = SubSeq(wire, 1, k)
    BY <1>4 DEF Lose
  <2>2. wire' \in Seq(Items) /\ net' \in Seq(Frames)
    BY <1>4, <2>1 DEF SessionTypeOK, Lose
  <2>3. UNCHANGED <<room, seat, named, frames, told, toldSize, got, owed, ballots>>
    BY <1>4 DEF Lose
  <2>4. PageTypeOK'
    BY <1>4, BrowserTypes DEF Lose
  <2> QED
    BY <2>2, <2>3, <2>4 DEF SessionTypeOK
<1> QED
  BY <1>1, <1>2, <1>3, <1>4

\* The flags stay flags.
LEMMA FlagTypes ==
  ASSUME FlagsOK, Next
  PROVE  FlagsOK'
<1>1. enc' = enc
  BY Zenon DEF Next, Server, Browser, Person, World, Alone, Join, Welcome, ReadKey, ReadVote, Announce, Deliver,
     PageTurn, SendTurn, Lose, Broadcast, Hold, Expire, OtherVote
<1>2. early' \in BOOLEAN
  <2>1. early' = early \/ early' = (early \/ seat = "joined")
    BY Zenon DEF Next, Server, Browser, Person, World, Alone, Join, Welcome, ReadKey, ReadVote, Announce, Deliver,
       PageTurn, SendTurn, Lose, Broadcast, Hold, Expire, OtherVote, Put
  <2> QED
    BY <2>1 DEF FlagsOK
<1>3. hostSized' = hostSized \/ hostSized' = TRUE
  BY Zenon DEF Next, Server, Browser, Person, World, Alone, Join, Welcome, ReadKey, ReadVote, Announce, Deliver,
     PageTurn, SendTurn, Lose, Broadcast, Hold, Expire, OtherVote, Handle, Hello, Output, Resize, Info, Activity,
     Say, Proposal, Message, Send, Close, Connect, ImportKey, Submit, Type, Click, WindowResize, Fire
<1>4. failed' = failed \/ failed' = TRUE
  BY Zenon DEF Next, Server, Browser, Person, World, Alone, Join, Welcome, ReadKey, ReadVote, Announce, Deliver,
     PageTurn, SendTurn, Lose, Broadcast, Hold, Expire, OtherVote, Handle, Hello, Output, Resize, Info, Activity,
     Say, Proposal, Message, Send, Close, Connect, ImportKey, Submit, Type, Click, WindowResize, Fire, Fail
<1> QED
  BY <1>1, <1>2, <1>3, <1>4, Zenon DEF FlagsOK

LEMMA NextTypes ==
  ASSUME TypeOK, [Next]_vars
  PROVE  TypeOK'
<1>0. FlagsOK /\ PageTypeOK /\ SessionTypeOK
  BY DEF TypeOK
<1>1. CASE UNCHANGED vars
  <2>1. FlagsOK'
    BY <1>0, <1>1 DEF FlagsOK
  <2>2. PageTypeOK'
    BY <1>0, <1>1 DEF PageTypeOK
  <2>3. SessionTypeOK'
    BY <1>0, <1>1 DEF SessionTypeOK
  <2> QED
    BY <2>1, <2>2, <2>3 DEF TypeOK
<1>2. CASE Next
  <2>1. FlagsOK'
    BY <1>0, <1>2, FlagTypes
  <2>2. ASSUME UNCHANGED pageVars PROVE PageTypeOK'
    BY <1>0, <2>2 DEF PageTypeOK
  <2>3. ASSUME UNCHANGED serverVars PROVE SessionTypeOK'
    BY <1>0, <2>3 DEF SessionTypeOK
  <2>4. CASE Server
    <3>1. UNCHANGED pageVars
      BY <2>4, Zenon DEF Server, Join, Welcome, ReadKey, ReadVote, Announce
    <3>2. SessionTypeOK'
      BY <1>0, <2>4, ServerTypes, VoteTypes, AnnounceTypes, Zenon DEF Server
    <3> QED
      BY <2>1, <2>2, <3>1, <3>2 DEF TypeOK
  <2>5. CASE Browser
    <3>1. CASE Alone(ImportKey)
      BY <1>0, <2>1, <2>3, <3>1, BrowserTypes DEF Alone, TypeOK
    <3>2. CASE Deliver \/ PageTurn \/ SendTurn
      BY <1>0, <2>1, <3>2, MoveTypes DEF TypeOK
    <3> QED
      BY <2>5, <3>1, <3>2 DEF Browser
  <2>6. CASE Person
    <3>1. /\ UNCHANGED serverVars
          /\ \/ \E l \in Links : Submit(l)
             \/ Type
             \/ \E i \in Ids, op \in Ops : Click(i, op)
             \/ \E s \in Windows : WindowResize(s)
      BY <2>6, Zenon DEF Person, Alone
    <3> QED
      BY <1>0, <2>1, <2>3, <3>1, PersonTypes DEF TypeOK
  <2>7. CASE World
    <3>1. CASE Alone(Connect) \/ \E b \in Boxes, t \in {"own", "older"} : Alone(Fire(b, t))
      <4>1. UNCHANGED serverVars /\ (Connect \/ \E b \in Boxes, t \in {"own", "older"} : Fire(b, t))
        BY <3>1, Zenon DEF Alone
      <4> QED
        BY <1>0, <2>1, <2>3, <4>1, BrowserTypes DEF TypeOK
    <3>2. CASE Lose
      BY <1>0, <2>1, <3>2, MoveTypes DEF TypeOK
    <3>3. CASE \E k \in Told : Broadcast(k)
      <4>1. UNCHANGED pageVars
        BY <3>3, Zenon DEF Broadcast
      <4> QED
        BY <1>0, <2>1, <2>2, <3>3, <4>1, BroadcastTypes DEF TypeOK
    <3>4. CASE \E i \in Ids : Hold(i) \/ Expire(i)
      <4>1. UNCHANGED pageVars
        BY <3>4, Zenon DEF Hold, Expire
      <4> QED
        BY <1>0, <2>1, <2>2, <3>4, <4>1, HoldTypes DEF TypeOK
    <3>5. CASE \E i \in Ids, a \in Approvers, op \in Ops : OtherVote(i, a, op)
      <4>1. UNCHANGED pageVars
        BY <3>5, Zenon DEF OtherVote
      <4> QED
        BY <1>0, <2>1, <2>2, <3>5, <4>1, VoteTypes DEF TypeOK
    <3> QED
      BY <2>7, <3>1, <3>2, <3>3, <3>4, <3>5 DEF World
  <2> QED
    BY <1>2, <2>4, <2>5, <2>6, <2>7 DEF Next
<1> QED
  BY <1>1, <1>2

\* The types hold in every state: a frame that arrives has the fields that its
\* handler reads, a card in the list is a tally with or without its buttons, and a
\* status that stays is one of the page's texts.
THEOREM TypeCorrect == Spec => []TypeOK
<1>1. Init => TypeOK
  BY InitTypes
<1>2. TypeOK /\ [Next]_vars => TypeOK'
  BY NextTypes
<1> QED
  BY <1>1, <1>2, PTL DEF Spec

-----------------------------------------------------------------------------
(* Notices *)

\* With the last notice's timer cleared, the only pending timer of a box is the
\* displayed notice's own.
OwnTimers == \A b \in Boxes : timers[b] \subseteq {"own"}

LEMMA NoteTimers ==
  ASSUME TypeOK, OwnTimers, NEW b \in Boxes, Note(b)
  PROVE  OwnTimers' /\ \A c \in Boxes : shown[c] => shown'[c]
BY DEF TypeOK, PageTypeOK, OwnTimers, Note

\* A step fires a timer, or displays a notice, or does neither.
LEMMA NoticeSteps ==
  ASSUME [Next]_vars
  PROVE  \/ UNCHANGED notices
         \/ Note("toast") \/ Note("activity")
         \/ \E b \in Boxes, t \in {"own", "older"} : Fire(b, t)
BY Zenon DEF Next, Server, Browser, Person, World, Alone, Join, Welcome, ReadKey, ReadVote, Announce, Deliver,
   PageTurn, SendTurn, Lose, Broadcast, Hold, Expire, OtherVote, Handle, Hello, Output, Resize, Info, Activity,
   Say, Proposal, Message, Send, Close, Connect, ImportKey, Submit, Type, Click, WindowResize, Fail

LEMMA NoticeStep ==
  ASSUME TypeOK, OwnTimers, [Next]_vars
  PROVE  /\ OwnTimers'
         /\ \A b \in Boxes : shown[b] /\ ~shown'[b] => "own" \in timers[b] /\ "own" \notin timers'[b]
<1>1. CASE UNCHANGED notices
  BY <1>1 DEF OwnTimers
<1>2. CASE Note("toast") \/ Note("activity")
  BY <1>2, NoteTimers DEF Boxes
<1>3. CASE \E b \in Boxes, t \in {"own", "older"} : Fire(b, t)
  <2>1. PICK b \in Boxes, t \in {"own", "older"} : Fire(b, t)
    BY <1>3
  <2>2. t = "own" /\ t \in timers[b]
    BY <2>1 DEF Fire, OwnTimers
  <2>3. shown' = [shown EXCEPT ![b] = FALSE] /\ timers' = [timers EXCEPT ![b] = @ \ {t}]
    BY <2>1 DEF Fire
  <2> QED
    BY <2>2, <2>3 DEF TypeOK, PageTypeOK, OwnTimers
<1> QED
  BY <1>1, <1>2, <1>3, NoticeSteps

\* A notice is displayed for its whole time: what takes it away is its own timer,
\* never that of a notice it replaced.
THEOREM NoticesLastAlways == Spec => NoticesLast
<1>1. Init => OwnTimers
  BY DEF Init, PageInit, OwnTimers
<1>2. TypeOK /\ OwnTimers /\ [Next]_vars => OwnTimers'
  BY NoticeStep
<1>3. TypeOK /\ OwnTimers /\ [Next]_vars =>
        [\A b \in Boxes : shown[b] /\ ~shown'[b] => "own" \in timers[b] /\ "own" \notin timers'[b]]_vars
  BY NoticeStep
<1> QED
  BY <1>1, <1>2, <1>3, TypeCorrect, PTL DEF Spec, NoticesLast

-----------------------------------------------------------------------------
(* What the page says of itself and its buttons, from invariants about the   *)
(* frames under way: the welcome is the first of them, and a tally under way *)
(* never counts a vote that was not cast.                                    *)

\* The frames under way, those on the page's chain first.
Pipe == inbox \o net

-----------------------------------------------------------------------------
(* How a queue moves *)

\* q is p without its first element, and perhaps without some at the end.
Popped(p, q) == p # << >> /\ Len(q) < Len(p) /\ \A k \in 1 .. Len(q) : q[k] = p[k + 1]
\* q is p, perhaps without some at the end.
Cut(p, q) == Len(q) <= Len(p) /\ \A k \in 1 .. Len(q) : q[k] = p[k]
\* q is p and x after it.
Grown(p, q, x) == Len(q) = Len(p) + 1 /\ q[Len(q)] = x /\ \A k \in 1 .. Len(p) : q[k] = p[k]

\* Moving the first element of one queue to the end of the one before it.
LEMMA Passed ==
  ASSUME NEW S, NEW p \in Seq(S), NEW q \in Seq(S), q # << >>
  PROVE  Append(p, Head(q)) \o Tail(q) = p \o q
<1>1. Head(q) \in S /\ Tail(q) \in Seq(S) /\ Len(Tail(q)) = Len(q) - 1 /\ Len(q) > 0
  BY HeadTailProperties, EmptySeq, LenProperties
<1>2. Append(p, Head(q)) \in Seq(S) /\ Len(Append(p, Head(q))) = Len(p) + 1
  BY <1>1, AppendProperties
<1> DEFINE s == Append(p, Head(q)) \o Tail(q)
<1> DEFINE t == p \o q
<1>3. s \in Seq(S) /\ t \in Seq(S) /\ Len(s) = Len(p) + Len(q) /\ Len(t) = Len(p) + Len(q)
  BY <1>1, <1>2, ConcatProperties, LenProperties
<1>4. ASSUME NEW i \in 1 .. Len(s) PROVE s[i] = t[i]
  <2>1. CASE i <= Len(p)
    BY <1>1, <1>2, <1>3, <2>1, ConcatProperties, AppendProperties, LenProperties
  <2>2. CASE i = Len(p) + 1
    <3>1. s[i] = Append(p, Head(q))[i] /\ Append(p, Head(q))[i] = Head(q)
      BY <1>1, <1>2, <1>3, <2>2, ConcatProperties, AppendProperties, LenProperties
    <3>2. t[i] = q[1] /\ q[1] = Head(q)
      BY <1>1, <1>3, <2>2, ConcatProperties, LenProperties
    <3> QED
      BY <3>1, <3>2
  <2>3. CASE i > Len(p) + 1
    <3>1. s[i] = Tail(q)[i - (Len(p) + 1)]
      BY <1>1, <1>2, <1>3, <2>3, ConcatProperties, LenProperties
    <3>2. Tail(q)[i - (Len(p) + 1)] = q[i - Len(p)]
      BY <1>1, <1>3, <2>3, HeadTailProperties, LenProperties
    <3>3. t[i] = q[i - Len(p)]
      BY <1>3, <2>3, ConcatProperties, LenProperties
    <3> QED
      BY <3>1, <3>2, <3>3
  <2> QED
    BY <1>3, <2>1, <2>2, <2>3, LenProperties
<1> HIDE DEF s, t
<1>5. s = t
  BY <1>3, <1>4, SeqEqual
<1> QED
  BY <1>5 DEF s, t

\* Putting an element at the end of the second queue.
LEMMA Queued ==
  ASSUME NEW S, NEW p \in Seq(S), NEW q \in Seq(S), NEW x \in S
  PROVE  Grown(p \o q, p \o Append(q, x), x)
<1>1. Append(q, x) \in Seq(S) /\ Len(Append(q, x)) = Len(q) + 1
  BY AppendProperties
<1>2. p \o q \in Seq(S) /\ Len(p \o q) = Len(p) + Len(q)
  BY ConcatProperties
<1>3. Len(p \o Append(q, x)) = Len(p) + Len(q) + 1
  BY <1>1, ConcatProperties, LenProperties
<1>4. (p \o Append(q, x))[Len(p) + Len(q) + 1] = x
  BY <1>1, ConcatProperties, AppendProperties, LenProperties
<1>5. ASSUME NEW k \in 1 .. Len(p \o q) PROVE (p \o Append(q, x))[k] = (p \o q)[k]
  BY <1>1, <1>2, ConcatProperties, AppendProperties, LenProperties
<1> QED
  BY <1>2, <1>3, <1>4, <1>5, LenProperties DEF Grown

\* Taking the first element of the first queue, with the second one or without.
LEMMA Taken ==
  ASSUME NEW S, NEW p \in Seq(S), NEW q \in Seq(S), p # << >>
  PROVE  /\ p \o q \in Seq(S) /\ (p \o q)[1] = Head(p)
         /\ Popped(p \o q, Tail(p) \o q) /\ Len(Tail(p) \o q) = Len(p \o q) - 1
         /\ Popped(p \o q, Tail(p))
<1>1. Tail(p) \in Seq(S) /\ Len(Tail(p)) = Len(p) - 1 /\ Len(p) > 0 /\ Len(p) \in Nat /\ Len(q) \in Nat
  BY HeadTailProperties, EmptySeq, LenProperties
<1>2. p \o q \in Seq(S) /\ Len(p \o q) = Len(p) + Len(q) /\ (p \o q)[1] = p[1] /\ p[1] = Head(p)
  BY <1>1, ConcatProperties
<1>3. Len(Tail(p) \o q) = Len(p) - 1 + Len(q)
  BY <1>1, ConcatProperties
<1>4. ASSUME NEW k \in 1 .. Len(p) - 1 + Len(q) PROVE (Tail(p) \o q)[k] = (p \o q)[k + 1]
  <2>1. CASE k <= Len(p) - 1
    <3>1. (Tail(p) \o q)[k] = Tail(p)[k] /\ Tail(p)[k] = p[k + 1]
      BY <1>1, <2>1, ConcatProperties, HeadTailProperties
    <3>2. (p \o q)[k + 1] = p[k + 1]
      BY <1>1, <2>1, ConcatProperties
    <3> QED
      BY <3>1, <3>2
  <2>2. CASE k > Len(p) - 1
    <3>1. (Tail(p) \o q)[k] = q[k - (Len(p) - 1)]
      BY <1>1, <2>2, ConcatProperties
    <3>2. (p \o q)[k + 1] = q[k + 1 - Len(p)]
      BY <1>1, <2>2, ConcatProperties
    <3> QED
      BY <1>1, <3>1, <3>2
  <2> QED
    BY <1>1, <2>1, <2>2
<1>5. ASSUME NEW k \in 1 .. Len(Tail(p)) PROVE Tail(p)[k] = (p \o q)[k + 1]
  BY <1>1, ConcatProperties, HeadTailProperties
<1>6. p \o q # << >>
  BY <1>1, ConcatEqualIffEmpty
<1> QED
  BY <1>1, <1>2, <1>3, <1>4, <1>5, <1>6 DEF Popped

\* Losing the end of the first queue and the second one.
LEMMA Lost ==
  ASSUME NEW S, NEW p \in Seq(S), NEW q \in Seq(S), NEW n \in 0 .. Len(p)
  PROVE  Cut(p \o q, SubSeq(p, 1, n)) /\ Cut(p \o q, p)
<1>1. Len(p \o q) = Len(p) + Len(q) /\ Len(p) \in Nat /\ Len(q) \in Nat
  BY ConcatProperties, LenProperties
<1>2. Len(SubSeq(p, 1, n)) = n /\ \A i \in 1 .. n : SubSeq(p, 1, n)[i] = p[i]
  BY <1>1, SubSeqProperties, ElementOfSeq
<1>3. \A i \in 1 .. Len(p) : (p \o q)[i] = p[i]
  BY <1>1, ConcatProperties
<1> QED
  BY <1>1, <1>2, <1>3 DEF Cut

-----------------------------------------------------------------------------
(* Before the websocket opens *)

Before == {"form", "importing", "invalid", "connecting"}

\* There is nothing yet.
Fresh ==
  /\ page # "open" => net = << >>
  /\ page \in Before => inbox = << >> /\ wire = << >> /\ screen = << >> /\ got = << >>
  /\ page \in Before => seat = "out" /\ frames["output"] = 0
  /\ page \in Before => cards = [i \in Ids |-> NoCard] /\ first = [i \in Ids |-> "none"]
  /\ page \in Before \ {"connecting"} => outbox = << >> /\ typed = 0
  /\ seat = "out" => inbox = << >> /\ net = << >>

\* The steps of the browser and the person that are not the websocket's.
LEMMA FreshBrowser ==
  ASSUME Fresh, PageTypeOK, Browser \/ Person
  PROVE  Fresh'
<1>1. CASE Alone(ImportKey)
  BY <1>1 DEF Alone, ImportKey, Fresh, Before
<1>2. CASE Deliver
  BY <1>2 DEF Deliver, Message, Fresh, Before
<1>3. CASE PageTurn
  <2>1. /\ inbox # << >> /\ inbox' = Tail(inbox) /\ page' \in {page, "closing"} /\ net' \in {net, << >>}
        /\ page' # "open" => net' = << >>
        /\ UNCHANGED <<seat, wire, got, frames, outbox>>
    BY <1>3, Zenon DEF PageTurn, Unread, Handle, Hello, Output, Resize, Info, Activity, Say, Proposal, Turn, Fail
  <2> QED
    BY <2>1 DEF Fresh, Before
<1>4. CASE SendTurn
  <2>1. outbox # << >> /\ (page # "open" => wire' = wire)
    BY <1>4 DEF SendTurn, Send, Sent
  <2>2. UNCHANGED <<page, inbox, net, seat, screen, got, frames, cards, typed, first>>
    BY <1>4 DEF SendTurn, Send
  <2> QED
    BY <2>1, <2>2 DEF Fresh, Before
<1>5. CASE \E l \in Links : Alone(Submit(l))
  BY <1>5 DEF Alone, Submit, Opened, Fresh, Before
<1>6. CASE Alone(Type)
  BY <1>6 DEF Alone, Type, Fresh, Before
<1>7. CASE \E i \in Ids, op \in Ops : Alone(Click(i, op))
  <2>1. PICK i \in Ids, op \in Ops : Alone(Click(i, op))
    BY <1>7
  <2>2. cards[i] # NoCard
    <3>1. cards[i].there
      BY <2>1 DEF Alone, Click
    <3>2. NoCard.there = FALSE
      BY DEF NoCard
    <3> QED
      BY <3>1, <3>2
  <2>3. page \notin Before
    BY <2>2 DEF Fresh
  <2>4. UNCHANGED <<page, inbox, net, seat, wire, screen, got, frames>>
    BY <2>1 DEF Alone, Click
  <2> QED
    BY <2>3, <2>4 DEF Fresh
<1>8. CASE \E s \in Windows : Alone(WindowResize(s))
  <2>1. UNCHANGED <<page, inbox, net, outbox, seat, wire, screen, got, frames, cards, typed, first>>
    BY <1>8 DEF Alone, WindowResize
  <2> QED
    BY <2>1 DEF Fresh
<1> QED
  BY <1>1, <1>2, <1>3, <1>4, <1>5, <1>6, <1>7, <1>8, Zenon DEF Browser, Person

\* The session's steps, and the websocket's.
LEMMA FreshSession ==
  ASSUME Fresh, Server \/ World
  PROVE  Fresh'
<1>1. CASE Join
  BY <1>1 DEF Join, Fresh, Before
<1>2. CASE Welcome \/ ReadVote
  <2>1. /\ seat # "out" /\ seat' # "out" /\ (page # "open" => net' = net)
        /\ UNCHANGED <<page, inbox, outbox, screen, got, frames, cards, typed, first>>
    BY <1>2 DEF Welcome, ReadVote, Put
  <2> QED
    BY <2>1 DEF Fresh
<1>3. CASE ReadKey
  <2>1. seat # "out" /\ UNCHANGED <<page, inbox, net, outbox, seat, screen, frames, cards, typed, first>>
    BY <1>3 DEF ReadKey
  <2> QED
    BY <2>1 DEF Fresh
<1>4. CASE \/ \E x \in owed : Announce(x)
           \/ \E k \in Told : Broadcast(k)
  <2>1. /\ page # "open" => UNCHANGED <<net, frames>>
        /\ seat = "out" => UNCHANGED net
        /\ UNCHANGED <<page, inbox, outbox, seat, wire, screen, got, cards, typed, first>>
    BY <1>4 DEF Announce, Broadcast, Put
  <2> QED
    BY <2>1 DEF Fresh, Before
<1>5. CASE Alone(Connect)
  BY <1>5 DEF Alone, Connect, Fresh, Before
<1>6. CASE Lose
  BY <1>6 DEF Lose, Close, Fresh, Before
<1>7. CASE \E b \in Boxes, t \in {"own", "older"} : Alone(Fire(b, t))
  <2>1. UNCHANGED <<page, inbox, net, outbox, seat, wire, screen, got, frames, cards, typed, first>>
    BY <1>7 DEF Alone, Fire
  <2> QED
    BY <2>1 DEF Fresh
<1>8. CASE \/ \E i \in Ids : Hold(i) \/ Expire(i)
           \/ \E i \in Ids, a \in Approvers, op \in Ops : OtherVote(i, a, op)
  <2>1. UNCHANGED <<page, inbox, net, outbox, seat, wire, screen, got, frames, cards, typed, first>>
    BY <1>8 DEF Hold, Expire, OtherVote
  <2> QED
    BY <2>1 DEF Fresh
<1> QED
  BY <1>1, <1>2, <1>3, <1>4, <1>5, <1>6, <1>7, <1>8, Zenon DEF Server, World

-----------------------------------------------------------------------------
(* How the frames under way move *)

LEMMA PipeType ==
  ASSUME TypeOK
  PROVE  Pipe \in Seq(Frames) /\ Len(Pipe) \in Nat /\ (Pipe = << >> <=> inbox = << >> /\ net = << >>)
BY ConcatProperties, ConcatEqualIffEmpty, LenProperties DEF TypeOK, PageTypeOK, SessionTypeOK, Pipe

LEMMA PipeTypeNext ==
  ASSUME TypeOK, [Next]_vars
  PROVE  Pipe' \in Seq(Frames) /\ Len(Pipe') \in Nat /\ (Pipe' # << >> => Len(Pipe') > 0)
<1>1. inbox' \in Seq(Frames) /\ net' \in Seq(Frames)
  BY NextTypes DEF TypeOK, PageTypeOK, SessionTypeOK
<1> QED
  BY <1>1, ConcatProperties, LenProperties, EmptySeq DEF Pipe

\* The page takes the first one, and may drop what is not on its chain yet.
LEMMA PipeTurn ==
  ASSUME TypeOK, PageTurn
  PROVE  /\ inbox # << >> /\ Pipe # << >> /\ Pipe[1] = Head(inbox) /\ Popped(Pipe, Pipe')
         /\ page' = "open" => Len(Pipe') = Len(Pipe) - 1
<1>1. inbox # << >> /\ inbox' = Tail(inbox)
  BY DEF PageTurn, Handle, Hello, Output, Resize, Info, Activity, Say, Proposal, Turn
<1>2. inbox \in Seq(Frames) /\ net \in Seq(Frames)
  BY DEF TypeOK, PageTypeOK, SessionTypeOK
<1>3. CASE page' = "open"
  <2>1. Pipe' = Tail(inbox) \o net
    BY <1>1, <1>3 DEF PageTurn, Unread, Pipe
  <2> QED
    BY <1>1, <1>2, <2>1, Taken, PipeType DEF Pipe
<1>4. CASE page' # "open"
  <2>1. net' = << >> /\ inbox' \in Seq(Frames)
    BY <1>1, <1>2, <1>4 DEF PageTurn, Unread
  <2>2. Pipe' = Tail(inbox)
    BY <1>1, <2>1, ConcatEmptySeq DEF Pipe
  <2> QED
    BY <1>1, <1>2, <1>4, <2>2, Taken, PipeType DEF Pipe
<1> QED
  BY <1>3, <1>4

\* One more is sent.
LEMMA PipePut ==
  ASSUME TypeOK, Fresh, NEW f \in Frames, inbox' = inbox,
         net' = IF page = "open" THEN Append(net, f) ELSE net
  PROVE  IF page = "open" THEN Grown(Pipe, Pipe', f) ELSE Pipe' = Pipe
BY Queued DEF TypeOK, PageTypeOK, SessionTypeOK, Pipe

\* The welcome is.
Greets(f) ==
  /\ f.kind = "hello" /\ f.name = named
  /\ IF page = "open" THEN Grown(Pipe, Pipe', f) ELSE Pipe' = Pipe

LEMMA PipeGreeted ==
  ASSUME TypeOK, Fresh, Welcome
  PROVE  \E f \in Frames : Greets(f)
<1> DEFINE f == [kind |-> "hello", sealed |-> enc, name |-> named]
<1>1. f \in Frames
  <2>1. enc \in BOOLEAN /\ named \in Names \cup {Blank}
    BY DEF TypeOK, FlagsOK, SessionTypeOK
  <2> QED
    BY <2>1, Zenon DEF Frames
<1>2. f.kind = "hello" /\ f.name = named
  OBVIOUS
<1>3. inbox' = inbox /\ net' = IF page = "open" THEN Append(net, f) ELSE net
  BY DEF Welcome
<1> HIDE DEF f
<1>4. IF page = "open" THEN Grown(Pipe, Pipe', f) ELSE Pipe' = Pipe
  BY <1>1, <1>3, PipePut
<1> QED
  BY <1>1, <1>2, <1>4 DEF Greets

\* It is put on the chain; the connection is lost.
LEMMA PipeMove ==
  ASSUME TypeOK, Fresh
  PROVE  (Deliver => Pipe' = Pipe) /\ (Lose => Cut(Pipe, Pipe'))
<1>1. inbox \in Seq(Frames) /\ net \in Seq(Frames)
  BY DEF TypeOK, PageTypeOK, SessionTypeOK
<1>2. ASSUME Deliver PROVE Pipe' = Pipe
  BY <1>1, <1>2, Passed DEF Deliver, Message, Arrive, Pipe
<1>3. ASSUME Lose PROVE Cut(Pipe, Pipe')
  <2>1. inbox' = inbox /\ net' = << >>
    BY <1>3 DEF Lose, Close
  <2>2. Pipe' = inbox
    BY <1>1, <2>1, ConcatEmptySeq DEF Pipe
  <2>3. 0 \in 0 .. Len(inbox)
    BY <1>1, LenProperties
  <2> QED
    BY <1>1, <2>2, <2>3, Lost DEF Pipe
<1> QED
  BY <1>2, <1>3

\* What a step sends that is not the welcome, and what is noted of it.
Sending(f) ==
  /\ f.kind # "hello"
  /\ IF f.kind = "proposal"
       THEN f.sealed = enc /\ (\E x \in owed : x.id = f.id /\ x.tally = f.tally) /\ told' = [told EXCEPT ![f.id] = f.tally]
       ELSE told' = told
  /\ IF f.kind = "output"
       THEN f.sealed = enc /\ f.n = frames["output"] + 1 /\ frames'["output"] = f.n
       ELSE frames'["output"] = frames["output"]
  /\ IF f.kind = "resize" THEN toldSize' = f.size ELSE toldSize' = toldSize

Silent == Pipe' = Pipe /\ UNCHANGED <<told, toldSize>> /\ frames'["output"] = frames["output"]
Sends == \E f \in Frames : Sending(f) /\ Put(f) /\ page = "open" /\ Grown(Pipe, Pipe', f)

LEMMA PipeSent ==
  ASSUME TypeOK, Fresh, ReadVote \/ (\E x \in owed : Announce(x)) \/ \E k \in Told : Broadcast(k)
  PROVE  (Silent \/ Sends) /\ UNCHANGED <<inbox, page, seat, enc, named>>
<1>0. enc \in BOOLEAN
  BY DEF TypeOK, FlagsOK
<1>1. ASSUME NEW f \in Frames, Sending(f), Put(f), page = "open", inbox' = inbox
      PROVE  Sends
  <2>1. net' = IF page = "open" THEN Append(net, f) ELSE net
    BY <1>1, Zenon DEF Put
  <2>2. Grown(Pipe, Pipe', f)
    BY <1>1, <2>1, PipePut
  <2> QED
    BY <1>1, <2>2, Zenon DEF Sends
<1>2. UNCHANGED <<inbox, page, seat, enc, named>>
  BY Zenon DEF ReadVote, Announce, Broadcast
<1>3. CASE ReadVote
  <2>1. CASE Put([kind |-> "info", sealed |-> enc, n |-> 0]) /\ UNCHANGED <<frames, told, toldSize>>
    <3> DEFINE f == [kind |-> "info", sealed |-> enc, n |-> 0]
    <3>1. f \in Frames
      BY <1>0, Zenon DEF Frames
    <3>2. f.kind = "info"
      OBVIOUS
    <3> HIDE DEF f
    <3>3. Put(f)
      BY <2>1 DEF f
    <3>4. Sending(f)
      BY <2>1, <3>2 DEF Sending
    <3>5. CASE page = "open"
      BY <1>1, <1>2, <3>1, <3>3, <3>4, <3>5
    <3>6. CASE page # "open"
      <4>1. net' = net
        BY <3>3, <3>6, Zenon DEF Put
      <4> QED
        BY <1>2, <2>1, <4>1 DEF Silent, Pipe
    <3> QED
      BY <1>2, <3>5, <3>6
  <2>2. CASE UNCHANGED sent
    BY <1>2, <2>2 DEF Silent, Pipe
  <2> QED
    BY <1>2, <1>3, <2>1, <2>2, Zenon DEF ReadVote
<1>4. CASE \E x \in owed : Announce(x)
  <2>1. PICK x \in owed : Announce(x)
    BY <1>4
  <2>2. UNCHANGED <<frames, toldSize>>
    BY <2>1, Zenon DEF Announce
  <2> DEFINE f == [kind |-> "proposal", sealed |-> enc, id |-> x.id, tally |-> x.tally]
  <2>3. CASE page = "open" /\ Put(f) /\ told' = [told EXCEPT ![x.id] = x.tally]
    <3>1. f \in Frames
      <4>1. x.id \in Ids /\ x.tally \in Tallies
        BY DEF TypeOK, SessionTypeOK
      <4> QED
        BY <1>0, <4>1, Zenon DEF Frames
    <3>2. f.kind = "proposal" /\ f.id = x.id /\ f.tally = x.tally /\ f.sealed = enc
      OBVIOUS
    <3> HIDE DEF f
    <3>3. Sending(f)
      BY <2>2, <2>3, <3>2 DEF Sending
    <3> QED
      BY <1>1, <1>2, <2>3, <3>1, <3>3
  <2>4. CASE UNCHANGED <<net, told>>
    BY <1>2, <2>2, <2>4 DEF Silent, Pipe
  <2> QED
    BY <1>2, <2>1, <2>3, <2>4, Zenon DEF Announce
<1>5. CASE \E k \in Told : Broadcast(k)
  <2>1. PICK k \in Told : Broadcast(k)
    BY <1>5
  <2>2. page = "open" /\ told' = told /\ frames' = [frames EXCEPT ![k] = @ + 1]
    BY <2>1, Zenon DEF Broadcast
  <2>3. frames \in [Told -> Nat] /\ "output" \in Told
    BY DEF TypeOK, SessionTypeOK, Told
  <2>4. frames'["output"] = IF k = "output" THEN frames["output"] + 1 ELSE frames["output"]
    BY <2>2, <2>3
  <2>5. CASE k # "resize" /\ toldSize' = toldSize /\ Put([kind |-> k, sealed |-> enc, n |-> frames[k] + 1])
    <3> DEFINE f == [kind |-> k, sealed |-> enc, n |-> frames[k] + 1]
    <3>0. k \in {"output", "info", "activity", "say"}
      BY <2>5 DEF Told
    <3>1. f \in Frames
      <4>1. frames[k] + 1 \in Nat
        BY <2>3
      <4> QED
        BY <1>0, <3>0, <4>1, Zenon DEF Frames
    <3>2. f.kind = k /\ f.n = frames[k] + 1 /\ f.sealed = enc
      OBVIOUS
    <3> HIDE DEF f
    <3>3. Put(f)
      BY <2>5 DEF f
    <3>4. Sending(f)
      BY <2>2, <2>4, <2>5, <3>0, <3>2 DEF Sending
    <3> QED
      BY <1>1, <1>2, <2>2, <3>1, <3>3, <3>4
  <2>6. CASE k = "resize" /\ \E s \in Sizes : toldSize' = s /\ Put([kind |-> "resize", size |-> s])
    <3>1. PICK s \in Sizes : toldSize' = s /\ Put([kind |-> "resize", size |-> s])
      BY <2>6
    <3> DEFINE f == [kind |-> "resize", size |-> s]
    <3>2. f \in Frames /\ f.kind = "resize" /\ f.size = s
      BY DEF Frames
    <3> HIDE DEF f
    <3>3. Put(f)
      BY <3>1 DEF f
    <3>4. Sending(f)
      BY <2>2, <2>4, <2>6, <3>1, <3>2 DEF Sending
    <3> QED
      BY <1>1, <1>2, <2>2, <3>2, <3>3, <3>4
  <2> QED
    BY <1>2, <2>1, <2>5, <2>6, Zenon DEF Broadcast
<1> QED
  BY <1>2, <1>3, <1>4, <1>5

-----------------------------------------------------------------------------
(* The welcome comes first *)

HelloPending == Pipe # << >> /\ Pipe[1].kind = "hello"

\* Nothing is under way before the welcome is, the welcome is at the head of what
\* is, and a page that has it on its chain handles it before it can lose the
\* connection.
HelloFirst ==
  /\ seat # "welcome" => Pipe = << >>
  /\ \A k \in 2 .. Len(Pipe) : Pipe[k].kind # "hello"
  /\ HelloPending => page = "open"

LEMMA NotEarly ==
  ASSUME SessionTypeOK, [Next]_vars, ~early'
  PROVE  ~early /\ \A f : Put(f) => seat = "welcome"
<1>1. ~early
  BY Zenon DEF Next, Server, Browser, Person, World, Alone, Join, Welcome, ReadKey, ReadVote, Announce, Deliver,
     PageTurn, SendTurn, Lose, Broadcast, Hold, Expire, OtherVote, Put
<1>2. \A f : Put(f) => seat # "out" /\ seat # "joined"
  BY Zenon DEF Put
<1>3. seat \in {"out", "joined", "welcome"}
  BY DEF SessionTypeOK
<1> QED
  BY <1>1, <1>2, <1>3

LEMMA HelloFirstStep ==
  ASSUME TypeOK, Fresh, HelloFirst, [Next]_vars, ~early'
  PROVE  HelloFirst'
<1>0. SessionTypeOK /\ PageTypeOK /\ Len(Pipe) \in Nat
  BY PipeType DEF TypeOK
<1>1. ASSUME Pipe' = Pipe, UNCHANGED seat, page' = page \/ page \in Before
      PROVE  HelloFirst'
  <2>1. page \in Before => Pipe = << >>
    BY PipeType DEF Fresh, Before
  <2> QED
    BY <1>1, <2>1 DEF HelloFirst, HelloPending
<1>2. CASE Join
  <2>1. Pipe' = Pipe /\ Pipe = << >>
    BY <1>2, PipeType DEF Join, Fresh, Pipe
  <2> QED
    BY <2>1 DEF HelloFirst, HelloPending
<1>3. CASE Welcome
  <2>1. seat = "joined" /\ Pipe = << >> /\ seat' = "welcome" /\ UNCHANGED <<inbox, page>>
    BY <1>3 DEF Welcome, HelloFirst
  <2>2. PICK f \in Frames : Greets(f)
    BY <1>3, PipeGreeted
  <2>3. CASE page = "open"
    <3>1. Grown(Pipe, Pipe', f) /\ Len(Pipe) = 0
      BY <2>1, <2>2, <2>3 DEF Greets
    <3>2. Len(Pipe') = 1
      BY <3>1 DEF Grown
    <3> QED
      BY <2>1, <2>3, <3>2 DEF HelloFirst, HelloPending
  <2>4. CASE page # "open"
    <3>1. Pipe' = Pipe
      BY <2>2, <2>4 DEF Greets
    <3> QED
      BY <2>1, <3>1 DEF HelloFirst, HelloPending
  <2> QED
    BY <2>3, <2>4
<1>4. CASE ReadVote \/ (\E x \in owed : Announce(x)) \/ \E k \in Told : Broadcast(k)
  <2>1. UNCHANGED <<page, seat>>
    BY <1>4, PipeSent
  <2>2. CASE Silent
    BY <1>1, <2>1, <2>2 DEF Silent
  <2>3. CASE Sends
    <3>1. PICK f \in Frames : Sending(f) /\ Put(f) /\ page = "open" /\ Grown(Pipe, Pipe', f)
      BY <2>3 DEF Sends
    <3>2. seat = "welcome" /\ f.kind # "hello"
      BY <1>0, <3>1, NotEarly DEF Sending
    <3>3. ASSUME NEW k \in 2 .. Len(Pipe') PROVE Pipe'[k].kind # "hello"
      <4>1. CASE k = Len(Pipe')
        BY <3>1, <3>2, <4>1 DEF Grown
      <4>2. CASE k # Len(Pipe')
        <5>1. k \in 2 .. Len(Pipe) /\ Pipe'[k] = Pipe[k]
          BY <1>0, <3>1, <4>2 DEF Grown
        <5> QED
          BY <5>1 DEF HelloFirst
      <4> QED
        BY <4>1, <4>2
    <3> QED
      BY <2>1, <3>1, <3>2, <3>3 DEF HelloFirst
  <2> QED
    BY <1>4, <2>2, <2>3, PipeSent
<1>5. CASE Deliver
  BY <1>1, <1>5, PipeMove DEF Deliver, Message
<1>6. CASE PageTurn
  <2>1. Pipe # << >> /\ Popped(Pipe, Pipe') /\ UNCHANGED seat
    BY <1>6, PipeTurn DEF PageTurn
  <2>2. seat = "welcome"
    BY <2>1 DEF HelloFirst
  <2>3. Len(Pipe') \in Nat
    BY PipeTypeNext
  <2>4. \A k \in 1 .. Len(Pipe') : Pipe'[k].kind # "hello"
    BY <1>0, <2>1, <2>3 DEF Popped, HelloFirst
  <2>5. Pipe' # << >> => Len(Pipe') > 0
    BY PipeTypeNext
  <2> QED
    BY <2>1, <2>2, <2>3, <2>4, <2>5 DEF HelloFirst, HelloPending
<1>7. CASE Lose
  <2>1. Cut(Pipe, Pipe') /\ UNCHANGED seat
    BY <1>7, PipeMove DEF Lose
  <2>2. Pipe' \in Seq(Frames) /\ Len(Pipe') \in Nat
    BY PipeTypeNext
  <2>3. Pipe' = inbox
    <3>1. inbox' = inbox /\ net' = << >> /\ inbox \in Seq(Frames)
      BY <1>0, <1>7 DEF Lose, Close, PageTypeOK
    <3> QED
      BY <3>1, ConcatEmptySeq DEF Pipe
  <2>4. inbox # << >> => Head(inbox).kind # "hello"
    BY <1>7 DEF Lose, Close, Settled, Awaits
  <2>5. inbox # << >> => Head(inbox) = inbox[1]
    OBVIOUS
  <2>6. ~HelloPending'
    BY <2>3, <2>4, <2>5 DEF HelloPending
  <2>7. Pipe = << >> => Pipe' = << >>
    BY <2>2, <2>1, EmptySeq DEF Cut
  <2>8. \A k \in 2 .. Len(Pipe') : Pipe'[k].kind # "hello"
    BY <1>0, <2>1, <2>2 DEF Cut, HelloFirst
  <2> QED
    BY <2>1, <2>6, <2>7, <2>8 DEF HelloFirst
<1>8. CASE UNCHANGED <<inbox, net, seat>> /\ (page' = page \/ page \in Before)
  BY <1>1, <1>8 DEF Pipe
<1>9. \/ Join \/ Welcome \/ Deliver \/ PageTurn \/ Lose
      \/ ReadVote \/ (\E x \in owed : Announce(x)) \/ \E k \in Told : Broadcast(k)
      \/ UNCHANGED <<inbox, net, seat>> /\ (page' = page \/ page \in Before)
  BY Zenon DEF Next, Server, Browser, Person, World, Alone, ReadKey, SendTurn, Send, Hold, Expire, OtherVote,
     ImportKey, Submit, Type, Click, WindowResize, Connect, Fire, Before
<1> QED
  BY <1>2, <1>3, <1>4, <1>5, <1>6, <1>7, <1>8, <1>9

-----------------------------------------------------------------------------
(* What the page says of itself *)

Unfailed == page \notin {"closing", "closed"} => ~failed
Honest == (failed => status \in Failures) /\ (page = "closed" => status # "joined")

\* A step that says that the page has joined is the welcome's.
LEMMA StatusSteps ==
  ASSUME [Next]_vars
  PROVE  \/ PageTurn
         \/ Lose /\ status' = ClosedStatus /\ page' = "closed" /\ failed' = failed
         \/ page \in Before /\ page' \in Before \cup {"open"} /\ failed' = failed
         \/ UNCHANGED <<page, status, failed>>
BY ZenonT(40) DEF Next, Server, Browser, Person, World, Alone, Join, Welcome, ReadKey, ReadVote, Announce, Deliver, Message,
   SendTurn, Send, Lose, Close, Broadcast, Hold, Expire, OtherVote, ImportKey, Submit, Opened, Type, Click,
   WindowResize, Connect, Fire, Before

LEMMA TurnStatus ==
  ASSUME PageTurn
  PROVE  \/ Head(inbox).kind = "hello" /\ failed' = failed /\ page' = page /\ status' = "joined"
         \/ failed' = TRUE /\ status' \in Failures /\ page' = (IF page = "open" THEN "closing" ELSE page)
         \/ UNCHANGED <<page, status, failed>>
BY Zenon DEF PageTurn, Handle, Hello, Output, Resize, Info, Activity, Say, Proposal, Turn, Welcomed, Fail, Failures

LEMMA StatusStep ==
  ASSUME TypeOK, Fresh, Unfailed, [Next]_vars
  PROVE  /\ Unfailed'
         /\ HelloFirst /\ Honest => Honest'
<1>1. CASE PageTurn
  <2>1. Pipe # << >> /\ Pipe[1] = Head(inbox) /\ page \notin Before
    BY <1>1, PipeTurn DEF Fresh
  <2>2. HelloFirst /\ Head(inbox).kind = "hello" => page = "open"
    BY <2>1 DEF HelloFirst, HelloPending
  <2>3. page \in Pages \ Before
    BY <2>1 DEF TypeOK, PageTypeOK
  <2>4. page \in {"open", "closing", "closed"}
    BY <2>3 DEF Pages, Before
  <2>5. "joined" \notin Failures
    BY DEF Failures
  <2>6. CASE Head(inbox).kind = "hello" /\ failed' = failed /\ page' = page /\ status' = "joined"
    BY <2>2, <2>6, Zenon DEF Unfailed, Honest
  <2>7. CASE failed' = TRUE /\ status' \in Failures /\ page' = IF page = "open" THEN "closing" ELSE page
    <3>1. page' \in {"closing", "closed"}
      BY <2>4, <2>7
    <3> QED
      BY <2>5, <2>7, <3>1, Zenon DEF Unfailed, Honest
  <2>8. CASE UNCHANGED <<page, status, failed>>
    BY <2>8, Zenon DEF Unfailed, Honest
  <2> QED
    BY <1>1, <2>6, <2>7, <2>8, TurnStatus
<1>2. CASE Lose /\ status' = ClosedStatus /\ page' = "closed" /\ failed' = failed
  <2>1. "joined" \notin Failures
    BY DEF Failures
  <2> QED
    BY <1>2, <2>1, Zenon DEF ClosedStatus, Unfailed, Honest
<1>3. CASE page \in Before /\ page' \in Before \cup {"open"} /\ failed' = failed
  <2>1. page \notin {"closing", "closed"} /\ page' # "closed"
    BY <1>3 DEF Before
  <2> QED
    BY <1>3, <2>1, Zenon DEF Unfailed, Honest
<1>4. CASE UNCHANGED <<page, status, failed>>
  BY <1>4, Zenon DEF Unfailed, Honest
<1> QED
  BY <1>1, <1>2, <1>3, <1>4, StatusSteps

Welcomes == Fresh /\ Unfailed /\ (early \/ (HelloFirst /\ Honest))

LEMMA WelcomesInit ==
  ASSUME Init
  PROVE  Welcomes
<1>1. Fresh
  BY DEF Init, PageInit, Fresh, Told
<1>2. Unfailed /\ ~failed
  BY Zenon DEF Init, PageInit, Unfailed
<1>3. page # "closed"
  BY DEF Init, PageInit, Opened
<1>4. Pipe = << >>
  BY InitTypes, PipeType DEF Init, PageInit
<1> QED
  BY <1>1, <1>2, <1>3, <1>4 DEF Welcomes, HelloFirst, HelloPending, Honest

LEMMA WelcomesStep ==
  ASSUME TypeOK, Welcomes, [Next]_vars
  PROVE  Welcomes'
<1>1. Fresh'
  <2>1. ASSUME UNCHANGED vars PROVE Fresh'
    BY <2>1 DEF Fresh, Welcomes
  <2> QED
    BY <2>1, FreshBrowser, FreshSession DEF Next, TypeOK, Welcomes
<1>2. Unfailed' /\ (HelloFirst /\ Honest => Honest')
  BY StatusStep DEF Welcomes
<1>3. ASSUME ~early' PROVE HelloFirst' /\ Honest'
  <2>1. HelloFirst /\ Honest
    BY <1>3, NotEarly DEF TypeOK, Welcomes
  <2> QED
    BY <1>2, <1>3, <2>1, HelloFirstStep DEF Welcomes
<1> QED
  BY <1>1, <1>2, <1>3, Zenon DEF Welcomes

LEMMA WelcomesAlways == Spec => []Welcomes
<1>1. Init => Welcomes
  BY WelcomesInit
<1>2. TypeOK /\ Welcomes /\ [Next]_vars => Welcomes'
  BY WelcomesStep
<1> QED
  BY <1>1, <1>2, TypeCorrect, PTL DEF Spec

\* A page that failed says why, whatever closes its connection later, and one
\* whose connection is gone does not say that it has joined, unless something was
\* sent before the welcome.
THEOREM StatusIsHonest == Spec => []StatusHonest
<1>1. Welcomes => StatusHonest
  BY Zenon DEF Welcomes, Honest, StatusHonest
<1> QED
  BY <1>1, WelcomesAlways, PTL

-----------------------------------------------------------------------------
(* Tallies *)

\* Votes are not taken back, and a proposal that is not pending does not become so again.
BallotsGrow ==
  \A i \in Ids :
    /\ pstate[i] # "none" => pstate'[i] # "none"
    /\ pstate[i] # "none" /\ pstate'[i] = "pending" => pstate[i] = "pending"
    /\ yes[i] \subseteq yes'[i] /\ no[i] \subseteq no'[i]

LEMMA CountGrows ==
  ASSUME SessionTypeOK, NEW i \in Ids, NEW a \in Approvers, NEW op \in Ops, Count(i, a, op)
  PROVE  BallotsGrow /\ pstate'[i] # "none"
<1>1. B!Cast(i, a, {})
  BY DEF Count
<1>2. B!Lapsed({}) = pstate
  BY DEF B!Lapsed, B!Ids, Ids, SessionTypeOK
<1>3. pstate' = [pstate EXCEPT ![i] = B!Verdict(yes'[i], no'[i])] /\ pstate[i] = "pending"
  BY <1>1, <1>2 DEF B!Cast, B!Pending
<1>4. B!Verdict(yes'[i], no'[i]) # "none"
  BY DEF B!Verdict
<1>5. \/ yes' = [yes EXCEPT ![i] = @ \cup {a}] /\ no' = no
      \/ no' = [no EXCEPT ![i] = @ \cup {a}] /\ yes' = yes
  BY <1>1 DEF B!Cast
<1>6. \A j \in Ids : yes[j] \subseteq yes'[j] /\ no[j] \subseteq no'[j]
  BY <1>5 DEF SessionTypeOK
<1>7. \A j \in Ids : /\ pstate[j] # "none" => pstate'[j] # "none"
                    /\ pstate[j] # "none" /\ pstate'[j] = "pending" => pstate[j] = "pending"
  BY <1>3, <1>4 DEF SessionTypeOK
<1> QED
  BY <1>3, <1>4, <1>6, <1>7 DEF BallotsGrow, SessionTypeOK

LEMMA BallotSteps ==
  ASSUME SessionTypeOK, [Next]_vars
  PROVE  BallotsGrow
<1>1. CASE UNCHANGED ballots
  BY <1>1 DEF BallotsGrow
<1>2. CASE \E i \in Ids : Hold(i)
  <2>1. PICK i \in Ids : Hold(i)
    BY <1>2
  <2>2. B!Lapsed({}) = pstate
    BY DEF B!Lapsed, B!Ids, Ids, SessionTypeOK
  <2>3. pstate' = [pstate EXCEPT ![i] = "pending"] /\ pstate[i] = "none" /\ UNCHANGED <<yes, no>>
    BY <2>1, <2>2 DEF Hold, B!Open
  <2> QED
    BY <2>3 DEF BallotsGrow, SessionTypeOK
<1>3. CASE \E i \in Ids : Expire(i)
  BY <1>3 DEF Expire, B!Lapse, B!Lapsed, B!Ids, Ids, BallotsGrow, SessionTypeOK
<1>4. CASE \E i \in Ids, a \in Approvers, op \in Ops : Count(i, a, op)
  BY <1>4, CountGrows
<1>5. CASE ReadVote
  <2>1. wire # << >> /\ Head(wire).kind = "vote"
    BY <1>5 DEF ReadVote
  <2>2. CASE Counts(Head(wire)) /\ Count(Head(wire).id, named, Head(wire).op)
    <3>1. Head(wire).id \in Ids /\ Head(wire).op \in Ops /\ named \in Approvers
      <4>1. Head(wire) \in Items
        BY <2>1 DEF SessionTypeOK
      <4> QED
        BY <2>1, <2>2, <4>1 DEF Items, Counts
    <3> QED
      BY <2>2, <3>1, CountGrows
  <2> QED
    BY <1>1, <1>5, <2>2, Zenon DEF ReadVote
<1>6. \/ UNCHANGED ballots
      \/ \E i \in Ids : Hold(i)
      \/ \E i \in Ids : Expire(i)
      \/ \E i \in Ids, a \in Approvers, op \in Ops : Count(i, a, op)
      \/ ReadVote
  BY Zenon DEF Next, Server, Browser, Person, World, Alone, Join, Welcome, ReadKey, Announce, Deliver, PageTurn,
     SendTurn, Lose, Broadcast, OtherVote
<1> QED
  BY <1>1, <1>2, <1>3, <1>4, <1>5, <1>6

\* The tally counts no vote that was not cast.
Counted(i, t) == pstate[i] # "none" /\ t.yes \subseteq yes[i] /\ t.no \subseteq no[i]

\* Nor does one that is to be announced, is under way, or is on a card; and the
\* frames under way are sealed when the session is encrypted, and give the page
\* its name.
Owing == \A x \in owed : Counted(x.id, x.tally)
Carried ==
  \A k \in 1 .. Len(Pipe) :
    /\ Pipe[k].kind = "proposal" => Counted(Pipe[k].id, Pipe[k].tally) /\ Pipe[k].sealed = enc
    /\ Pipe[k].kind = "hello" => Pipe[k].name = named
Heard == \A i \in Ids : cards[i] # NoCard => Opens /\ Counted(i, cards[i].tally)

LEMMA CountedStays ==
  ASSUME BallotsGrow, NEW i \in Ids, NEW t, Counted(i, t)
  PROVE  pstate'[i] # "none" /\ t.yes \subseteq yes'[i] /\ t.no \subseteq no'[i]
BY DEF BallotsGrow, Counted

\* A frame that the host sealed as the session is can be read by who has its key.
LEMMA ReadsIfOpens ==
  ASSUME NEW f, f.sealed = enc, Readable(f)
  PROVE  Opens
<1>1. link.key = "right" => HasKey
  BY DEF HasKey
<1> QED
  BY <1>1, Zenon DEF Readable, Opens

LEMMA OwingStep ==
  ASSUME TypeOK, Owing, [Next]_vars
  PROVE  Owing'
<1>0. BallotsGrow /\ SessionTypeOK
  BY BallotSteps DEF TypeOK
<1>1. ASSUME NEW i \in Ids, Owe(i), pstate'[i] # "none"
      PROVE  Owing'
  <2> DEFINE t == [pending |-> pstate'[i] = "pending", yes |-> yes'[i], no |-> no'[i]]
  <2>1. owed' = owed \cup {[id |-> i, tally |-> t]}
    BY <1>1 DEF Owe
  <2>2. t.yes = yes'[i] /\ t.no = no'[i]
    OBVIOUS
  <2> HIDE DEF t
  <2>3. pstate'[i] # "none" /\ t.yes \subseteq yes'[i] /\ t.no \subseteq no'[i]
    BY <1>1, <2>2
  <2>4. \A x \in owed : x.id \in Ids
    BY <1>0 DEF SessionTypeOK
  <2>5. \A x \in owed : pstate'[x.id] # "none" /\ x.tally.yes \subseteq yes'[x.id] /\ x.tally.no \subseteq no'[x.id]
    BY <1>0, <2>4, CountedStays DEF Owing
  <2> QED
    BY <2>1, <2>3, <2>5 DEF Owing, Counted
<1>2. CASE owed' \in SUBSET owed
  <2>1. \A x \in owed : x.id \in Ids
    BY <1>0 DEF SessionTypeOK
  <2> QED
    BY <1>0, <1>2, <2>1, CountedStays DEF Owing, Counted
<1>3. CASE \E i \in Ids : Hold(i)
  <2>1. PICK i \in Ids : Hold(i)
    BY <1>3
  <2>2. B!Lapsed({}) = pstate
    BY <1>0 DEF B!Lapsed, B!Ids, Ids, SessionTypeOK
  <2>3. pstate'[i] # "none"
    BY <1>0, <2>1, <2>2 DEF Hold, B!Open, SessionTypeOK
  <2> QED
    BY <1>1, <2>1, <2>3 DEF Hold
<1>4. CASE \E i \in Ids, a \in Approvers, op \in Ops : Count(i, a, op)
  <2>1. PICK i \in Ids, a \in Approvers, op \in Ops : Count(i, a, op)
    BY <1>4
  <2>2. pstate'[i] # "none"
    BY <1>0, <2>1, CountGrows
  <2> QED
    BY <1>1, <2>1, <2>2 DEF Count
<1>5. CASE ReadVote
  <2>1. wire # << >> /\ Head(wire).kind = "vote"
    BY <1>5 DEF ReadVote
  <2>2. CASE Counts(Head(wire)) /\ Count(Head(wire).id, named, Head(wire).op)
    <3>1. Head(wire).id \in Ids /\ Head(wire).op \in Ops /\ named \in Approvers
      <4>1. Head(wire) \in Items
        BY <1>0, <2>1 DEF SessionTypeOK
      <4> QED
        BY <2>1, <2>2, <4>1 DEF Items, Counts
    <3> QED
      BY <1>4, <2>2, <3>1
  <2>3. CASE owed' = owed
    BY <1>2, <2>3
  <2> QED
    BY <1>5, <2>2, <2>3, Zenon DEF ReadVote
<1>6. \/ owed' \in SUBSET owed
      \/ \E i \in Ids : Hold(i)
      \/ \E i \in Ids, a \in Approvers, op \in Ops : Count(i, a, op)
      \/ ReadVote
  <2>1. \/ UNCHANGED owed
        \/ \E x \in owed : Announce(x)
        \/ \E i \in Ids : Hold(i)
        \/ \E i \in Ids, a \in Approvers, op \in Ops : Count(i, a, op)
        \/ ReadVote
    BY Zenon DEF Next, Server, Browser, Person, World, Alone, Join, Welcome, ReadKey, Deliver, PageTurn,
       SendTurn, Lose, Broadcast, OtherVote, Expire
  <2> QED
    BY <2>1 DEF Announce
<1> QED
  BY <1>2, <1>3, <1>4, <1>5, <1>6

\* How the frames under way move in a step.
LEMMA PipeSteps ==
  ASSUME TypeOK, Fresh, [Next]_vars
  PROVE  \/ Silent /\ Pipe = << >>
         \/ Sends /\ UNCHANGED <<page, inbox>>
         \/ Welcome
         \/ PageTurn /\ Popped(Pipe, Pipe')
         \/ Lose /\ Cut(Pipe, Pipe')
         \/ Silent /\ UNCHANGED named
<1>1. CASE ReadVote \/ (\E x \in owed : Announce(x)) \/ \E k \in Told : Broadcast(k)
  BY <1>1, PipeSent
<1>2. CASE Deliver
  <2>1. Pipe' = Pipe /\ UNCHANGED <<frames, told, toldSize, named>>
    BY <1>2, PipeMove DEF Deliver
  <2> QED
    BY <2>1 DEF Silent
<1>3. CASE Join
  <2>1. inbox = << >> /\ net = << >> /\ UNCHANGED <<inbox, net, told, toldSize, frames>>
    BY <1>3 DEF Join, Fresh
  <2>2. Silent
    BY <2>1 DEF Silent, Pipe
  <2> QED
    BY <2>1, <2>2, PipeType
<1>4. CASE UNCHANGED <<inbox, net, told, toldSize, frames, named>>
  BY <1>4 DEF Silent, Pipe
<1>5. \/ Join \/ Welcome \/ Deliver \/ PageTurn \/ Lose
      \/ ReadVote \/ (\E x \in owed : Announce(x)) \/ \E k \in Told : Broadcast(k)
      \/ UNCHANGED <<inbox, net, told, toldSize, frames, named>>
  BY Zenon DEF Next, Server, Browser, Person, World, Alone, ReadKey, SendTurn, Send, Hold, Expire, OtherVote,
     ImportKey, Submit, Type, Click, WindowResize, Connect, Fire
<1> QED
  BY <1>1, <1>2, <1>3, <1>4, <1>5, PipeTurn, PipeMove

\* A step changes no other name, and no session becomes encrypted.
LEMMA NameSteps ==
  ASSUME [Next]_vars
  PROVE  enc' = enc /\ (Join \/ named' = named)
BY Zenon DEF Next, Server, Browser, Person, World, Alone, Welcome, ReadKey, ReadVote, Announce, Deliver, PageTurn,
   SendTurn, Lose, Broadcast, Hold, Expire, OtherVote, Join

LEMMA CarriedStep ==
  ASSUME TypeOK, Fresh, Owing, Carried, [Next]_vars
  PROVE  Carried'
<1>0. BallotsGrow /\ Pipe \in Seq(Frames) /\ Len(Pipe) \in Nat /\ Pipe' \in Seq(Frames) /\ Len(Pipe') \in Nat
      /\ enc' = enc
  BY BallotSteps, PipeType, PipeTypeNext, NameSteps DEF TypeOK
<1>1. ASSUME NEW f \in Frames, f.kind = "proposal", Counted(f.id, f.tally)
      PROVE  pstate'[f.id] # "none" /\ f.tally.yes \subseteq yes'[f.id] /\ f.tally.no \subseteq no'[f.id]
  <2>1. f.id \in Ids
    BY <1>1 DEF Frames
  <2> QED
    BY <1>0, <1>1, <2>1, CountedStays
<1>2. ASSUME named' = named,
             \A k \in 1 .. Len(Pipe') : \E j \in 1 .. Len(Pipe) : Pipe'[k] = Pipe[j]
      PROVE  Carried'
  <2> SUFFICES ASSUME NEW k \in 1 .. Len(Pipe')
               PROVE  /\ Pipe'[k].kind = "proposal" => Counted(Pipe[k].id, Pipe[k].tally)' /\ Pipe'[k].sealed = enc'
                      /\ Pipe'[k].kind = "hello" => Pipe'[k].name = named'
    BY DEF Carried
  <2>1. PICK j \in 1 .. Len(Pipe) : Pipe'[k] = Pipe[j]
    BY <1>2
  <2>2. Pipe[j] \in Frames
    BY <1>0, ElementOfSeq
  <2>3. Pipe[j].kind = "proposal" => Counted(Pipe[j].id, Pipe[j].tally) /\ Pipe[j].sealed = enc
    BY DEF Carried
  <2>4. Pipe[j].kind = "hello" => Pipe[j].name = named
    BY DEF Carried
  <2> QED
    BY <1>0, <1>1, <1>2, <2>1, <2>2, <2>3, <2>4 DEF Counted
<1>3. ASSUME NEW f \in Frames, Grown(Pipe, Pipe', f), named' = named,
             f.kind = "proposal" => Counted(f.id, f.tally) /\ f.sealed = enc,
             f.kind = "hello" => f.name = named
      PROVE  Carried'
  <2> SUFFICES ASSUME NEW k \in 1 .. Len(Pipe')
               PROVE  /\ Pipe'[k].kind = "proposal" => Counted(Pipe[k].id, Pipe[k].tally)' /\ Pipe'[k].sealed = enc'
                      /\ Pipe'[k].kind = "hello" => Pipe'[k].name = named'
    BY DEF Carried
  <2>1. CASE k = Len(Pipe')
    <3>1. Pipe'[k] = f
      BY <1>3, <2>1 DEF Grown
    <3> QED
      BY <1>0, <1>1, <1>3, <3>1 DEF Counted
  <2>2. CASE k # Len(Pipe')
    <3>1. k \in 1 .. Len(Pipe) /\ Pipe'[k] = Pipe[k]
      BY <1>0, <1>3, <2>2 DEF Grown
    <3>2. Pipe[k] \in Frames
      BY <1>0, <3>1, ElementOfSeq
    <3>3. Pipe[k].kind = "proposal" => Counted(Pipe[k].id, Pipe[k].tally) /\ Pipe[k].sealed = enc
      BY <3>1 DEF Carried
    <3>4. Pipe[k].kind = "hello" => Pipe[k].name = named
      BY <3>1 DEF Carried
    <3> QED
      BY <1>0, <1>1, <1>3, <3>1, <3>2, <3>3, <3>4 DEF Counted
  <2> QED
    BY <2>1, <2>2
<1>4. CASE Silent /\ Pipe = << >>
  BY <1>4 DEF Silent, Carried
<1>5. CASE Sends
  <2>1. PICK f \in Frames : Sending(f) /\ Put(f) /\ page = "open" /\ Grown(Pipe, Pipe', f)
    BY <1>5 DEF Sends
  <2>2. f.kind = "proposal" => Counted(f.id, f.tally) /\ f.sealed = enc
    BY <2>1 DEF Sending, Owing
  <2>3. f.kind # "hello"
    BY <2>1 DEF Sending
  <2>4. ~Join
    BY <2>1, Zenon DEF Put, Join
  <2> QED
    BY <1>3, <2>1, <2>2, <2>3, <2>4, NameSteps
<1>6. CASE Welcome
  <2>1. PICK f \in Frames : Greets(f)
    BY <1>6, PipeGreeted
  <2>2. f.kind = "hello" /\ f.name = named /\ named' = named
    BY <1>6, <2>1 DEF Greets, Welcome
  <2>3. CASE page = "open"
    BY <1>3, <2>1, <2>2, <2>3 DEF Greets
  <2>4. CASE page # "open"
    BY <1>2, <2>1, <2>2, <2>4 DEF Greets
  <2> QED
    BY <2>3, <2>4
<1>7. CASE PageTurn /\ Popped(Pipe, Pipe')
  <2>1. ASSUME NEW k \in 1 .. Len(Pipe') PROVE k + 1 \in 1 .. Len(Pipe) /\ Pipe'[k] = Pipe[k + 1]
    BY <1>0, <1>7 DEF Popped
  <2>2. named' = named
    BY <1>7 DEF PageTurn
  <2> QED
    BY <1>2, <2>1, <2>2
<1>8. CASE Lose /\ Cut(Pipe, Pipe')
  <2>1. ASSUME NEW k \in 1 .. Len(Pipe') PROVE k \in 1 .. Len(Pipe) /\ Pipe'[k] = Pipe[k]
    BY <1>0, <1>8 DEF Cut
  <2>2. named' = named
    BY <1>8 DEF Lose
  <2> QED
    BY <1>2, <2>1, <2>2
<1>9. CASE Silent /\ UNCHANGED named
  BY <1>2, <1>9 DEF Silent
<1> QED
  BY <1>4, <1>5, <1>6, <1>7, <1>8, <1>9, PipeSteps

\* What a step does to the cards.
LEMMA CardSteps ==
  ASSUME [Next]_vars
  PROVE  \/ UNCHANGED <<cards, link>>
         \/ page = "form" /\ UNCHANGED cards
         \/ /\ PageTurn /\ Head(inbox).kind = "proposal" /\ Readable(Head(inbox)) /\ UNCHANGED <<link, me, page>>
            /\ cards' = [cards EXCEPT ![Head(inbox).id] = Card(Head(inbox).tally)]
         \/ \E i \in Ids, op \in Ops : Alone(Click(i, op))
BY Zenon DEF Next, Server, Browser, Person, World, Alone, Join, Welcome, ReadKey, ReadVote, Announce, Deliver,
   PageTurn, SendTurn, Lose, Broadcast, Hold, Expire, OtherVote, Handle, Hello, Output, Resize, Info, Activity,
   Say, Proposal, Turn, Message, Send, Close, Connect, ImportKey, Submit, Type, WindowResize, Fire

\* A click takes the buttons away, and nothing else of the card.
LEMMA Clicked ==
  ASSUME TypeOK, NEW i \in Ids, NEW op \in Ops, Click(i, op)
  PROVE  /\ cards[i] # NoCard /\ cards'[i] # NoCard /\ cards'[i].tally = cards[i].tally
         /\ \A j \in Ids : j # i => cards'[j] = cards[j]
<1>1. cards[i].there /\ cards' = [cards EXCEPT ![i] = [@ EXCEPT !.row = FALSE]]
  BY DEF Click
<1>2. NoCard.there = FALSE
  BY DEF NoCard
<1>3. cards[i] # NoCard
  BY <1>1, <1>2
<1>4. cards \in [Ids -> Cards]
  BY DEF TypeOK, PageTypeOK
<1>5. cards[i] \in [there : {TRUE}, tally : Tallies, row : BOOLEAN]
  BY <1>3, <1>4 DEF Cards
<1>6. [cards[i] EXCEPT !.row = FALSE].tally = cards[i].tally /\ [cards[i] EXCEPT !.row = FALSE].there = TRUE
  BY <1>5
<1>7. cards'[i] = [cards[i] EXCEPT !.row = FALSE] /\ \A j \in Ids : j # i => cards'[j] = cards[j]
  BY <1>1, <1>4
<1> QED
  BY <1>2, <1>3, <1>6, <1>7

LEMMA OpensStays ==
  ASSUME UNCHANGED <<link, enc>>
  PROVE  Opens' <=> Opens
BY Zenon DEF Opens, HasKey

LEMMA HeardStep ==
  ASSUME TypeOK, Fresh, Carried, Heard, [Next]_vars
  PROVE  Heard'
<1>0. BallotsGrow /\ enc' = enc /\ Pipe \in Seq(Frames) /\ cards \in [Ids -> Cards]
  BY BallotSteps, NameSteps, PipeType DEF TypeOK, PageTypeOK
<1>1. ASSUME NEW i \in Ids, cards[i] # NoCard
      PROVE  Opens /\ pstate'[i] # "none" /\ cards[i].tally.yes \subseteq yes'[i] /\ cards[i].tally.no \subseteq no'[i]
  BY <1>0, <1>1, CountedStays DEF Heard
<1>2. CASE UNCHANGED <<cards, link>>
  BY <1>0, <1>1, <1>2, OpensStays DEF Heard, Counted
<1>3. CASE page = "form" /\ UNCHANGED cards
  BY <1>3 DEF Fresh, Before, Heard
<1>4. CASE /\ PageTurn /\ Head(inbox).kind = "proposal" /\ Readable(Head(inbox)) /\ UNCHANGED <<link, me, page>>
           /\ cards' = [cards EXCEPT ![Head(inbox).id] = Card(Head(inbox).tally)]
  <2> DEFINE f == Head(inbox)
  <2>1. Pipe # << >> /\ Pipe[1] = f
    BY <1>4, PipeTurn
  <2>2. 1 \in 1 .. Len(Pipe)
    BY <1>0, <2>1, EmptySeq
  <2>3. f \in Frames /\ Counted(f.id, f.tally) /\ f.sealed = enc
    BY <1>0, <1>4, <2>1, <2>2, ElementOfSeq DEF Carried
  <2>4. f.id \in Ids
    BY <1>4, <2>3 DEF Frames
  <2>5. Opens
    BY <1>4, <2>3, ReadsIfOpens
  <2>6. Card(f.tally) # NoCard => Card(f.tally).tally = f.tally
    BY DEF Card
  <2>7. pstate'[f.id] # "none" /\ f.tally.yes \subseteq yes'[f.id] /\ f.tally.no \subseteq no'[f.id]
    BY <1>0, <2>3, <2>4, CountedStays
  <2>8. cards' = [cards EXCEPT ![f.id] = Card(f.tally)]
    BY <1>4
  <2> HIDE DEF f
  <2>9. Opens'
    BY <1>0, <1>4, <2>5, OpensStays
  <2>10. ASSUME NEW i \in Ids, cards'[i] # NoCard
         PROVE  pstate'[i] # "none" /\ cards'[i].tally.yes \subseteq yes'[i] /\ cards'[i].tally.no \subseteq no'[i]
    <3>1. CASE i = f.id
      BY <1>0, <2>4, <2>6, <2>7, <2>8, <2>10, <3>1
    <3>2. CASE i # f.id
      BY <1>0, <1>1, <2>8, <2>10, <3>2
    <3> QED
      BY <3>1, <3>2
  <2> QED
    BY <2>9, <2>10 DEF Heard, Counted
<1>5. CASE \E i \in Ids, op \in Ops : Alone(Click(i, op))
  <2>1. PICK i \in Ids, op \in Ops : Click(i, op)
    BY <1>5 DEF Alone
  <2>2. link' = link
    BY <2>1 DEF Click
  <2>3. \A j \in Ids : cards'[j] # NoCard => cards[j] # NoCard /\ cards'[j].tally = cards[j].tally
    BY <2>1, Clicked
  <2> QED
    BY <1>0, <1>1, <2>2, <2>3, OpensStays DEF Heard, Counted
<1> QED
  BY <1>2, <1>3, <1>4, <1>5, CardSteps

-----------------------------------------------------------------------------
(* The keys and votes on their way *)

\* Those that still reach the host: none from the page's chain once it closes the
\* connection.
Keys == IF page \in {"closing", "closed"} THEN wire ELSE wire \o outbox

LEMMA KeysType ==
  ASSUME PageTypeOK, SessionTypeOK
  PROVE  Keys \in Seq(Items) /\ Len(Keys) \in Nat /\ (Keys # << >> => Len(Keys) > 0)
<1>1. wire \in Seq(Items) /\ outbox \in Seq(Items)
  BY DEF PageTypeOK, SessionTypeOK
<1>2. Keys \in Seq(Items)
  BY <1>1, ConcatProperties DEF Keys
<1> QED
  BY <1>2, LenProperties, EmptySeq

LEMMA KeysTypeNext ==
  ASSUME TypeOK, [Next]_vars
  PROVE  Keys' \in Seq(Items) /\ Len(Keys') \in Nat /\ (Keys' # << >> => Len(Keys') > 0)
<1>1. wire' \in Seq(Items) /\ outbox' \in Seq(Items)
  BY NextTypes DEF TypeOK, PageTypeOK, SessionTypeOK
<1>2. Keys' \in Seq(Items)
  BY <1>1, ConcatProperties DEF Keys
<1> QED
  BY <1>2, LenProperties, EmptySeq

\* One more is put on the chain.
LEMMA KeysQueued ==
  ASSUME TypeOK, NEW x \in Items, outbox' = Append(outbox, x), UNCHANGED <<wire, page>>
  PROVE  IF page \in {"closing", "closed"} THEN Keys' = Keys ELSE Grown(Keys, Keys', x)
BY Queued DEF TypeOK, PageTypeOK, SessionTypeOK, Keys

\* The host reads the first one.
LEMMA KeysRead ==
  ASSUME TypeOK, wire # << >>, wire' = Tail(wire), UNCHANGED <<outbox, page>>
  PROVE  Keys # << >> /\ Keys[1] = Head(wire) /\ Popped(Keys, Keys') /\ Len(Keys') = Len(Keys) - 1
<1>1. wire \in Seq(Items) /\ outbox \in Seq(Items) /\ << >> \in Seq(Items)
  BY DEF TypeOK, PageTypeOK, SessionTypeOK
<1>2. CASE page \in {"closing", "closed"}
  <2>1. Keys = wire \o << >> /\ Keys' = Tail(wire) \o << >>
    BY <1>1, <1>2, ConcatEmptySeq, HeadTailProperties DEF Keys
  <2>2. Popped(wire \o << >>, Tail(wire) \o << >>)
    BY <1>1, Taken
  <2> QED
    BY <1>1, <2>1, <2>2, Taken DEF Popped
<1>3. CASE page \notin {"closing", "closed"}
  <2>1. Keys = wire \o outbox /\ Keys' = Tail(wire) \o outbox
    BY <1>3 DEF Keys
  <2>2. Popped(wire \o outbox, Tail(wire) \o outbox)
    BY <1>1, Taken
  <2> QED
    BY <1>1, <2>1, <2>2, Taken DEF Popped
<1> QED
  BY <1>2, <1>3

\* The page sends the first one, or drops it: only one typed before the
\* connection is gone then.
LEMMA KeysSent ==
  ASSUME TypeOK, Fresh, SendTurn
  PROVE  IF page = "connecting"
           THEN Keys # << >> /\ Popped(Keys, Keys') /\ Len(Keys') = Len(Keys) - 1
           ELSE Keys' = Keys
<1>1. wire \in Seq(Items) /\ outbox \in Seq(Items) /\ << >> \in Seq(Items) /\ page \in Pages
  BY DEF TypeOK, PageTypeOK, SessionTypeOK
<1>2. outbox # << >> /\ outbox' = Tail(outbox) /\ page' = page
  BY DEF SendTurn, Send
<1>3. wire' = IF page = "open" THEN Append(wire, Head(outbox)) ELSE wire
  BY DEF SendTurn, Sent
<1>4. CASE page = "open"
  BY <1>1, <1>2, <1>3, <1>4, Passed DEF Keys
<1>5. CASE page \in {"closing", "closed"}
  BY <1>2, <1>3, <1>5 DEF Keys
<1>6. CASE page = "connecting"
  <2>1. wire = << >>
    BY <1>6 DEF Fresh, Before
  <2>2. Keys = outbox \o << >> /\ Keys' = Tail(outbox) \o << >>
    BY <1>1, <1>2, <1>3, <1>6, <2>1, ConcatEmptySeq, HeadTailProperties DEF Keys
  <2>3. Popped(outbox \o << >>, Tail(outbox) \o << >>)
    BY <1>1, <1>2, Taken
  <2> QED
    BY <1>1, <1>2, <1>6, <2>2, <2>3, Taken DEF Popped
<1>7. page \in {"open", "closing", "closed", "connecting"}
  BY <1>1, <1>2 DEF Fresh, Before, Pages
<1> QED
  BY <1>4, <1>5, <1>6, <1>7

\* The connection is closed.
LEMMA KeysLost ==
  ASSUME TypeOK, page' \in {"closing", "closed"}, NEW n \in 0 .. Len(wire), wire' = SubSeq(wire, 1, n)
  PROVE  Cut(Keys, Keys')
<1>1. wire \in Seq(Items) /\ outbox \in Seq(Items) /\ << >> \in Seq(Items)
  BY DEF TypeOK, PageTypeOK, SessionTypeOK
<1>2. Keys' = SubSeq(wire, 1, n)
  BY DEF Keys
<1>3. Keys = wire \o outbox \/ Keys = wire \o << >>
  BY <1>1, ConcatEmptySeq DEF Keys
<1> QED
  BY <1>1, <1>2, <1>3, Lost

\* A key that the page types, a vote that it clicks.
Input == [kind |-> "input", n |-> typed + 1]
Vote(i, op) == [kind |-> "vote", id |-> i, op |-> op, voter |-> me]

\* How the keys and votes on their way move in a step.
Queues(x) == IF page \in {"closing", "closed"} THEN Keys' = Keys ELSE Grown(Keys, Keys', x)
Reads == Keys # << >> /\ Popped(Keys, Keys') /\ Len(Keys') = Len(Keys) - 1 /\ UNCHANGED <<page, first, typed>>
Stays == Keys' = Keys /\ UNCHANGED <<first, typed, got>> /\ (page' = page \/ (page \in Before /\ page' \in Before \cup {"open"}))

LEMMA KeySteps ==
  ASSUME TypeOK, Fresh, [Next]_vars
  PROVE  \/ Alone(Type) /\ Queues(Input) /\ Input \in Items
         \/ \E i \in Ids, op \in Ops : Alone(Click(i, op)) /\ Queues(Vote(i, op)) /\ Vote(i, op) \in Items
         \/ (ReadKey \/ ReadVote) /\ Reads /\ Keys[1] = Head(wire)
         \/ SendTurn /\ page = "connecting" /\ Reads /\ got' = got
         \/ Cut(Keys, Keys') /\ page' \in {"closing", "closed"} /\ UNCHANGED <<first, typed, got>>
         \/ Stays
<1>0. wire \in Seq(Items) /\ outbox \in Seq(Items) /\ Len(wire) \in Nat
  BY LenProperties DEF TypeOK, PageTypeOK, SessionTypeOK
<1>1. CASE Alone(Type)
  <2>1. Input \in Items
    BY DEF TypeOK, PageTypeOK, Input, Items
  <2>2. outbox' = Append(outbox, Input) /\ UNCHANGED <<wire, page>>
    BY <1>1 DEF Alone, Type, Queue, Input
  <2> QED
    BY <1>1, <2>1, <2>2, KeysQueued DEF Queues
<1>2. CASE \E i \in Ids, op \in Ops : Alone(Click(i, op))
  <2>1. PICK i \in Ids, op \in Ops : Alone(Click(i, op))
    BY <1>2
  <2>2. Vote(i, op) \in Items
    BY DEF TypeOK, PageTypeOK, Vote, Items
  <2>3. outbox' = Append(outbox, Vote(i, op)) /\ UNCHANGED <<wire, page>>
    BY <2>1 DEF Alone, Click, Queue, Vote
  <2> QED
    BY <2>1, <2>2, <2>3, KeysQueued DEF Queues
<1>3. CASE ReadKey \/ ReadVote
  <2>1. wire # << >> /\ wire' = Tail(wire) /\ UNCHANGED <<outbox, page, first, typed>>
    BY <1>3 DEF ReadKey, ReadVote
  <2> QED
    BY <1>3, <2>1, KeysRead DEF Reads
<1>4. CASE SendTurn
  <2>1. UNCHANGED <<page, first, typed, got>>
    BY <1>4 DEF SendTurn, Send
  <2> QED
    BY <1>4, <2>1, KeysSent DEF Reads, Stays
<1>5. CASE PageTurn
  <2>1. page' = page \/ page' = "closing"
    BY <1>5, Zenon DEF PageTurn, Handle, Hello, Output, Resize, Info, Activity, Say, Proposal, Fail
  <2>2. UNCHANGED <<wire, outbox, first, typed, got>>
    BY <1>5 DEF PageTurn, Handle, Hello, Output, Resize, Info, Activity, Say, Proposal, Turn
  <2>3. CASE page' = page
    BY <2>2, <2>3 DEF Stays, Keys
  <2>4. CASE page' = "closing"
    <3>1. wire' = SubSeq(wire, 1, Len(wire)) /\ Len(wire) \in 0 .. Len(wire)
      BY <1>0, <2>2, SubSeqFull
    <3> QED
      BY <2>2, <2>4, <3>1, KeysLost
  <2> QED
    BY <2>1, <2>3, <2>4
<1>6. CASE Lose
  <2>1. page' = "closed" /\ UNCHANGED <<first, typed, got>> /\ \E n \in 0 .. Len(wire) : wire' = SubSeq(wire, 1, n)
    BY <1>6 DEF Lose, Close
  <2> QED
    BY <2>1, KeysLost
<1>7. CASE UNCHANGED <<wire, outbox, first, typed, got>> /\ (page' = page \/ (page \in Before /\ page' \in Before \cup {"open"}))
  BY <1>7 DEF Stays, Keys, Before
<1>8. \/ Alone(Type) \/ (\E i \in Ids, op \in Ops : Alone(Click(i, op))) \/ ReadKey \/ ReadVote
      \/ SendTurn \/ PageTurn \/ Lose
      \/ UNCHANGED <<wire, outbox, first, typed, got>> /\ (page' = page \/ (page \in Before /\ page' \in Before \cup {"open"}))
  BY Zenon DEF Next, Server, Browser, Person, World, Alone, Join, Welcome, Announce, Deliver, Message, Broadcast,
     Hold, Expire, OtherVote, ImportKey, Submit, Opened, WindowResize, Connect, Fire, Before
<1> QED
  BY <1>1, <1>2, <1>3, <1>4, <1>5, <1>6, <1>7, <1>8

-----------------------------------------------------------------------------
(* Buttons and votes *)

\* Before the page has handled the welcome there is no card, and afterwards it has
\* the name that it has in the session.
Introduced ==
  /\ seat # "welcome" \/ HelloPending => \A i \in Ids : cards[i] = NoCard /\ first[i] = "none"
  /\ page = "open" /\ seat = "welcome" /\ ~HelloPending => me = named

\* Who could vote and has no buttons has clicked.
Buttons ==
  /\ \A i \in Ids : first[i] # "none" => pstate[i] # "none"
  /\ page = "open" => \A i \in Ids : cards[i] # NoCard /\ Undecided(i) => cards[i].row \/ first[i] # "none"

VoteFor(x, i) == x.kind = "vote" /\ x.id = i

\* The votes on their way are the page's, the first one for a proposal is the
\* button that was clicked first, and it is on its way until it counts.
Votes ==
  /\ \A k \in 1 .. Len(Keys) : Keys[k].kind = "vote" => Mine(Keys[k]) /\ first[Keys[k].id] # "none"
  /\ \A k \in 1 .. Len(Keys), i \in Ids :
       VoteFor(Keys[k], i) /\ Undecided(i) /\ (\A j \in 1 .. k - 1 : ~VoteFor(Keys[j], i)) => Keys[k].op = first[i]
  /\ page = "open" => \A i \in Ids : Undecided(i) /\ first[i] # "none" => \E k \in 1 .. Len(Keys) : VoteFor(Keys[k], i)

\* What a step does to the welcome under way.
LEMMA HelloSteps ==
  ASSUME TypeOK, Fresh, HelloFirst, [Next]_vars
  PROVE  /\ HelloPending' => HelloPending \/ Welcome
         /\ HelloPending => HelloPending' \/ PageTurn \/ Lose
         /\ Welcome /\ page = "open" => HelloPending' \/ Pipe # << >>
         /\ PageTurn => ~HelloPending'
<1>0. Pipe \in Seq(Frames) /\ Len(Pipe) \in Nat /\ (Pipe # << >> => Len(Pipe) > 0)
  BY PipeType, EmptySeq
<1>1. Pipe' \in Seq(Frames) /\ Len(Pipe') \in Nat /\ (Pipe' # << >> => Len(Pipe') > 0)
  BY PipeTypeNext
<1>2. ASSUME PageTurn PROVE ~HelloPending'
  <2>1. Popped(Pipe, Pipe')
    BY <1>2, PipeTurn
  <2> QED
    BY <1>0, <1>1, <2>1 DEF Popped, HelloPending, HelloFirst
<1>3. ASSUME Lose, HelloPending' PROVE HelloPending
  <2>1. Cut(Pipe, Pipe')
    BY <1>3, PipeMove
  <2> QED
    BY <1>0, <1>1, <1>3, <2>1 DEF Cut, HelloPending
<1>4. ASSUME Sends PROVE HelloPending' <=> HelloPending
  <2>1. PICK f \in Frames : Sending(f) /\ Grown(Pipe, Pipe', f)
    BY <1>4 DEF Sends
  <2>2. f.kind # "hello"
    BY <2>1 DEF Sending
  <2>3. Pipe' # << >>
    BY <1>0, <2>1 DEF Grown
  <2>4. CASE Pipe = << >>
    <3>1. Len(Pipe') = 1 /\ Pipe'[1] = f
      BY <1>0, <2>1, <2>4 DEF Grown
    <3> QED
      BY <2>2, <2>4, <3>1 DEF HelloPending
  <2>5. CASE Pipe # << >>
    <3>1. Pipe'[1] = Pipe[1]
      BY <1>0, <2>1, <2>5 DEF Grown
    <3> QED
      BY <2>3, <2>5, <3>1 DEF HelloPending
  <2> QED
    BY <2>4, <2>5
<1>5. ASSUME Silent PROVE HelloPending' <=> HelloPending
  BY <1>5 DEF Silent, HelloPending
<1>6. ASSUME Welcome, page = "open" PROVE HelloPending' \/ Pipe # << >>
  <2>1. PICK f \in Frames : Greets(f)
    BY <1>6, PipeGreeted
  <2>2. Grown(Pipe, Pipe', f) /\ f.kind = "hello"
    BY <1>6, <2>1 DEF Greets
  <2>3. ASSUME Pipe = << >> PROVE Len(Pipe') = 1 /\ Pipe'[1] = f /\ Pipe' # << >>
    BY <1>0, <2>2, <2>3 DEF Grown
  <2> QED
    BY <2>2, <2>3 DEF HelloPending
<1>7. ASSUME Welcome, HelloPending PROVE HelloPending'
  <2>1. PICK f \in Frames : Greets(f)
    BY <1>7, PipeGreeted
  <2> QED
    BY <1>0, <1>7, <2>1 DEF Greets, Grown, HelloPending
<1> QED
  BY <1>2, <1>3, <1>4, <1>5, <1>6, <1>7, PipeSteps

LEMMA NameTaken ==
  ASSUME [Next]_vars
  PROVE  \/ UNCHANGED me
         \/ page = "form"
         \/ PageTurn /\ Head(inbox).kind = "hello" /\ me' = Head(inbox).name
BY Zenon DEF Next, Server, Browser, Person, World, Alone, Join, Welcome, ReadKey, ReadVote, Announce, Deliver,
   PageTurn, SendTurn, Lose, Broadcast, Hold, Expire, OtherVote, Handle, Hello, Welcomed, Output, Resize, Info, Activity,
   Say, Proposal, Turn, Message, Send, Close, Connect, ImportKey, Type, Click, Submit, WindowResize, Fire

LEMMA HelloTurn ==
  ASSUME PageTurn, Head(inbox).kind = "hello", page = "open", page' = "open"
  PROVE  me' = Head(inbox).name
BY DEF PageTurn, Handle, Hello, Welcomed, Fail, Output, Resize, Info, Activity, Say, Proposal, Turn

LEMMA SeatSteps ==
  ASSUME [Next]_vars
  PROVE  /\ seat' = seat \/ (Join /\ seat = "out") \/ (Welcome /\ seat = "joined" /\ page' = page)
         /\ page' = page \/ page \in Before \/ page' # "open"
BY Zenon DEF Next, Server, Browser, Person, World, Alone, Join, Welcome, ReadKey, ReadVote, Announce, Deliver, Message,
   PageTurn, Handle, Hello, Output, Resize, Info, Activity, Say, Proposal, Fail, SendTurn, Send, Lose, Close, Broadcast,
   Hold, Expire, OtherVote, ImportKey, Submit, Type, Click, WindowResize, Connect, Fire, Before

LEMMA FirstSteps ==
  ASSUME TypeOK, [Next]_vars
  PROVE  /\ \A i \in Ids : first[i] # "none" => first'[i] = first[i]
         /\ \/ first' = first
            \/ \E i \in Ids, op \in Ops : Alone(Click(i, op))
<1>1. \/ first' = first
      \/ \E i \in Ids, op \in Ops : Alone(Click(i, op))
  BY Zenon DEF Next, Server, Browser, Person, World, Alone, Join, Welcome, ReadKey, ReadVote, Announce, Deliver, Message,
     PageTurn, Handle, Hello, Output, Resize, Info, Activity, Say, Proposal, Turn, SendTurn, Send, Lose, Close, Broadcast,
     Hold, Expire, OtherVote, ImportKey, Submit, Type, WindowResize, Connect, Fire
<1>2. CASE \E i \in Ids, op \in Ops : Alone(Click(i, op))
  <2>1. PICK i \in Ids, op \in Ops : Click(i, op)
    BY <1>2 DEF Alone
  <2>2. first' = IF first[i] = "none" THEN [first EXCEPT ![i] = op] ELSE first
    BY <2>1 DEF Click
  <2> QED
    BY <1>2, <2>2 DEF TypeOK, PageTypeOK
<1> QED
  BY <1>1, <1>2

LEMMA IntroducedStep ==
  ASSUME TypeOK, Fresh, HelloFirst, Carried, Introduced, [Next]_vars, ~early'
  PROVE  Introduced'
<1>0. Pipe \in Seq(Frames) /\ (Pipe # << >> => Len(Pipe) > 0) /\ SessionTypeOK
  BY PipeType, EmptySeq DEF TypeOK
<1>1. ASSUME seat' # "welcome" \/ HelloPending', NEW i \in Ids
      PROVE  cards'[i] = NoCard /\ first'[i] = "none"
  <2>0. Welcome => seat = "joined"
    BY DEF Welcome
  <2>1. seat # "welcome" \/ HelloPending
    BY <1>1, <2>0, HelloSteps, SeatSteps
  <2>2. \A j \in Ids : cards[j] = NoCard /\ first[j] = "none"
    BY <2>1 DEF Introduced
  <2>3. ~ \E j \in Ids, op \in Ops : Alone(Click(j, op))
    BY <2>2, Clicked DEF Alone
  <2>4. first' = first
    BY <2>3, FirstSteps
  <2>5. PageTurn => seat = "welcome" /\ seat' = seat /\ ~HelloPending'
    BY PipeTurn, HelloSteps DEF HelloFirst, PageTurn
  <2>6. cards' = cards
    BY <1>1, <2>3, <2>5, CardSteps
  <2> QED
    BY <2>2, <2>4, <2>6
<1>2. ASSUME page' = "open", seat' = "welcome", ~HelloPending'
      PROVE  me' = named'
  <2>1. page = "open"
    <3>1. page \in Before => seat = "out" /\ ~Join
      BY DEF Fresh, Before, Join
    <3> QED
      BY <1>2, <3>1, SeatSteps
  <2>2. seat = "welcome" /\ ~Join
    <3>1. seat # "welcome" => Pipe = << >>
      BY DEF HelloFirst
    <3>2. ~(Welcome /\ seat = "joined")
      BY <1>2, <2>1, <3>1, HelloSteps
    <3>3. Join => seat' = "joined"
      BY DEF Join
    <3> QED
      BY <1>2, <3>2, <3>3, SeatSteps
  <2>3. named' = named
    BY <2>2, NameSteps
  <2>4. CASE HelloPending
    <3>1. PageTurn
      <4>1. Lose => page' = "closed"
        BY DEF Lose, Close
      <4> QED
        BY <1>2, <2>4, <4>1, HelloSteps
    <3>2. Pipe # << >> /\ Pipe[1] = Head(inbox) /\ Head(inbox).kind = "hello"
      BY <2>4, <3>1, PipeTurn DEF HelloPending
    <3>3. 1 \in 1 .. Len(Pipe)
      BY <1>0, <3>2
    <3>4. Head(inbox).name = named
      BY <3>2, <3>3 DEF Carried
    <3> QED
      BY <1>2, <2>1, <2>3, <3>1, <3>2, <3>4, HelloTurn
  <2>5. CASE ~HelloPending
    <3>1. me = named
      BY <2>1, <2>2, <2>5 DEF Introduced
    <3>2. ~(PageTurn /\ Head(inbox).kind = "hello")
      BY <2>5, PipeTurn DEF HelloPending
    <3> QED
      BY <2>1, <2>3, <3>1, <3>2, NameTaken
  <2> QED
    BY <2>4, <2>5
<1> QED
  BY <1>1, <1>2 DEF Introduced

\* Only a new proposal comes to be undecided.
LEMMA UndecidedSteps ==
  ASSUME TypeOK, [Next]_vars, ~Join, NEW i \in Ids, pstate[i] # "none", Undecided(i)'
  PROVE  Undecided(i)
<1>1. BallotsGrow /\ named' = named
  BY BallotSteps, NameSteps DEF TypeOK
<1> QED
  BY <1>1 DEF BallotsGrow, Undecided

LEMMA ButtonsStep ==
  ASSUME TypeOK, Fresh, HelloFirst, Carried, Heard, Introduced, Buttons, [Next]_vars
  PROVE  Buttons'
<1>0. BallotsGrow /\ Pipe \in Seq(Frames) /\ (Pipe # << >> => Len(Pipe) > 0) /\ cards \in [Ids -> Cards]
  BY BallotSteps, PipeType, EmptySeq DEF TypeOK, PageTypeOK
<1>1. ASSUME NEW i \in Ids, first'[i] # "none"
      PROVE  pstate'[i] # "none"
  <2>1. CASE first[i] # "none"
    BY <1>0, <2>1 DEF Buttons, BallotsGrow
  <2>2. CASE first[i] = "none"
    <3>1. PICK j \in Ids, op \in Ops : Click(j, op)
      BY <1>1, <2>2, FirstSteps DEF Alone
    <3>2. first' = IF first[j] = "none" THEN [first EXCEPT ![j] = op] ELSE first
      BY <3>1 DEF Click
    <3>3. i = j
      BY <1>1, <2>2, <3>2 DEF TypeOK, PageTypeOK
    <3>4. cards[i] # NoCard
      BY <3>1, <3>3, Clicked
    <3> QED
      BY <1>0, <3>4 DEF Heard, Counted, BallotsGrow
  <2> QED
    BY <2>1, <2>2
<1>2. ASSUME page' = "open", NEW i \in Ids, cards'[i] # NoCard, Undecided(i)'
      PROVE  cards'[i].row \/ first'[i] # "none"
  <2>1. ASSUME cards'[i] = cards[i]
        PROVE  cards'[i].row \/ first'[i] # "none"
    <3>1. page \notin Before /\ page = "open"
      <4>1. page \in Before => cards[i] = NoCard
        BY DEF Fresh
      <4> QED
        BY <1>2, <2>1, <4>1, SeatSteps
    <3>2. ~Join
      <4>1. seat # "out"
        BY <1>2, <2>1 DEF Introduced
      <4> QED
        BY <4>1 DEF Join
    <3>3. pstate[i] # "none"
      BY <1>2, <2>1 DEF Heard, Counted
    <3>4. Undecided(i)
      BY <1>2, <3>2, <3>3, UndecidedSteps
    <3>5. cards[i].row \/ first[i] # "none"
      BY <1>2, <2>1, <3>1, <3>4 DEF Buttons
    <3> QED
      BY <2>1, <3>5, FirstSteps
  <2>2. CASE /\ PageTurn /\ Head(inbox).kind = "proposal" /\ Readable(Head(inbox)) /\ UNCHANGED <<link, me, page>>
             /\ cards' = [cards EXCEPT ![Head(inbox).id] = Card(Head(inbox).tally)]
    <3> DEFINE f == Head(inbox)
    <3>1. Pipe # << >> /\ Pipe[1] = f
      BY <2>2, PipeTurn
    <3>2. 1 \in 1 .. Len(Pipe)
      BY <1>0, <3>1
    <3>3. f \in Frames /\ Counted(f.id, f.tally)
      BY <1>0, <2>2, <3>1, <3>2, ElementOfSeq DEF Carried
    <3>4. f.id \in Ids
      BY <2>2, <3>3 DEF Frames
    <3>5. me = named
      <4>1. seat = "welcome"
        BY <3>1 DEF HelloFirst
      <4>2. ~HelloPending
        BY <2>2, <3>1 DEF HelloPending
      <4> QED
        BY <1>2, <2>2, <4>1, <4>2 DEF Introduced
    <3>6. UNCHANGED <<named, ballots>>
      BY <2>2 DEF PageTurn
    <3>7. CASE i = f.id
      <4>1. cards'[i] = Card(f.tally)
        BY <1>0, <2>2, <3>7
      <4>2. named \in Approvers \ (yes[i] \cup no[i])
        BY <1>2, <3>6 DEF Undecided
      <4>3. me \in Approvers \ (f.tally.yes \cup f.tally.no)
        BY <3>3, <3>5, <3>7, <4>2 DEF Counted
      <4>4. Card(f.tally) # NoCard => Card(f.tally).row = (me \in Approvers \ (f.tally.yes \cup f.tally.no))
        BY Zenon DEF Card
      <4> QED
        BY <1>2, <4>1, <4>3, <4>4
    <3>8. CASE i # f.id
      BY <1>0, <2>1, <2>2, <3>8
    <3> QED
      BY <3>7, <3>8
  <2>3. CASE \E j \in Ids, op \in Ops : Alone(Click(j, op))
    <3>1. PICK j \in Ids, op \in Ops : Click(j, op)
      BY <2>3 DEF Alone
    <3>2. CASE i = j
      <4>1. first' = IF first[i] = "none" THEN [first EXCEPT ![i] = op] ELSE first
        BY <3>1, <3>2 DEF Click
      <4>2. op # "none"
        BY DEF Ops
      <4> QED
        BY <4>1, <4>2 DEF TypeOK, PageTypeOK
    <3>3. CASE i # j
      BY <2>1, <3>1, <3>3, Clicked
    <3> QED
      BY <3>2, <3>3
  <2> QED
    BY <2>1, <2>2, <2>3, CardSteps
<1> QED
  BY <1>1, <1>2 DEF Buttons

\* A vote that the host has read counts, or could not have counted.
LEMMA ReadDecides ==
  ASSUME TypeOK, ReadVote, NEW x, x = Head(wire), Mine(x)
  PROVE  ~Undecided(x.id)'
<1>1. wire # << >> /\ x.kind = "vote" /\ named' = named
  BY DEF ReadVote
<1>2. x \in Items
  BY <1>1 DEF TypeOK, SessionTypeOK
<1>3. x.id \in Ids /\ x.op \in Ops
  BY <1>1, <1>2 DEF Items
<1>4. CASE Counts(x) /\ Count(x.id, named, x.op)
  <2>1. named \in yes'[x.id] \cup no'[x.id]
    BY <1>4 DEF Count
  <2> QED
    BY <1>1, <2>1 DEF Undecided
<1>5. CASE ~Counts(x) /\ UNCHANGED ballots
  <2>1. ~(named \in Approvers /\ x.id \in B!Pending /\ named \notin yes[x.id] \cup no[x.id])
    BY <1>5 DEF Counts
  <2>2. ~Undecided(x.id)
    BY <1>3, <2>1 DEF Undecided, B!Pending, B!Ids, Ids
  <2> QED
    BY <1>1, <1>5, <2>2 DEF Undecided
<1> QED
  BY <1>4, <1>5, Zenon DEF ReadVote

\* A vote of the page stays one.
LEMMA MineStays ==
  ASSUME TypeOK, Fresh, HelloFirst, Introduced, [Next]_vars,
         NEW x \in Items, x.kind = "vote", Mine(x), first[x.id] # "none"
  PROVE  Mine(x)' /\ first'[x.id] = first[x.id] /\ ~Join
<1>1. x.id \in Ids
  BY DEF Items
<1>2. page \notin Before
  BY <1>1 DEF Fresh
<1>3. ~Join
  <2>1. seat # "out"
    BY <1>1 DEF Introduced
  <2> QED
    BY <2>1 DEF Join
<1>4. link' = link
  <2>1. page # "form"
    BY <1>2 DEF Before
  <2> QED
    BY <2>1, Zenon DEF Next, Server, Browser, Person, World, Alone, Join, Welcome, ReadKey, ReadVote, Announce, Deliver,
       PageTurn, SendTurn, Lose, Broadcast, Hold, Expire, OtherVote, Handle, Hello, Output, Resize, Info, Activity,
       Say, Proposal, Turn, Message, Send, Close, Connect, ImportKey, Submit, Type, Click, WindowResize, Fire
<1>5. enc' = enc /\ named' = named
  BY <1>3, NameSteps
<1>6. Opens' <=> Opens
  BY <1>4, <1>5, OpensStays
<1>7. Mine(x)'
  BY <1>5, <1>6 DEF Mine
<1> QED
  BY <1>1, <1>3, <1>7, FirstSteps

\* The votes that are on their way after a step: one of those that were, or the
\* one that is clicked.
LEMMA VotesFrom ==
  ASSUME TypeOK, Fresh, [Next]_vars, NEW k \in 1 .. Len(Keys'), Keys'[k].kind = "vote"
  PROVE  \/ \E j \in 1 .. Len(Keys) : Keys[j] = Keys'[k]
         \/ \E i \in Ids, op \in Ops : Alone(Click(i, op)) /\ page \notin {"closing", "closed"} /\ Keys'[k] = Vote(i, op)
<1>0. Len(Keys) \in Nat /\ Len(Keys') \in Nat
  BY KeysType, KeysTypeNext DEF TypeOK
<1>1. CASE Alone(Type) /\ Queues(Input)
  <2>1. CASE Keys' = Keys
    BY <2>1
  <2>2. CASE Grown(Keys, Keys', Input)
    <3>1. Input.kind = "input"
      BY DEF Input
    <3> QED
      BY <1>0, <2>2, <3>1 DEF Grown
  <2> QED
    BY <1>1, <2>1, <2>2 DEF Queues
<1>2. CASE \E i \in Ids, op \in Ops : Alone(Click(i, op)) /\ Queues(Vote(i, op))
  <2>1. PICK i \in Ids, op \in Ops : Alone(Click(i, op)) /\ Queues(Vote(i, op))
    BY <1>2
  <2>2. CASE Keys' = Keys
    BY <2>2
  <2>3. CASE page \notin {"closing", "closed"} /\ Grown(Keys, Keys', Vote(i, op))
    BY <1>0, <2>1, <2>3 DEF Grown
  <2> QED
    BY <2>1, <2>2, <2>3 DEF Queues
<1>3. CASE Reads
  <2>1. k + 1 \in 1 .. Len(Keys) /\ Keys'[k] = Keys[k + 1]
    BY <1>0, <1>3 DEF Reads, Popped
  <2> QED
    BY <2>1
<1>4. CASE Cut(Keys, Keys')
  BY <1>0, <1>4 DEF Cut
<1>5. CASE Stays
  BY <1>5 DEF Stays
<1> QED
  BY <1>1, <1>2, <1>3, <1>4, <1>5, KeySteps

\* A button that is there is one of the page's own, in the session and with its key.
LEMMA ClickMine ==
  ASSUME TypeOK, Fresh, Heard, Introduced, NEW i \in Ids, NEW op \in Ops, Alone(Click(i, op)),
         page \notin {"closing", "closed"}
  PROVE  page = "open" /\ me = named /\ Opens /\ UNCHANGED <<link, enc, named, ballots>>
<1>1. cards[i] # NoCard
  BY Clicked DEF Alone
<1>2. page = "open"
  <2>1. page \notin Before /\ page \in Pages
    BY <1>1 DEF Fresh, TypeOK, PageTypeOK
  <2> QED
    BY <2>1 DEF Before, Pages
<1>3. me = named
  BY <1>1, <1>2 DEF Introduced
<1>4. Opens
  BY <1>1 DEF Heard
<1>5. UNCHANGED <<link, enc, named, ballots>>
  BY DEF Alone, Click
<1> QED
  BY <1>2, <1>3, <1>4, <1>5

LEMMA VotesAreMine ==
  ASSUME TypeOK, Fresh, HelloFirst, Heard, Introduced, Votes, [Next]_vars,
         NEW k \in 1 .. Len(Keys'), NEW x, x = Keys'[k], x.kind = "vote"
  PROVE  Mine(x)' /\ first'[x.id] # "none"
<1>0. Len(Keys) \in Nat /\ Keys \in Seq(Items)
  BY KeysType DEF TypeOK
<1>1. CASE \E j \in 1 .. Len(Keys) : Keys[j] = x
  <2>1. x \in Items /\ Mine(x) /\ first[x.id] # "none"
    BY <1>0, <1>1, ElementOfSeq DEF Votes
  <2> QED
    BY <2>1, MineStays
<1>2. CASE \E i \in Ids, op \in Ops : Alone(Click(i, op)) /\ page \notin {"closing", "closed"} /\ x = Vote(i, op)
  <2>1. PICK i \in Ids, op \in Ops : Alone(Click(i, op)) /\ page \notin {"closing", "closed"} /\ x = Vote(i, op)
    BY <1>2
  <2>2. x.voter = me /\ x.id = i
    BY <2>1 DEF Vote
  <2>3. me = named /\ Opens' /\ named' = named
    BY <2>1, ClickMine, OpensStays
  <2>4. Mine(x)'
    BY <2>2, <2>3 DEF Mine
  <2>5. first' = IF first[i] = "none" THEN [first EXCEPT ![i] = op] ELSE first
    BY <2>1 DEF Alone, Click
  <2>6. op # "none"
    BY DEF Ops
  <2> QED
    BY <2>2, <2>4, <2>5, <2>6 DEF TypeOK, PageTypeOK
<1> QED
  BY <1>1, <1>2, VotesFrom

\* The first vote for a proposal that is undecided after the step.
LEMMA FirstVotes ==
  ASSUME TypeOK, Fresh, HelloFirst, Heard, Introduced, Buttons, Votes, [Next]_vars,
         NEW k \in 1 .. Len(Keys'), NEW i \in Ids, VoteFor(Keys'[k], i), Undecided(i)',
         \A j \in 1 .. k - 1 : ~VoteFor(Keys'[j], i)
  PROVE  Keys'[k].op = first'[i]
<1>0. Len(Keys) \in Nat /\ Keys \in Seq(Items) /\ Len(Keys') \in Nat
  BY KeysType, KeysTypeNext DEF TypeOK
<1>1. ASSUME NEW j \in 1 .. Len(Keys), Keys[j] = Keys'[k], \A m \in 1 .. j - 1 : ~VoteFor(Keys[m], i)
      PROVE  Keys'[k].op = first'[i]
  <2>1. Keys[j].kind = "vote" /\ Keys[j].id = i /\ Keys[j] \in Items
    BY <1>0, <1>1, ElementOfSeq DEF VoteFor
  <2>2. Mine(Keys[j]) /\ first[i] # "none"
    BY <2>1 DEF Votes
  <2>3. first'[i] = first[i] /\ ~Join
    BY <2>1, <2>2, MineStays
  <2>4. Undecided(i)
    BY <2>2, <2>3, UndecidedSteps DEF Buttons
  <2> QED
    BY <1>1, <2>3, <2>4 DEF Votes
<1>2. CASE Keys' = Keys \/ Cut(Keys, Keys')
  <2>1. k \in 1 .. Len(Keys) /\ \A j \in 1 .. k : Keys'[j] = Keys[j]
    BY <1>0, <1>2 DEF Cut
  <2> QED
    BY <1>1, <2>1
<1>3. CASE Alone(Type) /\ Queues(Input)
  <2>1. CASE Grown(Keys, Keys', Input)
    <3>1. Input.kind # "vote"
      BY DEF Input
    <3>2. k \in 1 .. Len(Keys) /\ \A j \in 1 .. k : Keys'[j] = Keys[j]
      BY <1>0, <2>1, <3>1 DEF Grown, VoteFor
    <3> QED
      BY <1>1, <3>2
  <2> QED
    BY <1>2, <1>3, <2>1 DEF Queues
<1>4. CASE \E c \in Ids, op \in Ops : Alone(Click(c, op)) /\ Queues(Vote(c, op))
  <2>1. PICK c \in Ids, op \in Ops : Alone(Click(c, op)) /\ Queues(Vote(c, op))
    BY <1>4
  <2>2. CASE page \notin {"closing", "closed"} /\ Grown(Keys, Keys', Vote(c, op))
    <3>1. CASE k # Len(Keys')
      <4>1. k \in 1 .. Len(Keys) /\ \A j \in 1 .. k : Keys'[j] = Keys[j]
        BY <1>0, <2>2, <3>1 DEF Grown
      <4> QED
        BY <1>1, <4>1
    <3>2. CASE k = Len(Keys')
      <4>1. Keys'[k] = Vote(c, op) /\ c = i /\ Keys'[k].op = op
        BY <2>2, <3>2 DEF Grown, Vote, VoteFor
      <4>2. \A j \in 1 .. Len(Keys) : ~VoteFor(Keys[j], i)
        BY <1>0, <2>2, <3>2 DEF Grown
      <4>3. Undecided(i)
        BY <2>1, <2>2, ClickMine DEF Undecided
      <4>4. first[i] = "none"
        BY <2>1, <2>2, <4>2, <4>3, ClickMine DEF Votes
      <4>5. first' = [first EXCEPT ![i] = op]
        BY <2>1, <4>1, <4>4 DEF Alone, Click
      <4> QED
        BY <4>1, <4>5 DEF TypeOK, PageTypeOK
    <3> QED
      BY <3>1, <3>2
  <2> QED
    BY <1>2, <2>1, <2>2 DEF Queues
<1>5. CASE Reads /\ ~VoteFor(Keys[1], i)
  <2>1. k + 1 \in 1 .. Len(Keys) /\ \A j \in 1 .. k : Keys'[j] = Keys[j + 1]
    BY <1>0, <1>5 DEF Reads, Popped
  <2>2. ASSUME NEW m \in 1 .. k PROVE ~VoteFor(Keys[m], i)
    <3>1. CASE m = 1
      BY <1>5, <3>1
    <3>2. CASE m # 1
      <4>1. m - 1 \in 1 .. k - 1 /\ m - 1 \in 1 .. k /\ (m - 1) + 1 = m
        BY <3>2
      <4>2. Keys'[m - 1] = Keys[m]
        BY <2>1, <4>1
      <4> QED
        BY <4>1, <4>2
    <3> QED
      BY <3>1, <3>2
  <2> QED
    BY <1>1, <2>1, <2>2
<1>6. CASE Reads /\ VoteFor(Keys[1], i)
  <2>1. 1 \in 1 .. Len(Keys) /\ Keys[1].kind = "vote" /\ Keys[1].id = i
    BY <1>0, <1>6, EmptySeq DEF Reads, VoteFor
  <2>2. Mine(Keys[1]) /\ first[i] # "none"
    BY <2>1 DEF Votes
  <2>3. page # "connecting"
    BY <2>2 DEF Fresh, Before
  <2>4. ASSUME (ReadKey \/ ReadVote) /\ Keys[1] = Head(wire) PROVE FALSE
    <3>1. ReadVote
      BY <2>1, <2>4 DEF ReadKey
    <3>2. PICK x : x = Head(wire)
      OBVIOUS
    <3>3. Mine(x) /\ x.id = i
      BY <2>1, <2>2, <2>4, <3>2
    <3> QED
      BY <3>1, <3>2, <3>3, ReadDecides
  <2>5. CASE Alone(Type) /\ Queues(Input)
    BY <1>3, <2>5
  <2>6. CASE \E c \in Ids, op \in Ops : Alone(Click(c, op)) /\ Queues(Vote(c, op))
    BY <1>4, <2>6
  <2>7. CASE Keys' = Keys \/ Cut(Keys, Keys')
    BY <1>2, <2>7
  <2> QED
    BY <2>3, <2>4, <2>5, <2>6, <2>7, KeySteps DEF Stays
<1> QED
  BY <1>2, <1>3, <1>4, <1>5, <1>6, KeySteps DEF Stays

\* A button that was clicked keeps a vote on its way while it can count.
LEMMA VotesOnTheirWay ==
  ASSUME TypeOK, Fresh, HelloFirst, Heard, Introduced, Buttons, Votes, [Next]_vars,
         page' = "open", NEW i \in Ids, Undecided(i)', first'[i] # "none"
  PROVE  \E k \in 1 .. Len(Keys') : VoteFor(Keys'[k], i)
<1>0. Len(Keys) \in Nat /\ Keys \in Seq(Items) /\ Len(Keys') \in Nat
  BY KeysType, KeysTypeNext DEF TypeOK
<1>1. CASE first[i] = "none"
  <2>1. PICK c \in Ids, op \in Ops : Alone(Click(c, op)) /\ first' # first
    BY <1>1, FirstSteps
  <2>2. first' = IF first[c] = "none" THEN [first EXCEPT ![c] = op] ELSE first
    BY <2>1 DEF Alone, Click
  <2>3. c = i
    BY <1>1, <2>2 DEF TypeOK, PageTypeOK
  <2>4. page = "open" /\ outbox' = Append(outbox, Vote(i, op)) /\ UNCHANGED <<wire, page>>
    BY <2>1, <2>3 DEF Alone, Click, Queue, Vote
  <2>5. Vote(i, op) \in Items
    BY DEF TypeOK, PageTypeOK, Vote, Items
  <2>6. Grown(Keys, Keys', Vote(i, op))
    BY <2>4, <2>5, KeysQueued
  <2>7. Len(Keys') \in 1 .. Len(Keys') /\ Keys'[Len(Keys')] = Vote(i, op)
    BY <1>0, <2>6 DEF Grown
  <2>8. VoteFor(Vote(i, op), i)
    BY DEF VoteFor, Vote
  <2> QED
    BY <2>7, <2>8
<1>2. CASE first[i] # "none"
  <2>1. page = "open"
    BY <1>2, SeatSteps DEF Fresh
  <2>2. ~Join
    BY <1>2 DEF Introduced, Join
  <2>3. Undecided(i)
    BY <1>2, <2>2, UndecidedSteps DEF Buttons
  <2>4. PICK k \in 1 .. Len(Keys) : VoteFor(Keys[k], i)
    BY <1>2, <2>1, <2>3 DEF Votes
  <2>5. CASE Keys' = Keys
    BY <2>4, <2>5
  <2>6. ASSUME NEW x, Grown(Keys, Keys', x)
        PROVE  \E j \in 1 .. Len(Keys') : VoteFor(Keys'[j], i)
    <3>1. k \in 1 .. Len(Keys') /\ Keys'[k] = Keys[k]
      BY <1>0, <2>6 DEF Grown
    <3> QED
      BY <2>4, <3>1
  <2>7. CASE Reads /\ k # 1
    <3>1. k - 1 \in 1 .. Len(Keys') /\ (k - 1) + 1 = k
      BY <1>0, <2>7 DEF Reads
    <3>2. Keys'[k - 1] = Keys[k]
      BY <2>7, <3>1 DEF Reads, Popped
    <3> QED
      BY <2>4, <3>1, <3>2
  <2>8. ASSUME ReadKey \/ ReadVote, k = 1, Keys[1] = Head(wire) PROVE FALSE
    <3>1. PICK x : x = Head(wire)
      OBVIOUS
    <3>2. x.kind = "vote" /\ x.id = i /\ Mine(x)
      BY <2>4, <2>8, <3>1 DEF VoteFor, Votes
    <3>3. ReadVote
      BY <2>8, <3>1, <3>2 DEF ReadKey
    <3> QED
      BY <3>1, <3>2, <3>3, ReadDecides
  <2> QED
    BY <2>1, <2>5, <2>6, <2>7, <2>8, KeySteps DEF Queues, Stays
<1> QED
  BY <1>1, <1>2

Voting == Introduced /\ Buttons /\ Votes

LEMMA VotingStep ==
  ASSUME TypeOK, Fresh, HelloFirst, Carried, Heard, Voting, [Next]_vars, ~early'
  PROVE  Voting'
<1>1. Introduced /\ Buttons /\ Votes
  BY DEF Voting
<1>2. Introduced' /\ Buttons'
  BY <1>1, IntroducedStep, ButtonsStep
<1>3. ASSUME NEW k \in 1 .. Len(Keys'), Keys'[k].kind = "vote"
      PROVE  Mine(Keys[k])' /\ first'[Keys'[k].id] # "none"
  <2>1. PICK x : x = Keys'[k]
    OBVIOUS
  <2>2. Mine(x)' /\ first'[x.id] # "none"
    BY <1>1, <1>3, <2>1, VotesAreMine
  <2> QED
    BY <2>1, <2>2 DEF Mine
<1>4. ASSUME NEW k \in 1 .. Len(Keys'), NEW i \in Ids, VoteFor(Keys'[k], i), Undecided(i)',
             \A j \in 1 .. k - 1 : ~VoteFor(Keys'[j], i)
      PROVE  Keys'[k].op = first'[i]
  BY <1>1, <1>4, FirstVotes
<1>5. ASSUME page' = "open", NEW i \in Ids, Undecided(i)', first'[i] # "none"
      PROVE  \E k \in 1 .. Len(Keys') : VoteFor(Keys'[k], i)
  BY <1>1, <1>5, VotesOnTheirWay
<1>6. Votes'
  BY <1>3, <1>4, <1>5 DEF Votes, VoteFor
<1> QED
  BY <1>2, <1>6 DEF Voting

\* The invariant of the session: what is told, and, when nothing went before the
\* welcome, what the page makes of it.
Session ==
  /\ TypeOK /\ Welcomes
  /\ Owing /\ Carried /\ Heard
  /\ early \/ Voting

LEMMA SessionAlways == Spec => []Session
<1>1. Init => Welcomes /\ Owing /\ Carried /\ Heard /\ Voting
  <2> SUFFICES ASSUME Init PROVE Welcomes /\ Owing /\ Carried /\ Heard /\ Voting
    OBVIOUS
  <2>1. Welcomes
    BY WelcomesInit
  <2>2. inbox = << >> /\ net = << >> /\ wire = << >> /\ outbox = << >> /\ owed = {}
    BY DEF Init, PageInit
  <2>3. cards = [i \in Ids |-> NoCard] /\ first = [i \in Ids |-> "none"] /\ seat = "out"
    BY DEF Init, PageInit
  <2>4. Pipe = << >>
    BY <2>2, InitTypes, PipeType
  <2>5. Keys = << >>
    <3>1. << >> \in Seq(Items)
      OBVIOUS
    <3> QED
      BY <2>2, <3>1, ConcatEmptySeq DEF Keys
  <2>6. Owing /\ Carried /\ Heard
    BY <2>2, <2>3, <2>4 DEF Owing, Carried, Heard
  <2>7. Introduced /\ Buttons
    BY <2>3 DEF Introduced, Buttons
  <2>8. Votes
    BY <2>3, <2>5 DEF Votes
  <2> QED
    BY <2>1, <2>6, <2>7, <2>8 DEF Voting
<1>2. TypeOK /\ Welcomes /\ Owing /\ Carried /\ Heard /\ (early \/ Voting) /\ [Next]_vars =>
        Welcomes' /\ Owing' /\ Carried' /\ Heard' /\ (early \/ Voting)'
  <2> SUFFICES ASSUME TypeOK, Welcomes, Owing, Carried, Heard, early \/ Voting, [Next]_vars
               PROVE  Welcomes' /\ Owing' /\ Carried' /\ Heard' /\ (early \/ Voting)'
    OBVIOUS
  <2>1. Fresh
    BY DEF Welcomes
  <2>2. Welcomes' /\ Owing' /\ Carried' /\ Heard'
    BY <2>1, WelcomesStep, OwingStep, CarriedStep, HeardStep
  <2>3. ASSUME ~early' PROVE Voting'
    <3>1. ~early
      BY <2>3, NotEarly DEF TypeOK
    <3>2. HelloFirst /\ Voting
      BY <3>1, Zenon DEF Welcomes
    <3> QED
      BY <2>1, <2>3, <3>2, VotingStep
  <2> QED
    BY <2>2, <2>3, Zenon
<1> QED
  BY <1>1, <1>2, TypeCorrect, PTL DEF Spec, Session

\* An approver who was welcomed before anything else and has not voted has the
\* buttons or a vote on its way: what took the buttons away was a click, and a
\* click's vote is on its way until it counts.
THEOREM CanVoteAlways == Spec => []CanVote
<1>1. Session => CanVote
  <2> SUFFICES ASSUME Session, Quiet, ~early, seat = "welcome", NEW i \in Ids,
                      cards[i].there, Undecided(i), ~cards[i].row
               PROVE  UnderWay(i)
    BY Zenon DEF CanVote
  <2>1. Voting /\ TypeOK /\ page = "open"
    BY Zenon DEF Session, Quiet
  <2>2. cards[i] # NoCard
    <3>1. NoCard.there = FALSE
      BY DEF NoCard
    <3> QED
      BY <3>1
  <2>3. first[i] # "none"
    BY <2>1, <2>2 DEF Voting, Buttons
  <2>4. PICK k \in 1 .. Len(Keys) : VoteFor(Keys[k], i)
    BY <2>1, <2>3 DEF Voting, Votes
  <2>5. Mine(Keys[k]) /\ Keys[k].id = i
    BY <2>1, <2>4 DEF Voting, Votes, VoteFor
  <2>6. Keys = wire \o outbox /\ wire \in Seq(Items) /\ outbox \in Seq(Items)
    BY <2>1 DEF Keys, TypeOK, PageTypeOK, SessionTypeOK
  <2>7. CASE k <= Len(wire)
    <3>1. k \in DOMAIN wire /\ Keys[k] = wire[k]
      BY <2>6, <2>7, ConcatProperties, LenProperties
    <3> QED
      BY <2>5, <3>1 DEF UnderWay
  <2>8. CASE k > Len(wire)
    <3>1. k - Len(wire) \in DOMAIN outbox /\ Keys[k] = outbox[k - Len(wire)]
      BY <2>6, <2>8, ConcatProperties, LenProperties
    <3> QED
      BY <2>5, <3>1 DEF UnderWay
  <2> QED
    BY <2>6, <2>7, <2>8, LenProperties
<1> QED
  BY <1>1, SessionAlways, PTL

\* Only the host's reading one of the page's votes makes its side of a tally change.
LEMMA OwnVoteSteps ==
  ASSUME SessionTypeOK, [Next]_vars, NEW i \in Ids, seat = "welcome", named \notin yes[i] \cup no[i],
         named \in yes'[i] \cup no'[i]
  PROVE  ReadVote /\ Counts(Head(wire)) /\ Head(wire).id = i /\ Count(i, named, Head(wire).op)
<1>1. ASSUME NEW j \in Ids, NEW a, NEW op, Count(j, a, op)
      PROVE  j = i /\ a = named
  <2>1. \/ yes' = [yes EXCEPT ![j] = @ \cup {a}] /\ no' = no
        \/ no' = [no EXCEPT ![j] = @ \cup {a}] /\ yes' = yes
    BY <1>1 DEF Count, B!Cast
  <2>2. yes \in [Ids -> SUBSET Approvers] /\ no \in [Ids -> SUBSET Approvers]
    BY DEF SessionTypeOK
  <2>3. ASSUME j # i PROVE FALSE
    <3>1. yes'[i] = yes[i] /\ no'[i] = no[i]
      BY <2>1, <2>2, <2>3
    <3> QED
      BY <3>1
  <2>4. ASSUME j = i PROVE a = named
    <3>1. yes'[i] \cup no'[i] = yes[i] \cup no[i] \cup {a}
      BY <2>1, <2>2, <2>4
    <3> QED
      BY <3>1
  <2> QED
    BY <2>3, <2>4
<1>2. ~UNCHANGED <<yes, no>>
  OBVIOUS
<1>3. ~ \E j \in Ids : Hold(j) \/ Expire(j)
  BY <1>2 DEF Hold, Expire, B!Open, B!Lapse
<1>4. ~ \E j \in Ids, a \in Approvers, op \in Ops : OtherVote(j, a, op)
  BY <1>1 DEF OtherVote
<1>5. ReadVote
  BY <1>2, <1>3, <1>4, Zenon DEF Next, Server, Browser, Person, World, Alone, Join, Welcome, ReadKey, Announce, Deliver,
     PageTurn, SendTurn, Lose, Broadcast
<1>6. Counts(Head(wire)) /\ Count(Head(wire).id, named, Head(wire).op)
  BY <1>2, <1>5, Zenon DEF ReadVote
<1>7. Head(wire).id \in Ids
  BY <1>6 DEF Counts, B!Pending, B!Ids, Ids
<1> QED
  BY <1>1, <1>5, <1>6, <1>7

\* The vote that counts is the button that was clicked first, also when a tally of
\* somebody else's vote has brought the buttons back and the other one is clicked.
THEOREM VoteAsClickedAlways == Spec => VoteAsClicked
<1>1. Session /\ [Next]_vars =>
        [\A i \in Ids :
           ~early /\ seat = "welcome" /\ Undecided(i) /\ named \in yes'[i] \cup no'[i]
             => first[i] = IF named \in yes'[i] THEN "approve" ELSE "reject"]_vars
  <2> SUFFICES ASSUME Session, [Next]_vars, NEW i \in Ids, ~early, seat = "welcome", Undecided(i),
                      named \in yes'[i] \cup no'[i]
               PROVE  first[i] = IF named \in yes'[i] THEN "approve" ELSE "reject"
    BY Zenon
  <2>1. Voting /\ TypeOK /\ SessionTypeOK
    BY Zenon DEF Session, TypeOK
  <2>2. named \notin yes[i] \cup no[i]
    BY DEF Undecided
  <2>3. ReadVote /\ Head(wire).id = i /\ Count(i, named, Head(wire).op)
    BY <2>1, <2>2, OwnVoteSteps
  <2>4. wire # << >> /\ Head(wire).kind = "vote" /\ UNCHANGED <<outbox, page>> /\ wire' = Tail(wire)
    BY <2>3 DEF ReadVote
  <2>5. Keys # << >> /\ Keys[1] = Head(wire)
    BY <2>1, <2>4, KeysRead
  <2>6. 1 \in 1 .. Len(Keys) /\ VoteFor(Keys[1], i) /\ 1 .. 1 - 1 = {}
    BY <2>1, <2>3, <2>4, <2>5, KeysType DEF TypeOK, VoteFor
  <2>7. Head(wire).op = first[i]
    BY <2>1, <2>5, <2>6 DEF Voting, Votes
  <2>8. Head(wire).op \in Ops
    <3>1. Head(wire) \in Items
      BY <2>1, <2>4 DEF SessionTypeOK
    <3> QED
      BY <2>4, <3>1 DEF Items
  <2>9. CASE Head(wire).op = "approve"
    BY <2>3, <2>7, <2>9 DEF Count
  <2>10. CASE Head(wire).op = "reject"
    <3>1. named \in no'[i]
      BY <2>3, <2>10 DEF Count
    <3>2. yes' = yes
      <4>1. \/ yes' = [yes EXCEPT ![i] = @ \cup {named}] /\ no' = no
            \/ yes' = yes
        BY <2>3 DEF Count, B!Cast
      <4> QED
        BY <2>2, <3>1, <4>1
    <3> QED
      BY <2>2, <2>7, <2>10, <3>2
  <2> QED
    BY <2>8, <2>9, <2>10 DEF Ops
<1> QED
  BY <1>1, SessionAlways, PTL DEF Spec, VoteAsClicked
=============================================================================
