--------------------------- MODULE MultisigProofs ---------------------------
(***************************************************************************)
(* Proofs about Multisig, for every set of guests, approvers and control   *)
(* connections, every quorum that newMultisig accepts, and every bound.    *)
(***************************************************************************)
EXTENDS Multisig, FiniteSetTheorems, TLAPS

\* The number of approvers is a number.
LEMMA ApproversCount == Cardinality(Approvers) \in Nat
BY ConfigAssumption, FS_CardinalityType DEF ValidConfig

\* An element appended to a sequence becomes the last one.
LEMMA AppendFacts ==
  ASSUME NEW S, NEW s \in Seq(S), NEW e \in S
  PROVE  /\ Append(s, e) \in Seq(S)
         /\ Len(Append(s, e)) = Len(s) + 1
         /\ DOMAIN Append(s, e) = 1 .. Len(s) + 1
         /\ \A i \in 1 .. Len(s) : Append(s, e)[i] = s[i]
         /\ Append(s, e)[Len(s) + 1] = e
OBVIOUS

\* What a sweep makes of the proposals and of the trail (expireLocked): same
\* ids, same votes, and at most a state that turns from pending to expired.
LEMMA SweepFacts ==
  ASSUME TypeOK
  PROVE  /\ Swept \in Seq(Proposal)
         /\ Len(Swept) = Len(proposals)
         /\ DOMAIN Swept = DOMAIN proposals
         /\ \A i \in DOMAIN proposals :
              /\ Swept[i].who = proposals[i].who
              /\ Swept[i].age = proposals[i].age
              /\ Swept[i].approved = proposals[i].approved
              /\ Swept[i].rejected = proposals[i].rejected
              /\ Swept[i].state = IF i \in Overdue THEN "expired" ELSE proposals[i].state
         /\ SweptTrail \in [0 .. MaxProposals -> Seq(Line)]
<1>1. \A i \in DOMAIN proposals : proposals[i] \in Proposal
  BY DEF TypeOK
<1>2. \A i \in DOMAIN proposals : Swept[i] \in Proposal
  BY <1>1 DEF Swept, Proposal, States
<1>3. DOMAIN proposals = 1 .. Len(proposals) /\ Len(proposals) \in Nat
  BY DEF TypeOK
<1>4. Swept \in Seq(Proposal) /\ Len(Swept) = Len(proposals) /\ DOMAIN Swept = DOMAIN proposals
  BY <1>2, <1>3 DEF Swept
<1>5. \A i \in DOMAIN proposals :
              /\ Swept[i].who = proposals[i].who
              /\ Swept[i].age = proposals[i].age
              /\ Swept[i].approved = proposals[i].approved
              /\ Swept[i].rejected = proposals[i].rejected
              /\ Swept[i].state = IF i \in Overdue THEN "expired" ELSE proposals[i].state
  BY <1>1 DEF Swept, Proposal
<1>6. SweptTrail \in [0 .. MaxProposals -> Seq(Line)]
  <2>1. ASSUME NEW i \in 0 .. MaxProposals
        PROVE  SweptTrail[i] \in Seq(Line)
    <3>1. trail[i] \in Seq(Line) /\ i \in DOMAIN trail
      BY DEF TypeOK
    <3>2. CASE i \in Overdue
      <4>1. i \in DOMAIN proposals
        BY <3>2 DEF Overdue, TypeOK
      <4>2. proposals[i].who \in Guests \cup {Host}
        BY <1>1, <4>1, ConfigAssumption DEF Proposal
      <4>3. [kind |-> "expired", who |-> proposals[i].who] \in Line
        BY <4>2 DEF Line
      <4> QED BY <3>1, <3>2, <4>3 DEF SweptTrail
    <3>3. CASE i \notin Overdue
      BY <3>1, <3>3 DEF SweptTrail
    <3> QED BY <3>2, <3>3
  <2> QED BY <2>1 DEF SweptTrail, TypeOK
<1> QED BY <1>4, <1>5, <1>6
-----------------------------------------------------------------------------
\* What a thread holds while its handler runs is of the declared types.
LEMMA StartTypes ==
  ASSUME TypeOK, NEW t \in Threads, NEW step, NEW j \in Job, Start(t, step, j),
         step \in {"idle", "log", "verdict", "show", "input", "write"}
  PROVE  /\ pc' \in [Threads -> {"idle", "log", "verdict", "show", "input", "write"}]
         /\ job' \in [Threads -> Job]
         /\ pc'[t] = step /\ job'[t] = j
         /\ \A u \in Threads \ {t} : pc'[u] = pc[u] /\ job'[u] = job[u]
BY DEF TypeOK, Start

LEMMA NoJobType == NoJob \in Job
BY BoundsAssumption DEF NoJob, Job, Ops, States

LEMMA GotoTypes ==
  ASSUME TypeOK, NEW t \in Threads, NEW step, Goto(t, step),
         step \in {"idle", "log", "verdict", "show", "input", "write"}
  PROVE  /\ pc' \in [Threads -> {"idle", "log", "verdict", "show", "input", "write"}]
         /\ job' \in [Threads -> Job]
         /\ pc'[t] = step
         /\ step # "idle" => job' = job
         /\ \A u \in Threads \ {t} : pc'[u] = pc[u] /\ job'[u] = job[u]
BY NoJobType DEF TypeOK, Goto

LEMMA LoggedTypes ==
  ASSUME TypeOK, NEW id \in 0 .. MaxProposals, NEW kind, NEW who,
         [kind |-> kind, who |-> who] \in Line, Logged(id, kind, who)
  PROVE  trail' \in [0 .. MaxProposals -> Seq(Line)]
<1> DEFINE line == [kind |-> kind, who |-> who]
<1>1. trail \in [0 .. MaxProposals -> Seq(Line)] /\ trail[id] \in Seq(Line)
  BY DEF TypeOK
<1>2. line \in Line
  OBVIOUS
<1>3. trail' = [trail EXCEPT ![id] = Append(trail[id], line)]
  BY DEF Logged
<1> HIDE DEF line
<1>4. Append(trail[id], line) \in Seq(Line)
  BY <1>1, <1>2, AppendFacts
<1> QED BY <1>1, <1>3, <1>4

\* A counted vote leaves a proposal of the declared type, with a state that
\* only a vote gives.
LEMMA TalliedType ==
  ASSUME NEW p \in Proposal, NEW a \in Approvers, NEW op \in {"approve", "reject"}
  PROVE  /\ Tallied(p, a, op) \in Proposal
         /\ Tallied(p, a, op).state \in {"pending", "executed", "rejected"}
         /\ Tallied(p, a, op).who = p.who
         /\ Tallied(p, a, op).age = p.age
         /\ Tallied(p, a, op).approved
              = IF op = "approve" THEN Append(p.approved, a) ELSE p.approved
         /\ Tallied(p, a, op).rejected
              = IF op = "reject" THEN Append(p.rejected, a) ELSE p.rejected
         /\ Tallied(p, a, op).state
              = Verdict(Tallied(p, a, op).approved, Tallied(p, a, op).rejected)
<1> DEFINE yes == IF op = "approve" THEN Append(p.approved, a) ELSE p.approved
           no == IF op = "reject" THEN Append(p.rejected, a) ELSE p.rejected
<1>1. yes \in Seq(Approvers) /\ no \in Seq(Approvers)
  BY AppendFacts DEF Proposal
<1>2. Verdict(yes, no) \in {"pending", "executed", "rejected"}
  BY DEF Verdict
<1>3. Tallied(p, a, op) = [p EXCEPT !.approved = yes, !.rejected = no, !.state = Verdict(yes, no)]
  BY DEF Tallied
<1> HIDE DEF yes, no
<1>4. /\ Tallied(p, a, op) \in Proposal
      /\ Tallied(p, a, op).who = p.who
      /\ Tallied(p, a, op).age = p.age
      /\ Tallied(p, a, op).approved = yes
      /\ Tallied(p, a, op).rejected = no
      /\ Tallied(p, a, op).state = Verdict(yes, no)
  BY <1>1, <1>2, <1>3 DEF Proposal, States
<1> QED BY <1>2, <1>4 DEF yes, no

-----------------------------------------------------------------------------
LEMMA InitTypes == Init => TypeOK
<1> SUFFICES ASSUME Init PROVE TypeOK
  OBVIOUS
<1>1. job \in [Threads -> Job]
  BY NoJobType DEF Init
<1>2. proposals \in Seq(Proposal) /\ Len(proposals) = 0 /\ DOMAIN proposals = {}
  BY DEF Init
<1> QED BY <1>1, <1>2, BoundsAssumption DEF Init, TypeOK

\* Every step keeps the types.
LEMMA NextTypes == TypeOK /\ [Next]_vars => TypeOK'
<1> SUFFICES ASSUME TypeOK, [Next]_vars PROVE TypeOK'
  OBVIOUS
<1> USE BoundsAssumption
<1>0. /\ Len(proposals) \in Nat
      /\ DOMAIN proposals = 1 .. Len(proposals)
      /\ \A i \in DOMAIN proposals : proposals[i] \in Proposal
  BY DEF TypeOK
<1>1. ASSUME NEW t \in Guests, Hold(t) PROVE TypeOK'
  <2> DEFINE id == Len(proposals) + 1
             p == [who |-> t, age |-> 0, state |-> "pending", approved |-> << >>, rejected |-> << >>]
             j == [id |-> id, op |-> "propose", by |-> t, who |-> t, state |-> "pending"]
  <2>1. id \in 0 .. MaxProposals /\ t \in Threads
    BY <1>1, <1>0 DEF Hold, Threads
  <2>2. p \in Proposal
    BY <1>1 DEF Hold, Proposal, States, MaxAge
  <2>3. j \in Job
    BY <2>1 DEF Job, Ops, States
  <2>4. /\ proposals' = Append(Swept, p)
        /\ kept' = (kept \ Forgettable) \cup {id}
        /\ Start(t, "log", j)
        /\ trail' = SweptTrail /\ cards' = cards /\ pty' = pty
    BY <1>1 DEF Hold
  <2> HIDE DEF p, j
  <2>5. /\ proposals' \in Seq(Proposal) /\ Len(proposals') = id
        /\ DOMAIN proposals' = DOMAIN proposals \cup {id}
    BY <2>2, <2>4, SweepFacts, <1>0
  <2>6. kept' \subseteq DOMAIN proposals' /\ cards' \subseteq DOMAIN proposals'
    BY <2>4, <2>5 DEF TypeOK
  <2>7. j.id = id /\ j.op = "propose" /\ j.state = "pending"
    BY DEF j
  <2>8. /\ pc' \in [Threads -> {"idle", "log", "verdict", "show", "input", "write"}]
        /\ job' \in [Threads -> Job]
        /\ pc'[t] = "log" /\ job'[t] = j
        /\ \A u \in Threads \ {t} : pc'[u] = pc[u] /\ job'[u] = job[u]
    BY <2>1, <2>3, <2>4, StartTypes
  <2>9. Len(proposals') <= MaxProposals
    BY <2>1, <2>5
  <2>10. \A u \in Threads :
       /\ pc'[u] \in {"log", "verdict", "show"} => job'[u].id \in DOMAIN proposals'
       /\ pc'[u] = "log" => job'[u].op # "type" /\ job'[u].state # "expired"
       /\ pc'[u] = "verdict" => job'[u].state \in {"executed", "rejected"}
       /\ pc'[u] \in {"input", "write"} => job'[u].state = "executed"
    BY <2>5, <2>7, <2>8 DEF TypeOK
  <2> QED BY <2>4, <2>5, <2>6, <2>8, <2>9, <2>10, SweepFacts DEF TypeOK
<1>2. ASSUME NEW t \in Voters, NEW id \in Ids, NEW op \in {"approve", "reject"}, Vote(t, op, id)
      PROVE  TypeOK'
  <2> DEFINE a == Speaker(t)
             p == Tallied(Swept[id], a, op)
             j == [id |-> id, op |-> op, by |-> a, who |-> p.who, state |-> p.state]
  <2>1. id \in DOMAIN proposals /\ t \in Threads /\ a \in Approvers
    BY <1>2 DEF Vote, Counts, TypeOK, Voters, Threads
  <2>2. Swept[id] \in Proposal
    BY <2>1, <1>0, SweepFacts
  <2>3. p \in Proposal /\ p.state \in {"pending", "executed", "rejected"}
    BY <2>1, <2>2, TalliedType
  <2>4. /\ proposals' = [Swept EXCEPT ![id] = p]
        /\ kept' = kept \ Forgettable
        /\ Start(t, "log", j)
        /\ trail' = SweptTrail /\ cards' = cards /\ pty' = pty
    BY <1>2 DEF Vote
  <2>5. j \in Job /\ j.id = id /\ j.op = op /\ j.state = p.state
    BY <2>1, <2>3, ConfigAssumption, NamesAssumption DEF Job, Ops, States, Proposal, Ids
  <2> HIDE DEF p, j
  <2>6. /\ proposals' \in Seq(Proposal) /\ Len(proposals') = Len(proposals)
        /\ DOMAIN proposals' = DOMAIN proposals
    BY <2>1, <2>3, <2>4, SweepFacts, <1>0
  <2>7. /\ pc' \in [Threads -> {"idle", "log", "verdict", "show", "input", "write"}]
        /\ job' \in [Threads -> Job]
        /\ pc'[t] = "log" /\ job'[t] = j
        /\ \A u \in Threads \ {t} : pc'[u] = pc[u] /\ job'[u] = job[u]
    BY <2>1, <2>4, <2>5, StartTypes
  <2>8. \A u \in Threads :
       /\ pc'[u] \in {"log", "verdict", "show"} => job'[u].id \in DOMAIN proposals'
       /\ pc'[u] = "log" => job'[u].op # "type" /\ job'[u].state # "expired"
       /\ pc'[u] = "verdict" => job'[u].state \in {"executed", "rejected"}
       /\ pc'[u] \in {"input", "write"} => job'[u].state = "executed"
    BY <2>1, <2>3, <2>5, <2>6, <2>7 DEF TypeOK
  <2> QED BY <2>4, <2>6, <2>7, <2>8, SweepFacts DEF TypeOK
<1>3. ASSUME SweepOnly PROVE TypeOK'
  <2>1. /\ proposals' \in Seq(Proposal) /\ Len(proposals') = Len(proposals)
        /\ DOMAIN proposals' = DOMAIN proposals
        /\ trail' \in [0 .. MaxProposals -> Seq(Line)]
    BY <1>3, SweepFacts DEF SweepOnly
  <2> QED BY <1>3, <2>1 DEF SweepOnly, TypeOK
<1>4. ASSUME NEW t \in Threads, Type(t) PROVE TypeOK'
  <2> DEFINE j == [id |-> 0, op |-> "type", by |-> Speaker(t), who |-> Speaker(t), state |-> "executed"]
  <2>1. j \in Job /\ j.state = "executed"
    BY DEF Job, Ops, States, Speaker
  <2>2. Start(t, "input", j) /\ UNCHANGED <<proposals, kept, trail, cards, pty>>
    BY <1>4 DEF Type
  <2> HIDE DEF j
  <2>3. /\ pc' \in [Threads -> {"idle", "log", "verdict", "show", "input", "write"}]
        /\ job' \in [Threads -> Job]
        /\ pc'[t] = "input" /\ job'[t] = j
        /\ \A u \in Threads \ {t} : pc'[u] = pc[u] /\ job'[u] = job[u]
    BY <2>1, <2>2, StartTypes
  <2> QED BY <2>1, <2>2, <2>3 DEF TypeOK
<1>5. ASSUME NEW t \in Threads, Log(t) PROVE TypeOK'
  <2> DEFINE step == IF job[t].state = "pending" THEN "show" ELSE "verdict"
  <2>1. job[t] \in Job /\ job[t].op # "type" /\ job[t].state # "expired" /\ job[t].id \in DOMAIN proposals
    BY <1>5 DEF Log, TypeOK
  <2>2. Logged(job[t].id, job[t].op, job[t].by) /\ Goto(t, step) /\ UNCHANGED <<proposals, kept, cards, pty>>
    BY <1>5 DEF Log
  <2>3. [kind |-> job[t].op, who |-> job[t].by] \in Line /\ job[t].id \in 0 .. MaxProposals
    BY <2>1 DEF Job, Ops, Line
  <2>4. trail' \in [0 .. MaxProposals -> Seq(Line)]
    BY <2>2, <2>3, LoggedTypes
  <2>5. step \in {"show", "verdict"} /\ (step = "verdict" => job[t].state \in {"executed", "rejected"})
    BY <2>1 DEF Job, States
  <2> HIDE DEF step
  <2>6. /\ pc' \in [Threads -> {"idle", "log", "verdict", "show", "input", "write"}]
        /\ job' \in [Threads -> Job]
        /\ pc'[t] = step /\ job' = job
        /\ \A u \in Threads \ {t} : pc'[u] = pc[u]
    BY <2>2, <2>5, GotoTypes
  <2> QED BY <2>1, <2>2, <2>4, <2>5, <2>6 DEF TypeOK
<1>6. ASSUME NEW t \in Threads, LogVerdict(t) PROVE TypeOK'
  <2> DEFINE kind == IF job[t].state = "executed" THEN "execute" ELSE "rejected"
  <2>1. job[t] \in Job /\ job[t].id \in DOMAIN proposals
    BY <1>6 DEF LogVerdict, TypeOK
  <2>2. Logged(job[t].id, kind, job[t].who) /\ Goto(t, "show") /\ UNCHANGED <<proposals, kept, cards, pty>>
    BY <1>6 DEF LogVerdict
  <2>3. [kind |-> kind, who |-> job[t].who] \in Line /\ job[t].id \in 0 .. MaxProposals
    BY <2>1 DEF Job, Line
  <2>4. trail' \in [0 .. MaxProposals -> Seq(Line)]
    BY <2>2, <2>3, LoggedTypes
  <2>5. /\ pc' \in [Threads -> {"idle", "log", "verdict", "show", "input", "write"}]
        /\ job' \in [Threads -> Job]
        /\ pc'[t] = "show" /\ job' = job
        /\ \A u \in Threads \ {t} : pc'[u] = pc[u]
    BY <2>2, GotoTypes
  <2> QED BY <2>1, <2>2, <2>4, <2>5 DEF TypeOK
<1>7. ASSUME NEW t \in Threads, Show(t) PROVE TypeOK'
  <2> DEFINE step == IF job[t].state = "executed" THEN "input" ELSE "idle"
  <2>1. job[t].id \in DOMAIN proposals
    BY <1>7 DEF Show, TypeOK
  <2>2. Goto(t, step) /\ UNCHANGED <<proposals, kept, trail, pty>>
    BY <1>7 DEF Show
  <2>3. cards' \subseteq DOMAIN proposals
    BY <1>7, <2>1 DEF Show, TypeOK
  <2>4. step \in {"input", "idle"} /\ (step = "input" => job[t].state = "executed")
    OBVIOUS
  <2> HIDE DEF step
  <2>5. /\ pc' \in [Threads -> {"idle", "log", "verdict", "show", "input", "write"}]
        /\ job' \in [Threads -> Job]
        /\ pc'[t] = step /\ (step = "input" => job' = job)
        /\ \A u \in Threads \ {t} : pc'[u] = pc[u] /\ job'[u] = job[u]
    BY <2>2, <2>4, GotoTypes
  <2> QED BY <2>2, <2>3, <2>4, <2>5 DEF TypeOK
<1>8. ASSUME NEW t \in Threads, LogInput(t) PROVE TypeOK'
  <2>1. job[t] \in Job /\ job[t].state = "executed"
    BY <1>8 DEF LogInput, TypeOK
  <2>2. Logged(job[t].id, "input", job[t].who) /\ Goto(t, "write") /\ UNCHANGED <<proposals, kept, cards, pty>>
    BY <1>8 DEF LogInput
  <2>3. [kind |-> "input", who |-> job[t].who] \in Line /\ job[t].id \in 0 .. MaxProposals
    BY <2>1 DEF Job, Line
  <2>4. trail' \in [0 .. MaxProposals -> Seq(Line)]
    BY <2>2, <2>3, LoggedTypes
  <2>5. /\ pc' \in [Threads -> {"idle", "log", "verdict", "show", "input", "write"}]
        /\ job' \in [Threads -> Job]
        /\ pc'[t] = "write" /\ job' = job
        /\ \A u \in Threads \ {t} : pc'[u] = pc[u]
    BY <2>2, GotoTypes
  <2> QED BY <2>1, <2>2, <2>4, <2>5 DEF TypeOK
<1>9. ASSUME NEW t \in Threads, Write(t) PROVE TypeOK'
  <2> DEFINE chunk == [id |-> job[t].id, who |-> job[t].who]
  <2>1. chunk \in [id : 0 .. MaxProposals, who : Guests \cup {Host}]
    BY DEF TypeOK, Job
  <2>2. pty' = Append(pty, chunk) /\ Goto(t, "idle") /\ UNCHANGED <<proposals, kept, trail, cards>>
    BY <1>9 DEF Write
  <2> HIDE DEF chunk
  <2>3. pty' \in Seq([id : 0 .. MaxProposals, who : Guests \cup {Host}])
    BY <2>1, <2>2, AppendFacts DEF TypeOK
  <2>4. /\ pc' \in [Threads -> {"idle", "log", "verdict", "show", "input", "write"}]
        /\ job' \in [Threads -> Job]
        /\ pc'[t] = "idle"
        /\ \A u \in Threads \ {t} : pc'[u] = pc[u] /\ job'[u] = job[u]
    BY <2>2, GotoTypes
  <2> QED BY <2>2, <2>3, <2>4 DEF TypeOK
<1>10. ASSUME Tick PROVE TypeOK'
  <2> DEFINE older(i) == [proposals[i] EXCEPT !.age = IF @ < MaxAge THEN @ + 1 ELSE @]
  <2>1. \A i \in DOMAIN proposals : older(i) \in Proposal
    BY <1>0, SMTT(30) DEF Proposal, MaxAge
  <2>2. proposals' = [i \in DOMAIN proposals |-> older(i)] /\ UNCHANGED <<kept, pc, job, trail, cards, pty>>
    BY <1>10 DEF Tick
  <2> HIDE DEF older
  <2>3. /\ proposals' \in Seq(Proposal) /\ Len(proposals') = Len(proposals)
        /\ DOMAIN proposals' = DOMAIN proposals
    BY <2>1, <2>2, <1>0
  <2> QED BY <2>2, <2>3 DEF TypeOK
<1>11. ASSUME UNCHANGED vars PROVE TypeOK'
  BY <1>11 DEF vars, TypeOK
<1> QED
  BY <1>1, <1>2, <1>3, <1>4, <1>5, <1>6, <1>7, <1>8, <1>9, <1>10, <1>11
     DEF Next, Finish, TurnDown, List

\* TypeOK is an invariant.
THEOREM TypeCorrect == Spec => []TypeOK
<1>1. Init => TypeOK
  BY InitTypes
<1>2. TypeOK /\ [Next]_vars => TypeOK'
  BY NextTypes
<1> QED BY <1>1, <1>2, PTL DEF Spec
-----------------------------------------------------------------------------
\* A settled proposal keeps its state and its votes through every step, and
\* every proposal keeps its owner.
Stays(i) ==
  /\ i \in DOMAIN proposals'
  /\ proposals'[i].who = proposals[i].who
  /\ proposals[i].state \in Settled =>
       /\ proposals'[i].state = proposals[i].state
       /\ proposals'[i].approved = proposals[i].approved
       /\ proposals'[i].rejected = proposals[i].rejected

\* The map loses only settled proposals that are old enough, and regains none.
Forgets(i) ==
  /\ i \in kept \ kept' => proposals[i].state \in Settled /\ proposals[i].age > Retain
  /\ i \notin kept => i \notin kept'

LEMMA ForgetFacts ==
  ASSUME TypeOK, NEW i \in DOMAIN proposals, kept' = kept \ Forgettable
  PROVE  Forgets(i)
<1>1. proposals[i] \in Proposal
  BY DEF TypeOK
<1>2. proposals[i].state \in States
  BY <1>1 DEF Proposal
<1> QED BY <1>2 DEF Forgettable, Forgets, Settled

LEMMA SettledStay ==
  ASSUME TypeOK, [Next]_vars, NEW i \in DOMAIN proposals
  PROVE  Stays(i) /\ Forgets(i)
<1>0. /\ Len(proposals) \in Nat
      /\ DOMAIN proposals = 1 .. Len(proposals)
      /\ proposals[i] \in Proposal
  BY DEF TypeOK
<1>a. proposals[i].state \in Settled => i \notin Overdue
  BY DEF Overdue, Settled
<1>1. ASSUME NEW t \in Guests, Hold(t) PROVE Stays(i) /\ Forgets(i)
  <2> DEFINE p == [who |-> t, age |-> 0, state |-> "pending", approved |-> << >>, rejected |-> << >>]
  <2>1. p \in Proposal
    BY <1>1, BoundsAssumption DEF Hold, Proposal, States, MaxAge
  <2>2. proposals' = Append(Swept, p) /\ kept' = (kept \ Forgettable) \cup {Len(proposals) + 1}
    BY <1>1 DEF Hold
  <2> HIDE DEF p
  <2>3. i \in DOMAIN proposals' /\ proposals'[i] = Swept[i]
    BY <2>1, <2>2, <1>0, SweepFacts, AppendFacts
  <2>4. Stays(i)
    BY <2>3, <1>a, SweepFacts DEF Stays
  <2>5. Forgets(i)
    BY <2>2, <1>0 DEF Forgettable, Forgets, Settled, Proposal
  <2> QED BY <2>4, <2>5
<1>2. ASSUME NEW t \in Voters, NEW id \in Ids, NEW op \in {"approve", "reject"}, Vote(t, op, id)
      PROVE  Stays(i) /\ Forgets(i)
  <2> DEFINE p == Tallied(Swept[id], Speaker(t), op)
  <2>1. id \in DOMAIN proposals /\ Speaker(t) \in Approvers /\ Swept[id].state = "pending"
    BY <1>2 DEF Vote, Counts, TypeOK
  <2>2. p.who = proposals[id].who /\ p \in Proposal
    BY <2>1, <1>0, SweepFacts, TalliedType
  <2>3. proposals' = [Swept EXCEPT ![id] = p] /\ kept' = kept \ Forgettable
    BY <1>2 DEF Vote
  <2> HIDE DEF p
  <2>4. i \in DOMAIN proposals' /\ proposals'[i] = IF i = id THEN p ELSE Swept[i]
    BY <2>1, <2>3, SweepFacts
  <2>5. proposals[i].state \in Settled => i # id
    BY <2>1, <1>a, SweepFacts DEF Settled
  <2>6. Stays(i)
    BY <2>2, <2>4, <2>5, <1>a, SweepFacts DEF Stays
  <2> QED BY <2>3, <2>6, ForgetFacts
<1>3. ASSUME SweepOnly PROVE Stays(i) /\ Forgets(i)
  BY <1>3, <1>a, SweepFacts, ForgetFacts DEF SweepOnly, Stays
<1>4. ASSUME Tick PROVE Stays(i) /\ Forgets(i)
  <2>1. proposals' = [n \in DOMAIN proposals |->
                       [proposals[n] EXCEPT !.age = IF @ < MaxAge THEN @ + 1 ELSE @]] /\ kept' = kept
    BY <1>4 DEF Tick
  <2>2. i \in DOMAIN proposals' /\ proposals'[i] = [proposals[i] EXCEPT !.age = IF @ < MaxAge THEN @ + 1 ELSE @]
    BY <2>1
  <2>3. /\ proposals'[i].who = proposals[i].who
        /\ proposals'[i].state = proposals[i].state
        /\ proposals'[i].approved = proposals[i].approved
        /\ proposals'[i].rejected = proposals[i].rejected
    BY <2>2, <1>0 DEF Proposal
  <2> QED BY <2>1, <2>2, <2>3 DEF Stays, Forgets
<1>5. ASSUME UNCHANGED <<proposals, kept>> PROVE Stays(i) /\ Forgets(i)
  BY <1>5 DEF Stays, Forgets
<1> QED
  BY <1>1, <1>2, <1>3, <1>4, <1>5
     DEF Next, Finish, TurnDown, List, Type, Log, LogVerdict, Show, LogInput, Write, vars

\* What is settled stays settled, and is forgotten only when its time is over.
THEOREM SettledTheorem == Spec => SettledForGood
<1>1. TypeOK /\ [Next]_vars =>
        [\A i \in DOMAIN proposals :
           /\ proposals[i].state \in Settled =>
                /\ proposals'[i].state = proposals[i].state
                /\ proposals'[i].approved = proposals[i].approved
                /\ proposals'[i].rejected = proposals[i].rejected
           /\ i \in kept \ kept' => proposals[i].state \in Settled /\ proposals[i].age > Retain
           /\ i \notin kept => i \notin kept']_vars
  BY SettledStay DEF Stays, Forgets
<1> QED BY <1>1, TypeCorrect, PTL DEF Spec, SettledForGood

\* The votes on a proposal change only while its time lasts.
LEMMA VoteInTime ==
  ASSUME TypeOK, [Next]_vars, NEW i \in DOMAIN proposals,
         \/ proposals'[i].approved # proposals[i].approved
         \/ proposals'[i].rejected # proposals[i].rejected
  PROVE  proposals[i].age <= TTL
<1>0. /\ Len(proposals) \in Nat
      /\ DOMAIN proposals = 1 .. Len(proposals)
      /\ proposals[i] \in Proposal
  BY DEF TypeOK
<1>1. ASSUME NEW t \in Guests, Hold(t) PROVE FALSE
  <2> DEFINE p == [who |-> t, age |-> 0, state |-> "pending", approved |-> << >>, rejected |-> << >>]
  <2>1. p \in Proposal
    BY <1>1, BoundsAssumption DEF Hold, Proposal, States, MaxAge
  <2>2. proposals' = Append(Swept, p)
    BY <1>1 DEF Hold
  <2> HIDE DEF p
  <2>3. proposals'[i] = Swept[i]
    BY <2>1, <2>2, <1>0, SweepFacts, AppendFacts
  <2> QED BY <2>3, SweepFacts
<1>2. ASSUME NEW t \in Voters, NEW id \in Ids, NEW op \in {"approve", "reject"}, Vote(t, op, id)
      PROVE  proposals[i].age <= TTL
  <2> DEFINE p == Tallied(Swept[id], Speaker(t), op)
  <2>1. id \in DOMAIN proposals /\ id \in kept /\ Swept[id].state = "pending"
    BY <1>2 DEF Vote, Counts, TypeOK
  <2>2. proposals' = [Swept EXCEPT ![id] = p]
    BY <1>2 DEF Vote
  <2> HIDE DEF p
  <2>3. i # id => proposals'[i] = Swept[i]
    BY <2>1, <2>2, SweepFacts
  <2>4. i = id
    BY <2>3, SweepFacts
  <2>5. proposals[id].state = "pending" /\ id \notin Overdue
    BY <2>1, SweepFacts
  <2>6. ~(proposals[id].age > TTL)
    BY <2>1, <2>5 DEF Overdue
  <2> QED BY <1>0, <2>4, <2>6, BoundsAssumption DEF Proposal, MaxAge
<1>3. ASSUME SweepOnly PROVE FALSE
  BY <1>3, SweepFacts DEF SweepOnly
<1>4. ASSUME Tick PROVE FALSE
  <2>1. proposals'[i] = [proposals[i] EXCEPT !.age = IF @ < MaxAge THEN @ + 1 ELSE @]
    BY <1>4 DEF Tick
  <2> QED BY <2>1, <1>0 DEF Proposal
<1>5. ASSUME UNCHANGED proposals PROVE FALSE
  BY <1>5
<1> QED
  BY <1>1, <1>2, <1>3, <1>4, <1>5
     DEF Next, Finish, TurnDown, List, Type, Log, LogVerdict, Show, LogInput, Write, vars

\* No vote counts on a proposal whose time is over, though expiry is only
\* noticed by the calls that sweep.
THEOREM InTimeTheorem == Spec => VotesInTime
<1>1. TypeOK /\ [Next]_vars =>
        [\A i \in DOMAIN proposals :
           \/ proposals'[i].approved # proposals[i].approved
           \/ proposals'[i].rejected # proposals[i].rejected
           => proposals[i].age <= TTL]_vars
  BY VoteInTime
<1> QED BY <1>1, TypeCorrect, PTL DEF Spec, VotesInTime

-----------------------------------------------------------------------------
\* Appending a new element to a sequence without repetition.
LEMMA AppendNoRepeat ==
  ASSUME NEW S, NEW s \in Seq(S), NEW e \in S, NoRepeat(s), e \notin SetOf(s)
  PROVE  NoRepeat(Append(s, e)) /\ SetOf(Append(s, e)) = SetOf(s) \cup {e}
<1>1. DOMAIN s = 1 .. Len(s) /\ Len(s) \in Nat
  OBVIOUS
<1> DEFINE r == Append(s, e)
<1>2. /\ DOMAIN r = 1 .. Len(s) + 1
      /\ \A i \in 1 .. Len(s) : r[i] = s[i]
      /\ r[Len(s) + 1] = e
  BY AppendFacts
<1> HIDE DEF r
<1>3. \A i \in DOMAIN r : i \in 1 .. Len(s) \/ i = Len(s) + 1
  BY <1>1, <1>2
<1>4. NoRepeat(r)
  BY <1>1, <1>2, <1>3 DEF NoRepeat, SetOf
<1>5. SetOf(r) = SetOf(s) \cup {e}
  BY <1>1, <1>2, <1>3 DEF SetOf
<1> QED BY <1>4, <1>5 DEF r

\* A vote that counts keeps the books of its proposal.
LEMMA TalliedDecided ==
  ASSUME NEW p \in Proposal, NEW a \in Approvers, NEW op \in {"approve", "reject"},
         Decided(p), p.state = "pending", a \notin SetOf(p.approved) \cup SetOf(p.rejected)
  PROVE  Decided(Tallied(p, a, op))
<1> DEFINE q == Tallied(p, a, op)
<1>1. /\ q.approved = IF op = "approve" THEN Append(p.approved, a) ELSE p.approved
      /\ q.rejected = IF op = "reject" THEN Append(p.rejected, a) ELSE p.rejected
      /\ q.state = Verdict(q.approved, q.rejected)
  BY TalliedType
<1> SUFFICES Decided(q)
  OBVIOUS
<1> HIDE DEF q
<1>2. p.approved \in Seq(Approvers) /\ p.rejected \in Seq(Approvers)
  BY DEF Proposal
<1>3. /\ NoRepeat(p.approved) /\ NoRepeat(p.rejected)
      /\ SetOf(p.approved) \cap SetOf(p.rejected) = {}
  BY DEF Decided
<1>4. /\ NoRepeat(q.approved) /\ NoRepeat(q.rejected)
      /\ SetOf(q.approved) \cap SetOf(q.rejected) = {}
  <2>1. CASE op = "approve"
    BY <2>1, <1>1, <1>2, <1>3, AppendNoRepeat
  <2>2. CASE op = "reject"
    BY <2>2, <1>1, <1>2, <1>3, AppendNoRepeat
  <2> QED BY <2>1, <2>2
<1>5. q.approved \in Seq(Approvers) /\ q.rejected \in Seq(Approvers)
  BY <1>1, <1>2, AppendFacts
<1>6. Len(q.approved) \in Nat /\ Len(q.rejected) \in Nat
  BY <1>5
<1>7. CASE Len(q.approved) >= Quorum
  \* The last approval came in while the rejections still left room for it.
  <2>1. q.state = "executed"
    BY <1>1, <1>7 DEF Verdict
  <2> QED BY <2>1, <1>4, <1>7 DEF Decided
<1>8. CASE ~(Len(q.approved) >= Quorum)
  <2>1. Len(q.approved) < Quorum
    BY <1>6, <1>8, ConfigAssumption DEF ValidConfig
  <2>2. q.state = IF Cardinality(Approvers) - Len(q.rejected) < Quorum THEN "rejected" ELSE "pending"
    BY <1>1, <1>8 DEF Verdict
  <2>3. Cardinality(Approvers) - Len(q.rejected) \in Int /\ Quorum \in Int
    BY <1>6, ApproversCount, ConfigAssumption DEF ValidConfig
  <2> QED BY <2>1, <2>2, <2>3, <1>4 DEF Decided
<1> QED BY <1>7, <1>8
-----------------------------------------------------------------------------
\* The inductive invariant: the books of each proposal, what is on the PTY,
\* and what the threads carry there.  OnlyApprovedRuns alone is not
\* inductive: Write relies on what its thread has carried since the vote.
IInv == TypeOK /\ VotesDecide /\ OnlyApprovedRuns /\ CarriedOnce

LEMMA InitIInv == Init => IInv
<1> SUFFICES ASSUME Init PROVE IInv
  OBVIOUS
<1>1. TypeOK
  BY InitTypes
<1>2. DOMAIN proposals = {} /\ DOMAIN pty = {}
  BY DEF Init
<1>3. VotesDecide /\ OnlyApprovedRuns
  BY <1>2 DEF VotesDecide, OnlyApprovedRuns
<1>4. CarriedOnce
  BY DEF Init, CarriedOnce, Carries
<1> QED BY <1>1, <1>3, <1>4 DEF IInv

\* Every step keeps the books of each proposal.
LEMMA NextDecides == TypeOK /\ VotesDecide /\ [Next]_vars => VotesDecide'
<1> SUFFICES ASSUME TypeOK, VotesDecide, [Next]_vars PROVE VotesDecide'
  OBVIOUS
<1>0. /\ Len(proposals) \in Nat
      /\ DOMAIN proposals = 1 .. Len(proposals)
      /\ \A i \in DOMAIN proposals : proposals[i] \in Proposal /\ Decided(proposals[i])
  BY DEF TypeOK, VotesDecide
<1>a. \A i \in DOMAIN proposals : Decided(Swept[i])
  BY <1>0, SweepFacts DEF Decided, Overdue
<1>1. ASSUME NEW t \in Guests, Hold(t) PROVE VotesDecide'
  <2> DEFINE p == [who |-> t, age |-> 0, state |-> "pending", approved |-> << >>, rejected |-> << >>]
  <2>1. p \in Proposal
    BY <1>1, BoundsAssumption DEF Hold, Proposal, States, MaxAge
  <2>2. proposals' = Append(Swept, p)
    BY <1>1 DEF Hold
  <2>3. Decided(p)
    <3>1. /\ DOMAIN p.approved = {} /\ DOMAIN p.rejected = {}
          /\ Len(p.approved) = 0 /\ Len(p.rejected) = 0 /\ p.state = "pending"
      OBVIOUS
    <3>2. Quorum > 0 /\ Cardinality(Approvers) - 0 >= Quorum
      BY ApproversCount, ConfigAssumption DEF ValidConfig
    <3> HIDE DEF p
    <3> QED BY <3>1, <3>2 DEF Decided, NoRepeat, SetOf
  <2> HIDE DEF p
  <2>4. /\ DOMAIN proposals' = DOMAIN proposals \cup {Len(proposals) + 1}
        /\ \A i \in DOMAIN proposals : proposals'[i] = Swept[i]
        /\ proposals'[Len(proposals) + 1] = p
    BY <2>1, <2>2, <1>0, SweepFacts, AppendFacts
  <2> QED BY <2>3, <2>4, <1>a DEF VotesDecide
<1>2. ASSUME NEW t \in Voters, NEW id \in Ids, NEW op \in {"approve", "reject"}, Vote(t, op, id)
      PROVE  VotesDecide'
  <2> DEFINE p == Tallied(Swept[id], Speaker(t), op)
  <2>1. /\ id \in DOMAIN proposals /\ Speaker(t) \in Approvers /\ Swept[id].state = "pending"
        /\ Speaker(t) \notin SetOf(Swept[id].approved) \cup SetOf(Swept[id].rejected)
    BY <1>2, SweepFacts DEF Vote, Counts, TypeOK
  <2>2. Swept[id] \in Proposal
    BY <2>1, <1>0, SweepFacts
  <2>3. Decided(p)
    BY <2>1, <2>2, <1>a, TalliedDecided
  <2>4. proposals' = [Swept EXCEPT ![id] = p]
    BY <1>2 DEF Vote
  <2> HIDE DEF p
  <2>5. DOMAIN proposals' = DOMAIN proposals /\ \A i \in DOMAIN proposals : proposals'[i] = IF i = id THEN p ELSE Swept[i]
    BY <2>1, <2>4, SweepFacts
  <2> QED BY <2>3, <2>5, <1>a DEF VotesDecide
<1>3. ASSUME SweepOnly PROVE VotesDecide'
  BY <1>3, <1>a, SweepFacts DEF SweepOnly, VotesDecide
<1>4. ASSUME Tick PROVE VotesDecide'
  <2>1. proposals' = [n \in DOMAIN proposals |->
                       [proposals[n] EXCEPT !.age = IF @ < MaxAge THEN @ + 1 ELSE @]]
    BY <1>4 DEF Tick
  <2>2. \A i \in DOMAIN proposals :
          /\ proposals'[i].state = proposals[i].state
          /\ proposals'[i].approved = proposals[i].approved
          /\ proposals'[i].rejected = proposals[i].rejected
    BY <2>1, <1>0 DEF Proposal
  <2>3. DOMAIN proposals' = DOMAIN proposals
    BY <2>1
  <2> QED BY <2>2, <2>3, <1>0 DEF VotesDecide, Decided
<1>5. ASSUME UNCHANGED proposals PROVE VotesDecide'
  BY <1>5 DEF VotesDecide
<1> QED
  BY <1>1, <1>2, <1>3, <1>4, <1>5
     DEF Next, Finish, TurnDown, List, Type, Log, LogVerdict, Show, LogInput, Write, vars
-----------------------------------------------------------------------------
\* What an executed proposal was, it stays: the keystrokes on the PTY remain
\* justified by later steps.
LEMMA RunsIfUnwritten ==
  ASSUME TypeOK, OnlyApprovedRuns, [Next]_vars, pty' = pty
  PROVE  OnlyApprovedRuns'
<1>1. \A k \in DOMAIN pty : pty[k].id # 0 => Stays(pty[k].id)
  BY SettledStay DEF OnlyApprovedRuns
<1>2. "executed" \in Settled
  BY DEF Settled, States
<1> QED BY <1>1, <1>2 DEF OnlyApprovedRuns, Stays

\* As long as no thread takes up new keystrokes and none is written, what the
\* threads carry stays justified.
LEMMA NoNewCarrier ==
  ASSUME IInv, [Next]_vars, pty' = pty,
         \A u \in Threads : Carries(u)' =>
           /\ Carries(u) /\ job'[u] = job[u]
           /\ job[u].id = 0 => pc'[u] \in {"input", "write"}
  PROVE  CarriedOnce'
<1> SUFFICES ASSUME NEW t \in Threads, Carries(t)'
             PROVE  IF job'[t].id = 0 THEN pc'[t] \in {"input", "write"} /\ job'[t].who \notin Supervised
                    ELSE /\ job'[t].id \in DOMAIN proposals'
                         /\ proposals'[job'[t].id].state = "executed"
                         /\ proposals'[job'[t].id].who = job'[t].who
                         /\ \A u \in Threads : Carries(u)' /\ job'[u].id = job'[t].id => u = t
                         /\ \A k \in DOMAIN pty' : pty'[k].id # job'[t].id
  BY DEF CarriedOnce
<1>1. Carries(t) /\ job'[t] = job[t]
  OBVIOUS
<1>2. CASE job[t].id = 0
  BY <1>1, <1>2 DEF IInv, CarriedOnce
<1>3. CASE job[t].id # 0
  <2>1. /\ job[t].id \in DOMAIN proposals
        /\ proposals[job[t].id].state = "executed"
        /\ proposals[job[t].id].who = job[t].who
        /\ \A u \in Threads : Carries(u) /\ job[u].id = job[t].id => u = t
        /\ \A k \in DOMAIN pty : pty[k].id # job[t].id
    BY <1>1, <1>3 DEF IInv, CarriedOnce
  <2>2. Stays(job[t].id)
    BY <2>1, SettledStay DEF IInv
  <2> QED BY <1>1, <1>3, <2>1, <2>2 DEF Stays, Settled, States
<1> QED BY <1>2, <1>3

\* Every step keeps what is on the PTY, and on its way there, justified.
LEMMA NextRuns == IInv /\ [Next]_vars => OnlyApprovedRuns' /\ CarriedOnce'
<1> SUFFICES ASSUME IInv, [Next]_vars PROVE OnlyApprovedRuns' /\ CarriedOnce'
  OBVIOUS
<1> USE DEF IInv
<1>1. ASSUME NEW t \in Guests, Hold(t) PROVE OnlyApprovedRuns' /\ CarriedOnce'
  <2>1. /\ t \in Threads /\ pty' = pty
        /\ Start(t, "log", [id |-> Len(proposals) + 1, op |-> "propose", by |-> t, who |-> t,
                            state |-> "pending"])
    BY <1>1 DEF Hold, Threads
  <2>2. /\ job'[t].state = "pending"
        /\ \A u \in Threads \ {t} : pc'[u] = pc[u] /\ job'[u] = job[u]
    BY <2>1 DEF Start, TypeOK
  <2>3. \A u \in Threads : Carries(u)' => Carries(u) /\ job'[u] = job[u] /\ pc'[u] = pc[u]
    BY <2>2 DEF Carries
  <2>4. \A u \in Threads : Carries(u)' /\ job[u].id = 0 => pc'[u] \in {"input", "write"}
    BY <2>3 DEF CarriedOnce
  <2> QED BY <2>1, <2>3, <2>4, RunsIfUnwritten, NoNewCarrier
<1>2. ASSUME NEW t \in Voters, NEW id \in Ids, NEW op \in {"approve", "reject"}, Vote(t, op, id)
      PROVE  OnlyApprovedRuns' /\ CarriedOnce'
  <2> DEFINE p == Tallied(Swept[id], Speaker(t), op)
             j == [id |-> id, op |-> op, by |-> Speaker(t), who |-> p.who, state |-> p.state]
  <2>1. /\ t \in Threads /\ pty' = pty /\ Start(t, "log", j)
        /\ proposals' = [Swept EXCEPT ![id] = p]
    BY <1>2 DEF Vote, Voters, Threads
  <2>2. id \in DOMAIN proposals /\ id # 0 /\ Swept[id].state = "pending"
    BY <1>2 DEF Vote, Counts, TypeOK, Ids
  <2>3. proposals[id].state = "pending"
    BY <2>2, SweepFacts
  <2>4. j.id = id /\ j.who = p.who /\ j.state = p.state
    OBVIOUS
  <2> HIDE DEF j
  <2>5. /\ pc'[t] = "log" /\ job'[t] = j
        /\ \A u \in Threads \ {t} : pc'[u] = pc[u] /\ job'[u] = job[u]
    BY <2>1 DEF Start, TypeOK
  <2> HIDE DEF p
  <2>6. id \in DOMAIN proposals' /\ proposals'[id] = p
    BY <2>1, <2>2, SweepFacts
  <2>7. /\ \A u \in Threads : Carries(u) => job[u].id # id
        /\ \A k \in DOMAIN pty : pty[k].id # id
    BY <2>2, <2>3 DEF CarriedOnce, OnlyApprovedRuns
  <2>8. ASSUME NEW u \in Threads, Carries(u)'
        PROVE  IF job'[u].id = 0 THEN pc'[u] \in {"input", "write"} /\ job'[u].who \notin Supervised
               ELSE /\ job'[u].id \in DOMAIN proposals'
                    /\ proposals'[job'[u].id].state = "executed"
                    /\ proposals'[job'[u].id].who = job'[u].who
                    /\ \A v \in Threads : Carries(v)' /\ job'[v].id = job'[u].id => v = u
                    /\ \A k \in DOMAIN pty' : pty'[k].id # job'[u].id
    <3>1. CASE u = t
      <4>1. p.state = "executed"
        BY <2>4, <2>5, <2>8, <3>1 DEF Carries
      <4>2. \A v \in Threads : Carries(v)' /\ job'[v].id = id => v = t
        BY <2>5, <2>7 DEF Carries
      <4> QED BY <2>1, <2>2, <2>4, <2>5, <2>6, <2>7, <3>1, <4>1, <4>2
    <3>2. CASE u # t
      <4>1. Carries(u) /\ job'[u] = job[u] /\ pc'[u] = pc[u] /\ job[u].id # id
        BY <2>5, <2>7, <2>8, <3>2 DEF Carries
      <4>2. CASE job[u].id = 0
        BY <4>1, <4>2 DEF CarriedOnce
      <4>3. CASE job[u].id # 0
        <5>1. /\ job[u].id \in DOMAIN proposals
              /\ proposals[job[u].id].state = "executed"
              /\ proposals[job[u].id].who = job[u].who
              /\ \A v \in Threads : Carries(v) /\ job[v].id = job[u].id => v = u
              /\ \A k \in DOMAIN pty : pty[k].id # job[u].id
          BY <4>1, <4>3 DEF CarriedOnce
        <5>2. Stays(job[u].id)
          BY <5>1, SettledStay
        <5>3. \A v \in Threads : Carries(v)' /\ job'[v].id = job[u].id => v = u
          BY <2>4, <2>5, <4>1, <5>1 DEF Carries
        <5> QED BY <2>1, <4>1, <4>3, <5>1, <5>2, <5>3 DEF Stays, Settled, States
      <4> QED BY <4>2, <4>3
    <3> QED BY <3>1, <3>2
  <2>9. CarriedOnce'
    BY <2>8 DEF CarriedOnce
  <2> QED BY <2>1, <2>9, RunsIfUnwritten
<1>3. ASSUME UNCHANGED <<pc, job, pty>> PROVE OnlyApprovedRuns' /\ CarriedOnce'
  <2>1. \A u \in Threads : Carries(u)' => Carries(u) /\ job'[u] = job[u] /\ pc'[u] = pc[u]
    BY <1>3 DEF Carries
  <2>2. \A u \in Threads : Carries(u)' /\ job[u].id = 0 => pc'[u] \in {"input", "write"}
    BY <2>1 DEF CarriedOnce
  <2> QED BY <1>3, <2>1, <2>2, RunsIfUnwritten, NoNewCarrier
<1>4. ASSUME NEW t \in Threads, Type(t) PROVE OnlyApprovedRuns' /\ CarriedOnce'
  <2> DEFINE j == [id |-> 0, op |-> "type", by |-> Speaker(t), who |-> Speaker(t), state |-> "executed"]
  <2>1. Start(t, "input", j) /\ UNCHANGED <<proposals, pty>>
    BY <1>4 DEF Type
  <2>2. j.id = 0 /\ j.who = Speaker(t)
    OBVIOUS
  <2> HIDE DEF j
  <2>3. /\ pc'[t] = "input" /\ job'[t] = j
        /\ \A u \in Threads \ {t} : pc'[u] = pc[u] /\ job'[u] = job[u]
    BY <2>1 DEF Start, TypeOK
  <2>4. Speaker(t) \notin Supervised
    BY <1>4, ConfigAssumption, NamesAssumption DEF Type, Speaker
  <2>5. CarriedOnce'
    <3>1. \A u \in Threads \ {t} : Carries(u)' = Carries(u)
      BY <2>3 DEF Carries
    <3>2. ASSUME NEW u \in Threads, Carries(u)'
          PROVE  IF job'[u].id = 0 THEN pc'[u] \in {"input", "write"} /\ job'[u].who \notin Supervised
                 ELSE /\ job'[u].id \in DOMAIN proposals'
                      /\ proposals'[job'[u].id].state = "executed"
                      /\ proposals'[job'[u].id].who = job'[u].who
                      /\ \A v \in Threads : Carries(v)' /\ job'[v].id = job'[u].id => v = u
                      /\ \A k \in DOMAIN pty' : pty'[k].id # job'[u].id
      <4>1. CASE u = t
        BY <2>2, <2>3, <2>4, <4>1
      <4>2. CASE u # t
        BY <2>1, <2>2, <2>3, <3>1, <3>2, <4>2 DEF CarriedOnce
      <4> QED BY <4>1, <4>2
    <3> QED BY <3>2 DEF CarriedOnce
  <2> QED BY <2>1, <2>5, RunsIfUnwritten
<1>5. ASSUME NEW t \in Threads, NEW step \in {"show", "verdict", "input", "write", "idle"},
             Goto(t, step), pc[t] # "idle", pty' = pty,
             step # "idle" => (job[t].state # "executed" \/ job[t].id # 0 \/ step \in {"input", "write"})
      PROVE  OnlyApprovedRuns' /\ CarriedOnce'
  <2>1. /\ pc'[t] = step /\ (step # "idle" => job' = job)
        /\ \A u \in Threads \ {t} : pc'[u] = pc[u] /\ job'[u] = job[u]
    BY <1>5, GotoTypes
  <2>2. \A u \in Threads : Carries(u)' => Carries(u) /\ job'[u] = job[u]
    BY <1>5, <2>1 DEF Carries
  <2>3. ASSUME NEW u \in Threads, Carries(u)', job[u].id = 0 PROVE pc'[u] \in {"input", "write"}
    <3>1. CASE u = t
      BY <1>5, <2>1, <2>2, <2>3, <3>1 DEF Carries
    <3>2. CASE u # t
      BY <2>1, <2>2, <2>3, <3>2 DEF CarriedOnce
    <3> QED BY <3>1, <3>2
  <2> QED BY <1>5, <2>2, <2>3, RunsIfUnwritten, NoNewCarrier
<1>6. ASSUME NEW t \in Threads, Log(t) \/ LogVerdict(t) \/ Show(t) \/ LogInput(t)
      PROVE  OnlyApprovedRuns' /\ CarriedOnce'
  <2>1. pc[t] \in {"log", "verdict"} => (job[t].state # "executed" \/ job[t].id # 0)
    BY DEF TypeOK
  <2>2. CASE Log(t)
    BY <2>1, <2>2, <1>5 DEF Log
  <2>3. CASE LogVerdict(t)
    BY <2>1, <2>3, <1>5 DEF LogVerdict
  <2>4. CASE Show(t)
    BY <2>4, <1>5 DEF Show
  <2>5. CASE LogInput(t)
    BY <2>5, <1>5 DEF LogInput
  <2> QED BY <1>6, <2>2, <2>3, <2>4, <2>5
<1>7. ASSUME NEW t \in Threads, Write(t) PROVE OnlyApprovedRuns' /\ CarriedOnce'
  <2> DEFINE id == job[t].id
             chunk == [id |-> id, who |-> job[t].who]
  <2>1. /\ pty' = Append(pty, chunk) /\ Goto(t, "idle") /\ proposals' = proposals /\ Carries(t)
    BY <1>7 DEF Write, Carries, TypeOK
  <2>2. chunk.id = id /\ chunk.who = job[t].who /\ chunk \in [id : 0 .. MaxProposals, who : Guests \cup {Host}]
    BY DEF TypeOK, Job
  <2> HIDE DEF chunk
  <2>3. /\ DOMAIN pty = 1 .. Len(pty) /\ Len(pty) \in Nat
        /\ DOMAIN pty' = 1 .. Len(pty) + 1
        /\ \A k \in DOMAIN pty : pty'[k] = pty[k]
        /\ pty'[Len(pty) + 1] = chunk
    BY <2>1, <2>2, AppendFacts DEF TypeOK
  <2>4. /\ id = 0 => job[t].who \notin Supervised
        /\ id # 0 => /\ id \in DOMAIN proposals
                     /\ proposals[id].state = "executed"
                     /\ proposals[id].who = job[t].who
                     /\ \A u \in Threads : Carries(u) /\ job[u].id = id => u = t
                     /\ \A k \in DOMAIN pty : pty[k].id # id
    BY <2>1 DEF CarriedOnce
  <2>5. id # 0 => NoRepeat(proposals[id].approved) /\ Len(proposals[id].approved) >= Quorum
    BY <2>4 DEF VotesDecide, Decided
  <2>6. OnlyApprovedRuns'
    <3> SUFFICES ASSUME NEW k \in DOMAIN pty'
                 PROVE  /\ pty'[k].who \in Supervised => pty'[k].id # 0
                        /\ pty'[k].id # 0 =>
                             /\ pty'[k].id \in DOMAIN proposals'
                             /\ proposals'[pty'[k].id].who = pty'[k].who
                             /\ proposals'[pty'[k].id].state = "executed"
                             /\ NoRepeat(proposals'[pty'[k].id].approved)
                             /\ Len(proposals'[pty'[k].id].approved) >= Quorum
                             /\ \A n \in DOMAIN pty' : pty'[n].id = pty'[k].id => n = k
      BY DEF OnlyApprovedRuns
    <3>1. \A n \in DOMAIN pty' : n \in DOMAIN pty \/ n = Len(pty) + 1
      BY <2>3
    <3>2. CASE k = Len(pty) + 1
      BY <2>1, <2>2, <2>3, <2>4, <2>5, <3>1, <3>2
    <3>3. CASE k \in DOMAIN pty
      <4>1. pty'[k] = pty[k]
        BY <2>3, <3>3
      <4>2. /\ pty[k].who \in Supervised => pty[k].id # 0
            /\ pty[k].id # 0 =>
                 /\ pty[k].id \in DOMAIN proposals
                 /\ proposals[pty[k].id].who = pty[k].who
                 /\ proposals[pty[k].id].state = "executed"
                 /\ NoRepeat(proposals[pty[k].id].approved)
                 /\ Len(proposals[pty[k].id].approved) >= Quorum
                 /\ \A n \in DOMAIN pty : pty[n].id = pty[k].id => n = k
        BY <3>3 DEF OnlyApprovedRuns
      <4>3. pty[k].id # 0 => \A n \in DOMAIN pty' : pty'[n].id = pty[k].id => n = k
        BY <2>2, <2>3, <2>4, <3>1, <3>3, <4>2
      <4> QED BY <2>1, <4>1, <4>2, <4>3
    <3> QED BY <3>1, <3>2, <3>3
  <2>7. /\ pc'[t] = "idle"
        /\ \A u \in Threads \ {t} : pc'[u] = pc[u] /\ job'[u] = job[u]
    BY <2>1, GotoTypes
  <2>8. ASSUME NEW u \in Threads, Carries(u)'
        PROVE  IF job'[u].id = 0 THEN pc'[u] \in {"input", "write"} /\ job'[u].who \notin Supervised
               ELSE /\ job'[u].id \in DOMAIN proposals'
                    /\ proposals'[job'[u].id].state = "executed"
                    /\ proposals'[job'[u].id].who = job'[u].who
                    /\ \A v \in Threads : Carries(v)' /\ job'[v].id = job'[u].id => v = u
                    /\ \A k \in DOMAIN pty' : pty'[k].id # job'[u].id
    <3>1. u # t /\ Carries(u) /\ job'[u] = job[u] /\ pc'[u] = pc[u]
      BY <2>7, <2>8 DEF Carries
    <3>2. CASE job[u].id = 0
      BY <3>1, <3>2 DEF CarriedOnce
    <3>3. CASE job[u].id # 0
      <4>1. /\ job[u].id \in DOMAIN proposals
            /\ proposals[job[u].id].state = "executed"
            /\ proposals[job[u].id].who = job[u].who
            /\ \A v \in Threads : Carries(v) /\ job[v].id = job[u].id => v = u
            /\ \A k \in DOMAIN pty : pty[k].id # job[u].id
        BY <3>1, <3>3 DEF CarriedOnce
      <4>2. job[u].id # id
        BY <2>1, <3>1, <4>1
      <4>3. \A k \in DOMAIN pty' : pty'[k].id # job[u].id
        BY <2>2, <2>3, <4>1, <4>2
      <4>4. \A v \in Threads : Carries(v)' /\ job'[v].id = job[u].id => v = u
        BY <2>7, <4>1 DEF Carries
      <4> QED BY <2>1, <3>1, <3>3, <4>1, <4>3, <4>4
    <3> QED BY <3>2, <3>3
  <2>9. CarriedOnce'
    BY <2>8 DEF CarriedOnce
  <2> QED BY <2>6, <2>9
<1>8. ASSUME SweepOnly \/ Tick \/ UNCHANGED vars PROVE OnlyApprovedRuns' /\ CarriedOnce'
  BY <1>3, <1>8 DEF SweepOnly, Tick, vars
<1> QED
  BY <1>1, <1>2, <1>4, <1>6, <1>7, <1>8 DEF Next, Finish, TurnDown, List

\* The inductive invariant holds in every reachable state.
THEOREM Invariant == Spec => []IInv
<1>1. Init => IInv
  BY InitIInv
<1>2. IInv /\ [Next]_vars => IInv'
  BY NextTypes, NextDecides, NextRuns DEF IInv
<1> QED BY <1>1, <1>2, PTL DEF Spec

\* A proposal's state is what its votes make of it.
THEOREM VotesTheorem == Spec => []VotesDecide
<1>1. IInv => VotesDecide
  BY DEF IInv
<1> QED BY <1>1, Invariant, PTL

\* Only what a quorum of different approvers let through is on the PTY, once.
THEOREM RunsTheorem == Spec => []OnlyApprovedRuns
<1>1. IInv => OnlyApprovedRuns
  BY DEF IInv
<1> QED BY <1>1, Invariant, PTL

\* Approved keystrokes are in the hands of one thread, and not yet written.
THEOREM CarriedTheorem == Spec => []CarriedOnce
<1>1. IInv => CarriedOnce
  BY DEF IInv
<1> QED BY <1>1, Invariant, PTL
-----------------------------------------------------------------------------
(* The audit trail and the PTY *)

Copies(s, e) == {k \in DOMAIN s : s[k] = e}
Chunk(id, who) == [id |-> id, who |-> who]
InputLine(who) == [kind |-> "input", who |-> who]
ExecuteLine(who) == [kind |-> "execute", who |-> who]

\* The threads between the input line and the PTY.
Writers(id, who) == {t \in Threads : pc[t] = "write" /\ job[t].id = id /\ job[t].who = who}

Tallies(id, who) ==
  /\ IsFiniteSet(Writers(id, who))
  /\ Cardinality(Copies(pty, Chunk(id, who))) + Cardinality(Writers(id, who))
       <= Cardinality(Copies(trail[id], InputLine(who)))

\* A thread on its way to the PTY has its execute line in the trail.
Backed(t) ==
  /\ pc[t] \in {"input", "write"} \/ (pc[t] = "show" /\ job[t].state = "executed")
  /\ job[t].id # 0
  => ExecuteLine(job[t].who) \in SetOf(trail[job[t].id])

Executes ==
  \A k \in DOMAIN pty : pty[k].id # 0 => ExecuteLine(pty[k].who) \in SetOf(trail[pty[k].id])

Covered ==
  /\ \A id \in 0 .. MaxProposals, who \in Guests \cup {Host} : Tallies(id, who)
  /\ \A t \in Threads : Backed(t)
  /\ Executes

\* No line is lost.
Grows ==
  \A id \in 0 .. MaxProposals :
    /\ SetOf(trail[id]) \subseteq SetOf(trail'[id])
    /\ \A who \in Guests \cup {Host} :
         Cardinality(Copies(trail[id], InputLine(who))) <= Cardinality(Copies(trail'[id], InputLine(who)))

LEMMA CopiesCount ==
  ASSUME NEW S, NEW s \in Seq(S), NEW e
  PROVE  IsFiniteSet(Copies(s, e)) /\ Cardinality(Copies(s, e)) \in Nat
<1>1. IsFiniteSet(1 .. Len(s)) /\ Copies(s, e) \subseteq 1 .. Len(s)
  <2>1. Len(s) \in Int
    OBVIOUS
  <2> QED
    BY <2>1, FS_Interval DEF Copies
<1>2. IsFiniteSet(Copies(s, e))
  BY <1>1, FS_Subset
<1> QED
  BY <1>2, FS_CardinalityType

LEMMA AppendCopies ==
  ASSUME NEW S, NEW s \in Seq(S), NEW e \in S, NEW l
  PROVE  /\ SetOf(Append(s, e)) = SetOf(s) \cup {e}
         /\ e = l => Cardinality(Copies(Append(s, e), l)) = Cardinality(Copies(s, l)) + 1
         /\ e # l => Cardinality(Copies(Append(s, e), l)) = Cardinality(Copies(s, l))
<1> DEFINE t == Append(s, e)
<1>1. /\ Len(s) \in Nat /\ DOMAIN s = 1 .. Len(s) /\ DOMAIN t = 1 .. Len(s) + 1
      /\ \A i \in 1 .. Len(s) : t[i] = s[i]
      /\ t[Len(s) + 1] = e
  BY AppendFacts
<1> HIDE DEF t
<1>2. SetOf(t) = SetOf(s) \cup {e}
  BY <1>1 DEF SetOf
<1>3. ASSUME e = l PROVE Cardinality(Copies(t, l)) = Cardinality(Copies(s, l)) + 1
  <2>1. Copies(t, l) = Copies(s, l) \cup {Len(s) + 1} /\ Len(s) + 1 \notin Copies(s, l)
    BY <1>1, <1>3 DEF Copies
  <2> QED
    BY <2>1, CopiesCount, FS_AddElement
<1>4. ASSUME e # l PROVE Cardinality(Copies(t, l)) = Cardinality(Copies(s, l))
  <2>1. Copies(t, l) = Copies(s, l)
    BY <1>1, <1>4 DEF Copies
  <2> QED
    BY <2>1
<1> QED
  BY <1>2, <1>3, <1>4 DEF t

LEMMA SweptGrows ==
  ASSUME TypeOK, trail' = SweptTrail
  PROVE  Grows
<1> SUFFICES ASSUME NEW id \in 0 .. MaxProposals
             PROVE  /\ SetOf(trail[id]) \subseteq SetOf(trail'[id])
                    /\ \A who \in Guests \cup {Host} :
                         Cardinality(Copies(trail[id], InputLine(who))) <= Cardinality(Copies(trail'[id], InputLine(who)))
  BY DEF Grows
<1>1. trail[id] \in Seq(Line) /\ id \in DOMAIN trail
  BY DEF TypeOK
<1>2. \A l : Cardinality(Copies(trail[id], l)) \in Nat
  BY <1>1, CopiesCount
<1>3. CASE id \in Overdue
  <2> DEFINE e == [kind |-> "expired", who |-> proposals[id].who]
  <2>1. id \in DOMAIN proposals /\ proposals[id].who \in Guests \cup {Host}
    <3>1. id \in DOMAIN proposals /\ proposals \in Seq(Proposal)
      BY <1>3 DEF Overdue, TypeOK
    <3>2. proposals[id] \in Proposal
      BY <3>1
    <3> QED
      BY <3>1, <3>2, ConfigAssumption DEF Proposal
  <2>2. e \in Line /\ trail'[id] = Append(trail[id], e) /\ \A who : e # InputLine(who)
    BY <1>1, <1>3, <2>1 DEF Line, SweptTrail, InputLine
  <2> HIDE DEF e
  <2>3. SetOf(trail'[id]) = SetOf(trail[id]) \cup {e}
    BY <1>1, <2>2, AppendCopies
  <2>4. \A who : Cardinality(Copies(trail'[id], InputLine(who))) = Cardinality(Copies(trail[id], InputLine(who)))
    BY <1>1, <2>2, AppendCopies
  <2> QED
    BY <1>2, <2>3, <2>4
<1>4. CASE id \notin Overdue
  <2>1. trail'[id] = trail[id]
    BY <1>1, <1>4 DEF SweptTrail
  <2> QED
    BY <1>2, <2>1
<1> QED
  BY <1>3, <1>4

LEMMA SameGrows ==
  ASSUME TypeOK, trail' = trail
  PROVE  Grows
<1>1. \A id \in 0 .. MaxProposals : trail[id] \in Seq(Line)
  BY DEF TypeOK
<1>2. \A id \in 0 .. MaxProposals : \A l : Cardinality(Copies(trail[id], l)) \in Nat
  BY <1>1, CopiesCount
<1> QED
  BY <1>2 DEF Grows

LEMMA LoggedGrows ==
  ASSUME TypeOK, NEW id \in 0 .. MaxProposals, NEW line \in Line, Logged(id, line.kind, line.who)
  PROVE  /\ Grows /\ line \in SetOf(trail'[id])
         /\ Cardinality(Copies(trail'[id], line)) = Cardinality(Copies(trail[id], line)) + 1
<1>1. trail \in [0 .. MaxProposals -> Seq(Line)]
  BY DEF TypeOK
<1>2. [kind |-> line.kind, who |-> line.who] = line
  BY DEF Line
<1>3. trail' = [trail EXCEPT ![id] = Append(trail[id], line)]
  BY <1>2 DEF Logged
<1>4. trail'[id] = Append(trail[id], line) /\ \A k \in 0 .. MaxProposals : k # id => trail'[k] = trail[k]
  BY <1>1, <1>3
<1>5. \A k \in 0 .. MaxProposals : \A l : Cardinality(Copies(trail[k], l)) \in Nat
  BY <1>1, CopiesCount
<1>6. SetOf(trail'[id]) = SetOf(trail[id]) \cup {line}
  BY <1>1, <1>4, AppendCopies
<1>7. \A l : /\ line = l => Cardinality(Copies(trail'[id], l)) = Cardinality(Copies(trail[id], l)) + 1
             /\ line # l => Cardinality(Copies(trail'[id], l)) = Cardinality(Copies(trail[id], l))
  BY <1>1, <1>4, AppendCopies
<1>8. \A l : Cardinality(Copies(trail[id], l)) <= Cardinality(Copies(trail'[id], l))
  <2> SUFFICES ASSUME NEW l PROVE Cardinality(Copies(trail[id], l)) <= Cardinality(Copies(trail'[id], l))
    OBVIOUS
  <2>1. Cardinality(Copies(trail[id], l)) \in Nat
    BY <1>5
  <2> QED
    BY <1>7, <2>1
<1>9. Grows
  <2> SUFFICES ASSUME NEW k \in 0 .. MaxProposals
               PROVE  /\ SetOf(trail[k]) \subseteq SetOf(trail'[k])
                      /\ \A who : Cardinality(Copies(trail[k], InputLine(who))) <= Cardinality(Copies(trail'[k], InputLine(who)))
    BY DEF Grows
  <2>1. CASE k = id
    BY <1>6, <1>8, <2>1
  <2>2. CASE k # id
    <3>1. trail'[k] = trail[k]
      BY <1>4, <2>2
    <3>2. \A l : Cardinality(Copies(trail[k], l)) <= Cardinality(Copies(trail[k], l))
      BY <1>5
    <3> QED
      BY <3>1, <3>2
  <2> QED
    BY <2>1, <2>2
<1> QED
  BY <1>6, <1>7, <1>9

\* What the trail has gained keeps what is written covered.
LEMMA ExecutesStay ==
  ASSUME TypeOK, Executes, Grows, pty' = pty
  PROVE  Executes'
<1>1. \A k \in DOMAIN pty : pty[k].id \in 0 .. MaxProposals
  <2> DEFINE C == [id : 0 .. MaxProposals, who : Guests \cup {Host}]
  <2>1. pty \in Seq(C) /\ \A c \in C : c.id \in 0 .. MaxProposals
    BY DEF TypeOK
  <2> HIDE DEF C
  <2>2. \A k \in DOMAIN pty : pty[k] \in C
    BY <2>1
  <2> QED
    BY <2>1, <2>2
<1> QED
  BY <1>1 DEF Executes, Grows

LEMMA BackedStays ==
  ASSUME TypeOK, NEW t \in Threads, Backed(t), Grows, pc'[t] = pc[t], job'[t] = job[t]
  PROVE  Backed(t)'
<1>1. job[t].id \in 0 .. MaxProposals
  BY DEF TypeOK, Job
<1> QED
  BY <1>1 DEF Backed, Grows

\* A step in which at most thread t moves, and neither reaches nor leaves the PTY.
LEMMA CoveredStays ==
  ASSUME TypeOK, TypeOK', Covered, Grows, pty' = pty, NEW t \in Threads,
         pc[t] # "write", pc'[t] # "write", Backed(t)',
         \A u \in Threads \ {t} : pc'[u] = pc[u] /\ job'[u] = job[u]
  PROVE  Covered'
<1>1. ASSUME NEW id \in 0 .. MaxProposals, NEW who \in Guests \cup {Host} PROVE Tallies(id, who)'
  <2>1. Writers(id, who)' = Writers(id, who)
    BY DEF Writers
  <2>2. Tallies(id, who)
    BY DEF Covered
  <2>3. Cardinality(Writers(id, who)) \in Nat /\ Cardinality(Copies(pty, Chunk(id, who))) \in Nat
    BY <2>2, FS_CardinalityType, CopiesCount DEF Tallies, TypeOK
  <2>4. trail[id] \in Seq(Line)
    BY DEF TypeOK
  <2>5. Cardinality(Copies(trail[id], InputLine(who))) \in Nat
    BY <2>4, CopiesCount
  <2>6. Cardinality(Copies(trail[id], InputLine(who))) <= Cardinality(Copies(trail'[id], InputLine(who)))
    BY DEF Grows
  <2>7. Cardinality(Copies(pty, Chunk(id, who))) + Cardinality(Writers(id, who))
          <= Cardinality(Copies(trail'[id], InputLine(who)))
    <3>1. trail'[id] \in Seq(Line)
      BY DEF TypeOK
    <3>2. Cardinality(Copies(trail'[id], InputLine(who))) \in Nat
      BY <3>1, CopiesCount
    <3>3. Cardinality(Copies(pty, Chunk(id, who))) + Cardinality(Writers(id, who)) <= Cardinality(Copies(trail[id], InputLine(who)))
      BY <2>2 DEF Tallies
    <3> QED
      BY <2>3, <2>5, <2>6, <3>2, <3>3
  <2> QED
    BY <2>1, <2>2, <2>7 DEF Tallies
<1>2. ASSUME NEW u \in Threads PROVE Backed(u)'
  BY BackedStays DEF Covered
<1>3. Executes'
  BY ExecutesStay DEF Covered
<1> QED
  BY <1>1, <1>2, <1>3 DEF Covered

LEMMA CoveredStep ==
  ASSUME TypeOK, TypeOK', Covered, [Next]_vars
  PROVE  Covered'
<1>t. \A t \in Threads : job[t] \in Job /\ job[t].id \in 0 .. MaxProposals /\ job[t].who \in Guests \cup {Host}
  BY DEF TypeOK, Job
<1>1. ASSUME NEW t \in Threads, NEW step \in {"log", "input"}, NEW j \in Job, Start(t, step, j),
             pc[t] = "idle", step = "input" => j.id = 0, pty' = pty, trail' \in {trail, SweptTrail}
      PROVE  Covered'
  <2>1. /\ pc'[t] = step /\ job'[t] = j
        /\ \A u \in Threads \ {t} : pc'[u] = pc[u] /\ job'[u] = job[u]
    BY <1>1, StartTypes
  <2>2. Backed(t)'
    BY <1>1, <2>1 DEF Backed
  <2>3. Grows
    BY <1>1, SweptGrows, SameGrows
  <2> QED
    BY <1>1, <2>1, <2>2, <2>3, CoveredStays
<1>2. ASSUME NEW t \in Guests, Hold(t) PROVE Covered'
  <2> DEFINE j == [id |-> Len(proposals) + 1, op |-> "propose", by |-> t, who |-> t, state |-> "pending"]
  <2>1. j \in Job /\ t \in Threads
    BY <1>2, BoundsAssumption, SMTT(30) DEF Hold, TypeOK, Job, Ops, States, Threads
  <2>2. Start(t, "log", j) /\ pc[t] = "idle" /\ pty' = pty /\ trail' = SweptTrail
    BY <1>2 DEF Hold
  <2> HIDE DEF j
  <2> QED
    BY <1>1, <2>1, <2>2
<1>3. ASSUME NEW t \in Voters, NEW id \in Ids, NEW op \in {"approve", "reject"}, Vote(t, op, id) PROVE Covered'
  <2>1. PICK j : Start(t, "log", j) /\ pc[t] = "idle" /\ pty' = pty /\ trail' = SweptTrail
    BY <1>3 DEF Vote
  <2>2. t \in Threads
    BY DEF Voters, Threads
  <2>3. job'[t] = j
    BY <2>1, <2>2 DEF Start, TypeOK
  <2>4. j \in Job
    BY <2>2, <2>3 DEF TypeOK
  <2> QED
    BY <1>1, <2>1, <2>2, <2>4
<1>4. ASSUME NEW t \in Threads, Type(t) PROVE Covered'
  <2> DEFINE j == [id |-> 0, op |-> "type", by |-> Speaker(t), who |-> Speaker(t), state |-> "executed"]
  <2>1. j \in Job /\ j.id = 0
    BY BoundsAssumption DEF Job, Ops, States, Speaker
  <2>2. Start(t, "input", j) /\ pc[t] = "idle" /\ pty' = pty /\ trail' = trail
    BY <1>4 DEF Type
  <2> HIDE DEF j
  <2> QED
    BY <1>1, <2>1, <2>2
<1>5. ASSUME NEW t \in Threads, Log(t) PROVE Covered'
  <2> DEFINE step == IF job[t].state = "pending" THEN "show" ELSE "verdict"
             line == [kind |-> job[t].op, who |-> job[t].by]
  <2>1. pc[t] = "log" /\ Logged(job[t].id, line.kind, line.who) /\ Goto(t, step) /\ pty' = pty
    BY <1>5 DEF Log
  <2>2. line \in Line
    BY <1>5 DEF Log, TypeOK, Job, Ops, Line
  <2>3. step \in {"show", "verdict"} /\ (step = "show" => job[t].state = "pending")
    OBVIOUS
  <2> HIDE DEF step, line
  <2>4. Grows
    BY <1>t, <2>1, <2>2, LoggedGrows
  <2>5. pc'[t] = step /\ job' = job /\ \A u \in Threads \ {t} : pc'[u] = pc[u]
    BY <2>1, <2>3, GotoTypes
  <2>6. Backed(t)'
    BY <2>3, <2>5 DEF Backed
  <2> QED
    BY <2>1, <2>3, <2>4, <2>5, <2>6, CoveredStays
<1>6. ASSUME NEW t \in Threads, LogVerdict(t) PROVE Covered'
  <2> DEFINE line == [kind |-> IF job[t].state = "executed" THEN "execute" ELSE "rejected", who |-> job[t].who]
  <2>1. pc[t] = "verdict" /\ Logged(job[t].id, line.kind, line.who) /\ Goto(t, "show") /\ pty' = pty
    BY <1>6 DEF LogVerdict
  <2>2. line \in Line /\ (job[t].state = "executed" => line = ExecuteLine(job[t].who))
    BY <1>t DEF Line, ExecuteLine
  <2> HIDE DEF line
  <2>3. Grows /\ line \in SetOf(trail'[job[t].id])
    BY <1>t, <2>1, <2>2, LoggedGrows
  <2>4. pc'[t] = "show" /\ job' = job /\ \A u \in Threads \ {t} : pc'[u] = pc[u]
    BY <2>1, GotoTypes
  <2>5. Backed(t)'
    BY <2>2, <2>3, <2>4 DEF Backed
  <2> QED
    BY <2>1, <2>3, <2>4, <2>5, CoveredStays
<1>7. ASSUME NEW t \in Threads, Show(t) PROVE Covered'
  <2> DEFINE step == IF job[t].state = "executed" THEN "input" ELSE "idle"
  <2>1. pc[t] = "show" /\ Goto(t, step) /\ pty' = pty /\ trail' = trail
    BY <1>7 DEF Show
  <2>2. step \in {"input", "idle"} /\ (step = "input" => job[t].state = "executed")
    OBVIOUS
  <2> HIDE DEF step
  <2>3. /\ pc'[t] = step /\ (step # "idle" => job' = job)
        /\ \A u \in Threads \ {t} : pc'[u] = pc[u] /\ job'[u] = job[u]
    BY <2>1, <2>2, GotoTypes
  <2>4. Backed(t)'
    BY <2>1, <2>2, <2>3 DEF Backed, Covered
  <2>5. Grows
    BY <2>1, SameGrows
  <2> QED
    BY <2>1, <2>2, <2>3, <2>4, <2>5, CoveredStays
<1>8. ASSUME NEW t \in Threads, LogInput(t) PROVE Covered'
  <2> DEFINE line == InputLine(job[t].who)
  <2>1. pc[t] = "input" /\ Logged(job[t].id, line.kind, line.who) /\ Goto(t, "write") /\ pty' = pty
    BY <1>8 DEF LogInput, InputLine
  <2>2. line \in Line
    BY <1>t DEF Line, InputLine
  <2>l. line = InputLine(job[t].who)
    OBVIOUS
  <2> HIDE DEF line
  <2>3. /\ Grows
        /\ Cardinality(Copies(trail'[job[t].id], line)) = Cardinality(Copies(trail[job[t].id], line)) + 1
    BY <1>t, <2>1, <2>2, LoggedGrows
  <2>4. pc'[t] = "write" /\ job' = job /\ \A u \in Threads \ {t} : pc'[u] = pc[u]
    BY <2>1, GotoTypes
  <2>5. ASSUME NEW u \in Threads PROVE Backed(u)'
    <3>1. CASE u = t
      <4>1. Backed(t)
        BY DEF Covered
      <4>2. job[t].id \in 0 .. MaxProposals
        BY <1>t
      <4> QED
        BY <2>1, <2>3, <2>4, <3>1, <4>1, <4>2 DEF Backed, Grows
    <3>2. CASE u # t
      BY <2>3, <2>4, <3>2, BackedStays DEF Covered
    <3> QED
      BY <3>1, <3>2
  <2>6. ASSUME NEW id \in 0 .. MaxProposals, NEW who \in Guests \cup {Host} PROVE Tallies(id, who)'
    <3>1. Tallies(id, who)
      BY DEF Covered
    <3>2. trail[id] \in Seq(Line)
      BY DEF TypeOK
    <3>3. /\ Cardinality(Writers(id, who)) \in Nat /\ Cardinality(Copies(pty, Chunk(id, who))) \in Nat
          /\ Cardinality(Copies(trail[id], InputLine(who))) \in Nat
      BY <3>1, <3>2, FS_CardinalityType, CopiesCount DEF Tallies, TypeOK
    <3>4. CASE job[t].id = id /\ job[t].who = who
      <4>1. Writers(id, who)' = Writers(id, who) \cup {t} /\ t \notin Writers(id, who)
        BY <2>1, <2>4, <3>4 DEF Writers
      <4>2. IsFiniteSet(Writers(id, who)') /\ Cardinality(Writers(id, who)') = Cardinality(Writers(id, who)) + 1
        BY <3>1, <4>1, FS_AddElement DEF Tallies
      <4>3. Cardinality(Copies(trail'[id], InputLine(who))) = Cardinality(Copies(trail[id], InputLine(who))) + 1
        BY <2>3, <2>l, <3>4
      <4>4. Cardinality(Copies(pty, Chunk(id, who))) + Cardinality(Writers(id, who)) <= Cardinality(Copies(trail[id], InputLine(who)))
        BY <3>1 DEF Tallies
      <4>5. Cardinality(Copies(pty, Chunk(id, who))) + Cardinality(Writers(id, who)') <= Cardinality(Copies(trail'[id], InputLine(who)))
        BY <3>3, <4>2, <4>3, <4>4
      <4> QED
        BY <2>1, <4>2, <4>5 DEF Tallies
    <3>5. CASE ~(job[t].id = id /\ job[t].who = who)
      <4>1. Writers(id, who)' = Writers(id, who)
        BY <2>1, <2>4, <3>5 DEF Writers
      <4>2. trail'[id] \in Seq(Line)
        BY DEF TypeOK
      <4>3. Cardinality(Copies(trail'[id], InputLine(who))) \in Nat
        BY <4>2, CopiesCount
      <4>4. Cardinality(Copies(trail[id], InputLine(who))) <= Cardinality(Copies(trail'[id], InputLine(who)))
        BY <2>3 DEF Grows
      <4>5. Cardinality(Copies(pty, Chunk(id, who))) + Cardinality(Writers(id, who)) <= Cardinality(Copies(trail[id], InputLine(who)))
        BY <3>1 DEF Tallies
      <4>6. Cardinality(Copies(pty, Chunk(id, who))) + Cardinality(Writers(id, who)) <= Cardinality(Copies(trail'[id], InputLine(who)))
        BY <3>3, <4>3, <4>4, <4>5
      <4> QED
        BY <2>1, <3>1, <4>1, <4>6 DEF Tallies
    <3> QED
      BY <3>4, <3>5
  <2>7. Executes'
    BY <2>1, <2>3, ExecutesStay DEF Covered
  <2> QED
    BY <2>5, <2>6, <2>7 DEF Covered
<1>9. ASSUME NEW t \in Threads, Write(t) PROVE Covered'
  <2> DEFINE chunk == Chunk(job[t].id, job[t].who)
             C == [id : 0 .. MaxProposals, who : Guests \cup {Host}]
  <2>1. pc[t] = "write" /\ pty' = Append(pty, chunk) /\ Goto(t, "idle") /\ trail' = trail
    BY <1>9 DEF Write, Chunk
  <2>2. chunk \in C /\ pty \in Seq(C)
    BY <1>t DEF Chunk, TypeOK
  <2>c. chunk = Chunk(job[t].id, job[t].who) /\ chunk.id = job[t].id /\ chunk.who = job[t].who
    BY DEF Chunk
  <2> HIDE DEF chunk, C
  <2>3. pc'[t] = "idle" /\ \A u \in Threads \ {t} : pc'[u] = pc[u] /\ job'[u] = job[u]
    BY <2>1, GotoTypes
  <2>4. ASSUME NEW u \in Threads PROVE Backed(u)'
    <3>1. CASE u = t
      BY <2>3, <3>1 DEF Backed
    <3>2. CASE u # t
      BY <2>1, <2>3, <3>2, SameGrows, BackedStays DEF Covered
    <3> QED
      BY <3>1, <3>2
  <2>5. ASSUME NEW id \in 0 .. MaxProposals, NEW who \in Guests \cup {Host} PROVE Tallies(id, who)'
    <3>1. Tallies(id, who)
      BY DEF Covered
    <3>2. trail[id] \in Seq(Line)
      BY DEF TypeOK
    <3>3. /\ Cardinality(Writers(id, who)) \in Nat /\ Cardinality(Copies(pty, Chunk(id, who))) \in Nat
          /\ Cardinality(Copies(trail[id], InputLine(who))) \in Nat
      BY <2>2, <3>1, <3>2, FS_CardinalityType, CopiesCount DEF Tallies
    <3>4. CASE job[t].id = id /\ job[t].who = who
      <4>1. Writers(id, who)' = Writers(id, who) \ {t} /\ t \in Writers(id, who)
        BY <2>1, <2>3, <3>4 DEF Writers
      <4>2. IsFiniteSet(Writers(id, who)') /\ Cardinality(Writers(id, who)') = Cardinality(Writers(id, who)) - 1
        BY <3>1, <4>1, FS_RemoveElement DEF Tallies
      <4>3. Cardinality(Copies(pty', Chunk(id, who))) = Cardinality(Copies(pty, Chunk(id, who))) + 1
        BY <2>1, <2>2, <2>c, <3>4, AppendCopies
      <4>4. Cardinality(Copies(pty, Chunk(id, who))) + Cardinality(Writers(id, who)) <= Cardinality(Copies(trail[id], InputLine(who)))
        BY <3>1 DEF Tallies
      <4>5. Cardinality(Copies(pty', Chunk(id, who))) + Cardinality(Writers(id, who)') <= Cardinality(Copies(trail[id], InputLine(who)))
        BY <3>3, <4>2, <4>3, <4>4
      <4> QED
        BY <2>1, <4>2, <4>5 DEF Tallies
    <3>5. CASE ~(job[t].id = id /\ job[t].who = who)
      <4>1. Writers(id, who)' = Writers(id, who)
        BY <2>1, <2>3, <3>5 DEF Writers
      <4>2. chunk # Chunk(id, who)
        BY <2>c, <3>5 DEF Chunk
      <4>3. Cardinality(Copies(pty', Chunk(id, who))) = Cardinality(Copies(pty, Chunk(id, who)))
        BY <2>1, <2>2, <4>2, AppendCopies
      <4> QED
        BY <2>1, <3>1, <4>1, <4>3 DEF Tallies
    <3> QED
      BY <3>4, <3>5
  <2>6. Executes'
    <3>1. /\ Len(pty) \in Nat /\ DOMAIN pty = 1 .. Len(pty) /\ DOMAIN pty' = 1 .. Len(pty) + 1
          /\ \A i \in 1 .. Len(pty) : pty'[i] = pty[i]
          /\ pty'[Len(pty) + 1] = chunk
      BY <2>1, <2>2, AppendFacts
    <3> SUFFICES ASSUME NEW k \in DOMAIN pty', pty'[k].id # 0
                 PROVE  ExecuteLine(pty'[k].who) \in SetOf(trail[pty'[k].id])
      BY <2>1 DEF Executes
    <3>2. CASE k = Len(pty) + 1
      <4>1. Backed(t)
        BY DEF Covered
      <4> QED
        BY <2>1, <2>c, <3>1, <3>2, <4>1 DEF Backed
    <3>3. CASE k \in DOMAIN pty
      BY <3>1, <3>3 DEF Covered, Executes
    <3> QED
      BY <3>1, <3>2, <3>3
  <2> QED
    BY <2>4, <2>5, <2>6 DEF Covered
<1>10. ASSUME UNCHANGED <<pc, job, pty>>, trail' \in {trail, SweptTrail} PROVE Covered'
  <2>1. Grows
    BY <1>10, SweptGrows, SameGrows
  <2>2. ASSUME NEW id \in 0 .. MaxProposals, NEW who \in Guests \cup {Host} PROVE Tallies(id, who)'
    <3>1. Writers(id, who)' = Writers(id, who)
      BY <1>10 DEF Writers
    <3>2. Tallies(id, who)
      BY DEF Covered
    <3>3. trail[id] \in Seq(Line) /\ trail'[id] \in Seq(Line)
      BY DEF TypeOK
    <3>4. /\ Cardinality(Writers(id, who)) \in Nat /\ Cardinality(Copies(pty, Chunk(id, who))) \in Nat
          /\ Cardinality(Copies(trail[id], InputLine(who))) \in Nat /\ Cardinality(Copies(trail'[id], InputLine(who))) \in Nat
      BY <3>2, <3>3, FS_CardinalityType, CopiesCount DEF Tallies, TypeOK
    <3>5. Cardinality(Copies(trail[id], InputLine(who))) <= Cardinality(Copies(trail'[id], InputLine(who)))
      BY <2>1 DEF Grows
    <3>6. Cardinality(Copies(pty, Chunk(id, who))) + Cardinality(Writers(id, who)) <= Cardinality(Copies(trail[id], InputLine(who)))
      BY <3>2 DEF Tallies
    <3>7. Cardinality(Copies(pty, Chunk(id, who))) + Cardinality(Writers(id, who)) <= Cardinality(Copies(trail'[id], InputLine(who)))
      BY <3>4, <3>5, <3>6
    <3> QED
      BY <1>10, <3>1, <3>2, <3>7 DEF Tallies
  <2>3. \A u \in Threads : Backed(u)'
    BY <1>10, <2>1, BackedStays DEF Covered
  <2>4. Executes'
    BY <1>10, <2>1, ExecutesStay DEF Covered
  <2> QED
    BY <2>2, <2>3, <2>4 DEF Covered
<1>11. SweepOnly \/ Tick \/ UNCHANGED vars => UNCHANGED <<pc, job, pty>> /\ trail' \in {trail, SweptTrail}
  BY DEF SweepOnly, Tick, vars
<1> QED
  BY <1>2, <1>3, <1>4, <1>5, <1>6, <1>7, <1>8, <1>9, <1>10, <1>11 DEF Next, Finish, TurnDown, List

\* Whenever the process dies, each chunk on the PTY has an input line of its own in the
\* trail, and each proposal there its execute line.
THEOREM AuditTheorem == Spec => []AuditCoversPty
<1>1. Init => Covered
  <2> SUFFICES ASSUME Init PROVE Covered
    OBVIOUS
  <2>1. \A e : Copies(<< >>, e) = {}
    BY DEF Copies
  <2>2. \A id, who : Writers(id, who) = {}
    BY DEF Init, Writers
  <2>3. ASSUME NEW id \in 0 .. MaxProposals, NEW who \in Guests \cup {Host} PROVE Tallies(id, who)
    <3>1. Copies(pty, Chunk(id, who)) = {} /\ Copies(trail[id], InputLine(who)) = {}
      BY <2>1 DEF Init
    <3> QED
      BY <2>2, <3>1, FS_EmptySet DEF Tallies
  <2>4. \A t \in Threads : Backed(t)
    BY DEF Init, Backed
  <2>5. Executes
    BY DEF Init, Executes
  <2> QED
    BY <2>3, <2>4, <2>5 DEF Covered
<1>2. TypeOK /\ Covered => AuditCoversPty
  <2> SUFFICES ASSUME TypeOK, Covered PROVE AuditCoversPty
    OBVIOUS
  <2>1. ASSUME NEW id \in 0 .. MaxProposals, NEW who \in Guests \cup {Host}
        PROVE  Cardinality(Copies(pty, Chunk(id, who))) <= Cardinality(Copies(trail[id], InputLine(who)))
    <3>1. Tallies(id, who)
      BY DEF Covered
    <3>2. trail[id] \in Seq(Line)
      BY DEF TypeOK
    <3>3. /\ Cardinality(Writers(id, who)) \in Nat /\ Cardinality(Copies(pty, Chunk(id, who))) \in Nat
          /\ Cardinality(Copies(trail[id], InputLine(who))) \in Nat
      BY <3>1, <3>2, FS_CardinalityType, CopiesCount DEF Tallies, TypeOK
    <3>4. Cardinality(Copies(pty, Chunk(id, who))) + Cardinality(Writers(id, who)) <= Cardinality(Copies(trail[id], InputLine(who)))
      BY <3>1 DEF Tallies
    <3> QED
      BY <3>3, <3>4
  <2> QED
    BY <2>1 DEF AuditCoversPty, Covered, Executes, Copies, Chunk, InputLine, ExecuteLine
<1>3. TypeOK /\ Covered /\ [Next]_vars => Covered'
  BY NextTypes, CoveredStep
<1> QED
  BY <1>1, <1>2, <1>3, TypeCorrect, PTL DEF Spec

-----------------------------------------------------------------------------
(* Refinement: Multisig implements Ballots.  Each step of the host's       *)
(* threads is a step of the ballot or leaves what the ballot sees alone.   *)

\* The lists of voters have no repetition, so that the code's len() counts the
\* approvers that Ballots counts.
LEMMA CountVoters ==
  ASSUME NEW S, NEW s \in Seq(S), NoRepeat(s)
  PROVE  Cardinality(SetOf(s)) = Len(s)
<1>1. Len(s) \in Nat /\ DOMAIN s = 1 .. Len(s) /\ s \in [1 .. Len(s) -> S]
  OBVIOUS
<1>2. s \in [1 .. Len(s) -> SetOf(s)]
  BY <1>1 DEF SetOf
<1>3. s \in Injection(1 .. Len(s), SetOf(s))
  BY <1>1, <1>2 DEF Injection, IsInjective, NoRepeat
<1>4. s \in Surjection(1 .. Len(s), SetOf(s))
  BY <1>1, <1>2 DEF Surjection, SetOf
<1>5. ExistsBijection(1 .. Len(s), SetOf(s))
  BY <1>3, <1>4 DEF ExistsBijection, Bijection
<1> QED BY <1>1, <1>5, FS_CountingElements

\* The instance counts with the operator of this module.
LEMMA SameCardinality == \A S : B!Cardinality(S) = Cardinality(S)
BY DEF B!Cardinality, Cardinality

\* The verdict of the code is the verdict of the ballot.
LEMMA SameVerdict ==
  ASSUME NEW y \in Seq(Approvers), NEW n \in Seq(Approvers), NoRepeat(y), NoRepeat(n)
  PROVE  B!Verdict(SetOf(y), SetOf(n)) = Verdict(y, n)
<1>1. Cardinality(SetOf(y)) = Len(y) /\ Cardinality(SetOf(n)) = Len(n)
  BY CountVoters
<1> QED BY <1>1, SameCardinality DEF B!Verdict, Verdict

LEMMA InitRefines == Init => B!Init
BY DEF Init, B!Init, BStatus, BYes, BNo, BRan, Ids, B!Ids

\* What a sweep does to the ballot.
LEMMA SweepRefines ==
  ASSUME TypeOK
  PROVE  /\ Overdue \in SUBSET B!Pending
         /\ DOMAIN proposals \subseteq Ids
         /\ \A i \in Ids : B!Lapsed(Overdue)[i]
              = IF i \in DOMAIN proposals THEN Swept[i].state ELSE "none"
<1>1. DOMAIN proposals = 1 .. Len(proposals) /\ Len(proposals) <= MaxProposals /\ Len(proposals) \in Nat
  BY DEF TypeOK
<1>2. DOMAIN proposals \subseteq Ids /\ kept \subseteq DOMAIN proposals
  BY <1>1, BoundsAssumption DEF Ids, TypeOK
<1>3. Overdue \in SUBSET B!Pending
  BY <1>2 DEF Overdue, B!Pending, B!Ids, Ids, BStatus
<1>4. \A i \in Ids : B!Lapsed(Overdue)[i]
              = IF i \in DOMAIN proposals THEN Swept[i].state ELSE "none"
  BY <1>2, SweepFacts DEF B!Lapsed, B!Ids, Ids, BStatus, Overdue
<1> QED BY <1>2, <1>3, <1>4

LEMMA StepRefines == IInv /\ [Next]_vars => [B!Next]_(B!vars)
<1> SUFFICES ASSUME IInv, [Next]_vars PROVE [B!Next]_(B!vars)
  OBVIOUS
<1>0. /\ TypeOK /\ VotesDecide
      /\ Len(proposals) \in Nat
      /\ DOMAIN proposals = 1 .. Len(proposals)
      /\ DOMAIN proposals \subseteq Ids
      /\ Overdue \in SUBSET B!Pending
      /\ \A i \in DOMAIN proposals : proposals[i] \in Proposal /\ Swept[i] \in Proposal
  BY SweepFacts, SweepRefines DEF IInv, TypeOK
<1>1. ASSUME NEW t \in Guests, Hold(t) PROVE B!Next
  <2> DEFINE p == [who |-> t, age |-> 0, state |-> "pending", approved |-> << >>, rejected |-> << >>]
             id == Len(proposals) + 1
  <2>1. p \in Proposal /\ p.state = "pending" /\ SetOf(p.approved) = {} /\ SetOf(p.rejected) = {}
    BY <1>1, BoundsAssumption DEF Hold, Proposal, States, MaxAge, SetOf
  <2>2. /\ proposals' = Append(Swept, p) /\ pty' = pty
        /\ id \in Nat /\ 1 <= id /\ id <= MaxProposals
    BY <1>0, <1>1, BoundsAssumption DEF Hold
  <2>a. id \in Ids
    BY <2>2, BoundsAssumption DEF Ids
  <2> HIDE DEF p
  <2>3. /\ DOMAIN proposals' = DOMAIN proposals \cup {id}
        /\ \A i \in DOMAIN proposals : proposals'[i] = Swept[i]
        /\ proposals'[id] = p
        /\ id \notin DOMAIN proposals
    BY <2>1, <2>2, <1>0, SweepFacts, AppendFacts
  <2> HIDE DEF id
  <2>4. BStatus[id] = "none"
    BY <2>a, <2>3 DEF BStatus
  <2>5. BStatus' = [B!Lapsed(Overdue) EXCEPT ![id] = "pending"]
    <3>1. \A i \in Ids : BStatus'[i] = IF i = id THEN "pending" ELSE B!Lapsed(Overdue)[i]
      BY <2>1, <2>a, <2>3, <1>0, SweepRefines DEF BStatus
    <3> QED BY <3>1, <2>a DEF BStatus, B!Lapsed, B!Ids, Ids
  <2>6. BYes' = BYes /\ BNo' = BNo /\ BRan' = BRan
    BY <2>1, <2>2, <2>3, <1>0, SweepFacts DEF BYes, BNo, BRan
  <2>7. B!Open(id, Overdue)
    BY <2>4, <2>5, <2>6 DEF B!Open
  <2> QED BY <1>0, <2>a, <2>7 DEF B!Next, B!Ids, Ids
<1>2. ASSUME NEW t \in Voters, NEW id \in Ids, NEW op \in {"approve", "reject"}, Vote(t, op, id)
      PROVE  B!Next
  <2> DEFINE a == Speaker(t)
             p == Tallied(Swept[id], a, op)
  <2>1. /\ id \in DOMAIN proposals /\ a \in Approvers /\ Swept[id].state = "pending"
        /\ a \notin SetOf(Swept[id].approved) \cup SetOf(Swept[id].rejected)
    BY <1>0, <1>2, SweepFacts DEF Vote, Counts, TypeOK
  <2>2. Swept[id] \in Proposal /\ Decided(Swept[id])
    BY <2>1, <1>0, SweepFacts DEF VotesDecide, Decided, Overdue
  <2>3. /\ Decided(p) /\ p \in Proposal
        /\ p.state = Verdict(p.approved, p.rejected)
        /\ p.approved = IF op = "approve" THEN Append(Swept[id].approved, a) ELSE Swept[id].approved
        /\ p.rejected = IF op = "reject" THEN Append(Swept[id].rejected, a) ELSE Swept[id].rejected
    <3>1. Decided(p)
      BY <2>1, <2>2, TalliedDecided
    <3>2. p \in Proposal
      BY <2>1, <2>2, TalliedType
    <3>3. PICK s \in Proposal : s = Swept[id]
      BY <2>2
    <3>4. /\ p.state = Verdict(p.approved, p.rejected)
          /\ p.approved = IF op = "approve" THEN Append(s.approved, a) ELSE s.approved
          /\ p.rejected = IF op = "reject" THEN Append(s.rejected, a) ELSE s.rejected
      BY <2>1, <3>3, TalliedType
    <3> QED
      BY <3>1, <3>2, <3>3, <3>4, Zenon
  <2>4. proposals' = [Swept EXCEPT ![id] = p] /\ pty' = pty
    BY <1>2 DEF Vote
  <2> HIDE DEF p, a
  <2>5. /\ DOMAIN proposals' = DOMAIN proposals
        /\ \A i \in DOMAIN proposals : proposals'[i] = IF i = id THEN p ELSE Swept[i]
    BY <1>0, <2>1, <2>4, SweepFacts
  <2>6. p.state = B!Verdict(SetOf(p.approved), SetOf(p.rejected))
    <3>1. /\ p.approved \in Seq(Approvers) /\ NoRepeat(p.approved)
          /\ p.rejected \in Seq(Approvers) /\ NoRepeat(p.rejected)
      BY <2>3 DEF Proposal, Decided
    <3> QED BY <2>3, <3>1, SameVerdict
  <2>7. /\ SetOf(p.approved) = IF op = "approve" THEN SetOf(Swept[id].approved) \cup {a} ELSE SetOf(Swept[id].approved)
        /\ SetOf(p.rejected) = IF op = "reject" THEN SetOf(Swept[id].rejected) \cup {a} ELSE SetOf(Swept[id].rejected)
    <3>1. /\ Swept[id].approved \in Seq(Approvers) /\ NoRepeat(Swept[id].approved)
          /\ Swept[id].rejected \in Seq(Approvers) /\ NoRepeat(Swept[id].rejected)
      BY <2>2 DEF Proposal, Decided
    <3>2. /\ SetOf(Append(Swept[id].approved, a)) = SetOf(Swept[id].approved) \cup {a}
          /\ SetOf(Append(Swept[id].rejected, a)) = SetOf(Swept[id].rejected) \cup {a}
      BY <2>1, <3>1, AppendNoRepeat
    <3> QED BY <2>3, <3>2
  <2>8. /\ BYes[id] = SetOf(Swept[id].approved) /\ BNo[id] = SetOf(Swept[id].rejected)
        /\ BYes'[id] = SetOf(p.approved) /\ BNo'[id] = SetOf(p.rejected)
    BY <1>0, <2>1, <2>5, SweepFacts DEF BYes, BNo
  <2>9. /\ BYes' = [BYes EXCEPT ![id] = SetOf(p.approved)]
        /\ BNo' = [BNo EXCEPT ![id] = SetOf(p.rejected)]
    <3>1. \A i \in Ids : /\ BYes'[i] = IF i = id THEN SetOf(p.approved) ELSE BYes[i]
                         /\ BNo'[i] = IF i = id THEN SetOf(p.rejected) ELSE BNo[i]
      <4> SUFFICES ASSUME NEW i \in Ids
                   PROVE  /\ BYes'[i] = IF i = id THEN SetOf(p.approved) ELSE BYes[i]
                          /\ BNo'[i] = IF i = id THEN SetOf(p.rejected) ELSE BNo[i]
        OBVIOUS
      <4>1. CASE i = id
        BY <2>8, <4>1
      <4>2. CASE i \in DOMAIN proposals /\ i # id
        <5>1. /\ proposals'[i].approved = proposals[i].approved
              /\ proposals'[i].rejected = proposals[i].rejected
          BY <2>5, <4>2, SweepFacts, <1>0
        <5> QED BY <5>1, <2>5, <4>2 DEF BYes, BNo
      <4>3. CASE i \notin DOMAIN proposals
        BY <2>1, <2>5, <4>3 DEF BYes, BNo
      <4> QED BY <4>1, <4>2, <4>3
    <3> QED BY <3>1 DEF BYes, BNo
  <2>10. BStatus' = [B!Lapsed(Overdue) EXCEPT ![id] = B!Verdict(BYes'[id], BNo'[id])]
    <3>1. \A i \in Ids : BStatus'[i] = IF i = id THEN p.state ELSE B!Lapsed(Overdue)[i]
      BY <2>1, <2>5, <1>0, SweepRefines DEF BStatus
    <3> QED BY <3>1, <2>6, <2>8 DEF BStatus, B!Lapsed, B!Ids, Ids
  <2>11. id \in B!Pending \ Overdue
    BY <2>1, SweepFacts, <1>0 DEF B!Pending, B!Ids, Ids, BStatus
  <2>12. BRan' = BRan
    BY <2>4 DEF BRan
  <2>13. \/ BYes' = [BYes EXCEPT ![id] = @ \cup {a}] /\ BNo' = BNo
         \/ BNo' = [BNo EXCEPT ![id] = @ \cup {a}] /\ BYes' = BYes
    <3>1. CASE op = "approve"
      <4>1. SetOf(p.approved) = BYes[id] \cup {a} /\ SetOf(p.rejected) = BNo[id]
        BY <2>7, <2>8, <3>1
      <4>2. [BNo EXCEPT ![id] = BNo[id]] = BNo
        BY DEF BNo
      <4> QED BY <2>9, <4>1, <4>2
    <3>2. CASE op = "reject"
      <4>1. SetOf(p.rejected) = BNo[id] \cup {a} /\ SetOf(p.approved) = BYes[id]
        BY <2>7, <2>8, <3>2
      <4>2. [BYes EXCEPT ![id] = BYes[id]] = BYes
        BY DEF BYes
      <4> QED BY <2>9, <4>1, <4>2
    <3> QED BY <3>1, <3>2
  <2>14. B!Cast(id, a, Overdue)
    BY <2>1, <2>8, <2>10, <2>11, <2>12, <2>13 DEF B!Cast
  <2> QED BY <1>0, <2>1, <2>14 DEF B!Next, B!Ids, Ids
<1>3. ASSUME SweepOnly PROVE B!Next
  <2>1. /\ DOMAIN proposals' = DOMAIN proposals /\ pty' = pty
        /\ \A i \in DOMAIN proposals : proposals'[i] = Swept[i]
    BY <1>0, <1>3, SweepFacts DEF SweepOnly
  <2>2. BYes' = BYes /\ BNo' = BNo /\ BRan' = BRan
    BY <2>1, <1>0, SweepFacts DEF BYes, BNo, BRan
  <2>3. BStatus' = B!Lapsed(Overdue)
    <3>1. \A i \in Ids : BStatus'[i] = B!Lapsed(Overdue)[i]
      BY <2>1, <1>0, SweepRefines DEF BStatus
    <3> QED BY <3>1 DEF BStatus, B!Lapsed, B!Ids, Ids
  <2> QED BY <1>0, <2>2, <2>3 DEF B!Next, B!Lapse
<1>4. ASSUME Tick PROVE UNCHANGED B!vars
  <2>1. /\ proposals' = [n \in DOMAIN proposals |->
                          [proposals[n] EXCEPT !.age = IF @ < MaxAge THEN @ + 1 ELSE @]]
        /\ pty' = pty
    BY <1>4 DEF Tick
  <2>2. DOMAIN proposals' = DOMAIN proposals
    BY <2>1
  <2>3. \A i \in DOMAIN proposals :
          /\ proposals'[i].state = proposals[i].state
          /\ proposals'[i].approved = proposals[i].approved
          /\ proposals'[i].rejected = proposals[i].rejected
    BY <2>1, <1>0 DEF Proposal
  <2> QED BY <2>1, <2>2, <2>3 DEF B!vars, BStatus, BYes, BNo, BRan
<1>5. ASSUME NEW t \in Threads, Write(t) PROVE B!Next \/ UNCHANGED B!vars
  <2> DEFINE chunk == [id |-> job[t].id, who |-> job[t].who]
  <2>1. /\ pty' = Append(pty, chunk) /\ proposals' = proposals /\ Carries(t)
    BY <1>0, <1>5 DEF Write, Carries, TypeOK
  <2>2. chunk.id = job[t].id /\ chunk \in [id : 0 .. MaxProposals, who : Guests \cup {Host}]
    BY <1>0 DEF TypeOK, Job
  <2> HIDE DEF chunk
  <2>3. /\ DOMAIN pty = 1 .. Len(pty) /\ Len(pty) \in Nat
        /\ DOMAIN pty' = 1 .. Len(pty) + 1
        /\ \A k \in DOMAIN pty : pty'[k] = pty[k]
        /\ pty'[Len(pty) + 1] = chunk
    BY <1>0, <2>1, <2>2, AppendFacts DEF TypeOK
  <2>4. {pty'[k].id : k \in DOMAIN pty'} = {pty[k].id : k \in DOMAIN pty} \cup {job[t].id}
    <3>1. \A k \in DOMAIN pty' : k \in DOMAIN pty \/ k = Len(pty) + 1
      BY <2>3
    <3>2. DOMAIN pty \subseteq DOMAIN pty' /\ Len(pty) + 1 \in DOMAIN pty'
      BY <2>3
    <3> QED BY <2>2, <2>3, <3>1, <3>2
  <2>5. BStatus' = BStatus /\ BYes' = BYes /\ BNo' = BNo
    BY <2>1 DEF BStatus, BYes, BNo
  <2>6. CASE job[t].id = 0
    BY <2>4, <2>5, <2>6 DEF BRan, B!vars
  <2>7. CASE job[t].id # 0
    <3>1. /\ job[t].id \in DOMAIN proposals
          /\ proposals[job[t].id].state = "executed"
          /\ \A k \in DOMAIN pty : pty[k].id # job[t].id
      BY <2>1, <2>7 DEF IInv, CarriedOnce
    <3>2. BRan' = BRan \cup {job[t].id} /\ job[t].id \notin BRan
      BY <2>4, <2>7, <3>1 DEF BRan
    <3>3. BStatus[job[t].id] = "executed" /\ job[t].id \in Ids
      BY <1>0, <3>1 DEF BStatus
    <3>4. B!Run(job[t].id)
      BY <2>5, <3>2, <3>3 DEF B!Run
    <3> QED BY <3>3, <3>4 DEF B!Next, B!Ids, Ids
  <2> QED BY <2>6, <2>7
<1>6. ASSUME UNCHANGED <<proposals, pty>> PROVE UNCHANGED B!vars
  BY <1>6 DEF B!vars, BStatus, BYes, BNo, BRan
<1> QED
  BY <1>1, <1>2, <1>3, <1>4, <1>5, <1>6
     DEF Next, Finish, TurnDown, List, Type, Log, LogVerdict, Show, LogInput, vars

\* The host keeps the promise of Ballots, for every group of approvers, every
\* quorum and every interleaving of its threads.
THEOREM Refinement == Spec => ImplementsBallots
<1>1. Init => B!Init
  BY InitRefines
<1>2. IInv /\ [Next]_vars => [B!Next]_(B!vars)
  BY StepRefines
<1> QED BY <1>1, <1>2, Invariant, PTL DEF Spec, ImplementsBallots, B!Spec
=============================================================================
