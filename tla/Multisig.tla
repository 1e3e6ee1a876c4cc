------------------------------ MODULE Multisig ------------------------------
(***************************************************************************)
(* The host's approval of supervised keystrokes: internal/host/multisig.go *)
(* and the closures of internal/host/host.go that call it.                 *)
(*                                                                         *)
(* Every handler has a locked section, which is one action here, and then  *)
(* steps it takes AFTER the unlock (audit line, verdict line, frame to the *)
(* browsers, audit of the keystrokes, write to the PTY), which are one     *)
(* action each: that is where the threads of the host overtake each other. *)
(*                                                                         *)
(* Threads are those of the local transport, one goroutine per guest, one  *)
(* per control connection and one for the host's keyboard.  The relay      *)
(* transport serves all guests from one reader, so its interleavings are   *)
(* among these.  Keystrokes are named by the proposal that copied them,    *)
(* and by 0 when they were typed without a proposal.                       *)
(***************************************************************************)
EXTENDS Naturals, Sequences, FiniteSets

CONSTANTS
  Guests,        \* the guests' session names; each has one handler thread
  Ctl,           \* control connections (`cotty approve` and friends): they speak as Host
  Keyboard,      \* the thread that copies the host's own keystrokes
  Host,          \* the session name "host"
  Approvers,     \* -approvers
  Supervised,    \* -supervise
  Quorum,        \* -quorum
  TTL,           \* proposalTTL, in clock ticks
  Retain,        \* when a closed proposal is forgotten: 4*proposalTTL in the code
  MaxProposals,  \* bound: proposals ever held
  MaxTyped       \* bound: chunks typed without a proposal

\* What newMultisig accepts.  The supervised names are guests': the host's
\* keyboard does not pass through the code that asks supervises().
ValidConfig ==
  /\ IsFiniteSet(Approvers)
  /\ Quorum \in Nat \ {0}
  /\ Quorum <= Cardinality(Approvers)
  /\ Supervised # {}
  /\ Supervised \cap Approvers = {}

ASSUME ConfigAssumption == ValidConfig /\ Supervised \subseteq Guests

ASSUME NamesAssumption ==
  /\ Approvers \subseteq Guests \cup {Host}
  /\ Host \notin Guests
  /\ Ctl \cap Guests = {}
  /\ Keyboard \notin Guests \cup Ctl

ASSUME BoundsAssumption ==
  /\ TTL \in Nat /\ Retain \in Nat /\ TTL < Retain
  /\ MaxProposals \in Nat
  /\ MaxTyped \in Nat

VARIABLES
  proposals,  \* every proposal ever made, by id: Len(proposals) is m.next
  kept,       \* the ids still in the m.proposals map
  pc,         \* thread -> what it does next; "idle" between handlers
  job,        \* thread -> what its handler copied out of the locked section
  trail,      \* id -> the audit lines about it; 0 -> input lines without a proposal
  cards,      \* the proposals a browser shows a card for
  pty         \* the chunks written to the PTY, in order

vars == <<proposals, kept, pc, job, trail, cards, pty>>

Threads == Guests \cup Ctl \cup {Keyboard}
Voters == Guests \cup Ctl
Ids == 1 .. MaxProposals

\* The session name a thread acts under.
Speaker(t) == IF t \in Guests THEN t ELSE Host

\* Ages stop counting where the code no longer tells them apart.
MaxAge == Retain + 1

States == {"pending", "executed", "rejected", "expired"}
Settled == States \ {"pending"}

Proposal == [who : Supervised, age : 0 .. MaxAge, state : States,
             approved : Seq(Approvers), rejected : Seq(Approvers)]

Ops == {"propose", "approve", "reject", "type"}
Job == [id : 0 .. MaxProposals, op : Ops, by : Guests \cup {Host},
        who : Guests \cup {Host}, state : States]

Line == [kind : {"propose", "approve", "reject", "execute", "rejected", "expired", "input"},
         who : Guests \cup {Host}]

SetOf(s) == {s[i] : i \in DOMAIN s}
NoRepeat(s) == \A i, j \in DOMAIN s : s[i] = s[j] => i = j

-----------------------------------------------------------------------------
(* expireLocked *)

\* The proposals a sweep of expireLocked finds too old.
Overdue == {i \in kept : proposals[i].state = "pending" /\ proposals[i].age > TTL}

\* Faulty variant: forgets by age alone.
ForgettableByAge == {i \in kept : proposals[i].age > Retain}

\* The closed proposals the same sweep forgets.
Forgettable == {i \in kept : proposals[i].state # "pending" /\ proposals[i].age > Retain}

Swept == [i \in DOMAIN proposals |->
            IF i \in Overdue THEN [proposals[i] EXCEPT !.state = "expired"]
            ELSE proposals[i]]

\* Every sweep logs the proposals it expires, inside the locked section.
SweptTrail == [i \in DOMAIN trail |->
                 IF i \in Overdue
                   THEN Append(trail[i], [kind |-> "expired", who |-> proposals[i].who])
                   ELSE trail[i]]

\* The sweep that a handler does and then changes nothing else.
SweepOnly ==
  /\ proposals' = Swept
  /\ kept' = kept \ Forgettable
  /\ trail' = SweptTrail
  /\ UNCHANGED <<pc, job, cards, pty>>

-----------------------------------------------------------------------------
(* Locked sections *)

NoJob == [id |-> 0, op |-> "type", by |-> Host, who |-> Host, state |-> "executed"]

Start(t, step, j) ==
  /\ pc' = [pc EXCEPT ![t] = step]
  /\ job' = [job EXCEPT ![t] = j]

\* writeInput and hold: a supervised guest's keystrokes become a proposal.
Hold(t) ==
  /\ pc[t] = "idle"
  /\ t \in Supervised
  /\ Len(proposals) < MaxProposals
  /\ LET id == Len(proposals) + 1
     IN /\ proposals' = Append(Swept, [who |-> t, age |-> 0, state |-> "pending",
                                       approved |-> << >>, rejected |-> << >>])
        /\ kept' = (kept \ Forgettable) \cup {id}
        /\ Start(t, "log", [id |-> id, op |-> "propose", by |-> t, who |-> t,
                            state |-> "pending"])
  /\ trail' = SweptTrail
  /\ UNCHANGED <<cards, pty>>

\* Faulty variants: a vote counts on any proposal that is there; on a settled
\* one; an approver counts twice; the switch looks at the proposal as it was
\* before expireLocked.
CountsKnown(voter, id) == id \in kept \ Forgettable
CountsSettled(voter, id) ==
  /\ id \in kept \ Forgettable
  /\ voter \notin SetOf(proposals[id].approved) \cup SetOf(proposals[id].rejected)
CountsAgain(voter, id) ==
  /\ id \in kept \ Forgettable
  /\ Swept[id].state = "pending"
CountsUnswept(voter, id) ==
  /\ id \in kept
  /\ proposals[id].state = "pending"
  /\ voter \notin SetOf(proposals[id].approved) \cup SetOf(proposals[id].rejected)

\* The switch after expireLocked: does the vote count?
Counts(voter, id) ==
  /\ id \in kept \ Forgettable
  /\ Swept[id].state = "pending"
  /\ voter \notin SetOf(proposals[id].approved) \cup SetOf(proposals[id].rejected)

\* Faulty variant: the quorum counts votes instead of approvals.
VerdictByTurnout(approved, rejected) ==
  IF Len(approved) + Len(rejected) >= Quorum THEN "executed"
  ELSE IF Cardinality(Approvers) - Len(rejected) < Quorum THEN "rejected"
  ELSE "pending"

\* The state a proposal takes once a vote is in its lists.
Verdict(approved, rejected) ==
  IF Len(approved) >= Quorum THEN "executed"
  ELSE IF Cardinality(Approvers) - Len(rejected) < Quorum THEN "rejected"
  ELSE "pending"

Tallied(p, voter, op) ==
  LET yes == IF op = "approve" THEN Append(p.approved, voter) ELSE p.approved
      no == IF op = "reject" THEN Append(p.rejected, voter) ELSE p.rejected
  IN [p EXCEPT !.approved = yes, !.rejected = no, !.state = Verdict(yes, no)]

\* vote, when the vote counts.  The thread leaves the locked section with a
\* view of the proposal as its own vote left it.
Vote(t, op, id) ==
  /\ pc[t] = "idle"
  /\ Speaker(t) \in Approvers
  /\ Counts(Speaker(t), id)
  /\ LET p == Tallied(Swept[id], Speaker(t), op)
     IN /\ proposals' = [Swept EXCEPT ![id] = p]
        /\ Start(t, "log", [id |-> id, op |-> op, by |-> Speaker(t), who |-> p.who,
                            state |-> p.state])
  /\ kept' = kept \ Forgettable
  /\ trail' = SweptTrail
  /\ UNCHANGED <<cards, pty>>

\* vote, when an approver's vote is turned down: only the sweep remains.
TurnDown(t, id) ==
  /\ pc[t] = "idle"
  /\ Speaker(t) \in Approvers
  /\ ~Counts(Speaker(t), id)
  /\ SweepOnly

\* `cotty pending`.
List(t) ==
  /\ pc[t] = "idle"
  /\ SweepOnly

\* writeInput and the keyboard: keystrokes nobody has to approve.
Typed == {i \in 1 .. Len(pty) : pty[i].id = 0}
Typing == {t \in Threads : pc[t] # "idle" /\ job[t].id = 0}

Type(t) ==
  /\ pc[t] = "idle"
  /\ t = Keyboard \/ t \in Guests \ Supervised
  /\ Cardinality(Typed) + Cardinality(Typing) < MaxTyped
  /\ Start(t, "input", [id |-> 0, op |-> "type", by |-> Speaker(t), who |-> Speaker(t),
                        state |-> "executed"])
  /\ UNCHANGED <<proposals, kept, trail, cards, pty>>

-----------------------------------------------------------------------------
(* Steps after the unlock *)

\* A handler's locals are gone once it returns.
Goto(t, step) ==
  /\ pc' = [pc EXCEPT ![t] = step]
  /\ job' = IF step = "idle" THEN [job EXCEPT ![t] = NoJob] ELSE job

Logged(id, kind, who) ==
  trail' = [trail EXCEPT ![id] = Append(@, [kind |-> kind, who |-> who])]

\* Faulty variants: each vote is followed by a verdict line; the vote that
\* settles a proposal is not logged.
LogThenVerdict(t) ==
  /\ pc[t] = "log"
  /\ Logged(job[t].id, job[t].op, job[t].by)
  /\ Goto(t, "verdict")
  /\ UNCHANGED <<proposals, kept, cards, pty>>
LogUndecided(t) ==
  /\ pc[t] = "log"
  /\ IF job[t].state = "pending" THEN Logged(job[t].id, job[t].op, job[t].by) ELSE trail' = trail
  /\ Goto(t, IF job[t].state = "pending" THEN "show" ELSE "verdict")
  /\ UNCHANGED <<proposals, kept, cards, pty>>

\* The audit line of the proposal or of the vote.
Log(t) ==
  /\ pc[t] = "log"
  /\ Logged(job[t].id, job[t].op, job[t].by)
  /\ Goto(t, IF job[t].state = "pending" THEN "show" ELSE "verdict")
  /\ UNCHANGED <<proposals, kept, cards, pty>>

\* The audit line of a verdict.
LogVerdict(t) ==
  /\ pc[t] = "verdict"
  /\ Logged(job[t].id, IF job[t].state = "executed" THEN "execute" ELSE "rejected", job[t].who)
  /\ Goto(t, "show")
  /\ UNCHANGED <<proposals, kept, cards, pty>>

\* Faulty variants: the keystrokes reach the PTY without an input line; the
\* handler returns without executing.
ShowThenWrite(t) ==
  /\ pc[t] = "show"
  /\ cards' = IF job[t].state = "pending" THEN cards \cup {job[t].id}
              ELSE cards \ {job[t].id}
  /\ Goto(t, IF job[t].state = "executed" THEN "write" ELSE "idle")
  /\ UNCHANGED <<proposals, kept, trail, pty>>
ShowThenReturn(t) ==
  /\ pc[t] = "show"
  /\ cards' = IF job[t].state = "pending" THEN cards \cup {job[t].id}
              ELSE cards \ {job[t].id}
  /\ Goto(t, "idle")
  /\ UNCHANGED <<proposals, kept, trail, pty>>

\* announce, as a browser's showProposal takes it.
Show(t) ==
  /\ pc[t] = "show"
  /\ cards' = IF job[t].state = "pending" THEN cards \cup {job[t].id}
              ELSE cards \ {job[t].id}
  /\ Goto(t, IF job[t].state = "executed" THEN "input" ELSE "idle")
  /\ UNCHANGED <<proposals, kept, trail, pty>>

\* applyInput: first the audit line, then the PTY.
LogInput(t) ==
  /\ pc[t] = "input"
  /\ Logged(job[t].id, "input", job[t].who)
  /\ Goto(t, "write")
  /\ UNCHANGED <<proposals, kept, cards, pty>>

Write(t) ==
  /\ pc[t] = "write"
  /\ pty' = Append(pty, [id |-> job[t].id, who |-> job[t].who])
  /\ Goto(t, "idle")
  /\ UNCHANGED <<proposals, kept, trail, cards>>

\* Time passes.
Tick ==
  /\ \E i \in DOMAIN proposals : proposals[i].age < MaxAge
  /\ proposals' = [i \in DOMAIN proposals |->
                     [proposals[i] EXCEPT !.age = IF @ < MaxAge THEN @ + 1 ELSE @]]
  /\ UNCHANGED <<kept, pc, job, trail, cards, pty>>

-----------------------------------------------------------------------------
Init ==
  /\ proposals = << >>
  /\ kept = {}
  /\ pc = [t \in Threads |-> "idle"]
  /\ job = [t \in Threads |-> NoJob]
  /\ trail = [i \in 0 .. MaxProposals |-> << >>]
  /\ cards = {}
  /\ pty = << >>

\* What a thread does after its locked section.
Finish(t) == Log(t) \/ LogVerdict(t) \/ Show(t) \/ LogInput(t) \/ Write(t)

Next ==
  \/ \E t \in Threads : Finish(t) \/ Type(t)
  \/ \E t \in Guests : Hold(t)
  \/ \E t \in Voters, id \in Ids : TurnDown(t, id)
  \/ \E t \in Voters, id \in Ids, op \in {"approve", "reject"} : Vote(t, op, id)
  \/ \E t \in Ctl : List(t)
  \/ Tick

\* A goroutine that left its locked section is scheduled again and again
\* until its handler returns.  Nothing forces a vote, a sweep or the clock.
Fairness == \A t \in Threads : WF_vars(Finish(t))

Spec == Init /\ [][Next]_vars /\ Fairness
-----------------------------------------------------------------------------
(* Properties *)

\* Types, and what the program counters say about the copies a thread holds:
\* a verdict line belongs to a vote that settled its proposal, and only an
\* executed proposal (or unsupervised typing) is on its way to the PTY.
TypeOK ==
  /\ proposals \in Seq(Proposal)
  /\ Len(proposals) <= MaxProposals
  /\ kept \subseteq DOMAIN proposals
  /\ pc \in [Threads -> {"idle", "log", "verdict", "show", "input", "write"}]
  /\ job \in [Threads -> Job]
  /\ trail \in [0 .. MaxProposals -> Seq(Line)]
  /\ cards \subseteq DOMAIN proposals
  /\ pty \in Seq([id : 0 .. MaxProposals, who : Guests \cup {Host}])
  /\ \A t \in Threads :
       /\ pc[t] \in {"log", "verdict", "show"} => job[t].id \in DOMAIN proposals
       /\ pc[t] = "log" => job[t].op # "type" /\ job[t].state # "expired"
       /\ pc[t] = "verdict" => job[t].state \in {"executed", "rejected"}
       /\ pc[t] \in {"input", "write"} => job[t].state = "executed"

\* What the votes on one proposal make of it.
Decided(p) ==
  /\ NoRepeat(p.approved) /\ NoRepeat(p.rejected)
  /\ SetOf(p.approved) \cap SetOf(p.rejected) = {}
  /\ IF p.state = "executed" THEN Len(p.approved) >= Quorum ELSE Len(p.approved) < Quorum
  /\ IF p.state = "rejected" THEN Cardinality(Approvers) - Len(p.rejected) < Quorum
     ELSE p.state # "executed" => Cardinality(Approvers) - Len(p.rejected) >= Quorum

\* multisig.go:105-107: the state of a proposal is what its votes make of it.
\* Nobody is counted twice, on one side or on both; a pending proposal can
\* still go either way; an executed one has its quorum; a rejected one could
\* not reach it any more.  Sweeps, votes and forgetting in any order keep it.
VotesDecide == \A i \in DOMAIN proposals : Decided(proposals[i])

\* README, "Held keystrokes never reach the shell until the vote passes":
\* what a supervised guest has on the PTY is the text of a proposal of its
\* own that a quorum of different approvers let through, and no proposal is
\* there twice, whichever threads were between unlock and write.
OnlyApprovedRuns ==
  \A k \in DOMAIN pty :
    /\ pty[k].who \in Supervised => pty[k].id # 0
    /\ pty[k].id # 0 =>
         /\ pty[k].id \in DOMAIN proposals
         /\ LET p == proposals[pty[k].id]
            IN /\ p.who = pty[k].who
               /\ p.state = "executed"
               /\ NoRepeat(p.approved)
               /\ Len(p.approved) >= Quorum
         /\ \A n \in DOMAIN pty : pty[n].id = pty[k].id => n = k

\* The thread has keystrokes that it will write to the PTY.
Carries(t) == pc[t] # "idle" /\ job[t].state = "executed"

\* multisig.go:139-157: between the unlock and the write, the keystrokes of a
\* proposal are in the hands of one thread only, the one whose vote reached
\* the quorum, and are not on the PTY yet; what a thread carries without a
\* proposal was never a supervised guest's.
CarriedOnce ==
  \A t \in Threads : Carries(t) =>
    IF job[t].id = 0 THEN pc[t] \in {"input", "write"} /\ job[t].who \notin Supervised
    ELSE /\ job[t].id \in DOMAIN proposals
         /\ proposals[job[t].id].state = "executed"
         /\ proposals[job[t].id].who = job[t].who
         /\ \A u \in Threads : Carries(u) /\ job[u].id = job[t].id => u = t
         /\ \A k \in DOMAIN pty : pty[k].id # job[t].id

\* README, "every keystroke that reached the shell" is in the trail: whenever
\* the host process dies, the audit file (flushed line by line) already holds
\* an input line for each chunk on the PTY, and the execute line of each
\* proposal on it.
AuditCoversPty ==
  /\ \A id \in 0 .. MaxProposals, who \in Guests \cup {Host} :
       Cardinality({k \in DOMAIN pty : pty[k] = [id |-> id, who |-> who]})
         <= Cardinality({k \in DOMAIN trail[id] : trail[id][k] = [kind |-> "input", who |-> who]})
  /\ \A k \in DOMAIN pty :
       pty[k].id # 0 => [kind |-> "execute", who |-> pty[k].who] \in SetOf(trail[pty[k].id])

\* README, "Unvoted proposals expire after 10 minutes": expiry is only ever
\* noticed by a later call, yet no vote counts on a proposal that is too old,
\* so none is executed after its time.
VotesInTime ==
  [][\A i \in DOMAIN proposals :
       \/ proposals'[i].approved # proposals[i].approved
       \/ proposals'[i].rejected # proposals[i].rejected
       => proposals[i].age <= TTL]_vars

\* A settled proposal stays as it is, and the map forgets a proposal only
\* when it is settled and Retain is over; ids are never used again.
SettledForGood ==
  [][\A i \in DOMAIN proposals :
       /\ proposals[i].state \in Settled =>
            /\ proposals'[i].state = proposals[i].state
            /\ proposals'[i].approved = proposals[i].approved
            /\ proposals'[i].rejected = proposals[i].rejected
       /\ i \in kept \ kept' => proposals[i].state \in Settled /\ proposals[i].age > Retain
       /\ i \notin kept => i \notin kept']_vars

\* A proposal that reached its quorum does run, whoever cast the last vote and
\* whatever the other threads do meanwhile.
ApprovedRuns ==
  \A i \in Ids :
    (i \in DOMAIN proposals /\ proposals[i].state = "executed") ~> (\E k \in DOMAIN pty : pty[k].id = i)

\* README, "each approve / reject with who cast it": every counted vote
\* reaches the audit trail in the end, also when the verdict overtook it.
VotesReachAudit ==
  \A i \in Ids, a \in Approvers :
    /\ (i \in DOMAIN proposals /\ a \in SetOf(proposals[i].approved))
         ~> ([kind |-> "approve", who |-> a] \in SetOf(trail[i]))
    /\ (i \in DOMAIN proposals /\ a \in SetOf(proposals[i].rejected))
         ~> ([kind |-> "reject", who |-> a] \in SetOf(trail[i]))

\* What Ballots sees of the state.
BStatus == [i \in Ids |-> IF i \in DOMAIN proposals THEN proposals[i].state ELSE "none"]
BYes == [i \in Ids |-> IF i \in DOMAIN proposals THEN SetOf(proposals[i].approved) ELSE {}]
BNo == [i \in Ids |-> IF i \in DOMAIN proposals THEN SetOf(proposals[i].rejected) ELSE {}]
BRan == {pty[k].id : k \in DOMAIN pty} \ {0}

B == INSTANCE Ballots WITH status <- BStatus, yes <- BYes, no <- BNo, ran <- BRan

\* multisig.go:18-22, "until enough of the named approvers vote for them: M of
\* N, like a multisig wallet": each step of the host is a step of Ballots or
\* none of its business.
ImplementsBallots == B!Spec

\* app.js:218, "one card per pending proposal [...]; cards go away once a
\* proposal is settled": when no thread is busy, no settled proposal has one.
SettledCardsGo ==
  (\A t \in Threads : pc[t] = "idle") => \A i \in cards : proposals[i].state = "pending"
=============================================================================
