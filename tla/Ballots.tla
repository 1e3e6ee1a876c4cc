------------------------------ MODULE Ballots ------------------------------
(***************************************************************************)
(* What the host promises about commands that need approval, and nothing   *)
(* about how it keeps the promise: a command is opened once, each approver *)
(* takes at most one side, the sides taken settle it, time may settle it   *)
(* too, and it runs at most once and only when the approvals reached the   *)
(* quorum.  Multisig.tla implements this module.                           *)
(*                                                                         *)
(* Every definition here abstracts internal/host/multisig.go: no clock, no *)
(* threads, no audit trail, no forgetting, votes as sets.                  *)
(***************************************************************************)
EXTENDS Naturals, FiniteSets

CONSTANTS
  Approvers,      \* who may vote
  Quorum,         \* how many approvals a command needs
  MaxProposals    \* bound: how many commands are ever opened

VARIABLES
  status,   \* id -> "none", "pending", "executed", "rejected" or "expired"
  yes,      \* id -> the approvers who approved it
  no,       \* id -> the approvers who rejected it
  ran       \* the ids whose command was run

vars == <<status, yes, no, ran>>

Ids == 1 .. MaxProposals

Init ==
  /\ status = [i \in Ids |-> "none"]
  /\ yes = [i \in Ids |-> {}]
  /\ no = [i \in Ids |-> {}]
  /\ ran = {}

Pending == {i \in Ids : status[i] = "pending"}

\* The verdict that the two sides of a vote imply.
Verdict(y, n) ==
  IF Cardinality(y) >= Quorum THEN "executed"
  ELSE IF Cardinality(Approvers) - Cardinality(n) < Quorum THEN "rejected"
  ELSE "pending"

\* The statuses once the commands of S have run out of time.
Lapsed(S) == [i \in Ids |-> IF i \in S THEN "expired" ELSE status[i]]

\* Time settles some pending commands.
Lapse(S) ==
  /\ status' = Lapsed(S)
  /\ UNCHANGED <<yes, no, ran>>

\* A new command is opened (while others may lapse).
Open(i, S) ==
  /\ status[i] = "none"
  /\ status' = [Lapsed(S) EXCEPT ![i] = "pending"]
  /\ UNCHANGED <<yes, no, ran>>

\* Approver a, who has taken no side yet, takes one (while others may lapse).
Cast(i, a, S) ==
  /\ i \in Pending \ S
  /\ a \notin yes[i] \cup no[i]
  /\ \/ /\ yes' = [yes EXCEPT ![i] = @ \cup {a}]
        /\ no' = no
     \/ /\ no' = [no EXCEPT ![i] = @ \cup {a}]
        /\ yes' = yes
  /\ status' = [Lapsed(S) EXCEPT ![i] = Verdict(yes'[i], no'[i])]
  /\ UNCHANGED ran

\* An approved command is run, once.
Run(i) ==
  /\ status[i] = "executed"
  /\ i \notin ran
  /\ ran' = ran \cup {i}
  /\ UNCHANGED <<status, yes, no>>

Next ==
  \/ \E S \in SUBSET Pending :
       \/ Lapse(S)
       \/ \E i \in Ids : Open(i, S)
       \/ \E i \in Ids, a \in Approvers : Cast(i, a, S)
  \/ \E i \in Ids : Run(i)

Spec == Init /\ [][Next]_vars
=============================================================================
