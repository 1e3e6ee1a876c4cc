----------------------------- MODULE Questions -----------------------------
(***************************************************************************)
(* What `cotty ask` promises, and nothing about how the promise is kept: a *)
(* question is open until it gets its answer or its time is up, and has    *)
(* one outcome, for good; a text is the answer to the question that has    *)
(* been open longest, and a mere remark only while no question is open; no *)
(* text is used twice.  Answers.tla implements this module.                *)
(*                                                                         *)
(* Every definition here abstracts internal/host/say.go: no goroutines, no *)
(* channels, no broadcast, no limiter.                                     *)
(***************************************************************************)
EXTENDS Sequences, SequencesExt

CONSTANTS
  Askers,    \* one question each
  Text,      \* records: a text has a number n
  None,      \* no outcome yet
  NoAnswer   \* the outcome of a question whose time was up

VARIABLES
  open,      \* the askers whose questions are open, oldest first
  outcome,   \* asker -> its answer, NoAnswer or None
  remarks    \* the texts that answered no question

vars == <<open, outcome, remarks>>

Init ==
  /\ open = << >>
  /\ outcome = [a \in Askers |-> None]
  /\ remarks = {}

\* The text was no question's answer and no remark yet.
Fresh(t) ==
  /\ \A a \in Askers : outcome[a] \notin {None, NoAnswer} => outcome[a].n # t.n
  /\ \A r \in remarks : r.n # t.n

\* A question is asked.
Pose(a) ==
  /\ a \notin ToSet(open)
  /\ outcome[a] = None
  /\ open' = Append(open, a)
  /\ UNCHANGED <<outcome, remarks>>

\* The oldest open question gets its answer.
Answer(t) ==
  /\ open # << >>
  /\ Fresh(t)
  /\ outcome' = [outcome EXCEPT ![Head(open)] = t]
  /\ open' = Tail(open)
  /\ UNCHANGED remarks

\* The time of a question is up, whichever it is.
Lapse(i) ==
  /\ outcome' = [outcome EXCEPT ![open[i]] = NoAnswer]
  /\ open' = RemoveAt(open, i)
  /\ UNCHANGED remarks

\* A text while no question is open.
Remark(t) ==
  /\ open = << >>
  /\ Fresh(t)
  /\ remarks' = remarks \cup {t}
  /\ UNCHANGED <<open, outcome>>

Next ==
  \/ \E a \in Askers : Pose(a)
  \/ \E t \in Text : Answer(t) \/ Remark(t)
  \/ \E i \in DOMAIN open : Lapse(i)

Spec == Init /\ [][Next]_vars
=============================================================================
