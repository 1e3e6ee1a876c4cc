---------------------------- MODULE LocalSession ----------------------------
(***************************************************************************)
(* A session the host serves itself: internal/host/local.go over the       *)
(* registry.  The controllers are control connections, each in a goroutine *)
(* of its own, and a chunk that passed HandleInput goes straight to        *)
(* writeInput.                                                             *)
(***************************************************************************)
EXTENDS Registry

CONSTANTS MaxCommands  \* bound: commands the host gives

ASSUME BoundAssumption == MaxCommands \in Nat

VARIABLES
  given,  \* how many commands were given
  late    \* history: connection -> chunks applied since the guest last might type

vars == <<registryVars, given, late>>

-----------------------------------------------------------------------------
\* The chunk is applied, whatever happened since the check.
Write(c) ==
  /\ Written(c)
  /\ late' = IF writable[c] /\ c \notin closed THEN late ELSE [late EXCEPT ![c] = @ + 1]
  /\ given' = given

\* `cotty ctl`, on a connection of its own.
Ctl(t, op, n) ==
  /\ given < MaxCommands
  /\ Command(t, op, n)
  /\ given' = given + 1
  /\ late' = [c \in Conns |-> IF writable'[c] /\ ~writable[c] THEN 0 ELSE late[c]]

\* The reply goes out on the control connection.
Reply(t) == Replied(t) /\ UNCHANGED <<given, late>>

Quiet(A) == A /\ UNCHANGED <<given, late>>

Init == RegistryInit /\ given = 0 /\ late = [c \in Conns |-> 0]

Serve(c) == Write(c) \/ Quiet(HandlerStep(c))
Execute(t) == Quiet(CommandStep(t)) \/ Reply(t)

Next ==
  \/ \E c \in Conns : Serve(c) \/ Quiet(Join(c) \/ ReadFrame(c) \/ Disconnect(c) \/ Drop(c))
  \/ \E t \in Controllers : Execute(t)
  \/ \E t \in Controllers, op \in Ops, n \in Names : Ctl(t, op, n)

\* A handler and a command go on until they wait for a frame or are done.
Fairness ==
  /\ \A c \in Conns : WF_vars(Serve(c))
  /\ \A t \in Controllers : WF_vars(Execute(t))

Spec == Init /\ [][Next]_vars /\ Fairness

-----------------------------------------------------------------------------
(* Properties *)

\* Types; and what the program counters say of the list.
TypeOK ==
  /\ RegistryTypeOK
  /\ given \in 0 .. MaxCommands
  /\ late \in [Conns -> Nat]
  /\ \A c \in guests : name[c] \in Names /\ pc[c] \notin {"out", "gone"}
  /\ \A t \in Controllers : cpc[t] \in {"tell", "close", "leave"} => cmd[t].who \in Conns

\* HandleInput decides under the lock and applies after it: once a guest was
\* denied, kicked or cut off, at most the one chunk that had passed the check
\* still reaches the shell, through any number of denies and allows.
AtMostOneLate == \A c \in Conns : late[c] <= 1

\* `cotty ctl kick` has answered: the guest is out of the list and its
\* connection is closed, whatever its handler was doing.
KickedOut ==
  \A t \in Controllers :
    cpc[t] = "reply" /\ cmd[t].op = "kick" /\ cmd[t].ok
      => cmd[t].who \notin guests /\ cmd[t].who \in closed

\* A guest whose connection is closed leaves the list, so that its name is
\* free for its next connection.
ClosedLeave == \A c \in Conns : c \in closed ~> c \notin guests
=============================================================================
