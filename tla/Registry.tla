------------------------------ MODULE Registry ------------------------------
(***************************************************************************)
(* The guest list of a session, internal/session/registry.go, with the     *)
(* handlers that use it: one per guest's connection (handleWS of           *)
(* internal/host/local.go, handleGuest of internal/relay/relay.go) and the *)
(* threads that execute the host's commands (Apply).  This module has the  *)
(* state and the actions both transports share; LocalSession and           *)
(* RelaySession compose them.                                              *)
(*                                                                         *)
(* A locked section is one action; what a handler does after the unlock,   *)
(* with what it read inside, is another.  A guest that comes back is       *)
(* another connection that wants the same name.                            *)
(***************************************************************************)
EXTENDS Naturals, Sequences, FiniteSets

CONSTANTS
  Conns,            \* the connections of guests, each joins at most once
  Names,
  Wanted,           \* connection -> the name it asks for
  Candidates,       \* name -> the names Join tries in turn: bob, bob-2, bob-3, ...
  Defaults,         \* what `cotty host --write` may say
  Controllers,      \* the threads that execute commands
  None              \* no name, no connection

ASSUME NamesAssumption ==
  /\ IsFiniteSet(Conns) /\ None \notin Names \cup Conns
  /\ Wanted \in [Conns -> Names]
  /\ Defaults \subseteq BOOLEAN

\* However many guests are there, Join finds a name.
ASSUME CandidatesAssumption ==
  /\ Candidates \in [Names -> Seq(Names)]
  /\ \A n \in Names : \A S \in SUBSET Names :
       Cardinality(S) < Cardinality(Conns) => \E i \in DOMAIN Candidates[n] : Candidates[n][i] \notin S

VARIABLES
  defaultWritable,  \* the registry's, set when it is made
  guests,    \* the connections in the list
  name,      \* connection -> its guest's Name
  writable,  \* connection -> its guest's Writable
  warned,    \* connection -> its guest's warnedRO
  closed,    \* the connections that are closed: their next Read fails
  pc,        \* connection -> where its handler is
  hello,     \* connection -> the Writable its handler read for the hello
  cpc,       \* controller -> where its command is
  cmd        \* controller -> its command, the guest found for it, and the outcome

registryVars == <<defaultWritable, guests, name, writable, warned, closed, pc, hello, cpc, cmd>>

Ops == {"allow", "deny", "kick"}
NoCommand == [op |-> "kick", name |-> None, who |-> None, ok |-> FALSE]

Goto(c, step) == pc' = [pc EXCEPT ![c] = step]

-----------------------------------------------------------------------------
(* Join, Leave *)

Taken == {name[c] : c \in guests}

\* Faulty variant: takes the name that was asked for.
NameAsWanted(wanted) == wanted

\* The first name of the row that nobody in the list has.
FreeName(wanted) ==
  LET row == Candidates[wanted]
      free == {i \in DOMAIN row : row[i] \notin Taken}
  IN row[CHOOSE i \in free : \A j \in free : i <= j]

Join(c) ==
  /\ pc[c] = "out"
  /\ name' = [name EXCEPT ![c] = FreeName(Wanted[c])]
  /\ writable' = [writable EXCEPT ![c] = defaultWritable]
  /\ guests' = guests \cup {c}
  /\ Goto(c, "joined")
  /\ UNCHANGED <<defaultWritable, warned, closed, hello, cpc, cmd>>

\* Faulty variant: leaving goes by the name.
WithoutName(c) == {d \in guests : name[d] # name[c]}

\* Leave goes by the guest itself, and may find it gone.
Without(c) == guests \ {c}

-----------------------------------------------------------------------------
(* A guest's handler *)

\* The hello's Writable is read without the lock ...
ReadFlag(c) ==
  /\ pc[c] = "joined"
  /\ hello' = [hello EXCEPT ![c] = writable[c]]
  /\ Goto(c, "greet")
  /\ UNCHANGED <<defaultWritable, guests, name, writable, warned, closed, cpc, cmd>>

\* ... and sent.
Greet(c) ==
  /\ pc[c] = "greet"
  /\ Goto(c, "loop")
  /\ UNCHANGED <<defaultWritable, guests, name, writable, warned, closed, hello, cpc, cmd>>

\* Faulty variant: the permission is the one the guest joined with.
MayTypeAsGreeted(c) == hello[c]

MayType(c) == writable[c]

\* conn.Read has a chunk.  The connection may be closed before the next step.
ReadFrame(c) ==
  /\ pc[c] = "loop"
  /\ c \notin closed
  /\ Goto(c, "read")
  /\ UNCHANGED <<defaultWritable, guests, name, writable, warned, closed, hello, cpc, cmd>>

\* HandleInput's locked section: the chunk will be applied, or the guest will
\* be told once that it cannot type.
Input(c) ==
  /\ pc[c] = "read"
  /\ IF MayType(c)
       THEN Goto(c, "write") /\ warned' = warned
       ELSE /\ warned' = [warned EXCEPT ![c] = TRUE]
            /\ Goto(c, IF warned[c] THEN "loop" ELSE "warn")
  /\ UNCHANGED <<defaultWritable, guests, name, writable, closed, hello, cpc, cmd>>

Warn(c) ==
  /\ pc[c] = "warn"
  /\ Goto(c, "loop")
  /\ UNCHANGED <<defaultWritable, guests, name, writable, warned, closed, hello, cpc, cmd>>

\* The chunk that passed HandleInput's check is handed over.
Written(c) ==
  /\ pc[c] = "write"
  /\ Goto(c, "loop")
  /\ UNCHANGED <<defaultWritable, guests, name, writable, warned, closed, hello, cpc, cmd>>

\* The client goes away, or a write to it times out.
Disconnect(c) ==
  /\ c \in guests \ closed
  /\ closed' = closed \cup {c}
  /\ UNCHANGED <<defaultWritable, guests, name, writable, warned, pc, hello, cpc, cmd>>

\* A broadcast finds that it cannot write to c and drops it from the list.
Drop(c) ==
  /\ c \in guests \cap closed
  /\ guests' = Without(c)
  /\ UNCHANGED <<defaultWritable, name, writable, warned, closed, pc, hello, cpc, cmd>>

\* Faulty variant: the handler returns without Leave.
EndWithoutLeave(c) ==
  /\ pc[c] = "loop"
  /\ c \in closed
  /\ Goto(c, "gone")
  /\ UNCHANGED <<defaultWritable, guests, name, writable, warned, closed, hello, cpc, cmd>>

\* Read fails and the deferred Leave runs, whoever has removed c before.  What
\* the guest had is not looked at any more.
End(c) ==
  /\ pc[c] = "loop"
  /\ c \in closed
  /\ guests' = Without(c)
  /\ Goto(c, "gone")
  /\ writable' = [writable EXCEPT ![c] = FALSE]
  /\ warned' = [warned EXCEPT ![c] = FALSE]
  /\ hello' = [hello EXCEPT ![c] = FALSE]
  /\ UNCHANGED <<defaultWritable, name, closed, cpc, cmd>>

-----------------------------------------------------------------------------
(* Apply *)

Finish(t, ok) ==
  /\ cpc' = [cpc EXCEPT ![t] = "reply"]
  /\ cmd' = [cmd EXCEPT ![t].ok = ok]

\* allow, deny and kick up to the unlock.
Command(t, op, n) ==
  /\ cpc[t] = "idle"
  /\ \/ \E c \in guests :
          /\ name[c] = n
          /\ cmd' = [cmd EXCEPT ![t] = [op |-> op, name |-> n, who |-> c, ok |-> FALSE]]
          /\ cpc' = [cpc EXCEPT ![t] = IF op = "kick" THEN "close" ELSE "tell"]
          /\ IF op = "kick" THEN UNCHANGED <<writable, warned>>
             ELSE /\ writable' = [writable EXCEPT ![c] = (op = "allow")]
                  /\ warned' = IF op = "allow" THEN [warned EXCEPT ![c] = FALSE] ELSE warned
     \/ /\ n \notin Taken
        /\ cmd' = [cmd EXCEPT ![t] = [op |-> op, name |-> n, who |-> None, ok |-> FALSE]]
        /\ cpc' = [cpc EXCEPT ![t] = "reply"]
        /\ UNCHANGED <<writable, warned>>
  /\ UNCHANGED <<defaultWritable, guests, name, closed, pc, hello>>

\* allow and deny: the frame to the guest, after the unlock.
TellGuest(t) ==
  /\ cpc[t] = "tell"
  /\ Finish(t, TRUE)
  /\ UNCHANGED <<defaultWritable, guests, name, writable, warned, closed, pc, hello>>

\* kick: close the connection, then leave.
CloseGuest(t) ==
  /\ cpc[t] = "close"
  /\ closed' = closed \cup {cmd[t].who}
  /\ cpc' = [cpc EXCEPT ![t] = "leave"]
  /\ UNCHANGED <<defaultWritable, guests, name, writable, warned, pc, hello, cmd>>

\* Faulty variant: leaves it to the handler to leave.
KickCloseOnly(t) ==
  /\ cpc[t] = "leave"
  /\ Finish(t, TRUE)
  /\ UNCHANGED <<defaultWritable, guests, name, writable, warned, closed, pc, hello>>

KickLeave(t) ==
  /\ cpc[t] = "leave"
  /\ guests' = Without(cmd[t].who)
  /\ Finish(t, TRUE)
  /\ UNCHANGED <<defaultWritable, name, writable, warned, closed, pc, hello>>

\* The command's outcome is taken and the thread is free.
Replied(t) ==
  /\ cpc[t] = "reply"
  /\ cpc' = [cpc EXCEPT ![t] = "idle"]
  /\ cmd' = [cmd EXCEPT ![t] = NoCommand]
  /\ UNCHANGED <<defaultWritable, guests, name, writable, warned, closed, pc, hello>>

-----------------------------------------------------------------------------
RegistryInit ==
  /\ defaultWritable \in Defaults
  /\ guests = {}
  /\ name = [c \in Conns |-> None]
  /\ writable = [c \in Conns |-> FALSE]
  /\ warned = [c \in Conns |-> FALSE]
  /\ closed = {}
  /\ pc = [c \in Conns |-> "out"]
  /\ hello = [c \in Conns |-> FALSE]
  /\ cpc = [t \in Controllers |-> "idle"]
  /\ cmd = [t \in Controllers |-> NoCommand]

HandlerStep(c) == ReadFlag(c) \/ Greet(c) \/ Input(c) \/ Warn(c) \/ End(c)
CommandStep(t) == TellGuest(t) \/ CloseGuest(t) \/ KickLeave(t)

-----------------------------------------------------------------------------
(* Properties *)

\* Types of the registry's state.
RegistryTypeOK ==
  /\ defaultWritable \in BOOLEAN
  /\ guests \subseteq Conns /\ closed \subseteq Conns
  /\ name \in [Conns -> Names \cup {None}]
  /\ writable \in [Conns -> BOOLEAN] /\ warned \in [Conns -> BOOLEAN]
  /\ hello \in [Conns -> BOOLEAN]
  /\ pc \in [Conns -> {"out", "joined", "greet", "loop", "read", "write", "warn", "gone"}]
  /\ cpc \in [Controllers -> {"idle", "tell", "close", "leave", "reply"}]
  /\ cmd \in [Controllers -> [op : Ops, name : Names \cup {None}, who : Conns \cup {None}, ok : BOOLEAN]]

\* Join's promise, "a sanitized, unique version of its requested name": two
\* guests in the list never share one, however they come, go and come back;
\* commands, votes and the audit trail go by it.
NamesUnique ==
  \A c, d \in guests : name[c] = name[d] => c = d

\* Leave is idempotent and several threads call it for one guest, while its
\* name may already be somebody else's: nobody whose connection is open is
\* ever removed.
OnlyClosedLeave == [][\A c \in guests \ guests' : c \in closed']_registryVars
=============================================================================
