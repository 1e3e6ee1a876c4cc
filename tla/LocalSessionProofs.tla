------------------------- MODULE LocalSessionProofs -------------------------
(***************************************************************************)
(* Proofs about LocalSession, for every set of connections, controllers    *)
(* and names, however many commands are given.                             *)
(***************************************************************************)
EXTENDS LocalSession, RegistryProofs

-----------------------------------------------------------------------------
LEMMA InitTypes == Init => TypeOK
BY NamesAssumption, BoundAssumption
   DEF Init, RegistryInit, TypeOK, RegistryTypeOK, NoCommand, Ops

LEMMA NextTypes == TypeOK /\ [Next]_vars => TypeOK'
<1> SUFFICES ASSUME TypeOK, [Next]_vars PROVE TypeOK'
  OBVIOUS
<1>1. TypeOK /\ MaxCommands \in Nat
  BY BoundAssumption
<1>2. ASSUME NEW c \in Conns, Write(c) PROVE TypeOK'
  BY <1>1, <1>2 DEF TypeOK, RegistryTypeOK, Write, Written, Goto
<1>3. ASSUME NEW c \in Conns, Quiet(ReadFlag(c)) PROVE TypeOK'
  BY <1>1, <1>3 DEF TypeOK, RegistryTypeOK, Quiet, ReadFlag, Goto
<1>4. ASSUME NEW c \in Conns, Quiet(Greet(c)) PROVE TypeOK'
  BY <1>1, <1>4 DEF TypeOK, RegistryTypeOK, Quiet, Greet, Goto
<1>5. ASSUME NEW c \in Conns, Quiet(Warn(c)) PROVE TypeOK'
  BY <1>1, <1>5 DEF TypeOK, RegistryTypeOK, Quiet, Warn, Goto
<1>6. ASSUME NEW c \in Conns, Quiet(End(c)) PROVE TypeOK'
  BY <1>1, <1>6 DEF TypeOK, RegistryTypeOK, Quiet, End, Without, Goto
<1>7. ASSUME NEW c \in Conns, Quiet(Join(c)) PROVE TypeOK'
  <2>1. c \notin guests
    BY <1>1, <1>7 DEF TypeOK, Quiet, Join
  <2>2. FreeName(Wanted[c]) \in Names
    BY <1>1, <2>1, FreeNameFacts DEF TypeOK
  <2> QED
    BY <1>1, <1>7, <2>2 DEF TypeOK, RegistryTypeOK, Quiet, Join, Goto
<1>8. ASSUME NEW c \in Conns, Quiet(Input(c)) PROVE TypeOK'
  BY <1>1, <1>8 DEF TypeOK, RegistryTypeOK, Quiet, Input, MayType, Goto
<1>9. ASSUME NEW c \in Conns, Quiet(Disconnect(c)) PROVE TypeOK'
  BY <1>1, <1>9 DEF TypeOK, RegistryTypeOK, Quiet, Disconnect
<1>10. ASSUME NEW c \in Conns, Quiet(Drop(c)) PROVE TypeOK'
  BY <1>1, <1>10 DEF TypeOK, RegistryTypeOK, Quiet, Drop, Without
<1>11. ASSUME NEW t \in Controllers, Quiet(TellGuest(t)) PROVE TypeOK'
  <2>1. Finish(t, TRUE) /\ RegistryTypeOK
    BY <1>1, <1>11 DEF Quiet, TellGuest, TypeOK
  <2>2. /\ cpc' \in [Controllers -> {"idle", "tell", "close", "leave", "reply"}]
        /\ cmd' \in [Controllers -> [op : Ops, name : Names \cup {None}, who : Conns \cup {None}, ok : BOOLEAN]]
        /\ cpc'[t] = "reply" /\ \A u \in Controllers \ {t} : cpc'[u] = cpc[u] /\ cmd'[u] = cmd[u]
    BY <2>1, FinishTypes
  <2> QED
    BY <1>1, <1>11, <2>2 DEF TypeOK, RegistryTypeOK, Quiet, TellGuest
<1>12. ASSUME NEW t \in Controllers, Quiet(CloseGuest(t)) PROVE TypeOK'
  BY <1>1, <1>12 DEF TypeOK, RegistryTypeOK, Quiet, CloseGuest
<1>13. ASSUME NEW t \in Controllers, Quiet(KickLeave(t)) PROVE TypeOK'
  <2>1. Finish(t, TRUE) /\ RegistryTypeOK
    BY <1>1, <1>13 DEF Quiet, KickLeave, TypeOK
  <2>2. /\ cpc' \in [Controllers -> {"idle", "tell", "close", "leave", "reply"}]
        /\ cmd' \in [Controllers -> [op : Ops, name : Names \cup {None}, who : Conns \cup {None}, ok : BOOLEAN]]
        /\ cpc'[t] = "reply" /\ \A u \in Controllers \ {t} : cpc'[u] = cpc[u] /\ cmd'[u] = cmd[u]
    BY <2>1, FinishTypes
  <2>3. guests' \subseteq guests
    BY <1>13 DEF Quiet, KickLeave, Without
  <2> QED
    BY <1>1, <1>13, <2>2, <2>3 DEF TypeOK, RegistryTypeOK, Quiet, KickLeave
<1>14. ASSUME NEW t \in Controllers, Reply(t) PROVE TypeOK'
  BY <1>1, <1>14, NoCommandType DEF TypeOK, RegistryTypeOK, Reply, Replied
<1>15. ASSUME NEW t \in Controllers, NEW op \in Ops, NEW n \in Names, Ctl(t, op, n) PROVE TypeOK'
  <2>1. RegistryTypeOK /\ Command(t, op, n) /\ n \in Names \cup {None}
    BY <1>1, <1>15 DEF TypeOK, Ctl
  <2>2. /\ cpc' \in [Controllers -> {"idle", "tell", "close", "leave", "reply"}]
        /\ cmd' \in [Controllers -> [op : Ops, name : Names \cup {None}, who : Conns \cup {None}, ok : BOOLEAN]]
        /\ writable' \in [Conns -> BOOLEAN] /\ warned' \in [Conns -> BOOLEAN]
    BY <2>1, CommandTypes
  <2>3. late' \in [Conns -> Nat] /\ given' \in 0 .. MaxCommands
    BY <1>1, <1>15 DEF TypeOK, Ctl
  <2> QED
    BY <1>1, <2>1, <2>2, <2>3 DEF TypeOK, RegistryTypeOK, Command
<1>16. CASE UNCHANGED vars
  BY <1>1, <1>16 DEF TypeOK, RegistryTypeOK, vars, registryVars
<1>17. ASSUME NEW c \in Conns, Quiet(ReadFrame(c)) PROVE TypeOK'
  BY <1>1, <1>17 DEF TypeOK, RegistryTypeOK, Quiet, ReadFrame, Goto
<1> QED
  BY <1>2, <1>3, <1>4, <1>5, <1>6, <1>7, <1>8, <1>9, <1>10, <1>11, <1>12, <1>13, <1>14, <1>15, <1>16, <1>17 DEF Next, Serve, Execute, HandlerStep, CommandStep, Quiet

\* Types of the registry and of what its handlers hold.
THEOREM TypeCorrect == Spec => []TypeOK
<1>1. Init => TypeOK
  BY InitTypes
<1>2. TypeOK /\ [Next]_vars => TypeOK'
  BY NextTypes
<1> QED
  BY <1>1, <1>2, PTL DEF Spec
-----------------------------------------------------------------------------
(* The inductive invariant: besides the types and the names, what the late *)
(* chunks, the closed connections and the commands under way have to do    *)
(* with the handlers.                                                      *)

\* A guest whose late chunk was applied has none in hand that will pass the check.
LateInv ==
  \A c \in Conns :
    /\ late[c] <= 1
    /\ late[c] = 1 => pc[c] \notin {"out", "write"} /\ (~writable[c] \/ (c \in closed /\ pc[c] # "read"))

\* A connection that has not joined is not closed, and no command is about it.
OutInv ==
  /\ \A c \in closed : pc[c] # "out"
  /\ \A t \in Controllers : cpc[t] \in {"tell", "close", "leave"} => pc[cmd[t].who] # "out"

\* A kick closes the connection before it takes the guest off the list.
CommandInv ==
  \A t \in Controllers :
    /\ cpc[t] = "tell" => cmd[t].op # "kick"
    /\ cpc[t] = "leave" => cmd[t].who \in closed

IInv == TypeOK /\ NamesUnique /\ LateInv /\ OutInv /\ CommandInv /\ KickedOut

\* Only Join puts a guest in the list, under a name nobody there has.
LEMMA NamesStep == TypeOK /\ NamesUnique /\ [Next]_vars => NamesUnique'
<1> SUFFICES ASSUME TypeOK, NamesUnique, [Next]_vars PROVE NamesUnique'
  OBVIOUS
<1>1. ASSUME NEW c \in Conns, Write(c) PROVE NamesUnique'
  BY <1>1 DEF NamesUnique, Write, Written, Goto
<1>2. ASSUME NEW c \in Conns, Quiet(ReadFlag(c)) PROVE NamesUnique'
  BY <1>2 DEF NamesUnique, Quiet, ReadFlag, Goto
<1>3. ASSUME NEW c \in Conns, Quiet(Greet(c)) PROVE NamesUnique'
  BY <1>3 DEF NamesUnique, Quiet, Greet, Goto
<1>4. ASSUME NEW c \in Conns, Quiet(Warn(c)) PROVE NamesUnique'
  BY <1>4 DEF NamesUnique, Quiet, Warn, Goto
<1>5. ASSUME NEW c \in Conns, Quiet(End(c)) PROVE NamesUnique'
  BY <1>5 DEF NamesUnique, Quiet, End, Without, Goto
<1>6. ASSUME NEW c \in Conns, Quiet(Join(c)) PROVE NamesUnique'
  <2>1. c \notin guests
    BY <1>6 DEF TypeOK, Quiet, Join
  <2>2. FreeName(Wanted[c]) \in Names \ Taken
    BY <2>1, FreeNameFacts DEF TypeOK
  <2>3. \A g \in guests : name'[g] = name[g] /\ name[g] # name'[c]
    BY <1>6, <2>1, <2>2 DEF TypeOK, RegistryTypeOK, Quiet, Join, Taken
  <2> QED
    BY <1>6, <2>1, <2>3 DEF NamesUnique, Quiet, Join
<1>7. ASSUME NEW c \in Conns, Quiet(Input(c)) PROVE NamesUnique'
  BY <1>7 DEF NamesUnique, Quiet, Input, MayType, Goto
<1>8. ASSUME NEW c \in Conns, Quiet(Disconnect(c)) PROVE NamesUnique'
  BY <1>8 DEF NamesUnique, Quiet, Disconnect
<1>9. ASSUME NEW c \in Conns, Quiet(Drop(c)) PROVE NamesUnique'
  BY <1>9 DEF NamesUnique, Quiet, Drop, Without
<1>10. ASSUME NEW t \in Controllers, Quiet(TellGuest(t)) PROVE NamesUnique'
  BY <1>10 DEF NamesUnique, Quiet, TellGuest
<1>11. ASSUME NEW t \in Controllers, Quiet(CloseGuest(t)) PROVE NamesUnique'
  BY <1>11 DEF NamesUnique, Quiet, CloseGuest
<1>12. ASSUME NEW t \in Controllers, Quiet(KickLeave(t)) PROVE NamesUnique'
  BY <1>12 DEF NamesUnique, Quiet, KickLeave, Without
<1>13. ASSUME NEW t \in Controllers, Reply(t) PROVE NamesUnique'
  BY <1>13 DEF NamesUnique, Reply, Replied
<1>14. ASSUME NEW t \in Controllers, NEW op \in Ops, NEW n \in Names, Ctl(t, op, n) PROVE NamesUnique'
  BY <1>14 DEF NamesUnique, Ctl, Command
<1>15. CASE UNCHANGED vars
  BY <1>15 DEF NamesUnique, vars, registryVars
<1>16. ASSUME NEW c \in Conns, Quiet(ReadFrame(c)) PROVE NamesUnique'
  BY <1>16 DEF NamesUnique, Quiet, ReadFrame, Goto
<1> QED
  BY <1>1, <1>2, <1>3, <1>4, <1>5, <1>6, <1>7, <1>8, <1>9, <1>10, <1>11, <1>12, <1>13, <1>14, <1>15, <1>16 DEF Next, Serve, Execute, HandlerStep, CommandStep, Quiet

\* A chunk is late only when its guest lost the permission, or the connection, behind
\* its back; the next one does not pass the check.
LEMMA LateStep == TypeOK /\ LateInv /\ [Next]_vars => LateInv'
<1> SUFFICES ASSUME TypeOK, LateInv, [Next]_vars PROVE LateInv'
  OBVIOUS
<1>1. ASSUME NEW c \in Conns, Write(c) PROVE LateInv'
  BY <1>1 DEF LateInv, TypeOK, RegistryTypeOK, Write, Written, Goto
<1>2. ASSUME NEW c \in Conns, Quiet(ReadFlag(c)) PROVE LateInv'
  BY <1>2 DEF LateInv, TypeOK, RegistryTypeOK, Quiet, ReadFlag, Goto
<1>3. ASSUME NEW c \in Conns, Quiet(Greet(c)) PROVE LateInv'
  BY <1>3 DEF LateInv, TypeOK, RegistryTypeOK, Quiet, Greet, Goto
<1>4. ASSUME NEW c \in Conns, Quiet(Warn(c)) PROVE LateInv'
  BY <1>4 DEF LateInv, TypeOK, RegistryTypeOK, Quiet, Warn, Goto
<1>5. ASSUME NEW c \in Conns, Quiet(End(c)) PROVE LateInv'
  BY <1>5 DEF LateInv, TypeOK, RegistryTypeOK, Quiet, End, Without, Goto
<1>6. ASSUME NEW c \in Conns, Quiet(Join(c)) PROVE LateInv'
  BY <1>6 DEF LateInv, TypeOK, RegistryTypeOK, Quiet, Join, Goto
<1>7. ASSUME NEW c \in Conns, Quiet(Input(c)) PROVE LateInv'
  BY <1>7 DEF LateInv, TypeOK, RegistryTypeOK, Quiet, Input, MayType, Goto
<1>8. ASSUME NEW c \in Conns, Quiet(Disconnect(c)) PROVE LateInv'
  BY <1>8 DEF LateInv, TypeOK, RegistryTypeOK, Quiet, Disconnect
<1>9. ASSUME NEW c \in Conns, Quiet(Drop(c)) PROVE LateInv'
  BY <1>9 DEF LateInv, TypeOK, RegistryTypeOK, Quiet, Drop, Without
<1>10. ASSUME NEW t \in Controllers, Quiet(TellGuest(t)) PROVE LateInv'
  BY <1>10 DEF LateInv, TypeOK, RegistryTypeOK, Quiet, TellGuest
<1>11. ASSUME NEW t \in Controllers, Quiet(CloseGuest(t)) PROVE LateInv'
  BY <1>11 DEF LateInv, TypeOK, RegistryTypeOK, Quiet, CloseGuest
<1>12. ASSUME NEW t \in Controllers, Quiet(KickLeave(t)) PROVE LateInv'
  BY <1>12 DEF LateInv, TypeOK, RegistryTypeOK, Quiet, KickLeave, Without
<1>13. ASSUME NEW t \in Controllers, Reply(t) PROVE LateInv'
  BY <1>13 DEF LateInv, TypeOK, RegistryTypeOK, Reply, Replied
<1>14. ASSUME NEW t \in Controllers, NEW op \in Ops, NEW n \in Names, Ctl(t, op, n) PROVE LateInv'
  BY <1>14 DEF LateInv, TypeOK, RegistryTypeOK, Ctl, Command
<1>15. CASE UNCHANGED vars
  BY <1>15 DEF LateInv, TypeOK, RegistryTypeOK, vars, registryVars
<1>16. ASSUME NEW c \in Conns, Quiet(ReadFrame(c)) PROVE LateInv'
  BY <1>16 DEF LateInv, TypeOK, RegistryTypeOK, Quiet, ReadFrame, Goto
<1> QED
  BY <1>1, <1>2, <1>3, <1>4, <1>5, <1>6, <1>7, <1>8, <1>9, <1>10, <1>11, <1>12, <1>13, <1>14, <1>15, <1>16 DEF Next, Serve, Execute, HandlerStep, CommandStep, Quiet

\* Connections that are closed or commanded have joined.
LEMMA OutStep == TypeOK /\ OutInv /\ [Next]_vars => OutInv'
<1> SUFFICES ASSUME TypeOK, OutInv, [Next]_vars PROVE OutInv'
  OBVIOUS
<1>1. ASSUME NEW c \in Conns, Write(c) PROVE OutInv'
  BY <1>1 DEF OutInv, TypeOK, RegistryTypeOK, Write, Written, Goto
<1>2. ASSUME NEW c \in Conns, Quiet(ReadFlag(c)) PROVE OutInv'
  BY <1>2 DEF OutInv, TypeOK, RegistryTypeOK, Quiet, ReadFlag, Goto
<1>3. ASSUME NEW c \in Conns, Quiet(Greet(c)) PROVE OutInv'
  BY <1>3 DEF OutInv, TypeOK, RegistryTypeOK, Quiet, Greet, Goto
<1>4. ASSUME NEW c \in Conns, Quiet(Warn(c)) PROVE OutInv'
  BY <1>4 DEF OutInv, TypeOK, RegistryTypeOK, Quiet, Warn, Goto
<1>5. ASSUME NEW c \in Conns, Quiet(End(c)) PROVE OutInv'
  BY <1>5 DEF OutInv, TypeOK, RegistryTypeOK, Quiet, End, Without, Goto
<1>6. ASSUME NEW c \in Conns, Quiet(Join(c)) PROVE OutInv'
  BY <1>6 DEF OutInv, TypeOK, RegistryTypeOK, Quiet, Join, Goto
<1>7. ASSUME NEW c \in Conns, Quiet(Input(c)) PROVE OutInv'
  BY <1>7 DEF OutInv, TypeOK, RegistryTypeOK, Quiet, Input, MayType, Goto
<1>8. ASSUME NEW c \in Conns, Quiet(Disconnect(c)) PROVE OutInv'
  BY <1>8 DEF OutInv, TypeOK, RegistryTypeOK, Quiet, Disconnect
<1>9. ASSUME NEW c \in Conns, Quiet(Drop(c)) PROVE OutInv'
  BY <1>9 DEF OutInv, TypeOK, RegistryTypeOK, Quiet, Drop, Without
<1>10. ASSUME NEW t \in Controllers, Quiet(TellGuest(t)) PROVE OutInv'
  <2>1. Finish(t, TRUE) /\ RegistryTypeOK /\ cpc[t] = "tell"
    BY <1>10 DEF Quiet, TellGuest, TypeOK
  <2>2. /\ cpc'[t] = "reply" /\ cmd'[t].op = cmd[t].op /\ cmd'[t].who = cmd[t].who
        /\ \A u \in Controllers \ {t} : cpc'[u] = cpc[u] /\ cmd'[u] = cmd[u]
    BY <2>1, FinishTypes
  <2> QED
    BY <1>10, <2>1, <2>2 DEF OutInv, TypeOK, Quiet, TellGuest
<1>11. ASSUME NEW t \in Controllers, Quiet(CloseGuest(t)) PROVE OutInv'
  BY <1>11 DEF OutInv, TypeOK, RegistryTypeOK, Quiet, CloseGuest
<1>12. ASSUME NEW t \in Controllers, Quiet(KickLeave(t)) PROVE OutInv'
  <2>1. Finish(t, TRUE) /\ RegistryTypeOK /\ cpc[t] = "leave"
    BY <1>12 DEF Quiet, KickLeave, TypeOK
  <2>2. /\ cpc'[t] = "reply" /\ cmd'[t].op = cmd[t].op /\ cmd'[t].who = cmd[t].who
        /\ \A u \in Controllers \ {t} : cpc'[u] = cpc[u] /\ cmd'[u] = cmd[u]
    BY <2>1, FinishTypes
  <2> QED
    BY <1>12, <2>1, <2>2 DEF OutInv, TypeOK, Quiet, KickLeave, Without
<1>13. ASSUME NEW t \in Controllers, Reply(t) PROVE OutInv'
  BY <1>13 DEF OutInv, TypeOK, RegistryTypeOK, Reply, Replied
<1>14. ASSUME NEW t \in Controllers, NEW op \in Ops, NEW n \in Names, Ctl(t, op, n) PROVE OutInv'
  BY <1>14 DEF OutInv, TypeOK, RegistryTypeOK, Ctl, Command
<1>15. CASE UNCHANGED vars
  BY <1>15 DEF OutInv, TypeOK, RegistryTypeOK, vars, registryVars
<1>16. ASSUME NEW c \in Conns, Quiet(ReadFrame(c)) PROVE OutInv'
  BY <1>16 DEF OutInv, TypeOK, RegistryTypeOK, Quiet, ReadFrame, Goto
<1> QED
  BY <1>1, <1>2, <1>3, <1>4, <1>5, <1>6, <1>7, <1>8, <1>9, <1>10, <1>11, <1>12, <1>13, <1>14, <1>15, <1>16 DEF Next, Serve, Execute, HandlerStep, CommandStep, Quiet

\* Commands keep to their order.
LEMMA CommandStepInv == TypeOK /\ CommandInv /\ [Next]_vars => CommandInv'
<1> SUFFICES ASSUME TypeOK, CommandInv, [Next]_vars PROVE CommandInv'
  OBVIOUS
<1>1. ASSUME NEW c \in Conns, Write(c) PROVE CommandInv'
  BY <1>1 DEF CommandInv, TypeOK, RegistryTypeOK, Write, Written, Goto
<1>2. ASSUME NEW c \in Conns, Quiet(ReadFlag(c)) PROVE CommandInv'
  BY <1>2 DEF CommandInv, TypeOK, RegistryTypeOK, Quiet, ReadFlag, Goto
<1>3. ASSUME NEW c \in Conns, Quiet(Greet(c)) PROVE CommandInv'
  BY <1>3 DEF CommandInv, TypeOK, RegistryTypeOK, Quiet, Greet, Goto
<1>4. ASSUME NEW c \in Conns, Quiet(Warn(c)) PROVE CommandInv'
  BY <1>4 DEF CommandInv, TypeOK, RegistryTypeOK, Quiet, Warn, Goto
<1>5. ASSUME NEW c \in Conns, Quiet(End(c)) PROVE CommandInv'
  BY <1>5 DEF CommandInv, TypeOK, RegistryTypeOK, Quiet, End, Without, Goto
<1>6. ASSUME NEW c \in Conns, Quiet(Join(c)) PROVE CommandInv'
  BY <1>6 DEF CommandInv, TypeOK, RegistryTypeOK, Quiet, Join, Goto
<1>7. ASSUME NEW c \in Conns, Quiet(Input(c)) PROVE CommandInv'
  BY <1>7 DEF CommandInv, TypeOK, RegistryTypeOK, Quiet, Input, MayType, Goto
<1>8. ASSUME NEW c \in Conns, Quiet(Disconnect(c)) PROVE CommandInv'
  BY <1>8 DEF CommandInv, TypeOK, RegistryTypeOK, Quiet, Disconnect
<1>9. ASSUME NEW c \in Conns, Quiet(Drop(c)) PROVE CommandInv'
  BY <1>9 DEF CommandInv, TypeOK, RegistryTypeOK, Quiet, Drop, Without
<1>10. ASSUME NEW t \in Controllers, Quiet(TellGuest(t)) PROVE CommandInv'
  <2>1. Finish(t, TRUE) /\ RegistryTypeOK /\ cpc[t] = "tell"
    BY <1>10 DEF Quiet, TellGuest, TypeOK
  <2>2. /\ cpc'[t] = "reply" /\ cmd'[t].op = cmd[t].op /\ cmd'[t].who = cmd[t].who
        /\ \A u \in Controllers \ {t} : cpc'[u] = cpc[u] /\ cmd'[u] = cmd[u]
    BY <2>1, FinishTypes
  <2> QED
    BY <1>10, <2>1, <2>2 DEF CommandInv, TypeOK, Quiet, TellGuest
<1>11. ASSUME NEW t \in Controllers, Quiet(CloseGuest(t)) PROVE CommandInv'
  BY <1>11 DEF CommandInv, TypeOK, RegistryTypeOK, Quiet, CloseGuest
<1>12. ASSUME NEW t \in Controllers, Quiet(KickLeave(t)) PROVE CommandInv'
  <2>1. Finish(t, TRUE) /\ RegistryTypeOK /\ cpc[t] = "leave"
    BY <1>12 DEF Quiet, KickLeave, TypeOK
  <2>2. /\ cpc'[t] = "reply" /\ cmd'[t].op = cmd[t].op /\ cmd'[t].who = cmd[t].who
        /\ \A u \in Controllers \ {t} : cpc'[u] = cpc[u] /\ cmd'[u] = cmd[u]
    BY <2>1, FinishTypes
  <2> QED
    BY <1>12, <2>1, <2>2 DEF CommandInv, TypeOK, Quiet, KickLeave, Without
<1>13. ASSUME NEW t \in Controllers, Reply(t) PROVE CommandInv'
  BY <1>13 DEF CommandInv, TypeOK, RegistryTypeOK, Reply, Replied
<1>14. ASSUME NEW t \in Controllers, NEW op \in Ops, NEW n \in Names, Ctl(t, op, n) PROVE CommandInv'
  BY <1>14 DEF CommandInv, TypeOK, RegistryTypeOK, Ctl, Command
<1>15. CASE UNCHANGED vars
  BY <1>15 DEF CommandInv, TypeOK, RegistryTypeOK, vars, registryVars
<1>16. ASSUME NEW c \in Conns, Quiet(ReadFrame(c)) PROVE CommandInv'
  BY <1>16 DEF CommandInv, TypeOK, RegistryTypeOK, Quiet, ReadFrame, Goto
<1> QED
  BY <1>1, <1>2, <1>3, <1>4, <1>5, <1>6, <1>7, <1>8, <1>9, <1>10, <1>11, <1>12, <1>13, <1>14, <1>15, <1>16 DEF Next, Serve, Execute, HandlerStep, CommandStep, Quiet

\* Whoever was kicked stays out: the connection cannot join again.
LEMMA KickedStep == TypeOK /\ OutInv /\ CommandInv /\ KickedOut /\ [Next]_vars => KickedOut'
<1> SUFFICES ASSUME TypeOK, OutInv, CommandInv, KickedOut, [Next]_vars PROVE KickedOut'
  OBVIOUS
<1>1. ASSUME NEW c \in Conns, Write(c) PROVE KickedOut'
  BY <1>1 DEF KickedOut, TypeOK, RegistryTypeOK, Write, Written, Goto
<1>2. ASSUME NEW c \in Conns, Quiet(ReadFlag(c)) PROVE KickedOut'
  BY <1>2 DEF KickedOut, TypeOK, RegistryTypeOK, Quiet, ReadFlag, Goto
<1>3. ASSUME NEW c \in Conns, Quiet(Greet(c)) PROVE KickedOut'
  BY <1>3 DEF KickedOut, TypeOK, RegistryTypeOK, Quiet, Greet, Goto
<1>4. ASSUME NEW c \in Conns, Quiet(Warn(c)) PROVE KickedOut'
  BY <1>4 DEF KickedOut, TypeOK, RegistryTypeOK, Quiet, Warn, Goto
<1>5. ASSUME NEW c \in Conns, Quiet(End(c)) PROVE KickedOut'
  BY <1>5 DEF KickedOut, TypeOK, RegistryTypeOK, Quiet, End, Without, Goto
<1>6. ASSUME NEW c \in Conns, Quiet(Join(c)) PROVE KickedOut'
  <2>1. c \notin closed
    BY <1>6 DEF OutInv, Quiet, Join
  <2> QED
    BY <1>6, <2>1 DEF KickedOut, Quiet, Join
<1>7. ASSUME NEW c \in Conns, Quiet(Input(c)) PROVE KickedOut'
  BY <1>7 DEF KickedOut, TypeOK, RegistryTypeOK, Quiet, Input, MayType, Goto
<1>8. ASSUME NEW c \in Conns, Quiet(Disconnect(c)) PROVE KickedOut'
  BY <1>8 DEF KickedOut, TypeOK, RegistryTypeOK, Quiet, Disconnect
<1>9. ASSUME NEW c \in Conns, Quiet(Drop(c)) PROVE KickedOut'
  BY <1>9 DEF KickedOut, TypeOK, RegistryTypeOK, Quiet, Drop, Without
<1>10. ASSUME NEW t \in Controllers, Quiet(TellGuest(t)) PROVE KickedOut'
  <2>1. Finish(t, TRUE) /\ RegistryTypeOK /\ cpc[t] = "tell"
    BY <1>10 DEF Quiet, TellGuest, TypeOK
  <2>2. /\ cpc'[t] = "reply" /\ cmd'[t].op = cmd[t].op /\ cmd'[t].who = cmd[t].who
        /\ \A u \in Controllers \ {t} : cpc'[u] = cpc[u] /\ cmd'[u] = cmd[u]
    BY <2>1, FinishTypes
  <2> QED
    BY <1>10, <2>1, <2>2 DEF KickedOut, TypeOK, CommandInv, Quiet, TellGuest
<1>11. ASSUME NEW t \in Controllers, Quiet(CloseGuest(t)) PROVE KickedOut'
  BY <1>11 DEF KickedOut, TypeOK, RegistryTypeOK, Quiet, CloseGuest
<1>12. ASSUME NEW t \in Controllers, Quiet(KickLeave(t)) PROVE KickedOut'
  <2>1. Finish(t, TRUE) /\ RegistryTypeOK /\ cpc[t] = "leave"
    BY <1>12 DEF Quiet, KickLeave, TypeOK
  <2>2. /\ cpc'[t] = "reply" /\ cmd'[t].op = cmd[t].op /\ cmd'[t].who = cmd[t].who
        /\ \A u \in Controllers \ {t} : cpc'[u] = cpc[u] /\ cmd'[u] = cmd[u]
    BY <2>1, FinishTypes
  <2> QED
    BY <1>12, <2>1, <2>2 DEF KickedOut, TypeOK, CommandInv, Quiet, KickLeave, Without
<1>13. ASSUME NEW t \in Controllers, Reply(t) PROVE KickedOut'
  BY <1>13 DEF KickedOut, TypeOK, RegistryTypeOK, Reply, Replied
<1>14. ASSUME NEW t \in Controllers, NEW op \in Ops, NEW n \in Names, Ctl(t, op, n) PROVE KickedOut'
  <2>1. \A u \in Controllers \ {t} : cpc'[u] = cpc[u] /\ cmd'[u] = cmd[u]
    BY <1>14 DEF TypeOK, RegistryTypeOK, Ctl, Command
  <2>2. \E w : cmd' = [cmd EXCEPT ![t] = [op |-> op, name |-> n, who |-> w, ok |-> FALSE]]
    BY <1>14 DEF Ctl, Command
  <2>3. guests' = guests /\ closed' = closed
    BY <1>14 DEF Ctl, Command
  <2>4. ~ cmd'[t].ok
    BY <2>2 DEF TypeOK, RegistryTypeOK
  <2> QED
    BY <2>1, <2>3, <2>4 DEF KickedOut
<1>15. CASE UNCHANGED vars
  BY <1>15 DEF KickedOut, TypeOK, RegistryTypeOK, vars, registryVars
<1>16. ASSUME NEW c \in Conns, Quiet(ReadFrame(c)) PROVE KickedOut'
  BY <1>16 DEF KickedOut, TypeOK, RegistryTypeOK, Quiet, ReadFrame, Goto
<1> QED
  BY <1>1, <1>2, <1>3, <1>4, <1>5, <1>6, <1>7, <1>8, <1>9, <1>10, <1>11, <1>12, <1>13, <1>14, <1>15, <1>16 DEF Next, Serve, Execute, HandlerStep, CommandStep, Quiet

\* Nothing has happened yet: no guest, no command.
LEMMA InitIInv == Init => IInv
<1> SUFFICES ASSUME Init PROVE IInv
  OBVIOUS
<1>1. \A t \in Controllers : cpc[t] = "idle"
  BY DEF Init, RegistryInit
<1>2. LateInv /\ NamesUnique
  BY DEF Init, RegistryInit, LateInv, NamesUnique
<1>3. OutInv /\ CommandInv /\ KickedOut
  BY <1>1 DEF Init, RegistryInit, OutInv, CommandInv, KickedOut
<1> QED
  BY <1>2, <1>3, InitTypes DEF IInv

LEMMA NextIInv == IInv /\ [Next]_vars => IInv'
BY NextTypes, NamesStep, LateStep, OutStep, CommandStepInv, KickedStep DEF IInv

THEOREM Inductive == Spec => []IInv
<1>1. Init => IInv
  BY InitIInv
<1>2. IInv /\ [Next]_vars => IInv'
  BY NextIInv
<1> QED
  BY <1>1, <1>2, PTL DEF Spec

\* No two guests of a session share a name, however they come, go and are
\* kicked: Join always finds a free one.
THEOREM NamesTheorem == Spec => []NamesUnique
<1>1. IInv => NamesUnique
  BY DEF IInv
<1> QED
  BY <1>1, Inductive, PTL

\* After a denial at most one more chunk of a guest is applied, through any
\* number of denies and allows: writeInput runs after HandleInput's unlock,
\* and a handler has one chunk in hand.
THEOREM LateTheorem == Spec => []AtMostOneLate
<1>1. IInv => AtMostOneLate
  BY DEF IInv, LateInv, AtMostOneLate
<1> QED
  BY <1>1, Inductive, PTL

\* A kick that has answered stays done.
THEOREM KickedTheorem == Spec => []KickedOut
<1>1. IInv => KickedOut
  BY DEF IInv
<1> QED
  BY <1>1, Inductive, PTL

\* No step takes a guest off the list whose connection is open: broadcasts
\* drop only those they could not write to, and a kick closes first.
LEMMA OnlyClosedStep ==
  IInv /\ [Next]_vars => [\A c \in guests \ guests' : c \in closed']_registryVars
<1> DEFINE Goal == \A c \in guests \ guests' : c \in closed'
<1> SUFFICES ASSUME IInv, [Next]_vars PROVE Goal
  OBVIOUS
<1>1. ASSUME NEW c \in Conns, Write(c) PROVE Goal
  BY <1>1 DEF Write, Written
<1>2. ASSUME NEW c \in Conns, Quiet(ReadFlag(c)) PROVE Goal
  BY <1>2 DEF Quiet, ReadFlag
<1>3. ASSUME NEW c \in Conns, Quiet(Greet(c)) PROVE Goal
  BY <1>3 DEF Quiet, Greet
<1>4. ASSUME NEW c \in Conns, Quiet(Warn(c)) PROVE Goal
  BY <1>4 DEF Quiet, Warn
<1>5. ASSUME NEW c \in Conns, Quiet(End(c)) PROVE Goal
  BY <1>5 DEF Quiet, End, Without
<1>6. ASSUME NEW c \in Conns, Quiet(Join(c)) PROVE Goal
  BY <1>6 DEF Quiet, Join
<1>7. ASSUME NEW c \in Conns, Quiet(Input(c)) PROVE Goal
  BY <1>7 DEF Quiet, Input
<1>8. ASSUME NEW c \in Conns, Quiet(Disconnect(c)) PROVE Goal
  BY <1>8 DEF Quiet, Disconnect
<1>9. ASSUME NEW c \in Conns, Quiet(Drop(c)) PROVE Goal
  BY <1>9 DEF Quiet, Drop, Without
<1>10. ASSUME NEW t \in Controllers, Quiet(TellGuest(t)) PROVE Goal
  BY <1>10 DEF Quiet, TellGuest
<1>11. ASSUME NEW t \in Controllers, Quiet(CloseGuest(t)) PROVE Goal
  BY <1>11 DEF Quiet, CloseGuest
<1>12. ASSUME NEW t \in Controllers, Quiet(KickLeave(t)) PROVE Goal
  BY <1>12 DEF IInv, CommandInv, Quiet, KickLeave, Without
<1>13. ASSUME NEW t \in Controllers, Reply(t) PROVE Goal
  BY <1>13 DEF Reply, Replied
<1>14. ASSUME NEW t \in Controllers, NEW op \in Ops, NEW n \in Names, Ctl(t, op, n) PROVE Goal
  BY <1>14 DEF Ctl, Command
<1>15. CASE UNCHANGED vars
  BY <1>15 DEF vars, registryVars
<1>16. ASSUME NEW c \in Conns, Quiet(ReadFrame(c)) PROVE Goal
  BY <1>16 DEF Quiet, ReadFrame
<1> HIDE DEF Goal
<1> QED
  BY <1>1, <1>2, <1>3, <1>4, <1>5, <1>6, <1>7, <1>8, <1>9, <1>10, <1>11, <1>12, <1>13, <1>14, <1>15, <1>16 DEF Next, Serve, Execute, HandlerStep, CommandStep, Quiet

THEOREM OnlyClosedTheorem == Spec => OnlyClosedLeave
<1>1. IInv /\ [Next]_vars => [\A c \in guests \ guests' : c \in closed']_registryVars
  BY OnlyClosedStep
<1> QED
  BY <1>1, Inductive, PTL DEF Spec, OnlyClosedLeave
=============================================================================
