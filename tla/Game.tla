-------------------------------- MODULE Game --------------------------------
(***************************************************************************)
(* What the arena promises, and nothing about how it keeps the promise:    *)
(* the game goes on by whole rounds.  In a round every contestant of the   *)
(* team has one turn, all on the same market; what is saved is a game      *)
(* between two rounds, and whoever starts again goes on from it.           *)
(* Arena.tla implements this module.                                       *)
(*                                                                         *)
(* Every definition here abstracts internal/arena/arena.go: no clock, no   *)
(* goroutines, no temporary file, no order among the turns of a round.     *)
(***************************************************************************)
EXTENDS Naturals

CONSTANTS
  Contestants, Bench,    \* the short names, that of buy-and-hold among them
  Fresh,                 \* a new contestant's portfolio
  Markets, Replies,      \* what is quoted, and replied
  Opened(_, _, _),       \* the bench's portfolio after a market and a round
  Turned(_, _, _, _)     \* a portfolio after a reply, a market and a round

VARIABLES
  disk,      \* the saved game: the number of the last round, the portfolios
  round,     \* the same in memory
  players,
  team       \* who plays; nobody, while the program is not running

vars == <<disk, round, players, team>>

Nobody == [n \in {} |-> Fresh]

Init ==
  /\ disk = [round |-> 0, players |-> Nobody]
  /\ round = 0 /\ players = Nobody
  /\ team = {}

\* The program starts: the saved game goes on, with newcomers.
Enter(N) ==
  /\ team = {}
  /\ team' = N
  /\ round' = disk.round
  /\ players' = [n \in DOMAIN disk.players \cup N |->
                   IF n \in DOMAIN disk.players THEN disk.players[n] ELSE Fresh]
  /\ UNCHANGED disk

\* A whole round: everyone of the team plays once, and nobody else does.
Round(m) ==
  /\ team # {}
  /\ round' = round + 1
  /\ \E reply \in [team \ {Bench} -> Replies] :
       players' = [n \in DOMAIN players |->
                     IF n = Bench THEN Opened(players[n], m, round')
                     ELSE IF n \in team THEN Turned(players[n], reply[n], m, round')
                     ELSE players[n]]
  /\ UNCHANGED <<disk, team>>

Save ==
  /\ team # {}
  /\ disk' = [round |-> round, players |-> players]
  /\ UNCHANGED <<round, players, team>>

\* The program ends or dies.
Leave ==
  /\ team # {}
  /\ team' = {}
  /\ round' = 0 /\ players' = Nobody
  /\ UNCHANGED disk

Next ==
  \/ \E N \in SUBSET Contestants : Bench \in N /\ Enter(N)
  \/ \E m \in Markets : Round(m)
  \/ Save
  \/ Leave

Spec == Init /\ [][Next]_vars
=============================================================================
