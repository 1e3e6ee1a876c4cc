-------------------------------- MODULE Arena --------------------------------
(***************************************************************************)
(* `cotty arena`: internal/arena/arena.go (rounds and the state file) and  *)
(* internal/arena/book.go (a portfolio's orders).                          *)
(*                                                                         *)
(* A round asks every model at once and executes the replies in the order  *)
(* of the roster; then the competition is saved through a temporary file.  *)
(* The process may be stopped or die at any step and be started again,     *)
(* with another roster.                                                    *)
(*                                                                         *)
(* Dollars are whole; a token has Scale units, and a division that does    *)
(* not come out is rounded down.                                           *)
(***************************************************************************)
EXTENDS Integers, Sequences, FiniteSets, Functions

CONSTANTS
  Models, Name,     \* the models and their short names
  Bench,            \* the name of the buy-and-hold contestant
  Symbols, Benchmark,
  Markets,          \* what the exchange may quote: symbol -> bid, ask, halted
  Decisions,        \* the lists of orders that a model may reply
  Pending, Failed,  \* no reply yet, no decision
  Rosters,          \* the lists of models that the arena may be started with
  Cash, Scale, MinOrder,
  Crumb,            \* less than this is not left over, but sold as well
  KeepNotes,
  Every,            \* the time between rounds
  MaxTime, MaxStarts  \* bounds

ASSUME ConstantsAssumption ==
  /\ Rosters \subseteq Seq(Models)
  /\ {Cash, Scale, MinOrder, Crumb, KeepNotes, Every} \subseteq Nat \ {0}
  /\ Benchmark \in Symbols
  /\ {MaxTime, MaxStarts} \subseteq Nat

\* The exchange quotes finitely many symbols, and not crossed.
ASSUME MarketsAssumption ==
  \A m \in Markets :
    /\ DOMAIN m \subseteq Symbols /\ IsFiniteSet(DOMAIN m)
    /\ \A s \in DOMAIN m :
         m[s].bid \in Nat \ {0} /\ m[s].ask \in Nat /\ m[s].bid <= m[s].ask /\ m[s].halted \in BOOLEAN

Order == [symbol : Symbols, side : {"buy", "sell"}, usd : Nat]

ASSUME OrdersAssumption == Decisions \subseteq Seq(Order) /\ {Pending, Failed} \cap Decisions = {}

VARIABLES
  now,
  starts,   \* how many times the arena was started
  file,     \* the state file; a missing or torn one reads as Nothing
  tmp,      \* the temporary file
  comp,     \* the competition in memory
  roster,   \* the models of this run, in order
  pc,       \* where Run is
  next,     \* when the next round is due
  stopped,  \* Ctrl-C was pressed
  quotes,   \* of this round
  results,  \* position in the roster -> its reply
  turn,     \* whose reply is executed next
  unsaved,  \* history: the last save failed
  base      \* history: the competition before the round that is being played

vars == <<now, starts, file, tmp, comp, roster, pc, next, stopped, quotes, results, turn, unsaved, base>>

Never == 0 - Every
Fresh == [cash |-> Cash, tokens |-> [s \in Symbols |-> 0], trades |-> 0, notes |-> << >>]
Nothing == [round |-> 0, lastPlay |-> Never, players |-> [n \in {} |-> Fresh]]

-----------------------------------------------------------------------------
(* A portfolio *)

\* Faulty variant: pays what was ordered.
AsOrdered(p, o) == o.usd

\* A purchase is clamped to the cash.
Spent(p, o) == IF o.usd <= p.cash THEN o.usd ELSE p.cash

Buy(p, o, q) ==
  IF Spent(p, o) < MinOrder THEN p
  ELSE [p EXCEPT !.cash = @ - Spent(p, o),
                 !.tokens[o.symbol] = @ + (Spent(p, o) * Scale) \div q.ask,
                 !.trades = @ + 1]

\* A sale is clamped to the holding, and leaves no crumb.
Sold(p, o, q) ==
  LET held == p.tokens[o.symbol]
      n == (o.usd * Scale) \div q.bid
  IN IF n >= held \/ held - n < Crumb THEN held ELSE n

\* Faulty variant: sells at the ask.
ProceedsAtAsk(n, q) == (n * q.ask) \div Scale

Proceeds(n, q) == (n * q.bid) \div Scale

Sell(p, o, q) ==
  IF p.tokens[o.symbol] = 0 THEN p
  ELSE [p EXCEPT !.tokens[o.symbol] = @ - Sold(p, o, q),
                 !.cash = @ + Proceeds(Sold(p, o, q), q),
                 !.trades = @ + 1]

\* One order; only quoted symbols trade, and not while halted.
Fill(p, o, m) ==
  IF o.symbol \notin DOMAIN m \/ o.usd < MinOrder THEN p
  ELSE LET q == m[o.symbol]
       IN IF q.halted THEN p ELSE IF o.side = "buy" THEN Buy(p, o, q) ELSE Sell(p, o, q)

\* Execute: the first three orders in turn.
Executed(p, orders, m) ==
  LET Then(r, i) == IF i \in DOMAIN orders THEN Fill(r, orders[i], m) ELSE r
  IN Then(Then(Then(p, 1), 2), 3)

\* addNote keeps the last ones.
Noted(p, round) ==
  LET all == Append(p.notes, round)
  IN [p EXCEPT !.notes = SubSeq(all, IF Len(all) > KeepNotes THEN Len(all) - KeepNotes + 1 ELSE 1, Len(all))]

\* Twice Scale times the equity: cash, and positions at the mid.
Worth(p, m) ==
  2 * Scale * p.cash + SumFunction([s \in DOMAIN m |-> p.tokens[s] * (m[s].bid + m[s].ask)])

-----------------------------------------------------------------------------
(* Run and load *)

Names(r) == {Bench} \cup {Name[r[i]] : i \in DOMAIN r}

\* Faulty variant: the number of the round is not restored.
RestoredFromOne(f, r) ==
  [f EXCEPT !.round = 0,
            !.players = [n \in DOMAIN @ \cup Names(r) |-> IF n \in DOMAIN @ THEN @[n] ELSE Fresh]]

\* The saved competition; whoever is new in it starts with the same cash.  The
\* code also starts afresh when there is a file and it cannot be read.
Restored(f, r) ==
  [f EXCEPT !.players = [n \in DOMAIN @ \cup Names(r) |-> IF n \in DOMAIN @ THEN @[n] ELSE Fresh]]

\* Faulty variant: trades again the moment it restarts.
DueAtOnce(c) == Never

Due(c) == c.lastPlay + Every

Start(r) ==
  /\ pc = "off"
  /\ starts < MaxStarts
  /\ starts' = starts + 1
  /\ roster' = r
  /\ comp' = Restored(file, r)
  /\ next' = Due(comp')
  /\ pc' = "ready"
  /\ stopped' = FALSE
  /\ results' = [i \in DOMAIN r |-> Pending]
  /\ turn' = 1
  /\ unsaved' = FALSE
  /\ UNCHANGED <<now, file, tmp, quotes, base>>

\* Ctrl-C: the context is cancelled.
Stop ==
  /\ pc # "off" /\ ~stopped
  /\ stopped' = TRUE
  /\ UNCHANGED <<now, starts, file, tmp, comp, roster, pc, next, quotes, results, turn, unsaved, base>>

Off ==
  /\ pc' = "off"
  /\ comp' = Nothing /\ roster' = << >> /\ next' = 0 /\ stopped' = FALSE
  /\ quotes' = << >> /\ results' = << >> /\ turn' = 1 /\ unsaved' = FALSE /\ base' = Nothing

\* Run returns, between rounds.
Exit ==
  /\ pc = "ready" /\ stopped
  /\ Off
  /\ UNCHANGED <<now, starts, file, tmp>>

\* The process dies; a file it was writing is torn.
Crash ==
  /\ pc # "off"
  /\ Off
  /\ tmp' \in IF pc = "write" THEN {tmp, Nothing} ELSE {tmp}
  /\ UNCHANGED <<now, starts, file>>

-----------------------------------------------------------------------------
(* play *)

\* The competition in a round, with a contestant's portfolio after it.
Played(c, round, n, p) ==
  [round |-> round, lastPlay |-> c.lastPlay, players |-> [c.players EXCEPT ![n] = p]]

\* The benchmark buys if it has not yet.
Opened(b, m, round) ==
  LET all == [symbol |-> Benchmark, side |-> "buy", usd |-> b.cash]
  IN IF b.trades = 0 THEN Noted(Executed(b, <<all>>, m), round) ELSE b

\* One reply is executed and noted, a failure only noted.
Turned(p, reply, m, round) ==
  Noted(IF reply = Failed THEN p ELSE Executed(p, reply, m), round)

\* No quotes, or the context is cancelled: no round.
NoRound ==
  /\ pc = "ready" /\ now >= next
  /\ next' = now + Every
  /\ UNCHANGED <<now, starts, file, tmp, comp, roster, pc, stopped, quotes, results, turn, unsaved, base>>

\* A round begins with quotes, and with the benchmark.
BeginRound(m) ==
  /\ pc = "ready" /\ now >= next /\ ~stopped
  /\ DOMAIN m # {}
  /\ quotes' = m
  /\ comp' = Played(comp, comp.round + 1, Bench, Opened(comp.players[Bench], m, comp.round + 1))
  /\ base' = comp
  /\ results' = [i \in DOMAIN roster |-> Pending]
  /\ turn' = 1
  /\ pc' = "deciding"
  /\ UNCHANGED <<now, starts, file, tmp, roster, next, stopped, unsaved>>

\* A model replies with a decision, in its goroutine.
Decide(i, orders) ==
  /\ pc = "deciding"
  /\ results[i] = Pending
  /\ results' = [results EXCEPT ![i] = orders]
  /\ UNCHANGED <<now, starts, file, tmp, comp, roster, pc, next, stopped, quotes, turn, unsaved, base>>

\* Faulty variant: the error is not recorded, and Wait waits.
FailQuietly(i) ==
  /\ pc = "deciding"
  /\ results[i] = Pending
  /\ UNCHANGED vars

\* The call fails, its reply has no JSON, two minutes have passed, or Ctrl-C.
Fail(i) ==
  /\ pc = "deciding"
  /\ results[i] = Pending
  /\ results' = [results EXCEPT ![i] = Failed]
  /\ UNCHANGED <<now, starts, file, tmp, comp, roster, pc, next, stopped, quotes, turn, unsaved, base>>

\* wg.Wait returns.
AllIn ==
  /\ pc = "deciding"
  /\ \A i \in DOMAIN roster : results[i] # Pending
  /\ pc' = "executing"
  /\ UNCHANGED <<now, starts, file, tmp, comp, roster, next, stopped, quotes, results, turn, unsaved, base>>

\* Faulty variant: a failure ends the loop, not only this contestant's turn.
ExecuteTurnOrBreak ==
  /\ pc = "executing"
  /\ turn \in DOMAIN roster
  /\ LET n == Name[roster[turn]]
     IN comp' = Played(comp, comp.round, n, Turned(comp.players[n], results[turn], quotes, comp.round))
  /\ turn' = IF results[turn] = Failed THEN Len(roster) + 1 ELSE turn + 1
  /\ UNCHANGED <<now, starts, file, tmp, roster, pc, next, stopped, quotes, results, unsaved, base>>

\* The next contestant of the roster has its turn.
ExecuteTurn ==
  /\ pc = "executing"
  /\ turn \in DOMAIN roster
  /\ LET n == Name[roster[turn]]
     IN comp' = Played(comp, comp.round, n, Turned(comp.players[n], results[turn], quotes, comp.round))
  /\ turn' = turn + 1
  /\ UNCHANGED <<now, starts, file, tmp, roster, pc, next, stopped, quotes, results, unsaved, base>>

EndRound ==
  /\ pc = "executing"
  /\ turn \notin DOMAIN roster
  /\ comp' = [comp EXCEPT !.lastPlay = now]
  /\ base' = Nothing
  /\ pc' = "write"
  /\ UNCHANGED <<now, starts, file, tmp, roster, next, stopped, quotes, results, turn, unsaved>>

\* Between rounds nothing of the last one is used any more.
Rest ==
  /\ pc' = "ready"
  /\ next' = now + Every
  /\ quotes' = << >>
  /\ results' = [i \in DOMAIN roster |-> Pending]
  /\ turn' = 1

-----------------------------------------------------------------------------
(* save *)

WriteTmp ==
  /\ pc = "write"
  /\ tmp' = comp
  /\ pc' = "rename"
  /\ UNCHANGED <<now, starts, file, comp, roster, next, stopped, quotes, results, turn, unsaved, base>>

\* The disk is full: save gives up without a word.
WriteFails ==
  /\ pc = "write"
  /\ tmp' = Nothing
  /\ unsaved' = TRUE
  /\ Rest
  /\ UNCHANGED <<now, starts, file, comp, roster, stopped, base>>

\* Faulty variant: the old temporary file is renamed.
RenameNothing ==
  /\ pc = "rename"
  /\ Rest
  /\ unsaved' = FALSE
  /\ UNCHANGED <<now, starts, file, tmp, comp, roster, stopped, base>>

Rename ==
  /\ pc = "rename"
  /\ file' = tmp
  /\ unsaved' = FALSE
  /\ Rest
  /\ UNCHANGED <<now, starts, tmp, comp, roster, stopped, base>>

Tick ==
  /\ now < MaxTime
  /\ now' = now + 1
  /\ UNCHANGED <<starts, file, tmp, comp, roster, pc, next, stopped, quotes, results, turn, unsaved, base>>

-----------------------------------------------------------------------------
Init ==
  /\ now = 0 /\ starts = 0
  /\ file = Nothing /\ tmp = Nothing /\ comp = Nothing
  /\ roster = << >> /\ pc = "off" /\ next = 0 /\ stopped = FALSE
  /\ quotes = << >> /\ results = << >> /\ turn = 1 /\ unsaved = FALSE /\ base = Nothing

Play == AllIn \/ ExecuteTurn \/ EndRound \/ WriteTmp \/ WriteFails \/ Rename

Next ==
  \/ \E r \in Rosters : Start(r)
  \/ Stop \/ Exit \/ Crash \/ NoRound
  \/ \E m \in Markets : BeginRound(m)
  \/ \E i \in DOMAIN roster : Fail(i) \/ \E orders \in Decisions : Decide(i, orders)
  \/ Play
  \/ Tick

\* Calls to models end, after two minutes at the latest; play goes on.
Fairness ==
  /\ \A i \in 1 .. Cardinality(Models) : WF_vars(i \in DOMAIN roster /\ Fail(i))
  /\ WF_vars(Play)

Spec == Init /\ [][Next]_vars /\ Fairness

-----------------------------------------------------------------------------
(* Properties *)

Notes == {notes \in Seq(Nat) : Len(notes) <= KeepNotes}
Portfolio == [cash : Nat, tokens : [Symbols -> Nat], trades : Nat, notes : Notes]
Contestants == {Bench} \cup {Name[m] : m \in Models}
Competition(c) ==
  /\ c \in [round : Nat, lastPlay : {Never} \cup Nat, players : [DOMAIN c.players -> Portfolio]]
  /\ DOMAIN c.players \subseteq Contestants

\* Nobody's cash or holding ever goes negative, whatever was ordered: not in
\* memory and not in the files.
TypeOK ==
  /\ now \in 0 .. MaxTime /\ starts \in 0 .. MaxStarts
  /\ \A c \in {file, tmp, comp, base} : Competition(c) /\ c.lastPlay <= now
  /\ roster \in Rosters \cup {<< >>}
  /\ pc \in {"off", "ready", "deciding", "executing", "write", "rename"}
  /\ pc # "off" => Names(roster) \subseteq DOMAIN comp.players
  /\ next \in Int
  /\ results \in [DOMAIN roster -> Decisions \cup {Pending, Failed}]
  /\ pc \in {"deciding", "executing"} => quotes \in Markets
  /\ pc = "executing" => \A i \in DOMAIN roster : results[i] # Pending
  /\ turn \in 1 .. Len(roster) + 1
  /\ stopped \in BOOLEAN /\ unsaved \in BOOLEAN

\* book.go, "buys pay the ask, sells get the bid, positions are marked at
\* the mid": no list of orders makes anybody richer at the market it is
\* executed on, clamping and closing out included.  (A quotient that does not
\* come out is rounded down here; what a float's rounding may add is left out.)
NoFreeMoney ==
  [][\A n \in DOMAIN comp.players :
       n \in DOMAIN comp'.players /\ quotes' # << >>
         => Worth(comp'.players[n], quotes') <= Worth(comp.players[n], quotes')]_vars

\* Through crashes, full disks and restarts, the saved game never falls back
\* to an earlier round.
NoLostRounds == [][file'.round >= file.round]_vars

\* "Pick up where a previous run left off rather than trading again the
\* moment it restarts": saved rounds are a round's time apart.
RoundsApart == [][file'.round # file.round => file'.lastPlay >= file.lastPlay + Every]_vars

\* "Ctrl-C to stop (progress is saved)": between rounds, when Run may return,
\* the file has all that was played, unless the last save failed.
ProgressSaved ==
  pc = "ready" /\ ~unsaved
    => /\ file.round = comp.round /\ file.lastPlay = comp.lastPlay
       /\ \A n \in DOMAIN file.players : comp.players[n] = file.players[n]

\* arena.go:5-7, "every round each model sees ... its own virtual portfolio,
\* and replies": a portfolio has one decision a round, also across restarts.
OneDecisionARound ==
  \A n \in DOMAIN comp.players :
    LET notes == comp.players[n].notes
    IN \A i \in 1 .. Len(notes) - 1 : notes[i] < notes[i + 1]

\* What Game sees of the state: a round counts when all turns of it are over.
Counted == IF pc \in {"deciding", "executing"} THEN base ELSE comp
Team == IF pc = "off" THEN {} ELSE Names(roster)
G == INSTANCE Game WITH disk <- [round |-> file.round, players |-> file.players],
                        round <- Counted.round, players <- Counted.players, team <- Team,
                        Replies <- Decisions \cup {Failed}

\* arena.go:272-273, "every model decides in parallel on the same market, then the
\* decisions are executed": every round is whole, in memory and in the file, wherever
\* the process dies and with whatever roster it is started again.
ImplementsGame == G!Spec

\* A round that began ends, although models may never answer, unless the
\* process dies.
RoundEnds == pc = "deciding" ~> pc \in {"ready", "off"}
=============================================================================
