----------------------------- MODULE ArenaProofs -----------------------------
(***************************************************************************)
(* Proofs about Arena, for all models, symbols, markets and decisions,     *)
(* however many rounds are played and however often the process dies.      *)
(***************************************************************************)
EXTENDS Arena, FiniteSetTheorems, TLAPS

\* A quote as the markets have it.
IsQuote(q) == q.bid \in Nat \ {0} /\ q.ask \in Nat \ {0} /\ q.bid <= q.ask

LEMMA DivisionRoundsDown ==
  ASSUME NEW a \in Nat, NEW b \in Nat \ {0}
  PROVE  a \div b \in Nat /\ (a \div b) * b <= a
OBVIOUS

LEMMA ProductIsNat ==
  ASSUME NEW a \in Nat, NEW b \in Nat
  PROVE  a * b \in Nat
OBVIOUS

LEMMA ConstantTypes ==
  /\ Cash \in Nat /\ Scale \in Nat \ {0} /\ MinOrder \in Nat \ {0} /\ Crumb \in Nat
  /\ KeepNotes \in Nat \ {0} /\ Every \in Nat \ {0} /\ MaxTime \in Nat /\ MaxStarts \in Nat
BY ConstantsAssumption

\* A portfolio after a trade, put together.
LEMMA FilledTypes ==
  ASSUME NEW p \in Portfolio, NEW s \in Symbols, NEW cash \in Nat, NEW held \in Nat
  PROVE  /\ [p EXCEPT !.cash = cash, !.tokens[s] = held, !.trades = @ + 1] \in Portfolio
         /\ [p EXCEPT !.tokens[s] = held, !.cash = cash, !.trades = @ + 1] \in Portfolio
<1>1. [p.tokens EXCEPT ![s] = held] \in [Symbols -> Nat]
  BY DEF Portfolio
<1>2. p.trades + 1 \in Nat
  BY DEF Portfolio
<1> QED
  BY <1>1, <1>2 DEF Portfolio

\* A purchase spends cash that is there.
LEMMA BuyTypes ==
  ASSUME NEW p \in Portfolio, NEW o \in Order, NEW q, IsQuote(q)
  PROVE  Buy(p, o, q) \in Portfolio
<1>1. /\ p.cash \in Nat /\ p.tokens \in [Symbols -> Nat] /\ p.trades \in Nat
      /\ o.symbol \in Symbols /\ o.usd \in Nat
  BY DEF Portfolio, Order
<1>2. Spent(p, o) \in Nat /\ Spent(p, o) <= p.cash
  BY <1>1 DEF Spent
<1> DEFINE more == (Spent(p, o) * Scale) \div q.ask
<1>3. more \in Nat
  BY <1>2, ConstantTypes, ProductIsNat, DivisionRoundsDown DEF IsQuote
<1>4. p.cash - Spent(p, o) \in Nat
  BY <1>1, <1>2
<1> HIDE DEF more
<1>5. p.tokens[o.symbol] + more \in Nat
  BY <1>1, <1>3
<1>6. [p EXCEPT !.cash = @ - Spent(p, o), !.tokens[o.symbol] = @ + more, !.trades = @ + 1] \in Portfolio
  BY <1>1, <1>4, <1>5, FilledTypes
<1> QED
  BY <1>6 DEF Buy, more

\* A sale sells tokens that are there.
LEMMA SellTypes ==
  ASSUME NEW p \in Portfolio, NEW o \in Order, NEW q, IsQuote(q)
  PROVE  Sell(p, o, q) \in Portfolio
<1>1. /\ p.cash \in Nat /\ p.tokens \in [Symbols -> Nat] /\ p.trades \in Nat
      /\ o.symbol \in Symbols /\ o.usd \in Nat /\ p.tokens[o.symbol] \in Nat
  BY DEF Portfolio, Order
<1>2. (o.usd * Scale) \div q.bid \in Nat
  BY <1>1, ConstantTypes, ProductIsNat, DivisionRoundsDown DEF IsQuote
<1>3. Sold(p, o, q) \in Nat /\ Sold(p, o, q) <= p.tokens[o.symbol]
  BY <1>1, <1>2 DEF Sold
<1>4. Proceeds(Sold(p, o, q), q) \in Nat
  BY <1>3, ConstantTypes, ProductIsNat, DivisionRoundsDown DEF Proceeds, IsQuote
<1>5. p.tokens[o.symbol] - Sold(p, o, q) \in Nat /\ p.cash + Proceeds(Sold(p, o, q), q) \in Nat
  BY <1>1, <1>3, <1>4
<1>6. [p EXCEPT !.tokens[o.symbol] = @ - Sold(p, o, q),
                !.cash = @ + Proceeds(Sold(p, o, q), q), !.trades = @ + 1] \in Portfolio
  BY <1>1, <1>5, FilledTypes
<1> QED
  BY <1>6 DEF Sell

LEMMA FillTypes ==
  ASSUME NEW p \in Portfolio, NEW o \in Order, NEW m \in Markets
  PROVE  Fill(p, o, m) \in Portfolio
<1>1. o.symbol \in DOMAIN m => IsQuote(m[o.symbol])
  BY MarketsAssumption DEF IsQuote
<1> QED
  BY <1>1, BuyTypes, SellTypes DEF Fill

LEMMA ExecutedTypes ==
  ASSUME NEW p \in Portfolio, NEW orders \in Seq(Order), NEW m \in Markets
  PROVE  Executed(p, orders, m) \in Portfolio
<1> DEFINE Then(r, i) == IF i \in DOMAIN orders THEN Fill(r, orders[i], m) ELSE r
<1>1. ASSUME NEW r \in Portfolio, NEW i \in Nat PROVE Then(r, i) \in Portfolio
  BY <1>1, FillTypes
<1>2. Executed(p, orders, m) = Then(Then(Then(p, 1), 2), 3)
  BY DEF Executed
<1> HIDE DEF Then
<1>3. Then(p, 1) \in Portfolio
  BY <1>1
<1>4. Then(Then(p, 1), 2) \in Portfolio
  BY <1>1, <1>3
<1> QED
  BY <1>1, <1>2, <1>4

\* At most KeepNotes notes, the new one last.
LEMMA NotedTypes ==
  ASSUME NEW p \in Portfolio, NEW round \in Nat
  PROVE  Noted(p, round) \in Portfolio
<1> DEFINE all == Append(p.notes, round)
           first == IF Len(all) > KeepNotes THEN Len(all) - KeepNotes + 1 ELSE 1
           kept == SubSeq(all, first, Len(all))
<1>1. p.notes \in Seq(Nat) /\ Len(p.notes) <= KeepNotes
  BY DEF Portfolio, Notes
<1>2. all \in Seq(Nat) /\ Len(all) = Len(p.notes) + 1
  BY <1>1
<1>3. first \in 1 .. Len(all) /\ Len(all) - first + 1 <= KeepNotes
  BY <1>1, <1>2, ConstantTypes
<1> HIDE DEF all, first
<1>4. kept \in Seq(Nat) /\ Len(kept) <= KeepNotes
  BY <1>2, <1>3, ConstantTypes
<1>5. kept \in Notes
  BY <1>4 DEF Notes
<1> HIDE DEF kept
<1>6. [p EXCEPT !.notes = kept] \in Portfolio
  BY <1>5 DEF Portfolio
<1> QED
  BY <1>6 DEF Noted, kept, all, first

-----------------------------------------------------------------------------
(* The types *)

\* The rosters name contestants.
LEMMA RosterTypes ==
  ASSUME NEW r \in Rosters \cup {<< >>}
  PROVE  r \in Seq(Models) /\ DOMAIN r = 1 .. Len(r) /\ Len(r) \in Nat /\ Names(r) \subseteq Contestants
<1>1. r \in Seq(Models)
  <2>1. << >> \in Seq(Models)
    OBVIOUS
  <2> QED
    BY <2>1, ConstantsAssumption
<1>2. DOMAIN r = 1 .. Len(r) /\ Len(r) \in Nat /\ \A i \in DOMAIN r : r[i] \in Models
  BY <1>1
<1> QED
  BY <1>1, <1>2 DEF Names, Contestants

LEMMA FreshTypes == Fresh \in Portfolio
<1>1. << >> \in Notes
  BY ConstantTypes DEF Notes
<1> QED
  BY <1>1, ConstantTypes DEF Fresh, Portfolio

LEMMA NothingTypes == Competition(Nothing) /\ Nothing.round = 0 /\ Nothing.lastPlay = Never
<1>1. Nothing.players \in [DOMAIN Nothing.players -> Portfolio] /\ DOMAIN Nothing.players = {}
  BY DEF Nothing
<1> QED
  BY <1>1 DEF Nothing, Competition

\* Restoring adds contestants, and changes nothing else.
LEMMA RestoredTypes ==
  ASSUME NEW f, Competition(f), NEW r \in Rosters
  PROVE  /\ Competition(Restored(f, r)) /\ Names(r) \subseteq DOMAIN Restored(f, r).players
         /\ Restored(f, r).round = f.round /\ Restored(f, r).lastPlay = f.lastPlay
<1> DEFINE ps == [n \in DOMAIN f.players \cup Names(r) |-> IF n \in DOMAIN f.players THEN f.players[n] ELSE Fresh]
<1>1. ps \in [DOMAIN f.players \cup Names(r) -> Portfolio]
  BY FreshTypes DEF Competition
<1>2. DOMAIN ps = DOMAIN f.players \cup Names(r)
  OBVIOUS
<1>3. DOMAIN ps \subseteq Contestants
  BY <1>2, RosterTypes DEF Competition
<1>4. Restored(f, r) = [round |-> f.round, lastPlay |-> f.lastPlay, players |-> ps]
  BY DEF Restored, Competition
<1> HIDE DEF ps
<1> QED
  BY <1>1, <1>2, <1>3, <1>4 DEF Competition

\* One contestant's portfolio changes, and perhaps the number of the round.
LEMMA PlayedTypes ==
  ASSUME NEW c, Competition(c), NEW n \in DOMAIN c.players, NEW p \in Portfolio, NEW round \in Nat
  PROVE  LET d == Played(c, round, n, p)
         IN /\ Competition(d) /\ d.round = round /\ d.lastPlay = c.lastPlay
            /\ DOMAIN d.players = DOMAIN c.players
<1> DEFINE ps == [c.players EXCEPT ![n] = p]
<1>1. ps \in [DOMAIN c.players -> Portfolio] /\ DOMAIN ps = DOMAIN c.players
  BY DEF Competition
<1>2. Played(c, round, n, p) = [round |-> round, lastPlay |-> c.lastPlay, players |-> ps]
  BY DEF Played
<1> HIDE DEF ps
<1> QED
  BY <1>1, <1>2 DEF Competition

\* The clock is read into the competition.
LEMMA StampedTypes ==
  ASSUME NEW c, Competition(c), NEW t \in Nat
  PROVE  LET d == [c EXCEPT !.lastPlay = t]
         IN /\ Competition(d) /\ d.round = c.round /\ d.lastPlay = t /\ d.players = c.players
BY DEF Competition

LEMMA DecisionTypes == Decisions \subseteq Seq(Order) /\ Pending \notin Decisions /\ Failed \notin Decisions
BY OrdersAssumption

\* The only order of the bench.
BenchBuys(b) == <<[symbol |-> Benchmark, side |-> "buy", usd |-> b.cash]>>

LEMMA BenchOrders ==
  ASSUME NEW b \in Portfolio
  PROVE  BenchBuys(b) \in Seq(Order)
<1>1. [symbol |-> Benchmark, side |-> "buy", usd |-> b.cash] \in Order
  BY ConstantsAssumption DEF Portfolio, Order
<1> QED
  BY <1>1 DEF BenchBuys

LEMMA OpenedTypes ==
  ASSUME NEW b \in Portfolio, NEW m \in Markets, NEW round \in Nat
  PROVE  Opened(b, m, round) \in Portfolio
<1>1. Executed(b, BenchBuys(b), m) \in Portfolio
  BY BenchOrders, ExecutedTypes
<1>2. Noted(Executed(b, BenchBuys(b), m), round) \in Portfolio
  BY <1>1, NotedTypes
<1> QED
  BY <1>2 DEF Opened, BenchBuys

LEMMA TurnedTypes ==
  ASSUME NEW p \in Portfolio, NEW reply \in Decisions \cup {Failed}, NEW m \in Markets, NEW round \in Nat
  PROVE  Turned(p, reply, m, round) \in Portfolio
<1>1. ASSUME reply # Failed PROVE Executed(p, reply, m) \in Portfolio
  BY <1>1, DecisionTypes, ExecutedTypes
<1> QED
  BY <1>1, NotedTypes DEF Turned

THEOREM InitTypes == Init => TypeOK
<1> SUFFICES ASSUME Init PROVE TypeOK
  OBVIOUS
<1>1. Competition(Nothing) /\ Nothing.lastPlay <= 0
  BY NothingTypes, ConstantTypes DEF Never
<1>2. Len(roster) = 0 /\ DOMAIN roster = {} /\ results \in [DOMAIN roster -> Decisions \cup {Pending, Failed}]
  BY DEF Init
<1>3. \A c \in {file, tmp, comp, base} : Competition(c) /\ c.lastPlay <= now
  BY <1>1 DEF Init
<1>4. turn \in 1 .. Len(roster) + 1 /\ now \in 0 .. MaxTime /\ starts \in 0 .. MaxStarts
  BY <1>2, ConstantTypes DEF Init
<1>5. roster \in Rosters \cup {<< >>}
  BY DEF Init
<1>6. pc = "off" /\ next \in Int
  BY DEF Init
<1>7. stopped \in BOOLEAN /\ unsaved \in BOOLEAN
  BY Zenon DEF Init
<1> QED
  BY <1>2, <1>3, <1>4, <1>5, <1>6, <1>7 DEF TypeOK


-----------------------------------------------------------------------------
(* Type correctness, one step for each action *)

\* What the steps use of the types.
LEMMA Facts ==
  ASSUME TypeOK
  PROVE  /\ Competition(file) /\ Competition(tmp) /\ Competition(comp) /\ Competition(base)
         /\ file.lastPlay <= now /\ tmp.lastPlay <= now /\ comp.lastPlay <= now /\ base.lastPlay <= now
         /\ now \in Nat /\ now <= MaxTime
         /\ roster \in Seq(Models) /\ DOMAIN roster = 1 .. Len(roster) /\ Len(roster) \in Nat
         /\ \A c \in {file, tmp, comp, base} : c.round \in Nat /\ c.lastPlay \in {Never} \cup Nat
<1>1. roster \in Rosters \cup {<< >>} /\ now \in 0 .. MaxTime
  BY DEF TypeOK
<1>2. \A c \in {file, tmp, comp, base} : Competition(c) /\ c.lastPlay <= now
  BY DEF TypeOK
<1>3. \A c \in {file, tmp, comp, base} : c.round \in Nat /\ c.lastPlay \in {Never} \cup Nat
  BY <1>2 DEF Competition
<1> QED
  BY <1>1, <1>2, <1>3, RosterTypes, ConstantTypes

LEMMA OffTypes ==
  ASSUME TypeOK, Off, UNCHANGED <<now, starts, file>>, tmp' \in {tmp, Nothing}
  PROVE  TypeOK'
<1>1. Competition(Nothing) /\ Nothing.lastPlay <= now
  BY NothingTypes, Facts, ConstantTypes DEF Never
<1>2. \A c \in {file', tmp', comp', base'} : Competition(c) /\ c.lastPlay <= now'
  BY <1>1, Facts DEF Off
<1>3. roster' = << >> /\ results' = << >> /\ turn' = 1 /\ pc' = "off" /\ next' = 0
      /\ stopped' = FALSE /\ unsaved' = FALSE
  BY DEF Off
<1>4. Len(roster') = 0 /\ DOMAIN roster' = {} /\ results' \in [DOMAIN roster' -> Decisions \cup {Pending, Failed}]
  BY <1>3
<1>5. turn' \in 1 .. Len(roster') + 1 /\ now' \in 0 .. MaxTime /\ starts' \in 0 .. MaxStarts
  BY <1>3, <1>4 DEF TypeOK
<1> HIDE DEF Off
<1>6. roster' \in Rosters \cup {<< >>} /\ next' \in Int
  BY <1>3
<1>7. stopped' \in BOOLEAN /\ unsaved' \in BOOLEAN
  BY <1>3, Zenon
<1> QED
  BY <1>2, <1>3, <1>4, <1>5, <1>6, <1>7 DEF TypeOK

LEMMA StartTypes ==
  ASSUME TypeOK, NEW r \in Rosters, Start(r)
  PROVE  TypeOK'
<1>1. /\ Competition(comp') /\ Names(r) \subseteq DOMAIN comp'.players
      /\ comp'.round = file.round /\ comp'.lastPlay = file.lastPlay
  BY Facts, RestoredTypes DEF Start
<1>2. \A c \in {file', tmp', comp', base'} : Competition(c) /\ c.lastPlay <= now'
  BY <1>1, Facts DEF Start
<1>3. next' \in Int
  BY <1>1, Facts, ConstantTypes DEF Start, Due, Never
<1>4. now' \in 0 .. MaxTime /\ starts' \in 0 .. MaxStarts /\ roster' = r /\ pc' = "ready"
  BY ConstantTypes DEF Start, TypeOK
<1>5. results' \in [DOMAIN roster' -> Decisions \cup {Pending, Failed}]
  BY DEF Start
<1>6. turn' \in 1 .. Len(roster') + 1
  BY RosterTypes DEF Start
<1>7. stopped' \in BOOLEAN /\ unsaved' \in BOOLEAN
  BY Zenon DEF Start
<1> QED
  BY <1>1, <1>2, <1>3, <1>4, <1>5, <1>6, <1>7 DEF TypeOK

\* Only the flags, the clocks and the program counter change.
LEMMA StopTypes ==
  ASSUME TypeOK, Stop \/ NoRound \/ Tick
  PROVE  TypeOK'
<1>1. next' \in Int
  BY Facts, ConstantTypes DEF TypeOK, Stop, NoRound, Tick
<1>2. now' \in 0 .. MaxTime /\ now <= now'
  BY Facts, ConstantTypes, SMTT(30) DEF TypeOK, Stop, NoRound, Tick
<1>3. \A c \in {file', tmp', comp', base'} : Competition(c) /\ c.lastPlay <= now'
  <2>1. UNCHANGED <<file, tmp, comp, base>>
    BY DEF Stop, NoRound, Tick
  <2>2. \A c \in {file, tmp, comp, base} : Competition(c) /\ c.lastPlay <= now /\ c.lastPlay \in Int
    BY Facts, ConstantTypes DEF Never
  <2>3. now \in Int /\ now' \in Int /\ now <= now'
    BY <1>2, Facts
  <2>4. \A c \in {file, tmp, comp, base} : c.lastPlay <= now'
    BY <2>2, <2>3
  <2> QED
    BY <2>1, <2>2, <2>4
<1>4. UNCHANGED <<starts, roster, pc, quotes, results, turn, unsaved, comp>> /\ stopped' \in BOOLEAN
  BY DEF TypeOK, Stop, NoRound, Tick
<1> QED
  BY <1>1, <1>2, <1>3, <1>4 DEF TypeOK

LEMMA BeginRoundTypes ==
  ASSUME TypeOK, NEW m \in Markets, BeginRound(m)
  PROVE  TypeOK'
<1> DEFINE b == comp.players[Bench]
           p == Opened(b, m, comp.round + 1)
<1>1. Bench \in DOMAIN comp.players
  BY DEF TypeOK, BeginRound, Names
<1>2. b \in Portfolio
  BY <1>1, Facts DEF Competition
<1>3. comp.round + 1 \in Nat
  BY Facts
<1>4. comp' = Played(comp, comp.round + 1, Bench, p)
  BY DEF BeginRound
<1> HIDE DEF b
<1>5. p \in Portfolio
  BY <1>2, <1>3, OpenedTypes
<1> HIDE DEF p
<1>6. Competition(comp') /\ comp'.lastPlay = comp.lastPlay /\ DOMAIN comp'.players = DOMAIN comp.players
  BY <1>1, <1>3, <1>4, <1>5, Facts, PlayedTypes
<1>7. \A c \in {file', tmp', comp', base'} : Competition(c) /\ c.lastPlay <= now'
  BY <1>6, Facts DEF BeginRound
<1>8. /\ results' \in [DOMAIN roster' -> Decisions \cup {Pending, Failed}]
      /\ pc = "ready" /\ pc' = "deciding" /\ quotes' \in Markets
      /\ UNCHANGED <<now, starts, roster, next, stopped, unsaved>>
  BY DEF BeginRound
<1>9. turn' \in 1 .. Len(roster') + 1
  BY <1>8, Facts DEF BeginRound
<1> QED
  BY <1>6, <1>7, <1>8, <1>9 DEF TypeOK, Names

LEMMA ReplyTypes ==
  ASSUME TypeOK, NEW i \in DOMAIN roster, NEW reply \in Decisions \cup {Failed},
         pc = "deciding", results' = [results EXCEPT ![i] = reply],
         UNCHANGED <<now, starts, file, tmp, comp, roster, pc, next, stopped, quotes, turn, unsaved, base>>
  PROVE  TypeOK'
<1>1. results' \in [DOMAIN roster' -> Decisions \cup {Pending, Failed}]
  BY DEF TypeOK
<1> QED
  BY <1>1 DEF TypeOK, Names, Competition

LEMMA AllInTypes ==
  ASSUME TypeOK, AllIn
  PROVE  TypeOK'
BY DEF TypeOK, AllIn, Names, Competition

LEMMA ExecuteTurnTypes ==
  ASSUME TypeOK, ExecuteTurn
  PROVE  TypeOK'
<1> DEFINE n == Name[roster[turn]]
           p == Turned(comp.players[n], results[turn], quotes, comp.round)
<1>1. n \in DOMAIN comp.players
  BY DEF TypeOK, ExecuteTurn, Names
<1>2. comp.players[n] \in Portfolio /\ comp.round \in Nat
  BY <1>1, Facts DEF Competition
<1>3. results[turn] \in Decisions \cup {Failed}
  BY DEF TypeOK, ExecuteTurn
<1>4. quotes \in Markets
  BY DEF TypeOK, ExecuteTurn
<1>5. p \in Portfolio
  BY <1>2, <1>3, <1>4, TurnedTypes
<1>6. comp' = Played(comp, comp.round, n, p)
  BY DEF ExecuteTurn
<1> HIDE DEF n, p
<1>7. Competition(comp') /\ comp'.lastPlay = comp.lastPlay /\ DOMAIN comp'.players = DOMAIN comp.players
  BY <1>1, <1>5, <1>6, Facts, PlayedTypes
<1>8. \A c \in {file', tmp', comp', base'} : Competition(c) /\ c.lastPlay <= now'
  BY <1>7, Facts DEF ExecuteTurn
<1>9. turn' \in 1 .. Len(roster') + 1
  BY Facts DEF ExecuteTurn, TypeOK
<1>10. UNCHANGED <<now, starts, roster, pc, next, stopped, quotes, results, unsaved>>
  BY DEF ExecuteTurn
<1> QED
  BY <1>7, <1>8, <1>9, <1>10 DEF TypeOK, Names

LEMMA EndRoundTypes ==
  ASSUME TypeOK, EndRound
  PROVE  TypeOK'
<1>1. Competition(comp') /\ comp'.lastPlay = now /\ comp'.players = comp.players
  BY Facts, StampedTypes DEF EndRound
<1>2. \A c \in {file', tmp', comp', base'} : Competition(c) /\ c.lastPlay <= now'
  <2>1. file' = file /\ tmp' = tmp /\ now' = now /\ base' = Nothing
    BY DEF EndRound
  <2>2. Competition(Nothing) /\ Nothing.lastPlay <= now
    BY NothingTypes, Facts, ConstantTypes DEF Never
  <2> QED
    BY <1>1, <2>1, <2>2, Facts
<1>3. pc = "executing" /\ pc' = "write"
      /\ UNCHANGED <<now, starts, roster, next, stopped, quotes, results, turn, unsaved>>
  BY DEF EndRound
<1> QED
  BY <1>1, <1>2, <1>3 DEF TypeOK, Names

LEMMA SaveTypes ==
  ASSUME TypeOK, WriteTmp \/ WriteFails \/ Rename
  PROVE  TypeOK'
<1>1. Competition(Nothing) /\ Nothing.lastPlay <= now
  BY NothingTypes, Facts, ConstantTypes DEF Never
<1>2. /\ file' \in {file, tmp} /\ tmp' \in {tmp, comp, Nothing}
      /\ UNCHANGED <<now, starts, comp, base, roster, stopped>> /\ pc \in {"write", "rename"}
  BY DEF WriteTmp, WriteFails, Rename, Rest
<1>3. \A c \in {file', tmp', comp', base'} : Competition(c) /\ c.lastPlay <= now'
  BY <1>1, <1>2, Facts
<1>4. pc' \in {"ready", "rename"} /\ unsaved' \in BOOLEAN
  BY Zenon DEF TypeOK, WriteTmp, WriteFails, Rename, Rest
<1>5. next' \in Int
  BY Facts, ConstantTypes DEF TypeOK, WriteTmp, WriteFails, Rename, Rest
<1>6. results' \in [DOMAIN roster' -> Decisions \cup {Pending, Failed}] /\ turn' \in 1 .. Len(roster') + 1
  <2>1. roster' = roster
    BY <1>2
  <2>2. \/ results' = results /\ turn' = turn
        \/ results' = [i \in DOMAIN roster |-> Pending] /\ turn' = 1
    BY DEF WriteTmp, WriteFails, Rename, Rest
  <2>3. CASE results' = results /\ turn' = turn
    BY <2>1, <2>3 DEF TypeOK
  <2>4. CASE results' = [i \in DOMAIN roster |-> Pending] /\ turn' = 1
    BY <2>1, <2>4, Facts
  <2> QED
    BY <2>2, <2>3, <2>4
<1> QED
  BY <1>2, <1>3, <1>4, <1>5, <1>6 DEF TypeOK, Names

LEMMA NextTypes == TypeOK /\ [Next]_vars => TypeOK'
<1> SUFFICES ASSUME TypeOK, [Next]_vars PROVE TypeOK'
  OBVIOUS
<1>1. ASSUME NEW r \in Rosters, Start(r) PROVE TypeOK'
  BY <1>1, StartTypes
<1>2. CASE Stop \/ NoRound \/ Tick
  BY <1>2, StopTypes
<1>3. CASE Exit
  BY <1>3, OffTypes DEF Exit
<1>4. CASE Crash
  BY <1>4, OffTypes DEF Crash
<1>5. ASSUME NEW m \in Markets, BeginRound(m) PROVE TypeOK'
  BY <1>5, BeginRoundTypes
<1>6. ASSUME NEW i \in DOMAIN roster, Fail(i) PROVE TypeOK'
  BY <1>6, ReplyTypes DEF Fail
<1>7. ASSUME NEW i \in DOMAIN roster, NEW orders \in Decisions, Decide(i, orders) PROVE TypeOK'
  BY <1>7, ReplyTypes DEF Decide
<1>8. CASE Play
  BY <1>8, AllInTypes, ExecuteTurnTypes, EndRoundTypes, SaveTypes DEF Play
<1>9. CASE UNCHANGED vars
  BY <1>9 DEF vars, TypeOK, Names, Competition
<1> QED
  BY <1>1, <1>2, <1>3, <1>4, <1>5, <1>6, <1>7, <1>8, <1>9 DEF Next

\* Whatever the models order, nobody's cash or holding goes negative.
THEOREM TypeCorrect == Spec => []TypeOK
<1> QED
  BY InitTypes, NextTypes, PTL DEF Spec


-----------------------------------------------------------------------------
(* What is saved *)

\* The inductive invariant: how far ahead of the file the competition in
\* memory is, at each place of play.
Ahead ==
  /\ pc # "off" => comp.round >= file.round /\ comp.lastPlay >= file.lastPlay
  /\ pc = "ready" => next >= file.lastPlay + Every
  /\ pc \in {"deciding", "executing"} => now >= file.lastPlay + Every
  /\ pc \in {"write", "rename"} => comp.lastPlay >= file.lastPlay + Every
  /\ pc = "rename" => tmp = comp

\* The clock and the rounds are numbers.
LEMMA Numbers ==
  ASSUME TypeOK
  PROVE  /\ file.round \in Nat /\ comp.round \in Nat
         /\ file.lastPlay \in Int /\ comp.lastPlay \in Int /\ file.lastPlay <= now /\ comp.lastPlay <= now
         /\ now \in Nat /\ next \in Int /\ Every \in Nat \ {0}
<1>1. Never \in Int
  BY ConstantTypes DEF Never
<1>2. next \in Int
  BY DEF TypeOK
<1> QED
  BY <1>1, <1>2, Facts, ConstantTypes

LEMMA AheadStep == TypeOK /\ TypeOK' /\ Ahead /\ [Next]_vars => Ahead'
<1> SUFFICES ASSUME TypeOK, TypeOK', Ahead, [Next]_vars PROVE Ahead'
  OBVIOUS
<1> USE Numbers
<1>1. ASSUME NEW r \in Rosters, Start(r) PROVE Ahead'
  <2>1. comp'.round = file.round /\ comp'.lastPlay = file.lastPlay
    BY <1>1, Facts, RestoredTypes DEF Start
  <2>2. file' = file /\ pc' = "ready" /\ next' = comp'.lastPlay + Every
    BY <1>1 DEF Start, Due
  <2> QED
    BY <2>1, <2>2 DEF Ahead
<1>2. CASE Stop
  BY <1>2 DEF Stop, Ahead
<1>3. CASE NoRound
  <2>1. pc = "ready" /\ next' = now + Every /\ UNCHANGED <<file, comp, pc>>
    BY <1>3 DEF NoRound
  <2> QED
    BY <2>1 DEF Ahead
<1>4. CASE Tick
  <2>1. now' = now + 1 /\ UNCHANGED <<file, tmp, comp, pc, next>>
    BY <1>4 DEF Tick
  <2> QED
    BY <2>1 DEF Ahead
<1>5. CASE Exit \/ Crash
  BY <1>5 DEF Exit, Crash, Off, Ahead
<1>6. ASSUME NEW m \in Markets, BeginRound(m) PROVE Ahead'
  <2>1. comp'.round = comp.round + 1 /\ comp'.lastPlay = comp.lastPlay
    BY <1>6 DEF BeginRound, Played
  <2>2. pc = "ready" /\ pc' = "deciding" /\ now >= next /\ now' = now /\ file' = file
    BY <1>6 DEF BeginRound
  <2> QED
    BY <2>1, <2>2 DEF Ahead
<1>7. ASSUME NEW i \in DOMAIN roster, Fail(i) \/ \E orders \in Decisions : Decide(i, orders) PROVE Ahead'
  BY <1>7 DEF Fail, Decide, Ahead
<1>8. CASE AllIn
  BY <1>8 DEF AllIn, Ahead
<1>9. CASE ExecuteTurn
  <2>1. comp'.round = comp.round /\ comp'.lastPlay = comp.lastPlay
    BY <1>9 DEF ExecuteTurn, Played
  <2>2. pc = "executing" /\ UNCHANGED <<pc, now, file>>
    BY <1>9 DEF ExecuteTurn
  <2> QED
    BY <2>1, <2>2 DEF Ahead
<1>10. CASE EndRound
  <2>1. comp'.round = comp.round /\ comp'.lastPlay = now
    BY <1>10, Facts, StampedTypes DEF EndRound
  <2>2. pc = "executing" /\ pc' = "write" /\ file' = file
    BY <1>10 DEF EndRound
  <2> QED
    BY <2>1, <2>2 DEF Ahead
<1>11. CASE WriteTmp
  BY <1>11 DEF WriteTmp, Ahead
<1>12. CASE WriteFails
  <2>1. pc = "write" /\ pc' = "ready" /\ next' = now + Every /\ UNCHANGED <<file, comp>>
    BY <1>12 DEF WriteFails, Rest
  <2> QED
    BY <2>1 DEF Ahead
<1>13. CASE Rename
  <2>1. pc = "rename" /\ pc' = "ready" /\ next' = now + Every /\ file' = tmp /\ comp' = comp
    BY <1>13 DEF Rename, Rest
  <2>2. file' = comp
    BY <2>1 DEF Ahead
  <2> QED
    BY <2>1, <2>2 DEF Ahead
<1>14. CASE UNCHANGED vars
  BY <1>14 DEF vars, Ahead
<1> QED
  BY <1>1, <1>2, <1>3, <1>4, <1>5, <1>6, <1>7, <1>8, <1>9, <1>10, <1>11, <1>12, <1>13, <1>14 DEF Next, Play

\* Only a rename changes the file.
LEMMA OnlyRename == [Next]_vars => file' = file \/ Rename
BY DEF Next, Play, vars, Start, Stop, Exit, Crash, NoRound, BeginRound, Fail, Decide, AllIn,
       ExecuteTurn, EndRound, WriteTmp, WriteFails, Tick

\* A rename saves a later round, and a round's time has passed.
LEMMA SavedLater ==
  ASSUME TypeOK, Ahead, [Next]_vars
  PROVE  /\ file'.round >= file.round
         /\ file' # file => file'.lastPlay >= file.lastPlay + Every
<1>1. CASE file' = file
  BY <1>1, Numbers
<1>2. CASE Rename
  <2>1. file' = comp /\ pc = "rename"
    BY <1>2 DEF Rename, Ahead
  <2> QED
    BY <2>1 DEF Ahead
<1> QED
  BY <1>1, <1>2, OnlyRename

LEMMA AheadAlways == Spec => [](TypeOK /\ Ahead)
<1>1. Init => Ahead
  BY DEF Init, Ahead
<1> QED
  BY <1>1, InitTypes, NextTypes, AheadStep, PTL DEF Spec

\* However often the process dies or the disk is full, the saved game never
\* falls back to an earlier round.
THEOREM RoundsKept == Spec => NoLostRounds
<1>1. TypeOK /\ Ahead /\ [Next]_vars => [file'.round >= file.round]_vars
  BY SavedLater
<1> QED
  BY <1>1, AheadAlways, PTL DEF Spec, NoLostRounds

\* Saved rounds are a round's time apart, also across restarts.
THEOREM ApartTheorem == Spec => RoundsApart
<1>1. TypeOK /\ Ahead /\ [Next]_vars
        => [file'.round # file.round => file'.lastPlay >= file.lastPlay + Every]_vars
  BY SavedLater
<1> QED
  BY <1>1, AheadAlways, PTL DEF Spec, RoundsApart


\* What the run between rounds has on disk.
Saved ==
  /\ file.round = comp.round /\ file.lastPlay = comp.lastPlay
  /\ \A n \in DOMAIN file.players : comp.players[n] = file.players[n]

LEMMA SavedStep ==
  ASSUME TypeOK, Ahead, ProgressSaved, [Next]_vars
  PROVE  ProgressSaved'
<1> SUFFICES ASSUME pc' = "ready", ~unsaved' PROVE Saved'
  BY DEF ProgressSaved, Saved
<1>1. ASSUME NEW r \in Rosters, Start(r) PROVE Saved'
  <2>1. comp' = Restored(file, r) /\ file' = file
    BY <1>1 DEF Start
  <2>2. comp'.round = file.round /\ comp'.lastPlay = file.lastPlay
    BY <2>1, Facts, RestoredTypes
  <2>3. comp'.players = [n \in DOMAIN file.players \cup Names(r) |-> IF n \in DOMAIN file.players THEN file.players[n] ELSE Fresh]
    <3>1. Competition(file)
      BY Facts
    <3> QED
      BY <2>1, <3>1 DEF Restored, Competition
  <2> QED
    BY <2>1, <2>2, <2>3 DEF Saved
<1>2. CASE UNCHANGED <<file, comp, pc, unsaved>>
  BY <1>2 DEF ProgressSaved, Saved
<1>3. CASE Rename
  <2>1. file' = comp' /\ pc = "rename"
    BY <1>3 DEF Rename, Ahead
  <2> QED
    BY <2>1 DEF Saved
<1>4. CASE pc' # "ready" \/ unsaved'
  BY <1>4
<1>5. Next => (\E r \in Rosters : Start(r)) \/ UNCHANGED <<file, comp, pc, unsaved>> \/ Rename \/ pc' # "ready" \/ unsaved'
  <2>1. Stop \/ NoRound \/ Tick => UNCHANGED <<file, comp, pc, unsaved>>
    BY DEF Stop, NoRound, Tick
  <2>2. Exit \/ Crash => pc' # "ready"
    BY DEF Exit, Crash, Off
  <2>3. ASSUME NEW m, BeginRound(m) PROVE pc' # "ready"
    BY <2>3 DEF BeginRound
  <2>4. ASSUME NEW i, Fail(i) \/ \E orders \in Decisions : Decide(i, orders)
        PROVE UNCHANGED <<file, comp, pc, unsaved>>
    BY <2>4 DEF Fail, Decide
  <2>5. AllIn \/ ExecuteTurn \/ EndRound \/ WriteTmp => pc' # "ready"
    BY DEF AllIn, ExecuteTurn, EndRound, WriteTmp
  <2>6. WriteFails => unsaved'
    BY Zenon DEF WriteFails
  <2> QED
    BY <2>1, <2>2, <2>3, <2>4, <2>5, <2>6 DEF Next, Play
<1> QED
  BY <1>1, <1>2, <1>3, <1>4, <1>5 DEF vars

\* Between rounds, when Run may return, the file has all that was played,
\* unless the last save failed.
THEOREM SavedTheorem == Spec => []ProgressSaved
<1>1. Init => ProgressSaved
  BY DEF Init, ProgressSaved
<1> QED
  BY <1>1, AheadAlways, SavedStep, PTL DEF Spec

-----------------------------------------------------------------------------
(* One decision a round *)

\* The short names of the models that play together are different, and none is the bench.
NamesDiffer ==
  \A r \in Rosters : \A i, j \in DOMAIN r : Name[r[i]] # Bench /\ (Name[r[i]] = Name[r[j]] => i = j)

Increasing(notes) == \A i \in 1 .. Len(notes) - 1 : notes[i] < notes[i + 1]
Below(notes, round) == \A i \in 1 .. Len(notes) : notes[i] < round

\* Nobody has a note of a round that was not played.
Neat(c) ==
  \A n \in DOMAIN c.players : Increasing(c.players[n].notes) /\ Below(c.players[n].notes, c.round + 1)

\* The inductive invariant: who has not had its turn has no note of this round.
InTurn ==
  /\ Neat(file) /\ Neat(comp)
  /\ pc \in {"deciding", "executing"}
       => \A i \in DOMAIN roster : i >= turn => Below(comp.players[Name[roster[i]]].notes, comp.round)

\* Trades leave the notes alone.
LEMMA FillKeepsNotes ==
  ASSUME NEW p \in Portfolio, NEW o, NEW m
  PROVE  Fill(p, o, m).notes = p.notes
<1>1. ASSUME NEW q PROVE Buy(p, o, q).notes = p.notes /\ Sell(p, o, q).notes = p.notes
  BY DEF Buy, Sell, Portfolio
<1> QED
  BY <1>1 DEF Fill

LEMMA ExecutedKeepsNotes ==
  ASSUME NEW p \in Portfolio, NEW orders \in Seq(Order), NEW m \in Markets
  PROVE  Executed(p, orders, m).notes = p.notes
<1> DEFINE Then(r, i) == IF i \in DOMAIN orders THEN Fill(r, orders[i], m) ELSE r
<1>1. ASSUME NEW r \in Portfolio, NEW i \in Nat PROVE Then(r, i) \in Portfolio /\ Then(r, i).notes = r.notes
  BY <1>1, FillTypes, FillKeepsNotes
<1>2. Executed(p, orders, m) = Then(Then(Then(p, 1), 2), 3)
  BY DEF Executed
<1> HIDE DEF Then
<1>3. Then(p, 1) \in Portfolio /\ Then(p, 1).notes = p.notes
  BY <1>1
<1>4. Then(Then(p, 1), 2) \in Portfolio /\ Then(Then(p, 1), 2).notes = p.notes
  BY <1>1, <1>3
<1> QED
  BY <1>1, <1>2, <1>4

\* A new note of a later round keeps the order.
LEMMA NotedInOrder ==
  ASSUME NEW p \in Portfolio, NEW round \in Nat, Increasing(p.notes), Below(p.notes, round)
  PROVE  Increasing(Noted(p, round).notes) /\ Below(Noted(p, round).notes, round + 1)
<1> DEFINE all == Append(p.notes, round)
           first == IF Len(all) > KeepNotes THEN Len(all) - KeepNotes + 1 ELSE 1
           kept == SubSeq(all, first, Len(all))
<1>1. p.notes \in Seq(Nat) /\ Len(p.notes) \in Nat
  BY DEF Portfolio, Notes
<1>2. /\ all \in Seq(Nat) /\ Len(all) = Len(p.notes) + 1 /\ all[Len(p.notes) + 1] = round
      /\ \A i \in 1 .. Len(p.notes) : all[i] = p.notes[i] /\ p.notes[i] \in Nat
  BY <1>1
<1> HIDE DEF all
<1>3. \A i \in 1 .. Len(all) - 1 : all[i] < all[i + 1]
  <2> SUFFICES ASSUME NEW i \in 1 .. Len(p.notes) PROVE all[i] < all[i + 1]
    BY <1>1, <1>2
  <2>1. CASE i = Len(p.notes)
    BY <1>1, <1>2, <2>1 DEF Below
  <2>2. CASE i # Len(p.notes)
    <3>1. i \in 1 .. Len(p.notes) - 1 /\ i + 1 \in 1 .. Len(p.notes)
      BY <1>1, <2>2
    <3> QED
      BY <1>2, <3>1 DEF Increasing
  <2> QED
    BY <2>1, <2>2
<1>4. \A i \in 1 .. Len(all) : all[i] < round + 1
  <2> SUFFICES ASSUME NEW i \in 1 .. Len(p.notes) + 1 PROVE all[i] < round + 1
    BY <1>1, <1>2
  <2>1. CASE i = Len(p.notes) + 1
    BY <1>2, <2>1
  <2>2. CASE i \in 1 .. Len(p.notes)
    <3>1. all[i] = p.notes[i] /\ p.notes[i] \in Nat
      BY <1>2, <2>2
    <3>2. p.notes[i] < round
      BY <2>2 DEF Below
    <3> QED
      BY <3>1, <3>2
  <2> QED
    BY <1>1, <2>1, <2>2
<1>5. first \in 1 .. Len(all) /\ Len(all) \in Nat
  BY <1>1, <1>2, ConstantTypes
<1> HIDE DEF first
<1>6. Len(kept) = Len(all) - first + 1 /\ \A i \in 1 .. Len(all) - first + 1 : kept[i] = all[first + i - 1]
  BY <1>2, <1>5
<1> HIDE DEF kept
<1>7. Increasing(kept)
  <2> SUFFICES ASSUME NEW i \in 1 .. Len(all) - first PROVE kept[i] < kept[i + 1]
    BY <1>5, <1>6 DEF Increasing
  <2>1. PICK k \in 1 .. Len(all) - 1 : k = first + i - 1
    BY <1>5
  <2>2. kept[i] = all[k] /\ kept[i + 1] = all[k + 1]
    BY <1>5, <1>6, <2>1
  <2> QED
    BY <1>3, <2>2
<1>8. Below(kept, round + 1)
  <2> SUFFICES ASSUME NEW i \in 1 .. Len(all) - first + 1 PROVE kept[i] < round + 1
    BY <1>6 DEF Below
  <2>1. first + i - 1 \in 1 .. Len(all)
    BY <1>5
  <2> QED
    BY <1>4, <1>6, <2>1
<1>9. Noted(p, round).notes = kept
  BY DEF Noted, kept, first, all, Portfolio
<1> QED
  BY <1>7, <1>8, <1>9

\* One contestant's notes grow, and perhaps the number of the round.
LEMMA PlayedNeat ==
  ASSUME NEW c, Competition(c), Neat(c), NEW n \in DOMAIN c.players, NEW p \in Portfolio, NEW round \in Nat,
         round >= c.round, Increasing(p.notes), Below(p.notes, round + 1)
  PROVE  Neat(Played(c, round, n, p))
<1> DEFINE d == Played(c, round, n, p)
<1>1. d.round = round /\ DOMAIN d.players = DOMAIN c.players
  BY PlayedTypes
<1>2. \A k \in DOMAIN c.players : d.players[k] = IF k = n THEN p ELSE c.players[k]
  BY DEF Played, Competition
<1>3. ASSUME NEW k \in DOMAIN c.players, k # n
      PROVE  Increasing(c.players[k].notes) /\ Below(c.players[k].notes, round + 1)
  <2> DEFINE notes == c.players[k].notes
  <2>1. c.round \in Nat /\ c.players[k] \in Portfolio
    BY DEF Competition
  <2>2. notes \in Seq(Nat)
    BY <2>1 DEF Portfolio, Notes
  <2>3. Increasing(notes) /\ Below(notes, c.round + 1)
    BY DEF Neat
  <2> HIDE DEF notes
  <2>4. \A i \in 1 .. Len(notes) : notes[i] \in Nat /\ notes[i] < c.round + 1
    BY <2>2, <2>3 DEF Below
  <2>5. Below(notes, round + 1)
    BY <2>1, <2>4 DEF Below
  <2> QED
    BY <2>3, <2>5 DEF notes
<1> HIDE DEF d
<1>4. Neat(d)
  BY <1>1, <1>2, <1>3 DEF Neat
<1> QED
  BY <1>4 DEF d

\* So do the bench's first purchase and a turn, whichever it is.
LEMMA OpenedInOrder ==
  ASSUME NEW b \in Portfolio, NEW m \in Markets, NEW round \in Nat, Increasing(b.notes), Below(b.notes, round)
  PROVE  Increasing(Opened(b, m, round).notes) /\ Below(Opened(b, m, round).notes, round + 1)
<1> DEFINE e == Executed(b, BenchBuys(b), m)
<1>1. e \in Portfolio /\ e.notes = b.notes
  BY BenchOrders, ExecutedTypes, ExecutedKeepsNotes
<1> HIDE DEF e
<1>2. Increasing(Noted(e, round).notes) /\ Below(Noted(e, round).notes, round + 1)
  BY <1>1, NotedInOrder
<1>3. Below(b.notes, round + 1)
  <2>1. b.notes \in Seq(Nat)
    BY DEF Portfolio, Notes
  <2>2. \A i \in 1 .. Len(b.notes) : b.notes[i] \in Nat
    BY <2>1
  <2> QED
    BY <2>2 DEF Below
<1> QED
  BY <1>2, <1>3 DEF Opened, e, BenchBuys

LEMMA TurnedInOrder ==
  ASSUME NEW p \in Portfolio, NEW reply \in Decisions \cup {Failed}, NEW m \in Markets, NEW round \in Nat,
         Increasing(p.notes), Below(p.notes, round)
  PROVE  Increasing(Turned(p, reply, m, round).notes) /\ Below(Turned(p, reply, m, round).notes, round + 1)
<1> DEFINE e == IF reply = Failed THEN p ELSE Executed(p, reply, m)
<1>1. e \in Portfolio /\ e.notes = p.notes
  BY DecisionTypes, ExecutedTypes, ExecutedKeepsNotes
<1> HIDE DEF e
<1> QED
  BY <1>1, NotedInOrder DEF Turned, e

LEMMA InTurnStep ==
  ASSUME NamesDiffer, TypeOK, Ahead, InTurn, [Next]_vars
  PROVE  InTurn'
<1> USE Numbers
<1>1. ASSUME NEW r \in Rosters, Start(r) PROVE InTurn'
  <2>1. comp' = Restored(file, r) /\ file' = file /\ pc' = "ready"
    BY <1>1 DEF Start
  <2>2. comp'.round = file.round
    BY <2>1, Facts, RestoredTypes
  <2>3. comp'.players = [n \in DOMAIN file.players \cup Names(r) |-> IF n \in DOMAIN file.players THEN file.players[n] ELSE Fresh]
    <3>1. Competition(file)
      BY Facts
    <3> QED
      BY <2>1, <3>1 DEF Restored, Competition
  <2>4. Increasing(Fresh.notes) /\ Below(Fresh.notes, comp'.round + 1)
    BY DEF Fresh, Increasing, Below
  <2>5. Neat(file)
    BY DEF InTurn
  <2>6. Neat(comp')
    BY <2>2, <2>3, <2>4, <2>5 DEF Neat
  <2> QED
    BY <2>1, <2>5, <2>6 DEF InTurn
<1>2. CASE UNCHANGED <<file, comp, pc, roster, turn>>
  BY <1>2 DEF InTurn
<1>3. CASE Exit \/ Crash
  <2>1. file' = file /\ comp' = Nothing /\ pc' = "off"
    BY <1>3 DEF Exit, Crash, Off
  <2>2. Neat(Nothing)
    BY DEF Neat, Nothing
  <2> QED
    BY <2>1, <2>2 DEF InTurn
<1>4. ASSUME NEW m \in Markets, BeginRound(m) PROVE InTurn'
  <2> DEFINE b == comp.players[Bench]
             p == Opened(b, m, comp.round + 1)
  <2>1. Bench \in DOMAIN comp.players /\ Competition(comp) /\ comp.round + 1 \in Nat
    <3>1. Bench \in DOMAIN comp.players
      BY <1>4 DEF TypeOK, BeginRound, Names
    <3> QED
      BY <3>1, Facts
  <2>2. b \in Portfolio
    BY <2>1 DEF Competition
  <2>3. Increasing(b.notes) /\ Below(b.notes, comp.round + 1)
    BY <2>1 DEF InTurn, Neat
  <2>4. comp' = Played(comp, comp.round + 1, Bench, p)
    BY <1>4 DEF BeginRound
  <2> HIDE DEF b
  <2>5. p \in Portfolio /\ Increasing(p.notes) /\ Below(p.notes, comp.round + 1 + 1)
    BY <2>1, <2>2, <2>3, OpenedTypes, OpenedInOrder
  <2> HIDE DEF p
  <2>6. Neat(comp')
    BY <2>1, <2>5, <2>4, PlayedNeat DEF InTurn
  <2>7. ASSUME NEW i \in DOMAIN roster' PROVE Below(comp'.players[Name[roster'[i]]].notes, comp'.round)
    <3> DEFINE n == Name[roster[i]]
    <3>1. roster' = roster /\ pc = "ready"
      BY <1>4 DEF BeginRound
    <3>2. n # Bench /\ n \in DOMAIN comp.players
      <4>1. roster \in Rosters
        BY <2>7, <3>1 DEF TypeOK
      <4> QED
        BY <2>7, <3>1, <4>1 DEF NamesDiffer, TypeOK, Names
    <3> HIDE DEF n
    <3>3. comp'.players[n] = comp.players[n] /\ comp'.round = comp.round + 1
      BY <2>1, <2>4, <3>2 DEF Played, Competition
    <3>4. Below(comp.players[n].notes, comp.round + 1)
      BY <3>2 DEF InTurn, Neat
    <3> QED
      BY <3>1, <3>3, <3>4 DEF n
  <2>8. file' = file
    BY <1>4 DEF BeginRound
  <2> QED
    BY <2>6, <2>7, <2>8 DEF InTurn
<1>5. CASE ExecuteTurn
  <2> DEFINE n == Name[roster[turn]]
             p == comp.players[n]
             q == Turned(p, results[turn], quotes, comp.round)
  <2>1. n \in DOMAIN comp.players /\ Competition(comp) /\ turn \in DOMAIN roster /\ turn \in Int
    BY <1>5, Facts DEF TypeOK, ExecuteTurn, Names
  <2>2. p \in Portfolio /\ comp.round \in Nat
    BY <2>1 DEF Competition
  <2>3. results[turn] \in Decisions \cup {Failed} /\ quotes \in Markets
    BY <1>5 DEF TypeOK, ExecuteTurn
  <2>4. comp' = Played(comp, comp.round, n, q)
    BY <1>5 DEF ExecuteTurn
  <2>5. Increasing(p.notes) /\ Below(p.notes, comp.round)
    <3>1. Increasing(p.notes)
      BY <2>1 DEF InTurn, Neat
    <3>2. Below(p.notes, comp.round)
      BY <1>5, <2>1 DEF InTurn, ExecuteTurn
    <3> QED
      BY <3>1, <3>2
  <2> HIDE DEF n, p
  <2>6. q \in Portfolio /\ Increasing(q.notes) /\ Below(q.notes, comp.round + 1)
    BY <2>2, <2>3, <2>5, TurnedTypes, TurnedInOrder
  <2> HIDE DEF q
  <2>7. Neat(comp')
    BY <2>1, <2>4, <2>6, PlayedNeat DEF InTurn
  <2>8. /\ UNCHANGED <<file, roster, pc>> /\ pc = "executing" /\ turn' = turn + 1
    BY <1>5 DEF ExecuteTurn
  <2>9. ASSUME NEW i \in DOMAIN roster, i >= turn + 1
         PROVE  Below(comp'.players[Name[roster[i]]].notes, comp'.round)
    <3> DEFINE k == Name[roster[i]]
    <3>1. roster \in Rosters /\ i \in Int
      BY <2>1, Facts DEF TypeOK
    <3>2. k # n /\ k \in DOMAIN comp.players /\ Below(comp.players[k].notes, comp.round)
      <4>1. i # turn /\ i >= turn
        BY <2>1, <2>9, <3>1
      <4>2. k # n
        BY <2>1, <3>1, <4>1 DEF NamesDiffer, n
      <4>3. k \in DOMAIN comp.players
        BY <2>8 DEF TypeOK, Names
      <4> QED
        BY <2>8, <4>1, <4>2, <4>3 DEF InTurn
    <3> HIDE DEF k
    <3>3. comp'.players[k] = comp.players[k] /\ comp'.round = comp.round
      BY <2>1, <2>4, <3>2 DEF Played, Competition
    <3> QED
      BY <3>2, <3>3 DEF k
  <2> QED
    BY <2>7, <2>8, <2>9 DEF InTurn
<1>6. CASE EndRound
  <2>1. comp'.round = comp.round /\ comp'.players = comp.players /\ pc' = "write" /\ file' = file
    BY <1>6, Facts, StampedTypes DEF EndRound
  <2> QED
    BY <2>1 DEF InTurn, Neat
<1>7. CASE WriteTmp \/ WriteFails
  <2>1. UNCHANGED <<file, comp>> /\ pc' \in {"rename", "ready"}
    BY <1>7 DEF WriteTmp, WriteFails, Rest
  <2> QED
    BY <2>1 DEF InTurn
<1>8. CASE Rename
  <2>1. pc = "rename" /\ file' = tmp /\ comp' = comp /\ pc' = "ready"
    BY <1>8 DEF Rename, Rest
  <2>2. file' = comp
    BY <2>1 DEF Ahead
  <2> QED
    BY <2>1, <2>2 DEF InTurn
<1>9. CASE AllIn
  BY <1>9 DEF AllIn, InTurn
<1>10. CASE Stop \/ NoRound \/ Tick \/ (\E i \in DOMAIN roster : Fail(i) \/ \E orders \in Decisions : Decide(i, orders)) \/ UNCHANGED vars
  <2>1. UNCHANGED <<file, comp, pc, roster, turn>>
    BY <1>10 DEF Stop, NoRound, Tick, Fail, Decide, vars
  <2> QED
    BY <1>2, <2>1
<1> QED
  BY <1>1, <1>3, <1>4, <1>5, <1>6, <1>7, <1>8, <1>9, <1>10 DEF Next, Play

\* arena.go:5-7: of models whose short names differ each has one decision a round, also
\* across restarts with another roster.
THEOREM OneDecisionTheorem ==
  ASSUME NamesDiffer
  PROVE  Spec => []OneDecisionARound
<1>1. Init => InTurn
  <2> SUFFICES ASSUME Init PROVE InTurn
    OBVIOUS
  <2>1. Neat(Nothing)
    BY DEF Neat, Nothing
  <2> QED
    BY <2>1 DEF Init, InTurn
<1>2. TypeOK /\ Ahead /\ InTurn /\ [Next]_vars => InTurn'
  BY InTurnStep
<1>3. InTurn => OneDecisionARound
  BY DEF InTurn, Neat, Increasing, OneDecisionARound
<1> QED
  BY <1>1, <1>2, <1>3, AheadAlways, PTL DEF Spec

-----------------------------------------------------------------------------
(* Sums over finite sets. Induction over the parts of a finite set is put as  *)
(* its smallest counterexample, which the well-founded order on them gives.   *)
\* The element that a sum over S takes first.
Pick(S) == CHOOSE x \in S : TRUE

\* The equation that defines sums: g[U] is the sum of f over U, for each part U of S.
SumsUp(g, f, S) ==
  /\ g \in [SUBSET S -> Int]
  /\ \A U \in SUBSET S : g[U] = IF U = {} THEN 0 ELSE f[Pick(U)] + g[U \ {Pick(U)}]

\* It is one of them.
LEMMA PickIn == ASSUME NEW S, S # {} PROVE Pick(S) \in S
BY DEF Pick

\* Induction over the parts of a finite set: where something is wrong, it goes
\* wrong first for some part, all of whose parts are right.
LEMMA Smallest ==
  ASSUME NEW S, IsFiniteSet(S), NEW Bad \in SUBSET SUBSET S, Bad # {}
  PROVE  \E U \in Bad : \A V \in SUBSET U : V # U => V \notin Bad
<1>1. IsWellFoundedOn(StrictSubsetOrdering(S), SUBSET S)
  BY FS_StrictSubsetOrderingWellFounded, FS_FiniteSubsetsOfFinite
<1>2. PICK U \in Bad : \A V \in Bad : ~(<<V, U>> \in StrictSubsetOrdering(S))
  BY <1>1, WFMin
<1>3. ASSUME NEW V \in SUBSET U, V # U, V \in Bad PROVE FALSE
  BY <1>2, <1>3 DEF StrictSubsetOrdering
<1> QED
  BY <1>3

\* Two such functions agree.
LEMMA SumsUnique ==
  ASSUME NEW S, NEW T, IsFiniteSet(S), NEW f, NEW g, NEW h, NEW U, U \subseteq S, U \subseteq T,
         NEW e, \A x \in U : e[x] = f[x],
         SumsUp(g, f, S), SumsUp(h, e, T)
  PROVE  g[U] = h[U]
<1> DEFINE Bad == {V \in SUBSET U : g[V] # h[V]}
<1> SUFFICES ASSUME Bad # {} PROVE FALSE
  OBVIOUS
<1>1. IsFiniteSet(U)
  BY FS_Subset
<1> Bad \in SUBSET SUBSET U
  OBVIOUS
<1> HIDE DEF Bad
<1>2. PICK V \in Bad : \A W \in SUBSET V : W # V => W \notin Bad
  BY <1>1, Smallest
<1> USE DEF Bad
<1>3. V # {}
  BY DEF SumsUp
<1>4. Pick(V) \in V
  BY <1>3, PickIn
<1>5. V \ {Pick(V)} \notin Bad
  BY <1>2, <1>4
<1>6. g[V \ {Pick(V)}] = h[V \ {Pick(V)}]
  BY <1>5
<1>7. g[V] = f[Pick(V)] + g[V \ {Pick(V)}] /\ h[V] = e[Pick(V)] + h[V \ {Pick(V)}]
  BY <1>3 DEF SumsUp
<1> QED
  BY <1>4, <1>6, <1>7

\* There is such a function for every finite set.
LEMMA SumsExist ==
  ASSUME NEW S, IsFiniteSet(S), NEW f \in [S -> Int]
  PROVE  \E g : SumsUp(g, f, S)
<1> DEFINE Bad == {U \in SUBSET S : ~ \E g : SumsUp(g, f, U)}
<1> SUFFICES ASSUME Bad # {} PROVE FALSE
  OBVIOUS
<1> Bad \in SUBSET SUBSET S
  OBVIOUS
<1> HIDE DEF Bad
<1>1. PICK U \in Bad : \A V \in SUBSET U : V # U => V \notin Bad
  BY Smallest
<1> USE DEF Bad
<1>2. \A V \in SUBSET U : V # U => \E g : SumsUp(g, f, V)
  BY <1>1
<1> DEFINE h(V) == CHOOSE g : SumsUp(g, f, V)
<1>3. \A V \in SUBSET U : V # U => SumsUp(h(V), f, V)
  BY <1>2
<1> HIDE DEF h
<1> DEFINE Summed == [V \in SUBSET U |-> IF V = {} THEN 0 ELSE f[Pick(V)] + h(V \ {Pick(V)})[V \ {Pick(V)}]]
<1>4. ASSUME NEW V \in SUBSET U, V # {}
      PROVE  /\ Pick(V) \in V /\ V \ {Pick(V)} \in SUBSET U /\ V \ {Pick(V)} # U
             /\ SumsUp(h(V \ {Pick(V)}), f, V \ {Pick(V)})
  BY <1>3, <1>4, PickIn
<1>5. ASSUME NEW V \in SUBSET U, V # U PROVE Summed[V] = h(V)[V]
  <2>1. CASE V = {}
    BY <2>1, <1>3, <1>5 DEF SumsUp
  <2>2. CASE V # {}
    <3> DEFINE W == V \ {Pick(V)}
    <3>1. SumsUp(h(V), f, V) /\ SumsUp(h(W), f, W) /\ W \subseteq V /\ Pick(V) \in V
      BY <1>3, <1>4, <1>5, <2>2
    <3>2. h(V)[V] = f[Pick(V)] + h(V)[W]
      BY <3>1, <2>2 DEF SumsUp
    <3>3. IsFiniteSet(V)
      BY FS_Subset
    <3> HIDE DEF W
    <3>4. h(V)[W] = h(W)[W]
      BY <3>1, <3>3, SumsUnique
    <3> QED
      BY <3>2, <3>4, <2>2 DEF W
  <2> QED
    BY <2>1, <2>2
<1>6. Summed \in [SUBSET U -> Int]
  <2>1. ASSUME NEW V \in SUBSET U, V # {} PROVE f[Pick(V)] + h(V \ {Pick(V)})[V \ {Pick(V)}] \in Int
    <3>1. Pick(V) \in S
      BY <1>4, <2>1
    <3>2. h(V \ {Pick(V)})[V \ {Pick(V)}] \in Int
      BY <1>4, <2>1 DEF SumsUp
    <3> QED
      BY <3>1, <3>2
  <2> QED
    BY <2>1
<1>7. ASSUME NEW V \in SUBSET U, V # {} PROVE Summed[V] = f[Pick(V)] + Summed[V \ {Pick(V)}]
  BY <1>4, <1>5, <1>7
<1>8. SumsUp(Summed, f, U)
  <2> HIDE DEF Summed
  <2>1. Summed[{}] = 0
    BY DEF Summed
  <2> QED
    BY <1>6, <1>7, <2>1 DEF SumsUp
<1> QED
  BY <1>8

\* The community modules' SumFunction is it.
LEMMA SumIsSum ==
  ASSUME NEW S, IsFiniteSet(S), NEW f \in [S -> Int]
  PROVE  \E g : SumsUp(g, f, S) /\ SumFunction(f) = g[S]
<1> DEFINE Eq(i) == i = [s \in SUBSET S |-> IF s = {} THEN 0 ELSE f[Pick(s)] + i[s \ {Pick(s)}]]
<1>1. DOMAIN f = S
  OBVIOUS
<1>2. SumFunction(f) = (CHOOSE i : Eq(i))[S]
  BY <1>1 DEF SumFunction, SumFunctionOnSet, FoldFunctionOnSet, MapThenFoldSet, Pick
<1>3. PICK g : SumsUp(g, f, S)
  BY SumsExist
<1>4. Eq(g)
  BY <1>3 DEF SumsUp
<1> DEFINE i == CHOOSE i : Eq(i)
<1>5. Eq(i)
  BY <1>4
<1> HIDE DEF i
<1> DEFINE Bad == {U \in SUBSET S : i[U] # g[U]}
<1>6. Bad = {}
  <2> SUFFICES ASSUME Bad # {} PROVE FALSE
    OBVIOUS
  <2> Bad \in SUBSET SUBSET S
    OBVIOUS
  <2> HIDE DEF Bad
  <2>1. PICK U \in Bad : \A V \in SUBSET U : V # U => V \notin Bad
    BY Smallest
  <2> USE DEF Bad
  <2>2. U # {}
    BY <1>5, <1>3 DEF SumsUp
  <2>3. Pick(U) \in U
    BY <2>2, PickIn
  <2>4. U \ {Pick(U)} \notin Bad
    BY <2>1, <2>3
  <2>5. i[U] = f[Pick(U)] + i[U \ {Pick(U)}]
    BY <1>5, <2>2
  <2>6. g[U] = f[Pick(U)] + g[U \ {Pick(U)}]
    BY <1>3, <2>2 DEF SumsUp
  <2> QED
    BY <2>4, <2>5, <2>6
<1> QED
  BY <1>2, <1>3, <1>6 DEF i

\* Any element may be taken out of a sum first.
LEMMA SumSplits ==
  ASSUME NEW S, IsFiniteSet(S), NEW f \in [S -> Int], NEW g, SumsUp(g, f, S), NEW x \in S
  PROVE  g[S] = f[x] + g[S \ {x}]
<1> DEFINE Bad == {U \in SUBSET S : \E y \in U : g[U] # f[y] + g[U \ {y}]}
<1> SUFFICES ASSUME Bad # {} PROVE FALSE
  OBVIOUS
<1> Bad \in SUBSET SUBSET S
  OBVIOUS
<1> HIDE DEF Bad
<1>1. PICK U \in Bad : \A V \in SUBSET U : V # U => V \notin Bad
  BY Smallest
<1> USE DEF Bad
<1>2. PICK y \in U : g[U] # f[y] + g[U \ {y}]
  OBVIOUS
<1> DEFINE p == Pick(U)
           V == U \ {p}
           W == U \ {y}
<1>3. p \in U
  BY PickIn
<1> HIDE DEF p
<1>4. g[U] = f[p] + g[V]
  BY DEF SumsUp, p
<1>5. p # y
  BY <1>2, <1>4
<1>6. V \notin Bad /\ W \notin Bad
  BY <1>1, <1>3
<1>7. g[V] = f[y] + g[V \ {y}] /\ g[W] = f[p] + g[W \ {p}]
  BY <1>3, <1>5, <1>6
<1>8. V \ {y} = W \ {p}
  OBVIOUS
<1>9. f[p] \in Int /\ f[y] \in Int /\ g[W \ {p}] \in Int
  BY <1>3 DEF SumsUp
<1>10. g[U] # f[y] + g[W]
  BY <1>2
<1>11. g[V \ {y}] = g[W \ {p}]
  BY <1>8
<1> HIDE DEF V, W
<1> QED
  BY <1>4, <1>7, <1>9, <1>10, <1>11

\* Two sums that differ in one element differ by what that element does.
LEMMA SumChanges ==
  ASSUME NEW S, IsFiniteSet(S), NEW f \in [S -> Int], NEW h \in [S -> Int], NEW x \in S,
         \A y \in S \ {x} : f[y] = h[y]
  PROVE  /\ SumFunction(f) \in Int /\ SumFunction(h) \in Int
         /\ SumFunction(h) - SumFunction(f) = h[x] - f[x]
<1>1. PICK g : SumsUp(g, f, S) /\ SumFunction(f) = g[S]
  BY SumIsSum
<1>2. PICK k : SumsUp(k, h, S) /\ SumFunction(h) = k[S]
  BY SumIsSum
<1>3. g[S] = f[x] + g[S \ {x}] /\ k[S] = h[x] + k[S \ {x}]
  BY <1>1, <1>2, SumSplits
<1>4. g[S \ {x}] = k[S \ {x}]
  BY <1>1, <1>2, SumsUnique
<1>5. g[S \ {x}] \in Int /\ g[S] \in Int /\ k[S] \in Int
  BY <1>1, <1>2 DEF SumsUp
<1> QED
  BY <1>1, <1>2, <1>3, <1>4, <1>5

\* A sum of integers is one.
LEMMA SumIsInt ==
  ASSUME NEW S, IsFiniteSet(S), NEW f \in [S -> Int]
  PROVE  SumFunction(f) \in Int
<1>1. PICK g : SumsUp(g, f, S) /\ SumFunction(f) = g[S]
  BY SumIsSum
<1> QED
  BY <1>1 DEF SumsUp

-----------------------------------------------------------------------------
(* What portfolios are worth. *)
\* What a holding of n tokens is worth, twice Scale times.
AtMid(n, q) == n * (q.bid + q.ask)

\* The parts of the sum in Worth.
Values(p, m) == [s \in DOMAIN m |-> p.tokens[s] * (m[s].bid + m[s].ask)]

\* The numbers of a quote.
LEMMA QuotesAreNat ==
  ASSUME NEW m \in Markets, NEW s \in DOMAIN m
  PROVE  /\ s \in Symbols /\ IsQuote(m[s])
         /\ m[s].bid \in Nat /\ m[s].ask \in Nat /\ m[s].bid + m[s].ask \in Nat
BY MarketsAssumption DEF IsQuote

\* The numbers that the worth of a portfolio is put together from.
LEMMA WorthIsInt ==
  ASSUME NEW p \in Portfolio, NEW m \in Markets
  PROVE  /\ Values(p, m) \in [DOMAIN m -> Int]
         /\ p.cash \in Nat /\ p.tokens \in [Symbols -> Nat]
<1>1. p.cash \in Nat /\ p.tokens \in [Symbols -> Nat]
  BY DEF Portfolio
<1>2. ASSUME NEW s \in DOMAIN m PROVE p.tokens[s] * (m[s].bid + m[s].ask) \in Int
  BY <1>1, QuotesAreNat, ProductIsNat
<1> QED
  BY <1>1, <1>2 DEF Values

\* What a portfolio is worth is a number.
LEMMA WorthStays ==
  ASSUME NEW p \in Portfolio, NEW m \in Markets
  PROVE  Worth(p, m) \in Int
<1>1. Values(p, m) \in [DOMAIN m -> Int] /\ IsFiniteSet(DOMAIN m) /\ p.cash \in Nat
  BY WorthIsInt, MarketsAssumption
<1>2. SumFunction(Values(p, m)) \in Int
  BY <1>1, SumIsInt
<1>3. 2 * Scale * p.cash \in Int
  BY <1>1, ConstantTypes
<1> QED
  BY <1>2, <1>3 DEF Worth, Values

\* A purchase at the ask: what it costs covers what the tokens are worth at the mid.
LEMMA BuyPays ==
  ASSUME NEW q, IsQuote(q), NEW spent \in Nat
  PROVE  LET more == (spent * Scale) \div q.ask IN more \in Nat /\ AtMid(more, q) <= 2 * (Scale * spent)
<1> DEFINE more == (spent * Scale) \div q.ask
<1>1. spent * Scale \in Nat /\ q.bid \in Nat /\ q.ask \in Nat /\ q.bid <= q.ask
  BY ConstantTypes, ProductIsNat DEF IsQuote
<1>2. more \in Nat /\ more * q.ask <= spent * Scale
  BY <1>1, DivisionRoundsDown DEF IsQuote
<1> HIDE DEF more
<1>3. more * q.bid <= more * q.ask
  BY <1>1, <1>2
<1>4. more * (q.bid + q.ask) = more * q.bid + more * q.ask /\ more * q.bid \in Nat /\ more * q.ask \in Nat
  BY <1>1, <1>2
<1>5. spent * Scale = Scale * spent
  BY ConstantTypes
<1>6. more * (q.bid + q.ask) <= 2 * (Scale * spent)
  BY <1>1, <1>2, <1>3, <1>4, <1>5
<1> QED
  BY <1>2, <1>6 DEF more, AtMid

\* A sale at the bid: the tokens were worth at least what it brings.
LEMMA SaleCosts ==
  ASSUME NEW q, IsQuote(q), NEW n \in Nat
  PROVE  Proceeds(n, q) \in Nat /\ 2 * (Scale * Proceeds(n, q)) <= AtMid(n, q)
<1> DEFINE cash == (n * q.bid) \div Scale
<1>1. n * q.bid \in Nat /\ n * q.ask \in Nat /\ q.bid \in Nat /\ q.ask \in Nat /\ q.bid <= q.ask
  BY ProductIsNat DEF IsQuote
<1>2. cash \in Nat /\ cash * Scale <= n * q.bid
  BY <1>1, ConstantTypes, DivisionRoundsDown
<1> HIDE DEF cash
<1>3. n * q.bid <= n * q.ask
  BY <1>1
<1>4. n * (q.bid + q.ask) = n * q.bid + n * q.ask
  BY <1>1
<1>5. cash * Scale = Scale * cash /\ Scale * cash \in Nat
  BY <1>2, ConstantTypes
<1>6. 2 * (Scale * cash) <= n * (q.bid + q.ask)
  BY <1>1, <1>2, <1>3, <1>4, <1>5
<1> QED
  BY <1>2, <1>6 DEF cash, AtMid, Proceeds

\* A trade in one symbol: only the cash and that symbol's part of the sum move.
LEMMA TradeMoves ==
  ASSUME NEW p \in Portfolio, NEW r \in Portfolio, NEW m \in Markets, NEW s \in DOMAIN m,
         \A t \in Symbols \ {s} : r.tokens[t] = p.tokens[t]
  PROVE  /\ Worth(p, m) \in Int /\ Worth(r, m) \in Int
         /\ Worth(r, m) - Worth(p, m)
              = (2 * (Scale * r.cash) - 2 * (Scale * p.cash)) + (AtMid(r.tokens[s], m[s]) - AtMid(p.tokens[s], m[s]))
<1>1. /\ Values(p, m) \in [DOMAIN m -> Int] /\ Values(r, m) \in [DOMAIN m -> Int]
      /\ p.cash \in Nat /\ r.cash \in Nat /\ IsFiniteSet(DOMAIN m)
  BY WorthIsInt, MarketsAssumption
<1>2. \A t \in DOMAIN m \ {s} : Values(p, m)[t] = Values(r, m)[t]
  BY QuotesAreNat DEF Values
<1>3. /\ SumFunction(Values(p, m)) \in Int /\ SumFunction(Values(r, m)) \in Int
      /\ SumFunction(Values(r, m)) - SumFunction(Values(p, m)) = Values(r, m)[s] - Values(p, m)[s]
  BY <1>1, <1>2, SumChanges
<1>4. Values(r, m)[s] = AtMid(r.tokens[s], m[s]) /\ Values(p, m)[s] = AtMid(p.tokens[s], m[s])
  BY DEF Values, AtMid
<1>5. Values(p, m)[s] \in Int /\ Values(r, m)[s] \in Int
  BY <1>1
<1>6. /\ Worth(p, m) = 2 * Scale * p.cash + SumFunction(Values(p, m))
      /\ Worth(r, m) = 2 * Scale * r.cash + SumFunction(Values(r, m))
  BY DEF Worth, Values
<1>7. /\ 2 * Scale * p.cash = 2 * (Scale * p.cash) /\ 2 * Scale * r.cash = 2 * (Scale * r.cash)
      /\ Scale * p.cash \in Int /\ Scale * r.cash \in Int
  BY <1>1, ConstantTypes
<1> HIDE DEF AtMid
<1> QED
  BY <1>3, <1>4, <1>5, <1>6, <1>7

\* Buy: spending at the ask makes nobody richer.
LEMMA BuyWorth ==
  ASSUME NEW p \in Portfolio, NEW o \in Order, NEW m \in Markets, o.symbol \in DOMAIN m
  PROVE  Worth(p, m) \in Int /\ Worth(Buy(p, o, m[o.symbol]), m) \in Int
         /\ Worth(Buy(p, o, m[o.symbol]), m) <= Worth(p, m)
<1> DEFINE s == o.symbol
           q == m[s]
           r == Buy(p, o, q)
           u == Spent(p, o)
           more == (u * Scale) \div q.ask
<1>1. s \in Symbols /\ IsQuote(q) /\ q.bid + q.ask \in Nat
  BY QuotesAreNat
<1>2. r \in Portfolio
  BY <1>1, BuyTypes
<1>3. p.cash \in Nat /\ p.tokens \in [Symbols -> Nat] /\ p.tokens[s] \in Nat
  BY <1>1, WorthIsInt
<1>4. u \in Nat /\ u <= p.cash
  BY <1>3 DEF Spent, Order
<1>5. CASE u < MinOrder
  <2>1. r = p
    BY <1>5 DEF Buy
  <2> QED
    BY <2>1, <1>1, TradeMoves
<1>6. CASE ~(u < MinOrder)
  <2>1. r.cash = p.cash - u /\ r.tokens[s] = p.tokens[s] + more
        /\ \A t \in Symbols \ {s} : r.tokens[t] = p.tokens[t]
    BY <1>1, <1>3, <1>6 DEF Buy, Portfolio
  <2>2. more \in Nat /\ AtMid(more, q) <= 2 * (Scale * u)
    BY <1>1, <1>4, BuyPays
  <2> HIDE DEF r, u, more, q
  <2>3. AtMid(r.tokens[s], q) - AtMid(p.tokens[s], q) = AtMid(more, q) /\ AtMid(more, q) \in Int
        /\ AtMid(r.tokens[s], q) \in Int /\ AtMid(p.tokens[s], q) \in Int
    BY <1>1, <1>3, <2>1, <2>2 DEF AtMid
  <2>4. Scale * r.cash = Scale * p.cash - Scale * u /\ Scale * p.cash \in Int /\ Scale * u \in Int /\ Scale * r.cash \in Int
    BY <1>3, <1>4, <2>1, ConstantTypes
  <2>5. Worth(p, m) \in Int /\ Worth(r, m) \in Int
        /\ Worth(r, m) - Worth(p, m)
              = (2 * (Scale * r.cash) - 2 * (Scale * p.cash)) + (AtMid(r.tokens[s], m[s]) - AtMid(p.tokens[s], m[s]))
    BY <1>2, <2>1, TradeMoves
  <2>6. Worth(r, m) <= Worth(p, m)
    BY <2>2, <2>3, <2>4, <2>5 DEF q
  <2> QED
    BY <2>5, <2>6 DEF r, q
<1> QED
  BY <1>5, <1>6

\* Sell: neither does selling at the bid, nor closing a crumb out.
LEMMA SellWorth ==
  ASSUME NEW p \in Portfolio, NEW o \in Order, NEW m \in Markets, o.symbol \in DOMAIN m
  PROVE  Worth(p, m) \in Int /\ Worth(Sell(p, o, m[o.symbol]), m) \in Int
         /\ Worth(Sell(p, o, m[o.symbol]), m) <= Worth(p, m)
<1> DEFINE s == o.symbol
           q == m[s]
           r == Sell(p, o, q)
           n == Sold(p, o, q)
           cash == Proceeds(n, q)
<1>1. s \in Symbols /\ IsQuote(q) /\ q.bid + q.ask \in Nat
  BY QuotesAreNat
<1>2. r \in Portfolio
  BY <1>1, SellTypes
<1>3. p.cash \in Nat /\ p.tokens \in [Symbols -> Nat] /\ p.tokens[s] \in Nat /\ o.usd \in Nat
  BY <1>1, WorthIsInt DEF Order
<1>4. n \in Nat /\ n <= p.tokens[s]
  <2>1. (o.usd * Scale) \div q.bid \in Nat
    BY <1>1, <1>3, ConstantTypes, ProductIsNat, DivisionRoundsDown DEF IsQuote
  <2> QED
    BY <1>3, <2>1 DEF Sold
<1>5. CASE p.tokens[s] = 0
  <2>1. r = p
    BY <1>5 DEF Sell
  <2> QED
    BY <2>1, <1>1, TradeMoves
<1>6. CASE p.tokens[s] # 0
  <2>1. r.cash = p.cash + cash /\ r.tokens[s] = p.tokens[s] - n
        /\ \A t \in Symbols \ {s} : r.tokens[t] = p.tokens[t]
    BY <1>1, <1>3, <1>6 DEF Sell, Portfolio
  <2>2. cash \in Nat /\ 2 * (Scale * cash) <= AtMid(n, q)
    BY <1>1, <1>4, SaleCosts
  <2> HIDE DEF r, n, cash, q
  <2>3. AtMid(r.tokens[s], q) - AtMid(p.tokens[s], q) = 0 - AtMid(n, q) /\ AtMid(n, q) \in Int
        /\ AtMid(r.tokens[s], q) \in Int /\ AtMid(p.tokens[s], q) \in Int
    BY <1>1, <1>3, <1>4, <2>1 DEF AtMid
  <2>4. Scale * r.cash = Scale * p.cash + Scale * cash /\ Scale * p.cash \in Int /\ Scale * cash \in Int /\ Scale * r.cash \in Int
    BY <1>3, <2>1, <2>2, ConstantTypes
  <2>5. Worth(p, m) \in Int /\ Worth(r, m) \in Int
        /\ Worth(r, m) - Worth(p, m)
              = (2 * (Scale * r.cash) - 2 * (Scale * p.cash)) + (AtMid(r.tokens[s], m[s]) - AtMid(p.tokens[s], m[s]))
    BY <1>2, <2>1, TradeMoves
  <2>6. Worth(r, m) <= Worth(p, m)
    BY <2>2, <2>3, <2>4, <2>5 DEF q
  <2> QED
    BY <2>5, <2>6 DEF r, q
<1> QED
  BY <1>5, <1>6

\* One order, filled or refused.
LEMMA FillWorth ==
  ASSUME NEW p \in Portfolio, NEW o \in Order, NEW m \in Markets
  PROVE  Worth(Fill(p, o, m), m) <= Worth(p, m)
<1>1. Worth(p, m) <= Worth(p, m)
  BY WorthStays
<1> QED
  BY <1>1, BuyWorth, SellWorth DEF Fill

\* All the orders of one decision.
LEMMA ExecutedWorth ==
  ASSUME NEW p \in Portfolio, NEW orders \in Seq(Order), NEW m \in Markets
  PROVE  Worth(Executed(p, orders, m), m) <= Worth(p, m)
<1> DEFINE Then(r, i) == IF i \in DOMAIN orders THEN Fill(r, orders[i], m) ELSE r
<1>1. ASSUME NEW r \in Portfolio, NEW i \in Nat
      PROVE  Then(r, i) \in Portfolio /\ Worth(Then(r, i), m) <= Worth(r, m)
             /\ Worth(Then(r, i), m) \in Int /\ Worth(r, m) \in Int
  BY <1>1, FillTypes, FillWorth, WorthStays
<1>2. Executed(p, orders, m) = Then(Then(Then(p, 1), 2), 3)
  BY DEF Executed
<1> HIDE DEF Then
<1>3. Then(p, 1) \in Portfolio
  BY <1>1
<1>4. Then(Then(p, 1), 2) \in Portfolio
  BY <1>1, <1>3
<1>5. /\ Worth(Then(p, 1), m) <= Worth(p, m)
      /\ Worth(Then(Then(p, 1), 2), m) <= Worth(Then(p, 1), m)
      /\ Worth(Then(Then(Then(p, 1), 2), 3), m) <= Worth(Then(Then(p, 1), 2), m)
      /\ Worth(p, m) \in Int /\ Worth(Then(p, 1), m) \in Int /\ Worth(Then(Then(p, 1), 2), m) \in Int
      /\ Worth(Then(Then(Then(p, 1), 2), 3), m) \in Int
  BY <1>1, <1>3, <1>4
<1> QED
  BY <1>2, <1>5

\* A note is worth nothing.
LEMMA NotedWorth ==
  ASSUME NEW p \in Portfolio, NEW round, NEW m
  PROVE  Worth(Noted(p, round), m) = Worth(p, m)
<1>1. ASSUME NEW notes PROVE [p EXCEPT !.notes = notes].cash = p.cash /\ [p EXCEPT !.notes = notes].tokens = p.tokens
  BY DEF Portfolio
<1>2. Noted(p, round).cash = p.cash /\ Noted(p, round).tokens = p.tokens
  BY <1>1 DEF Noted
<1> QED
  BY <1>2 DEF Worth

\* The bench's move and a turn.
LEMMA OpenedWorth ==
  ASSUME NEW b \in Portfolio, NEW m \in Markets, NEW round
  PROVE  Worth(Opened(b, m, round), m) <= Worth(b, m)
<1> DEFINE e == Executed(b, BenchBuys(b), m)
<1>1. e \in Portfolio /\ Worth(e, m) <= Worth(b, m)
  BY BenchOrders, ExecutedTypes, ExecutedWorth
<1> HIDE DEF e
<1>2. Worth(Noted(e, round), m) <= Worth(b, m) /\ Worth(b, m) <= Worth(b, m)
  BY <1>1, NotedWorth, WorthStays
<1> QED
  BY <1>2 DEF Opened, e, BenchBuys

LEMMA TurnedWorth ==
  ASSUME NEW p \in Portfolio, NEW reply \in Decisions \cup {Failed}, NEW m \in Markets, NEW round
  PROVE  Worth(Turned(p, reply, m, round), m) <= Worth(p, m)
<1> DEFINE e == IF reply = Failed THEN p ELSE Executed(p, reply, m)
<1>1. e \in Portfolio /\ Worth(e, m) <= Worth(p, m)
  BY DecisionTypes, ExecutedTypes, ExecutedWorth, WorthStays
<1> HIDE DEF e
<1> QED
  BY <1>1, NotedWorth DEF Turned, e

\* The round's market is there from its beginning to its end.
Quoted ==
  /\ quotes \in Markets \cup {<< >>}
  /\ pc \in {"off", "ready"} => quotes = << >>

\* Every step keeps it.
LEMMA QuotedStep == Quoted /\ [Next]_vars => Quoted'
BY DEF Quoted, Next, Play, vars, Start, Stop, Exit, Crash, Off, NoRound, BeginRound, Fail, Decide, AllIn,
       ExecuteTurn, EndRound, WriteTmp, WriteFails, Rename, Rest, Tick

\* One contestant's portfolio is put back, the others stay.
LEMMA PlayedWorth ==
  ASSUME NEW m \in Markets, Competition(comp), NEW n \in DOMAIN comp.players, NEW p \in Portfolio,
         Worth(p, m) <= Worth(comp.players[n], m), NEW round
  PROVE  \A k \in DOMAIN comp.players : Worth(Played(comp, round, n, p).players[k], m) <= Worth(comp.players[k], m)
<1>1. \A k \in DOMAIN comp.players : Played(comp, round, n, p).players[k] = IF k = n THEN p ELSE comp.players[k]
  BY DEF Played, Competition
<1>2. \A k \in DOMAIN comp.players : comp.players[k] \in Portfolio
  BY DEF Competition
<1>3. \A k \in DOMAIN comp.players : Worth(comp.players[k], m) <= Worth(comp.players[k], m)
  BY <1>2, WorthStays
<1> QED
  BY <1>1, <1>3

\* Who is there before and after a step is worth no more after it, at the quotes after it.
Poorer ==
  \A n \in DOMAIN comp.players :
       n \in DOMAIN comp'.players /\ quotes' # << >>
         => Worth(comp'.players[n], quotes') <= Worth(comp.players[n], quotes')

\* Step by step: only the bench at the start of a round and a turn trade.
LEMMA PoorerStep ==
  ASSUME TypeOK, Quoted, [Next]_vars
  PROVE  Poorer
<1>1. CASE quotes' = << >>
  BY <1>1 DEF Poorer
<1>2. CASE comp'.players = comp.players /\ quotes' = quotes
  <2> SUFFICES ASSUME quotes # << >>, NEW n \in DOMAIN comp.players
               PROVE  Worth(comp.players[n], quotes) <= Worth(comp.players[n], quotes)
    BY <1>2 DEF Poorer
  <2>1. quotes \in Markets /\ comp.players[n] \in Portfolio
    BY Facts DEF Quoted, Competition
  <2> QED
    BY <2>1, WorthStays
<1>3. ASSUME NEW m \in Markets, BeginRound(m) PROVE Poorer
  <2> DEFINE b == comp.players[Bench]
             p == Opened(b, m, comp.round + 1)
  <2>1. Bench \in DOMAIN comp.players /\ quotes' = m
    BY <1>3 DEF TypeOK, BeginRound, Names
  <2>2. b \in Portfolio /\ Competition(comp) /\ comp.round + 1 \in Nat
    BY <2>1, Facts DEF Competition
  <2>3. comp' = Played(comp, comp.round + 1, Bench, p)
    BY <1>3 DEF BeginRound
  <2>4. p \in Portfolio /\ Worth(p, m) <= Worth(b, m)
    BY <2>2, OpenedTypes, OpenedWorth
  <2> HIDE DEF p
  <2> QED
    BY <2>1, <2>2, <2>3, <2>4, PlayedWorth DEF Poorer
<1>4. CASE ExecuteTurn
  <2> DEFINE n == Name[roster[turn]]
             p == Turned(comp.players[n], results[turn], quotes, comp.round)
  <2>1. n \in DOMAIN comp.players /\ quotes \in Markets /\ quotes' = quotes
    BY <1>4 DEF TypeOK, ExecuteTurn, Names
  <2>2. comp.players[n] \in Portfolio /\ Competition(comp) /\ comp.round \in Nat
    BY <2>1, Facts DEF Competition
  <2>3. results[turn] \in Decisions \cup {Failed}
    BY <1>4 DEF TypeOK, ExecuteTurn
  <2>4. comp' = Played(comp, comp.round, n, p)
    BY <1>4 DEF ExecuteTurn
  <2> HIDE DEF n
  <2>5. p \in Portfolio /\ Worth(p, quotes) <= Worth(comp.players[n], quotes)
    BY <2>1, <2>2, <2>3, TurnedTypes, TurnedWorth
  <2> HIDE DEF p
  <2> QED
    BY <2>1, <2>2, <2>4, <2>5, PlayedWorth DEF Poorer
<1>5. CASE EndRound
  <2>1. comp'.players = comp.players /\ quotes' = quotes
    BY <1>5, Facts, StampedTypes DEF EndRound
  <2> QED
    BY <1>2, <2>1
<1>6. ASSUME NEW r \in Rosters, Start(r) PROVE Poorer
  BY <1>1, <1>6 DEF Start, Quoted
<1>7. CASE Exit \/ Crash \/ WriteFails \/ Rename
  BY <1>1, <1>7 DEF Exit, Crash, Off, WriteFails, Rename, Rest
<1>8. CASE Stop \/ NoRound \/ AllIn \/ WriteTmp \/ Tick \/ UNCHANGED vars
           \/ (\E i \in DOMAIN roster : Fail(i) \/ \E orders \in Decisions : Decide(i, orders))
  BY <1>2, <1>8 DEF Stop, NoRound, AllIn, WriteTmp, Tick, vars, Fail, Decide
<1> QED
  BY <1>3, <1>4, <1>5, <1>6, <1>7, <1>8 DEF Next, Play

\* book.go's prices: in every market, with every list of orders, clamped or closed
\* out and with quotients rounded down, a portfolio is worth no more after a step of the round than before.
THEOREM NobodyGetsRicher == Spec => NoFreeMoney
<1>1. Init => Quoted
  BY DEF Init, Quoted
<1>2. TypeOK /\ Quoted /\ [Next]_vars => [Poorer]_vars
  BY PoorerStep
<1>3. Spec => [](TypeOK /\ Quoted)
  BY <1>1, TypeCorrect, QuotedStep, PTL DEF Spec
<1> QED
  BY <1>2, <1>3, PTL DEF Spec, NoFreeMoney, Poorer
-----------------------------------------------------------------------------
(* Refinement: Arena implements Game.  A round counts when the last turn is   *)
(* over (EndRound); until then Game sees the competition as it was before.    *)

\* The inductive invariant: what the turns so far have made of the competition.
Partial ==
  /\ comp.round = base.round + 1
  /\ DOMAIN comp.players = DOMAIN base.players
  /\ comp.players[Bench] = Opened(base.players[Bench], quotes, comp.round)
  /\ \A i \in DOMAIN roster :
       comp.players[Name[roster[i]]]
         = IF i < turn THEN Turned(base.players[Name[roster[i]]], results[i], quotes, comp.round)
           ELSE base.players[Name[roster[i]]]
  /\ \A n \in DOMAIN base.players \ Names(roster) : comp.players[n] = base.players[n]

WholeTurns ==
  /\ pc = "deciding" => turn = 1
  /\ pc \in {"deciding", "executing"} => Partial

\* Contestants of one team.
LEMMA NamesApart ==
  ASSUME NamesDiffer, TypeOK, NEW i \in DOMAIN roster
  PROVE  /\ Name[roster[i]] # Bench /\ Name[roster[i]] \in Names(roster)
         /\ pc # "off" => Name[roster[i]] \in DOMAIN comp.players
         /\ \A j \in DOMAIN roster : Name[roster[i]] = Name[roster[j]] => i = j
<1>1. roster \in Rosters
  BY DEF TypeOK
<1>2. Name[roster[i]] \in Names(roster)
  BY DEF Names
<1> QED
  BY <1>1, <1>2 DEF NamesDiffer, TypeOK

\* What a turn or the opening changes.
LEMMA PlayedFacts ==
  ASSUME NEW c, Competition(c), NEW round, NEW n \in DOMAIN c.players, NEW p
  PROVE  LET d == Played(c, round, n, p)
         IN /\ d.round = round /\ DOMAIN d.players = DOMAIN c.players /\ d.players[n] = p
            /\ \A k \in DOMAIN c.players \ {n} : d.players[k] = c.players[k]
BY DEF Played, Competition

LEMMA WholeTurnsStep ==
  ASSUME NamesDiffer, TypeOK, WholeTurns, [Next]_vars
  PROVE  WholeTurns'
<1>1. CASE pc' \notin {"deciding", "executing"}
  BY <1>1 DEF WholeTurns
<1>2. CASE UNCHANGED <<comp, base, quotes, roster, turn, results>> /\ pc \in {"deciding", "executing"}
           /\ (pc' = "deciding" => pc = "deciding")
  BY <1>2 DEF WholeTurns, Partial, Names
<1>3. ASSUME NEW m \in Markets, BeginRound(m) PROVE WholeTurns'
  <2>1. /\ comp' = Played(comp, comp.round + 1, Bench, Opened(comp.players[Bench], m, comp.round + 1))
        /\ base' = comp /\ quotes' = m /\ turn' = 1 /\ roster' = roster /\ pc = "ready"
    BY <1>3 DEF BeginRound
  <2>2. Competition(comp) /\ Bench \in DOMAIN comp.players /\ Bench \in Names(roster)
    BY <2>1, Facts DEF TypeOK, Names
  <2>3. /\ comp'.round = comp.round + 1 /\ DOMAIN comp'.players = DOMAIN comp.players
        /\ comp'.players[Bench] = Opened(comp.players[Bench], m, comp.round + 1)
        /\ \A k \in DOMAIN comp.players \ {Bench} : comp'.players[k] = comp.players[k]
    BY <2>1, <2>2, PlayedFacts
  <2>4. ASSUME NEW i \in DOMAIN roster
        PROVE  ~(i < 1) /\ comp'.players[Name[roster[i]]] = comp.players[Name[roster[i]]]
    BY <2>1, <2>3, Facts, NamesApart
  <2>5. Names(roster)' = Names(roster)
    BY <2>1 DEF Names
  <2>6. Partial'
    BY <2>1, <2>2, <2>3, <2>4, <2>5 DEF Partial
  <2> QED
    BY <2>1, <2>6 DEF WholeTurns
<1>4. ASSUME NEW i \in DOMAIN roster, Fail(i) \/ \E orders \in Decisions : Decide(i, orders) PROVE WholeTurns'
  <2>1. UNCHANGED <<comp, base, quotes, roster, turn, pc>> /\ pc = "deciding"
    BY <1>4 DEF Fail, Decide
  <2>2. turn = 1 /\ Partial /\ \A j \in DOMAIN roster : ~(j < turn)
    BY <2>1, Facts DEF WholeTurns
  <2>3. Partial'
    BY <2>1, <2>2 DEF Partial, Names
  <2> QED
    BY <2>1, <2>2, <2>3 DEF WholeTurns
<1>5. CASE ExecuteTurn
  <2> DEFINE n == Name[roster[turn]]
  <2>1. /\ comp' = Played(comp, comp.round, n, Turned(comp.players[n], results[turn], quotes, comp.round))
        /\ turn \in DOMAIN roster /\ turn' = turn + 1 /\ pc = "executing"
        /\ UNCHANGED <<base, quotes, roster, results, pc>>
    BY <1>5 DEF ExecuteTurn
  <2>2. /\ Competition(comp) /\ n \in DOMAIN comp.players /\ n # Bench /\ n \in Names(roster)
        /\ Bench \in DOMAIN comp.players /\ Partial /\ turn \in Int /\ \A i \in DOMAIN roster : i \in Int
    <3>1. n \in DOMAIN comp.players /\ n # Bench /\ n \in Names(roster)
      BY <2>1, NamesApart
    <3>2. Bench \in DOMAIN comp.players
      BY <2>1 DEF TypeOK, Names
    <3>3. Partial
      BY <2>1 DEF WholeTurns
    <3>4. Competition(comp) /\ turn \in Int /\ \A i \in DOMAIN roster : i \in Int
      BY <2>1, Facts
    <3> QED
      BY <3>1, <3>2, <3>3, <3>4
  <2>3. /\ comp'.round = comp.round /\ DOMAIN comp'.players = DOMAIN comp.players
        /\ comp'.players[n] = Turned(comp.players[n], results[turn], quotes, comp.round)
        /\ \A k \in DOMAIN comp.players \ {n} : comp'.players[k] = comp.players[k]
    <3> DEFINE p == Turned(comp.players[n], results[turn], quotes, comp.round)
    <3>1. comp' = Played(comp, comp.round, n, p)
      BY <2>1
    <3> HIDE DEF n, p
    <3>2. /\ comp'.round = comp.round /\ DOMAIN comp'.players = DOMAIN comp.players /\ comp'.players[n] = p
          /\ \A k \in DOMAIN comp.players \ {n} : comp'.players[k] = comp.players[k]
      BY <2>2, <3>1, PlayedFacts
    <3> QED
      BY <3>2 DEF p
  <2>4. comp.players[n] = base.players[n]
    BY <2>1, <2>2 DEF Partial
  <2>5. ASSUME NEW i \in DOMAIN roster
        PROVE  comp'.players[Name[roster[i]]]
                 = IF i < turn + 1 THEN Turned(base.players[Name[roster[i]]], results[i], quotes, comp.round)
                   ELSE base.players[Name[roster[i]]]
    <3>1. CASE i = turn
      BY <2>2, <2>3, <2>4, <3>1
    <3>2. CASE i # turn
      <4>1. Name[roster[i]] # n /\ Name[roster[i]] \in DOMAIN comp.players
        BY <2>1, <3>2, NamesApart
      <4>2. i < turn + 1 <=> i < turn
        BY <2>2, <3>2
      <4> HIDE DEF n
      <4> QED
        BY <2>2, <2>3, <4>1, <4>2 DEF Partial
    <3> QED
      BY <3>1, <3>2
  <2>6. ASSUME NEW k \in DOMAIN base.players \ Names(roster) PROVE comp'.players[k] = base.players[k]
    BY <2>2, <2>3 DEF Partial
  <2>7. comp'.players[Bench] = Opened(base.players[Bench], quotes, comp.round)
    BY <2>2, <2>3 DEF Partial
  <2>8. Names(roster)' = Names(roster) /\ comp.round = base.round + 1 /\ DOMAIN comp.players = DOMAIN base.players
    BY <2>1, <2>2 DEF Names, Partial
  <2> HIDE DEF n
  <2>9. Partial'
    BY <2>1, <2>3, <2>5, <2>6, <2>7, <2>8 DEF Partial
  <2> QED
    BY <2>1, <2>9 DEF WholeTurns
<1>6. CASE AllIn \/ Stop \/ NoRound \/ Tick \/ UNCHANGED vars
  BY <1>1, <1>2, <1>6 DEF AllIn, Stop, NoRound, Tick, vars
<1>7. ASSUME (\E r \in Rosters : Start(r)) \/ Exit \/ Crash \/ EndRound \/ WriteTmp \/ WriteFails \/ Rename
      PROVE  pc' \notin {"deciding", "executing"}
  BY <1>7 DEF Start, Exit, Crash, Off, EndRound, WriteTmp, WriteFails, Rename, Rest
<1> QED
  BY <1>1, <1>3, <1>4, <1>5, <1>6, <1>7 DEF Next, Play

LEMMA InitIsGame == Init => G!Init
BY DEF Init, G!Init, G!Nobody, Counted, Team, Nothing

\* The last turn is over: the round counts.
LEMMA EndRoundIsRound ==
  ASSUME NamesDiffer, TypeOK, WholeTurns, EndRound
  PROVE  quotes \in Markets /\ G!Round(quotes)
<1>1. /\ pc = "executing" /\ turn \notin DOMAIN roster /\ pc' = "write" /\ comp' = [comp EXCEPT !.lastPlay = now]
      /\ UNCHANGED <<file, roster>>
  BY DEF EndRound
<1>2. /\ Partial /\ quotes \in Markets /\ Competition(comp) /\ Competition(base)
      /\ \A i \in DOMAIN roster : results[i] \in Decisions \cup {Failed}
  BY <1>1, Facts DEF WholeTurns, TypeOK
<1>3. \A i \in DOMAIN roster : i < turn
  BY <1>1, Facts DEF TypeOK
<1>4. comp'.round = comp.round /\ comp'.players = comp.players
  BY <1>1, Facts, StampedTypes
<1>5. Counted = base /\ Counted' = comp' /\ Team = Names(roster) /\ Team' = Team /\ Bench \in Team
  BY <1>1 DEF Counted, Team, Names
<1> DEFINE Place(n) == CHOOSE i \in DOMAIN roster : Name[roster[i]] = n
           reply == [n \in Team \ {Bench} |-> results[Place(n)]]
<1>6. ASSUME NEW n \in Team \ {Bench} PROVE Place(n) \in DOMAIN roster /\ Name[roster[Place(n)]] = n
  BY <1>5, <1>6 DEF Names
<1> HIDE DEF Place
<1>7. reply \in [Team \ {Bench} -> Decisions \cup {Failed}]
  BY <1>2, <1>6
<1>8. ASSUME NEW n \in DOMAIN base.players
      PROVE  comp.players[n] = IF n = Bench THEN Opened(base.players[n], quotes, comp.round)
                               ELSE IF n \in Team THEN Turned(base.players[n], reply[n], quotes, comp.round)
                               ELSE base.players[n]
  <2>1. CASE n = Bench
    BY <1>2, <2>1 DEF Partial
  <2>2. CASE n \in Team \ {Bench}
    <3>1. reply[n] = results[Place(n)]
      BY <2>2
    <3>2. Place(n) \in DOMAIN roster /\ Name[roster[Place(n)]] = n /\ Place(n) < turn
      BY <1>3, <1>6, <2>2
    <3> HIDE DEF reply
    <3> QED
      BY <1>2, <2>2, <3>1, <3>2 DEF Partial
  <2>3. CASE n \notin Team
    BY <1>2, <1>5, <2>3 DEF Partial
  <2> QED
    BY <2>1, <2>2, <2>3
<1> HIDE DEF reply
<1>9. comp.players = [n \in DOMAIN base.players |->
                        IF n = Bench THEN Opened(base.players[n], quotes, comp.round)
                        ELSE IF n \in Team THEN Turned(base.players[n], reply[n], quotes, comp.round)
                        ELSE base.players[n]]
  <2>1. comp.players \in [DOMAIN comp.players -> Portfolio] /\ DOMAIN comp.players = DOMAIN base.players
    BY <1>2 DEF Competition, Partial
  <2> QED
    BY <1>8, <2>1
<1>10. comp.round = base.round + 1
  BY <1>2 DEF Partial
<1>11. Counted'.players = [n \in DOMAIN Counted.players |->
                             IF n = Bench THEN Opened(Counted.players[n], quotes, Counted'.round)
                             ELSE IF n \in Team THEN Turned(Counted.players[n], reply[n], quotes, Counted'.round)
                             ELSE Counted.players[n]]
  BY <1>4, <1>5, <1>9
<1>12. Team # {} /\ Counted'.round = Counted.round + 1 /\ UNCHANGED <<[round |-> file.round, players |-> file.players], Team>>
  BY <1>1, <1>4, <1>5, <1>10
<1> QED
  BY <1>2, <1>7, <1>11, <1>12 DEF G!Round

LEMMA StartIsEnter ==
  ASSUME TypeOK, NEW r \in Rosters, Start(r)
  PROVE  \E N \in SUBSET Contestants : Bench \in N /\ G!Enter(N)
<1>1. pc = "off" /\ pc' = "ready" /\ comp' = Restored(file, r) /\ file' = file /\ roster' = r
  BY DEF Start
<1>2. comp'.round = file.round
  BY <1>1, Facts, RestoredTypes
<1>3. comp'.players = [n \in DOMAIN file.players \cup Names(r) |-> IF n \in DOMAIN file.players THEN file.players[n] ELSE Fresh]
  BY <1>1, Facts DEF Restored, Competition
<1>4. Team = {} /\ Team' = Names(r) /\ Counted' = comp'
  BY <1>1 DEF Team, Names, Counted
<1>5. Names(r) \in SUBSET Contestants /\ Bench \in Names(r)
  BY RosterTypes DEF Names, Contestants
<1>6. G!Enter(Names(r))
  BY <1>1, <1>2, <1>3, <1>4 DEF G!Enter
<1> QED
  BY <1>5, <1>6

LEMMA StepIsGame ==
  ASSUME NamesDiffer, TypeOK, Ahead, WholeTurns, [Next]_vars
  PROVE  [G!Next]_(G!vars)
<1>1. ASSUME NEW r \in Rosters, Start(r) PROVE G!Next
  BY <1>1, StartIsEnter DEF G!Next
<1>2. CASE Exit \/ Crash
  <2>1. pc # "off" /\ pc' = "off" /\ comp' = Nothing /\ file' = file
    BY <1>2 DEF Exit, Crash, Off
  <2>2. Team # {} /\ Team' = {} /\ Counted' = Nothing
    BY <2>1 DEF Team, Names, Counted
  <2>3. Nothing.round = 0 /\ Nothing.players = G!Nobody
    BY DEF Nothing, G!Nobody
  <2> QED
    BY <2>1, <2>2, <2>3 DEF G!Next, G!Leave
<1>3. CASE EndRound
  BY <1>3, EndRoundIsRound DEF G!Next
<1>4. CASE Rename
  <2>1. pc = "rename" /\ pc' = "ready" /\ file' = comp /\ UNCHANGED <<comp, roster>>
    BY <1>4 DEF Rename, Rest, Ahead
  <2>2. Team # {} /\ Team' = Team /\ Counted = comp /\ Counted' = comp
    BY <2>1 DEF Team, Names, Counted
  <2> QED
    BY <2>1, <2>2 DEF G!Next, G!Save
<1>5. ASSUME UNCHANGED <<file, Counted, Team>> PROVE UNCHANGED G!vars
  BY <1>5 DEF G!vars
<1>6. ASSUME NEW m \in Markets, BeginRound(m) PROVE UNCHANGED <<file, Counted, Team>>
  BY <1>6 DEF BeginRound, Counted, Team, Names
<1>7. CASE Stop \/ NoRound \/ AllIn \/ WriteTmp \/ WriteFails \/ Tick \/ UNCHANGED vars
           \/ (\E i \in DOMAIN roster : Fail(i) \/ \E orders \in Decisions : Decide(i, orders))
  <2>1. /\ UNCHANGED <<file, comp, base, roster>> /\ (pc' = "off" <=> pc = "off")
        /\ (pc' \in {"deciding", "executing"} <=> pc \in {"deciding", "executing"})
    BY <1>7 DEF Stop, NoRound, AllIn, WriteTmp, WriteFails, Rest, Tick, Fail, Decide, vars
  <2> QED
    BY <1>5, <2>1 DEF Counted, Team, Names
<1>8. CASE ExecuteTurn \/ (\E m \in Markets : BeginRound(m))
  BY <1>5, <1>6, <1>8 DEF ExecuteTurn, Counted, Team, Names
<1> QED
  BY <1>1, <1>2, <1>3, <1>4, <1>7, <1>8 DEF Next, Play

\* arena.go:272-273: of models whose short names differ, each has one turn in each
\* round, all on one market, and a round counts whole or not at all, in memory and in
\* the file, wherever the process dies and whoever plays after it is started again.
THEOREM Refinement ==
  ASSUME NamesDiffer
  PROVE  Spec => ImplementsGame
<1>1. Init => G!Init /\ WholeTurns
  BY InitIsGame DEF Init, WholeTurns
<1>2. TypeOK /\ WholeTurns /\ [Next]_vars => WholeTurns'
  BY WholeTurnsStep
<1>3. TypeOK /\ Ahead /\ WholeTurns /\ [Next]_vars => [G!Next]_(G!vars)
  BY StepIsGame
<1> QED
  BY <1>1, <1>2, <1>3, AheadAlways, PTL DEF Spec, ImplementsGame, G!Spec
=============================================================================
