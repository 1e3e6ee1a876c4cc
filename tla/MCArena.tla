------------------------------- MODULE MCArena -------------------------------
(***************************************************************************)
(* Two models, two symbols, and a market that moves.                       *)
(***************************************************************************)
EXTENDS Arena, TLC

CONSTANTS opus, astra, spy, nvda

MCName == (opus :> "opus") @@ (astra :> "astra")
\* Two labs' models of one short name.
MCSameName == (opus :> "opus") @@ (astra :> "opus")

MCSymbols == {spy, nvda}
Q(bid, ask, halted) == [bid |-> bid, ask |-> ask, halted |-> halted]

\* The benchmark is not quoted in one market; in the other, nvda is halted.
MCMarkets == {nvda :> Q(1, 2, FALSE),
              (spy :> Q(2, 3, FALSE)) @@ (nvda :> Q(3, 3, TRUE))}

O(symbol, side, usd) == [symbol |-> symbol, side |-> side, usd |-> usd]

\* In and partly out; out, too small, too much, and a fourth.
MCDecisions == {<<O(nvda, "buy", 3), O(nvda, "sell", 1)>>,
                <<O(nvda, "sell", 9), O(spy, "buy", 0), O(spy, "buy", 9), O(nvda, "buy", 9)>>}

MCRosters == {<<opus>>, <<astra, opus>>}
=============================================================================
