--------------------------- MODULE MCRelaySession ---------------------------
(***************************************************************************)
(* A guest, a name nobody has, and two control connections.                *)
(***************************************************************************)
EXTENDS RelaySession, TLC

CONSTANTS a, alice, bob

\* Nothing but what they happen to give tells callers apart.
MCCallers == Permutations(Callers)

MCConns == {a}
MCNames == {alice, bob}
MCWanted == [c \in MCConns |-> alice]
MCCandidates == [n \in MCNames |-> IF n = alice THEN <<alice, bob>> ELSE <<bob, alice>>]
=============================================================================
