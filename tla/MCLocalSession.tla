--------------------------- MODULE MCLocalSession ---------------------------
(***************************************************************************)
(* Connections that all want the same name (a guest that comes back, or a  *)
(* namesake), and two control connections.                                 *)
(***************************************************************************)
EXTENDS LocalSession

CONSTANTS a1, a2, alice, alice2

MCConns == {a1, a2}
MCNames == {alice, alice2}
MCWanted == [c \in MCConns |-> alice]
MCCandidates == [n \in MCNames |-> <<alice, alice2>>]
=============================================================================
