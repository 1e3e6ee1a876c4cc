----------------------------- MODULE MCMultisig -----------------------------
(***************************************************************************)
(* Instances of Multisig for TLC.  Quorum: one supervised agent, two of    *)
(* host, alice and bob must approve.  Agents: two supervised agents, and   *)
(* the host alone approves, over two control connections at once.          *)
(***************************************************************************)
EXTENDS Multisig

CONSTANTS agent, agent2, alice, bob, host, c1, c2, keyboard

QuorumGuests == {agent, alice, bob}
QuorumApprovers == {host, alice, bob}

AgentsGuests == {agent, agent2}
=============================================================================
