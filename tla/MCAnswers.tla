----------------------------- MODULE MCAnswers -----------------------------
(***************************************************************************)
(* Two questions, an agent and a person, and a limiter of two texts.  The  *)
(* person joined after the questions went out, and talks all the same.     *)
(***************************************************************************)
EXTENDS Answers

CONSTANTS agent, alice

MCGuests == {agent, alice}
MCRoster == <<agent>>
FirstRoster == <<agent, alice>>
=============================================================================
