---------------------------- MODULE MCWebSession ----------------------------
(***************************************************************************)
(* A page that is called guest and may vote, or alice and may not, and a   *)
(* few frames of a few kinds at a time.                                    *)
(***************************************************************************)
EXTENDS WebSession

CONSTANTS alice, alice2, guest, host, w1, w2, h1, h2

MCNames == {alice, alice2, guest, host}
MCGranted == {<<Blank, guest>>, <<alice, alice>>}
EarlyGranted == {<<alice, alice2>>}

Link(name, key) == [code |-> TRUE, name |-> name, key |-> key]
Form == [code |-> FALSE, name |-> Blank, key |-> "none"]
MCLinks == {Form} \cup {Link(n, k) : n \in {Blank, alice}, k \in {"none", "bad", "right", "wrong"}}

Room(r) == [k \in Kinds |-> IF k \in DOMAIN r THEN r[k] ELSE 0]
Scenario(l, e, r) == [link |-> l, enc |-> e, room |-> Room(r)]

MCScenarios == {
  Scenario(Link(Blank, "right"), TRUE, [proposal |-> 1, output |-> 1]),
  Scenario(Link(Blank, "none"), FALSE, [proposal |-> 1, info |-> 1]),
  Scenario(Link(alice, "right"), TRUE, [proposal |-> 1, input |-> 1]),
  Scenario(Link(alice, "right"), TRUE, [output |-> 2, resize |-> 2, input |-> 3]),
  Scenario(Link(alice, "right"), FALSE, [output |-> 1, input |-> 1, say |-> 1]),
  Scenario(Link(alice, "wrong"), TRUE, [output |-> 2, say |-> 1, activity |-> 2]),
  Scenario(Link(alice, "none"), TRUE, [output |-> 1, resize |-> 1, proposal |-> 1]),
  Scenario(Form, TRUE, [info |-> 1, say |-> 1, activity |-> 2])}
EarlyScenarios == {Scenario(Link(alice, "right"), TRUE, [proposal |-> 1])}
=============================================================================
