--------------------------- MODULE RegistryProofs ---------------------------
(***************************************************************************)
(* Lemmas about the registry's operators and commands, for the proofs of   *)
(* both transports.                                                        *)
(***************************************************************************)
EXTENDS Registry, FiniteSetTheorems, WellFoundedInduction, TLAPS

\* A set of natural numbers that is not empty has a least element.
LEMMA LeastNumber ==
  ASSUME NEW T \in SUBSET Nat, T # {}
  PROVE  \E x \in T : \A y \in T : x <= y
<1>1. PICK x \in T : \A y \in T : ~ (<<y, x>> \in OpToRel(<, Nat))
  BY NatLessThanWellFounded, WFMin
<1>2. \A y \in T : ~ (y < x)
  BY <1>1 DEF OpToRel
<1> QED
  BY <1>2

\* While somebody is outside, fewer names are taken than connections exist.
LEMMA FewTaken ==
  ASSUME RegistryTypeOK, NEW c \in Conns, c \notin guests
  PROVE  Cardinality(Taken) < Cardinality(Conns)
<1>1. IsFiniteSet(Conns) /\ guests \subseteq Conns \ {c}
  BY NamesAssumption DEF RegistryTypeOK
<1>2. /\ IsFiniteSet(Conns \ {c})
      /\ Cardinality(Conns \ {c}) = Cardinality(Conns) - 1
      /\ Cardinality(Conns) \in Nat
  BY <1>1, FS_RemoveElement, FS_CardinalityType
<1>3. IsFiniteSet(guests) /\ Cardinality(guests) <= Cardinality(Conns \ {c})
  BY <1>1, <1>2, FS_Subset
<1> DEFINE f == [g \in guests |-> name[g]]
<1>4. f \in Surjection(guests, Taken)
  BY DEF Taken, Surjection
<1>5. IsFiniteSet(Taken) /\ Cardinality(Taken) <= Cardinality(guests)
  BY <1>3, <1>4, FS_Surjection
<1> QED
  BY <1>2, <1>3, <1>5, FS_CardinalityType

\* Join finds a name that nobody in the list has.
LEMMA FreeNameFacts ==
  ASSUME RegistryTypeOK, \A g \in guests : name[g] \in Names,
         NEW c \in Conns, c \notin guests
  PROVE  FreeName(Wanted[c]) \in Names \ Taken
<1> DEFINE row == Candidates[Wanted[c]]
           free == {i \in DOMAIN row : row[i] \notin Taken}
<1>1. Wanted[c] \in Names /\ row \in Seq(Names)
  BY NamesAssumption, CandidatesAssumption
<1>2. Taken \in SUBSET Names
  BY DEF Taken
<1>3. free # {}
  BY <1>1, <1>2, FewTaken, CandidatesAssumption
<1>4. free \in SUBSET Nat
  BY <1>1
<1>5. \E i \in free : \A j \in free : i <= j
  <2> HIDE DEF free
  <2> QED BY <1>3, <1>4, LeastNumber
<1>6. FreeName(Wanted[c]) = row[CHOOSE i \in free : \A j \in free : i <= j]
  BY DEF FreeName
<1>7. (CHOOSE i \in free : \A j \in free : i <= j) \in free
  <2> HIDE DEF free
  <2> QED BY <1>5
<1> QED
  <2> DEFINE i == CHOOSE i \in free : \A j \in free : i <= j
  <2>1. i \in DOMAIN row /\ row[i] \notin Taken
    BY <1>7
  <2> HIDE DEF i
  <2>2. row[i] \in Names
    BY <1>1, <2>1
  <2> QED BY <1>6, <2>1, <2>2 DEF i

\* What a command's end does to its thread, and to no other.
LEMMA FinishTypes ==
  ASSUME RegistryTypeOK, NEW t \in Controllers, NEW ok \in BOOLEAN, Finish(t, ok)
  PROVE  /\ cpc' \in [Controllers -> {"idle", "tell", "close", "leave", "reply"}]
         /\ cmd' \in [Controllers -> [op : Ops, name : Names \cup {None}, who : Conns \cup {None}, ok : BOOLEAN]]
         /\ cpc'[t] = "reply" /\ cmd'[t].op = cmd[t].op /\ cmd'[t].name = cmd[t].name
         /\ cmd'[t].who = cmd[t].who /\ cmd'[t].ok = ok
         /\ \A u \in Controllers \ {t} : cpc'[u] = cpc[u] /\ cmd'[u] = cmd[u]
<1>1. cmd[t] \in [op : Ops, name : Names \cup {None}, who : Conns \cup {None}, ok : BOOLEAN]
  BY DEF RegistryTypeOK
<1> DEFINE done == [cmd[t] EXCEPT !.ok = ok]
<1>2. /\ done \in [op : Ops, name : Names \cup {None}, who : Conns \cup {None}, ok : BOOLEAN]
      /\ done.op = cmd[t].op /\ done.name = cmd[t].name /\ done.who = cmd[t].who /\ done.ok = ok
  BY <1>1
<1>3. cmd' = [cmd EXCEPT ![t] = done]
  BY DEF Finish
<1>4. cmd'[t] = done /\ cpc'[t] = "reply"
  BY <1>3 DEF RegistryTypeOK, Finish
<1>5. cpc' \in [Controllers -> {"idle", "tell", "close", "leave", "reply"}]
  BY DEF RegistryTypeOK, Finish
<1>6. \A u \in Controllers \ {t} : cpc'[u] = cpc[u] /\ cmd'[u] = cmd[u]
  BY <1>3 DEF RegistryTypeOK, Finish
<1> HIDE DEF done
<1>7. cmd' \in [Controllers -> [op : Ops, name : Names \cup {None}, who : Conns \cup {None}, ok : BOOLEAN]]
  BY <1>2, <1>3 DEF RegistryTypeOK
<1> QED
  BY <1>2, <1>4, <1>5, <1>6, <1>7

\* The empty command has a command's type.
LEMMA NoCommandType ==
  NoCommand \in [op : Ops, name : Names \cup {None}, who : Conns \cup {None}, ok : BOOLEAN]
BY DEF NoCommand, Ops

\* What a command's first half does to its thread and to the guest's flags.
LEMMA CommandTypes ==
  ASSUME RegistryTypeOK, NEW t \in Controllers, NEW op \in Ops, NEW n \in Names, Command(t, op, n)
  PROVE  /\ cpc' \in [Controllers -> {"idle", "tell", "close", "leave", "reply"}]
         /\ cmd' \in [Controllers -> [op : Ops, name : Names \cup {None}, who : Conns \cup {None}, ok : BOOLEAN]]
         /\ writable' \in [Conns -> BOOLEAN] /\ warned' \in [Conns -> BOOLEAN]
<1>1. ASSUME NEW w \in Conns \cup {None}
      PROVE  [op |-> op, name |-> n, who |-> w, ok |-> FALSE]
               \in [op : Ops, name : Names \cup {None}, who : Conns \cup {None}, ok : BOOLEAN]
  OBVIOUS
<1>2. \E w \in Conns \cup {None} : cmd' = [cmd EXCEPT ![t] = [op |-> op, name |-> n, who |-> w, ok |-> FALSE]]
  BY DEF Command, RegistryTypeOK
<1>3. \E step \in {"tell", "close", "reply"} : cpc' = [cpc EXCEPT ![t] = step]
  BY DEF Command
<1>4. (op = "allow") \in BOOLEAN
  OBVIOUS
<1>5. writable' \in [Conns -> BOOLEAN] /\ warned' \in [Conns -> BOOLEAN]
  BY <1>4 DEF Command, RegistryTypeOK
<1> QED
  BY <1>1, <1>2, <1>3, <1>5 DEF RegistryTypeOK
=============================================================================
