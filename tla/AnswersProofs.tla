--------------------------- MODULE AnswersProofs ---------------------------
(***************************************************************************)
(* That each text has one taker, that no asker hangs, that the oldest      *)
(* question is served first and that the limiter limits (Answers).         *)
(***************************************************************************)
EXTENDS Answers, SequenceTheorems, FiniteSetTheorems, TLAPS

USE DEF vars, askVars, sayVars

-----------------------------------------------------------------------------
(* Queues *)

LEMMA RemoveFacts ==
  ASSUME NEW S, NEW s \in Seq(S), NEW i \in 1 .. Len(s)
  PROVE  /\ RemoveAt(s, i) \in Seq(S)
         /\ Len(RemoveAt(s, i)) = Len(s) - 1
         /\ \A k \in 1 .. Len(s) - 1 : RemoveAt(s, i)[k] = IF k < i THEN s[k] ELSE s[k + 1]
<1> DEFINE p == SubSeq(s, 1, i - 1)
<1> DEFINE q == SubSeq(s, i + 1, Len(s))
<1>0. Len(s) \in Nat /\ \A k \in 1 .. Len(s) : s[k] \in S
  BY LenProperties, ElementOfSeq
<1>1. p \in Seq(S) /\ Len(p) = i - 1 /\ \A k \in 1 .. i - 1 : p[k] = s[k]
  BY <1>0, SubSeqProperties
<1>2. q \in Seq(S) /\ Len(q) = Len(s) - i /\ \A k \in 1 .. Len(s) - i : q[k] = s[i + k]
  BY <1>0, SubSeqProperties
<1>3. RemoveAt(s, i) = p \o q
  BY DEF RemoveAt
<1> HIDE DEF p, q
<1>4. /\ p \o q \in Seq(S) /\ Len(p \o q) = Len(s) - 1
      /\ \A k \in 1 .. Len(s) - 1 : (p \o q)[k] = IF k < i THEN p[k] ELSE q[k - (i - 1)]
  <2>1. /\ p \o q \in Seq(S) /\ Len(p \o q) = Len(p) + Len(q)
        /\ \A k \in 1 .. Len(p) + Len(q) : (p \o q)[k] = IF k <= Len(p) THEN p[k] ELSE q[k - Len(p)]
    BY <1>1, <1>2, ConcatProperties
  <2>2. Len(p) = i - 1 /\ Len(q) = Len(s) - i /\ (i - 1) + (Len(s) - i) = Len(s) - 1
    BY <1>0, <1>1, <1>2
  <2>3. Len(p) + Len(q) = Len(s) - 1 /\ \A k \in 1 .. Len(s) - 1 : (k <= Len(p) <=> k < i)
    BY <1>0, <2>2
  <2> QED
    BY <2>1, <2>2, <2>3
<1>5. ASSUME NEW k \in 1 .. Len(s) - 1 PROVE (p \o q)[k] = IF k < i THEN s[k] ELSE s[k + 1]
  <2>1. CASE k < i
    BY <1>0, <1>1, <1>4, <2>1
  <2>2. CASE ~(k < i)
    <3>1. k - (i - 1) \in 1 .. Len(s) - i /\ i + (k - (i - 1)) = k + 1
      BY <1>0, <2>2
    <3> QED
      BY <1>2, <1>4, <2>2, <3>1
  <2> QED
    BY <2>1, <2>2
<1> QED
  BY <1>3, <1>4, <1>5

\* What is in q is in s, in the order in which it is there.
Sub(q, s) ==
  /\ ToSet(q) \subseteq ToSet(s)
  /\ \A k, l \in DOMAIN q : k < l => \E i, j \in DOMAIN s : i < j /\ q[k] = s[i] /\ q[l] = s[j]

LEMMA SubOfSub ==
  ASSUME NEW p, NEW q, NEW s, Sub(p, q), Sub(q, s)
  PROVE  Sub(p, s)
<1> SUFFICES ASSUME NEW k \in DOMAIN p, NEW l \in DOMAIN p, k < l
             PROVE  \E i, j \in DOMAIN s : i < j /\ p[k] = s[i] /\ p[l] = s[j]
  BY DEF Sub
<1>1. PICK i \in DOMAIN q, j \in DOMAIN q : i < j /\ p[k] = q[i] /\ p[l] = q[j]
  BY DEF Sub
<1> QED
  BY <1>1 DEF Sub

LEMMA Appended ==
  ASSUME NEW S, NEW s \in Seq(S), NEW a \in S, IsInjective(s), a \notin ToSet(s)
  PROVE  Append(s, a) \in Seq(S) /\ IsInjective(Append(s, a)) /\ ToSet(Append(s, a)) = ToSet(s) \cup {a}
<1> DEFINE t == Append(s, a)
<1>0. Len(s) \in Nat /\ DOMAIN s = 1 .. Len(s)
  BY LenProperties
<1>1. t \in Seq(S) /\ Len(t) = Len(s) + 1 /\ t[Len(s) + 1] = a /\ \A k \in 1 .. Len(s) : t[k] = s[k]
  BY AppendProperties
<1>2. DOMAIN t = 1 .. Len(s) + 1
  BY <1>1, LenProperties
<1> HIDE DEF t
<1>3. \A k \in DOMAIN t : k \in DOMAIN s \/ k = Len(s) + 1
  BY <1>0, <1>2
<1>4. ToSet(t) = ToSet(s) \cup {a}
  BY <1>0, <1>1, <1>2, <1>3 DEF ToSet
<1>5. IsInjective(t)
  BY <1>0, <1>1, <1>2, <1>3 DEF IsInjective, ToSet
<1> QED
  BY <1>1, <1>4, <1>5 DEF t

LEMMA BothAppended ==
  ASSUME NEW S, NEW q \in Seq(S), NEW s \in Seq(S), NEW a \in S, Sub(q, s)
  PROVE  Sub(Append(q, a), Append(s, a))
<1> DEFINE p == Append(q, a)
<1> DEFINE t == Append(s, a)
<1>0. Len(q) \in Nat /\ DOMAIN q = 1 .. Len(q) /\ Len(s) \in Nat /\ DOMAIN s = 1 .. Len(s)
  BY LenProperties
<1>1. /\ p \in Seq(S) /\ Len(p) = Len(q) + 1 /\ p[Len(q) + 1] = a /\ \A k \in 1 .. Len(q) : p[k] = q[k]
      /\ t \in Seq(S) /\ Len(t) = Len(s) + 1 /\ t[Len(s) + 1] = a /\ \A k \in 1 .. Len(s) : t[k] = s[k]
  BY AppendProperties
<1>2. DOMAIN p = 1 .. Len(q) + 1 /\ DOMAIN t = 1 .. Len(s) + 1
  BY <1>1, LenProperties
<1> HIDE DEF p, t
<1>3. ASSUME NEW k \in DOMAIN q PROVE \E i \in DOMAIN s : q[k] = s[i]
  BY DEF Sub, ToSet
<1>4. ToSet(p) \subseteq ToSet(t)
  <2> SUFFICES ASSUME NEW k \in DOMAIN p PROVE \E i \in DOMAIN t : p[k] = t[i]
    BY DEF ToSet
  <2>1. CASE k = Len(q) + 1
    BY <1>0, <1>1, <1>2, <2>1
  <2>2. CASE k \in DOMAIN q
    BY <1>0, <1>1, <1>2, <1>3, <2>2
  <2> QED
    BY <1>0, <1>2, <2>1, <2>2
<1>5. ASSUME NEW k \in DOMAIN p, NEW l \in DOMAIN p, k < l
      PROVE  \E i, j \in DOMAIN t : i < j /\ p[k] = t[i] /\ p[l] = t[j]
  <2>1. k \in DOMAIN q /\ p[k] = q[k]
    BY <1>0, <1>1, <1>2, <1>5
  <2>2. CASE l = Len(q) + 1
    <3>1. PICK i \in DOMAIN s : q[k] = s[i]
      BY <1>3, <2>1
    <3>2. i \in DOMAIN t /\ Len(s) + 1 \in DOMAIN t /\ i < Len(s) + 1 /\ t[i] = s[i]
      BY <1>0, <1>1, <1>2
    <3> QED
      BY <1>1, <2>1, <2>2, <3>1, <3>2
  <2>3. CASE l \in DOMAIN q
    <3>1. PICK i \in DOMAIN s, j \in DOMAIN s : i < j /\ q[k] = s[i] /\ q[l] = s[j]
      BY <1>5, <2>1, <2>3 DEF Sub
    <3>2. i \in DOMAIN t /\ j \in DOMAIN t /\ t[i] = s[i] /\ t[j] = s[j] /\ p[l] = q[l]
      BY <1>0, <1>1, <1>2, <2>3
    <3> QED
      BY <2>1, <3>1, <3>2
  <2> QED
    BY <1>0, <1>2, <2>2, <2>3
<1>6. Sub(p, t)
  BY <1>4, <1>5 DEF Sub
<1> QED
  BY <1>6 DEF p, t

\* Tail is the case i = 1.
LEMMA Removed ==
  ASSUME NEW S, NEW s \in Seq(S), NEW i \in DOMAIN s, IsInjective(s), NEW q,
         q = RemoveAt(s, i) \/ (i = 1 /\ q = Tail(s))
  PROVE  q \in Seq(S) /\ IsInjective(q) /\ ToSet(q) = ToSet(s) \ {s[i]} /\ Sub(q, s)
<1>0. Len(s) \in Nat /\ DOMAIN s = 1 .. Len(s) /\ s # << >>
  BY LenProperties, EmptySeq
<1>1. /\ q \in Seq(S) /\ Len(q) = Len(s) - 1
      /\ \A k \in 1 .. Len(s) - 1 : q[k] = IF k < i THEN s[k] ELSE s[k + 1]
  <2>1. CASE q = RemoveAt(s, i)
    BY <1>0, <2>1, RemoveFacts
  <2>2. CASE i = 1 /\ q = Tail(s)
    BY <1>0, <2>2, HeadTailProperties
  <2> QED
    BY <2>1, <2>2
<1>2. DOMAIN q = 1 .. Len(s) - 1
  BY <1>0, <1>1, LenProperties
<1> DEFINE From(k) == IF k < i THEN k ELSE k + 1
<1>3. ASSUME NEW k \in DOMAIN q PROVE From(k) \in DOMAIN s /\ q[k] = s[From(k)] /\ From(k) # i
  BY <1>0, <1>1, <1>2
<1>4. ASSUME NEW k \in DOMAIN q, NEW l \in DOMAIN q PROVE (k < l => From(k) < From(l)) /\ (From(k) = From(l) => k = l)
  BY <1>0, <1>2
<1>5. ASSUME NEW m \in DOMAIN s, m # i PROVE \E k \in DOMAIN q : From(k) = m
  <2>1. CASE m < i
    <3>1. m \in DOMAIN q /\ From(m) = m
      BY <1>0, <1>2, <2>1
    <3> QED
      BY <3>1
  <2>2. CASE m > i
    <3>1. m - 1 \in DOMAIN q /\ From(m - 1) = m
      BY <1>0, <1>2, <2>2
    <3> QED
      BY <3>1
  <2> QED
    BY <1>0, <1>5, <2>1, <2>2
<1> HIDE DEF From
<1>6. IsInjective(q)
  BY <1>3, <1>4 DEF IsInjective
<1>7. ASSUME NEW k \in DOMAIN q PROVE q[k] \in ToSet(s) \ {s[i]}
  BY <1>3 DEF IsInjective, ToSet
<1>8. ASSUME NEW m \in DOMAIN s, s[m] # s[i] PROVE s[m] \in ToSet(q)
  <2>1. PICK k \in DOMAIN q : From(k) = m
    BY <1>5, <1>8
  <2> QED
    BY <1>3, <2>1 DEF ToSet
<1>9. ToSet(q) = ToSet(s) \ {s[i]}
  BY <1>7, <1>8 DEF ToSet
<1>10. Sub(q, s)
  BY <1>3, <1>4, <1>9 DEF Sub
<1> QED
  BY <1>1, <1>6, <1>9, <1>10
-----------------------------------------------------------------------------
(* Types and the queue of waiters *)

\* A text in hand is one; an asker that has not returned has no reply.
InHand ==
  /\ \A g \in Guests : gpc[g] # "idle" => say[g] \in Text
  /\ \A a \in Askers : apc[a] # "done" => reply[a] = None

Sound == TypeOK /\ TimeoutNeverHangs /\ InHand

\* What a channel can be.
LEMMA ChannelFacts ==
  ASSUME TypeOK, NEW a \in Askers, chan[a] # << >>
  PROVE  Head(chan[a]) \in Text /\ Tail(chan[a]) = << >> /\ DOMAIN chan[a] = {1} /\ chan[a][1] = Head(chan[a])
<1>1. chan[a] \in Seq(Text) /\ Len(chan[a]) \in Nat /\ Len(chan[a]) <= 1
  BY LenProperties DEF TypeOK
<1>2. Len(chan[a]) = 1
  <2>1. PICK c : c = chan[a]
    OBVIOUS
  <2>2. c \in Seq(Text) /\ c # << >> /\ Len(c) \in Nat /\ Len(c) <= 1
    BY <1>1, <2>1
  <2>3. Len(c) # 0
    BY <2>2, EmptySeq
  <2>4. \A n \in Nat : n <= 1 /\ n # 0 => n = 1
    OBVIOUS
  <2>5. Len(c) = 1
    BY <2>2, <2>3, <2>4, Zenon
  <2> QED
    BY <2>1, <2>5
<1>3. Head(chan[a]) \in Text /\ Tail(chan[a]) \in Seq(Text) /\ Len(Tail(chan[a])) = 0
  BY <1>1, <1>2, HeadTailProperties
<1>4. DOMAIN chan[a] = {1}
  BY <1>1, <1>2, LenProperties
<1> QED
  BY <1>1, <1>3, <1>4, EmptySeq

LEMMA Filled ==
  ASSUME NEW t \in Text
  PROVE  /\ Append(<< >>, t) \in Seq(Text) /\ Len(Append(<< >>, t)) = 1 /\ Append(<< >>, t) # << >>
         /\ DOMAIN Append(<< >>, t) = {1} /\ Append(<< >>, t)[1] = t
<1>1. << >> \in Seq(Text) /\ Len(<< >>) = 0
  OBVIOUS
<1>2. Append(<< >>, t) \in Seq(Text) /\ Len(Append(<< >>, t)) = 1 /\ Append(<< >>, t) # << >> /\ Append(<< >>, t)[1] = t
  BY <1>1, AppendProperties
<1>3. DOMAIN Append(<< >>, t) = {1}
  BY <1>2, LenProperties
<1> QED
  BY <1>2, <1>3

\* The oldest waiter.
LEMMA HeadFacts ==
  ASSUME TypeOK, TimeoutNeverHangs, waiters # << >>
  PROVE  /\ 1 \in DOMAIN waiters /\ waiters[1] = Head(waiters) /\ Head(waiters) \in Askers
         /\ Head(waiters) \in ToSet(waiters) /\ chan[Head(waiters)] = << >>
         /\ Tail(waiters) \in Seq(Askers) /\ IsInjective(Tail(waiters))
         /\ ToSet(Tail(waiters)) = ToSet(waiters) \ {Head(waiters)} /\ Sub(Tail(waiters), waiters)
<1>1. waiters \in Seq(Askers) /\ Len(waiters) \in Nat /\ Len(waiters) # 0
  BY LenProperties, EmptySeq DEF TypeOK
<1>2. 1 \in DOMAIN waiters /\ waiters[1] = Head(waiters)
  BY <1>1, LenProperties
<1>3. Head(waiters) \in Askers /\ Head(waiters) \in ToSet(waiters)
  BY <1>1, <1>2, HeadTailProperties DEF ToSet
<1>4. chan[Head(waiters)] = << >>
  BY <1>3 DEF TimeoutNeverHangs
<1>5. IsInjective(waiters)
  BY DEF TimeoutNeverHangs
<1> DEFINE q == Tail(waiters)
<1>6. q = Tail(waiters)
  OBVIOUS
<1> HIDE DEF q
<1>7. q \in Seq(Askers) /\ IsInjective(q) /\ ToSet(q) = ToSet(waiters) \ {waiters[1]} /\ Sub(q, waiters)
  <2>1. PICK i \in DOMAIN waiters : i = 1
    BY <1>2
  <2>2. q = RemoveAt(waiters, i) \/ (i = 1 /\ q = Tail(waiters))
    BY <1>6, <2>1
  <2>3. q \in Seq(Askers) /\ IsInjective(q) /\ ToSet(q) = ToSet(waiters) \ {waiters[i]} /\ Sub(q, waiters)
    BY <1>1, <1>5, <2>2, Removed
  <2> QED
    BY <2>1, <2>3
<1> QED
  BY <1>2, <1>3, <1>4, <1>6, <1>7

\* Each step of an asker or of a guest's handler moves the queue in its way.
LEMMA SoundStep ==
  ASSUME Sound, [Next]_vars
  PROVE  Sound'
<1>0. TypeOK /\ TimeoutNeverHangs /\ InHand
  BY DEF Sound
<1>1. ASSUME NEW a \in Askers, Ask(a) PROVE Sound'
  <2>1. TypeOK'
    BY <1>0, <1>1 DEF Ask, TypeOK
  <2>2. TimeoutNeverHangs'
    BY <1>0, <1>1 DEF Ask, TypeOK, TimeoutNeverHangs
  <2>3. InHand'
    BY <1>0, <1>1 DEF Ask, TypeOK, InHand
  <2> QED
    BY <2>1, <2>2, <2>3 DEF Sound
<1>2. ASSUME NEW a \in Askers, SendQuestion(a) PROVE Sound'
  <2>1. Len(Roster) \in Nat /\ sent[a] + 1 \in 1 .. Len(Roster) /\ Roster[sent[a] + 1] \in Guests
    BY <1>0, <1>2, LenProperties, ElementOfSeq, RosterAssumption DEF SendQuestion, TypeOK
  <2>2. TypeOK'
    BY <1>0, <1>2, <2>1 DEF SendQuestion, TypeOK
  <2>3. TimeoutNeverHangs' /\ InHand'
    BY <1>0, <1>2 DEF SendQuestion, TimeoutNeverHangs, InHand
  <2> QED
    BY <2>2, <2>3 DEF Sound
<1>3. ASSUME NEW a \in Askers, Register(a) PROVE Sound'
  <2>1. a \notin ToSet(waiters) /\ chan[a] = << >> /\ waiters' = Append(waiters, a) /\ chan' = chan
    BY <1>0, <1>3 DEF Register, TimeoutNeverHangs
  <2>2. waiters' \in Seq(Askers) /\ IsInjective(waiters') /\ ToSet(waiters') = ToSet(waiters) \cup {a}
    BY <1>0, <2>1, Appended DEF TypeOK, TimeoutNeverHangs
  <2>3. joined' \in Seq(Askers)
    BY <1>0, <1>3, AppendProperties DEF Register, TypeOK
  <2>4. TypeOK'
    BY <1>0, <1>3, <2>2, <2>3 DEF Register, TypeOK
  <2>5. apc' = [apc EXCEPT ![a] = "waiting"]
    BY <1>3 DEF Register
  <2>6. TimeoutNeverHangs'
    BY <1>0, <2>1, <2>2, <2>5 DEF TimeoutNeverHangs, TypeOK
  <2>7. InHand'
    BY <1>0, <1>3 DEF Register, TypeOK, InHand
  <2> QED
    BY <2>4, <2>6, <2>7 DEF Sound
<1>4. ASSUME NEW a \in Askers, Receive(a) \/ TakeLate(a) PROVE Sound'
  <2>1. TakeFrom(a) /\ apc[a] \in {"waiting", "expired"}
    BY <1>4 DEF Receive, TakeLate
  <2>2. /\ chan[a] # << >> /\ chan' = [chan EXCEPT ![a] = Tail(chan[a])] /\ waiters' = waiters
        /\ apc' = [apc EXCEPT ![a] = "done"] /\ reply' = [reply EXCEPT ![a] = Head(chan[a])]
    BY <2>1 DEF TakeFrom, Return
  <2>3. Head(chan[a]) \in Text /\ Tail(chan[a]) = << >>
    BY <1>0, <2>2, ChannelFacts
  <2>4. chan'[a] = << >> /\ \A b \in Askers : b # a => chan'[b] = chan[b]
    BY <1>0, <2>2, <2>3 DEF TypeOK
  <2>5. chan' \in [Askers -> Seq(Text)] /\ \A b \in Askers : Len(chan'[b]) <= 1
    <3>1. << >> \in Seq(Text) /\ Len(<< >>) = 0
      OBVIOUS
    <3> QED
      BY <1>0, <2>2, <2>3, <3>1 DEF TypeOK
  <2>6. TypeOK'
    BY <1>0, <2>1, <2>2, <2>3, <2>5 DEF TypeOK, TakeFrom, Return
  <2>7. a \notin ToSet(waiters)
    BY <1>0, <2>2 DEF TimeoutNeverHangs
  <2>8. TimeoutNeverHangs'
    BY <1>0, <2>2, <2>4, <2>7 DEF TimeoutNeverHangs, TypeOK
  <2>9. InHand'
    BY <1>0, <2>1 DEF TakeFrom, Return, TypeOK, InHand
  <2> QED
    BY <2>6, <2>8, <2>9 DEF Sound
<1>5. ASSUME NEW a \in Askers, TimerFires(a) PROVE Sound'
  <2>1. TypeOK'
    BY <1>0, <1>5 DEF TimerFires, TypeOK
  <2>2. TimeoutNeverHangs'
    BY <1>0, <1>5 DEF TimerFires, TypeOK, TimeoutNeverHangs
  <2>3. InHand'
    BY <1>0, <1>5 DEF TimerFires, TypeOK, InHand
  <2> QED
    BY <2>1, <2>2, <2>3 DEF Sound
<1>6. ASSUME NEW a \in Askers, GiveUp(a) PROVE Sound'
  <2>1. PICK i \in DOMAIN waiters : waiters[i] = a /\ waiters' = RemoveAt(waiters, i)
    BY <1>6 DEF GiveUp
  <2>2. waiters' \in Seq(Askers) /\ IsInjective(waiters') /\ ToSet(waiters') = ToSet(waiters) \ {a}
    BY <1>0, <2>1, Removed DEF TypeOK, TimeoutNeverHangs
  <2>3. a \in ToSet(waiters)
    BY <2>1 DEF ToSet
  <2>4. chan' = chan /\ apc' = [apc EXCEPT ![a] = "done"] /\ chan[a] = << >>
    BY <1>0, <1>6, <2>3 DEF GiveUp, Return, TimeoutNeverHangs
  <2>5. TypeOK'
    BY <1>0, <1>6, <2>2 DEF GiveUp, Return, TypeOK
  <2>6. TimeoutNeverHangs'
    BY <1>0, <2>2, <2>4 DEF TimeoutNeverHangs, TypeOK
  <2>7. InHand'
    BY <1>0, <1>6 DEF GiveUp, Return, TypeOK, InHand
  <2> QED
    BY <2>5, <2>6, <2>7 DEF Sound
<1>7. ASSUME NEW g \in Guests, Deliver(g) PROVE Sound'
  <2>1. CASE waiters = << >>
    <3>1. TypeOK'
      BY <1>0, <1>7, <2>1 DEF Deliver, TypeOK
    <3>2. TimeoutNeverHangs'
      BY <1>0, <1>7, <2>1 DEF Deliver, TimeoutNeverHangs
    <3>3. InHand'
      BY <1>0, <1>7, <2>1 DEF Deliver, TypeOK, InHand
    <3> QED
      BY <3>1, <3>2, <3>3 DEF Sound
  <2>2. CASE waiters # << >>
    <3> DEFINE h == Head(waiters)
    <3>1. /\ h \in Askers /\ h \in ToSet(waiters) /\ chan[h] = << >>
          /\ Tail(waiters) \in Seq(Askers) /\ IsInjective(Tail(waiters)) /\ ToSet(Tail(waiters)) = ToSet(waiters) \ {h}
      BY <1>0, <2>2, HeadFacts
    <3>2. /\ chan' = [chan EXCEPT ![h] = Append(chan[h], say[g])] /\ waiters' = Tail(waiters) /\ apc' = apc
          /\ say[g] \in Text
      BY <1>0, <1>7, <2>2 DEF Deliver, InHand
    <3> HIDE DEF h
    <3>3. /\ Append(<< >>, say[g]) \in Seq(Text) /\ Len(Append(<< >>, say[g])) = 1 /\ Append(<< >>, say[g]) # << >>
      BY <3>2, Filled
    <3>4. chan'[h] = Append(<< >>, say[g]) /\ \A b \in Askers : b # h => chan'[b] = chan[b]
      BY <1>0, <3>1, <3>2 DEF TypeOK
    <3>5. chan' \in [Askers -> Seq(Text)] /\ \A b \in Askers : Len(chan'[b]) <= 1
      <4>1. chan' \in [Askers -> Seq(Text)]
        BY <1>0, <3>1, <3>2, <3>3 DEF TypeOK
      <4>2. \A b \in Askers : Len(chan[b]) <= 1
        BY <1>0 DEF TypeOK
      <4>3. ASSUME NEW b \in Askers PROVE Len(chan'[b]) <= 1
        <5>1. CASE b = h
          <6>1. PICK c : c = Append(<< >>, say[g])
            OBVIOUS
          <6>2. Len(c) = 1 /\ chan'[h] = c
            BY <3>3, <3>4, <6>1
          <6>3. Len(chan'[b]) = 1
            BY <5>1, <6>2, Zenon
          <6> QED
            BY <6>3
        <5>2. CASE b # h
          BY <3>4, <4>2, <5>2
        <5> QED
          BY <5>1, <5>2
      <4> QED
        BY <4>1, <4>3
    <3>6. TypeOK'
      BY <1>0, <1>7, <2>2, <3>1, <3>2, <3>5 DEF Deliver, TypeOK
    <3>7. TimeoutNeverHangs'
      BY <1>0, <3>1, <3>2, <3>3, <3>4, SMTT(30) DEF TimeoutNeverHangs, TypeOK
    <3>8. InHand'
      BY <1>0, <1>7, <2>2 DEF Deliver, TypeOK, InHand
    <3> QED
      BY <3>6, <3>7, <3>8 DEF Sound
  <2> QED
    BY <2>1, <2>2
<1>8. ASSUME NEW g \in Guests, Notice(g) PROVE Sound'
  <2>1. TypeOK'
    BY <1>0, <1>8 DEF Notice, TypeOK, InHand
  <2>2. TimeoutNeverHangs' /\ InHand'
    BY <1>0, <1>8 DEF Notice, TypeOK, TimeoutNeverHangs, InHand
  <2> QED
    BY <2>1, <2>2 DEF Sound
<1>9. ASSUME NEW g \in Guests, NEW re \in Askers \cup {None}, Speak(g, re) PROVE Sound'
  <2>1. said + 1 \in Texts /\ said' = said + 1 /\ said' \in 0 .. MaxSays
    BY <1>0, <1>9, LimitsAssumption DEF Speak, TypeOK, Texts
  <2>2. [n |-> said + 1, re |-> re] \in Text /\ Kept(g) \in SUBSET Texts
    BY <1>0, <2>1 DEF Text, Kept, TypeOK
  <2>3. say' \in [Guests -> Text \cup {None}] /\ gpc' \in [Guests -> {"idle", "deliver", "notice"}]
    <3>1. say \in [Guests -> Text \cup {None}] /\ gpc \in [Guests -> {"idle", "deliver", "notice"}]
      BY <1>0 DEF TypeOK
    <3>2. \/ UNCHANGED <<gpc, say>>
          \/ gpc' = [gpc EXCEPT ![g] = "deliver"] /\ say' = [say EXCEPT ![g] = [n |-> said + 1, re |-> re]]
      BY <1>9 DEF Speak
    <3> QED
      BY <2>2, <3>1, <3>2
  <2>4. recent' \in [Guests -> SUBSET Texts] /\ spoken' \in [Guests -> SUBSET Texts]
    <3>1. recent \in [Guests -> SUBSET Texts] /\ spoken \in [Guests -> SUBSET Texts]
      BY <1>0 DEF TypeOK
    <3>2. /\ \/ recent' = [recent EXCEPT ![g] = Kept(g)]
             \/ recent' = [recent EXCEPT ![g] = Kept(g) \cup {said + 1}]
          /\ spoken' = spoken \/ spoken' = [spoken EXCEPT ![g] = @ \cup {said + 1}]
      BY <1>9 DEF Speak
    <3>3. recent' \in [Guests -> SUBSET Texts]
      BY <2>1, <2>2, <3>1, <3>2
    <3>4. spoken' \in [Guests -> SUBSET Texts]
      BY <2>1, <3>1, <3>2
    <3> QED
      BY <3>3, <3>4
  <2>5. age' \in [Texts -> 0 .. Window]
    <3>1. age \in [Texts -> 0 .. Window] /\ 0 \in 0 .. Window
      BY <1>0, LimitsAssumption DEF TypeOK
    <3>2. age' = age \/ age' = [age EXCEPT ![said + 1] = 0]
      BY <1>9 DEF Speak
    <3> QED
      BY <2>1, <3>1, <3>2
  <2>6. heard' \in [Guests -> SUBSET Askers]
    BY <1>0, <1>9 DEF Speak, TypeOK
  <2>7. TypeOK'
    BY <1>0, <1>9, <2>1, <2>3, <2>4, <2>5, <2>6 DEF Speak, TypeOK
  <2>8. InHand'
    BY <1>0, <1>9, <2>2 DEF Speak, InHand, TypeOK
  <2>9. TimeoutNeverHangs'
    BY <1>0, <1>9 DEF Speak, TimeoutNeverHangs
  <2> QED
    BY <2>7, <2>8, <2>9 DEF Sound
<1>10. CASE Tick
  <2>1. age' \in [Texts -> 0 .. Window]
    BY <1>0, <1>10, LimitsAssumption DEF Tick, TypeOK
  <2>2. TypeOK'
    BY <1>0, <1>10, <2>1 DEF Tick, TypeOK
  <2>3. TimeoutNeverHangs' /\ InHand'
    BY <1>0, <1>10 DEF Tick, TimeoutNeverHangs, InHand
  <2> QED
    BY <2>2, <2>3 DEF Sound
<1>11. CASE UNCHANGED vars
  BY <1>0, <1>11 DEF Sound, TypeOK, TimeoutNeverHangs, InHand
<1> QED
  BY <1>1, <1>2, <1>3, <1>4, <1>5, <1>6, <1>7, <1>8, <1>9, <1>10, <1>11 DEF Next, AskStep, SayStep

LEMMA SoundInit == Init => Sound
<1> SUFFICES ASSUME Init PROVE Sound
  OBVIOUS
<1>1. << >> \in Seq(Askers) /\ << >> \in Seq(Text) /\ Len(<< >>) = 0 /\ Len(Roster) \in Nat
  BY LenProperties, RosterAssumption
<1>2. TypeOK
  BY <1>1, LimitsAssumption DEF Init, TypeOK
<1>3. TimeoutNeverHangs /\ InHand
  <2>1. ToSet(<< >>) = {} /\ IsInjective(<< >>)
    BY DEF ToSet, IsInjective
  <2> QED
    BY <2>1 DEF Init, TimeoutNeverHangs, InHand
<1> QED
  BY <1>2, <1>3 DEF Sound

LEMMA SoundAlways == Spec => []Sound
BY SoundInit, SoundStep, PTL DEF Spec

\* Types; a channel never holds more than its capacity, so that deliver never
\* blocks with the lock held (say.go:93).
THEOREM TypeCorrect == Spec => []TypeOK
BY SoundAlways, PTL DEF Sound

\* An asker whose timer fired still waits in the queue or has its text.
THEOREM NobodyHangs == Spec => []TimeoutNeverHangs
BY SoundAlways, PTL DEF Sound
-----------------------------------------------------------------------------
(* The order of the questions *)

\* The waiters are in the order in which they joined; who has not returned from its
\* broadcast has not joined.
InTurn ==
  /\ IsInjective(joined)
  /\ \A a \in Askers : a \in ToSet(joined) <=> apc[a] \notin {"idle", "sending"}
  /\ Sub(waiters, joined)

Served(a) == chan[a] # << >> \/ a \in Answered

\* The steps in which nobody joins or is served.
LEMMA NobodyServed ==
  ASSUME TypeOK, OldestFirst, joined' = joined, ToSet(waiters') \subseteq ToSet(waiters),
         \A a \in Askers : Served(a)' => Served(a)
  PROVE  OldestFirst'
<1>1. \A j \in DOMAIN joined : joined[j] \in Askers
  BY ElementOfSeq, LenProperties DEF TypeOK
<1> SUFFICES ASSUME NEW i \in DOMAIN joined, NEW j \in DOMAIN joined, i < j, Served(joined[j])'
             PROVE  joined[i] \notin ToSet(waiters')
  BY DEF OldestFirst, Served
<1>2. PICK b \in Askers : b = joined[j]
  BY <1>1
<1>3. Served(b)' <=> Served(joined[j])'
  BY <1>2 DEF Served
<1>4. Served(joined[j])
  BY <1>2, <1>3
<1> QED
  BY <1>4 DEF OldestFirst, Served

LEMMA TurnStep ==
  ASSUME Sound, InTurn, OldestFirst, [Next]_vars
  PROVE  InTurn' /\ OldestFirst'
<1>0. TypeOK /\ TimeoutNeverHangs /\ InHand
  BY DEF Sound
<1>1. ASSUME UNCHANGED <<waiters, joined, chan, reply>>,
             \A b \in Askers : apc'[b] \in {"idle", "sending"} <=> apc[b] \in {"idle", "sending"}
      PROVE  InTurn' /\ OldestFirst'
  <2>1. InTurn'
    BY <1>1 DEF InTurn
  <2>2. \A a \in Askers : Served(a)' => Served(a)
    BY <1>1 DEF Served, Answered
  <2> QED
    BY <1>0, <1>1, <2>1, <2>2, NobodyServed
<1>2. ASSUME NEW a \in Askers, Register(a) PROVE InTurn' /\ OldestFirst'
  <2>1. waiters' = Append(waiters, a) /\ joined' = Append(joined, a) /\ apc' = [apc EXCEPT ![a] = "waiting"]
    BY <1>2 DEF Register
  <2>2. apc[a] = "sending" /\ a \notin ToSet(joined) /\ UNCHANGED <<chan, reply>>
    BY <1>2 DEF Register, InTurn
  <2>3. joined \in Seq(Askers) /\ waiters \in Seq(Askers)
    BY <1>0 DEF TypeOK
  <2>4. IsInjective(joined') /\ ToSet(joined') = ToSet(joined) \cup {a}
    BY <2>1, <2>2, <2>3, Appended DEF InTurn
  <2>5. Sub(waiters', joined')
    BY <2>1, <2>3, BothAppended DEF InTurn
  <2>6. InTurn'
    BY <1>0, <2>1, <2>4, <2>5 DEF InTurn, TypeOK
  <2>7. ToSet(waiters') = ToSet(waiters) \cup {a}
    <3>1. a \notin ToSet(waiters)
      BY <2>2 DEF InTurn, Sub
    <3> QED
      BY <1>0, <2>1, <2>3, <3>1, Appended DEF TimeoutNeverHangs
  <2>8. /\ Len(joined) \in Nat /\ DOMAIN joined = 1 .. Len(joined) /\ DOMAIN joined' = 1 .. Len(joined) + 1
        /\ joined'[Len(joined) + 1] = a /\ \A k \in DOMAIN joined : joined'[k] = joined[k]
    <3>1. DOMAIN joined = 1 .. Len(joined) /\ Len(joined) \in Nat
      BY <2>3, LenProperties
    <3>2. joined' \in Seq(Askers) /\ Len(joined') = Len(joined) + 1 /\ joined'[Len(joined) + 1] = a
      BY <2>1, <2>3, AppendProperties
    <3>3. \A k \in 1 .. Len(joined) : joined'[k] = joined[k]
      BY <2>1, <2>3, AppendProperties
    <3> QED
      BY <3>1, <3>2, <3>3, LenProperties
  <2>9. chan[a] = << >> /\ a \notin Answered
    <3>1. reply[a] = None
      BY <1>0, <2>2 DEF InHand
    <3>2. chan[a] = << >>
      BY <1>0, <2>2 DEF TimeoutNeverHangs
    <3> QED
      BY <3>1, <3>2 DEF Answered
  <2>10. ASSUME NEW i \in DOMAIN joined', NEW j \in DOMAIN joined', i < j,
                chan'[joined'[j]] # << >> \/ joined'[j] \in Answered'
         PROVE  joined'[i] \notin ToSet(waiters')
    <3>1. j # Len(joined) + 1
      BY <2>2, <2>8, <2>9, <2>10 DEF Answered
    <3>2. i \in DOMAIN joined /\ j \in DOMAIN joined /\ joined'[i] = joined[i] /\ joined'[j] = joined[j]
      BY <2>8, <2>10, <3>1
    <3>3. joined[i] \notin ToSet(waiters)
      BY <2>2, <2>10, <3>2 DEF OldestFirst, Answered
    <3>4. joined[i] # a
      BY <2>2, <3>2 DEF ToSet
    <3> QED
      BY <2>7, <3>2, <3>3, <3>4
  <2>11. OldestFirst'
    BY <2>10 DEF OldestFirst
  <2> QED
    BY <2>6, <2>11
<1>3. ASSUME NEW a \in Askers, Receive(a) \/ TakeLate(a) PROVE InTurn' /\ OldestFirst'
  <2>1. /\ apc[a] \in {"waiting", "expired"} /\ chan[a] # << >> /\ UNCHANGED <<waiters, joined>>
        /\ apc' = [apc EXCEPT ![a] = "done"] /\ reply' = [reply EXCEPT ![a] = Head(chan[a])]
        /\ chan' = [chan EXCEPT ![a] = Tail(chan[a])]
    BY <1>3 DEF Receive, TakeLate, TakeFrom, Return
  <2>2. InTurn'
    BY <1>0, <2>1 DEF InTurn, TypeOK
  <2>3. \A b \in Askers : Served(b)' => Served(b)
    BY <1>0, <2>1 DEF Served, Answered, TypeOK
  <2> QED
    BY <1>0, <2>1, <2>2, <2>3, NobodyServed
<1>4. ASSUME NEW a \in Askers, GiveUp(a) PROVE InTurn' /\ OldestFirst'
  <2>1. PICK i \in DOMAIN waiters : waiters[i] = a /\ waiters' = RemoveAt(waiters, i)
    BY <1>4 DEF GiveUp
  <2>2. Sub(waiters', waiters)
    BY <1>0, <2>1, Removed DEF TypeOK, TimeoutNeverHangs
  <2>3. /\ apc[a] = "expired" /\ UNCHANGED <<joined, chan>> /\ apc' = [apc EXCEPT ![a] = "done"]
        /\ reply' = [reply EXCEPT ![a] = NoAnswer]
    BY <1>4 DEF GiveUp, Return
  <2>4. InTurn'
    BY <1>0, <2>2, <2>3, SubOfSub DEF InTurn, TypeOK
  <2>5. \A b \in Askers : Served(b)' => Served(b)
    BY <1>0, <2>3 DEF Served, Answered, TypeOK
  <2> QED
    BY <1>0, <2>2, <2>3, <2>4, <2>5, NobodyServed DEF Sub
<1>5. ASSUME NEW g \in Guests, Deliver(g), waiters # << >> PROVE InTurn' /\ OldestFirst'
  <2> DEFINE h == Head(waiters)
  <2>1. /\ 1 \in DOMAIN waiters /\ waiters[1] = h /\ h \in Askers /\ Sub(Tail(waiters), waiters)
        /\ ToSet(Tail(waiters)) = ToSet(waiters) \ {h}
    BY <1>0, <1>5, HeadFacts
  <2>2. /\ UNCHANGED <<apc, joined, reply>> /\ waiters' = Tail(waiters)
        /\ chan' = [chan EXCEPT ![h] = Append(chan[h], say[g])]
    BY <1>5 DEF Deliver
  <2> HIDE DEF h
  <2>3. InTurn'
    BY <2>1, <2>2, SubOfSub DEF InTurn
  <2>4. ASSUME NEW i \in DOMAIN joined, NEW j \in DOMAIN joined, i < j,
               chan'[joined[j]] # << >> \/ joined[j] \in Answered'
        PROVE  joined[i] \notin ToSet(waiters')
    <3>1. CASE joined[j] # h
      <4>1. joined[j] \in Askers
        BY <1>0, ElementOfSeq, LenProperties DEF TypeOK
      <4>2. chan'[joined[j]] = chan[joined[j]]
        BY <1>0, <2>1, <2>2, <3>1, <4>1 DEF TypeOK
      <4>3. joined[i] \notin ToSet(waiters)
        BY <2>2, <2>4, <4>2 DEF OldestFirst, Answered
      <4> QED
        BY <2>1, <2>2, <4>3
    <3>2. CASE joined[j] = h
      <4> SUFFICES ASSUME joined[i] \in ToSet(waiters), joined[i] # h PROVE FALSE
        BY <2>1, <2>2
      <4>1. PICK l \in DOMAIN waiters : joined[i] = waiters[l]
        BY DEF ToSet
      <4>2. 1 < l
        <5>1. waiters \in Seq(Askers) /\ Len(waiters) \in Nat /\ DOMAIN waiters = 1 .. Len(waiters)
          BY <1>0, LenProperties DEF TypeOK
        <5>2. l # 1
          BY <2>1, <4>1
        <5> QED
          BY <5>1, <5>2
      <4>3. PICK m \in DOMAIN joined, n \in DOMAIN joined : m < n /\ waiters[1] = joined[m] /\ waiters[l] = joined[n]
        BY <2>1, <4>2 DEF InTurn, Sub
      <4>4. m = j /\ n = i
        BY <2>1, <3>2, <4>1, <4>3 DEF InTurn, IsInjective
      <4>5. i \in Nat /\ j \in Nat
        <5>1. joined \in Seq(Askers)
          BY <1>0 DEF TypeOK
        <5>2. DOMAIN joined = 1 .. Len(joined) /\ Len(joined) \in Nat
          BY <5>1, LenProperties
        <5> QED
          BY <5>2
      <4> QED
        BY <2>4, <4>3, <4>4, <4>5
    <3> QED
      BY <3>1, <3>2
  <2>5. OldestFirst'
    BY <2>2, <2>4 DEF OldestFirst
  <2> QED
    BY <2>3, <2>5
<1>6. ASSUME NEW a \in Askers, Ask(a) \/ SendQuestion(a) \/ TimerFires(a)
      PROVE  /\ UNCHANGED <<waiters, joined, chan, reply>>
             /\ \A b \in Askers : apc'[b] \in {"idle", "sending"} <=> apc[b] \in {"idle", "sending"}
  BY <1>0, <1>6 DEF Ask, SendQuestion, TimerFires, TypeOK
<1>7. ASSUME \/ \E g \in Guests : Notice(g) \/ (Deliver(g) /\ waiters = << >>)
             \/ \E g \in Guests, re \in Askers \cup {None} : Speak(g, re)
             \/ Tick \/ UNCHANGED vars
      PROVE  UNCHANGED <<apc, waiters, joined, chan, reply>>
  BY <1>7 DEF Notice, Deliver, Speak, Tick
<1> QED
  BY <1>1, <1>2, <1>3, <1>4, <1>5, <1>6, <1>7 DEF Next, AskStep, SayStep

\* Nobody is served while an asker that began to wait earlier is still in the queue,
\* whoever gives up in between.
THEOREM OldestServedFirst == Spec => []OldestFirst
<1>1. Init => InTurn /\ OldestFirst
  <2> SUFFICES ASSUME Init PROVE InTurn /\ OldestFirst
    OBVIOUS
  <2>1. DOMAIN << >> = {} /\ ToSet(<< >>) = {}
    BY DEF ToSet
  <2> QED
    BY <2>1 DEF Init, InTurn, OldestFirst, IsInjective, Sub
<1>2. Sound /\ InTurn /\ OldestFirst /\ [Next]_vars => InTurn' /\ OldestFirst'
  BY TurnStep
<1> QED
  BY <1>1, <1>2, SoundAlways, PTL DEF Spec
-----------------------------------------------------------------------------
(* The limiter *)

Young(g) == {n \in spoken[g] : age[n] < Window}

\* What passed within the window is in the limiter's list, and what is in it passed; the
\* texts are numbered as they come, so that a new one is nobody else's.
Windowed ==
  /\ \A g \in Guests : Young(g) \subseteq recent[g] /\ recent[g] \subseteq spoken[g]
  /\ \A g \in Guests : \A n \in spoken[g] : n <= said

Bounded == \A g \in Guests : Cardinality(Young(g)) <= Burst

LEMMA TextsFinite ==
  ASSUME NEW S \in SUBSET Texts
  PROVE  IsFiniteSet(S) /\ Cardinality(S) \in Nat
<1>1. IsFiniteSet(Texts)
  BY FS_Interval, LimitsAssumption DEF Texts
<1> QED
  BY <1>1, FS_Subset, FS_CardinalityType

LEMMA WindowStep ==
  ASSUME TypeOK, Windowed, Bounded, [Next]_vars
  PROVE  Windowed' /\ Bounded'
<1>0. spoken \in [Guests -> SUBSET Texts] /\ age \in [Texts -> 0 .. Window] /\ recent \in [Guests -> SUBSET Texts] /\ said \in Nat
  BY DEF TypeOK
<1>1. ASSUME NEW g \in Guests, NEW re \in Askers \cup {None}, Speak(g, re), MayPass(g)
      PROVE  Windowed' /\ Bounded'
  <2> DEFINE m == said + 1
  <2>1. /\ m \in Texts /\ said' = m /\ recent' = [recent EXCEPT ![g] = Kept(g) \cup {m}]
        /\ spoken' = [spoken EXCEPT ![g] = spoken[g] \cup {m}] /\ age' = [age EXCEPT ![m] = 0]
    BY <1>0, <1>1, LimitsAssumption DEF Speak, Texts
  <2>2. \A f \in Guests : m \notin spoken[f]
    BY <1>0 DEF Windowed
  <2> HIDE DEF m
  <2>3. ASSUME NEW f \in Guests, f # g PROVE Young(f)' = Young(f) /\ recent'[f] = recent[f]
    BY <1>0, <2>1, <2>2, <2>3 DEF Young
  <2>4. Young(g)' \subseteq Kept(g) \cup {m}
    <3> SUFFICES ASSUME NEW n \in spoken'[g], age'[n] < Window, n # m PROVE n \in Kept(g)
      BY DEF Young
    <3>1. n \in spoken[g] /\ age'[n] = age[n]
      BY <1>0, <2>1
    <3> QED
      BY <3>1 DEF Windowed, Young, Kept
  <2>5. recent'[g] = Kept(g) \cup {m}
    BY <1>0, <2>1
  <2>6. Kept(g) \in SUBSET Texts /\ Young(g)' \in SUBSET Texts /\ Kept(g) \cup {m} \in SUBSET Texts
    BY <1>0, <2>1, <2>4 DEF Kept
  <2>7. Cardinality(Young(g)') <= Burst
    <3>1. Cardinality(Kept(g)) < Burst /\ Cardinality(Kept(g)) \in Nat /\ IsFiniteSet(Kept(g)) /\ Burst \in Nat
      BY <1>1, <2>6, TextsFinite, LimitsAssumption DEF MayPass
    <3>2. Cardinality(Kept(g) \cup {m}) <= Cardinality(Kept(g)) + 1
      <4>1. Cardinality(Kept(g) \cup {m}) = Cardinality(Kept(g)) \/ Cardinality(Kept(g) \cup {m}) = Cardinality(Kept(g)) + 1
        BY <3>1, FS_AddElement, Zenon
      <4> QED
        BY <3>1, <4>1
    <3>3. Cardinality(Young(g)') <= Cardinality(Kept(g) \cup {m}) /\ Cardinality(Young(g)') \in Nat
          /\ Cardinality(Kept(g) \cup {m}) \in Nat
      BY <2>4, <2>6, TextsFinite, FS_Subset
    <3> QED
      BY <3>1, <3>2, <3>3
  <2>8. Bounded'
    <3> SUFFICES ASSUME NEW f \in Guests PROVE Cardinality(Young(f)') <= Burst
      BY DEF Bounded
    <3>1. f # g => Cardinality(Young(f)') <= Burst
      BY <2>3 DEF Bounded
    <3> QED
      BY <2>7, <3>1
  <2>9. \A f \in Guests : Young(f)' \subseteq recent'[f] /\ recent'[f] \subseteq spoken'[f]
    <3>1. Kept(g) \subseteq spoken[g]
      BY DEF Windowed, Kept
    <3>2. \A f \in Guests : f # g => spoken'[f] = spoken[f]
      BY <1>0, <2>1
    <3>3. spoken'[g] = spoken[g] \cup {m}
      BY <1>0, <2>1
    <3> QED
      BY <2>3, <2>4, <2>5, <3>1, <3>2, <3>3 DEF Windowed
  <2>10. \A f \in Guests : \A n \in spoken'[f] : n <= said'
    <3>1. \A f \in Guests : \A n \in spoken'[f] : n = m \/ n \in spoken[f]
      BY <1>0, <2>1
    <3>2. \A f \in Guests : \A n \in spoken[f] : n \in Int /\ n <= m
      BY <1>0 DEF Windowed, Texts, m
    <3> QED
      BY <1>0, <2>1, <3>1, <3>2 DEF m
  <2> QED
    BY <2>8, <2>9, <2>10 DEF Windowed, Young
<1>2. ASSUME NEW g \in Guests, NEW re \in Askers \cup {None}, Speak(g, re), ~MayPass(g)
      PROVE  Windowed' /\ Bounded'
  <2>1. said' = said + 1 /\ recent' = [recent EXCEPT ![g] = Kept(g)] /\ UNCHANGED <<spoken, age>>
    BY <1>2 DEF Speak
  <2>2. Bounded'
    BY <2>1 DEF Bounded, Young
  <2>3. \A f \in Guests : Young(f)' \subseteq recent'[f] /\ recent'[f] \subseteq spoken'[f]
    BY <1>0, <2>1 DEF Windowed, Young, Kept
  <2>4. \A f \in Guests : \A n \in spoken'[f] : n <= said'
    BY <1>0, <2>1 DEF Windowed, Texts
  <2> QED
    BY <2>2, <2>3, <2>4 DEF Windowed, Young
<1>3. CASE Tick
  <2>1. UNCHANGED <<spoken, recent, said>> /\ age' = [n \in Texts |-> IF age[n] < Window THEN age[n] + 1 ELSE age[n]]
    BY <1>3 DEF Tick
  <2>2. \A n \in Texts : age'[n] < Window => age[n] < Window
    BY <1>0, <2>1, LimitsAssumption
  <2>3. \A f \in Guests : Young(f)' \subseteq Young(f) /\ Young(f) \in SUBSET Texts
    BY <1>0, <2>1, <2>2 DEF Young
  <2>4. ASSUME NEW f \in Guests PROVE Cardinality(Young(f)') <= Burst
    <3>1. /\ Cardinality(Young(f)') <= Cardinality(Young(f)) /\ Cardinality(Young(f)) \in Nat
          /\ Cardinality(Young(f)') \in Nat
      <4>1. IsFiniteSet(Young(f)) /\ Young(f)' \in SUBSET Texts
        BY <2>3, TextsFinite
      <4> QED
        BY <2>3, <4>1, TextsFinite, FS_Subset
    <3>2. Cardinality(Young(f)) <= Burst
      BY DEF Bounded, Young
    <3> QED
      BY <3>1, <3>2, LimitsAssumption
  <2> QED
    BY <2>1, <2>3, <2>4 DEF Windowed, Bounded, Young
<1>4. ASSUME UNCHANGED <<spoken, age, recent, said>> PROVE Windowed' /\ Bounded'
  BY <1>4 DEF Windowed, Bounded, Young
<1>5. ASSUME NEW a \in Askers, Ask(a) \/ AskStep(a) PROVE UNCHANGED <<spoken, age, recent, said>>
  BY <1>5 DEF Ask, AskStep, SendQuestion, Register, Receive, TakeFrom, TimerFires, GiveUp, TakeLate
<1>6. ASSUME NEW g \in Guests, SayStep(g) PROVE UNCHANGED <<spoken, age, recent, said>>
  BY <1>6 DEF SayStep, Deliver, Notice
<1> QED
  BY <1>1, <1>2, <1>3, <1>4, <1>5, <1>6 DEF Next

\* What the limiter keeps is what passed within the window, so it refuses nobody too early.
LEMMA Limited == TypeOK /\ Windowed /\ Bounded => RateLimited
<1> SUFFICES ASSUME TypeOK, Windowed, Bounded, NEW g \in Guests
    PROVE  Cardinality(Young(g)) <= Burst /\ (~MayPass(g) => Cardinality(Young(g)) = Burst)
  BY DEF RateLimited, Young
<1>1. Young(g) = Kept(g)
  BY DEF Windowed, Young, Kept
<1>2. Cardinality(Young(g)) <= Burst
  BY DEF Bounded
<1>3. Cardinality(Young(g)) \in Nat /\ Burst \in Nat
  <2>1. Young(g) \in SUBSET Texts
    BY DEF TypeOK, Young
  <2> QED
    BY <2>1, TextsFinite, LimitsAssumption
<1> QED
  BY <1>1, <1>2, <1>3 DEF MayPass

\* say.go:20-22, "at most sayBurst messages per sayWindow": of a guest's texts that passed,
\* never more than Burst are younger than the window, and when one is refused, no fewer.
THEOREM BurstLimited == Spec => []RateLimited
<1>1. Init => Windowed /\ Bounded
  BY FS_EmptySet, LimitsAssumption DEF Init, Windowed, Young, Bounded
<1>2. TypeOK /\ Windowed /\ Bounded /\ [Next]_vars => Windowed' /\ Bounded'
  BY WindowStep
<1> QED
  BY <1>1, <1>2, TypeCorrect, Limited, PTL DEF Spec
-----------------------------------------------------------------------------
(* One place for a text *)

\* One of four sets has one element and the others have none.
One(A, B, C, D) ==
  \/ (\E x : A = {x}) /\ B = {} /\ C = {} /\ D = {}
  \/ (\E x : B = {x}) /\ A = {} /\ C = {} /\ D = {}
  \/ (\E x : C = {x}) /\ A = {} /\ B = {} /\ D = {}
  \/ (\E x : D = {x}) /\ A = {} /\ B = {} /\ C = {}

Passed(n) == \E g \in Guests : n \in spoken[g]

Placed(n) ==
  IF Passed(n) THEN One(Handling(n), Holding(n), Replied(n), Noticed(n))
  ELSE Handling(n) = {} /\ Holding(n) = {} /\ Replied(n) = {} /\ Noticed(n) = {}

AllPlaced == \A n \in Texts : Placed(n)

LEMMA HandlingAlone ==
  ASSUME NEW n, Placed(n), NEW g \in Handling(n)
  PROVE  Passed(n) /\ Handling(n) = {g} /\ Holding(n) = {} /\ Replied(n) = {} /\ Noticed(n) = {}
BY DEF Placed, One

LEMMA HoldingAlone ==
  ASSUME NEW n, Placed(n), NEW a \in Holding(n)
  PROVE  Passed(n) /\ Holding(n) = {a} /\ Handling(n) = {} /\ Replied(n) = {} /\ Noticed(n) = {}
BY DEF Placed, One

\* A step that changes no place of n.
LEMMA StaysPlaced ==
  ASSUME NEW n, Placed(n), Passed(n)' <=> Passed(n),
         Handling(n)' = Handling(n), Holding(n)' = Holding(n), Replied(n)' = Replied(n), Noticed(n)' = Noticed(n)
  PROVE  Placed(n)'
<1>1. CASE Passed(n)
  <2>1. One(Handling(n), Holding(n), Replied(n), Noticed(n))
    BY <1>1 DEF Placed
  <2>2. One(Handling(n)', Holding(n)', Replied(n)', Noticed(n)')
    BY <2>1 DEF One
  <2> QED
    BY <1>1, <2>2 DEF Placed, One
<1>2. CASE ~Passed(n)
  BY <1>2 DEF Placed
<1> QED
  BY <1>1, <1>2

\* Texts, replies and what is held, as the places see them.
LEMMA HeldText ==
  ASSUME Sound, NEW a \in Askers, NEW n, a \in Holding(n)
  PROVE  chan[a] # << >> /\ Head(chan[a]).n = n
<1>1. PICK i \in DOMAIN chan[a] : chan[a][i].n = n
  BY DEF Holding
<1>2. chan[a] # << >>
  <2>1. DOMAIN << >> = {}
    OBVIOUS
  <2> QED
    BY <1>1, <2>1
<1>3. DOMAIN chan[a] = {1} /\ chan[a][1] = Head(chan[a])
  BY <1>2, ChannelFacts DEF Sound
<1> QED
  BY <1>1, <1>2, <1>3

LEMMA PlacedStep ==
  ASSUME Sound, Windowed, AllPlaced, [Next]_vars
  PROVE  AllPlaced'
<1>0. TypeOK /\ TimeoutNeverHangs /\ InHand
  BY DEF Sound
<1> SUFFICES ASSUME NEW n \in Texts PROVE Placed(n)'
  BY DEF AllPlaced
<1>p. Placed(n)
  BY DEF AllPlaced
<1>1. ASSUME UNCHANGED <<gpc, say, chan, reply, notices, spoken>>,
             \A b \in Askers : apc'[b] = "done" <=> apc[b] = "done"
      PROVE  Placed(n)'
  <2>1. Passed(n)' <=> Passed(n)
    BY <1>1 DEF Passed
  <2>2. Handling(n)' = Handling(n) /\ Replied(n)' = Replied(n) /\ Noticed(n)' = Noticed(n)
    BY <1>1 DEF Handling, Replied, Answered, Noticed
  <2>3. Holding(n)' = Holding(n)
    BY <1>1 DEF Holding
  <2> QED
    BY <1>p, <2>1, <2>2, <2>3, StaysPlaced
<1>2. ASSUME NEW a \in Askers, Receive(a) \/ TakeLate(a) PROVE Placed(n)'
  <2>1. /\ apc[a] \in {"waiting", "expired"} /\ chan[a] # << >> /\ UNCHANGED <<gpc, say, notices, spoken>>
        /\ apc' = [apc EXCEPT ![a] = "done"] /\ reply' = [reply EXCEPT ![a] = Head(chan[a])]
        /\ chan' = [chan EXCEPT ![a] = Tail(chan[a])]
    BY <1>2 DEF Receive, TakeLate, TakeFrom, Return
  <2>2. Head(chan[a]) \in Text /\ DOMAIN chan[a] = {1} /\ chan[a][1] = Head(chan[a])
    BY <1>0, <2>1, ChannelFacts
  <2>3. /\ reply' \in [Askers -> Text \cup {None, NoAnswer}] /\ reply'[a] = Head(chan[a])
        /\ \A b \in Askers : b # a => reply'[b] = reply[b]
    BY <1>0, <2>1, <2>2 DEF TypeOK
  <2>4. apc'[a] = "done" /\ \A b \in Askers : b # a => apc'[b] = apc[b] /\ chan'[b] = chan[b]
    BY <1>0, <2>1 DEF TypeOK
  <2>5. reply[a] = None /\ a \notin Answered /\ a \in Answered'
    BY <1>0, <2>1, <2>2, <2>3, ReplyAssumption DEF InHand, Answered
  <2>6. Handling(n)' = Handling(n) /\ Noticed(n)' = Noticed(n) /\ (Passed(n)' <=> Passed(n))
    BY <2>1 DEF Handling, Noticed, Passed
  <2>7. Holding(n)' = Holding(n) \ {a}
    BY <2>4 DEF Holding
  <2>8. \A b \in Askers : b # a => (b \in Replied(n)' <=> b \in Replied(n))
    BY <2>3 DEF Replied, Answered
  <2>9. CASE Head(chan[a]).n = n
    <3>1. a \in Holding(n)
      BY <2>1, <2>2, <2>9 DEF Holding
    <3>2. Passed(n) /\ Holding(n) = {a} /\ Handling(n) = {} /\ Replied(n) = {} /\ Noticed(n) = {}
      BY <1>p, <3>1, HoldingAlone
    <3>3. Replied(n)' = {a}
      <4>1. a \in Replied(n)'
        BY <2>3, <2>5, <2>9 DEF Replied
      <4>2. Replied(n)' \subseteq Askers
        BY DEF Replied, Answered
      <4> QED
        BY <2>8, <3>2, <4>1, <4>2
    <3>4. Passed(n)' /\ Holding(n)' = {} /\ Handling(n)' = {} /\ Noticed(n)' = {}
      BY <2>6, <2>7, <3>2
    <3> QED
      BY <3>3, <3>4 DEF Placed, One
  <2>10. CASE Head(chan[a]).n # n
    <3>1. a \notin Holding(n)
      BY <2>10, HeldText
    <3>2. a \notin Replied(n) /\ a \notin Replied(n)'
      BY <2>3, <2>5, <2>10 DEF Replied
    <3>3. Replied(n)' = Replied(n)
      <4>1. Replied(n)' \subseteq Askers /\ Replied(n) \subseteq Askers
        BY DEF Replied, Answered
      <4> QED
        BY <2>8, <3>2, <4>1
    <3> QED
      BY <1>p, <2>6, <2>7, <3>1, <3>3, StaysPlaced
  <2> QED
    BY <2>9, <2>10
<1>3. ASSUME NEW a \in Askers, GiveUp(a) PROVE Placed(n)'
  <2>1. /\ apc[a] = "expired" /\ UNCHANGED <<gpc, say, chan, notices, spoken>>
        /\ apc' = [apc EXCEPT ![a] = "done"] /\ reply' = [reply EXCEPT ![a] = NoAnswer]
    BY <1>3 DEF GiveUp, Return
  <2>2. chan[a] = << >>
    <3>1. PICK i \in DOMAIN waiters : waiters[i] = a
      BY <1>3 DEF GiveUp
    <3> QED
      BY <1>0, <3>1 DEF TimeoutNeverHangs, ToSet
  <2>3. /\ apc'[a] = "done" /\ reply'[a] = NoAnswer /\ reply[a] = None
        /\ \A b \in Askers : b # a => apc'[b] = apc[b] /\ reply'[b] = reply[b]
    BY <1>0, <2>1 DEF TypeOK, InHand
  <2>4. Answered' = Answered /\ a \notin Answered
    BY <2>3 DEF Answered
  <2>5. Handling(n)' = Handling(n) /\ Noticed(n)' = Noticed(n) /\ (Passed(n)' <=> Passed(n))
    BY <2>1 DEF Handling, Noticed, Passed
  <2>6. Replied(n)' = Replied(n)
    BY <2>3, <2>4 DEF Replied, Answered
  <2>7. Holding(n)' = Holding(n)
    <3>1. a \notin Holding(n)
      BY <2>2, HeldText
    <3>2. Holding(n)' = Holding(n) \ {a}
      BY <2>1, <2>3 DEF Holding
    <3> QED
      BY <3>1, <3>2
  <2> QED
    BY <1>p, <2>5, <2>6, <2>7, StaysPlaced
<1>4. ASSUME NEW g \in Guests, Deliver(g), waiters = << >> PROVE Placed(n)'
  <2>1. gpc[g] = "deliver" /\ gpc' = [gpc EXCEPT ![g] = "notice"] /\ UNCHANGED <<apc, say, chan, reply, notices, spoken>>
    BY <1>4 DEF Deliver
  <2>2. Handling(n)' = Handling(n)
    BY <1>0, <2>1 DEF Handling, TypeOK
  <2>3. Holding(n)' = Holding(n) /\ Replied(n)' = Replied(n) /\ Noticed(n)' = Noticed(n) /\ (Passed(n)' <=> Passed(n))
    BY <2>1 DEF Holding, Replied, Answered, Noticed, Passed
  <2> QED
    BY <1>p, <2>2, <2>3, StaysPlaced
<1>5. ASSUME NEW g \in Guests, Deliver(g), waiters # << >> PROVE Placed(n)'
  <2> DEFINE h == Head(waiters)
  <2>1. h \in Askers /\ h \in ToSet(waiters) /\ chan[h] = << >>
    BY <1>0, <1>5, HeadFacts
  <2>2. /\ gpc[g] = "deliver" /\ gpc' = [gpc EXCEPT ![g] = "idle"] /\ say' = [say EXCEPT ![g] = None]
        /\ chan' = [chan EXCEPT ![h] = Append(chan[h], say[g])] /\ UNCHANGED <<apc, reply, notices, spoken>>
    BY <1>5 DEF Deliver
  <2> HIDE DEF h
  <2>3. apc[h] # "done" /\ say[g] \in Text
    BY <1>0, <2>1, <2>2 DEF TimeoutNeverHangs, InHand
  <2>4. chan'[h] = Append(<< >>, say[g]) /\ \A b \in Askers : b # h => chan'[b] = chan[b]
    BY <1>0, <2>1, <2>2 DEF TypeOK
  <2>5. DOMAIN chan'[h] = {1} /\ chan'[h][1] = say[g]
    BY <2>3, <2>4, Filled
  <2>6. h \notin Holding(n)
    BY <2>1, HeldText
  <2>7. \A b \in Askers : b # h => (b \in Holding(n)' <=> b \in Holding(n))
    BY <2>2, <2>4 DEF Holding
  <2>8. h \in Holding(n)' <=> say[g].n = n
    BY <2>1, <2>2, <2>3, <2>5 DEF Holding
  <2>9. Handling(n)' = Handling(n) \ {g}
    BY <1>0, <2>2 DEF Handling, TypeOK
  <2>10. Replied(n)' = Replied(n) /\ Noticed(n)' = Noticed(n) /\ (Passed(n)' <=> Passed(n))
    BY <2>2 DEF Replied, Answered, Noticed, Passed
  <2>11. Holding(n)' \subseteq Askers /\ Holding(n) \subseteq Askers
    BY DEF Holding
  <2>12. g \in Handling(n) <=> say[g].n = n
    BY <2>2 DEF Handling
  <2>13. CASE say[g].n = n
    <3>1. Passed(n) /\ Handling(n) = {g} /\ Holding(n) = {} /\ Replied(n) = {} /\ Noticed(n) = {}
      BY <1>p, <2>12, <2>13, HandlingAlone
    <3>2. Holding(n)' = {h}
      BY <2>1, <2>7, <2>8, <2>11, <2>13, <3>1
    <3>3. Passed(n)' /\ Handling(n)' = {} /\ Replied(n)' = {} /\ Noticed(n)' = {}
      BY <2>9, <2>10, <3>1
    <3> QED
      BY <3>2, <3>3 DEF Placed, One
  <2>14. CASE say[g].n # n
    <3>1. Holding(n)' = Holding(n)
      BY <2>6, <2>7, <2>8, <2>11, <2>14
    <3>2. Handling(n)' = Handling(n)
      BY <2>9, <2>12, <2>14
    <3> QED
      BY <1>p, <2>10, <3>1, <3>2, StaysPlaced
  <2> QED
    BY <2>13, <2>14
<1>6. ASSUME NEW g \in Guests, Notice(g) PROVE Placed(n)'
  <2>1. /\ gpc[g] = "notice" /\ gpc' = [gpc EXCEPT ![g] = "idle"] /\ say' = [say EXCEPT ![g] = None]
        /\ notices' = notices \cup {say[g]} /\ UNCHANGED <<apc, chan, reply, spoken>>
    BY <1>6 DEF Notice
  <2>2. Handling(n)' = Handling(n) \ {g}
    BY <1>0, <2>1 DEF Handling, TypeOK
  <2>3. Holding(n)' = Holding(n) /\ Replied(n)' = Replied(n) /\ (Passed(n)' <=> Passed(n))
    BY <2>1 DEF Holding, Replied, Answered, Passed
  <2>4. g \in Handling(n) <=> say[g].n = n
    BY <2>1 DEF Handling
  <2>5. CASE say[g].n = n
    <3>1. Passed(n) /\ Handling(n) = {g} /\ Holding(n) = {} /\ Replied(n) = {} /\ Noticed(n) = {}
      BY <1>p, <2>4, <2>5, HandlingAlone
    <3>2. Noticed(n)' = {say[g]}
      BY <2>1, <2>5, <3>1 DEF Noticed
    <3>3. Passed(n)' /\ Handling(n)' = {} /\ Holding(n)' = {} /\ Replied(n)' = {}
      BY <2>2, <2>3, <3>1
    <3> QED
      BY <3>2, <3>3 DEF Placed, One
  <2>6. CASE say[g].n # n
    <3>1. Noticed(n)' = Noticed(n)
      BY <2>1, <2>6 DEF Noticed
    <3>2. Handling(n)' = Handling(n)
      BY <2>2, <2>4, <2>6
    <3> QED
      BY <1>p, <2>3, <3>1, <3>2, StaysPlaced
  <2> QED
    BY <2>5, <2>6
<1>7. ASSUME NEW g \in Guests, NEW re \in Askers \cup {None}, Speak(g, re), MayPass(g) PROVE Placed(n)'
  <2>1. /\ gpc[g] = "idle" /\ gpc' = [gpc EXCEPT ![g] = "deliver"] /\ say' = [say EXCEPT ![g] = [n |-> said + 1, re |-> re]]
        /\ spoken' = [spoken EXCEPT ![g] = spoken[g] \cup {said + 1}] /\ UNCHANGED <<apc, chan, reply, notices>>
    BY <1>7 DEF Speak
  <2>2. Holding(n)' = Holding(n) /\ Replied(n)' = Replied(n) /\ Noticed(n)' = Noticed(n)
    BY <2>1 DEF Holding, Replied, Answered, Noticed
  <2>3. /\ gpc'[g] = "deliver" /\ say'[g].n = said + 1 /\ g \notin Handling(n)
        /\ \A f \in Guests : f # g => gpc'[f] = gpc[f] /\ say'[f] = say[f]
    BY <1>0, <2>1 DEF TypeOK, Handling
  <2>4. \A f \in Guests : f # g => (f \in Handling(n)' <=> f \in Handling(n))
    BY <2>3 DEF Handling
  <2>5. g \in Handling(n)' <=> n = said + 1
    BY <2>3 DEF Handling
  <2>6. Handling(n) \subseteq Guests /\ Handling(n)' \subseteq Guests
    BY DEF Handling
  <2>7. Passed(n)' <=> Passed(n) \/ n = said + 1
    BY <1>0, <2>1 DEF Passed, TypeOK
  <2>8. CASE n = said + 1
    <3>1. ~Passed(n)
      BY <1>0, <2>8 DEF Windowed, Passed, TypeOK
    <3>2. Handling(n) = {} /\ Holding(n) = {} /\ Replied(n) = {} /\ Noticed(n) = {}
      BY <1>p, <3>1 DEF Placed
    <3>3. Handling(n)' = {g}
      BY <2>4, <2>5, <2>6, <2>8, <3>2
    <3> QED
      BY <2>2, <2>7, <2>8, <3>2, <3>3 DEF Placed, One
  <2>9. CASE n # said + 1
    <3>1. Handling(n)' = Handling(n)
      BY <2>3, <2>4, <2>5, <2>6, <2>9
    <3>2. Passed(n)' <=> Passed(n)
      BY <2>7, <2>9
    <3> QED
      BY <1>p, <2>2, <3>1, <3>2, StaysPlaced
  <2> QED
    BY <2>8, <2>9
<1>8. ASSUME NEW a \in Askers, Ask(a) \/ SendQuestion(a) \/ Register(a) \/ TimerFires(a)
      PROVE  /\ UNCHANGED <<gpc, say, chan, reply, notices, spoken>>
             /\ \A b \in Askers : apc'[b] = "done" <=> apc[b] = "done"
  BY <1>0, <1>8 DEF Ask, SendQuestion, Register, TimerFires, TypeOK
<1>9. ASSUME \/ \E g \in Guests, re \in Askers \cup {None} : Speak(g, re) /\ ~MayPass(g)
             \/ Tick \/ UNCHANGED vars
      PROVE  UNCHANGED <<apc, gpc, say, chan, reply, notices, spoken>>
  BY <1>9 DEF Speak, Tick
<1> QED
  BY <1>1, <1>2, <1>3, <1>4, <1>5, <1>6, <1>7, <1>8, <1>9 DEF Next, AskStep, SayStep

LEMMA PlacesCounted ==
  ASSUME NEW n, Placed(n)
  PROVE  Cardinality(Places(n)) = IF Passed(n) THEN 1 ELSE 0
<1>1. CASE ~Passed(n)
  <2>1. Places(n) = {}
    BY <1>1 DEF Placed, Places
  <2> QED
    BY <1>1, <2>1, FS_EmptySet
<1>2. CASE Passed(n)
  <2>1. One(Handling(n), Holding(n), Replied(n), Noticed(n))
    BY <1>2 DEF Placed
  <2>2. \E p : Places(n) = {p}
    <3>1. ASSUME NEW x, Handling(n) = {x}, Holding(n) = {}, Replied(n) = {}, Noticed(n) = {}
          PROVE  Places(n) = {<<"handler", x>>}
      BY <3>1 DEF Places
    <3>2. ASSUME NEW x, Holding(n) = {x}, Handling(n) = {}, Replied(n) = {}, Noticed(n) = {}
          PROVE  Places(n) = {<<"channel", x>>}
      BY <3>2 DEF Places
    <3>3. ASSUME NEW x, Replied(n) = {x}, Handling(n) = {}, Holding(n) = {}, Noticed(n) = {}
          PROVE  Places(n) = {<<"reply", x>>}
      BY <3>3 DEF Places
    <3>4. ASSUME NEW x, Noticed(n) = {x}, Handling(n) = {}, Holding(n) = {}, Replied(n) = {}
          PROVE  Places(n) = {<<"notice", x>>}
      BY <3>4 DEF Places
    <3> QED
      BY <2>1, <3>1, <3>2, <3>3, <3>4, Zenon DEF One
  <2> QED
    BY <1>2, <2>2, FS_Singleton
<1> QED
  BY <1>1, <1>2

\* From the beginning on, each text has one place.
LEMMA PlacedAlways == Spec => [](Sound /\ AllPlaced)
<1>1. Init => Windowed /\ AllPlaced
  <2> SUFFICES ASSUME Init PROVE Windowed /\ AllPlaced
    OBVIOUS
  <2>1. Windowed
    BY DEF Init, Windowed, Young
  <2>2. ASSUME NEW n \in Texts PROVE Placed(n)
    <3>1. ~Passed(n) /\ Handling(n) = {} /\ Replied(n) = {} /\ Noticed(n) = {}
      BY DEF Init, Passed, Handling, Replied, Answered, Noticed
    <3>2. Holding(n) = {}
      <4>1. DOMAIN << >> = {}
        OBVIOUS
      <4> QED
        BY <4>1 DEF Init, Holding
    <3> QED
      BY <3>1, <3>2 DEF Placed
  <2> QED
    BY <2>1, <2>2 DEF AllPlaced
<1>2. Init => Bounded
  <2>1. \A g \in Guests : Init => Young(g) = {}
    BY DEF Init, Young
  <2> QED
    BY <2>1, FS_EmptySet, LimitsAssumption DEF Bounded
<1>3. Sound /\ Windowed /\ Bounded /\ AllPlaced /\ [Next]_vars => Windowed' /\ Bounded' /\ AllPlaced'
  BY WindowStep, PlacedStep DEF Sound
<1> QED
  BY <1>1, <1>2, <1>3, SoundAlways, PTL DEF Spec

\* onSay and answers: a text that passed the limiter is in one place: on its way, one
\* asker's answer or a notice, also when the asker's timer fires as it is delivered.
THEOREM TextsKept == Spec => []NoTextLost
<1>1. AllPlaced => NoTextLost
  BY PlacesCounted DEF AllPlaced, NoTextLost, Passed
<1> QED
  BY <1>1, PlacedAlways, PTL
-----------------------------------------------------------------------------
(* Refinement: Answers implements Questions.  Register poses a question,   *)
(* Deliver answers one or makes a remark, GiveUp lets one lapse; the other *)
(* steps leave what Questions sees alone.                                  *)

\* The instance has its own copy of the community modules' operators.
LEMMA SameQueues ==
  /\ \A s : Q!ToSet(s) = ToSet(s)
  /\ \A s, i : Q!RemoveAt(s, i) = RemoveAt(s, i)
BY DEF Q!ToSet, ToSet, Q!RemoveAt, RemoveAt

LEMMA InitPromises == Init => Q!Init
BY DEF Init, Q!Init, QOutcome, QRemarks

\* A text in the hands of a handler that has not delivered it was nobody's answer
\* and no remark.
LEMMA UndeliveredIsFresh ==
  ASSUME Sound, AllPlaced, NEW g \in Guests, gpc[g] = "deliver"
  PROVE  say[g] \in Text /\ Q!Fresh(say[g])
<1> DEFINE n == say[g].n
<1>1. say[g] \in Text /\ n \in Texts
  BY DEF Sound, InHand, Text
<1>2. g \in Handling(n)
  BY DEF Handling
<1>3. Handling(n) = {g} /\ Holding(n) = {} /\ Replied(n) = {} /\ Noticed(n) = {}
  BY <1>1, <1>2, HandlingAlone DEF AllPlaced
<1>4. ASSUME NEW a \in Askers, QOutcome[a] \notin {None, NoAnswer} PROVE QOutcome[a].n # n
  <2>1. CASE apc[a] = "done" \/ chan[a] = << >>
    BY <1>3, <1>4, <2>1 DEF QOutcome, Replied, Answered
  <2>2. CASE apc[a] # "done" /\ chan[a] # << >>
    <3>1. QOutcome[a] = Head(chan[a]) /\ DOMAIN chan[a] = {1} /\ chan[a][1] = Head(chan[a])
      BY <2>2, ChannelFacts DEF QOutcome, Sound
    <3> QED
      BY <1>3, <2>2, <3>1 DEF Holding
  <2> QED
    BY <2>1, <2>2
<1>5. ASSUME NEW r \in QRemarks PROVE r.n # n
  <2>1. CASE r \in notices
    BY <1>3, <2>1 DEF Noticed
  <2>2. ASSUME NEW h \in Guests, gpc[h] = "notice", r = say[h] PROVE r.n # n
    BY <1>3, <2>2 DEF Handling
  <2> QED
    BY <2>1, <2>2 DEF QRemarks
<1> QED
  BY <1>1, <1>4, <1>5 DEF Q!Fresh

\* What makes an outcome or a remark.
LEMMA OutcomeStays ==
  ASSUME chan' = chan, reply' = reply, \A b \in Askers : apc'[b] = "done" <=> apc[b] = "done"
  PROVE  QOutcome' = QOutcome
BY DEF QOutcome

LEMMA RemarksStay ==
  ASSUME notices' = notices,
         \A h \in Guests : gpc[h] = "notice" <=> gpc'[h] = "notice",
         \A h \in Guests : gpc[h] = "notice" => say'[h] = say[h]
  PROVE  QRemarks' = QRemarks
BY DEF QRemarks

LEMMA StepPromises ==
  ASSUME Sound, AllPlaced, [Next]_vars
  PROVE  [Q!Next]_(Q!vars)
<1>0. TypeOK /\ TimeoutNeverHangs /\ InHand
  BY DEF Sound
<1>s. ASSUME UNCHANGED <<waiters, QOutcome, QRemarks>> PROVE [Q!Next]_(Q!vars)
  BY <1>s DEF Q!vars
<1>1. ASSUME NEW a \in Askers, Register(a) PROVE Q!Next
  <2>1. /\ apc[a] = "sending" /\ waiters' = Append(waiters, a) /\ apc' = [apc EXCEPT ![a] = "waiting"]
        /\ UNCHANGED <<chan, reply, gpc, say, notices>>
    BY <1>1 DEF Register
  <2>2. a \notin Q!ToSet(waiters) /\ QOutcome[a] = None
    BY <1>0, <2>1, SameQueues DEF TimeoutNeverHangs, InHand, QOutcome
  <2>3. \A b \in Askers : apc'[b] = "done" <=> apc[b] = "done"
    BY <1>0, <2>1 DEF TypeOK
  <2>4. QOutcome' = QOutcome /\ QRemarks' = QRemarks
    BY <2>1, <2>3, OutcomeStays, RemarksStay
  <2> QED
    BY <2>1, <2>2, <2>4 DEF Q!Next, Q!Pose
<1>2. ASSUME NEW a \in Askers, Receive(a) \/ TakeLate(a) PROVE UNCHANGED <<waiters, QOutcome, QRemarks>>
  <2>1. /\ apc[a] \in {"waiting", "expired"} /\ chan[a] # << >> /\ UNCHANGED <<waiters, gpc, say, notices>>
        /\ apc' = [apc EXCEPT ![a] = "done"] /\ reply' = [reply EXCEPT ![a] = Head(chan[a])]
        /\ chan' = [chan EXCEPT ![a] = Tail(chan[a])]
    BY <1>2 DEF Receive, TakeLate, TakeFrom, Return
  <2>2. \A b \in Askers : QOutcome'[b] = QOutcome[b]
    BY <1>0, <2>1 DEF QOutcome, TypeOK
  <2>3. QOutcome' = QOutcome
    BY <2>2 DEF QOutcome
  <2> QED
    BY <2>1, <2>3, RemarksStay
<1>3. ASSUME NEW a \in Askers, GiveUp(a) PROVE Q!Next
  <2>1. PICK i \in DOMAIN waiters : waiters[i] = a /\ waiters' = RemoveAt(waiters, i)
    BY <1>3 DEF GiveUp
  <2>2. /\ apc[a] = "expired" /\ UNCHANGED <<chan, gpc, say, notices>> /\ apc' = [apc EXCEPT ![a] = "done"]
        /\ reply' = [reply EXCEPT ![a] = NoAnswer]
    BY <1>3 DEF GiveUp, Return
  <2>3. \A b \in Askers : QOutcome'[b] = IF b = a THEN NoAnswer ELSE QOutcome[b]
    BY <1>0, <2>2 DEF QOutcome, TypeOK
  <2>4. QOutcome' = [QOutcome EXCEPT ![waiters[i]] = NoAnswer]
    BY <2>1, <2>3 DEF QOutcome
  <2>5. QRemarks' = QRemarks
    BY <2>2, RemarksStay
  <2> QED
    BY <2>1, <2>4, <2>5, SameQueues DEF Q!Next, Q!Lapse
<1>4. ASSUME NEW g \in Guests, Deliver(g), waiters # << >> PROVE Q!Next
  <2> DEFINE h == Head(waiters)
  <2>1. h \in Askers /\ h \in ToSet(waiters) /\ chan[h] = << >>
    BY <1>0, <1>4, HeadFacts
  <2>2. /\ gpc[g] = "deliver" /\ gpc' = [gpc EXCEPT ![g] = "idle"] /\ say' = [say EXCEPT ![g] = None]
        /\ waiters' = Tail(waiters) /\ chan' = [chan EXCEPT ![h] = Append(chan[h], say[g])]
        /\ UNCHANGED <<apc, reply, notices>>
    BY <1>4 DEF Deliver
  <2>3. say[g] \in Text /\ Q!Fresh(say[g])
    BY <2>2, UndeliveredIsFresh
  <2> HIDE DEF h
  <2>4. chan'[h] = Append(<< >>, say[g]) /\ \A b \in Askers : b # h => chan'[b] = chan[b]
    BY <1>0, <2>1, <2>2 DEF TypeOK
  <2>5. chan'[h] # << >> /\ Head(chan'[h]) = say[g] /\ apc[h] # "done"
    BY <1>0, <2>1, <2>3, <2>4, Filled DEF TimeoutNeverHangs
  <2>6. \A b \in Askers : QOutcome'[b] = IF b = h THEN say[g] ELSE QOutcome[b]
    BY <2>2, <2>4, <2>5 DEF QOutcome
  <2>7. QOutcome' = [QOutcome EXCEPT ![h] = say[g]]
    BY <2>6 DEF QOutcome
  <2>8. QRemarks' = QRemarks
    BY <1>0, <2>2, RemarksStay DEF TypeOK
  <2> QED
    BY <1>4, <2>2, <2>3, <2>7, <2>8 DEF Q!Next, Q!Answer, h
<1>5. ASSUME NEW g \in Guests, Deliver(g), waiters = << >> PROVE Q!Next
  <2>1. gpc[g] = "deliver" /\ gpc' = [gpc EXCEPT ![g] = "notice"] /\ UNCHANGED <<waiters, apc, say, chan, reply, notices>>
    BY <1>5 DEF Deliver
  <2>2. say[g] \in Text /\ Q!Fresh(say[g])
    BY <2>1, UndeliveredIsFresh
  <2>3. \A h \in Guests : gpc'[h] = "notice" <=> gpc[h] = "notice" \/ h = g
    BY <1>0, <2>1 DEF TypeOK
  <2>4. QRemarks' = QRemarks \cup {say[g]}
    BY <2>1, <2>3 DEF QRemarks
  <2>5. QOutcome' = QOutcome
    BY <2>1, OutcomeStays
  <2> QED
    BY <1>5, <2>1, <2>2, <2>4, <2>5 DEF Q!Next, Q!Remark
<1>6. ASSUME NEW g \in Guests, Notice(g) PROVE UNCHANGED <<waiters, QOutcome, QRemarks>>
  <2>1. /\ gpc[g] = "notice" /\ gpc' = [gpc EXCEPT ![g] = "idle"] /\ say' = [say EXCEPT ![g] = None]
        /\ notices' = notices \cup {say[g]} /\ UNCHANGED <<waiters, apc, chan, reply>>
    BY <1>6 DEF Notice
  <2>2. \A h \in Guests : gpc[h] = "notice" <=> gpc'[h] = "notice" \/ h = g
    BY <1>0, <2>1 DEF TypeOK
  <2>3. \A h \in Guests : h # g => say'[h] = say[h]
    BY <1>0, <2>1 DEF TypeOK
  <2>4. gpc'[g] # "notice"
    BY <1>0, <2>1 DEF TypeOK
  <2>5. QRemarks' = QRemarks
    BY <2>1, <2>2, <2>3, <2>4 DEF QRemarks
  <2> QED
    BY <2>1, <2>5, OutcomeStays
<1>7. ASSUME NEW g \in Guests, NEW re \in Askers \cup {None}, Speak(g, re)
      PROVE  UNCHANGED <<waiters, QOutcome, QRemarks>>
  <2>1. gpc[g] = "idle" /\ UNCHANGED <<waiters, apc, chan, reply, notices>>
    BY <1>7 DEF Speak
  <2>2. \/ UNCHANGED <<gpc, say>>
        \/ gpc' = [gpc EXCEPT ![g] = "deliver"] /\ say' = [say EXCEPT ![g] = [n |-> said + 1, re |-> re]]
    BY <1>7 DEF Speak
  <2>3. \A h \in Guests : gpc[h] = "notice" <=> gpc'[h] = "notice"
    BY <1>0, <2>1, <2>2 DEF TypeOK
  <2>4. \A h \in Guests : gpc[h] = "notice" => say'[h] = say[h]
    BY <1>0, <2>1, <2>2 DEF TypeOK
  <2> QED
    BY <2>1, <2>3, <2>4, OutcomeStays, RemarksStay
<1>8. ASSUME NEW a \in Askers, Ask(a) \/ SendQuestion(a) \/ TimerFires(a)
      PROVE  UNCHANGED <<waiters, QOutcome, QRemarks>>
  <2>1. /\ UNCHANGED <<waiters, chan, reply, gpc, say, notices>>
        /\ \A b \in Askers : apc'[b] = "done" <=> apc[b] = "done"
    BY <1>0, <1>8 DEF Ask, SendQuestion, TimerFires, TypeOK
  <2> QED
    BY <2>1, OutcomeStays, RemarksStay
<1>9. ASSUME Tick \/ UNCHANGED vars PROVE UNCHANGED <<waiters, QOutcome, QRemarks>>
  <2>1. UNCHANGED <<waiters, apc, chan, reply, gpc, say, notices>>
    BY <1>9 DEF Tick
  <2> QED
    BY <2>1, OutcomeStays, RemarksStay
<1> QED
  BY <1>s, <1>1, <1>2, <1>3, <1>4, <1>5, <1>6, <1>7, <1>8, <1>9 DEF Next, AskStep, SayStep

\* say.go:51-53: for every number of askers, guests and texts, each question has one
\* outcome, the oldest is answered first, and no text is used twice or shown while
\* somebody waits for one.
THEOREM Refinement == Spec => ImplementsQuestions
<1>1. Init => Q!Init
  BY InitPromises
<1>2. Sound /\ AllPlaced /\ [Next]_vars => [Q!Next]_(Q!vars)
  BY StepPromises
<1> QED
  BY <1>1, <1>2, PlacedAlways, PTL DEF Spec, ImplementsQuestions, Q!Spec
=============================================================================
