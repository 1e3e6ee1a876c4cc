------------------------- MODULE RelaySessionProofs -------------------------
(***************************************************************************)
(* Proofs about RelaySession, for every set of guests, callers and names,  *)
(* however many commands are given and chunks are typed, and wherever the  *)
(* connection is lost.                                                     *)
(***************************************************************************)
EXTENDS RelaySession, RegistryProofs, SequenceTheorems

USE DEF callVars, wireVars, endVars, pastVars

Frames == InputFrames \cup Results

-----------------------------------------------------------------------------
(* Types *)

LEMMA InitTypes == Init => TypeOK
<1> SUFFICES ASSUME Init PROVE TypeOK
  OBVIOUS
<1>1. RegistryTypeOK
  BY NamesAssumption DEF Init, RegistryInit, RegistryTypeOK, NoCommand, Ops
<1>2. cpc[Reader] = "idle" /\ guests = {} /\ cmd[Reader] = NoCommand
  BY ReaderAssumption DEF Init, RegistryInit
<1>3. kpc \in [Callers -> {"idle", "queued", "waiting"}] /\ call \in [Callers -> Orders \cup {NoCall}]
  BY DEF Init
<1>4. \A k \in Callers : kpc[k] = "idle" /\ ctlMu # k
  BY ReaderAssumption DEF Init
<1>5. defaultWritable \in BOOLEAN /\ anyWrite \in BOOLEAN
  BY <1>1 DEF Init, RegistryTypeOK
<1>6. toRelay \in Seq(Orders) /\ toHost \in Seq(InputFrames \cup Results) /\ slot \in Seq(Results) /\ Len(slot) <= 1
  BY DEF Init
<1>7. serving \in 0 .. MaxCalls /\ given \in 0 .. MaxCalls /\ typed \in 0 .. MaxInputs
  BY BoundsAssumption DEF Init
<1>8. linked \in BOOLEAN /\ reading \in BOOLEAN /\ timedOut \in BOOLEAN
  BY DEF Init
<1>9. doomed \subseteq Conns /\ found \subseteq Conns /\ barred \subseteq Conns /\ late \in [Conns -> Nat]
  BY DEF Init
<1> QED
  BY <1>1, <1>2, <1>3, <1>4, <1>5, <1>6, <1>7, <1>8, <1>9, Zenon DEF TypeOK, Init

\* TypeOK in parts, by who changes them.
RegistryPart ==
  /\ RegistryTypeOK
  /\ \A c \in guests : name[c] \in Names /\ pc[c] \notin {"out", "gone"}
  /\ cpc[Reader] \in {"tell", "close", "leave"} => cmd[Reader].who \in Conns
  /\ cpc[Reader] = "reply" => (cmd[Reader].ok <=> cmd[Reader].who \in Conns)
  /\ cpc[Reader] # "idle" => serving # 0

CallPart ==
  /\ kpc \in [Callers -> {"idle", "queued", "waiting"}]
  /\ call \in [Callers -> Orders \cup {NoCall}]
  /\ \A k \in Callers : kpc[k] # "idle" => call[k] \in Orders
  /\ \A k \in Callers : kpc[k] = "waiting" <=> ctlMu = k
  /\ ctlMu \in Callers \cup {None} /\ pending = ctlMu
  /\ granted \subseteq Names /\ anyWrite \in BOOLEAN
  /\ given \in 0 .. MaxCalls /\ timedOut \in BOOLEAN

SlotPart == slot \in Seq(Results) /\ Len(slot) <= 1 /\ (ctlMu = None => slot = << >>)
WirePart == serving \in 0 .. MaxCalls /\ toRelay \in Seq(Orders) /\ toHost \in Seq(Frames) /\ typed \in 0 .. MaxInputs
EndPart ==
  /\ linked \in BOOLEAN /\ reading \in BOOLEAN /\ phase \in {"live", "unlisted", "ended"}
  /\ doomed \subseteq Conns /\ found \subseteq Conns
PastPart == barred \subseteq Conns /\ late \in [Conns -> Nat]

LEMMA Parts ==
  /\ TypeOK <=> RegistryPart /\ CallPart /\ SlotPart /\ WirePart /\ EndPart /\ PastPart
  /\ TypeOK' <=> RegistryPart' /\ CallPart' /\ SlotPart' /\ WirePart' /\ EndPart' /\ PastPart'
<1>1. TypeOK <=> RegistryPart /\ CallPart /\ SlotPart /\ WirePart /\ EndPart /\ PastPart
  BY Zenon DEF TypeOK, RegistryPart, CallPart, SlotPart, WirePart, EndPart, PastPart, Frames
<1> QED
  BY <1>1, PTL

\* What a step does not change keeps its type.
LEMMA KeptParts ==
  /\ RegistryPart /\ UNCHANGED <<registryVars, serving>> => RegistryPart'
  /\ CallPart /\ UNCHANGED <<kpc, call, ctlMu, pending, granted, anyWrite, given, timedOut>> => CallPart'
  /\ SlotPart /\ UNCHANGED <<slot, ctlMu>> => SlotPart'
  /\ WirePart /\ UNCHANGED wireVars => WirePart'
  /\ EndPart /\ UNCHANGED endVars => EndPart'
  /\ PastPart /\ UNCHANGED pastVars => PastPart'
<1>1. RegistryPart /\ UNCHANGED <<registryVars, serving>> => RegistryPart'
  BY Zenon DEF RegistryPart, RegistryTypeOK, registryVars
<1>2. CallPart /\ UNCHANGED <<kpc, call, ctlMu, pending, granted, anyWrite, given, timedOut>> => CallPart'
  BY Zenon DEF CallPart
<1>3. SlotPart /\ UNCHANGED <<slot, ctlMu>> => SlotPart'
  BY Zenon DEF SlotPart
<1>4. WirePart /\ UNCHANGED wireVars => WirePart'
  BY Zenon DEF WirePart
<1>5. EndPart /\ UNCHANGED endVars => EndPart'
  BY Zenon DEF EndPart
<1>6. PastPart /\ UNCHANGED pastVars => PastPart'
  BY Zenon DEF PastPart
<1> QED
  BY <1>1, <1>2, <1>3, <1>4, <1>5, <1>6

LEMMA HandlerTypes ==
  ASSUME RegistryPart, NEW c \in Conns, serving' = serving,
         ReadFlag(c) \/ Greet(c) \/ Warn(c) \/ End(c) \/ Join(c) \/ ReadFrame(c) \/ Input(c) \/ Written(c) \/ Disconnect(c) \/ Drop(c)
  PROVE  RegistryPart'
<1>1. ASSUME Written(c) PROVE RegistryPart'
  BY <1>1 DEF RegistryPart, RegistryTypeOK, Written, Goto
<1>2. ASSUME ReadFlag(c) PROVE RegistryPart'
  BY <1>2 DEF RegistryPart, RegistryTypeOK, ReadFlag, Goto
<1>3. ASSUME Greet(c) PROVE RegistryPart'
  BY <1>3 DEF RegistryPart, RegistryTypeOK, Greet, Goto
<1>4. ASSUME Warn(c) PROVE RegistryPart'
  BY <1>4 DEF RegistryPart, RegistryTypeOK, Warn, Goto
<1>5. ASSUME End(c) PROVE RegistryPart'
  BY <1>5 DEF RegistryPart, RegistryTypeOK, End, Without, Goto
<1>6. ASSUME Join(c) PROVE RegistryPart'
  <2>1. c \notin guests
    BY <1>6 DEF RegistryPart, Join
  <2>2. FreeName(Wanted[c]) \in Names
    BY <2>1, FreeNameFacts DEF RegistryPart
  <2> QED
    BY <1>6, <2>2 DEF RegistryPart, RegistryTypeOK, Join, Goto
<1>7. ASSUME Input(c) PROVE RegistryPart'
  BY <1>7 DEF RegistryPart, RegistryTypeOK, Input, MayType, Goto
<1>8. ASSUME Disconnect(c) PROVE RegistryPart'
  BY <1>8 DEF RegistryPart, RegistryTypeOK, Disconnect
<1>9. ASSUME Drop(c) PROVE RegistryPart'
  BY <1>9 DEF RegistryPart, RegistryTypeOK, Drop, Without
<1>10. ASSUME ReadFrame(c) PROVE RegistryPart'
  BY <1>10 DEF RegistryPart, RegistryTypeOK, ReadFrame, Goto
<1> QED
  BY <1>1, <1>2, <1>3, <1>4, <1>5, <1>6, <1>7, <1>8, <1>9, <1>10

LEMMA CommandStepTypes ==
  ASSUME RegistryPart, serving' = serving, CommandStep(Reader)
  PROVE  RegistryPart'
<1>0. Reader \in Controllers /\ RegistryTypeOK
  BY ReaderAssumption DEF RegistryPart
<1>1. CASE TellGuest(Reader)
  <2>1. Finish(Reader, TRUE)
    BY <1>1 DEF TellGuest
  <2>2. /\ cpc' \in [Controllers -> {"idle", "tell", "close", "leave", "reply"}]
        /\ cmd' \in [Controllers -> [op : Ops, name : Names \cup {None}, who : Conns \cup {None}, ok : BOOLEAN]]
        /\ cpc'[Reader] = "reply" /\ cmd'[Reader].who = cmd[Reader].who /\ cmd'[Reader].ok = TRUE
    BY <1>0, <2>1, FinishTypes
  <2>3. cmd[Reader].who \in Conns /\ serving # 0
    BY <1>1 DEF TellGuest, RegistryPart
  <2> QED
    BY <1>1, <2>2, <2>3 DEF RegistryPart, RegistryTypeOK, TellGuest
<1>2. CASE CloseGuest(Reader)
  <2>1. cmd[Reader].who \in Conns /\ cpc[Reader] = "close" /\ cpc'[Reader] = "leave" /\ cmd' = cmd
    BY <1>0, <1>2 DEF CloseGuest, RegistryPart, RegistryTypeOK
  <2>2. cpc' \in [Controllers -> {"idle", "tell", "close", "leave", "reply"}] /\ closed' \subseteq Conns
    BY <1>0, <1>2, <2>1 DEF CloseGuest, RegistryTypeOK
  <2> QED
    BY <1>2, <2>1, <2>2 DEF RegistryPart, RegistryTypeOK, CloseGuest
<1>3. CASE KickLeave(Reader)
  <2>1. Finish(Reader, TRUE)
    BY <1>3 DEF KickLeave
  <2>2. /\ cpc' \in [Controllers -> {"idle", "tell", "close", "leave", "reply"}]
        /\ cmd' \in [Controllers -> [op : Ops, name : Names \cup {None}, who : Conns \cup {None}, ok : BOOLEAN]]
        /\ cpc'[Reader] = "reply" /\ cmd'[Reader].who = cmd[Reader].who /\ cmd'[Reader].ok = TRUE
    BY <1>0, <2>1, FinishTypes
  <2>3. guests' \subseteq guests
    BY <1>3 DEF KickLeave, Without
  <2>4. cmd[Reader].who \in Conns /\ serving # 0
    BY <1>3 DEF KickLeave, RegistryPart
  <2> QED
    BY <1>3, <2>2, <2>3, <2>4 DEF RegistryPart, RegistryTypeOK, KickLeave
<1> QED
  BY <1>1, <1>2, <1>3 DEF CommandStep

\* Frames on the wire.
LEMMA FrameTypes ==
  ASSUME TypeOK
  PROVE  /\ \A c \in Conns : InputFrame(c) \in Frames
         /\ cpc[Reader] = "reply" => ResultFrame \in Results
<1>1. \A c \in Conns : InputFrame(c) \in Frames
  BY DEF InputFrame, Frames, InputFrames
<1>2. ASSUME cpc[Reader] = "reply" PROVE ResultFrame \in Results
  <2>1. cmd[Reader] \in [op : Ops, name : Names \cup {None}, who : Conns \cup {None}, ok : BOOLEAN]
    BY ReaderAssumption DEF TypeOK, RegistryTypeOK
  <2>2. serving \in 1 .. MaxCalls /\ (cmd[Reader].ok <=> cmd[Reader].who \in Conns)
    BY <1>2, BoundsAssumption DEF TypeOK
  <2>3. CASE cmd[Reader].ok = TRUE
    BY <2>1, <2>2, <2>3 DEF ResultFrame, Results
  <2>4. CASE cmd[Reader].ok = FALSE
    <3>1. cmd[Reader].who = None
      BY <2>1, <2>2, <2>4
    <3> QED
      BY <2>1, <2>2, <2>4, <3>1 DEF ResultFrame, Results
  <2> QED
    BY <2>1, <2>3, <2>4
<1> QED
  BY <1>1, <1>2

\* What control's return does.
LEMMA ReturnFacts ==
  ASSUME TypeOK, NEW k \in Callers, Return(k), ctlMu \in {k, None}
  PROVE  /\ kpc' \in [Callers -> {"idle", "queued", "waiting"}]
         /\ call' \in [Callers -> Orders \cup {NoCall}]
         /\ \A j \in Callers : kpc'[j] # "idle" => j # k /\ kpc'[j] = kpc[j] /\ call'[j] = call[j] /\ kpc'[j] # "waiting"
         /\ ctlMu' = None /\ pending' = None /\ slot' = << >>
<1>1. kpc \in [Callers -> {"idle", "queued", "waiting"}] /\ call \in [Callers -> Orders \cup {NoCall}]
  BY DEF TypeOK
<1>2. kpc' = [kpc EXCEPT ![k] = "idle"] /\ call' = [call EXCEPT ![k] = NoCall]
  BY DEF Return
<1>3. \A j \in Callers : j # k => kpc[j] # "waiting"
  BY ReaderAssumption DEF TypeOK
<1> QED
  BY <1>1, <1>2, <1>3 DEF Return

LEMMA ReturnTypes ==
  ASSUME TypeOK, NEW k \in Callers, Return(k), ctlMu \in {k, None},
         UNCHANGED <<registryVars, wireVars, endVars, given>>,
         granted' \subseteq Names, anyWrite' \in BOOLEAN, timedOut' \in BOOLEAN, PastPart'
  PROVE  TypeOK'
<1>1. RegistryPart' /\ WirePart' /\ EndPart'
  BY Parts, KeptParts
<1>2. /\ kpc' \in [Callers -> {"idle", "queued", "waiting"}] /\ call' \in [Callers -> Orders \cup {NoCall}]
      /\ \A j \in Callers : kpc'[j] # "idle" => call'[j] \in Orders
      /\ \A j \in Callers : kpc'[j] = "waiting" <=> ctlMu' = j
      /\ ctlMu' = None /\ pending' = None /\ slot' = << >>
  BY ReturnFacts, ReaderAssumption DEF TypeOK
<1>3. given' \in 0 .. MaxCalls
  BY DEF TypeOK
<1>4. CallPart'
  BY <1>2, <1>3, Zenon DEF CallPart
<1>5. SlotPart'
  BY <1>2 DEF SlotPart
<1> QED
  BY <1>1, <1>4, <1>5, Parts

LEMMA GiveTypes ==
  ASSUME TypeOK, NEW k \in Callers, NEW op \in Ops, NEW n \in Names, Give(k, op, n)
  PROVE  TypeOK'
<1>1. given' \in 1 .. MaxCalls /\ given' = given + 1
  BY BoundsAssumption DEF TypeOK, Give
<1>2. [n |-> given + 1, op |-> op, name |-> n] \in Orders
  BY <1>1 DEF Orders
<1>3. /\ kpc' = [kpc EXCEPT ![k] = "queued"] /\ kpc[k] = "idle" /\ ctlMu' = ctlMu
      /\ call' = [call EXCEPT ![k] = [n |-> given + 1, op |-> op, name |-> n]]
  BY DEF Give
<1>4. /\ kpc' \in [Callers -> {"idle", "queued", "waiting"}] /\ call' \in [Callers -> Orders \cup {NoCall}]
      /\ \A j \in Callers : kpc'[j] # "idle" => call'[j] \in Orders
      /\ \A j \in Callers : kpc'[j] = "waiting" <=> ctlMu' = j
  BY <1>2, <1>3 DEF TypeOK
<1>5. CallPart'
  <2>1. given' \in 0 .. MaxCalls
    BY <1>1
  <2>2. /\ ctlMu' \in Callers \cup {None} /\ pending' = ctlMu'
        /\ granted' \subseteq Names /\ anyWrite' \in BOOLEAN /\ timedOut' \in BOOLEAN
    BY Zenon DEF Give, TypeOK
  <2> QED
    BY <1>4, <2>1, <2>2, Zenon DEF CallPart
<1>6. UNCHANGED <<registryVars, serving>> /\ UNCHANGED <<slot, ctlMu>> /\ UNCHANGED wireVars
      /\ UNCHANGED endVars /\ UNCHANGED pastVars
  BY DEF Give
<1> QED
  BY <1>5, <1>6, Parts, KeptParts

LEMMA SendTypes ==
  ASSUME TypeOK, NEW k \in Callers, Send(k)
  PROVE  TypeOK'
<1>1. kpc[k] = "queued" /\ call[k] \in Orders /\ ctlMu = None /\ ctlMu' = k /\ pending' = k /\ slot' = << >>
  BY DEF TypeOK, Send
<1>2. WirePart'
  <2>1. toRelay' = Append(toRelay, call[k]) \/ toRelay' = toRelay
    BY DEF Send
  <2>2. toRelay' \in Seq(Orders)
    <3>1. toRelay \in Seq(Orders) /\ call[k] \in Orders
      BY <1>1, Zenon DEF TypeOK
    <3> DEFINE o == call[k]
    <3>2. o \in Orders /\ (toRelay' = Append(toRelay, o) \/ toRelay' = toRelay)
      BY <2>1, <3>1
    <3> HIDE DEF o
    <3> QED
      BY <3>1, <3>2
  <2>3. UNCHANGED <<serving, toHost, typed>>
    BY DEF Send
  <2> QED
    BY <2>2, <2>3, Parts, Zenon DEF WirePart
<1>3. /\ kpc' \in [Callers -> {"idle", "queued", "waiting"}]
      /\ \A j \in Callers : kpc'[j] # "idle" => call[j] \in Orders
      /\ \A j \in Callers : kpc'[j] = "waiting" <=> j = k
  <2>1. kpc' = [kpc EXCEPT ![k] = "waiting"]
    BY DEF Send
  <2>2. \A j \in Callers : kpc[j] # "waiting"
    BY <1>1, ReaderAssumption DEF TypeOK
  <2> QED
    BY <1>1, <2>1, <2>2 DEF TypeOK
<1>4. CallPart'
  <2>1. UNCHANGED <<call, granted, anyWrite, given, timedOut>>
    BY DEF Send
  <2>2. \A j \in Callers : kpc'[j] = "waiting" <=> ctlMu' = j
    BY <1>1, <1>3
  <2> QED
    BY <1>1, <1>3, <2>1, <2>2, Parts, Zenon DEF CallPart
<1>5. SlotPart'
  BY <1>1, ReaderAssumption DEF SlotPart
<1>6. UNCHANGED <<registryVars, serving>> /\ UNCHANGED endVars /\ UNCHANGED pastVars
  BY DEF Send
<1> QED
  BY <1>2, <1>4, <1>5, <1>6, Parts, KeptParts

LEMMA TakeTypes ==
  ASSUME TypeOK, NEW k \in Callers, Take(k)
  PROVE  TypeOK'
<1>1. Return(k) /\ ctlMu = k /\ slot # << >> /\ kpc[k] = "waiting"
  BY DEF Take, TypeOK
<1>2. call[k] \in Orders /\ call[k].name \in Names
  BY <1>1 DEF TypeOK, Orders
<1>3. granted' \subseteq Names
  BY <1>2 DEF Take, TypeOK, Granted
<1>4. anyWrite' \in BOOLEAN
  BY Zenon DEF Take, TypeOK, AnyWrite
<1>5. barred' \subseteq Conns
  <2>1. Head(slot) \in Results
    BY <1>1 DEF TypeOK
  <2>2. Head(slot).ok => Head(slot).who \in Conns
    BY <2>1 DEF Results
  <2> QED
    BY <2>2, Zenon DEF Take, TypeOK
<1>6. PastPart' /\ timedOut' \in BOOLEAN /\ UNCHANGED <<registryVars, wireVars, endVars, given>>
  BY <1>5, Zenon DEF Take, TypeOK, PastPart
<1> QED
  BY <1>1, <1>3, <1>4, <1>6, ReturnTypes

LEMMA ReadLoopTypes ==
  ASSUME TypeOK, ReadLoop
  PROVE  TypeOK'
<1>1. CASE ReadInput
  <2>1. toHost # << >> /\ Head(toHost) \in Frames /\ toHost' = Tail(toHost) /\ toHost' \in Seq(Frames)
    BY <1>1 DEF ReadInput, TypeOK, Frames
  <2>2. WirePart'
    BY <1>1, <2>1, Parts, Zenon DEF ReadInput, WirePart
  <2>3. PastPart'
    BY <1>1 DEF ReadInput, TypeOK, PastPart
  <2>4. UNCHANGED <<registryVars, serving>> /\ UNCHANGED callVars /\ UNCHANGED endVars
    BY <1>1 DEF ReadInput
  <2> QED
    BY <2>2, <2>3, <2>4, Parts, KeptParts
<1>2. CASE ReadResult
  <2>1. toHost # << >> /\ Head(toHost) \in Frames /\ toHost' = Tail(toHost) /\ toHost' \in Seq(Frames)
    BY <1>2 DEF ReadResult, TypeOK, Frames
  <2>2. WirePart'
    BY <1>2, <2>1, Parts, Zenon DEF ReadResult, WirePart
  <2>3. Head(toHost) \in Results
    BY <1>2, <2>1 DEF ReadResult, Frames, InputFrames, Results
  <2>4. SlotPart'
    <3>1. CASE pending # None /\ slot = << >>
      BY <1>2, <2>3, <3>1 DEF ReadResult, SlotPart, TypeOK
    <3>2. CASE ~(pending # None /\ slot = << >>)
      <4>1. UNCHANGED <<slot, ctlMu>>
        BY <1>2, <3>2, Zenon DEF ReadResult
      <4> QED
        BY <4>1, Parts, KeptParts
    <3> QED
      BY <3>1, <3>2
  <2>5. UNCHANGED <<registryVars, serving>> /\ UNCHANGED endVars /\ UNCHANGED pastVars
        /\ UNCHANGED <<kpc, call, ctlMu, pending, granted, anyWrite, given, timedOut>>
    BY <1>2 DEF ReadResult
  <2> QED
    BY <2>2, <2>4, <2>5, Parts, KeptParts
<1>3. CASE ReadFails
  <2>1. EndPart'
    BY <1>3, Zenon DEF ReadFails, EndPart, TypeOK
  <2>2. UNCHANGED <<registryVars, serving>> /\ UNCHANGED callVars /\ UNCHANGED wireVars /\ UNCHANGED pastVars
    BY <1>3 DEF ReadFails
  <2> QED
    BY <2>1, <2>2, Parts, KeptParts
<1> QED
  BY <1>1, <1>2, <1>3 DEF ReadLoop

\* A frame that arrives at the host, or is lost.
LEMMA ArrivesTypes ==
  ASSUME TypeOK, NEW f \in Frames, Arrives(f), UNCHANGED <<serving, toRelay, typed>>
  PROVE  WirePart'
<1>1. toHost' = Append(toHost, f) \/ toHost' = toHost
  BY DEF Arrives
<1>2. toHost' \in Seq(Frames)
  <2>1. toHost \in Seq(Frames)
    BY DEF TypeOK, Frames
  <2> QED
    BY <1>1, <2>1
<1> QED
  BY <1>2, Parts, Zenon DEF WirePart

\* What ServeCommand does to the reader's command.
LEMMA ServeFacts ==
  ASSUME TypeOK, ServeCommand
  PROVE  /\ toRelay # << >> /\ Head(toRelay) \in Orders /\ toRelay' = Tail(toRelay) /\ toRelay' \in Seq(Orders)
         /\ Head(toRelay).n \in 1 .. MaxCalls /\ Head(toRelay).op \in Ops /\ Head(toRelay).name \in Names
         /\ Command(Reader, Head(toRelay).op, Head(toRelay).name) /\ cpc[Reader] = "idle"
         /\ cmd'[Reader].op = Head(toRelay).op /\ cmd'[Reader].name = Head(toRelay).name
         /\ \/ \E c \in guests : /\ name[c] = Head(toRelay).name
                                 /\ cmd'[Reader].who = c
                                 /\ cpc'[Reader] \in {"tell", "close"}
                                 /\ cpc'[Reader] = "tell" => Head(toRelay).op # "kick"
                                 /\ Head(toRelay).op = "kick" => writable' = writable
                                 /\ Head(toRelay).op # "kick" =>
                                      writable' = [writable EXCEPT ![c] = (Head(toRelay).op = "allow")]
            \/ /\ Head(toRelay).name \notin Taken /\ cmd'[Reader].who = None
               /\ cmd'[Reader].ok = FALSE /\ cpc'[Reader] = "reply" /\ writable' = writable
<1>1. toRelay # << >> /\ toRelay \in Seq(Orders) /\ toRelay' = Tail(toRelay)
      /\ Command(Reader, Head(toRelay).op, Head(toRelay).name)
  BY DEF ServeCommand, TypeOK
<1>2. Head(toRelay) \in Orders /\ toRelay' \in Seq(Orders)
  BY <1>1
<1> DEFINE op == Head(toRelay).op
           n == Head(toRelay).name
<1>3. Head(toRelay).n \in 1 .. MaxCalls /\ op \in Ops /\ n \in Names
  BY <1>2 DEF Orders
<1> HIDE DEF op, n
<1>4. cpc[Reader] = "idle" /\ Reader \in DOMAIN cmd /\ Reader \in DOMAIN cpc
  BY <1>1, ReaderAssumption DEF Command, TypeOK, RegistryTypeOK
<1>5. Command(Reader, op, n)
  BY <1>1 DEF op, n
<1>6. CASE \E c \in guests :
          /\ name[c] = n
          /\ cmd' = [cmd EXCEPT ![Reader] = [op |-> op, name |-> n, who |-> c, ok |-> FALSE]]
          /\ cpc' = [cpc EXCEPT ![Reader] = IF op = "kick" THEN "close" ELSE "tell"]
          /\ IF op = "kick" THEN UNCHANGED <<writable, warned>>
             ELSE /\ writable' = [writable EXCEPT ![c] = (op = "allow")]
                  /\ warned' = IF op = "allow" THEN [warned EXCEPT ![c] = FALSE] ELSE warned
  <2>1. PICK c \in guests :
          /\ name[c] = n
          /\ cmd' = [cmd EXCEPT ![Reader] = [op |-> op, name |-> n, who |-> c, ok |-> FALSE]]
          /\ cpc' = [cpc EXCEPT ![Reader] = IF op = "kick" THEN "close" ELSE "tell"]
          /\ IF op = "kick" THEN UNCHANGED <<writable, warned>>
             ELSE /\ writable' = [writable EXCEPT ![c] = (op = "allow")]
                  /\ warned' = IF op = "allow" THEN [warned EXCEPT ![c] = FALSE] ELSE warned
    BY <1>6
  <2>2. cmd'[Reader] = [op |-> op, name |-> n, who |-> c, ok |-> FALSE] /\ cpc'[Reader] \in {"tell", "close"}
    BY <2>1, <1>4
  <2>3. /\ cmd'[Reader].op = op /\ cmd'[Reader].name = n /\ cmd'[Reader].who = c
        /\ cpc'[Reader] = "tell" => op # "kick"
    BY <1>4, <2>1, <2>2
  <2>4. (op = "kick" => writable' = writable) /\ (op # "kick" => writable' = [writable EXCEPT ![c] = (op = "allow")])
    BY <2>1, Zenon
  <2> QED
    BY <1>1, <1>2, <1>3, <1>4, <2>1, <2>2, <2>3, <2>4 DEF op, n
<1>7. CASE /\ n \notin Taken
           /\ cmd' = [cmd EXCEPT ![Reader] = [op |-> op, name |-> n, who |-> None, ok |-> FALSE]]
           /\ cpc' = [cpc EXCEPT ![Reader] = "reply"]
           /\ UNCHANGED <<writable, warned>>
  <2>1. cmd'[Reader] = [op |-> op, name |-> n, who |-> None, ok |-> FALSE] /\ cpc'[Reader] = "reply"
    BY <1>4, <1>7
  <2>2. cmd'[Reader].op = op /\ cmd'[Reader].name = n /\ cmd'[Reader].who = None /\ cmd'[Reader].ok = FALSE
    BY <2>1
  <2> QED
    BY <1>1, <1>2, <1>3, <1>4, <1>7, <2>1, <2>2 DEF op, n
<1> QED
  BY <1>5, <1>6, <1>7 DEF Command

LEMMA ServeTypes ==
  ASSUME TypeOK, ServeCommand
  PROVE  TypeOK'
<1>1. RegistryPart'
  <2>1. RegistryTypeOK /\ Reader \in Controllers
    BY ReaderAssumption DEF TypeOK
  <2>2. /\ cpc' \in [Controllers -> {"idle", "tell", "close", "leave", "reply"}]
        /\ cmd' \in [Controllers -> [op : Ops, name : Names \cup {None}, who : Conns \cup {None}, ok : BOOLEAN]]
        /\ writable' \in [Conns -> BOOLEAN] /\ warned' \in [Conns -> BOOLEAN]
    BY <2>1, ServeFacts, CommandTypes
  <2>3. UNCHANGED <<defaultWritable, guests, name, closed, pc, hello>>
    BY ServeFacts DEF Command
  <2>4. RegistryTypeOK'
    BY <2>1, <2>2, <2>3, Zenon DEF RegistryTypeOK
  <2>5. guests \subseteq Conns /\ None \notin Conns
    BY <2>1, NamesAssumption DEF RegistryTypeOK
  <2>6. /\ cpc'[Reader] \in {"tell", "close", "leave"} => cmd'[Reader].who \in Conns
        /\ cpc'[Reader] = "reply" => cmd'[Reader].ok = FALSE /\ cmd'[Reader].who = None
    BY <2>5, ServeFacts
  <2>7. serving' # 0
    <3>1. serving' = Head(toRelay).n /\ Head(toRelay).n \in 1 .. MaxCalls
      BY ServeFacts DEF ServeCommand
    <3> QED
      BY <3>1, BoundsAssumption
  <2> QED
    BY <2>3, <2>4, <2>5, <2>6, <2>7, Parts DEF RegistryPart
<1>2. WirePart'
  <2>1. toRelay' \in Seq(Orders) /\ serving' \in 0 .. MaxCalls
    BY ServeFacts, BoundsAssumption DEF ServeCommand
  <2> QED
    BY <2>1, Parts, Zenon DEF ServeCommand, WirePart
<1>3. PastPart'
  BY DEF ServeCommand, TypeOK, PastPart
<1>4. UNCHANGED callVars /\ UNCHANGED endVars
  BY DEF ServeCommand
<1> QED
  BY <1>1, <1>2, <1>3, <1>4, Parts, KeptParts

LEMMA ReplyTypes ==
  ASSUME TypeOK, Reply
  PROVE  TypeOK'
<1>1. cpc[Reader] = "reply" /\ cpc' = [cpc EXCEPT ![Reader] = "idle"] /\ cmd' = [cmd EXCEPT ![Reader] = NoCommand]
  BY DEF Reply, Replied
<1>2. RegistryPart'
  <2>1. cpc'[Reader] = "idle" /\ UNCHANGED <<defaultWritable, guests, name, writable, warned, closed, pc, hello>>
    BY <1>1, ReaderAssumption DEF Reply, Replied, TypeOK, RegistryTypeOK
  <2>2. RegistryTypeOK'
    BY <1>1, <2>1, NoCommandType DEF TypeOK, RegistryTypeOK
  <2> QED
    BY <2>1, <2>2, Parts DEF RegistryPart
<1>3. WirePart'
  <2>1. ResultFrame \in Frames
    BY <1>1, FrameTypes DEF Frames
  <2> QED
    BY <2>1, ArrivesTypes DEF Reply
<1>4. UNCHANGED callVars /\ UNCHANGED endVars /\ UNCHANGED pastVars
  BY DEF Reply
<1> QED
  BY <1>2, <1>3, <1>4, Parts, KeptParts

\* The steps in which neither a call nor a frame nor the command under way moves.
Aside ==
  \/ \E c \in Conns :
       \/ Quiet(HandlerStep(c)) \/ JoinFound(c) \/ TypeChunk(c) \/ Quiet(Disconnect(c)) \/ Quiet(Drop(c))
       \/ LookUp(c) \/ CloseDoomed(c)
  \/ ReadFails \/ Lose \/ Unlist \/ CloseAll
  \/ UNCHANGED vars

LEMMA Steps ==
  ASSUME [Next]_vars
  PROVE  \/ \E k \in Callers, op \in Ops, n \in Names : Give(k, op, n)
         \/ \E k \in Callers : Send(k) \/ SendFails(k) \/ Take(k) \/ Timeout(k)
         \/ ReadInput \/ ReadResult \/ ServeCommand \/ Reply
         \/ Quiet(CommandStep(Reader))
         \/ \E c \in Conns : Forward(c)
         \/ Aside
BY Zenon DEF Next, Control, ReadLoop, HandleHost, HandleGuest, Quiet, Aside

LEMMA AsideTypes ==
  ASSUME TypeOK, Aside
  PROVE  TypeOK'
<1>1. ASSUME NEW c \in Conns, Quiet(HandlerStep(c)) \/ Quiet(Disconnect(c)) \/ Quiet(Drop(c)) PROVE TypeOK'
  <2>1. UNCHANGED callVars /\ UNCHANGED wireVars /\ UNCHANGED endVars /\ UNCHANGED pastVars /\ serving' = serving
    BY <1>1 DEF Quiet
  <2>2. ReadFlag(c) \/ Greet(c) \/ Input(c) \/ Warn(c) \/ End(c) \/ Disconnect(c) \/ Drop(c)
    BY <1>1 DEF Quiet, HandlerStep
  <2>3. RegistryPart'
    BY <2>1, <2>2, HandlerTypes, Parts
  <2> QED
    BY <2>1, <2>3, Parts, KeptParts
<1>2. ASSUME NEW c \in Conns, JoinFound(c) PROVE TypeOK'
  <2>1. UNCHANGED callVars /\ UNCHANGED wireVars /\ UNCHANGED endVars /\ UNCHANGED pastVars /\ serving' = serving
    BY <1>2 DEF JoinFound, Quiet
  <2>2. RegistryPart'
    BY <1>2, <2>1, HandlerTypes, Parts DEF JoinFound, Quiet
  <2> QED
    BY <2>1, <2>2, Parts, KeptParts
<1>3. ASSUME NEW c \in Conns, TypeChunk(c) PROVE TypeOK'
  <2>1. UNCHANGED callVars /\ UNCHANGED endVars /\ UNCHANGED pastVars /\ serving' = serving
    BY <1>3 DEF TypeChunk
  <2>2. RegistryPart'
    BY <1>3, <2>1, HandlerTypes, Parts DEF TypeChunk
  <2>3. typed' \in 0 .. MaxInputs
    BY <1>3, BoundsAssumption DEF TypeChunk, TypeOK
  <2>4. WirePart'
    BY <1>3, <2>3, Parts, Zenon DEF TypeChunk, WirePart
  <2> QED
    BY <2>1, <2>2, <2>4, Parts, KeptParts
<1>4. ASSUME NEW c \in Conns, LookUp(c) PROVE TypeOK'
  <2>1. UNCHANGED <<registryVars, serving>> /\ UNCHANGED callVars /\ UNCHANGED wireVars /\ UNCHANGED pastVars
    BY <1>4 DEF LookUp
  <2>2. EndPart'
    BY <1>4, Parts DEF LookUp, EndPart
  <2> QED
    BY <2>1, <2>2, Parts, KeptParts
<1>5. ASSUME NEW c \in Conns, CloseDoomed(c) PROVE TypeOK'
  <2>1. UNCHANGED callVars /\ UNCHANGED wireVars /\ UNCHANGED pastVars /\ serving' = serving
    BY <1>5 DEF CloseDoomed
  <2>2. EndPart'
    BY <1>5, Parts DEF CloseDoomed, EndPart
  <2>3. closed' \subseteq Conns
    BY <1>5 DEF CloseDoomed, TypeOK, RegistryTypeOK
  <2>4. RegistryPart'
    BY <1>5, <2>1, <2>3, Parts, Zenon DEF CloseDoomed, RegistryPart, RegistryTypeOK
  <2> QED
    BY <2>1, <2>2, <2>4, Parts, KeptParts
<1>6. ASSUME ReadFails PROVE TypeOK'
  BY <1>6, ReadLoopTypes DEF ReadLoop
<1>7. ASSUME Lose \/ Unlist PROVE TypeOK'
  <2>1. UNCHANGED <<registryVars, serving>> /\ UNCHANGED callVars /\ UNCHANGED wireVars /\ UNCHANGED pastVars
    BY <1>7 DEF Lose, Unlist
  <2>2. EndPart'
    BY <1>7, Parts, Zenon DEF Lose, Unlist, EndPart
  <2> QED
    BY <2>1, <2>2, Parts, KeptParts
<1>8. ASSUME CloseAll PROVE TypeOK'
  <2>1. UNCHANGED callVars /\ UNCHANGED wireVars /\ UNCHANGED pastVars /\ serving' = serving
    BY <1>8 DEF CloseAll
  <2>2. EndPart'
    BY <1>8, Parts DEF CloseAll, EndPart, RegistryPart, RegistryTypeOK
  <2>3. RegistryPart'
    BY <1>8, <2>1, Parts DEF CloseAll, RegistryPart, RegistryTypeOK
  <2> QED
    BY <2>1, <2>2, <2>3, Parts, KeptParts
<1>9. CASE UNCHANGED vars
  <2>1. UNCHANGED <<registryVars, serving>> /\ UNCHANGED callVars /\ UNCHANGED wireVars /\ UNCHANGED endVars /\ UNCHANGED pastVars
    BY <1>9 DEF vars
  <2> QED
    BY <2>1, Parts, KeptParts
<1> QED
  BY <1>1, <1>2, <1>3, <1>4, <1>5, <1>6, <1>7, <1>8, <1>9, Zenon DEF Aside

LEMMA NextTypes == TypeOK /\ [Next]_vars => TypeOK'
<1> SUFFICES ASSUME TypeOK, [Next]_vars PROVE TypeOK'
  OBVIOUS
<1>1. ASSUME NEW k \in Callers, SendFails(k) \/ Timeout(k) PROVE TypeOK'
  <2>1. Return(k) /\ ctlMu \in {k, None}
    BY <1>1 DEF SendFails, Timeout, TypeOK
  <2>2. UNCHANGED <<registryVars, wireVars, endVars, given>> /\ UNCHANGED pastVars /\ UNCHANGED <<granted, anyWrite>>
    BY <1>1 DEF SendFails, Timeout
  <2>3. timedOut' \in BOOLEAN
    BY <1>1, Zenon DEF SendFails, Timeout, TypeOK
  <2>4. granted' \subseteq Names /\ anyWrite' \in BOOLEAN /\ PastPart'
    BY <2>2, Zenon DEF TypeOK, PastPart
  <2> QED
    BY <2>1, <2>2, <2>3, <2>4, ReturnTypes
<1>2. ASSUME Quiet(CommandStep(Reader)) PROVE TypeOK'
  <2>1. UNCHANGED callVars /\ UNCHANGED wireVars /\ UNCHANGED endVars /\ UNCHANGED pastVars /\ serving' = serving
    BY <1>2 DEF Quiet
  <2>2. RegistryPart'
    BY <1>2, <2>1, CommandStepTypes, Parts DEF Quiet
  <2> QED
    BY <2>1, <2>2, Parts, KeptParts
<1>3. ASSUME NEW c \in Conns, Forward(c) PROVE TypeOK'
  <2>1. UNCHANGED callVars /\ UNCHANGED endVars /\ UNCHANGED pastVars /\ serving' = serving
    BY <1>3 DEF Forward
  <2>2. RegistryPart'
    BY <1>3, <2>1, HandlerTypes, Parts DEF Forward
  <2>3. WirePart'
    BY <1>3, FrameTypes, ArrivesTypes DEF Forward
  <2> QED
    BY <2>1, <2>2, <2>3, Parts, KeptParts
<1> QED
  BY <1>1, <1>2, <1>3, GiveTypes, SendTypes, TakeTypes, ReadLoopTypes, ServeTypes, ReplyTypes, AsideTypes, Steps DEF ReadLoop

\* Types, and what the program counters say of calls and commands.
THEOREM TypeCorrect == Spec => []TypeOK
<1>1. Init => TypeOK
  BY InitTypes
<1>2. TypeOK /\ [Next]_vars => TypeOK'
  BY NextTypes
<1> QED
  BY <1>1, <1>2, PTL DEF Spec

-----------------------------------------------------------------------------
(* Calls and their results                                                 *)

Busy == cpc[Reader] # "idle"
IsResult(i) == toHost[i].kind = "result"
IsChunk(i, c) == toHost[i].kind = "input" /\ toHost[i].who = c
Held == slot # << >>

\* Where the command of this number, or its result, may be.
Ordered(n) == \E i \in DOMAIN toRelay : toRelay[i].n = n
Served(n) == Busy /\ serving = n
Answered(n) == \E i \in DOMAIN toHost : IsResult(i) /\ toHost[i].n = n
Arrived(n) == Held /\ Head(slot).n = n
UnderWay(n) == Ordered(n) \/ Served(n) \/ Answered(n) \/ Arrived(n)

\* Numbers are given once, and what waits for ctlMu has not gone out.
Numbered ==
  /\ \A k \in Callers : kpc[k] # "idle" => call[k].n <= given
  /\ \A k, j \in Callers : kpc[k] # "idle" /\ kpc[j] # "idle" /\ call[k].n = call[j].n => k = j
  /\ \A k \in Callers : kpc[k] = "queued" => ~UnderWay(call[k].n)
  /\ \A n \in 1 .. MaxCalls : UnderWay(n) => n <= given

\* The command that a caller waits for is the last one on its way, wherever it is.
LastIs(o) ==
  /\ \A i \in DOMAIN toRelay : toRelay[i].n = o.n => i = Len(toRelay) /\ toRelay[i] = o
  /\ Served(o.n) => toRelay = << >> /\ cmd[Reader].op = o.op /\ cmd[Reader].name = o.name
  /\ \A i \in DOMAIN toHost : IsResult(i) /\ toHost[i].n = o.n =>
       /\ toRelay = << >> /\ ~Busy /\ toHost[i].op = o.op
       /\ \A j \in DOMAIN toHost : IsResult(j) => j <= i
  /\ Arrived(o.n) =>
       /\ toRelay = << >> /\ ~Busy /\ Head(slot).op = o.op
       /\ \A j \in DOMAIN toHost : ~IsResult(j)

Newest == \A k \in Callers, o \in Orders : ctlMu = k /\ call[k] = o => LastIs(o)

\* As long as no call has timed out, what is under way belongs to whoever waits.
Sole ==
  ~timedOut => \A n \in 1 .. MaxCalls : UnderWay(n) => ctlMu # None /\ n = call[ctlMu].n

Flow == Numbered /\ Newest /\ Sole

-----------------------------------------------------------------------------
(* Permissions                                                             *)

\* The relay has executed the command of whoever waits.
Executed == Busy \/ Held \/ \E i \in DOMAIN toHost : IsResult(i)

\* The command under way is not known to have failed.
Hopeful ==
  /\ cpc[Reader] = "reply" => cmd[Reader].ok
  /\ \A i \in DOMAIN toHost : IsResult(i) => toHost[i].ok
  /\ Held => Head(slot).ok

Waits(op, n) == ctlMu # None /\ call[ctlMu].op = op /\ call[ctlMu].name = n

\* Who may type at the relay is granted at the host, or about to be.
GrantedToo ==
  ~timedOut /\ ~defaultWritable =>
    \A c \in guests, n \in Names :
      writable[c] /\ name[c] = n => n \in granted \/ (Waits("allow", n) /\ Hopeful)

\* Whoever the host is about to deny cannot type at the relay any more.
DeniedToo ==
  ~timedOut /\ ~defaultWritable /\ Executed =>
    \A c \in guests, n \in Names : Waits("deny", n) /\ name[c] = n => ~writable[c]

Recheck == (anyWrite <=> defaultWritable \/ granted # {}) /\ GrantedToo /\ DeniedToo

-----------------------------------------------------------------------------
(* Late chunks                                                             *)

NoChunkAfter(c, i) == \A j \in DOMAIN toHost : j > i => ~IsChunk(j, c)

\* At most one chunk of c is still to be read after place i.
Few(c, i) ==
  /\ \A j, l \in DOMAIN toHost : j > i /\ l > i /\ IsChunk(j, c) /\ IsChunk(l, c) => j = l
  /\ pc[c] = "write" => NoChunkAfter(c, i)

ViewOnly(c) == pc[c] # "out" /\ ~writable[c]

\* The relay has denied what the host waits to hear: wherever the news is,
\* at most one chunk of that guest is behind it.
Denied(n, c) ==
  /\ Served(n) /\ cmd[Reader].who = c => ViewOnly(c)
  /\ \A i \in DOMAIN toHost : IsResult(i) /\ toHost[i].n = n /\ toHost[i].who = c => ViewOnly(c) /\ Few(c, i)
  /\ Arrived(n) /\ Head(slot).who = c => ViewOnly(c) /\ Few(c, 0)

DenyInv ==
  \A k \in Callers, n \in 1 .. MaxCalls, c \in Conns :
    ctlMu = k /\ call[k].op = "deny" /\ call[k].n = n => Denied(n, c)

Late(c) ==
  /\ c \notin barred => late[c] = 0
  /\ c \in barred => ViewOnly(c) /\ Few(c, 0) /\ late[c] <= 1
  /\ late[c] = 1 => pc[c] # "write" /\ NoChunkAfter(c, 0)

LateInv == \A c \in Conns : Late(c)

-----------------------------------------------------------------------------
(* How queues move, and what the other steps leave alone                   *)

LEMMA TailAt ==
  ASSUME NEW S, NEW s \in Seq(S), s # << >>
  PROVE  /\ Len(s) \in Nat /\ Len(s) >= 1 /\ DOMAIN s = 1 .. Len(s) /\ Head(s) = s[1] /\ Head(s) \in S
         /\ Tail(s) \in Seq(S) /\ Len(Tail(s)) = Len(s) - 1 /\ DOMAIN Tail(s) = 1 .. (Len(s) - 1)
         /\ \A i \in DOMAIN Tail(s) : i + 1 \in DOMAIN s /\ Tail(s)[i] = s[i + 1]
OBVIOUS

LEMMA AppendAt ==
  ASSUME NEW S, NEW s \in Seq(S), NEW x \in S
  PROVE  /\ Len(s) \in Nat /\ DOMAIN s = 1 .. Len(s)
         /\ Len(Append(s, x)) = Len(s) + 1 /\ DOMAIN Append(s, x) = 1 .. (Len(s) + 1)
         /\ Append(s, x)[Len(s) + 1] = x
         /\ \A i \in DOMAIN s : Append(s, x)[i] = s[i]
OBVIOUS

\* A handler's step makes nobody a typist who was not one, but by the default.
LEMMA HandlerFacts ==
  ASSUME TypeOK, NEW c \in Conns,
         ReadFlag(c) \/ Greet(c) \/ Warn(c) \/ End(c) \/ Join(c) \/ ReadFrame(c) \/ Input(c) \/ Disconnect(c) \/ Drop(c)
  PROVE  /\ UNCHANGED <<defaultWritable, cpc, cmd>>
         /\ \A d \in Conns : ViewOnly(d) => ViewOnly(d)' /\ (pc'[d] = "write" => pc[d] = "write")
         /\ \A d \in guests' : \/ d \in guests /\ name'[d] = name[d] /\ (writable'[d] => writable[d])
                               \/ writable'[d] = defaultWritable
<1>1. CASE ReadFlag(c)
  BY <1>1 DEF ReadFlag, ViewOnly, Goto, TypeOK, RegistryTypeOK
<1>2. CASE Greet(c)
  BY <1>2 DEF Greet, ViewOnly, Goto, TypeOK, RegistryTypeOK
<1>3. CASE Warn(c)
  BY <1>3 DEF Warn, ViewOnly, Goto, TypeOK, RegistryTypeOK
<1>4. CASE End(c)
  BY <1>4 DEF End, ViewOnly, Goto, Without, TypeOK, RegistryTypeOK
<1>5. CASE Join(c)
  BY <1>5 DEF Join, ViewOnly, Goto, TypeOK, RegistryTypeOK
<1>6. CASE ReadFrame(c) \/ Input(c)
  BY <1>6 DEF ReadFrame, Input, MayType, ViewOnly, Goto, TypeOK, RegistryTypeOK
<1>7. CASE Disconnect(c)
  BY <1>7 DEF Disconnect, ViewOnly
<1>8. CASE Drop(c)
  BY <1>8 DEF Drop, Without, ViewOnly
<1> QED
  BY <1>1, <1>2, <1>3, <1>4, <1>5, <1>6, <1>7, <1>8

LEMMA AsideFacts ==
  ASSUME TypeOK, Aside
  PROVE  /\ UNCHANGED <<callVars, toRelay, toHost, serving, defaultWritable, cpc, cmd>> /\ UNCHANGED pastVars
         /\ \A d \in Conns : ViewOnly(d) => ViewOnly(d)' /\ (pc'[d] = "write" => pc[d] = "write")
         /\ \A d \in guests' : \/ d \in guests /\ name'[d] = name[d] /\ (writable'[d] => writable[d])
                               \/ writable'[d] = defaultWritable
<1>1. ASSUME NEW c \in Conns,
             Quiet(HandlerStep(c)) \/ JoinFound(c) \/ TypeChunk(c) \/ Quiet(Disconnect(c)) \/ Quiet(Drop(c))
      PROVE  /\ UNCHANGED <<callVars, toRelay, toHost, serving>> /\ UNCHANGED pastVars
             /\ ReadFlag(c) \/ Greet(c) \/ Warn(c) \/ End(c) \/ Join(c) \/ ReadFrame(c) \/ Input(c) \/ Disconnect(c) \/ Drop(c)
  BY <1>1, Zenon DEF Quiet, HandlerStep, JoinFound, TypeChunk
<1>2. ASSUME CloseAll
      PROVE  /\ UNCHANGED <<callVars, toRelay, toHost, serving, defaultWritable, cpc, cmd>> /\ UNCHANGED pastVars
             /\ UNCHANGED <<name, writable, pc>> /\ guests' = {}
  BY <1>2, Zenon DEF CloseAll
<1>3. CASE \E c \in Conns :
             Quiet(HandlerStep(c)) \/ JoinFound(c) \/ TypeChunk(c) \/ Quiet(Disconnect(c)) \/ Quiet(Drop(c))
  BY <1>1, <1>3, HandlerFacts
<1>4. CASE (\E c \in Conns : LookUp(c) \/ CloseDoomed(c)) \/ ReadFails \/ Lose \/ Unlist \/ UNCHANGED vars
  <2>1. /\ UNCHANGED <<callVars, toRelay, toHost, serving, defaultWritable, cpc, cmd>> /\ UNCHANGED pastVars
        /\ UNCHANGED <<guests, name, writable, pc>>
    BY <1>4, Zenon DEF LookUp, CloseDoomed, ReadFails, Lose, Unlist, vars, registryVars
  <2> QED
    BY <2>1 DEF ViewOnly
<1>5. CASE CloseAll
  BY <1>2, <1>5 DEF ViewOnly
<1> QED
  BY <1>3, <1>4, <1>5, Zenon DEF Aside

-----------------------------------------------------------------------------
(* Names *)

LEMMA NamesStep == TypeOK /\ NamesUnique /\ [Next]_vars => NamesUnique'
<1> SUFFICES ASSUME TypeOK, NamesUnique, [Next]_vars PROVE NamesUnique'
  OBVIOUS
<1>1. CASE \E c \in Conns : Join(c)
  <2>1. PICK c \in Conns : Join(c)
    BY <1>1
  <2>2. c \notin guests
    BY <2>1 DEF Join, TypeOK
  <2>3. FreeName(Wanted[c]) \in Names \ Taken
    BY <2>2, FreeNameFacts DEF TypeOK
  <2>4. \A g \in guests : name'[g] = name[g] /\ name[g] # name'[c]
    BY <2>1, <2>2, <2>3 DEF TypeOK, RegistryTypeOK, Join, Taken
  <2> QED
    BY <2>1, <2>2, <2>4 DEF NamesUnique, Join
<1>2. CASE guests' \subseteq guests /\ name' = name
  BY <1>2 DEF NamesUnique
<1>3. ASSUME NEW c \in Conns,
             ReadFlag(c) \/ Greet(c) \/ Warn(c) \/ End(c) \/ ReadFrame(c) \/ Input(c) \/ Disconnect(c) \/ Drop(c) \/ Written(c)
      PROVE  guests' \subseteq guests /\ name' = name
  BY <1>3 DEF ReadFlag, Greet, Warn, End, ReadFrame, Input, Disconnect, Drop, Written, Without
<1>4. ASSUME CommandStep(Reader) \/ Reply \/ ServeCommand \/ CloseAll
      PROVE  guests' \subseteq guests /\ name' = name
  BY <1>4 DEF CommandStep, TellGuest, CloseGuest, KickLeave, Without, Reply, Replied, ServeCommand, Command, CloseAll
<1>5. ASSUME NEW k \in Callers, NEW op \in Ops, NEW n \in Names,
             Give(k, op, n) \/ Send(k) \/ SendFails(k) \/ Take(k) \/ Timeout(k)
      PROVE  guests' = guests /\ name' = name
  BY <1>5, Zenon DEF Give, Send, SendFails, Take, Timeout, registryVars
<1>6. ASSUME NEW k \in Callers, Send(k) \/ SendFails(k) \/ Take(k) \/ Timeout(k)
      PROVE  guests' = guests /\ name' = name
  BY <1>6, Zenon DEF Send, SendFails, Take, Timeout, registryVars
<1>7. ASSUME ReadInput \/ ReadResult \/ ReadFails \/ Lose \/ Unlist \/ UNCHANGED vars
      PROVE  guests' = guests /\ name' = name
  BY <1>7, Zenon DEF ReadInput, ReadResult, ReadFails, Lose, Unlist, vars, registryVars
<1>8. ASSUME NEW c \in Conns, LookUp(c) \/ CloseDoomed(c) PROVE guests' = guests /\ name' = name
  BY <1>8, Zenon DEF LookUp, CloseDoomed, registryVars
<1> QED
  BY <1>1, <1>2, <1>3, <1>4, <1>5, <1>6, <1>7, <1>8, Steps
     DEF Aside, Quiet, HandlerStep, JoinFound, TypeChunk, Forward

\* Two guests never share a name, through a relay as well.
THEOREM NamesTheorem == Spec => []NamesUnique
<1>1. Init => NamesUnique
  BY DEF Init, RegistryInit, NamesUnique
<1>2. TypeOK /\ NamesUnique /\ [Next]_vars => NamesUnique'
  BY NamesStep
<1> QED
  BY <1>1, <1>2, TypeCorrect, PTL DEF Spec

-----------------------------------------------------------------------------
(* Flow *)

\* What is under way is where it was, or gone; calls and their holder stay.
LEMMA FewerUnderWay ==
  ASSUME Numbered, Sole, UNCHANGED <<kpc, call, ctlMu, given, timedOut>>,
         \A n \in 1 .. MaxCalls : UnderWay(n)' => UnderWay(n),
         \A k \in Callers : kpc[k] # "idle" => call[k].n \in 1 .. MaxCalls
  PROVE  Numbered' /\ Sole'
<1>1. Numbered'
  BY DEF Numbered
<1>2. Sole'
  BY Zenon DEF Sole
<1> QED
  BY <1>1, <1>2

LEMMA LastKept ==
  ASSUME NEW o \in Orders, LastIs(o), UNCHANGED <<slot, toRelay, toHost, serving, cpc, cmd>>
  PROVE  LastIs(o)'
BY Zenon DEF LastIs, Served, Arrived, Busy, Held, IsResult

LEMMA AsideFlow ==
  ASSUME TypeOK, Flow, Aside
  PROVE  Flow'
<1>1. UNCHANGED <<kpc, call, ctlMu, slot, given, timedOut, toRelay, toHost, serving, cpc, cmd>>
  BY AsideFacts
<1>2. \A n : UnderWay(n)' <=> UnderWay(n)
  BY <1>1, Zenon DEF UnderWay, Ordered, Served, Answered, Arrived, Busy, Held, IsResult
<1>3. Numbered' /\ Sole'
  BY <1>1, <1>2, Zenon DEF Flow, Numbered, Sole
<1>4. Newest'
  <2> SUFFICES ASSUME NEW k \in Callers, NEW o \in Orders, ctlMu = k, call[k] = o PROVE LastIs(o)'
    BY <1>1 DEF Newest
  <2>1. LastIs(o)
    BY DEF Flow, Newest
  <2> QED
    BY <1>1, <2>1, LastKept
<1> QED
  BY <1>3, <1>4 DEF Flow

LEMMA GiveFlow ==
  ASSUME TypeOK, Flow, NEW k \in Callers, NEW op \in Ops, NEW n \in Names, Give(k, op, n)
  PROVE  Flow'
<1>1. UNCHANGED <<ctlMu, slot, timedOut, toRelay, toHost, serving, cpc, cmd>>
  BY DEF Give, registryVars
<1>2. /\ kpc' = [kpc EXCEPT ![k] = "queued"] /\ kpc[k] = "idle" /\ given' = given + 1 /\ given' \in 1 .. MaxCalls
      /\ call' = [call EXCEPT ![k] = [n |-> given + 1, op |-> op, name |-> n]]
  BY BoundsAssumption DEF Give, TypeOK
<1>3. /\ call'[k].n = given + 1 /\ kpc'[k] = "queued"
      /\ \A j \in Callers : j # k => call'[j] = call[j] /\ kpc'[j] = kpc[j]
  BY <1>2 DEF TypeOK
<1>4. \A m \in Nat : UnderWay(m)' <=> UnderWay(m)
  BY <1>1, Zenon DEF UnderWay, Ordered, Served, Answered, Arrived, Busy, Held, IsResult
<1>5. ~UnderWay(given + 1)
  BY <1>2 DEF Flow, Numbered, TypeOK
<1>6. ctlMu # k /\ given \in Nat
  BY <1>2 DEF TypeOK
<1>7. \A j \in Callers : kpc[j] # "idle" => call[j].n \in 1 .. MaxCalls
  BY DEF TypeOK, Orders
<1>8. Numbered'
  BY <1>2, <1>3, <1>4, <1>5, <1>6, <1>7, BoundsAssumption DEF Flow, Numbered
<1>9. Newest'
  <2> SUFFICES ASSUME NEW j \in Callers, NEW o \in Orders, ctlMu = j, call'[j] = o PROVE LastIs(o)'
    BY <1>1 DEF Newest
  <2>1. LastIs(o)
    BY <1>3, <1>6 DEF Flow, Newest
  <2> QED
    BY <1>1, <2>1, LastKept
<1>10. Sole'
  <2>1. ctlMu # None => ctlMu \in Callers /\ ctlMu # k
    BY <1>6 DEF TypeOK
  <2>2. ctlMu # None => call'[ctlMu] = call[ctlMu]
    BY <2>1, <1>3
  <2>3. \A m \in 1 .. MaxCalls : m \in Nat
    BY BoundsAssumption
  <2> QED
    BY <1>1, <1>4, <2>2, <2>3, Zenon DEF Flow, Sole
<1> QED
  BY <1>8, <1>9, <1>10 DEF Flow

LEMMA SendFlow ==
  ASSUME TypeOK, Flow, NEW k \in Callers, Send(k)
  PROVE  Flow'
<1>1. PICK o \in Orders : call[k] = o
  BY DEF Send, TypeOK
<1>2. /\ kpc[k] = "queued" /\ ctlMu = None /\ ctlMu' = k /\ slot = << >> /\ slot' = << >>
      /\ toRelay' = Append(toRelay, o) \/ toRelay' = toRelay
      /\ UNCHANGED <<call, given, timedOut, toHost, serving, cpc, cmd>>
  BY <1>1, Zenon DEF Send, TypeOK, registryVars
<1>3. kpc'[k] = "waiting" /\ \A j \in Callers : j # k => kpc'[j] = kpc[j]
  BY DEF Send, TypeOK
<1>4. ~UnderWay(o.n) /\ o.n \in 1 .. MaxCalls /\ o.n <= given
  BY <1>1, <1>2 DEF Flow, Numbered, Orders
<1>5. toRelay \in Seq(Orders)
  BY DEF TypeOK
<1>6. /\ Len(toRelay) \in Nat /\ DOMAIN toRelay = 1 .. Len(toRelay)
      /\ \A i \in DOMAIN toRelay' : \/ i \in DOMAIN toRelay /\ toRelay'[i] = toRelay[i]
                                    \/ i = Len(toRelay') /\ toRelay'[i] = o
  BY <1>2, <1>5, AppendAt
<1>7. \A n : Served(n)' <=> Served(n)
  BY <1>2 DEF Served, Busy
<1>8. \A n : Answered(n)' <=> Answered(n)
  BY <1>2 DEF Answered, IsResult
<1>9. \A n : ~Arrived(n)
  BY <1>2 DEF Arrived, Held
<1>10. \A n : ~Arrived(n)'
  BY <1>2 DEF Arrived, Held
<1>11. \A n : Ordered(n)' => Ordered(n) \/ n = o.n
  BY <1>6 DEF Ordered
<1>12. \A n : UnderWay(n)' => UnderWay(n) \/ n = o.n
  BY <1>7, <1>8, <1>10, <1>11, Zenon DEF UnderWay
<1>13. Numbered'
  <2>1. \A j \in Callers : kpc'[j] # "idle" => kpc[j] # "idle"
    BY <1>2, <1>3
  <2>2. \A j \in Callers : kpc'[j] = "queued" => j # k /\ kpc[j] = "queued"
    BY <1>3
  <2>3. \A j \in Callers : kpc'[j] = "queued" => call[j].n # o.n
    BY <1>1, <1>2, <2>2 DEF Flow, Numbered
  <2> QED
    BY <1>2, <1>4, <1>12, <2>1, <2>2, <2>3 DEF Flow, Numbered
<1>14. LastIs(o)'
  <2>1. ~Served(o.n)' /\ ~Answered(o.n)' /\ ~Arrived(o.n)'
    BY <1>4, <1>7, <1>8, <1>10, Zenon DEF UnderWay
  <2>2. \A i \in DOMAIN toRelay' : toRelay'[i].n = o.n => i = Len(toRelay') /\ toRelay'[i] = o
    BY <1>4, <1>6 DEF UnderWay, Ordered
  <2>3. \A i \in DOMAIN toHost' : ~(IsResult(i)' /\ toHost'[i].n = o.n)
    BY <2>1 DEF Answered
  <2> QED
    BY <2>1, <2>2, <2>3, Zenon DEF LastIs
<1>15. Newest'
  BY <1>1, <1>2, <1>14 DEF Newest
<1>16. Sole'
  <2>1. \A n \in 1 .. MaxCalls : ~timedOut => ~UnderWay(n)
    BY <1>2, Zenon DEF Flow, Sole
  <2>2. ctlMu' # None /\ call'[ctlMu'] = o
    BY <1>1, <1>2, ReaderAssumption
  <2> QED
    BY <1>2, <1>12, <2>1, <2>2, Zenon DEF Sole
<1> QED
  BY <1>13, <1>15, <1>16 DEF Flow

\* The end of a call: nothing comes under way, and nobody waits.
LEMMA ReturnFlow ==
  ASSUME TypeOK, Flow, NEW k \in Callers, Return(k), ctlMu \in {k, None},
         UNCHANGED <<given, toRelay, toHost, serving, cpc, cmd>>,
         timedOut' \/ (~timedOut /\ \A n \in 1 .. MaxCalls : ~Ordered(n) /\ ~Served(n) /\ ~Answered(n))
  PROVE  Flow'
<1>1. /\ \A j \in Callers : kpc'[j] # "idle" => kpc'[j] = kpc[j] /\ call'[j] = call[j]
      /\ ctlMu' = None /\ slot' = << >>
  BY ReturnFacts
<1>2. \A n : Served(n)' <=> Served(n)
  BY DEF Served, Busy
<1>3. \A n : Answered(n)' <=> Answered(n)
  BY DEF Answered, IsResult
<1>4. \A n : Ordered(n)' <=> Ordered(n)
  BY DEF Ordered
<1>5. \A n : ~Arrived(n)'
  BY <1>1 DEF Arrived, Held
<1>6. \A n : UnderWay(n)' => Ordered(n) \/ Served(n) \/ Answered(n)
  BY <1>2, <1>3, <1>4, <1>5, Zenon DEF UnderWay
<1>7. \A n : UnderWay(n)' => UnderWay(n)
  BY <1>6, Zenon DEF UnderWay
<1>8. Numbered'
  BY <1>1, <1>7 DEF Flow, Numbered
<1>9. Newest'
  BY <1>1, ReaderAssumption DEF Newest
<1>10. Sole'
  BY <1>6, Zenon DEF Sole
<1> QED
  BY <1>8, <1>9, <1>10 DEF Flow

\* When the result of the newest command is there, nothing else is under way.
LEMMA OwnAlone ==
  ASSUME TypeOK, Flow, NEW k \in Callers, ctlMu = k, slot # << >>, ~timedOut
  PROVE  /\ Head(slot).n = call[k].n /\ Head(slot).op = call[k].op /\ ~Busy /\ toRelay = << >>
         /\ \A j \in DOMAIN toHost : ~IsResult(j)
<1>1. PICK o \in Orders : call[k] = o
  BY DEF TypeOK
<1>2. Head(slot).n \in 1 .. MaxCalls
  <2>1. Head(slot) \in Results
    BY DEF TypeOK
  <2> QED
    BY <2>1 DEF Results
<1>3. UnderWay(Head(slot).n)
  BY DEF UnderWay, Arrived, Held
<1>4. Head(slot).n = o.n
  BY <1>1, <1>2, <1>3, Zenon DEF Flow, Sole
<1>5. Arrived(o.n) /\ LastIs(o)
  BY <1>1, <1>4 DEF Arrived, Held, Flow, Newest
<1> QED
  BY <1>1, <1>4, <1>5, Zenon DEF LastIs

LEMMA EndOfCallFlow ==
  ASSUME TypeOK, Flow, NEW k \in Callers, SendFails(k) \/ Take(k) \/ Timeout(k)
  PROVE  Flow'
<1>1. CASE SendFails(k)
  <2>1. ctlMu = None /\ Return(k) /\ UNCHANGED <<timedOut, given, toRelay, toHost, serving, cpc, cmd>>
    BY <1>1, Zenon DEF SendFails, registryVars
  <2>2. timedOut \/ \A n \in 1 .. MaxCalls : ~UnderWay(n)
    BY <2>1, Zenon DEF Flow, Sole
  <2>3. timedOut' \/ (~timedOut /\ \A n \in 1 .. MaxCalls : ~Ordered(n) /\ ~Served(n) /\ ~Answered(n))
    BY <2>1, <2>2, Zenon DEF UnderWay
  <2> QED
    BY <2>1, <2>3, ReturnFlow
<1>2. CASE Take(k)
  <2>1. ctlMu = k /\ slot # << >> /\ Return(k) /\ UNCHANGED <<timedOut, given, toRelay, toHost, serving, cpc, cmd>>
    BY <1>2, Zenon DEF Take, registryVars, TypeOK
  <2>2. timedOut \/ \A n \in 1 .. MaxCalls : ~Ordered(n) /\ ~Served(n) /\ ~Answered(n)
    <3> SUFFICES ASSUME ~timedOut PROVE \A n \in 1 .. MaxCalls : ~Ordered(n) /\ ~Served(n) /\ ~Answered(n)
      OBVIOUS
    <3>1. ~Busy /\ toRelay = << >> /\ \A j \in DOMAIN toHost : ~IsResult(j)
      BY <2>1, OwnAlone
    <3> QED
      BY <3>1 DEF Ordered, Served, Answered
  <2>3. timedOut' \/ (~timedOut /\ \A n \in 1 .. MaxCalls : ~Ordered(n) /\ ~Served(n) /\ ~Answered(n))
    BY <2>1, <2>2, Zenon
  <2> QED
    BY <2>1, <2>3, ReturnFlow
<1>3. CASE Timeout(k)
  <2>1. ctlMu = k /\ Return(k) /\ UNCHANGED <<given, toRelay, toHost, serving, cpc, cmd>> /\ timedOut'
    BY <1>3, Zenon DEF Timeout, registryVars, TypeOK
  <2> QED
    BY <2>1, ReturnFlow
<1> QED
  BY <1>1, <1>2, <1>3

\* What a frame that is read, or that arrives, does to the places of the others.
LEMMA ReadAt ==
  ASSUME TypeOK, toHost # << >>, toHost' = Tail(toHost)
  PROVE  /\ Head(toHost) = toHost[1] /\ 1 \in DOMAIN toHost /\ DOMAIN toHost \subseteq Nat \ {0}
         /\ \A i \in DOMAIN toHost' : i \in Nat /\ i + 1 \in DOMAIN toHost /\ toHost'[i] = toHost[i + 1]
<1>1. toHost \in Seq(Frames)
  BY DEF TypeOK, Frames
<1> QED
  BY <1>1, TailAt

LEMMA ArrivesAt ==
  ASSUME TypeOK, NEW f \in Frames, Arrives(f)
  PROVE  /\ DOMAIN toHost \subseteq DOMAIN toHost' /\ \A i \in DOMAIN toHost : toHost'[i] = toHost[i]
         /\ \A i \in DOMAIN toHost' :
              \/ i \in DOMAIN toHost
              \/ toHost'[i] = f /\ i \in Nat /\ \A j \in DOMAIN toHost' : j \in Nat /\ j <= i
         /\ DOMAIN toHost \subseteq Nat \ {0}
<1>1. toHost \in Seq(Frames)
  BY DEF TypeOK, Frames
<1>2. toHost' = Append(toHost, f) \/ toHost' = toHost
  BY DEF Arrives
<1>3. CASE toHost' = toHost
  BY <1>1, <1>3
<1>4. CASE toHost' = Append(toHost, f)
  <2>1. /\ Len(toHost) \in Nat /\ DOMAIN toHost = 1 .. Len(toHost) /\ DOMAIN toHost' = 1 .. (Len(toHost) + 1)
        /\ toHost'[Len(toHost) + 1] = f /\ \A i \in DOMAIN toHost : toHost'[i] = toHost[i]
    BY <1>1, <1>4, AppendAt
  <2> QED
    BY <2>1
<1> QED
  BY <1>2, <1>3, <1>4

LEMMA OrderNumbers == \A o \in Orders : o.n \in 1 .. MaxCalls
BY DEF Orders

\* The holder's call is an order, and calls have their numbers.
LEMMA CallNumbers == TypeOK => \A k \in Callers : kpc[k] # "idle" => call[k].n \in 1 .. MaxCalls
BY OrderNumbers DEF TypeOK

LEMMA ReadInputFlow ==
  ASSUME TypeOK, Flow, ReadInput
  PROVE  Flow'
<1>1. /\ toHost # << >> /\ toHost' = Tail(toHost) /\ Head(toHost).kind = "input"
      /\ UNCHANGED <<kpc, call, ctlMu, slot, given, timedOut, toRelay, serving, cpc, cmd>>
  BY DEF ReadInput, registryVars
<1>2. \A i \in DOMAIN toHost' : i \in Nat /\ i + 1 \in DOMAIN toHost /\ toHost'[i] = toHost[i + 1]
  BY <1>1, ReadAt
<1>3. \A n : Answered(n)' => Answered(n)
  BY <1>2 DEF Answered, IsResult
<1>4. \A n : (Ordered(n)' <=> Ordered(n)) /\ (Served(n)' <=> Served(n)) /\ (Arrived(n)' <=> Arrived(n))
  BY <1>1, Zenon DEF Ordered, Served, Busy, Arrived, Held
<1>5. Numbered' /\ Sole'
  <2>1. \A n \in 1 .. MaxCalls : UnderWay(n)' => UnderWay(n)
    BY <1>3, <1>4, Zenon DEF UnderWay
  <2> QED
    BY <1>1, <2>1, CallNumbers, FewerUnderWay DEF Flow
<1>6. Newest'
  <2> SUFFICES ASSUME NEW k \in Callers, NEW o \in Orders, ctlMu = k, call[k] = o PROVE LastIs(o)'
    BY <1>1 DEF Newest
  <2>1. LastIs(o)
    BY DEF Flow, Newest
  <2>2. \A i \in DOMAIN toHost' : IsResult(i)' /\ toHost'[i].n = o.n =>
          /\ toRelay = << >> /\ ~Busy /\ toHost'[i].op = o.op
          /\ \A j \in DOMAIN toHost' : IsResult(j)' => j <= i
    BY <1>2, <2>1 DEF LastIs, IsResult
  <2>3. Arrived(o.n) => \A j \in DOMAIN toHost' : ~IsResult(j)'
    BY <1>2, <2>1 DEF LastIs, IsResult
  <2>4. Busy' <=> Busy
    BY <1>1 DEF Busy
  <2> QED
    BY <1>1, <1>4, <2>1, <2>2, <2>3, <2>4, Zenon DEF LastIs
<1> QED
  BY <1>5, <1>6 DEF Flow

LEMMA ReadResultFlow ==
  ASSUME TypeOK, Flow, ReadResult
  PROVE  Flow'
<1>1. /\ toHost # << >> /\ toHost' = Tail(toHost) /\ Head(toHost).kind = "result"
      /\ slot' = slot \/ (slot = << >> /\ slot' = <<Head(toHost)>>)
      /\ UNCHANGED <<kpc, call, ctlMu, given, timedOut, toRelay, serving, cpc, cmd>>
  BY Zenon DEF ReadResult, registryVars
<1>2. /\ Head(toHost) = toHost[1] /\ 1 \in DOMAIN toHost /\ IsResult(1)
      /\ \A i \in DOMAIN toHost' : i \in Nat /\ i + 1 \in DOMAIN toHost /\ toHost'[i] = toHost[i + 1]
  BY <1>1, ReadAt DEF IsResult
<1>3. \A n : Answered(n)' => Answered(n)
  BY <1>2 DEF Answered, IsResult
<1>4. \A n : (Ordered(n)' <=> Ordered(n)) /\ (Served(n)' <=> Served(n))
  BY <1>1, Zenon DEF Ordered, Served, Busy
<1>5. \A n : Arrived(n)' => Arrived(n) \/ (Answered(n) /\ toHost[1].n = n /\ slot' = <<toHost[1]>>)
  <2>1. CASE slot' = slot
    BY <2>1 DEF Arrived, Held
  <2>2. CASE slot' = <<Head(toHost)>>
    <3>1. Head(slot') = toHost[1] /\ slot' = <<toHost[1]>>
      BY <1>2, <2>2
    <3> QED
      BY <1>2, <3>1 DEF Arrived, Held, Answered
  <2> QED
    BY <1>1, <2>1, <2>2
<1>6. Numbered' /\ Sole'
  <2>1. \A n \in 1 .. MaxCalls : UnderWay(n)' => UnderWay(n)
    BY <1>3, <1>4, <1>5, Zenon DEF UnderWay
  <2> QED
    BY <1>1, <2>1, CallNumbers, FewerUnderWay DEF Flow
<1>7. Newest'
  <2> SUFFICES ASSUME NEW k \in Callers, NEW o \in Orders, ctlMu = k, call[k] = o PROVE LastIs(o)'
    BY <1>1 DEF Newest
  <2>1. LastIs(o)
    BY DEF Flow, Newest
  <2>2. \A i \in DOMAIN toHost' : IsResult(i)' /\ toHost'[i].n = o.n =>
          /\ toRelay = << >> /\ ~Busy /\ toHost'[i].op = o.op
          /\ \A j \in DOMAIN toHost' : IsResult(j)' => j <= i
    BY <1>2, <2>1 DEF LastIs, IsResult
  <2>3. Busy' <=> Busy
    BY <1>1 DEF Busy
  <2>4. Arrived(o.n)' =>
          toRelay = << >> /\ ~Busy /\ Head(slot').op = o.op /\ \A j \in DOMAIN toHost' : ~IsResult(j)'
    <3>1. CASE Arrived(o.n) /\ slot' = slot
      BY <1>2, <2>1, <3>1 DEF LastIs, IsResult
    <3>2. CASE toHost[1].n = o.n /\ slot' = <<toHost[1]>>
      <4>1. toRelay = << >> /\ ~Busy /\ toHost[1].op = o.op /\ \A j \in DOMAIN toHost : IsResult(j) => j <= 1
        BY <1>2, <2>1, <3>2 DEF LastIs
      <4>2. \A j \in DOMAIN toHost' : ~IsResult(j)'
        <5> SUFFICES ASSUME NEW j \in DOMAIN toHost', toHost'[j].kind = "result" PROVE FALSE
          BY DEF IsResult
        <5>1. j \in Nat /\ j + 1 \in DOMAIN toHost /\ IsResult(j + 1)
          BY <1>2 DEF IsResult
        <5>2. j >= 1
          <6>1. toHost' \in Seq(Frames)
            BY <1>1, TailAt DEF TypeOK, Frames
          <6> QED
            BY <6>1
        <5> QED
          BY <4>1, <5>1, <5>2
      <4> QED
        BY <3>2, <4>1, <4>2
    <3>3. Arrived(o.n)' => (Arrived(o.n) /\ slot' = slot) \/ (toHost[1].n = o.n /\ slot' = <<toHost[1]>>)
      BY <1>1, <1>2, <1>5 DEF Arrived, Held
    <3> QED
      BY <3>1, <3>2, <3>3
  <2> QED
    BY <1>1, <1>4, <2>1, <2>2, <2>3, <2>4, Zenon DEF LastIs
<1> QED
  BY <1>6, <1>7 DEF Flow

LEMMA ServeFlow ==
  ASSUME TypeOK, Flow, ServeCommand
  PROVE  Flow'
<1>1. /\ toRelay # << >> /\ toRelay' = Tail(toRelay) /\ serving' = Head(toRelay).n /\ cpc[Reader] = "idle"
      /\ cmd'[Reader].op = Head(toRelay).op /\ cmd'[Reader].name = Head(toRelay).name
      /\ UNCHANGED <<kpc, call, ctlMu, slot, given, timedOut, toHost>>
  BY ServeFacts DEF ServeCommand
<1>2. /\ Len(toRelay) \in Nat /\ Len(toRelay') = Len(toRelay) - 1 /\ Len(toRelay) >= 1
      /\ DOMAIN toRelay = 1 .. Len(toRelay) /\ Head(toRelay) = toRelay[1]
      /\ \A i \in DOMAIN toRelay' : i \in Nat /\ i + 1 \in DOMAIN toRelay /\ toRelay'[i] = toRelay[i + 1]
  <2>1. toRelay \in Seq(Orders)
    BY DEF TypeOK
  <2> QED
    BY <1>1, <2>1, TailAt
<1>3. \A n : Ordered(n)' => Ordered(n)
  BY <1>2 DEF Ordered
<1>4. \A n : Served(n)' => Ordered(n) /\ toRelay[1].n = n
  BY <1>1, <1>2 DEF Served, Ordered
<1>5. \A n : (Answered(n)' <=> Answered(n)) /\ (Arrived(n)' <=> Arrived(n))
  BY <1>1, Zenon DEF Answered, IsResult, Arrived, Held
<1>6. Numbered' /\ Sole'
  <2>1. \A n \in 1 .. MaxCalls : UnderWay(n)' => UnderWay(n)
    BY <1>3, <1>4, <1>5, Zenon DEF UnderWay
  <2> QED
    BY <1>1, <2>1, CallNumbers, FewerUnderWay DEF Flow
<1>7. Newest'
  <2> SUFFICES ASSUME NEW k \in Callers, NEW o \in Orders, ctlMu = k, call[k] = o PROVE LastIs(o)'
    BY <1>1 DEF Newest
  <2>1. LastIs(o)
    BY DEF Flow, Newest
  <2>2. ~Answered(o.n) /\ ~Arrived(o.n)
    BY <1>1, <2>1 DEF LastIs, Answered
  <2>3. \A i \in DOMAIN toRelay' : toRelay'[i].n = o.n => i = Len(toRelay') /\ toRelay'[i] = o
    BY <1>2, <2>1 DEF LastIs
  <2>4. Served(o.n)' => toRelay' = << >> /\ cmd'[Reader].op = o.op /\ cmd'[Reader].name = o.name
    <3>1. ASSUME Served(o.n)' PROVE toRelay' = << >> /\ cmd'[Reader].op = o.op /\ cmd'[Reader].name = o.name
      <4>1. toRelay[1] = o /\ Len(toRelay) = 1
        BY <1>2, <1>4, <2>1, <3>1 DEF LastIs
      <4>2. toRelay' = << >>
        <5>1. toRelay' \in Seq(Orders) /\ Len(toRelay') = 0
          BY <1>2, <4>1, ServeFacts
        <5> QED
          BY <5>1
      <4> QED
        BY <1>1, <1>2, <4>1, <4>2
    <3> QED
      BY <3>1
  <2>5. \A i \in DOMAIN toHost' : ~(IsResult(i)' /\ toHost'[i].n = o.n)
    BY <1>1, <2>2 DEF Answered, IsResult
  <2>6. ~Arrived(o.n)'
    BY <1>5, <2>2
  <2> QED
    BY <2>3, <2>4, <2>5, <2>6, Zenon DEF LastIs
<1> QED
  BY <1>6, <1>7 DEF Flow

\* What the second half of a command does to its outcome.
LEMMA CommandStepFacts ==
  ASSUME TypeOK, Quiet(CommandStep(Reader))
  PROVE  /\ UNCHANGED <<callVars, wireVars, endVars, pastVars, defaultWritable, name, writable, pc>> /\ guests' \subseteq guests
         /\ Busy /\ Busy' /\ (cpc'[Reader] = "reply" => cmd'[Reader].ok) /\ cmd[Reader].who \in Conns
         /\ cmd'[Reader].op = cmd[Reader].op /\ cmd'[Reader].name = cmd[Reader].name /\ cmd'[Reader].who = cmd[Reader].who
<1>0. Reader \in Controllers /\ RegistryTypeOK
  BY ReaderAssumption DEF TypeOK
<1>1. UNCHANGED <<callVars, wireVars, endVars, pastVars>>
  BY Zenon DEF Quiet
<1>2. CASE TellGuest(Reader) \/ KickLeave(Reader)
  <2>1. Finish(Reader, TRUE) /\ UNCHANGED <<defaultWritable, name, writable, pc>> /\ guests' \subseteq guests
        /\ cpc[Reader] \in {"tell", "leave"}
    BY <1>2 DEF TellGuest, KickLeave, Without
  <2>2. /\ cpc'[Reader] = "reply" /\ cmd'[Reader].op = cmd[Reader].op /\ cmd'[Reader].name = cmd[Reader].name
        /\ cmd'[Reader].who = cmd[Reader].who /\ cmd'[Reader].ok = TRUE
    BY <1>0, <2>1, FinishTypes
  <2>3. cmd[Reader].who \in Conns
    BY <2>1 DEF TypeOK
  <2> QED
    BY <1>1, <2>1, <2>2, <2>3 DEF Busy
<1>3. CASE CloseGuest(Reader)
  <2>1. UNCHANGED <<defaultWritable, guests, name, writable, pc, cmd>> /\ cpc[Reader] = "close" /\ cpc'[Reader] = "leave"
    BY <1>0, <1>3 DEF CloseGuest, RegistryTypeOK
  <2>2. cmd[Reader].who \in Conns
    BY <2>1 DEF TypeOK
  <2> QED
    BY <1>1, <2>1, <2>2 DEF Busy
<1> QED
  BY <1>2, <1>3 DEF Quiet, CommandStep

LEMMA CommandStepFlow ==
  ASSUME TypeOK, Flow, Quiet(CommandStep(Reader))
  PROVE  Flow'
<1>1. /\ UNCHANGED <<kpc, call, ctlMu, slot, given, timedOut, toRelay, toHost, serving>>
      /\ Busy /\ Busy' /\ cmd'[Reader].op = cmd[Reader].op /\ cmd'[Reader].name = cmd[Reader].name
  BY CommandStepFacts
<1>2. \A n : /\ (Ordered(n)' <=> Ordered(n)) /\ (Served(n)' <=> Served(n))
             /\ (Answered(n)' <=> Answered(n)) /\ (Arrived(n)' <=> Arrived(n))
  BY <1>1, Zenon DEF Ordered, Served, Answered, IsResult, Arrived, Held
<1>3. Numbered' /\ Sole'
  <2>1. \A n \in 1 .. MaxCalls : UnderWay(n)' => UnderWay(n)
    BY <1>2, Zenon DEF UnderWay
  <2> QED
    BY <1>1, <2>1, CallNumbers, FewerUnderWay DEF Flow
<1>4. Newest'
  <2> SUFFICES ASSUME NEW k \in Callers, NEW o \in Orders, ctlMu = k, call[k] = o PROVE LastIs(o)'
    BY <1>1 DEF Newest
  <2>1. LastIs(o)
    BY DEF Flow, Newest
  <2> QED
    BY <1>1, <1>2, <2>1, Zenon DEF LastIs, IsResult
<1> QED
  BY <1>3, <1>4 DEF Flow

LEMMA ReplyFlow ==
  ASSUME TypeOK, Flow, Reply
  PROVE  Flow'
<1>1. /\ cpc[Reader] = "reply" /\ Busy /\ ~Busy' /\ Arrives(ResultFrame)
      /\ UNCHANGED <<kpc, call, ctlMu, slot, given, timedOut, toRelay, serving>>
  <2>1. cpc[Reader] = "reply" /\ cpc' = [cpc EXCEPT ![Reader] = "idle"]
    BY DEF Reply, Replied
  <2>2. cpc'[Reader] = "idle"
    BY <2>1, ReaderAssumption DEF TypeOK, RegistryTypeOK
  <2> QED
    BY <2>1, <2>2 DEF Reply, Busy
<1>2. PICK f \in Frames : f = ResultFrame
  BY <1>1, FrameTypes DEF Frames
<1>3. f.n = serving /\ f.op = cmd[Reader].op /\ Arrives(f)
  BY <1>1, <1>2 DEF ResultFrame
<1>4. \A i \in DOMAIN toHost' :
        \/ i \in DOMAIN toHost /\ toHost'[i] = toHost[i]
        \/ toHost'[i] = f /\ i \in Nat /\ \A j \in DOMAIN toHost' : j \in Nat /\ j <= i
  BY <1>3, ArrivesAt
<1>5. \A n : Answered(n)' => Answered(n) \/ Served(n)
  BY <1>1, <1>3, <1>4 DEF Answered, IsResult, Served
<1>6. \A n : (Ordered(n)' <=> Ordered(n)) /\ ~Served(n)' /\ (Arrived(n)' <=> Arrived(n))
  BY <1>1, Zenon DEF Ordered, Served, Arrived, Held
<1>7. Numbered' /\ Sole'
  <2>1. \A n \in 1 .. MaxCalls : UnderWay(n)' => UnderWay(n)
    BY <1>5, <1>6, Zenon DEF UnderWay
  <2> QED
    BY <1>1, <2>1, CallNumbers, FewerUnderWay DEF Flow
<1>8. Newest'
  <2> SUFFICES ASSUME NEW k \in Callers, NEW o \in Orders, ctlMu = k, call[k] = o PROVE LastIs(o)'
    BY <1>1 DEF Newest
  <2>1. LastIs(o)
    BY DEF Flow, Newest
  <2>2. ~Arrived(o.n) /\ ~Answered(o.n)
    BY <1>1, <2>1 DEF LastIs, Answered
  <2>3. ASSUME NEW i \in DOMAIN toHost', IsResult(i)', toHost'[i].n = o.n
        PROVE  /\ toRelay' = << >> /\ toHost'[i].op = o.op
               /\ \A j \in DOMAIN toHost' : IsResult(j)' => j <= i
    <3>1. toHost'[i] = f /\ \A j \in DOMAIN toHost' : j <= i
      BY <1>4, <2>2, <2>3 DEF Answered, IsResult
    <3>2. Served(o.n)
      BY <1>1, <1>3, <2>3, <3>1 DEF Served
    <3> QED
      BY <1>1, <1>3, <2>1, <3>1, <3>2 DEF LastIs
  <2>4. \A i \in DOMAIN toRelay' : toRelay'[i].n = o.n => i = Len(toRelay') /\ toRelay'[i] = o
    BY <1>1, <2>1 DEF LastIs
  <2>5. ~Served(o.n)' /\ ~Arrived(o.n)'
    BY <1>6, <2>2
  <2> QED
    BY <1>1, <2>3, <2>4, <2>5, Zenon DEF LastIs
<1> QED
  BY <1>7, <1>8 DEF Flow

LEMMA ForwardFlow ==
  ASSUME TypeOK, Flow, NEW c \in Conns, Forward(c)
  PROVE  Flow'
<1>1. Arrives(InputFrame(c)) /\ UNCHANGED <<kpc, call, ctlMu, slot, given, timedOut, toRelay, serving, cpc, cmd>>
  BY DEF Forward, Written
<1>2. PICK f \in Frames : f = InputFrame(c) /\ f.kind = "input"
  BY FrameTypes DEF InputFrame
<1>3. \A i \in DOMAIN toHost' : IsResult(i)' => i \in DOMAIN toHost /\ toHost'[i] = toHost[i] /\ IsResult(i)
  BY <1>1, <1>2, ArrivesAt DEF IsResult
<1>4. \A n : Answered(n)' => Answered(n)
  BY <1>3 DEF Answered
<1>5. \A n : (Ordered(n)' <=> Ordered(n)) /\ (Served(n)' <=> Served(n)) /\ (Arrived(n)' <=> Arrived(n))
  BY <1>1, Zenon DEF Ordered, Served, Busy, Arrived, Held
<1>6. Numbered' /\ Sole'
  <2>1. \A n \in 1 .. MaxCalls : UnderWay(n)' => UnderWay(n)
    BY <1>4, <1>5, Zenon DEF UnderWay
  <2> QED
    BY <1>1, <2>1, CallNumbers, FewerUnderWay DEF Flow
<1>7. Newest'
  <2> SUFFICES ASSUME NEW k \in Callers, NEW o \in Orders, ctlMu = k, call[k] = o PROVE LastIs(o)'
    BY <1>1 DEF Newest
  <2>1. LastIs(o)
    BY DEF Flow, Newest
  <2>2. Busy' <=> Busy
    BY <1>1 DEF Busy
  <2>3. \A i \in DOMAIN toHost' : IsResult(i)' /\ toHost'[i].n = o.n =>
          /\ toRelay = << >> /\ ~Busy /\ toHost'[i].op = o.op
          /\ \A j \in DOMAIN toHost' : IsResult(j)' => j <= i
    BY <1>3, <2>1 DEF LastIs
  <2>4. Arrived(o.n) => \A j \in DOMAIN toHost' : ~IsResult(j)'
    BY <1>3, <2>1 DEF LastIs
  <2> QED
    BY <1>1, <1>5, <2>1, <2>2, <2>3, <2>4, Zenon DEF LastIs
<1> QED
  BY <1>6, <1>7 DEF Flow

LEMMA FlowStep == TypeOK /\ Flow /\ [Next]_vars => Flow'
<1> SUFFICES ASSUME TypeOK, Flow, [Next]_vars PROVE Flow'
  OBVIOUS
<1> QED
  BY Steps, GiveFlow, SendFlow, EndOfCallFlow, ReadInputFlow, ReadResultFlow, ServeFlow, ReplyFlow,
     CommandStepFlow, ForwardFlow, AsideFlow

LEMMA InitFlow == Init => Flow
<1> SUFFICES ASSUME Init PROVE Flow
  OBVIOUS
<1>1. /\ toRelay = << >> /\ toHost = << >> /\ slot = << >> /\ ctlMu = None /\ cpc[Reader] = "idle"
      /\ \A k \in Callers : kpc[k] = "idle"
  BY ReaderAssumption DEF Init, RegistryInit
<1>2. \A n : ~UnderWay(n)
  BY <1>1 DEF UnderWay, Ordered, Served, Busy, Answered, Arrived, Held
<1> QED
  BY <1>1, <1>2, ReaderAssumption DEF Flow, Numbered, Newest, Sole

\* A call that takes a result takes its own, as long as no call has timed out:
\* the result carries no number, but until then no other can be under way.
THEOREM OwnResults == Spec => []ResultsMatch
<1>1. Init => Flow
  BY InitFlow
<1>2. TypeOK /\ Flow /\ [Next]_vars => Flow'
  BY FlowStep
<1>3. TypeOK /\ Flow => ResultsMatch
  <2> SUFFICES ASSUME TypeOK, Flow, ~timedOut, NEW k \in Callers, pending = k, slot # << >>
               PROVE  Head(slot).n = call[k].n
    BY DEF ResultsMatch, OwnResult
  <2>1. ctlMu = k
    BY DEF TypeOK
  <2> QED
    BY <2>1, OwnAlone
<1> QED
  BY <1>1, <1>2, <1>3, TypeCorrect, PTL DEF Spec

-----------------------------------------------------------------------------
(* The coarse re-check *)

\* What moves no permission forward, no call and no result.
LEMMA RecheckKept ==
  ASSUME TypeOK, Recheck, UNCHANGED <<granted, anyWrite, timedOut, defaultWritable, ctlMu>>,
         ctlMu # None => call'[ctlMu] = call[ctlMu],
         \A d \in guests' : \/ d \in guests /\ name'[d] = name[d] /\ (writable'[d] => writable[d])
                            \/ writable'[d] = defaultWritable,
         Hopeful => Hopeful', Executed' => Executed
  PROVE  Recheck'
<1>1. \A op, n : Waits(op, n)' <=> Waits(op, n)
  BY DEF Waits
<1>2. GrantedToo'
  <2> SUFFICES ASSUME ~timedOut, ~defaultWritable, NEW c \in guests', NEW n \in Names, writable'[c], name'[c] = n
               PROVE  n \in granted \/ (Waits("allow", n)' /\ Hopeful')
    BY Zenon DEF GrantedToo
  <2>1. c \in guests /\ name[c] = n /\ writable[c]
    OBVIOUS
  <2> QED
    BY <1>1, <2>1, Zenon DEF Recheck, GrantedToo
<1>3. DeniedToo'
  <2> SUFFICES ASSUME ~timedOut, ~defaultWritable, Executed', NEW c \in guests', NEW n \in Names,
                      Waits("deny", n)', name'[c] = n, writable'[c]
               PROVE  FALSE
    BY Zenon DEF DeniedToo
  <2>1. c \in guests /\ name[c] = n /\ writable[c]
    OBVIOUS
  <2> QED
    BY <1>1, <2>1, Zenon DEF Recheck, DeniedToo
<1>4. anyWrite' <=> defaultWritable' \/ granted' # {}
  BY Zenon DEF Recheck
<1> QED
  BY <1>2, <1>3, <1>4 DEF Recheck

\* While nobody waits, nothing is under way.
LEMMA NobodyWaits ==
  ASSUME TypeOK, Flow, ctlMu = None, ~timedOut
  PROVE  ~Executed
<1>1. \A n \in 1 .. MaxCalls : ~UnderWay(n)
  BY Zenon DEF Flow, Sole
<1>2. ~Busy
  <2>1. Busy => serving \in 1 .. MaxCalls
    BY BoundsAssumption DEF Busy, TypeOK
  <2> QED
    BY <1>1, <2>1 DEF UnderWay, Served
<1>3. ASSUME NEW i \in DOMAIN toHost, IsResult(i) PROVE FALSE
  <2>1. toHost[i] \in Frames
    BY DEF TypeOK, Frames
  <2>2. toHost[i].n \in 1 .. MaxCalls
    BY <1>3, <2>1 DEF IsResult, Frames, InputFrames, Results
  <2> QED
    BY <1>1, <1>3, <2>2 DEF UnderWay, Answered
<1>4. ~Held
  BY DEF TypeOK, Held
<1> QED
  BY <1>2, <1>3, <1>4 DEF Executed

LEMMA TakeRecheck ==
  ASSUME TypeOK, Flow, Recheck, NEW k \in Callers, Take(k)
  PROVE  Recheck'
<1>1. ctlMu = k /\ slot # << >> /\ ctlMu' = None /\ UNCHANGED <<timedOut, defaultWritable, guests, name, writable>>
  BY Zenon DEF Take, Return, TypeOK, registryVars
<1> DEFINE op == call[k].op
           n == call[k].name
           ok == Head(slot).ok /\ op \in {"allow", "deny"}
<1>2. /\ ok => granted' = Granted(op, n) /\ anyWrite' = AnyWrite(op, n)
      /\ ~ok => UNCHANGED <<granted, anyWrite>>
  BY Zenon DEF Take
<1>3. n \in Names
  BY <1>1, ReaderAssumption DEF TypeOK, Orders
<1>4. anyWrite' <=> defaultWritable' \/ granted' # {}
  <2>1. anyWrite <=> defaultWritable \/ granted # {}
    BY Zenon DEF Recheck
  <2>2. AnyWrite(op, n) <=> defaultWritable \/ Granted(op, n) # {}
    BY Zenon DEF AnyWrite
  <2>3. CASE ok
    BY <1>1, <1>2, <2>2, <2>3, Zenon
  <2>4. CASE ~ok
    BY <1>1, <1>2, <2>1, <2>4, Zenon
  <2> QED
    BY <2>3, <2>4, Zenon
<1>5. DeniedToo'
  BY <1>1 DEF DeniedToo, Waits
<1>6. GrantedToo'
  <2> SUFFICES ASSUME ~timedOut, ~defaultWritable, NEW c \in guests, NEW m \in Names, writable[c], name[c] = m
               PROVE  m \in granted'
    BY <1>1, Zenon DEF GrantedToo
  <2>1. m \in granted \/ (Waits("allow", m) /\ Hopeful)
    BY Zenon DEF Recheck, GrantedToo
  <2>2. \A l \in Names : Waits("deny", l) => m # l
    <3>1. Executed
      BY <1>1 DEF Executed, Held
    <3> QED
      BY <3>1, Zenon DEF Recheck, DeniedToo
  <2>3. Held /\ (Waits("allow", m) <=> op = "allow" /\ n = m) /\ (Waits("deny", n) <=> op = "deny")
    BY <1>1, ReaderAssumption DEF Held, Waits
  <2>4. CASE ~ok
    <3>1. m \in granted
      BY <2>1, <2>3, <2>4, Zenon DEF Hopeful
    <3> QED
      BY <1>2, <2>4, <3>1
  <2>5. CASE ok
    <3>1. granted' = Granted(op, n) /\ op \in {"allow", "deny"}
      BY <1>2, <2>5
    <3>2. op = "allow" => m \in granted \/ m = n
      BY <2>1, <2>3
    <3>3. op = "deny" => m \in granted /\ m # n
      BY <1>3, <2>1, <2>2, <2>3
    <3> QED
      BY <3>1, <3>2, <3>3 DEF Granted
  <2> QED
    BY <2>4, <2>5
<1> QED
  BY <1>4, <1>5, <1>6 DEF Recheck

\* As long as no call has timed out, the relay executes the command of whoever
\* waits, and its is the only one.
LEMMA OwnOrder ==
  ASSUME TypeOK, Flow, ~timedOut, toRelay # << >>
  PROVE  ctlMu \in Callers /\ Head(toRelay) = call[ctlMu] /\ ~Executed
<1>1. toRelay \in Seq(Orders) /\ Head(toRelay) = toRelay[1] /\ 1 \in DOMAIN toRelay /\ Head(toRelay) \in Orders
  BY TailAt DEF TypeOK
<1>2. Head(toRelay).n \in 1 .. MaxCalls /\ UnderWay(Head(toRelay).n)
  BY <1>1 DEF Orders, UnderWay, Ordered
<1>3. ctlMu # None /\ Head(toRelay).n = call[ctlMu].n /\ ctlMu \in Callers
  BY <1>2, Zenon DEF Flow, Sole, TypeOK
<1>4. PICK o \in Orders : call[ctlMu] = o
  BY <1>3 DEF TypeOK
<1>5. LastIs(o)
  BY <1>3, <1>4 DEF Flow, Newest
<1>6. Head(toRelay) = o
  BY <1>1, <1>3, <1>4, <1>5 DEF LastIs
<1>7. ~Served(o.n) /\ ~Answered(o.n) /\ ~Arrived(o.n)
  BY <1>5 DEF LastIs, Answered
<1>8. \A n \in 1 .. MaxCalls : UnderWay(n) => n = o.n
  BY <1>4, Zenon DEF Flow, Sole
<1>9. ~Busy
  <2>1. Busy => serving \in 1 .. MaxCalls
    BY BoundsAssumption DEF Busy, TypeOK
  <2> QED
    BY <1>7, <1>8, <2>1 DEF UnderWay, Served
<1>10. ASSUME NEW i \in DOMAIN toHost, IsResult(i) PROVE FALSE
  <2>1. toHost[i] \in Frames
    BY DEF TypeOK, Frames
  <2>2. toHost[i].n \in 1 .. MaxCalls
    BY <1>10, <2>1 DEF IsResult, Frames, InputFrames, Results
  <2> QED
    BY <1>7, <1>8, <1>10, <2>2 DEF UnderWay, Answered
<1>11. ~Held
  <2>1. Held => Head(slot) \in Results
    BY DEF TypeOK, Held
  <2>2. Held => Head(slot).n \in 1 .. MaxCalls
    BY <2>1 DEF Results
  <2> QED
    BY <1>7, <1>8, <2>2 DEF UnderWay, Arrived
<1> QED
  BY <1>3, <1>4, <1>6, <1>9, <1>10, <1>11 DEF Executed

LEMMA ServeRecheck ==
  ASSUME TypeOK, NamesUnique, Flow, Recheck, ServeCommand
  PROVE  Recheck'
<1>1. UNCHANGED <<granted, anyWrite, timedOut, defaultWritable, ctlMu, call, guests, name, slot, toHost>>
  BY ServeFacts DEF ServeCommand, Command
<1>2. anyWrite' <=> defaultWritable' \/ granted' # {}
  BY <1>1, Zenon DEF Recheck
<1>3. CASE timedOut
  BY <1>1, <1>2, <1>3 DEF Recheck, GrantedToo, DeniedToo
<1>4. CASE ~timedOut
  <2>1. ctlMu \in Callers /\ Head(toRelay) = call[ctlMu] /\ ~Executed
    BY <1>4, OwnOrder, ServeFacts
  <2>2. PICK o \in Orders : call[ctlMu] = o
    BY <2>1, ServeFacts
  <2>3. Hopeful' <=> (cpc'[Reader] = "reply" => cmd'[Reader].ok)
    BY <1>1, <2>1, Zenon DEF Hopeful, Executed, Held, IsResult
  <2>4. \A op, n : (Waits(op, n)' <=> Waits(op, n)) /\ (Waits(op, n) <=> o.op = op /\ o.name = n)
    BY <1>1, <2>1, <2>2, ReaderAssumption DEF Waits
  <2>5. \A d \in guests, n \in Names : writable[d] /\ name[d] = n /\ ~defaultWritable =>
          n \in granted \/ (o.op = "allow" /\ o.name = n)
    BY <1>4, <2>4, Zenon DEF Recheck, GrantedToo
  <2>6. CASE \E c \in guests : /\ name[c] = o.name /\ cpc'[Reader] \in {"tell", "close"}
                               /\ o.op = "kick" => writable' = writable
                               /\ o.op # "kick" => writable' = [writable EXCEPT ![c] = (o.op = "allow")]
    <3>1. PICK c \in guests : /\ name[c] = o.name /\ cpc'[Reader] \in {"tell", "close"}
                              /\ o.op = "kick" => writable' = writable
                              /\ o.op # "kick" => writable' = [writable EXCEPT ![c] = (o.op = "allow")]
      BY <2>6
    <3>2. Hopeful'
      BY <2>3, <3>1
    <3>3. \A d \in guests : d # c => writable'[d] = writable[d]
      BY <3>1 DEF TypeOK, RegistryTypeOK
    <3>4. o.op = "deny" => ~writable'[c]
      BY <3>1 DEF TypeOK, RegistryTypeOK
    <3>5. o.op = "kick" => writable'[c] = writable[c]
      BY <3>1
    <3>6. o.op \in Ops
      BY DEF Orders
    <3>7. GrantedToo'
      <4> SUFFICES ASSUME ~defaultWritable, NEW d \in guests, NEW n \in Names, writable'[d], name[d] = n
                   PROVE  n \in granted \/ (o.op = "allow" /\ o.name = n)
        BY <1>1, <2>4, <3>2, Zenon DEF GrantedToo
      <4>1. CASE writable[d]
        BY <2>5, <4>1
      <4>2. CASE ~writable[d]
        <5>1. d = c /\ o.op = "allow"
          BY <3>3, <3>4, <3>5, <3>6, <4>2 DEF Ops
        <5> QED
          BY <3>1, <5>1
      <4> QED
        BY <4>1, <4>2
    <3>8. DeniedToo'
      <4> SUFFICES ASSUME NEW d \in guests, NEW n \in Names, o.op = "deny", o.name = n, name[d] = n
                   PROVE  ~writable'[d]
        BY <1>1, <2>4, Zenon DEF DeniedToo
      <4>1. d = c
        BY <3>1 DEF NamesUnique
      <4> QED
        BY <3>4, <4>1
    <3> QED
      BY <1>2, <3>7, <3>8 DEF Recheck
  <2>7. CASE o.name \notin Taken /\ writable' = writable
    <3>1. \A d \in guests, n \in Names : name[d] = n => o.name # n
      BY <2>7 DEF Taken
    <3>2. GrantedToo'
      BY <1>1, <2>5, <2>7, <3>1, Zenon DEF GrantedToo
    <3>3. DeniedToo'
      BY <1>1, <2>4, <3>1, Zenon DEF DeniedToo
    <3> QED
      BY <1>2, <3>2, <3>3 DEF Recheck
  <2> QED
    BY <2>1, <2>2, <2>6, <2>7, ServeFacts
<1> QED
  BY <1>3, <1>4

LEMMA RecheckStep == TypeOK /\ NamesUnique /\ Flow /\ Recheck /\ [Next]_vars => Recheck'
<1> SUFFICES ASSUME TypeOK, NamesUnique, Flow, Recheck, [Next]_vars PROVE Recheck'
  OBVIOUS
<1>1. CASE Aside
  <2>1. UNCHANGED <<granted, anyWrite, timedOut, defaultWritable, ctlMu, call, slot, toHost, cpc, cmd>>
    BY <1>1, AsideFacts
  <2>2. (Hopeful' <=> Hopeful) /\ (Executed' <=> Executed)
    BY <2>1, Zenon DEF Hopeful, Executed, Busy, Held, IsResult
  <2> QED
    BY <1>1, <2>1, <2>2, AsideFacts, RecheckKept
<1>2. ASSUME NEW k \in Callers, NEW op \in Ops, NEW n \in Names, Give(k, op, n) PROVE Recheck'
  <2>1. /\ UNCHANGED <<granted, anyWrite, timedOut, defaultWritable, ctlMu, slot, toHost, cpc, cmd, guests, name, writable>>
        /\ kpc[k] = "idle" /\ call' = [call EXCEPT ![k] = [n |-> given + 1, op |-> op, name |-> n]]
    BY <1>2, Zenon DEF Give, registryVars
  <2>2. ctlMu # None => call'[ctlMu] = call[ctlMu]
    BY <2>1 DEF TypeOK
  <2>3. (Hopeful' <=> Hopeful) /\ (Executed' <=> Executed)
    BY <2>1, Zenon DEF Hopeful, Executed, Busy, Held, IsResult
  <2> QED
    BY <2>1, <2>2, <2>3, RecheckKept
<1>3. ASSUME NEW k \in Callers, Send(k) \/ SendFails(k) PROVE Recheck'
  <2>1. /\ UNCHANGED <<granted, anyWrite, timedOut, defaultWritable, toHost, cpc, cmd, guests, name, writable>>
        /\ ctlMu = None /\ slot' = << >>
    BY <1>3, Zenon DEF Send, SendFails, Return, registryVars
  <2>2. \A op, n : ~Waits(op, n)
    BY <2>1 DEF Waits
  <2>3. ~timedOut => ~Executed'
    <3>1. ~timedOut => ~Executed
      BY <2>1, NobodyWaits
    <3> QED
      BY <2>1, <3>1, Zenon DEF Executed, Busy, Held, IsResult
  <2>4. GrantedToo'
    BY <2>1, <2>2, Zenon DEF Recheck, GrantedToo
  <2>5. DeniedToo'
    BY <2>1, <2>3, Zenon DEF DeniedToo
  <2>6. anyWrite' <=> defaultWritable' \/ granted' # {}
    BY <2>1, Zenon DEF Recheck
  <2> QED
    BY <2>4, <2>5, <2>6 DEF Recheck
<1>4. ASSUME NEW k \in Callers, Timeout(k) PROVE Recheck'
  <2>1. timedOut' /\ UNCHANGED <<granted, anyWrite, defaultWritable>>
    BY <1>4, Zenon DEF Timeout, registryVars
  <2> QED
    BY <2>1, Zenon DEF Recheck, GrantedToo, DeniedToo
<1>5. CASE ReadInput \/ ReadResult
  <2>1. /\ UNCHANGED <<granted, anyWrite, timedOut, defaultWritable, ctlMu, call, cpc, cmd, guests, name, writable>>
        /\ toHost # << >> /\ toHost' = Tail(toHost)
        /\ slot' = slot \/ (slot' = <<Head(toHost)>> /\ Head(toHost).kind = "result")
    BY <1>5, Zenon DEF ReadInput, ReadResult, registryVars
  <2>2. /\ Head(toHost) = toHost[1] /\ 1 \in DOMAIN toHost
        /\ \A i \in DOMAIN toHost' : i + 1 \in DOMAIN toHost /\ toHost'[i] = toHost[i + 1]
    BY <2>1, ReadAt
  <2>3. slot' = slot \/ (Held' /\ Head(slot') = toHost[1] /\ IsResult(1))
    BY <2>1, <2>2 DEF Held, IsResult
  <2>4. Busy' <=> Busy
    BY <2>1 DEF Busy
  <2>5. Executed' => Executed
    <3>1. (\E i \in DOMAIN toHost' : IsResult(i)') => \E i \in DOMAIN toHost : IsResult(i)
      BY <2>2 DEF IsResult
    <3>2. Held' => Held \/ \E i \in DOMAIN toHost : IsResult(i)
      BY <2>2, <2>3 DEF Held
    <3> QED
      BY <2>4, <3>1, <3>2, Zenon DEF Executed
  <2>6. Hopeful => Hopeful'
    <3> SUFFICES ASSUME Hopeful PROVE Hopeful'
      OBVIOUS
    <3>1. \A i \in DOMAIN toHost' : IsResult(i)' => toHost'[i].ok
      BY <2>2 DEF Hopeful, IsResult
    <3>2. Held' => Head(slot').ok
      BY <2>2, <2>3 DEF Hopeful, Held
    <3> QED
      BY <2>1, <3>1, <3>2, Zenon DEF Hopeful
  <2> QED
    BY <2>1, <2>5, <2>6, RecheckKept
<1>6. CASE Reply
  <2>1. /\ UNCHANGED <<granted, anyWrite, timedOut, defaultWritable, ctlMu, call, slot, guests, name, writable>>
        /\ cpc[Reader] = "reply" /\ cpc' = [cpc EXCEPT ![Reader] = "idle"] /\ Arrives(ResultFrame)
    BY <1>6, Zenon DEF Reply, Replied
  <2>2. PICK f \in Frames : f = ResultFrame
    BY <2>1, FrameTypes DEF Frames
  <2>3. f.ok = cmd[Reader].ok /\ Arrives(f)
    BY <2>1, <2>2 DEF ResultFrame
  <2>4. \A i \in DOMAIN toHost' : (i \in DOMAIN toHost /\ toHost'[i] = toHost[i]) \/ toHost'[i] = f
    BY <2>3, ArrivesAt
  <2>5. cpc'[Reader] = "idle" /\ Busy
    BY <2>1, ReaderAssumption DEF TypeOK, RegistryTypeOK, Busy
  <2>6. Hopeful => Hopeful'
    <3> SUFFICES ASSUME Hopeful PROVE Hopeful'
      OBVIOUS
    <3>1. \A i \in DOMAIN toHost' : IsResult(i)' => toHost'[i].ok
      BY <2>1, <2>3, <2>4 DEF Hopeful, IsResult
    <3>2. Held' => Head(slot').ok
      BY <2>1 DEF Hopeful, Held
    <3> QED
      BY <2>5, <3>1, <3>2, Zenon DEF Hopeful
  <2> QED
    BY <2>1, <2>5, <2>6, RecheckKept DEF Executed
<1>7. CASE Quiet(CommandStep(Reader))
  <2>1. /\ UNCHANGED <<granted, anyWrite, timedOut, defaultWritable, ctlMu, call, slot, toHost, name, writable>>
        /\ guests' \subseteq guests /\ Busy /\ (cpc'[Reader] = "reply" => cmd'[Reader].ok)
    BY <1>7, CommandStepFacts
  <2>2. Hopeful => Hopeful'
    BY <2>1, Zenon DEF Hopeful, Held, IsResult
  <2> QED
    BY <2>1, <2>2, RecheckKept DEF Executed
<1>8. ASSUME NEW c \in Conns, Forward(c) PROVE Recheck'
  <2>1. /\ UNCHANGED <<granted, anyWrite, timedOut, defaultWritable, ctlMu, call, slot, cpc, cmd, guests, name, writable>>
        /\ Arrives(InputFrame(c))
    BY <1>8, Zenon DEF Forward, Written
  <2>2. PICK f \in Frames : f = InputFrame(c) /\ f.kind = "input"
    BY FrameTypes DEF InputFrame
  <2>3. \A i \in DOMAIN toHost' : IsResult(i)' => i \in DOMAIN toHost /\ toHost'[i] = toHost[i] /\ IsResult(i)
    BY <2>1, <2>2, ArrivesAt DEF IsResult
  <2>4. Hopeful => Hopeful'
    BY <2>1, <2>3, Zenon DEF Hopeful, Held
  <2>5. Executed' => Executed
    BY <2>1, <2>3, Zenon DEF Executed, Busy, Held
  <2> QED
    BY <2>1, <2>4, <2>5, RecheckKept
<1> QED
  BY <1>1, <1>2, <1>3, <1>4, <1>5, <1>6, <1>7, <1>8, TakeRecheck, ServeRecheck, Steps

\* The host lets through whoever the relay lets type, as long as no call has
\* timed out and nothing is under way.
THEOREM RecheckIsCoarser == Spec => []ReCheckIsCoarse
<1>1. Init => Recheck
  <2> SUFFICES ASSUME Init PROVE Recheck
    OBVIOUS
  <2>1. guests = {} /\ granted = {} /\ (anyWrite <=> defaultWritable)
    BY Zenon DEF Init, RegistryInit
  <2> QED
    BY <2>1 DEF Recheck, GrantedToo, DeniedToo
<1>2. TypeOK /\ NamesUnique /\ Flow /\ Recheck /\ [Next]_vars => Recheck'
  BY RecheckStep
<1>3. TypeOK /\ Recheck => ReCheckIsCoarse
  <2> SUFFICES ASSUME TypeOK, Recheck, ~timedOut, ctlMu = None, NEW c \in guests, writable[c]
               PROVE  anyWrite
    BY DEF ReCheckIsCoarse
  <2>1. name[c] \in Names
    BY DEF TypeOK
  <2>2. defaultWritable \/ name[c] \in granted
    BY <2>1, Zenon DEF Recheck, GrantedToo, Waits
  <2> QED
    BY <2>2, Zenon DEF Recheck
<1> QED
  BY <1>1, <1>2, <1>3, InitFlow, FlowStep, TypeCorrect, NamesTheorem, PTL DEF Spec

-----------------------------------------------------------------------------
(* One late chunk *)

\* What leaves the chunks of c where they were.
LEMMA ChunksKept ==
  ASSUME NEW c \in Conns, ViewOnly(c), pc'[c] = "write" => pc[c] = "write",
         \A i \in DOMAIN toHost' : IsChunk(i, c)' => i \in DOMAIN toHost /\ IsChunk(i, c)
  PROVE  \A i : (Few(c, i) => Few(c, i)') /\ (NoChunkAfter(c, i) => NoChunkAfter(c, i)')
<1>1. \A i : NoChunkAfter(c, i) => NoChunkAfter(c, i)'
  BY DEF NoChunkAfter
<1>2. \A i : Few(c, i) => Few(c, i)'
  BY <1>1 DEF Few
<1> QED
  BY <1>1, <1>2

LEMMA LateKept ==
  ASSUME TypeOK, NEW c \in Conns, Late(c), c \in barred' <=> c \in barred, late'[c] = late[c],
         ViewOnly(c) => ViewOnly(c)' /\ (pc'[c] = "write" => pc[c] = "write"),
         \A i \in DOMAIN toHost' : IsChunk(i, c)' => i \in DOMAIN toHost /\ IsChunk(i, c)
  PROVE  Late(c)'
<1>1. CASE c \in barred
  <2>1. ViewOnly(c) /\ ViewOnly(c)' /\ (pc'[c] = "write" => pc[c] = "write")
    BY <1>1 DEF Late
  <2>2. /\ Few(c, 0) => Few(c, 0)'
        /\ NoChunkAfter(c, 0) => NoChunkAfter(c, 0)'
    BY <2>1, ChunksKept
  <2> QED
    BY <1>1, <2>1, <2>2 DEF Late
<1>2. CASE c \notin barred
  BY <1>2 DEF Late
<1> QED
  BY <1>1, <1>2

\* A frame is read: the chunks that follow it move up.
LEMMA ChunksMoveUp ==
  ASSUME TypeOK, NEW c \in Conns, toHost # << >>, toHost' = Tail(toHost), pc' = pc
  PROVE  /\ \A i \in Nat : Few(c, i) => Few(c, i + 1)
         /\ \A i \in Nat : Few(c, i + 1) => Few(c, i)'
         /\ \A i \in Nat : NoChunkAfter(c, i + 1) => NoChunkAfter(c, i)'
         /\ \A i \in Nat : NoChunkAfter(c, i) => NoChunkAfter(c, i + 1)
         /\ Few(c, 0) /\ IsChunk(1, c) => pc[c] # "write" /\ NoChunkAfter(c, 1)
<1>1. /\ 1 \in DOMAIN toHost /\ DOMAIN toHost \subseteq Nat
      /\ \A i \in DOMAIN toHost' : i \in Nat /\ i + 1 \in DOMAIN toHost /\ toHost'[i] = toHost[i + 1]
  BY ReadAt
<1>2. \A j \in DOMAIN toHost' : IsChunk(j, c)' => IsChunk(j + 1, c)
  BY <1>1 DEF IsChunk
<1>3. \A i \in Nat : NoChunkAfter(c, i) => NoChunkAfter(c, i + 1)
  BY <1>1 DEF NoChunkAfter
<1>4. \A i \in Nat : NoChunkAfter(c, i + 1) => NoChunkAfter(c, i)'
  BY <1>1, <1>2 DEF NoChunkAfter
<1>5. \A i \in Nat : Few(c, i) => Few(c, i + 1)
  <2> SUFFICES ASSUME NEW i \in Nat, Few(c, i) PROVE Few(c, i + 1)
    OBVIOUS
  <2>1. \A j \in DOMAIN toHost : j > i + 1 => j > i
    BY <1>1
  <2>2. pc[c] = "write" => NoChunkAfter(c, i + 1)
    BY <1>3 DEF Few
  <2> QED
    BY <2>1, <2>2 DEF Few
<1>6. \A i \in Nat : Few(c, i + 1) => Few(c, i)'
  <2> SUFFICES ASSUME NEW i \in Nat, Few(c, i + 1) PROVE Few(c, i)'
    OBVIOUS
  <2>1. ASSUME NEW j \in DOMAIN toHost', NEW l \in DOMAIN toHost', j > i, l > i, IsChunk(j, c)', IsChunk(l, c)'
        PROVE  j = l
    <3>1. j + 1 \in DOMAIN toHost /\ l + 1 \in DOMAIN toHost /\ j \in Nat /\ l \in Nat /\ IsChunk(j + 1, c) /\ IsChunk(l + 1, c)
      BY <1>1, <1>2, <2>1
    <3>2. j + 1 > i + 1 /\ l + 1 > i + 1
      BY <2>1, <3>1
    <3>3. j + 1 = l + 1
      BY <3>1, <3>2 DEF Few
    <3> QED
      BY <3>1, <3>3
  <2>2. pc'[c] = "write" => NoChunkAfter(c, i)'
    BY <1>4 DEF Few
  <2> QED
    BY <2>1, <2>2 DEF Few
<1>7. Few(c, 0) /\ IsChunk(1, c) => pc[c] # "write" /\ NoChunkAfter(c, 1)
  BY <1>1 DEF Few, NoChunkAfter
<1> QED
  BY <1>3, <1>4, <1>5, <1>6, <1>7

\* Nobody waits, or the call of whoever waits is what it was.
LEMMA DeniedKept ==
  ASSUME TypeOK, DenyInv, ctlMu' = None \/ (ctlMu' = ctlMu /\ (ctlMu # None => call'[ctlMu] = call[ctlMu])),
         \A k \in Callers, n \in 1 .. MaxCalls, c \in Conns :
           ctlMu = k /\ call[k].op = "deny" /\ call[k].n = n /\ Denied(n, c) => Denied(n, c)'
  PROVE  DenyInv'
<1>1. CASE ctlMu' = None
  BY <1>1, ReaderAssumption DEF DenyInv
<1>2. CASE ctlMu' = ctlMu /\ (ctlMu # None => call'[ctlMu] = call[ctlMu])
  BY <1>2, ReaderAssumption DEF DenyInv
<1> QED
  BY <1>1, <1>2

\* The steps that move no news of a command and no chunk of a guest that is
\* view-only.
LEMMA NewsKept ==
  ASSUME TypeOK, DenyInv, LateInv, UNCHANGED <<slot, serving, toHost, cpc, cmd>>, UNCHANGED pastVars,
         ctlMu' = None \/ (ctlMu' = ctlMu /\ (ctlMu # None => call'[ctlMu] = call[ctlMu])),
         \A d \in Conns : ViewOnly(d) => ViewOnly(d)' /\ (pc'[d] = "write" => pc[d] = "write")
  PROVE  DenyInv' /\ LateInv'
<1>1. \A c \in Conns, i \in DOMAIN toHost' : IsChunk(i, c)' => i \in DOMAIN toHost /\ IsChunk(i, c)
  BY DEF IsChunk
<1>2. LateInv'
  <2> SUFFICES ASSUME NEW c \in Conns PROVE Late(c)'
    BY DEF LateInv
  <2> QED
    BY <1>1, LateKept DEF LateInv
<1>3. ASSUME NEW n \in 1 .. MaxCalls, NEW c \in Conns, Denied(n, c) PROVE Denied(n, c)'
  <2>1. Served(n)' /\ cmd'[Reader].who = c => ViewOnly(c)'
    BY <1>3 DEF Denied, Served, Busy
  <2>2. ASSUME NEW i \in DOMAIN toHost', IsResult(i)', toHost'[i].n = n, toHost'[i].who = c PROVE ViewOnly(c)' /\ Few(c, i)'
    <3>1. ViewOnly(c) /\ Few(c, i)
      BY <1>3, <2>2 DEF Denied, IsResult
    <3> QED
      BY <1>1, <3>1, ChunksKept
  <2>3. ASSUME Arrived(n)', Head(slot').who = c PROVE ViewOnly(c)' /\ Few(c, 0)'
    <3>1. ViewOnly(c) /\ Few(c, 0)
      BY <1>3, <2>3, Zenon DEF Denied, Arrived, Held
    <3> QED
      BY <1>1, <3>1, ChunksKept
  <2> QED
    BY <2>1, <2>2, <2>3, Zenon DEF Denied
<1>4. DenyInv'
  BY <1>3, DeniedKept
<1> QED
  BY <1>2, <1>4

LEMMA ReadInputLate ==
  ASSUME TypeOK, DenyInv, LateInv, ReadInput
  PROVE  DenyInv' /\ LateInv'
<1>1. /\ toHost # << >> /\ toHost' = Tail(toHost) /\ Head(toHost).kind = "input"
      /\ late' = (IF anyWrite /\ Head(toHost).who \in barred THEN [late EXCEPT ![Head(toHost).who] = @ + 1] ELSE late)
      /\ UNCHANGED <<ctlMu, call, slot, serving, cpc, cmd, writable, pc, barred>>
  BY Zenon DEF ReadInput, registryVars
<1>2. /\ Head(toHost) = toHost[1] /\ 1 \in DOMAIN toHost
      /\ \A i \in DOMAIN toHost' : i \in Nat /\ i + 1 \in DOMAIN toHost /\ toHost'[i] = toHost[i + 1]
  BY <1>1, ReadAt
<1>3. \A c \in Conns : ViewOnly(c)' <=> ViewOnly(c)
  BY <1>1 DEF ViewOnly
<1>4. ASSUME NEW n \in 1 .. MaxCalls, NEW c \in Conns, Denied(n, c) PROVE Denied(n, c)'
  <2>1. Served(n)' /\ cmd'[Reader].who = c => ViewOnly(c)'
    BY <1>1, <1>3, <1>4 DEF Denied, Served, Busy
  <2>2. ASSUME NEW i \in DOMAIN toHost', IsResult(i)', toHost'[i].n = n, toHost'[i].who = c PROVE ViewOnly(c)' /\ Few(c, i)'
    <3>1. i \in Nat /\ ViewOnly(c) /\ Few(c, i + 1)
      BY <1>2, <1>4, <2>2 DEF Denied, IsResult
    <3> QED
      BY <1>1, <1>3, <3>1, ChunksMoveUp
  <2>3. ASSUME Arrived(n)', Head(slot').who = c PROVE ViewOnly(c)' /\ Few(c, 0)'
    <3>1. ViewOnly(c) /\ Few(c, 0)
      BY <1>1, <1>4, <2>3, Zenon DEF Denied, Arrived, Held
    <3> QED
      BY <1>1, <1>3, <3>1, ChunksMoveUp
  <2> QED
    BY <2>1, <2>2, <2>3, Zenon DEF Denied
<1>5. DenyInv'
  BY <1>1, <1>4, DeniedKept
<1>6. ASSUME NEW c \in Conns PROVE Late(c)'
  <2>1. /\ Few(c, 0) => Few(c, 1) /\ Few(c, 0)'
        /\ NoChunkAfter(c, 0) => NoChunkAfter(c, 0)'
        /\ NoChunkAfter(c, 1) => NoChunkAfter(c, 0)'
        /\ Few(c, 0) /\ IsChunk(1, c) => pc[c] # "write" /\ NoChunkAfter(c, 1)
    BY <1>1, ChunksMoveUp
  <2>2. late \in [Conns -> Nat] /\ Late(c)
    BY DEF TypeOK, LateInv
  <2>3. CASE c \in barred /\ IsChunk(1, c) /\ late'[c] = late[c] + 1
    <3>1. late[c] # 1
      BY <1>2, <2>2, <2>3 DEF Late, NoChunkAfter
    <3>2. late'[c] = 1
      BY <2>2, <2>3, <3>1 DEF Late
    <3> QED
      BY <1>1, <1>3, <2>1, <2>2, <2>3, <3>2 DEF Late
  <2>4. CASE late'[c] = late[c]
    BY <1>1, <1>3, <2>1, <2>2, <2>4 DEF Late
  <2>5. late'[c] = late[c] \/ (c \in barred /\ IsChunk(1, c) /\ late'[c] = late[c] + 1)
    BY <1>1, <1>2, <2>2 DEF IsChunk
  <2> QED
    BY <2>3, <2>4, <2>5
<1> QED
  BY <1>5, <1>6 DEF LateInv

LEMMA ReadResultLate ==
  ASSUME TypeOK, DenyInv, LateInv, ReadResult
  PROVE  DenyInv' /\ LateInv'
<1>1. /\ toHost # << >> /\ toHost' = Tail(toHost) /\ Head(toHost).kind = "result"
      /\ slot' = slot \/ slot' = <<Head(toHost)>>
      /\ UNCHANGED <<ctlMu, call, serving, cpc, cmd, writable, pc, barred, late>>
  BY Zenon DEF ReadResult, registryVars
<1>2. /\ Head(toHost) = toHost[1] /\ 1 \in DOMAIN toHost /\ IsResult(1)
      /\ \A i \in DOMAIN toHost' : i \in Nat /\ i + 1 \in DOMAIN toHost /\ toHost'[i] = toHost[i + 1]
  BY <1>1, ReadAt DEF IsResult
<1>3. slot' = slot \/ Head(slot') = toHost[1]
  BY <1>1, <1>2
<1>4. \A c \in Conns : ViewOnly(c)' <=> ViewOnly(c)
  BY <1>1 DEF ViewOnly
<1>5. ASSUME NEW n \in 1 .. MaxCalls, NEW c \in Conns, Denied(n, c) PROVE Denied(n, c)'
  <2>1. Served(n)' /\ cmd'[Reader].who = c => ViewOnly(c)'
    BY <1>1, <1>4, <1>5 DEF Denied, Served, Busy
  <2>2. ASSUME NEW i \in DOMAIN toHost', IsResult(i)', toHost'[i].n = n, toHost'[i].who = c PROVE ViewOnly(c)' /\ Few(c, i)'
    <3>1. i \in Nat /\ ViewOnly(c) /\ Few(c, i + 1)
      BY <1>2, <1>5, <2>2 DEF Denied, IsResult
    <3> QED
      BY <1>1, <1>4, <3>1, ChunksMoveUp
  <2>3. ASSUME Arrived(n)', Head(slot').who = c PROVE ViewOnly(c)' /\ Few(c, 0)'
    <3>1. CASE slot' = slot
      <4>1. ViewOnly(c) /\ Few(c, 0)
        BY <1>5, <2>3, <3>1, Zenon DEF Denied, Arrived, Held
      <4> QED
        BY <1>1, <1>4, <4>1, ChunksMoveUp
    <3>2. CASE Head(slot') = toHost[1]
      <4>1. ViewOnly(c) /\ Few(c, 0 + 1)
        BY <1>2, <1>5, <2>3, <3>2 DEF Denied, Arrived
      <4> QED
        BY <1>1, <1>4, <4>1, ChunksMoveUp
    <3> QED
      BY <1>3, <3>1, <3>2
  <2> QED
    BY <2>1, <2>2, <2>3, Zenon DEF Denied
<1>6. DenyInv'
  BY <1>1, <1>5, DeniedKept
<1>7. ASSUME NEW c \in Conns PROVE Late(c)'
  <2>1. /\ Few(c, 0) => Few(c, 0)'
        /\ NoChunkAfter(c, 0) => NoChunkAfter(c, 0)'
    BY <1>1, ChunksMoveUp
  <2> QED
    BY <1>1, <1>4, <2>1 DEF LateInv, Late
<1> QED
  BY <1>6, <1>7 DEF LateInv

LEMMA ServeLate ==
  ASSUME TypeOK, Flow, DenyInv, LateInv, ServeCommand
  PROVE  DenyInv' /\ LateInv'
<1>1. /\ UNCHANGED <<ctlMu, call, slot, toHost, pc>> /\ serving' = Head(toRelay).n /\ cpc[Reader] = "idle"
      /\ barred' = {c \in barred : ~writable'[c]}
      /\ late' = [c \in Conns |-> IF c \in barred' THEN late[c] ELSE 0]
  BY ServeFacts DEF ServeCommand, Command
<1>2. ASSUME NEW c \in Conns PROVE Late(c)'
  <2>1. late \in [Conns -> Nat] /\ Late(c)
    BY DEF TypeOK, LateInv
  <2>2. Few(c, 0) => Few(c, 0)'
    BY <1>1, Zenon DEF Few, NoChunkAfter, IsChunk
  <2>3. NoChunkAfter(c, 0) => NoChunkAfter(c, 0)'
    BY <1>1, Zenon DEF NoChunkAfter, IsChunk
  <2>4. CASE c \in barred'
    <3>1. c \in barred /\ ~writable'[c] /\ late'[c] = late[c]
      BY <1>1, <2>4
    <3> QED
      BY <1>1, <2>1, <2>2, <2>3, <2>4, <3>1 DEF Late, ViewOnly
  <2>5. CASE c \notin barred'
    BY <1>1, <2>5 DEF Late
  <2> QED
    BY <2>4, <2>5
<1>3. DenyInv'
  <2> SUFFICES ASSUME NEW k \in Callers, NEW n \in 1 .. MaxCalls, NEW c \in Conns,
                      ctlMu = k, call[k].op = "deny", call[k].n = n
               PROVE  Denied(n, c)'
    BY <1>1 DEF DenyInv
  <2>1. PICK o \in Orders : call[k] = o
    BY DEF TypeOK
  <2>2. LastIs(o) /\ o.n = n /\ o.op = "deny"
    BY <2>1 DEF Flow, Newest
  <2>3. ~Answered(n) /\ ~Arrived(n)
    BY <2>2, ServeFacts DEF LastIs, Answered
  <2>4. ~Answered(n)' /\ ~Arrived(n)'
    BY <1>1, <2>3, Zenon DEF Answered, IsResult, Arrived, Held
  <2>5. ASSUME Served(n)', cmd'[Reader].who = c PROVE ViewOnly(c)'
    <3>1. Head(toRelay) = o
      <4>1. toRelay[1] = Head(toRelay) /\ 1 \in DOMAIN toRelay
        <5>1. toRelay \in Seq(Orders) /\ toRelay # << >>
          BY ServeFacts DEF TypeOK
        <5> QED
          BY <5>1, TailAt
      <4> QED
        BY <1>1, <2>2, <2>5, <4>1 DEF LastIs, Served
    <3>2. c # None
      BY NamesAssumption
    <3>3. c \in guests /\ writable' = [writable EXCEPT ![c] = (o.op = "allow")]
      BY <2>2, <2>5, <3>1, <3>2, ServeFacts
    <3>4. ~writable'[c] /\ pc[c] # "out"
      BY <2>2, <3>3 DEF TypeOK, RegistryTypeOK
    <3> QED
      BY <1>1, <3>4 DEF ViewOnly
  <2> QED
    BY <2>4, <2>5, Zenon DEF Denied, Answered
<1> QED
  BY <1>2, <1>3 DEF LateInv

LEMMA ReplyLate ==
  ASSUME TypeOK, DenyInv, LateInv, Reply
  PROVE  DenyInv' /\ LateInv'
<1>1. /\ UNCHANGED <<ctlMu, call, slot, writable, pc, barred, late>>
      /\ cpc[Reader] = "reply" /\ cpc' = [cpc EXCEPT ![Reader] = "idle"] /\ Arrives(ResultFrame)
  BY Zenon DEF Reply, Replied
<1>2. PICK f \in Frames : f = ResultFrame
  BY <1>1, FrameTypes DEF Frames
<1>3. f.kind = "result" /\ f.n = serving /\ f.who = cmd[Reader].who /\ Arrives(f)
  BY <1>1, <1>2 DEF ResultFrame
<1>4. \A i \in DOMAIN toHost' :
        \/ i \in DOMAIN toHost /\ toHost'[i] = toHost[i]
        \/ toHost'[i] = f /\ i \in Nat /\ \A j \in DOMAIN toHost' : j \in Nat /\ j <= i
  BY <1>3, ArrivesAt
<1>5. ~Busy' /\ Busy
  BY <1>1, ReaderAssumption DEF TypeOK, RegistryTypeOK, Busy
<1>6. \A c \in Conns, i \in DOMAIN toHost' : IsChunk(i, c)' => i \in DOMAIN toHost /\ IsChunk(i, c)
  BY <1>3, <1>4 DEF IsChunk
<1>7. \A c \in Conns : (ViewOnly(c)' <=> ViewOnly(c)) /\ (pc'[c] = "write" => pc[c] = "write")
  BY <1>1 DEF ViewOnly
<1>8. ASSUME NEW n \in 1 .. MaxCalls, NEW c \in Conns, Denied(n, c) PROVE Denied(n, c)'
  <2>1. ~Served(n)'
    BY <1>5 DEF Served
  <2>2. ASSUME NEW i \in DOMAIN toHost', IsResult(i)', toHost'[i].n = n, toHost'[i].who = c PROVE ViewOnly(c)' /\ Few(c, i)'
    <3>1. CASE i \in DOMAIN toHost /\ toHost'[i] = toHost[i]
      <4>1. ViewOnly(c) /\ Few(c, i)
        BY <1>8, <2>2, <3>1 DEF Denied, IsResult
      <4> QED
        BY <1>6, <1>7, <4>1, ChunksKept
    <3>2. CASE toHost'[i] = f /\ i \in Nat /\ \A j \in DOMAIN toHost' : j \in Nat /\ j <= i
      <4>1. ViewOnly(c)
        BY <1>3, <1>5, <1>8, <2>2, <3>2 DEF Denied, Served
      <4>2. Few(c, i)'
        BY <3>2 DEF Few, NoChunkAfter
      <4> QED
        BY <1>7, <4>1, <4>2
    <3> QED
      BY <1>4, <3>1, <3>2
  <2>3. ASSUME Arrived(n)', Head(slot').who = c PROVE ViewOnly(c)' /\ Few(c, 0)'
    <3>1. ViewOnly(c) /\ Few(c, 0)
      BY <1>1, <1>8, <2>3, Zenon DEF Denied, Arrived, Held
    <3> QED
      BY <1>6, <1>7, <3>1, ChunksKept
  <2> QED
    BY <2>1, <2>2, <2>3, Zenon DEF Denied
<1>9. DenyInv'
  BY <1>1, <1>8, DeniedKept
<1>10. LateInv'
  <2> SUFFICES ASSUME NEW c \in Conns PROVE Late(c)'
    BY DEF LateInv
  <2> QED
    BY <1>1, <1>6, <1>7, LateKept DEF LateInv
<1> QED
  BY <1>9, <1>10

\* A guest that is view-only may have passed the check with one chunk: once it
\* is on its way, no other is.
LEMMA ForwardLate ==
  ASSUME TypeOK, DenyInv, LateInv, NEW d \in Conns, Forward(d)
  PROVE  DenyInv' /\ LateInv'
<1>1. /\ UNCHANGED <<ctlMu, call, slot, serving, cpc, cmd, writable, barred, late>>
      /\ pc[d] = "write" /\ pc' = [pc EXCEPT ![d] = "loop"] /\ Arrives(InputFrame(d))
  BY Zenon DEF Forward, Written, Goto
<1>2. PICK f \in Frames : f = InputFrame(d) /\ f.kind = "input" /\ f.who = d
  BY FrameTypes DEF InputFrame
<1>3. \A i \in DOMAIN toHost' :
        \/ i \in DOMAIN toHost /\ toHost'[i] = toHost[i]
        \/ toHost'[i] = f /\ i \in Nat /\ \A j \in DOMAIN toHost' : j \in Nat /\ j <= i
  BY <1>1, <1>2, ArrivesAt
<1>4. pc'[d] = "loop" /\ \A c \in Conns : (pc'[c] = "write" => pc[c] = "write") /\ (ViewOnly(c) => ViewOnly(c)')
  BY <1>1 DEF TypeOK, RegistryTypeOK, ViewOnly
<1>5. ASSUME NEW c \in Conns, ViewOnly(c), NEW i, Few(c, i) PROVE Few(c, i)'
  <2>1. CASE c # d
    <3>1. \A j \in DOMAIN toHost' : IsChunk(j, c)' => j \in DOMAIN toHost /\ IsChunk(j, c)
      BY <1>2, <1>3, <2>1 DEF IsChunk
    <3> QED
      BY <1>4, <1>5, <3>1, ChunksKept
  <2>2. CASE c = d
    <3>1. NoChunkAfter(c, i)
      BY <1>1, <1>5, <2>2 DEF Few
    <3>2. ASSUME NEW j \in DOMAIN toHost', j > i, IsChunk(j, c)'
          PROVE  j \in Nat /\ \A l \in DOMAIN toHost' : l \in Nat /\ l <= j
      BY <1>3, <3>1, <3>2 DEF NoChunkAfter, IsChunk
    <3>3. ASSUME NEW j \in DOMAIN toHost', NEW l \in DOMAIN toHost', j > i, l > i, IsChunk(j, c)', IsChunk(l, c)'
          PROVE  j = l
      <4>1. j \in Nat /\ l <= j
        BY <3>2, <3>3
      <4>2. l \in Nat /\ j <= l
        BY <3>2, <3>3
      <4> QED
        BY <4>1, <4>2
    <3> QED
      BY <1>4, <2>2, <3>3 DEF Few
  <2> QED
    BY <2>1, <2>2
<1>6. ASSUME NEW n \in 1 .. MaxCalls, NEW c \in Conns, Denied(n, c) PROVE Denied(n, c)'
  <2>1. Served(n)' /\ cmd'[Reader].who = c => ViewOnly(c)'
    BY <1>1, <1>4, <1>6 DEF Denied, Served, Busy
  <2>2. ASSUME NEW i \in DOMAIN toHost', IsResult(i)', toHost'[i].n = n, toHost'[i].who = c PROVE ViewOnly(c)' /\ Few(c, i)'
    <3>1. ViewOnly(c) /\ Few(c, i)
      BY <1>2, <1>3, <1>6, <2>2 DEF Denied, IsResult
    <3> QED
      BY <1>4, <1>5, <3>1
  <2>3. ASSUME Arrived(n)', Head(slot').who = c PROVE ViewOnly(c)' /\ Few(c, 0)'
    <3>1. ViewOnly(c) /\ Few(c, 0)
      BY <1>1, <1>6, <2>3, Zenon DEF Denied, Arrived, Held
    <3> QED
      BY <1>4, <1>5, <3>1
  <2> QED
    BY <2>1, <2>2, <2>3, Zenon DEF Denied
<1>7. DenyInv'
  BY <1>1, <1>6, DeniedKept
<1>8. ASSUME NEW c \in Conns PROVE Late(c)'
  <2>1. Late(c)
    BY DEF LateInv
  <2>2. CASE c # d
    <3>1. \A j \in DOMAIN toHost' : IsChunk(j, c)' => j \in DOMAIN toHost /\ IsChunk(j, c)
      BY <1>2, <1>3, <2>2 DEF IsChunk
    <3> QED
      BY <1>1, <1>4, <2>1, <3>1, LateKept
  <2>3. CASE c = d
    <3>1. late'[c] = late[c] /\ late[c] # 1
      BY <1>1, <2>1, <2>3 DEF Late
    <3> QED
      BY <1>1, <1>4, <1>5, <2>1, <3>1 DEF Late
  <2> QED
    BY <2>2, <2>3
<1> QED
  BY <1>7, <1>8 DEF LateInv

LEMMA SendLate ==
  ASSUME TypeOK, Flow, DenyInv, LateInv, NEW k \in Callers, Send(k)
  PROVE  DenyInv' /\ LateInv'
<1>1. /\ UNCHANGED <<call, serving, toHost, cpc, cmd, writable, pc, barred, late>>
      /\ kpc[k] = "queued" /\ ctlMu' = k /\ slot' = << >>
  BY Zenon DEF Send, registryVars
<1>2. DenyInv'
  <2> SUFFICES ASSUME NEW n \in 1 .. MaxCalls, NEW c \in Conns, call[k].n = n PROVE Denied(n, c)'
    BY <1>1 DEF DenyInv
  <2>1. ~UnderWay(n)
    BY <1>1 DEF Flow, Numbered
  <2>2. ~Served(n)' /\ ~Answered(n)' /\ ~Arrived(n)'
    BY <1>1, <2>1 DEF UnderWay, Served, Busy, Answered, IsResult, Arrived, Held
  <2> QED
    BY <2>2, Zenon DEF Denied, Answered
<1>3. LateInv'
  <2> SUFFICES ASSUME NEW c \in Conns PROVE Late(c)'
    BY DEF LateInv
  <2>1. \A i \in DOMAIN toHost' : IsChunk(i, c)' => i \in DOMAIN toHost /\ IsChunk(i, c)
    BY <1>1 DEF IsChunk
  <2>2. ViewOnly(c) => ViewOnly(c)' /\ (pc'[c] = "write" => pc[c] = "write")
    BY <1>1 DEF ViewOnly
  <2> QED
    BY <1>1, <2>1, <2>2, LateKept DEF LateInv
<1> QED
  BY <1>2, <1>3

LEMMA TakeLate ==
  ASSUME TypeOK, DenyInv, LateInv, NEW k \in Callers, Take(k)
  PROVE  DenyInv' /\ LateInv'
<1>1. /\ UNCHANGED <<toHost, writable, pc, late>> /\ ctlMu = k /\ ctlMu' = None /\ slot # << >>
      /\ barred' = IF Head(slot).n = call[k].n /\ call[k].op = "deny" /\ Head(slot).ok
                   THEN barred \cup {Head(slot).who} ELSE barred
  BY Zenon DEF Take, Return, TypeOK, registryVars
<1>2. DenyInv'
  BY <1>1, ReaderAssumption DEF DenyInv
<1>3. ASSUME NEW c \in Conns PROVE Late(c)'
  <2>1. Late(c) /\ late \in [Conns -> Nat]
    BY DEF LateInv, TypeOK
  <2>2. (ViewOnly(c)' <=> ViewOnly(c)) /\ \A i : (IsChunk(i, c)' <=> IsChunk(i, c))
    BY <1>1 DEF ViewOnly, IsChunk
  <2>3. CASE c \in barred' <=> c \in barred
    BY <1>1, <2>1, <2>2, <2>3, LateKept DEF LateInv
  <2>4. CASE c \in barred' /\ c \notin barred
    <3>1. Head(slot).who = c /\ Head(slot).n = call[k].n /\ call[k].op = "deny"
      BY <1>1, <2>4
    <3>2. Head(slot) \in Results
      BY <1>1 DEF TypeOK
    <3>3. Head(slot).n \in 1 .. MaxCalls
      BY <3>2 DEF Results
    <3>4. PICK n \in 1 .. MaxCalls : n = call[k].n
      BY <3>1, <3>3
    <3>5. Denied(n, c) /\ Arrived(n)
      BY <1>1, <3>1, <3>4 DEF DenyInv, Arrived, Held
    <3>6. ViewOnly(c) /\ Few(c, 0)
      BY <3>1, <3>5 DEF Denied
    <3>7. Few(c, 0)'
      BY <1>1, <2>2, <3>6, ChunksKept
    <3>8. late'[c] = 0
      BY <1>1, <2>1, <2>4 DEF Late
    <3> QED
      BY <2>2, <2>4, <3>6, <3>7, <3>8 DEF Late
  <2>5. barred \subseteq barred'
    BY <1>1
  <2> QED
    BY <2>3, <2>4, <2>5
<1> QED
  BY <1>2, <1>3 DEF LateInv

LEMMA LateStep == TypeOK /\ Flow /\ DenyInv /\ LateInv /\ [Next]_vars => DenyInv' /\ LateInv'
<1> SUFFICES ASSUME TypeOK, Flow, DenyInv, LateInv, [Next]_vars PROVE DenyInv' /\ LateInv'
  OBVIOUS
<1>1. CASE Aside
  BY <1>1, AsideFacts, NewsKept
<1>2. CASE Quiet(CommandStep(Reader))
  <2>1. /\ UNCHANGED <<ctlMu, call, slot, serving, toHost, writable, pc>> /\ UNCHANGED pastVars
        /\ Busy /\ Busy' /\ cmd'[Reader].who = cmd[Reader].who
    BY <1>2, CommandStepFacts
  <2>2. \A c \in Conns : ViewOnly(c)' <=> ViewOnly(c)
    BY <2>1 DEF ViewOnly
  <2>3. \A c \in Conns, i \in DOMAIN toHost' : IsChunk(i, c)' => i \in DOMAIN toHost /\ IsChunk(i, c)
    BY <2>1 DEF IsChunk
  <2>4. LateInv'
    <3> SUFFICES ASSUME NEW c \in Conns PROVE Late(c)'
      BY DEF LateInv
    <3> QED
      BY <2>1, <2>2, <2>3, LateKept DEF LateInv
  <2>5. ASSUME NEW n \in 1 .. MaxCalls, NEW c \in Conns, Denied(n, c) PROVE Denied(n, c)'
    <3>1. \A i : Few(c, i)' <=> Few(c, i)
      BY <2>1, Zenon DEF Few, NoChunkAfter, IsChunk
    <3>2. (Served(n)' <=> Served(n)) /\ (Arrived(n)' <=> Arrived(n))
      BY <2>1, Zenon DEF Served, Arrived, Held
    <3> QED
      BY <2>1, <2>2, <2>5, <3>1, <3>2, Zenon DEF Denied, IsResult
  <2> QED
    BY <2>1, <2>4, <2>5, DeniedKept
<1>3. ASSUME NEW k \in Callers, NEW op \in Ops, NEW n \in Names, Give(k, op, n) PROVE DenyInv' /\ LateInv'
  <2>1. /\ UNCHANGED <<ctlMu, slot, serving, toHost, cpc, cmd, writable, pc>> /\ UNCHANGED pastVars
        /\ kpc[k] = "idle" /\ call' = [call EXCEPT ![k] = [n |-> given + 1, op |-> op, name |-> n]]
    BY <1>3, Zenon DEF Give, registryVars
  <2>2. ctlMu # None => call'[ctlMu] = call[ctlMu]
    BY <2>1 DEF TypeOK
  <2>3. \A d \in Conns : ViewOnly(d) => ViewOnly(d)' /\ (pc'[d] = "write" => pc[d] = "write")
    BY <2>1 DEF ViewOnly
  <2> QED
    BY <2>1, <2>2, <2>3, NewsKept
<1>4. ASSUME NEW k \in Callers, SendFails(k) \/ Timeout(k) PROVE DenyInv' /\ LateInv'
  <2>1. ctlMu' = None /\ UNCHANGED <<serving, toHost, cpc, cmd, writable, pc>> /\ UNCHANGED pastVars
    BY <1>4, Zenon DEF SendFails, Timeout, Return, registryVars
  <2>2. DenyInv'
    BY <2>1, ReaderAssumption DEF DenyInv
  <2>3. LateInv'
    <3> SUFFICES ASSUME NEW c \in Conns PROVE Late(c)'
      BY DEF LateInv
    <3>1. \A i \in DOMAIN toHost' : IsChunk(i, c)' => i \in DOMAIN toHost /\ IsChunk(i, c)
      BY <2>1 DEF IsChunk
    <3>2. ViewOnly(c) => ViewOnly(c)' /\ (pc'[c] = "write" => pc[c] = "write")
      BY <2>1 DEF ViewOnly
    <3> QED
      BY <2>1, <3>1, <3>2, LateKept DEF LateInv
  <2> QED
    BY <2>2, <2>3
<1> QED
  BY <1>1, <1>2, <1>3, <1>4, SendLate, TakeLate, ReadInputLate, ReadResultLate, ServeLate, ReplyLate, ForwardLate, Steps

\* Once a deny that took its own result has returned, at most one more chunk of
\* that guest reaches the shell, however many chunks and commands are on the way
\* and whichever calls have timed out.
THEOREM OneLateChunk == Spec => []AtMostOneLate
<1>1. Init => DenyInv /\ LateInv
  <2> SUFFICES ASSUME Init PROVE DenyInv /\ LateInv
    OBVIOUS
  <2>1. ctlMu = None /\ barred = {} /\ \A c \in Conns : late[c] = 0
    BY DEF Init
  <2> QED
    BY <2>1, ReaderAssumption DEF DenyInv, LateInv, Late
<1>2. TypeOK /\ Flow /\ DenyInv /\ LateInv /\ [Next]_vars => DenyInv' /\ LateInv'
  BY LateStep
<1>3. LateInv => AtMostOneLate
  BY DEF LateInv, Late, AtMostOneLate
<1> QED
  BY <1>1, <1>2, <1>3, InitFlow, FlowStep, TypeCorrect, PTL DEF Spec

-----------------------------------------------------------------------------
(* Kicks *)

\* Closed and out of the list, for good: a connection joins once.
Out(c) == c \in closed \ guests /\ pc[c] # "out"

\* The same, said of the state after the step.
OutNext(c) == c \in closed' \ guests' /\ pc'[c] # "out"

\* A kick closes before it removes, and whoever reads of a kick that succeeded,
\* wherever the news is, finds the guest out.
KickInv ==
  /\ \A c \in closed \cup doomed : pc[c] # "out"
  /\ cpc[Reader] \in {"close", "leave"} => pc[cmd[Reader].who] # "out"
  /\ cpc[Reader] = "leave" => cmd[Reader].who \in closed
  /\ cpc[Reader] = "tell" => cmd[Reader].op # "kick"
  /\ cpc[Reader] = "reply" /\ cmd[Reader].op = "kick" /\ cmd[Reader].ok => Out(cmd[Reader].who)
  /\ \A i \in DOMAIN toHost : IsResult(i) /\ toHost[i].op = "kick" /\ toHost[i].ok => Out(toHost[i].who)
  /\ Held /\ Head(slot).op = "kick" /\ Head(slot).ok => Out(Head(slot).who)

\* What a handler's step does to the list.
LEMMA HandlerList ==
  ASSUME TypeOK, NEW c \in Conns,
         ReadFlag(c) \/ Greet(c) \/ Warn(c) \/ End(c) \/ Join(c) \/ ReadFrame(c) \/ Input(c) \/ Disconnect(c) \/ Drop(c) \/ Written(c)
  PROVE  /\ \A d \in Conns : pc[d] # "out" => pc'[d] # "out"
         /\ closed \subseteq closed' /\ closed' \subseteq closed \cup guests
         /\ \A d \in guests' : d \in guests \/ pc[d] = "out"
<1>1. CASE ReadFlag(c) \/ Greet(c) \/ Warn(c) \/ Written(c)
  BY <1>1 DEF ReadFlag, Greet, Warn, Written, Goto, TypeOK, RegistryTypeOK
<1>2. CASE End(c)
  BY <1>2 DEF End, Goto, Without, TypeOK, RegistryTypeOK
<1>3. CASE Join(c)
  BY <1>3 DEF Join, Goto, TypeOK, RegistryTypeOK
<1>4. CASE ReadFrame(c) \/ Input(c)
  BY <1>4 DEF ReadFrame, Input, Goto, TypeOK, RegistryTypeOK
<1>5. CASE Disconnect(c) \/ Drop(c)
  BY <1>5 DEF Disconnect, Drop, Without
<1> QED
  BY <1>1, <1>2, <1>3, <1>4, <1>5

\* Who is out stays out.
LEMMA OutKept ==
  ASSUME NEW c \in Conns, Out(c), pc[c] # "out" => pc'[c] # "out", closed \subseteq closed',
         \A d \in guests' : d \in guests \/ pc[d] = "out"
  PROVE  OutNext(c)
BY DEF Out, OutNext

\* Where news of a kick may be, no step brings any that is not true.
LEMMA KickKept ==
  ASSUME TypeOK, KickInv, UNCHANGED <<cpc, cmd, slot>>,
         \A d \in Conns : pc[d] # "out" => pc'[d] # "out",
         closed \subseteq closed',
         \A d \in closed' \cup doomed' : d \in closed \cup doomed \cup guests,
         \A d \in guests' : d \in guests \/ pc[d] = "out",
         \A i \in DOMAIN toHost' : IsResult(i)' => \E j \in DOMAIN toHost : IsResult(j) /\ toHost'[i] = toHost[j]
  PROVE  KickInv'
<1>1. \A c \in Conns : Out(c) => OutNext(c)
  BY OutKept
<1>2. /\ RegistryTypeOK /\ doomed \subseteq Conns /\ \A c \in guests : pc[c] # "out"
      /\ cpc[Reader] \in {"close", "leave"} => cmd[Reader].who \in Conns
      /\ cpc[Reader] = "reply" /\ cmd[Reader].ok => cmd[Reader].who \in Conns
  BY DEF TypeOK
<1>3. \A d \in closed' \cup doomed' : pc'[d] # "out"
  BY <1>2 DEF KickInv, RegistryTypeOK
<1>4. ASSUME NEW i \in DOMAIN toHost', IsResult(i)', toHost'[i].op = "kick", toHost'[i].ok PROVE OutNext(toHost'[i].who)
  <2>1. PICK j \in DOMAIN toHost : IsResult(j) /\ toHost'[i] = toHost[j]
    BY <1>4
  <2>2. Out(toHost[j].who)
    BY <1>4, <2>1 DEF KickInv
  <2>3. toHost[j].who \in Conns
    BY <1>2, <2>2 DEF Out, RegistryTypeOK
  <2> QED
    BY <1>1, <2>1, <2>2, <2>3
<1>5. Held' /\ Head(slot').op = "kick" /\ Head(slot').ok => OutNext(Head(slot').who)
  <2>1. Held /\ Head(slot).op = "kick" /\ Head(slot).ok => Out(Head(slot).who) /\ Head(slot).who \in Conns
    BY <1>2 DEF KickInv, Out, RegistryTypeOK
  <2> QED
    BY <1>1, <2>1 DEF Held
<1>6. /\ cpc'[Reader] \in {"close", "leave"} => pc'[cmd'[Reader].who] # "out"
      /\ cpc'[Reader] = "leave" => cmd'[Reader].who \in closed'
      /\ cpc'[Reader] = "tell" => cmd'[Reader].op # "kick"
      /\ cpc'[Reader] = "reply" /\ cmd'[Reader].op = "kick" /\ cmd'[Reader].ok => OutNext(cmd'[Reader].who)
  BY <1>1, <1>2 DEF KickInv
<1> QED
  BY <1>3, <1>4, <1>5, <1>6 DEF KickInv, Out, OutNext

LEMMA AsideKick ==
  ASSUME TypeOK, KickInv, Aside
  PROVE  KickInv'
<1>1. UNCHANGED <<cpc, cmd, slot, toHost>>
  BY AsideFacts
<1>2. \A i \in DOMAIN toHost' : IsResult(i)' => \E j \in DOMAIN toHost : IsResult(j) /\ toHost'[i] = toHost[j]
  BY <1>1 DEF IsResult
<1>3. /\ \A d \in Conns : pc[d] # "out" => pc'[d] # "out"
      /\ closed \subseteq closed'
      /\ \A d \in closed' \cup doomed' : d \in closed \cup doomed \cup guests
      /\ \A d \in guests' : d \in guests \/ pc[d] = "out"
  <2>1. ASSUME NEW c \in Conns,
               Quiet(HandlerStep(c)) \/ JoinFound(c) \/ TypeChunk(c) \/ Quiet(Disconnect(c)) \/ Quiet(Drop(c))
        PROVE  /\ doomed' = doomed
               /\ ReadFlag(c) \/ Greet(c) \/ Warn(c) \/ End(c) \/ Join(c) \/ ReadFrame(c) \/ Input(c) \/ Disconnect(c) \/ Drop(c)
    BY <2>1, Zenon DEF Quiet, HandlerStep, JoinFound, TypeChunk
  <2>2. CASE \E c \in Conns :
               Quiet(HandlerStep(c)) \/ JoinFound(c) \/ TypeChunk(c) \/ Quiet(Disconnect(c)) \/ Quiet(Drop(c))
    BY <2>1, <2>2, HandlerList
  <2>3. CASE (\E c \in Conns : LookUp(c)) \/ ReadFails \/ Lose \/ Unlist \/ UNCHANGED vars
    <3>1. UNCHANGED <<pc, closed, doomed, guests>>
      BY <2>3, Zenon DEF LookUp, ReadFails, Lose, Unlist, vars, registryVars
    <3> QED
      BY <3>1
  <2>4. CASE (\E c \in Conns : CloseDoomed(c)) \/ CloseAll
    BY <2>4 DEF CloseDoomed, CloseAll
  <2> QED
    BY <2>2, <2>3, <2>4, Zenon DEF Aside
<1> QED
  BY <1>1, <1>2, <1>3, KickKept

\* The host's side moves no guest.
LEMMA HostKick ==
  ASSUME TypeOK, KickInv,
         \/ \E k \in Callers, op \in Ops, n \in Names : Give(k, op, n)
         \/ \E k \in Callers : Send(k) \/ SendFails(k) \/ Take(k) \/ Timeout(k)
         \/ ReadInput \/ ReadResult
  PROVE  KickInv'
<1>1. UNCHANGED <<cpc, cmd, pc, closed, doomed, guests>>
  BY Zenon DEF Give, Send, SendFails, Take, Timeout, ReadInput, ReadResult, registryVars
<1>2. slot' \in {slot, << >>} \/ (ReadResult /\ slot' = <<Head(toHost)>>)
  BY Zenon DEF Give, Send, SendFails, Take, Timeout, Return, ReadInput, ReadResult
<1>3. toHost' = toHost \/ (toHost # << >> /\ toHost' = Tail(toHost))
  BY Zenon DEF Give, Send, SendFails, Take, Timeout, ReadInput, ReadResult
<1>4. \A c : OutNext(c) <=> Out(c)
  BY <1>1 DEF Out, OutNext
<1>5. \A i \in DOMAIN toHost' : IsResult(i)' => \E j \in DOMAIN toHost : IsResult(j) /\ toHost'[i] = toHost[j]
  <2>1. CASE toHost' = toHost
    BY <2>1 DEF IsResult
  <2>2. CASE toHost # << >> /\ toHost' = Tail(toHost)
    BY <2>2, ReadAt DEF IsResult
  <2> QED
    BY <1>3, <2>1, <2>2
<1>6. Held' /\ Head(slot').op = "kick" /\ Head(slot').ok => OutNext(Head(slot').who)
  <2>1. CASE slot' = slot
    BY <1>4, <2>1 DEF KickInv, Held
  <2>2. CASE slot' = << >>
    BY <2>2 DEF Held
  <2>3. CASE ReadResult /\ slot' = <<Head(toHost)>>
    <3>1. toHost # << >> /\ Head(toHost).kind = "result"
      BY <2>3 DEF ReadResult
    <3>2. Head(toHost) = toHost[1] /\ 1 \in DOMAIN toHost
      <4>1. toHost \in Seq(Frames)
        BY DEF TypeOK, Frames
      <4> QED
        BY <3>1, <4>1, TailAt
    <3>3. Head(slot') = toHost[1] /\ IsResult(1)
      BY <2>3, <3>1, <3>2 DEF IsResult
    <3> QED
      BY <1>4, <3>2, <3>3 DEF KickInv
  <2> QED
    BY <1>2, <2>1, <2>2, <2>3
<1>7. \A i \in DOMAIN toHost' : IsResult(i)' /\ toHost'[i].op = "kick" /\ toHost'[i].ok => OutNext(toHost'[i].who)
  BY <1>4, <1>5 DEF KickInv
<1> QED
  BY <1>1, <1>4, <1>6, <1>7 DEF KickInv, Out, OutNext

LEMMA ServeKick ==
  ASSUME TypeOK, KickInv, ServeCommand
  PROVE  KickInv'
<1>1. UNCHANGED <<pc, closed, doomed, guests, toHost, slot>>
  BY DEF ServeCommand, Command
<1>2. \/ \E c \in guests : /\ cmd'[Reader].who = c /\ cmd'[Reader].op = Head(toRelay).op
                           /\ cpc'[Reader] \in {"tell", "close"}
                           /\ cpc'[Reader] = "tell" => Head(toRelay).op # "kick"
      \/ cmd'[Reader].ok = FALSE /\ cpc'[Reader] = "reply"
  BY ServeFacts
<1>3. \A c \in guests : pc[c] # "out"
  BY DEF TypeOK
<1>4. \A c : OutNext(c) <=> Out(c)
  BY <1>1 DEF Out, OutNext
<1>5. \A i \in DOMAIN toHost' : IsResult(i)' <=> IsResult(i)
  BY <1>1 DEF IsResult
<1> QED
  BY <1>1, <1>2, <1>3, <1>4, <1>5 DEF KickInv, Held, Out, OutNext

LEMMA CommandStepKick ==
  ASSUME TypeOK, KickInv, Quiet(CommandStep(Reader))
  PROVE  KickInv'
<1>1. /\ UNCHANGED <<toHost, slot, doomed, pc>> /\ guests' \subseteq guests /\ cmd[Reader].who \in Conns
      /\ cmd'[Reader].op = cmd[Reader].op /\ cmd'[Reader].who = cmd[Reader].who
  BY CommandStepFacts
<1>2. Reader \in Controllers /\ RegistryTypeOK
  BY ReaderAssumption DEF TypeOK
<1>3. \/ TellGuest(Reader) /\ cpc[Reader] = "tell" /\ cpc'[Reader] = "reply" /\ closed' = closed
      \/ CloseGuest(Reader) /\ cpc[Reader] = "close" /\ cpc'[Reader] = "leave" /\ closed' = closed \cup {cmd[Reader].who}
      \/ /\ KickLeave(Reader) /\ cpc[Reader] = "leave" /\ cpc'[Reader] = "reply" /\ closed' = closed
         /\ guests' = guests \ {cmd[Reader].who}
  BY <1>2 DEF Quiet, CommandStep, TellGuest, CloseGuest, KickLeave, Finish, Without, RegistryTypeOK
<1>4. closed \subseteq closed' /\ \A c \in Conns : Out(c) => OutNext(c)
  BY <1>1, <1>3 DEF Out, OutNext
<1>5. \A i \in DOMAIN toHost' : IsResult(i)' /\ toHost'[i].op = "kick" /\ toHost'[i].ok => OutNext(toHost'[i].who)
  BY <1>1, <1>2, <1>4 DEF KickInv, IsResult, Out, OutNext, RegistryTypeOK
<1>6. Held' /\ Head(slot').op = "kick" /\ Head(slot').ok => OutNext(Head(slot').who)
  BY <1>1, <1>2, <1>4 DEF KickInv, Held, Out, RegistryTypeOK
<1>7. \A c \in closed' \cup doomed' : pc'[c] # "out"
  BY <1>1, <1>3 DEF KickInv
<1>8. /\ cpc'[Reader] \in {"close", "leave"} => pc'[cmd'[Reader].who] # "out"
      /\ cpc'[Reader] = "leave" => cmd'[Reader].who \in closed'
      /\ cpc'[Reader] = "tell" => cmd'[Reader].op # "kick"
      /\ cpc'[Reader] = "reply" /\ cmd'[Reader].op = "kick" /\ cmd'[Reader].ok => OutNext(cmd'[Reader].who)
  BY <1>1, <1>3 DEF KickInv, Out, OutNext
<1> QED
  BY <1>5, <1>6, <1>7, <1>8 DEF KickInv, Out, OutNext

LEMMA ReplyKick ==
  ASSUME TypeOK, KickInv, Reply
  PROVE  KickInv'
<1>1. /\ cpc[Reader] = "reply" /\ cpc'[Reader] = "idle" /\ Arrives(ResultFrame)
      /\ UNCHANGED <<pc, closed, doomed, guests, slot>>
  BY ReaderAssumption DEF Reply, Replied, TypeOK, RegistryTypeOK
<1>2. PICK f \in Frames : f = ResultFrame
  BY <1>1, FrameTypes DEF Frames
<1>3. f.op = cmd[Reader].op /\ f.ok = cmd[Reader].ok /\ f.who = cmd[Reader].who /\ Arrives(f)
  BY <1>1, <1>2 DEF ResultFrame
<1>4. \A i \in DOMAIN toHost' : (i \in DOMAIN toHost /\ toHost'[i] = toHost[i]) \/ toHost'[i] = f
  BY <1>3, ArrivesAt
<1>5. \A c : OutNext(c) <=> Out(c)
  BY <1>1 DEF Out, OutNext
<1>6. \A i \in DOMAIN toHost' : IsResult(i)' /\ toHost'[i].op = "kick" /\ toHost'[i].ok => OutNext(toHost'[i].who)
  BY <1>1, <1>3, <1>4, <1>5 DEF KickInv, IsResult
<1> QED
  BY <1>1, <1>5, <1>6 DEF KickInv, Held, Out, OutNext

LEMMA ForwardKick ==
  ASSUME TypeOK, KickInv, NEW c \in Conns, Forward(c)
  PROVE  KickInv'
<1>1. Arrives(InputFrame(c)) /\ Written(c) /\ UNCHANGED <<slot, cpc, cmd, doomed>>
  BY DEF Forward, Written
<1>2. PICK f \in Frames : f = InputFrame(c) /\ f.kind = "input"
  BY FrameTypes DEF InputFrame
<1>3. \A i \in DOMAIN toHost' : IsResult(i)' => \E j \in DOMAIN toHost : IsResult(j) /\ toHost'[i] = toHost[j]
  BY <1>1, <1>2, ArrivesAt DEF IsResult
<1> QED
  BY <1>1, <1>3, HandlerList, KickKept

LEMMA KickStep == TypeOK /\ KickInv /\ [Next]_vars => KickInv'
<1> SUFFICES ASSUME TypeOK, KickInv, [Next]_vars PROVE KickInv'
  OBVIOUS
<1> QED
  BY Steps, HostKick, ServeKick, CommandStepKick, ReplyKick, ForwardKick, AsideKick

LEMMA InitKick == Init => KickInv
BY ReaderAssumption DEF Init, RegistryInit, KickInv, Held

\* What a kick's result says, wherever it is, is so.
THEOREM KicksDone == Spec => []KickInv
<1>1. Init => KickInv
  BY InitKick
<1>2. TypeOK /\ KickInv /\ [Next]_vars => KickInv'
  BY KickStep
<1> QED
  BY <1>1, <1>2, TypeCorrect, PTL DEF Spec

-----------------------------------------------------------------------------
(* What Control sees *)

\* Somewhere there is word that the command of this number is about w.
Tells(n, w) ==
  \/ Busy /\ serving = n /\ cmd[Reader].who = w
  \/ \E i \in DOMAIN toHost : IsResult(i) /\ toHost[i].n = n /\ toHost[i].who = w
  \/ Held /\ Head(slot).n = n /\ Head(slot).who = w

NewsOf(k) == {w \in Conns \cup {None} : ctlMu = k /\ Tells(call[k].n, w)}
Seen == News = [k \in Callers |-> NewsOf(k)]

\* A caller that is idle waits for nothing.
IdleCalls == \A k \in Callers : kpc[k] = "idle" => call[k] = NoCall

LEMMA SeenNews == (TypeOK => Seen) /\ (TypeOK' => Seen')
<1>1. TypeOK => Seen
  <2> SUFFICES ASSUME TypeOK PROVE Seen
    OBVIOUS
  <2> SUFFICES ASSUME NEW k \in Callers, ctlMu = k
               PROVE  NewsAtRelay(call[k].n) \cup NewsOnWire(call[k].n) \cup NewsInSlot(call[k].n) = NewsOf(k)
    BY DEF Seen, News, NewsOf
  <2> DEFINE n == call[k].n
  <2> HIDE DEF n
  <2>1. \A w : w \in NewsAtRelay(n) <=> w \in Conns \cup {None} /\ Busy /\ serving = n /\ cmd[Reader].who = w
    <3>1. cmd[Reader].who \in Conns \cup {None}
      BY ReaderAssumption DEF TypeOK, RegistryTypeOK
    <3> QED
      BY <3>1, ReaderAssumption DEF NewsAtRelay, Busy
  <2>2. \A w : w \in NewsOnWire(n) <=>
                 w \in Conns \cup {None} /\ \E i \in DOMAIN toHost : IsResult(i) /\ toHost[i].n = n /\ toHost[i].who = w
    <3>1. \A i \in DOMAIN toHost : toHost[i].who \in Conns \cup {None}
      <4>1. \A f \in Frames : f.who \in Conns \cup {None}
        BY DEF Frames, InputFrames, Results
      <4>2. \A i \in DOMAIN toHost : toHost[i] \in Frames
        BY DEF TypeOK, Frames
      <4> QED
        BY <4>1, <4>2
    <3> QED
      BY <3>1 DEF NewsOnWire, IsResult
  <2>3. \A w : w \in NewsInSlot(n) <=> w \in Conns \cup {None} /\ Held /\ Head(slot).n = n /\ Head(slot).who = w
    <3>1. slot \in Seq(Results) /\ Len(slot) <= 1
      BY DEF TypeOK
    <3>2. (Held => DOMAIN slot = {1}) /\ (~Held => DOMAIN slot = {})
      <4>1. DOMAIN slot = 1 .. Len(slot) /\ Len(slot) \in Nat /\ (Len(slot) = 0 <=> slot = << >>)
        BY <3>1
      <4> QED
        BY <3>1, <4>1 DEF Held
    <3>3. Held => Head(slot) = slot[1] /\ slot[1] \in Results
      BY <3>1 DEF Held
    <3>4. Held => slot[1].who \in Conns \cup {None}
      BY <3>3 DEF Results
    <3> QED
      BY <3>2, <3>3, <3>4 DEF NewsInSlot
  <2>4. NewsAtRelay(n) \cup NewsOnWire(n) \cup NewsInSlot(n) = {w \in Conns \cup {None} : Tells(n, w)}
    BY <2>1, <2>2, <2>3, Zenon DEF Tells
  <2> QED
    BY <2>4 DEF NewsOf, n
<1> QED
  BY <1>1, PTL

\* There is at most one piece of news of a call.
LEMMA NewsOnce ==
  ASSUME TypeOK, Flow, NEW k \in Callers, NEW v \in NewsOf(k), NEW w \in NewsOf(k)
  PROVE  v = w
<1>1. ctlMu = k /\ Tells(call[k].n, v) /\ Tells(call[k].n, w)
  BY DEF NewsOf
<1>2. PICK o \in Orders : call[k] = o
  BY <1>1, ReaderAssumption DEF TypeOK
<1>3. LastIs(o)
  BY <1>1, <1>2 DEF Flow, Newest
<1>4. toHost \in Seq(Frames)
  BY DEF TypeOK, Frames
<1>5. CASE Served(o.n)
  BY <1>1, <1>2, <1>3, <1>5 DEF Tells, LastIs, Served, Arrived
<1>6. CASE Arrived(o.n)
  BY <1>1, <1>2, <1>3, <1>6 DEF Tells, LastIs, Arrived
<1>7. CASE ~Served(o.n) /\ ~Arrived(o.n)
  <2>1. PICK i \in DOMAIN toHost : IsResult(i) /\ toHost[i].n = o.n /\ toHost[i].who = v
    BY <1>1, <1>2, <1>7 DEF Tells, Served, Arrived
  <2>2. PICK j \in DOMAIN toHost : IsResult(j) /\ toHost[j].n = o.n /\ toHost[j].who = w
    BY <1>1, <1>2, <1>7 DEF Tells, Served, Arrived
  <2>3. i <= j /\ j <= i
    BY <1>3, <2>1, <2>2 DEF LastIs
  <2>4. i = j
    BY <1>4, <2>3
  <2> QED
    BY <2>1, <2>2, <2>4
<1> QED
  BY <1>5, <1>6, <1>7

\* There is none of a command that is not under way, or is still on its way to the relay.
LEMMA NoNews ==
  ASSUME TypeOK, Flow, NEW k \in Callers, kpc[k] = "queued" \/ ctlMu # k \/ toRelay # << >>
  PROVE  NewsOf(k) = {}
<1> SUFFICES ASSUME NEW w \in NewsOf(k) PROVE FALSE
  OBVIOUS
<1>1. ctlMu = k /\ Tells(call[k].n, w)
  BY DEF NewsOf
<1>2. kpc[k] = "waiting"
  BY <1>1 DEF TypeOK
<1>3. PICK o \in Orders : call[k] = o
  BY <1>2 DEF TypeOK
<1>4. LastIs(o)
  BY <1>1, <1>3 DEF Flow, Newest
<1> QED
  BY <1>1, <1>2, <1>3, <1>4 DEF LastIs, Tells, Served, Arrived

LEMMA CallsKept ==
  ASSUME TypeOK, TypeOK', UNCHANGED <<kpc, call, ctlMu, toRelay, timedOut, granted>>,
         \A k \in Callers : NewsOf(k)' = NewsOf(k)
  PROVE  UNCHANGED C!calls
<1>1. News' = News
  BY SeenNews DEF Seen
<1>2. Todo' = Todo
  BY DEF Todo, Sent
<1>3. Overdue' = Overdue
  BY <1>2 DEF Overdue
<1> QED
  BY <1>1, <1>2, <1>3 DEF C!calls

\* News moves on, or is lost.
LEMMA LessNews ==
  ASSUME TypeOK, TypeOK', Flow, UNCHANGED <<kpc, call, ctlMu, toRelay, timedOut, granted>>, UNCHANGED C!list,
         \A k \in Callers : NewsOf(k)' \subseteq NewsOf(k)
  PROVE  UNCHANGED C!vars \/ \E k \in Callers : C!Lose(k)
<1>1. CASE \A k \in Callers : NewsOf(k)' = NewsOf(k)
  BY <1>1, CallsKept DEF C!vars
<1>2. CASE \E k \in Callers : NewsOf(k)' # NewsOf(k)
  <2>1. PICK k \in Callers : NewsOf(k)' # NewsOf(k)
    BY <1>2
  <2>2. NewsOf(k)' = {}
    BY <2>1, NewsOnce
  <2>3. \A j \in Callers : j # k => NewsOf(j)' = NewsOf(j)
    <3>1. PICK w : w \in NewsOf(k)
      BY <2>1, <2>2
    <3>2. ctlMu = k
      BY <3>1 DEF NewsOf
    <3> QED
      BY <3>2 DEF NewsOf
  <2>4. News' = [News EXCEPT ![k] = {}]
    BY <2>2, <2>3, SeenNews DEF Seen
  <2>5. Todo' = Todo
    BY DEF Todo, Sent
  <2>6. Overdue' = Overdue
    BY <2>5 DEF Overdue
  <2> QED
    BY <2>4, <2>5, <2>6 DEF C!Lose
<1> QED
  BY <1>1, <1>2

\* The readers of both connections move news, and make none.
LEMMA ReadersRefine ==
  ASSUME TypeOK, TypeOK', Flow,
         ReadInput \/ ReadResult \/ Reply \/ \E c \in Conns : Forward(c)
  PROVE  UNCHANGED C!vars \/ \E k \in Callers : C!Lose(k)
<1>1. UNCHANGED <<kpc, call, ctlMu, toRelay, timedOut, granted>>
  BY Zenon DEF ReadInput, ReadResult, Reply, Forward
<1>2. UNCHANGED C!list
  BY DEF ReadInput, ReadResult, Reply, Replied, Forward, Written, C!list, May, registryVars
<1>3. ASSUME NEW k \in Callers, NEW w, Tells(call[k].n, w)' PROVE Tells(call[k].n, w)
  <2> DEFINE n == call[k].n
  <2>0. n' = n
    BY <1>1
  <2> HIDE DEF n
  <2>1. CASE ReadInput
    <3>1. toHost # << >> /\ toHost' = Tail(toHost) /\ UNCHANGED <<slot, cpc, cmd, serving>>
      BY <2>1, Zenon DEF ReadInput, registryVars
    <3> QED
      BY <1>1, <1>3, <3>1, ReadAt DEF Tells, Busy, Held, IsResult
  <2>2. CASE ReadResult
    <3>1. /\ toHost # << >> /\ toHost' = Tail(toHost) /\ UNCHANGED <<cpc, cmd, serving>> /\ Head(toHost).kind = "result"
          /\ slot' = slot \/ slot' = <<Head(toHost)>>
      BY <2>2, Zenon DEF ReadResult, registryVars
    <3>2. /\ Head(toHost) = toHost[1] /\ 1 \in DOMAIN toHost /\ IsResult(1)
          /\ \A i \in DOMAIN toHost' : i + 1 \in DOMAIN toHost /\ toHost'[i] = toHost[i + 1]
      BY <3>1, ReadAt DEF IsResult
    <3>3. CASE slot' = slot
      BY <1>1, <1>3, <3>1, <3>2, <3>3 DEF Tells, Busy, Held, IsResult
    <3>4. CASE slot' = <<Head(toHost)>>
      <4>1. Head(slot') = toHost[1]
        BY <3>2, <3>4
      <4> QED
        BY <1>1, <1>3, <3>1, <3>2, <4>1 DEF Tells, Busy, Held, IsResult
    <3> QED
      BY <3>1, <3>3, <3>4
  <2>3. CASE Reply
    <3>1. Busy /\ cpc'[Reader] = "idle" /\ cpc[Reader] = "reply" /\ Arrives(ResultFrame) /\ UNCHANGED slot
      BY <2>3, ReaderAssumption DEF Reply, Replied, TypeOK, RegistryTypeOK, Busy
    <3>2. PICK g \in Frames : g = ResultFrame
      BY <3>1, FrameTypes DEF Frames
    <3>3. g.n = serving /\ g.who = cmd[Reader].who
      BY <3>2 DEF ResultFrame
    <3>4. \A i \in DOMAIN toHost' : (i \in DOMAIN toHost /\ toHost'[i] = toHost[i]) \/ toHost'[i] = g
      BY <3>1, <3>2, ArrivesAt
    <3> QED
      BY <1>1, <1>3, <3>1, <3>3, <3>4 DEF Tells, Busy, Held, IsResult
  <2>4. CASE \E c \in Conns : Forward(c)
    <3>1. PICK c \in Conns : Forward(c)
      BY <2>4
    <3>2. Arrives(InputFrame(c)) /\ UNCHANGED <<slot, cpc, cmd, serving>>
      BY <3>1 DEF Forward, Written
    <3>3. PICK g \in Frames : g = InputFrame(c) /\ g.kind = "input"
      BY FrameTypes DEF InputFrame
    <3>4. \A i \in DOMAIN toHost' : (i \in DOMAIN toHost /\ toHost'[i] = toHost[i]) \/ toHost'[i] = g
      BY <3>2, <3>3, ArrivesAt
    <3> QED
      BY <1>1, <1>3, <3>2, <3>3, <3>4 DEF Tells, Busy, Held, IsResult
  <2> QED
    BY <2>1, <2>2, <2>3, <2>4
<1>4. \A k \in Callers : NewsOf(k)' \subseteq NewsOf(k)
  BY <1>1, <1>3 DEF NewsOf
<1> QED
  BY <1>1, <1>2, <1>4, LessNews

LEMMA GiveRefines ==
  ASSUME TypeOK, TypeOK', Flow, Flow', IdleCalls, NEW k \in Callers, NEW op \in Ops, NEW n \in Names, Give(k, op, n)
  PROVE  IdleCalls' /\ \E o \in Orders : C!Give(k, o)
<1>1. /\ UNCHANGED <<ctlMu, slot, timedOut, toRelay, toHost, serving, cpc, cmd, granted>>
      /\ UNCHANGED <<guests, name, writable, closed>>
  BY DEF Give, registryVars
<1>2. /\ kpc' = [kpc EXCEPT ![k] = "queued"] /\ kpc[k] = "idle" /\ given + 1 \in 1 .. MaxCalls
      /\ call' = [call EXCEPT ![k] = [n |-> given + 1, op |-> op, name |-> n]]
  BY BoundsAssumption DEF Give, TypeOK
<1>3. PICK o \in Orders : o = [n |-> given + 1, op |-> op, name |-> n]
  BY <1>2 DEF Orders
<1>4. call' = [call EXCEPT ![k] = o] /\ call[k] = NoCall /\ ctlMu # k
  BY <1>2, <1>3 DEF IdleCalls, TypeOK
<1>5. kpc'[k] = "queued" /\ \A j \in Callers : j # k => call'[j] = call[j] /\ kpc'[j] = kpc[j]
  BY <1>2 DEF TypeOK
<1>6. IdleCalls'
  BY <1>5 DEF IdleCalls
<1>7. Todo' = Todo \cup {k}
  BY <1>1, <1>4, <1>5 DEF Todo, Sent
<1>8. Overdue' = Overdue
  BY <1>1, <1>4, <1>7 DEF Overdue
<1>9. News' = News
  <2>1. \A j \in Callers : NewsOf(j)' = NewsOf(j)
    BY <1>1, <1>4, <1>5 DEF NewsOf, Tells, Busy, Held, IsResult
  <2> QED
    BY <2>1, SeenNews DEF Seen
<1>10. UNCHANGED C!list
  BY <1>1 DEF C!list, May
<1> QED
  BY <1>1, <1>4, <1>6, <1>7, <1>8, <1>9, <1>10 DEF C!Give

\* The sequence without its last element.
LEMMA AppendFront ==
  ASSUME NEW S, NEW s \in Seq(S), NEW x \in S
  PROVE  SubSeq(Append(s, x), 1, Len(Append(s, x)) - 1) = s
<1>1. Append(s, x) \in Seq(S) /\ Len(Append(s, x)) = Len(s) + 1 /\ Len(s) \in Nat
  OBVIOUS
<1>2. SubSeq(Append(s, x), 1, Len(s)) = s
  <2>1. \A i \in 1 .. Len(s) : Append(s, x)[i] = s[i]
    OBVIOUS
  <2> QED
    BY <1>1, <2>1
<1> QED
  BY <1>1, <1>2

LEMMA FrontAppend ==
  ASSUME NEW S, NEW s \in Seq(S), s # << >>
  PROVE  Append(SubSeq(s, 1, Len(s) - 1), s[Len(s)]) = s
OBVIOUS

LEMMA FrontTail ==
  ASSUME NEW S, NEW s \in Seq(S), Len(s) > 1
  PROVE  /\ SubSeq(s, 1, Len(s) - 1) # << >> /\ Head(SubSeq(s, 1, Len(s) - 1)) = Head(s)
         /\ Tail(SubSeq(s, 1, Len(s) - 1)) = SubSeq(Tail(s), 1, Len(Tail(s)) - 1)
<1> DEFINE front == SubSeq(s, 1, Len(s) - 1)
           rest == SubSeq(Tail(s), 1, Len(Tail(s)) - 1)
<1>1. front \in Seq(S) /\ Len(front) = Len(s) - 1 /\ Len(s) \in Nat /\ \A i \in 1 .. Len(front) : front[i] = s[i]
  OBVIOUS
<1>2. /\ Tail(s) \in Seq(S) /\ Len(Tail(s)) = Len(s) - 1
      /\ \A i \in 1 .. Len(Tail(s)) : Tail(s)[i] = s[i + 1]
  OBVIOUS
<1> HIDE DEF front
<1>3. /\ Tail(front) \in Seq(S) /\ Len(Tail(front)) = Len(s) - 2 /\ front # << >> /\ Head(front) = s[1]
      /\ \A i \in 1 .. Len(Tail(front)) : Tail(front)[i] = s[i + 1]
  BY <1>1
<1>4. rest \in Seq(S) /\ Len(rest) = Len(s) - 2 /\ \A i \in 1 .. Len(rest) : rest[i] = s[i + 1]
  BY <1>2
<1> HIDE DEF rest
<1>5. Tail(front) = rest
  BY <1>3, <1>4, SeqEqual
<1> QED
  BY <1>3, <1>5 DEF front, rest

\* A command that is sent may be lost.
LEMMA SendRefines ==
  ASSUME TypeOK, TypeOK', Flow, IdleCalls, NEW k \in Callers, Send(k)
  PROVE  IdleCalls' /\ (UNCHANGED C!vars \/ C!Lose(k))
<1>1. PICK o \in Orders : call[k] = o
  BY DEF Send, TypeOK
<1>2. /\ kpc[k] = "queued" /\ ctlMu = None /\ ctlMu' = k
      /\ toRelay' = IF linked THEN Append(toRelay, o) ELSE toRelay
      /\ UNCHANGED <<call, timedOut, granted, toHost, serving, cpc, cmd, guests, name, writable, closed>>
  BY <1>1, Zenon DEF Send, registryVars
<1>3. kpc'[k] = "waiting" /\ \A j \in Callers : j # k => kpc'[j] = kpc[j]
  BY DEF Send, TypeOK
<1>4. IdleCalls'
  BY <1>2, <1>3 DEF IdleCalls
<1>5. ~UnderWay(o.n)
  BY <1>1, <1>2 DEF Flow, Numbered
<1>6. News' = News
  <2>1. \A j \in Callers : NewsOf(j) = {}
    BY <1>2, ReaderAssumption DEF NewsOf
  <2>2. \A j \in Callers : j # k => NewsOf(j)' = {}
    BY <1>2 DEF NewsOf
  <2>3. NewsOf(k)' = {}
    <3>1. slot' = << >>
      BY DEF Send
    <3>2. \A w : ~Tells(o.n, w)'
      BY <1>2, <1>5, <3>1 DEF Tells, UnderWay, Served, Answered, Busy, Held, IsResult
    <3> QED
      BY <1>1, <1>2, <3>2 DEF NewsOf
  <2> QED
    BY <2>1, <2>2, <2>3, SeenNews DEF Seen
<1>7. k \in Todo /\ \A j \in Callers : j # k => (j \in Todo' <=> j \in Todo)
  BY <1>2, <1>3, ReaderAssumption DEF Todo
<1>8. Overdue = toRelay
  BY <1>2, ReaderAssumption DEF Overdue, Todo
<1>9. toRelay \in Seq(Orders)
  BY DEF TypeOK
<1>10. UNCHANGED C!list
  BY <1>2 DEF C!list, May
<1>11. CASE linked
  <2>1. toRelay' = Append(toRelay, o)
    BY <1>2, <1>11
  <2>2. Sent(k)'
    <3>1. Len(toRelay) + 1 \in DOMAIN toRelay' /\ toRelay'[Len(toRelay) + 1] = o
      BY <1>9, <2>1, AppendAt
    <3> QED
      BY <1>1, <1>2, <3>1 DEF Sent
  <2>3. k \in Todo'
    BY <1>2, <2>2 DEF Todo
  <2>4. Todo' = Todo
    BY <1>7, <2>3 DEF Todo
  <2>5. Overdue' = SubSeq(toRelay', 1, Len(toRelay') - 1)
    BY <1>2, <2>3 DEF Overdue
  <2>6. Overdue' = Overdue
    BY <1>8, <1>9, <2>1, <2>5, AppendFront
  <2> QED
    BY <1>2, <1>4, <1>6, <1>10, <2>4, <2>6 DEF C!vars, C!calls
<1>12. CASE ~linked
  <2>1. toRelay' = toRelay
    BY <1>2, <1>12
  <2>2. ~Sent(k)'
    BY <1>1, <1>2, <1>5, <2>1 DEF Sent, UnderWay, Ordered
  <2>3. k \notin Todo'
    BY <1>3, <2>2 DEF Todo
  <2>4. Todo' = Todo \ {k}
    BY <1>7, <2>3 DEF Todo
  <2>5. Overdue' = Overdue
    BY <1>2, <1>8, <2>1, <2>3 DEF Overdue
  <2> QED
    BY <1>2, <1>4, <1>6, <1>10, <2>4, <2>5 DEF C!Lose
<1> QED
  BY <1>11, <1>12

\* The end of a call.
LEMMA ReturnRefines ==
  ASSUME TypeOK, TypeOK', IdleCalls, NEW k \in Callers, Return(k), kpc[k] # "idle", ctlMu \in {k, None},
         UNCHANGED <<toRelay, guests, name, writable, closed>>
  PROVE  IdleCalls' /\ C!Return(k) /\ Overdue' = toRelay
<1>1. /\ kpc' = [kpc EXCEPT ![k] = "idle"] /\ call' = [call EXCEPT ![k] = NoCall] /\ ctlMu' = None
      /\ call[k] \in Orders
  BY DEF Return, TypeOK
<1>2. /\ kpc'[k] = "idle" /\ call'[k] = NoCall
      /\ \A j \in Callers : j # k => kpc'[j] = kpc[j] /\ call'[j] = call[j]
  BY <1>1 DEF TypeOK
<1>3. IdleCalls'
  BY <1>2 DEF IdleCalls
<1>4. call[k] # NoCall
  BY <1>1 DEF Orders, NoCall
<1>5. News' = [News EXCEPT ![k] = {}]
  <2>1. \A j \in Callers : NewsOf(j)' = {}
    BY <1>1, ReaderAssumption DEF NewsOf
  <2>2. \A j \in Callers : j # k => NewsOf(j) = {}
    BY ReaderAssumption DEF NewsOf
  <2> QED
    BY <2>1, <2>2, SeenNews DEF Seen
<1>6. Todo' = Todo \ {k}
  <2>1. \A j \in Callers : j \in Todo' <=> kpc'[j] = "queued"
    BY <1>1, ReaderAssumption DEF Todo
  <2>2. \A j \in Callers : j # k => (j \in Todo <=> kpc[j] = "queued")
    BY ReaderAssumption DEF Todo
  <2> QED
    BY <1>2, <2>1, <2>2 DEF Todo
<1>7. Overdue' = toRelay
  BY <1>1, ReaderAssumption DEF Overdue, Todo
<1>8. UNCHANGED C!list
  BY DEF C!list, May
<1> QED
  BY <1>1, <1>3, <1>4, <1>5, <1>6, <1>7, <1>8 DEF C!Return

\* What was sent and not executed is overdue from then on.
LEMMA AbandonRefines ==
  ASSUME TypeOK, Flow, NEW k \in Callers, ctlMu = k, C!Return(k), Overdue' = toRelay
  PROVE  C!Abandon(k)
<1>1. kpc[k] = "waiting" /\ call[k] \in Orders
  BY DEF TypeOK
<1>2. LastIs(call[k])
  BY <1>1 DEF Flow, Newest
<1>3. CASE k \in Todo
  <2>1. PICK i \in DOMAIN toRelay : toRelay[i].n = call[k].n
    BY <1>1, <1>3 DEF Todo, Sent
  <2>2. i = Len(toRelay) /\ toRelay[i] = call[k]
    BY <1>2, <2>1 DEF LastIs
  <2>3. toRelay \in Seq(Orders) /\ toRelay # << >>
    BY <2>1 DEF TypeOK
  <2>4. Append(SubSeq(toRelay, 1, Len(toRelay) - 1), call[k]) = toRelay
    BY <2>2, <2>3, FrontAppend
  <2>5. Overdue = SubSeq(toRelay, 1, Len(toRelay) - 1)
    BY <1>3 DEF Overdue
  <2> QED
    BY <1>3, <2>4, <2>5 DEF C!Abandon
<1>4. CASE k \notin Todo
  BY <1>4 DEF Overdue, C!Abandon
<1> QED
  BY <1>3, <1>4

LEMMA EndOfCallRefines ==
  ASSUME TypeOK, TypeOK', Flow, KickInv, IdleCalls, NEW k \in Callers, SendFails(k) \/ Take(k) \/ Timeout(k)
  PROVE  IdleCalls' /\ (C!Refuse(k) \/ C!Answer(k) \/ C!GiveUp(k) \/ C!Mislead(k))
<1>1. /\ Return(k) /\ kpc[k] # "idle" /\ ctlMu \in {k, None}
      /\ UNCHANGED <<toRelay, guests, name, writable, closed>>
  BY Zenon DEF SendFails, Take, Timeout, registryVars, TypeOK
<1>2. IdleCalls' /\ C!Return(k) /\ Overdue' = toRelay
  BY <1>1, ReturnRefines
<1>3. CASE SendFails(k)
  <2>1. k \in Todo /\ Overdue = toRelay /\ UNCHANGED <<timedOut, granted>>
    BY <1>3, ReaderAssumption DEF SendFails, Todo, Overdue
  <2> QED
    BY <1>2, <2>1 DEF C!Refuse
<1>4. CASE Timeout(k)
  <2>1. ctlMu = k /\ timedOut' = TRUE /\ UNCHANGED granted
    BY <1>4, Zenon DEF Timeout, TypeOK
  <2> QED
    BY <1>2, <2>1, AbandonRefines DEF C!GiveUp
<1>5. CASE Take(k)
  <2>1. ctlMu = k /\ Held /\ UNCHANGED timedOut
    BY <1>5, Zenon DEF Take, TypeOK, Held
  <2>2. PICK r \in Results : r = Head(slot)
    BY <2>1 DEF TypeOK, Held
  <2>3. r.ok \in BOOLEAN /\ r.who \in Conns \cup {None} /\ r.ok = (r.who # None)
    BY <2>2, NamesAssumption DEF Results
  <2>4. call[k] \in Orders /\ call[k].op \in Ops
    BY <2>1 DEF TypeOK, Orders
  <2>5. granted' = C!After(call[k], r.ok)
    <3>1. granted' = IF r.ok /\ call[k].op \in {"allow", "deny"} THEN Granted(call[k].op, call[k].name) ELSE granted
      BY <1>5, <2>2 DEF Take
    <3> QED
      BY <2>4, <3>1 DEF C!After, Granted, Ops
  <2>6. CASE timedOut
    <3>1. C!Abandon(k)
      BY <1>2, <2>1, AbandonRefines
    <3> QED
      BY <1>2, <2>1, <2>3, <2>5, <2>6, <3>1 DEF C!Mislead
  <2>7. CASE ~timedOut
    <3>1. r.n = call[k].n /\ r.op = call[k].op /\ toRelay = << >>
      BY <2>1, <2>2, <2>7, OwnAlone DEF Held
    <3>2. r.who \in News[k]
      <4>1. r.who \in NewsOf(k)
        BY <2>1, <2>2, <2>3, <3>1 DEF NewsOf, Tells
      <4> QED
        BY <4>1, SeenNews DEF Seen
    <3>3. call[k].op = "kick" /\ r.who # None => r.who \in closed \ guests
      BY <2>1, <2>2, <2>3, <3>1 DEF KickInv, Out
    <3>4. granted' = C!After(call[k], r.who # None)
      BY <2>3, <2>5
    <3>5. Overdue' = Overdue
      <4>1. ~Sent(k)
        BY <3>1 DEF Sent
      <4>2. k \notin Todo
        <5>1. kpc[k] # "queued"
          BY <2>1 DEF TypeOK
        <5> QED
          BY <4>1, <5>1 DEF Todo
      <4> QED
        BY <1>2, <2>1, <4>2 DEF Overdue
    <3> QED
      BY <1>2, <2>1, <3>2, <3>3, <3>4, <3>5 DEF C!Answer
  <2> QED
    BY <2>6, <2>7
<1> QED
  BY <1>3, <1>4, <1>5

\* The reader executes the oldest frame: an overdue command, or at last the
\* one that is waited for.
LEMMA ServeRefines ==
  ASSUME TypeOK, TypeOK', Flow, Flow', ServeCommand
  PROVE  \E w \in Conns \cup {None} : C!ExecuteOverdue(w) \/ \E k \in Callers : C!Execute(k, w)
<1>1. /\ UNCHANGED <<kpc, call, ctlMu, slot, toHost, timedOut, granted, guests, name, closed>>
      /\ serving' = Head(toRelay).n
  BY Zenon DEF ServeCommand, Command
<1>2. PICK h \in Orders : h = Head(toRelay)
  BY ServeFacts
<1>3. PICK w \in Conns \cup {None} : w = cmd'[Reader].who
  BY ReaderAssumption DEF TypeOK, RegistryTypeOK
<1>4. toRelay \in Seq(Orders) /\ toRelay # << >> /\ toRelay' = Tail(toRelay)
  BY ServeFacts DEF TypeOK
<1>5. /\ DOMAIN toRelay = 1 .. Len(toRelay) /\ h = toRelay[1] /\ Len(toRelay) \in Nat /\ Len(toRelay) >= 1
      /\ Len(toRelay') = Len(toRelay) - 1 /\ toRelay' \in Seq(Orders)
      /\ \A i \in DOMAIN toRelay' : i \in Nat /\ i + 1 \in DOMAIN toRelay /\ toRelay'[i] = toRelay[i + 1]
  BY <1>2, <1>4, TailAt
<1>6. C!Effect(h, w)
  <2>1. UNCHANGED <<guests, name, closed>>
    BY <1>1
  <2>2. CASE w \in guests /\ name[w] = h.name
    <3>1. /\ h.op = "kick" => writable' = writable
          /\ h.op # "kick" => writable' = [writable EXCEPT ![w] = (h.op = "allow")]
      BY <1>2, <1>3, <2>2, ServeFacts, NamesAssumption DEF TypeOK, RegistryTypeOK
    <3>2. h.op \in Ops /\ writable \in [Conns -> BOOLEAN] /\ guests \subseteq Conns
      BY DEF Orders, TypeOK, RegistryTypeOK
    <3>3. May' = CASE h.op = "allow" -> May \cup {w} [] h.op = "deny" -> May \ {w} [] h.op = "kick" -> May
      BY <2>1, <2>2, <3>1, <3>2 DEF May, Ops
    <3> QED
      BY <2>1, <2>2, <3>3 DEF C!Effect
  <2>3. CASE w = None /\ h.name \notin Taken /\ writable' = writable
    <3>1. \A d \in guests : name[d] # h.name
      BY <2>3 DEF Taken
    <3>2. May' = May
      BY <2>1, <2>3 DEF May
    <3> QED
      BY <2>1, <2>3, <3>1, <3>2 DEF C!Effect
  <2> QED
    BY <1>2, <1>3, <2>2, <2>3, ServeFacts
<1>7. \A k \in Callers : NewsOf(k) = {}
  BY <1>4, NoNews
<1>8. \A k \in Callers, o \in Orders : ctlMu = k /\ call[k] = o => LastIs(o) /\ LastIs(o)'
  BY <1>1 DEF Flow, Newest
<1>9. CASE \E k \in Callers : ctlMu = k /\ Sent(k) /\ Len(toRelay) = 1
  <2>1. PICK k \in Callers : ctlMu = k /\ Sent(k) /\ Len(toRelay) = 1
    BY <1>9
  <2>2. call[k] \in Orders /\ kpc[k] = "waiting"
    BY <2>1 DEF TypeOK
  <2>3. call[k] = h
    <3>1. toRelay[1].n = call[k].n
      BY <1>5, <2>1 DEF Sent
    <3> QED
      BY <1>5, <1>8, <2>1, <2>2, <3>1 DEF LastIs
  <2>4. k \in Todo
    BY <2>1 DEF Todo
  <2>5. Overdue = << >>
    BY <2>1, <2>4 DEF Overdue
  <2>6. toRelay' = << >>
    BY <1>5, <2>1
  <2>7. Todo' = Todo \ {k}
    <3>1. \A j \in Callers : ~Sent(j)'
      BY <2>6 DEF Sent
    <3>2. \A j \in Callers : j \in Todo' <=> kpc[j] = "queued"
      BY <1>1, <3>1 DEF Todo
    <3>3. \A j \in Callers : j # k => (j \in Todo <=> kpc[j] = "queued")
      BY <2>1 DEF Todo
    <3> QED
      BY <2>2, <3>2, <3>3 DEF Todo
  <2>8. Overdue' = << >>
    BY <1>1, <2>1, <2>6, <2>7 DEF Overdue
  <2>9. News' = [News EXCEPT ![k] = {w}]
    <3>1. \A j \in Callers : j # k => NewsOf(j)' = {}
      BY <1>1, <2>1 DEF NewsOf
    <3>2. w \in NewsOf(k)'
      <4>1. Busy'
        <5>1. cpc'[Reader] \in {"tell", "close", "reply"}
          BY ServeFacts
        <5> QED
          BY <5>1 DEF Busy
      <4>2. serving' = call'[k].n /\ ctlMu' = k
        BY <1>1, <1>2, <2>1, <2>3
      <4> QED
        BY <1>3, <4>1, <4>2 DEF NewsOf, Tells
    <3>3. \A v \in NewsOf(k)' : v = w
      <4>1. LastIs(call[k])' /\ Served(call[k].n)'
        <5>1. cpc'[Reader] \in {"tell", "close", "reply"}
          BY ServeFacts
        <5> QED
          BY <1>1, <1>2, <1>8, <2>1, <2>2, <2>3, <5>1 DEF Served, Busy
      <4> QED
        BY <1>1, <1>3, <4>1 DEF NewsOf, Tells, LastIs, Served, Arrived
    <3>4. NewsOf(k)' = {w}
      BY <3>2, <3>3
    <3> QED
      BY <1>7, <3>1, <3>4, SeenNews DEF Seen
  <2> QED
    BY <1>1, <1>6, <2>3, <2>4, <2>5, <2>7, <2>8, <2>9 DEF C!Execute
<1>10. CASE ~\E k \in Callers : ctlMu = k /\ Sent(k) /\ Len(toRelay) = 1
  <2>1. ASSUME NEW k \in Callers, ctlMu = k
        PROVE  /\ h.n # call[k].n /\ (Sent(k)' <=> Sent(k)) /\ (Sent(k) => Len(toRelay) > 1)
    <3>1. PICK o \in Orders : o = call[k]
      BY <2>1 DEF TypeOK
    <3>2. \A i \in DOMAIN toRelay : toRelay[i].n = o.n => i = Len(toRelay) /\ toRelay[i] = o
      BY <1>8, <2>1, <3>1 DEF LastIs
    <3>3. Sent(k) => Len(toRelay) > 1
      BY <1>5, <1>10, <2>1
    <3>4. h.n # o.n
      BY <1>5, <3>1, <3>2, <3>3 DEF Sent
    <3>5. Sent(k)' => Sent(k)
      BY <1>1, <1>5 DEF Sent
    <3>6. ASSUME Sent(k) PROVE Sent(k)'
      <4>1. Len(toRelay) > 1 /\ toRelay[Len(toRelay)].n = call[k].n
        BY <3>1, <3>2, <3>3, <3>6 DEF Sent
      <4>2. Len(toRelay') \in DOMAIN toRelay' /\ toRelay'[Len(toRelay')] = toRelay[Len(toRelay)]
        BY <1>5, <4>1
      <4> QED
        BY <1>1, <4>1, <4>2 DEF Sent
    <3> QED
      BY <3>1, <3>3, <3>4, <3>5, <3>6
  <2>2. Todo' = Todo
    BY <1>1, <2>1 DEF Todo
  <2>3. News' = News
    <3>1. ASSUME NEW k \in Callers PROVE NewsOf(k)' = {}
      <4>1. CASE ctlMu # k
        BY <1>1, <4>1 DEF NewsOf
      <4>2. CASE ctlMu = k
        <5>1. h.n # call[k].n
          BY <2>1, <4>2
        <5>2. LastIs(call[k])
          BY <1>8, <4>2 DEF TypeOK
        <5> QED
          BY <1>1, <1>2, <1>4, <5>1, <5>2 DEF NewsOf, Tells, LastIs, Arrived, IsResult, Held
      <4> QED
        BY <4>1, <4>2
    <3> QED
      BY <1>7, <3>1, SeenNews DEF Seen
  <2>4. Overdue # << >> /\ Head(Overdue) = h /\ Overdue' = Tail(Overdue)
    <3>1. CASE ctlMu \in Todo
      <4>1. Len(toRelay) > 1
        <5>1. ctlMu \in Callers /\ kpc[ctlMu] = "waiting"
          BY <3>1 DEF Todo, TypeOK
        <5> QED
          BY <2>1, <3>1, <5>1 DEF Todo
      <4>2. Overdue = SubSeq(toRelay, 1, Len(toRelay) - 1) /\ Overdue' = SubSeq(toRelay', 1, Len(toRelay') - 1)
        BY <1>1, <2>2, <3>1 DEF Overdue
      <4> QED
        BY <1>2, <1>4, <4>1, <4>2, FrontTail
    <3>2. CASE ctlMu \notin Todo
      <4>1. Overdue = toRelay /\ Overdue' = toRelay'
        BY <1>1, <2>2, <3>2 DEF Overdue
      <4> QED
        BY <1>2, <1>4, <4>1
    <3> QED
      BY <3>1, <3>2
  <2> QED
    BY <1>1, <1>6, <2>2, <2>3, <2>4 DEF C!ExecuteOverdue
<1> QED
  BY <1>9, <1>10

\* A kick cuts the guest off, and then it leaves.
LEMMA CommandStepRefines ==
  ASSUME TypeOK, TypeOK', KickInv, Quiet(CommandStep(Reader))
  PROVE  UNCHANGED C!vars \/ \E c \in Conns : C!Cut(c) \/ C!Leave({c})
<1>1. /\ UNCHANGED <<kpc, call, ctlMu, toRelay, toHost, slot, serving, timedOut, granted, name, writable>>
      /\ Busy /\ Busy' /\ cmd'[Reader].who = cmd[Reader].who
  BY CommandStepFacts
<1>2. PICK c \in Conns : c = cmd[Reader].who
  BY CommandStepFacts
<1>3. UNCHANGED C!calls
  <2>1. \A k \in Callers : NewsOf(k)' = NewsOf(k)
    BY <1>1 DEF NewsOf, Tells, Held, IsResult
  <2> QED
    BY <1>1, <2>1, CallsKept
<1>4. CASE TellGuest(Reader)
  <2>1. UNCHANGED C!list
    BY <1>4 DEF TellGuest, C!list, May
  <2> QED
    BY <1>3, <2>1 DEF C!vars
<1>5. CASE CloseGuest(Reader)
  <2>1. closed' = closed \cup {c} /\ guests' = guests /\ May' = May
    BY <1>1, <1>2, <1>5 DEF CloseGuest, May
  <2> QED
    BY <1>1, <1>3, <2>1 DEF C!Cut
<1>6. CASE KickLeave(Reader)
  <2>1. c \in closed
    BY <1>2, <1>6 DEF KickLeave, KickInv
  <2>2. guests' = guests \ {c} /\ closed' = closed /\ May' = May \ {c}
    BY <1>1, <1>2, <1>6 DEF KickLeave, Without, May
  <2> QED
    BY <1>1, <1>3, <2>1, <2>2 DEF C!Leave
<1> QED
  BY <1>4, <1>5, <1>6 DEF Quiet, CommandStep

\* A guest enters with a name that nobody there has.
LEMMA JoinRefines ==
  ASSUME TypeOK, KickInv, UNCHANGED C!calls, NEW c \in Conns, Join(c)
  PROVE  \E n \in Names : C!Enter(c, n)
<1>1. c \notin guests \cup closed
  BY DEF Join, TypeOK, KickInv
<1>2. PICK n \in Names : n = FreeName(Wanted[c]) /\ n \notin Taken
  BY <1>1, FreeNameFacts DEF TypeOK
<1>3. \A d \in guests : name[d] # n
  BY <1>2 DEF Taken
<1>4. name' = [name EXCEPT ![c] = n] /\ guests' = guests \cup {c} /\ closed' = closed
      /\ writable' = [writable EXCEPT ![c] = defaultWritable]
  BY <1>2 DEF Join
<1>5. May' \in {May, May \cup {c}}
  <2>1. writable \in [Conns -> BOOLEAN] /\ guests \subseteq Conns /\ defaultWritable \in BOOLEAN
    BY DEF TypeOK, RegistryTypeOK
  <2>2. CASE defaultWritable = TRUE
    BY <1>4, <2>1, <2>2 DEF May
  <2>3. CASE defaultWritable = FALSE
    BY <1>1, <1>4, <2>1, <2>3 DEF May
  <2> QED
    BY <2>1, <2>2, <2>3
<1> QED
  BY <1>1, <1>3, <1>4, <1>5 DEF C!Enter

LEMMA HandlerRefines ==
  ASSUME TypeOK, KickInv, UNCHANGED C!calls, NEW c \in Conns,
         ReadFlag(c) \/ Greet(c) \/ Warn(c) \/ End(c) \/ Join(c) \/ ReadFrame(c) \/ Input(c) \/ Disconnect(c) \/ Drop(c)
  PROVE  UNCHANGED C!vars \/ C!Cut(c) \/ C!Leave({c}) \/ \E n \in Names : C!Enter(c, n)
<1>1. CASE ReadFlag(c) \/ Greet(c) \/ Warn(c) \/ ReadFrame(c) \/ Input(c)
  <2>1. UNCHANGED <<guests, name, writable, closed>>
    BY <1>1, Zenon DEF ReadFlag, Greet, Warn, ReadFrame, Input
  <2> QED
    BY <2>1 DEF C!vars, C!list, May
<1>2. CASE Join(c)
  BY <1>2, JoinRefines
<1>3. CASE Disconnect(c)
  <2>1. closed' = closed \cup {c} /\ UNCHANGED <<guests, name, writable>>
    BY <1>3 DEF Disconnect
  <2> QED
    BY <2>1 DEF C!Cut, May
<1>4. CASE End(c) \/ Drop(c)
  <2>1. /\ c \in closed /\ guests' = guests \ {c} /\ UNCHANGED <<name, closed>>
        /\ \A d \in Conns : d # c => writable'[d] = writable[d]
    BY <1>4 DEF End, Drop, Without, TypeOK, RegistryTypeOK
  <2>2. May' = May \ {c}
    BY <2>1 DEF May, TypeOK, RegistryTypeOK
  <2> QED
    BY <2>1, <2>2 DEF C!Leave
<1> QED
  BY <1>1, <1>2, <1>3, <1>4

LEMMA AsideRefines ==
  ASSUME TypeOK, TypeOK', KickInv, Aside
  PROVE  \/ UNCHANGED C!vars
         \/ \E c \in Conns : C!Cut(c) \/ C!Leave({c}) \/ \E n \in Names : C!Enter(c, n)
         \/ C!Leave(guests)
<1>1. UNCHANGED <<kpc, call, ctlMu, toRelay, toHost, slot, serving, timedOut, granted, cpc, cmd>>
  BY AsideFacts
<1>2. UNCHANGED C!calls
  <2>1. \A k \in Callers : NewsOf(k)' = NewsOf(k)
    BY <1>1 DEF NewsOf, Tells, Busy, Held, IsResult
  <2> QED
    BY <1>1, <2>1, CallsKept
<1>3. ASSUME NEW c \in Conns,
             Quiet(HandlerStep(c)) \/ JoinFound(c) \/ TypeChunk(c) \/ Quiet(Disconnect(c)) \/ Quiet(Drop(c))
      PROVE  ReadFlag(c) \/ Greet(c) \/ Warn(c) \/ End(c) \/ Join(c) \/ ReadFrame(c) \/ Input(c) \/ Disconnect(c) \/ Drop(c)
  BY <1>3, Zenon DEF Quiet, HandlerStep, JoinFound, TypeChunk
<1>4. CASE \E c \in Conns :
             Quiet(HandlerStep(c)) \/ JoinFound(c) \/ TypeChunk(c) \/ Quiet(Disconnect(c)) \/ Quiet(Drop(c))
  BY <1>2, <1>3, <1>4, HandlerRefines
<1>5. CASE (\E c \in Conns : LookUp(c)) \/ ReadFails \/ Lose \/ Unlist \/ UNCHANGED vars
  <2>1. UNCHANGED <<guests, name, writable, closed>>
    BY <1>5, Zenon DEF LookUp, ReadFails, Lose, Unlist, vars, registryVars
  <2> QED
    BY <1>2, <2>1 DEF C!vars, C!list, May
<1>6. CASE \E c \in Conns : CloseDoomed(c)
  <2>1. PICK c \in Conns : CloseDoomed(c)
    BY <1>6
  <2>2. closed' = closed \cup {c} /\ UNCHANGED <<guests, name, writable>>
    BY <2>1 DEF CloseDoomed
  <2>3. C!Cut(c)
    BY <1>2, <2>2 DEF C!Cut, May
  <2> QED
    BY <2>3
<1>7. CASE CloseAll
  <2>1. guests' = {} /\ UNCHANGED <<name, writable, closed>>
    BY <1>7 DEF CloseAll
  <2>2. May' = May \ guests
    BY <2>1 DEF May
  <2> QED
    BY <1>2, <2>1, <2>2 DEF C!Leave
<1> QED
  BY <1>4, <1>5, <1>6, <1>7, Zenon DEF Aside

\* Every step is one of Control's, or changes nothing that Control sees.
LEMMA StepRefines ==
  ASSUME TypeOK, TypeOK', Flow, Flow', KickInv, IdleCalls, [Next]_vars
  PROVE  IdleCalls' /\ [C!Next]_(C!vars)
<1>1. CASE \E k \in Callers, op \in Ops, n \in Names : Give(k, op, n)
  <2>1. IdleCalls' /\ \E k \in Callers, o \in Orders : C!Give(k, o)
    BY <1>1, GiveRefines
  <2> QED
    BY <2>1, Zenon DEF C!Next
<1>2. CASE \E k \in Callers : Send(k)
  <2>1. IdleCalls' /\ (UNCHANGED C!vars \/ \E k \in Callers : C!Lose(k))
    BY <1>2, SendRefines
  <2> QED
    BY <2>1, Zenon DEF C!Next
<1>3. CASE \E k \in Callers : SendFails(k) \/ Take(k) \/ Timeout(k)
  <2>1. IdleCalls' /\ \E k \in Callers : C!Refuse(k) \/ C!Answer(k) \/ C!GiveUp(k) \/ C!Mislead(k)
    BY <1>3, EndOfCallRefines
  <2> QED
    BY <2>1, Zenon DEF C!Next
<1>4. CASE ReadInput \/ ReadResult \/ Reply \/ \E c \in Conns : Forward(c)
  <2>1. UNCHANGED C!vars \/ \E k \in Callers : C!Lose(k)
    BY <1>4, ReadersRefine
  <2>2. UNCHANGED <<kpc, call>>
    BY <1>4, Zenon DEF ReadInput, ReadResult, Reply, Forward
  <2>3. IdleCalls'
    BY <2>2 DEF IdleCalls
  <2> QED
    BY <2>1, <2>3, Zenon DEF C!Next
<1>5. CASE ServeCommand
  <2>1. \E w \in Conns \cup {None} : C!ExecuteOverdue(w) \/ \E k \in Callers : C!Execute(k, w)
    BY <1>5, ServeRefines
  <2>2. IdleCalls'
    BY <1>5 DEF ServeCommand, IdleCalls
  <2> QED
    BY <2>1, <2>2, Zenon DEF C!Next
<1>6. CASE Quiet(CommandStep(Reader))
  <2>1. UNCHANGED C!vars \/ \E c \in Conns : C!Cut(c) \/ C!Leave({c})
    BY <1>6, CommandStepRefines
  <2>2. IdleCalls'
    BY <1>6 DEF Quiet, IdleCalls
  <2>3. \A c \in Conns : {c} \in SUBSET Conns
    OBVIOUS
  <2> QED
    BY <2>1, <2>2, <2>3, Zenon DEF C!Next
<1>7. CASE Aside
  <2>1. \/ UNCHANGED C!vars
        \/ \E c \in Conns : C!Cut(c) \/ C!Leave({c}) \/ \E n \in Names : C!Enter(c, n)
        \/ C!Leave(guests)
    BY <1>7, AsideRefines
  <2>2. IdleCalls'
    BY <1>7, AsideFacts DEF IdleCalls
  <2>3. guests \in SUBSET Conns /\ \A c \in Conns : {c} \in SUBSET Conns
    BY DEF TypeOK, RegistryTypeOK
  <2> QED
    BY <2>1, <2>2, <2>3, Zenon DEF C!Next
<1> QED
  BY <1>1, <1>2, <1>3, <1>4, <1>5, <1>6, <1>7, Steps

LEMMA InitRefines == Init => C!Init /\ IdleCalls
<1> SUFFICES ASSUME Init PROVE C!Init /\ IdleCalls
  OBVIOUS
<1>1. /\ toRelay = << >> /\ ctlMu = None /\ timedOut = FALSE /\ granted = {} /\ guests = {} /\ closed = {}
      /\ kpc = [k \in Callers |-> "idle"] /\ call = [k \in Callers |-> NoCall] /\ name = [c \in Conns |-> None]
  BY DEF Init, RegistryInit
<1>2. Todo = {} /\ Overdue = << >> /\ May = {}
  BY <1>1, ReaderAssumption DEF Todo, Overdue, May
<1>3. News = [k \in Callers |-> {}]
  BY <1>1, ReaderAssumption DEF News
<1> QED
  BY <1>1, <1>2, <1>3 DEF C!Init, IdleCalls

\* relay.go:224-225, control "forwards a guest-management command to the
\* relay and waits for its result": however many callers and commands there
\* are, and wherever the connection is lost, a command takes effect once at
\* most, on the guest of that name at that moment, and before its answer; the
\* answer is its own unless a call has timed out; and what was given up takes
\* effect before any later command, or never.
THEOREM Refinement == Spec => ImplementsControl
<1>1. Init => C!Init /\ IdleCalls
  BY InitRefines
<1>2. TypeOK /\ TypeOK' /\ Flow /\ Flow' /\ KickInv /\ IdleCalls /\ [Next]_vars => IdleCalls' /\ [C!Next]_(C!vars)
  BY StepRefines
<1>3. Init => Flow
  BY InitFlow
<1>4. TypeOK /\ Flow /\ [Next]_vars => Flow'
  BY FlowStep
<1> QED
  BY <1>1, <1>2, <1>3, <1>4, TypeCorrect, KicksDone, PTL DEF Spec, ImplementsControl, C!Spec
=============================================================================
