---------------------------- MODULE RelaySession ----------------------------
(***************************************************************************)
(* A session through a relay: the host's internal/host/relay.go (control,  *)
(* readLoop) and the relay's internal/relay/relay.go (handleHost,          *)
(* handleGuest), which owns the registry.  One websocket connects the two: *)
(* a sequence of frames in each direction, in order.  It may be lost at    *)
(* any time, by a failure or because the host exits; then the session ends *)
(* at the relay, and the host does not come back to it.                    *)
(*                                                                         *)
(* The relay executes the host's commands in one thread, the reader of the *)
(* host's connection.  On the host, a command is a control connection's    *)
(* goroutine that sends a frame and waits for a result; a result says      *)
(* neither which command it answers nor which guest.  The numbers that the *)
(* frames carry here are history, for the properties only.                 *)
(***************************************************************************)
EXTENDS Registry

CONSTANTS
  Reader,    \* the relay's reader of the host's connection
  Callers,   \* the host's control connections
  MaxCalls,  \* bound: commands given
  MaxInputs  \* bound: chunks that guests type

ASSUME ReaderAssumption == Controllers = {Reader} /\ None \notin Callers
ASSUME BoundsAssumption == MaxCalls \in Nat /\ MaxInputs \in Nat

VARIABLES
  toRelay,   \* control frames
  toHost,    \* input frames and control results
  kpc,       \* caller -> where its control() is
  call,      \* caller -> the command it has given
  ctlMu,     \* who holds it
  pending,   \* whose channel t.pending is
  slot,      \* what is in that channel (capacity 1)
  granted,   \* the names whose granted is true
  anyWrite,
  linked,    \* the websocket is open
  reading,   \* readLoop has not returned
  phase,     \* where the session is at the relay: "live", "unlisted", "ended"
  doomed,    \* the guests that CloseAll has yet to close
  found,     \* the connections whose handler has looked up the session
  serving,   \* history: the number of the command the relay executes
  given,     \* how many commands were given
  typed,     \* how many chunks were typed
  timedOut,  \* history: some call has timed out
  barred,    \* history: the connections that denies made view-only which returned with
             \* their own results
  late       \* history: connection -> its chunks applied since it is barred

callVars == <<kpc, call, ctlMu, pending, slot, granted, anyWrite, given, timedOut>>
wireVars == <<toRelay, toHost, serving, typed>>
endVars == <<linked, reading, phase, doomed, found>>
pastVars == <<barred, late>>
vars == <<registryVars, callVars, wireVars, endVars, pastVars>>

NoCall == [n |-> 0, op |-> "kick", name |-> None]
InputFrame(c) == [kind |-> "input", who |-> c]
ResultFrame == [kind |-> "result", n |-> serving, op |-> cmd[Reader].op,
                who |-> cmd[Reader].who, ok |-> cmd[Reader].ok]

-----------------------------------------------------------------------------
(* The host: control *)

\* A command arrives on the control socket and waits for ctlMu.
Give(k, op, n) ==
  /\ kpc[k] = "idle"
  /\ given < MaxCalls
  /\ given' = given + 1
  /\ call' = [call EXCEPT ![k] = [n |-> given + 1, op |-> op, name |-> n]]
  /\ kpc' = [kpc EXCEPT ![k] = "queued"]
  /\ UNCHANGED <<registryVars, ctlMu, pending, slot, granted, anyWrite, timedOut, wireVars, endVars, pastVars>>

\* Faulty variant: no ctlMu.
SendUnlocked(k) ==
  /\ kpc[k] = "queued"
  /\ ctlMu' = k
  /\ pending' = k
  /\ slot' = << >>
  /\ toRelay' = IF linked THEN Append(toRelay, call[k]) ELSE toRelay
  /\ kpc' = [kpc EXCEPT ![k] = "waiting"]
  /\ UNCHANGED <<registryVars, call, granted, anyWrite, given, timedOut, toHost, serving, typed, endVars, pastVars>>

\* With ctlMu: a fresh channel, and the frame, which is lost on a connection
\* that is dead and not known to be.
Send(k) ==
  /\ kpc[k] = "queued"
  /\ ctlMu = None
  /\ ctlMu' = k
  /\ pending' = k
  /\ slot' = << >>
  /\ toRelay' = IF linked THEN Append(toRelay, call[k]) ELSE toRelay
  /\ kpc' = [kpc EXCEPT ![k] = "waiting"]
  /\ UNCHANGED <<registryVars, call, granted, anyWrite, given, timedOut, toHost, serving, typed, endVars, pastVars>>

\* The deferred part of control, and the return.
Return(k) ==
  /\ kpc' = [kpc EXCEPT ![k] = "idle"]
  /\ call' = [call EXCEPT ![k] = NoCall]
  /\ ctlMu' = None
  /\ pending' = None
  /\ slot' = << >>

\* conn.Send reports that the connection is lost.
SendFails(k) ==
  /\ kpc[k] = "queued"
  /\ ctlMu = None
  /\ ~linked
  /\ Return(k)
  /\ UNCHANGED <<registryVars, granted, anyWrite, given, timedOut, wireVars, endVars, pastVars>>

Granted(op, n) == IF op = "allow" THEN granted \cup {n} ELSE granted \ {n}

\* Faulty variant: computed before granted is set.
AnyWriteBefore(op, n) == defaultWritable \/ granted # {}

AnyWrite(op, n) == defaultWritable \/ Granted(op, n) # {}

\* A result is in the channel.  It is taken for the answer to this command.
Take(k) ==
  /\ kpc[k] = "waiting"
  /\ pending = k
  /\ slot # << >>
  /\ IF Head(slot).ok /\ call[k].op \in {"allow", "deny"}
       THEN /\ granted' = Granted(call[k].op, call[k].name)
            /\ anyWrite' = AnyWrite(call[k].op, call[k].name)
       ELSE UNCHANGED <<granted, anyWrite>>
  /\ barred' = IF Head(slot).n = call[k].n /\ call[k].op = "deny" /\ Head(slot).ok
               THEN barred \cup {Head(slot).who} ELSE barred
  /\ Return(k)
  /\ UNCHANGED <<registryVars, given, timedOut, wireVars, endVars, late>>

\* Faulty variant: control tries again.
TimeoutRetries(k) ==
  /\ kpc[k] = "waiting"
  /\ toRelay' = IF linked THEN Append(toRelay, call[k]) ELSE toRelay
  /\ UNCHANGED <<registryVars, callVars, toHost, serving, typed, endVars, pastVars>>

\* After 15 s control gives up; the select may do so also when a result is there.
Timeout(k) ==
  /\ kpc[k] = "waiting"
  /\ timedOut' = TRUE
  /\ Return(k)
  /\ UNCHANGED <<registryVars, granted, anyWrite, given, wireVars, endVars, pastVars>>

-----------------------------------------------------------------------------
(* The host: readLoop *)

\* Guest input: the coarse check, then writeInput.
ReadInput ==
  /\ reading /\ toHost # << >>
  /\ Head(toHost).kind = "input"
  /\ LET who == Head(toHost).who
     IN late' = IF anyWrite /\ who \in barred THEN [late EXCEPT ![who] = @ + 1] ELSE late
  /\ toHost' = Tail(toHost)
  /\ UNCHANGED <<registryVars, callVars, toRelay, serving, typed, endVars, barred>>

\* A control result: into the channel of whoever waits now, if it is empty.
ReadResult ==
  /\ reading /\ toHost # << >>
  /\ Head(toHost).kind = "result"
  /\ slot' = IF pending # None /\ slot = << >> THEN <<Head(toHost)>> ELSE slot
  /\ toHost' = Tail(toHost)
  /\ UNCHANGED <<registryVars, kpc, call, ctlMu, pending, granted, anyWrite, given, timedOut,
                 toRelay, serving, typed, endVars, pastVars>>

\* The connection is lost, and the frames that were not read with it; the
\* shell goes on without guests.
ReadFails ==
  /\ reading /\ ~linked
  /\ reading' = FALSE
  /\ UNCHANGED <<registryVars, callVars, wireVars, linked, phase, doomed, found, pastVars>>

-----------------------------------------------------------------------------
(* The relay *)

\* A frame for the host; on a lost connection nobody minds the error.
Arrives(frame) == toHost' = IF linked THEN Append(toHost, frame) ELSE toHost

\* handleHost reads a control frame and executes it ...
ServeCommand ==
  /\ phase = "live" /\ toRelay # << >>
  /\ Command(Reader, Head(toRelay).op, Head(toRelay).name)
  /\ serving' = Head(toRelay).n
  /\ toRelay' = Tail(toRelay)
  /\ barred' = {c \in barred : ~writable'[c]}
  /\ late' = [c \in Conns |-> IF c \in barred' THEN late[c] ELSE 0]
  /\ UNCHANGED <<callVars, toHost, typed, endVars>>

\* ... and sends the result.
Reply ==
  /\ Replied(Reader)
  /\ Arrives(ResultFrame)
  /\ UNCHANGED <<callVars, toRelay, serving, typed, endVars, pastVars>>

\* handleGuest: a chunk that passed HandleInput goes to the host.
Forward(c) ==
  /\ Written(c)
  /\ Arrives(InputFrame(c))
  /\ UNCHANGED <<callVars, toRelay, serving, typed, endVars, pastVars>>

TypeChunk(c) ==
  /\ typed < MaxInputs
  /\ ReadFrame(c)
  /\ typed' = typed + 1
  /\ UNCHANGED <<callVars, toRelay, toHost, serving, endVars, pastVars>>

Quiet(A) == A /\ UNCHANGED <<callVars, wireVars, endVars, pastVars>>

\* The session is looked up by its code before the guest joins its registry.
LookUp(c) ==
  /\ phase = "live" /\ c \notin found
  /\ found' = found \cup {c}
  /\ UNCHANGED <<registryVars, callVars, wireVars, linked, reading, phase, doomed, pastVars>>

JoinFound(c) == c \in found /\ Quiet(Join(c))

-----------------------------------------------------------------------------
(* The end *)

Lose ==
  /\ linked
  /\ linked' = FALSE
  /\ UNCHANGED <<registryVars, callVars, wireVars, reading, phase, doomed, found, pastVars>>

\* handleHost cannot read and returns: nobody finds the session any more ...
Unlist ==
  /\ phase = "live" /\ ~linked /\ cpc[Reader] = "idle"
  /\ phase' = "unlisted"
  /\ UNCHANGED <<registryVars, callVars, wireVars, linked, reading, doomed, found, pastVars>>

\* ... CloseAll empties the registry, and then closes one after the other.
CloseAll ==
  /\ phase = "unlisted"
  /\ phase' = "ended"
  /\ doomed' = guests /\ guests' = {}
  /\ UNCHANGED <<defaultWritable, name, writable, warned, closed, pc, hello, cpc, cmd,
                 callVars, wireVars, linked, reading, found, pastVars>>

CloseDoomed(c) ==
  /\ c \in doomed
  /\ doomed' = doomed \ {c} /\ closed' = closed \cup {c}
  /\ UNCHANGED <<defaultWritable, guests, name, writable, warned, pc, hello, cpc, cmd,
                 callVars, wireVars, linked, reading, phase, found, pastVars>>

-----------------------------------------------------------------------------
Init ==
  /\ RegistryInit
  /\ toRelay = << >> /\ toHost = << >>
  /\ kpc = [k \in Callers |-> "idle"]
  /\ call = [k \in Callers |-> NoCall]
  /\ ctlMu = None /\ pending = None /\ slot = << >>
  /\ granted = {} /\ anyWrite = defaultWritable
  /\ linked = TRUE /\ reading = TRUE /\ phase = "live" /\ doomed = {} /\ found = {}
  /\ serving = 0 /\ given = 0 /\ typed = 0 /\ timedOut = FALSE
  /\ barred = {} /\ late = [c \in Conns |-> 0]

Control(k) == Send(k) \/ SendFails(k) \/ Take(k) \/ Timeout(k)
ReadLoop == ReadInput \/ ReadResult \/ ReadFails
HandleHost == ServeCommand \/ Quiet(CommandStep(Reader)) \/ Reply \/ Unlist \/ CloseAll
HandleGuest(c) == LookUp(c) \/ JoinFound(c) \/ Forward(c) \/ Quiet(HandlerStep(c))

Next ==
  \/ \E k \in Callers : Control(k)
  \/ \E k \in Callers, op \in Ops, n \in Names : Give(k, op, n)
  \/ ReadLoop
  \/ HandleHost
  \/ \E c \in Conns : HandleGuest(c) \/ TypeChunk(c) \/ CloseDoomed(c) \/ Quiet(Disconnect(c) \/ Drop(c))
  \/ Lose

Spec == Init /\ [][Next]_vars

-----------------------------------------------------------------------------
(* Properties *)

Orders == [n : 1 .. MaxCalls, op : Ops, name : Names]
InputFrames == [kind : {"input"}, who : Conns]
Results ==
  [kind : {"result"}, n : 1 .. MaxCalls, op : Ops, who : Conns, ok : {TRUE}]
    \cup [kind : {"result"}, n : 1 .. MaxCalls, op : Ops, who : {None}, ok : {FALSE}]

\* Types; what the program counters say of the calls, the command under way
\* and the list; and a channel never holds more than its capacity.
TypeOK ==
  /\ RegistryTypeOK
  /\ \A c \in guests : name[c] \in Names /\ pc[c] \notin {"out", "gone"}
  /\ cpc[Reader] \in {"tell", "close", "leave"} => cmd[Reader].who \in Conns
  /\ cpc[Reader] = "reply" => (cmd[Reader].ok <=> cmd[Reader].who \in Conns)
  /\ serving \in 0 .. MaxCalls /\ (cpc[Reader] # "idle" => serving # 0)
  /\ toRelay \in Seq(Orders) /\ toHost \in Seq(InputFrames \cup Results)
  /\ kpc \in [Callers -> {"idle", "queued", "waiting"}]
  /\ call \in [Callers -> Orders \cup {NoCall}]
  /\ \A k \in Callers : kpc[k] # "idle" => call[k] \in Orders
  /\ \A k \in Callers : kpc[k] = "waiting" <=> ctlMu = k
  /\ ctlMu \in Callers \cup {None} /\ pending = ctlMu
  /\ slot \in Seq(Results) /\ Len(slot) <= 1 /\ (ctlMu = None => slot = << >>)
  /\ granted \subseteq Names /\ anyWrite \in BOOLEAN
  /\ linked \in BOOLEAN /\ reading \in BOOLEAN /\ phase \in {"live", "unlisted", "ended"}
  /\ doomed \subseteq Conns /\ found \subseteq Conns
  /\ given \in 0 .. MaxCalls /\ typed \in 0 .. MaxInputs /\ timedOut \in BOOLEAN
  /\ barred \subseteq Conns /\ late \in [Conns -> Nat]

\* relay.go:224-225, control "forwards a guest-management command to the
\* relay and waits for its result": what is in the channel a caller waits on
\* answers that caller's command.
OwnResult == \A k \in Callers : pending = k /\ slot # << >> => Head(slot).n = call[k].n

\* relay.go:38, ctlMu "serializes control calls": results carry no id, and
\* still every call takes its own as long as no call has timed out.
ResultsMatch == timedOut \/ OwnResult

\* Once `cotty ctl deny` has returned with its own result, at most one more
\* chunk of that guest reaches the shell: the chunks before it are ahead of
\* that result on the wire, and its handler had passed the check with one at
\* most.  A deny that took another call's late result, which is possible once
\* a call has timed out, promises nothing yet: see OwnResult.
AtMostOneLate == \A c \in Conns : late[c] <= 1

\* relay.go:28-30, the permission "is enforced there, with a coarse re-check
\* here": the re-check is never the stricter one.  When no call has timed
\* out and nothing is under way, the host lets through whoever the relay
\* lets type.
ReCheckIsCoarse ==
  ~timedOut /\ ctlMu = None /\ toRelay = << >> /\ cpc[Reader] = "idle"
    => ((\E c \in guests : writable[c]) => anyWrite)

\* What Control sees of the state: whose commands are still to be executed, what
\* is ahead of them, the news of the one that is waited for, and who may type.
Sent(k) == \E i \in DOMAIN toRelay : toRelay[i].n = call[k].n
Todo == {k \in Callers : kpc[k] = "queued" \/ (ctlMu = k /\ Sent(k))}
Overdue == IF ctlMu \in Todo THEN SubSeq(toRelay, 1, Len(toRelay) - 1) ELSE toRelay
NewsAtRelay(n) == {cmd[t].who : t \in {u \in Controllers : cpc[u] # "idle" /\ serving = n}}
NewsOnWire(n) == {toHost[i].who : i \in {j \in DOMAIN toHost : toHost[j].kind = "result" /\ toHost[j].n = n}}
NewsInSlot(n) == {slot[i].who : i \in {j \in DOMAIN slot : slot[j].n = n}}
News ==
  [k \in Callers |-> IF ctlMu # k THEN {}
                     ELSE NewsAtRelay(call[k].n) \cup NewsOnWire(call[k].n) \cup NewsInSlot(call[k].n)]
May == {c \in guests : writable[c]}
C == INSTANCE Control WITH todo <- Todo, news <- News, overdue <- Overdue, doubt <- timedOut,
                           present <- guests, may <- May, cut <- closed, Commands <- Orders

\* relay.go:224-225, control "forwards a guest-management command to the
\* relay and waits for its result": over frames that may be lost, a lock, a
\* timer and results without an id, a command takes effect once at most and
\* before its answer, and the answer is its own unless a call has timed out.
ImplementsControl == C!Spec
=============================================================================
