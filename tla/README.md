# cotty in TLA+

cotty shares one live shell: a host runs it in a PTY, guests and AI agents watch
and type over websockets (directly or through a relay), the host manages them
through a control socket, and keystrokes of supervised agents run only after a
vote. This directory holds a verification development of that program:
specifications translated from its source, TLC configurations that check them on
small instances, and TLAPS proofs for every value of the constants.

Paths below are relative to the repository (`src/` in PROJECT.json's entries).

## Reading order

| Module | Models | Checked by |
| --- | --- | --- |
| `Ballots` | what approval promises: no code, the abstract specification | refinement |
| `Multisig` | `internal/host/multisig.go` and its callers in `host.go` | `MCMultisig*.cfg` |
| `MultisigProofs` | theorems about `Multisig`, that it implements `Ballots` among them | tlapm |
| `Questions` | what asking promises: the abstract specification of `Answers` | refinement |
| `Answers` | `internal/host/say.go`, `ask` and `onSay` of `host.go` | `MCAnswers*.cfg` |
| `AnswersProofs` | theorems about `Answers`, that it implements `Questions` among them | tlapm |
| `Registry` | `internal/session/registry.go` and the handlers around it | the next two |
| `LocalSession` | a session the host serves: `Registry` and `internal/host/local.go` | `MCLocalSession.cfg` |
| `RegistryProofs` | lemmas about `Registry`, for both transports | tlapm |
| `LocalSessionProofs` | theorems about `LocalSession` | tlapm |
| `Control` | what a command to a relayed session promises: the abstract specification | refinement |
| `RelaySession` | a relayed session: `Registry`, `internal/relay/relay.go`, `internal/host/relay.go` | `MCRelaySession*.cfg` |
| `RelaySessionProofs` | theorems about `RelaySession`, that it implements `Control` among them | tlapm |
| `Game` | what the arena promises: the abstract specification | refinement |
| `Arena` | `internal/arena/arena.go` and `book.go` | `MCArena*.cfg` |
| `ArenaProofs` | theorems about `Arena`, that it implements `Game` among them | tlapm |
| `WebClient` | `internal/webui/static/app.js`, the browser's page | the next one |
| `WebSession` | that page in a session: `WebClient`, `Ballots` and the host's side of a websocket | `MCWebSession*.cfg` |
| `WebSessionProofs`, `WebOrderProofs` | theorems about `WebSession` | tlapm |

`MC*.tla` modules hold the instances: sets of model values that a cfg cannot
write down.

## Inventory

State, operations and what is hard, component by component.

**Multisig approvals** (`internal/host/multisig.go`). State: the proposals map
and its counter, per proposal the keystrokes, creation time, approvers, rejecters
and state. Operations: `hold`, `vote`, `pending`, each of which first sweeps
(`expireLocked`). Called by a goroutine per guest (votes, keystrokes) and one per
control connection (`cotty approve`, which votes as `host`). Hard: every handler
does its work after the unlock (audit lines, announcement, the write to the PTY),
so threads overtake each other; expiry and forgetting are lazy; a quorum may
become unreachable. Correct when: votes alone decide, nobody counts twice, an
approved command runs exactly once, in time, and is in the audit trail first.

**Ask and say** (`internal/host/say.go`, `ask`/`onSay` of `host.go`). State: the
queue of waiters, a channel of capacity one per waiter, recent texts per sender.
Hard: a timer races the delivery; the question is broadcast before the asker
waits; a sliding window. Correct when: each text has one taker, no asker hangs,
the oldest question is served first, no sender exceeds its rate.

**Session registry** (`internal/session/registry.go`). State: the list of guests
with unique names, write permission, warned flag. Operations: join, leave, list,
allow, deny, kick, input check, broadcast (which drops guests whose socket fails).
Hard: decisions under the lock are acted on after it; names are reused.

**Transports** (`internal/host/local.go`, `internal/host/relay.go`). Local: an HTTP
server in the host, a goroutine per guest, the registry in process. Relay: one
outbound connection; a read loop serves every guest in turn; `control` sends a
command and waits at most 15 s for a result that carries no id; `granted` and
`anyWrite` repeat the relay's permissions coarsely.

**Relay server** (`internal/relay/relay.go`). State: sessions by code. Operations:
register, forward, control, join, end of a session. Hard: duplicates, a guest
that joins while its session ends.

**Control socket** (`internal/ctl/ctl.go`). One request per connection, a goroutine
each, deadlines of 15 s and (for ask) 2 min.

**Agent** (`internal/agent`). State: permission, history, a queue of 8 questions.
Hard: permission is read and used seconds later; several texts per question.

**Arena** (`internal/arena`). State: a competition of portfolios, saved to a file
by write-and-rename. Operations: load, play (a round), save. Hard: a crash between a
round and its save, models that never answer, clamped and rounded orders. Correct
when: accounts stay solvent, the file never loses a saved round, rounds keep their
distance over restarts, each contestant decides once a round.

**Client** (`internal/client`): join loop and the vote prompt. **Desk**, **hood**
(`internal/desk`, `internal/hood`): market screens and their data. **Audit, record,
replay**: files. **Protocol, e2ee, wsconn**: frames, encryption, a write lock.
**Command line** (`cmd/cotty`).

**Web client** (`internal/webui/static/app.js`). State: the link, the websocket, two
promise chains (frames to be handled, keys and votes to be sealed), the name the
session knows it by, a card per pending proposal, two notices with their timers.
Operations: open the link or fill in the form, import the key, handle each kind of
frame, type, click, resize, fail, close. Hard: what awaits WebCrypto ends at any later
time, in between a click, a close or other frames; the host broadcasts to a guest
before it welcomes it; tallies are told by whichever goroutine gets there first.
Correct when: output and keys stay in order, cards catch up with the tallies, an
approver can vote and the first click counts, the status line is true.

Interaction: a guest's frame reaches `writeInput`, `onVote` or `onSay` (host.go)
through a transport; these call multisig or answers, which call back `applyInput`
(audit, then PTY) and `announce` (a broadcast through the same transport). The
control socket calls the same objects from its own goroutines. No handler holds a
lock across a callback, except that `expireLocked` logs under the multisig lock.

PROJECT.json lists every hazard at its line with the properties that cover it.

## Multisig

`proposals` holds every proposal ever made, indexed by id, so that `Len(proposals)`
is `m.next`; `kept` is the set of ids still in the map. A thread is a goroutine of
the local transport (one per guest), of a control connection, or the host's
keyboard; `pc` is where it is between handlers and `job` what it copied out of the
locked section (`view`, `data`, `op`, `voter`). The relay transport serves all its
guests from one goroutine, so its interleavings are a subset.

| Action | Code |
| --- | --- |
| `Hold` | `writeInput`, `hold` up to the unlock (sweep, new proposal) |
| `Vote` | `vote` from the approver check to the unlock, when the vote counts |
| `TurnDown` | the same, for the three early returns: only the sweep remains |
| `List` | `pending`: a sweep |
| `Type` | keystrokes nobody supervises, on their way to `applyInput` |
| `Log`, `LogVerdict`, `Show` | the steps after the unlock: `m.event`, `m.announce` |
| `LogInput`, `Write` | `applyInput`: `aud.Input`, then `ptmx.Write` |
| `Tick` | time; ages stop at `Retain + 1`, where the code stops telling them apart |

Abstractions. A locked section is one action and happens at one clock tick. The
audit file is seen per proposal (`trail[id]`), which keeps the order of the lines
that belong together and forgets how different proposals interleave. Keystrokes are
named by their proposal's id. `announce` is its effect on a browser's cards; its
text in the terminal stream changes no state. `tr` is taken as assigned. Supervised
names are guests' names, because the host's keyboard does not pass `writeInput`.

What the runs show:

- `quorum` (`MCMultisigQuorum.cfg`): one proposal by an agent, 2 of host, alice and
  bob, the host through the control socket. `VotesDecide`: votes make the state,
  with both sides of both boundaries (2 of 3 yes, and 2 no of 3). `OnlyApprovedRuns`:
  nothing supervised is on the PTY without its quorum, nothing twice. `VotesInTime`:
  no vote counts after the limit though nothing sweeps in the background.
  `ApprovedRuns`, `VotesReachAudit`: an approved command does run, and each vote is
  logged at last.
- `agents` (`MCMultisigAgents.cfg`): two supervised agents, two proposals, the host
  as only approver over two connections at once, one chunk of unsupervised typing.
  `CarriedOnce`: between unlock and write one thread alone carries the keystrokes.
  `AuditCoversPty`: at each moment, so also when the process is killed, the file has
  an input line for every chunk on the PTY. `SettledForGood`: settled proposals do
  not change, only they are forgotten, ids do not come back. `ImplementsBallots`:
  every step is a step of `Ballots` or none.
- `cards_stay`, a violation: expiry is logged and not announced, so a card stays in
  the browser. (Two announcements that overtake each other leave one as well.)

Bounds. A vote concerns one proposal and the sweep that precedes it treats
proposals independently; two proposals suffice for a sweep of one to happen inside
a handler of the other, and two votes in flight for each race after the unlock.
`TTL = 0` and `Retain = 1` give each of the three ages that the code tells apart
(in time, too old, forgettable); the code's values are 10 and 40 minutes.

Fairness: `WF` of each thread's steps after its locked section, because a goroutine
that is running is scheduled again (each of these steps ends: wsconn bounds a write
to 10 s). No vote, listing or tick is ever forced.

## Answers

An asker is a control connection: `sending` (its broadcast serves one guest after
the other), `waiting` (in `select`), `expired` (its timer fired, before the lock),
`done`. A guest's handler is `idle`, about to `deliver`, or about to show a `notice`.
`joined` and `spoken` are history. Sanitising and length limits are left out; a text
is a number and the question it means to answer, which the code does not know. The
limiter's slice of times is the set of texts they belong to (`recent`), and `age` says
how long ago each was sent, up to the window, beyond which `allow` sees no difference.

| Action | Code |
| --- | --- |
| `Ask`, `SendQuestion`, `Register` | `ask` and the head of `wait` |
| `Receive`, `TimerFires` | the `select` of `wait` |
| `GiveUp`, `TakeLate` | after the timer: remove oneself, at whatever index, or take what was delivered |
| `Speak` | `onSay` up to `limiter.allow`, which decides in one locked section |
| `Deliver`, `Notice` | `deliver`, and the notice when nobody waited |

- `answers` (`MCAnswers.cfg`): two questions, two guests, three texts, a limiter of
  two texts in two ticks. `TimeoutNeverHangs`: whoever timed out is still in the
  queue or has its text, so the last receive never blocks. `NoTextLost`: each text
  that passed the limiter is in exactly one place. `RateLimited`: at most a burst of
  texts passes in a window, and a text is refused only when a whole burst did. `AskReturns`
  under fairness. `ImplementsQuestions`: each step is a step of `Questions`
  or none (see there); so each text goes to the oldest open question. Two of each actor suffice for a timer of one asker to
  race the delivery to the other; three texts exceed both the limiter and the number
  of askers. Deadlock is not checked: when the texts are used up all is quiet.
- `Questions` knows no queue, no channel, no timer and no lock: a question opens behind
  the open ones, a text answers the oldest open one or none, an open question may go
  unanswered, and what was answered stays so. A question is open there while its asker is
  in the queue, and its answer is the text in the channel or the one the asker took.
- `first_answer`, a violation: a guest answers while the question still goes out to
  a slower guest, nobody waits yet, and its answer becomes a notice.

Fairness: a goroutine that serves a request or text goes on; timers fire; a write to
a guest ends. Nobody has to ask or answer.

## Sessions: Registry, LocalSession, RelaySession

`Registry` has the guest list and what runs around it: a handler per guest's
connection (`pc`: `out`, `joined`, `greet`, `loop`, `read`, `write`, `warn`, `gone`) and the
threads that execute the host's commands (`cpc`, with the guest found and the outcome
in `cmd`). A connection joins once; a guest that comes back is another connection
that wants the same name. `writable` and `warned` are fields of a guest, and a
guest is named by its connection, as the code does with its pointer. A sanitized
name is a model value and `Candidates` is the row of names `Join` tries.

| Action | Code |
| --- | --- |
| `Join`, `ReadFlag`, `Greet` | `Join`; the hello, whose flag is read without the lock |
| `ReadFrame` | the handler's read of a chunk; the connection may be closed before the next step |
| `Input`, `Warn`, `Written` | `HandleInput`: the locked section, and either half after it |
| `Disconnect`, `Drop`, `End` | a socket fails; a broadcast removes the guest; the deferred `Leave` |
| `Command` | `Apply` up to the unlock, found or not |
| `TellGuest`, `CloseGuest`, `KickLeave` | `Apply` after it |

`LocalSession` runs each command in the goroutine of its control connection, and
hands a chunk straight to `writeInput`. `RelaySession` puts the registry behind a
websocket (`toRelay`, `toHost`: frames in order); the relay executes one command at a
time, in `handleHost`; on the host `control` holds `ctlMu`, waits on `pending`'s
channel (`slot`) and may time out, and `readLoop` (`ReadInput`, `ReadResult`) works
through the frames. Frames carry the number of their command as history: the code
has none, and no guard looks at it.

| Action of `RelaySession` | Code |
| --- | --- |
| `Give`, `Send`, `Take` | a command comes over the control socket; `control` |
| `Timeout`, `SendFails` | its two other endings |
| `ReadInput`, `ReadResult`, `ReadFails` | `readLoop`, frame by frame, and its return |
| `ServeCommand`, `Reply` | the loop of `handleHost`, with `CommandStep` between the two |
| `LookUp`, `JoinFound`, `TypeChunk`, `Forward` | `handleGuest`: the session is found, joined, and typed into |
| `Lose` | the connection is lost, or the host exits |
| `Unlist`, `CloseAll`, `CloseDoomed` | the deferred end of `handleHost` |

The connection may be lost at any step. What is sent from then on is lost; what was on
the wire before may still be read, until each side notices. A guest that looked the
session up before the end may join its empty registry after it, as in the code.

- `local` (`MCLocalSession.cfg`): two connections that both want `alice`, two control
  connections, two commands of any kind for either name. `NamesUnique`: through
  failed broadcasts, kicks and returns no two guests share a name. `OnlyClosedLeave`:
  whoever is removed has a closed connection, although handler, broadcast and kick
  all remove and the name may have a new owner. `AtMostOneLate`: the check of
  `HandleInput` is used after the unlock; one chunk is the most that slips through.
  `KickedOut`: when a kick has answered, the guest is out and closed. `ClosedLeave`,
  under fairness: a closed connection leaves the list at last.
- `relay` (`MCRelaySession.cfg`): one guest, a name nobody has, two callers, two
  commands, two chunks, both defaults, and a connection that may be lost at each step.
  `ReCheckIsCoarse`: when no call timed out and nothing is under way, the host lets through whoever the
  relay lets type. `AtMostOneLate`: after a deny that returned with its own
  result, one chunk at most is applied, also when other calls timed out. Once a call timed
  out, a deny may return with that call's result (run `late_result`), and until its own
  frame is executed the guest types on: of such a deny nothing is claimed.
  `ImplementsControl`: each step is a step of `Control` or none (see below); so as long
  as no call has timed out, each call takes its own result. The callers
  are symmetric: nothing but what they happen to give tells them apart, and there is no
  liveness in this run.
- `late_result`, a violation: a call times out, its result arrives during the next
  call, which takes it for its own (and updates `granted` with it).

`Control` is what a user of `cotty ctl` may count on, without frames, lock, timer or
results: a command takes effect at one moment, on the guest of that name at that moment,
and once at most; its caller's answer comes later and tells its own outcome; when a kick
is answered the guest is out. A caller may give up: what it asked for may still take
effect, but not after a later command, and from then on (`doubt`) answers may be wrong.
What `Control` sees of `RelaySession`:

| In `Control` | In `RelaySession` |
| --- | --- |
| `todo` | the callers that wait for `ctlMu`, and the holder while its frame is unread (`Todo`) |
| `overdue` | the other control frames (`Overdue`): their callers are gone |
| `news` | the guest in the reader's command, in a result or in the channel, by number (`News`) |
| `doubt`, `may`, `cut` | `timedOut`; the writable guests; the closed connections |

A dropped connection becomes `Lose`: of the command, or of the news that it was executed.
The caller cannot tell one from the other, and `Control` does not say that it can.

Bounds. Two connections suffice for a name to change hands while its old owner's
handler still runs, and two commands for one to meet another (kick and kick, deny
and allow) at every step; the proofs have no bound. In the relay a second guest adds
nothing but states to results and permissions, which are kept by name: the name that
nobody has gives the failing results. Two calls suffice for a late result to meet a
waiting call, and for a command that was given up to be executed before, during or after
the next one. Deadlock is not checked: commands, chunks and connections are used up.

Fairness (`LocalSession`): a handler and a command that is under way go on, because
their goroutines are scheduled and wsconn bounds each write. Nobody has to join, type,
disconnect or command. `RelaySession` states none: its properties are safety.

Left out: `list` (changes nothing), the throttled announcements of typing, the end of a
local session (it is the end of the process), several sessions in one relay (they share
no state but the map of codes), encryption (a frame that does not open is dropped before
any state changes).

## Arena

`pc` is where `Run` is: `off`, `ready` (between rounds), `deciding` (a goroutine per
model, `wg.Wait`), `executing` (reply after reply), `write`, `rename`. `comp` is the
competition in memory, `file` and `tmp` what is on disk; a file that is missing or
torn does not parse and reads as `Nothing`. (`load` also starts afresh when the file exists
and cannot be read for another reason; a crash, a full disk or a restart do not cause that, and
the models leave it out.) `unsaved` is history.

| Action | Code |
| --- | --- |
| `Start`, `Exit`, `Stop` | `Run` with `load`; its return; Ctrl-C cancels the context |
| `NoRound`, `BeginRound` | `play` without quotes; with them, up to the benchmark's order |
| `Decide`, `Fail`, `AllIn` | a model's goroutine, its two endings; `wg.Wait` returns |
| `ExecuteTurn`, `EndRound` | one turn of the loop over the results; `LastPlay` |
| `WriteTmp`, `WriteFails`, `Rename` | `save` |
| `Crash`, `Tick` | the process dies at any step; time |

Abstractions. Dollars are whole and a token has `Scale` units; a quotient that does
not come out is rounded down where the code rounds a float to the nearest, so what the
last bit of a float may add is left out. `Crumb` is the remainder
that a sale closes out with the rest; in whole units the code's second and smaller
limit, below which a holding counts as none, is zero. A note is the number of its round. Errors, texts and the
single round of `--once` are left out; orders that the code ignores by their side or
by NaN change nothing, like the unknown and small ones here. Quotes that are not
positive have been dropped by `quotes`, and are assumed not to be crossed.

- `arena` (`MCArena.cfg`). `TypeOK`: nobody's cash or holding is negative, in memory or
  in a file. `NoFreeMoney`: no step makes anybody richer at the market of the round,
  with orders clamped and remainders closed out.
  `RoundsApart`: saved rounds are a round's time apart, over crashes at any step, full
  disks and restarts.
  `ProgressSaved`: between rounds the file has all that was played, unless the last
  save failed. `OneDecisionARound`: no portfolio is played twice in a round, also when
  a round that a crash undid is played again. `RoundEnds`: no model can stop the game.
  `ImplementsGame`: each step is a step of `Game` or none.
- `Game` has whole rounds only, and its disk never falls back to an earlier one: the game in memory and the one on disk go on by a round
  in which every contestant of the team plays once, in some order, on one market; a save
  makes them equal and a restart goes back to the disk. A round under way is the round
  before it until `EndRound`; the history variable `base` remembers that competition, and
  `Opened` (the round's start) and `Turned` (one turn of the loop) say what the turns make
  of it.
- `shared_portfolio`, a violation: the same with two models of one short name, which
  trade one portfolio in turn.

Bounds. Two models, of which one joins or leaves between the two starts; two markets
(the benchmark unquoted, the other symbol halted); two replies that between them buy,
sell in part, sell out, are too small, too large, unknown, halted, and a fourth order
past the limit of three. Time 0 to 2 with a round each tick gives three rounds, more
than `KeepNotes`, and a crash in any of them. Deadlock is not checked: time ends.

Fairness: a model's call ends, because its context has a timeout of two minutes, and
`play` goes on. Nobody has to start, stop, or answer with a decision.

## The page: WebClient, WebSession

JavaScript runs one callback at a time and then all its microtasks. A turn of a chain
that needs no WebCrypto therefore ends before the next event, and one that does ends at
any later time: `Settled` says which turns may still be under way, and every event (a
frame, a key, a click, a timer, a close) has it as a conjunct; the turns themselves do
not. `link.key` is `none`, `bad` (does not import), `right` or `wrong`; a frame's data
opens when page and host agree about it (`Readable`, and `Opens` on the host's side).

| Action | Code |
| --- | --- |
| `Submit`, `ImportKey`, `Connect` | the form; `importKey`; `ws.onopen` |
| `Message` (`Deliver`) | `onmessage`: the frame is put on `chain` |
| `Hello`, `Output`, `Resize`, `Info`, `Activity`, `Say`, `Proposal` (`PageTurn`) | the next turn of `chain`, by the kind of frame |
| `Type`, `Click`, `WindowResize` | `term.onData`; a card's button; `fit` |
| `Send` (`SendTurn`) | the next turn of `sendChain`: sealed, and sent if the websocket is open |
| `Fail`, `Close` (`Lose`), `Fire` | `fail`; `onclose`; the timer of a notice |
| `Join`, `Welcome` | a handler's `Join`, and its welcome after it |
| `Broadcast`, `Announce` | what the session tells its guests; a tally, after the unlock |
| `Hold`, `Expire`, `OtherVote`, `ReadVote`, `ReadKey` | the host's side, as `Ballots` says |

The server's side is small here, because `Multisig` and `Registry` model it: a proposal's
state moves as in `Ballots`, which `Multisig` implements, and every changed tally is
`owed` to the page until some goroutine announces it. A vote is decided by the reader of
the page's frames; its answer to a vote that cannot count is a notice.

Run `web` (`MCWebSession.cfg`) checks:

- `InOrder`: the terminal shows the output since the join without a gap or a swap, and
  the keys that reach the shell are consecutive, although each is decrypted or sealed
  asynchronously, and what is sealed too early is thrown away.
- `ShowsLastTold`: when nothing is under way the cards and the size are what the session
  told last. (What it told last may be old: `cards_stay`.)
- `CanVote`, `VoteAsClicked`, `ClickCounts`: an approver who has not voted has the buttons
  or a vote on its way; a tally of somebody else's vote may bring the buttons back after
  a click, and then the first click still counts; it does count in the end.
- `StatusHonest`: a page that failed says why, and a closed one does not say that it has
  joined, whatever was still on the chain.
- `NoticesLast`: an earlier notice's timer does not take a later notice away.
- `early_card`, a violation: a proposal that is broadcast between `Join` and the welcome
  is drawn for the name that was asked for; when somebody else has that name, the page
  shows an approver's buttons to a guest who is none. `CanVote`, `VoteAsClicked` and
  `StatusHonest` are therefore stated for a page that was welcomed first (`~early`).

Bounds. A scenario is a link, a session with or without encryption, and a few frames of
some kinds (`room`). Together they have each kind of key with each kind of session that
treats it differently, each kind of frame, two frames of a kind where order or replacing
matters, three keys so that one in the middle could be missing, and one proposal with
another approver and the host beside the page: cards of two proposals share no state but
the chain. The page sees both a name that is given as asked for and one that is not.
The theorems have no such bounds. Deadlock is not checked: a closed page is the end.

Fairness: promises settle (`PageTurn`, `SendTurn`), the websocket delivers (`Deliver`),
and the host's handler of this guest goes on (`Join`, `Welcome`, `ReadKey`, `ReadVote`).
Nobody has to type, click, connect or close, and no tally has to be announced.

Left out: texts, base64, colours and layout, `xterm.js` and `addon-fit.js` (vendored),
`webui.go` (serves the files).

## Proofs

`Multisig`. The theorems assume its named assumptions only: a configuration that
`newMultisig` accepts, supervised names that are guests', distinct thread names, and
`TTL < Retain`. Guests, control connections, proposals and quorum are arbitrary.

- `TypeCorrect`: `TypeOK` is inductive because it also says what a program counter
  implies of the copied `job`.
- `VotesTheorem`, `RunsTheorem`, `CarriedTheorem`: the inductive invariant is
  `IInv == TypeOK /\ VotesDecide /\ OnlyApprovedRuns /\ CarriedOnce`.
  `OnlyApprovedRuns` is not inductive alone: that the write after the unlock is
  still justified needs `CarriedOnce` (the proposal is executed, nobody else carries
  it, it is not on the PTY), and that only one vote ever executes a proposal needs
  `VotesDecide`.
- `InTimeTheorem`, `SettledTheorem`: action properties, from `TypeOK` and the fact
  that each counted vote follows its own sweep.
- `AuditTheorem`: `AuditCoversPty` counts lines and chunks, and is no invariant by itself.
  `Tallies` is: the chunks on the PTY and the writers between their line and their write
  are together no more than the input lines. For a supervised proposal the same is said
  by its own trail (`Backed`, `Executes`), and the trails only grow (`Grows`).
- `Refinement`: under `IInv` each step maps to a step of `Ballots` or a stutter; lists
  without repetition have the size of their sets, so the two verdicts agree.

`Answers`. The theorems assume a roster of guests, distinct markers for no text and no
answer, and a window of at least a tick. Askers, guests, roster, texts and the limits
are arbitrary.

- `TypeCorrect`, `NobodyHangs`: inductive together. `TimeoutNeverHangs` gives what the
  capacity of one needs: whoever is in the queue has an empty channel and is there once.
- `OldestServedFirst`: the queue is a part of `joined` in the same order, however many
  left it from the middle, so that its head is older than everyone behind it.
- `BurstLimited`: `Windowed` says that a guest's texts of the window are all in `recent`,
  so that the cut of `Kept` never forgets one that counts, and that nothing else is, so that
  refused texts do not count and a text is refused only when a whole burst passed; `Young`, that a text not yet
  sent is as old as the window and does not count.
- `TextsKept`: `Placed` says of each text that passed which single place has it, and of
  each other one that none has; an asker that gave up has an empty channel, so a channel
  that nobody will read holds nothing.
- `Refinement`: every step maps to a step of `Questions` or none. A text is delivered to
  the head of the queue and is its outcome from that moment, whenever the asker looks; a
  timeout after that changes nothing that `Questions` sees, because who is not in the
  queue any more has its text (`TimeoutNeverHangs`); and that no text is used twice is
  `Placed` again.

`LocalSession`. The theorems assume that there are finitely many connections, that
each wants a name, and that the row of candidates of a name is longer than the list
of guests can be (`base`, `base-2`, ... never ends). Connections, names, control
connections and commands are arbitrary. `IInv` is `TypeOK`, `NamesUnique`, `KickedOut`
and three parts: `LateInv` (a guest whose late chunk was applied has none in hand
that passed the check or could still pass it, so no second one follows), `OutInv` (a connection that has
not joined is not closed and no command is about it, so whoever was kicked cannot
come back) and `CommandInv` (a kick closes before it removes). Run `local` checks
the properties; `IInv` was checked on the same instance before it was proved.

- `TypeCorrect`, `NamesTheorem` (`FreeNameFacts`: fewer names are taken than
  connections exist, so `Join`'s loop ends, at a name nobody has), `LateTheorem`,
  `KickedTheorem`; `OnlyClosedTheorem`, an action property from `CommandInv`.

`RelaySession`. The theorems assume the same of the registry, and that the relay has one
reader of the host's connection. Guests, names, callers and the numbers of commands and
chunks are arbitrary, and the connection may be lost anywhere. Run `relay` checks the
properties; the invariants below were checked on the same instance before they were proved.

- `TypeCorrect`: `TypeOK` is inductive because it says what the program counters imply of
  the calls, the command under way and the list. `NamesTheorem` as in `LocalSession`.
- `OwnResults`: a command is `UnderWay` while it or its result is in one of the four places
  between `Send` and `Take`. `Newest` says that the command of whoever holds `ctlMu` is the
  last one under way, wherever it is; `Sole`, that until a call times out it is the only one.
- `RecheckIsCoarser`: `GrantedToo` says that whoever may type at the relay is granted at the
  host, unless an allow of that name is under way and may still succeed; `DeniedToo`, that
  nobody may whose denial has been executed, so that removing the name harms no one. Both
  need `Sole` (no other command is between) and unique names (a command finds its guest).
- `OneLateChunk`: `DenyInv` follows a denial from the relay to the caller: wherever the news
  is, its guest is view-only and at most one chunk is behind it (`Few`), because a chunk that
  passed the check is either in its handler's hands or already ahead of it on the wire. When
  the call returns with its own result that becomes `LateInv`. `Newest` is needed, so that
  no later command can lift the denial meanwhile; `Sole` is not, so that calls may have
  timed out.
- `KicksDone`: `KickInv` follows a kick in the same way: whoever reads of one that
  succeeded, at the relay, on the wire or in the channel, finds the guest closed and out
  of the list, for good, because a connection joins once.
- `Refinement`: every step maps to a step of `Control` or none. `SeenNews` and `NewsOnce`
  say that there is at most one piece of news of a call, by `Newest`; readers and
  the wire only move or lose it (`LessNews`). The oldest frame is an overdue one, or the
  only one and its caller's (`ServeRefines`); a timeout turns the holder's frame, the
  last one, into an overdue one (`AbandonRefines`). `Sole` makes the result that is
  taken the caller's own, and `KickInv` a kick's answer true.

`Arena`. The theorems assume positive parameters, finitely many symbols, rosters of
models, quotes that are positive and not crossed, and replies that are lists of orders.
Roster, symbols, markets and replies are arbitrary, and so are the bounds on time and
starts.

- `TypeCorrect`: lemmas for each operator of the book (`BuyTypes`, `SellTypes`,
  `ExecutedTypes`, `NotedTypes`) say that a portfolio stays one; a purchase is at most
  the cash and a sale at most the holding.
- `RoundsKept`, `ApartTheorem`: the invariant `Ahead` says, for each place of `play`, how
  far the competition in memory is ahead of the file: not behind between rounds, a
  round's time once the round is played, and equal to the temporary file before the
  rename. Only a rename changes the file.
- `SavedTheorem`: `ProgressSaved` is inductive with `Ahead`.
- `OneDecisionTheorem`, for rosters whose short names differ (`NamesDiffer`; run
  `shared_portfolio` shows what happens otherwise): the invariant `InTurn` says that notes
  are of rounds not after the current one, and that a portfolio whose turn is still to
  come has no note of the round that is being played. A crash goes back to a file, in which
  all notes are of saved rounds.
- `NobodyGetsRicher`: a portfolio's worth is its cash and a sum over its symbols. What an
  order changes is one symbol, so lemmas about sums over finite sets come first: a sum
  does not depend on the order, and a changed item changes it by the difference. They
  are proved by a smallest counterexample, since induction with an operator is out of
  reach. Then `Buy` and `Sell` lose the spread and what rounding down takes, never gain; the
  code's floats are exact up to their last bit only.
- `Refinement`, for rosters whose short names differ: the invariant `Partial` says that
  the competition in memory is `base` with the turns of those who are done (`WholeTurns`
  when all are), so the step that ends a round is one whole round of `Game`. Two models of
  one name would play twice in it, hence `NamesDiffer`.

`WebSession`. The theorems assume its named assumptions: distinct kinds of sizes and
names, scenarios of the right type. Names, approvers, proposals, links, sizes and numbers
of frames are arbitrary. The frames under way are one queue, `Pipe`: the page's chain and
then the websocket; so are the keys and votes, `Keys`. A lemma for each says how a step
moves it (`PipeSteps`, `KeySteps`: grown, popped, cut or the same), and what follows is
about queues.

- `TypeCorrect`; `NoticesLastAlways`, from the invariant that no older timer is pending.
- `StatusIsHonest`: when nothing went before the welcome, it is the first frame
  (`HelloFirst`), so no later turn says `joined`; and because the welcome needs no
  WebCrypto, its turn ends before the next event, which alone could close the connection
  (`Honest`, `Unfailed`, `Fresh`).
- `CanVoteAlways`, `VoteAsClickedAlways`: the invariant `Session` adds what the tallies
  under way may say (`Carried`, `Owing`, `Heard`: none counts a vote that was not cast),
  the page's name (`Introduced`), that only a click takes the buttons away (`Buttons`), and
  that the first vote on its way for a proposal is the first button clicked (`Votes`).
- `InOrderAlways`: numbered items in a queue go on from what has left it (`InRow`, `UpTo`,
  `Displayed`, `Typed`); lemmas `RowNext`, `RowPopped` and `RowCut` say that growing, reading
  and losing the end keep it so. A page that cannot read its session's output shows none,
  and then nothing is said of its queue.
- `ShowsLastToldAlways`: the last tally of a proposal under way, and the last size, are the
  ones told last (`LastTold`); when none is under way, that is what the page shows.

`OldestFirst` (`Answers`), `ResultsMatch` (`RelaySession`) and `NoLostRounds` (`Arena`) are
theorems that no run lists: a run of each of these modules checks the refinement, which no
behaviour that breaks them visibly can pass.

Only model-checked: the liveness properties `ApprovedRuns`, `VotesReachAudit`,
`AskReturns`, `ClosedLeave`, `RoundEnds` and `ClickCounts`, whose fairness speaks of
`ENABLED`, which the provers here do not reason about. Every other property of a passing
run is a theorem.

## Plan

1. The relay's register, refused codes and several sessions in one server.
2. `Agent` (with `Answers`' queue): permission used late, several texts per question.
3. `VoteLine` and the pure algorithms of desk and hood, against reference definitions.

Not to be modelled: wording, colours, terminal emulation, HTTP and model calls,
cryptography, recording files: data and I/O without control of interest.
