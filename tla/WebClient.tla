----------------------------- MODULE WebClient -----------------------------
(***************************************************************************)
(* The browser's page: internal/webui/static/app.js, from the link it is   *)
(* opened with to the closed connection.                                   *)
(*                                                                         *)
(* JavaScript runs one callback at a time and all its microtasks after it. *)
(* Frames and keystrokes pass through two promise chains, inbox and        *)
(* outbox; a turn of a chain that awaits WebCrypto ends at any later time, *)
(* every other turn ends before the next event (Settled).                  *)
(*                                                                         *)
(* A key is "none", "bad" (does not import), or imports and is the         *)
(* session's ("right") or not ("wrong").  Frames are records with a kind;  *)
(* a frame with data says whether the host sealed it.                      *)
(***************************************************************************)
EXTENDS Naturals, Sequences

CONSTANTS
  Names,        \* session names
  Blank,        \* no name: the page was opened without one
  Approvers,    \* who may vote
  MaxProposals, \* bound: proposals
  Windows,      \* terminal sizes that fit the window
  Sizes,        \* terminal sizes of the host
  Links         \* the links the page may be opened with

ASSUME NamesAssumption == Blank \notin Names /\ Approvers \subseteq Names
ASSUME SizesAssumption == Windows # {} /\ Windows \cap Sizes = {} /\ Blank \notin Sizes
ASSUME ProposalsAssumption == MaxProposals \in Nat
ASSUME LinksAssumption ==
  Links \subseteq [code : BOOLEAN, name : Names \cup {Blank}, key : {"none", "bad", "right", "wrong"}]

VARIABLES
  link,      \* location.hash
  page,      \* "form", "importing", "invalid", or the readyState of ws
  status,    \* statusEl
  failed,
  me,
  inbox,     \* the frames on chain
  screen,    \* what term shows: numbers of outputs
  hostSized,
  size,      \* of term
  cards,     \* id -> the card's contents, with or without the row of buttons
  outbox,    \* the keys and votes on sendChain
  typed,     \* how many keys were typed
  first,     \* history: id -> the first button clicked
  shown,     \* box -> whether a notice is displayed
  timers     \* box -> pending timers: the displayed notice's own, an older one's

display == <<screen, hostSized, size>>
notices == <<shown, timers>>
chains == <<inbox, outbox>>
pageVars == <<link, page, status, failed, me, chains, display, cards, typed, first, notices>>

Ids == 1 .. MaxProposals
Boxes == {"toast", "activity"}
Ops == {"approve", "reject"}
NoCard == [there |-> FALSE]

HasKey == link.key \in {"right", "wrong"}
Awaits(f) == HasKey /\ f.kind \in {"output", "proposal", "say"}
Settled == (inbox # << >> => Awaits(Head(inbox))) /\ (outbox # << >> => HasKey)
Readable(f) == IF HasKey THEN f.sealed /\ link.key = "right" ELSE ~f.sealed

-----------------------------------------------------------------------------
(* Notices *)

\* Faulty variant: without clearTimeout.
NoteKeepTimer(b) ==
  /\ shown' = [shown EXCEPT ![b] = TRUE]
  /\ timers' = [timers EXCEPT ![b] = IF @ = {} THEN {"own"} ELSE {"own", "older"}]

\* toast, showActivity: the text, and the timer that removes it, instead of the last one's.
Note(b) ==
  /\ shown' = [shown EXCEPT ![b] = TRUE]
  /\ timers' = [timers EXCEPT ![b] = {"own"}]

\* A timer fires and removes what is displayed.
Fire(b, t) ==
  /\ Settled
  /\ t \in timers[b]
  /\ shown' = [shown EXCEPT ![b] = FALSE]
  /\ timers' = [timers EXCEPT ![b] = @ \ {t}]
  /\ UNCHANGED <<link, page, status, failed, me, chains, display, cards, typed, first>>

-----------------------------------------------------------------------------
(* Opening the page *)

Opened(l) ==
  CASE ~l.code -> "form"
    [] l.code /\ l.key = "none" -> "connecting"
    [] l.code /\ l.key # "none" -> "importing"

\* The form makes a link and loads the page again.
Submit(l) ==
  /\ page = "form"
  /\ l.code
  /\ link' = l
  /\ page' = Opened(l)
  /\ me' = l.name
  /\ status' = "connecting"
  /\ UNCHANGED <<failed, chains, display, cards, typed, first, notices>>

\* crypto.subtle.importKey ends; without a key there is no connection.
ImportKey ==
  /\ page = "importing"
  /\ IF HasKey THEN page' = "connecting" /\ UNCHANGED status
               ELSE page' = "invalid" /\ status' = "invalid key"
  /\ UNCHANGED <<link, failed, me, chains, display, cards, typed, first, notices>>

\* The websocket opens.
Connect ==
  /\ Settled
  /\ page = "connecting"
  /\ page' = "open"
  /\ UNCHANGED <<link, status, failed, me, chains, display, cards, typed, first, notices>>

\* Faulty variant: onclose does not look at failed.
ClosedStatusAlways == "disconnected"

\* What onerror and the onclose that follows it leave.
ClosedStatus == IF failed THEN status ELSE "disconnected"

\* The websocket closes, or never opens.
Close ==
  /\ Settled
  /\ page \in {"connecting", "open", "closing"}
  /\ page' = "closed"
  /\ status' = ClosedStatus
  /\ UNCHANGED <<link, failed, me, chains, display, cards, typed, first, notices>>

\* fail: say so for good, and ws.close().
Fail(text) ==
  /\ failed' = TRUE
  /\ status' = text
  /\ Note("toast")
  /\ page' = IF page = "open" THEN "closing" ELSE page

-----------------------------------------------------------------------------
(* Frames *)

\* Faulty variant: without the chain, a handler that awaits less overtakes.
ArriveUnchained(f) ==
  \E i \in 0 .. Len(inbox) : inbox' = SubSeq(inbox, 1, i) \o <<f>> \o SubSeq(inbox, i + 1, Len(inbox))

\* onmessage puts the frame on the chain.
Arrive(f) == inbox' = Append(inbox, f)

Message(f) ==
  /\ Settled
  /\ page = "open"
  /\ Arrive(f)
  /\ UNCHANGED <<link, page, status, failed, me, outbox, display, cards, typed, first, notices>>

\* The chain's next turn is the handler of a frame of this kind.
Turn(kind) ==
  /\ inbox # << >>
  /\ Head(inbox).kind = kind
  /\ inbox' = Tail(inbox)
  /\ UNCHANGED <<link, outbox, typed, first>>

\* Faulty variant: the welcome is displayed and its name is not taken over.
WelcomedUnnamed(f) == status' = "joined" /\ UNCHANGED me

\* The host's welcome, with the name we have in the session.
Welcomed(f) == status' = "joined" /\ me' = f.name

Hello ==
  /\ Turn("hello")
  /\ IF Head(inbox).sealed = HasKey
       THEN Welcomed(Head(inbox)) /\ UNCHANGED <<page, failed, notices>>
       ELSE Fail(IF HasKey THEN "needless key" ELSE "no key") /\ UNCHANGED me
  /\ UNCHANGED <<display, cards>>

\* Output is displayed, also what a page without a key cannot read.
Output ==
  /\ Turn("output")
  /\ IF HasKey /\ ~Readable(Head(inbox))
       THEN Fail("cannot decrypt") /\ UNCHANGED screen
       ELSE screen' = Append(screen, Head(inbox).n) /\ UNCHANGED <<page, status, failed, notices>>
  /\ UNCHANGED <<me, hostSized, size, cards>>

Resize ==
  /\ Turn("resize")
  /\ hostSized' = TRUE
  /\ size' = Head(inbox).size
  /\ UNCHANGED <<page, status, failed, me, screen, cards, notices>>

\* info, writable: a toast.
Info == Turn("info") /\ Note("toast") /\ UNCHANGED <<page, status, failed, me, display, cards>>

Activity == Turn("activity") /\ Note("activity") /\ UNCHANGED <<page, status, failed, me, display, cards>>

\* A remark that does not open is ignored.
Say ==
  /\ Turn("say")
  /\ IF HasKey /\ ~Readable(Head(inbox)) THEN UNCHANGED notices ELSE Note("toast")
  /\ UNCHANGED <<page, status, failed, me, display, cards>>

\* Faulty variant: the card of a settled proposal stays.
CardKept(tally) ==
  [there |-> TRUE, tally |-> tally, row |-> tally.pending /\ me \in Approvers \ (tally.yes \cup tally.no)]

\* The card that showProposal leaves: none when settled, buttons for an approver who has not voted.
Card(tally) ==
  IF tally.pending
    THEN [there |-> TRUE, tally |-> tally, row |-> me \in Approvers \ (tally.yes \cup tally.no)]
    ELSE NoCard

\* A tally that does not open, or parse, is ignored.
Proposal ==
  /\ Turn("proposal")
  /\ cards' = IF Readable(Head(inbox)) THEN [cards EXCEPT ![Head(inbox).id] = Card(Head(inbox).tally)] ELSE cards
  /\ UNCHANGED <<page, status, failed, me, display, notices>>

Handle == Hello \/ Output \/ Resize \/ Info \/ Activity \/ Say \/ Proposal

-----------------------------------------------------------------------------
(* The person at the page *)

\* Faulty variant: each seals on its own, without sendChain.
QueueUnchained(x) ==
  \E i \in 0 .. Len(outbox) : outbox' = SubSeq(outbox, 1, i) \o <<x>> \o SubSeq(outbox, i + 1, Len(outbox))

\* A key or a vote is put on sendChain.
Queue(x) == outbox' = Append(outbox, x)

\* term.onData: there is no handler before the key is imported.
Type ==
  /\ Settled
  /\ page \in {"connecting", "open", "closing", "closed"}
  /\ typed' = typed + 1
  /\ Queue([kind |-> "input", n |-> typed + 1])
  /\ UNCHANGED <<link, page, status, failed, me, inbox, display, cards, first, notices>>

\* A button: the row goes, and the vote carries the name we have now.
Click(id, op) ==
  /\ Settled
  /\ cards[id].there /\ cards[id].row
  /\ cards' = [cards EXCEPT ![id].row = FALSE]
  /\ Queue([kind |-> "vote", id |-> id, op |-> op, voter |-> me])
  /\ first' = IF first[id] = "none" THEN [first EXCEPT ![id] = op] ELSE first
  /\ UNCHANGED <<link, page, status, failed, me, inbox, display, typed, notices>>

\* The window is resized; once the host has announced its size that counts.
WindowResize(s) ==
  /\ Settled
  /\ page # "form"
  /\ size' = IF hostSized THEN size ELSE s
  /\ UNCHANGED <<link, page, status, failed, me, chains, screen, hostSized, cards, typed, first, notices>>

\* Faulty variant: readyState is compared with CONNECTING.
SentWhileConnecting(wire) == IF page = "connecting" THEN Append(wire, Head(outbox)) ELSE wire

\* The next turn of sendChain: sealed when there is a key, sent when ws is open.
Sent(wire) == IF page = "open" THEN Append(wire, Head(outbox)) ELSE wire

Send ==
  /\ outbox # << >>
  /\ outbox' = Tail(outbox)
  /\ UNCHANGED <<link, page, status, failed, me, inbox, display, cards, typed, first, notices>>

-----------------------------------------------------------------------------
PageInit ==
  /\ link \in Links
  /\ page = Opened(link)
  /\ status = IF link.code THEN "connecting" ELSE "not connected"
  /\ failed = FALSE
  /\ me = link.name
  /\ inbox = << >> /\ outbox = << >>
  /\ screen = << >> /\ hostSized = FALSE /\ size \in Windows
  /\ cards = [i \in Ids |-> NoCard]
  /\ typed = 0 /\ first = [i \in Ids |-> "none"]
  /\ shown = [b \in Boxes |-> FALSE] /\ timers = [b \in Boxes |-> {}]
=============================================================================
