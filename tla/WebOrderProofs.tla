--------------------------- MODULE WebOrderProofs ---------------------------
(***************************************************************************)
(* That frames and keys stay in order on their way through the page's two  *)
(* chains and the websocket, and that what the page shows in the end is    *)
(* what it was told last (WebSession).                                     *)
(***************************************************************************)
EXTENDS WebSessionProofs

USE DEF vars, pageVars, serverVars, chains, display, notices, sent, ballots

-----------------------------------------------------------------------------
(* Numbers in a row *)

\* The items of this kind in q are numbered, and go on from a.
Numbered(q, kind) == \A k \in 1 .. Len(q) : q[k].kind = kind => q[k].n \in Nat
InRow(q, kind, a) ==
  \A k \in 1 .. Len(q) : q[k].kind = kind =>
    /\ q[k].n > a
    /\ \A j \in 1 .. k - 1 : q[j].kind = kind => q[j].n < q[k].n
    /\ \A m \in a + 1 .. q[k].n - 1 : \E j \in 1 .. k - 1 : q[j].kind = kind /\ q[j].n = m

\* They go on from a to b.
UpTo(q, kind, a, b) ==
  /\ a <= b
  /\ \A k \in 1 .. Len(q) : q[k].kind = kind => q[k].n <= b
  /\ \A m \in a + 1 .. b : \E j \in 1 .. Len(q) : q[j].kind = kind /\ q[j].n = m

\* The first one of the kind, at the head of the queue, is the next number.
LEMMA RowHead ==
  ASSUME NEW p, Len(p) \in Nat, Len(p) > 0, NEW kind, NEW a \in Nat, Numbered(p, kind), InRow(p, kind, a), p[1].kind = kind
  PROVE  p[1].n = a + 1
<1>1. 1 \in 1 .. Len(p) /\ p[1].n \in Nat /\ p[1].n > a
  BY DEF Numbered, InRow
<1>2. ASSUME p[1].n > a + 1 PROVE FALSE
  <2>1. a + 1 \in a + 1 .. p[1].n - 1
    BY <1>1, <1>2
  <2>2. \E j \in 1 .. 1 - 1 : p[j].kind = kind /\ p[j].n = a + 1
    BY <1>1, <2>1 DEF InRow
  <2> QED
    BY <2>2
<1> QED
  BY <1>1, <1>2

LEMMA RowGrown ==
  ASSUME NEW p, NEW q, NEW x, Len(p) \in Nat, NEW kind, NEW a \in Nat, Numbered(p, kind), InRow(p, kind, a),
         Grown(p, q, x), x.kind # kind
  PROVE  InRow(q, kind, a) /\ \A b \in Nat : UpTo(p, kind, a, b) => UpTo(q, kind, a, b)
<1>1. Len(q) = Len(p) + 1 /\ q[Len(q)] = x /\ \A k \in 1 .. Len(p) : q[k] = p[k]
  BY DEF Grown
<1>2. \A k \in 1 .. Len(q) : q[k].kind = kind => k \in 1 .. Len(p)
  BY <1>1
<1>3. InRow(q, kind, a)
  <2> SUFFICES ASSUME NEW k \in 1 .. Len(q), q[k].kind = kind
               PROVE  /\ q[k].n > a
                      /\ \A j \in 1 .. k - 1 : q[j].kind = kind => q[j].n < q[k].n
                      /\ \A m \in a + 1 .. q[k].n - 1 : \E j \in 1 .. k - 1 : q[j].kind = kind /\ q[j].n = m
    BY DEF InRow
  <2>1. k \in 1 .. Len(p) /\ \A j \in 1 .. k : q[j] = p[j]
    BY <1>1, <1>2
  <2>2. /\ p[k].n > a
        /\ \A j \in 1 .. k - 1 : p[j].kind = kind => p[j].n < p[k].n
        /\ \A m \in a + 1 .. p[k].n - 1 : \E j \in 1 .. k - 1 : p[j].kind = kind /\ p[j].n = m
    BY <2>1 DEF InRow
  <2> QED
    BY <2>1, <2>2
<1>4. ASSUME NEW b \in Nat, UpTo(p, kind, a, b) PROVE UpTo(q, kind, a, b)
  <2>1. \A k \in 1 .. Len(q) : q[k].kind = kind => q[k].n <= b
    BY <1>1, <1>2, <1>4 DEF UpTo
  <2>2. ASSUME NEW m \in a + 1 .. b PROVE \E j \in 1 .. Len(q) : q[j].kind = kind /\ q[j].n = m
    <3>1. PICK j \in 1 .. Len(p) : p[j].kind = kind /\ p[j].n = m
      BY <1>4 DEF UpTo
    <3> QED
      BY <1>1, <3>1
  <2> QED
    BY <1>4, <2>1, <2>2 DEF UpTo
<1> QED
  BY <1>3, <1>4

LEMMA RowNext ==
  ASSUME NEW p, NEW q, NEW x, Len(p) \in Nat, NEW kind, NEW a \in Nat, NEW b \in Nat, Numbered(p, kind),
         InRow(p, kind, a), UpTo(p, kind, a, b), Grown(p, q, x), x.kind = kind, x.n = b + 1
  PROVE  InRow(q, kind, a) /\ UpTo(q, kind, a, b + 1)
<1>1. Len(q) = Len(p) + 1 /\ q[Len(q)] = x /\ \A k \in 1 .. Len(p) : q[k] = p[k]
  BY DEF Grown
<1>2. a <= b /\ \A k \in 1 .. Len(p) : p[k].kind = kind => p[k].n <= b
  BY DEF UpTo
<1>3. \A m \in a + 1 .. b : \E j \in 1 .. Len(p) : p[j].kind = kind /\ p[j].n = m
  BY DEF UpTo
<1>4. InRow(q, kind, a)
  <2> SUFFICES ASSUME NEW k \in 1 .. Len(q), q[k].kind = kind
               PROVE  /\ q[k].n > a
                      /\ \A j \in 1 .. k - 1 : q[j].kind = kind => q[j].n < q[k].n
                      /\ \A m \in a + 1 .. q[k].n - 1 : \E j \in 1 .. k - 1 : q[j].kind = kind /\ q[j].n = m
    BY DEF InRow
  <2>1. CASE k = Len(q)
    <3>1. q[k].n = b + 1 /\ q[k].n - 1 = b /\ k - 1 = Len(p)
      BY <1>1, <2>1
    <3>2. ASSUME NEW j \in 1 .. k - 1, q[j].kind = kind PROVE q[j].n < q[k].n
      <4>1. j \in 1 .. Len(p) /\ q[j] = p[j]
        BY <1>1, <3>1
      <4>2. p[j].n <= b /\ p[j].n \in Nat
        BY <1>2, <3>2, <4>1 DEF Numbered
      <4> QED
        BY <3>1, <4>1, <4>2
    <3>3. ASSUME NEW m \in a + 1 .. b PROVE \E j \in 1 .. Len(p) : q[j].kind = kind /\ q[j].n = m
      <4>1. PICK j \in 1 .. Len(p) : p[j].kind = kind /\ p[j].n = m
        BY <1>3
      <4> QED
        BY <1>1, <4>1
    <3> QED
      BY <1>2, <3>1, <3>2, <3>3
  <2>2. CASE k # Len(q)
    <3>1. k \in 1 .. Len(p) /\ \A j \in 1 .. k : q[j] = p[j]
      BY <1>1, <2>2
    <3>2. /\ p[k].n > a
          /\ \A j \in 1 .. k - 1 : p[j].kind = kind => p[j].n < p[k].n
          /\ \A m \in a + 1 .. p[k].n - 1 : \E j \in 1 .. k - 1 : p[j].kind = kind /\ p[j].n = m
      BY <3>1 DEF InRow
    <3> QED
      BY <3>1, <3>2
  <2> QED
    BY <2>1, <2>2
<1>5. ASSUME NEW k \in 1 .. Len(q), q[k].kind = kind PROVE q[k].n <= b + 1
  <2>1. CASE k = Len(q)
    BY <1>1, <2>1
  <2>2. CASE k # Len(q)
    <3>1. k \in 1 .. Len(p) /\ q[k] = p[k]
      BY <1>1, <2>2
    <3>2. p[k].n \in Nat /\ p[k].n <= b
      BY <1>2, <1>5, <3>1 DEF Numbered
    <3> QED
      BY <3>1, <3>2
  <2> QED
    BY <2>1, <2>2
<1>6. ASSUME NEW m \in a + 1 .. b + 1 PROVE \E j \in 1 .. Len(q) : q[j].kind = kind /\ q[j].n = m
  <2>1. CASE m = b + 1
    <3>1. Len(q) \in 1 .. Len(q)
      BY <1>1
    <3> QED
      BY <1>1, <2>1, <3>1
  <2>2. CASE m # b + 1
    <3>1. m \in a + 1 .. b
      BY <2>2
    <3>2. PICK j \in 1 .. Len(p) : p[j].kind = kind /\ p[j].n = m
      BY <1>3, <3>1
    <3> QED
      BY <1>1, <3>2
  <2> QED
    BY <2>1, <2>2
<1> QED
  BY <1>2, <1>4, <1>5, <1>6 DEF UpTo

LEMMA RowCut ==
  ASSUME NEW p, NEW q, Len(p) \in Nat, Len(q) \in Nat, NEW kind, NEW a \in Nat, InRow(p, kind, a), Cut(p, q)
  PROVE  InRow(q, kind, a)
<1> SUFFICES ASSUME NEW k \in 1 .. Len(q), q[k].kind = kind
             PROVE  /\ q[k].n > a
                    /\ \A j \in 1 .. k - 1 : q[j].kind = kind => q[j].n < q[k].n
                    /\ \A m \in a + 1 .. q[k].n - 1 : \E j \in 1 .. k - 1 : q[j].kind = kind /\ q[j].n = m
  BY Zenon DEF InRow
<1>1. k \in 1 .. Len(p) /\ \A j \in 1 .. k : q[j] = p[j]
  BY DEF Cut
<1>2. /\ p[k].n > a
      /\ \A j \in 1 .. k - 1 : p[j].kind = kind => p[j].n < p[k].n
      /\ \A m \in a + 1 .. p[k].n - 1 : \E j \in 1 .. k - 1 : p[j].kind = kind /\ p[j].n = m
  BY <1>1 DEF InRow
<1> QED
  BY <1>1, <1>2

\* Without the head of the queue they go on from it, or, when it is not of the
\* kind, from where they did.
LEMMA RowPopped ==
  ASSUME NEW p, NEW q, Len(p) \in Nat, Len(q) \in Nat, NEW kind, NEW a \in Nat, NEW c \in Nat,
         Numbered(p, kind), InRow(p, kind, a), Popped(p, q),
         c = IF p[1].kind = kind THEN a + 1 ELSE a
  PROVE  /\ InRow(q, kind, c)
         /\ \A b \in Nat : Len(q) = Len(p) - 1 /\ UpTo(p, kind, a, b) => UpTo(q, kind, c, b)
<1>1. Len(q) < Len(p) /\ \A k \in 1 .. Len(q) : q[k] = p[k + 1] /\ k + 1 \in 1 .. Len(p)
  BY DEF Popped
<1>2. p[1].kind = kind => p[1].n = a + 1 /\ c = a + 1
  BY <1>1, RowHead
<1>3. p[1].kind # kind => c = a
  OBVIOUS
<1>4. ASSUME NEW k \in 1 .. Len(p), p[k].kind = kind, k # 1 PROVE p[k].n \in Nat /\ p[k].n > c
  <2>1. p[k].n \in Nat /\ p[k].n > a
    BY <1>4 DEF Numbered, InRow
  <2>2. CASE p[1].kind = kind
    <3>1. 1 \in 1 .. k - 1
      BY <1>4
    <3>2. p[1].n < p[k].n
      BY <1>4, <2>2, <3>1 DEF InRow
    <3> QED
      BY <1>2, <2>1, <2>2, <3>2
  <2> QED
    BY <1>3, <2>1, <2>2
<1>6. InRow(q, kind, c)
  <2> SUFFICES ASSUME NEW k \in 1 .. Len(q), q[k].kind = kind
               PROVE  /\ q[k].n > c
                      /\ \A j \in 1 .. k - 1 : q[j].kind = kind => q[j].n < q[k].n
                      /\ \A m \in c + 1 .. q[k].n - 1 : \E j \in 1 .. k - 1 : q[j].kind = kind /\ q[j].n = m
    BY DEF InRow
  <2>1. q[k] = p[k + 1] /\ k + 1 \in 1 .. Len(p) /\ k + 1 # 1
    BY <1>1
  <2>2. q[k].n \in Nat /\ q[k].n > c
    BY <1>4, <2>1
  <2>3. ASSUME NEW j \in 1 .. k - 1, q[j].kind = kind PROVE q[j].n < q[k].n
    <3>1. j \in 1 .. Len(q) /\ j + 1 \in 1 .. (k + 1) - 1
      OBVIOUS
    <3>2. q[j] = p[j + 1]
      BY <1>1, <3>1
    <3>3. p[j + 1].n < p[k + 1].n
      BY <2>1, <2>3, <3>1, <3>2 DEF InRow
    <3> QED
      BY <2>1, <3>2, <3>3
  <2>4. ASSUME NEW m \in c + 1 .. q[k].n - 1 PROVE \E j \in 1 .. k - 1 : q[j].kind = kind /\ q[j].n = m
    <3>1. m \in a + 1 .. p[k + 1].n - 1
      BY <1>2, <1>3, <2>1, <2>2
    <3>2. PICK j \in 1 .. (k + 1) - 1 : p[j].kind = kind /\ p[j].n = m
      BY <2>1, <3>1 DEF InRow
    <3>3. j # 1
      <4>1. m # c
        BY <2>2
      <4>2. p[1].kind = kind => p[1].n = c
        BY <1>2, Zenon
      <4> QED
        BY <3>2, <4>1, <4>2, Zenon
    <3>4. j - 1 \in 1 .. k - 1 /\ j - 1 \in 1 .. Len(q) /\ (j - 1) + 1 = j
      BY <3>2, <3>3
    <3>5. q[j - 1] = p[j]
      BY <1>1, <3>4
    <3> QED
      BY <3>2, <3>4, <3>5
  <2> QED
    BY <2>2, <2>3, <2>4
<1>7. ASSUME NEW b \in Nat, Len(q) = Len(p) - 1, UpTo(p, kind, a, b) PROVE UpTo(q, kind, c, b)
  <2>1. a <= b /\ \A k \in 1 .. Len(p) : p[k].kind = kind => p[k].n <= b
    BY <1>7 DEF UpTo
  <2>2. c <= b
    <3>1. 1 \in 1 .. Len(p)
      BY <1>7, <1>1
    <3> QED
      BY <1>2, <1>3, <2>1, <3>1
  <2>3. \A k \in 1 .. Len(q) : q[k].kind = kind => q[k].n <= b
    BY <1>1, <2>1
  <2>4. ASSUME NEW m \in c + 1 .. b PROVE \E j \in 1 .. Len(q) : q[j].kind = kind /\ q[j].n = m
    <3>1. m \in a + 1 .. b /\ m > c
      BY <1>2, <1>3
    <3>2. PICK j \in 1 .. Len(p) : p[j].kind = kind /\ p[j].n = m
      BY <1>7, <3>1 DEF UpTo
    <3>3. j # 1
      BY <1>2, <3>1, <3>2
    <3>4. j - 1 \in 1 .. Len(q) /\ (j - 1) + 1 = j
      BY <1>7, <3>2, <3>3
    <3>5. q[j - 1] = p[j]
      BY <1>1, <3>4
    <3> QED
      BY <3>2, <3>4, <3>5
  <2> QED
    BY <2>2, <2>3, <2>4 DEF UpTo
<1> QED
  BY <1>6, <1>7

-----------------------------------------------------------------------------
(* Output *)

\* The output under way goes on from what is displayed; a page that cannot read it
\* displays none.
Displayed ==
  /\ \A i \in 1 .. Len(screen) : screen[i] = i
  /\ \A k \in 1 .. Len(Pipe) : Pipe[k].kind = "output" => Pipe[k].sealed = enc
  /\ HasKey /\ ~Opens => screen = << >>
  /\ ~(HasKey /\ ~Opens) => InRow(Pipe, "output", Len(screen))
  /\ ~(HasKey /\ ~Opens) /\ page = "open" => UpTo(Pipe, "output", Len(screen), frames["output"])

LEMMA PipeNumbered ==
  ASSUME TypeOK
  PROVE  Numbered(Pipe, "output") /\ Len(screen) \in Nat /\ frames["output"] \in Nat
<1>1. ASSUME NEW f \in Frames, f.kind = "output" PROVE f.n \in Nat
  BY <1>1 DEF Frames
<1>2. Numbered(Pipe, "output")
  BY <1>1, PipeType, ElementOfSeq DEF Numbered
<1>3. Len(screen) \in Nat
  BY LenProperties DEF TypeOK, PageTypeOK
<1> QED
  BY <1>2, <1>3 DEF TypeOK, SessionTypeOK, Told

\* Only a turn of the page displays output, and what cannot be read is not displayed.
LEMMA ScreenSteps ==
  ASSUME [Next]_vars
  PROVE  \/ UNCHANGED screen /\ ~(PageTurn /\ Head(inbox).kind = "output")
         \/ /\ PageTurn /\ Head(inbox).kind = "output"
            /\ IF HasKey /\ ~Readable(Head(inbox))
                 THEN screen' = screen
                 ELSE screen' = Append(screen, Head(inbox).n)
<1>1. CASE PageTurn
  <2>1. Head(inbox).kind # "output" => screen' = screen
    BY <1>1 DEF PageTurn, Handle, Hello, Output, Resize, Info, Activity, Say, Proposal, Turn
  <2>2. Head(inbox).kind = "output" => Output
    BY <1>1 DEF PageTurn, Handle, Hello, Resize, Info, Activity, Say, Proposal, Turn
  <2>3. Output => IF HasKey /\ ~Readable(Head(inbox)) THEN screen' = screen ELSE screen' = Append(screen, Head(inbox).n)
    BY Zenon DEF Output
  <2> QED
    BY <1>1, <2>1, <2>2, <2>3
<1>2. CASE ~PageTurn
  <2>1. UNCHANGED screen
    BY <1>2, Zenon DEF Next, Server, Browser, Person, World, Alone, Join, Welcome, ReadKey, ReadVote, Announce, Deliver,
       Message, SendTurn, Send, Lose, Close, Broadcast, Hold, Expire, OtherVote, ImportKey, Submit, Type, Click,
       WindowResize, Connect, Fire
  <2> QED
    BY <1>2, <2>1
<1> QED
  BY <1>1, <1>2

LEMMA LinkSteps ==
  ASSUME [Next]_vars, page # "form"
  PROVE  link' = link
BY Zenon DEF Next, Server, Browser, Person, World, Alone, Join, Welcome, ReadKey, ReadVote, Announce, Deliver,
   PageTurn, SendTurn, Lose, Broadcast, Hold, Expire, OtherVote, Handle, Hello, Output, Resize, Info, Activity,
   Say, Proposal, Turn, Message, Send, Close, Connect, ImportKey, Submit, Type, Click, WindowResize, Fire

LEMMA OpensReads ==
  ASSUME NEW f, f.sealed = enc
  PROVE  Readable(f) <=> Opens
<1>1. link.key = "right" => HasKey
  BY DEF HasKey
<1> QED
  BY <1>1, Zenon DEF Readable, Opens

\* The frames of a step are sealed as the session is.
LEMMA OutputSealed ==
  ASSUME TypeOK, Fresh, Displayed, [Next]_vars, NEW k \in 1 .. Len(Pipe'), Pipe'[k].kind = "output"
  PROVE  Pipe'[k].sealed = enc'
<1>0. enc' = enc /\ Len(Pipe) \in Nat /\ Len(Pipe') \in Nat
  BY NameSteps, PipeType, PipeTypeNext
<1>1. ASSUME NEW j \in 1 .. Len(Pipe), Pipe'[k] = Pipe[j]
      PROVE  Pipe'[k].sealed = enc'
  BY <1>0, <1>1 DEF Displayed
<1>2. CASE Silent
  BY <1>1, <1>2 DEF Silent
<1>3. ASSUME NEW f, Grown(Pipe, Pipe', f), f.kind = "output" => f.sealed = enc
      PROVE  Pipe'[k].sealed = enc'
  <2>1. CASE k = Len(Pipe')
    BY <1>0, <1>3, <2>1 DEF Grown
  <2>2. CASE k # Len(Pipe')
    <3>1. k \in 1 .. Len(Pipe) /\ Pipe'[k] = Pipe[k]
      BY <1>0, <1>3, <2>2 DEF Grown
    <3> QED
      BY <1>1, <3>1
  <2> QED
    BY <2>1, <2>2
<1>4. CASE Sends
  <2>1. PICK f \in Frames : Sending(f) /\ Grown(Pipe, Pipe', f)
    BY <1>4 DEF Sends
  <2>2. f.kind = "output" => f.sealed = enc
    BY <2>1 DEF Sending
  <2> QED
    BY <1>3, <2>1, <2>2
<1>5. CASE Welcome
  <2>1. PICK f \in Frames : Greets(f)
    BY <1>5, PipeGreeted
  <2>2. f.kind # "output"
    BY <2>1 DEF Greets
  <2> QED
    BY <1>1, <1>3, <2>1, <2>2 DEF Greets
<1>6. CASE Popped(Pipe, Pipe')
  <2>1. k + 1 \in 1 .. Len(Pipe) /\ Pipe'[k] = Pipe[k + 1]
    BY <1>0, <1>6 DEF Popped
  <2> QED
    BY <1>1, <2>1
<1>7. CASE Cut(Pipe, Pipe')
  BY <1>0, <1>1, <1>7 DEF Cut
<1> QED
  BY <1>2, <1>4, <1>5, <1>6, <1>7, PipeSteps

\* Nothing but a broadcast of output counts it.
LEMMA OutputCounts ==
  ASSUME TypeOK, Fresh, [Next]_vars
  PROVE  frames'["output"] = frames["output"] \/ Sends
<1>1. CASE ReadVote \/ (\E x \in owed : Announce(x)) \/ \E k \in Told : Broadcast(k)
  BY <1>1, PipeSent DEF Silent
<1>2. CASE UNCHANGED frames
  BY <1>2
<1>3. \/ ReadVote \/ (\E x \in owed : Announce(x)) \/ \E k \in Told : Broadcast(k)
      \/ UNCHANGED frames
  BY Zenon DEF Next, Server, Browser, Person, World, Alone, Join, Welcome, ReadKey, Deliver, PageTurn, SendTurn, Lose,
     Hold, Expire, OtherVote
<1> QED
  BY <1>1, <1>2, <1>3

\* The page can read the output, or displays it sealed.
Clear == ~(HasKey /\ ~Opens)

\* A step that leaves the screen alone.
LEMMA RowsKept ==
  ASSUME TypeOK, Fresh, Displayed, [Next]_vars, Clear, screen' = screen,
         ~(PageTurn /\ Head(inbox).kind = "output")
  PROVE  /\ InRow(Pipe', "output", Len(screen))
         /\ page = "open" /\ page' = "open" => UpTo(Pipe', "output", Len(screen), frames'["output"])
<1>0. /\ Len(Pipe) \in Nat /\ Len(Pipe') \in Nat /\ Numbered(Pipe, "output")
      /\ Len(screen) \in Nat /\ frames["output"] \in Nat
  BY PipeType, PipeTypeNext, PipeNumbered
<1>1. /\ InRow(Pipe, "output", Len(screen))
      /\ page = "open" => UpTo(Pipe, "output", Len(screen), frames["output"])
  BY DEF Displayed, Clear
<1>2. CASE Silent
  BY <1>1, <1>2 DEF Silent
<1>3. ASSUME NEW f, Grown(Pipe, Pipe', f), f.kind # "output", frames'["output"] = frames["output"]
      PROVE  /\ InRow(Pipe', "output", Len(screen))
             /\ page = "open" => UpTo(Pipe', "output", Len(screen), frames'["output"])
  BY <1>0, <1>1, <1>3, RowGrown
<1>4. CASE Sends
  <2>1. PICK f \in Frames : Sending(f) /\ Grown(Pipe, Pipe', f) /\ page = "open"
    BY <1>4 DEF Sends
  <2>2. CASE f.kind = "output"
    <3>1. f.n = frames["output"] + 1 /\ frames'["output"] = frames["output"] + 1
      BY <2>1, <2>2 DEF Sending
    <3> QED
      BY <1>0, <1>1, <2>1, <2>2, <3>1, RowNext
  <2>3. CASE f.kind # "output"
    <3>1. frames'["output"] = frames["output"]
      BY <2>1, <2>3 DEF Sending
    <3> QED
      BY <1>3, <2>1, <2>3, <3>1
  <2> QED
    BY <2>2, <2>3
<1>5. CASE Welcome
  <2>1. PICK f \in Frames : Greets(f)
    BY <1>5, PipeGreeted
  <2>2. f.kind # "output" /\ frames' = frames
    BY <1>5, <2>1 DEF Greets, Welcome
  <2> QED
    BY <1>1, <1>3, <2>1, <2>2 DEF Greets
<1>6. CASE PageTurn
  <2>1. Pipe # << >> /\ Pipe[1].kind # "output" /\ Popped(Pipe, Pipe') /\ (page' = "open" => Len(Pipe') = Len(Pipe) - 1)
    BY <1>6, PipeTurn
  <2>2. frames' = frames
    BY <1>6 DEF PageTurn
  <2> QED
    BY <1>0, <1>1, <2>1, <2>2, RowPopped
<1>7. CASE Lose /\ Cut(Pipe, Pipe')
  <2>1. page' = "closed"
    BY <1>7 DEF Lose, Close
  <2> QED
    BY <1>0, <1>1, <1>7, <2>1, RowCut
<1> QED
  BY <1>2, <1>4, <1>5, <1>6, <1>7, PipeSteps

LEMMA DisplayedStep ==
  ASSUME TypeOK, Fresh, Displayed, [Next]_vars
  PROVE  Displayed'
<1>0. /\ Len(Pipe) \in Nat /\ Len(Pipe') \in Nat /\ Numbered(Pipe, "output") /\ (Pipe # << >> => Len(Pipe) > 0)
      /\ screen \in Seq(Nat) /\ Len(screen) \in Nat /\ frames["output"] \in Nat /\ Pipe \in Seq(Frames)
  BY PipeType, PipeTypeNext, PipeNumbered, EmptySeq DEF TypeOK, PageTypeOK
<1>1. \A k \in 1 .. Len(Pipe') : Pipe'[k].kind = "output" => Pipe'[k].sealed = enc'
  BY OutputSealed
<1>2. enc' = enc
  BY NameSteps
<1>3. CASE page \in Before
  <2>1. Pipe = << >> /\ screen = << >> /\ frames["output"] = 0
    BY <1>3, PipeType DEF Fresh, Before
  <2>2. ~PageTurn
    BY <2>1, PipeTurn
  <2>3. screen' = << >>
    BY <2>1, <2>2, ScreenSteps
  <2>4. ~Sends
    BY <1>3 DEF Sends, Before
  <2>5. frames'["output"] = 0
    BY <2>1, <2>4, OutputCounts
  <2>6. Len(Pipe') = 0
    <3>1. ~Welcome
      BY <1>3 DEF Fresh, Welcome
    <3>2. Cut(Pipe, Pipe') => Len(Pipe') = 0
      BY <1>0, <2>1 DEF Cut
    <3> QED
      BY <2>1, <2>2, <2>4, <3>1, <3>2, PipeSteps DEF Silent
  <2>7. InRow(Pipe', "output", 0) /\ UpTo(Pipe', "output", 0, 0)
    BY <2>6 DEF InRow, UpTo
  <2> QED
    BY <1>1, <2>3, <2>5, <2>7 DEF Displayed
<1>4. CASE page \notin Before
  <2>1. link' = link /\ (page' = "open" => page = "open")
    BY <1>4, LinkSteps, SeatSteps DEF Before
  <2>2. (HasKey' <=> HasKey) /\ (Opens' <=> Opens)
    BY <1>2, <2>1, OpensStays DEF HasKey
  <2>3. CASE screen' = screen /\ ~(PageTurn /\ Head(inbox).kind = "output")
    <3>1. Clear => /\ InRow(Pipe', "output", Len(screen))
                   /\ page = "open" /\ page' = "open" => UpTo(Pipe', "output", Len(screen), frames'["output"])
      BY <2>3, RowsKept
    <3>2. ~Clear => screen = << >>
      BY DEF Clear, Displayed
    <3>3. \A i \in 1 .. Len(screen) : screen[i] = i
      BY DEF Displayed
    <3> QED
      BY <1>1, <2>1, <2>2, <2>3, <3>1, <3>2, <3>3 DEF Displayed, Clear
  <2>4. CASE /\ PageTurn /\ Head(inbox).kind = "output"
             /\ IF HasKey /\ ~Readable(Head(inbox))
                  THEN screen' = screen
                  ELSE screen' = Append(screen, Head(inbox).n)
    <3> DEFINE f == Head(inbox)
    <3>1. /\ Pipe # << >> /\ Pipe[1] = f /\ Popped(Pipe, Pipe')
          /\ page' = "open" => Len(Pipe') = Len(Pipe) - 1
      BY <2>4, PipeTurn
    <3>2. f.sealed = enc /\ f.kind = "output"
      BY <1>0, <2>4, <3>1 DEF Displayed
    <3>3. Readable(f) <=> Opens
      BY <3>2, OpensReads
    <3>4. frames' = frames
      BY <2>4 DEF PageTurn
    <3>5. CASE ~Clear
      <4>1. screen' = << >>
        BY <2>4, <3>3, <3>5 DEF Clear, Displayed
      <4> QED
        BY <1>1, <2>2, <3>5, <4>1 DEF Displayed, Clear
    <3>6. CASE Clear
      <4>1. screen' = Append(screen, f.n)
        BY <2>4, <3>3, <3>6 DEF Clear
      <4>2. InRow(Pipe, "output", Len(screen)) /\ (page = "open" => UpTo(Pipe, "output", Len(screen), frames["output"]))
        BY <3>6 DEF Clear, Displayed
      <4>3. f.n = Len(screen) + 1
        BY <1>0, <3>1, <3>2, <4>2, RowHead
      <4>4. Len(screen') = Len(screen) + 1 /\ \A i \in 1 .. Len(screen') : screen'[i] = i
        <5>1. f.n \in Nat
          BY <1>0, <4>3
        <5>2. Len(screen') = Len(screen) + 1 /\ screen'[Len(screen) + 1] = f.n /\ \A i \in 1 .. Len(screen) : screen'[i] = screen[i]
          BY <1>0, <4>1, <5>1, AppendProperties
        <5>3. \A i \in 1 .. Len(screen) : screen[i] = i
          BY DEF Displayed
        <5> QED
          BY <1>0, <4>3, <5>2, <5>3
      <4>5. InRow(Pipe', "output", Len(screen'))
        BY <1>0, <3>1, <3>2, <4>2, <4>4, RowPopped
      <4>6. page' = "open" => UpTo(Pipe', "output", Len(screen'), frames'["output"])
        BY <1>0, <2>1, <3>1, <3>2, <3>4, <4>2, <4>4, RowPopped
      <4> QED
        BY <1>1, <2>2, <3>6, <4>4, <4>5, <4>6 DEF Displayed, Clear
    <3> QED
      BY <3>5, <3>6
  <2> QED
    BY <2>3, <2>4, ScreenSteps
<1> QED
  BY <1>3, <1>4

-----------------------------------------------------------------------------
(* Keys *)

\* The keys on their way go on from the last one that reached the shell, or from
\* one that was dropped before the first one did.
From(a) ==
  /\ InRow(Keys, "input", a)
  /\ page \notin {"closing", "closed"} => UpTo(Keys, "input", a, typed)
Typed ==
  /\ \A i \in 1 .. Len(got) - 1 : got[i + 1] = got[i] + 1
  /\ enc /\ ~Opens => got = << >>
  /\ \E a \in Nat : From(a) /\ (got # << >> => got[Len(got)] = a)

LEMMA KeysNumbered ==
  ASSUME TypeOK
  PROVE  Numbered(Keys, "input") /\ got \in Seq(Nat) /\ Len(got) \in Nat /\ typed \in Nat
<1>1. ASSUME NEW x \in Items, x.kind = "input" PROVE x.n \in Nat
  BY <1>1 DEF Items
<1>2. Numbered(Keys, "input")
  BY <1>1, KeysType, ElementOfSeq DEF TypeOK, Numbered
<1> QED
  BY <1>2, LenProperties DEF TypeOK, PageTypeOK, SessionTypeOK


\* How the keys that are there move on; what a step reads, or drops before the
\* connection is open, is the next one.
LEMMA KeysInRow ==
  ASSUME TypeOK, Fresh, [Next]_vars, NEW a \in Nat, From(a)
  PROVE  \/ got' = got /\ From(a)'
         \/ /\ got' = got /\ got = << >>
            /\ From(a + 1)'
         \/ /\ ReadKey /\ Head(wire).n = a + 1 /\ page \notin Before
            /\ From(a + 1)'
<1> DEFINE Open == page \notin {"closing", "closed"}
<1>0. /\ Len(Keys) \in Nat /\ Len(Keys') \in Nat /\ (Keys # << >> => Len(Keys) > 0)
      /\ Numbered(Keys, "input") /\ typed \in Nat
      /\ InRow(Keys, "input", a) /\ (Open => UpTo(Keys, "input", a, typed))
  BY KeysType, KeysTypeNext, KeysNumbered DEF From, TypeOK
<1>1. CASE Alone(Type) /\ Queues(Input)
  <2>1. page' = page /\ typed' = typed + 1 /\ got' = got
    BY <1>1 DEF Alone, Type
  <2>2. Input.kind = "input" /\ Input.n = typed + 1
    BY DEF Input
  <2>3. CASE ~Open
    BY <1>0, <1>1, <2>1, <2>3 DEF Queues, From
  <2>4. CASE Open
    <3>1. Grown(Keys, Keys', Input)
      BY <1>1, <2>4 DEF Queues
    <3>2. InRow(Keys', "input", a) /\ UpTo(Keys', "input", a, typed + 1)
      BY <1>0, <2>2, <2>4, <3>1, RowNext
    <3> QED
      BY <2>1, <3>2 DEF From
  <2> QED
    BY <2>3, <2>4
<1>2. ASSUME NEW i \in Ids, NEW op \in Ops, Alone(Click(i, op)), Queues(Vote(i, op))
      PROVE  got' = got /\ From(a)'
  <2>1. page' = page /\ typed' = typed /\ got' = got
    BY <1>2 DEF Alone, Click
  <2>2. Vote(i, op).kind # "input"
    BY DEF Vote
  <2>3. CASE ~Open
    BY <1>0, <1>2, <2>1, <2>3 DEF Queues, From
  <2>4. CASE Open
    <3>1. Grown(Keys, Keys', Vote(i, op))
      BY <1>2, <2>4 DEF Queues
    <3>2. InRow(Keys', "input", a) /\ UpTo(Keys', "input", a, typed)
      BY <1>0, <2>2, <2>4, <3>1, RowGrown
    <3> QED
      BY <2>1, <3>2 DEF From
  <2> QED
    BY <2>3, <2>4
<1>3. ASSUME Reads, NEW c \in Nat, c = IF Keys[1].kind = "input" THEN a + 1 ELSE a
      PROVE  From(c)'
  <2>1. Keys # << >> /\ Popped(Keys, Keys') /\ Len(Keys') = Len(Keys) - 1 /\ page' = page /\ typed' = typed
    BY <1>3 DEF Reads
  <2>2. InRow(Keys', "input", c) /\ (Open => UpTo(Keys', "input", c, typed))
    BY <1>0, <1>3, <2>1, RowPopped
  <2> QED
    BY <2>1, <2>2 DEF From
<1>4. CASE ReadKey /\ Reads /\ Keys[1] = Head(wire)
  <2>1. Keys # << >> /\ Keys[1].kind = "input" /\ Keys[1] = Head(wire) /\ seat = "welcome"
    BY <1>4 DEF ReadKey, Reads
  <2>2. Keys[1].n = a + 1
    BY <1>0, <2>1, RowHead
  <2>3. From(a + 1)'
    BY <1>3, <1>4, <2>1
  <2>4. page \notin Before
    BY <2>1 DEF Fresh
  <2> QED
    BY <1>4, <2>1, <2>2, <2>3, <2>4
<1>5. CASE ReadVote /\ Reads /\ Keys[1] = Head(wire)
  <2>1. Keys[1].kind # "input" /\ got' = got
    BY <1>5 DEF ReadVote
  <2> QED
    BY <1>3, <1>5, <2>1
<1>6. CASE page = "connecting" /\ Reads /\ got' = got
  <2>1. got = << >>
    BY <1>6 DEF Fresh, Before
  <2>2. From(a)' \/ From(a + 1)'
    <3>1. CASE Keys[1].kind = "input"
      BY <1>3, <1>6, <3>1
    <3>2. CASE Keys[1].kind # "input"
      BY <1>3, <1>6, <3>2
    <3> QED
      BY <3>1, <3>2
  <2> QED
    BY <1>6, <2>1, <2>2
<1>7. CASE Cut(Keys, Keys') /\ page' \in {"closing", "closed"} /\ UNCHANGED <<first, typed, got>>
  <2>1. InRow(Keys', "input", a)
    BY <1>0, <1>7, RowCut
  <2> QED
    BY <1>7, <2>1 DEF From
<1>8. CASE Stays
  <2>1. Keys' = Keys /\ typed' = typed /\ got' = got /\ (page' = page \/ (page \in Before /\ page' \in Before \cup {"open"}))
    BY <1>8 DEF Stays
  <2>2. page' \notin {"closing", "closed"} => Open
    BY <2>1 DEF Before
  <2> QED
    BY <1>0, <2>1, <2>2 DEF From
<1> QED
  BY <1>1, <1>2, <1>4, <1>5, <1>6, <1>7, <1>8, KeySteps

LEMMA TypedStep ==
  ASSUME TypeOK, Fresh, Typed, [Next]_vars
  PROVE  Typed'
<1>0. got \in Seq(Nat) /\ Len(got) \in Nat /\ (got # << >> => Len(got) > 0) /\ (got = << >> => Len(got) = 0)
  BY KeysNumbered, EmptySeq
<1>1. /\ \A i \in 1 .. Len(got) - 1 : got[i + 1] = got[i] + 1
      /\ enc /\ ~Opens => got = << >>
  BY DEF Typed
<1>2. PICK a \in Nat : From(a) /\ (got # << >> => got[Len(got)] = a)
  BY DEF Typed
<1>3. got # << >> => (enc' = enc /\ (Opens' <=> Opens))
  <2>1. got # << >> => page # "form"
    BY DEF Fresh, Before
  <2> QED
    BY <2>1, NameSteps, LinkSteps, OpensStays
<1>4. ASSUME NEW b \in Nat, From(b)',
             \A i \in 1 .. Len(got') - 1 : got'[i + 1] = got'[i] + 1,
             enc' /\ ~Opens' => got' = << >>,
             got' # << >> => got'[Len(got')] = b
      PROVE  Typed'
  BY <1>4 DEF Typed
<1>5. ASSUME got' = got PROVE enc' /\ ~Opens' => got' = << >>
  BY <1>1, <1>3, <1>5
<1>6. ASSUME got' = got, NEW b \in Nat, From(b)',
             got # << >> => got[Len(got)] = b
      PROVE  Typed'
  <2>1. \A i \in 1 .. Len(got') - 1 : got'[i + 1] = got'[i] + 1
    BY <1>1, <1>6
  <2>2. got' # << >> => got'[Len(got')] = b
    BY <1>6
  <2>3. enc' /\ ~Opens' => got' = << >>
    BY <1>5, <1>6, Zenon
  <2> QED
    BY <1>4, <1>6, <2>1, <2>2, <2>3, Zenon
<1>7. CASE got' = got /\ (From(a)' \/ (got = << >> /\ From(a + 1)'))
  <2>1. a + 1 \in Nat
    OBVIOUS
  <2> QED
    BY <1>2, <1>6, <1>7, <2>1, Zenon
<1>8. CASE /\ ReadKey /\ Head(wire).n = a + 1 /\ page \notin Before
           /\ From(a + 1)'
  <2>1. got' = (IF enc /\ ~Opens THEN got ELSE Append(got, a + 1)) /\ enc' = enc /\ link' = link
    BY <1>8 DEF ReadKey
  <2>2. Opens' <=> Opens
    BY <2>1, OpensStays
  <2>3. CASE enc /\ ~Opens
    <3>1. got' = << >>
      BY <1>1, <2>1, <2>3
    <3>2. \A i \in 1 .. Len(got') - 1 : got'[i + 1] = got'[i] + 1
      BY <1>0, <1>1, <2>1, <2>3
    <3> QED
      BY <1>2, <1>4, <1>8, <3>1, <3>2
  <2>4. CASE ~(enc /\ ~Opens)
    <3>1. got' = Append(got, a + 1)
      BY <2>1, <2>4
    <3>2. Len(got') = Len(got) + 1 /\ got'[Len(got) + 1] = a + 1 /\ \A i \in 1 .. Len(got) : got'[i] = got[i]
      BY <1>0, <1>2, <3>1, AppendProperties
    <3>3. ASSUME NEW i \in 1 .. Len(got') - 1 PROVE got'[i + 1] = got'[i] + 1
      <4>1. CASE i = Len(got)
        <5>1. i \in 1 .. Len(got)
          BY <1>0, <3>2, <4>1
        <5>2. got'[i + 1] = a + 1 /\ got'[i] = got[i] /\ got # << >>
          BY <1>0, <3>2, <4>1, <5>1
        <5>3. got[i] = a
          BY <1>2, <4>1, <5>2
        <5> QED
          BY <5>2, <5>3
      <4>2. CASE i # Len(got)
        <5>1. i \in 1 .. Len(got) - 1 /\ i + 1 \in 1 .. Len(got) /\ i \in 1 .. Len(got)
          BY <1>0, <3>2, <4>2
        <5> QED
          BY <1>1, <3>2, <5>1
      <4> QED
        BY <4>1, <4>2
    <3>4. enc' /\ ~Opens' => got' = << >>
      BY <2>1, <2>2, <2>4, Zenon
    <3>5. got' # << >> => got'[Len(got')] = a + 1
      BY <3>2
    <3> QED
      BY <1>2, <1>4, <1>8, <3>3, <3>4, <3>5
  <2> QED
    BY <2>3, <2>4
<1>9. \/ got' = got /\ From(a)'
      \/ /\ got' = got /\ got = << >>
         /\ From(a + 1)'
      \/ /\ ReadKey /\ Head(wire).n = a + 1 /\ page \notin Before
         /\ From(a + 1)'
  BY <1>2, KeysInRow
<1> QED
  BY <1>7, <1>8, <1>9, Zenon

-----------------------------------------------------------------------------
(* In order *)

\* The terminal shows the output since the join without a gap or a swap, and the
\* keys that reach the shell are consecutive ones, whatever the encryption of
\* either side takes, and however the connection ends.
THEOREM InOrderAlways == Spec => []InOrder
<1>1. Init => Displayed /\ Typed
  <2> SUFFICES ASSUME Init PROVE Displayed /\ Typed
    OBVIOUS
  <2>1. inbox = << >> /\ net = << >> /\ wire = << >> /\ outbox = << >> /\ screen = << >> /\ got = << >>
    BY DEF Init, PageInit
  <2>2. frames["output"] = 0 /\ typed = 0
    BY DEF Init, PageInit, Told
  <2>3. Pipe = << >>
    BY <2>1, InitTypes, PipeType
  <2>4. Keys = << >>
    <3>1. << >> \in Seq(Items)
      OBVIOUS
    <3> QED
      BY <2>1, <3>1, ConcatEmptySeq DEF Keys
  <2>5. \A kind : InRow(<< >>, kind, 0) /\ UpTo(<< >>, kind, 0, 0)
    BY DEF InRow, UpTo
  <2>6. Displayed
    BY <2>1, <2>2, <2>3, <2>5 DEF Displayed
  <2>7. Typed
    <3>1. 0 \in Nat /\ Len(<< >>) = 0
      OBVIOUS
    <3> QED
      BY <2>1, <2>2, <2>4, <2>5, <3>1 DEF Typed, From
  <2> QED
    BY <2>6, <2>7
<1>2. TypeOK /\ Fresh /\ Displayed /\ Typed /\ [Next]_vars => Displayed' /\ Typed'
  BY DisplayedStep, TypedStep
<1>3. Session => TypeOK /\ Fresh
  BY DEF Session, Welcomes
<1>4. Displayed /\ Typed => InOrder
  BY DEF Displayed, Typed, InOrder
<1> QED
  BY <1>1, <1>2, <1>3, <1>4, SessionAlways, PTL DEF Spec
-----------------------------------------------------------------------------
(* What was told last *)

\* The last one in q that is of S, and that there is none.
IsLast(q, S, k) == q[k] \in S /\ \A j \in k + 1 .. Len(q) : q[j] \notin S
None(q, S) == \A k \in 1 .. Len(q) : q[k] \notin S

LEMMA LastGrown ==
  ASSUME NEW p, NEW q, NEW x, Len(p) \in Nat, Grown(p, q, x), NEW S
  PROVE  IF x \in S
           THEN ~None(q, S) /\ \A k \in 1 .. Len(q) : IsLast(q, S, k) => q[k] = x
           ELSE /\ None(q, S) => None(p, S)
                /\ \A k \in 1 .. Len(q) : IsLast(q, S, k) => k \in 1 .. Len(p) /\ IsLast(p, S, k) /\ q[k] = p[k]
<1>1. Len(q) = Len(p) + 1 /\ q[Len(q)] = x /\ \A k \in 1 .. Len(p) : q[k] = p[k]
  BY DEF Grown
<1>2. CASE x \in S
  <2>1. Len(q) \in 1 .. Len(q)
    BY <1>1
  <2>2. ASSUME NEW k \in 1 .. Len(q), IsLast(q, S, k) PROVE k = Len(q)
    BY <1>1, <1>2, <2>2 DEF IsLast
  <2> QED
    BY <1>1, <1>2, <2>1, <2>2 DEF None
<1>3. CASE x \notin S
  <2>1. None(q, S) => None(p, S)
    BY <1>1 DEF None
  <2>2. ASSUME NEW k \in 1 .. Len(q), IsLast(q, S, k)
        PROVE  k \in 1 .. Len(p) /\ IsLast(p, S, k) /\ q[k] = p[k]
    <3>1. k # Len(q)
      BY <1>1, <1>3, <2>2 DEF IsLast
    <3>2. k \in 1 .. Len(p)
      BY <1>1, <3>1
    <3> QED
      BY <1>1, <2>2, <3>2 DEF IsLast
  <2> QED
    BY <1>3, <2>1, <2>2
<1> QED
  BY <1>2, <1>3

LEMMA LastPopped ==
  ASSUME NEW p, NEW q, Len(p) \in Nat, Popped(p, q), Len(q) = Len(p) - 1, NEW S
  PROVE  /\ 1 \in 1 .. Len(p)
         /\ None(q, S) => IF p[1] \in S THEN IsLast(p, S, 1) ELSE None(p, S)
         /\ \A k \in 1 .. Len(q) : IsLast(q, S, k) => k + 1 \in 1 .. Len(p) /\ IsLast(p, S, k + 1) /\ q[k] = p[k + 1]
<1>1. \A k \in 1 .. Len(q) : q[k] = p[k + 1] /\ k + 1 \in 1 .. Len(p)
  BY DEF Popped
<1>2. Len(p) > 0 /\ Len(q) \in Nat
  BY DEF Popped
<1>3. ASSUME NEW j \in 2 .. Len(p) PROVE p[j] = q[j - 1] /\ j - 1 \in 1 .. Len(q)
  <2>1. j - 1 \in 1 .. Len(q) /\ (j - 1) + 1 = j
    BY <1>2
  <2> QED
    BY <1>1, <2>1
<1>4. ASSUME None(q, S) PROVE IF p[1] \in S THEN IsLast(p, S, 1) ELSE None(p, S)
  <2>1. \A j \in 2 .. Len(p) : p[j] \notin S
    BY <1>3, <1>4 DEF None
  <2>2. \A k \in 1 .. Len(p) : k = 1 \/ k \in 2 .. Len(p)
    BY <1>2
  <2> QED
    BY <2>1, <2>2 DEF IsLast, None
<1>5. ASSUME NEW k \in 1 .. Len(q), IsLast(q, S, k) PROVE IsLast(p, S, k + 1)
  <2>1. ASSUME NEW j \in (k + 1) + 1 .. Len(p) PROVE p[j] \notin S
    <3>1. j \in 2 .. Len(p) /\ j - 1 \in k + 1 .. Len(q)
      BY <1>2
    <3> QED
      BY <1>3, <1>5, <3>1 DEF IsLast
  <2> QED
    BY <1>1, <1>5, <2>1 DEF IsLast
<1> QED
  BY <1>1, <1>2, <1>4, <1>5

TallyFrames(i) == {f \in Frames : f.kind = "proposal" /\ f.id = i}
SizeFrames == {f \in Frames : f.kind = "resize"}

\* The card shows what was told last.
Shown(i) == IF told[i].pending /\ Opens THEN cards[i] # NoCard /\ cards[i].tally = told[i] ELSE cards[i] = NoCard

\* The last tally under way is the one told last; with none under way the card
\* shows it.
Tallied(i) ==
  /\ \A k \in 1 .. Len(Pipe) : IsLast(Pipe, TallyFrames(i), k) => Pipe[k].tally = told[i]
  /\ None(Pipe, TallyFrames(i)) => Shown(i)

\* The same of the host's size.
Sized ==
  /\ \A k \in 1 .. Len(Pipe) : IsLast(Pipe, SizeFrames, k) => Pipe[k].size = toldSize
  /\ None(Pipe, SizeFrames) /\ toldSize # Blank => hostSized = TRUE /\ size = toldSize

LastTold ==
  /\ page \in Before => told = [i \in Ids |-> Untold] /\ toldSize = Blank
  /\ page = "open" => Sized /\ \A i \in Ids : Tallied(i)

\* A card changes when its tally is handled, or loses its buttons.
LEMMA CardStays ==
  ASSUME TypeOK, [Next]_vars, NEW i \in Ids, ~(PageTurn /\ Head(inbox) \in TallyFrames(i))
  PROVE  IF cards[i] = NoCard THEN cards'[i] = NoCard ELSE cards'[i] # NoCard /\ cards'[i].tally = cards[i].tally
<1>0. cards \in [Ids -> Cards] /\ inbox \in Seq(Frames)
  BY DEF TypeOK, PageTypeOK
<1>1. CASE cards' = cards
  BY <1>1
<1>2. CASE /\ PageTurn /\ Head(inbox).kind = "proposal"
           /\ cards' = [cards EXCEPT ![Head(inbox).id] = Card(Head(inbox).tally)]
  <2>1. inbox # << >>
    BY <1>2, PipeTurn
  <2>2. Head(inbox) \in Frames
    BY <1>0, <2>1, HeadTailProperties
  <2>3. Head(inbox).id # i
    BY <1>2, <2>2 DEF TallyFrames
  <2>4. cards'[i] = cards[i]
    BY <1>0, <1>2, <2>3
  <2> QED
    BY <2>4
<1>3. ASSUME NEW j \in Ids, NEW op \in Ops, Click(j, op)
      PROVE  IF cards[i] = NoCard THEN cards'[i] = NoCard ELSE cards'[i] # NoCard /\ cards'[i].tally = cards[i].tally
  BY <1>3, Clicked
<1> QED
  BY <1>1, <1>2, <1>3, CardSteps DEF Alone

LEMMA ShownStays ==
  ASSUME TypeOK, [Next]_vars, page # "form", NEW i \in Ids, ~(PageTurn /\ Head(inbox) \in TallyFrames(i)),
         told'[i] = told[i], Shown(i)
  PROVE  Shown(i)'
<1>1. Opens' <=> Opens
  BY NameSteps, LinkSteps, OpensStays
<1>2. IF cards[i] = NoCard THEN cards'[i] = NoCard ELSE cards'[i] # NoCard /\ cards'[i].tally = cards[i].tally
  BY CardStays
<1>3. CASE told[i].pending /\ Opens
  <2>1. cards[i] # NoCard /\ cards[i].tally = told[i]
    BY <1>3 DEF Shown
  <2>2. cards'[i] # NoCard /\ cards'[i].tally = told'[i]
    BY <1>2, <2>1
  <2> QED
    BY <1>1, <1>3, <2>2 DEF Shown
<1>4. CASE ~(told[i].pending /\ Opens)
  <2>1. cards'[i] = NoCard
    BY <1>2, <1>4 DEF Shown
  <2> QED
    BY <1>1, <1>4, <2>1 DEF Shown
<1> QED
  BY <1>3, <1>4

\* The handler of a tally.
LEMMA TallyTurn ==
  ASSUME TypeOK, Heard, PageTurn, NEW i \in Ids, Head(inbox) \in TallyFrames(i), Head(inbox).sealed = enc,
         Head(inbox).tally = told[i]
  PROVE  Shown(i)'
<1>0. cards \in [Ids -> Cards]
  BY DEF TypeOK, PageTypeOK
<1>1. Head(inbox).kind = "proposal" /\ Head(inbox).id = i
  BY DEF TallyFrames
<1>2. /\ UNCHANGED <<told, link, enc>>
      /\ cards' = IF Readable(Head(inbox)) THEN [cards EXCEPT ![i] = Card(told[i])] ELSE cards
  <2>1. Proposal /\ UNCHANGED <<told, enc>>
    BY <1>1 DEF PageTurn, Handle, Hello, Output, Resize, Info, Activity, Say, Turn
  <2>2. cards' = IF Readable(Head(inbox)) THEN [cards EXCEPT ![Head(inbox).id] = Card(Head(inbox).tally)] ELSE cards
    BY <2>1 DEF Proposal
  <2> QED
    BY <1>1, <2>1, <2>2 DEF Proposal, Turn
<1>3. (Opens' <=> Opens) /\ (Readable(Head(inbox)) <=> Opens)
  BY <1>2, OpensStays, OpensReads
<1>4. CASE Opens
  <2>1. cards'[i] = Card(told[i])
    BY <1>0, <1>2, <1>3, <1>4
  <2>2. CASE told[i].pending
    <3>1. Card(told[i]).tally = told[i] /\ Card(told[i]).there = TRUE
      BY <2>2 DEF Card
    <3>2. NoCard.there = FALSE
      BY DEF NoCard
    <3>3. cards'[i] # NoCard /\ cards'[i].tally = told'[i]
      BY <1>2, <2>1, <3>1, <3>2
    <3> QED
      BY <1>2, <1>3, <1>4, <2>2, <3>3 DEF Shown
  <2>3. CASE ~told[i].pending
    <3>1. cards'[i] = NoCard
      BY <2>1, <2>3 DEF Card
    <3> QED
      BY <1>2, <2>3, <3>1 DEF Shown
  <2> QED
    BY <2>2, <2>3
<1>5. CASE ~Opens
  <2>1. cards[i] = NoCard
    BY <1>5 DEF Heard
  <2>2. cards'[i] = NoCard
    BY <1>2, <1>3, <1>5, <2>1
  <2> QED
    BY <1>3, <1>5, <2>2 DEF Shown
<1> QED
  BY <1>4, <1>5

LEMMA TalliedStep ==
  ASSUME TypeOK, Fresh, Carried, Heard, [Next]_vars, page = "open", page' = "open", NEW i \in Ids, Tallied(i)
  PROVE  Tallied(i)'
<1> DEFINE S == TallyFrames(i)
<1>0. Len(Pipe) \in Nat /\ told \in [Ids -> Tallies]
  BY PipeType DEF TypeOK, SessionTypeOK
<1>1. /\ \A k \in 1 .. Len(Pipe) : IsLast(Pipe, S, k) => Pipe[k].tally = told[i]
      /\ None(Pipe, S) => Shown(i)
  BY DEF Tallied
<1>2. ASSUME \A k \in 1 .. Len(Pipe') : IsLast(Pipe', S, k) => Pipe'[k].tally = told'[i],
             None(Pipe', S) => Shown(i)'
      PROVE  Tallied(i)'
  BY <1>2 DEF Tallied
<1>3. PageTurn => Popped(Pipe, Pipe') /\ Len(Pipe') = Len(Pipe) - 1 /\ Pipe[1] = Head(inbox) /\ told' = told
  BY PipeTurn DEF PageTurn
<1>4. ASSUME told'[i] = told[i], Shown(i), ~(PageTurn /\ Head(inbox) \in S) PROVE Shown(i)'
  BY <1>4, ShownStays
<1>5. CASE Silent
  <2>1. Pipe' = Pipe /\ told' = told
    BY <1>5 DEF Silent
  <2>2. ~PageTurn
    BY <1>0, <1>3, <2>1
  <2>3. None(Pipe', S) => Shown(i)'
    BY <1>1, <1>4, <2>1, <2>2
  <2>4. \A k \in 1 .. Len(Pipe') : IsLast(Pipe', S, k) => Pipe'[k].tally = told'[i]
    BY <1>1, <2>1
  <2> QED
    BY <1>2, <2>3, <2>4
<1>6. ASSUME NEW f \in Frames, Grown(Pipe, Pipe', f), IF f \in S THEN told'[i] = f.tally ELSE told'[i] = told[i]
      PROVE  Tallied(i)'
  <2>1. ~PageTurn
    BY <1>0, <1>3, <1>6 DEF Grown
  <2>2. CASE f \in S
    <3>1. ~None(Pipe', S) /\ \A k \in 1 .. Len(Pipe') : IsLast(Pipe', S, k) => Pipe'[k] = f
      BY <1>0, <1>6, <2>2, LastGrown
    <3>2. \A k \in 1 .. Len(Pipe') : IsLast(Pipe', S, k) => Pipe'[k].tally = told'[i]
      BY <1>6, <2>2, <3>1
    <3> QED
      BY <1>2, <3>1, <3>2
  <2>3. CASE f \notin S
    <3>1. /\ None(Pipe', S) => None(Pipe, S)
          /\ \A k \in 1 .. Len(Pipe') : IsLast(Pipe', S, k) => k \in 1 .. Len(Pipe) /\ IsLast(Pipe, S, k) /\ Pipe'[k] = Pipe[k]
      BY <1>0, <1>6, <2>3, LastGrown
    <3>2. told'[i] = told[i]
      BY <1>6, <2>3
    <3>3. None(Pipe', S) => Shown(i)'
      BY <1>1, <1>4, <2>1, <3>1, <3>2
    <3>4. \A k \in 1 .. Len(Pipe') : IsLast(Pipe', S, k) => Pipe'[k].tally = told'[i]
      BY <1>1, <3>1, <3>2
    <3> QED
      BY <1>2, <3>3, <3>4
  <2> QED
    BY <2>2, <2>3
<1>7. CASE Sends
  <2>1. PICK f \in Frames : Sending(f) /\ Grown(Pipe, Pipe', f)
    BY <1>7 DEF Sends
  <2>2. f \in S => f.kind = "proposal" /\ f.id = i
    BY DEF TallyFrames
  <2>3. f \notin S => f.kind # "proposal" \/ f.id # i
    BY DEF TallyFrames
  <2>4. IF f.kind = "proposal" THEN told' = [told EXCEPT ![f.id] = f.tally] ELSE told' = told
    BY <2>1 DEF Sending
  <2>5. IF f \in S THEN told'[i] = f.tally ELSE told'[i] = told[i]
    BY <1>0, <2>2, <2>3, <2>4
  <2> QED
    BY <1>6, <2>1, <2>5
<1>8. CASE Welcome
  <2>1. PICK f \in Frames : Greets(f)
    BY <1>8, PipeGreeted
  <2>2. f \notin S /\ Grown(Pipe, Pipe', f)
    BY <2>1 DEF Greets, TallyFrames
  <2>3. told' = told
    BY <1>8 DEF Welcome
  <2> QED
    BY <1>6, <2>2, <2>3
<1>9. CASE PageTurn
  <2>1. Popped(Pipe, Pipe') /\ Len(Pipe') = Len(Pipe) - 1 /\ Pipe[1] = Head(inbox) /\ told' = told
    BY <1>3, <1>9
  <2>2. /\ 1 \in 1 .. Len(Pipe)
        /\ None(Pipe', S) => IF Pipe[1] \in S THEN IsLast(Pipe, S, 1) ELSE None(Pipe, S)
        /\ \A k \in 1 .. Len(Pipe') : IsLast(Pipe', S, k) => /\ k + 1 \in 1 .. Len(Pipe)
                                                             /\ IsLast(Pipe, S, k + 1) /\ Pipe'[k] = Pipe[k + 1]
    BY <1>0, <2>1, LastPopped
  <2>3. \A k \in 1 .. Len(Pipe') : IsLast(Pipe', S, k) => Pipe'[k].tally = told'[i]
    BY <1>1, <2>1, <2>2
  <2>4. ASSUME None(Pipe', S) PROVE Shown(i)'
    <3>1. CASE Pipe[1] \in S
      <4>1. Pipe[1].tally = told[i]
        BY <1>1, <2>2, <2>4, <3>1
      <4>2. Pipe[1].sealed = enc
        BY <2>2, <3>1 DEF Carried, TallyFrames
      <4> QED
        BY <1>9, <2>1, <3>1, <4>1, <4>2, TallyTurn
    <3>2. CASE Pipe[1] \notin S
      BY <1>1, <1>4, <2>1, <2>2, <2>4, <3>2
    <3> QED
      BY <3>1, <3>2
  <2> QED
    BY <1>2, <2>3, <2>4
<1>10. ~Lose
  BY DEF Lose, Close
<1> QED
  BY <1>5, <1>7, <1>8, <1>9, <1>10, PipeSteps

\* Once the host has announced its size, only another one changes it.
LEMMA SizeSteps ==
  ASSUME [Next]_vars
  PROVE  \/ UNCHANGED <<size, hostSized>>
         \/ PageTurn /\ Head(inbox).kind = "resize"
         \/ ~hostSized
<1>1. CASE \E s \in Windows : Alone(WindowResize(s))
  BY <1>1, Zenon DEF Alone, WindowResize
<1>2. CASE ~ \E s \in Windows : Alone(WindowResize(s))
  BY <1>2, Zenon DEF Next, Server, Browser, Person, World, Alone, Join, Welcome, ReadKey, ReadVote, Announce, Deliver,
     PageTurn, SendTurn, Lose, Broadcast, Hold, Expire, OtherVote, Handle, Hello, Output, Resize, Info, Activity,
     Say, Proposal, Turn, Message, Send, Close, Connect, ImportKey, Submit, Type, Click, Fire
<1> QED
  BY <1>1, <1>2

LEMMA SizedStep ==
  ASSUME TypeOK, Fresh, [Next]_vars, page = "open", page' = "open", Sized
  PROVE  Sized'
<1> DEFINE Right == hostSized = TRUE /\ size = toldSize
<1>0. Len(Pipe) \in Nat /\ (Pipe # << >> => 1 \in 1 .. Len(Pipe))
  BY PipeType, EmptySeq
<1>1. /\ \A k \in 1 .. Len(Pipe) : IsLast(Pipe, SizeFrames, k) => Pipe[k].size = toldSize
      /\ None(Pipe, SizeFrames) /\ toldSize # Blank => hostSized = TRUE /\ size = toldSize
  BY DEF Sized
<1>2. ASSUME \A k \in 1 .. Len(Pipe') : IsLast(Pipe', SizeFrames, k) => Pipe'[k].size = toldSize',
             None(Pipe', SizeFrames) /\ toldSize' # Blank => hostSized' = TRUE /\ size' = toldSize'
      PROVE  Sized'
  BY <1>2 DEF Sized
<1>3. PageTurn => /\ Popped(Pipe, Pipe') /\ Len(Pipe') = Len(Pipe) - 1 /\ Pipe[1] = Head(inbox) /\ toldSize' = toldSize
                  /\ Pipe # << >>
  BY PipeTurn DEF PageTurn
<1>4. ASSUME toldSize' = toldSize, hostSized = TRUE /\ size = toldSize, ~(PageTurn /\ Head(inbox).kind = "resize")
      PROVE  hostSized' = TRUE /\ size' = toldSize'
  BY <1>4, SizeSteps
<1>5. CASE Silent
  <2>1. Pipe' = Pipe /\ toldSize' = toldSize
    BY <1>5 DEF Silent
  <2>2. ~PageTurn
    BY <1>0, <1>3, <2>1
  <2>3. None(Pipe', SizeFrames) /\ toldSize' # Blank => hostSized' = TRUE /\ size' = toldSize'
    BY <1>1, <1>4, <2>1, <2>2
  <2>4. \A k \in 1 .. Len(Pipe') : IsLast(Pipe', SizeFrames, k) => Pipe'[k].size = toldSize'
    BY <1>1, <2>1
  <2> QED
    BY <1>2, <2>3, <2>4
<1>6. ASSUME NEW f \in Frames, Grown(Pipe, Pipe', f),
             IF f \in SizeFrames THEN toldSize' = f.size ELSE toldSize' = toldSize
      PROVE  Sized'
  <2>1. ~PageTurn
    BY <1>0, <1>3, <1>6 DEF Grown
  <2>2. CASE f \in SizeFrames
    <3>1. ~None(Pipe', SizeFrames) /\ \A k \in 1 .. Len(Pipe') : IsLast(Pipe', SizeFrames, k) => Pipe'[k] = f
      BY <1>0, <1>6, <2>2, LastGrown
    <3>2. \A k \in 1 .. Len(Pipe') : IsLast(Pipe', SizeFrames, k) => Pipe'[k].size = toldSize'
      BY <1>6, <2>2, <3>1
    <3> QED
      BY <1>2, <3>1, <3>2
  <2>3. CASE f \notin SizeFrames
    <3>1. /\ None(Pipe', SizeFrames) => None(Pipe, SizeFrames)
          /\ \A k \in 1 .. Len(Pipe') : IsLast(Pipe', SizeFrames, k) =>
               k \in 1 .. Len(Pipe) /\ IsLast(Pipe, SizeFrames, k) /\ Pipe'[k] = Pipe[k]
      BY <1>0, <1>6, <2>3, LastGrown
    <3>2. toldSize' = toldSize
      BY <1>6, <2>3
    <3>3. None(Pipe', SizeFrames) /\ toldSize' # Blank => hostSized' = TRUE /\ size' = toldSize'
      BY <1>1, <1>4, <2>1, <3>1, <3>2
    <3>4. \A k \in 1 .. Len(Pipe') : IsLast(Pipe', SizeFrames, k) => Pipe'[k].size = toldSize'
      BY <1>1, <3>1, <3>2
    <3> QED
      BY <1>2, <3>3, <3>4
  <2> QED
    BY <2>2, <2>3
<1>7. CASE Sends
  <2>1. PICK f \in Frames : Sending(f) /\ Grown(Pipe, Pipe', f)
    BY <1>7 DEF Sends
  <2>2. f \in SizeFrames <=> f.kind = "resize"
    BY DEF SizeFrames
  <2>3. IF f.kind = "resize" THEN toldSize' = f.size ELSE toldSize' = toldSize
    BY <2>1 DEF Sending
  <2> QED
    BY <1>6, <2>1, <2>2, <2>3
<1>8. CASE Welcome
  <2>1. PICK f \in Frames : Greets(f)
    BY <1>8, PipeGreeted
  <2>2. f \notin SizeFrames /\ Grown(Pipe, Pipe', f)
    BY <2>1 DEF Greets, SizeFrames
  <2>3. toldSize' = toldSize
    BY <1>8 DEF Welcome
  <2> QED
    BY <1>6, <2>2, <2>3
<1>9. CASE PageTurn
  <2>1. Popped(Pipe, Pipe') /\ Len(Pipe') = Len(Pipe) - 1 /\ Pipe[1] = Head(inbox) /\ toldSize' = toldSize
    BY <1>3, <1>9
  <2>2. /\ 1 \in 1 .. Len(Pipe)
        /\ None(Pipe', SizeFrames) =>
             IF Pipe[1] \in SizeFrames THEN IsLast(Pipe, SizeFrames, 1) ELSE None(Pipe, SizeFrames)
        /\ \A k \in 1 .. Len(Pipe') : IsLast(Pipe', SizeFrames, k) =>
             k + 1 \in 1 .. Len(Pipe) /\ IsLast(Pipe, SizeFrames, k + 1) /\ Pipe'[k] = Pipe[k + 1]
    BY <1>0, <2>1, LastPopped
  <2>3. \A k \in 1 .. Len(Pipe') : IsLast(Pipe', SizeFrames, k) => Pipe'[k].size = toldSize'
    BY <1>1, <2>1, <2>2
  <2>4. ASSUME None(Pipe', SizeFrames), toldSize' # Blank PROVE hostSized' = TRUE /\ size' = toldSize'
    <3>1. CASE Pipe[1] \in SizeFrames
      <4>1. Pipe[1].size = toldSize
        BY <1>1, <2>2, <2>4, <3>1
      <4>2. Resize
        <5>1. Head(inbox).kind = "resize"
          BY <2>1, <3>1 DEF SizeFrames
        <5> QED
          BY <1>9, <5>1 DEF PageTurn, Handle, Hello, Output, Info, Activity, Say, Proposal, Turn
      <4>3. hostSized' = TRUE /\ size' = Head(inbox).size
        BY <4>2, Zenon DEF Resize
      <4> QED
        BY <2>1, <4>1, <4>3
    <3>2. CASE Pipe[1] \notin SizeFrames
      <4>1. Head(inbox).kind # "resize"
        <5>1. Pipe[1] \in Frames
          BY <2>2, PipeType, ElementOfSeq
        <5> QED
          BY <2>1, <3>2, <5>1 DEF SizeFrames
      <4> QED
        BY <1>1, <1>4, <2>1, <2>2, <2>4, <3>2, <4>1
    <3> QED
      BY <3>1, <3>2
  <2> QED
    BY <1>2, <2>3, <2>4
<1>10. ~Lose
  BY DEF Lose, Close
<1> QED
  BY <1>5, <1>7, <1>8, <1>9, <1>10, PipeSteps

\* A page that is not open yet was told nothing.
LEMMA LastToldStep ==
  ASSUME TypeOK, Fresh, Carried, Heard, LastTold, [Next]_vars
  PROVE  LastTold'
<1>1. CASE page \in Before
  <2>1. told = [i \in Ids |-> Untold] /\ toldSize = Blank /\ Pipe = << >> /\ cards = [i \in Ids |-> NoCard]
    BY <1>1, PipeType DEF LastTold, Fresh, Before
  <2>2. ~PageTurn /\ ~Welcome /\ ~Sends
    <3>1. ~PageTurn
      BY <2>1, PipeTurn
    <3>2. seat = "out"
      BY <1>1 DEF Fresh
    <3> QED
      BY <1>1, <3>1, <3>2 DEF Sends, Welcome, Before
  <2>3. Pipe' = Pipe \/ Lose
    BY <2>2, PipeSteps DEF Silent
  <2>4. told' = told /\ toldSize' = toldSize
    BY <2>2, PipeSteps DEF Silent, Lose
  <2>5. Lose => page' = "closed"
    BY DEF Lose, Close
  <2>6. ASSUME page' = "open" PROVE Sized' /\ \A i \in Ids : Tallied(i)'
    <3>1. Pipe' = << >> /\ told' = [i \in Ids |-> Untold] /\ toldSize' = Blank
      BY <2>1, <2>3, <2>4, <2>5, <2>6
    <3>2. \A S : None(<< >>, S)
      BY DEF None
    <3>3. cards' = cards
      <4>1. \A i \in Ids : ~cards[i].there
        BY <2>1 DEF NoCard
      <4>2. ~ \E i \in Ids, op \in Ops : Alone(Click(i, op))
        BY <4>1 DEF Alone, Click
      <4> QED
        BY <2>2, <4>2, CardSteps
    <3>4. Sized'
      BY <3>1 DEF Sized
    <3>5. ASSUME NEW i \in Ids PROVE Tallied(i)'
      <4>1. told'[i] = Untold /\ Untold.pending = FALSE
        BY <3>1 DEF Untold
      <4>2. cards'[i] = NoCard
        BY <2>1, <3>3
      <4>3. Shown(i)'
        BY <4>1, <4>2 DEF Shown
      <4> QED
        BY <3>1, <4>3 DEF Tallied
    <3> QED
      BY <3>4, <3>5
  <2> QED
    BY <2>1, <2>4, <2>6 DEF LastTold
<1>2. CASE page \notin Before
  <2>1. page' \notin Before /\ (page' = "open" => page = "open")
    <3>1. page' = "open" => page = "open"
      BY <1>2, SeatSteps
    <3>2. page' \notin Before
      BY <1>2, Zenon DEF Next, Server, Browser, Person, World, Alone, Join, Welcome, ReadKey, ReadVote, Announce, Deliver,
         PageTurn, Handle, Hello, Output, Resize, Info, Activity, Say, Proposal, Fail, Message, SendTurn, Send, Lose, Close,
         Broadcast, Hold, Expire, OtherVote, ImportKey, Submit, Type, Click, WindowResize, Connect, Fire, Before
    <3> QED
      BY <3>1, <3>2
  <2>2. ASSUME page' = "open" PROVE Sized' /\ \A i \in Ids : Tallied(i)'
    BY <2>1, <2>2, SizedStep, TalliedStep DEF LastTold
  <2> QED
    BY <2>1, <2>2 DEF LastTold
<1> QED
  BY <1>1, <1>2

\* With nothing under way the page shows what the session told it last: the tallies
\* arrive in the order in which they were told, and no click, resize of the window
\* or other frame takes away what they leave.
THEOREM ShowsLastToldAlways == Spec => []ShowsLastTold
<1>1. Init => LastTold
  <2> SUFFICES ASSUME Init PROVE LastTold
    OBVIOUS
  <2>1. told = [i \in Ids |-> Untold] /\ toldSize = Blank /\ page # "open"
    BY DEF Init, PageInit, Opened
  <2> QED
    BY <2>1 DEF LastTold
<1>2. TypeOK /\ Fresh /\ Carried /\ Heard /\ LastTold /\ [Next]_vars => LastTold'
  BY LastToldStep
<1>3. Session => TypeOK /\ Fresh /\ Carried /\ Heard
  BY DEF Session, Welcomes
<1>4. TypeOK /\ LastTold => ShowsLastTold
  <2> SUFFICES ASSUME TypeOK, LastTold, Quiet
               PROVE  /\ \A i \in Ids :
                           IF told[i].pending /\ Opens THEN cards[i].there /\ cards[i].tally = told[i] ELSE ~cards[i].there
                      /\ toldSize # Blank => size = toldSize
    BY Zenon DEF ShowsLastTold
  <2>1. page = "open" /\ inbox = << >> /\ net = << >>
    BY DEF Quiet
  <2>2. Pipe = << >>
    BY <2>1, PipeType
  <2>3. \A S : None(Pipe, S)
    BY <2>2 DEF None
  <2>4. Sized /\ \A i \in Ids : Shown(i)
    BY <2>1, <2>3 DEF LastTold, Tallied
  <2>5. toldSize # Blank => size = toldSize
    BY <2>3, <2>4 DEF Sized
  <2>6. ASSUME NEW i \in Ids
        PROVE  IF told[i].pending /\ Opens THEN cards[i].there /\ cards[i].tally = told[i] ELSE ~cards[i].there
    <3>1. cards[i] \in Cards /\ NoCard.there = FALSE
      BY DEF TypeOK, PageTypeOK, NoCard
    <3>2. cards[i] # NoCard => cards[i].there
      BY <3>1 DEF Cards
    <3>3. CASE told[i].pending /\ Opens
      <4>1. cards[i] # NoCard /\ cards[i].tally = told[i]
        BY <2>4, <3>3 DEF Shown
      <4> QED
        BY <3>2, <3>3, <4>1
    <3>4. CASE ~(told[i].pending /\ Opens)
      <4>1. cards[i] = NoCard
        BY <2>4, <3>4 DEF Shown
      <4> QED
        BY <3>1, <3>4, <4>1
    <3> QED
      BY <3>3, <3>4
  <2> QED
    BY <2>5, <2>6
<1> QED
  BY <1>1, <1>2, <1>3, <1>4, SessionAlways, PTL DEF Spec
=============================================================================
