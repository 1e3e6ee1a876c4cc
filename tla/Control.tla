------------------------------ MODULE Control ------------------------------
(***************************************************************************)
(* What `cotty ctl` promises of a session at a relay, and nothing about    *)
(* how the promise is kept: a command takes effect at one moment, on the   *)
(* guest who has that name at that moment, and once at most; the answer to *)
(* its caller comes afterwards and tells the outcome of that very command, *)
(* and when a kick is answered, the guest is out.  A caller may give up.   *)
(* Its command may still take effect, but not after a later one; and from  *)
(* then on answers may be wrong.  RelaySession.tla implements this module. *)
(*                                                                         *)
(* Every definition here abstracts internal/host/relay.go and              *)
(* internal/relay/relay.go: no frames, no results in channels, no lock.    *)
(***************************************************************************)
EXTENDS Sequences

CONSTANTS
  Callers, Conns, Names,
  Commands,  \* records with an op and the name of a guest
  NoCall,    \* what an idle caller waits for
  None       \* nobody has the name

VARIABLES
  call,      \* caller -> the command it waits for
  todo,      \* the callers whose commands have not taken effect
  news,      \* caller -> the guests its command was found to be about, {} if not known
  overdue,   \* the commands that were given up and may still take effect, oldest first
  doubt,     \* somebody gave up
  granted,   \* the names that may type, as far as the answers tell
  present,   \* the guests
  name,
  may,       \* the guests that may type
  cut        \* the connections that are closed

calls == <<call, todo, news, overdue, doubt, granted>>
list == <<present, name, may, cut>>
vars == <<calls, list>>

Init ==
  /\ call = [k \in Callers |-> NoCall] /\ todo = {} /\ news = [k \in Callers |-> {}]
  /\ overdue = << >> /\ doubt = FALSE /\ granted = {}
  /\ present = {} /\ name = [c \in Conns |-> None] /\ may = {} /\ cut = {}

-----------------------------------------------------------------------------
(* Commands *)

Give(k, c) ==
  /\ call[k] = NoCall
  /\ call' = [call EXCEPT ![k] = c]
  /\ todo' = todo \cup {k}
  /\ UNCHANGED <<news, overdue, doubt, granted, list>>

\* c takes effect; it is about who.
Effect(c, who) ==
  /\ \/ /\ who \in present /\ name[who] = c.name
        /\ may' = CASE c.op = "allow" -> may \cup {who}
                    [] c.op = "deny"  -> may \ {who}
                    [] c.op = "kick"  -> may
     \/ /\ who = None /\ \A d \in present : name[d] # c.name
        /\ may' = may
  /\ UNCHANGED <<present, name, cut>>

Execute(k, who) ==
  /\ k \in todo /\ overdue = << >>
  /\ Effect(call[k], who)
  /\ todo' = todo \ {k}
  /\ news' = [news EXCEPT ![k] = {who}]
  /\ UNCHANGED <<call, overdue, doubt, granted>>

ExecuteOverdue(who) ==
  /\ overdue # << >>
  /\ Effect(Head(overdue), who)
  /\ overdue' = Tail(overdue)
  /\ UNCHANGED <<call, todo, news, doubt, granted>>

\* The connection loses the command, or the news of it.
Lose(k) ==
  /\ \/ todo' = todo \ {k} /\ news' = news
     \/ todo' = todo /\ news' = [news EXCEPT ![k] = {}]
  /\ UNCHANGED <<call, overdue, doubt, granted, list>>

-----------------------------------------------------------------------------
(* The end of a call *)

After(c, ok) ==
  IF ~ok THEN granted
  ELSE CASE c.op = "allow" -> granted \cup {c.name}
         [] c.op = "deny"  -> granted \ {c.name}
         [] c.op = "kick"  -> granted

Return(k) ==
  /\ call[k] # NoCall
  /\ call' = [call EXCEPT ![k] = NoCall]
  /\ news' = [news EXCEPT ![k] = {}]
  /\ todo' = todo \ {k}
  /\ UNCHANGED list

Answer(k) ==
  /\ \E who \in news[k] :
       /\ call[k].op = "kick" /\ who # None => who \in cut \ present
       /\ granted' = After(call[k], who # None)
  /\ Return(k)
  /\ UNCHANGED <<overdue, doubt>>

\* The command could not be sent, and never takes effect.
Refuse(k) ==
  /\ k \in todo
  /\ Return(k)
  /\ UNCHANGED <<overdue, doubt, granted>>

Abandon(k) ==
  /\ Return(k)
  /\ overdue' = IF k \in todo THEN Append(overdue, call[k]) ELSE overdue

GiveUp(k) ==
  /\ Abandon(k)
  /\ doubt' = TRUE
  /\ UNCHANGED granted

\* Somebody gave up before, and an answer may be another's.
Mislead(k) ==
  /\ doubt
  /\ Abandon(k)
  /\ \E ok \in BOOLEAN : granted' = After(call[k], ok)
  /\ UNCHANGED doubt

-----------------------------------------------------------------------------
(* Guests *)

Enter(c, n) ==
  /\ c \notin present \cup cut
  /\ \A d \in present : name[d] # n
  /\ present' = present \cup {c}
  /\ name' = [name EXCEPT ![c] = n]
  /\ may' \in {may, may \cup {c}}
  /\ UNCHANGED <<calls, cut>>

Cut(c) == cut' = cut \cup {c} /\ UNCHANGED <<calls, present, name, may>>

\* Only who was cut leaves, or all do: the session ends.
Leave(S) ==
  /\ S \subseteq cut \/ S = present
  /\ present' = present \ S /\ may' = may \ S
  /\ UNCHANGED <<calls, name, cut>>

-----------------------------------------------------------------------------
Next ==
  \/ \E k \in Callers : \/ \E c \in Commands : Give(k, c)
                        \/ \E who \in Conns \cup {None} : Execute(k, who)
                        \/ Lose(k) \/ Answer(k) \/ Refuse(k) \/ GiveUp(k) \/ Mislead(k)
  \/ \E who \in Conns \cup {None} : ExecuteOverdue(who)
  \/ \E c \in Conns : Cut(c) \/ \E n \in Names : Enter(c, n)
  \/ \E S \in SUBSET Conns : Leave(S)

Spec == Init /\ [][Next]_vars
=============================================================================
