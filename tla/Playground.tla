----------------------------- MODULE Playground -----------------------------
(***************************************************************************)
(* The conversation page of the console, web/src/pages/Playground: browser *)
(* tabs that each show one conversation with one agent, send questions     *)
(* whose answers arrive later, and keep a history of conversations in the  *)
(* page and in the localStorage that all tabs share.                       *)
(*                                                                         *)
(* A React event handler, or a continuation after an await, runs to its    *)
(* end, is rendered, and its effects run before the next event: it is one  *)
(* action here, the automatic save and the write to localStorage included. *)
(* What an answer says is left out; whether it is empty is kept, because   *)
(* an empty answer may be replaced by the next.                            *)
(***************************************************************************)
EXTENDS Naturals, SequencesExt

CONSTANTS
  Tabs,         \* browser tabs showing the page
  Agents,       \* the agents the backend lists
  FirstAgent,   \* the one the list starts with
  None,
  MaxHistory,   \* MAX_HISTORY
  Asks,         \* bound: the questions ever sent
  ConvBound,    \* bound on the conversation ids drawn
  UpsetBound    \* bound on deletions, reloads and failed writes together

ASSUME ValuesAssumption ==
  /\ FirstAgent \in Agents /\ None \notin Agents /\ None \notin Tabs
  /\ MaxHistory \in Nat \ {0}
  /\ ConvBound \in Nat /\ UpsetBound \in Nat

VARIABLES
  tab,      \* the state of the page in each tab: the agents and the one chosen,
            \* the conversation, whether it waits, the history, and the delete
            \* timers with the conversation their closures remember as shown
  storage,  \* the history in localStorage: conversations with their messages
  ask,      \* [Asks -> ...], what became of each question
  drawn,    \* conversation ids drawn by crypto.randomUUID
  upsets,   \* deletions, reloads and failed writes so far
  dropped,  \* [Tabs -> SUBSET Nat], conversations whose record a tab deleted
            \* since it was loaded
  full,     \* [Tabs -> BOOLEAN], whether the tab's history ever was full
  writer    \* the tab whose history localStorage holds; None when the last
            \* write failed

vars == <<tab, storage, ask, drawn, upsets, dropped, full, writer>>

NoConv == 0     \* the id of a page just opened: nothing is ever saved under it

Mounted(saved) ==
  [agents |-> "loading", agent |-> None, conv |-> NoConv, msgs |-> <<>>,
   loading |-> FALSE, history |-> saved, deletes |-> {}]

Init ==
  /\ tab = [t \in Tabs |-> Mounted(<<>>)]
  /\ storage = <<>>
  /\ ask = [q \in Asks |-> [state |-> "unsent", tab |-> None, conv |-> NoConv,
                            agent |-> None, chip |-> FALSE, moved |-> FALSE]]
  /\ drawn = 0 /\ upsets = 0
  /\ dropped = [t \in Tabs |-> {}]
  /\ full = [t \in Tabs |-> FALSE]
  /\ writer = None

-----------------------------------------------------------------------------
(* useConversationHistory: operators on a history, most recent first.      *)

PositionOf(h, id) ==
  IF \E i \in DOMAIN h : h[i].id = id
  THEN CHOOSE i \in DOMAIN h : h[i].id = id
  ELSE Len(h) + 1

(* saveConversation: the record is replaced, or put before the others, and *)
(* as the one updated last it is sorted to the front.                      *)
Put(h, r) ==
  LET p == PositionOf(h, r.id)
      n == IF p > Len(h) /\ Len(h) < MaxHistory THEN Len(h) + 1 ELSE Len(h)
  IN  [i \in 1..n |-> IF i = 1 THEN r ELSE IF i <= p THEN h[i - 1] ELSE h[i]]

(* deleteConversation *)
Without(h, id) ==
  LET p == PositionOf(h, id)
      n == IF p > Len(h) THEN Len(h) ELSE Len(h) - 1
  IN  [i \in 1..n |-> IF i < p THEN h[i] ELSE h[i + 1]]

(* agentHistory: the conversations of the selected agent, or all of them.  *)
Listed(s) ==
  {i \in DOMAIN s.history : s.agent \in {None, s.history[i].agent}}

Savable(s) == s.msgs # <<>> /\ s.agent # None

Current(s) == [id |-> s.conv, agent |-> s.agent, msgs |-> s.msgs]

(* persistCurrentConversation *)
Persist(s) == IF Savable(s) THEN [s EXCEPT !.history = Put(s.history, Current(s))] ELSE s

\* A plausible bug: conversations are only saved when the user leaves them.
AutoSaveOff(s) == s

(* The effect on messages: every change of them is saved as well.          *)
AutoSave(s) == Persist(s)

\* A plausible bug: the messages are cleared under the old id.
StartOverUnderSameId(s, id) == [s EXCEPT !.msgs = <<>>]

StartOver(s, id) == [s EXCEPT !.msgs = <<>>, !.conv = id]

Upset == upsets < UpsetBound /\ upsets' = upsets + 1

(* The effect on history, and saveToStorage: whatever happened in another  *)
(* tab, the whole list of this one is written.  A write that fails         *)
(* (storage full or unavailable) is ignored.                               *)
Store(t, h) ==
  \/ storage' = h /\ writer' = t /\ UNCHANGED upsets
  \/ Upset /\ writer' = None /\ UNCHANGED storage

Keep(t, s, saves) ==
  /\ tab' = [tab EXCEPT ![t] = s]
  /\ full' = [full EXCEPT ![t] = @ \/ Len(s.history) = MaxHistory]
  /\ IF saves THEN Store(t, s.history) ELSE UNCHANGED <<storage, writer, upsets>>

(* The user leaves what is shown while answers to it are under way.        *)
Moved(t) ==
  [q \in Asks |-> IF ask[q].state = "pending" /\ ask[q].tab = t
                  THEN [ask[q] EXCEPT !.moved = TRUE] ELSE ask[q]]

Draw == drawn < ConvBound /\ drawn' = drawn + 1

-----------------------------------------------------------------------------
(* loadAgents: the answer selects the first agent and draws a new id, but  *)
(* leaves the messages alone.                                              *)
AgentsArrive(t) ==
  /\ tab[t].agents = "loading"
  /\ Draw
  /\ Keep(t, [tab[t] EXCEPT !.agents = "ready", !.agent = FirstAgent, !.conv = drawn'], FALSE)
  /\ UNCHANGED <<ask, dropped>>

(* Its failure, or an empty list, is ignored.                              *)
AgentsFail(t) ==
  /\ tab[t].agents = "loading"
  /\ Keep(t, [tab[t] EXCEPT !.agents = "failed"], FALSE)
  /\ UNCHANGED <<ask, drawn, dropped>>

InputEnabled(s) == s.agent # None /\ ~s.loading

(* The recommended questions of an empty page, which are never disabled.   *)
ChipsShown(s) == s.agent # None /\ s.msgs = <<>>

(* handleSend, and handleRecommendedQuestion for a chip.                   *)
Send(t, q, chip) ==
  /\ ask[q].state = "unsent"
  /\ IF chip THEN ChipsShown(tab[t]) ELSE InputEnabled(tab[t])
  /\ ask' = [ask EXCEPT ![q] = [state |-> "pending", tab |-> t, conv |-> tab[t].conv,
                                agent |-> tab[t].agent, chip |-> chip, moved |-> FALSE]]
  /\ Keep(t, AutoSave([tab[t] EXCEPT !.msgs = Append(@, [role |-> "user", ask |-> q]),
                                     !.loading = TRUE]), TRUE)
  /\ UNCHANGED <<drawn, dropped>>

\* A plausible bug: the answer to a chip takes the place of the last message,
\* whatever that is.
AnsweredInPlace(msgs, chip, m) ==
  IF chip /\ msgs # <<>> THEN [msgs EXCEPT ![Len(msgs)] = m] ELSE Append(msgs, m)

(* An answer joins the messages shown when it arrives; one to a chip takes *)
(* the place of an empty one at their end.                                 *)
Answered(msgs, chip, m) ==
  LET n == Len(msgs)
  IN  IF chip /\ n > 0 /\ msgs[n].role = "blank"
      THEN [msgs EXCEPT ![n] = m]
      ELSE Append(msgs, m)

\* A plausible bug: the spinner is not stopped when nothing came back.
UnblockedByContent(s, role) == [s EXCEPT !.loading = @ /\ role = "blank"]

(* The finally of a send, which ends the spinner whatever came back.       *)
Unblocked(s, role) == [s EXCEPT !.loading = FALSE]

(* The continuation of a send: an answer, an empty one, or the apology for *)
(* a failed request.                                                       *)
Settle(q) ==
  /\ ask[q].state = "pending"
  /\ ask' = [ask EXCEPT ![q].state = "settled"]
  /\ \E role \in {"agent", "blank"} :
       LET t == ask[q].tab
           s == [Unblocked(tab[t], role) EXCEPT
                   !.msgs = Answered(@, ask[q].chip, [role |-> role, ask |-> q])]
       IN  Keep(t, AutoSave(s), Savable(s))
  /\ UNCHANGED <<drawn, dropped>>

CanStartOver(s) == ~s.loading /\ s.msgs # <<>>

(* startNewConversation *)
NewConversation(t) ==
  /\ CanStartOver(tab[t])
  /\ Draw
  /\ Keep(t, StartOver(Persist(tab[t]), drawn'), Savable(tab[t]))
  /\ ask' = Moved(t)
  /\ UNCHANGED dropped

(* The agent selector, which stays enabled while an answer is awaited.     *)
SelectAgent(t, a) ==
  /\ tab[t].agents = "ready" /\ a # tab[t].agent
  /\ Draw
  /\ Keep(t, [StartOver(Persist(tab[t]), drawn') EXCEPT !.agent = a], Savable(tab[t]))
  /\ ask' = Moved(t)
  /\ UNCHANGED dropped

(* A click on the listed conversation that is shown does nothing.          *)
Openable(s, i) == i \in Listed(s) /\ s.history[i].id # s.conv

(* loadConversation, by a click on a listed conversation.  The effect that *)
(* saves does not run when the messages are the very array already shown,  *)
(* which a late list of agents can bring about: equal lists may be one     *)
(* array or two.                                                           *)
Open(t, i) ==
  /\ Openable(tab[t], i)
  /\ LET r == tab[t].history[i]
         s == [Persist(tab[t]) EXCEPT !.conv = r.id, !.msgs = r.msgs, !.agent = r.agent]
     IN  \/ Keep(t, AutoSave(s), TRUE)
         \/ r.msgs = tab[t].msgs /\ Keep(t, s, TRUE)
  /\ ask' = Moved(t)
  /\ UNCHANGED <<drawn, dropped>>

(* handleDelete: a click starts a timer of 200 ms, ...                     *)
ClickDelete(t, i) ==
  /\ i \in Listed(tab[t])
  /\ Upset
  /\ tab' = [tab EXCEPT ![t].deletes =
                @ \cup {[id |-> tab[t].history[i].id, shown |-> tab[t].conv]}]
  /\ UNCHANGED <<storage, ask, drawn, dropped, full, writer>>

(* ... after which the record goes, and with it the conversation shown if  *)
(* it was that one when the button was clicked.                            *)
FireDelete(t, d) ==
  /\ d \in tab[t].deletes
  /\ LET s == [tab[t] EXCEPT !.history = Without(@, d.id), !.deletes = @ \ {d}]
     IN  IF d.id = d.shown
         THEN Draw /\ Keep(t, StartOver(s, drawn'), TRUE) /\ ask' = Moved(t)
         ELSE Keep(t, s, TRUE) /\ UNCHANGED <<drawn, ask>>
  /\ dropped' = [dropped EXCEPT ![t] = @ \cup {d.id}]

(* The tab is reloaded, or the page left and entered again: what it shows  *)
(* comes from localStorage, and neither the answers nor the deletions under*)
(* way find anybody any more.                                              *)
Reload(t) ==
  /\ Upset
  /\ tab' = [tab EXCEPT ![t] = Mounted(storage)]
  /\ writer' = t
  /\ ask' = [q \in Asks |-> IF ask[q].tab = t THEN [ask[q] EXCEPT !.state = "abandoned"]
                            ELSE ask[q]]
  /\ dropped' = [dropped EXCEPT ![t] = {}]
  /\ full' = [full EXCEPT ![t] = Len(storage) = MaxHistory]
  /\ UNCHANGED <<storage, drawn>>

Next ==
  \/ \E t \in Tabs :
       \/ AgentsArrive(t)
       \/ AgentsFail(t)
       \/ NewConversation(t)
       \/ Reload(t)
       \/ \E q \in Asks, chip \in BOOLEAN : Send(t, q, chip)
       \/ \E a \in Agents : SelectAgent(t, a)
       \/ \E i \in DOMAIN tab[t].history : Open(t, i) \/ ClickDelete(t, i)
       \/ \E d \in tab[t].deletes : FireDelete(t, d)
  \/ \E q \in Asks : Settle(q)

Spec == Init /\ [][Next]_vars

-----------------------------------------------------------------------------
Question(q) == [role |-> "user", ask |-> q]

Asked(q) == ask[q].state \in {"pending", "settled"}

(* A question the user asked is not lost, however sends, answers, switches *)
(* of conversation or agent, a late list of agents and delayed deletions   *)
(* interleave: the history has it under the conversation it was asked in,  *)
(* unless the user deleted that conversation or the history once was full; *)
(* and when this tab wrote localStorage last, a reload brings it back.     *)
KeptIn(h, q) ==
  \E i \in DOMAIN h :
    h[i].id = ask[q].conv /\ \E j \in DOMAIN h[i].msgs : h[i].msgs[j] = Question(q)

QuestionsKept ==
  \A q \in Asks :
    LET t == ask[q].tab
    IN  Asked(q) /\ ask[q].conv \notin dropped[t] /\ ~full[t]
          => KeptIn(tab[t].history, q) /\ (writer = t => KeptIn(storage, q))

(* A conversation id stands for one agent, in the requests sent to the     *)
(* backend, in what the tabs show, in their histories and in localStorage: *)
(* the backend never continues a conversation of one agent with another.   *)
AgentOf(id) ==
  {ask[q].agent : q \in {p \in Asks : ask[p].state # "unsent" /\ ask[p].conv = id}}
    \cup {tab[t].agent : t \in {u \in Tabs : tab[u].conv = id}}
    \cup UNION {{h[i].agent : i \in {j \in DOMAIN h : h[j].id = id}} :
                  h \in {tab[t].history : t \in Tabs} \cup {storage}}

OneAgentPerConversation ==
  \A id \in 0..drawn : \A a, b \in AgentOf(id) : a = b

(* Wherever an answer is shown or saved, its question stands before it,    *)
(* unless the user moved to another conversation while waiting for it (the *)
(* answer then joins what is shown when it arrives); and none is twice in  *)
(* a conversation.                                                         *)
Conversations ==
  {tab[t].msgs : t \in Tabs}
    \cup UNION {{h[i].msgs : i \in DOMAIN h} : h \in {tab[t].history : t \in Tabs} \cup {storage}}

AnswerUnderItsQuestion ==
  \A m \in Conversations : \A i \in DOMAIN m :
    /\ m[i].role # "user" =>
         ask[m[i].ask].moved \/ \E j \in 1..(i - 1) : m[j] = Question(m[i].ask)
    /\ \A j \in DOMAIN m :
         m[i].ask = m[j].ask /\ (m[i].role = "user" <=> m[j].role = "user") => i = j

(* The spinner, which disables the input, only turns while an answer is    *)
(* awaited in this tab: it is never left on for good.                      *)
SpinnerMeansWaiting ==
  \A t \in Tabs :
    tab[t].loading => \E q \in Asks : ask[q].state = "pending" /\ ask[q].tab = t
=============================================================================
