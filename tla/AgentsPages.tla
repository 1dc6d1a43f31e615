----------------------------- MODULE AgentsPages -----------------------------
(***************************************************************************)
(* The pages that list, create and look into agents (AgentList.tsx,        *)
(* AgentTemplates.tsx, AgentCreate.tsx, AgentMemory.tsx) over the mock     *)
(* store.  The list loads itself and goes on as its requests answer; the   *)
(* memory page reads through react-query (external), which keeps what it   *)
(* read when the page is left.  Each request acts on the store when its    *)
(* delay is over, whichever page is open by then.                          *)
(***************************************************************************)
EXTENDS AgentStore, Naturals

CONSTANTS
  Digits,        \* what the clock ends in when an agent is created
  Touched,       \* the agents whose menus and memories are used
  Typed,         \* the types chosen in the form
  Used,          \* the conversations and memories whose buttons are used
  MaxCalls       \* bound on the writes asked for

AgentsAssumption ==
  Typed \subseteq agentTypes /\ MaxCalls \in Nat

VARIABLES
  mockAgents, deletedLtmIds,                       \* the store
  route,                                           \* the page that is open, and what for
  agents, loading, deleteTarget, deleting, loads,  \* the list's state, its loads under way
  behind,                                          \* a page that was left wrote since the last load
  name, type, prefilling, submitting,              \* the form's state
  selectedConv, memoryQueries,                     \* the memory page's state, and its cache
  calls,                                           \* the writes under way
  confirmed,                                       \* the memories that each agent's page deleted
  agentWrites

listVars == <<agents, loading, deleteTarget, deleting, loads, behind>>
formVars == <<name, type, prefilling, submitting>>
memoryVars == <<selectedConv, memoryQueries, confirmed>>
store == <<mockAgents, deletedLtmIds>>
vars == <<store, route, listVars, formVars, memoryVars, calls, agentWrites>>

None == <<"none", "">>

(* about is the agent of a memory page or the one to clone, template the   *)
(* one to create from.                                                     *)
Page(p, about, template) == [page |-> p, about |-> about, template |-> template]
List == Page("list", None, "")
Templates == Page("templates", None, "")
New == Page("new", None, "")

Memories == Touched
NoQuery == [loaded |-> FALSE, data |-> {}, stale |-> FALSE, fetching |-> FALSE]

Init ==
  /\ mockAgents = initialAgents /\ deletedLtmIds = {}
  /\ route = List
  /\ agents = <<>> /\ loading = TRUE /\ deleteTarget = None /\ deleting = FALSE /\ loads = 1
  /\ behind = FALSE
  /\ name = "" /\ type = "mega" /\ prefilling = FALSE /\ submitting = FALSE
  /\ selectedConv = "" /\ memoryQueries = [a \in Memories |-> NoQuery]
  /\ calls = <<>> /\ agentWrites = 0
  /\ confirmed = [a \in Memories |-> {}]

-----------------------------------------------------------------------------
(* Going from page to page.  A page that opens is mounted afresh: the list *)
(* loads, a form waits for what it is prefilled with, memories are fetched *)
(* unless the cache has fresh ones.                                        *)

Fetched(queries, a) ==
  [queries EXCEPT ![a].fetching = @ \/ ~queries[a].loaded \/ queries[a].stale]

Mount(r) ==
  /\ route' = r
  /\ agents' = <<>> /\ loading' = TRUE /\ deleteTarget' = None /\ deleting' = FALSE
  /\ loads' = (IF r.page = "list" THEN 1 ELSE 0) /\ behind' = FALSE
  /\ name' = "" /\ type' = "mega" /\ submitting' = FALSE
  /\ prefilling' = (r.page = "new" /\ r # New)
  /\ selectedConv' = ""
  /\ memoryQueries' = IF r.page = "memory" THEN Fetched(memoryQueries, r.about) ELSE memoryQueries

Left(cs) == [i \in DOMAIN cs |-> [cs[i] EXCEPT !.mounted = FALSE]]

Open(r) ==
  /\ r # route /\ Mount(r) /\ calls' = Left(calls)
  /\ UNCHANGED <<store, confirmed, agentWrites>>

CardShown(id) == route.page = "list" /\ ~loading /\ HasAgent(agents, id)

(* The links of the pages; the memories' one is on the page of the agent.  *)
Links ==
  {List, Templates}
    \cup (IF route = List THEN {New} ELSE {})
    \cup (IF route = Templates THEN {Page("new", None, t) : t \in DOMAIN templates} ELSE {})
    \cup UNION {{Page("new", id, ""), Page("memory", id, "")} : id \in {x \in Touched : CardShown(x)}}

(* A dialog covers the links.                                              *)
Navigate == deleteTarget = None /\ \E r \in Links : Open(r)

-----------------------------------------------------------------------------
(* Writes under way: agent and item are what is written, selected whether  *)
(* a conversation was the selected one at the click.                       *)

Call(op, agent, item, wasSelected) ==
  [op |-> op, agent |-> agent, item |-> item, selected |-> wasSelected, mounted |-> TRUE]

Asks(call) ==
  /\ agentWrites < MaxCalls /\ agentWrites' = agentWrites + 1
  /\ calls' = Append(calls, call)
  /\ UNCHANGED <<store, route>>

Ends(i) == calls' = RemoveAt(calls, i) /\ UNCHANGED agentWrites

-----------------------------------------------------------------------------
(* The list. *)

LoadAnswers ==
  /\ loads > 0 /\ loads' = loads - 1
  /\ agents' = mockAgents /\ loading' = FALSE /\ behind' = FALSE
  /\ UNCHANGED <<store, route, deleteTarget, deleting, formVars, memoryVars, calls, agentWrites>>

AskDelete(id) ==
  /\ CardShown(id) /\ deleteTarget = None /\ deleteTarget' = id
  /\ UNCHANGED <<store, route, agents, loading, deleting, loads, behind, formVars, memoryVars,
                 calls, agentWrites>>

(* Escape closes the dialog also while its button is disabled.             *)
CloseDelete ==
  /\ deleteTarget # None /\ deleteTarget' = None
  /\ UNCHANGED <<store, route, agents, loading, deleting, loads, behind, formVars, memoryVars,
                 calls, agentWrites>>

handleDelete ==
  /\ deleteTarget # None /\ ~deleting
  /\ deleting' = TRUE
  /\ Asks(Call("delete", deleteTarget, "", FALSE))
  /\ UNCHANGED <<agents, loading, deleteTarget, loads, behind, formVars, memoryVars>>

\* A plausible bug: the list is not loaded again.
NotReloaded == UNCHANGED <<loading, loads>>

loadAgents == loading' = TRUE /\ loads' = loads + 1

(* The deletion of a list that was left has no list to load.               *)
DeleteEnds(i) ==
  /\ calls[i].op = "delete"
  /\ mockAgents' = deleteAgent(mockAgents, calls[i].agent)
  /\ IF calls[i].mounted
     THEN /\ deleteTarget' = None /\ deleting' = FALSE
          /\ loadAgents /\ UNCHANGED behind
     ELSE /\ behind' = TRUE
          /\ UNCHANGED <<deleteTarget, deleting, loading, loads>>
  /\ Ends(i)
  /\ UNCHANGED <<deletedLtmIds, route, agents, formVars, memoryVars>>

-----------------------------------------------------------------------------
(* The form of a new agent. *)

FormUnchanged == UNCHANGED <<prefilling, submitting>>
OthersOfForm == UNCHANGED <<store, route, listVars, memoryVars>>

Edit ==
  /\ route.page = "new"
  /\ \/ name' \in {"", "typed"} /\ UNCHANGED type
     \/ type' \in Typed /\ UNCHANGED name
  /\ UNCHANGED <<calls, agentWrites>> /\ FormUnchanged /\ OthersOfForm

(* What is prefilled replaces what was typed in the meantime; the agent to *)
(* clone may be gone.                                                      *)
Prefills ==
  /\ prefilling /\ prefilling' = FALSE
  /\ CASE route.about = None -> name' = "filled" /\ type' = templates[route.template]
       [] route.about # None /\ HasAgent(mockAgents, route.about) ->
            name' = "filled" /\ type' = getAgent(mockAgents, route.about).type
       [] OTHER -> UNCHANGED <<name, type>>
  /\ UNCHANGED <<submitting, calls, agentWrites>> /\ OthersOfForm

handleSubmit ==
  /\ route.page = "new" /\ name # "" /\ ~prefilling /\ ~submitting
  /\ submitting' = TRUE
  /\ Asks(Call("create", <<type, "">>, "", FALSE))
  /\ UNCHANGED <<name, type, prefilling, listVars, memoryVars>>

(* It goes to the list from wherever the user is by now; a list that is    *)
(* open already stays as it is.                                            *)
CreateEnds(i, digits) ==
  /\ calls[i].op = "create"
  /\ mockAgents' = createAgent(mockAgents, calls[i].agent[1], digits)
  /\ UNCHANGED <<deletedLtmIds, confirmed, agentWrites>>
  /\ \/ /\ route # List /\ Mount(List)
        /\ calls' = Left(RemoveAt(calls, i))
     \/ /\ route = List /\ behind' = TRUE
        /\ calls' = RemoveAt(calls, i)
        /\ UNCHANGED <<route, agents, loading, deleteTarget, deleting, loads, formVars,
                       selectedConv, memoryQueries>>

-----------------------------------------------------------------------------
(* The memory page. *)

OthersOfMemory == UNCHANGED <<route, mockAgents, listVars, formVars>>

FetchEnds(a) ==
  /\ memoryQueries[a].fetching
  /\ memoryQueries' = [memoryQueries EXCEPT ![a] =
       [loaded |-> TRUE, data |-> searchLongTermMemory(deletedLtmIds), stale |-> FALSE,
        fetching |-> FALSE]]
  /\ UNCHANGED <<deletedLtmIds, selectedConv, confirmed, calls, agentWrites>> /\ OthersOfMemory

GoesStale(a) ==
  /\ memoryQueries[a].loaded /\ ~memoryQueries[a].stale
  /\ memoryQueries' = [memoryQueries EXCEPT ![a].stale = TRUE]
  /\ UNCHANGED <<deletedLtmIds, selectedConv, confirmed, calls, agentWrites>> /\ OthersOfMemory

Focus ==
  /\ route.page = "memory" /\ memoryQueries # Fetched(memoryQueries, route.about)
  /\ memoryQueries' = Fetched(memoryQueries, route.about)
  /\ UNCHANGED <<deletedLtmIds, selectedConv, confirmed, calls, agentWrites>> /\ OthersOfMemory

isPending == \E i \in DOMAIN calls : calls[i].op = "memory" /\ calls[i].mounted

Shown(a) == memoryQueries[a].data

handleDeleteMemory(m) ==
  /\ route.page = "memory" /\ m \in Shown(route.about) /\ ~isPending
  /\ Asks(Call("memory", route.about, m, FALSE))
  /\ UNCHANGED <<listVars, formVars, memoryVars>>

\* A plausible bug: the memories are fetched again only if their page is open.
InvalidatedInView(a) ==
  IF route.page = "memory" /\ route.about = a
  THEN [memoryQueries EXCEPT ![a].stale = TRUE, ![a].fetching = TRUE]
  ELSE memoryQueries

(* The agent's query alone, which is fetched at once if its page is open.  *)
Invalidated(a) ==
  [memoryQueries EXCEPT ![a].stale = memoryQueries[a].loaded,
                        ![a].fetching = @ \/ (route.page = "memory" /\ route.about = a)]

MemoryDeleted(i) ==
  LET a == calls[i].agent
  IN  /\ calls[i].op = "memory"
      /\ deletedLtmIds' = deletedLtmIds \cup {calls[i].item}
      /\ confirmed' = [confirmed EXCEPT ![a] = @ \cup {calls[i].item}]
      /\ memoryQueries' = Invalidated(a)
      /\ Ends(i)
      /\ UNCHANGED selectedConv /\ OthersOfMemory

SelectConversation(c) ==
  /\ route.page = "memory" /\ selectedConv # c /\ selectedConv' = c
  /\ UNCHANGED <<deletedLtmIds, memoryQueries, confirmed, calls, agentWrites>> /\ OthersOfMemory

handleDeleteConversation(c) ==
  /\ route.page = "memory"
  /\ Asks(Call("conversation", route.about, c, selectedConv = c))
  /\ UNCHANGED <<listVars, formVars, memoryVars>>

(* The store deletes nothing; whatever is selected by now is closed if the *)
(* conversation was the selected one.                                      *)
ConversationDeleted(i) ==
  /\ calls[i].op = "conversation"
  /\ selectedConv' = IF calls[i].selected /\ calls[i].mounted THEN "" ELSE selectedConv
  /\ Ends(i)
  /\ UNCHANGED <<deletedLtmIds, memoryQueries, confirmed>> /\ OthersOfMemory

Next ==
  \/ Navigate
  \/ LoadAnswers
  \/ \E id \in Touched : AskDelete(id)
  \/ CloseDelete
  \/ handleDelete
  \/ Edit
  \/ Prefills
  \/ handleSubmit
  \/ \E a \in Memories : FetchEnds(a) \/ GoesStale(a)
  \/ Focus
  \/ \E m \in Used \cap longTermMemories : handleDeleteMemory(m)
  \/ \E c \in Used \cap conversations : SelectConversation(c) \/ handleDeleteConversation(c)
  \/ \E i \in DOMAIN calls :
       \/ DeleteEnds(i)
       \/ \E digits \in Digits : CreateEnds(i, digits)
       \/ MemoryDeleted(i)
       \/ ConversationDeleted(i)

Spec == Init /\ [][Next]_vars

-----------------------------------------------------------------------------
(* Once no load and no deletion of the open list is under way, it shows    *)
(* the agents of the store and no spinner, unless a page that was left     *)
(* wrote to the store after the list's last load.                          *)
AgentsListed ==
  route = List /\ loads = 0 /\ ~behind /\ (\A i \in DOMAIN calls : calls[i].op = "delete" => ~calls[i].mounted) =>
    /\ ~loading /\ ~deleting
    /\ agents = mockAgents

(* An agent's memory page shows no memory that was deleted there, once the *)
(* query has answered: not after leaving the page and coming back either.  *)
MemoriesForgotten ==
  route.page = "memory" /\ ~memoryQueries[route.about].fetching =>
    Shown(route.about) \cap confirmed[route.about] = {}
=============================================================================
