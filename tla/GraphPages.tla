----------------------------- MODULE GraphPages -----------------------------
(***************************************************************************)
(* The tabs of the code analysis page that list call graphs and traffic    *)
(* graphs (CallGraphList.tsx, TrafficAnalysis.tsx) over their queries      *)
(* (hooks/useCodeAnalysis.ts) and the mocks that answer them where there is*)
(* no backend.  The tabs are alike but for what they show in an error, and *)
(* share nothing, so that a behaviour is about one kind of graph.          *)
(*                                                                         *)
(* Of react-query (external) the model has what the hooks rely on: one     *)
(* fetch per key, stale data fetched when it comes into view or the window *)
(* gets the focus, the last data kept when a fetch fails, and an           *)
(* invalidation that fetches all keys in view again and that the deletion  *)
(* waits for.                                                              *)
(***************************************************************************)
EXTENDS CodeAnalysisMocks

CONSTANTS
  Viewed,        \* the graphs whose dialogs and buttons are used
  MaxDeletions   \* bound on the deletions asked for

GraphsAssumption ==
  MaxDeletions \in Nat /\ {"list", "none"} \cap Viewed = {}

VARIABLES
  kind,          \* "call" or "traffic"
  scenario,
  currentPayload,
  graphQueries,  \* [Keys -> what the cache has]
  shownTab,      \* the tab is open
  selectedId,    \* the graph of the dialog, or None
  deletions,     \* the deletions under way
  reopened,      \* the tab was closed while one of them was under way
  asked          \* the deletions asked for

vars == <<kind, scenario, currentPayload, graphQueries, shownTab, selectedId, deletions, reopened,
          asked>>

None == "none"

Keys == {"list"} \cup Viewed

(* data is the set of graphs listed, or of the one of the key; a failed    *)
(* fetch sets error and keeps the data.                                    *)
NoQuery == [loaded |-> FALSE, data |-> {}, error |-> FALSE, stale |-> FALSE, fetching |-> FALSE]

list == graphQueries["list"]

ShownList == list.loaded /\ ~list.error

(* The call graphs' tab returns early without cards, dialog included; the  *)
(* one of the traffic graphs keeps its dialog.                             *)
DialogOpen(k, queries, id) ==
  /\ id # None
  /\ k = "call" =>
       /\ queries["list"].data # {}
       /\ ~queries["list"].error

InView(queries, id) == {"list"} \cup {key \in {id} : DialogOpen(kind, queries, id)}

(* A fetch without earlier data starts as if there had been no error.      *)
Started(query) == [query EXCEPT !.fetching = TRUE, !.error = @ /\ query.loaded]

(* Keys that come into view are fetched unless their data is fresh.        *)
WithFetches(queries, keys) ==
  [key \in Keys |->
     IF key \in keys /\ (~queries[key].loaded \/ queries[key].stale) THEN Started(queries[key])
     ELSE queries[key]]

Init ==
  /\ kind \in {"call", "traffic"} /\ scenario \in CodeAnalysisMockScenario
  /\ currentPayload = Items(kind)
  /\ graphQueries = [key \in Keys |-> IF key = "list" THEN Started(NoQuery) ELSE NoQuery]
  /\ shownTab = TRUE /\ selectedId = None
  /\ deletions = {} /\ reopened = FALSE /\ asked = 0

-----------------------------------------------------------------------------
(* The queries. *)

StoreUnchanged == UNCHANGED <<kind, scenario, currentPayload>>
DeletionsUnchanged == UNCHANGED <<deletions, reopened, asked>>

Answers(key) ==
  IF key = "list" THEN ListAnswers(kind, scenario, currentPayload)
  ELSE GetAnswers(kind, scenario, currentPayload, key)

Payload(key) ==
  IF key = "list" THEN PayloadList(kind, scenario, currentPayload)
  ELSE {g \in currentPayload : g.id = key}

(* A deletion ends when the queries it invalidated have settled.           *)
Settled(ds, key) ==
  {d \in {[e EXCEPT !.awaits = @ \ {key}] : e \in ds} : ~d.done \/ d.awaits # {}}

(* A fetch ends, after a second attempt if the first one failed.  A dialog *)
(* that the list brings back into view fetches what is stale.              *)
FetchEnds(key) ==
  LET old == graphQueries[key]
      ended == IF Answers(key)
               THEN [loaded |-> TRUE, data |-> Payload(key), error |-> FALSE, stale |-> FALSE, fetching |-> FALSE]
               ELSE [old EXCEPT !.error = TRUE, !.fetching = FALSE]
      queries == [graphQueries EXCEPT ![key] = ended]
      back == IF shownTab THEN InView(queries, selectedId) \ InView(graphQueries, selectedId) ELSE {}
  IN  /\ old.fetching
      /\ graphQueries' = WithFetches(queries, back)
      /\ deletions' = Settled(deletions, key)
      /\ UNCHANGED <<shownTab, selectedId, reopened, asked>> /\ StoreUnchanged

(* The 30 s of staleTime are over.                                         *)
GoesStale(key) ==
  /\ graphQueries[key].loaded /\ ~graphQueries[key].stale
  /\ graphQueries' = [graphQueries EXCEPT ![key].stale = TRUE]
  /\ UNCHANGED <<shownTab, selectedId>> /\ StoreUnchanged /\ DeletionsUnchanged

Focus ==
  /\ shownTab
  /\ \E key \in InView(graphQueries, selectedId) :
       ~graphQueries[key].fetching /\ (graphQueries[key].stale \/ ~graphQueries[key].loaded)
  /\ graphQueries' = WithFetches(graphQueries, InView(graphQueries, selectedId))
  /\ UNCHANGED <<shownTab, selectedId>> /\ StoreUnchanged /\ DeletionsUnchanged

(* The Retry and Reload buttons of an error or an empty list.              *)
Retry(key) ==
  /\ shownTab /\ key \in InView(graphQueries, selectedId)
  /\ ~graphQueries[key].fetching
  /\ graphQueries[key].error \/ (key = "list" /\ list.data = {})
  /\ graphQueries' = [graphQueries EXCEPT ![key] = Started(@)]
  /\ UNCHANGED <<shownTab, selectedId>> /\ StoreUnchanged /\ DeletionsUnchanged

-----------------------------------------------------------------------------
(* The cards, the dialog and the tab. *)

CardShown(id) == shownTab /\ ShownList /\ Has(list.data, id)

DialogShown == DialogOpen(kind, graphQueries, selectedId)

View(id) ==
  /\ CardShown(id) /\ ~DialogShown
  /\ selectedId' = id
  /\ graphQueries' = WithFetches(graphQueries, {id})
  /\ UNCHANGED shownTab /\ StoreUnchanged /\ DeletionsUnchanged

CloseDialog ==
  /\ shownTab /\ DialogShown
  /\ selectedId' = None
  /\ UNCHANGED <<graphQueries, shownTab>> /\ StoreUnchanged /\ DeletionsUnchanged

CloseTab ==
  /\ shownTab /\ shownTab' = FALSE /\ selectedId' = None
  /\ deletions' = {[d EXCEPT !.mounted = FALSE] : d \in deletions}
  /\ reopened' = (reopened \/ deletions # {})
  /\ UNCHANGED <<graphQueries, asked>> /\ StoreUnchanged

OpenTab ==
  /\ ~shownTab /\ shownTab' = TRUE
  /\ graphQueries' = WithFetches(graphQueries, {"list"})
  /\ UNCHANGED selectedId /\ StoreUnchanged /\ DeletionsUnchanged

-----------------------------------------------------------------------------
(* Deleting: the buttons are disabled while a deletion of this visit of the*)
(* tab is pending, which ends with the fetches it invalidated.             *)

isPending == \E d \in deletions : d.mounted

Delete(id) ==
  /\ CardShown(id) /\ ~DialogShown /\ ~isPending /\ asked < MaxDeletions
  /\ asked' = asked + 1
  /\ deletions' = deletions \cup
       {[nr |-> asked', id |-> id, done |-> FALSE, awaits |-> {}, mounted |-> TRUE]}
  /\ UNCHANGED <<graphQueries, shownTab, selectedId, reopened>> /\ StoreUnchanged

\* A plausible bug: only the list is fetched again.
ListInvalidated(inView) ==
  [graphQueries EXCEPT !["list"].stale = TRUE, !["list"].fetching = @ \/ "list" \in inView]

(* invalidateQueries by the prefix of all keys of the kind.                *)
Invalidated(inView) ==
  [key \in Keys |->
     LET query == [graphQueries[key] EXCEPT !.stale = @ \/ graphQueries[key].loaded]
     IN  IF key \in inView THEN Started(query) ELSE query]

\* A plausible bug: the deletion does not wait for the list.
AwaitsNothing(inView) == {}

Awaited(inView) == inView

DeleteSucceeds(d) ==
  LET inView == IF shownTab THEN InView(graphQueries, selectedId) ELSE {}
      waiting == {[d EXCEPT !.done = TRUE, !.awaits = Awaited(inView)]}
  IN  /\ ~d.done /\ Has(currentPayload, d.id)
      /\ currentPayload' = Without(currentPayload, d.id)
      /\ graphQueries' = Invalidated(inView)
      /\ deletions' = (deletions \ {d}) \cup {e \in waiting : e.awaits # {}}
      /\ UNCHANGED <<kind, scenario, shownTab, selectedId, reopened, asked>>

(* It is gone already: nothing is invalidated.                             *)
DeleteFails(d) ==
  /\ ~d.done /\ ~Has(currentPayload, d.id)
  /\ deletions' = deletions \ {d}
  /\ UNCHANGED <<graphQueries, shownTab, selectedId, reopened, asked>> /\ StoreUnchanged

Next ==
  \/ \E key \in Keys : FetchEnds(key) \/ GoesStale(key) \/ Retry(key)
  \/ Focus
  \/ \E id \in Viewed : View(id) \/ Delete(id)
  \/ CloseDialog
  \/ CloseTab
  \/ OpenTab
  \/ \E d \in deletions : DeleteSucceeds(d) \/ DeleteFails(d)

Spec == Init /\ [][Next]_vars

-----------------------------------------------------------------------------
(* Once no deletion and no fetch is under way, the cards shown are the     *)
(* graphs that are left, and a dialog shows no graph that was deleted while*)
(* it was open or the tab closed; the edges it draws join its nodes.       *)
GraphsCurrent ==
  shownTab /\ deletions = {} /\ (\A key \in InView(graphQueries, selectedId) : ~graphQueries[key].fetching) =>
    /\ ShownList => list.data = PayloadList(kind, scenario, currentPayload)
    /\ DialogShown /\ ~graphQueries[selectedId].error =>
         LET graph == CHOOSE g \in graphQueries[selectedId].data : TRUE
         IN  /\ graph \in currentPayload /\ graph.id = selectedId
             /\ kind = "traffic" => graph.edges \subseteq graph.nodes \X graph.nodes

(* No click deletes a graph that is gone already, whatever fetches are     *)
(* under way: it takes a tab that was closed while a deletion was pending. *)
DeletesWhatIsThere ==
  ~reopened => \A d \in deletions : d.done \/ Has(currentPayload, d.id)
=============================================================================
