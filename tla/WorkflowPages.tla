---------------------------- MODULE WorkflowPages ----------------------------
(***************************************************************************)
(* The pages of the workflows over the mock store: the list, the designer  *)
(* that draws a fault tree (WorkflowDesigner.tsx), and the page with the   *)
(* editor of one and a tab with its executions (WorkflowExecution.tsx).    *)
(* Both read the tree of the workflow in the URL through react-query       *)
(* (external).  Of the editor, which TreeEditor models, there are a few    *)
(* edits.  Each request acts on the store when its delay is over,          *)
(* whichever page is open by then.                                         *)
(***************************************************************************)
EXTENDS FaultTrees, Integers, FiniteSetsExt, SequencesExt

CONSTANTS
  Openings,      \* sets of workflows, one of which a behaviour looks at
  Deletable,     \* the events that may be deleted in the editor
  MaxTreeSaves   \* bound on the saves

WorkflowsAssumption ==
  MaxTreeSaves \in Nat /\ \A O \in Openings : O \subseteq mockWorkflowDetails

VARIABLES
  opened,              \* the workflows looked at
  faultTrees,          \* the store, of these
  route,               \* the page that is open, and the workflow in its URL
  treeQueries,         \* react-query's cache of trees
  drawn, dirty,        \* the editor's diagram and whether it can be saved
  saves,               \* the saves under way
  treeSaves,           \* their number until now
  shownPart,           \* the tab of the page of a workflow
  records,             \* react-query's cache of executions: how far each is
  selected             \* the row of the dialog, 0 if it is closed

editor == <<drawn, dirty>>
executionsTab == <<shownPart, records, selected>>
vars == <<opened, faultTrees, route, treeQueries, editor, saves, treeSaves, executionsTab>>

None == Node("none", 0)
Dropped == Node("dropped", 1)

Tree(id) == IF id \in DOMAIN mockFaultTrees THEN mockFaultTrees[id] ELSE None

Diagrams == INSTANCE TreeDiagrams WITH
  Events <- {Top, Dropped} \cup {Mid(i) : i \in 1..9} \cup {Basic(i) : i \in 1..9},
  Gates <- {GateNode(i) : i \in 1..9}

List == [page |-> "list", workflow |-> ""]
Designer(w) == [page |-> "designer", workflow |-> w]
Execution(w) == [page |-> "execution", workflow |-> w]

NoQuery == [status |-> "none", data |-> None, stale |-> FALSE, fetching |-> FALSE]

Empty == Diagrams!Flow(None)

Init ==
  /\ opened \in Openings
  /\ faultTrees = [w \in opened |-> Tree(w)]
  /\ route = List
  /\ treeQueries = [w \in opened |-> NoQuery]
  /\ drawn = Empty /\ dirty = FALSE
  /\ saves = <<>> /\ treeSaves = 0
  /\ shownPart = "editor" /\ selected = 0
  /\ records = [w \in opened |-> "none"]

-----------------------------------------------------------------------------
(* The query of a tree, and what the editor does with its result.          *)

isLoading(query) == query.status \in {"none", "pending"}

EditorTab(w) == route = Execution(w) /\ shownPart = "editor"
EditorShown(w) == EditorTab(w) /\ ~isLoading(treeQueries[w])

(* A query without data is pending again while it is fetched.              *)
Fetching(query) ==
  [query EXCEPT !.fetching = TRUE, !.status = IF @ = "success" THEN @ ELSE "pending"]

Refetched(queries, w) ==
  IF queries[w].status \in {"none", "error"} \/ queries[w].stale
  THEN [queries EXCEPT ![w] = Fetching(@)] ELSE queries

(* The editor is mounted when there is a result, empty if that is an       *)
(* error; a tree that is not the one it had replaces what is drawn.        *)
Result(w, tree) ==
  IF EditorTab(w) /\ (isLoading(treeQueries[w]) \/ tree # treeQueries[w].data)
  THEN drawn' = Diagrams!Flow(tree) /\ dirty' = FALSE
  ELSE UNCHANGED editor

(* The store throws if there is no tree; react-query asks twice.           *)
FetchEnds(w) ==
  /\ treeQueries[w].fetching
  /\ treeQueries' = [treeQueries EXCEPT ![w] =
       [status |-> IF faultTrees[w] = None THEN "error" ELSE "success",
        data |-> faultTrees[w], stale |-> FALSE, fetching |-> FALSE]]
  /\ Result(w, faultTrees[w])
  /\ UNCHANGED <<opened, faultTrees, route, saves, treeSaves, executionsTab>>

GoesStale(w) ==
  /\ treeQueries[w].status = "success" /\ ~treeQueries[w].stale
  /\ treeQueries' = [treeQueries EXCEPT ![w].stale = TRUE]
  /\ UNCHANGED <<opened, faultTrees, route, editor, saves, treeSaves, executionsTab>>

Focus ==
  /\ route # List
  /\ treeQueries # Refetched(treeQueries, route.workflow)
  /\ treeQueries' = Refetched(treeQueries, route.workflow)
  /\ UNCHANGED <<opened, faultTrees, route, editor, saves, treeSaves, executionsTab>>

-----------------------------------------------------------------------------
(* Going from page to page.  The list links to the page of each workflow   *)
(* and to the designer, which opens on the first one shipped: to choose    *)
(* another there is the same step here.  Edits not saved are lost, as they *)
(* are with a look at the executions, which unmounts the editor.           *)

Left == [i \in DOMAIN saves |-> [saves[i] EXCEPT !.mounted = FALSE]]

Links ==
  IF route = List THEN {Designer(w) : w \in opened} \cup {Execution(w) : w \in opened}
  ELSE IF route.page = "designer" THEN {List} \cup {Designer(w) : w \in opened}
  ELSE {List}

Mounted(w, part, queries) ==
  IF part = "editor" /\ ~isLoading(queries[w]) THEN Diagrams!Flow(queries[w].data) ELSE Empty

Navigate ==
  /\ selected = 0
  /\ \E r \in Links \ {route} :
     LET queries == IF r = List THEN treeQueries ELSE Refetched(treeQueries, r.workflow)
     IN /\ route' = r
        /\ treeQueries' = queries
        /\ drawn' = IF r.page = "execution" THEN Mounted(r.workflow, "editor", queries) ELSE Empty
        /\ dirty' = FALSE
        /\ saves' = Left
        /\ shownPart' = "editor"
        /\ records' = [w \in opened |-> IF r = Execution(w) /\ records[w] = "none"
                                        THEN "pending" ELSE records[w]]
        /\ UNCHANGED <<opened, faultTrees, treeSaves, selected>>

ShowPart(part) ==
  /\ route.page = "execution" /\ selected = 0 /\ part # shownPart
  /\ shownPart' = part
  /\ drawn' = Mounted(route.workflow, part, treeQueries) /\ dirty' = FALSE
  /\ UNCHANGED <<opened, faultTrees, route, treeQueries, saves, treeSaves, records, selected>>

-----------------------------------------------------------------------------
(* The editor. *)

Draws(d) ==
  /\ \E w \in opened : EditorShown(w)
  /\ drawn' = d /\ dirty' = TRUE
  /\ UNCHANGED <<opened, faultTrees, route, treeQueries, saves, treeSaves, executionsTab>>

AutoLayout == drawn.nodes # <<>> /\ Draws(Diagrams!LaidOut(drawn))

DeleteNode(id) ==
  /\ id \in Diagrams!NodeIds(drawn)
  /\ Draws([nodes |-> Diagrams!NodesOf(drawn, Diagrams!NodeIds(drawn) \ {id}),
            edges |-> Diagrams!Only(drawn.edges, {e \in ToSet(drawn.edges) : id \notin {e[1], e[2]}})])

(* An event is dropped on an empty diagram.                                *)
Drop ==
  /\ drawn = Empty
  /\ Draws([drawn EXCEPT !.nodes = <<[id |-> Dropped, top |-> FALSE, y |-> 0]>>])

isPending == \E i \in DOMAIN saves : saves[i].mounted

handleSave ==
  /\ dirty /\ ~isPending /\ treeSaves < MaxTreeSaves
  /\ saves' = Append(saves, [workflow |-> route.workflow, tree |-> Diagrams!Saved(drawn),
                             mounted |-> TRUE])
  /\ dirty' = FALSE /\ treeSaves' = treeSaves + 1
  /\ UNCHANGED <<opened, faultTrees, route, treeQueries, drawn, executionsTab>>

\* A plausible bug: the cache hears of a save only if its page is still open.
CachedIfMounted(i) ==
  IF saves[i].mounted
  THEN [treeQueries EXCEPT ![saves[i].workflow] =
          [status |-> "success", data |-> saves[i].tree, stale |-> TRUE, fetching |-> TRUE]]
  ELSE treeQueries

(* useSaveFaultTree's onSuccess, which runs also if the page was left: the *)
(* tree is set, and fetched again if it is shown; a fetch that was under   *)
(* way goes on.                                                            *)
Cached(i) ==
  LET w == saves[i].workflow
  IN  [treeQueries EXCEPT ![w] =
         [status |-> "success", data |-> saves[i].tree, stale |-> TRUE,
          fetching |-> @.fetching \/ route.workflow = w]]

SaveEnds(i) ==
  /\ faultTrees' = [faultTrees EXCEPT ![saves[i].workflow] = saves[i].tree]
  /\ treeQueries' = Cached(i)
  /\ Result(saves[i].workflow, saves[i].tree)
  /\ saves' = RemoveAt(saves, i)
  /\ UNCHANGED <<opened, route, treeSaves, executionsTab>>

-----------------------------------------------------------------------------
(* The executions: a row opens a dialog, over which nothing else is used.  *)

ExecutionsAnswered(w) ==
  /\ records[w] = "pending"
  /\ records' = [records EXCEPT ![w] = "success"]
  /\ UNCHANGED <<opened, faultTrees, route, treeQueries, editor, saves, treeSaves, shownPart,
                 selected>>

Rows == IF shownPart = "executions" /\ records[route.workflow] = "success"
        THEN mockWorkflowExecutions[route.workflow] ELSE <<>>

SelectRow(i) ==
  /\ i \in (IF selected = 0 THEN DOMAIN Rows ELSE {0})
  /\ selected' = i
  /\ UNCHANGED <<opened, faultTrees, route, treeQueries, editor, saves, treeSaves, shownPart,
                 records>>

Next ==
  \/ Navigate
  \/ \E part \in {"editor", "executions"} : ShowPart(part)
  \/ \E w \in opened : ExecutionsAnswered(w)
  \/ \E i \in 0..3 : SelectRow(i)
  \/ \E w \in opened : FetchEnds(w) \/ GoesStale(w)
  \/ Focus
  \/ AutoLayout
  \/ \E id \in Deletable : DeleteNode(id)
  \/ Drop
  \/ handleSave
  \/ \E i \in DOMAIN saves : SaveEnds(i)

Spec == Init /\ [][Next]_vars

-----------------------------------------------------------------------------
(* buildFlowData: where the designer draws the gates of a tree.            *)

(* gateByOutput: of several gates with one output the last counts.         *)
InputsOf(tree, e) ==
  LET g == SelectLastInSeq(tree.gates, LAMBDA x : x.output = e)
  IN  IF g = 0 THEN <<>> ELSE tree.gates[g].inputs

(* The events of each depth in the order in which the search meets them.   *)
Levels(tree) ==
  FoldLeft(LAMBDA levels, i :
             LET met == ToSet(FlattenSeq(levels))
                 next == FlattenSeq([k \in DOMAIN Last(levels) |-> InputsOf(tree, Last(levels)[k])])
             IN  Append(levels, FoldLeft(LAMBDA s, e :
                                           IF e \in met \cup ToSet(s) THEN s ELSE Append(s, e),
                                         <<>>, next)),
           <<<<tree.top>>>>, tree.events)

\* A plausible bug: columns are counted for each gate anew.
ColumnInGate(tree, levels, e) ==
  LET g == CHOOSE i \in DOMAIN tree.gates : e \in ToSet(tree.gates[i].inputs)
  IN  SelectInSeq(tree.gates[g].inputs, LAMBDA x : x = e) - 1

Column(tree, levels, e) ==
  LET n == CHOOSE d \in DOMAIN levels : e \in ToSet(levels[d])
  IN  SelectInSeq(levels[n], LAMBDA x : x = e) - 1

(* A gate with inputs: y in half rows, x as a fraction of half columns.    *)
GatePlace(tree, levels, g) ==
  LET depth(e) == CHOOSE n \in DOMAIN levels : e \in ToSet(levels[n])
      width == Max({Len(levels[depth(g.output)]), Len(g.inputs)})
  IN  [y |-> depth(g.output) + Max({depth(e) : e \in ToSet(g.inputs)}),
       x |-> 2 * FoldLeft(LAMBDA n, e : n + Column(tree, levels, e), 0, g.inputs)
               - width * Len(g.inputs),
       over |-> Len(g.inputs)]

-----------------------------------------------------------------------------
(* The cache, from which both pages draw, has never another tree than the  *)
(* one stored, nor an error for one, whichever page was left in between.   *)
TreesAsStored ==
  \A w \in opened :
    /\ treeQueries[w].status = "success" => treeQueries[w].data = faultTrees[w]
    /\ treeQueries[w].status = "error" => faultTrees[w] = None

ShippedParts(w) ==
  LET shipped == Diagrams!Flow(Tree(w))
  IN  Diagrams!NodeIds(drawn) = Diagrams!NodeIds(shipped) /\ drawn.edges = shipped.edges

(* The trees that are shipped have events out of reach of the top event    *)
(* and events that two gates share.  Opened in the editor, laid out and    *)
(* saved they are stored as they were, as long as no node is removed.      *)
ShippedTreesKept ==
  \A w \in opened \cap DOMAIN mockFaultTrees :
    EditorShown(w) /\ ShippedParts(w) => Diagrams!Saved(drawn) = Tree(w)

(* The designer draws no two gates that it reaches at the same place, in a *)
(* tree none of whose events is an input of two gates (with one that is,   *)
(* as in the tree of the pods, it does: see the hazards).                  *)
GatesApart ==
  \A w \in opened :
    route = Designer(w) /\ treeQueries[w].status = "success" =>
      LET tree == treeQueries[w].data
          levels == Levels(tree)
          reached == UNION {ToSet(levels[n]) : n \in DOMAIN levels}
          gates == {g \in ToSet(tree.gates) : g.output \in reached /\ g.inputs # <<>>}
          place == [g \in gates |-> GatePlace(tree, levels, g)]
      IN  (\A g, h \in gates : g # h => ToSet(g.inputs) \cap ToSet(h.inputs) = {})
            => \A g, h \in gates :
                 g # h => \/ place[g].y # place[h].y
                          \/ place[g].x * place[h].over # place[h].x * place[g].over
=============================================================================
