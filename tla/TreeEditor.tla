----------------------------- MODULE TreeEditor -----------------------------
(***************************************************************************)
(* The fault tree editor of the console, web/src/components/TreeEditor, on *)
(* the page that loads and saves the tree of a workflow.  The editor turns *)
(* a fault tree into a diagram (faultTreeToFlow), lets the user edit that, *)
(* with undo and redo, and turns it back when the user saves: which event  *)
(* is a gate's output and which are its inputs is then decided by the      *)
(* heights at which they were left.                                        *)
(*                                                                         *)
(* An action is a handler with the render and the effects that follow it.  *)
(***************************************************************************)
EXTENDS TreeDiagrams

CONSTANTS
  Trees,          \* fault trees a workflow may have at first
  OthersTrees,    \* fault trees others store meanwhile
  Heights,        \* bound: where the user drops and drags nodes to
  MaxPast,        \* 30 in useHistory
  EditBound       \* bound on the edits and drags ever made

ASSUME EditorAssumption ==
  /\ DiagramsAssumption
  /\ \A tree \in Trees \cup OthersTrees : WellFormed(tree)
  /\ Heights \subseteq Nat /\ MaxPast \in Nat /\ EditBound \in Nat

VARIABLES
  server,   \* the stored tree; None when there is none
  cache,    \* the tree the page has
  fetch,    \* the tree the server answers a read under way with; None if
            \* no read got there
  save,     \* a write of it (saveMutation)
  shown,    \* [nodes, edges], the diagram
  past, future,
  dirty,
  used,     \* ids of nodes that exist or once did
  edits,
  strayed   \* whether the diagram changed unmarked, or a save of it failed,
            \* since it was last saved or loaded

editorVars == <<shown, past, future, dirty, used, strayed>>
vars == <<server, cache, fetch, save, edits, editorVars>>

Idle == [state |-> "idle", tree |-> None]

-----------------------------------------------------------------------------
(* Loading and saving: the page, its query and its mutation.               *)

Init ==
  /\ server \in Trees \cup {None}
  /\ cache = server
  /\ fetch = None /\ save = Idle
  /\ shown = Flow(server)
  /\ past = <<>> /\ future = <<>>
  /\ dirty = FALSE /\ strayed = FALSE
  /\ used = NodeIds(Flow(server))
  /\ edits = 0

\* A plausible bug: every answer marks the editor as clean.
LoadedAlwaysClean(tree) ==
  /\ cache' = tree
  /\ dirty' = FALSE
  /\ shown' = IF tree = cache THEN shown ELSE Flow(tree)
  /\ strayed' = (strayed /\ tree = cache)
  /\ used' = used \cup NodeIds(Flow(tree))
  /\ UNCHANGED <<past, future>>

(* The effect on initial: another tree replaces the diagram, edited or     *)
(* not; the history stays.  A tree equal to the old is the same object to  *)
(* react-query, and nothing happens.                                       *)
Loaded(tree) ==
  /\ cache' = tree
  /\ IF tree = cache
     THEN UNCHANGED editorVars
     ELSE /\ shown' = Flow(tree)
          /\ dirty' = FALSE /\ strayed' = FALSE
          /\ used' = used \cup NodeIds(Flow(tree))
          /\ UNCHANGED <<past, future>>

(* The tree is read again whenever the window gets the focus, or the page  *)
(* opens, and the data is stale: at any time a read may have got to the    *)
(* server, and may fail.                                                   *)
FetchServed ==
  /\ fetch = None /\ server # None
  /\ fetch' = server
  /\ UNCHANGED <<server, cache, save, edits, editorVars>>

FetchEnds ==
  /\ fetch # None
  /\ fetch' = None
  /\ Loaded(fetch)
  /\ UNCHANGED <<server, save, edits>>

FetchFails ==
  /\ fetch # None
  /\ fetch' = None
  /\ UNCHANGED <<server, cache, save, edits, editorVars>>

(* handleSave: the editor is clean from the click on, whatever comes of it.*)
Save ==
  /\ dirty /\ save = Idle
  /\ save' = [state |-> "asked", tree |-> Saved(shown)]
  /\ dirty' = FALSE /\ strayed' = FALSE
  /\ UNCHANGED <<server, cache, fetch, edits, shown, past, future, used>>

SaveServed ==
  /\ save.state = "asked"
  /\ save' = [save EXCEPT !.state = "served"]
  /\ server' = save.tree
  /\ UNCHANGED <<cache, fetch, edits, editorVars>>

(* useSaveFaultTree's onSuccess: the tree saved is the tree shown, and is  *)
(* read again, the answer of the read under way being ignored.             *)
SaveEnds ==
  /\ save.state = "served"
  /\ save' = Idle
  /\ fetch' = None
  /\ Loaded(save.tree)
  /\ UNCHANGED <<server, edits>>

SaveFails ==
  /\ save # Idle
  /\ save' = Idle
  /\ strayed' = TRUE
  /\ UNCHANGED <<server, cache, fetch, edits, shown, past, future, dirty, used>>

(* The tab of the editor is left and entered again.                        *)
Remount ==
  /\ shown' = Flow(cache)
  /\ past' = <<>> /\ future' = <<>>
  /\ dirty' = FALSE /\ strayed' = FALSE
  /\ UNCHANGED <<server, cache, fetch, save, edits, used>>

OthersSave ==
  /\ edits < EditBound /\ edits' = edits + 1
  /\ server' \in OthersTrees \ {server}
  /\ UNCHANGED <<cache, fetch, save, editorVars>>

-----------------------------------------------------------------------------
(* Editing. *)

(* useHistory's push *)
Pushed(h, d) ==
  Append(IF Len(h) > MaxPast THEN SubSeq(h, Len(h) - MaxPast + 1, Len(h)) ELSE h, d)

Counted == edits < EditBound /\ edits' = edits + 1

PageUnchanged == UNCHANGED <<server, cache, fetch, save>>

(* What every handler of an edit does: history.push and markDirty.         *)
Edits(pushes, d) ==
  /\ Counted
  /\ shown' = d
  /\ past' = IF pushes = 1 THEN Pushed(past, shown) ELSE Pushed(Pushed(past, shown), shown)
  /\ future' = <<>>
  /\ dirty' = TRUE
  /\ UNCHANGED strayed
  /\ PageUnchanged

(* nextId: an event and a gate that never were.                            *)
Fresh ==
  {CHOOSE id \in S \ used : TRUE : S \in {K \in {Events, Gates} : ~(K \subseteq used)}}

(* onDrop *)
Drop(id, top, y) ==
  /\ id \notin used /\ used' = used \cup {id}
  /\ top => id \in Events
  /\ Edits(1, [shown EXCEPT !.nodes = Append(@, [id |-> id, top |-> top, y |-> y])])

(* isValidConnection: from the lower handle of a node to the upper handle  *)
(* of one of the other kind.                                               *)
Connectable(s, t) == (s \in Events) # (t \in Events)

(* onConnect; addEdge adds no edge twice.                                  *)
Connect(s, t) ==
  /\ Connectable(s, t)
  /\ Edits(1, [shown EXCEPT !.edges = IF <<s, t>> \in ToSet(@) THEN @ ELSE Append(@, <<s, t>>)])
  /\ UNCHANGED used

(* React Flow deletes the edges of a node first, so that each of the two   *)
(* handlers pushes what was shown before.                                  *)
DeleteNode(id) ==
  LET rest == Only(shown.edges, {e \in ToSet(shown.edges) : id \notin {e[1], e[2]}})
  IN  /\ Edits(IF rest = shown.edges THEN 1 ELSE 2,
               [nodes |-> NodesOf(shown, NodeIds(shown) \ {id}), edges |-> rest])
      /\ UNCHANGED used

DeleteEdge(e) ==
  Edits(1, [shown EXCEPT !.edges = Only(@, ToSet(@) \ {e})]) /\ UNCHANGED used

(* handleNodeUpdate, from the property panel of an event or a gate; the    *)
(* panel covers the editor while it is open, and is closed when another    *)
(* tree is loaded.  Of a gate's properties nothing is modelled.            *)
Apply(id, top) ==
  /\ top => id \in Events
  /\ Edits(1, [shown EXCEPT !.nodes =
                 [i \in DOMAIN @ |-> IF @[i].id = id THEN [@[i] EXCEPT !.top = top] ELSE @[i]]])
  /\ UNCHANGED used

(* handleAutoLayout *)
AutoLayout ==
  /\ Edits(1, IF shown.nodes = <<>> THEN shown ELSE LaidOut(shown))
  /\ UNCHANGED used

(* A node is dragged: neither the history nor dirty takes notice.          *)
Drag(id, y) ==
  /\ Counted
  /\ shown' = [shown EXCEPT !.nodes =
                 [i \in DOMAIN @ |-> IF @[i].id = id THEN [@[i] EXCEPT !.y = y] ELSE @[i]]]
  /\ strayed' = TRUE
  /\ UNCHANGED <<past, future, dirty, used>>
  /\ PageUnchanged

(* handleUndo and handleRedo leave dirty alone.                            *)
Undo ==
  /\ past # <<>>
  /\ shown' = Last(past)
  /\ past' = Front(past) /\ future' = Append(future, shown)
  /\ strayed' = TRUE
  /\ UNCHANGED <<dirty, used, edits>>
  /\ PageUnchanged

Redo ==
  /\ future # <<>>
  /\ shown' = Last(future)
  /\ future' = Front(future) /\ past' = Append(past, shown)
  /\ strayed' = TRUE
  /\ UNCHANGED <<dirty, used, edits>>
  /\ PageUnchanged

Next ==
  \/ FetchServed
  \/ FetchEnds
  \/ FetchFails
  \/ Save
  \/ SaveServed
  \/ SaveEnds
  \/ SaveFails
  \/ Remount
  \/ OthersSave
  \/ \E id \in Fresh, top \in BOOLEAN, y \in Heights : Drop(id, top, y)
  \/ \E s, t \in NodeIds(shown) : Connect(s, t)
  \/ \E id \in NodeIds(shown) :
       \/ DeleteNode(id)
       \/ \E top \in BOOLEAN : Apply(id, top)
       \/ \E y \in Heights : Drag(id, y)
  \/ \E e \in ToSet(shown.edges) : DeleteEdge(e)
  \/ AutoLayout
  \/ Undo
  \/ Redo

Spec == Init /\ [][Next]_vars

-----------------------------------------------------------------------------
(* However nodes are connected, dragged and laid out, the tree that would  *)
(* be saved has no cycle: an engine that evaluates it bottom-up ends.      *)
Feeds(tree, e) ==
  UNION {ToSet(g.inputs) : g \in {h \in ToSet(tree.gates) : h.output = e}}

Acyclic(tree) ==
  LET feeds == [e \in EventIds(tree) |-> Feeds(tree, e)]
  IN  ~\E S \in (SUBSET EventIds(tree)) \ {{}} : \A e \in S : feeds[e] \cap S # {}

SavedAcyclic == Acyclic(Saved(shown))

(* A tree in levels: every event can be reached from the top event, which  *)
(* alone is marked so, and for each gate the inputs lie one level below    *)
(* the output, of which it is the only gate.                               *)
Levelled(tree) ==
  LET depth == EventDepth(tree)
  IN  /\ \A i \in DOMAIN tree.events : tree.events[i].top <=> tree.events[i].id = tree.top
      /\ \A e \in EventIds(tree) \ {tree.top} : depth[e] > 0
      /\ \A g \in ToSet(tree.gates) :
           /\ g.output # None /\ g.inputs # <<>>
           /\ \A e \in ToSet(g.inputs) : depth[e] = depth[g.output] + 1
           /\ \A h \in ToSet(tree.gates) : h.output = g.output => h = g

(* Such a tree, loaded and saved again, is the same tree, whoever stored it*)
(* (one with an event shared between levels is not: see the hazards).      *)
RoundTrip ==
  \A tree \in {server, cache} : tree # None /\ Levelled(tree) => Saved(Flow(tree)) = tree

(* The automatic layout moves nodes, and heights are what a saved gate     *)
(* depends on; it does not change what would be saved as long as that is a *)
(* tree in levels, drawn downwards and with one edge into each gate (any   *)
(* other edge into a gate is lost when the tree is saved).                 *)
DrawnAsTree(d) ==
  \A i \in DOMAIN d.edges :
    LET e == d.edges[i]
    IN  /\ e[1] # None /\ Node(d, e[1]).y < Node(d, e[2]).y
        /\ e[2] \in Gates => \A j \in DOMAIN d.edges : d.edges[j][2] = e[2] => i = j

LayoutKeepsTree ==
  shown.nodes # <<>> /\ DrawnAsTree(shown) /\ Levelled(Saved(shown))
    => Saved(LaidOut(shown)) = Saved(shown)

(* "Saved" on the button means it: unless a drag, an undo or redo, or a    *)
(* failed save came in between, the diagram of a clean editor is the one   *)
(* of the tree the page has, or would be saved as that tree or as the one  *)
(* being saved, whenever reads, writes and the writes of others end.       *)
CleanMeansSaved ==
  ~dirty /\ ~strayed =>
    shown = Flow(cache) \/ Saved(shown) \in {cache, save.tree}
=============================================================================
