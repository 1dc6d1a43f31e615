------------------------------ MODULE CorpusPage ------------------------------
(***************************************************************************)
(* The page of the Kubernetes call chains, pages/CodeAnalysis/             *)
(* K8sCorpusAnalysis.tsx: it shows the files of the selected chain as a    *)
(* graph laid out in rows (ChainFlowViewer), the code of the selected file,*)
(* and the documents generated from the chain (RAGCorpusPanel).            *)
(*                                                                         *)
(* Dragging nodes, which the next selection undoes, and copying documents  *)
(* are left out.                                                           *)
(***************************************************************************)
EXTENDS RagCorpus

CONSTANTS
  Corpora,      \* the sequences of chains the page may be built with
  MaxExpanded   \* bound on the documents expanded at a time

(* Chains have components: generateArchitectureDocs looks for the one with *)
(* most calls, starting from the first.  What a chain lists has ids of its *)
(* own (the layout and the documents go by them), and its calls are        *)
(* between its files.                                                      *)
Distinct(s) == \A i, j \in 1..Len(s) : s[i] = s[j] => i = j

IsList(s) == s \in Seq(ToSet(s))

IsChain(chain) ==
  /\ IsList(chain.components) /\ IsList(chain.sourceFiles) /\ IsList(chain.edges)
  /\ chain.components # <<>> /\ chain.flowSteps \in Nat
  /\ Distinct(chain.components) /\ Distinct(Ids(chain.sourceFiles)) /\ Distinct(Ids(chain.edges))
  /\ \A sf \in ToSet(chain.sourceFiles) :
       IsList(sf.keyFunctions) /\ Distinct(sf.keyFunctions)
  /\ \A e \in ToSet(chain.edges) : {e.sourceFileId, e.targetFileId} \subseteq FileIds(chain)

CorporaAssumption ==
  /\ \A c \in Corpora : c # <<>> /\ IsList(c) /\ \A i \in 1..Len(c) : IsChain(c[i])
  /\ MaxExpanded \in Nat

VARIABLES
  chains,            \* the corpus of the page
  selectedChainId,   \* as an index of chains
  selectedFileId,
  positions,         \* the layout ChainFlowViewer keeps for the chain
  corpus,            \* what the panel generated, or NoCorpus
  activeType,        \* the filter of the document list
  expanded           \* the ids of the documents that are expanded

vars == <<chains, selectedChainId, selectedFileId, positions, corpus, activeType, expanded>>

None == "none"

NoCorpus == [documents |-> <<>>]

generated == corpus # NoCorpus

selectedChain == chains[selectedChainId]

-----------------------------------------------------------------------------
(* computeLayout, the same for both topologies up to the distances. *)

\* A plausible bug: a file keeps the depth it was found at first.
DepthFoundFirst(depth, d) == IF depth > 0 THEN depth ELSE d

(* A file without a depth is at 0, above where any call leads.             *)
Deepened(depth, d) == IF depth >= d THEN depth ELSE d

(* A child of the file at depth d - 1: it is queued after its last caller. *)
Placed(s, child, d) ==
  LET callers == s.inDegree[child] - 1
  IN  [queue    |-> IF callers = 0 THEN Append(s.queue, child) ELSE s.queue,
       inDegree |-> [s.inDegree EXCEPT ![child] = callers],
       depth    |-> [s.depth EXCEPT ![child] = Deepened(@, d)],
       order    |-> IF child \in ToSet(s.order) THEN s.order ELSE Append(s.order, child)]

(* The first file of the queue, edge by edge.                              *)
HandedOn(chain, s) ==
  LET current == Head(s.queue)
      after[n \in 0..Len(chain.edges)] ==
        IF n = 0 THEN [s EXCEPT !.queue = Tail(@)]
        ELSE IF chain.edges[n].sourceFileId = current
             THEN Placed(after[n - 1], chain.edges[n].targetFileId, s.depth[current] + 1)
             ELSE after[n - 1]
  IN  after[Len(chain.edges)]

(* A file is queued at most once, so as many turns as there are files do.  *)
Drained(chain, s) ==
  LET after[n \in 0..Len(chain.sourceFiles)] ==
        IF n = 0 THEN s
        ELSE LET t == after[n - 1] IN IF t.queue = <<>> THEN t ELSE HandedOn(chain, t)
  IN  after[Len(chain.sourceFiles)]

Calls(chain, id) == {i \in DOMAIN chain.edges : chain.edges[i].targetFileId = id}

Entries(chain) ==
  Only(Ids(chain.sourceFiles), {id \in FileIds(chain) : Calls(chain, id) = {}})

Undrained(chain) ==
  [queue    |-> Entries(chain),
   inDegree |-> [id \in FileIds(chain) |-> Cardinality(Calls(chain, id))],
   depth    |-> [id \in FileIds(chain) |-> 0],
   order    |-> Entries(chain)]

(* Rows in the order in which files got their depth, each centred: x       *)
(* counts half columns.  Files on a cycle that no queued file calls are    *)
(* left for the first row.                                                 *)
layout(chain) ==
  LET s == Drained(chain, Undrained(chain))
      order == s.order \o Only(Ids(chain.sourceFiles), FileIds(chain) \ ToSet(s.order))
      Row(id) == {i \in DOMAIN order : s.depth[order[i]] = s.depth[id]}
      Index(id) == CHOOSE i \in DOMAIN order : order[i] = id
  IN  [id \in FileIds(chain) |->
        [x |-> 2 * Cardinality({i \in Row(id) : i < Index(id)}) - (Cardinality(Row(id)) - 1),
         y |-> s.depth[id]]]

-----------------------------------------------------------------------------
(* The page and the document panel. *)

(* No document type begins with another one, so the filter's startsWith    *)
(* selects what its equality does.                                         *)
filteredDocs(type) ==
  IF type = None THEN corpus.documents
  ELSE Only(corpus.documents, {doc \in ToSet(corpus.documents) : doc.docType = type})

IdsOf(docs) == {docs[i].id : i \in DOMAIN docs}

Init ==
  /\ chains \in Corpora /\ selectedChainId = 1 /\ selectedFileId = None
  /\ positions = layout(selectedChain)
  /\ corpus = NoCorpus /\ activeType = None /\ expanded = {}

\* A plausible bug: the filter survives a change of the chain.
FilterKept(i) == activeType

FilterAfter(i) == IF i = selectedChainId THEN activeType ELSE None

(* The buttons of the chains; the panel notices a change by the chain's id *)
(* while it renders.                                                       *)
SelectChain(i) ==
  /\ selectedChainId' = i /\ selectedFileId' = None
  /\ positions' = layout(chains[i])
  /\ activeType' = FilterAfter(i)
  /\ IF i = selectedChainId THEN UNCHANGED <<corpus, expanded>>
     ELSE corpus' = NoCorpus /\ expanded' = {}
  /\ UNCHANGED chains

ShowFile(id) ==
  /\ selectedFileId' = id
  /\ UNCHANGED <<chains, selectedChainId, positions, corpus, activeType, expanded>>

handleNodeClick(id) == ShowFile(IF selectedFileId = id THEN None ELSE id)

CloseCode == selectedFileId # None /\ ShowFile(None)

PageUnchanged == UNCHANGED <<chains, selectedChainId, selectedFileId, positions>>

Generate ==
  /\ ~generated /\ corpus' = generateRAGCorpus(selectedChain)
  /\ UNCHANGED <<activeType, expanded>> /\ PageUnchanged

Regenerate ==
  /\ generated /\ corpus' = NoCorpus /\ activeType' = None /\ expanded' = {}
  /\ PageUnchanged

(* Whether a document is expanded is forgotten with its card.              *)
ShowType(type) ==
  /\ activeType' = type
  /\ expanded' = expanded \cap IdsOf(filteredDocs(type))
  /\ UNCHANGED corpus /\ PageUnchanged

SelectType(type) ==
  /\ generated /\ corpus.stats[type] > 0
  /\ ShowType(IF activeType = type THEN None ELSE type)

SelectAll == generated /\ ShowType(None)

ToggleDocument(id) ==
  /\ generated
  /\ expanded' = IF id \in expanded THEN expanded \ {id} ELSE expanded \cup {id}
  /\ Cardinality(expanded') <= MaxExpanded
  /\ UNCHANGED <<corpus, activeType>> /\ PageUnchanged

Next ==
  \/ \E i \in DOMAIN chains : SelectChain(i)
  \/ \E id \in FileIds(selectedChain) : handleNodeClick(id)
  \/ CloseCode
  \/ Generate
  \/ Regenerate
  \/ \E type \in FilterKeys : SelectType(type)
  \/ SelectAll
  \/ \E id \in IdsOf(filteredDocs(activeType)) : ToggleDocument(id)

Spec == Init /\ [][Next]_vars

-----------------------------------------------------------------------------
(* Whatever was clicked, the list of documents has something to show, its  *)
(* documents (and React keys) are distinct and all of the selected chain,  *)
(* and there are as many as the button of the active filter says; only the *)
(* one for flows counts the single steps, which no filter lists.           *)
ListAsCounted ==
  LET docs == filteredDocs(activeType)
  IN  generated =>
        /\ docs # <<>> /\ Cardinality(IdsOf(docs)) = Len(docs)
        /\ \A id \in IdsOf(docs) : id[2] = selectedChain.id
        /\ expanded \subseteq IdsOf(docs)
        /\ Len(docs) = IF activeType = None THEN corpus.total
             ELSE corpus.stats[activeType]
                    - (IF activeType = "flow_complete" THEN selectedChain.flowSteps ELSE 0)

(* The files that paths of each number of calls end at, all of them, but   *)
(* for the last file, out of files.                                        *)
PathEnds(chain, files) ==
  LET ends[k \in 0..Cardinality(FileIds(chain))] ==
        IF k = 0 THEN FileIds(chain)
        ELSE LET before == ends[k - 1] \cap files
             IN  {chain.edges[i].targetFileId :
                    i \in {j \in DOMAIN chain.edges : chain.edges[j].sourceFileId \in before}}
  IN  ends

(* The layout shows the order of calls: a file's row is the length of the  *)
(* longest path of calls to it, so that calls point down, but for those    *)
(* from files that a cycle leads to; no two files lie on each other.       *)
LayoutByLongestPath ==
  LET chain == selectedChain
      n == Cardinality(FileIds(chain))
      offCycles == FileIds(chain) \ PathEnds(chain, FileIds(chain))[n]
  IN  /\ \A id \in FileIds(chain) :
           positions[id].y = Max({k \in 0..n : id \in PathEnds(chain, offCycles)[k]})
      /\ IsInjective(positions)
=============================================================================
