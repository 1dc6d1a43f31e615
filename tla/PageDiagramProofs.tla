------------------------- MODULE PageDiagramProofs --------------------------
(***************************************************************************)
(* Theorems about the pages that draw diagrams.  The call chains, for any  *)
(* corpora: their layout is proved first, then what the panel lists.  The  *)
(* shipped fault trees: what TreeEditorProofs shows of a tree that can be  *)
(* drawn, that each of them can be, and what opening and saving one does.  *)
(***************************************************************************)
EXTENDS WebPagesProofs, FiniteSets

-----------------------------------------------------------------------------
(* The layout of a call graph with the files F and, for each call i up to  *)
(* n, its caller src[i] and the file tgt[i] that is called.                *)

LayoutStates(F) == [queue : Seq(F), inDegree : [F -> Int], depth : [F -> Nat], order : Seq(F)]

IsGraph(F, n, src, tgt) ==
  F \in SUBSET F /\ IsFiniteSet(F) /\ n \in Nat /\ src \in [1..n -> F] /\ tgt \in [1..n -> F]

(* The calls of id that are not in D, which has those handed on.           *)
Waiting(n, tgt, D, id) == {i \in 1..n : tgt[i] = id /\ i \notin D}

\* Of the files P that have left the queue, the calls D were handed on: files are queued
\* after the last call to them, and only once.
Queued(F, n, src, tgt, s, P, D) ==
  /\ \A i \in D : src[i] \in P
  /\ \A id \in F : s.inDegree[id] = Cardinality(Waiting(n, tgt, D, id))
  /\ \A id \in F : (id \in P \/ id \in Corpus!ToSet(s.queue)) <=> Waiting(n, tgt, D, id) = {}
  /\ P \cap Corpus!ToSet(s.queue) = {} /\ Corpus!Distinct(s.queue)

\* A file is one deeper than the deepest of its callers in D.
Layered(F, src, tgt, s, P, D) ==
  /\ \A i \in D : s.depth[tgt[i]] >= s.depth[src[i]] + 1
  /\ \A id \in F : s.depth[id] = 0 \/ \E i \in D : tgt[i] = id /\ s.depth[id] = s.depth[src[i]] + 1
  /\ \A id \in F : s.depth[id] <= Cardinality(P)
  /\ \A id \in P : s.depth[id] < Cardinality(P)

LayoutInv(F, n, src, tgt, s, P, D) ==
  /\ s \in LayoutStates(F) /\ P \in SUBSET F /\ D \in SUBSET (1..n)
  /\ Queued(F, n, src, tgt, s, P, D)
  /\ Layered(F, src, tgt, s, P, D)

LEMMA CorpusCounts == \A S : Corpus!Cardinality(S) = Cardinality(S)
BY Zenon DEF Corpus!Cardinality, Cardinality

LEMMA DistinctTail ==
  ASSUME NEW F, NEW q \in Seq(F), q # <<>>, Corpus!Distinct(q)
  PROVE  /\ Head(q) \in F /\ Tail(q) \in Seq(F) /\ Corpus!Distinct(Tail(q))
         /\ Head(q) \in Corpus!ToSet(q)
         /\ Corpus!ToSet(Tail(q)) = Corpus!ToSet(q) \ {Head(q)}
<1>1. /\ Head(q) \in F /\ Tail(q) \in Seq(F) /\ Len(Tail(q)) = Len(q) - 1
      /\ \A i \in 1..Len(Tail(q)) : Tail(q)[i] = q[i + 1]
  BY HeadTailProperties
<1>2. /\ Len(q) \in Nat /\ DOMAIN q = 1..Len(q) /\ DOMAIN Tail(q) = 1..Len(Tail(q))
      /\ Len(q) # 0
  BY <1>1, LenProperties, EmptySeq
<1>3. Head(q) = q[1] /\ 1 \in 1..Len(q)
  BY <1>2
<1>4. \A i, j \in 1..Len(q) : q[i] = q[j] => i = j
  BY DEF Corpus!Distinct
<1>5. Corpus!Distinct(Tail(q))
  <2> SUFFICES ASSUME NEW i \in 1..Len(Tail(q)), NEW j \in 1..Len(Tail(q)), Tail(q)[i] = Tail(q)[j]
               PROVE  i = j
    BY DEF Corpus!Distinct
  <2>1. i + 1 \in 1..Len(q) /\ j + 1 \in 1..Len(q) /\ q[i + 1] = q[j + 1]
    BY <1>1, <1>2
  <2>2. i + 1 = j + 1
    BY <1>4, <2>1
  <2> QED BY <2>2
<1>6. ASSUME NEW id \in Corpus!ToSet(Tail(q)) PROVE id \in Corpus!ToSet(q) \ {Head(q)}
  <2>1. PICK i \in 1..Len(Tail(q)) : id = Tail(q)[i]
    BY <1>2 DEF Corpus!ToSet
  <2>2. i + 1 \in 1..Len(q) /\ id = q[i + 1] /\ i + 1 # 1
    BY <1>1, <1>2, <2>1
  <2>3. id # q[1]
    BY <1>3, <1>4, <2>2
  <2> QED BY <1>2, <1>3, <2>2, <2>3 DEF Corpus!ToSet
<1>7. ASSUME NEW id \in Corpus!ToSet(q) \ {Head(q)} PROVE id \in Corpus!ToSet(Tail(q))
  <2>1. PICK i \in 1..Len(q) : id = q[i]
    BY <1>2 DEF Corpus!ToSet
  <2>2. i # 1
    BY <1>3, <2>1
  <2>3. i - 1 \in 1..Len(Tail(q)) /\ (i - 1) + 1 = i
    BY <1>1, <1>2, <2>1, <2>2
  <2>4. id = Tail(q)[i - 1]
    BY <1>1, <2>1, <2>3
  <2> QED BY <1>2, <2>3, <2>4 DEF Corpus!ToSet
<1>8. Head(q) \in Corpus!ToSet(q)
  BY <1>2, <1>3 DEF Corpus!ToSet
<1> QED BY <1>1, <1>5, <1>6, <1>7, <1>8

LEMMA DistinctAppended ==
  ASSUME NEW F, NEW q \in Seq(F), NEW id \in F
  PROVE  /\ Append(q, id) \in Seq(F) /\ Corpus!ToSet(Append(q, id)) = Corpus!ToSet(q) \cup {id}
         /\ Corpus!Distinct(q) /\ id \notin Corpus!ToSet(q) => Corpus!Distinct(Append(q, id))
<1> DEFINE r == Append(q, id)
<1>1. /\ r \in Seq(F) /\ Len(r) = Len(q) + 1 /\ r[Len(q) + 1] = id
      /\ \A i \in 1..Len(q) : r[i] = q[i]
  BY AppendProperties
<1>2. Len(q) \in Nat /\ DOMAIN q = 1..Len(q) /\ DOMAIN r = 1..(Len(q) + 1)
  BY <1>1, LenProperties
<1> HIDE DEF r
<1>3. Corpus!ToSet(r) = Corpus!ToSet(q) \cup {id}
  <2>1. Corpus!ToSet(r) = {r[i] : i \in 1..(Len(q) + 1)} /\ Corpus!ToSet(q) = {q[i] : i \in 1..Len(q)}
    BY <1>2 DEF Corpus!ToSet
  <2>2. \A i \in 1..(Len(q) + 1) : i \in 1..Len(q) \/ i = Len(q) + 1
    BY <1>2
  <2>3. \A i \in 1..Len(q) : i \in 1..(Len(q) + 1)
    BY <1>2
  <2>4. Len(q) + 1 \in 1..(Len(q) + 1)
    BY <1>2
  <2> QED BY <1>1, <2>1, <2>2, <2>3, <2>4
<1>4. ASSUME Corpus!Distinct(q), id \notin Corpus!ToSet(q) PROVE Corpus!Distinct(r)
  <2> SUFFICES ASSUME NEW i \in 1..Len(r), NEW j \in 1..Len(r), r[i] = r[j]
               PROVE  i = j
    BY DEF Corpus!Distinct
  <2>1. \A k \in 1..Len(q) : q[k] # id
    BY <1>2, <1>4 DEF Corpus!ToSet
  <2>2. \A k \in 1..Len(r) : k \in 1..Len(q) \/ k = Len(q) + 1
    BY <1>1, <1>2
  <2>3. \A k, l \in 1..Len(q) : q[k] = q[l] => k = l
    BY <1>4 DEF Corpus!Distinct
  <2> QED BY <1>1, <2>1, <2>2, <2>3
<1> QED BY <1>1, <1>3, <1>4 DEF r

\* The head of the queue leaves it: its calls are to be handed on next.
LEMMA HeadLeaves ==
  ASSUME NEW F, NEW n, NEW src, NEW tgt, IsGraph(F, n, src, tgt), NEW s, NEW P, NEW D,
         LayoutInv(F, n, src, tgt, s, P, D), s.queue # <<>>
  PROVE  /\ Head(s.queue) \in F \ P
         /\ LayoutInv(F, n, src, tgt, [s EXCEPT !.queue = Tail(@)], P \cup {Head(s.queue)}, D)
<1> DEFINE c == Head(s.queue)
           t == [s EXCEPT !.queue = Tail(@)]
           Q == P \cup {c}
<1>1. s.queue \in Seq(F) /\ s.depth \in [F -> Nat] /\ Queued(F, n, src, tgt, s, P, D)
  BY DEF LayoutInv, LayoutStates
<1>2. /\ c \in F /\ Tail(s.queue) \in Seq(F) /\ Corpus!Distinct(Tail(s.queue))
      /\ c \in Corpus!ToSet(s.queue) /\ Corpus!ToSet(Tail(s.queue)) = Corpus!ToSet(s.queue) \ {c}
  BY <1>1, DistinctTail DEF Queued
<1>3. /\ t \in LayoutStates(F) /\ t.queue = Tail(s.queue) /\ t.inDegree = s.inDegree
      /\ t.depth = s.depth
  BY <1>2 DEF LayoutInv, LayoutStates
<1>4. c \notin P /\ Q \in SUBSET F
  BY <1>1, <1>2 DEF Queued, LayoutInv
<1>5. IsFiniteSet(P) /\ Cardinality(P) \in Nat /\ Cardinality(Q) = Cardinality(P) + 1
  <2>1. IsFiniteSet(P) /\ P \in SUBSET F
    BY FS_Subset DEF LayoutInv, IsGraph
  <2> QED BY <1>4, <2>1, FS_CardinalityType, FS_AddElement
<1> HIDE DEF c, t, Q
<1>6. Queued(F, n, src, tgt, t, Q, D)
  <2>1. \A id \in F : (id \in Q \/ id \in Corpus!ToSet(t.queue))
                        <=> (id \in P \/ id \in Corpus!ToSet(s.queue))
    BY <1>2, <1>3 DEF Q
  <2>2. Q \cap Corpus!ToSet(t.queue) = {} /\ Corpus!Distinct(t.queue)
    BY <1>1, <1>2, <1>3 DEF Q, Queued
  <2>3. \A i \in D : src[i] \in Q
    BY <1>1 DEF Q, Queued
  <2> QED BY <1>1, <1>3, <2>1, <2>2, <2>3 DEF Queued
<1>7. Layered(F, src, tgt, t, Q, D)
  <2>0. Layered(F, src, tgt, s, P, D)
    BY DEF LayoutInv
  <2>1. \A id \in F : s.depth[id] \in Nat /\ s.depth[id] <= Cardinality(P)
    BY <1>1, <2>0 DEF Layered
  <2>2. \A id \in F : t.depth[id] <= Cardinality(Q) /\ t.depth[id] < Cardinality(Q)
    BY <1>3, <1>5, <2>1
  <2> QED BY <1>3, <1>4, <2>0, <2>2 DEF Layered
<1>8. LayoutInv(F, n, src, tgt, t, Q, D)
  BY <1>3, <1>4, <1>6, <1>7 DEF LayoutInv
<1> QED BY <1>2, <1>4, <1>8 DEF c, t, Q

CallTaken(F, n, src, tgt, s, P, D, i, t) ==
  /\ LayoutInv(F, n, src, tgt, s, P, D) /\ i \in (1..n) \ D /\ src[i] \in P
  /\ t = Corpus!Placed(s, tgt[i], s.depth[src[i]] + 1)

CallMade(F, n, src, tgt, s, P, D, i, t) ==
  LayoutInv(F, n, src, tgt, t, P, D \cup {i}) /\ t.depth[src[i]] = s.depth[src[i]]

\* A call from a file that has left the queue is handed on: its child is placed below the
\* file, and queued if this was the last call to it.
LEMMA CallHandedOn ==
  ASSUME NEW F, NEW n, NEW src, NEW tgt, IsGraph(F, n, src, tgt), NEW s, NEW P, NEW D,
         NEW i, NEW t, CallTaken(F, n, src, tgt, s, P, D, i, t)
  PROVE  CallMade(F, n, src, tgt, s, P, D, i, t)
<1> SUFFICES ASSUME LayoutInv(F, n, src, tgt, s, P, D), i \in (1..n) \ D, src[i] \in P,
                    t = Corpus!Placed(s, tgt[i], s.depth[src[i]] + 1)
             PROVE  /\ LayoutInv(F, n, src, tgt, t, P, D \cup {i})
                    /\ t.depth[src[i]] = s.depth[src[i]]
  BY DEF CallTaken, CallMade
<1> DEFINE c == src[i]
           id0 == tgt[i]
           d == s.depth[c] + 1
           E == D \cup {i}
           Old(id) == Waiting(n, tgt, D, id)
           New(id) == Waiting(n, tgt, E, id)
<1>1. /\ s.queue \in Seq(F) /\ s.order \in Seq(F) /\ s.depth \in [F -> Nat]
      /\ s.inDegree \in [F -> Int] /\ s \in LayoutStates(F)
  BY DEF LayoutInv, LayoutStates
<1>2. /\ Queued(F, n, src, tgt, s, P, D) /\ Layered(F, src, tgt, s, P, D)
      /\ P \in SUBSET F /\ D \in SUBSET (1..n)
  BY DEF LayoutInv
<1>3. c \in F /\ id0 \in F /\ d \in Nat /\ n \in Nat /\ E \in SUBSET (1..n)
  BY <1>1, <1>2 DEF IsGraph
<1>4. i \in Old(id0) /\ New(id0) = Old(id0) \ {i} /\ \A id \in F \ {id0} : New(id) = Old(id)
  BY DEF Waiting
<1>5. \A id \in F : /\ IsFiniteSet(Old(id)) /\ Cardinality(Old(id)) \in Nat
                    /\ IsFiniteSet(New(id)) /\ Cardinality(New(id)) \in Nat
  <2> SUFFICES ASSUME NEW id \in F, NEW G
               PROVE  IsFiniteSet(Waiting(n, tgt, G, id)) /\ Cardinality(Waiting(n, tgt, G, id)) \in Nat
    OBVIOUS
  <2>1. Waiting(n, tgt, G, id) \in SUBSET (1..n) /\ IsFiniteSet(1..n)
    BY <1>3, FS_Interval DEF Waiting
  <2> QED BY <2>1, FS_Subset, FS_CardinalityType
<1> HIDE DEF Old, New
<1>6. Cardinality(New(id0)) = Cardinality(Old(id0)) - 1
  BY <1>3, <1>4, <1>5, FS_RemoveElement
<1>7. New(id0) = {} <=> Cardinality(New(id0)) = 0
  BY <1>3, <1>5, FS_EmptySet
<1>8. /\ \A id \in F : s.inDegree[id] = Cardinality(Old(id))
      /\ \A id \in F : (id \in P \/ id \in Corpus!ToSet(s.queue)) <=> Old(id) = {}
      /\ P \cap Corpus!ToSet(s.queue) = {} /\ Corpus!Distinct(s.queue)
      /\ \A j \in D : src[j] \in P
  BY <1>2 DEF Queued, Old
<1>9. id0 \notin P /\ id0 \notin Corpus!ToSet(s.queue) /\ id0 # c
  BY <1>3, <1>4, <1>8
<1> DEFINE queue == IF Cardinality(New(id0)) = 0 THEN Append(s.queue, id0) ELSE s.queue
           inDegree == [s.inDegree EXCEPT ![id0] = Cardinality(New(id0))]
           depth == [s.depth EXCEPT ![id0] = IF s.depth[id0] >= d THEN s.depth[id0] ELSE d]
           order == IF id0 \in Corpus!ToSet(s.order) THEN s.order ELSE Append(s.order, id0)
<1>10. t = [queue |-> queue, inDegree |-> inDegree, depth |-> depth, order |-> order]
  <2>1. s.inDegree[id0] - 1 = Cardinality(New(id0))
    BY <1>3, <1>6, <1>8
  <2> HIDE DEF id0, d, c
  <2>2. t = Corpus!Placed(s, id0, d)
    BY DEF id0, d, c
  <2> QED BY <2>1, <2>2 DEF Corpus!Placed, Corpus!Deepened
<1>11. queue \in Seq(F) /\ order \in Seq(F)
  <2> HIDE DEF id0
  <2>1. Append(s.queue, id0) \in Seq(F) /\ Append(s.order, id0) \in Seq(F)
    BY <1>1, <1>3, DistinctAppended
  <2> QED BY <1>1, <2>1
<1> HIDE DEF c, id0, d, E
<1>12. depth \in [F -> Nat] /\ inDegree \in [F -> Int]
  <2>1. Cardinality(New(id0)) \in Nat
    BY <1>3, <1>5
  <2> QED BY <1>1, <1>3, <2>1
<1>13. /\ \A id \in F \ {id0} : depth[id] = s.depth[id] /\ inDegree[id] = s.inDegree[id]
       /\ depth[id0] = (IF s.depth[id0] >= d THEN s.depth[id0] ELSE d)
       /\ inDegree[id0] = Cardinality(New(id0))
       /\ s.depth[id0] \in Nat /\ s.depth[c] \in Nat
  BY <1>1, <1>3
<1> HIDE DEF queue, depth, inDegree, order
<1>14. t.queue = queue /\ t.inDegree = inDegree /\ t.depth = depth
  BY <1>10
<1>15. t \in LayoutStates(F)
  BY <1>10, <1>11, <1>12 DEF LayoutStates
<1>16. Queued(F, n, src, tgt, t, P, E)
  <2>1. \A j \in E : src[j] \in P
    BY <1>8 DEF E
  <2>2. \A id \in F : t.inDegree[id] = Cardinality(New(id))
    BY <1>4, <1>8, <1>13, <1>14
  <2>3. CASE Cardinality(New(id0)) = 0
    <3>1. t.queue = Append(s.queue, id0)
      BY <1>14, <2>3 DEF queue
    <3>2. Corpus!Distinct(t.queue) /\ Corpus!ToSet(t.queue) = Corpus!ToSet(s.queue) \cup {id0}
      <4> DEFINE q == s.queue
      <4>1. q \in Seq(F) /\ id0 \in F /\ Corpus!Distinct(q) /\ id0 \notin Corpus!ToSet(q)
        BY <1>1, <1>3, <1>8, <1>9
      <4> HIDE DEF q
      <4>2. /\ Corpus!Distinct(Append(q, id0))
            /\ Corpus!ToSet(Append(q, id0)) = Corpus!ToSet(q) \cup {id0}
        BY <4>1, DistinctAppended
      <4> QED BY <3>1, <4>2 DEF q
    <3>3. \A id \in F : (id \in P \/ id \in Corpus!ToSet(t.queue)) <=> New(id) = {}
      BY <1>4, <1>7, <1>8, <2>3, <3>2
    <3> QED BY <1>8, <1>9, <2>1, <2>2, <3>2, <3>3 DEF Queued, New
  <2>4. CASE Cardinality(New(id0)) # 0
    <3>1. t.queue = s.queue
      BY <1>14, <2>4 DEF queue
    <3>2. \A id \in F : (id \in P \/ id \in Corpus!ToSet(t.queue)) <=> New(id) = {}
      BY <1>4, <1>7, <1>8, <1>9, <2>4, <3>1
    <3> QED BY <1>8, <2>1, <2>2, <3>1, <3>2 DEF Queued, New
  <2> QED BY <2>3, <2>4
<1>17. t.depth[c] = s.depth[c]
  BY <1>3, <1>9, <1>13, <1>14
<1>18. /\ \A j \in D : s.depth[tgt[j]] >= s.depth[src[j]] + 1
       /\ \A id \in F : s.depth[id] = 0 \/ \E j \in D : tgt[j] = id /\ s.depth[id] = s.depth[src[j]] + 1
       /\ \A id \in F : s.depth[id] <= Cardinality(P)
       /\ \A id \in P : s.depth[id] < Cardinality(P)
  BY <1>2 DEF Layered
<1>19. \A j \in D : t.depth[src[j]] = s.depth[src[j]] /\ src[j] \in F /\ tgt[j] \in F
  BY <1>2, <1>8, <1>9, <1>13, <1>14 DEF IsGraph
<1>20. Layered(F, src, tgt, t, P, E)
  <2>1. ASSUME NEW j \in E PROVE t.depth[tgt[j]] >= t.depth[src[j]] + 1
    <3>1. CASE j = i
      <4>1. tgt[j] = id0 /\ src[j] = c
        BY <3>1 DEF id0, c
      <4>2. d = s.depth[c] + 1
        BY DEF d
      <4> QED BY <1>13, <1>14, <1>17, <4>1, <4>2
    <3>2. CASE j # i
      <4>1. j \in D /\ s.depth[tgt[j]] \in Nat /\ s.depth[src[j]] \in Nat /\ d \in Nat
        BY <1>1, <1>3, <1>19, <3>2 DEF E
      <4>2. s.depth[tgt[j]] >= s.depth[src[j]] + 1 /\ t.depth[src[j]] = s.depth[src[j]]
        BY <1>18, <1>19, <4>1
      <4>3. t.depth[tgt[j]] >= s.depth[tgt[j]]
        <5>1. CASE tgt[j] = id0
          BY <1>3, <1>13, <1>14, <4>1, <5>1
        <5>2. CASE tgt[j] # id0
          BY <1>13, <1>14, <1>19, <4>1, <5>2
        <5> QED BY <5>1, <5>2
      <4>4. t.depth[tgt[j]] \in Nat
        BY <1>12, <1>14, <1>19, <4>1
      <4> QED BY <4>1, <4>2, <4>3, <4>4
    <3> QED BY <3>1, <3>2
  <2>2. ASSUME NEW id \in F, t.depth[id] # 0
        PROVE  \E j \in E : tgt[j] = id /\ t.depth[id] = t.depth[src[j]] + 1
    <3>1. CASE t.depth[id] = s.depth[id]
      <4>1. PICK j \in D : tgt[j] = id /\ s.depth[id] = s.depth[src[j]] + 1
        BY <1>18, <2>2, <3>1
      <4> QED BY <1>19, <3>1, <4>1 DEF E
    <3>2. CASE t.depth[id] # s.depth[id]
      <4>1. id = id0 /\ t.depth[id0] = d
        BY <1>13, <1>14, <3>2
      <4>2. i \in E /\ tgt[i] = id0 /\ d = t.depth[src[i]] + 1
        BY <1>17 DEF E, id0, d, c
      <4> QED BY <4>1, <4>2
    <3> QED BY <3>1, <3>2
  <2>3. \A id \in F : t.depth[id] <= Cardinality(P)
    <3>1. c \in P /\ s.depth[c] < Cardinality(P) /\ Cardinality(P) \in Nat
      <4>1. IsFiniteSet(P)
        BY <1>2, FS_Subset DEF IsGraph
      <4> QED BY <1>18, <4>1, FS_CardinalityType DEF c
    <3>2. d <= Cardinality(P)
      BY <1>13, <1>14, <3>1 DEF d
    <3> QED BY <1>13, <1>14, <1>18, <3>2
  <2>4. \A id \in P : t.depth[id] < Cardinality(P)
    BY <1>2, <1>9, <1>13, <1>14, <1>18
  <2> QED BY <2>1, <2>2, <2>3, <2>4 DEF Layered
<1>21. E \in SUBSET (1..n)
  BY <1>2 DEF E
<1>22. LayoutInv(F, n, src, tgt, t, P, E)
  BY <1>2, <1>15, <1>16, <1>20, <1>21 DEF LayoutInv
<1> QED BY <1>17, <1>22 DEF c, E

\* What is so at 0, and stays so from each number to the next, is so of all up to n.
LEMMA AllUpTo ==
  ASSUME NEW n \in Nat, NEW good \in [0..n -> BOOLEAN],
         good[0], \A m \in 1..n : good[m - 1] => good[m]
  PROVE  \A m \in 0..n : good[m]
<1> DEFINE fails == {m \in 0..n : ~good[m]}
<1>1. ASSUME fails # {} PROVE FALSE
  <2>1. PICK m \in fails : \A k \in fails : m <= k
    <3>1. fails \in SUBSET Nat
      OBVIOUS
    <3> QED BY <1>1, <3>1, LeastNumber
  <2>2. m # 0
    BY <2>1
  <2>3. m \in 1..n /\ m - 1 \in 0..n /\ ~(m <= m - 1)
    BY <2>1, <2>2
  <2>4. good[m - 1]
    BY <2>1, <2>3
  <2> QED BY <2>1, <2>3, <2>4
<1> QED BY <1>1

Recurs(f, n, base, step) == f = [i \in 0..n |-> IF i = 0 THEN base ELSE step[i][f[i - 1]]]

\* A step at each number, from the one before, makes up a recursive function.
LEMMA StepsDefine ==
  ASSUME NEW n \in Nat, NEW S, NEW base \in S, NEW step \in [1..n -> [S -> S]]
  PROVE  \E f \in [0..n -> S] : Recurs(f, n, base, step)
<1>1. PICK f \in [0..n -> S] : f[0] = base /\ \A i \in 1..n : f[i] = step[i][f[i - 1]]
  <2>1. \E f \in [0..n -> S] : Goes(f, n, base, step)
    BY StepsMakeFunction
  <2> QED BY <2>1 DEF Goes
<1>2. ASSUME NEW i \in 0..n PROVE f[i] = IF i = 0 THEN base ELSE step[i][f[i - 1]]
  <2>1. i = 0 \/ i \in 1..n
    OBVIOUS
  <2> QED BY <1>1, <2>1
<1>3. f = [i \in 0..n |-> IF i = 0 THEN base ELSE step[i][f[i - 1]]]
  BY <1>2
<1> QED BY <1>3 DEF Recurs

(* The files and calls of a chain.                                         *)
GraphOf(chain, F, n, src, tgt) ==
  /\ n = Len(chain.edges)
  /\ \A i \in 1..n : src[i] = chain.edges[i].sourceFileId /\ tgt[i] = chain.edges[i].targetFileId

LEMMA PlacedTyped ==
  ASSUME NEW F, NEW s \in LayoutStates(F), NEW child \in F, NEW d \in Nat
  PROVE  Corpus!Placed(s, child, d) \in LayoutStates(F)
<1>1. /\ s.queue \in Seq(F) /\ s.order \in Seq(F) /\ s.depth \in [F -> Nat]
      /\ s.inDegree \in [F -> Int]
  BY DEF LayoutStates
<1>2. Append(s.queue, child) \in Seq(F) /\ Append(s.order, child) \in Seq(F)
  BY <1>1, DistinctAppended
<1>3. s.inDegree[child] - 1 \in Int
  BY <1>1
<1>4. [s.depth EXCEPT ![child] = IF @ >= d THEN @ ELSE d] \in [F -> Nat]
  BY <1>1
<1>5. [s.inDegree EXCEPT ![child] = s.inDegree[child] - 1] \in [F -> Int]
  BY <1>1, <1>3
<1>6. (IF s.inDegree[child] - 1 = 0 THEN Append(s.queue, child) ELSE s.queue) \in Seq(F)
  BY <1>1, <1>2
<1>7. (IF child \in Corpus!ToSet(s.order) THEN s.order ELSE Append(s.order, child)) \in Seq(F)
  BY <1>1, <1>2
<1> QED BY <1>4, <1>5, <1>6, <1>7 DEF Corpus!Placed, Corpus!Deepened, LayoutStates

\* f has the states in which current hands on its calls, one after the other.
HandsOn(f, n, src, tgt, s, current) ==
  /\ f[0] = [s EXCEPT !.queue = Tail(@)]
  /\ \A i \in 1..n : f[i] = IF src[i] = current
                            THEN Corpus!Placed(f[i - 1], tgt[i], s.depth[current] + 1) ELSE f[i - 1]

\* The recursion of HandedOn goes through the calls.
LEMMA TurnGoes ==
  ASSUME NEW chain, NEW F, NEW n, NEW src, NEW tgt, IsGraph(F, n, src, tgt),
         GraphOf(chain, F, n, src, tgt), NEW s \in LayoutStates(F), s.queue # <<>>
  PROVE  \E f : HandsOn(f, n, src, tgt, s, Head(s.queue)) /\ Corpus!HandedOn(chain, s) = f[n]
<1> DEFINE S == LayoutStates(F)
           current == Head(s.queue)
           base == [s EXCEPT !.queue = Tail(@)]
           d == s.depth[current] + 1
           hands(f) == f = [i \in 0..Len(chain.edges) |->
                              IF i = 0 THEN [s EXCEPT !.queue = Tail(@)]
                              ELSE IF chain.edges[i].sourceFileId = current
                                   THEN Corpus!Placed(f[i - 1], chain.edges[i].targetFileId,
                                                      s.depth[current] + 1)
                                   ELSE f[i - 1]]
           after == CHOOSE f : hands(f)
           step == [i \in 1..n |-> [t \in S |-> IF src[i] = current
                                                THEN Corpus!Placed(t, tgt[i], d) ELSE t]]
<1>1. s.queue \in Seq(F) /\ s.depth \in [F -> Nat] /\ n \in Nat
  BY DEF LayoutStates, IsGraph
<1>2. Head(s.queue) \in F /\ Tail(s.queue) \in Seq(F)
  BY <1>1, HeadTailProperties
<1>4. Corpus!HandedOn(chain, s) = after[n]
  BY DEF Corpus!HandedOn, GraphOf
<1> HIDE DEF hands, after, step
<1>3. base \in S /\ d \in Nat
  <2>1. base \in S
    BY <1>1, <1>2 DEF LayoutStates
  <2>2. d \in Nat
    BY <1>1, <1>2
  <2> QED BY <2>1, <2>2
<1> HIDE DEF d, base, current
<1>5. step \in [1..n -> [S -> S]]
  <2> USE DEF step
  <2>1. ASSUME NEW i \in 1..n, NEW t \in S PROVE Corpus!Placed(t, tgt[i], d) \in S
    <3>1. tgt[i] \in F
      BY DEF IsGraph
    <3> QED BY <1>3, <3>1, PlacedTyped
  <2> HIDE DEF S
  <2>2. ASSUME NEW i \in 1..n
        PROVE [t \in S |-> IF src[i] = current THEN Corpus!Placed(t, tgt[i], d) ELSE t] \in [S -> S]
    BY <2>1
  <2> QED BY <2>2
<1>6. \E f : hands(f)
  <2>1. PICK f \in [0..n -> S] : f = [i \in 0..n |-> IF i = 0 THEN base ELSE step[i][f[i - 1]]]
    <3> HIDE DEF S, step
    <3>1. \E f \in [0..n -> S] : Recurs(f, n, base, step)
      BY <1>1, <1>3, <1>5, StepsDefine
    <3> QED BY <3>1 DEF Recurs
  <2> USE DEF step
  <2>2. ASSUME NEW i \in 0..n
        PROVE  f[i] = IF i = 0 THEN base
                      ELSE IF chain.edges[i].sourceFileId = current
                           THEN Corpus!Placed(f[i - 1], chain.edges[i].targetFileId, d) ELSE f[i - 1]
    <3>1. CASE i = 0
      BY <2>1, <3>1
    <3>2. CASE i # 0
      <4>1. i \in 1..n /\ i - 1 \in 0..n
        BY <1>1, <3>2
      <4>2. f[i] = step[i][f[i - 1]] /\ f[i - 1] \in S
        BY <2>1, <3>2, <4>1
      <4>3. step[i][f[i - 1]] = IF src[i] = current THEN Corpus!Placed(f[i - 1], tgt[i], d) ELSE f[i - 1]
        BY <4>1, <4>2
      <4>4. src[i] = chain.edges[i].sourceFileId /\ tgt[i] = chain.edges[i].targetFileId
        BY <4>1 DEF GraphOf
      <4> QED BY <3>2, <4>2, <4>3, <4>4
    <3> QED BY <3>1, <3>2
  <2> HIDE DEF step
  <2>3. f = [i \in 0..n |-> f[i]]
    BY <2>1
  <2>4. f = [i \in 0..n |-> IF i = 0 THEN base
                      ELSE IF chain.edges[i].sourceFileId = current
                           THEN Corpus!Placed(f[i - 1], chain.edges[i].targetFileId, d) ELSE f[i - 1]]
    BY <2>2, <2>3, Zenon
  <2>5. hands(f)
    BY <2>4 DEF hands, base, d, GraphOf
  <2> QED BY <2>5
<1>7. hands(after)
  BY <1>6 DEF after
<1>8. /\ after[0] = base
      /\ \A i \in 1..n : after[i] = IF src[i] = current
                            THEN Corpus!Placed(after[i - 1], tgt[i], d) ELSE after[i - 1]
  <2>1. after[0] = base
    BY <1>1, <1>7 DEF hands, base, GraphOf
  <2>2. ASSUME NEW i \in 1..n
        PROVE  after[i] = IF src[i] = current
                          THEN Corpus!Placed(after[i - 1], tgt[i], d) ELSE after[i - 1]
    <3>1. i \in 0..Len(chain.edges) /\ i # 0
      BY <1>1 DEF GraphOf
    <3>2. after[i] = IF chain.edges[i].sourceFileId = current
                     THEN Corpus!Placed(after[i - 1], chain.edges[i].targetFileId, d) ELSE after[i - 1]
      BY <1>7, <3>1 DEF hands, d
    <3>3. src[i] = chain.edges[i].sourceFileId /\ tgt[i] = chain.edges[i].targetFileId
      BY DEF GraphOf
    <3> QED BY <3>2, <3>3
  <2> QED BY <2>1, <2>2
<1>9. HandsOn(after, n, src, tgt, s, Head(s.queue))
  BY <1>8 DEF HandsOn, base, d, current
<1> QED BY <1>4, <1>9

(* The calls from files in P.                                              *)
CallsFrom(n, src, P) == {i \in 1..n : src[i] \in P}

\* A turn of the queue keeps the invariant: the calls handed on are those from the files
\* that have left the queue.
LEMMA TurnKeeps ==
  ASSUME NEW chain, NEW F, NEW n, NEW src, NEW tgt, IsGraph(F, n, src, tgt),
         GraphOf(chain, F, n, src, tgt), NEW s, NEW P, s.queue # <<>>,
         LayoutInv(F, n, src, tgt, s, P, CallsFrom(n, src, P)),
         NEW Q, Q = P \cup {Head(s.queue)}
  PROVE  /\ LayoutInv(F, n, src, tgt, Corpus!HandedOn(chain, s), Q, CallsFrom(n, src, Q))
         /\ Head(s.queue) \in F \ P
<1> DEFINE c == Head(s.queue)
           D(m) == CallsFrom(n, src, P) \cup {i \in 1..m : src[i] = c}
           base == [s EXCEPT !.queue = Tail(@)]
<1>1. c \in F \ P /\ LayoutInv(F, n, src, tgt, base, Q, CallsFrom(n, src, P))
  BY HeadLeaves
<1>2. n \in Nat /\ s \in LayoutStates(F) /\ base.depth = s.depth
  BY DEF IsGraph, LayoutInv, LayoutStates
<1>3. PICK f : HandsOn(f, n, src, tgt, s, c) /\ Corpus!HandedOn(chain, s) = f[n]
  BY <1>2, TurnGoes
<1> HIDE DEF base
<1> DEFINE right(m) == LayoutInv(F, n, src, tgt, f[m], Q, D(m)) /\ f[m].depth[c] = s.depth[c]
           good == [m \in 0..n |-> right(m)]
<1>4. D(0) = CallsFrom(n, src, P) /\ D(n) = CallsFrom(n, src, Q)
  BY <1>2 DEF CallsFrom
<1>5. right(0)
  <2>1. f[0] = base
    BY <1>3 DEF HandsOn, base
  <2> HIDE DEF D
  <2> QED BY <1>1, <1>2, <1>4, <2>1
<1>6. ASSUME NEW m \in 1..n, right(m - 1) PROVE right(m)
  <2>1. f[m] = IF src[m] = c THEN Corpus!Placed(f[m - 1], tgt[m], s.depth[c] + 1) ELSE f[m - 1]
    BY <1>3 DEF HandsOn
  <2>2. \A i : i \in 1..m <=> i \in 1..(m - 1) \/ i = m
    BY <1>2
  <2>3. CASE src[m] = c
    <3>1. m \in (1..n) \ D(m - 1) /\ D(m) = D(m - 1) \cup {m}
      <4>1. m \notin CallsFrom(n, src, P) /\ m \notin 1..(m - 1)
        BY <1>1, <1>2, <2>3 DEF CallsFrom
      <4> QED BY <2>2, <2>3, <4>1
    <3>2. src[m] \in Q
      BY <2>3
    <3>3. f[m] = Corpus!Placed(f[m - 1], tgt[m], f[m - 1].depth[src[m]] + 1)
      BY <1>6, <2>1, <2>3
    <3>4. LayoutInv(F, n, src, tgt, f[m - 1], Q, D(m - 1))
      BY <1>6
    <3> HIDE DEF D, right
    <3>5. /\ LayoutInv(F, n, src, tgt, f[m], Q, D(m - 1) \cup {m})
          /\ f[m].depth[src[m]] = f[m - 1].depth[src[m]]
      <4> DEFINE old == f[m - 1]
                 new == f[m]
                 done == D(m - 1)
      <4>1. new = Corpus!Placed(old, tgt[m], old.depth[src[m]] + 1)
        BY <3>3
      <4>2. LayoutInv(F, n, src, tgt, old, Q, done)
        BY <3>4
      <4>3. m \in (1..n) \ done
        BY <3>1
      <4> HIDE DEF old, new, done, c, good
      <4>4. CallTaken(F, n, src, tgt, old, Q, done, m, new)
        BY <3>2, <4>1, <4>2, <4>3 DEF CallTaken
      <4>5. CallMade(F, n, src, tgt, old, Q, done, m, new)
        BY <4>4, CallHandedOn
      <4> QED BY <4>5 DEF CallMade, old, new, done
    <3> QED BY <1>6, <2>3, <3>1, <3>5 DEF right
  <2>4. CASE src[m] # c
    <3>1. D(m) = D(m - 1) /\ f[m] = f[m - 1]
      BY <2>1, <2>2, <2>4
    <3> HIDE DEF D
    <3> QED BY <1>6, <3>1
  <2> QED BY <2>3, <2>4
<1> HIDE DEF D
<1>7. good \in [0..n -> BOOLEAN] /\ good[0] /\ \A m \in 1..n : good[m - 1] => good[m]
  <2>1. 0 \in 0..n /\ \A m \in 1..n : m \in 0..n /\ m - 1 \in 0..n
    BY <1>2
  <2>2. good \in [0..n -> BOOLEAN]
    OBVIOUS
  <2> HIDE DEF right
  <2> QED BY <1>5, <1>6, <2>1, <2>2
<1>8. right(n)
  <2>1. n \in 0..n
    BY <1>2
  <2>2. good[n]
    <3> HIDE DEF good
    <3> QED BY <1>2, <1>7, <2>1, AllUpTo
  <2> HIDE DEF right
  <2> QED BY <2>1, <2>2
<1> QED BY <1>1, <1>3, <1>4, <1>8

\* The queue drains: the invariant holds of what Drained returns, and its queue is empty.
LEMMA LayoutQueueEmpties ==
  ASSUME NEW chain, NEW F, NEW n, NEW src, NEW tgt, IsGraph(F, n, src, tgt),
         GraphOf(chain, F, n, src, tgt), Len(chain.sourceFiles) \in Nat,
         Cardinality(F) <= Len(chain.sourceFiles),
         NEW s, LayoutInv(F, n, src, tgt, s, {}, CallsFrom(n, src, {}))
  PROVE  \E P : /\ LayoutInv(F, n, src, tgt, Corpus!Drained(chain, s), P, CallsFrom(n, src, P))
                /\ Corpus!Drained(chain, s).queue = <<>>
<1> DEFINE K == Len(chain.sourceFiles)
           S == LayoutStates(F)
           goes(f) == f = [i \in 0..Len(chain.sourceFiles) |->
                             IF i = 0 THEN s
                             ELSE IF f[i - 1].queue = <<>> THEN f[i - 1]
                                  ELSE Corpus!HandedOn(chain, f[i - 1])]
           after == CHOOSE f : goes(f)
           Sound(t, P) == LayoutInv(F, n, src, tgt, t, P, CallsFrom(n, src, P))
           T == {t \in S : \E P : Sound(t, P)}
           turn(t) == IF t.queue = <<>> THEN t ELSE Corpus!HandedOn(chain, t)
           step == [i \in 1..K |-> [t \in T |-> turn(t)]]
<1>1. s \in T
  BY DEF LayoutInv
<1>2. ASSUME NEW t, NEW P, Sound(t, P), t.queue # <<>>
      PROVE  /\ Sound(Corpus!HandedOn(chain, t), P \cup {Head(t.queue)})
             /\ Head(t.queue) \in F \ P
  BY <1>2, TurnKeeps
<1>3. ASSUME NEW t \in T PROVE turn(t) \in T
  <2>1. PICK P : Sound(t, P)
    OBVIOUS
  <2>2. CASE t.queue # <<>>
    <3>1. Sound(Corpus!HandedOn(chain, t), P \cup {Head(t.queue)})
      BY <1>2, <2>1, <2>2
    <3>2. Corpus!HandedOn(chain, t) \in S
      BY <3>1 DEF LayoutInv
    <3> HIDE DEF Sound
    <3> QED BY <2>2, <3>1, <3>2
  <2> HIDE DEF T
  <2> QED BY <2>2
<1>4. Corpus!Drained(chain, s) = after[K]
  BY DEF Corpus!Drained
<1> HIDE DEF T
<1>5. \E f : goes(f)
  <2> HIDE DEF goes
  <2>1. step \in [1..K -> [T -> T]]
    <3> HIDE DEF turn
    <3> QED BY <1>3
  <2>2. PICK f \in [0..K -> T] : f = [i \in 0..K |-> IF i = 0 THEN s ELSE step[i][f[i - 1]]]
    <3> HIDE DEF step, K
    <3>1. K \in Nat
      BY DEF K
    <3>2. \E f \in [0..K -> T] : Recurs(f, K, s, step)
      BY <1>1, <2>1, <3>1, StepsDefine
    <3> QED BY <3>2 DEF Recurs
  <2>3. ASSUME NEW i \in 0..K PROVE f[i] = IF i = 0 THEN s ELSE turn(f[i - 1])
    <3> HIDE DEF turn
    <3>1. CASE i = 0
      BY <2>2, <3>1
    <3>2. CASE i # 0
      <4>1. i \in 1..K /\ i - 1 \in 0..K
        BY <3>2
      <4>2. f[i] = step[i][f[i - 1]] /\ f[i - 1] \in T
        BY <2>2, <3>2, <4>1
      <4> QED BY <3>2, <4>1, <4>2
    <3> QED BY <3>1, <3>2
  <2> HIDE DEF step
  <2>4. f = [i \in 0..K |-> f[i]]
    BY <2>2
  <2>5. f = [i \in 0..K |-> IF i = 0 THEN s
                            ELSE IF f[i - 1].queue = <<>> THEN f[i - 1]
                                 ELSE Corpus!HandedOn(chain, f[i - 1])]
    BY <2>3, <2>4, Zenon
  <2>6. goes(f)
    BY <2>5 DEF goes
  <2> QED BY <2>6
<1>6. goes(after)
  <2> HIDE DEF goes
  <2> QED BY <1>5
<1> HIDE DEF after, step
<1>7. after[0] = s /\ \A i \in 1..K : after[i] = turn(after[i - 1])
  <2>1. 0 \in 0..K /\ \A i \in 1..K : i \in 0..K /\ i # 0
    OBVIOUS
  <2> QED BY <1>6, <2>1
<1> HIDE DEF goes
<1> DEFINE right(m) == \E P : /\ Sound(after[m], P)
                              /\ after[m].queue = <<>> \/ Cardinality(P) = m
           good == [m \in 0..K |-> right(m)]
<1>8. right(0)
  <2>1. Sound(after[0], {}) /\ Cardinality({}) = 0
    BY <1>7, FS_EmptySet
  <2> HIDE DEF Sound
  <2> QED BY <2>1
<1>9. ASSUME NEW m \in 1..K, right(m - 1) PROVE right(m)
  <2>1. PICK P : Sound(after[m - 1], P) /\ (after[m - 1].queue = <<>> \/ Cardinality(P) = m - 1)
    BY <1>9
  <2>2. CASE after[m - 1].queue = <<>>
    <3>1. after[m] = after[m - 1]
      BY <1>7, <2>2
    <3> HIDE DEF Sound
    <3> QED BY <2>1, <2>2, <3>1
  <2>3. CASE after[m - 1].queue # <<>>
    <3> DEFINE c == Head(after[m - 1].queue)
    <3>1. after[m] = Corpus!HandedOn(chain, after[m - 1])
      BY <1>7, <2>3
    <3>2. Sound(after[m], P \cup {c}) /\ c \in F \ P
      BY <1>2, <2>1, <2>3, <3>1
    <3>3. IsFiniteSet(P)
      BY <2>1, FS_Subset DEF LayoutInv, IsGraph
    <3>4. Cardinality(P \cup {c}) = m
      <4> HIDE DEF c, Sound
      <4>1. Cardinality(P \cup {c}) = Cardinality(P) + 1
        BY <3>2, <3>3, FS_AddElement
      <4> QED BY <2>1, <2>3, <4>1
    <3> HIDE DEF Sound, c
    <3> QED BY <3>2, <3>4
  <2> QED BY <2>2, <2>3
<1>10. good \in [0..K -> BOOLEAN] /\ good[0] /\ \A m \in 1..K : good[m - 1] => good[m]
  <2>1. 0 \in 0..K /\ \A m \in 1..K : m \in 0..K /\ m - 1 \in 0..K
    OBVIOUS
  <2>2. good \in [0..K -> BOOLEAN]
    OBVIOUS
  <2> HIDE DEF right
  <2> QED BY <1>8, <1>9, <2>1, <2>2
<1>11. right(K)
  <2>1. K \in 0..K /\ K \in Nat
    OBVIOUS
  <2>2. good[K]
    <3> HIDE DEF good, K
    <3> QED BY <1>10, <2>1, AllUpTo
  <2> HIDE DEF right
  <2> QED BY <2>1, <2>2
<1>12. PICK P : Sound(after[K], P) /\ (after[K].queue = <<>> \/ Cardinality(P) = K)
  BY <1>11
<1>13. after[K].queue = <<>>
  <2> SUFFICES ASSUME Cardinality(P) = K PROVE after[K].queue = <<>>
    BY <1>12
  <2>1. P \in SUBSET F /\ IsFiniteSet(F)
    BY <1>12 DEF LayoutInv, IsGraph
  <2>2. P = F
    <3>1. Cardinality(P) <= Cardinality(F) /\ Cardinality(F) \in Nat
      BY <2>1, FS_Subset, FS_CardinalityType
    <3>2. Cardinality(F) = Cardinality(P)
      BY <3>1
    <3> QED BY <2>1, <3>2, FS_Subset
  <2>3. ASSUME after[K].queue # <<>> PROVE FALSE
    BY <1>2, <1>12, <2>2, <2>3
  <2> QED BY <2>3
<1> QED BY <1>4, <1>12, <1>13

\* only[n] has the first n elements of s that are in S.
Selects(only, s, S) ==
  /\ only[0] = <<>>
  /\ \A n \in 1..Len(s) : only[n] = IF s[n] \in S THEN Append(only[n - 1], s[n]) ELSE only[n - 1]

\* The recursion of Only goes through the sequence.
LEMMA OnlySelects ==
  ASSUME NEW U, NEW s \in Seq(U), NEW S
  PROVE  \E r \in [0..Len(s) -> Seq(U)] : Selects(r, s, S) /\ Corpus!Only(s, S) = r[Len(s)]
<1> DEFINE V == Seq(U)
           N == Len(s)
           none == <<>>
           keeps(f) == f = [n \in 0..Len(s) |->
                              IF n = 0 THEN <<>>
                              ELSE IF s[n] \in S THEN Append(f[n - 1], s[n]) ELSE f[n - 1]]
           only == CHOOSE f : keeps(f)
           step == [n \in 1..N |-> [r \in V |-> IF s[n] \in S THEN Append(r, s[n]) ELSE r]]
<1>1. N \in Nat /\ DOMAIN s = 1..N /\ \A n \in 1..N : s[n] \in U
  BY LenProperties, ElementOfSeq
<1>2. step \in [1..N -> [V -> V]]
  <2>1. ASSUME NEW n \in 1..N, NEW r \in V PROVE Append(r, s[n]) \in V
    BY <1>1, AppendProperties
  <2> HIDE DEF V
  <2>2. ASSUME NEW n \in 1..N
        PROVE  [r \in V |-> IF s[n] \in S THEN Append(r, s[n]) ELSE r] \in [V -> V]
    BY <2>1
  <2> QED BY <2>2
<1>3. none \in V
  BY EmptySeq
<1>4. Corpus!Only(s, S) = only[N]
  BY DEF Corpus!Only
<1> HIDE DEF V, N, none, keeps
<1>5. PICK f \in [0..N -> V] : f = [i \in 0..N |-> IF i = 0 THEN none ELSE step[i][f[i - 1]]]
  <2> HIDE DEF step
  <2>1. \E f \in [0..N -> V] : Recurs(f, N, none, step)
    BY <1>1, <1>2, <1>3, StepsDefine
  <2> QED BY <2>1 DEF Recurs
<1>6. ASSUME NEW n \in 0..N
      PROVE  f[n] = IF n = 0 THEN <<>>
                    ELSE IF s[n] \in S THEN Append(f[n - 1], s[n]) ELSE f[n - 1]
  <2>1. CASE n = 0
    BY <1>5, <2>1 DEF none
  <2>2. CASE n # 0
    <3>1. n \in 1..N /\ n - 1 \in 0..N
      BY <1>1, <2>2
    <3>2. f[n] = step[n][f[n - 1]] /\ f[n - 1] \in V
      BY <1>5, <2>2, <3>1
    <3> QED BY <2>2, <3>1, <3>2
  <2> QED BY <2>1, <2>2
<1> HIDE DEF step
<1>7. f = [n \in 0..N |-> f[n]]
  BY <1>5
<1>8. keeps(f)
  <2>1. f = [n \in 0..N |-> IF n = 0 THEN <<>>
                            ELSE IF s[n] \in S THEN Append(f[n - 1], s[n]) ELSE f[n - 1]]
    BY <1>6, <1>7, Zenon
  <2> QED BY <2>1 DEF keeps, N
<1>9. keeps(only)
  BY <1>8
<1> HIDE DEF only
<1>10. ASSUME NEW n \in 0..N
       PROVE  only[n] = IF n = 0 THEN <<>>
                        ELSE IF s[n] \in S THEN Append(only[n - 1], s[n]) ELSE only[n - 1]
  BY <1>9 DEF keeps, N
<1> DEFINE same(n) == only[n] = f[n]
           good == [n \in 0..N |-> same(n)]
<1>11. \A n \in 0..N : same(n)
  <2>1. good \in [0..N -> BOOLEAN]
    OBVIOUS
  <2>2. same(0)
    <3>1. 0 \in 0..N
      BY <1>1
    <3> QED BY <1>6, <1>10, <3>1
  <2>3. ASSUME NEW n \in 1..N, same(n - 1) PROVE same(n)
    <3>1. n \in 0..N /\ n # 0
      BY <1>1
    <3> QED BY <1>6, <1>10, <2>3, <3>1
  <2>4. good[0] /\ \A n \in 1..N : good[n - 1] => good[n]
    <3>1. 0 \in 0..N /\ \A n \in 1..N : n \in 0..N /\ n - 1 \in 0..N
      BY <1>1
    <3> HIDE DEF same
    <3> QED BY <2>2, <2>3, <3>1
  <2>5. \A n \in 0..N : good[n]
    <3> HIDE DEF good
    <3> QED BY <1>1, <2>1, <2>4, AllUpTo
  <2> HIDE DEF same
  <2> QED BY <2>5
<1>12. Selects(f, s, S)
  <2>1. 0 \in 0..N /\ \A n \in 1..N : n \in 0..N /\ n # 0
    BY <1>1
  <2> QED BY <1>6, <2>1 DEF Selects, N
<1>13. only[N] = f[N]
  <2>1. N \in 0..N
    BY <1>1
  <2> QED BY <1>11, <2>1
<1>14. Corpus!Only(s, S) = f[N]
  BY <1>4, <1>13
<1> QED BY <1>12, <1>14 DEF N, V

\* Only keeps the elements of the sequence that are in the set, no others, and each once
\* if it was there once.
LEMMA OnlyKeeps ==
  ASSUME NEW U, NEW s \in Seq(U), NEW S
  PROVE  /\ Corpus!Only(s, S) \in Seq(U)
         /\ Corpus!ToSet(Corpus!Only(s, S)) = Corpus!ToSet(s) \cap S
         /\ Corpus!Distinct(s) => Corpus!Distinct(Corpus!Only(s, S))
<1> DEFINE N == Len(s)
           first(n) == {s[i] : i \in 1..n}
<1>1. N \in Nat /\ DOMAIN s = 1..N /\ \A n \in 1..N : s[n] \in U
  BY LenProperties, ElementOfSeq
<1>2. PICK only \in [0..N -> Seq(U)] : Selects(only, s, S) /\ Corpus!Only(s, S) = only[N]
  BY OnlySelects
<1>3. /\ only[0] = <<>>
      /\ \A n \in 1..N :
           only[n] = IF s[n] \in S THEN Append(only[n - 1], s[n]) ELSE only[n - 1]
  BY <1>2 DEF Selects
<1>4. N \in 0..N /\ 0 \in 0..N /\ \A n \in 1..N : n \in 0..N /\ n - 1 \in 0..N
  BY <1>1
<1>5. Corpus!ToSet(s) = first(N)
  BY <1>1 DEF Corpus!ToSet
<1> HIDE DEF N
<1> DEFINE right(n) == /\ Corpus!ToSet(only[n]) = first(n) \cap S
                       /\ Corpus!Distinct(s) => Corpus!Distinct(only[n])
           good == [n \in 0..N |-> right(n)]
<1>6. right(0)
  <2>1. Corpus!ToSet(<<>>) = {} /\ Corpus!Distinct(<<>>) /\ 1..0 = {}
    BY DEF Corpus!ToSet, Corpus!Distinct
  <2> QED BY <1>3, <2>1
<1>7. ASSUME NEW n \in 1..N, right(n - 1) PROVE right(n)
  <2>1. first(n) = first(n - 1) \cup {s[n]}
    <3>1. \A i : i \in 1..n <=> i \in 1..(n - 1) \/ i = n
      BY <1>1
    <3> QED BY <3>1
  <2>2. only[n - 1] \in Seq(U) /\ s[n] \in U
    BY <1>1, <1>2, <1>4
  <2>3. CASE s[n] \in S
    <3>1. only[n] = Append(only[n - 1], s[n])
      BY <1>3, <2>3
    <3>2. /\ Corpus!ToSet(only[n]) = Corpus!ToSet(only[n - 1]) \cup {s[n]}
          /\ Corpus!Distinct(only[n - 1]) /\ s[n] \notin Corpus!ToSet(only[n - 1])
               => Corpus!Distinct(only[n])
      BY <2>2, <3>1, DistinctAppended
    <3>3. Corpus!Distinct(s) => s[n] \notin first(n - 1)
      <4> SUFFICES ASSUME Corpus!Distinct(s), NEW i \in 1..(n - 1), s[i] = s[n] PROVE FALSE
        OBVIOUS
      <4>1. i \in 1..N /\ i # n
        BY <1>1
      <4> QED BY <4>1 DEF Corpus!Distinct, N
    <3> HIDE DEF first
    <3> QED BY <1>7, <2>1, <2>3, <3>2, <3>3
  <2>4. CASE s[n] \notin S
    <3>1. only[n] = only[n - 1]
      BY <1>3, <2>4
    <3> HIDE DEF first
    <3> QED BY <1>7, <2>1, <2>4, <3>1
  <2> QED BY <2>3, <2>4
<1> HIDE DEF first
<1>8. good \in [0..N -> BOOLEAN] /\ good[0] /\ \A n \in 1..N : good[n - 1] => good[n]
  <2>1. good \in [0..N -> BOOLEAN]
    OBVIOUS
  <2> HIDE DEF right
  <2> QED BY <1>4, <1>6, <1>7, <2>1
<1>9. right(N)
  <2>1. good[N]
    <3> HIDE DEF good
    <3> QED BY <1>1, <1>4, <1>8, AllUpTo
  <2> HIDE DEF right
  <2> QED BY <1>4, <2>1
<1> QED BY <1>2, <1>4, <1>5, <1>9

LEMMA ListElements ==
  ASSUME NEW s, s \in Seq(Corpus!ToSet(s))
  PROVE  /\ Len(s) \in Nat /\ DOMAIN s = 1..Len(s)
         /\ Corpus!ToSet(s) = {s[i] : i \in 1..Len(s)}
         /\ IsFiniteSet(Corpus!ToSet(s)) /\ Cardinality(Corpus!ToSet(s)) <= Len(s)
<1>1. Len(s) \in Nat /\ DOMAIN s = 1..Len(s) /\ s \in [1..Len(s) -> Corpus!ToSet(s)]
  BY LenProperties
<1>2. Corpus!ToSet(s) = {s[i] : i \in 1..Len(s)}
  BY <1>1 DEF Corpus!ToSet
<1>3. s \in Surjection(1..Len(s), Corpus!ToSet(s))
  BY <1>1, <1>2 DEF Surjection
<1>4. IsFiniteSet(1..Len(s)) /\ Cardinality(1..Len(s)) = Len(s)
  BY <1>1, FS_Interval
<1>5. IsFiniteSet(Corpus!ToSet(s)) /\ Cardinality(Corpus!ToSet(s)) <= Len(s)
  BY <1>3, <1>4, FS_Surjection
<1> QED BY <1>1, <1>2, <1>5

\* The ids of a list.
LEMMA IdsListed ==
  ASSUME NEW s, s \in Seq(Corpus!ToSet(s))
  PROVE  /\ Corpus!Ids(s) \in Seq(Corpus!ToSet(Corpus!Ids(s))) /\ Len(Corpus!Ids(s)) = Len(s)
         /\ \A i \in 1..Len(s) : Corpus!Ids(s)[i] = s[i].id
<1> DEFINE r == [i \in 1..Len(s) |-> s[i].id]
<1>1. Len(s) \in Nat /\ DOMAIN s = 1..Len(s)
  BY ListElements
<1>2. Corpus!Ids(s) = r
  BY <1>1 DEF Corpus!Ids
<1>3. r \in Seq({r[i] : i \in DOMAIN r})
  <2>1. r \in [1..Len(s) -> {r[i] : i \in DOMAIN r}]
    OBVIOUS
  <2> HIDE DEF r
  <2> QED BY <1>1, <2>1, SeqDef
<1>4. DOMAIN r = 1..Len(s)
  OBVIOUS
<1> HIDE DEF r
<1>5. Len(r) = Len(s)
  BY <1>1, <1>3, <1>4, LenProperties
<1> QED BY <1>2, <1>3, <1>5 DEF Corpus!ToSet, r

Callers(chain) == [i \in 1..Len(chain.edges) |-> chain.edges[i].sourceFileId]
Called(chain) == [i \in 1..Len(chain.edges) |-> chain.edges[i].targetFileId]

\* The files and calls of a chain make up a graph.
LEMMA ChainIsGraph ==
  ASSUME NEW chain, Corpus!IsChain(chain)
  PROVE  /\ IsGraph(Corpus!FileIds(chain), Len(chain.edges), Callers(chain), Called(chain))
         /\ GraphOf(chain, Corpus!FileIds(chain), Len(chain.edges), Callers(chain), Called(chain))
         /\ DOMAIN chain.edges = 1..Len(chain.edges)
         /\ Len(chain.sourceFiles) \in Nat
         /\ Cardinality(Corpus!FileIds(chain)) <= Len(chain.sourceFiles)
         /\ Corpus!Ids(chain.sourceFiles) \in Seq(Corpus!FileIds(chain))
         /\ Corpus!ToSet(Corpus!Ids(chain.sourceFiles)) = Corpus!FileIds(chain)
         /\ Corpus!Distinct(Corpus!Ids(chain.sourceFiles))
<1> DEFINE F == Corpus!FileIds(chain)
           n == Len(chain.edges)
           ids == Corpus!Ids(chain.sourceFiles)
<1>1. /\ chain.sourceFiles \in Seq(Corpus!ToSet(chain.sourceFiles))
      /\ chain.edges \in Seq(Corpus!ToSet(chain.edges)) /\ Corpus!Distinct(ids)
      /\ \A e \in Corpus!ToSet(chain.edges) : {e.sourceFileId, e.targetFileId} \subseteq F
  BY DEF Corpus!IsChain, Corpus!IsList
<1>2. /\ n \in Nat /\ DOMAIN chain.edges = 1..n
      /\ Corpus!ToSet(chain.edges) = {chain.edges[i] : i \in 1..n}
  BY <1>1, ListElements
<1>3. F = Corpus!ToSet(ids)
  BY DEF Corpus!FileIds
<1>4. ids \in Seq(F) /\ Len(ids) = Len(chain.sourceFiles) /\ Len(chain.sourceFiles) \in Nat
  BY <1>1, <1>3, IdsListed, ListElements
<1> HIDE DEF ids, F
<1>5. IsFiniteSet(F) /\ Cardinality(F) <= Len(chain.sourceFiles)
  BY <1>3, <1>4, ListElements
<1>6. Callers(chain) \in [1..n -> F] /\ Called(chain) \in [1..n -> F]
  <2>1. \A i \in 1..n : chain.edges[i].sourceFileId \in F /\ chain.edges[i].targetFileId \in F
    BY <1>1, <1>2
  <2> QED BY <2>1 DEF Callers, Called
<1>7. IsGraph(F, n, Callers(chain), Called(chain))
  BY <1>2, <1>5, <1>6 DEF IsGraph
<1>8. GraphOf(chain, F, n, Callers(chain), Called(chain))
  BY DEF GraphOf, Callers, Called
<1> QED BY <1>1, <1>2, <1>3, <1>4, <1>5, <1>7, <1>8 DEF F, ids

\* At first the files that nothing calls are queued, and no call was handed on.
LEMMA LayoutStarts ==
  ASSUME NEW chain, Corpus!IsChain(chain), NEW F, F = Corpus!FileIds(chain),
         NEW n, n = Len(chain.edges), NEW src, src = Callers(chain), NEW tgt, tgt = Called(chain)
  PROVE  /\ LayoutInv(F, n, src, tgt, Corpus!Undrained(chain), {}, CallsFrom(n, src, {}))
<1> DEFINE s == Corpus!Undrained(chain)
           ids == Corpus!Ids(chain.sourceFiles)
           uncalled == {id \in F : Corpus!Calls(chain, id) = {}}
<1>1. /\ IsGraph(F, n, src, tgt) /\ GraphOf(chain, F, n, src, tgt)
      /\ DOMAIN chain.edges = 1..n /\ ids \in Seq(F) /\ Corpus!ToSet(ids) = F
      /\ Corpus!Distinct(ids)
  BY ChainIsGraph
<1> HIDE DEF ids
<1>2. ASSUME NEW id \in F
      PROVE  Corpus!Calls(chain, id) = Waiting(n, tgt, {}, id)
  BY <1>1 DEF Corpus!Calls, Waiting, GraphOf
<1>3. Corpus!Entries(chain) = Corpus!Only(ids, uncalled)
  BY DEF Corpus!Entries, ids
<1>4. /\ Corpus!Entries(chain) \in Seq(F) /\ Corpus!ToSet(Corpus!Entries(chain)) = uncalled
      /\ Corpus!Distinct(Corpus!Entries(chain))
  <2>1. /\ Corpus!Only(ids, uncalled) \in Seq(F)
        /\ Corpus!ToSet(Corpus!Only(ids, uncalled)) = F \cap uncalled
        /\ Corpus!Distinct(Corpus!Only(ids, uncalled))
    <3> HIDE DEF uncalled
    <3> QED BY <1>1, OnlyKeeps
  <2> QED BY <1>3, <2>1
<1>5. /\ s.queue = Corpus!Entries(chain) /\ s.depth = [id \in F |-> 0]
      /\ s.order = Corpus!Entries(chain)
      /\ s.inDegree = [id \in F |-> Cardinality(Corpus!Calls(chain, id))]
      /\ s = [queue |-> s.queue, inDegree |-> s.inDegree, depth |-> s.depth, order |-> s.order]
  BY CorpusCounts DEF Corpus!Undrained
<1>6. \A id \in F : Cardinality(Corpus!Calls(chain, id)) \in Int
  <2> TAKE id \in F
  <2>1. Corpus!Calls(chain, id) \in SUBSET (1..n) /\ n \in Nat
    BY <1>1 DEF Corpus!Calls, IsGraph
  <2>2. IsFiniteSet(1..n)
    BY <2>1, FS_Interval
  <2>3. IsFiniteSet(Corpus!Calls(chain, id))
    BY <2>1, <2>2, FS_Subset
  <2> QED BY <2>3, FS_CardinalityType
<1>7. s \in LayoutStates(F)
  BY <1>4, <1>5, <1>6 DEF LayoutStates
<1>8. CallsFrom(n, src, {}) = {}
  BY DEF CallsFrom
<1> HIDE DEF s
<1>9. Queued(F, n, src, tgt, s, {}, {})
  BY <1>2, <1>4, <1>5 DEF Queued
<1>10. Layered(F, src, tgt, s, {}, {})
  <2>1. Cardinality({}) = 0
    BY FS_EmptySet
  <2> QED BY <1>5, <2>1 DEF Layered
<1> QED BY <1>7, <1>8, <1>9, <1>10 DEF LayoutInv, s

\* The recursion of PathEnds follows the calls.
LEMMA PathsGo ==
  ASSUME NEW chain, NEW F, F = Corpus!FileIds(chain), NEW n, NEW src, NEW tgt,
         IsGraph(F, n, src, tgt), GraphOf(chain, F, n, src, tgt), DOMAIN chain.edges = 1..n,
         NEW files, NEW ends, ends = Corpus!PathEnds(chain, files)
  PROVE  /\ Cardinality(F) \in Nat /\ ends[0] = F
         /\ \A k \in 1..Cardinality(F) :
              ends[k] = {tgt[i] : i \in {j \in 1..n : src[j] \in ends[k - 1] \cap files}}
<1> DEFINE N == Cardinality(F)
           S == SUBSET F
           Onward(E) == {tgt[i] : i \in {j \in 1..n : src[j] \in E \cap files}}
           Called0(E) == {chain.edges[i].targetFileId :
                            i \in {j \in DOMAIN chain.edges : chain.edges[j].sourceFileId \in E \cap files}}
           goes(f) == f = [k \in 0..Corpus!Cardinality(Corpus!FileIds(chain)) |->
                             IF k = 0 THEN Corpus!FileIds(chain)
                             ELSE {chain.edges[i].targetFileId :
                                     i \in {j \in DOMAIN chain.edges :
                                              chain.edges[j].sourceFileId \in f[k - 1] \cap files}}]
           step == [k \in 1..N |-> [E \in S |-> Onward(E)]]
<1>1. N \in Nat
  BY FS_CardinalityType DEF IsGraph
<1>2. ends = CHOOSE f : goes(f)
  BY DEF Corpus!PathEnds
<1>3. ASSUME NEW E PROVE Onward(E) = Called0(E) /\ Onward(E) \in S
  <2>1. \A i \in 1..n : /\ src[i] = chain.edges[i].sourceFileId /\ tgt[i] = chain.edges[i].targetFileId
                        /\ tgt[i] \in F
    BY DEF GraphOf, IsGraph
  <2> QED BY <2>1
<1>4. F \in S
  OBVIOUS
<1> HIDE DEF S, N, Onward, Called0
<1>5. step \in [1..N -> [S -> S]]
  BY <1>3
<1>6. PICK f \in [0..N -> S] : f = [k \in 0..N |-> IF k = 0 THEN F ELSE step[k][f[k - 1]]]
  <2> HIDE DEF step
  <2>1. \E f \in [0..N -> S] : Recurs(f, N, F, step)
    BY <1>1, <1>4, <1>5, StepsDefine
  <2> QED BY <2>1 DEF Recurs
<1>7. ASSUME NEW k \in 0..N PROVE f[k] = IF k = 0 THEN F ELSE Called0(f[k - 1])
  <2>1. CASE k = 0
    BY <1>6, <2>1
  <2>2. CASE k # 0
    <3>1. k \in 1..N /\ k - 1 \in 0..N
      BY <1>1, <2>2
    <3>2. f[k] = step[k][f[k - 1]] /\ f[k - 1] \in S
      BY <1>6, <2>2, <3>1
    <3>3. f[k] = Onward(f[k - 1])
      BY <3>1, <3>2
    <3> QED BY <1>3, <2>2, <3>3
  <2> QED BY <2>1, <2>2
<1> HIDE DEF step
<1>8. N = Corpus!Cardinality(Corpus!FileIds(chain))
  BY CorpusCounts DEF N
<1>9. goes(f)
  <2>1. f = [k \in 0..N |-> f[k]]
    BY <1>6
  <2>2. f = [k \in 0..N |-> IF k = 0 THEN F ELSE Called0(f[k - 1])]
    BY <1>7, <2>1, Zenon
  <2> QED BY <1>8, <2>2 DEF Called0
<1>10. goes(ends)
  <2> HIDE DEF goes
  <2> QED BY <1>2, <1>9
<1>11. \A k \in 0..N : ends[k] = IF k = 0 THEN F ELSE Called0(ends[k - 1])
  BY <1>8, <1>10 DEF Called0
<1> HIDE DEF goes
<1>12. ends[0] = F
  <2>1. 0 \in 0..N
    BY <1>1
  <2> QED BY <1>11, <2>1
<1>13. ASSUME NEW k \in 1..N PROVE ends[k] = Onward(ends[k - 1])
  <2>1. k \in 0..N /\ k # 0
    BY <1>1
  <2> QED BY <1>3, <1>11, <2>1
<1> QED BY <1>1, <1>12, <1>13 DEF N, Onward

\* Once the queue is empty, the files that left it are those that no path of calls leads to
\* from a cycle, and each file is as deep as the longest path of calls out of them.
LEMMA DepthIsLongestPath ==
  ASSUME NEW chain, NEW F, F = Corpus!FileIds(chain), NEW n, NEW src, NEW tgt,
         IsGraph(F, n, src, tgt), GraphOf(chain, F, n, src, tgt), DOMAIN chain.edges = 1..n,
         NEW s, NEW P, LayoutInv(F, n, src, tgt, s, P, CallsFrom(n, src, P)), s.queue = <<>>
  PROVE  /\ F \ Corpus!PathEnds(chain, F)[Cardinality(F)] = P
         /\ \A id \in F : /\ s.depth[id] \in 0..Cardinality(F)
                          /\ id \in Corpus!PathEnds(chain, P)[s.depth[id]]
                          /\ \A k \in 0..Cardinality(F) :
                               id \in Corpus!PathEnds(chain, P)[k] => k <= s.depth[id]
<1> DEFINE N == Cardinality(F)
           all == Corpus!PathEnds(chain, F)
           off == Corpus!PathEnds(chain, P)
           depth == s.depth
<1>1. /\ depth \in [F -> Nat] /\ P \in SUBSET F
      /\ Queued(F, n, src, tgt, s, P, CallsFrom(n, src, P))
      /\ Layered(F, src, tgt, s, P, CallsFrom(n, src, P))
  BY DEF LayoutInv, LayoutStates
<1>2. /\ N \in Nat /\ all[0] = F
      /\ \A k \in 1..N : all[k] = {tgt[i] : i \in {j \in 1..n : src[j] \in all[k - 1] \cap F}}
  BY PathsGo
<1>3. /\ off[0] = F
      /\ \A k \in 1..N : off[k] = {tgt[i] : i \in {j \in 1..n : src[j] \in off[k - 1] \cap P}}
  BY PathsGo
<1>4. /\ \A i \in 1..n : src[i] \in P => depth[tgt[i]] >= depth[src[i]] + 1
      /\ \A id \in F : depth[id] = 0
                       \/ \E i \in 1..n : src[i] \in P /\ tgt[i] = id /\ depth[id] = depth[src[i]] + 1
      /\ \A id \in F : depth[id] <= Cardinality(P)
      /\ \A id \in P : depth[id] < Cardinality(P)
  BY <1>1 DEF Layered, CallsFrom
<1>5. \A id \in F : id \in P <=> \A i \in 1..n : tgt[i] = id => src[i] \in P
  <2>1. \A id \in F : (id \in P \/ id \in Corpus!ToSet(s.queue))
                        <=> Waiting(n, tgt, CallsFrom(n, src, P), id) = {}
    BY <1>1 DEF Queued
  <2>2. Corpus!ToSet(s.queue) = {}
    BY DEF Corpus!ToSet
  <2> QED BY <2>1, <2>2 DEF Waiting, CallsFrom
<1>6. Cardinality(P) \in Nat /\ Cardinality(P) <= N
  BY <1>1, FS_Subset, FS_CardinalityType DEF IsGraph
<1>7. \A i \in 1..n : src[i] \in F /\ tgt[i] \in F
  BY DEF IsGraph
<1> HIDE DEF N, all, off, depth
<1>8. 0 \in 0..N /\ N \in 0..N /\ \A k \in 1..N : k \in 0..N /\ k - 1 \in 0..N /\ k \in Nat
  BY <1>2
<1>9. \A k \in 0..N : \A id \in P : id \in all[k] => k <= depth[id]
  <2> DEFINE right(k) == \A id \in P : id \in all[k] => k <= depth[id]
             good == [k \in 0..N |-> right(k)]
  <2>1. right(0)
    BY <1>1
  <2>2. ASSUME NEW k \in 1..N, right(k - 1) PROVE right(k)
    <3> SUFFICES ASSUME NEW id \in P, id \in all[k] PROVE k <= depth[id]
      OBVIOUS
    <3>1. PICK i \in 1..n : tgt[i] = id /\ src[i] \in all[k - 1]
      BY <1>2
    <3>2. src[i] \in P /\ id \in F
      BY <1>1, <1>5, <3>1
    <3>3. k - 1 <= depth[src[i]] /\ depth[id] >= depth[src[i]] + 1
      BY <1>4, <2>2, <3>1, <3>2
    <3>4. depth[id] \in Nat /\ depth[src[i]] \in Nat /\ k \in Nat
      BY <1>1, <1>7, <1>8, <3>2
    <3> QED BY <3>3, <3>4
  <2>3. good \in [0..N -> BOOLEAN]
    OBVIOUS
  <2> HIDE DEF right
  <2>4. good[0] /\ \A k \in 1..N : good[k - 1] => good[k]
    BY <1>8, <2>1, <2>2
  <2>5. \A k \in 0..N : good[k]
    <3> HIDE DEF good
    <3> QED BY <1>2, <2>3, <2>4, AllUpTo
  <2> QED BY <2>5 DEF right
<1>10. \A k \in 0..N : \A id \in F \ P : id \in all[k]
  <2> DEFINE right(k) == \A id \in F \ P : id \in all[k]
             good == [k \in 0..N |-> right(k)]
  <2>1. right(0)
    BY <1>2
  <2>2. ASSUME NEW k \in 1..N, right(k - 1) PROVE right(k)
    <3> SUFFICES ASSUME NEW id \in F \ P PROVE id \in all[k]
      OBVIOUS
    <3>1. PICK i \in 1..n : tgt[i] = id /\ src[i] \notin P
      BY <1>5
    <3>2. src[i] \in all[k - 1] \cap F
      BY <1>7, <2>2, <3>1
    <3> QED BY <1>2, <3>1, <3>2
  <2>3. good \in [0..N -> BOOLEAN]
    OBVIOUS
  <2> HIDE DEF right
  <2>4. good[0] /\ \A k \in 1..N : good[k - 1] => good[k]
    BY <1>8, <2>1, <2>2
  <2>5. \A k \in 0..N : good[k]
    <3> HIDE DEF good
    <3> QED BY <1>2, <2>3, <2>4, AllUpTo
  <2> QED BY <2>5 DEF right
<1>11. F \ all[N] = P
  <2>1. ASSUME NEW id \in P PROVE id \notin all[N]
    <3>1. depth[id] < N /\ depth[id] \in Nat
      BY <1>1, <1>2, <1>4, <1>6 DEF depth
    <3> QED BY <1>2, <1>8, <1>9, <3>1
  <2> QED BY <1>1, <1>8, <1>10, <2>1
<1>12. \A k \in 0..N : \A id \in F : id \in off[k] => k <= depth[id]
  <2> DEFINE right(k) == \A id \in F : id \in off[k] => k <= depth[id]
             good == [k \in 0..N |-> right(k)]
  <2>1. right(0)
    BY <1>1 DEF depth
  <2>2. ASSUME NEW k \in 1..N, right(k - 1) PROVE right(k)
    <3> SUFFICES ASSUME NEW id \in F, id \in off[k] PROVE k <= depth[id]
      OBVIOUS
    <3>1. PICK i \in 1..n : tgt[i] = id /\ src[i] \in off[k - 1] /\ src[i] \in P
      BY <1>3
    <3>2. k - 1 <= depth[src[i]] /\ depth[id] >= depth[src[i]] + 1
      BY <1>4, <1>7, <2>2, <3>1
    <3>3. depth[id] \in Nat /\ depth[src[i]] \in Nat /\ k \in Nat
      BY <1>1, <1>7, <1>8 DEF depth
    <3> QED BY <3>2, <3>3
  <2>3. good \in [0..N -> BOOLEAN]
    OBVIOUS
  <2> HIDE DEF right
  <2>4. good[0] /\ \A k \in 1..N : good[k - 1] => good[k]
    BY <1>8, <2>1, <2>2
  <2>5. \A k \in 0..N : good[k]
    <3> HIDE DEF good
    <3> QED BY <1>2, <2>3, <2>4, AllUpTo
  <2> QED BY <2>5 DEF right
<1>13. \A k \in 0..N : \A id \in F : depth[id] = k => id \in off[k]
  <2> DEFINE right(k) == \A id \in F : depth[id] = k => id \in off[k]
             good == [k \in 0..N |-> right(k)]
  <2>1. right(0)
    BY <1>3
  <2>2. ASSUME NEW k \in 1..N, right(k - 1) PROVE right(k)
    <3> SUFFICES ASSUME NEW id \in F, depth[id] = k PROVE id \in off[k]
      OBVIOUS
    <3>1. k # 0 /\ k \in Nat
      OBVIOUS
    <3>2. PICK i \in 1..n : src[i] \in P /\ tgt[i] = id /\ depth[id] = depth[src[i]] + 1
      BY <1>4, <3>1
    <3>3. depth[src[i]] = k - 1
      BY <1>1, <1>7, <3>1, <3>2 DEF depth
    <3>4. src[i] \in off[k - 1] \cap P
      BY <1>7, <2>2, <3>2, <3>3
    <3> QED BY <1>3, <3>2, <3>4
  <2>3. good \in [0..N -> BOOLEAN]
    OBVIOUS
  <2> HIDE DEF right
  <2>4. good[0] /\ \A k \in 1..N : good[k - 1] => good[k]
    BY <1>8, <2>1, <2>2
  <2>5. \A k \in 0..N : good[k]
    <3> HIDE DEF good
    <3> QED BY <1>2, <2>3, <2>4, AllUpTo
  <2> QED BY <2>5 DEF right
<1>14. \A id \in F : depth[id] \in 0..N
  <2> TAKE id \in F
  <2>1. depth[id] \in Nat /\ depth[id] <= Cardinality(P)
    BY <1>1, <1>4 DEF depth
  <2> QED BY <1>2, <1>6, <2>1
<1> QED BY <1>11, <1>12, <1>13, <1>14 DEF N, all, off, depth

(* Where layout puts the files, in the rows of their depths.               *)
PlacedInRows(F, order, depth, place) ==
  place = [id \in F |->
            [x |-> 2 * Cardinality({i \in {j \in DOMAIN order : depth[order[j]] = depth[id]} :
                                      i < CHOOSE j \in DOMAIN order : order[j] = id})
                    - (Cardinality({j \in DOMAIN order : depth[order[j]] = depth[id]}) - 1),
             y |-> depth[id]]]

\* No two files have one place: in a row, each has as many files before it as no other has.
LEMMA PlacesOfFilesApart ==
  ASSUME NEW F, NEW U, NEW order \in Seq(U), F \subseteq Corpus!ToSet(order),
         NEW depth, NEW place, PlacedInRows(F, order, depth, place)
  PROVE  \A a, b \in F : place[a] = place[b] => a = b
<1> DEFINE Row(id) == {j \in DOMAIN order : depth[order[j]] = depth[id]}
           Index(id) == CHOOSE j \in DOMAIN order : order[j] = id
           Before(id) == {i \in Row(id) : i < Index(id)}
           X(id) == 2 * Cardinality(Before(id)) - (Cardinality(Row(id)) - 1)
<1>1. Len(order) \in Nat /\ DOMAIN order = 1..Len(order)
  BY LenProperties
<1>2. ASSUME NEW id \in F
      PROVE  Index(id) \in 1..Len(order) /\ order[Index(id)] = id /\ Index(id) \in Row(id)
  <2>1. \E j \in DOMAIN order : order[j] = id
    BY DEF Corpus!ToSet
  <2>2. Index(id) \in DOMAIN order /\ order[Index(id)] = id
    BY <2>1
  <2> HIDE DEF Index
  <2> QED BY <1>1, <2>2
<1>3. ASSUME NEW id \in F
      PROVE  /\ Row(id) \in SUBSET (1..Len(order)) /\ IsFiniteSet(Row(id)) /\ Cardinality(Row(id)) \in Nat
             /\ IsFiniteSet(Before(id)) /\ Cardinality(Before(id)) \in Nat
  <2>1. Row(id) \in SUBSET (1..Len(order)) /\ Before(id) \in SUBSET (1..Len(order))
    BY <1>1
  <2>2. IsFiniteSet(1..Len(order))
    BY <1>1, FS_Interval
  <2> HIDE DEF Row, Before
  <2> QED BY <2>1, <2>2, FS_Subset, FS_CardinalityType
<1>4. ASSUME NEW id \in F
      PROVE  place[id] = [x |-> X(id), y |-> depth[id]]
  BY DEF PlacedInRows
<1>5. ASSUME NEW a \in F, NEW b \in F, Row(a) = Row(b), Index(a) < Index(b)
      PROVE  Cardinality(Before(a)) # Cardinality(Before(b))
  <2>1. Index(a) \in Before(b) /\ Index(a) \notin Before(a)
    <3>1. Index(a) \in Row(b) /\ ~(Index(a) < Index(a))
      BY <1>1, <1>2, <1>5
    <3> HIDE DEF Row, Index
    <3> QED BY <1>5, <3>1
  <2>2. Before(a) \in SUBSET Before(b)
    <3>1. Row(a) \in SUBSET (1..Len(order)) /\ Index(a) \in Int /\ Index(b) \in Int
      BY <1>1, <1>2, <1>3
    <3> HIDE DEF Row, Index
    <3> QED BY <1>1, <1>5, <3>1
  <2> HIDE DEF Before, Row, Index
  <2>3. Before(a) # Before(b)
    BY <2>1
  <2> QED BY <1>3, <2>2, <2>3, FS_Subset
<1> SUFFICES ASSUME NEW a \in F, NEW b \in F, place[a] = place[b] PROVE a = b
  OBVIOUS
<1>6. depth[a] = depth[b] /\ X(a) = X(b)
  <2>1. ASSUME NEW id \in F PROVE place[id].x = X(id) /\ place[id].y = depth[id]
    <3> DEFINE x == X(id)
               y == depth[id]
    <3>1. place[id] = [x |-> x, y |-> y]
      BY <1>4
    <3> HIDE DEF x, y
    <3>2. place[id].x = x /\ place[id].y = y
      BY <3>1
    <3> QED BY <3>2 DEF x, y
  <2> HIDE DEF X
  <2> QED BY <2>1
<1>7. Row(a) = Row(b)
  BY <1>6
<1> HIDE DEF Row, Before, Index
<1>8. Cardinality(Before(a)) = Cardinality(Before(b))
  BY <1>3, <1>6, <1>7
<1>9. Index(a) = Index(b)
  BY <1>1, <1>2, <1>5, <1>7, <1>8
<1> QED BY <1>2, <1>9

\* The layout of any chain has its files in the rows of their longest paths, apart.
LEMMA LayoutOfChain ==
  ASSUME NEW chain, Corpus!IsChain(chain), NEW F, F = Corpus!FileIds(chain),
         NEW offCycles, offCycles = F \ Corpus!PathEnds(chain, F)[Cardinality(F)]
  PROVE  /\ \A id \in F :
              Corpus!layout(chain)[id].y
                = Corpus!Max({k \in 0..Cardinality(F) : id \in Corpus!PathEnds(chain, offCycles)[k]})
         /\ Corpus!IsInjective(Corpus!layout(chain))
<1> DEFINE n == Len(chain.edges)
           src == Callers(chain)
           tgt == Called(chain)
           ids == Corpus!Ids(chain.sourceFiles)
           s == Corpus!Drained(chain, Corpus!Undrained(chain))
           rest == Corpus!Only(ids, F \ Corpus!ToSet(s.order))
           order == s.order \o rest
<1>1. /\ IsGraph(F, n, src, tgt) /\ GraphOf(chain, F, n, src, tgt) /\ DOMAIN chain.edges = 1..n
      /\ Len(chain.sourceFiles) \in Nat /\ Cardinality(F) <= Len(chain.sourceFiles)
      /\ ids \in Seq(F) /\ Corpus!ToSet(ids) = F
  BY ChainIsGraph
<1>2. LayoutInv(F, n, src, tgt, Corpus!Undrained(chain), {}, CallsFrom(n, src, {}))
  BY LayoutStarts
<1>3. PICK P : LayoutInv(F, n, src, tgt, s, P, CallsFrom(n, src, P)) /\ s.queue = <<>>
  <2> HIDE DEF n, src, tgt
  <2> QED BY <1>1, <1>2, LayoutQueueEmpties
<1>4. PlacedInRows(F, order, s.depth, Corpus!layout(chain))
  BY CorpusCounts DEF Corpus!layout, PlacedInRows
<1> HIDE DEF n, src, tgt, ids, s
<1>5. s.order \in Seq(F)
  BY <1>3 DEF LayoutInv, LayoutStates
<1>6. rest \in Seq(F) /\ Corpus!ToSet(rest) = F \ Corpus!ToSet(s.order)
  <2>1. /\ Corpus!Only(ids, F \ Corpus!ToSet(s.order)) \in Seq(F)
        /\ Corpus!ToSet(Corpus!Only(ids, F \ Corpus!ToSet(s.order)))
             = Corpus!ToSet(ids) \cap (F \ Corpus!ToSet(s.order))
    BY <1>1, OnlyKeeps
  <2> QED BY <1>1, <2>1
<1> HIDE DEF rest
<1>7. order \in Seq(F) /\ F \subseteq Corpus!ToSet(order)
  <2>1. /\ order \in Seq(F) /\ Len(order) = Len(s.order) + Len(rest)
        /\ \A i \in 1..(Len(s.order) + Len(rest)) :
             order[i] = IF i <= Len(s.order) THEN s.order[i] ELSE rest[i - Len(s.order)]
    BY <1>5, <1>6, ConcatProperties
  <2>2. /\ Len(s.order) \in Nat /\ Len(rest) \in Nat /\ DOMAIN s.order = 1..Len(s.order)
        /\ DOMAIN rest = 1..Len(rest) /\ DOMAIN order = 1..(Len(s.order) + Len(rest))
    BY <1>5, <1>6, <2>1, LenProperties
  <2> HIDE DEF order
  <2>3. ASSUME NEW id \in F PROVE id \in Corpus!ToSet(order)
    <3>1. CASE id \in Corpus!ToSet(s.order)
      <4>1. PICK i \in 1..Len(s.order) : s.order[i] = id
        BY <2>2, <3>1 DEF Corpus!ToSet
      <4>2. i \in 1..(Len(s.order) + Len(rest)) /\ i <= Len(s.order)
        BY <2>2
      <4>3. order[i] = id
        BY <2>1, <4>1, <4>2
      <4> QED BY <2>2, <4>2, <4>3 DEF Corpus!ToSet
    <3>2. CASE id \notin Corpus!ToSet(s.order)
      <4>1. PICK i \in 1..Len(rest) : rest[i] = id
        BY <1>6, <2>2, <3>2 DEF Corpus!ToSet
      <4> DEFINE k == Len(s.order) + i
      <4>2. k \in 1..(Len(s.order) + Len(rest)) /\ ~(k <= Len(s.order)) /\ k - Len(s.order) = i
        BY <2>2
      <4> HIDE DEF k
      <4>3. order[k] = id
        BY <2>1, <4>1, <4>2
      <4> QED BY <2>2, <4>2, <4>3 DEF Corpus!ToSet
    <3> QED BY <3>1, <3>2
  <2> QED BY <2>1, <2>3
<1> HIDE DEF order
<1>8. /\ offCycles = P
      /\ \A id \in F : /\ s.depth[id] \in 0..Cardinality(F)
                       /\ id \in Corpus!PathEnds(chain, P)[s.depth[id]]
                       /\ \A k \in 0..Cardinality(F) :
                            id \in Corpus!PathEnds(chain, P)[k] => k <= s.depth[id]
  BY <1>1, <1>3, DepthIsLongestPath
<1>9. \A a, b \in F : Corpus!layout(chain)[a] = Corpus!layout(chain)[b] => a = b
  BY <1>4, <1>5, <1>7, PlacesOfFilesApart
<1>10. Corpus!IsInjective(Corpus!layout(chain))
  <2>1. DOMAIN Corpus!layout(chain) = F
    BY <1>4 DEF PlacedInRows
  <2> QED BY <1>9, <2>1 DEF Corpus!IsInjective
<1>11. ASSUME NEW id \in F
       PROVE  Corpus!layout(chain)[id].y
                = Corpus!Max({k \in 0..Cardinality(F) : id \in Corpus!PathEnds(chain, offCycles)[k]})
  <2> DEFINE K == {k \in 0..Cardinality(F) : id \in Corpus!PathEnds(chain, offCycles)[k]}
             d == s.depth[id]
  <2>1. d \in K /\ (\A k \in K : k <= d) /\ K \in SUBSET Int /\ d \in Int
    <3>1. Cardinality(F) \in Nat
      BY <1>1, FS_CardinalityType DEF IsGraph
    <3>2. /\ d \in 0..Cardinality(F) /\ id \in Corpus!PathEnds(chain, offCycles)[d]
          /\ \A k \in 0..Cardinality(F) : id \in Corpus!PathEnds(chain, offCycles)[k] => k <= d
      BY <1>8
    <3> HIDE DEF d
    <3> QED BY <3>1, <3>2
  <2>2. Corpus!layout(chain)[id].y = d
    BY <1>4 DEF PlacedInRows
  <2> HIDE DEF K, d
  <2>3. Corpus!Max(K) \in K /\ \A k \in K : Corpus!Max(K) >= k
    <3>1. \E m \in K : \A k \in K : m >= k
      BY <2>1
    <3> QED BY <3>1 DEF Corpus!Max
  <2>4. Corpus!Max(K) = d
    <3> DEFINE top == Corpus!Max(K)
    <3>1. top \in K /\ top >= d /\ top <= d /\ top \in Int
      BY <2>1, <2>3
    <3> HIDE DEF top
    <3>2. top = d
      BY <2>1, <3>1
    <3> QED BY <3>2 DEF top
  <2> QED BY <2>2, <2>4 DEF K
<1> QED BY <1>10, <1>11

-----------------------------------------------------------------------------
(* Lists whose elements are distinct.                                      *)

LEMMA ListFacts ==
  ASSUME NEW U, NEW s \in Seq(U)
  PROVE  /\ Len(s) \in Nat /\ DOMAIN s = 1..Len(s) /\ Corpus!ToSet(s) = {s[i] : i \in 1..Len(s)}
         /\ Corpus!ToSet(s) \subseteq U
<1>1. Len(s) \in Nat /\ DOMAIN s = 1..Len(s) /\ \A i \in 1..Len(s) : s[i] \in U
  BY LenProperties, ElementOfSeq
<1> QED BY <1>1 DEF Corpus!ToSet

LEMMA DistinctJoined ==
  ASSUME NEW U, NEW s \in Seq(U), NEW t \in Seq(U), Corpus!Distinct(s), Corpus!Distinct(t),
         Corpus!ToSet(s) \cap Corpus!ToSet(t) = {}
  PROVE  /\ s \o t \in Seq(U) /\ Corpus!Distinct(s \o t) /\ Len(s \o t) = Len(s) + Len(t)
         /\ Corpus!ToSet(s \o t) = Corpus!ToSet(s) \cup Corpus!ToSet(t)
<1> DEFINE r == s \o t
           m == Len(s)
           n == Len(t)
<1>1. /\ r \in Seq(U) /\ Len(r) = m + n
      /\ \A i \in 1..(m + n) : r[i] = IF i <= m THEN s[i] ELSE t[i - m]
  BY ConcatProperties
<1>2. /\ m \in Nat /\ n \in Nat /\ Corpus!ToSet(s) = {s[i] : i \in 1..m}
      /\ Corpus!ToSet(t) = {t[i] : i \in 1..n} /\ Corpus!ToSet(r) = {r[i] : i \in 1..(m + n)}
  BY <1>1, ListFacts
<1>3. /\ \A i, j \in 1..m : s[i] = s[j] => i = j
      /\ \A i, j \in 1..n : t[i] = t[j] => i = j
      /\ \A i \in 1..m, j \in 1..n : s[i] # t[j]
  BY <1>2 DEF Corpus!Distinct
<1> HIDE DEF r, m, n
<1>4. \A i \in 1..(m + n) : \/ i \in 1..m /\ r[i] = s[i]
                            \/ i - m \in 1..n /\ r[i] = t[i - m] /\ ~(i <= m)
  <2> TAKE i \in 1..(m + n)
  <2>1. CASE i <= m
    BY <1>1, <1>2, <2>1
  <2>2. CASE ~(i <= m)
    <3>1. i - m \in 1..n
      BY <1>2, <2>2
    <3> QED BY <1>1, <2>2, <3>1
  <2> QED BY <2>1, <2>2
<1>5. ASSUME NEW i \in 1..(m + n), NEW j \in 1..(m + n), r[i] = r[j] PROVE i = j
  <2>1. CASE i \in 1..m /\ r[i] = s[i]
    <3>1. j \in 1..m /\ r[j] = s[j]
      BY <1>3, <1>4, <1>5, <2>1
    <3> QED BY <1>3, <1>5, <2>1, <3>1
  <2>2. CASE i - m \in 1..n /\ r[i] = t[i - m]
    <3>1. j - m \in 1..n /\ r[j] = t[j - m]
      BY <1>3, <1>4, <1>5, <2>2
    <3>2. i - m = j - m
      BY <1>3, <1>5, <2>2, <3>1
    <3> QED BY <1>2, <3>2
  <2> QED BY <1>4, <2>1, <2>2
<1>6. Corpus!ToSet(r) = Corpus!ToSet(s) \cup Corpus!ToSet(t)
  <2>1. ASSUME NEW x \in Corpus!ToSet(r) PROVE x \in Corpus!ToSet(s) \cup Corpus!ToSet(t)
    BY <1>2, <1>4
  <2>2. ASSUME NEW i \in 1..m PROVE s[i] \in Corpus!ToSet(r)
    <3>1. i \in 1..(m + n) /\ i <= m
      BY <1>2
    <3> QED BY <1>1, <1>2, <3>1
  <2>3. ASSUME NEW i \in 1..n PROVE t[i] \in Corpus!ToSet(r)
    <3> DEFINE k == m + i
    <3>1. k \in 1..(m + n) /\ ~(k <= m) /\ k - m = i
      BY <1>2
    <3> HIDE DEF k
    <3>2. r[k] = t[i]
      BY <1>1, <3>1
    <3> QED BY <1>2, <3>1, <3>2
  <2> QED BY <1>2, <2>1, <2>2, <2>3
<1> QED BY <1>1, <1>5, <1>6 DEF Corpus!Distinct, r, m, n

\* Distinct elements are as many as the list is long.
LEMMA DistinctCounted ==
  ASSUME NEW U, NEW s \in Seq(U), Corpus!Distinct(s)
  PROVE  /\ IsFiniteSet(Corpus!ToSet(s)) /\ Cardinality(Corpus!ToSet(s)) = Len(s)
<1>1. /\ Len(s) \in Nat /\ DOMAIN s = 1..Len(s) /\ Corpus!ToSet(s) = {s[i] : i \in 1..Len(s)}
  BY ListFacts
<1>2. s \in [1..Len(s) -> Corpus!ToSet(s)]
  <2>1. s \in [1..Len(s) -> U]
    BY LenProperties
  <2> QED BY <1>1, <2>1
<1>3. s \in Bijection(1..Len(s), Corpus!ToSet(s))
  <2>1. s \in Surjection(1..Len(s), Corpus!ToSet(s))
    BY <1>1, <1>2 DEF Surjection
  <2>2. s \in Injection(1..Len(s), Corpus!ToSet(s))
    BY <1>2 DEF Injection, IsInjective, Corpus!Distinct
  <2> QED BY <2>1, <2>2 DEF Bijection
<1>4. IsFiniteSet(1..Len(s)) /\ Cardinality(1..Len(s)) = Len(s)
  BY <1>1, FS_Interval
<1>5. ExistsBijection(1..Len(s), Corpus!ToSet(s))
  BY <1>3 DEF ExistsBijection
<1> QED BY <1>4, <1>5, FS_Bijection

(* Lists that have no element twice, and none together.                    *)
AllApart(parts) ==
  /\ \A i \in 1..Len(parts) : Corpus!Distinct(parts[i])
  /\ \A i, j \in 1..Len(parts) : i # j => Corpus!ToSet(parts[i]) \cap Corpus!ToSet(parts[j]) = {}

\* Joined, they have no element twice.
LEMMA FlattenedApart ==
  ASSUME NEW U, NEW parts \in Seq(Seq(U)), AllApart(parts)
  PROVE  /\ Corpus!FlattenSeq(parts) \in Seq(U) /\ Corpus!Distinct(Corpus!FlattenSeq(parts))
         /\ Corpus!ToSet(Corpus!FlattenSeq(parts))
              = UNION {Corpus!ToSet(parts[i]) : i \in 1..Len(parts)}
<1> DEFINE N == Len(parts)
           of(i) == Corpus!ToSet(parts[i])
<1>1. N \in Nat /\ \A i \in 1..N : parts[i] \in Seq(U)
  BY LenProperties, ElementOfSeq
<1>2. Corpus!FlattenSeq(parts) = FlattenSeq(parts)
  BY DEF Corpus!FlattenSeq, FlattenSeq
<1>3. PICK f : Joins(f, parts) /\ FlattenSeq(parts) = f[N]
  BY FlattenJoins
<1>4. f[0] = <<>> /\ \A m \in 1..N : f[m] = f[m - 1] \o parts[m]
  BY <1>3 DEF Joins
<1>5. /\ \A i \in 1..N : Corpus!Distinct(parts[i])
      /\ \A i, j \in 1..N : i # j => of(i) \cap of(j) = {}
  BY DEF AllApart
<1> HIDE DEF N, of
<1> DEFINE first(m) == UNION {of(i) : i \in 1..m}
           right(m) == f[m] \in Seq(U) /\ Corpus!Distinct(f[m]) /\ Corpus!ToSet(f[m]) = first(m)
           good == [m \in 0..N |-> right(m)]
<1>6. right(0)
  <2>1. <<>> \in Seq(U) /\ Corpus!Distinct(<<>>) /\ Corpus!ToSet(<<>>) = {} /\ 1..0 = {}
    BY EmptySeq DEF Corpus!Distinct, Corpus!ToSet
  <2> QED BY <1>4, <2>1
<1>7. ASSUME NEW m \in 1..N, right(m - 1) PROVE right(m)
  <2> DEFINE old == f[m - 1]
             new == parts[m]
  <2>1. first(m) = first(m - 1) \cup of(m)
    <3>1. \A i : i \in 1..m <=> i \in 1..(m - 1) \/ i = m
      BY <1>1
    <3> QED BY <3>1
  <2>2. first(m - 1) \cap of(m) = {}
    <3>1. \A i \in 1..(m - 1) : i \in 1..N /\ i # m
      BY <1>1
    <3> QED BY <1>5, <3>1
  <2>3. /\ old \in Seq(U) /\ new \in Seq(U) /\ Corpus!Distinct(old) /\ Corpus!Distinct(new)
        /\ Corpus!ToSet(old) = first(m - 1) /\ Corpus!ToSet(new) = of(m)
    BY <1>1, <1>5, <1>7 DEF of
  <2> HIDE DEF first, old, new
  <2>4. /\ old \o new \in Seq(U) /\ Corpus!Distinct(old \o new)
        /\ Corpus!ToSet(old \o new) = Corpus!ToSet(old) \cup Corpus!ToSet(new)
    BY <2>2, <2>3, DistinctJoined
  <2> QED BY <1>4, <2>1, <2>3, <2>4 DEF old, new
<1> HIDE DEF first
<1>8. good \in [0..N -> BOOLEAN] /\ good[0] /\ \A m \in 1..N : good[m - 1] => good[m]
  <2>1. good \in [0..N -> BOOLEAN]
    OBVIOUS
  <2>2. 0 \in 0..N /\ N \in 0..N /\ \A m \in 1..N : m \in 0..N /\ m - 1 \in 0..N
    BY <1>1
  <2> HIDE DEF right
  <2> QED BY <1>6, <1>7, <2>1, <2>2
<1>9. right(N)
  <2>1. N \in 0..N
    BY <1>1
  <2>2. good[N]
    <3> HIDE DEF good
    <3> QED BY <1>1, <1>8, <2>1, AllUpTo
  <2> HIDE DEF right
  <2> QED BY <2>1, <2>2
<1> QED BY <1>2, <1>3, <1>9 DEF first, of, N

\* Elements that differ by their ids differ, and any of them listed once have different ids.
LEMMA ApartById ==
  ASSUME NEW s, Corpus!IsList(s), Corpus!Distinct(Corpus!Ids(s)),
         NEW t, t \in Seq(Corpus!ToSet(s)), Corpus!Distinct(t)
  PROVE  /\ \A i, j \in 1..Len(t) : t[i].id = t[j].id => i = j
<1>1. /\ Len(s) \in Nat /\ DOMAIN s = 1..Len(s) /\ Corpus!ToSet(s) = {s[i] : i \in 1..Len(s)}
  BY ListElements DEF Corpus!IsList
<1>2. Len(Corpus!Ids(s)) = Len(s) /\ \A i \in 1..Len(s) : Corpus!Ids(s)[i] = s[i].id
  BY IdsListed DEF Corpus!IsList
<1>3. \A i, j \in 1..Len(s) : s[i].id = s[j].id => i = j
  BY <1>2 DEF Corpus!Distinct
<1>4. \A i \in 1..Len(t) : t[i] \in Corpus!ToSet(s)
  BY ElementOfSeq
<1> SUFFICES ASSUME NEW i \in 1..Len(t), NEW j \in 1..Len(t), t[i].id = t[j].id PROVE i = j
  OBVIOUS
<1>5. PICK k \in 1..Len(s) : t[i] = s[k]
  BY <1>1, <1>4
<1>6. PICK l \in 1..Len(s) : t[j] = s[l]
  BY <1>1, <1>4
<1>7. t[i] = t[j]
  BY <1>3, <1>5, <1>6
<1> QED BY <1>7 DEF Corpus!Distinct

\* Elements with ids of their own are listed once.
LEMMA DistinctByIds ==
  ASSUME NEW s, Corpus!IsList(s), Corpus!Distinct(Corpus!Ids(s))
  PROVE  Corpus!Distinct(s)
<1>1. Len(Corpus!Ids(s)) = Len(s) /\ \A i \in 1..Len(s) : Corpus!Ids(s)[i] = s[i].id
  BY IdsListed DEF Corpus!IsList
<1> QED BY <1>1 DEF Corpus!Distinct

-----------------------------------------------------------------------------
(* The documents of a chain, in the parts that generateRAGCorpus joins.  A *)
(* part is told by the first word of the ids of its documents.             *)

PartOf(word) ==
  IF word = "overview" THEN "overview"
  ELSE IF word = "file" THEN "source_file"
  ELSE IF word = "func" THEN "function"
  ELSE IF word \in {"flow-complete", "flow-step"} THEN "flow_complete"
  ELSE IF word = "xref" THEN "cross_reference"
  ELSE IF word = "qa" THEN "qa_pair"
  ELSE IF word \in {"ops-overview", "ops-comp", "ops-monitoring", "ops-config"} THEN "daily_ops"
  ELSE IF word \in {"diag-path", "diag-critical", "diag-calltype", "diag-rca"} THEN "deep_troubleshoot"
  ELSE IF word \in {"incident-plan", "incident-checklist", "incident-recovery", "incident-postmortem"}
       THEN "incident_response"
  ELSE IF word \in {"test-unit", "test-integration", "test-perf", "test-regression"} THEN "testing"
  ELSE IF word \in {"arch-overview", "arch-comp", "arch-patterns", "arch-optim"} THEN "architecture"
  ELSE IF word \in {"consult-api", "consult-config", "consult-bestpractice"} THEN "feature_consulting"
  ELSE "product_learning"

DocSound(doc, key, words, c) ==
  /\ doc.id[1] \in words /\ PartOf(doc.id[1]) = key /\ doc.id[2] = c
  /\ doc = Corpus!Doc(IF doc.id[1] = "flow-step" THEN "flow_step" ELSE key, doc.id)

\* The documents of a list are told apart, and by their ids.
PartSound(s, key, words, c) ==
  /\ Corpus!IsList(s) /\ Corpus!Distinct(s)
  /\ \A doc \in Corpus!ToSet(s) : DocSound(doc, key, words, c)

(* n documents of one type, with ids as listed.                            *)
Made(s, n, docType, id) ==
  s = [i \in 1..n |-> Corpus!Doc(docType, id[i])]

(* Ids of the chain c, no two the same.                                    *)
IdsApart(id, n, words, c) ==
  /\ \A i \in 1..n : id[i][1] \in words /\ id[i][2] = c
  /\ \A i, j \in 1..n : id[i] = id[j] => i = j

(* Words that documents of a type have in a part.                          *)
WordsOf(words, key, docType) ==
  \A word \in words :
    PartOf(word) = key /\ docType = IF word = "flow-step" THEN "flow_step" ELSE key

\* Documents of one type with ids of their own make up a part, or some of it.
LEMMA PartMade ==
  ASSUME NEW s, NEW n \in Nat, NEW docType, NEW id, Made(s, n, docType, id), NEW c, NEW words, NEW key,
         WordsOf(words, key, docType),
         IdsApart(id, n, words, c)
  PROVE  PartSound(s, key, words, c) /\ Len(s) = n
<1>1. DOMAIN s = 1..n /\ \A i \in 1..n : s[i] = Corpus!Doc(docType, id[i])
  BY DEF Made
<1>2. Corpus!ToSet(s) = {s[i] : i \in 1..n}
  BY <1>1 DEF Corpus!ToSet
<1>3. s \in [1..n -> Corpus!ToSet(s)]
  BY <1>1, <1>2 DEF Made
<1>4. s \in Seq(Corpus!ToSet(s)) /\ Len(s) = n
  <2>1. s \in Seq(Corpus!ToSet(s))
    BY <1>3, SeqDef
  <2> QED BY <1>1, <2>1, LenProperties
<1>5. \A i \in 1..n : s[i].docType = docType /\ s[i].id = id[i]
  BY <1>1 DEF Corpus!Doc
<1>6. Corpus!Distinct(s)
  BY <1>4, <1>5 DEF Corpus!Distinct, IdsApart
<1>7. ASSUME NEW doc \in Corpus!ToSet(s) PROVE DocSound(doc, key, words, c)
  <2>1. PICK i \in 1..n : doc = s[i]
    BY <1>2
  <2>2. doc = Corpus!Doc(docType, doc.id) /\ doc.id[1] \in words /\ doc.id[2] = c
    BY <1>1, <1>5, <2>1 DEF IdsApart
  <2> QED BY <2>2 DEF DocSound, WordsOf
<1> QED BY <1>4, <1>6, <1>7 DEF PartSound, Corpus!IsList

(* Some of a part, s, and some more of it, t.                              *)
PartsTogether(s, v, t, w, key, c) ==
  /\ PartSound(s \o t, key, v \cup w, c) /\ Len(s \o t) = Len(s) + Len(t)
  /\ Corpus!ToSet(s \o t) = Corpus!ToSet(s) \cup Corpus!ToSet(t)

LEMMA PartJoined ==
  ASSUME NEW key, NEW c, NEW s, NEW v, PartSound(s, key, v, c), NEW t, NEW w, PartSound(t, key, w, c),
         v \cap w = {}
  PROVE  PartsTogether(s, v, t, w, key, c)
<1> DEFINE U == Corpus!ToSet(s) \cup Corpus!ToSet(t)
           r == s \o t
<1>1. s \in Seq(U) /\ t \in Seq(U)
  <2>1. /\ s \in Seq(Corpus!ToSet(s)) /\ Corpus!ToSet(s) \subseteq U
        /\ t \in Seq(Corpus!ToSet(t)) /\ Corpus!ToSet(t) \subseteq U
    BY DEF PartSound, Corpus!IsList
  <2> HIDE DEF U
  <2> QED BY <2>1, SeqMonotonic
<1>2. Corpus!ToSet(s) \cap Corpus!ToSet(t) = {}
  BY DEF PartSound, DocSound
<1>3. /\ r \in Seq(U) /\ Corpus!Distinct(r) /\ Len(r) = Len(s) + Len(t) /\ Corpus!ToSet(r) = U
  <2>1. Corpus!Distinct(s) /\ Corpus!Distinct(t)
    BY DEF PartSound
  <2> HIDE DEF r
  <2> QED BY <1>1, <1>2, <2>1, DistinctJoined DEF r
<1>4. ASSUME NEW doc \in U PROVE DocSound(doc, key, v \cup w, c)
  <2>1. DocSound(doc, key, v, c) \/ DocSound(doc, key, w, c)
    BY DEF PartSound
  <2> QED BY <2>1 DEF DocSound
<1> HIDE DEF r
<1>5. PartSound(r, key, v \cup w, c)
  BY <1>3, <1>4 DEF PartSound, Corpus!IsList
<1> QED BY <1>3, <1>5 DEF r, PartsTogether

(* Documents with no more in their ids than a word and the chain.          *)
Named(s, n, names, key, words, c) ==
  /\ Made(s, n, key, [i \in 1..n |-> <<names[i], c>>])
  /\ words = {names[i] : i \in 1..n} /\ \A i, j \in 1..n : names[i] = names[j] => i = j
  /\ WordsOf(words, key, key)

LEMMA PartNamed ==
  ASSUME NEW s, NEW n \in Nat, NEW names, NEW key, NEW words, NEW c,
         Named(s, n, names, key, words, c)
  PROVE  PartSound(s, key, words, c)
<1> DEFINE id == [i \in 1..n |-> <<names[i], c>>]
<1>1. IdsApart(id, n, words, c)
  BY DEF IdsApart, Named
<1>2. Made(s, n, key, id) /\ WordsOf(words, key, key)
  BY DEF Named
<1> HIDE DEF id
<1> QED BY <1>1, <1>2, PartMade

\* What the documents are made of: the lists of a chain, each with ids of its own.
LEMMA ChainLists ==
  ASSUME NEW chain, Corpus!IsChain(chain)
  PROVE  /\ Corpus!IsList(chain.sourceFiles) /\ Corpus!Distinct(Corpus!Ids(chain.sourceFiles))
         /\ Corpus!IsList(chain.edges) /\ Corpus!Distinct(Corpus!Ids(chain.edges))
         /\ Corpus!IsList(chain.components) /\ Corpus!Distinct(chain.components)
         /\ chain.flowSteps \in Nat
         /\ \A sf \in Corpus!ToSet(chain.sourceFiles) :
              Corpus!IsList(sf.keyFunctions) /\ Corpus!Distinct(sf.keyFunctions)
BY DEF Corpus!IsChain

\* One document for each file, or for each of those selected.
LEMMA PerFile ==
  ASSUME NEW list, Corpus!IsList(list), Corpus!Distinct(Corpus!Ids(list)),
         NEW some, some \in Seq(Corpus!ToSet(list)), Corpus!Distinct(some),
         NEW key, NEW c, NEW word, WordsOf({word}, key, key),
         NEW s, s = [i \in DOMAIN some |-> Corpus!Doc(key, <<word, c, some[i].id>>)]
  PROVE  PartSound(s, key, {word}, c)
<1> DEFINE n == Len(some)
           id == [i \in 1..n |-> <<word, c, some[i].id>>]
           words == {word}
<1>1. n \in Nat /\ DOMAIN some = 1..n
  BY LenProperties
<1>2. Made(s, n, key, id) /\ WordsOf(words, key, key)
  BY <1>1 DEF Made
<1>3. \A i, j \in 1..n : some[i].id = some[j].id => i = j
  BY ApartById
<1>4. IdsApart(id, n, words, c)
  BY <1>3 DEF IdsApart
<1> HIDE DEF id, words, n
<1>5. PartSound(s, key, words, c)
  BY <1>1, <1>2, <1>4, PartMade
<1> QED BY <1>5 DEF words

\* One document for each component with a file.
LEMMA PerComponentPart ==
  ASSUME NEW chain, Corpus!IsChain(chain), NEW key, NEW word, WordsOf({word}, key, key)
  PROVE  PartSound(Corpus!PerComponent(chain, key, word), key, {word}, chain.id)
<1> DEFINE S == {comp \in Corpus!ToSet(chain.components) : Corpus!getFilesForComponent(chain, comp) # {}}
           some == Corpus!Only(chain.components, S)
           s == Corpus!PerComponent(chain, key, word)
           n == Len(some)
           id == [i \in 1..n |-> <<word, chain.id, some[i]>>]
           words == {word}
           c == chain.id
<1>1. some \in Seq(Corpus!ToSet(chain.components)) /\ Corpus!Distinct(some)
  <2>1. /\ chain.components \in Seq(Corpus!ToSet(chain.components))
        /\ Corpus!Distinct(chain.components)
    BY ChainLists DEF Corpus!IsList
  <2> HIDE DEF S
  <2> QED BY <2>1, OnlyKeeps
<1>2. n \in Nat /\ DOMAIN some = 1..n
  BY <1>1, LenProperties
<1>3. s = [i \in DOMAIN some |-> Corpus!Doc(key, <<word, c, some[i]>>)]
  BY DEF Corpus!PerComponent, Corpus!Mapped
<1> HIDE DEF some, s
<1>4. Made(s, n, key, id) /\ WordsOf(words, key, key)
  BY <1>2, <1>3 DEF Made
<1>5. \A i, j \in 1..n : some[i] = some[j] => i = j
  BY <1>1 DEF Corpus!Distinct
<1>6. IdsApart(id, n, words, c)
  BY <1>5 DEF IdsApart
<1> HIDE DEF id, words, n, c
<1>7. PartSound(s, key, words, c)
  BY <1>2, <1>4, <1>6, PartMade
<1> QED BY <1>7 DEF words, c, s

LEMMA SourceFilePart ==
  ASSUME NEW chain, Corpus!IsChain(chain)
  PROVE  PartSound(Corpus!generateSourceFileDocs(chain), "source_file", {"file"}, chain.id)
<1> DEFINE s == Corpus!generateSourceFileDocs(chain)
           list == chain.sourceFiles
<1>1. Corpus!IsList(list) /\ Corpus!Distinct(Corpus!Ids(list))
  BY ChainLists
<1>2. list \in Seq(Corpus!ToSet(list)) /\ Corpus!Distinct(list)
  BY <1>1, DistinctByIds DEF Corpus!IsList
<1>3. s = [i \in DOMAIN list |-> Corpus!Doc("source_file", <<"file", chain.id, list[i].id>>)]
  BY DEF Corpus!generateSourceFileDocs, Corpus!Mapped
<1>4. WordsOf({"file"}, "source_file", "source_file")
  BY DEF WordsOf, PartOf
<1> HIDE DEF s, list
<1>5. PartSound(s, "source_file", {"file"}, chain.id)
  BY <1>1, <1>2, <1>3, <1>4, PerFile
<1> QED BY <1>5 DEF s

LEMMA CrossReferencePart ==
  ASSUME NEW chain, Corpus!IsChain(chain)
  PROVE  PartSound(Corpus!generateCrossReferenceDocs(chain), "cross_reference", {"xref"}, chain.id)
<1> DEFINE s == Corpus!generateCrossReferenceDocs(chain)
           list == chain.edges
           some == Corpus!getCrossComponentEdges(chain)
<1>1. Corpus!IsList(list) /\ Corpus!Distinct(Corpus!Ids(list))
  BY ChainLists
<1>2. list \in Seq(Corpus!ToSet(list)) /\ Corpus!Distinct(list)
  BY <1>1, DistinctByIds DEF Corpus!IsList
<1>3. some \in Seq(Corpus!ToSet(list)) /\ Corpus!Distinct(some)
  BY <1>2, OnlyKeeps DEF Corpus!getCrossComponentEdges
<1>4. s = [i \in DOMAIN some |-> Corpus!Doc("cross_reference", <<"xref", chain.id, some[i].id>>)]
  BY DEF Corpus!generateCrossReferenceDocs, Corpus!Mapped
<1>5. WordsOf({"xref"}, "cross_reference", "cross_reference")
  BY DEF WordsOf, PartOf
<1> HIDE DEF s, list, some
<1>6. PartSound(s, "cross_reference", {"xref"}, chain.id)
  BY <1>1, <1>3, <1>4, <1>5, PerFile
<1> QED BY <1>6 DEF s

\* The functions of a chain are told apart by their file and their name.
LEMMA FunctionsApart ==
  ASSUME NEW chain, Corpus!IsChain(chain)
  PROVE  /\ Corpus!Distinct(Corpus!AllFunctions(chain)) /\ Len(Corpus!AllFunctions(chain)) \in Nat
         /\ DOMAIN Corpus!AllFunctions(chain) = 1..Len(Corpus!AllFunctions(chain))
         /\ \A i \in 1..Len(Corpus!AllFunctions(chain)) :
              Corpus!AllFunctions(chain)[i]
                = <<Corpus!AllFunctions(chain)[i][1], Corpus!AllFunctions(chain)[i][2]>>
<1> DEFINE files == chain.sourceFiles
           N == Len(files)
           of(i) == [j \in DOMAIN files[i].keyFunctions |-> <<files[i].id, files[i].keyFunctions[j]>>]
           names == UNION {Corpus!ToSet(files[i].keyFunctions) : i \in 1..N}
           ids == {files[i].id : i \in 1..N}
           U == ids \X names
           parts == [i \in 1..N |-> of(i)]
           all == Corpus!AllFunctions(chain)
<1>1. /\ Corpus!IsList(files) /\ Corpus!Distinct(Corpus!Ids(files)) /\ Corpus!Distinct(files)
      /\ \A sf \in Corpus!ToSet(files) : Corpus!IsList(sf.keyFunctions) /\ Corpus!Distinct(sf.keyFunctions)
  BY ChainLists, DistinctByIds
<1>2. N \in Nat /\ DOMAIN files = 1..N /\ Corpus!ToSet(files) = {files[i] : i \in 1..N}
  BY <1>1, ListElements DEF Corpus!IsList
<1>3. \A i, j \in 1..N : files[i].id = files[j].id => i = j
  <2>1. files \in Seq(Corpus!ToSet(files))
    BY <1>1 DEF Corpus!IsList
  <2> HIDE DEF files
  <2> QED BY <1>1, <2>1, ApartById
<1>4. all = Corpus!FlattenSeq(parts)
  BY <1>2 DEF Corpus!AllFunctions
<1> HIDE DEF all, parts, files
<1>5. ASSUME NEW i \in 1..N
      PROVE  /\ of(i) \in Seq(U) /\ Corpus!Distinct(of(i))
             /\ \A fn \in Corpus!ToSet(of(i)) : fn[1] = files[i].id
  <2> DEFINE key == files[i].keyFunctions
             n == Len(key)
             x == files[i].id
             s == of(i)
  <2>1. /\ n \in Nat /\ DOMAIN key = 1..n /\ Corpus!ToSet(key) = {key[j] : j \in 1..n}
        /\ Corpus!Distinct(key)
    <3>1. Corpus!IsList(key) /\ Corpus!Distinct(key)
      BY <1>1, <1>2
    <3> HIDE DEF key
    <3> QED BY <3>1, ListElements DEF Corpus!IsList
  <2>2. /\ DOMAIN s = 1..n /\ s = [j \in 1..n |-> s[j]]
        /\ \A j \in 1..n : s[j] = <<x, key[j]>>
    BY <2>1
  <2>3. x \in ids /\ \A j \in 1..n : key[j] \in names
    BY <2>1
  <2> HIDE DEF s, names, ids, key, x, of
  <2>4. s \in [1..n -> U]
    <3>1. ASSUME NEW j \in 1..n PROVE s[j] \in U
      <4>1. s[j] = <<x, key[j]>> /\ x \in ids /\ key[j] \in names
        BY <2>2, <2>3
      <4> QED BY <4>1
    <3> HIDE DEF U, n
    <3> QED BY <2>2, <3>1
  <2>5. s \in Seq(U) /\ Len(s) = n
    <3> HIDE DEF U, n
    <3>1. s \in Seq(U)
      BY <2>1, <2>4, SeqDef
    <3> QED BY <2>1, <2>2, <3>1, LenProperties
  <2> HIDE DEF n
  <2>6. ASSUME NEW j \in 1..n, NEW k \in 1..n, s[j] = s[k] PROVE j = k
    <3>1. <<x, key[j]>> = <<x, key[k]>>
      BY <2>2, <2>6
    <3>2. key[j] = key[k]
      BY <3>1
    <3> QED BY <2>1, <3>2 DEF Corpus!Distinct, n
  <2>7. ASSUME NEW fn \in Corpus!ToSet(s) PROVE fn[1] = x
    <3>1. PICK j \in 1..n : fn = s[j]
      BY <2>2 DEF Corpus!ToSet
    <3>2. fn = <<x, key[j]>>
      BY <2>2, <3>1
    <3> QED BY <3>2
  <2>8. Corpus!Distinct(s)
    BY <2>5, <2>6 DEF Corpus!Distinct
  <2> HIDE DEF U
  <2> QED BY <2>5, <2>7, <2>8 DEF s, x
<1>6. parts \in Seq(Seq(U)) /\ Len(parts) = N /\ \A i \in 1..N : parts[i] = of(i)
  <2>1. parts \in [1..N -> Seq(U)] /\ \A i \in 1..N : parts[i] = of(i)
    <3> HIDE DEF of, U, N
    <3> QED BY <1>5 DEF parts
  <2> HIDE DEF U, of, N
  <2>2. parts \in Seq(Seq(U))
    BY <1>2, <2>1, SeqDef
  <2> QED BY <1>2, <2>1, <2>2, LenProperties
<1>7. AllApart(parts)
  <2>1. ASSUME NEW i \in 1..N, NEW j \in 1..N, i # j
        PROVE  Corpus!ToSet(parts[i]) \cap Corpus!ToSet(parts[j]) = {}
    <3> SUFFICES ASSUME NEW fn \in Corpus!ToSet(parts[i]), fn \in Corpus!ToSet(parts[j]) PROVE FALSE
      OBVIOUS
    <3> HIDE DEF of, N
    <3>1. fn[1] = files[i].id
      BY <1>5, <1>6
    <3>2. fn[1] = files[j].id
      BY <1>5, <1>6
    <3> QED BY <1>3, <2>1, <3>1, <3>2
  <2> HIDE DEF of, N
  <2> QED BY <1>5, <1>6, <2>1 DEF AllApart
<1>8. all \in Seq(U) /\ Corpus!Distinct(all)
  <2> HIDE DEF U
  <2> QED BY <1>4, <1>6, <1>7, FlattenedApart
<1>9. /\ Len(all) \in Nat /\ DOMAIN all = 1..Len(all) /\ \A i \in 1..Len(all) : all[i] \in U
  BY <1>8, LenProperties, ElementOfSeq
<1> HIDE DEF names, ids
<1> QED BY <1>8, <1>9 DEF all

LEMMA FunctionPart ==
  ASSUME NEW chain, Corpus!IsChain(chain)
  PROVE  PartSound(Corpus!generateFunctionDocs(chain), "function", {"func"}, chain.id)
<1> DEFINE s == Corpus!generateFunctionDocs(chain)
           all == Corpus!AllFunctions(chain)
           n == Len(all)
           c == chain.id
           id == [i \in 1..n |-> <<"func", c, all[i][1], all[i][2]>>]
           words == {"func"}
<1>1. /\ Corpus!Distinct(all) /\ n \in Nat /\ DOMAIN all = 1..n
      /\ \A i \in 1..n : all[i] = <<all[i][1], all[i][2]>>
  BY FunctionsApart
<1>2. s = [i \in DOMAIN all |-> Corpus!Doc("function", <<"func", c, all[i][1], all[i][2]>>)]
  BY DEF Corpus!generateFunctionDocs, Corpus!Mapped
<1>3. WordsOf(words, "function", "function")
  BY DEF WordsOf, PartOf
<1> HIDE DEF all, s
<1>4. Made(s, n, "function", id)
  BY <1>1, <1>2 DEF Made
<1>5. IdsApart(id, n, words, c)
  <2>1. ASSUME NEW i \in 1..n, NEW j \in 1..n, id[i] = id[j] PROVE i = j
    <3>1. all[i][1] = all[j][1] /\ all[i][2] = all[j][2]
      BY <2>1
    <3>2. all[i] = all[j]
      BY <1>1, <3>1
    <3> QED BY <1>1, <3>2 DEF Corpus!Distinct
  <2>2. \A i \in 1..n : id[i][1] \in words /\ id[i][2] = c
    OBVIOUS
  <2> HIDE DEF id
  <2> QED BY <2>1, <2>2 DEF IdsApart
<1> HIDE DEF id, words, n, c
<1>6. PartSound(s, "function", words, c)
  BY <1>1, <1>3, <1>4, <1>5, PartMade
<1> QED BY <1>6 DEF words, c, s

LEMMA QAPart ==
  ASSUME NEW chain, Corpus!IsChain(chain)
  PROVE  PartSound(Corpus!generateQAPairDocs(chain), "qa_pair", {"qa"}, chain.id)
<1> DEFINE s == Corpus!generateQAPairDocs(chain)
           n == 3 + Len(Corpus!AllFunctions(chain))
           c == chain.id
           id == [i \in 1..n |-> <<"qa", c, i - 1>>]
           words == {"qa"}
<1>1. n \in Nat
  BY FunctionsApart
<1>2. WordsOf(words, "qa_pair", "qa_pair")
  BY DEF WordsOf, PartOf
<1>3. Made(s, n, "qa_pair", id)
  BY DEF Made, Corpus!generateQAPairDocs
<1> HIDE DEF n
<1>4. IdsApart(id, n, words, c)
  BY <1>1 DEF IdsApart
<1> HIDE DEF id, words, c, s
<1>5. PartSound(s, "qa_pair", words, c)
  BY <1>1, <1>2, <1>3, <1>4, PartMade
<1> QED BY <1>5 DEF words, c, s

\* A document with no more in its id than a word and the chain.
LEMMA OneDoc ==
  ASSUME NEW word, NEW key, NEW c, WordsOf({word}, key, key)
  PROVE  PartSound(<<Corpus!Doc(key, <<word, c>>)>>, key, {word}, c)
<1> DEFINE s == <<Corpus!Doc(key, <<word, c>>)>>
           names == <<word>>
           words == {word}
<1>1. Made(s, 1, key, [i \in 1..1 |-> <<names[i], c>>])
  BY DEF Made
<1>2. {names[i] : i \in 1..1} = words /\ \A i, j \in 1..1 : names[i] = names[j] => i = j
  OBVIOUS
<1>3. Named(s, 1, names, key, words, c)
  BY <1>1, <1>2 DEF Named
<1> HIDE DEF s, names, words
<1>4. PartSound(s, key, words, c)
  BY <1>3, PartNamed
<1> QED BY <1>4 DEF s, words

\* Two of them.
LEMMA TwoDocs ==
  ASSUME NEW v, NEW w, v # w, NEW key, NEW c, WordsOf({v, w}, key, key)
  PROVE  PartSound(<<Corpus!Doc(key, <<v, c>>), Corpus!Doc(key, <<w, c>>)>>, key, {v, w}, c)
<1> DEFINE s == <<Corpus!Doc(key, <<v, c>>), Corpus!Doc(key, <<w, c>>)>>
           names == <<v, w>>
           words == {v, w}
<1>1. Made(s, 2, key, [i \in 1..2 |-> <<names[i], c>>])
  BY DEF Made
<1>2. {names[i] : i \in 1..2} = words /\ \A i, j \in 1..2 : names[i] = names[j] => i = j
  OBVIOUS
<1>3. Named(s, 2, names, key, words, c)
  BY <1>1, <1>2 DEF Named
<1> HIDE DEF s, names, words
<1>4. PartSound(s, key, words, c)
  BY <1>3, PartNamed
<1> QED BY <1>4 DEF s, words

LEMMA OverviewPart ==
  ASSUME NEW chain
  PROVE  PartSound(<<Corpus!generateOverview(chain)>>, "overview", {"overview"}, chain.id)
<1>1. WordsOf({"overview"}, "overview", "overview")
  BY DEF WordsOf, PartOf
<1> QED BY <1>1, OneDoc DEF Corpus!generateOverview

\* The flow is one document, and has one for each step, which no filter lists.
LEMMA FlowPart ==
  ASSUME NEW chain, Corpus!IsChain(chain)
  PROVE  /\ PartSound(Corpus!generateFlowDocs(chain), "flow_complete",
                      {"flow-complete", "flow-step"}, chain.id)
         /\ Len(Corpus!generateFlowDocs(chain)) = 1 + chain.flowSteps
         /\ {doc \in Corpus!ToSet(Corpus!generateFlowDocs(chain)) : doc.docType = "flow_complete"}
              = {Corpus!Doc("flow_complete", <<"flow-complete", chain.id>>)}
<1> DEFINE c == chain.id
           n == chain.flowSteps
           doc == Corpus!Doc("flow_complete", <<"flow-complete", c>>)
           s == <<doc>>
           t == [i \in 1..n |-> Corpus!Doc("flow_step", <<"flow-step", c, i - 1>>)]
           id == [i \in 1..n |-> <<"flow-step", c, i - 1>>]
           v == {"flow-complete"}
           w == {"flow-step"}
           key == "flow_complete"
<1>1. n \in Nat
  BY ChainLists
<1>2. WordsOf(v, key, key) /\ WordsOf(w, key, "flow_step")
  BY DEF WordsOf, PartOf
<1>3. PartSound(s, key, v, c)
  BY <1>2, OneDoc
<1>4. PartSound(t, key, w, c) /\ Len(t) = n
  <2>1. Made(t, n, "flow_step", id) /\ IdsApart(id, n, w, c)
    BY <1>1 DEF Made, IdsApart
  <2> HIDE DEF t, id, w, key, n
  <2> QED BY <1>1, <1>2, <2>1, PartMade
<1>5. /\ Corpus!ToSet(s) = {doc} /\ doc.docType = key /\ Len(s) = 1
      /\ \A d \in Corpus!ToSet(t) : d.docType = "flow_step"
  <2>1. doc.docType = key
    BY DEF Corpus!Doc
  <2> HIDE DEF doc
  <2>2. Corpus!ToSet(s) = {doc} /\ Len(s) = 1
    BY DEF Corpus!ToSet
  <2>3. ASSUME NEW d \in Corpus!ToSet(t) PROVE d.docType = "flow_step"
    <3>1. PICK i \in 1..n : d = t[i]
      BY DEF Corpus!ToSet
    <3>2. d = Corpus!Doc("flow_step", <<"flow-step", c, i - 1>>)
      BY <3>1
    <3> QED BY <3>2 DEF Corpus!Doc
  <2> QED BY <2>1, <2>2, <2>3
<1>6. Corpus!generateFlowDocs(chain) = s \o t
  BY DEF Corpus!generateFlowDocs
<1>7. v \cap w = {} /\ v \cup w = {"flow-complete", "flow-step"} /\ key # "flow_step"
  OBVIOUS
<1> HIDE DEF s, t, v, w, c, n, doc, key, id
<1>8. /\ PartSound(s \o t, key, v \cup w, c) /\ Len(s \o t) = Len(s) + Len(t)
      /\ Corpus!ToSet(s \o t) = Corpus!ToSet(s) \cup Corpus!ToSet(t)
  <2>1. PartSound(s, key, v, c) /\ PartSound(t, key, w, c) /\ v \cap w = {}
    BY <1>3, <1>4, <1>7
  <2>2. PartsTogether(s, v, t, w, key, c)
    BY <2>1, PartJoined
  <2> QED BY <2>2 DEF PartsTogether
<1>9. {d \in Corpus!ToSet(s \o t) : d.docType = key} = {doc}
  BY <1>5, <1>7, <1>8
<1> QED BY <1>4, <1>5, <1>6, <1>7, <1>8, <1>9 DEF key, c, n, doc

\* A document, one for each of a list, and two more.
LEMMA PartOfThree ==
  ASSUME NEW key, NEW c, NEW u, NEW list, NEW word, NEW v, NEW w,
         PartSound(list, key, {word}, c), WordsOf({u, v, w}, key, key),
         u # v, u # w, v # w, word \notin {u, v, w}
  PROVE  PartSound((<<Corpus!Doc(key, <<u, c>>)>> \o list)
                     \o <<Corpus!Doc(key, <<v, c>>), Corpus!Doc(key, <<w, c>>)>>,
                   key, ({u} \cup {word}) \cup {v, w}, c)
<1> DEFINE one == <<Corpus!Doc(key, <<u, c>>)>>
           two == <<Corpus!Doc(key, <<v, c>>), Corpus!Doc(key, <<w, c>>)>>
           r == one \o list
           a == {u}
           b == {word}
           d == {v, w}
<1>1. WordsOf(a, key, key) /\ WordsOf(d, key, key)
  BY DEF WordsOf
<1>2. PartSound(one, key, a, c)
  BY <1>1, OneDoc
<1>3. PartSound(two, key, d, c)
  BY <1>1, TwoDocs
<1>4. a \cap b = {} /\ (a \cup b) \cap d = {}
  OBVIOUS
<1> HIDE DEF one, two, a, d
<1>5. PartSound(r, key, a \cup b, c)
  <2> HIDE DEF b
  <2>1. PartSound(list, key, b, c)
    BY DEF b
  <2> QED BY <1>2, <1>4, <2>1, PartJoined DEF PartsTogether
<1> HIDE DEF r, b
<1>6. PartSound(r \o two, key, (a \cup b) \cup d, c)
  BY <1>3, <1>4, <1>5, PartJoined DEF PartsTogether
<1> QED BY <1>6 DEF one, two, r, a, b, d

LEMMA DailyOpsPart ==
  ASSUME NEW chain, Corpus!IsChain(chain)
  PROVE  \E words : PartSound(Corpus!generateDailyOpsDocs(chain), "daily_ops", words, chain.id)
<1> DEFINE key == "daily_ops"
           c == chain.id
           list == Corpus!PerComponent(chain, "daily_ops", "ops-comp")
           u == "ops-overview"
           word == "ops-comp"
           v == "ops-monitoring"
           w == "ops-config"
           s == (<<Corpus!Doc(key, <<u, c>>)>> \o list)
                  \o <<Corpus!Doc(key, <<v, c>>), Corpus!Doc(key, <<w, c>>)>>
<1>1. /\ WordsOf({word}, key, key) /\ WordsOf({u, v, w}, key, key)
      /\ u # v /\ u # w /\ v # w /\ word \notin {u, v, w}
  BY DEF WordsOf, PartOf
<1>2. PartSound(list, key, {word}, c)
  BY <1>1, PerComponentPart
<1>3. Corpus!generateDailyOpsDocs(chain) = s
  BY DEF Corpus!generateDailyOpsDocs
<1> HIDE DEF key, c, list, u, v, w, word
<1>4. PartSound(s, key, ({u} \cup {word}) \cup {v, w}, c)
  BY <1>1, <1>2, PartOfThree
<1> HIDE DEF s
<1>5. \E words : PartSound(s, key, words, c)
  BY <1>4
<1> QED BY <1>3, <1>5 DEF key, c

LEMMA ArchitecturePart ==
  ASSUME NEW chain, Corpus!IsChain(chain)
  PROVE  \E words : PartSound(Corpus!generateArchitectureDocs(chain), "architecture", words, chain.id)
<1> DEFINE key == "architecture"
           c == chain.id
           list == Corpus!PerComponent(chain, "architecture", "arch-comp")
           u == "arch-overview"
           word == "arch-comp"
           v == "arch-patterns"
           w == "arch-optim"
           s == (<<Corpus!Doc(key, <<u, c>>)>> \o list)
                  \o <<Corpus!Doc(key, <<v, c>>), Corpus!Doc(key, <<w, c>>)>>
<1>1. /\ WordsOf({word}, key, key) /\ WordsOf({u, v, w}, key, key)
      /\ u # v /\ u # w /\ v # w /\ word \notin {u, v, w}
  BY DEF WordsOf, PartOf
<1>2. PartSound(list, key, {word}, c)
  BY <1>1, PerComponentPart
<1>3. Corpus!generateArchitectureDocs(chain) = s
  BY DEF Corpus!generateArchitectureDocs
<1> HIDE DEF key, c, list, u, v, w, word
<1>4. PartSound(s, key, ({u} \cup {word}) \cup {v, w}, c)
  BY <1>1, <1>2, PartOfThree
<1> HIDE DEF s
<1>5. \E words : PartSound(s, key, words, c)
  BY <1>4
<1> QED BY <1>3, <1>5 DEF key, c

LEMMA DeepTroubleshootPart ==
  ASSUME NEW chain, Corpus!IsChain(chain)
  PROVE  \E words : PartSound(Corpus!generateDeepTroubleshootDocs(chain), "deep_troubleshoot",
                              words, chain.id)
<1> DEFINE key == "deep_troubleshoot"
           c == chain.id
           files == chain.sourceFiles
           S == {sf \in Corpus!ToSet(files) : sf.importance = "critical"}
           critical == Corpus!Only(files, S)
           word == "diag-critical"
           list == [i \in DOMAIN critical |-> Corpus!Doc(key, <<word, c, critical[i].id>>)]
           u == "diag-path"
           v == "diag-calltype"
           w == "diag-rca"
           s == (<<Corpus!Doc(key, <<u, c>>)>> \o list)
                  \o <<Corpus!Doc(key, <<v, c>>), Corpus!Doc(key, <<w, c>>)>>
<1>1. /\ WordsOf({word}, key, key) /\ WordsOf({u, v, w}, key, key)
      /\ u # v /\ u # w /\ v # w /\ word \notin {u, v, w}
  BY DEF WordsOf, PartOf
<1>2. Corpus!generateDeepTroubleshootDocs(chain) = s
  BY DEF Corpus!generateDeepTroubleshootDocs, Corpus!Mapped
<1>3. Corpus!IsList(files) /\ Corpus!Distinct(Corpus!Ids(files))
  BY ChainLists
<1>4. critical \in Seq(Corpus!ToSet(files)) /\ Corpus!Distinct(critical)
  <2>1. files \in Seq(Corpus!ToSet(files)) /\ Corpus!Distinct(files)
    BY <1>3, DistinctByIds DEF Corpus!IsList
  <2> HIDE DEF files, S
  <2> QED BY <2>1, OnlyKeeps
<1>5. list = [i \in DOMAIN critical |-> Corpus!Doc(key, <<word, c, critical[i].id>>)]
  OBVIOUS
<1> HIDE DEF key, c, list, u, v, w, word, critical, files
<1>6. PartSound(list, key, {word}, c)
  BY <1>1, <1>3, <1>4, <1>5, PerFile
<1>7. PartSound(s, key, ({u} \cup {word}) \cup {v, w}, c)
  BY <1>1, <1>6, PartOfThree
<1> HIDE DEF s
<1>8. \E words : PartSound(s, key, words, c)
  BY <1>7
<1> QED BY <1>2, <1>8 DEF key, c

LEMMA IncidentPart ==
  ASSUME NEW chain
  PROVE  \E words : PartSound(Corpus!generateIncidentResponseDocs(chain), "incident_response",
                              words, chain.id)
<1> DEFINE key == "incident_response"
           c == chain.id
           names == <<"incident-plan", "incident-checklist", "incident-recovery", "incident-postmortem">>
           words == {names[i] : i \in 1..4}
           s == Corpus!generateIncidentResponseDocs(chain)
<1>1. DOMAIN names = 1..4 /\ 4 \in Nat /\ \A i, j \in 1..4 : names[i] = names[j] => i = j
  OBVIOUS
<1>2. WordsOf(words, key, key)
  BY DEF WordsOf, PartOf
<1>3. s = [i \in DOMAIN names |-> Corpus!Doc(key, <<names[i], c>>)]
  BY DEF Corpus!generateIncidentResponseDocs, Corpus!Mapped
<1>4. Named(s, 4, names, key, words, c)
  BY <1>1, <1>2, <1>3 DEF Named, Made
<1> HIDE DEF key, c, names, words, s
<1>5. PartSound(s, key, words, c)
  BY <1>1, <1>4, PartNamed
<1>6. \E ws : PartSound(s, key, ws, c)
  BY <1>5
<1> QED BY <1>6 DEF s, key, c

LEMMA ProductLearningPart ==
  ASSUME NEW chain
  PROVE  \E words : PartSound(Corpus!generateProductLearningDocs(chain), "product_learning",
                              words, chain.id)
<1> DEFINE key == "product_learning"
           c == chain.id
           names == <<"learn-intro", "learn-tutorial", "learn-faq", "learn-glossary", "learn-path">>
           words == {names[i] : i \in 1..5}
           s == Corpus!generateProductLearningDocs(chain)
<1>1. DOMAIN names = 1..5 /\ 5 \in Nat /\ \A i, j \in 1..5 : names[i] = names[j] => i = j
  OBVIOUS
<1>2. WordsOf(words, key, key)
  BY DEF WordsOf, PartOf
<1>3. s = [i \in DOMAIN names |-> Corpus!Doc(key, <<names[i], c>>)]
  BY DEF Corpus!generateProductLearningDocs, Corpus!Mapped
<1>4. Named(s, 5, names, key, words, c)
  BY <1>1, <1>2, <1>3 DEF Named, Made
<1> HIDE DEF key, c, names, words, s
<1>5. PartSound(s, key, words, c)
  BY <1>1, <1>4, PartNamed
<1>6. \E ws : PartSound(s, key, ws, c)
  BY <1>5
<1> QED BY <1>6 DEF s, key, c

LEMMA AllFiles ==
  ASSUME NEW chain, Corpus!IsChain(chain), NEW key, NEW word, WordsOf({word}, key, key), NEW s,
         s = [i \in DOMAIN chain.sourceFiles |->
                Corpus!Doc(key, <<word, chain.id, chain.sourceFiles[i].id>>)]
  PROVE  PartSound(s, key, {word}, chain.id)
<1> DEFINE files == chain.sourceFiles
           c == chain.id
<1>1. s = [i \in DOMAIN files |-> Corpus!Doc(key, <<word, c, files[i].id>>)]
  OBVIOUS
<1>2. Corpus!IsList(files) /\ Corpus!Distinct(Corpus!Ids(files))
  BY ChainLists
<1>3. files \in Seq(Corpus!ToSet(files)) /\ Corpus!Distinct(files)
  BY <1>2, DistinctByIds DEF Corpus!IsList
<1> HIDE DEF files, c
<1>4. PartSound(s, key, {word}, c)
  BY <1>1, <1>2, <1>3, PerFile
<1> QED BY <1>4 DEF c

\* One for each file, and one for each of some words.
LEMMA FilesAndWords ==
  ASSUME NEW chain, Corpus!IsChain(chain), NEW key, NEW word, WordsOf({word}, key, key),
         NEW names, NEW n \in Nat, DOMAIN names = 1..n, \A i, j \in 1..n : names[i] = names[j] => i = j,
         NEW words, words = {names[i] : i \in 1..n}, WordsOf(words, key, key), word \notin words
  PROVE  PartSound(Corpus!Mapped(chain.sourceFiles, key, LAMBDA sf : <<word, chain.id, sf.id>>)
                     \o Corpus!Mapped(names, key, LAMBDA part : <<part, chain.id>>),
                   key, {word} \cup words, chain.id)
<1> DEFINE c == chain.id
           s == Corpus!Mapped(chain.sourceFiles, key, LAMBDA sf : <<word, chain.id, sf.id>>)
           t == Corpus!Mapped(names, key, LAMBDA part : <<part, chain.id>>)
           v == {word}
<1>1. /\ t = [i \in DOMAIN names |-> Corpus!Doc(key, <<names[i], c>>)]
      /\ s = [i \in DOMAIN chain.sourceFiles |->
                Corpus!Doc(key, <<word, c, chain.sourceFiles[i].id>>)]
  BY DEF Corpus!Mapped
<1>2. v \cap words = {} /\ WordsOf(v, key, key)
  OBVIOUS
<1> HIDE DEF s, t
<1>3. PartSound(s, key, v, c)
  BY <1>1, AllFiles
<1> HIDE DEF c, v
<1>4. PartSound(t, key, words, c)
  <2>1. Named(t, n, names, key, words, c)
    BY <1>1 DEF Named, Made
  <2> QED BY <2>1, PartNamed
<1>5. PartsTogether(s, v, t, words, key, c)
  BY <1>2, <1>3, <1>4, PartJoined
<1> QED BY <1>5 DEF PartsTogether, s, t, v, c

LEMMA TestingPart ==
  ASSUME NEW chain, Corpus!IsChain(chain)
  PROVE  \E words : PartSound(Corpus!generateTestingDocs(chain), "testing", words, chain.id)
<1> DEFINE key == "testing"
           word == "test-unit"
           names == <<"test-integration", "test-perf", "test-regression">>
           words == {names[i] : i \in 1..3}
           s == Corpus!Mapped(chain.sourceFiles, key, LAMBDA sf : <<word, chain.id, sf.id>>)
                  \o Corpus!Mapped(names, key, LAMBDA part : <<part, chain.id>>)
<1>1. DOMAIN names = 1..3 /\ 3 \in Nat /\ \A i, j \in 1..3 : names[i] = names[j] => i = j
  OBVIOUS
<1>2. WordsOf(words, key, key) /\ WordsOf({word}, key, key) /\ word \notin words
  BY DEF WordsOf, PartOf
<1>3. Corpus!generateTestingDocs(chain) = s
  BY DEF Corpus!generateTestingDocs
<1>4. words = {names[i] : i \in 1..3}
  OBVIOUS
<1> HIDE DEF key, word, names, words
<1>5. PartSound(s, key, {word} \cup words, chain.id)
  BY <1>1, <1>2, <1>4, FilesAndWords
<1> HIDE DEF s
<1>6. \E ws : PartSound(s, key, ws, chain.id)
  BY <1>5
<1> QED BY <1>3, <1>6 DEF key

LEMMA FeatureConsultingPart ==
  ASSUME NEW chain, Corpus!IsChain(chain)
  PROVE  \E words : PartSound(Corpus!generateFeatureConsultingDocs(chain), "feature_consulting",
                              words, chain.id)
<1> DEFINE key == "feature_consulting"
           word == "consult-api"
           names == <<"consult-config", "consult-bestpractice">>
           words == {names[i] : i \in 1..2}
           s == Corpus!Mapped(chain.sourceFiles, key, LAMBDA sf : <<word, chain.id, sf.id>>)
                  \o Corpus!Mapped(names, key, LAMBDA part : <<part, chain.id>>)
<1>1. DOMAIN names = 1..2 /\ 2 \in Nat /\ \A i, j \in 1..2 : names[i] = names[j] => i = j
  OBVIOUS
<1>2. WordsOf(words, key, key) /\ WordsOf({word}, key, key) /\ word \notin words
  BY DEF WordsOf, PartOf
<1>3. Corpus!generateFeatureConsultingDocs(chain) = s
  BY DEF Corpus!generateFeatureConsultingDocs
<1>4. words = {names[i] : i \in 1..2}
  OBVIOUS
<1> HIDE DEF key, word, names, words
<1>5. PartSound(s, key, {word} \cup words, chain.id)
  BY <1>1, <1>2, <1>4, FilesAndWords
<1> HIDE DEF s
<1>6. \E ws : PartSound(s, key, ws, chain.id)
  BY <1>5
<1> QED BY <1>3, <1>6 DEF key

(* The parts by their keys, and the order in which they are joined.        *)
DocsOf(chain) ==
  [overview |-> <<Corpus!generateOverview(chain)>>,
   source_file |-> Corpus!generateSourceFileDocs(chain),
   function |-> Corpus!generateFunctionDocs(chain),
   flow_complete |-> Corpus!generateFlowDocs(chain),
   cross_reference |-> Corpus!generateCrossReferenceDocs(chain),
   qa_pair |-> Corpus!generateQAPairDocs(chain),
   daily_ops |-> Corpus!generateDailyOpsDocs(chain),
   deep_troubleshoot |-> Corpus!generateDeepTroubleshootDocs(chain),
   incident_response |-> Corpus!generateIncidentResponseDocs(chain),
   testing |-> Corpus!generateTestingDocs(chain),
   architecture |-> Corpus!generateArchitectureDocs(chain),
   feature_consulting |-> Corpus!generateFeatureConsultingDocs(chain),
   product_learning |-> Corpus!generateProductLearningDocs(chain)]

KeyOrder == <<
  "overview", "source_file", "function", "flow_complete", "cross_reference", "qa_pair",
  "daily_ops", "deep_troubleshoot", "incident_response", "testing", "architecture",
  "feature_consulting", "product_learning">>

LEMMA KeysOrdered ==
  /\ Corpus!FilterKeys = {KeyOrder[i] : i \in 1..13}
  /\ \A i, j \in 1..13 : KeyOrder[i] = KeyOrder[j] => i = j
  /\ "flow_step" \notin Corpus!FilterKeys /\ Corpus!None \notin Corpus!FilterKeys
  /\ "overview" \in Corpus!FilterKeys /\ "flow_complete" \in Corpus!FilterKeys
<1>1. KeyOrder \in [1..13 -> Corpus!FilterKeys]
  BY DEF KeyOrder, Corpus!FilterKeys
<1>2. \A i, j \in 1..13 : KeyOrder[i] = KeyOrder[j] => i = j
  BY DEF KeyOrder
<1>3. \A key \in Corpus!FilterKeys : \E i \in 1..13 : KeyOrder[i] = key
  BY DEF KeyOrder, Corpus!FilterKeys
<1>4. /\ "flow_step" \notin Corpus!FilterKeys /\ Corpus!None \notin Corpus!FilterKeys
      /\ "overview" \in Corpus!FilterKeys /\ "flow_complete" \in Corpus!FilterKeys
  BY DEF Corpus!FilterKeys, Corpus!None
<1> QED BY <1>1, <1>2, <1>3, <1>4

LEMMA CorpusParts ==
  ASSUME NEW chain
  PROVE  /\ Corpus!generateRAGCorpus(chain).documents
              = Corpus!FlattenSeq([i \in 1..13 |-> DocsOf(chain)[KeyOrder[i]]])
         /\ Corpus!generateRAGCorpus(chain).stats
              = [docType \in Corpus!FilterKeys |-> Len(DocsOf(chain)[docType])]
         /\ Corpus!generateRAGCorpus(chain).total
              = Len(Corpus!generateRAGCorpus(chain).documents)
<1> DEFINE docs == DocsOf(chain)
           parts == [i \in 1..13 |-> docs[KeyOrder[i]]]
           joined == <<
             docs.overview, docs.source_file, docs.function, docs.flow_complete, docs.cross_reference,
             docs.qa_pair, docs.daily_ops, docs.deep_troubleshoot, docs.incident_response, docs.testing,
             docs.architecture, docs.feature_consulting, docs.product_learning >>
           documents == Corpus!FlattenSeq(joined)
           stats == [docType \in Corpus!FilterKeys |-> Len(docs[docType])]
<1>1. Corpus!generateRAGCorpus(chain)
        = [documents |-> documents, stats |-> stats, total |-> Len(documents)]
  BY DEF Corpus!generateRAGCorpus, DocsOf
<1> HIDE DEF docs
<1>2. joined = parts
  BY DEF KeyOrder
<1>3. documents = Corpus!FlattenSeq(parts)
  BY <1>2
<1> HIDE DEF documents, stats, parts, joined
<1>4. /\ Corpus!generateRAGCorpus(chain).documents = documents
      /\ Corpus!generateRAGCorpus(chain).stats = stats
      /\ Corpus!generateRAGCorpus(chain).total = Len(documents)
  BY <1>1
<1> QED BY <1>3, <1>4 DEF parts, stats, docs

LEMMA PartsSound ==
  ASSUME NEW chain, Corpus!IsChain(chain), NEW key \in Corpus!FilterKeys
  PROVE  \E words : PartSound(DocsOf(chain)[key], key, words, chain.id)
<1> DEFINE sound(s, k) == \E words : PartSound(s, k, words, chain.id)
           docs == DocsOf(chain)
<1>1. /\ docs.overview = <<Corpus!generateOverview(chain)>>
      /\ docs.source_file = Corpus!generateSourceFileDocs(chain)
      /\ docs.function = Corpus!generateFunctionDocs(chain)
      /\ docs.flow_complete = Corpus!generateFlowDocs(chain)
      /\ docs.cross_reference = Corpus!generateCrossReferenceDocs(chain)
      /\ docs.qa_pair = Corpus!generateQAPairDocs(chain)
      /\ docs.daily_ops = Corpus!generateDailyOpsDocs(chain)
      /\ docs.deep_troubleshoot = Corpus!generateDeepTroubleshootDocs(chain)
      /\ docs.incident_response = Corpus!generateIncidentResponseDocs(chain)
      /\ docs.testing = Corpus!generateTestingDocs(chain)
      /\ docs.architecture = Corpus!generateArchitectureDocs(chain)
      /\ docs.feature_consulting = Corpus!generateFeatureConsultingDocs(chain)
      /\ docs.product_learning = Corpus!generateProductLearningDocs(chain)
  BY DEF DocsOf
<1> HIDE DEF docs
<1>2. sound(docs.overview, "overview") /\ sound(docs.source_file, "source_file")
  BY <1>1, OverviewPart, SourceFilePart
<1>3. sound(docs.function, "function") /\ sound(docs.flow_complete, "flow_complete")
  BY <1>1, FunctionPart, FlowPart
<1>4. sound(docs.cross_reference, "cross_reference") /\ sound(docs.qa_pair, "qa_pair")
  BY <1>1, CrossReferencePart, QAPart
<1>5. sound(docs.daily_ops, "daily_ops") /\ sound(docs.deep_troubleshoot, "deep_troubleshoot")
  BY <1>1, DailyOpsPart, DeepTroubleshootPart
<1>6. sound(docs.incident_response, "incident_response") /\ sound(docs.testing, "testing")
  BY <1>1, IncidentPart, TestingPart
<1>7. sound(docs.architecture, "architecture") /\ sound(docs.feature_consulting, "feature_consulting")
      /\ sound(docs.product_learning, "product_learning")
  BY <1>1, ArchitecturePart, FeatureConsultingPart, ProductLearningPart
<1> HIDE DEF sound
<1>8. sound(docs[key], key)
  BY <1>2, <1>3, <1>4, <1>5, <1>6, <1>7 DEF Corpus!FilterKeys
<1> QED BY <1>8 DEF sound, docs

\* A document is the one of its id, and of the chain.
LEMMA DocsById ==
  ASSUME NEW chain, Corpus!IsChain(chain), NEW key \in Corpus!FilterKeys,
         NEW doc \in Corpus!ToSet(DocsOf(chain)[key])
  PROVE  /\ doc.id[2] = chain.id /\ PartOf(doc.id[1]) = key
         /\ doc = Corpus!Doc(IF doc.id[1] = "flow-step" THEN "flow_step" ELSE key, doc.id)
         /\ doc.docType = IF doc.id[1] = "flow-step" THEN "flow_step" ELSE key
<1>1. PICK words : PartSound(DocsOf(chain)[key], key, words, chain.id)
  BY PartsSound
<1>2. DocSound(doc, key, words, chain.id)
  BY <1>1 DEF PartSound
<1> DEFINE docType == IF doc.id[1] = "flow-step" THEN "flow_step" ELSE key
           id == doc.id
<1>3. doc = Corpus!Doc(docType, id) /\ id[2] = chain.id /\ PartOf(id[1]) = key
  BY <1>2 DEF DocSound
<1>4. doc.docType = docType
  <2> HIDE DEF docType, id
  <2> QED BY <1>3 DEF Corpus!Doc
<1> QED BY <1>3, <1>4

\* The documents are those of the parts, each once.
LEMMA DocumentsListed ==
  ASSUME NEW chain, Corpus!IsChain(chain),
         NEW docs, docs = Corpus!generateRAGCorpus(chain).documents
  PROVE  /\ docs \in Seq(Corpus!ToSet(docs)) /\ Corpus!Distinct(docs)
         /\ \A doc : doc \in Corpus!ToSet(docs)
                       <=> \E key \in Corpus!FilterKeys : doc \in Corpus!ToSet(DocsOf(chain)[key])
<1> DEFINE of(key) == DocsOf(chain)[key]
           parts == [i \in 1..13 |-> of(KeyOrder[i])]
           U == UNION {Corpus!ToSet(of(key)) : key \in Corpus!FilterKeys}
<1>1. docs = Corpus!FlattenSeq(parts)
  BY CorpusParts
<1> HIDE DEF of
<1>2. ASSUME NEW key \in Corpus!FilterKeys
      PROVE  of(key) \in Seq(U) /\ Corpus!Distinct(of(key))
  <2>1. of(key) \in Seq(Corpus!ToSet(of(key))) /\ Corpus!Distinct(of(key))
    BY PartsSound DEF PartSound, Corpus!IsList, of
  <2>2. Corpus!ToSet(of(key)) \subseteq U
    OBVIOUS
  <2> HIDE DEF U
  <2> QED BY <2>1, <2>2, SeqMonotonic
<1>3. \A i \in 1..13 : KeyOrder[i] \in Corpus!FilterKeys
  BY KeysOrdered
<1> HIDE DEF U
<1>4. parts \in Seq(Seq(U)) /\ Len(parts) = 13 /\ \A i \in 1..13 : parts[i] = of(KeyOrder[i])
  <2>1. parts \in [1..13 -> Seq(U)] /\ \A i \in 1..13 : parts[i] = of(KeyOrder[i])
    BY <1>2, <1>3
  <2> DEFINE N == 13
             S == Seq(U)
  <2>2. N \in Nat /\ parts \in [1..N -> S]
    BY <2>1
  <2> HIDE DEF parts, N, S
  <2>3. parts \in Seq(S)
    BY <2>2, SeqDef
  <2>4. Len(parts) = N
    BY <2>2, <2>3, LenProperties
  <2> QED BY <2>1, <2>3, <2>4 DEF N, S
<1> HIDE DEF parts
<1>5. AllApart(parts)
  <2>1. \A i \in 1..13 : Corpus!Distinct(parts[i])
    BY <1>2, <1>3, <1>4
  <2>2. ASSUME NEW i \in 1..13, NEW j \in 1..13, i # j
        PROVE  Corpus!ToSet(parts[i]) \cap Corpus!ToSet(parts[j]) = {}
    <3> SUFFICES ASSUME NEW doc \in Corpus!ToSet(parts[i]), doc \in Corpus!ToSet(parts[j]) PROVE FALSE
      OBVIOUS
    <3>1. ASSUME NEW k \in 1..13, doc \in Corpus!ToSet(parts[k]) PROVE PartOf(doc.id[1]) = KeyOrder[k]
      <4> DEFINE key == KeyOrder[k]
      <4>1. key \in Corpus!FilterKeys /\ doc \in Corpus!ToSet(DocsOf(chain)[key])
        BY <1>3, <1>4, <3>1 DEF of
      <4> HIDE DEF key
      <4>2. PartOf(doc.id[1]) = key
        BY <4>1, DocsById
      <4> QED BY <4>2 DEF key
    <3>2. PartOf(doc.id[1]) = KeyOrder[i] /\ PartOf(doc.id[1]) = KeyOrder[j]
      BY <3>1
    <3> QED BY <2>2, <3>2, KeysOrdered
  <2> QED BY <1>4, <2>1, <2>2 DEF AllApart
<1>6. /\ docs \in Seq(U) /\ Corpus!Distinct(docs)
      /\ Corpus!ToSet(docs) = UNION {Corpus!ToSet(parts[i]) : i \in 1..13}
  BY <1>1, <1>4, <1>5, FlattenedApart
<1>7. Corpus!ToSet(docs) = U
  BY <1>4, <1>6, KeysOrdered DEF U
<1> QED BY <1>6, <1>7 DEF U, of

\* Documents of a chain listed once have ids of their own, of the chain.
LEMMA DocsShown ==
  ASSUME NEW chain, Corpus!IsChain(chain),
         NEW docs, docs = Corpus!generateRAGCorpus(chain).documents,
         NEW list \in Seq(Corpus!ToSet(docs)), Corpus!Distinct(list)
  PROVE  /\ Corpus!Cardinality(Corpus!IdsOf(list)) = Len(list)
         /\ \A id \in Corpus!IdsOf(list) : id[2] = chain.id
<1>1. ASSUME NEW doc \in Corpus!ToSet(docs)
      PROVE  /\ doc.id[2] = chain.id
             /\ doc = Corpus!Doc(IF doc.id[1] = "flow-step" THEN "flow_step" ELSE PartOf(doc.id[1]), doc.id)
  <2>1. PICK key \in Corpus!FilterKeys : doc \in Corpus!ToSet(DocsOf(chain)[key])
    BY DocumentsListed
  <2>2. /\ doc.id[2] = chain.id /\ PartOf(doc.id[1]) = key
        /\ doc = Corpus!Doc(IF doc.id[1] = "flow-step" THEN "flow_step" ELSE key, doc.id)
    BY <2>1, DocsById
  <2> QED BY <2>2
<1>2. /\ DOMAIN list = 1..Len(list) /\ Len(list) \in Nat
      /\ \A i \in 1..Len(list) : list[i] \in Corpus!ToSet(docs)
  BY ElementOfSeq, LenProperties
<1>3. list \in Seq(Corpus!ToSet(list))
  <2>1. list \in [1..Len(list) -> Corpus!ToSet(list)]
    <3>1. list \in [1..Len(list) -> Corpus!ToSet(docs)]
      BY LenProperties
    <3>2. \A i \in 1..Len(list) : list[i] \in Corpus!ToSet(list)
      BY <1>2 DEF Corpus!ToSet
    <3> QED BY <3>1, <3>2
  <2> QED BY <1>2, <2>1, SeqDef
<1> DEFINE ids == Corpus!Ids(list)
<1>4. /\ ids \in Seq(Corpus!ToSet(ids)) /\ Len(ids) = Len(list)
      /\ \A i \in 1..Len(list) : ids[i] = list[i].id
  BY <1>3, IdsListed
<1> HIDE DEF ids
<1>5. Corpus!Distinct(ids)
  <2> SUFFICES ASSUME NEW i \in 1..Len(list), NEW j \in 1..Len(list), ids[i] = ids[j] PROVE i = j
    BY <1>4 DEF Corpus!Distinct
  <2>1. list[i].id = list[j].id
    BY <1>4
  <2>2. list[i] = list[j]
    BY <1>1, <1>2, <2>1
  <2> QED BY <2>2 DEF Corpus!Distinct
<1>6. Corpus!IdsOf(list) = Corpus!ToSet(ids)
  <2>1. Corpus!ToSet(ids) = {ids[i] : i \in 1..Len(list)}
    BY <1>4, LenProperties DEF Corpus!ToSet
  <2> QED BY <1>2, <1>4, <2>1 DEF Corpus!IdsOf
<1>7. Corpus!Cardinality(Corpus!IdsOf(list)) = Len(list)
  BY <1>4, <1>5, <1>6, CorpusCounts, DistinctCounted
<1> QED BY <1>1, <1>2, <1>7 DEF Corpus!IdsOf

\* Of each type there are as many as its part has, but for the steps of the flow.
LEMMA DocsOfType ==
  ASSUME NEW chain, Corpus!IsChain(chain), NEW key \in Corpus!FilterKeys,
         NEW docs, docs = Corpus!generateRAGCorpus(chain).documents,
         NEW S, S = {doc \in Corpus!ToSet(docs) : doc.docType = key}
  PROVE  Cardinality(S) = Len(DocsOf(chain)[key])
                            - (IF key = "flow_complete" THEN chain.flowSteps ELSE 0)
<1> DEFINE part == DocsOf(chain)[key]
<1>1. part \in Seq(Corpus!ToSet(part)) /\ Corpus!Distinct(part)
  BY PartsSound DEF PartSound, Corpus!IsList
<1>2. S = {doc \in Corpus!ToSet(part) : doc.docType = key}
  <2>1. ASSUME NEW doc \in S PROVE doc \in Corpus!ToSet(part)
    <3>1. PICK k \in Corpus!FilterKeys : doc \in Corpus!ToSet(DocsOf(chain)[k])
      BY DocumentsListed
    <3>2. doc.docType = IF doc.id[1] = "flow-step" THEN "flow_step" ELSE k
      BY <3>1, DocsById
    <3>3. k = key
      BY <3>2, KeysOrdered
    <3> QED BY <3>1, <3>3
  <2>2. \A doc \in Corpus!ToSet(part) : doc \in Corpus!ToSet(docs)
    BY DocumentsListed
  <2> HIDE DEF part
  <2> QED BY <2>1, <2>2
<1>3. CASE key = "flow_complete"
  <2>1. part = Corpus!generateFlowDocs(chain)
    BY <1>3 DEF DocsOf
  <2> HIDE DEF part
  <2> DEFINE flow == Corpus!Doc("flow_complete", <<"flow-complete", chain.id>>)
  <2>2. S = {flow} /\ Len(part) = 1 + chain.flowSteps
    BY <1>2, <1>3, <2>1, FlowPart
  <2> HIDE DEF flow
  <2>3. Cardinality(S) = 1
    BY <2>2, FS_Singleton
  <2>4. chain.flowSteps \in Nat
    BY DEF Corpus!IsChain
  <2> QED BY <1>3, <2>2, <2>3, <2>4 DEF part
<1>4. CASE key # "flow_complete"
  <2>1. ASSUME NEW doc \in Corpus!ToSet(part) PROVE doc.docType = key
    <3>1. /\ PartOf(doc.id[1]) = key
          /\ doc.docType = IF doc.id[1] = "flow-step" THEN "flow_step" ELSE key
      BY DocsById
    <3>2. PartOf("flow-step") = "flow_complete"
      BY DEF PartOf
    <3> QED BY <1>4, <3>1, <3>2
  <2> HIDE DEF part
  <2>2. S = Corpus!ToSet(part)
    BY <1>2, <2>1
  <2>3. Cardinality(S) = Len(part) /\ Len(part) \in Nat
    BY <1>1, <2>2, DistinctCounted, LenProperties
  <2> QED BY <1>4, <2>3 DEF part
<1> QED BY <1>3, <1>4

(* What the panel lists of all documents.                                  *)
Listed(docs, filter) ==
  IF filter = Corpus!None THEN docs
  ELSE Corpus!Only(docs, {doc \in Corpus!ToSet(docs) : doc.docType = filter})

\* A chain has documents: the one that introduces it.
LEMMA SomeDocs ==
  ASSUME NEW chain, Corpus!IsChain(chain),
         NEW docs, docs = Corpus!generateRAGCorpus(chain).documents
  PROVE  docs # <<>> /\ Corpus!generateRAGCorpus(chain) # Corpus!NoCorpus
<1> DEFINE part == DocsOf(chain)["overview"]
           doc == Corpus!generateOverview(chain)
<1>1. part = <<doc>>
  BY DEF DocsOf
<1> HIDE DEF part, doc
<1>2. doc \in Corpus!ToSet(part)
  BY <1>1 DEF Corpus!ToSet
<1>3. doc \in Corpus!ToSet(docs)
  BY <1>2, KeysOrdered, DocumentsListed DEF part
<1>4. docs # <<>>
  BY <1>3 DEF Corpus!ToSet
<1>5. Corpus!NoCorpus.documents = <<>>
  BY DEF Corpus!NoCorpus
<1> QED BY <1>4, <1>5

\* Under any filter whose button is shown, the list has something, and as much as that counts.
LEMMA ListedAsCounted ==
  ASSUME NEW chain, Corpus!IsChain(chain),
         NEW made, made = Corpus!generateRAGCorpus(chain),
         NEW filter, filter = Corpus!None \/ (filter \in Corpus!FilterKeys /\ made.stats[filter] > 0)
  PROVE  /\ Listed(made.documents, filter) # <<>>
         /\ Corpus!Cardinality(Corpus!IdsOf(Listed(made.documents, filter)))
              = Len(Listed(made.documents, filter))
         /\ \A id \in Corpus!IdsOf(Listed(made.documents, filter)) : id[2] = chain.id
         /\ Len(Listed(made.documents, filter))
              = IF filter = Corpus!None THEN made.total
                ELSE made.stats[filter] - (IF filter = "flow_complete" THEN chain.flowSteps ELSE 0)
<1> DEFINE docs == made.documents
           list == Listed(docs, filter)
           U == Corpus!ToSet(docs)
           S == {doc \in U : doc.docType = filter}
<1>1. docs \in Seq(U) /\ Corpus!Distinct(docs) /\ docs # <<>> /\ made.total = Len(docs)
  BY DocumentsListed, SomeDocs, CorpusParts
<1>2. list = IF filter = Corpus!None THEN docs ELSE Corpus!Only(docs, S)
  BY DEF Listed
<1>3. \A key \in Corpus!FilterKeys : made.stats[key] = Len(DocsOf(chain)[key])
  BY CorpusParts
<1>4. docs = Corpus!generateRAGCorpus(chain).documents
  OBVIOUS
<1> HIDE DEF docs, list, U
<1>5. CASE filter = Corpus!None
  <2>1. list = docs
    BY <1>2, <1>5
  <2>2. /\ Corpus!Cardinality(Corpus!IdsOf(docs)) = Len(docs)
        /\ \A id \in Corpus!IdsOf(docs) : id[2] = chain.id
    BY <1>1, <1>4, DocsShown DEF U
  <2> QED BY <1>1, <1>5, <2>1, <2>2 DEF list, docs
<1>6. CASE filter # Corpus!None
  <2>1. filter \in Corpus!FilterKeys /\ made.stats[filter] > 0 /\ list = Corpus!Only(docs, S)
    BY <1>2, <1>6
  <2> DEFINE n == Len(DocsOf(chain)[filter])
             steps == IF filter = "flow_complete" THEN chain.flowSteps ELSE 0
  <2>2. Cardinality(S) = n - steps
    BY <1>4, <2>1, DocsOfType DEF U
  <2>3. made.stats[filter] = n /\ n > 0
    BY <1>3, <2>1
  <2>4. filter = "flow_complete" => n = 1 + chain.flowSteps /\ chain.flowSteps \in Nat
    <3>1. DocsOf(chain)["flow_complete"] = Corpus!generateFlowDocs(chain)
      BY DEF DocsOf
    <3> QED BY <3>1, FlowPart DEF Corpus!IsChain
  <2> HIDE DEF n, S
  <2>5. list \in Seq(U) /\ Corpus!ToSet(list) = U \cap S /\ Corpus!Distinct(list)
    BY <1>1, <2>1, OnlyKeeps DEF U
  <2>6. Corpus!ToSet(list) = S
    BY <2>5 DEF S
  <2>7. Len(list) = n - steps
    BY <2>2, <2>5, <2>6, DistinctCounted
  <2>8. list # <<>>
    <3>1. n - steps # 0
      BY <2>3, <2>4
    <3> QED BY <2>7, <3>1
  <2>9. /\ Corpus!Cardinality(Corpus!IdsOf(list)) = Len(list)
        /\ \A id \in Corpus!IdsOf(list) : id[2] = chain.id
    BY <1>4, <2>5, DocsShown DEF U
  <2> QED BY <1>6, <2>3, <2>7, <2>8, <2>9 DEF list, docs
<1> QED BY <1>5, <1>6

-----------------------------------------------------------------------------
(* The panel has the documents of the selected chain or none, and then no  *)
(* filter; the graph is laid out for the selected chain.                   *)
PanelSound ==
  IF corpus = Corpus!NoCorpus THEN activeType = Corpus!None /\ expanded = {}
  ELSE /\ corpus = Corpus!generateRAGCorpus(Corpus!selectedChain)
       /\ \/ activeType = Corpus!None
          \/ activeType \in Corpus!FilterKeys /\ corpus.stats[activeType] > 0
       /\ expanded \subseteq Corpus!IdsOf(Corpus!filteredDocs(activeType))

CorpusInv ==
  /\ chains \in Corpora /\ selectedChainId \in DOMAIN chains
  /\ positions = Corpus!layout(Corpus!selectedChain)
  /\ PanelSound

LEMMA ChainsAreSound ==
  ASSUME NEW c \in Corpora
  PROVE  DOMAIN c = 1..Len(c) /\ 1 \in DOMAIN c /\ \A i \in DOMAIN c : Corpus!IsChain(c[i])
<1>1. c # <<>> /\ Corpus!IsList(c) /\ \A i \in 1..Len(c) : Corpus!IsChain(c[i])
  BY PagesAssumption DEF Corpus!CorporaAssumption
<1>2. c \in Seq(Corpus!ToSet(c))
  BY <1>1 DEF Corpus!IsList
<1>3. DOMAIN c = 1..Len(c) /\ Len(c) \in Nat /\ Len(c) # 0
  BY <1>1, <1>2, LenProperties, EmptySeq
<1> QED BY <1>1, <1>3

LEMMA CorpusInitially == Corpus!Init => CorpusInv
<1> SUFFICES ASSUME Corpus!Init PROVE CorpusInv
  OBVIOUS
<1>1. chains \in Corpora /\ selectedChainId \in DOMAIN chains
  BY ChainsAreSound DEF Corpus!Init
<1>2. PanelSound
  BY DEF Corpus!Init, PanelSound
<1> QED BY <1>1, <1>2 DEF CorpusInv, Corpus!Init

\* Another chain is laid out as it is selected, with the panel emptied.
LEMMA SelectChainKeeps ==
  ASSUME CorpusInv, NEW i \in DOMAIN chains, Corpus!SelectChain(i)
  PROVE  CorpusInv'
<1>1. chains' = chains /\ selectedChainId' = i /\ positions' = Corpus!layout(chains[i])
  BY DEF Corpus!SelectChain
<1>2. PanelSound'
  <2>1. CASE i = selectedChainId
    <3>1. UNCHANGED <<chains, selectedChainId, corpus, activeType, expanded>>
      BY <1>1, <2>1 DEF Corpus!SelectChain, Corpus!FilterAfter
    <3> QED BY <3>1 DEF CorpusInv, PanelSound, Corpus!selectedChain, Corpus!filteredDocs
  <2>2. CASE i # selectedChainId
    <3>1. corpus' = Corpus!NoCorpus /\ expanded' = {} /\ activeType' = Corpus!None
      BY <2>2 DEF Corpus!SelectChain, Corpus!FilterAfter
    <3> QED BY <3>1 DEF PanelSound
  <2> QED BY <2>1, <2>2
<1> QED BY <1>1, <1>2 DEF CorpusInv, Corpus!selectedChain

LEMMA ShowTypeKeeps ==
  ASSUME CorpusInv, Corpus!generated, NEW shown, Corpus!ShowType(shown),
         shown = Corpus!None \/ (shown \in Corpus!FilterKeys /\ corpus.stats[shown] > 0)
  PROVE  CorpusInv'
<1>1. /\ activeType' = shown /\ corpus' = corpus
      /\ expanded' \subseteq Corpus!IdsOf(Corpus!filteredDocs(shown))
      /\ UNCHANGED <<chains, selectedChainId, positions>>
  BY DEF Corpus!ShowType, Corpus!PageUnchanged
<1>2. Corpus!IdsOf(Corpus!filteredDocs(activeType))' = Corpus!IdsOf(Corpus!filteredDocs(shown))
  BY <1>1 DEF Corpus!filteredDocs, Corpus!IdsOf
<1>3. PanelSound'
  BY <1>1, <1>2 DEF CorpusInv, PanelSound, Corpus!generated, Corpus!selectedChain
<1> QED BY <1>1, <1>3 DEF CorpusInv, Corpus!selectedChain

LEMMA CorpusKept == CorpusInv /\ [Corpus!Next]_(Corpus!vars) => CorpusInv'
<1> SUFFICES ASSUME CorpusInv, [Corpus!Next]_(Corpus!vars) PROVE CorpusInv'
  OBVIOUS
<1> DEFINE chain == Corpus!selectedChain
<1>0. Corpus!IsChain(chain)
  BY ChainsAreSound DEF CorpusInv, Corpus!selectedChain
<1>1. ASSUME NEW id, Corpus!ShowFile(id) PROVE CorpusInv'
  BY <1>1 DEF Corpus!ShowFile, CorpusInv, PanelSound, Corpus!selectedChain, Corpus!filteredDocs
<1>2. ASSUME Corpus!Generate PROVE CorpusInv'
  <2>1. /\ corpus' = Corpus!generateRAGCorpus(chain) /\ corpus = Corpus!NoCorpus
        /\ UNCHANGED <<activeType, expanded, chains, selectedChainId, positions>>
    BY <1>2 DEF Corpus!Generate, Corpus!PageUnchanged, Corpus!generated
  <2>2. activeType = Corpus!None /\ expanded = {}
    BY <2>1 DEF CorpusInv, PanelSound
  <2>3. PanelSound'
    BY <2>1, <2>2 DEF PanelSound, Corpus!selectedChain
  <2> QED BY <2>1, <2>3 DEF CorpusInv, Corpus!selectedChain
<1>3. ASSUME Corpus!Regenerate PROVE CorpusInv'
  BY <1>3 DEF Corpus!Regenerate, Corpus!PageUnchanged, CorpusInv, PanelSound, Corpus!selectedChain
<1>4. ASSUME NEW key \in Corpus!FilterKeys, Corpus!SelectType(key) PROVE CorpusInv'
  <2> DEFINE shown == IF activeType = key THEN Corpus!None ELSE key
  <2>1. Corpus!generated /\ corpus.stats[key] > 0 /\ Corpus!ShowType(shown)
    BY <1>4 DEF Corpus!SelectType
  <2>2. shown = Corpus!None \/ (shown \in Corpus!FilterKeys /\ corpus.stats[shown] > 0)
    BY <2>1
  <2> HIDE DEF shown
  <2> QED BY <2>1, <2>2, ShowTypeKeeps
<1>5. ASSUME Corpus!SelectAll PROVE CorpusInv'
  <2> DEFINE shown == Corpus!None
  <2>1. Corpus!generated /\ Corpus!ShowType(shown)
    BY <1>5 DEF Corpus!SelectAll
  <2> QED BY <2>1, ShowTypeKeeps
<1>6. ASSUME NEW id \in Corpus!IdsOf(Corpus!filteredDocs(activeType)), Corpus!ToggleDocument(id)
      PROVE  CorpusInv'
  <2>1. /\ corpus # Corpus!NoCorpus /\ expanded' \subseteq expanded \cup {id}
        /\ UNCHANGED <<corpus, activeType, chains, selectedChainId, positions>>
    BY <1>6 DEF Corpus!ToggleDocument, Corpus!PageUnchanged, Corpus!generated
  <2>2. Corpus!IdsOf(Corpus!filteredDocs(activeType))' = Corpus!IdsOf(Corpus!filteredDocs(activeType))
    BY <2>1 DEF Corpus!filteredDocs, Corpus!IdsOf
  <2>3. PanelSound'
    BY <1>6, <2>1, <2>2 DEF CorpusInv, PanelSound, Corpus!selectedChain
  <2> QED BY <2>1, <2>3 DEF CorpusInv, Corpus!selectedChain
<1>7. CASE UNCHANGED Corpus!vars
  BY <1>7 DEF Corpus!vars, CorpusInv, PanelSound, Corpus!selectedChain, Corpus!filteredDocs
<1>8. CASE Corpus!Next
  BY <1>1, <1>2, <1>3, <1>4, <1>5, <1>6, <1>8, SelectChainKeeps
     DEF Corpus!Next, Corpus!handleNodeClick, Corpus!CloseCode
<1> QED BY <1>7, <1>8

\* For any corpora of call chains: whatever is clicked, the panel lists as many documents
\* of the selected chain as the button of its filter counts, and every file is in the row
\* of the longest path of calls to it, apart from the others.
THEOREM CorpusAlwaysShown == Spec => []CorpusShown
<1>1. CorpusInv => Corpus!ListAsCounted
  <2> SUFFICES ASSUME CorpusInv, Corpus!generated PROVE Corpus!ListAsCounted
    BY DEF Corpus!ListAsCounted
  <2> DEFINE chain == Corpus!selectedChain
             list == Listed(corpus.documents, activeType)
  <2>1. /\ Corpus!IsChain(chain) /\ corpus = Corpus!generateRAGCorpus(chain)
        /\ activeType = Corpus!None \/ (activeType \in Corpus!FilterKeys /\ corpus.stats[activeType] > 0)
        /\ expanded \subseteq Corpus!IdsOf(Corpus!filteredDocs(activeType))
    BY ChainsAreSound DEF CorpusInv, PanelSound, Corpus!generated, Corpus!selectedChain
  <2>2. Corpus!filteredDocs(activeType) = list
    BY DEF Corpus!filteredDocs, Listed
  <2> HIDE DEF chain
  <2>3. /\ list # <<>> /\ Corpus!Cardinality(Corpus!IdsOf(list)) = Len(list)
        /\ \A id \in Corpus!IdsOf(list) : id[2] = chain.id
        /\ Len(list)
             = IF activeType = Corpus!None THEN corpus.total
               ELSE corpus.stats[activeType]
                      - (IF activeType = "flow_complete" THEN chain.flowSteps ELSE 0)
    BY <2>1, ListedAsCounted
  <2> HIDE DEF list
  <2> QED BY <2>1, <2>2, <2>3 DEF Corpus!ListAsCounted, chain
<1>2. CorpusInv => Corpus!LayoutByLongestPath
  <2> SUFFICES ASSUME CorpusInv PROVE Corpus!LayoutByLongestPath
    OBVIOUS
  <2> DEFINE chain == Corpus!selectedChain
             F == Corpus!FileIds(chain)
             n == Cardinality(F)
             offCycles == F \ Corpus!PathEnds(chain, F)[n]
  <2>1. Corpus!IsChain(chain) /\ positions = Corpus!layout(chain)
    BY ChainsAreSound DEF CorpusInv, Corpus!selectedChain
  <2>2. /\ \A id \in F :
             positions[id].y
               = Corpus!Max({k \in 0..n : id \in Corpus!PathEnds(chain, offCycles)[k]})
        /\ Corpus!IsInjective(positions)
    BY <2>1, LayoutOfChain
  <2> QED BY <2>2, CorpusCounts DEF Corpus!LayoutByLongestPath
<1>3. Init => CorpusInv
  BY GroupsApart, CorpusInitially
<1>4. CorpusInv /\ [Next]_vars => CorpusInv'
  BY GroupsApart, CorpusKept
<1>5. CorpusInv => CorpusShown
  BY <1>1, <1>2 DEF CorpusShown
<1> QED BY <1>3, <1>4, <1>5, PTL DEF Spec

-----------------------------------------------------------------------------
(* The shipped fault trees: what TreeEditorProofs shows of diagrams, for   *)
(* the events and gates of the pages of the workflows.                     *)

EventSet ==
  {Workflows!Top, Workflows!Dropped}
    \cup {Workflows!Mid(i) : i \in 1..9} \cup {Workflows!Basic(i) : i \in 1..9}

Editor == INSTANCE TreeEditorProofs WITH
  Events <- EventSet, Gates <- {Workflows!GateNode(i) : i \in 1..9}, None <- Workflows!None,
  Trees <- {}, OthersTrees <- {}, Heights <- {}, MaxPast <- 0, EditBound <- 0,
  server <- 0, cache <- 0, fetch <- 0, save <- 0, shown <- 0, past <- 0, future <- 0, dirty <- 0,
  used <- 0, edits <- 0, strayed <- 0

GateSet == {Workflows!GateNode(i) : i \in 1..9}

LEMMA EditorGiven ==
  /\ Editor!DiagramsAssumption
  /\ \A tree \in {} \cup {} : Editor!WellFormed(tree)
  /\ {} \subseteq Nat /\ 0 \in Nat
<1>1. Editor!DiagramsAssumption
  BY DEF Editor!DiagramsAssumption, EventSet, Workflows!Top, Workflows!Dropped, Workflows!Mid,
         Workflows!Basic, Workflows!GateNode, Workflows!None, Workflows!Node
<1> QED BY <1>1

\* Both modules draw, lay out and save a tree alike.
LEMMA SameSelections ==
  /\ \A s, S : Workflows!Diagrams!Only(s, S) = Editor!Only(s, S)
  /\ \A S : Workflows!Diagrams!Cardinality(S) = Editor!Cardinality(S)
  /\ \A s : Workflows!Diagrams!ToSet(s) = Editor!ToSet(s)
  /\ \A S : Workflows!Diagrams!Highest(S) = Editor!Highest(S)
<1>1. \A s, S : Workflows!Diagrams!Only(s, S) = Editor!Only(s, S)
  BY DEF Workflows!Diagrams!Only, Editor!Only
<1>2. \A S : Workflows!Diagrams!Cardinality(S) = Editor!Cardinality(S)
  BY Zenon DEF Workflows!Diagrams!Cardinality, Editor!Cardinality
<1>3. \A s : Workflows!Diagrams!ToSet(s) = Editor!ToSet(s)
  BY DEF Workflows!Diagrams!ToSet, Editor!ToSet
<1>4. \A S : Workflows!Diagrams!Highest(S) = Editor!Highest(S)
  BY DEF Workflows!Diagrams!Highest, Editor!Highest
<1> QED BY <1>1, <1>2, <1>3, <1>4

LEMMA SameDepths ==
  ASSUME NEW ids, NEW root, NEW next
  PROVE  Workflows!Diagrams!Depths(ids, root, next) = Editor!Depths(ids, root, next)
<1> DEFINE K == Editor!Cardinality(ids)
<1>1. Workflows!Diagrams!Cardinality(ids) = K
  BY SameSelections
<1> HIDE DEF K
<1>2. Editor!Cardinality(ids) = K
  BY DEF K
<1> QED BY <1>1, <1>2, SMT DEF Workflows!Diagrams!Depths, Editor!Depths

LEMMA SameDiagrams ==
  ASSUME NEW tree
  PROVE  Workflows!Diagrams!Flow(tree) = Editor!Flow(tree)
<1>1. \A e : Workflows!Diagrams!GateInputs(tree, e) = Editor!GateInputs(tree, e)
  BY SameSelections DEF Workflows!Diagrams!GateInputs, Editor!GateInputs
<1>2. Workflows!Diagrams!EventIds(tree) = Editor!EventIds(tree)
  BY DEF Workflows!Diagrams!EventIds, Editor!EventIds
<1>3. Workflows!Diagrams!EventDepth(tree) = Editor!EventDepth(tree)
  BY <1>1, <1>2, SameDepths DEF Workflows!Diagrams!EventDepth, Editor!EventDepth
<1>4. \A depth, g : Workflows!Diagrams!GateHeight(depth, g) = Editor!GateHeight(depth, g)
  BY SameSelections DEF Workflows!Diagrams!GateHeight, Editor!GateHeight
<1>5. \A s : Workflows!Diagrams!FlattenSeq(s) = Editor!FlattenSeq(s)
  BY DEF Workflows!Diagrams!FlattenSeq, Editor!FlattenSeq
<1> QED BY <1>3, <1>4, <1>5 DEF Workflows!Diagrams!Flow, Editor!Flow

LEMMA SameNodes ==
  ASSUME NEW d
  PROVE  /\ Workflows!Diagrams!NodeIds(d) = Editor!NodeIds(d)
         /\ Workflows!Diagrams!Entered(d) = Editor!Entered(d)
         /\ \A id : Workflows!Diagrams!Node(d, id) = Editor!Node(d, id)
         /\ \A ids : Workflows!Diagrams!NodesOf(d, ids) = Editor!NodesOf(d, ids)
         /\ Workflows!Diagrams!EventNodes(d) = Editor!EventNodes(d)
<1>1. Workflows!Diagrams!NodeIds(d) = Editor!NodeIds(d)
  BY DEF Workflows!Diagrams!NodeIds, Editor!NodeIds
<1>2. Workflows!Diagrams!Entered(d) = Editor!Entered(d)
  BY DEF Workflows!Diagrams!Entered, Editor!Entered
<1>3. \A id : Workflows!Diagrams!Node(d, id) = Editor!Node(d, id)
  BY DEF Workflows!Diagrams!Node, Editor!Node
<1>4. \A ids : Workflows!Diagrams!NodesOf(d, ids) = Editor!NodesOf(d, ids)
  BY SameSelections DEF Workflows!Diagrams!NodesOf, Editor!NodesOf
<1>5. Workflows!Diagrams!EventNodes(d) = Editor!EventNodes(d)
  BY <1>4 DEF Workflows!Diagrams!EventNodes, Editor!EventNodes, EventSet
<1> QED BY <1>1, <1>2, <1>3, <1>4, <1>5

LEMMA SameLayouts ==
  ASSUME NEW d
  PROVE  Workflows!Diagrams!LaidOut(d) = Editor!LaidOut(d)
<1>1. Workflows!Diagrams!LayoutRoot(d) = Editor!LayoutRoot(d)
  BY SameNodes DEF Workflows!Diagrams!LayoutRoot, Editor!LayoutRoot
<1> DEFINE ids == Editor!NodeIds(d)
           next == [i \in ids |-> {e[2] : e \in {f \in Editor!ToSet(d.edges) : f[1] = i}}]
           nexts == [i \in Workflows!Diagrams!NodeIds(d) |->
                       {e[2] : e \in {f \in Workflows!Diagrams!ToSet(d.edges) : f[1] = i}}]
           depth == Editor!Depths(ids, Editor!LayoutRoot(d), next)
           depths == Workflows!Diagrams!Depths(Workflows!Diagrams!NodeIds(d),
                                               Workflows!Diagrams!LayoutRoot(d), nexts)
<1>2. nexts = next
  BY SameNodes, SameSelections
<1>3. depths = depth
  <2> HIDE DEF next, nexts
  <2> QED BY <1>1, <1>2, SameNodes, SameDepths
<1>4. Editor!LaidOut(d) =
        [d EXCEPT !.nodes =
           [i \in DOMAIN d.nodes |-> [d.nodes[i] EXCEPT !.y = 2 * depth[d.nodes[i].id]]]]
  BY DEF Editor!LaidOut
<1>5. Workflows!Diagrams!LaidOut(d) =
        [d EXCEPT !.nodes =
           [i \in DOMAIN d.nodes |-> [d.nodes[i] EXCEPT !.y = 2 * depths[d.nodes[i].id]]]]
  BY DEF Workflows!Diagrams!LaidOut
<1> HIDE DEF depth, depths
<1> QED BY <1>3, <1>4, <1>5

LEMMA SameSaves ==
  ASSUME NEW d
  PROVE  Workflows!Diagrams!Saved(d) = Editor!Saved(d)
<1>1. Workflows!Diagrams!TopEvent(d) = Editor!TopEvent(d)
  <2> DEFINE s == Editor!EventNodes(d)
             marked == Editor!Only(s, {n \in Editor!ToSet(s) : n.top})
             roots == Editor!Only(s, {n \in Editor!ToSet(s) : n.id \notin Editor!Entered(d)})
  <2>1. /\ s = Workflows!Diagrams!EventNodes(d)
        /\ Editor!ToSet(s) = Workflows!Diagrams!ToSet(s)
        /\ Editor!Entered(d) = Workflows!Diagrams!Entered(d)
    BY SameNodes, SameSelections
  <2> DEFINE S == {n \in Workflows!Diagrams!ToSet(s) : n.top}
             R == {n \in Workflows!Diagrams!ToSet(s) : n.id \notin Workflows!Diagrams!Entered(d)}
  <2>2. marked = Workflows!Diagrams!Only(s, S) /\ roots = Workflows!Diagrams!Only(s, R)
    <3>1. \A T : Workflows!Diagrams!Only(s, T) = Editor!Only(s, T)
      BY SameSelections
    <3> HIDE DEF s
    <3> QED BY <2>1, <3>1
  <2>3. Editor!TopEvent(d) = IF marked # <<>> THEN marked[1].id
                             ELSE IF roots # <<>> THEN roots[1].id
                             ELSE IF s # <<>> THEN s[1].id ELSE Workflows!None
    BY DEF Editor!TopEvent
  <2> HIDE DEF marked, roots, s
  <2> QED BY <2>1, <2>2, <2>3 DEF Workflows!Diagrams!TopEvent
<1>2. ASSUME NEW g PROVE Workflows!Diagrams!Joined(d, g) = Editor!Joined(d, g)
  <2> DEFINE other(e) == IF e[1] = g THEN e[2] ELSE e[1]
             evs == Editor!NodeIds(d) \cap EventSet
             near == Editor!Only(d.edges, {e \in Editor!ToSet(d.edges) :
                                             g \in {e[1], e[2]} /\ other(e) \in evs})
             evs2 == Workflows!Diagrams!NodeIds(d) \cap EventSet
             near2 == Workflows!Diagrams!Only(d.edges, {e \in Workflows!Diagrams!ToSet(d.edges) :
                                             g \in {e[1], e[2]} /\ other(e) \in evs2})
  <2>1. evs2 = evs /\ Workflows!Diagrams!ToSet(d.edges) = Editor!ToSet(d.edges)
    BY SameNodes, SameSelections
  <2>2. near2 = near
    <3> HIDE DEF evs, evs2
    <3> QED BY <2>1, SameSelections
  <2>3. Editor!Joined(d, g) = [i \in DOMAIN near |-> other(near[i])]
    BY DEF Editor!Joined
  <2>4. Workflows!Diagrams!Joined(d, g) = [i \in DOMAIN near2 |-> other(near2[i])]
    BY DEF Workflows!Diagrams!Joined, EventSet
  <2> HIDE DEF near, near2, other
  <2> QED BY <2>2, <2>3, <2>4
<1>3. \A e, g : Workflows!Diagrams!Above(d, e, g) = Editor!Above(d, e, g)
  BY SameNodes DEF Workflows!Diagrams!Above, Editor!Above
<1>4. ASSUME NEW g PROVE Workflows!Diagrams!SavedGate(d, g) = Editor!SavedGate(d, g)
  <2> DEFINE s == Editor!Joined(d, g)
             above == {e \in Editor!ToSet(s) : Editor!Above(d, e, g)}
             outputs == Editor!Only(s, above)
             inputs == Editor!Only(s, Editor!ToSet(s) \ above)
             above2 == {e \in Workflows!Diagrams!ToSet(s) : Workflows!Diagrams!Above(d, e, g)}
  <2>1. Workflows!Diagrams!Joined(d, g) = s
    BY <1>2
  <2>2. Editor!SavedGate(d, g) =
          [id |-> g, output |-> IF outputs = <<>> THEN Workflows!None ELSE outputs[1],
           inputs |-> inputs]
    BY DEF Editor!SavedGate
  <2> HIDE DEF s
  <2>3. above2 = above
    BY <1>3, SameSelections
  <2>4. /\ outputs = Workflows!Diagrams!Only(s, above2)
        /\ inputs = Workflows!Diagrams!Only(s, Workflows!Diagrams!ToSet(s) \ above2)
    <3> HIDE DEF above, above2
    <3> QED BY <2>3, SameSelections
  <2> HIDE DEF inputs, outputs
  <2> QED BY <2>1, <2>2, <2>4 DEF Workflows!Diagrams!SavedGate
<1> QED BY <1>1, <1>4, SameNodes DEF Workflows!Diagrams!Saved, Editor!Saved

-----------------------------------------------------------------------------
(* The trees that are shipped.                                             *)

Mids(m) == {Workflows!Mid(k) : k \in 1..m}
Basics(b) == {Workflows!Basic(k) : k \in 1..b}

\* The gates of a tree with m intermediate and b basic events: one joins all intermediate
\* events to the top event, others some basic events to an intermediate one.
TwoLevels(m, b, gs) ==
  /\ m \in 1..9 /\ b \in 1..9 /\ Len(gs) \in 1..9
  /\ gs = [i \in 1..Len(gs) |-> [output |-> gs[i].output, inputs |-> gs[i].inputs]]
  /\ gs[1].output = Workflows!Top
  /\ gs[1].inputs \in Seq(Mids(m)) /\ Editor!ToSet(gs[1].inputs) = Mids(m)
  /\ \A i \in 2..Len(gs) : /\ gs[i].output \in Mids(m)
                           /\ gs[i].inputs \in Seq(Basics(b)) /\ gs[i].inputs # <<>>
  /\ \A i, j \in 2..Len(gs) : gs[i].output = gs[j].output => i = j

LEMMA LevelsFound ==
  ASSUME NEW ids, IsFiniteSet(ids), NEW root \in ids, NEW next \in [ids -> SUBSET ids],
         NEW level \in [ids -> Nat], level[root] = 0,
         \A i \in ids : \A j \in next[i] : level[j] = level[i] + 1,
         \A j \in ids : level[j] > 0 => \E i \in ids : j \in next[i],
         \A i \in ids \ {root} : level[i] = 0 => next[i] = {}
  PROVE  \A i \in ids : Editor!Depths(ids, root, next)[i] = level[i]
<1>1. Editor!IsFiniteSet(ids)
  BY DEF Editor!IsFiniteSet, IsFiniteSet
<1> QED BY <1>1, EditorGiven, Editor!LevelsAreFound

LEMMA TwoLevelTree ==
  ASSUME NEW m, NEW b, NEW gs, TwoLevels(m, b, gs)
  PROVE  /\ Editor!Drawable(Workflows!FaultTree(m, b, gs))
         /\ Workflows!FaultTree(m, b, gs).top = Workflows!Top
<1> DEFINE tree == Workflows!FaultTree(m, b, gs)
           ids == {Workflows!Top} \cup Mids(m) \cup Basics(b)
           n == Len(gs)
           N == 1 + m + b
           ToId(i) == CASE i = 1 -> Workflows!Top
                        [] i \in 2..(1 + m) -> Workflows!Mid(i - 1)
                        [] OTHER -> Workflows!Basic(i - 1 - m)
           depth == Editor!EventDepth(tree)
<1>0. /\ m \in 1..9 /\ b \in 1..9 /\ n \in 1..9
      /\ DOMAIN gs = 1..n
  BY DEF TwoLevels
<1>1. /\ tree.top = Workflows!Top
      /\ tree.events = [i \in 1..N |-> [id |-> ToId(i), top |-> i = 1]]
      /\ tree.gates = [i \in 1..n |-> [id |-> Workflows!GateNode(i), output |-> gs[i].output,
                                       inputs |-> gs[i].inputs]]
      /\ tree = [top |-> tree.top, events |-> tree.events, gates |-> tree.gates]
  BY <1>0 DEF Workflows!FaultTree
<1>2. /\ \A k \in 1..9 : /\ Workflows!Mid(k) # Workflows!Top /\ Workflows!GateNode(k) # Workflows!Top
                          /\ \A l \in 1..9 : /\ Workflows!Mid(k) # Workflows!Basic(l)
                                             /\ Workflows!Mid(k) = Workflows!Mid(l) => k = l
                                             /\ Workflows!Basic(k) = Workflows!Basic(l) => k = l
                                             /\ Workflows!GateNode(k) = Workflows!GateNode(l) => k = l
                          /\ Workflows!Basic(k) # Workflows!Top
  BY DEF Workflows!Mid, Workflows!Basic, Workflows!Top, Workflows!GateNode, Workflows!Node
<1> HIDE DEF tree
<1>3. /\ ToId(1) = Workflows!Top /\ 1 \in 1..N
      /\ \A k \in 1..m : k + 1 \in 1..N /\ ToId(k + 1) = Workflows!Mid(k)
      /\ \A k \in 1..b : k + 1 + m \in 1..N /\ ToId(k + 1 + m) = Workflows!Basic(k)
  <2>1. ASSUME NEW k \in 1..m PROVE k + 1 \in 1..N /\ ToId(k + 1) = Workflows!Mid(k)
    <3>1. k + 1 \in 1..N /\ k + 1 \in 2..(1 + m) /\ k + 1 # 1 /\ (k + 1) - 1 = k
      BY <1>0
    <3> QED BY <3>1
  <2>2. ASSUME NEW k \in 1..b PROVE k + 1 + m \in 1..N /\ ToId(k + 1 + m) = Workflows!Basic(k)
    <3>1. /\ k + 1 + m \in 1..N /\ k + 1 + m \notin 2..(1 + m) /\ k + 1 + m # 1
          /\ (k + 1 + m) - 1 - m = k
      BY <1>0
    <3> QED BY <3>1
  <2> QED BY <1>0, <2>1, <2>2
<1>13. ASSUME NEW i \in 1..N
       PROVE  \/ i = 1
              \/ \E k \in 1..m : i = k + 1
              \/ \E k \in 1..b : i = k + 1 + m
  <2>1. CASE i \in 2..(1 + m)
    <3>1. i - 1 \in 1..m /\ i = (i - 1) + 1
      BY <1>0, <2>1
    <3> QED BY <3>1
  <2>2. CASE i \notin 2..(1 + m) /\ i # 1
    <3>1. i - 1 - m \in 1..b /\ i = (i - 1 - m) + 1 + m
      BY <1>0, <2>2
    <3> QED BY <3>1
  <2> QED BY <2>1, <2>2
<1> HIDE DEF ToId
<1>4. \A i \in 1..N : ToId(i) \in ids
  BY <1>3, <1>13 DEF Mids, Basics
<1>5. Editor!EventIds(tree) = ids
  <2>1. Editor!EventIds(tree) = {ToId(i) : i \in 1..N}
    BY <1>1 DEF Editor!EventIds
  <2>2. \A e \in ids : \E i \in 1..N : e = ToId(i)
    <3>1. 1 \in 1..N
      BY <1>0
    <3> QED BY <1>3, <3>1 DEF Mids, Basics
  <2> HIDE DEF ids
  <2> QED BY <1>4, <2>1, <2>2
<1>6. ASSUME NEW i \in 1..N, NEW j \in 1..N, ToId(i) = ToId(j) PROVE i = j
  <2>1. \A k \in 1..m : k \in 1..9
    BY <1>0
  <2>2. \A k \in 1..b : k \in 1..9
    BY <1>0
  <2>3. CASE i = 1
    <3>1. ASSUME NEW k \in 1..m, j = k + 1 PROVE FALSE
      BY <1>2, <1>3, <1>6, <2>1, <2>3, <3>1
    <3>2. ASSUME NEW k \in 1..b, j = k + 1 + m PROVE FALSE
      BY <1>2, <1>3, <1>6, <2>2, <2>3, <3>2
    <3> QED BY <1>13, <2>3, <3>1, <3>2
  <2>4. ASSUME NEW k \in 1..m, i = k + 1 PROVE i = j
    <3>0. ToId(i) = Workflows!Mid(k) /\ k \in 1..9
      BY <1>3, <2>1, <2>4
    <3>1. j # 1
      BY <1>2, <1>3, <1>6, <3>0
    <3>2. ASSUME NEW l \in 1..m, j = l + 1 PROVE i = j
      <4>1. ToId(j) = Workflows!Mid(l) /\ l \in 1..9
        BY <1>3, <2>1, <3>2
      <4>2. k = l
        BY <1>2, <1>6, <3>0, <4>1
      <4> QED BY <2>4, <3>2, <4>2
    <3>3. ASSUME NEW l \in 1..b, j = l + 1 + m PROVE FALSE
      <4>1. ToId(j) = Workflows!Basic(l) /\ l \in 1..9
        BY <1>3, <2>2, <3>3
      <4> QED BY <1>2, <1>6, <3>0, <4>1
    <3> QED BY <1>13, <3>1, <3>2, <3>3
  <2>5. ASSUME NEW k \in 1..b, i = k + 1 + m PROVE i = j
    <3>0. ToId(i) = Workflows!Basic(k) /\ k \in 1..9
      BY <1>3, <2>2, <2>5
    <3>1. j # 1
      BY <1>2, <1>3, <1>6, <3>0
    <3>2. ASSUME NEW l \in 1..m, j = l + 1 PROVE FALSE
      <4>1. ToId(j) = Workflows!Mid(l) /\ l \in 1..9
        BY <1>3, <2>1, <3>2
      <4> QED BY <1>2, <1>6, <3>0, <4>1
    <3>3. ASSUME NEW l \in 1..b, j = l + 1 + m PROVE i = j
      <4>1. ToId(j) = Workflows!Basic(l) /\ l \in 1..9
        BY <1>3, <2>2, <3>3
      <4>2. k = l
        BY <1>2, <1>6, <3>0, <4>1
      <4> QED BY <2>5, <3>3, <4>2
    <3> QED BY <1>13, <3>1, <3>2, <3>3
  <2> QED BY <1>13, <2>3, <2>4, <2>5
<1>7. ids \subseteq EventSet
  <2>1. Mids(m) \subseteq {Workflows!Mid(i) : i \in 1..9}
    BY <1>0 DEF Mids
  <2>2. Basics(b) \subseteq {Workflows!Basic(i) : i \in 1..9}
    BY <1>0 DEF Basics
  <2> QED BY <2>1, <2>2 DEF EventSet
<1>8. /\ gs[1].output = Workflows!Top
      /\ gs[1].inputs \in Seq(Mids(m)) /\ Editor!ToSet(gs[1].inputs) = Mids(m)
      /\ gs[1].inputs # <<>>
      /\ \A i \in 2..n : /\ gs[i].output \in Mids(m)
                         /\ gs[i].inputs \in Seq(Basics(b)) /\ gs[i].inputs # <<>>
                         /\ Editor!ToSet(gs[i].inputs) \subseteq Basics(b)
      /\ \A i, j \in 1..n : gs[i].output = gs[j].output => i = j
  <2>1. /\ gs[1].output = Workflows!Top
        /\ gs[1].inputs \in Seq(Mids(m)) /\ Editor!ToSet(gs[1].inputs) = Mids(m)
        /\ \A i \in 2..n : /\ gs[i].output \in Mids(m)
                           /\ gs[i].inputs \in Seq(Basics(b)) /\ gs[i].inputs # <<>>
        /\ \A i, j \in 2..n : gs[i].output = gs[j].output => i = j
    BY DEF TwoLevels
  <2>2. gs[1].inputs # <<>>
    <3>1. Workflows!Mid(1) \in Mids(m)
      BY <1>0 DEF Mids
    <3> QED BY <2>1, <3>1 DEF Editor!ToSet
  <2>3. \A s \in Seq(Basics(b)) : Editor!ToSet(s) \subseteq Basics(b)
    BY ElementOfSeq, LenProperties DEF Editor!ToSet
  <2>4. Workflows!Top \notin Mids(m)
    BY <1>0, <1>2 DEF Mids
  <2>5. \A i, j \in 1..n : gs[i].output = gs[j].output => i = j
    <3>1. \A i \in 1..n : i = 1 \/ i \in 2..n
      BY <1>0
    <3> QED BY <2>1, <2>4, <3>1
  <2> QED BY <2>1, <2>2, <2>3, <2>5
<1>9. Editor!WellFormed(tree)
  <2>1. tree.events \in Seq([id : EventSet, top : BOOLEAN])
    <3>1. \A i \in 1..N : [id |-> ToId(i), top |-> i = 1] \in [id : EventSet, top : BOOLEAN]
      BY <1>4, <1>7
    <3> DEFINE S == [id : EventSet, top : BOOLEAN]
               s == tree.events
    <3>2. s = [i \in 1..N |-> [id |-> ToId(i), top |-> i = 1]] /\ N \in Nat
      BY <1>0, <1>1
    <3> HIDE DEF S, s, N
    <3>3. s \in [1..N -> S]
      BY <3>1, <3>2 DEF S
    <3>4. s \in Seq(S)
      BY <3>2, <3>3, SeqDef
    <3> QED BY <3>4 DEF s, S
  <2>2. tree.gates \in Seq([id : GateSet, output : ids \cup {Workflows!None}, inputs : Seq(ids)])
    <3>1. ASSUME NEW i \in 1..n
          PROVE  [id |-> Workflows!GateNode(i), output |-> gs[i].output, inputs |-> gs[i].inputs]
                   \in [id : GateSet, output : ids \cup {Workflows!None}, inputs : Seq(ids)]
      <4>1. gs[i].output \in ids /\ gs[i].inputs \in Seq(ids)
        <5>1. Seq(Mids(m)) \subseteq Seq(ids) /\ Seq(Basics(b)) \subseteq Seq(ids)
          BY SeqMonotonic
        <5>2. i = 1 \/ i \in 2..n
          BY <1>0
        <5> QED BY <1>8, <5>1, <5>2
      <4>2. i \in 1..9
        BY <1>0
      <4> QED BY <4>1, <4>2 DEF GateSet
    <3> HIDE DEF ids
    <3> QED BY <1>0, <1>1, <3>1
  <2>3. Editor!Distinct(tree.events)
    BY <1>1, <1>6 DEF Editor!Distinct
  <2>4. Editor!Distinct(tree.gates)
    <3>1. \A i \in 1..n : i \in 1..9
      BY <1>0
    <3>2. DOMAIN tree.gates = 1..n /\ \A i \in 1..n : tree.gates[i].id = Workflows!GateNode(i)
      BY <1>1
    <3>3. \A i, j \in 1..n : Workflows!GateNode(i) = Workflows!GateNode(j) => i = j
      BY <1>2, <3>1
    <3> HIDE DEF n
    <3> QED BY <3>2, <3>3 DEF Editor!Distinct
  <2>5. tree.top \in Editor!EventIds(tree)
    BY <1>1, <1>5
  <2> HIDE DEF ids
  <2> QED BY <1>1, <1>5, <2>1, <2>2, <2>3, <2>4, <2>5 DEF Editor!WellFormed, GateSet
<1> DEFINE next == [e \in ids |-> Editor!GateInputs(tree, e)]
           used(e) == \E i \in 2..n : e \in Editor!ToSet(gs[i].inputs)
           level == [e \in ids |-> IF e = Workflows!Top THEN 0
                                    ELSE IF e \in Mids(m) THEN 1 ELSE IF used(e) THEN 2 ELSE 0]
<1>10. ASSUME NEW e \in ids
       PROVE  /\ \A i \in 1..n : gs[i].output = e => next[e] = Editor!ToSet(gs[i].inputs)
              /\ (\A i \in 1..n : gs[i].output # e) => next[e] = {}
  <2> DEFINE at == {i \in DOMAIN tree.gates : tree.gates[i].output = e}
  <2>1. at = {i \in 1..n : gs[i].output = e}
    BY <1>1
  <2>2. next[e] = IF at = {} THEN {} ELSE Editor!ToSet(tree.gates[Editor!Highest(at)].inputs)
    BY DEF Editor!GateInputs
  <2> HIDE DEF at, next
  <2>3. ASSUME NEW i \in 1..n, gs[i].output = e PROVE next[e] = Editor!ToSet(gs[i].inputs)
    <3>1. at = {i}
      BY <1>8, <2>1, <2>3
    <3>2. Editor!Highest(at) = i
      <4>1. i <= i
        BY <1>0
      <4> QED BY <3>1, <4>1 DEF Editor!Highest
    <3>3. tree.gates[i].inputs = gs[i].inputs
      BY <1>1
    <3> QED BY <2>2, <3>1, <3>2, <3>3
  <2> QED BY <2>1, <2>2, <2>3
<1>11. /\ next[Workflows!Top] = Mids(m)
       /\ \A i \in 2..n : next[gs[i].output] = Editor!ToSet(gs[i].inputs)
       /\ \A e \in Basics(b) : next[e] = {}
       /\ \A e \in Mids(m) : next[e] \subseteq {x \in Basics(b) : used(x)}
  <2>1. 1 \in 1..n /\ \A i \in 1..n : i = 1 \/ i \in 2..n
    BY <1>0
  <2>2. next[Workflows!Top] = Mids(m)
    BY <1>8, <1>10, <2>1
  <2>3. \A i \in 2..n : i \in 1..n /\ gs[i].output \in ids
    BY <1>0, <1>8
  <2>4. \A i \in 2..n : next[gs[i].output] = Editor!ToSet(gs[i].inputs)
    <3> HIDE DEF next
    <3> QED BY <1>10, <2>3
  <2>5. Basics(b) \cap (Mids(m) \cup {Workflows!Top}) = {}
    BY <1>0, <1>2 DEF Mids, Basics
  <2>6. \A e \in Basics(b) : next[e] = {}
    <3>1. \A e \in Basics(b) : \A i \in 1..n : gs[i].output # e
      BY <1>8, <2>1, <2>5
    <3> HIDE DEF next
    <3> QED BY <1>10, <3>1
  <2>7. Workflows!Top \notin Mids(m)
    BY <1>0, <1>2 DEF Mids
  <2>8. ASSUME NEW e \in Mids(m) PROVE next[e] \subseteq {x \in Basics(b) : used(x)}
    <3>1. CASE \E i \in 1..n : gs[i].output = e
      <4>1. PICK i \in 1..n : gs[i].output = e
        BY <3>1
      <4>2. i \in 2..n
        BY <1>8, <2>1, <2>7, <2>8, <4>1
      <4>3. next[e] = Editor!ToSet(gs[i].inputs)
        BY <2>4, <4>1, <4>2
      <4> QED BY <1>8, <4>2, <4>3
    <3>2. CASE \A i \in 1..n : gs[i].output # e
      BY <1>10, <3>2
    <3> QED BY <3>1, <3>2
  <2> QED BY <2>2, <2>4, <2>6, <2>8
<1>12. \A e \in ids : depth[e] = level[e]
  <2> DEFINE root == Workflows!Top
  <2>1. Editor!EventDepth(tree) = Editor!Depths(ids, root, next)
    BY <1>1, <1>5 DEF Editor!EventDepth
  <2>2. IsFiniteSet(ids)
    <3>1. Editor!IsFiniteSet(Editor!EventIds(tree))
      BY <1>9, EditorGiven, Editor!EventsAreFinite
    <3> QED BY <1>5, <3>1 DEF Editor!IsFiniteSet, IsFiniteSet
  <2>3. Basics(b) \cap Mids(m) = {} /\ Workflows!Top \notin Mids(m) \cup Basics(b)
    BY <1>0, <1>2 DEF Mids, Basics
  <2>4. next \in [ids -> SUBSET ids]
    <3>1. \A e \in ids : next[e] \subseteq ids
      BY <1>11
    <3> QED BY <3>1
  <2>5. /\ level \in [ids -> Nat] /\ level[root] = 0
        /\ \A e \in Mids(m) : level[e] = 1
        /\ \A e \in Basics(b) : level[e] = IF used(e) THEN 2 ELSE 0
    <3> HIDE DEF used
    <3> QED BY <2>3
  <2> HIDE DEF next, level
  <2>6. \A i \in ids : \A j \in next[i] : level[j] = level[i] + 1
    <3>1. \A j \in next[root] : level[j] = level[root] + 1
      BY <1>11, <2>5
    <3>2. \A i \in Mids(m) : \A j \in next[i] : level[j] = level[i] + 1
      <4> HIDE DEF used
      <4> QED BY <1>11, <2>5
    <3>3. \A i \in Basics(b) : next[i] = {}
      BY <1>11
    <3> QED BY <3>1, <3>2, <3>3
  <2>7. ASSUME NEW j \in ids, level[j] > 0 PROVE \E i \in ids : j \in next[i]
    <3>1. CASE j \in Mids(m)
      BY <1>11, <3>1
    <3>2. CASE j \in Basics(b)
      <4>1. used(j)
        <5> HIDE DEF used
        <5> QED BY <2>5, <2>7, <3>2
      <4>2. PICK i \in 2..n : j \in Editor!ToSet(gs[i].inputs)
        BY <4>1
      <4> QED BY <1>8, <1>11, <4>2
    <3> QED BY <2>5, <2>7, <3>1, <3>2
  <2>8. \A i \in ids \ {root} : level[i] = 0 => next[i] = {}
    BY <1>11, <2>5
  <2>9. root \in ids
    OBVIOUS
  <2> HIDE DEF ids, root
  <2>10. \A i \in ids : Editor!Depths(ids, root, next)[i] = level[i]
    <3>1. level \in [ids -> Nat] /\ level[root] = 0
      BY <2>5
    <3>2. \A j \in ids : level[j] > 0 => \E i \in ids : j \in next[i]
      BY <2>7
    <3> HIDE DEF used, n, N
    <3> QED BY <2>2, <2>4, <2>6, <2>8, <2>9, <3>1, <3>2, LevelsFound
  <2> QED BY <2>1, <2>10
<1> DEFINE g(i) == tree.gates[i]
<1>14. /\ DOMAIN tree.gates = 1..n /\ DOMAIN tree.events = 1..N
       /\ \A i \in 1..n : g(i).output = gs[i].output /\ g(i).inputs = gs[i].inputs
       /\ \A i \in 1..N : tree.events[i].id = ToId(i) /\ (tree.events[i].top <=> i = 1)
  <2> HIDE DEF n, N
  <2>1. /\ DOMAIN tree.gates = 1..n
        /\ \A i \in 1..n : g(i).output = gs[i].output /\ g(i).inputs = gs[i].inputs
    BY <1>1
  <2>2. DOMAIN tree.events = 1..N /\ \A i \in 1..N : tree.events[i].id = ToId(i)
    BY <1>1
  <2>3. \A i \in 1..N : tree.events[i].top <=> i = 1
    <3> DEFINE event(i) == [id |-> ToId(i), top |-> i = 1]
    <3>1. \A i \in 1..N : tree.events[i] = event(i)
      BY <1>1
    <3>2. \A i : event(i).top <=> i = 1
      OBVIOUS
    <3> HIDE DEF event
    <3> QED BY <3>1, <3>2
  <2> QED BY <2>1, <2>2, <2>3
<1>15. /\ level[Workflows!Top] = 0
       /\ \A e \in Mids(m) : level[e] = 1 /\ e \in ids
       /\ \A e \in Basics(b) : used(e) => level[e] = 2
  <2>1. Basics(b) \cap Mids(m) = {} /\ Workflows!Top \notin Mids(m) \cup Basics(b)
    BY <1>0, <1>2 DEF Mids, Basics
  <2> HIDE DEF used
  <2> QED BY <2>1
<1>16. \A i \in 1..n : i = 1 \/ i \in 2..n
  BY <1>0
<1> HIDE DEF level, ids, depth
<1>17. ASSUME NEW i \in 1..n, NEW e \in Editor!ToSet(gs[i].inputs)
       PROVE  depth[e] = depth[gs[i].output] + 1
  <2>1. CASE i = 1
    <3>1. e \in Mids(m)
      BY <1>8, <1>17, <2>1
    <3>2. depth[e] = 1 /\ depth[Workflows!Top] = 0
      BY <1>12, <1>15, <3>1 DEF ids
    <3> QED BY <1>8, <2>1, <3>2
  <2>2. CASE i \in 2..n
    <3>1. e \in Basics(b) /\ used(e) /\ gs[i].output \in Mids(m)
      BY <1>8, <1>17, <2>2
    <3>2. e \in ids
      BY <3>1 DEF ids
    <3>3. depth[e] = 2 /\ depth[gs[i].output] = 1
      BY <1>12, <1>15, <3>1, <3>2
    <3> QED BY <3>3
  <2> QED BY <1>16, <2>1, <2>2
<1>18. ASSUME NEW i \in 1..n
       PROVE  /\ gs[i].output # Workflows!None /\ gs[i].inputs # <<>>
              /\ gs[i].output = tree.top \/ depth[gs[i].output] > 0
  <2>1. Workflows!None \notin {Workflows!Top} \cup Mids(m)
    BY DEF Mids, Workflows!None, Workflows!Top, Workflows!Mid, Workflows!Node
  <2>2. i # 1 => depth[gs[i].output] = 1
    BY <1>8, <1>12, <1>15, <1>16
  <2> QED BY <1>1, <1>8, <1>16, <2>1, <2>2
<1>19. \A i \in 1..N : tree.events[i].top <=> tree.events[i].id = tree.top
  <2>1. 1 \in 1..N
    BY <1>3
  <2>2. \A i \in 1..N : ToId(i) = ToId(1) => i = 1
    BY <1>6, <2>1
  <2> QED BY <1>1, <1>3, <1>14, <2>1, <2>2
<1> HIDE DEF N, n, g
<1>20. Editor!InLevels(tree)
  <2>1. \A x \in Editor!ToSet(tree.gates) : \E i \in 1..n : x = g(i)
    BY <1>14 DEF Editor!ToSet, g
  <2>2. ASSUME NEW i \in 1..n
        PROVE  /\ g(i).output # Workflows!None /\ g(i).inputs # <<>>
               /\ \A e \in Editor!ToSet(g(i).inputs) : depth[e] = depth[g(i).output] + 1
               /\ \A j \in 1..n : g(j).output = g(i).output => g(j) = g(i)
    BY <1>8, <1>14, <1>17, <1>18
  <2>3. \A i \in DOMAIN tree.events : tree.events[i].top <=> tree.events[i].id = tree.top
    BY <1>14, <1>19
  <2> QED BY <2>1, <2>2, <2>3 DEF Editor!InLevels, depth
<1>21. \A x \in Editor!ToSet(tree.gates) : x.output = tree.top \/ depth[x.output] > 0
  <2>1. \A x \in Editor!ToSet(tree.gates) : \E i \in 1..n : x = g(i)
    BY <1>14 DEF Editor!ToSet, g
  <2> QED BY <1>14, <1>18, <2>1
<1>22. tree.events # <<>> /\ tree.events[1].id = tree.top
  <2>1. 1 \in DOMAIN tree.events
    BY <1>3, <1>14
  <2>2. tree.events # <<>>
    BY <2>1
  <2> QED BY <1>1, <1>3, <1>14, <2>2
<1>23. tree # Workflows!None
  <2>1. tree.gates # <<>> /\ DOMAIN tree = {"top", "events", "gates"}
    <3>1. DOMAIN [top |-> tree.top, events |-> tree.events, gates |-> tree.gates]
            = {"top", "events", "gates"}
      OBVIOUS
    <3>2. DOMAIN tree.gates # {}
      BY <1>0, <1>14 DEF n
    <3> QED BY <1>1, <3>1, <3>2
  <2>2. DOMAIN Workflows!None = {"kind", "n"}
    BY DEF Workflows!None, Workflows!Node
  <2> QED BY <2>1, <2>2
<1>24. Editor!Drawable(tree)
  BY <1>9, <1>20, <1>21, <1>22, <1>23 DEF Editor!Drawable, depth
<1> QED BY <1>1, <1>24 DEF tree

\* A tree's gates one after the other, those below the first in the order of their outputs,
\* which are among the first k intermediate events.
GatesUpTo(m, b, k, gs) ==
  /\ TwoLevels(m, b, gs)
  /\ m <= 8 /\ k \in 0..m /\ Len(gs) <= k + 1
  /\ \A i \in 2..Len(gs) : gs[i].output \in Mids(k)

LEMMA Tuples ==
  /\ \A S : \A x1 \in S : <<x1>> \in Seq(S) /\ <<x1>> # <<>>
  /\ \A S : \A x1, x2 \in S : <<x1, x2>> \in Seq(S) /\ <<x1, x2>> # <<>>
  /\ \A S : \A x1, x2, x3 \in S : <<x1, x2, x3>> \in Seq(S) /\ <<x1, x2, x3>> # <<>>
  /\ \A S : \A x1, x2, x3, x4 \in S :
       <<x1, x2, x3, x4>> \in Seq(S) /\ <<x1, x2, x3, x4>> # <<>>
<1>1. \A S : \A x1 \in S : <<x1>> \in Seq(S) /\ <<x1>> # <<>>
  OBVIOUS
<1>2. \A S : \A x1, x2 \in S : <<x1, x2>> \in Seq(S) /\ <<x1, x2>> # <<>>
  OBVIOUS
<1>3. \A S : \A x1, x2, x3 \in S : <<x1, x2, x3>> \in Seq(S) /\ <<x1, x2, x3>> # <<>>
  OBVIOUS
<1>4. \A S : \A x1, x2, x3, x4 \in S :
        <<x1, x2, x3, x4>> \in Seq(S) /\ <<x1, x2, x3, x4>> # <<>>
  OBVIOUS
<1> QED BY <1>1, <1>2, <1>3, <1>4

LEMMA Append2 ==
  ASSUME NEW x1, NEW x2
  PROVE  Append(<<x1>>, x2) = <<x1, x2>>
<1> DEFINE s == <<x1>>
           t == [i \in 1..2 |-> IF i = 1 THEN x1 ELSE x2]
<1>1. t = <<x1, x2>>
  OBVIOUS
<1>2. s = [i \in 1..1 |-> x1] /\ Len(s) = 1
  OBVIOUS
<1> HIDE DEF s
<1>3. Append(s, x2) = t
  BY <1>2
<1> QED BY <1>1, <1>3 DEF s

LEMMA Append3 ==
  ASSUME NEW x1, NEW x2, NEW x3
  PROVE  Append(<<x1, x2>>, x3) = <<x1, x2, x3>>
<1> DEFINE s == <<x1, x2>>
           t == [i \in 1..3 |-> IF i = 1 THEN x1 ELSE IF i = 2 THEN x2 ELSE x3]
<1>1. t = <<x1, x2, x3>>
  OBVIOUS
<1>2. s = [i \in 1..2 |-> IF i = 1 THEN x1 ELSE x2] /\ Len(s) = 2
  OBVIOUS
<1> HIDE DEF s
<1>3. Append(s, x3) = t
  BY <1>2
<1> QED BY <1>1, <1>3 DEF s

LEMMA Append4 ==
  ASSUME NEW x1, NEW x2, NEW x3, NEW x4
  PROVE  Append(<<x1, x2, x3>>, x4) = <<x1, x2, x3, x4>>
<1> DEFINE s == <<x1, x2, x3>>
           t == [i \in 1..4 |-> IF i = 1 THEN x1 ELSE IF i = 2 THEN x2 ELSE IF i = 3 THEN x3 ELSE x4]
<1>1. t = <<x1, x2, x3, x4>>
  OBVIOUS
<1>2. s = [i \in 1..3 |-> IF i = 1 THEN x1 ELSE IF i = 2 THEN x2 ELSE x3] /\ Len(s) = 3
  OBVIOUS
<1> HIDE DEF s
<1>3. Append(s, x4) = t
  BY <1>2
<1> QED BY <1>1, <1>3 DEF s

LEMMA Append5 ==
  ASSUME NEW x1, NEW x2, NEW x3, NEW x4, NEW x5
  PROVE  Append(<<x1, x2, x3, x4>>, x5) = <<x1, x2, x3, x4, x5>>
<1> DEFINE s == <<x1, x2, x3, x4>>
           t == [i \in 1..5 |->
                   IF i = 1 THEN x1 ELSE IF i = 2 THEN x2 ELSE IF i = 3 THEN x3
                   ELSE IF i = 4 THEN x4 ELSE x5]
<1>1. t = <<x1, x2, x3, x4, x5>>
  OBVIOUS
<1>2. /\ s = [i \in 1..4 |->
                 IF i = 1 THEN x1 ELSE IF i = 2 THEN x2 ELSE IF i = 3 THEN x3 ELSE x4]
      /\ Len(s) = 4
  OBVIOUS
<1> HIDE DEF s
<1>3. Append(s, x5) = t
  BY <1>2
<1> QED BY <1>1, <1>3 DEF s

LEMMA TopGate ==
  ASSUME NEW m \in 1..8, NEW b \in 1..9, NEW s \in Seq(Mids(m)), Editor!ToSet(s) = Mids(m)
  PROVE  GatesUpTo(m, b, 0, <<Workflows!Gate(Workflows!Top, s)>>)
<1> DEFINE g == Workflows!Gate(Workflows!Top, s)
           gs == <<g>>
<1>1. g.output = Workflows!Top /\ g.inputs = s /\ g = [output |-> g.output, inputs |-> g.inputs]
  BY DEF Workflows!Gate
<1> HIDE DEF g
<1>2. Len(gs) = 1 /\ gs[1] = g /\ gs = [i \in 1..1 |-> g] /\ 2..1 = {}
  OBVIOUS
<1>3. gs = [i \in 1..Len(gs) |-> [output |-> gs[i].output, inputs |-> gs[i].inputs]]
  BY <1>1, <1>2
<1>4. TwoLevels(m, b, gs)
  BY <1>1, <1>2, <1>3 DEF TwoLevels
<1> HIDE DEF gs
<1>5. m <= 8 /\ 0 \in 0..m /\ Len(gs) <= 0 + 1
  BY <1>2
<1>6. GatesUpTo(m, b, 0, gs)
  BY <1>2, <1>4, <1>5 DEF GatesUpTo
<1> QED BY <1>6 DEF gs, g

LEMMA MidGate ==
  ASSUME NEW m, NEW b, NEW k, NEW gs, GatesUpTo(m, b, k, gs), NEW l \in (k + 1)..m,
         NEW s \in Seq(Basics(b)), s # <<>>
  PROVE  GatesUpTo(m, b, l, Append(gs, Workflows!Gate(Workflows!Mid(l), s)))
<1> DEFINE g == Workflows!Gate(Workflows!Mid(l), s)
           hs == Append(gs, g)
           n == Len(gs)
<1>0. /\ m \in 1..8 /\ b \in 1..9 /\ k \in 0..m /\ n \in 1..(k + 1) /\ l \in (k + 1)..m
      /\ n + 1 \in 1..9
  BY DEF GatesUpTo, TwoLevels
<1>1. /\ g.output = Workflows!Mid(l) /\ g.inputs = s
      /\ g = [output |-> g.output, inputs |-> g.inputs]
  BY DEF Workflows!Gate
<1>2. /\ gs = [i \in 1..n |-> [output |-> gs[i].output, inputs |-> gs[i].inputs]]
      /\ gs[1].output = Workflows!Top
      /\ gs[1].inputs \in Seq(Mids(m)) /\ Editor!ToSet(gs[1].inputs) = Mids(m)
      /\ \A i \in 2..n : /\ gs[i].output \in Mids(k) /\ gs[i].output \in Mids(m)
                         /\ gs[i].inputs \in Seq(Basics(b)) /\ gs[i].inputs # <<>>
      /\ \A i, j \in 2..n : gs[i].output = gs[j].output => i = j
  BY DEF GatesUpTo, TwoLevels
<1> HIDE DEF g, n
<1>3. /\ Len(hs) = n + 1 /\ hs[n + 1] = g
      /\ \A i \in 1..n : hs[i] = gs[i]
      /\ DOMAIN hs = 1..(n + 1)
      /\ hs = [i \in 1..(n + 1) |-> hs[i]]
  <2>1. gs \in Seq({gs[i] : i \in 1..n})
    <3>1. gs \in [1..n -> {gs[i] : i \in 1..n}] /\ n \in Nat
      BY <1>0, <1>2
    <3> QED BY <3>1, SeqDef
  <2>2. Len(gs) = n /\ n \in Nat
    BY <1>0 DEF n
  <2> DEFINE S == {gs[i] : i \in 1..n} \cup {g}
  <2>3. gs \in Seq(S) /\ g \in S
    BY <2>1, SeqMonotonic
  <2> HIDE DEF S
  <2>4. /\ hs \in Seq(S) /\ Len(hs) = n + 1 /\ hs[n + 1] = g
        /\ \A i \in 1..n : hs[i] = gs[i]
    BY <2>2, <2>3, AppendProperties
  <2> HIDE DEF hs
  <2>5. hs = [i \in 1..(n + 1) |-> hs[i]]
    BY <2>4
  <2> QED BY <2>4, <2>5
<1>4. \A i \in 1..(n + 1) : i = n + 1 \/ i \in 1..n
  BY <1>0
<1>5. Mids(k) \subseteq Mids(l) /\ Mids(l) \subseteq Mids(m) /\ Workflows!Mid(l) \in Mids(l)
  <2>1. \A i \in 1..k : i \in 1..l
    BY <1>0
  <2>2. \A i \in 1..l : i \in 1..m
    BY <1>0
  <2>3. l \in 1..l
    BY <1>0
  <2> QED BY <2>1, <2>2, <2>3 DEF Mids
<1>6. Workflows!Mid(l) \notin Mids(k)
  <2>1. \A i \in 1..k : i # l
    BY <1>0
  <2> QED BY <2>1 DEF Mids, Workflows!Mid, Workflows!Node
<1> HIDE DEF hs
<1>7. \A i \in 1..(n + 1) : hs[i] = [output |-> hs[i].output, inputs |-> hs[i].inputs]
  BY <1>1, <1>2, <1>3, <1>4
<1>8. hs = [i \in 1..Len(hs) |-> [output |-> hs[i].output, inputs |-> hs[i].inputs]]
  BY <1>3, <1>7
<1>9. \A i \in 2..(n + 1) : i = n + 1 \/ (i \in 2..n /\ i \in 1..n /\ i # n + 1)
  BY <1>0
<1>10. hs[1] = gs[1]
  <2>1. 1 \in 1..n
    BY <1>0
  <2> QED BY <1>3, <2>1
<1>11. \A i \in 2..(n + 1) : /\ hs[i].output \in Mids(l) /\ hs[i].output \in Mids(m)
                             /\ hs[i].inputs \in Seq(Basics(b)) /\ hs[i].inputs # <<>>
  BY <1>1, <1>2, <1>3, <1>5, <1>9
<1>12. ASSUME NEW i \in 2..(n + 1), NEW j \in 2..(n + 1), hs[i].output = hs[j].output
       PROVE  i = j
  <2>1. /\ i = n + 1 => hs[i].output = Workflows!Mid(l)
        /\ j = n + 1 => hs[j].output = Workflows!Mid(l)
    BY <1>1, <1>3
  <2>2. /\ i # n + 1 => i \in 2..n /\ hs[i] = gs[i] /\ hs[i].output \in Mids(k)
        /\ j # n + 1 => j \in 2..n /\ hs[j] = gs[j] /\ hs[j].output \in Mids(k)
    <3>1. \A h \in 2..(n + 1) : h # n + 1 => h \in 2..n /\ h \in 1..n
      BY <1>9
    <3>2. \A h \in 2..(n + 1) : h # n + 1 => h \in 2..n /\ hs[h] = gs[h]
      BY <1>3, <3>1
    <3> QED BY <1>2, <3>2
  <2>3. i # n + 1 /\ j # n + 1 => i = j
    BY <1>2, <1>12, <2>2
  <2> QED BY <1>6, <1>12, <2>1, <2>2, <2>3
<1>13. m \in 1..9 /\ m <= 8 /\ l \in 0..m /\ n + 1 <= l + 1
  BY <1>0
<1>14. TwoLevels(m, b, hs)
  BY <1>0, <1>2, <1>3, <1>8, <1>10, <1>11, <1>12, <1>13 DEF TwoLevels
<1>15. GatesUpTo(m, b, l, hs)
  BY <1>3, <1>11, <1>13, <1>14 DEF GatesUpTo
<1> QED BY <1>15 DEF hs, g

LEMMA MidLists ==
  /\ LET s == <<Workflows!Mid(1), Workflows!Mid(2)>>
     IN  s \in Seq(Mids(2)) /\ Editor!ToSet(s) = Mids(2)
  /\ LET s == <<Workflows!Mid(1), Workflows!Mid(2), Workflows!Mid(3)>>
     IN  s \in Seq(Mids(3)) /\ Editor!ToSet(s) = Mids(3)
  /\ LET s == <<Workflows!Mid(1), Workflows!Mid(2), Workflows!Mid(3), Workflows!Mid(4)>>
     IN  s \in Seq(Mids(4)) /\ Editor!ToSet(s) = Mids(4)
<1> DEFINE s2 == <<Workflows!Mid(1), Workflows!Mid(2)>>
<1>1. s2 \in Seq(Mids(2)) /\ Editor!ToSet(s2) = Mids(2)
  <2>1. Mids(2) = {Workflows!Mid(1), Workflows!Mid(2)}
    <3>1. 1..2 = {1, 2}
      OBVIOUS
    <3> QED BY <3>1 DEF Mids
  <2>2. \A x1, x2 : Editor!ToSet(<<x1, x2>>) = {x1, x2}
    BY DEF Editor!ToSet
  <2> QED BY <2>1, <2>2, Tuples
<1> DEFINE s3 == <<Workflows!Mid(1), Workflows!Mid(2), Workflows!Mid(3)>>
<1>2. s3 \in Seq(Mids(3)) /\ Editor!ToSet(s3) = Mids(3)
  <2>1. Mids(3) = {Workflows!Mid(1), Workflows!Mid(2), Workflows!Mid(3)}
    <3>1. 1..3 = {1, 2, 3}
      OBVIOUS
    <3> QED BY <3>1 DEF Mids
  <2>2. \A x1, x2, x3 : Editor!ToSet(<<x1, x2, x3>>) = {x1, x2, x3}
    BY DEF Editor!ToSet
  <2> QED BY <2>1, <2>2, Tuples
<1> DEFINE s4 == <<Workflows!Mid(1), Workflows!Mid(2), Workflows!Mid(3), Workflows!Mid(4)>>
<1>3. s4 \in Seq(Mids(4)) /\ Editor!ToSet(s4) = Mids(4)
  <2>1. Mids(4) = {Workflows!Mid(1), Workflows!Mid(2), Workflows!Mid(3), Workflows!Mid(4)}
    <3>1. 1..4 = {1, 2, 3, 4}
      OBVIOUS
    <3> QED BY <3>1 DEF Mids
  <2>2. \A x1, x2, x3, x4 : Editor!ToSet(<<x1, x2, x3, x4>>) = {x1, x2, x3, x4}
    BY DEF Editor!ToSet
  <2> QED BY <2>1, <2>2, Tuples
<1> QED BY <1>1, <1>2, <1>3

LEMMA BasicsOf == \A b \in 1..9 : \A k \in 1..b : Workflows!Basic(k) \in Basics(b)
BY DEF Basics

\* Each tree that is shipped is built so.
LEMMA ShippedTree ==
  \A w \in DOMAIN Workflows!mockFaultTrees :
    Editor!Drawable(Workflows!Tree(w)) /\ Workflows!Tree(w).top = Workflows!Top
<1> SUFFICES ASSUME NEW w \in Workflows!withTree
             PROVE  /\ Editor!Drawable(Workflows!mockFaultTrees[w])
                    /\ Workflows!mockFaultTrees[w].top = Workflows!Top
  BY DEF Workflows!mockFaultTrees, Workflows!Tree
<1>1. CASE w = "wf-001"
  <2> DEFINE g1 == Workflows!Gate(Workflows!Top,
                   <<Workflows!Mid(1), Workflows!Mid(2), Workflows!Mid(3)>>)
             g2 == Workflows!Gate(Workflows!Mid(1), <<Workflows!Basic(1), Workflows!Basic(2)>>)
             g3 == Workflows!Gate(Workflows!Mid(2), <<Workflows!Basic(3), Workflows!Basic(4)>>)
             g4 == Workflows!Gate(Workflows!Mid(3), <<Workflows!Basic(5), Workflows!Basic(6)>>)
  <2>1. GatesUpTo(3, 6, 0, <<g1>>)
    <3>1. 3 \in 1..8 /\ 6 \in 1..9
      OBVIOUS
    <3> QED BY <3>1, MidLists, TopGate
  <2>2. GatesUpTo(3, 6, 1, <<g1, g2>>)
    <3>1. Workflows!Basic(1) \in Basics(6) /\ Workflows!Basic(2) \in Basics(6)
      BY BasicsOf
    <3>2. /\ <<Workflows!Basic(1), Workflows!Basic(2)>> \in Seq(Basics(6))
          /\ <<Workflows!Basic(1), Workflows!Basic(2)>> # <<>>
      BY <3>1, Tuples
    <3>3. 1 \in (0 + 1)..3
      OBVIOUS
    <3>4. GatesUpTo(3, 6, 1, Append(<<g1>>, g2))
      BY <2>1, <3>2, <3>3, MidGate
    <3> HIDE DEF g1, g2
    <3>5. Append(<<g1>>, g2) = <<g1, g2>>
      BY Append2
    <3> QED BY <3>4, <3>5
  <2>3. GatesUpTo(3, 6, 2, <<g1, g2, g3>>)
    <3>1. Workflows!Basic(3) \in Basics(6) /\ Workflows!Basic(4) \in Basics(6)
      BY BasicsOf
    <3>2. /\ <<Workflows!Basic(3), Workflows!Basic(4)>> \in Seq(Basics(6))
          /\ <<Workflows!Basic(3), Workflows!Basic(4)>> # <<>>
      BY <3>1, Tuples
    <3>3. 2 \in (1 + 1)..3
      OBVIOUS
    <3>4. GatesUpTo(3, 6, 2, Append(<<g1, g2>>, g3))
      BY <2>2, <3>2, <3>3, MidGate
    <3> HIDE DEF g1, g2, g3
    <3>5. Append(<<g1, g2>>, g3) = <<g1, g2, g3>>
      BY Append3
    <3> QED BY <3>4, <3>5
  <2>4. GatesUpTo(3, 6, 3, <<g1, g2, g3, g4>>)
    <3>1. Workflows!Basic(5) \in Basics(6) /\ Workflows!Basic(6) \in Basics(6)
      BY BasicsOf
    <3>2. /\ <<Workflows!Basic(5), Workflows!Basic(6)>> \in Seq(Basics(6))
          /\ <<Workflows!Basic(5), Workflows!Basic(6)>> # <<>>
      BY <3>1, Tuples
    <3>3. 3 \in (2 + 1)..3
      OBVIOUS
    <3>4. GatesUpTo(3, 6, 3, Append(<<g1, g2, g3>>, g4))
      BY <2>3, <3>2, <3>3, MidGate
    <3> HIDE DEF g1, g2, g3, g4
    <3>5. Append(<<g1, g2, g3>>, g4) = <<g1, g2, g3, g4>>
      BY Append4
    <3> QED BY <3>4, <3>5
  <2>5. Workflows!mockFaultTrees[w] = Workflows!FaultTree(3, 6, <<g1, g2, g3, g4>>)
    BY <1>1 DEF Workflows!mockFaultTrees, Workflows!nodeNotReady
  <2> HIDE DEF g1, g2, g3, g4
  <2> QED BY <2>4, <2>5, TwoLevelTree DEF GatesUpTo
<1>2. CASE w = "wf-002"
  <2> DEFINE g1 == Workflows!Gate(Workflows!Top, <<Workflows!Mid(1), Workflows!Mid(2)>>)
             g2 == Workflows!Gate(Workflows!Mid(1),
                   <<Workflows!Basic(1), Workflows!Basic(2), Workflows!Basic(3)>>)
             g3 == Workflows!Gate(Workflows!Mid(2), <<Workflows!Basic(4), Workflows!Basic(5)>>)
  <2>1. GatesUpTo(2, 5, 0, <<g1>>)
    <3>1. 2 \in 1..8 /\ 5 \in 1..9
      OBVIOUS
    <3> QED BY <3>1, MidLists, TopGate
  <2>2. GatesUpTo(2, 5, 1, <<g1, g2>>)
    <3>1. /\ Workflows!Basic(1) \in Basics(5)
          /\ Workflows!Basic(2) \in Basics(5)
          /\ Workflows!Basic(3) \in Basics(5)
      BY BasicsOf
    <3>2. /\ <<Workflows!Basic(1), Workflows!Basic(2), Workflows!Basic(3)>> \in Seq(Basics(5))
          /\ <<Workflows!Basic(1), Workflows!Basic(2), Workflows!Basic(3)>> # <<>>
      BY <3>1, Tuples
    <3>3. 1 \in (0 + 1)..2
      OBVIOUS
    <3>4. GatesUpTo(2, 5, 1, Append(<<g1>>, g2))
      BY <2>1, <3>2, <3>3, MidGate
    <3> HIDE DEF g1, g2
    <3>5. Append(<<g1>>, g2) = <<g1, g2>>
      BY Append2
    <3> QED BY <3>4, <3>5
  <2>3. GatesUpTo(2, 5, 2, <<g1, g2, g3>>)
    <3>1. Workflows!Basic(4) \in Basics(5) /\ Workflows!Basic(5) \in Basics(5)
      BY BasicsOf
    <3>2. /\ <<Workflows!Basic(4), Workflows!Basic(5)>> \in Seq(Basics(5))
          /\ <<Workflows!Basic(4), Workflows!Basic(5)>> # <<>>
      BY <3>1, Tuples
    <3>3. 2 \in (1 + 1)..2
      OBVIOUS
    <3>4. GatesUpTo(2, 5, 2, Append(<<g1, g2>>, g3))
      BY <2>2, <3>2, <3>3, MidGate
    <3> HIDE DEF g1, g2, g3
    <3>5. Append(<<g1, g2>>, g3) = <<g1, g2, g3>>
      BY Append3
    <3> QED BY <3>4, <3>5
  <2>4. Workflows!mockFaultTrees[w] = Workflows!FaultTree(2, 5, <<g1, g2, g3>>)
    BY <1>2 DEF Workflows!mockFaultTrees, Workflows!rdsReplicationLag
  <2> HIDE DEF g1, g2, g3
  <2> QED BY <2>3, <2>4, TwoLevelTree DEF GatesUpTo
<1>3. CASE w = "wf-kudig-node"
  <2> DEFINE g1 == Workflows!Gate(Workflows!Top,
                   <<Workflows!Mid(1), Workflows!Mid(2), Workflows!Mid(3), Workflows!Mid(4)>>)
             g2 == Workflows!Gate(Workflows!Mid(1), <<Workflows!Basic(1), Workflows!Basic(2)>>)
             g3 == Workflows!Gate(Workflows!Mid(2), <<Workflows!Basic(3), Workflows!Basic(4)>>)
             g4 == Workflows!Gate(Workflows!Mid(3), <<Workflows!Basic(5), Workflows!Basic(6)>>)
             g5 == Workflows!Gate(Workflows!Mid(4), <<Workflows!Basic(7)>>)
  <2>1. GatesUpTo(4, 7, 0, <<g1>>)
    <3>1. 4 \in 1..8 /\ 7 \in 1..9
      OBVIOUS
    <3> QED BY <3>1, MidLists, TopGate
  <2>2. GatesUpTo(4, 7, 1, <<g1, g2>>)
    <3>1. Workflows!Basic(1) \in Basics(7) /\ Workflows!Basic(2) \in Basics(7)
      BY BasicsOf
    <3>2. /\ <<Workflows!Basic(1), Workflows!Basic(2)>> \in Seq(Basics(7))
          /\ <<Workflows!Basic(1), Workflows!Basic(2)>> # <<>>
      BY <3>1, Tuples
    <3>3. 1 \in (0 + 1)..4
      OBVIOUS
    <3>4. GatesUpTo(4, 7, 1, Append(<<g1>>, g2))
      BY <2>1, <3>2, <3>3, MidGate
    <3> HIDE DEF g1, g2
    <3>5. Append(<<g1>>, g2) = <<g1, g2>>
      BY Append2
    <3> QED BY <3>4, <3>5
  <2>3. GatesUpTo(4, 7, 2, <<g1, g2, g3>>)
    <3>1. Workflows!Basic(3) \in Basics(7) /\ Workflows!Basic(4) \in Basics(7)
      BY BasicsOf
    <3>2. /\ <<Workflows!Basic(3), Workflows!Basic(4)>> \in Seq(Basics(7))
          /\ <<Workflows!Basic(3), Workflows!Basic(4)>> # <<>>
      BY <3>1, Tuples
    <3>3. 2 \in (1 + 1)..4
      OBVIOUS
    <3>4. GatesUpTo(4, 7, 2, Append(<<g1, g2>>, g3))
      BY <2>2, <3>2, <3>3, MidGate
    <3> HIDE DEF g1, g2, g3
    <3>5. Append(<<g1, g2>>, g3) = <<g1, g2, g3>>
      BY Append3
    <3> QED BY <3>4, <3>5
  <2>4. GatesUpTo(4, 7, 3, <<g1, g2, g3, g4>>)
    <3>1. Workflows!Basic(5) \in Basics(7) /\ Workflows!Basic(6) \in Basics(7)
      BY BasicsOf
    <3>2. /\ <<Workflows!Basic(5), Workflows!Basic(6)>> \in Seq(Basics(7))
          /\ <<Workflows!Basic(5), Workflows!Basic(6)>> # <<>>
      BY <3>1, Tuples
    <3>3. 3 \in (2 + 1)..4
      OBVIOUS
    <3>4. GatesUpTo(4, 7, 3, Append(<<g1, g2, g3>>, g4))
      BY <2>3, <3>2, <3>3, MidGate
    <3> HIDE DEF g1, g2, g3, g4
    <3>5. Append(<<g1, g2, g3>>, g4) = <<g1, g2, g3, g4>>
      BY Append4
    <3> QED BY <3>4, <3>5
  <2>5. GatesUpTo(4, 7, 4, <<g1, g2, g3, g4, g5>>)
    <3>1. Workflows!Basic(7) \in Basics(7)
      BY BasicsOf
    <3>2. <<Workflows!Basic(7)>> \in Seq(Basics(7)) /\ <<Workflows!Basic(7)>> # <<>>
      BY <3>1, Tuples
    <3>3. 4 \in (3 + 1)..4
      OBVIOUS
    <3>4. GatesUpTo(4, 7, 4, Append(<<g1, g2, g3, g4>>, g5))
      BY <2>4, <3>2, <3>3, MidGate
    <3> HIDE DEF g1, g2, g3, g4, g5
    <3>5. Append(<<g1, g2, g3, g4>>, g5) = <<g1, g2, g3, g4, g5>>
      BY Append5
    <3> QED BY <3>4, <3>5
  <2>6. Workflows!mockFaultTrees[w] = Workflows!FaultTree(4, 7, <<g1, g2, g3, g4, g5>>)
    BY <1>3 DEF Workflows!mockFaultTrees, Workflows!nodeTree
  <2> HIDE DEF g1, g2, g3, g4, g5
  <2> QED BY <2>5, <2>6, TwoLevelTree DEF GatesUpTo
<1>4. CASE w = "wf-kudig-pod"
  <2> DEFINE g1 == Workflows!Gate(Workflows!Top,
                   <<Workflows!Mid(1), Workflows!Mid(2), Workflows!Mid(3)>>)
             g2 == Workflows!Gate(Workflows!Mid(1),
                   <<Workflows!Basic(3), Workflows!Basic(5), Workflows!Basic(6)>>)
             g3 == Workflows!Gate(Workflows!Mid(2),
                   <<Workflows!Basic(1), Workflows!Basic(2), Workflows!Basic(6)>>)
             g4 == Workflows!Gate(Workflows!Mid(3), <<Workflows!Basic(4), Workflows!Basic(5)>>)
  <2>1. GatesUpTo(3, 6, 0, <<g1>>)
    <3>1. 3 \in 1..8 /\ 6 \in 1..9
      OBVIOUS
    <3> QED BY <3>1, MidLists, TopGate
  <2>2. GatesUpTo(3, 6, 1, <<g1, g2>>)
    <3>1. /\ Workflows!Basic(3) \in Basics(6)
          /\ Workflows!Basic(5) \in Basics(6)
          /\ Workflows!Basic(6) \in Basics(6)
      BY BasicsOf
    <3>2. /\ <<Workflows!Basic(3), Workflows!Basic(5), Workflows!Basic(6)>> \in Seq(Basics(6))
          /\ <<Workflows!Basic(3), Workflows!Basic(5), Workflows!Basic(6)>> # <<>>
      BY <3>1, Tuples
    <3>3. 1 \in (0 + 1)..3
      OBVIOUS
    <3>4. GatesUpTo(3, 6, 1, Append(<<g1>>, g2))
      BY <2>1, <3>2, <3>3, MidGate
    <3> HIDE DEF g1, g2
    <3>5. Append(<<g1>>, g2) = <<g1, g2>>
      BY Append2
    <3> QED BY <3>4, <3>5
  <2>3. GatesUpTo(3, 6, 2, <<g1, g2, g3>>)
    <3>1. /\ Workflows!Basic(1) \in Basics(6)
          /\ Workflows!Basic(2) \in Basics(6)
          /\ Workflows!Basic(6) \in Basics(6)
      BY BasicsOf
    <3>2. /\ <<Workflows!Basic(1), Workflows!Basic(2), Workflows!Basic(6)>> \in Seq(Basics(6))
          /\ <<Workflows!Basic(1), Workflows!Basic(2), Workflows!Basic(6)>> # <<>>
      BY <3>1, Tuples
    <3>3. 2 \in (1 + 1)..3
      OBVIOUS
    <3>4. GatesUpTo(3, 6, 2, Append(<<g1, g2>>, g3))
      BY <2>2, <3>2, <3>3, MidGate
    <3> HIDE DEF g1, g2, g3
    <3>5. Append(<<g1, g2>>, g3) = <<g1, g2, g3>>
      BY Append3
    <3> QED BY <3>4, <3>5
  <2>4. GatesUpTo(3, 6, 3, <<g1, g2, g3, g4>>)
    <3>1. Workflows!Basic(4) \in Basics(6) /\ Workflows!Basic(5) \in Basics(6)
      BY BasicsOf
    <3>2. /\ <<Workflows!Basic(4), Workflows!Basic(5)>> \in Seq(Basics(6))
          /\ <<Workflows!Basic(4), Workflows!Basic(5)>> # <<>>
      BY <3>1, Tuples
    <3>3. 3 \in (2 + 1)..3
      OBVIOUS
    <3>4. GatesUpTo(3, 6, 3, Append(<<g1, g2, g3>>, g4))
      BY <2>3, <3>2, <3>3, MidGate
    <3> HIDE DEF g1, g2, g3, g4
    <3>5. Append(<<g1, g2, g3>>, g4) = <<g1, g2, g3, g4>>
      BY Append4
    <3> QED BY <3>4, <3>5
  <2>5. Workflows!mockFaultTrees[w] = Workflows!FaultTree(3, 6, <<g1, g2, g3, g4>>)
    BY <1>4 DEF Workflows!mockFaultTrees, Workflows!podTree
  <2> HIDE DEF g1, g2, g3, g4
  <2> QED BY <2>4, <2>5, TwoLevelTree DEF GatesUpTo
<1>5. CASE w = "wf-kudig-apiserver"
  <2> DEFINE g1 == Workflows!Gate(Workflows!Top,
                   <<Workflows!Mid(1), Workflows!Mid(2), Workflows!Mid(3), Workflows!Mid(4)>>)
             g2 == Workflows!Gate(Workflows!Mid(1), <<Workflows!Basic(1), Workflows!Basic(3)>>)
             g3 == Workflows!Gate(Workflows!Mid(4), <<Workflows!Basic(2)>>)
  <2>1. GatesUpTo(4, 5, 0, <<g1>>)
    <3>1. 4 \in 1..8 /\ 5 \in 1..9
      OBVIOUS
    <3> QED BY <3>1, MidLists, TopGate
  <2>2. GatesUpTo(4, 5, 1, <<g1, g2>>)
    <3>1. Workflows!Basic(1) \in Basics(5) /\ Workflows!Basic(3) \in Basics(5)
      BY BasicsOf
    <3>2. /\ <<Workflows!Basic(1), Workflows!Basic(3)>> \in Seq(Basics(5))
          /\ <<Workflows!Basic(1), Workflows!Basic(3)>> # <<>>
      BY <3>1, Tuples
    <3>3. 1 \in (0 + 1)..4
      OBVIOUS
    <3>4. GatesUpTo(4, 5, 1, Append(<<g1>>, g2))
      BY <2>1, <3>2, <3>3, MidGate
    <3> HIDE DEF g1, g2
    <3>5. Append(<<g1>>, g2) = <<g1, g2>>
      BY Append2
    <3> QED BY <3>4, <3>5
  <2>3. GatesUpTo(4, 5, 4, <<g1, g2, g3>>)
    <3>1. Workflows!Basic(2) \in Basics(5)
      BY BasicsOf
    <3>2. <<Workflows!Basic(2)>> \in Seq(Basics(5)) /\ <<Workflows!Basic(2)>> # <<>>
      BY <3>1, Tuples
    <3>3. 4 \in (1 + 1)..4
      OBVIOUS
    <3>4. GatesUpTo(4, 5, 4, Append(<<g1, g2>>, g3))
      BY <2>2, <3>2, <3>3, MidGate
    <3> HIDE DEF g1, g2, g3
    <3>5. Append(<<g1, g2>>, g3) = <<g1, g2, g3>>
      BY Append3
    <3> QED BY <3>4, <3>5
  <2>4. Workflows!mockFaultTrees[w] = Workflows!FaultTree(4, 5, <<g1, g2, g3>>)
    BY <1>5 DEF Workflows!mockFaultTrees, Workflows!apiserverTree
  <2> HIDE DEF g1, g2, g3
  <2> QED BY <2>3, <2>4, TwoLevelTree DEF GatesUpTo
<1>6. CASE w = "wf-kudig-etcd"
  <2> DEFINE g1 == Workflows!Gate(Workflows!Top,
                   <<Workflows!Mid(1), Workflows!Mid(2), Workflows!Mid(3)>>)
             g2 == Workflows!Gate(Workflows!Mid(1), <<Workflows!Basic(1), Workflows!Basic(2)>>)
  <2>1. GatesUpTo(3, 4, 0, <<g1>>)
    <3>1. 3 \in 1..8 /\ 4 \in 1..9
      OBVIOUS
    <3> QED BY <3>1, MidLists, TopGate
  <2>2. GatesUpTo(3, 4, 1, <<g1, g2>>)
    <3>1. Workflows!Basic(1) \in Basics(4) /\ Workflows!Basic(2) \in Basics(4)
      BY BasicsOf
    <3>2. /\ <<Workflows!Basic(1), Workflows!Basic(2)>> \in Seq(Basics(4))
          /\ <<Workflows!Basic(1), Workflows!Basic(2)>> # <<>>
      BY <3>1, Tuples
    <3>3. 1 \in (0 + 1)..3
      OBVIOUS
    <3>4. GatesUpTo(3, 4, 1, Append(<<g1>>, g2))
      BY <2>1, <3>2, <3>3, MidGate
    <3> HIDE DEF g1, g2
    <3>5. Append(<<g1>>, g2) = <<g1, g2>>
      BY Append2
    <3> QED BY <3>4, <3>5
  <2>3. Workflows!mockFaultTrees[w] = Workflows!FaultTree(3, 4, <<g1, g2>>)
    BY <1>6 DEF Workflows!mockFaultTrees, Workflows!etcdTree
  <2> HIDE DEF g1, g2
  <2> QED BY <2>2, <2>3, TwoLevelTree DEF GatesUpTo
<1>7. CASE w = "wf-kudig-dns"
  <2> DEFINE g1 == Workflows!Gate(Workflows!Top,
                   <<Workflows!Mid(1), Workflows!Mid(2), Workflows!Mid(3)>>)
             g2 == Workflows!Gate(Workflows!Mid(1), <<Workflows!Basic(1), Workflows!Basic(2)>>)
  <2>1. GatesUpTo(3, 4, 0, <<g1>>)
    <3>1. 3 \in 1..8 /\ 4 \in 1..9
      OBVIOUS
    <3> QED BY <3>1, MidLists, TopGate
  <2>2. GatesUpTo(3, 4, 1, <<g1, g2>>)
    <3>1. Workflows!Basic(1) \in Basics(4) /\ Workflows!Basic(2) \in Basics(4)
      BY BasicsOf
    <3>2. /\ <<Workflows!Basic(1), Workflows!Basic(2)>> \in Seq(Basics(4))
          /\ <<Workflows!Basic(1), Workflows!Basic(2)>> # <<>>
      BY <3>1, Tuples
    <3>3. 1 \in (0 + 1)..3
      OBVIOUS
    <3>4. GatesUpTo(3, 4, 1, Append(<<g1>>, g2))
      BY <2>1, <3>2, <3>3, MidGate
    <3> HIDE DEF g1, g2
    <3>5. Append(<<g1>>, g2) = <<g1, g2>>
      BY Append2
    <3> QED BY <3>4, <3>5
  <2>3. Workflows!mockFaultTrees[w] = Workflows!FaultTree(3, 4, <<g1, g2>>)
    BY <1>7 DEF Workflows!mockFaultTrees, Workflows!dnsTree
  <2> HIDE DEF g1, g2
  <2> QED BY <2>2, <2>3, TwoLevelTree DEF GatesUpTo
<1>8. CASE w = "wf-kudig-ingress"
  <2> DEFINE g1 == Workflows!Gate(Workflows!Top,
                   <<Workflows!Mid(1), Workflows!Mid(2), Workflows!Mid(3)>>)
  <2>1. GatesUpTo(3, 4, 0, <<g1>>)
    <3>1. 3 \in 1..8 /\ 4 \in 1..9
      OBVIOUS
    <3> QED BY <3>1, MidLists, TopGate
  <2>2. Workflows!mockFaultTrees[w] = Workflows!FaultTree(3, 4, <<g1>>)
    BY <1>8 DEF Workflows!mockFaultTrees, Workflows!ingressTree
  <2> HIDE DEF g1
  <2> QED BY <2>1, <2>2, TwoLevelTree DEF GatesUpTo
<1>9. CASE w = "wf-kudig-deployment"
  <2> DEFINE g1 == Workflows!Gate(Workflows!Top,
                   <<Workflows!Mid(1), Workflows!Mid(2), Workflows!Mid(3)>>)
             g2 == Workflows!Gate(Workflows!Mid(1),
                   <<Workflows!Basic(1), Workflows!Basic(2), Workflows!Basic(3), Workflows!Basic(4)>>)
  <2>1. GatesUpTo(3, 4, 0, <<g1>>)
    <3>1. 3 \in 1..8 /\ 4 \in 1..9
      OBVIOUS
    <3> QED BY <3>1, MidLists, TopGate
  <2>2. GatesUpTo(3, 4, 1, <<g1, g2>>)
    <3>1. /\ Workflows!Basic(1) \in Basics(4)
          /\ Workflows!Basic(2) \in Basics(4)
          /\ Workflows!Basic(3) \in Basics(4)
          /\ Workflows!Basic(4) \in Basics(4)
      BY BasicsOf
    <3>2. /\ <<Workflows!Basic(1), Workflows!Basic(2), Workflows!Basic(3), Workflows!Basic(4)>> \in Seq(Basics(4))
          /\ <<Workflows!Basic(1), Workflows!Basic(2), Workflows!Basic(3), Workflows!Basic(4)>> # <<>>
      BY <3>1, Tuples
    <3>3. 1 \in (0 + 1)..3
      OBVIOUS
    <3>4. GatesUpTo(3, 4, 1, Append(<<g1>>, g2))
      BY <2>1, <3>2, <3>3, MidGate
    <3> HIDE DEF g1, g2
    <3>5. Append(<<g1>>, g2) = <<g1, g2>>
      BY Append2
    <3> QED BY <3>4, <3>5
  <2>3. Workflows!mockFaultTrees[w] = Workflows!FaultTree(3, 4, <<g1, g2>>)
    BY <1>9 DEF Workflows!mockFaultTrees, Workflows!deploymentTree
  <2> HIDE DEF g1, g2
  <2> QED BY <2>2, <2>3, TwoLevelTree DEF GatesUpTo
<1>10. CASE w = "wf-kudig-statefulset"
  <2> DEFINE g1 == Workflows!Gate(Workflows!Top, <<Workflows!Mid(1), Workflows!Mid(2)>>)
             g2 == Workflows!Gate(Workflows!Mid(1), <<Workflows!Basic(1), Workflows!Basic(2)>>)
  <2>1. GatesUpTo(2, 3, 0, <<g1>>)
    <3>1. 2 \in 1..8 /\ 3 \in 1..9
      OBVIOUS
    <3> QED BY <3>1, MidLists, TopGate
  <2>2. GatesUpTo(2, 3, 1, <<g1, g2>>)
    <3>1. Workflows!Basic(1) \in Basics(3) /\ Workflows!Basic(2) \in Basics(3)
      BY BasicsOf
    <3>2. /\ <<Workflows!Basic(1), Workflows!Basic(2)>> \in Seq(Basics(3))
          /\ <<Workflows!Basic(1), Workflows!Basic(2)>> # <<>>
      BY <3>1, Tuples
    <3>3. 1 \in (0 + 1)..2
      OBVIOUS
    <3>4. GatesUpTo(2, 3, 1, Append(<<g1>>, g2))
      BY <2>1, <3>2, <3>3, MidGate
    <3> HIDE DEF g1, g2
    <3>5. Append(<<g1>>, g2) = <<g1, g2>>
      BY Append2
    <3> QED BY <3>4, <3>5
  <2>3. Workflows!mockFaultTrees[w] = Workflows!FaultTree(2, 3, <<g1, g2>>)
    BY <1>10 DEF Workflows!mockFaultTrees, Workflows!statefulsetTree
  <2> HIDE DEF g1, g2
  <2> QED BY <2>2, <2>3, TwoLevelTree DEF GatesUpTo
<1>11. CASE w = "wf-kudig-daemonset"
  <2> DEFINE g1 == Workflows!Gate(Workflows!Top, <<Workflows!Mid(1), Workflows!Mid(2)>>)
             g2 == Workflows!Gate(Workflows!Mid(1),
                   <<Workflows!Basic(1), Workflows!Basic(2), Workflows!Basic(3)>>)
  <2>1. GatesUpTo(2, 3, 0, <<g1>>)
    <3>1. 2 \in 1..8 /\ 3 \in 1..9
      OBVIOUS
    <3> QED BY <3>1, MidLists, TopGate
  <2>2. GatesUpTo(2, 3, 1, <<g1, g2>>)
    <3>1. /\ Workflows!Basic(1) \in Basics(3)
          /\ Workflows!Basic(2) \in Basics(3)
          /\ Workflows!Basic(3) \in Basics(3)
      BY BasicsOf
    <3>2. /\ <<Workflows!Basic(1), Workflows!Basic(2), Workflows!Basic(3)>> \in Seq(Basics(3))
          /\ <<Workflows!Basic(1), Workflows!Basic(2), Workflows!Basic(3)>> # <<>>
      BY <3>1, Tuples
    <3>3. 1 \in (0 + 1)..2
      OBVIOUS
    <3>4. GatesUpTo(2, 3, 1, Append(<<g1>>, g2))
      BY <2>1, <3>2, <3>3, MidGate
    <3> HIDE DEF g1, g2
    <3>5. Append(<<g1>>, g2) = <<g1, g2>>
      BY Append2
    <3> QED BY <3>4, <3>5
  <2>3. Workflows!mockFaultTrees[w] = Workflows!FaultTree(2, 3, <<g1, g2>>)
    BY <1>11 DEF Workflows!mockFaultTrees, Workflows!daemonsetTree
  <2> HIDE DEF g1, g2
  <2> QED BY <2>2, <2>3, TwoLevelTree DEF GatesUpTo
<1>12. CASE w = "wf-kudig-job"
  <2> DEFINE g1 == Workflows!Gate(Workflows!Top, <<Workflows!Mid(1), Workflows!Mid(2)>>)
             g2 == Workflows!Gate(Workflows!Mid(1), <<Workflows!Basic(1), Workflows!Basic(2)>>)
  <2>1. GatesUpTo(2, 4, 0, <<g1>>)
    <3>1. 2 \in 1..8 /\ 4 \in 1..9
      OBVIOUS
    <3> QED BY <3>1, MidLists, TopGate
  <2>2. GatesUpTo(2, 4, 1, <<g1, g2>>)
    <3>1. Workflows!Basic(1) \in Basics(4) /\ Workflows!Basic(2) \in Basics(4)
      BY BasicsOf
    <3>2. /\ <<Workflows!Basic(1), Workflows!Basic(2)>> \in Seq(Basics(4))
          /\ <<Workflows!Basic(1), Workflows!Basic(2)>> # <<>>
      BY <3>1, Tuples
    <3>3. 1 \in (0 + 1)..2
      OBVIOUS
    <3>4. GatesUpTo(2, 4, 1, Append(<<g1>>, g2))
      BY <2>1, <3>2, <3>3, MidGate
    <3> HIDE DEF g1, g2
    <3>5. Append(<<g1>>, g2) = <<g1, g2>>
      BY Append2
    <3> QED BY <3>4, <3>5
  <2>3. Workflows!mockFaultTrees[w] = Workflows!FaultTree(2, 4, <<g1, g2>>)
    BY <1>12 DEF Workflows!mockFaultTrees, Workflows!jobTree
  <2> HIDE DEF g1, g2
  <2> QED BY <2>2, <2>3, TwoLevelTree DEF GatesUpTo
<1>13. CASE w = "wf-kudig-hpa"
  <2> DEFINE g1 == Workflows!Gate(Workflows!Top,
                   <<Workflows!Mid(1), Workflows!Mid(2), Workflows!Mid(3)>>)
  <2>1. GatesUpTo(3, 4, 0, <<g1>>)
    <3>1. 3 \in 1..8 /\ 4 \in 1..9
      OBVIOUS
    <3> QED BY <3>1, MidLists, TopGate
  <2>2. Workflows!mockFaultTrees[w] = Workflows!FaultTree(3, 4, <<g1>>)
    BY <1>13 DEF Workflows!mockFaultTrees, Workflows!hpaTree
  <2> HIDE DEF g1
  <2> QED BY <2>1, <2>2, TwoLevelTree DEF GatesUpTo
<1>14. CASE w = "wf-kudig-csi"
  <2> DEFINE g1 == Workflows!Gate(Workflows!Top, <<Workflows!Mid(1), Workflows!Mid(2)>>)
  <2>1. GatesUpTo(2, 4, 0, <<g1>>)
    <3>1. 2 \in 1..8 /\ 4 \in 1..9
      OBVIOUS
    <3> QED BY <3>1, MidLists, TopGate
  <2>2. Workflows!mockFaultTrees[w] = Workflows!FaultTree(2, 4, <<g1>>)
    BY <1>14 DEF Workflows!mockFaultTrees, Workflows!csiTree
  <2> HIDE DEF g1
  <2> QED BY <2>1, <2>2, TwoLevelTree DEF GatesUpTo
<1>15. CASE w = "wf-kudig-rbac"
  <2> DEFINE g1 == Workflows!Gate(Workflows!Top, <<Workflows!Mid(1), Workflows!Mid(2)>>)
  <2>1. GatesUpTo(2, 3, 0, <<g1>>)
    <3>1. 2 \in 1..8 /\ 3 \in 1..9
      OBVIOUS
    <3> QED BY <3>1, MidLists, TopGate
  <2>2. Workflows!mockFaultTrees[w] = Workflows!FaultTree(2, 3, <<g1>>)
    BY <1>15 DEF Workflows!mockFaultTrees, Workflows!rbacTree
  <2> HIDE DEF g1
  <2> QED BY <2>1, <2>2, TwoLevelTree DEF GatesUpTo
<1>16. CASE w = "wf-kudig-certificate"
  <2> DEFINE g1 == Workflows!Gate(Workflows!Top, <<Workflows!Mid(1), Workflows!Mid(2)>>)
             g2 == Workflows!Gate(Workflows!Mid(1),
                   <<Workflows!Basic(1), Workflows!Basic(2), Workflows!Basic(3), Workflows!Basic(4)>>)
  <2>1. GatesUpTo(2, 4, 0, <<g1>>)
    <3>1. 2 \in 1..8 /\ 4 \in 1..9
      OBVIOUS
    <3> QED BY <3>1, MidLists, TopGate
  <2>2. GatesUpTo(2, 4, 1, <<g1, g2>>)
    <3>1. /\ Workflows!Basic(1) \in Basics(4)
          /\ Workflows!Basic(2) \in Basics(4)
          /\ Workflows!Basic(3) \in Basics(4)
          /\ Workflows!Basic(4) \in Basics(4)
      BY BasicsOf
    <3>2. /\ <<Workflows!Basic(1), Workflows!Basic(2), Workflows!Basic(3), Workflows!Basic(4)>> \in Seq(Basics(4))
          /\ <<Workflows!Basic(1), Workflows!Basic(2), Workflows!Basic(3), Workflows!Basic(4)>> # <<>>
      BY <3>1, Tuples
    <3>3. 1 \in (0 + 1)..2
      OBVIOUS
    <3>4. GatesUpTo(2, 4, 1, Append(<<g1>>, g2))
      BY <2>1, <3>2, <3>3, MidGate
    <3> HIDE DEF g1, g2
    <3>5. Append(<<g1>>, g2) = <<g1, g2>>
      BY Append2
    <3> QED BY <3>4, <3>5
  <2>3. Workflows!mockFaultTrees[w] = Workflows!FaultTree(2, 4, <<g1, g2>>)
    BY <1>16 DEF Workflows!mockFaultTrees, Workflows!certificateTree
  <2> HIDE DEF g1, g2
  <2> QED BY <2>2, <2>3, TwoLevelTree DEF GatesUpTo
<1>17. CASE w = "wf-kudig-scheduler"
  <2> DEFINE g1 == Workflows!Gate(Workflows!Top,
                   <<Workflows!Mid(1), Workflows!Mid(2), Workflows!Mid(3), Workflows!Mid(4)>>)
             g2 == Workflows!Gate(Workflows!Mid(1), <<Workflows!Basic(1), Workflows!Basic(2)>>)
  <2>1. GatesUpTo(4, 4, 0, <<g1>>)
    <3>1. 4 \in 1..8 /\ 4 \in 1..9
      OBVIOUS
    <3> QED BY <3>1, MidLists, TopGate
  <2>2. GatesUpTo(4, 4, 1, <<g1, g2>>)
    <3>1. Workflows!Basic(1) \in Basics(4) /\ Workflows!Basic(2) \in Basics(4)
      BY BasicsOf
    <3>2. /\ <<Workflows!Basic(1), Workflows!Basic(2)>> \in Seq(Basics(4))
          /\ <<Workflows!Basic(1), Workflows!Basic(2)>> # <<>>
      BY <3>1, Tuples
    <3>3. 1 \in (0 + 1)..4
      OBVIOUS
    <3>4. GatesUpTo(4, 4, 1, Append(<<g1>>, g2))
      BY <2>1, <3>2, <3>3, MidGate
    <3> HIDE DEF g1, g2
    <3>5. Append(<<g1>>, g2) = <<g1, g2>>
      BY Append2
    <3> QED BY <3>4, <3>5
  <2>3. Workflows!mockFaultTrees[w] = Workflows!FaultTree(4, 4, <<g1, g2>>)
    BY <1>17 DEF Workflows!mockFaultTrees, Workflows!schedulerTree
  <2> HIDE DEF g1, g2
  <2> QED BY <2>2, <2>3, TwoLevelTree DEF GatesUpTo
<1>18. CASE w = "wf-kudig-monitoring"
  <2> DEFINE g1 == Workflows!Gate(Workflows!Top, <<Workflows!Mid(1), Workflows!Mid(2)>>)
  <2>1. GatesUpTo(2, 4, 0, <<g1>>)
    <3>1. 2 \in 1..8 /\ 4 \in 1..9
      OBVIOUS
    <3> QED BY <3>1, MidLists, TopGate
  <2>2. Workflows!mockFaultTrees[w] = Workflows!FaultTree(2, 4, <<g1>>)
    BY <1>18 DEF Workflows!mockFaultTrees, Workflows!monitoringTree
  <2> HIDE DEF g1
  <2> QED BY <2>1, <2>2, TwoLevelTree DEF GatesUpTo
<1>19. CASE w = "wf-kudig-service"
  <2> DEFINE g1 == Workflows!Gate(Workflows!Top, <<Workflows!Mid(1), Workflows!Mid(2)>>)
             g2 == Workflows!Gate(Workflows!Mid(1), <<Workflows!Basic(1), Workflows!Basic(2)>>)
  <2>1. GatesUpTo(2, 4, 0, <<g1>>)
    <3>1. 2 \in 1..8 /\ 4 \in 1..9
      OBVIOUS
    <3> QED BY <3>1, MidLists, TopGate
  <2>2. GatesUpTo(2, 4, 1, <<g1, g2>>)
    <3>1. Workflows!Basic(1) \in Basics(4) /\ Workflows!Basic(2) \in Basics(4)
      BY BasicsOf
    <3>2. /\ <<Workflows!Basic(1), Workflows!Basic(2)>> \in Seq(Basics(4))
          /\ <<Workflows!Basic(1), Workflows!Basic(2)>> # <<>>
      BY <3>1, Tuples
    <3>3. 1 \in (0 + 1)..2
      OBVIOUS
    <3>4. GatesUpTo(2, 4, 1, Append(<<g1>>, g2))
      BY <2>1, <3>2, <3>3, MidGate
    <3> HIDE DEF g1, g2
    <3>5. Append(<<g1>>, g2) = <<g1, g2>>
      BY Append2
    <3> QED BY <3>4, <3>5
  <2>3. Workflows!mockFaultTrees[w] = Workflows!FaultTree(2, 4, <<g1, g2>>)
    BY <1>19 DEF Workflows!mockFaultTrees, Workflows!serviceTree
  <2> HIDE DEF g1, g2
  <2> QED BY <2>2, <2>3, TwoLevelTree DEF GatesUpTo
<1>20. \/ w = "wf-001"
       \/ w = "wf-002"
       \/ w = "wf-kudig-node"
       \/ w = "wf-kudig-pod"
       \/ w = "wf-kudig-apiserver"
       \/ w = "wf-kudig-etcd"
       \/ w = "wf-kudig-dns"
       \/ w = "wf-kudig-ingress"
       \/ w = "wf-kudig-deployment"
       \/ w = "wf-kudig-statefulset"
       \/ w = "wf-kudig-daemonset"
       \/ w = "wf-kudig-job"
       \/ w = "wf-kudig-hpa"
       \/ w = "wf-kudig-csi"
       \/ w = "wf-kudig-rbac"
       \/ w = "wf-kudig-certificate"
       \/ w = "wf-kudig-scheduler"
       \/ w = "wf-kudig-monitoring"
       \/ w = "wf-kudig-service"
  BY DEF Workflows!withTree
<1> QED BY <1>1, <1>2, <1>3, <1>4, <1>5, <1>6, <1>7, <1>8, <1>9, <1>10, <1>11, <1>12, <1>13,
       <1>14, <1>15, <1>16, <1>17, <1>18, <1>19, <1>20

-----------------------------------------------------------------------------
(* The shipped trees in the pages of the workflows.                        *)

Shipped == DOMAIN Workflows!mockFaultTrees

Parts(w) == Editor!NodeIds(Editor!Flow(Workflows!Tree(w)))

\* What is stored, cached or saved of a workflow: the tree that was shipped, or one that
\* lacks an event or a gate of it, which nothing brings back.
TreeKept(w, tree) ==
  /\ Editor!MaybeTree(tree)
  /\ w \in Shipped =>
       tree = Workflows!Tree(w) \/ ~(Parts(w) \subseteq Editor!NodeIds(Editor!Flow(tree)))

\* What the editor has of it: the diagram of that tree, laid out or not, or one that lacks a
\* node of it.
DiagramKept(w, d) ==
  /\ d \in Editor!Diagram
  /\ w \in Shipped =>
       \/ d = Editor!Flow(Workflows!Tree(w))
       \/ d = Editor!LaidOut(Editor!Flow(Workflows!Tree(w)))
       \/ ~(Parts(w) \subseteq Editor!NodeIds(d))

LEMMA PartsDrawn ==
  ASSUME NEW w \in Shipped
  PROVE  /\ Editor!Drawable(Workflows!Tree(w)) /\ Editor!MaybeTree(Workflows!Tree(w))
         /\ Editor!Flow(Workflows!Tree(w)) \in Editor!Diagram
         /\ Editor!NodeIds(Editor!LaidOut(Editor!Flow(Workflows!Tree(w)))) = Parts(w)
         /\ Workflows!Top \in Parts(w)
<1> DEFINE tree == Workflows!Tree(w)
           d == Editor!Flow(tree)
<1>1. Editor!Drawable(tree) /\ tree.top = Workflows!Top
  BY ShippedTree DEF Shipped
<1>2. /\ Editor!WellFormed(tree) /\ tree # Workflows!None /\ tree.events # <<>>
      /\ tree.events[1].id = tree.top
  BY <1>1 DEF Editor!Drawable
<1> HIDE DEF tree
<1>3. d \in Editor!Diagram /\ Editor!MaybeTree(tree)
  BY <1>2, EditorGiven, Editor!FlowIsDiagram DEF Editor!MaybeTree
<1>4. Editor!NodeIds(d) = Editor!TreeIds(tree)
  BY <1>2, EditorGiven, Editor!IdsOfFlow
<1>5. tree.top \in Editor!TreeIds(tree)
  <2>1. tree.events \in Seq([id : EventSet, top : BOOLEAN])
    BY <1>2 DEF Editor!WellFormed
  <2>2. 1 \in DOMAIN tree.events
    BY <1>2, <2>1, LenProperties, EmptySeq
  <2> QED BY <1>2, <2>2 DEF Editor!TreeIds, Editor!EventIds
<1> HIDE DEF d
<1>6. Editor!NodeIds(Editor!LaidOut(d)) = Editor!NodeIds(d)
  BY <1>3, EditorGiven, Editor!LayoutKeepsNodes
<1> QED BY <1>1, <1>3, <1>4, <1>5, <1>6 DEF Parts, d, tree

LEMMA NothingDrawn ==
  /\ Editor!Flow(Workflows!None) = [nodes |-> <<>>, edges |-> <<>>]
  /\ Editor!NodeIds(Editor!Flow(Workflows!None)) = {}
  /\ \A w : TreeKept(w, Workflows!None)
<1>1. Editor!Flow(Workflows!None) = [nodes |-> <<>>, edges |-> <<>>]
  BY DEF Editor!Flow
<1>2. Editor!NodeIds(Editor!Flow(Workflows!None)) = {}
  BY <1>1 DEF Editor!NodeIds
<1>3. \A w \in Shipped : Parts(w) # {}
  BY PartsDrawn
<1> QED BY <1>1, <1>2, <1>3 DEF TreeKept, Editor!MaybeTree

LEMMA ShippedKept == \A w : TreeKept(w, Workflows!Tree(w))
<1> TAKE w
<1>1. w \notin Shipped => Workflows!Tree(w) = Workflows!None
  BY DEF Shipped, Workflows!Tree
<1>2. w \in Shipped => Editor!MaybeTree(Workflows!Tree(w))
  BY PartsDrawn
<1> QED BY <1>1, <1>2 DEF TreeKept, Editor!MaybeTree

\* Opened, laid out, with a node removed or saved, it is what was shipped, or what it lacked
\* it still lacks.
LEMMA DrawnKept ==
  ASSUME NEW w, NEW tree, TreeKept(w, tree)
  PROVE  DiagramKept(w, Editor!Flow(tree))
<1>1. Editor!Flow(tree) \in Editor!Diagram
  BY EditorGiven, Editor!FlowIsDiagram DEF TreeKept
<1> QED BY <1>1 DEF TreeKept, DiagramKept

LEMMA LayoutKept ==
  ASSUME NEW w, NEW d, DiagramKept(w, d)
  PROVE  DiagramKept(w, Editor!LaidOut(d))
<1>1. d \in Editor!Diagram
  BY DEF DiagramKept
<1>2. Editor!LaidOut(d) \in Editor!Diagram
  <2>1. d \in Editor!DiagramOf(Editor!NodeIds(d))
    BY <1>1 DEF Editor!DiagramOf
  <2>2. Editor!LaidOut(d) \in Editor!DiagramOf(Editor!NodeIds(d))
    BY <2>1, EditorGiven, Editor!LaidOutIsDiagram
  <2> QED BY <2>2 DEF Editor!DiagramOf
<1>3. Editor!NodeIds(Editor!LaidOut(d)) = Editor!NodeIds(d)
  BY <1>1, EditorGiven, Editor!LayoutKeepsNodes
<1>4. ASSUME w \in Shipped
      PROVE  \/ Editor!LaidOut(d) = Editor!LaidOut(Editor!Flow(Workflows!Tree(w)))
             \/ ~(Parts(w) \subseteq Editor!NodeIds(Editor!LaidOut(d)))
  <2> DEFINE drawing == Editor!Flow(Workflows!Tree(w))
  <2>1. drawing \in Editor!Diagram
    BY <1>4, PartsDrawn
  <2>2. Editor!LaidOut(Editor!LaidOut(drawing)) = Editor!LaidOut(drawing)
    <3> HIDE DEF drawing
    <3> QED BY <2>1, EditorGiven, Editor!LaidOutOnce
  <2>3. \/ d = drawing \/ d = Editor!LaidOut(drawing)
        \/ ~(Parts(w) \subseteq Editor!NodeIds(d))
    BY <1>4 DEF DiagramKept
  <2> HIDE DEF drawing
  <2>4. \/ Editor!LaidOut(d) = Editor!LaidOut(drawing)
        \/ ~(Parts(w) \subseteq Editor!NodeIds(Editor!LaidOut(d)))
    BY <1>3, <2>2, <2>3
  <2> QED BY <2>4 DEF drawing
<1> QED BY <1>2, <1>4 DEF DiagramKept

LEMMA DeletionKept ==
  ASSUME NEW w, NEW d, DiagramKept(w, d), NEW id \in Editor!NodeIds(d)
  PROVE  DiagramKept(w, Editor!WithoutNode(d, id))
<1> DEFINE c == Editor!WithoutNode(d, id)
<1>1. d \in Editor!DiagramOf(Editor!NodeIds(d))
  BY DEF DiagramKept, Editor!DiagramOf
<1>2. c \in Editor!DiagramOf(Editor!NodeIds(d)) /\ Editor!NodeIds(c) = Editor!NodeIds(d) \ {id}
  BY <1>1, EditorGiven, Editor!NodeDeleted
<1> HIDE DEF c
<1>3. w \in Shipped => Parts(w) = Editor!NodeIds(d) \/ ~(Parts(w) \subseteq Editor!NodeIds(d))
  BY PartsDrawn DEF DiagramKept, Parts
<1>4. w \in Shipped => ~(Parts(w) \subseteq Editor!NodeIds(c))
  BY <1>2, <1>3
<1>5. DiagramKept(w, c)
  BY <1>2, <1>4 DEF DiagramKept, Editor!DiagramOf
<1> QED BY <1>5 DEF c

LEMMA SaveKept ==
  ASSUME NEW w, NEW d, DiagramKept(w, d)
  PROVE  /\ TreeKept(w, Editor!Saved(d))
         /\ w \in Shipped /\ Parts(w) \subseteq Editor!NodeIds(d) =>
              Editor!Saved(d) = Workflows!Tree(w)
<1> DEFINE tree == Editor!Saved(d)
<1>1. /\ Editor!MaybeTree(tree) /\ Editor!NodeIds(Editor!Flow(tree)) \subseteq Editor!NodeIds(d)
  <2>1. d \in Editor!Diagram
    BY DEF DiagramKept
  <2> QED BY <2>1, EditorGiven, Editor!SavedIsWellFormed, Editor!SaveAddsNothing
         DEF Editor!MaybeTree
<1>2. ASSUME w \in Shipped, Parts(w) \subseteq Editor!NodeIds(d)
      PROVE  tree = Workflows!Tree(w)
  <2> DEFINE shipped == Workflows!Tree(w)
  <2>1. Editor!Drawable(shipped)
    BY <1>2, PartsDrawn
  <2>2. d \in {Editor!Flow(shipped), Editor!LaidOut(Editor!Flow(shipped))}
    BY <1>2 DEF DiagramKept
  <2> HIDE DEF shipped
  <2>3. tree = shipped
    BY <2>1, <2>2, EditorGiven, Editor!DrawableIsKept
  <2> QED BY <2>3 DEF shipped
<1> HIDE DEF tree
<1>3. TreeKept(w, tree)
  BY <1>1, <1>2 DEF TreeKept
<1> QED BY <1>2, <1>3 DEF tree

LEMMA DropKept ==
  ASSUME NEW w
  PROVE  DiagramKept(w, [nodes |-> <<[id |-> Workflows!Dropped, top |-> FALSE, y |-> 0]>>,
                         edges |-> <<>>])
<1> DEFINE node == [id |-> Workflows!Dropped, top |-> FALSE, y |-> 0]
           d == [nodes |-> <<node>>, edges |-> <<>>]
<1>1. node \in Editor!NodeType /\ node.id = Workflows!Dropped
  BY DEF Editor!NodeType, EventSet
<1> HIDE DEF node
<1>2. /\ <<node>> \in Seq(Editor!NodeType) /\ <<>> \in Seq(Editor!Ends)
      /\ <<>> \in Seq(Editor!EndsAt(Editor!NodeIds(d)))
  BY <1>1, Tuples, EmptySeq
<1>3. Editor!Distinct(<<node>>)
  BY DEF Editor!Distinct
<1>4. d \in Editor!Diagram
  BY <1>2, <1>3 DEF Editor!Diagram
<1>5. Editor!NodeIds(d) = {Workflows!Dropped}
  BY <1>1 DEF Editor!NodeIds
<1>6. Workflows!Dropped # Workflows!Top
  BY DEF Workflows!Dropped, Workflows!Top, Workflows!Node
<1> HIDE DEF d
<1>7. DiagramKept(w, d)
  BY <1>4, <1>5, <1>6, PartsDrawn DEF DiagramKept
<1> QED BY <1>7 DEF d, node

\* A save under way, of a workflow that was looked at.
SaveOf(save) ==
  /\ DOMAIN save = {"workflow", "tree", "mounted"}
  /\ save.workflow \in opened /\ TreeKept(save.workflow, save.tree)

EditorKept ==
  /\ \A w \in opened : Workflows!EditorTab(w) => DiagramKept(w, drawn)
  /\ dirty => \E w \in opened : Workflows!EditorTab(w)

Routes ==
  {Workflows!List} \cup {Workflows!Designer(w) : w \in opened}
    \cup {Workflows!Execution(w) : w \in opened}

ShippedInv ==
  /\ TreesInv
  /\ workflowsRoute \in Routes
  /\ \A w \in opened : TreeKept(w, faultTrees[w]) /\ TreeKept(w, treeQueries[w].data)
  /\ IsList(saves) /\ \A i \in DOMAIN saves : SaveOf(saves[i])
  /\ EditorKept

\* One page is open, and only the page of a workflow has an editor.
LEMMA OnePage ==
  /\ \A w : Workflows!Execution(w).page = "execution" /\ Workflows!Execution(w).workflow = w
  /\ \A w : Workflows!Designer(w).page = "designer" /\ Workflows!Designer(w).workflow = w
  /\ Workflows!List.page = "list"
  /\ \A w : Workflows!EditorTab(w) => /\ workflowsRoute.page = "execution"
                                      /\ workflowsRoute.workflow = w
BY DEF Workflows!Execution, Workflows!Designer, Workflows!List, Workflows!EditorTab

LEMMA DataFetchedAgain ==
  ASSUME TreesInv, NEW w
  PROVE  \A v \in opened : Workflows!Refetched(treeQueries, w)[v].data = treeQueries[v].data
<1> DEFINE q == treeQueries[w]
           s == IF q.status = "success" THEN q.status ELSE "pending"
           f == [q EXCEPT !.fetching = TRUE, !.status = s]
<1>1. Workflows!Refetched(treeQueries, w) \in {treeQueries, [treeQueries EXCEPT ![w] = f]}
  BY DEF Workflows!Refetched, Workflows!Fetching
<1>2. w \in opened => f.data = q.data
  BY DEF TreesInv, AsStored
<1>3. treeQueries = [v \in opened |-> treeQueries[v]]
  BY DEF TreesInv
<1> HIDE DEF f
<1> QED BY <1>1, <1>2, <1>3

\* What the editor gets with a tree is of that tree.
LEMMA MountedKept ==
  ASSUME NEW w, NEW part, NEW entries, TreeKept(w, entries[w].data)
  PROVE  DiagramKept(w, Workflows!Mounted(w, part, entries))
<1>1. Workflows!Mounted(w, part, entries)
        \in {Editor!Flow(entries[w].data), Editor!Flow(Workflows!None)}
  BY SameDiagrams DEF Workflows!Mounted, Workflows!Empty
<1>2. TreeKept(w, Workflows!None)
  BY NothingDrawn
<1> QED BY <1>1, <1>2, DrawnKept

LEMMA ResultKept ==
  ASSUME EditorKept, NEW w \in opened, NEW tree, TreeKept(w, tree), Workflows!Result(w, tree),
         UNCHANGED <<opened, workflowsRoute, shownPart>>
  PROVE  EditorKept'
<1>1. \A v : Workflows!EditorTab(v)' <=> Workflows!EditorTab(v)
  BY DEF Workflows!EditorTab
<1>2. CASE UNCHANGED <<drawn, dirty>>
  BY <1>1, <1>2 DEF EditorKept
<1>3. CASE Workflows!EditorTab(w) /\ drawn' = Editor!Flow(tree) /\ ~dirty'
  <2>1. \A v : Workflows!EditorTab(v) => v = w
    BY <1>3, OnePage
  <2>2. DiagramKept(w, drawn')
    BY <1>3, DrawnKept
  <2> QED BY <1>1, <1>3, <2>1, <2>2 DEF EditorKept
<1>4. UNCHANGED <<drawn, dirty>> \/ (Workflows!EditorTab(w) /\ drawn' = Editor!Flow(tree) /\ ~dirty')
  BY SameDiagrams DEF Workflows!Result, Workflows!editor
<1> QED BY <1>2, <1>3, <1>4

LEMMA DrawsKept ==
  ASSUME ShippedInv, NEW d, Workflows!Draws(d),
         \A w \in opened : Workflows!EditorTab(w) => DiagramKept(w, d)
  PROVE  EditorKept'
<1>1. /\ \E w \in opened : Workflows!EditorTab(w)
      /\ drawn' = d /\ UNCHANGED <<opened, workflowsRoute, shownPart>>
  BY DEF Workflows!Draws, Workflows!EditorShown, Workflows!executionsTab
<1>2. \A v : Workflows!EditorTab(v)' <=> Workflows!EditorTab(v)
  BY <1>1 DEF Workflows!EditorTab
<1> QED BY <1>1, <1>2 DEF EditorKept

\* Edits change what is drawn alone.
LEMMA EditsKept ==
  ASSUME ShippedInv,
         \/ Workflows!AutoLayout \/ Workflows!Drop
         \/ \E id \in Deletable : Workflows!DeleteNode(id)
  PROVE  EditorKept' /\ UNCHANGED <<opened, faultTrees, workflowsRoute, treeQueries, saves>>
<1>0. \A w \in opened : Workflows!EditorTab(w) => DiagramKept(w, drawn)
  BY DEF ShippedInv, EditorKept
<1>1. CASE Workflows!AutoLayout
  <2>1. Workflows!Draws(Editor!LaidOut(drawn))
    BY <1>1, SameLayouts DEF Workflows!AutoLayout
  <2>2. \A w \in opened : Workflows!EditorTab(w) => DiagramKept(w, Editor!LaidOut(drawn))
    BY <1>0, LayoutKept
  <2> HIDE DEF Workflows!Draws
  <2>3. EditorKept'
    BY <2>1, <2>2, DrawsKept
  <2> QED BY <2>1, <2>3 DEF Workflows!Draws
<1>2. CASE Workflows!Drop
  <2> DEFINE d == [nodes |-> <<[id |-> Workflows!Dropped, top |-> FALSE, y |-> 0]>>,
                   edges |-> <<>>]
  <2>1. Workflows!Draws(d)
    <3>1. drawn = [nodes |-> <<>>, edges |-> <<>>]
      BY <1>2, SameDiagrams, NothingDrawn DEF Workflows!Drop, Workflows!Empty
    <3> DEFINE nodes == <<[id |-> Workflows!Dropped, top |-> FALSE, y |-> 0]>>
    <3>2. [drawn EXCEPT !.nodes = nodes] = [nodes |-> nodes, edges |-> <<>>]
      <4> HIDE DEF nodes
      <4> QED BY <3>1
    <3>3. Workflows!Draws([drawn EXCEPT !.nodes =
                              <<[id |-> Workflows!Dropped, top |-> FALSE, y |-> 0]>>])
      BY <1>2, Zenon DEF Workflows!Drop
    <3> QED BY <3>2, <3>3, Zenon
  <2>2. \A w \in opened : DiagramKept(w, d)
    BY DropKept
  <2> HIDE DEF d
  <2>3. EditorKept'
    BY <2>1, <2>2, DrawsKept
  <2> QED BY <2>1, <2>3 DEF Workflows!Draws
<1>3. ASSUME NEW id \in Deletable, Workflows!DeleteNode(id)
      PROVE  EditorKept' /\ UNCHANGED <<opened, faultTrees, workflowsRoute, treeQueries, saves>>
  <2>1. id \in Editor!NodeIds(drawn)
    BY <1>3, SameNodes DEF Workflows!DeleteNode
  <2>2. Workflows!Draws(Editor!WithoutNode(drawn, id))
    <3>1. /\ Workflows!Diagrams!NodesOf(drawn, Workflows!Diagrams!NodeIds(drawn) \ {id})
               = Editor!NodesOf(drawn, Editor!NodeIds(drawn) \ {id})
          /\ \A S : Workflows!Diagrams!Only(drawn.edges, S) = Editor!Only(drawn.edges, S)
          /\ Workflows!ToSet(drawn.edges) = Editor!ToSet(drawn.edges)
      BY SameNodes, SameSelections DEF Workflows!ToSet, Editor!ToSet
    <3> DEFINE S == {e \in Editor!ToSet(drawn.edges) : id \notin {e[1], e[2]}}
    <3>2. Workflows!Draws([nodes |-> Editor!NodesOf(drawn, Editor!NodeIds(drawn) \ {id}),
                           edges |-> Editor!Only(drawn.edges, S)])
      BY <1>3, <3>1, Zenon DEF Workflows!DeleteNode
    <3> QED BY <3>2 DEF Editor!WithoutNode
  <2>3. \A w \in opened : Workflows!EditorTab(w) => DiagramKept(w, Editor!WithoutNode(drawn, id))
    BY <1>0, <2>1, DeletionKept
  <2>4. EditorKept'
    BY <2>2, <2>3, DrawsKept
  <2> QED BY <2>2, <2>4 DEF Workflows!Draws
<1> QED BY <1>1, <1>2, <1>3

LEMMA LeftAreSaves ==
  ASSUME IsList(saves), \A i \in DOMAIN saves : SaveOf(saves[i])
  PROVE  /\ IsList(Workflows!Left) /\ DOMAIN Workflows!Left = DOMAIN saves
         /\ \A i \in DOMAIN saves : SaveOf(Workflows!Left[i])
<1> DEFINE l == [i \in 1..Len(saves) |-> [saves[i] EXCEPT !.mounted = FALSE]]
           S == {l[i] : i \in 1..Len(saves)}
<1>1. Len(saves) \in Nat /\ DOMAIN saves = 1..Len(saves)
  BY LenProperties DEF IsList
<1>2. Workflows!Left = l
  BY <1>1 DEF Workflows!Left
<1>3. l \in Seq(S)
  <2>1. l \in [1..Len(saves) -> S]
    OBVIOUS
  <2> HIDE DEF l, S
  <2> QED BY <1>1, <2>1, SeqDef
<1>4. \A i \in DOMAIN saves : SaveOf(l[i])
  <2> SUFFICES ASSUME NEW i \in DOMAIN saves PROVE SaveOf([saves[i] EXCEPT !.mounted = FALSE])
    BY <1>1
  <2> DEFINE save == saves[i]
  <2>1. SaveOf(save)
    OBVIOUS
  <2> HIDE DEF save
  <2>2. LET new == [save EXCEPT !.mounted = FALSE]
        IN  DOMAIN new = DOMAIN save /\ new.workflow = save.workflow /\ new.tree = save.tree
    BY <2>1 DEF SaveOf
  <2>3. SaveOf([save EXCEPT !.mounted = FALSE])
    BY <2>1, <2>2 DEF SaveOf
  <2> QED BY <2>3 DEF save
<1>5. DOMAIN l = DOMAIN saves
  BY <1>1
<1> HIDE DEF l, S
<1> QED BY <1>2, <1>3, <1>4, <1>5, ListOfAny

\* What a change of page, or of its tab, leaves.
LEMMA PageKept ==
  ASSUME ShippedInv,
         \/ Workflows!Navigate
         \/ \E part \in {"editor", "executions"} : Workflows!ShowPart(part)
  PROVE  /\ workflowsRoute' \in Routes /\ opened' = opened /\ faultTrees' = faultTrees
         /\ \A w \in opened : treeQueries'[w].data = treeQueries[w].data
         /\ IsList(saves') /\ \A i \in DOMAIN saves' : SaveOf(saves'[i])
         /\ EditorKept'
<1>0. /\ TreesInv /\ \A w \in opened : TreeKept(w, treeQueries[w].data)
      /\ IsList(saves) /\ \A i \in DOMAIN saves : SaveOf(saves[i])
  BY DEF ShippedInv
<1>1. CASE Workflows!Navigate
  <2> DEFINE entries(r) == IF r = Workflows!List THEN treeQueries
                           ELSE Workflows!Refetched(treeQueries, r.workflow)
  <2>1. PICK r \in Workflows!Links \ {workflowsRoute} :
          /\ workflowsRoute' = r /\ treeQueries' = entries(r)
          /\ drawn' = IF r.page = "execution"
                      THEN Workflows!Mounted(r.workflow, "editor", entries(r))
                      ELSE Workflows!Empty
          /\ ~dirty' /\ saves' = Workflows!Left /\ UNCHANGED <<opened, faultTrees>>
    BY <1>1 DEF Workflows!Navigate
  <2>2. r \in Routes
    BY <2>1 DEF Workflows!Links, Routes
  <2>3. \A w \in opened : entries(r)[w].data = treeQueries[w].data
    BY <1>0, DataFetchedAgain
  <2> HIDE DEF entries
  <2>4. ASSUME NEW w \in opened, Workflows!EditorTab(w)' PROVE DiagramKept(w, drawn')
    <3>1. r = Workflows!Execution(w)
      BY <2>1, <2>4 DEF Workflows!EditorTab
    <3>2. drawn' = Workflows!Mounted(w, "editor", entries(r))
      BY <2>1, <3>1, OnePage
    <3>3. TreeKept(w, entries(r)[w].data)
      BY <1>0, <2>3
    <3> QED BY <3>2, <3>3, MountedKept
  <2>5. EditorKept'
    BY <2>1, <2>4 DEF EditorKept
  <2>6. IsList(saves') /\ \A i \in DOMAIN saves' : SaveOf(saves'[i])
    BY <1>0, <2>1, LeftAreSaves
  <2> QED BY <2>1, <2>2, <2>3, <2>5, <2>6
<1>2. ASSUME NEW part, Workflows!ShowPart(part)
      PROVE  /\ workflowsRoute' \in Routes /\ opened' = opened /\ faultTrees' = faultTrees
             /\ \A w \in opened : treeQueries'[w].data = treeQueries[w].data
             /\ IsList(saves') /\ \A i \in DOMAIN saves' : SaveOf(saves'[i])
             /\ EditorKept'
  <2>1. /\ drawn' = Workflows!Mounted(workflowsRoute.workflow, part, treeQueries) /\ ~dirty'
        /\ UNCHANGED <<opened, faultTrees, workflowsRoute, treeQueries, saves>>
    BY <1>2 DEF Workflows!ShowPart
  <2>2. ASSUME NEW w \in opened, Workflows!EditorTab(w)' PROVE DiagramKept(w, drawn')
    <3>1. workflowsRoute.workflow = w
      BY <2>1, <2>2, OnePage DEF Workflows!EditorTab
    <3> QED BY <1>0, <2>1, <3>1, MountedKept
  <2>3. EditorKept'
    BY <2>1, <2>2 DEF EditorKept
  <2> QED BY <1>0, <2>1, <2>3 DEF ShippedInv
<1> QED BY <1>1, <1>2

LEMMA ShippedStep ==
  ASSUME ShippedInv, [Workflows!Next]_(Workflows!vars)
  PROVE  ShippedInv'
<1> USE DEF Workflows!editor, Workflows!executionsTab
<1>0. /\ TreesInv /\ TreesInv' /\ workflowsRoute \in Routes /\ EditorKept
      /\ \A w \in opened : TreeKept(w, faultTrees[w]) /\ TreeKept(w, treeQueries[w].data)
      /\ IsList(saves) /\ \A i \in DOMAIN saves : SaveOf(saves[i])
  BY TreesKept DEF ShippedInv
<1>s. ASSUME UNCHANGED opened
      PROVE  Routes' = Routes /\ \A save : SaveOf(save) => SaveOf(save)'
  BY <1>s DEF Routes, SaveOf
<1>k. ASSUME UNCHANGED <<opened, faultTrees, workflowsRoute, saves>>, EditorKept',
             \A w \in opened : treeQueries'[w].data = treeQueries[w].data
      PROVE  ShippedInv'
  BY <1>0, <1>k, <1>s DEF ShippedInv
<1>e. ASSUME UNCHANGED <<opened, workflowsRoute, drawn, dirty, shownPart>>
      PROVE  EditorKept'
  <2>1. \A v : Workflows!EditorTab(v)' <=> Workflows!EditorTab(v)
    BY <1>e DEF Workflows!EditorTab
  <2> QED BY <1>0, <1>e, <2>1 DEF EditorKept
<1>1. CASE Workflows!Navigate \/ \E part \in {"editor", "executions"} : Workflows!ShowPart(part)
  <2>1. /\ workflowsRoute' \in Routes /\ opened' = opened /\ faultTrees' = faultTrees
        /\ \A w \in opened : treeQueries'[w].data = treeQueries[w].data
        /\ IsList(saves') /\ \A i \in DOMAIN saves' : SaveOf(saves'[i])
        /\ EditorKept'
    BY <1>1, PageKept
  <2> QED BY <1>0, <1>s, <2>1 DEF ShippedInv
<1>2. CASE Workflows!AutoLayout \/ Workflows!Drop \/ \E id \in Deletable : Workflows!DeleteNode(id)
  <2>1. EditorKept' /\ UNCHANGED <<opened, faultTrees, workflowsRoute, treeQueries, saves>>
    BY <1>2, EditsKept
  <2> QED BY <1>k, <2>1
<1>3. CASE \/ \E w \in opened : Workflows!ExecutionsAnswered(w)
           \/ \E i \in 0..3 : Workflows!SelectRow(i)
           \/ UNCHANGED Workflows!vars
  <2>1. UNCHANGED <<opened, faultTrees, workflowsRoute, treeQueries, saves, drawn, dirty, shownPart>>
    BY <1>3 DEF Workflows!ExecutionsAnswered, Workflows!SelectRow, Workflows!vars
  <2> QED BY <1>e, <1>k, <2>1
<1>4. CASE Workflows!Focus
  <2>1. /\ treeQueries' = Workflows!Refetched(treeQueries, workflowsRoute.workflow)
        /\ UNCHANGED <<opened, faultTrees, workflowsRoute, saves, drawn, dirty, shownPart>>
    BY <1>4 DEF Workflows!Focus
  <2>2. \A w \in opened : treeQueries'[w].data = treeQueries[w].data
    BY <1>0, <2>1, DataFetchedAgain
  <2> QED BY <1>e, <1>k, <2>1, <2>2
<1>5. ASSUME NEW w \in opened, Workflows!GoesStale(w)
      PROVE  ShippedInv'
  <2> DEFINE new == [treeQueries[w] EXCEPT !.stale = TRUE]
  <2>1. /\ treeQueries' = [treeQueries EXCEPT ![w] = new]
        /\ UNCHANGED <<opened, faultTrees, workflowsRoute, saves, drawn, dirty, shownPart>>
    BY <1>5 DEF Workflows!GoesStale
  <2>2. new.data = treeQueries[w].data
    BY <1>0 DEF TreesInv, AsStored
  <2> HIDE DEF new
  <2>3. \A v \in opened : treeQueries'[v].data = treeQueries[v].data
    BY <1>0, <2>1, <2>2 DEF TreesInv
  <2> QED BY <1>e, <1>k, <2>1, <2>3
<1>6. ASSUME NEW w \in opened, Workflows!FetchEnds(w)
      PROVE  ShippedInv'
  <2> DEFINE s == IF faultTrees[w] = Workflows!None THEN "error" ELSE "success"
             new == [status |-> s, data |-> faultTrees[w], stale |-> FALSE, fetching |-> FALSE]
  <2>1. /\ treeQueries' = [treeQueries EXCEPT ![w] = new]
        /\ Workflows!Result(w, faultTrees[w])
        /\ UNCHANGED <<opened, faultTrees, workflowsRoute, saves, shownPart>>
    BY <1>6 DEF Workflows!FetchEnds
  <2>2. new.data = faultTrees[w]
    OBVIOUS
  <2> HIDE DEF new
  <2>3. \A v \in opened : TreeKept(v, treeQueries'[v].data)
    BY <1>0, <2>1, <2>2 DEF TreesInv
  <2>4. EditorKept'
    BY <1>0, <2>1, ResultKept
  <2> QED BY <1>0, <1>s, <2>1, <2>3, <2>4 DEF ShippedInv
<1>7. CASE Workflows!handleSave
  <2> DEFINE save == [workflow |-> workflowsRoute.workflow, tree |-> Editor!Saved(drawn),
                      mounted |-> TRUE]
  <2>1. /\ dirty /\ ~dirty' /\ saves' = Append(saves, save)
        /\ UNCHANGED <<opened, faultTrees, workflowsRoute, treeQueries, drawn, shownPart>>
    BY <1>7, SameSaves DEF Workflows!handleSave
  <2>2. PICK w \in opened : Workflows!EditorTab(w)
    BY <1>0, <2>1 DEF EditorKept
  <2>3. workflowsRoute.workflow = w /\ DiagramKept(w, drawn)
    BY <1>0, <2>2, OnePage DEF EditorKept
  <2>4. SaveOf(save)
    <3>1. DOMAIN save = {"workflow", "tree", "mounted"} /\ save.workflow = w
          /\ save.tree = Editor!Saved(drawn)
      BY <2>3
    <3> HIDE DEF save
    <3> QED BY <2>3, <3>1, SaveKept DEF SaveOf
  <2> HIDE DEF save
  <2>5. IsList(saves') /\ \A i \in DOMAIN saves' : SaveOf(saves'[i])
    <3>1. /\ IsList(saves') /\ Len(saves') = Len(saves) + 1 /\ saves'[Len(saves) + 1] = save
          /\ \A i \in 1..Len(saves) : saves'[i] = saves[i]
      BY <1>0, <2>1, ListAppended
    <3>2. DOMAIN saves' = 1..(Len(saves) + 1) /\ DOMAIN saves = 1..Len(saves) /\ Len(saves) \in Nat
      BY <1>0, <3>1, LenProperties DEF IsList
    <3>3. \A i \in 1..(Len(saves) + 1) : i = Len(saves) + 1 \/ i \in 1..Len(saves)
      BY <3>2
    <3> QED BY <1>0, <2>4, <3>1, <3>2, <3>3
  <2>6. EditorKept'
    <3>1. \A v : Workflows!EditorTab(v)' <=> Workflows!EditorTab(v)
      BY <2>1 DEF Workflows!EditorTab
    <3> QED BY <1>0, <2>1, <3>1 DEF EditorKept
  <2> QED BY <1>0, <1>s, <2>1, <2>5, <2>6 DEF ShippedInv
<1>8. ASSUME NEW i \in DOMAIN saves, Workflows!SaveEnds(i)
      PROVE  ShippedInv'
  <2> DEFINE w == saves[i].workflow
             tree == saves[i].tree
             f == treeQueries[w].fetching \/ workflowsRoute.workflow = w
             new == [status |-> "success", data |-> tree, stale |-> TRUE, fetching |-> f]
  <2>1. /\ treeQueries' = [treeQueries EXCEPT ![w] = new]
        /\ faultTrees' = [faultTrees EXCEPT ![w] = tree]
        /\ Workflows!Result(w, tree) /\ saves' = Workflows!RemoveAt(saves, i)
        /\ UNCHANGED <<opened, workflowsRoute, shownPart>>
    BY <1>8 DEF Workflows!SaveEnds, Workflows!Cached
  <2>2. w \in opened /\ TreeKept(w, tree)
    BY <1>0 DEF SaveOf
  <2>3. new.data = tree
    OBVIOUS
  <2>4. saves' = RemoveAt(saves, i)
    BY <2>1 DEF Workflows!RemoveAt, RemoveAt
  <2>5. IsList(saves') /\ \A j \in DOMAIN saves' : SaveOf(saves'[j])
    <3>1. /\ IsList(saves') /\ Len(saves') = Len(saves) - 1
          /\ \A j \in 1..(Len(saves) - 1) : saves'[j] = saves[IF j < i THEN j ELSE j + 1]
      BY <1>0, <2>4, ListRemoved
    <3>2. /\ DOMAIN saves' = 1..(Len(saves) - 1) /\ DOMAIN saves = 1..Len(saves)
          /\ Len(saves) \in Nat
      BY <1>0, <3>1, LenProperties DEF IsList
    <3>3. \A j \in 1..(Len(saves) - 1) : (IF j < i THEN j ELSE j + 1) \in 1..Len(saves)
      BY <3>2
    <3> QED BY <1>0, <3>1, <3>2, <3>3
  <2> HIDE DEF new, w, tree
  <2>6. \A v \in opened : TreeKept(v, faultTrees'[v]) /\ TreeKept(v, treeQueries'[v].data)
    BY <1>0, <2>1, <2>2, <2>3 DEF TreesInv
  <2>7. EditorKept'
    BY <1>0, <2>1, <2>2, ResultKept
  <2> QED BY <1>0, <1>s, <2>1, <2>5, <2>6, <2>7 DEF ShippedInv
<1> QED BY <1>1, <1>2, <1>3, <1>4, <1>5, <1>6, <1>7, <1>8 DEF Workflows!Next

\* For any workflows, deletions and number of saves: a tree that is shipped, opened in the
\* editor with all its nodes, is saved as it was, laid out or not, whatever was saved,
\* fetched or left before.
THEOREM ShippedTreesStay == Spec => []ShippedTreesKept
<1>1. Init => ShippedInv
  <2> SUFFICES ASSUME Init PROVE ShippedInv
    OBVIOUS
  <2>1. /\ faultTrees = [w \in opened |-> Workflows!Tree(w)]
        /\ treeQueries = [w \in opened |-> Workflows!NoQuery]
        /\ workflowsRoute = Workflows!List /\ saves = <<>> /\ ~dirty
    BY GroupsApart DEF Workflows!Init
  <2>2. /\ DOMAIN Workflows!NoQuery = {"status", "data", "stale", "fetching"}
        /\ Workflows!NoQuery.status = "none" /\ Workflows!NoQuery.data = Workflows!None
    BY DEF Workflows!NoQuery
  <2>3. TreesInv
    BY <2>1, <2>2 DEF TreesInv, AsStored
  <2>4. \A w \in opened : TreeKept(w, faultTrees[w]) /\ TreeKept(w, treeQueries[w].data)
    BY <2>1, <2>2, ShippedKept, NothingDrawn
  <2>5. IsList(saves) /\ DOMAIN saves = {}
    <3>1. <<>> \in Seq({})
      OBVIOUS
    <3>2. IsList(<<>>)
      BY <3>1, ListOfAny
    <3> QED BY <2>1, <3>2
  <2>6. EditorKept
    <3>1. \A w : ~Workflows!EditorTab(w)
      BY <2>1, OnePage
    <3> QED BY <2>1, <3>1 DEF EditorKept
  <2> QED BY <2>1, <2>3, <2>4, <2>5, <2>6 DEF ShippedInv, Routes
<1>2. ShippedInv /\ [Next]_vars => ShippedInv'
  BY GroupsApart, ShippedStep
<1>3. ShippedInv => ShippedTreesKept
  <2> SUFFICES ASSUME ShippedInv, NEW w \in opened, w \in Shipped,
                      Workflows!EditorShown(w), Workflows!ShippedParts(w)
               PROVE  Workflows!Diagrams!Saved(drawn) = Workflows!Tree(w)
    BY DEF ShippedTreesKept, Workflows!ShippedTreesKept, Shipped
  <2>1. DiagramKept(w, drawn)
    BY DEF Workflows!EditorShown, ShippedInv, EditorKept
  <2>2. Parts(w) = Editor!NodeIds(drawn)
    BY SameDiagrams, SameNodes DEF Workflows!ShippedParts, Parts
  <2> QED BY <2>1, <2>2, SaveKept, SameSaves
<1> QED BY <1>1, <1>2, <1>3, PTL DEF Spec
=============================================================================
