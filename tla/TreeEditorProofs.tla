-------------------------- MODULE TreeEditorProofs --------------------------
(***************************************************************************)
(* Theorems of TreeEditor for any events, gates, trees and heights, and    *)
(* any number of edits and of steps kept in the history: CleanMeansSaved,  *)
(* SavedAcyclic, RoundTrip and LayoutKeepsTree.                            *)
(***************************************************************************)
EXTENDS TreeEditor, SequenceTheorems, FiniteSetTheorems, NaturalsInduction,
        WellFoundedInduction, TLAPS

-----------------------------------------------------------------------------
(* Numbers                                                                 *)

LEMMA LeastNumber ==
  ASSUME NEW S \in SUBSET Nat, S # {}
  PROVE  \E i \in S : \A j \in S : i <= j
<1> DEFINE less == {p \in Nat \X Nat : p[1] < p[2]}
<1>1. less = OpToRel(<, Nat)
  BY Zenon DEF OpToRel
<1>2. IsWellFoundedOn(less, Nat)
  BY <1>1, NatLessThanWellFounded, Zenon
<1>3. PICK i \in S : \A j \in S : ~(<<j, i>> \in less)
  BY <1>2, WFMin, Zenon
<1>4. ASSUME NEW j \in S PROVE i <= j
  <2>1. ~(<<j, i>> \in less)
    BY <1>3
  <2>2. i \in Nat /\ j \in Nat
    OBVIOUS
  <2>3. ~(j < i)
    BY <2>1, <2>2
  <2> QED BY <2>2, <2>3
<1> QED BY <1>4

\* What Highest and Depths choose is there, and is one of the numbers.
LEMMA GreatestNumber ==
  ASSUME NEW K \in Nat, NEW S \in SUBSET (0..K), S # {}
  PROVE  \E i \in S : \A j \in S : j <= i
<1> DEFINE T == {K - i : i \in S}
<1>1. T \in SUBSET Nat /\ T # {}
  <2>1. \A i \in S : i \in 0..K /\ K - i \in Nat /\ K - i \in T
    OBVIOUS
  <2> QED BY <2>1
<1>2. PICK t \in T : \A u \in T : t <= u
  <2> HIDE DEF T
  <2> QED BY <1>1, LeastNumber
<1>3. PICK i \in S : t = K - i
  OBVIOUS
<1>4. ASSUME NEW j \in S PROVE j <= i
  <2>1. K - j \in T
    OBVIOUS
  <2>2. K - i <= K - j
    BY <1>2, <1>3, <2>1
  <2> QED BY <2>2
<1> QED BY <1>4

\* f goes from base, by one step after the other.
Goes(f, n, base, step) == f[0] = base /\ \A i \in 1..n : f[i] = step[i][f[i - 1]]

\* A step at each number, from the one before, makes up a function.
LEMMA StepsMakeFunction ==
  ASSUME NEW n \in Nat, NEW S, NEW base \in S, NEW step \in [1..n -> [S -> S]]
  PROVE  \E f \in [0..n -> S] : Goes(f, n, base, step)
<1> DEFINE Until(m) == \E f \in [0..m -> S] :
                         f[0] = base /\ \A i \in 1..m : f[i] = step[i][f[i - 1]]
           fails == {m \in 0..n : ~Until(m)}
<1>0. Until(0)
  <2> DEFINE f == [i \in 0..0 |-> base]
  <2>1. f \in [0..0 -> S] /\ f[0] = base
    OBVIOUS
  <2>2. \A i \in 1..0 : f[i] = step[i][f[i - 1]]
    OBVIOUS
  <2> HIDE DEF f
  <2> QED BY <2>1, <2>2
<1>1. ASSUME fails # {} PROVE FALSE
  <2>1. PICK m \in fails : \A k \in fails : m <= k
    <3>1. fails \in SUBSET Nat
      OBVIOUS
    <3> HIDE DEF fails
    <3> QED BY <1>1, <3>1, LeastNumber
  <2>2. m \in 0..n /\ ~Until(m)
    OBVIOUS
  <2>3. m # 0
    <3> HIDE DEF Until, fails
    <3> QED BY <1>0, <2>2
  <2>4. m \in 1..n /\ m - 1 \in 0..n /\ m \in Nat
    <3> HIDE DEF Until, fails
    <3> QED BY <2>2, <2>3
  <2>5. m - 1 \notin fails
    <3> HIDE DEF Until, fails
    <3> QED BY <2>1, <2>4
  <2>6. Until(m - 1)
    <3> HIDE DEF Until
    <3> QED BY <2>4, <2>5
  <2>7. PICK f \in [0..(m - 1) -> S] :
          f[0] = base /\ \A i \in 1..(m - 1) : f[i] = step[i][f[i - 1]]
    BY <2>6
  <2> DEFINE g == [i \in 0..m |-> IF i < m THEN f[i] ELSE step[m][f[m - 1]]]
  <2> HIDE DEF Until, fails
  <2>8. step[m][f[m - 1]] \in S
    BY <2>4, <2>7
  <2>9. g \in [0..m -> S] /\ g[0] = base
    BY <2>4, <2>7, <2>8
  <2>10. ASSUME NEW i \in 1..m PROVE g[i] = step[i][g[i - 1]]
    <3>1. CASE i < m
      <4>1. i \in 1..(m - 1) /\ i - 1 \in 0..m /\ i \in 0..m /\ i - 1 < m
        BY <2>4, <3>1
      <4> QED BY <2>7, <3>1, <4>1
    <3>2. CASE i = m
      <4>1. m \in 0..m /\ m - 1 \in 0..m /\ m - 1 < m /\ ~(m < m)
        BY <2>4
      <4> QED BY <3>2, <4>1
    <3> QED BY <2>4, <3>1, <3>2
  <2> HIDE DEF g
  <2>11. Until(m)
    BY <2>9, <2>10 DEF Until
  <2> QED BY <2>2, <2>11
<1>2. n \notin fails
  <2> HIDE DEF fails
  <2> QED BY <1>1
<1>3. Until(n)
  <2> HIDE DEF Until
  <2> QED BY <1>2
<1> QED BY <1>3 DEF Goes

-----------------------------------------------------------------------------
(* Sequences                                                               *)

\* r[n] has the elements in S of the first n of s.
Selects(r, s, S) ==
  /\ r[0] = <<>>
  /\ \A n \in 1..Len(s) : r[n] = IF s[n] \in S THEN Append(r[n - 1], s[n]) ELSE r[n - 1]

\* The recursion of Only goes through the sequence.
LEMMA OnlySelects ==
  ASSUME NEW U, NEW s \in Seq(U), NEW S
  PROVE  \E r : Selects(r, s, S) /\ Only(s, S) = r[Len(s)]
<1> DEFINE V == U \cap S
           keeps(f) == f = [n \in 0..Len(s) |->
                              IF n = 0 THEN <<>>
                              ELSE IF s[n] \in S THEN Append(f[n - 1], s[n]) ELSE f[n - 1]]
           only == CHOOSE f : keeps(f)
           step == [n \in 1..Len(s) |->
                      [r \in Seq(V) |-> IF s[n] \in S THEN Append(r, s[n]) ELSE r]]
<1>1. Len(s) \in Nat /\ DOMAIN s = 1..Len(s) /\ \A n \in 1..Len(s) : s[n] \in U
  BY LenProperties, ElementOfSeq
<1>2. \E f : keeps(f)
  <2>1. step \in [1..Len(s) -> [Seq(V) -> Seq(V)]]
    <3>1. ASSUME NEW n \in 1..Len(s), NEW r \in Seq(V), s[n] \in S
          PROVE  Append(r, s[n]) \in Seq(V)
      <4>1. s[n] \in V
        BY <1>1, <3>1
      <4> HIDE DEF V
      <4> QED BY <4>1, AppendProperties
    <3> HIDE DEF V
    <3>2. ASSUME NEW n \in 1..Len(s)
          PROVE  [r \in Seq(V) |-> IF s[n] \in S THEN Append(r, s[n]) ELSE r] \in [Seq(V) -> Seq(V)]
      BY <3>1
    <3> QED BY <3>2
  <2>2. <<>> \in Seq(V)
    BY EmptySeq
  <2> HIDE DEF V, keeps
  <2>3. PICK f \in [0..Len(s) -> Seq(V)] :
          f[0] = <<>> /\ \A n \in 1..Len(s) : f[n] = step[n][f[n - 1]]
    <3> DEFINE N == Len(s)
               Q == Seq(V)
               none == <<>>
    <3>1. N \in Nat /\ none \in Q /\ step \in [1..N -> [Q -> Q]]
      BY <1>1, <2>1, <2>2
    <3> HIDE DEF step, N, Q, none
    <3>2. \E f \in [0..N -> Q] : Goes(f, N, none, step)
      BY <3>1, StepsMakeFunction
    <3> QED BY <3>2 DEF N, Q, none, Goes
  <2>4. ASSUME NEW n \in 1..Len(s)
        PROVE  f[n] = IF s[n] \in S THEN Append(f[n - 1], s[n]) ELSE f[n - 1]
    <3>1. n - 1 \in 0..Len(s)
      BY <1>1
    <3>2. f[n - 1] \in Seq(V)
      BY <3>1
    <3> QED BY <2>3, <3>2
  <2> HIDE DEF step
  <2>5. \A n \in 0..Len(s) : n = 0 \/ n \in 1..Len(s)
    BY <1>1
  <2>6. f = [n \in 0..Len(s) |->
              IF n = 0 THEN <<>>
              ELSE IF s[n] \in S THEN Append(f[n - 1], s[n]) ELSE f[n - 1]]
    <3>1. ASSUME NEW n \in 0..Len(s)
          PROVE f[n] = IF n = 0 THEN <<>>
                       ELSE IF s[n] \in S THEN Append(f[n - 1], s[n]) ELSE f[n - 1]
      BY <2>3, <2>4, <2>5
    <3> QED BY <3>1
  <2> QED BY <2>6 DEF keeps
<1>3. keeps(only)
  <2> HIDE DEF keeps
  <2> QED BY <1>2
<1>4. Only(s, S) = only[Len(s)]
  BY DEF Only
<1> HIDE DEF only, step
<1>5. /\ only[0] = <<>>
      /\ \A n \in 1..Len(s) :
           only[n] = IF s[n] \in S THEN Append(only[n - 1], s[n]) ELSE only[n - 1]
  <2>1. 0 \in 0..Len(s) /\ \A n \in 1..Len(s) : n \in 0..Len(s) /\ n # 0
    BY <1>1
  <2> QED BY <1>3, <2>1
<1> QED BY <1>4, <1>5 DEF Selects

\* What is so of the empty sequence, and stays so from each prefix to the next, is so
\* of all of the prefixes.
LEMMA AllPrefixes ==
  ASSUME NEW n \in Nat, NEW good \in [0..n -> BOOLEAN],
         good[0], \A m \in 1..n : good[m - 1] => good[m]
  PROVE  \A m \in 0..n : good[m]
<1> DEFINE fails == {m \in 0..n : ~good[m]}
<1>1. ASSUME fails # {} PROVE FALSE
  <2>1. PICK m \in fails : \A k \in fails : m <= k
    <3>1. fails \in SUBSET Nat
      OBVIOUS
    <3> QED BY <1>1, <3>1, LeastNumber
  <2>2. m # 0
    BY <2>1
  <2>3. m \in 1..n /\ m - 1 \in 0..n /\ ~(m <= m - 1)
    BY <2>1, <2>2
  <2>4. good[m - 1]
    BY <2>1, <2>3
  <2> QED BY <2>1, <2>3, <2>4
<1> QED BY <1>1

\* Only keeps the elements of the sequence that are in the set, and no others, and
\* keeps them apart.
LEMMA OnlyKeeps ==
  ASSUME NEW U, NEW s \in Seq(U), NEW S
  PROVE  /\ Only(s, S) \in Seq(U \cap S) /\ ToSet(Only(s, S)) = ToSet(s) \cap S
         /\ Distinct(s) => Distinct(Only(s, S))
<1> DEFINE V == U \cap S
<1>1. Len(s) \in Nat /\ DOMAIN s = 1..Len(s) /\ \A n \in 1..Len(s) : s[n] \in U
  BY LenProperties, ElementOfSeq
<1>2. PICK only : Selects(only, s, S) /\ Only(s, S) = only[Len(s)]
  BY OnlySelects
<1>3. /\ only[0] = <<>>
      /\ \A n \in 1..Len(s) :
           only[n] = IF s[n] \in S THEN Append(only[n - 1], s[n]) ELSE only[n - 1]
  BY <1>2 DEF Selects
<1> DEFINE right(n) == /\ only[n] \in Seq(V)
                       /\ ToSet(only[n]) = {s[i] : i \in 1..n} \cap S
                       /\ Distinct(s) => Distinct(only[n])
           good == [n \in 0..Len(s) |-> right(n)]
<1>4. ASSUME NEW n \in 1..Len(s), right(n - 1) PROVE right(n)
  <2>1. /\ only[n - 1] \in Seq(V) /\ ToSet(only[n - 1]) = {s[i] : i \in 1..(n - 1)} \cap S
        /\ Distinct(s) => Distinct(only[n - 1])
    BY <1>4
  <2>2. {s[i] : i \in 1..n} = {s[i] : i \in 1..(n - 1)} \cup {s[n]}
    <3>1. \A i : i \in 1..n <=> i \in 1..(n - 1) \/ i = n
      BY <1>1
    <3> QED BY <3>1
  <2>3. CASE s[n] \in S
    <3>1. s[n] \in V
      BY <1>1, <2>3
    <3> HIDE DEF V, right
    <3>2. only[n] = Append(only[n - 1], s[n])
      BY <1>3, <2>3
    <3>3. /\ only[n] \in Seq(V) /\ Len(only[n]) = Len(only[n - 1]) + 1
          /\ \A i \in 1..Len(only[n - 1]) : only[n][i] = only[n - 1][i]
          /\ only[n][Len(only[n - 1]) + 1] = s[n]
      BY <2>1, <3>1, <3>2, AppendProperties
    <3>4. /\ Len(only[n - 1]) \in Nat
          /\ DOMAIN only[n - 1] = 1..Len(only[n - 1])
          /\ DOMAIN only[n] = 1..(Len(only[n - 1]) + 1)
      BY <2>1, <3>3, LenProperties
    <3>5. \A i : i \in DOMAIN only[n] <=> i \in DOMAIN only[n - 1] \/ i = Len(only[n - 1]) + 1
      BY <3>4
    <3>6. ToSet(only[n]) = ToSet(only[n - 1]) \cup {s[n]}
      BY <3>3, <3>4, <3>5 DEF ToSet
    <3>7. ToSet(only[n]) = {s[i] : i \in 1..n} \cap S
      BY <2>1, <2>2, <2>3, <3>6
    <3>8. ASSUME Distinct(s) PROVE Distinct(only[n])
      <4>1. ASSUME NEW i \in DOMAIN only[n - 1] PROVE only[n - 1][i].id # s[n].id
        <5>1. only[n - 1][i] \in ToSet(only[n - 1])
          BY DEF ToSet
        <5>2. PICK k \in 1..(n - 1) : only[n - 1][i] = s[k]
          BY <2>1, <5>1
        <5>3. k \in DOMAIN s /\ n \in DOMAIN s /\ k # n
          BY <1>1
        <5> QED BY <3>8, <5>2, <5>3 DEF Distinct
      <4>2. ASSUME NEW i \in DOMAIN only[n], NEW j \in DOMAIN only[n], only[n][i].id = only[n][j].id
            PROVE  i = j
        <5>1. CASE i \in DOMAIN only[n - 1] /\ j \in DOMAIN only[n - 1]
          BY <2>1, <3>3, <3>4, <3>8, <4>2, <5>1 DEF Distinct
        <5>2. CASE i \in DOMAIN only[n - 1] /\ j = Len(only[n - 1]) + 1
          BY <3>3, <3>4, <4>1, <4>2, <5>2
        <5>3. CASE j \in DOMAIN only[n - 1] /\ i = Len(only[n - 1]) + 1
          BY <3>3, <3>4, <4>1, <4>2, <5>3
        <5> QED BY <3>5, <5>1, <5>2, <5>3
      <4> QED BY <4>2 DEF Distinct
    <3> QED BY <3>3, <3>7, <3>8 DEF right
  <2>4. CASE s[n] \notin S
    <3>1. only[n] = only[n - 1]
      BY <1>3, <2>4
    <3>2. ToSet(only[n]) = {s[i] : i \in 1..n} \cap S
      BY <2>1, <2>2, <2>4, <3>1
    <3> QED BY <2>1, <3>1, <3>2
  <2> QED BY <2>3, <2>4
<1>5. right(0)
  <2>1. only[0] \in Seq(V)
    BY <1>3, EmptySeq
  <2>2. ToSet(only[0]) = {} /\ 1..0 = {} /\ Distinct(only[0])
    BY <1>3 DEF ToSet, Distinct
  <2> QED BY <2>1, <2>2
<1> HIDE DEF V, right
<1>6. good \in [0..Len(s) -> BOOLEAN]
  BY DEF right
<1>7. good[0] /\ \A m \in 1..Len(s) : good[m - 1] => good[m]
  <2>1. 0 \in 0..Len(s) /\ \A m \in 1..Len(s) : m \in 0..Len(s) /\ m - 1 \in 0..Len(s)
    BY <1>1
  <2> QED BY <1>4, <1>5, <2>1
<1>8. right(Len(s))
  <2>1. Len(s) \in 0..Len(s)
    BY <1>1
  <2>2. good[Len(s)]
    <3> HIDE DEF good
    <3> QED BY <1>1, <1>6, <1>7, <2>1, AllPrefixes
  <2> QED BY <2>1, <2>2
<1> QED BY <1>1, <1>2, <1>8 DEF right, V, ToSet

\* Only is what any such selection ends with.
\* If the first element is in the set, it stays the first.
LEMMA OnlyBegins ==
  ASSUME NEW U, NEW s \in Seq(U), NEW S, s # <<>>, s[1] \in S
  PROVE  Only(s, S)[1] = s[1]
<1>1. PICK r : Selects(r, s, S) /\ Only(s, S) = r[Len(s)]
  BY OnlySelects
<1>2. Len(s) \in Nat \ {0} /\ \A n \in 1..Len(s) : s[n] \in U
  BY LenProperties, ElementOfSeq, EmptySeq
<1> DEFINE begins(n) == n > 0 => r[n] \in Seq(U) /\ r[n] # <<>> /\ r[n][1] = s[1]
           good == [n \in 0..Len(s) |-> begins(n)]
<1>3. ASSUME NEW n \in 1..Len(s), begins(n - 1) PROVE begins(n)
  <2>1. r[n] = IF s[n] \in S THEN Append(r[n - 1], s[n]) ELSE r[n - 1]
    BY <1>1 DEF Selects
  <2>2. CASE n = 1
    <3>1. r[0] = <<>> /\ n - 1 = 0
      BY <1>1, <2>2 DEF Selects
    <3>2. r[n] = Append(<<>>, s[1])
      BY <2>1, <2>2, <3>1
    <3>3. s[1] \in U
      BY <1>2, <2>2
    <3>4. Append(<<>>, s[1]) = <<s[1]>>
      OBVIOUS
    <3> QED BY <3>2, <3>3, <3>4
  <2>3. CASE n # 1
    <3>1. n - 1 > 0 /\ s[n] \in U
      BY <1>2, <2>3
    <3>2. r[n - 1] \in Seq(U) /\ r[n - 1] # <<>> /\ r[n - 1][1] = s[1]
      BY <1>3, <3>1
    <3> DEFINE q == r[n - 1]
    <3>3. /\ Append(q, s[n]) \in Seq(U) /\ Append(q, s[n]) # <<>> /\ Append(q, s[n])[1] = q[1]
      <4>1. q \in Seq(U) /\ q # <<>>
        BY <3>2
      <4> HIDE DEF q
      <4>2. 1 \in 1..Len(q)
        BY <4>1, LenProperties, EmptySeq
      <4> QED BY <3>1, <4>1, <4>2, AppendProperties
    <3> QED BY <2>1, <3>2, <3>3
  <2> QED BY <2>2, <2>3
<1>4. good[0] /\ \A m \in 1..Len(s) : good[m - 1] => good[m]
  <2>1. \A m \in 1..Len(s) : m \in 0..Len(s) /\ m - 1 \in 0..Len(s)
    BY <1>2
  <2>2. begins(0) /\ 0 \in 0..Len(s)
    BY <1>2
  <2> HIDE DEF begins
  <2> QED BY <1>3, <2>1, <2>2
<1>5. Len(s) \in 0..Len(s) /\ good \in [0..Len(s) -> BOOLEAN]
  <2>1. \A n \in 0..Len(s) : begins(n) \in BOOLEAN
    OBVIOUS
  <2> HIDE DEF begins
  <2> QED BY <1>2, <2>1
<1>6. good[Len(s)]
  <2> HIDE DEF good
  <2> QED BY <1>2, <1>4, <1>5, AllPrefixes
<1>7. begins(Len(s))
  <2> HIDE DEF begins
  <2> QED BY <1>5, <1>6
<1> QED BY <1>1, <1>2, <1>7

LEMMA OnlyIsUnique ==
  ASSUME NEW U, NEW s \in Seq(U), NEW S, NEW r, Selects(r, s, S)
  PROVE  Only(s, S) = r[Len(s)]
<1>1. PICK only : Selects(only, s, S) /\ Only(s, S) = only[Len(s)]
  BY OnlySelects
<1> DEFINE good == [n \in 0..Len(s) |-> only[n] = r[n]]
<1>2. Len(s) \in Nat
  BY LenProperties
<1>3. good \in [0..Len(s) -> BOOLEAN]
  OBVIOUS
<1>4. good[0] /\ \A m \in 1..Len(s) : good[m - 1] => good[m]
  <2>1. 0 \in 0..Len(s) /\ \A m \in 1..Len(s) : m \in 0..Len(s) /\ m - 1 \in 0..Len(s)
    BY <1>2
  <2> QED BY <1>1, <2>1 DEF Selects
<1>5. Len(s) \in 0..Len(s)
  BY <1>2
<1>6. good[Len(s)]
  <2> HIDE DEF good
  <2> QED BY <1>2, <1>3, <1>4, <1>5, AllPrefixes
<1> QED BY <1>1, <1>5, <1>6

LEMMA OnlyOfConcat ==
  ASSUME NEW U, NEW s \in Seq(U), NEW t \in Seq(U), NEW S
  PROVE  Only(s \o t, S) = Only(s, S) \o Only(t, S)
<1>1. PICK a : Selects(a, s, S) /\ Only(s, S) = a[Len(s)]
  BY OnlySelects
<1>2. PICK b : Selects(b, t, S) /\ Only(t, S) = b[Len(t)]
  BY OnlySelects
<1> DEFINE first == Only(s, S)
           r == [n \in 0..(Len(s) + Len(t)) |->
                   IF n <= Len(s) THEN a[n] ELSE first \o b[n - Len(s)]]
<1>3. /\ s \o t \in Seq(U) /\ Len(s \o t) = Len(s) + Len(t)
      /\ \A i \in 1..(Len(s) + Len(t)) : (s \o t)[i] = IF i <= Len(s) THEN s[i] ELSE t[i - Len(s)]
      /\ Len(s) \in Nat /\ Len(t) \in Nat
  BY ConcatProperties, LenProperties
<1>4. first \in Seq(U) /\ \A n \in 1..Len(t) : t[n] \in U
  <2>1. first \in Seq(U \cap S)
    BY OnlyKeeps
  <2> HIDE DEF first
  <2> QED BY <2>1, SeqMonotonic, ElementOfSeq
<1>5. \A n \in 0..Len(t) : b[n] \in Seq(U)
  <2> DEFINE good == [n \in 0..Len(t) |-> b[n] \in Seq(U)]
  <2>1. good \in [0..Len(t) -> BOOLEAN]
    OBVIOUS
  <2>2. good[0]
    <3>1. 0 \in 0..Len(t) /\ b[0] \in Seq(U)
      BY <1>2, <1>3, EmptySeq DEF Selects
    <3> QED BY <3>1
  <2>3. ASSUME NEW m \in 1..Len(t), good[m - 1] PROVE good[m]
    <3>1. m \in 0..Len(t) /\ m - 1 \in 0..Len(t)
      BY <1>3
    <3>2. b[m - 1] \in Seq(U) /\ t[m] \in U
      BY <1>4, <2>3, <3>1
    <3>3. Append(b[m - 1], t[m]) \in Seq(U)
      BY <3>2, AppendProperties
    <3> QED BY <1>2, <3>1, <3>2, <3>3 DEF Selects
  <2>4. \A n \in 0..Len(t) : good[n]
    <3> HIDE DEF good
    <3> QED BY <1>3, <2>1, <2>2, <2>3, AllPrefixes
  <2> QED BY <2>4
<1>6. first \o <<>> = first
  BY <1>4, ConcatEmptySeq
<1>7. Selects(r, s \o t, S)
  <2>1. r[0] = <<>>
    BY <1>1, <1>3 DEF Selects
  <2>2. ASSUME NEW n \in 1..(Len(s) + Len(t))
        PROVE  r[n] = IF (s \o t)[n] \in S THEN Append(r[n - 1], (s \o t)[n]) ELSE r[n - 1]
    <3> n \in 0..(Len(s) + Len(t)) /\ n - 1 \in 0..(Len(s) + Len(t))
      BY <1>3
    <3>1. CASE n <= Len(s)
      <4>1. n \in 1..Len(s) /\ n - 1 <= Len(s)
        BY <1>3, <3>1
      <4>2. r[n] = a[n] /\ r[n - 1] = a[n - 1] /\ (s \o t)[n] = s[n]
        BY <1>3, <3>1, <4>1
      <4> HIDE DEF r
      <4> QED BY <1>1, <4>1, <4>2 DEF Selects
    <3>2. CASE ~(n <= Len(s))
      <4> DEFINE k == n - Len(s)
      <4>1. k \in 1..Len(t) /\ k - 1 \in 0..Len(t) /\ (n - 1) - Len(s) = k - 1
        BY <1>3, <3>2
      <4>2. r[n] = first \o b[k] /\ (s \o t)[n] = t[k]
        BY <1>3, <3>2
      <4>3. r[n - 1] = first \o b[k - 1]
        <5>1. CASE n - 1 <= Len(s)
          <6>1. n - 1 = Len(s) /\ k - 1 = 0
            BY <1>3, <3>2, <5>1
          <6>2. r[n - 1] = first
            BY <1>1, <6>1, <5>1
          <6> HIDE DEF r, first, k
          <6> QED BY <1>2, <1>6, <6>1, <6>2 DEF Selects
        <5>2. CASE ~(n - 1 <= Len(s))
          BY <4>1, <5>2
        <5> QED BY <5>1, <5>2
      <4> HIDE DEF r, first, k
      <4>4. b[k] = IF t[k] \in S THEN Append(b[k - 1], t[k]) ELSE b[k - 1]
        BY <1>2, <4>1 DEF Selects
      <4>5. CASE t[k] \in S
        <5>1. b[k - 1] \in Seq(U) /\ t[k] \in U
          BY <1>4, <1>5, <4>1
        <5>2. first \o Append(b[k - 1], t[k]) = Append(first \o b[k - 1], t[k])
          <6>1. /\ Append(b[k - 1], t[k]) = b[k - 1] \o <<t[k]>> /\ <<t[k]>> \in Seq(U)
                /\ first \o b[k - 1] \in Seq(U)
            BY <1>4, <5>1, AppendIsConcat, ConcatProperties
          <6>2. Append(first \o b[k - 1], t[k]) = (first \o b[k - 1]) \o <<t[k]>>
            BY <5>1, <6>1, AppendIsConcat
          <6> DEFINE old == b[k - 1]
                     new == <<t[k]>>
          <6>3. first \in Seq(U) /\ old \in Seq(U) /\ new \in Seq(U)
            BY <1>4, <5>1, <6>1
          <6> HIDE DEF old, new
          <6>4. (first \o old) \o new = first \o (old \o new)
            BY <6>3, ConcatAssociative, SMTT(20)
          <6> QED BY <6>1, <6>2, <6>4 DEF old, new
        <5> QED BY <4>2, <4>3, <4>4, <4>5, <5>2
      <4> QED BY <4>2, <4>3, <4>4, <4>5
    <3> QED BY <3>1, <3>2
  <2> HIDE DEF r
  <2> QED BY <1>3, <2>1, <2>2 DEF Selects
<1>8. Only(s \o t, S) = r[Len(s) + Len(t)]
  <2> HIDE DEF r
  <2> QED BY <1>3, <1>7, OnlyIsUnique
<1>9. CASE Len(t) = 0
  <2>1. b[0] = <<>>
    BY <1>2 DEF Selects
  <2>2. r[Len(s) + Len(t)] = first
    BY <1>1, <1>3, <1>9
  <2> HIDE DEF r, first
  <2> QED BY <1>2, <1>6, <1>8, <1>9, <2>1, <2>2 DEF first
<1>10. CASE Len(t) # 0
  <2>1. r[Len(s) + Len(t)] = first \o b[Len(t)]
    BY <1>3, <1>10
  <2> QED BY <1>2, <1>8, <2>1
<1> QED BY <1>9, <1>10

LEMMA OnlyAll ==
  ASSUME NEW U, NEW s \in Seq(U), NEW S, ToSet(s) \subseteq S
  PROVE  Only(s, S) = s
<1> DEFINE r == [n \in 0..Len(s) |-> SubSeq(s, 1, n)]
<1>1. Len(s) \in Nat /\ DOMAIN s = 1..Len(s) /\ \A n \in 1..Len(s) : s[n] \in U
  BY LenProperties, ElementOfSeq
<1>2. \A n \in 1..Len(s) : s[n] \in S
  BY <1>1 DEF ToSet
<1>3. r[0] = <<>>
  BY <1>1, SubSeqEmpty
<1>4. ASSUME NEW n \in 1..Len(s) PROVE r[n] = Append(r[n - 1], s[n])
  <2>1. n - 1 \in 0..Len(s) /\ n \in 0..Len(s) /\ 1 \in 1..Len(s) /\ n \in 1..Len(s)
    BY <1>1
  <2>2. SubSeq(s, 1, n) = SubSeq(s, 1, n - 1) \o <<s[n]>>
    BY <2>1, SubSeqRecursiveSecond
  <2>3. SubSeq(s, 1, n - 1) \in Seq(U)
    <3>1. \A i \in 1..(n - 1) : s[i] \in U
      BY <1>1
    <3> QED BY <1>1, <3>1, SubSeqProperties
  <2>4. Append(SubSeq(s, 1, n - 1), s[n]) = SubSeq(s, 1, n - 1) \o <<s[n]>>
    BY <1>1, <2>3, AppendIsConcat
  <2> QED BY <2>1, <2>2, <2>4
<1>5. r[Len(s)] = s
  BY <1>1, SubSeqFull
<1> HIDE DEF r
<1>6. Selects(r, s, S)
  BY <1>2, <1>3, <1>4 DEF Selects
<1> QED BY <1>5, <1>6, OnlyIsUnique

LEMMA OnlyNone ==
  ASSUME NEW U, NEW s \in Seq(U), NEW S, ToSet(s) \cap S = {}
  PROVE  Only(s, S) = <<>>
<1> DEFINE r == [n \in 0..Len(s) |-> <<>>]
<1>1. Len(s) \in Nat /\ DOMAIN s = 1..Len(s)
  BY LenProperties
<1>2. \A n \in 1..Len(s) : s[n] \notin S
  BY <1>1 DEF ToSet
<1>3. \A n \in 0..Len(s) : r[n] = <<>>
  OBVIOUS
<1> HIDE DEF r
<1>4. 0 \in 0..Len(s) /\ Len(s) \in 0..Len(s) /\ \A n \in 1..Len(s) : n \in 0..Len(s) /\ n - 1 \in 0..Len(s)
  BY <1>1
<1>5. Selects(r, s, S)
  BY <1>2, <1>3, <1>4 DEF Selects
<1> QED BY <1>3, <1>4, <1>5, OnlyIsUnique


\* f[n] has the first n of the sequences s joined.
Joins(f, s) == f[0] = <<>> /\ \A i \in 1..Len(s) : f[i] = f[i - 1] \o s[i]

\* The recursion of FlattenSeq goes through the sequence.
LEMMA FlattenJoins ==
  ASSUME NEW U, NEW s \in Seq(Seq(U))
  PROVE  \E f : Joins(f, s) /\ FlattenSeq(s) = f[Len(s)]
<1> DEFINE joins(f) == f = [i \in 1..Len(s) |-> IF i = 1 THEN s[i] ELSE f[i - 1] \o s[i]]
           flatten == CHOOSE f : joins(f)
           step == [i \in 1..Len(s) |-> [r \in Seq(U) |-> IF i = 1 THEN s[i] ELSE r \o s[i]]]
           all == [i \in 0..Len(s) |-> IF i = 0 THEN <<>> ELSE flatten[i]]
<1>1. Len(s) \in Nat /\ \A i \in 1..Len(s) : s[i] \in Seq(U)
  BY LenProperties, ElementOfSeq
<1>2. \E f : joins(f)
  <2>1. step \in [1..Len(s) -> [Seq(U) -> Seq(U)]]
    <3>1. ASSUME NEW i \in 1..Len(s), NEW r \in Seq(U) PROVE r \o s[i] \in Seq(U)
      BY <1>1, ConcatProperties
    <3>2. ASSUME NEW i \in 1..Len(s)
          PROVE  [r \in Seq(U) |-> IF i = 1 THEN s[i] ELSE r \o s[i]] \in [Seq(U) -> Seq(U)]
      BY <1>1, <3>1
    <3> QED BY <3>2
  <2>2. PICK f \in [0..Len(s) -> Seq(U)] : Goes(f, Len(s), <<>>, step)
    <3> DEFINE N == Len(s)
               Q == Seq(U)
               none == <<>>
    <3>1. N \in Nat /\ none \in Q /\ step \in [1..N -> [Q -> Q]]
      BY <1>1, <2>1, EmptySeq
    <3> HIDE DEF step, N, Q, none
    <3>2. \E f \in [0..N -> Q] : Goes(f, N, none, step)
      BY <3>1, StepsMakeFunction
    <3> QED BY <3>2 DEF N, Q, none
  <2>3. ASSUME NEW i \in 1..Len(s)
        PROVE  f[i] = IF i = 1 THEN s[i] ELSE f[i - 1] \o s[i]
    <3>1. i - 1 \in 0..Len(s)
      BY <1>1
    <3>2. f[i - 1] \in Seq(U)
      BY <3>1
    <3> QED BY <2>2, <3>2 DEF Goes
  <2> DEFINE g == [i \in 1..Len(s) |-> f[i]]
  <2>4. ASSUME NEW i \in 1..Len(s)
        PROVE  g[i] = IF i = 1 THEN s[i] ELSE g[i - 1] \o s[i]
    <3>1. i # 1 => i - 1 \in 1..Len(s)
      BY <1>1
    <3> QED BY <2>3, <3>1
  <2>5. g = [i \in 1..Len(s) |-> g[i]]
    OBVIOUS
  <2> HIDE DEF g
  <2>6. joins(g)
    BY <2>4, <2>5
  <2> QED BY <2>6
<1>3. joins(flatten)
  <2> HIDE DEF joins
  <2> QED BY <1>2
<1> HIDE DEF flatten, step
<1>4. \A i \in 1..Len(s) : flatten[i] = IF i = 1 THEN s[i] ELSE flatten[i - 1] \o s[i]
  BY <1>3
<1> HIDE DEF joins
<1>5. FlattenSeq(s) = all[Len(s)]
  <2>1. CASE Len(s) = 0
    <3>1. s = <<>>
      BY <2>1
    <3>2. FlattenSeq(s) = <<>>
      BY <2>1, <3>1 DEF FlattenSeq
    <3> QED BY <2>1, <3>2
  <2>2. CASE Len(s) # 0
    <3>1. FlattenSeq(s) = flatten[Len(s)]
      BY <2>2 DEF FlattenSeq, flatten, joins
    <3> QED BY <1>1, <2>2, <3>1
  <2> QED BY <2>1, <2>2
<1>6. ASSUME NEW i \in 1..Len(s) PROVE all[i] = all[i - 1] \o s[i]
  <2>1. i \in 0..Len(s) /\ i - 1 \in 0..Len(s) /\ i # 0
    BY <1>1
  <2>2. CASE i = 1
    <3>1. all[i - 1] = <<>> /\ all[i] = s[i]
      BY <1>4, <2>1, <2>2
    <3>2. <<>> \o s[i] = s[i]
      BY <1>1, ConcatEmptySeq
    <3> QED BY <3>1, <3>2
  <2>3. CASE i # 1
    <3>1. i - 1 # 0 /\ all[i - 1] = flatten[i - 1] /\ all[i] = flatten[i]
      BY <1>1, <2>1, <2>3
    <3> HIDE DEF all
    <3> QED BY <1>4, <2>3, <3>1
  <2> QED BY <2>2, <2>3
<1>7. all[0] = <<>>
  BY <1>1
<1> HIDE DEF all
<1> QED BY <1>5, <1>6, <1>7 DEF Joins

LEMMA JoinedPrefixes ==
  ASSUME NEW U, NEW s \in Seq(Seq(U)), NEW f, Joins(f, s)
  PROVE  \A n \in 0..Len(s) : f[n] \in Seq(U)
<1> DEFINE good == [n \in 0..Len(s) |-> f[n] \in Seq(U)]
<1>1. Len(s) \in Nat /\ \A i \in 1..Len(s) : s[i] \in Seq(U)
  BY LenProperties, ElementOfSeq
<1>2. good \in [0..Len(s) -> BOOLEAN]
  OBVIOUS
<1>3. good[0]
  <2>1. 0 \in 0..Len(s) /\ f[0] \in Seq(U)
    BY <1>1, EmptySeq DEF Joins
  <2> QED BY <2>1
<1>4. ASSUME NEW m \in 1..Len(s), good[m - 1] PROVE good[m]
  <2>1. m \in 0..Len(s) /\ m - 1 \in 0..Len(s)
    BY <1>1
  <2>2. f[m - 1] \in Seq(U)
    BY <1>4, <2>1
  <2>3. f[m - 1] \o s[m] \in Seq(U)
    BY <1>1, <2>2, ConcatProperties
  <2> QED BY <2>1, <2>3 DEF Joins
<1>5. \A n \in 0..Len(s) : good[n]
  <2> HIDE DEF good
  <2> QED BY <1>1, <1>2, <1>3, <1>4, AllPrefixes
<1> QED BY <1>5

LEMMA FlattenedIsSequence ==
  ASSUME NEW U, NEW s \in Seq(Seq(U))
  PROVE  FlattenSeq(s) \in Seq(U)
<1>1. PICK f : Joins(f, s) /\ FlattenSeq(s) = f[Len(s)]
  BY FlattenJoins
<1>2. Len(s) \in Nat
  BY LenProperties
<1>3. \A n \in 0..Len(s) : f[n] \in Seq(U)
  BY <1>1, JoinedPrefixes
<1> QED BY <1>1, <1>2, <1>3

\* What is selected of each part is added to what was selected of those before.
Selections(f, parts, T) ==
  \A m \in 1..Len(parts) : Only(f[m], T) = Only(f[m - 1], T) \o Only(parts[m], T)

LEMMA OnlyOfJoined ==
  ASSUME NEW U, NEW parts \in Seq(Seq(U)), NEW f, Joins(f, parts), NEW T
  PROVE  Selections(f, parts, T)
<1> SUFFICES ASSUME NEW m \in 1..Len(parts)
             PROVE  Only(f[m], T) = Only(f[m - 1], T) \o Only(parts[m], T)
  BY DEF Selections
<1> DEFINE old == f[m - 1]
           new == parts[m]
<1>1. old \in Seq(U) /\ new \in Seq(U)
  <2>1. Len(parts) \in Nat /\ m - 1 \in 0..Len(parts)
    BY LenProperties
  <2> QED BY <2>1, JoinedPrefixes, ElementOfSeq
<1>2. f[m] = old \o new
  BY DEF Joins
<1> HIDE DEF old, new
<1>3. Only(old \o new, T) = Only(old, T) \o Only(new, T)
  <2>1. \A a, b \in Seq(U) : Only(a \o b, T) = Only(a, T) \o Only(b, T)
    BY OnlyOfConcat
  <2> QED BY <1>1, <2>1
<1> QED BY <1>2, <1>3 DEF old, new

\* Of the parts only the kth has elements in T, and no others.
Alone(parts, k, T) ==
  /\ ToSet(parts[k]) \subseteq T
  /\ \A i \in 1..Len(parts) : i # k => ToSet(parts[i]) \cap T = {}

\* Of the parts joined, T selects that one.
LEMMA OnlyOfFlattened ==
  ASSUME NEW U, NEW parts \in Seq(Seq(U)), NEW T, NEW k \in 1..Len(parts), Alone(parts, k, T)
  PROVE  Only(FlattenSeq(parts), T) = parts[k]
<1>1. PICK f : Joins(f, parts) /\ FlattenSeq(parts) = f[Len(parts)]
  BY FlattenJoins
<1>2. Len(parts) \in Nat /\ \A i \in 1..Len(parts) : parts[i] \in Seq(U)
  BY LenProperties, ElementOfSeq
<1>3. \A n \in 0..Len(parts) : f[n] \in Seq(U)
  BY <1>1, JoinedPrefixes
<1>4. parts[k] \o <<>> = parts[k] /\ <<>> \o parts[k] = parts[k] /\ <<>> \o <<>> = <<>>
  BY <1>2, ConcatEmptySeq, EmptySeq
<1>5. ASSUME NEW m \in 1..Len(parts)
      PROVE  Only(f[m], T) = Only(f[m - 1], T) \o Only(parts[m], T)
  <2>1. Selections(f, parts, T)
    BY <1>1, OnlyOfJoined
  <2> QED BY <2>1 DEF Selections
<1> DEFINE good == [n \in 0..Len(parts) |-> Only(f[n], T) = IF n < k THEN <<>> ELSE parts[k]]
<1>6. good \in [0..Len(parts) -> BOOLEAN]
  OBVIOUS
<1>7. good[0]
  <2>1. <<>> \in Seq(U) /\ ToSet(<<>>) \cap T = {}
    BY EmptySeq DEF ToSet
  <2>2. Only(<<>>, T) = <<>>
    BY <2>1, OnlyNone
  <2>3. 0 \in 0..Len(parts) /\ 0 < k
    BY <1>2
  <2> QED BY <1>1, <2>2, <2>3 DEF Joins
<1>8. ASSUME NEW m \in 1..Len(parts), good[m - 1] PROVE good[m]
  <2>1. m \in 0..Len(parts) /\ m - 1 \in 0..Len(parts)
    BY <1>2
  <2>2. Only(f[m - 1], T) = IF m - 1 < k THEN <<>> ELSE parts[k]
    BY <1>8, <2>1
  <2>3. CASE m = k
    <3>1. Only(parts[m], T) = parts[m]
      BY <1>2, <2>3, OnlyAll DEF Alone
    <3>2. m - 1 < k /\ ~(m < k)
      BY <1>2, <2>3
    <3> QED BY <1>4, <1>5, <2>1, <2>2, <2>3, <3>1, <3>2
  <2>4. CASE m # k
    <3>1. Only(parts[m], T) = <<>>
      BY <1>2, <2>4, OnlyNone DEF Alone
    <3>2. m - 1 < k <=> m < k
      BY <1>2, <2>4
    <3> QED BY <1>4, <1>5, <2>1, <2>2, <3>1, <3>2
  <2> QED BY <2>3, <2>4
<1>9. good[Len(parts)]
  <2>1. Len(parts) \in 0..Len(parts)
    BY <1>2
  <2> HIDE DEF good
  <2> QED BY <1>2, <1>6, <1>7, <1>8, <2>1, AllPrefixes
<1>10. Len(parts) \in 0..Len(parts) /\ ~(Len(parts) < k)
  BY <1>2
<1> QED BY <1>1, <1>9, <1>10

LEMMA ElementsOfConcat ==
  ASSUME NEW U, NEW a \in Seq(U), NEW b \in Seq(U)
  PROVE  ToSet(a \o b) = ToSet(a) \cup ToSet(b)
<1> DEFINE c == a \o b
<1>1. /\ c \in Seq(U) /\ Len(c) = Len(a) + Len(b)
      /\ \A i \in 1..(Len(a) + Len(b)) : c[i] = IF i <= Len(a) THEN a[i] ELSE b[i - Len(a)]
  BY ConcatProperties
<1>2. /\ Len(a) \in Nat /\ Len(b) \in Nat /\ DOMAIN a = 1..Len(a) /\ DOMAIN b = 1..Len(b)
      /\ DOMAIN c = 1..(Len(a) + Len(b))
  BY <1>1, LenProperties
<1> HIDE DEF c
<1>3. ASSUME NEW i \in 1..Len(a) PROVE a[i] \in ToSet(c)
  <2>1. i \in DOMAIN c /\ c[i] = a[i]
    BY <1>1, <1>2
  <2> QED BY <2>1 DEF ToSet
<1>4. ASSUME NEW i \in 1..Len(b) PROVE b[i] \in ToSet(c)
  <2> DEFINE j == Len(a) + i
  <2>2. j \in 1..(Len(a) + Len(b)) /\ ~(j <= Len(a)) /\ j - Len(a) = i
    BY <1>2
  <2> HIDE DEF j
  <2>1. j \in DOMAIN c /\ c[j] = b[i]
    BY <1>1, <1>2, <2>2
  <2> QED BY <2>1 DEF ToSet
<1>5. ASSUME NEW i \in DOMAIN c PROVE c[i] \in ToSet(a) \cup ToSet(b)
  <2>1. CASE i <= Len(a)
    <3>1. i \in DOMAIN a /\ c[i] = a[i]
      BY <1>1, <1>2, <2>1
    <3> QED BY <3>1 DEF ToSet
  <2>2. CASE ~(i <= Len(a))
    <3>1. i - Len(a) \in DOMAIN b /\ c[i] = b[i - Len(a)]
      BY <1>1, <1>2, <2>2
    <3> QED BY <3>1 DEF ToSet
  <2> QED BY <2>1, <2>2
<1>6. ToSet(c) = ToSet(a) \cup ToSet(b)
  BY <1>2, <1>3, <1>4, <1>5 DEF ToSet
<1> QED BY <1>6 DEF c

\* The parts, joined, have the elements of each.
LEMMA FlattenedHasParts ==
  ASSUME NEW U, NEW parts \in Seq(Seq(U)), NEW k \in 1..Len(parts)
  PROVE  ToSet(parts[k]) \subseteq ToSet(FlattenSeq(parts))
<1>1. PICK f : Joins(f, parts) /\ FlattenSeq(parts) = f[Len(parts)]
  BY FlattenJoins
<1>2. Len(parts) \in Nat /\ \A i \in 1..Len(parts) : parts[i] \in Seq(U)
  BY LenProperties, ElementOfSeq
<1>3. \A n \in 0..Len(parts) : f[n] \in Seq(U)
  BY <1>1, JoinedPrefixes
<1>4. ASSUME NEW a \in Seq(U), NEW b \in Seq(U)
      PROVE  ToSet(a) \subseteq ToSet(a \o b) /\ ToSet(b) \subseteq ToSet(a \o b)
  <2>1. ToSet(a \o b) = ToSet(a) \cup ToSet(b)
    BY ElementsOfConcat
  <2> QED BY <2>1
<1>5. \A m \in 1..Len(parts) : /\ ToSet(f[m - 1]) \subseteq ToSet(f[m])
                               /\ ToSet(parts[m]) \subseteq ToSet(f[m])
  <2> TAKE m \in 1..Len(parts)
  <2>1. m - 1 \in 0..Len(parts)
    BY <1>2
  <2>2. f[m - 1] \in Seq(U) /\ parts[m] \in Seq(U) /\ f[m] = f[m - 1] \o parts[m]
    BY <1>1, <1>2, <1>3, <2>1 DEF Joins
  <2> QED BY <1>4, <2>2
<1> DEFINE good == [n \in 0..Len(parts) |-> k <= n => ToSet(parts[k]) \subseteq ToSet(f[n])]
<1>6. good \in [0..Len(parts) -> BOOLEAN]
  OBVIOUS
<1>7. good[0]
  <2>1. 0 \in 0..Len(parts) /\ ~(k <= 0)
    BY <1>2
  <2> QED BY <2>1
<1>8. ASSUME NEW m \in 1..Len(parts), good[m - 1] PROVE good[m]
  <2>1. m \in 0..Len(parts) /\ m - 1 \in 0..Len(parts)
    BY <1>2
  <2>2. k <= m - 1 => ToSet(parts[k]) \subseteq ToSet(f[m - 1])
    BY <1>8, <2>1
  <2>3. k <= m => k <= m - 1 \/ k = m
    BY <1>2
  <2> QED BY <1>5, <2>1, <2>2, <2>3
<1>9. good[Len(parts)]
  <2>1. Len(parts) \in 0..Len(parts)
    BY <1>2
  <2> HIDE DEF good
  <2> QED BY <1>2, <1>6, <1>7, <1>8, <2>1, AllPrefixes
<1>10. Len(parts) \in 0..Len(parts) /\ k <= Len(parts)
  BY <1>2
<1> QED BY <1>1, <1>9, <1>10

\* Each element of the parts, joined, is of one of them.
LEMMA FlattenedIsOfParts ==
  ASSUME NEW U, NEW parts \in Seq(Seq(U)), NEW x \in ToSet(FlattenSeq(parts))
  PROVE  \E k \in 1..Len(parts) : x \in ToSet(parts[k])
<1>1. PICK f : Joins(f, parts) /\ FlattenSeq(parts) = f[Len(parts)]
  BY FlattenJoins
<1>2. Len(parts) \in Nat /\ \A i \in 1..Len(parts) : parts[i] \in Seq(U)
  BY LenProperties, ElementOfSeq
<1>3. \A n \in 0..Len(parts) : f[n] \in Seq(U)
  BY <1>1, JoinedPrefixes
<1> DEFINE good == [n \in 0..Len(parts) |->
                      x \in ToSet(f[n]) => \E k \in 1..Len(parts) : x \in ToSet(parts[k])]
<1>4. good \in [0..Len(parts) -> BOOLEAN]
  OBVIOUS
<1>5. good[0]
  <2>1. 0 \in 0..Len(parts) /\ f[0] = <<>>
    BY <1>1, <1>2 DEF Joins
  <2>2. ToSet(<<>>) = {}
    BY DEF ToSet
  <2> QED BY <2>1, <2>2
<1>6. ASSUME NEW m \in 1..Len(parts), good[m - 1] PROVE good[m]
  <2>1. m \in 0..Len(parts) /\ m - 1 \in 0..Len(parts)
    BY <1>2
  <2>2. f[m - 1] \in Seq(U) /\ parts[m] \in Seq(U) /\ f[m] = f[m - 1] \o parts[m]
    BY <1>1, <1>2, <1>3, <2>1 DEF Joins
  <2>3. ToSet(f[m]) = ToSet(f[m - 1]) \cup ToSet(parts[m])
    BY <2>2, ElementsOfConcat
  <2> QED BY <1>6, <2>1, <2>3
<1>7. good[Len(parts)]
  <2>1. Len(parts) \in 0..Len(parts)
    BY <1>2
  <2> HIDE DEF good
  <2> QED BY <1>2, <1>4, <1>5, <1>6, <2>1, AllPrefixes
<1>8. Len(parts) \in 0..Len(parts)
  BY <1>2
<1> QED BY <1>1, <1>7, <1>8

\* The elements of a sequence are finitely many.
LEMMA ElementsAreFinite ==
  ASSUME NEW U, NEW s \in Seq(U)
  PROVE  /\ IsFiniteSet(ToSet(s)) /\ ToSet(s) \in SUBSET U
         /\ DOMAIN s = 1..Len(s) /\ Len(s) \in Nat
<1>1. Len(s) \in Nat /\ DOMAIN s = 1..Len(s) /\ s \in [1..Len(s) -> U]
  BY LenProperties
<1>2. s \in Surjection(1..Len(s), ToSet(s))
  BY <1>1 DEF Surjection, ToSet
<1>3. IsFiniteSet(1..Len(s))
  BY <1>1, FS_Interval
<1>4. IsFiniteSet(ToSet(s))
  BY <1>2, <1>3, FS_Surjection
<1> QED BY <1>1, <1>4 DEF ToSet

\* A function of the elements of a sequence, applied to each, makes a sequence.
LEMMA MappedIsSequence ==
  ASSUME NEW U, NEW V, NEW s \in Seq(U), NEW t, DOMAIN t = DOMAIN s,
         t = [i \in DOMAIN s |-> t[i]], \A i \in DOMAIN s : t[i] \in V
  PROVE  t \in Seq(V) /\ Len(t) = Len(s)
<1>1. DOMAIN s = 1..Len(s) /\ Len(s) \in Nat
  BY LenProperties
<1>2. t \in [1..Len(s) -> V]
  BY <1>1
<1> QED BY <1>1, <1>2, SeqDef, LenProperties

-----------------------------------------------------------------------------
(* Trees and diagrams                                                      *)

NodeType == [id : Events \cup Gates, top : BOOLEAN, y : Nat]

Ends == ((Events \cup {None}) \X Gates) \cup (Gates \X Events)

EndsAt(ids) == {e \in Ends : e[1] \in ids \cup {None} /\ e[2] \in ids}

\* What the editor shows: heights are whole half rows, no two nodes have one id, and
\* edges join the events and the gates shown, but for a gate drawn without an output.
Diagram ==
  {d \in [nodes : Seq(NodeType), edges : Seq(Ends)] :
     Distinct(d.nodes) /\ d.edges \in Seq(EndsAt(NodeIds(d)))}

DiagramOf(ids) == {d \in Diagram : NodeIds(d) \subseteq ids}

EventNode == {n \in NodeType : n.id \in Events}
GateNode == {n \in NodeType : n.id \in Gates}

\* What the page has, what is stored and what is on the way.
MaybeTree(tree) == tree = None \/ WellFormed(tree)

\* within[n] are the ids at most n steps from root.
Widens(within, ids, root, next) ==
  /\ within[0] = {root}
  /\ \A n \in 1..Cardinality(ids) :
       within[n] = within[n - 1] \cup UNION {next[i] : i \in within[n - 1] \cap ids}

\* D is the first number of steps within which i is, or 0 if it is never.
FirstWithin(within, K, i, D) ==
  IF \E n \in 0..K : i \in within[n]
  THEN D \in 0..K /\ i \in within[D] /\ \A n \in 0..K : i \in within[n] => D <= n
  ELSE D = 0

\* The recursion of Depths is a breadth-first search.
LEMMA SearchWidens ==
  ASSUME NEW ids, IsFiniteSet(ids), NEW root, NEW next
  PROVE  \E within : /\ Widens(within, ids, root, next)
                     /\ \A i \in ids :
                          FirstWithin(within, Cardinality(ids), i, Depths(ids, root, next)[i])
<1> DEFINE K == Cardinality(ids)
           V == {root} \cup UNION {next[i] : i \in ids}
           S == Seq(SUBSET V)
           more(x) == x \cup UNION {next[i] : i \in x \cap ids}
           base == <<{root}>>
           step == [n \in 1..K |->
                      [s \in S |-> Append(s, IF n \in DOMAIN s THEN more(s[n]) ELSE {})]]
           widens(f) == f = [n \in 0..K |->
                               IF n = 0 THEN base
                               ELSE LET w == f[n - 1]
                                    IN  Append(w, w[n] \cup UNION {next[i] : i \in w[n] \cap ids})]
           upTo == CHOOSE f : widens(f)
           all == upTo[K]
<1>1. K \in Nat
  BY FS_CardinalityType
<1>2. base \in S /\ Len(base) = 1 /\ base[1] = {root}
  OBVIOUS
<1>3. \A x \in SUBSET V : more(x) \in SUBSET V
  OBVIOUS
<1>4. Depths(ids, root, next) =
        [i \in ids |->
           LET at == {n \in DOMAIN all : i \in all[n]}
           IN  IF at = {} THEN 0 ELSE (CHOOSE n \in at : \A k \in at : n <= k) - 1]
  BY DEF Depths
<1> HIDE DEF V, more, K
<1>5. \E f : widens(f)
  <2>1. step \in [1..K -> [S -> S]]
    <3>1. ASSUME NEW n \in 1..K, NEW s \in S
          PROVE  Append(s, IF n \in DOMAIN s THEN more(s[n]) ELSE {}) \in S
      <4>1. n \in DOMAIN s => s[n] \in SUBSET V
        BY ElementOfSeq, LenProperties
      <4>2. (IF n \in DOMAIN s THEN more(s[n]) ELSE {}) \in SUBSET V
        BY <1>3, <4>1
      <4> QED BY <4>2, AppendProperties
    <3> HIDE DEF S
    <3> QED BY <3>1
  <2>2. PICK f \in [0..K -> S] : f[0] = base /\ \A n \in 1..K : f[n] = step[n][f[n - 1]]
    <3> HIDE DEF S, base, step
    <3>1. \E f \in [0..K -> S] : Goes(f, K, base, step)
      BY <1>1, <1>2, <2>1, StepsMakeFunction
    <3> QED BY <3>1 DEF Goes
  <2>3. \A n \in 1..K : n - 1 \in 0..K /\ n # 0
    BY <1>1
  <2>4. \A n \in 0..K : f[n] \in S
    <3> HIDE DEF S
    <3> QED BY <2>2
  <2>5. ASSUME NEW n \in 1..K
        PROVE  f[n] = Append(f[n - 1], IF n \in DOMAIN f[n - 1] THEN more(f[n - 1][n]) ELSE {})
    <3> HIDE DEF S
    <3> QED BY <2>2, <2>3, <2>4
  <2> HIDE DEF step
  <2> DEFINE good == [n \in 0..K |-> Len(f[n]) = n + 1]
  <2>6. good \in [0..K -> BOOLEAN] /\ good[0]
    <3>1. 0 \in 0..K /\ Len(f[0]) = 0 + 1
      BY <1>1, <1>2, <2>2
    <3> QED BY <3>1
  <2>7. ASSUME NEW n \in 1..K, good[n - 1] PROVE good[n]
    <3>1. Len(f[n - 1]) = n
      <4>1. good[n - 1] <=> Len(f[n - 1]) = (n - 1) + 1
        BY <2>3
      <4>2. (n - 1) + 1 = n
        BY <1>1
      <4> HIDE DEF good
      <4> QED BY <2>7, <4>1, <4>2
    <3>2. f[n - 1] \in S /\ f[n] \in S
      BY <1>1, <2>3, <2>4
    <3>3. (IF n \in DOMAIN f[n - 1] THEN more(f[n - 1][n]) ELSE {}) \in SUBSET V
      <4>1. n \in DOMAIN f[n - 1] => f[n - 1][n] \in SUBSET V
        BY <3>2, ElementOfSeq, LenProperties
      <4> QED BY <1>3, <4>1
    <3>4. Len(f[n]) = n + 1
      BY <2>5, <3>1, <3>2, <3>3, AppendProperties
    <3>5. n \in 0..K
      BY <1>1
    <3> QED BY <3>4, <3>5
  <2>8. \A n \in 0..K : good[n]
    <3> HIDE DEF good
    <3> QED BY <1>1, <2>6, <2>7, AllPrefixes
  <2>9. ASSUME NEW n \in 1..K PROVE f[n] = Append(f[n - 1], more(f[n - 1][n]))
    <3>1. Len(f[n - 1]) = n
      <4>1. Len(f[n - 1]) = (n - 1) + 1
        BY <2>3, <2>8
      <4> QED BY <1>1, <4>1
    <3>2. DOMAIN f[n - 1] = 1..n
      BY <2>3, <2>4, <3>1, LenProperties
    <3>3. n \in DOMAIN f[n - 1]
      BY <1>1, <3>2
    <3> QED BY <2>5, <3>3
  <2>10. \A n \in 0..K : n = 0 \/ n \in 1..K
    BY <1>1
  <2>11. widens(f)
    <3>1. \A n \in 0..K :
            f[n] = IF n = 0 THEN base
                   ELSE LET w == f[n - 1]
                        IN  Append(w, w[n] \cup UNION {next[i] : i \in w[n] \cap ids})
      BY <2>2, <2>9, <2>10 DEF more
    <3>2. f = [n \in 0..K |-> f[n]]
      BY <2>2
    <3> QED BY <3>1, <3>2
  <2> QED BY <2>11
<1>6. widens(upTo)
  <2> HIDE DEF widens
  <2> QED BY <1>5
<1> HIDE DEF upTo, step
<1>7. upTo[0] = base /\ \A n \in 1..K : upTo[n] = Append(upTo[n - 1], more(upTo[n - 1][n]))
  <2>1. 0 \in 0..K /\ \A n \in 1..K : n \in 0..K /\ n # 0
    BY <1>1
  <2> QED BY <1>6, <2>1 DEF more
<1> HIDE DEF widens
\* What was written stays.
<1> DEFINE kept == [n \in 0..K |-> /\ upTo[n] \in S /\ Len(upTo[n]) = n + 1
                                   /\ \A m \in 0..n : upTo[n][m + 1] = upTo[m][m + 1]]
<1>8. \A n \in 0..K : kept[n]
  <2>1. kept \in [0..K -> BOOLEAN]
    OBVIOUS
  <2>2. kept[0]
    <3>1. upTo[0] \in S /\ Len(upTo[0]) = 0 + 1
      BY <1>2, <1>7
    <3>2. \A m \in 0..0 : m = 0
      OBVIOUS
    <3> QED BY <1>1, <3>1, <3>2
  <2>3. ASSUME NEW n \in 1..K, kept[n - 1] PROVE kept[n]
    <3>1. n \in Nat /\ n - 1 \in 0..K /\ n \in 0..K /\ (n - 1) + 1 = n
      BY <1>1
    <3>2. /\ upTo[n - 1] \in S /\ Len(upTo[n - 1]) = n
          /\ \A m \in 0..(n - 1) : upTo[n - 1][m + 1] = upTo[m][m + 1]
      BY <2>3, <3>1
    <3>3. upTo[n - 1][n] \in SUBSET V
      BY <3>1, <3>2, ElementOfSeq
    <3>4. more(upTo[n - 1][n]) \in SUBSET V
      BY <1>3, <3>3
    <3>5. /\ upTo[n] \in S /\ Len(upTo[n]) = n + 1
          /\ \A m \in 1..n : upTo[n][m] = upTo[n - 1][m]
      <4> DEFINE old == upTo[n - 1]
                 new == more(upTo[n - 1][n])
      <4>1. old \in S /\ Len(old) = n /\ new \in SUBSET V /\ upTo[n] = Append(old, new)
        BY <1>7, <3>2, <3>4
      <4> HIDE DEF old, new
      <4> QED BY <4>1, AppendProperties DEF old
    <3>6. ASSUME NEW m \in 0..n PROVE upTo[n][m + 1] = upTo[m][m + 1]
      <4>1. CASE m = n
        BY <4>1
      <4>2. CASE m # n
        <5>1. m + 1 \in 1..n /\ m \in 0..(n - 1)
          BY <3>1, <4>2
        <5> QED BY <3>2, <3>5, <5>1
      <4> QED BY <4>1, <4>2
    <3> QED BY <3>1, <3>5, <3>6
  <2> HIDE DEF kept
  <2> QED BY <1>1, <2>1, <2>2, <2>3, AllPrefixes
<1> DEFINE within == [n \in 0..K |-> upTo[n][n + 1]]
<1>9. Widens(within, ids, root, next)
  <2>1. within[0] = {root}
    <3>1. 0 \in 0..K /\ 0 + 1 = 1
      BY <1>1
    <3> QED BY <1>2, <1>7, <3>1
  <2>2. ASSUME NEW n \in 1..K PROVE within[n] = more(within[n - 1])
    <3>1. n \in Nat /\ n - 1 \in 0..K /\ n \in 0..K /\ (n - 1) + 1 = n
      BY <1>1
    <3>2. upTo[n - 1] \in S /\ Len(upTo[n - 1]) = n
      BY <1>8, <3>1
    <3>3. upTo[n - 1][n] \in SUBSET V
      BY <3>1, <3>2, ElementOfSeq
    <3>4. more(upTo[n - 1][n]) \in SUBSET V
      BY <1>3, <3>3
    <3>5. upTo[n][n + 1] = more(upTo[n - 1][n])
      BY <1>7, <3>2, <3>4, AppendProperties
    <3> QED BY <3>1, <3>5
  <2> HIDE DEF within
  <2> QED BY <2>1, <2>2 DEF Widens, more, K
<1>10. DOMAIN all = 1..(K + 1) /\ \A n \in 0..K : all[n + 1] = within[n]
  <2>1. K \in 0..K
    BY <1>1
  <2>2. all \in S /\ Len(all) = K + 1 /\ \A m \in 0..K : all[m + 1] = upTo[m][m + 1]
    BY <1>8, <2>1
  <2> HIDE DEF all
  <2> QED BY <2>2, LenProperties
<1> HIDE DEF all, within, kept
<1>11. ASSUME NEW i \in ids PROVE FirstWithin(within, K, i, Depths(ids, root, next)[i])
  <2> DEFINE at == {n \in DOMAIN all : i \in all[n]}
             least == CHOOSE n \in at : \A k \in at : n <= k
             D == Depths(ids, root, next)[i]
  <2>1. D = IF at = {} THEN 0 ELSE least - 1
    BY <1>4
  <2>2. at \in SUBSET (1..(K + 1)) /\ at \in SUBSET Nat
    BY <1>10
  <2>3. \A n \in 0..K : i \in within[n] <=> n + 1 \in at
    BY <1>1, <1>10
  <2> HIDE DEF at, D
  <2>4. CASE at = {}
    BY <2>1, <2>3, <2>4 DEF FirstWithin, D
  <2>5. CASE at # {}
    <3>1. \E n \in at : \A k \in at : n <= k
      BY <2>2, <2>5, LeastNumber
    <3>2. least \in at /\ \A k \in at : least <= k
      BY <3>1
    <3> HIDE DEF least
    <3>3. least \in 1..(K + 1)
      BY <2>2, <3>2
    <3>4. D = least - 1 /\ D \in 0..K /\ D + 1 = least
      BY <1>1, <2>1, <2>5, <3>3
    <3>5. i \in within[D]
      BY <2>3, <3>2, <3>4
    <3>6. ASSUME NEW n \in 0..K, i \in within[n] PROVE D <= n
      <4>1. least <= n + 1
        BY <2>3, <3>2, <3>6
      <4> QED BY <1>1, <3>3, <3>4, <4>1
    <3> QED BY <3>4, <3>5, <3>6 DEF FirstWithin, D
  <2> QED BY <2>4, <2>5
<1> QED BY <1>9, <1>11 DEF K

LEMMA DepthIsNatural ==
  ASSUME NEW ids, IsFiniteSet(ids), NEW root, NEW next
  PROVE  /\ Cardinality(ids) \in Nat
         /\ \A i \in ids : Depths(ids, root, next)[i] \in 0..Cardinality(ids)
<1>1. Cardinality(ids) \in Nat
  BY FS_CardinalityType
<1>2. PICK within :
        \A i \in ids : FirstWithin(within, Cardinality(ids), i, Depths(ids, root, next)[i])
  BY SearchWidens
<1>3. 0 \in 0..Cardinality(ids)
  BY <1>1
<1> QED BY <1>1, <1>2, <1>3 DEF FirstWithin

\* The search starts from root, and gets to any other id from one before it.
LEMMA FoundFromBefore ==
  ASSUME NEW ids, IsFiniteSet(ids), NEW root, NEW next
  PROVE  /\ root \in ids => Depths(ids, root, next)[root] = 0
         /\ \A i \in ids : Depths(ids, root, next)[i] > 0 => \E j \in ids : i \in next[j]
<1> DEFINE K == Cardinality(ids)
           D(i) == Depths(ids, root, next)[i]
<1>1. K \in Nat
  BY FS_CardinalityType
<1>2. PICK within : /\ Widens(within, ids, root, next)
                    /\ \A i \in ids : FirstWithin(within, K, i, D(i))
  BY SearchWidens
<1>3. /\ within[0] = {root}
      /\ \A n \in 1..K : within[n] = within[n - 1] \cup UNION {next[i] : i \in within[n - 1] \cap ids}
  BY <1>2 DEF Widens
<1> HIDE DEF K, D
<1>4. ASSUME root \in ids PROVE D(root) = 0
  <2>1. 0 \in 0..K /\ root \in within[0]
    BY <1>1, <1>3
  <2>2. D(root) \in 0..K /\ D(root) <= 0
    BY <1>2, <1>4, <2>1 DEF FirstWithin
  <2> QED BY <2>2
<1>5. ASSUME NEW i \in ids, D(i) > 0 PROVE \E j \in ids : i \in next[j]
  <2>1. FirstWithin(within, K, i, D(i)) /\ D(i) # 0
    BY <1>2, <1>5
  <2>2. D(i) \in 0..K /\ i \in within[D(i)] /\ \A n \in 0..K : i \in within[n] => D(i) <= n
    BY <2>1 DEF FirstWithin
  <2> DEFINE n == D(i)
  <2>3. n \in 1..K /\ n - 1 \in 0..K /\ ~(n <= n - 1)
    BY <1>1, <2>1, <2>2
  <2>4. i \notin within[n - 1]
    BY <2>2, <2>3
  <2>5. within[n] = within[n - 1] \cup UNION {next[j] : j \in within[n - 1] \cap ids}
    BY <1>3, <2>3
  <2> QED BY <2>2, <2>4, <2>5
<1> QED BY <1>4, <1>5 DEF D

\* If each edge leads one level down, and each id has one leading to it or is on level 0,
\* with edges from it only if it is the root, the search finds the levels.
LEMMA LevelsAreFound ==
  ASSUME NEW ids, IsFiniteSet(ids), NEW root \in ids, NEW next \in [ids -> SUBSET ids],
         NEW level \in [ids -> Nat], level[root] = 0,
         \A i \in ids : \A j \in next[i] : level[j] = level[i] + 1,
         \A j \in ids : level[j] > 0 => \E i \in ids : j \in next[i],
         \A i \in ids \ {root} : level[i] = 0 => next[i] = {}
  PROVE  \A i \in ids : Depths(ids, root, next)[i] = level[i]
<1> DEFINE K == Cardinality(ids)
           D(i) == Depths(ids, root, next)[i]
<1>1. K \in Nat
  BY FS_CardinalityType
<1>2. PICK within : /\ Widens(within, ids, root, next)
                    /\ \A i \in ids : FirstWithin(within, K, i, D(i))
  BY SearchWidens
<1>3. /\ within[0] = {root}
      /\ \A n \in 1..K : within[n] = within[n - 1] \cup UNION {next[i] : i \in within[n - 1] \cap ids}
  BY <1>2 DEF Widens
<1>4. \A i \in ids : level[i] \in Nat
  OBVIOUS
<1> DEFINE Led(i) == i = root \/ level[i] > 0
<1>5. \A j \in ids : level[j] > 0 => \E i \in ids : Led(i) /\ j \in next[i] /\ level[j] = level[i] + 1
  <2> SUFFICES ASSUME NEW j \in ids, level[j] > 0
               PROVE  \E i \in ids : Led(i) /\ j \in next[i] /\ level[j] = level[i] + 1
    OBVIOUS
  <2>1. PICK i \in ids : j \in next[i]
    OBVIOUS
  <2>2. i = root \/ level[i] # 0
    BY <2>1
  <2> QED BY <1>4, <2>1, <2>2
<1>6. ASSUME NEW i \in ids PROVE level[i] <= K
  <2> DEFINE L == {level[j] : j \in ids}
             H == level[i]
             good == [m \in 0..H |-> H - m \in L]
  <2>1. IsFiniteSet(L) /\ Cardinality(L) <= K
    <3>1. level \in Surjection(ids, L)
      BY DEF Surjection
    <3> HIDE DEF L
    <3> QED BY <3>1, FS_Surjection
  <2>2. H \in Nat /\ good \in [0..H -> BOOLEAN]
    BY <1>4
  <2>3. good[0]
    <3>1. 0 \in 0..H /\ H - 0 = H /\ H \in L
      BY <2>2
    <3> QED BY <3>1
  <2>4. ASSUME NEW m \in 1..H, good[m - 1] PROVE good[m]
    <3>1. m \in 0..H /\ m - 1 \in 0..H /\ H - (m - 1) > 0
      BY <2>2
    <3>2. PICK j \in ids : level[j] = H - (m - 1)
      BY <2>4, <3>1
    <3>3. level[j] > 0
      BY <3>1, <3>2
    <3>4. PICK k \in ids : level[j] = level[k] + 1
      BY <1>5, <3>3
    <3>5. level[k] = H - m
      BY <1>4, <2>2, <3>2, <3>4
    <3>6. H - m \in L
      BY <3>5
    <3> QED BY <3>1, <3>6
  <2>5. \A m \in 0..H : good[m]
    <3> HIDE DEF good, H
    <3> QED BY <2>2, <2>3, <2>4, AllPrefixes
  <2>6. 0..H \in SUBSET L
    <3>1. ASSUME NEW n \in 0..H PROVE n \in L
      <4>1. H - n \in 0..H /\ H - (H - n) = n
        BY <2>2
      <4>2. H - (H - n) \in L
        BY <2>5, <4>1
      <4> QED BY <4>1, <4>2
    <3> QED BY <3>1
  <2>7. Cardinality(0..H) = H + 1
    BY <2>2, FS_Interval
  <2> HIDE DEF L, H, K
  <2>8. Cardinality(0..H) <= Cardinality(L) /\ Cardinality(L) \in Nat
    BY <2>1, <2>6, FS_Subset, FS_CardinalityType
  <2> QED BY <1>1, <2>1, <2>2, <2>7, <2>8 DEF H
<1> HIDE DEF K, D
<1> DEFINE upto(n) == {i \in ids : Led(i) /\ level[i] <= n}
           found == [n \in 0..K |-> within[n] = upto(n)]
<1>7. \A n \in 0..K : found[n]
  <2>1. found \in [0..K -> BOOLEAN]
    OBVIOUS
  <2>2. found[0]
    <3>1. \A j \in ids : j # root => ~(Led(j) /\ level[j] <= 0)
      BY <1>4
    <3>2. upto(0) = {root}
      BY <3>1
    <3>3. 0 \in 0..K
      BY <1>1
    <3> QED BY <1>3, <3>2, <3>3
  <2>3. ASSUME NEW n \in 1..K, found[n - 1] PROVE found[n]
    <3>1. n \in 0..K /\ n - 1 \in 0..K /\ n \in Nat
      BY <1>1
    <3>2. within[n - 1] = upto(n - 1)
      BY <2>3, <3>1
    <3>3. within[n] = upto(n - 1) \cup UNION {next[i] : i \in upto(n - 1) \cap ids}
      BY <1>3, <3>2
    <3>4. ASSUME NEW j \in within[n] PROVE j \in upto(n)
      <4>1. CASE j \in upto(n - 1)
        BY <1>4, <3>1, <4>1
      <4>2. CASE j \notin upto(n - 1)
        <5>1. PICK i \in upto(n - 1) : j \in next[i]
          BY <3>3, <3>4, <4>2
        <5>2. i \in ids /\ j \in ids /\ level[j] = level[i] + 1 /\ level[i] <= n - 1
          BY <5>1
        <5>3. level[j] <= n /\ level[j] > 0
          BY <1>4, <3>1, <5>2
        <5> QED BY <5>2, <5>3
      <4> QED BY <4>1, <4>2
    <3>5. ASSUME NEW j \in upto(n) PROVE j \in within[n]
      <4>0. j \in ids /\ Led(j) /\ level[j] <= n
        OBVIOUS
      <4>1. CASE j = root
        <5>1. root \in upto(n - 1)
          BY <3>1
        <5> QED BY <3>3, <4>1, <5>1
      <4>2. CASE j # root
        <5>1. PICK i \in ids : Led(i) /\ j \in next[i] /\ level[j] = level[i] + 1
          BY <1>5, <4>0, <4>2
        <5>2. level[i] <= n - 1
          BY <1>4, <3>1, <4>0, <5>1
        <5>3. i \in upto(n - 1) \cap ids
          BY <5>1, <5>2
        <5> HIDE DEF upto
        <5> QED BY <3>3, <5>1, <5>3
      <4> QED BY <4>1, <4>2
    <3>6. within[n] = upto(n)
      BY <3>4, <3>5
    <3> QED BY <3>1, <3>6
  <2> HIDE DEF found
  <2> QED BY <1>1, <2>1, <2>2, <2>3, AllPrefixes
<1>8. ASSUME NEW i \in ids PROVE D(i) = level[i]
  <2>1. level[i] \in 0..K
    BY <1>1, <1>4, <1>6
  <2>2. \A n \in 0..K : i \in within[n] <=> Led(i) /\ level[i] <= n
    BY <1>7
  <2>0. CASE ~Led(i)
    <3>1. D(i) = 0
      BY <1>2, <2>0, <2>2 DEF FirstWithin
    <3>2. level[i] = 0
      BY <1>4, <2>0
    <3> QED BY <3>1, <3>2
  <2> SUFFICES ASSUME Led(i) PROVE D(i) = level[i]
    BY <2>0
  <2>3. i \in within[level[i]]
    BY <1>4, <2>1, <2>2
  <2>4. D(i) \in 0..K /\ i \in within[D(i)] /\ \A n \in 0..K : i \in within[n] => D(i) <= n
    BY <1>2, <2>1, <2>3 DEF FirstWithin
  <2>5. level[i] <= D(i) /\ D(i) <= level[i]
    BY <2>1, <2>2, <2>3, <2>4
  <2> QED BY <1>1, <2>1, <2>4, <2>5
<1> QED BY <1>8 DEF D

LEMMA EventsAreFinite ==
  ASSUME NEW tree, WellFormed(tree)
  PROVE  IsFiniteSet(EventIds(tree)) /\ EventIds(tree) \subseteq Events
<1> DEFINE ids == [i \in DOMAIN tree.events |-> tree.events[i].id]
<1>1. tree.events \in Seq([id : Events, top : BOOLEAN])
  BY DEF WellFormed
<1>2. \A i \in DOMAIN tree.events : ids[i] \in Events
  <2>1. \A i \in DOMAIN tree.events : tree.events[i] \in [id : Events, top : BOOLEAN]
    BY <1>1, ElementOfSeq, LenProperties
  <2> QED BY <2>1
<1>3. ids \in Seq(Events)
  <2>1. DOMAIN ids = DOMAIN tree.events /\ ids = [i \in DOMAIN tree.events |-> ids[i]]
    OBVIOUS
  <2> HIDE DEF ids
  <2> QED BY <1>1, <1>2, <2>1, MappedIsSequence
<1>4. EventIds(tree) = ToSet(ids)
  BY DEF EventIds, ToSet
<1> QED BY <1>3, <1>4, ElementsAreFinite

\* A gate is drawn at a height, for the deepest of its inputs is one of them.
LEMMA GateHeightIsNatural ==
  ASSUME NEW ids, NEW K \in Nat, NEW depth, \A e \in ids : depth[e] \in 0..K,
         NEW g \in [id : Gates, output : ids \cup {None}, inputs : Seq(ids)]
  PROVE  GateHeight(depth, g) \in Nat
<1> DEFINE output == IF g.output = None THEN 0 ELSE depth[g.output]
           depths == {depth[e] : e \in ToSet(g.inputs)}
<1>1. output \in Nat
  OBVIOUS
<1>2. CASE g.inputs = <<>>
  BY <1>1, <1>2 DEF GateHeight
<1>3. CASE g.inputs # <<>>
  <2>1. depths \in SUBSET (0..K)
    BY ElementsAreFinite
  <2>2. depths # {}
    <3>1. 1 \in DOMAIN g.inputs
      BY <1>3, LenProperties, EmptySeq
    <3>2. g.inputs[1] \in ToSet(g.inputs)
      BY <3>1 DEF ToSet
    <3> QED BY <3>2
  <2>3. GateHeight(depth, g) = output + Highest(depths)
    BY <1>3 DEF GateHeight
  <2> HIDE DEF depths, output
  <2>4. \E n \in depths : \A k \in depths : k <= n
    BY <2>1, <2>2, GreatestNumber
  <2>5. Highest(depths) \in depths
    BY <2>4 DEF Highest
  <2>6. Highest(depths) \in Nat
    <3>1. \A k \in 0..K : k \in Nat
      OBVIOUS
    <3> QED BY <2>1, <2>5, <3>1, Zenon
  <2> QED BY <1>1, <2>3, <2>6
<1> QED BY <1>2, <1>3

\* The parts of Flow.
FlowEvents(tree) ==
  [i \in DOMAIN tree.events |->
     [id |-> tree.events[i].id, top |-> tree.events[i].top,
      y |-> 2 * EventDepth(tree)[tree.events[i].id]]]

FlowGates(tree) ==
  [i \in DOMAIN tree.gates |->
     [id |-> tree.gates[i].id, top |-> FALSE, y |-> GateHeight(EventDepth(tree), tree.gates[i])]]

GateInEdges(g) == [j \in DOMAIN g.inputs |-> <<g.id, g.inputs[j]>>]

GateEdges(g) == <<<<g.output, g.id>>>> \o GateInEdges(g)

FlowEdges(tree) == [i \in DOMAIN tree.gates |-> GateEdges(tree.gates[i])]

LEMMA FlowHasParts ==
  ASSUME NEW tree, tree # None
  PROVE  Flow(tree) = [nodes |-> FlowEvents(tree) \o FlowGates(tree),
                       edges |-> FlattenSeq(FlowEdges(tree))]
BY DEF Flow, FlowEvents, FlowGates, FlowEdges, GateEdges, GateInEdges

\* The gates of a tree, and their numbers.
GateOf(ids) == [id : Gates, output : ids \cup {None}, inputs : Seq(ids)]

LEMMA TreeElements ==
  ASSUME NEW tree, WellFormed(tree)
  PROVE  /\ IsFiniteSet(EventIds(tree)) /\ EventIds(tree) \subseteq Events
         /\ DOMAIN tree.events = 1..Len(tree.events) /\ Len(tree.events) \in Nat
         /\ DOMAIN tree.gates = 1..Len(tree.gates) /\ Len(tree.gates) \in Nat
         /\ \A i \in DOMAIN tree.events :
              tree.events[i] \in [id : Events, top : BOOLEAN] /\ tree.events[i].id \in EventIds(tree)
         /\ \A i \in DOMAIN tree.gates : tree.gates[i] \in GateOf(EventIds(tree))
<1> DEFINE EventType == [id : Events, top : BOOLEAN]
           GateType == GateOf(EventIds(tree))
<1>1. tree.events \in Seq(EventType) /\ tree.gates \in Seq(GateType)
  BY DEF WellFormed, GateOf
<1>2. IsFiniteSet(EventIds(tree)) /\ EventIds(tree) \subseteq Events
  BY EventsAreFinite
<1> HIDE DEF EventType, GateType
<1>3. /\ DOMAIN tree.events = 1..Len(tree.events) /\ Len(tree.events) \in Nat
      /\ DOMAIN tree.gates = 1..Len(tree.gates) /\ Len(tree.gates) \in Nat
  BY <1>1, LenProperties
<1>4. \A i \in DOMAIN tree.events : tree.events[i] \in EventType
  BY <1>1, <1>3, ElementOfSeq
<1>5. \A i \in DOMAIN tree.gates : tree.gates[i] \in GateType
  BY <1>1, <1>3, ElementOfSeq
<1>6. \A i \in DOMAIN tree.events : tree.events[i].id \in EventIds(tree)
  BY DEF EventIds
<1> QED BY <1>2, <1>3, <1>4, <1>5, <1>6 DEF EventType, GateType

LEMMA DepthsOfEvents ==
  ASSUME NEW tree, WellFormed(tree)
  PROVE  /\ Cardinality(EventIds(tree)) \in Nat
         /\ \A e \in EventIds(tree) : EventDepth(tree)[e] \in 0..Cardinality(EventIds(tree))
<1> DEFINE ids == EventIds(tree)
           root == tree.top
           next == [e \in EventIds(tree) |-> GateInputs(tree, e)]
<1>1. EventDepth(tree) = Depths(ids, root, next)
  BY DEF EventDepth
<1>2. IsFiniteSet(ids)
  BY EventsAreFinite
<1> HIDE DEF ids, root, next
<1>3. /\ Cardinality(ids) \in Nat
      /\ \A e \in ids : Depths(ids, root, next)[e] \in 0..Cardinality(ids)
  BY <1>2, DepthIsNatural
<1> QED BY <1>1, <1>3 DEF ids

LEMMA GateEdgesAreEdges ==
  ASSUME NEW ids \in SUBSET Events, NEW g \in GateOf(ids)
  PROVE  /\ GateInEdges(g) \in Seq(EndsAt(ids \cup {g.id})) /\ Len(GateInEdges(g)) = Len(g.inputs)
         /\ GateEdges(g) \in Seq(EndsAt(ids \cup {g.id})) /\ Len(GateEdges(g)) = Len(g.inputs) + 1
         /\ GateEdges(g)[1] = <<g.output, g.id>>
         /\ \A j \in 1..Len(g.inputs) : GateEdges(g)[j + 1] = <<g.id, g.inputs[j]>>
<1> DEFINE ins == GateInEdges(g)
           first == <<g.output, g.id>>
           AtGate == EndsAt(ids \cup {g.id})
<1>1. g.id \in Gates /\ g.output \in ids \cup {None} /\ g.inputs \in Seq(ids)
  BY DEF GateOf
<1>2. first \in AtGate
  BY <1>1 DEF EndsAt, Ends
<1>3. DOMAIN g.inputs = 1..Len(g.inputs) /\ Len(g.inputs) \in Nat
  BY <1>1, LenProperties
<1>4. \A j \in DOMAIN g.inputs : ins[j] \in AtGate
  <2>1. \A j \in DOMAIN g.inputs : g.inputs[j] \in ids
    BY <1>1, <1>3, ElementOfSeq
  <2> QED BY <1>1, <2>1 DEF EndsAt, Ends, GateInEdges
<1>5. DOMAIN ins = DOMAIN g.inputs /\ ins = [j \in DOMAIN g.inputs |-> ins[j]]
  BY DEF GateInEdges
<1>6. \A j \in 1..Len(g.inputs) : ins[j] = <<g.id, g.inputs[j]>>
  BY <1>3 DEF GateInEdges
<1> HIDE DEF ins, first, AtGate
<1>7. ins \in Seq(AtGate) /\ Len(ins) = Len(g.inputs)
  <2> DEFINE list == g.inputs
  <2>1. /\ list \in Seq(ids) /\ DOMAIN ins = DOMAIN list /\ ins = [j \in DOMAIN list |-> ins[j]]
        /\ \A j \in DOMAIN list : ins[j] \in AtGate
    BY <1>1, <1>4, <1>5
  <2> HIDE DEF list
  <2>2. ins \in Seq(AtGate) /\ Len(ins) = Len(list)
    BY <2>1, MappedIsSequence
  <2> QED BY <2>2 DEF list
<1>8. GateEdges(g) = <<first>> \o ins
  BY DEF GateEdges, first, ins
<1>9. <<first>> \in Seq(AtGate) /\ Len(<<first>>) = 1 /\ <<first>>[1] = first
  BY <1>2
<1>10. /\ GateEdges(g) \in Seq(AtGate) /\ Len(GateEdges(g)) = Len(g.inputs) + 1
       /\ \A i \in 1..(Len(g.inputs) + 1) :
            GateEdges(g)[i] = IF i <= 1 THEN <<first>>[i] ELSE ins[i - 1]
  <2> DEFINE one == <<first>>
  <2>1. one \in Seq(AtGate) /\ Len(one) = 1 /\ GateEdges(g) = one \o ins
    BY <1>8, <1>9
  <2> HIDE DEF one
  <2>2. /\ one \o ins \in Seq(AtGate) /\ Len(one \o ins) = 1 + Len(g.inputs)
        /\ \A i \in 1..(1 + Len(g.inputs)) : (one \o ins)[i] = IF i <= 1 THEN one[i] ELSE ins[i - 1]
    <3>1. /\ one \o ins \in Seq(AtGate) /\ Len(one \o ins) = Len(one) + Len(ins)
          /\ \A i \in 1..(Len(one) + Len(ins)) :
               (one \o ins)[i] = IF i <= Len(one) THEN one[i] ELSE ins[i - Len(one)]
      BY <1>7, <2>1, ConcatProperties, ZenonT(40)
    <3> QED BY <1>7, <2>1, <3>1
  <2> QED BY <1>3, <2>1, <2>2 DEF one
<1>11. GateEdges(g)[1] = first
  BY <1>3, <1>9, <1>10
<1>12. ASSUME NEW j \in 1..Len(g.inputs) PROVE GateEdges(g)[j + 1] = <<g.id, g.inputs[j]>>
  <2>1. j + 1 \in 1..(Len(g.inputs) + 1) /\ ~(j + 1 <= 1) /\ (j + 1) - 1 = j
    BY <1>3
  <2> QED BY <1>6, <1>10, <2>1
<1> QED BY <1>7, <1>10, <1>11, <1>12 DEF ins, first, AtGate

\* The ids of the nodes a tree is drawn with.
TreeIds(tree) == EventIds(tree) \cup {tree.gates[i].id : i \in DOMAIN tree.gates}

LEMMA FlowPartsTyped ==
  ASSUME NEW tree, WellFormed(tree)
  PROVE  /\ FlowEvents(tree) \in Seq(EventNode) /\ Distinct(FlowEvents(tree))
         /\ FlowGates(tree) \in Seq(GateNode) /\ Distinct(FlowGates(tree))
         /\ FlowEdges(tree) \in Seq(Seq(EndsAt(TreeIds(tree)))) /\ Len(FlowEdges(tree)) = Len(tree.gates)
<1> DEFINE events == FlowEvents(tree)
           gates == FlowGates(tree)
           edges == FlowEdges(tree)
           ids == EventIds(tree)
<1>1. Distinct(tree.events) /\ Distinct(tree.gates)
  BY DEF WellFormed
<1>2. /\ DOMAIN events = DOMAIN tree.events /\ events = [i \in DOMAIN tree.events |-> events[i]]
      /\ DOMAIN gates = DOMAIN tree.gates /\ gates = [i \in DOMAIN tree.gates |-> gates[i]]
      /\ DOMAIN edges = DOMAIN tree.gates /\ edges = [i \in DOMAIN tree.gates |-> edges[i]]
  BY DEF FlowEvents, FlowGates, FlowEdges
<1>3. \A i \in DOMAIN tree.events : events[i].id = tree.events[i].id
  BY DEF FlowEvents
<1>4. \A i \in DOMAIN tree.gates : gates[i].id = tree.gates[i].id
  BY DEF FlowGates
<1>5. ASSUME NEW i \in DOMAIN tree.events PROVE events[i] \in EventNode
  <2>1. tree.events[i] \in [id : Events, top : BOOLEAN] /\ tree.events[i].id \in ids
    BY TreeElements
  <2>2. 2 * EventDepth(tree)[tree.events[i].id] \in Nat
    <3>1. /\ Cardinality(ids) \in Nat
          /\ EventDepth(tree)[tree.events[i].id] \in 0..Cardinality(ids)
      BY <2>1, DepthsOfEvents
    <3> QED BY <3>1
  <2> QED BY <2>1, <2>2 DEF FlowEvents, EventNode, NodeType
<1>6. ASSUME NEW i \in DOMAIN tree.gates PROVE gates[i] \in GateNode
  <2>1. tree.gates[i] \in GateOf(ids)
    BY TreeElements
  <2>2. GateHeight(EventDepth(tree), tree.gates[i]) \in Nat
    <3> DEFINE K == Cardinality(ids)
               depth == EventDepth(tree)
               g == tree.gates[i]
    <3>1. K \in Nat /\ \A e \in ids : depth[e] \in 0..K
      BY DepthsOfEvents
    <3>2. g \in [id : Gates, output : ids \cup {None}, inputs : Seq(ids)]
      BY <2>1 DEF GateOf
    <3> HIDE DEF K, depth, ids, g
    <3>3. GateHeight(depth, g) \in Nat
      BY <3>1, <3>2, GateHeightIsNatural
    <3> QED BY <3>3 DEF depth, g
  <2> QED BY <2>1, <2>2 DEF FlowGates, GateNode, NodeType, GateOf
<1>7. ASSUME NEW i \in DOMAIN tree.gates PROVE edges[i] \in Seq(EndsAt(TreeIds(tree)))
  <2>1. tree.gates[i] \in GateOf(ids) /\ ids \in SUBSET Events
    BY TreeElements
  <2>2. ids \cup {tree.gates[i].id} \subseteq TreeIds(tree)
    BY DEF TreeIds
  <2> HIDE DEF ids
  <2> DEFINE AtGate == EndsAt(ids \cup {tree.gates[i].id})
             AtTree == EndsAt(TreeIds(tree))
  <2>3. GateEdges(tree.gates[i]) \in Seq(AtGate)
    BY <2>1, GateEdgesAreEdges
  <2>4. AtGate \subseteq AtTree
    BY <2>2 DEF EndsAt
  <2> HIDE DEF AtGate, AtTree
  <2>5. GateEdges(tree.gates[i]) \in Seq(AtTree)
    BY <2>3, <2>4, SeqMonotonic
  <2> QED BY <2>5 DEF FlowEdges, AtTree
<1> HIDE DEF events, gates, edges
<1>8. Distinct(events) /\ Distinct(gates)
  <2>1. ASSUME NEW i \in DOMAIN events, NEW j \in DOMAIN events, events[i].id = events[j].id
        PROVE  i = j
    BY <1>1, <1>2, <1>3, <2>1 DEF Distinct
  <2>2. ASSUME NEW i \in DOMAIN gates, NEW j \in DOMAIN gates, gates[i].id = gates[j].id
        PROVE  i = j
    BY <1>1, <1>2, <1>4, <2>2 DEF Distinct
  <2> QED BY <2>1, <2>2 DEF Distinct
<1>9. tree.events \in Seq([id : Events, top : BOOLEAN]) /\ tree.gates \in Seq(GateOf(ids))
  BY DEF WellFormed, GateOf
<1> DEFINE EventType == [id : Events, top : BOOLEAN]
           GateType == GateOf(ids)
<1>10. tree.events \in Seq(EventType) /\ tree.gates \in Seq(GateType)
  BY <1>9
<1> HIDE DEF EventType, GateType
<1>11. events \in Seq(EventNode)
  BY <1>2, <1>5, <1>10, MappedIsSequence, ZenonT(40)
<1>12. gates \in Seq(GateNode)
  BY <1>2, <1>6, <1>10, MappedIsSequence
<1>13. edges \in Seq(Seq(EndsAt(TreeIds(tree)))) /\ Len(edges) = Len(tree.gates)
  <2> DEFINE Lists == Seq(EndsAt(TreeIds(tree)))
  <2>1. \A i \in DOMAIN tree.gates : edges[i] \in Lists
    BY <1>7
  <2> HIDE DEF Lists
  <2>2. edges \in Seq(Lists)
    BY <1>2, <1>10, <2>1, MappedIsSequence, ZenonT(40)
  <2>3. DOMAIN edges = 1..Len(edges) /\ Len(edges) \in Nat
    BY <2>2, LenProperties
  <2>4. DOMAIN tree.gates = 1..Len(tree.gates) /\ Len(tree.gates) \in Nat
    BY TreeElements
  <2>5. Len(edges) = Len(tree.gates)
    <3> DEFINE m == Len(edges)
               n == Len(tree.gates)
    <3>1. m \in Nat /\ n \in Nat /\ 1..m = 1..n
      BY <1>2, <2>3, <2>4
    <3> HIDE DEF m, n
    <3>2. m = n
      BY <3>1
    <3> QED BY <3>2 DEF m, n
  <2> QED BY <2>2, <2>5 DEF Lists
<1> QED BY <1>8, <1>11, <1>12, <1>13 DEF events, gates, edges

\* Events and gates, apart, are nodes apart.
LEMMA NodesAreApart ==
  ASSUME NEW E \in Seq(EventNode), NEW G \in Seq(GateNode), Distinct(E), Distinct(G)
  PROVE  /\ E \o G \in Seq(NodeType) /\ Distinct(E \o G)
         /\ \A i \in DOMAIN E : i \in DOMAIN (E \o G) /\ (E \o G)[i] = E[i]
         /\ \A i \in DOMAIN G : Len(E) + i \in DOMAIN (E \o G) /\ (E \o G)[Len(E) + i] = G[i]
         /\ DOMAIN E = 1..Len(E) /\ DOMAIN G = 1..Len(G)
         /\ DOMAIN (E \o G) = 1..(Len(E) + Len(G))
<1> DEFINE s == E \o G
           m == Len(E)
           n == Len(G)
<1>1. E \in Seq(NodeType) /\ G \in Seq(NodeType)
  BY SeqMonotonic DEF EventNode, GateNode
<1>2. m \in Nat /\ n \in Nat /\ DOMAIN E = 1..m /\ DOMAIN G = 1..n
  BY LenProperties
<1>3. /\ s \in Seq(NodeType) /\ Len(s) = m + n
      /\ \A i \in 1..(m + n) : s[i] = IF i <= m THEN E[i] ELSE G[i - m]
  BY <1>1, ConcatProperties
<1>4. DOMAIN s = 1..(m + n)
  BY <1>3, LenProperties
<1>5. \A i \in 1..m : E[i].id \in Events
  <2>1. \A i \in 1..m : E[i] \in EventNode
    BY ElementOfSeq
  <2> QED BY <2>1 DEF EventNode
<1>6. \A i \in 1..n : G[i].id \in Gates
  <2>1. \A i \in 1..n : G[i] \in GateNode
    BY ElementOfSeq
  <2> QED BY <2>1 DEF GateNode
<1>7. Events \cap Gates = {}
  BY EditorAssumption DEF DiagramsAssumption
<1> HIDE DEF s, m, n
<1>8. ASSUME NEW i \in 1..(m + n), NEW j \in 1..(m + n), s[i].id = s[j].id PROVE i = j
  <2>1. CASE i <= m /\ j <= m
    <3>1. i \in DOMAIN E /\ j \in DOMAIN E /\ s[i] = E[i] /\ s[j] = E[j]
      BY <1>2, <1>3, <2>1
    <3> QED BY <1>8, <3>1 DEF Distinct
  <2>2. CASE ~(i <= m) /\ ~(j <= m)
    <3>1. i - m \in DOMAIN G /\ j - m \in DOMAIN G /\ s[i] = G[i - m] /\ s[j] = G[j - m]
      BY <1>2, <1>3, <2>2
    <3>2. i - m = j - m
      BY <1>8, <3>1 DEF Distinct
    <3> QED BY <1>2, <3>2
  <2>3. CASE i <= m /\ ~(j <= m)
    <3>1. i \in 1..m /\ j - m \in 1..n /\ s[i] = E[i] /\ s[j] = G[j - m]
      BY <1>2, <1>3, <2>3
    <3> QED BY <1>5, <1>6, <1>7, <1>8, <3>1
  <2>4. CASE ~(i <= m) /\ j <= m
    <3>1. j \in 1..m /\ i - m \in 1..n /\ s[j] = E[j] /\ s[i] = G[i - m]
      BY <1>2, <1>3, <2>4
    <3> QED BY <1>5, <1>6, <1>7, <1>8, <3>1
  <2> QED BY <2>1, <2>2, <2>3, <2>4
<1>9. Distinct(s)
  BY <1>4, <1>8 DEF Distinct
<1>10. \A i \in 1..m : i \in 1..(m + n) /\ s[i] = E[i]
  BY <1>2, <1>3
<1>11. \A i \in 1..n : m + i \in 1..(m + n) /\ s[m + i] = G[i]
  BY <1>2, <1>3
<1> QED BY <1>2, <1>3, <1>4, <1>9, <1>10, <1>11 DEF s, m, n

\* The nodes that are drawn are those of the tree.
LEMMA IdsOfFlow ==
  ASSUME NEW tree, tree # None, WellFormed(tree)
  PROVE  NodeIds(Flow(tree)) = TreeIds(tree)
<1> DEFINE E == FlowEvents(tree)
           G == FlowGates(tree)
           nodes == E \o G
<1>0. Flow(tree).nodes = nodes
  BY FlowHasParts
<1>1. /\ \A i \in DOMAIN E : i \in DOMAIN nodes /\ nodes[i] = E[i]
      /\ \A i \in DOMAIN G : Len(E) + i \in DOMAIN nodes /\ nodes[Len(E) + i] = G[i]
      /\ DOMAIN E = 1..Len(E) /\ DOMAIN G = 1..Len(G)
      /\ DOMAIN nodes = 1..(Len(E) + Len(G))
  BY FlowPartsTyped, NodesAreApart
<1>2. Len(E) \in Nat /\ Len(G) \in Nat
  BY FlowPartsTyped, LenProperties
<1>3. DOMAIN E = DOMAIN tree.events /\ \A i \in DOMAIN E : E[i].id = tree.events[i].id
  BY DEF FlowEvents
<1>4. DOMAIN G = DOMAIN tree.gates /\ \A i \in DOMAIN G : G[i].id = tree.gates[i].id
  BY DEF FlowGates
<1> HIDE DEF E, G, nodes
<1>5. ASSUME NEW i \in DOMAIN nodes PROVE nodes[i].id \in TreeIds(tree)
  <2>1. CASE i <= Len(E)
    <3>1. i \in DOMAIN E
      BY <1>1, <1>2, <2>1
    <3> QED BY <1>1, <1>3, <3>1 DEF TreeIds, EventIds
  <2>2. CASE ~(i <= Len(E))
    <3> DEFINE j == i - Len(E)
    <3>1. j \in DOMAIN G /\ Len(E) + j = i
      BY <1>1, <1>2, <2>2
    <3> HIDE DEF j
    <3> QED BY <1>1, <1>4, <3>1 DEF TreeIds
  <2> QED BY <2>1, <2>2
<1>6. ASSUME NEW id \in TreeIds(tree) PROVE \E i \in DOMAIN nodes : nodes[i].id = id
  <2>1. CASE id \in EventIds(tree)
    <3>1. PICK i \in DOMAIN E : E[i].id = id
      BY <1>3, <2>1 DEF EventIds
    <3> QED BY <1>1, <3>1
  <2>2. CASE id \notin EventIds(tree)
    <3>1. PICK i \in DOMAIN G : G[i].id = id
      BY <1>4, <2>2 DEF TreeIds
    <3> QED BY <1>1, <3>1
  <2> QED BY <2>1, <2>2
<1> QED BY <1>0, <1>5, <1>6 DEF NodeIds

LEMMA FlowIsDiagram ==
  ASSUME NEW tree, MaybeTree(tree)
  PROVE  Flow(tree) \in Diagram
<1>1. CASE tree = None
  <2>1. Distinct(<<>>) /\ <<>> \in Seq(NodeType) /\ <<>> \in Seq(Ends)
    BY EmptySeq DEF Distinct
  <2>2. \A ids : <<>> \in Seq(EndsAt(ids))
    BY EmptySeq
  <2> QED BY <1>1, <2>1, <2>2 DEF Flow, Diagram
<1>2. CASE tree # None
  <2> DEFINE nodes == FlowEvents(tree) \o FlowGates(tree)
             edges == FlattenSeq(FlowEdges(tree))
  <2>1. WellFormed(tree)
    BY <1>2 DEF MaybeTree
  <2>2. nodes \in Seq(NodeType) /\ Distinct(nodes)
    BY <2>1, FlowPartsTyped, NodesAreApart
  <2>3. Flow(tree) = [nodes |-> nodes, edges |-> edges]
    BY <1>2, FlowHasParts
  <2>4. NodeIds(Flow(tree)) = TreeIds(tree)
    BY <1>2, <2>1, IdsOfFlow
  <2>5. edges \in Seq(EndsAt(TreeIds(tree)))
    BY <2>1, FlowPartsTyped, FlattenedIsSequence
  <2> HIDE DEF nodes, edges
  <2>6. edges \in Seq(Ends)
    <3>1. EndsAt(TreeIds(tree)) \subseteq Ends
      BY DEF EndsAt
    <3> QED BY <2>5, <3>1, SeqMonotonic
  <2> QED BY <2>2, <2>3, <2>4, <2>5, <2>6 DEF Diagram
<1> QED BY <1>1, <1>2

\* The nodes with some of the ids are nodes of the diagram, with those ids.
LEMMA NodesOfDiagram ==
  ASSUME NEW d \in Diagram, NEW ids
  PROVE  /\ NodesOf(d, ids) \in Seq({n \in NodeType : n.id \in ids})
         /\ ToSet(NodesOf(d, ids)) = {n \in ToSet(d.nodes) : n.id \in ids}
         /\ Distinct(NodesOf(d, ids))
<1> DEFINE with == {n \in ToSet(d.nodes) : n.id \in ids}
           V == {n \in NodeType : n.id \in ids}
<1>1. d.nodes \in Seq(NodeType) /\ Distinct(d.nodes)
  BY DEF Diagram
<1>2. NodesOf(d, ids) = Only(d.nodes, with)
  BY DEF NodesOf
<1>3. NodeType \cap with \subseteq V /\ ToSet(d.nodes) \cap with = with
  OBVIOUS
<1> HIDE DEF with, V
<1>4. /\ NodesOf(d, ids) \in Seq(NodeType \cap with)
      /\ ToSet(NodesOf(d, ids)) = ToSet(d.nodes) \cap with /\ Distinct(NodesOf(d, ids))
  <2> DEFINE all == d.nodes
  <2>1. all \in Seq(NodeType) /\ Distinct(all) /\ NodesOf(d, ids) = Only(all, with)
    BY <1>1, <1>2
  <2> HIDE DEF all
  <2>2. /\ Only(all, with) \in Seq(NodeType \cap with)
        /\ ToSet(Only(all, with)) = ToSet(all) \cap with
        /\ Distinct(all) => Distinct(Only(all, with))
    BY <2>1, OnlyKeeps
  <2> QED BY <2>1, <2>2 DEF all
<1>5. NodesOf(d, ids) \in Seq(V)
  BY <1>3, <1>4, SeqMonotonic
<1> QED BY <1>3, <1>4, <1>5 DEF with, V

LEMMA NodeOfDiagram ==
  ASSUME NEW d \in Diagram, NEW id \in NodeIds(d)
  PROVE  Node(d, id) \in NodeType /\ Node(d, id).y \in Nat /\ id \in Events \cup Gates
<1>1. PICK i \in DOMAIN d.nodes : d.nodes[i].id = id
  BY DEF NodeIds
<1> DEFINE at == CHOOSE j \in DOMAIN d.nodes : d.nodes[j].id = id
<1>2. at \in DOMAIN d.nodes /\ d.nodes[at].id = id
  BY <1>1
<1>3. Node(d, id) = d.nodes[at]
  BY DEF Node
<1> HIDE DEF at
<1>4. d.nodes[at] \in NodeType
  <2>1. d.nodes \in Seq(NodeType)
    BY DEF Diagram
  <2> QED BY <1>2, <2>1, ElementOfSeq, LenProperties
<1> QED BY <1>2, <1>3, <1>4 DEF NodeType

LEMMA JoinedAreEvents ==
  ASSUME NEW d \in Diagram, NEW g
  PROVE  Joined(d, g) \in Seq(NodeIds(d) \cap Events)
<1> DEFINE other(e) == IF e[1] = g THEN e[2] ELSE e[1]
           events == NodeIds(d) \cap Events
           to == {e \in ToSet(d.edges) : g \in {e[1], e[2]} /\ other(e) \in events}
           near == Only(d.edges, to)
           joined == [i \in DOMAIN near |-> other(near[i])]
<1>1. Joined(d, g) = joined
  BY DEF Joined
<1>2. near \in Seq(Ends \cap to)
  <2>1. d.edges \in Seq(Ends)
    BY DEF Diagram
  <2> HIDE DEF to
  <2> QED BY <2>1, OnlyKeeps
<1>3. ASSUME NEW i \in DOMAIN near PROVE joined[i] \in events
  <2>1. near[i] \in Ends \cap to
    <3> HIDE DEF near, to
    <3> QED BY <1>2, ElementOfSeq, LenProperties
  <2> HIDE DEF near
  <2> QED BY <2>1
<1>4. DOMAIN joined = DOMAIN near /\ joined = [i \in DOMAIN near |-> joined[i]]
  OBVIOUS
<1> HIDE DEF joined, near, to, events
<1>5. joined \in Seq(events)
  BY <1>2, <1>3, <1>4, MappedIsSequence
<1> QED BY <1>1, <1>5 DEF events

\* A saved gate's output was left above it, and none of its inputs was.
LEMMA SavedGateByHeights ==
  ASSUME NEW d \in Diagram, NEW g
  PROVE  /\ SavedGate(d, g) \in [id : {g}, output : (NodeIds(d) \cap Events) \cup {None},
                                 inputs : Seq(NodeIds(d) \cap Events)]
         /\ SavedGate(d, g).output # None => Above(d, SavedGate(d, g).output, g)
         /\ \A e \in ToSet(SavedGate(d, g).inputs) :
              e \in NodeIds(d) \cap Events /\ ~Above(d, e, g)
<1> DEFINE events == NodeIds(d) \cap Events
           joined == Joined(d, g)
           above == {e \in ToSet(joined) : Above(d, e, g)}
           below == ToSet(joined) \ above
           outputs == Only(joined, above)
           inputs == Only(joined, below)
<1>1. joined \in Seq(events) /\ ToSet(joined) \subseteq events
  <2>1. joined \in Seq(events)
    BY JoinedAreEvents
  <2> HIDE DEF joined, events
  <2> QED BY <2>1, ElementsAreFinite
<1>2. \A e \in above : e \in events /\ Above(d, e, g)
  <2> HIDE DEF joined, events
  <2> QED BY <1>1
<1>3. \A e \in below : e \in events /\ ~Above(d, e, g)
  <2> HIDE DEF joined, events
  <2> QED BY <1>1
<1>4. SavedGate(d, g) =
        [id |-> g, output |-> IF outputs = <<>> THEN None ELSE outputs[1], inputs |-> inputs]
  BY DEF SavedGate
<1> HIDE DEF events, joined, above, below
<1>5. outputs \in Seq(events \cap above) /\ ToSet(outputs) = ToSet(joined) \cap above
  BY <1>1, OnlyKeeps
<1>6. inputs \in Seq(events \cap below) /\ ToSet(inputs) = ToSet(joined) \cap below
  BY <1>1, OnlyKeeps
<1> HIDE DEF outputs, inputs
<1>7. outputs # <<>> => outputs[1] \in events /\ outputs[1] \in above
  <2>1. outputs # <<>> => 1 \in 1..Len(outputs)
    BY <1>5, LenProperties, EmptySeq
  <2> QED BY <1>5, <2>1, ElementOfSeq
<1>8. inputs \in Seq(events)
  BY <1>6, SeqMonotonic
<1>9. SavedGate(d, g) \in [id : {g}, output : events \cup {None}, inputs : Seq(events)]
  BY <1>4, <1>7, <1>8
<1>10. SavedGate(d, g).output # None => Above(d, SavedGate(d, g).output, g)
  BY <1>2, <1>4, <1>7
<1>11. \A e \in ToSet(SavedGate(d, g).inputs) : e \in events /\ ~Above(d, e, g)
  BY <1>3, <1>4, <1>6
<1> QED BY <1>9, <1>10, <1>11 DEF events

\* The top event is one of the events, if there are any.
LEMMA TopIsEvent ==
  ASSUME NEW d \in Diagram
  PROVE  \/ \E n \in ToSet(EventNodes(d)) : TopEvent(d) = n.id
         \/ EventNodes(d) = <<>> /\ TopEvent(d) = None
<1> DEFINE events == EventNodes(d)
           first == {n \in ToSet(events) : n.top}
           unled == {n \in ToSet(events) : n.id \notin Entered(d)}
           marked == Only(events, first)
           roots == Only(events, unled)
<1>1. events \in Seq(EventNode)
  BY NodesOfDiagram DEF EventNodes, EventNode
<1>2. TopEvent(d) = IF marked # <<>> THEN marked[1].id
                    ELSE IF roots # <<>> THEN roots[1].id
                    ELSE IF events # <<>> THEN events[1].id ELSE None
  BY DEF TopEvent
<1> HIDE DEF events, first, unled
<1>3. marked \in Seq(EventNode \cap first) /\ ToSet(marked) = ToSet(events) \cap first
  BY <1>1, OnlyKeeps
<1>4. roots \in Seq(EventNode \cap unled) /\ ToSet(roots) = ToSet(events) \cap unled
  BY <1>1, OnlyKeeps
<1> HIDE DEF marked, roots
<1>5. \A V : \A s \in Seq(V) : s # <<>> => s[1] \in ToSet(s)
  BY LenProperties, EmptySeq DEF ToSet
<1>6. /\ marked # <<>> => marked[1] \in ToSet(events)
      /\ roots # <<>> => roots[1] \in ToSet(events)
      /\ events # <<>> => events[1] \in ToSet(events)
  <2>1. marked # <<>> => marked[1] \in ToSet(marked)
    BY <1>3, <1>5
  <2>2. roots # <<>> => roots[1] \in ToSet(roots)
    BY <1>4, <1>5
  <2>3. events # <<>> => events[1] \in ToSet(events)
    BY <1>1, <1>5
  <2> QED BY <1>3, <1>4, <2>1, <2>2, <2>3
<1> QED BY <1>2, <1>6 DEF events

\* The events saved are the events shown.
LEMMA SavedIsWellFormed ==
  ASSUME NEW d \in Diagram
  PROVE  /\ WellFormed(Saved(d))
         /\ EventIds(Saved(d)) = NodeIds(d) \cap Events
         /\ \A h \in ToSet(Saved(d).gates) : \E g \in NodeIds(d) : h = SavedGate(d, g)
<1> DEFINE nodes == EventNodes(d)
           boxes == NodesOf(d, Gates)
           top == TopEvent(d)
           events == [i \in DOMAIN nodes |->
                        [id |-> nodes[i].id, top |-> nodes[i].top \/ nodes[i].id = top]]
           gates == [i \in DOMAIN boxes |-> SavedGate(d, boxes[i].id)]
           EventType == [id : Events, top : BOOLEAN]
           ids == NodeIds(d) \cap Events
           GateType == GateOf(ids)
<1>1. /\ nodes \in Seq(EventNode) /\ ToSet(nodes) = {n \in ToSet(d.nodes) : n.id \in Events}
      /\ Distinct(nodes)
  BY NodesOfDiagram DEF EventNodes, EventNode
<1>2. /\ boxes \in Seq(GateNode) /\ ToSet(boxes) = {n \in ToSet(d.nodes) : n.id \in Gates}
      /\ Distinct(boxes)
  BY NodesOfDiagram DEF GateNode
<1>3. Saved(d) = [top |-> top, events |-> events, gates |-> gates]
  BY DEF Saved
<1> HIDE DEF top
<1>4. \A i \in DOMAIN nodes : nodes[i] \in EventNode
  <2> HIDE DEF nodes
  <2> QED BY <1>1, ElementOfSeq, LenProperties
<1>5. \A i \in DOMAIN boxes : boxes[i] \in GateNode
  <2> HIDE DEF boxes
  <2> QED BY <1>2, ElementOfSeq, LenProperties
<1>6. \A i \in DOMAIN boxes : boxes[i].id \in NodeIds(d)
  <2>1. \A i \in DOMAIN boxes : boxes[i] \in ToSet(d.nodes)
    <3> HIDE DEF boxes
    <3>1. \A i \in DOMAIN boxes : boxes[i] \in ToSet(boxes)
      BY DEF ToSet
    <3> QED BY <1>2, <3>1
  <2> HIDE DEF boxes
  <2> QED BY <2>1 DEF ToSet, NodeIds
<1>7. EventIds(Saved(d)) = ids
  <2>1. EventIds(Saved(d)) = {n.id : n \in ToSet(nodes)}
    <3>1. EventIds(Saved(d)) = {events[i].id : i \in DOMAIN nodes}
      BY <1>3 DEF EventIds
    <3> HIDE DEF nodes
    <3>2. \A i \in DOMAIN nodes : events[i].id = nodes[i].id
      OBVIOUS
    <3> HIDE DEF events
    <3> QED BY <3>1, <3>2 DEF ToSet
  <2>2. ids = {n.id : n \in {m \in ToSet(d.nodes) : m.id \in Events}}
    BY DEF NodeIds, ToSet
  <2> HIDE DEF nodes
  <2> QED BY <1>1, <2>1, <2>2
<1>8. events \in Seq(EventType)
  <2> HIDE DEF nodes
  <2>1. \A i \in DOMAIN nodes : events[i] \in EventType
    BY <1>4 DEF EventNode, NodeType
  <2>2. DOMAIN events = DOMAIN nodes /\ events = [i \in DOMAIN nodes |-> events[i]]
    OBVIOUS
  <2> HIDE DEF events, EventType
  <2> QED BY <1>1, <2>1, <2>2, MappedIsSequence
<1>9. gates \in Seq(GateType)
  <2>1. ASSUME NEW i \in DOMAIN boxes PROVE gates[i] \in GateType
    <3> DEFINE g == boxes[i].id
    <3>1. g \in Gates /\ gates[i] = SavedGate(d, g)
      BY <1>5 DEF GateNode
    <3> HIDE DEF g, gates, boxes
    <3>2. SavedGate(d, g) \in [id : {g}, output : ids \cup {None}, inputs : Seq(ids)]
      BY SavedGateByHeights
    <3> HIDE DEF ids
    <3> QED BY <3>1, <3>2 DEF GateOf
  <2>2. DOMAIN gates = DOMAIN boxes /\ gates = [i \in DOMAIN boxes |-> gates[i]]
    OBVIOUS
  <2> HIDE DEF gates, boxes, GateType
  <2> QED BY <1>2, <2>1, <2>2, MappedIsSequence
<1>10. \A h \in ToSet(Saved(d).gates) : \E g \in NodeIds(d) : h = SavedGate(d, g)
  <2> HIDE DEF boxes
  <2> QED BY <1>3, <1>6 DEF ToSet
<1>11. top \in ids \/ (events = <<>> /\ top = None)
  <2>1. CASE \E n \in ToSet(nodes) : top = n.id
    <3>1. PICK i \in DOMAIN nodes : top = nodes[i].id
      BY <2>1 DEF ToSet
    <3>2. events[i].id = top /\ i \in DOMAIN events
      BY <3>1
    <3>3. top \in EventIds(Saved(d))
      <4> HIDE DEF events
      <4> QED BY <1>3, <3>2 DEF EventIds
    <3> HIDE DEF ids, events
    <3> QED BY <1>7, <3>3
  <2>2. CASE nodes = <<>> /\ top = None
    BY <2>2
  <2> HIDE DEF events, nodes
  <2> QED BY <2>1, <2>2, TopIsEvent DEF top, nodes
<1>12. Distinct(events) /\ Distinct(gates)
  <2>1. \A i \in DOMAIN nodes : events[i].id = nodes[i].id
    OBVIOUS
  <2>2. \A i \in DOMAIN boxes : gates[i].id = boxes[i].id
    BY DEF SavedGate
  <2>3. DOMAIN events = DOMAIN nodes /\ DOMAIN gates = DOMAIN boxes
    OBVIOUS
  <2> HIDE DEF events, nodes, gates, boxes
  <2>4. ASSUME NEW i \in DOMAIN events, NEW j \in DOMAIN events, events[i].id = events[j].id
        PROVE  i = j
    BY <1>1, <2>1, <2>3, <2>4 DEF Distinct
  <2>5. ASSUME NEW i \in DOMAIN gates, NEW j \in DOMAIN gates, gates[i].id = gates[j].id
        PROVE  i = j
    BY <1>2, <2>2, <2>3, <2>5 DEF Distinct
  <2> QED BY <2>4, <2>5 DEF Distinct
<1>13. WellFormed(Saved(d))
  <2> DEFINE tree == Saved(d)
  <2>1. /\ tree.events = events /\ tree.gates = gates /\ tree.top = top
        /\ tree = [top |-> tree.top, events |-> tree.events, gates |-> tree.gates]
    BY <1>3
  <2>2. EventIds(tree) = ids
    BY <1>7
  <2> HIDE DEF events, gates, ids, tree
  <2>3. tree.top \in EventIds(tree) \/ (tree.events = <<>> /\ tree.top = None)
    BY <1>11, <2>1, <2>2
  <2>4. Distinct(tree.events) /\ Distinct(tree.gates)
    BY <1>12, <2>1
  <2>5. /\ tree.events \in Seq([id : Events, top : BOOLEAN])
        /\ tree.gates \in Seq(GateOf(EventIds(tree)))
    BY <1>8, <1>9, <2>1, <2>2
  <2>6. WellFormed(tree)
    BY <2>1, <2>3, <2>4, <2>5 DEF WellFormed, GateOf
  <2> QED BY <2>6 DEF tree
<1> QED BY <1>7, <1>10, <1>13

LEMMA NumbersAreBounded ==
  ASSUME NEW n \in Nat, NEW f \in [1..n -> Nat]
  PROVE  \E K \in Nat : \A i \in 1..n : f[i] <= K
<1> DEFINE bounded(m) == \E K \in Nat : \A i \in 1..m : f[i] <= K
           fails == {m \in 0..n : ~bounded(m)}
<1>1. bounded(0)
  OBVIOUS
<1>2. ASSUME NEW m \in 1..n, bounded(m - 1) PROVE bounded(m)
  <2>1. PICK K \in Nat : \A i \in 1..(m - 1) : f[i] <= K
    BY <1>2
  <2> DEFINE L == IF f[m] <= K THEN K ELSE f[m]
  <2>2. L \in Nat /\ f[m] <= L /\ K <= L
    OBVIOUS
  <2>3. ASSUME NEW i \in 1..m PROVE f[i] <= L
    <3>1. CASE i = m
      BY <2>2, <3>1
    <3>2. CASE i # m
      <4>1. i \in 1..(m - 1) /\ f[i] \in Nat
        BY <3>2
      <4> HIDE DEF L
      <4> QED BY <2>1, <2>2, <4>1
    <3> QED BY <3>1, <3>2
  <2> QED BY <2>2, <2>3
<1> HIDE DEF bounded
<1>3. ASSUME fails # {} PROVE FALSE
  <2>1. PICK m \in fails : \A k \in fails : m <= k
    <3>1. fails \in SUBSET Nat
      OBVIOUS
    <3> QED BY <1>3, <3>1, LeastNumber
  <2>2. m # 0
    BY <1>1, <2>1
  <2>3. m \in 1..n /\ m - 1 \in 0..n /\ ~(m <= m - 1)
    BY <2>1, <2>2
  <2>4. bounded(m - 1)
    BY <2>1, <2>3
  <2> QED BY <1>2, <2>1, <2>3, <2>4
<1>4. bounded(n)
  BY <1>3
<1> QED BY <1>4 DEF bounded

LEMMA HeightsAreBounded ==
  ASSUME NEW d \in Diagram
  PROVE  \E K \in Nat : \A e \in NodeIds(d) : Node(d, e).y <= K
<1> DEFINE f == [i \in 1..Len(d.nodes) |-> d.nodes[i].y]
<1>1. d.nodes \in Seq(NodeType) /\ Len(d.nodes) \in Nat /\ DOMAIN d.nodes = 1..Len(d.nodes)
  BY LenProperties DEF Diagram
<1>2. f \in [1..Len(d.nodes) -> Nat]
  <2>1. \A i \in 1..Len(d.nodes) : d.nodes[i] \in NodeType
    BY <1>1, ElementOfSeq
  <2> QED BY <2>1 DEF NodeType
<1>3. PICK K \in Nat : \A i \in 1..Len(d.nodes) : f[i] <= K
  <2> HIDE DEF f
  <2> QED BY <1>1, <1>2, NumbersAreBounded
<1>4. ASSUME NEW e \in NodeIds(d) PROVE Node(d, e).y <= K
  <2>1. \E i \in DOMAIN d.nodes : d.nodes[i].id = e
    BY DEF NodeIds
  <2>2. PICK i \in DOMAIN d.nodes : Node(d, e) = d.nodes[i]
    BY <2>1 DEF Node
  <2> QED BY <1>1, <1>3, <2>2
<1> QED BY <1>4

\* From an event to one that feeds it the heights increase, and of the events of a
\* diagram one is the deepest.
LEMMA SavedIsAcyclic ==
  ASSUME NEW d \in Diagram
  PROVE  Acyclic(Saved(d))
<1> DEFINE tree == Saved(d)
           ids == EventIds(tree)
           y(e) == Node(d, e).y
<1>1. /\ WellFormed(tree) /\ ids = NodeIds(d) \cap Events
      /\ \A h \in ToSet(tree.gates) : \E g \in NodeIds(d) : h = SavedGate(d, g)
  BY SavedIsWellFormed
<1>2. IsFiniteSet(ids) /\ None \notin ids
  BY <1>1, EventsAreFinite, EditorAssumption DEF DiagramsAssumption
<1>3. \A e \in NodeIds(d) : y(e) \in Nat
  BY NodeOfDiagram
<1> HIDE DEF tree
<1>4. ASSUME NEW e \in ids, NEW x \in Feeds(tree, e)
      PROVE  x \in NodeIds(d) /\ y(e) < y(x)
  <2>1. PICK h \in ToSet(tree.gates) : h.output = e /\ x \in ToSet(h.inputs)
    BY <1>4 DEF Feeds
  <2>2. PICK g \in NodeIds(d) : h = SavedGate(d, g)
    BY <1>1, <2>1
  <2>3. Above(d, e, g)
    BY <1>2, <2>1, <2>2, SavedGateByHeights
  <2>4. x \in NodeIds(d) /\ ~Above(d, x, g)
    BY <2>1, <2>2, SavedGateByHeights
  <2>5. y(e) \in Nat /\ y(x) \in Nat /\ y(g) \in Nat
    BY <1>1, <1>3, <2>4
  <2>6. y(e) < y(g) /\ ~(y(x) < y(g))
    BY <2>3, <2>4 DEF Above
  <2> HIDE DEF y
  <2> QED BY <2>4, <2>5, <2>6
<1>5. ASSUME NEW S \in SUBSET ids, S # {}, \A e \in S : Feeds(tree, e) \cap S # {}
      PROVE  FALSE
  <2> DEFINE heights == {y(e) : e \in S}
  <2>2. heights \in SUBSET Nat /\ heights # {}
    BY <1>1, <1>3, <1>5
  <2> HIDE DEF ids
  <2>3. PICK K \in Nat : \A n \in heights : n <= K
    <3>1. PICK K \in Nat : \A e \in NodeIds(d) : y(e) <= K
      BY HeightsAreBounded
    <3>2. S \subseteq NodeIds(d)
      BY <1>1
    <3> HIDE DEF y
    <3> QED BY <3>1, <3>2
  <2>4. heights \in SUBSET (0..K)
    <3> HIDE DEF heights
    <3> QED BY <2>2, <2>3
  <2>5. PICK deepest \in heights : \A n \in heights : n <= deepest
    <3> HIDE DEF heights
    <3> QED BY <2>2, <2>4, GreatestNumber
  <2>6. PICK e \in S : y(e) = deepest
    BY <2>5
  <2>7. PICK x \in S : x \in Feeds(tree, e)
    BY <1>5
  <2>8. y(e) < y(x)
    BY <1>4, <2>7
  <2>9. y(x) <= y(e)
    BY <2>5, <2>6
  <2>10. y(e) \in Nat /\ y(x) \in Nat
    BY <1>1, <1>3 DEF ids
  <2> HIDE DEF y
  <2> QED BY <2>8, <2>9, <2>10
<1>6. Acyclic(tree)
  <2> HIDE DEF ids
  <2>1. ~\E S \in (SUBSET ids) \ {{}} : \A e \in S : Feeds(tree, e) \cap S # {}
    BY <1>5
  <2>2. \A S \in SUBSET ids : \A e \in S : [i \in ids |-> Feeds(tree, i)][e] = Feeds(tree, e)
    OBVIOUS
  <2>3. ~\E S \in (SUBSET ids) \ {{}} : \A e \in S : [i \in ids |-> Feeds(tree, i)][e] \cap S # {}
    BY <2>1, <2>2
  <2> QED BY <2>3 DEF Acyclic, ids
<1> QED BY <1>6 DEF tree

LEMMA DiagramFields ==
  ASSUME NEW d \in Diagram
  PROVE  /\ d.nodes \in Seq(NodeType) /\ d.edges \in Seq(Ends) /\ Distinct(d.nodes)
         /\ d.edges \in Seq(EndsAt(NodeIds(d)))
         /\ d = [nodes |-> d.nodes, edges |-> d.edges]
         /\ \A i \in DOMAIN d.nodes : d.nodes[i] \in NodeType /\ d.nodes[i].id \in NodeIds(d)
<1>1. /\ d.nodes \in Seq(NodeType) /\ d.edges \in Seq(Ends) /\ Distinct(d.nodes)
      /\ d.edges \in Seq(EndsAt(NodeIds(d)))
      /\ d = [nodes |-> d.nodes, edges |-> d.edges]
  BY DEF Diagram
<1>2. \A i \in DOMAIN d.nodes : d.nodes[i] \in NodeType
  BY <1>1, ElementOfSeq, LenProperties
<1> QED BY <1>1, <1>2 DEF NodeIds

\* A diagram with other edges, and one whose nodes changed but for their ids.
LEMMA EdgesReplaced ==
  ASSUME NEW ids, NEW d \in DiagramOf(ids), NEW es \in Seq(EndsAt(NodeIds(d)))
  PROVE  [d EXCEPT !.edges = es] \in DiagramOf(ids)
<1> DEFINE c == [d EXCEPT !.edges = es]
<1>1. d \in Diagram /\ NodeIds(d) \subseteq ids
  BY DEF DiagramOf
<1>2. c.nodes = d.nodes /\ c = [nodes |-> d.nodes, edges |-> es]
  BY <1>1, DiagramFields
<1> HIDE DEF c
<1>3. NodeIds(c) = NodeIds(d)
  BY <1>2 DEF NodeIds
<1>4. es \in Seq(Ends)
  <2> DEFINE At == EndsAt(NodeIds(d))
  <2>1. es \in Seq(At) /\ At \subseteq Ends
    BY DEF EndsAt
  <2> HIDE DEF At
  <2> QED BY <2>1, SeqMonotonic
<1>5. c \in Diagram
  BY <1>1, <1>2, <1>3, <1>4, DiagramFields DEF Diagram
<1> QED BY <1>1, <1>3, <1>5 DEF DiagramOf, c

LEMMA NodesReplaced ==
  ASSUME NEW ids, NEW d \in DiagramOf(ids), NEW ns, DOMAIN ns = DOMAIN d.nodes,
         ns = [i \in DOMAIN d.nodes |-> ns[i]],
         \A i \in DOMAIN d.nodes : ns[i] \in NodeType /\ ns[i].id = d.nodes[i].id
  PROVE  [d EXCEPT !.nodes = ns] \in DiagramOf(ids)
<1> DEFINE c == [d EXCEPT !.nodes = ns]
<1>1. d \in Diagram /\ NodeIds(d) \subseteq ids
  BY DEF DiagramOf
<1>2. c.nodes = ns /\ c = [nodes |-> ns, edges |-> d.edges]
  BY <1>1, DiagramFields
<1>3. ns \in Seq(NodeType)
  <2> DEFINE old == d.nodes
  <2>1. /\ old \in Seq(NodeType) /\ DOMAIN ns = DOMAIN old /\ ns = [i \in DOMAIN old |-> ns[i]]
        /\ \A i \in DOMAIN old : ns[i] \in NodeType
    BY <1>1, DiagramFields
  <2> HIDE DEF old
  <2> QED BY <2>1, MappedIsSequence, ZenonT(40)
<1>4. Distinct(ns)
  <2>1. Distinct(d.nodes)
    BY <1>1, DiagramFields
  <2>2. ASSUME NEW i \in DOMAIN ns, NEW j \in DOMAIN ns, ns[i].id = ns[j].id PROVE i = j
    BY <2>1, <2>2 DEF Distinct
  <2> QED BY <2>2 DEF Distinct
<1> HIDE DEF c
<1>5. NodeIds(c) = NodeIds(d)
  BY <1>2 DEF NodeIds
<1>6. c \in Diagram
  BY <1>1, <1>2, <1>3, <1>4, <1>5, DiagramFields DEF Diagram
<1> QED BY <1>1, <1>5, <1>6 DEF DiagramOf, c

\* A node with an id of its own is added.
LEMMA NodeAdded ==
  ASSUME NEW ids, NEW d \in DiagramOf(ids), NEW node \in NodeType, node.id \notin ids
  PROVE  [d EXCEPT !.nodes = Append(d.nodes, node)] \in DiagramOf(ids \cup {node.id})
<1> DEFINE ns == Append(d.nodes, node)
           c == [d EXCEPT !.nodes = ns]
           n == Len(d.nodes)
<1>1. d \in Diagram /\ NodeIds(d) \subseteq ids
  BY DEF DiagramOf
<1>2. c.nodes = ns /\ c = [nodes |-> ns, edges |-> d.edges]
  <2> HIDE DEF ns
  <2> QED BY <1>1, DiagramFields
<1>3. /\ ns \in Seq(NodeType) /\ DOMAIN ns = 1..(n + 1) /\ DOMAIN d.nodes = 1..n /\ n \in Nat
      /\ \A i \in 1..n : ns[i] = d.nodes[i]
      /\ ns[n + 1] = node
  <2> DEFINE old == d.nodes
  <2>1. old \in Seq(NodeType)
    BY <1>1, DiagramFields
  <2> HIDE DEF old
  <2>2. /\ Append(old, node) \in Seq(NodeType) /\ Len(Append(old, node)) = Len(old) + 1
        /\ \A i \in 1..Len(old) : Append(old, node)[i] = old[i]
        /\ Append(old, node)[Len(old) + 1] = node
        /\ Len(old) \in Nat /\ DOMAIN old = 1..Len(old)
    BY <2>1, AppendProperties, LenProperties
  <2>3. DOMAIN Append(old, node) = 1..(Len(old) + 1)
    BY <2>2, LenProperties
  <2> QED BY <2>2, <2>3 DEF old
<1> HIDE DEF ns
<1>4. \A i \in 1..n : d.nodes[i].id # node.id
  BY <1>1, <1>3 DEF NodeIds
<1>5. Distinct(ns)
  <2>1. Distinct(d.nodes)
    BY <1>1, DiagramFields
  <2>2. ASSUME NEW i \in 1..(n + 1), NEW j \in 1..(n + 1), ns[i].id = ns[j].id PROVE i = j
    <3>1. CASE i \in 1..n /\ j \in 1..n
      BY <1>3, <2>1, <2>2, <3>1 DEF Distinct
    <3>2. CASE i \in 1..n /\ j = n + 1
      BY <1>3, <1>4, <2>2, <3>2
    <3>3. CASE j \in 1..n /\ i = n + 1
      BY <1>3, <1>4, <2>2, <3>3
    <3>4. (i \in 1..n \/ i = n + 1) /\ (j \in 1..n \/ j = n + 1)
      BY <1>3
    <3> QED BY <3>1, <3>2, <3>3, <3>4
  <2> QED BY <1>3, <2>2 DEF Distinct
<1> HIDE DEF c
<1>6. c \in Diagram
  <2> DEFINE before == EndsAt(NodeIds(d))
             now == EndsAt(NodeIds(c))
  <2>1. NodeIds(d) \subseteq NodeIds(c)
    <3>1. \A i \in 1..n : i \in 1..(n + 1)
      BY <1>3
    <3> QED BY <1>2, <1>3, <3>1 DEF NodeIds
  <2>2. before \subseteq now
    BY <2>1 DEF EndsAt
  <2>3. d.edges \in Seq(before)
    BY <1>1, DiagramFields
  <2> HIDE DEF before, now
  <2>4. d.edges \in Seq(now)
    BY <2>2, <2>3, SeqMonotonic
  <2> QED BY <1>1, <1>2, <1>3, <1>5, <2>4, DiagramFields DEF Diagram, now
<1>7. NodeIds(c) \subseteq ids \cup {node.id}
  <2>1. ASSUME NEW i \in 1..(n + 1) PROVE ns[i].id \in ids \cup {node.id}
    <3>1. CASE i \in 1..n
      BY <1>1, <1>3, <3>1 DEF NodeIds
    <3>2. CASE i = n + 1
      BY <1>3, <3>2
    <3> QED BY <1>3, <3>1, <3>2
  <2> QED BY <1>2, <1>3, <2>1 DEF NodeIds
<1> QED BY <1>6, <1>7 DEF DiagramOf, c, ns

\* A node is removed, with the edges that end at it.
WithoutNode(d, id) ==
  [nodes |-> NodesOf(d, NodeIds(d) \ {id}),
   edges |-> Only(d.edges, {e \in ToSet(d.edges) : id \notin {e[1], e[2]}})]

LEMMA NodeDeleted ==
  ASSUME NEW ids, NEW d \in DiagramOf(ids), NEW id \in NodeIds(d)
  PROVE  /\ WithoutNode(d, id) \in DiagramOf(ids)
         /\ NodeIds(WithoutNode(d, id)) = NodeIds(d) \ {id}
<1> DEFINE away == {e \in ToSet(d.edges) : id \notin {e[1], e[2]}}
           rest == Only(d.edges, away)
           others == NodeIds(d) \ {id}
           ns == NodesOf(d, others)
           c == [nodes |-> ns, edges |-> rest]
<1>0. d \in Diagram /\ NodeIds(d) \subseteq ids /\ d.edges \in Seq(EndsAt(NodeIds(d)))
  BY DiagramFields DEF DiagramOf
<1>1. WithoutNode(d, id) = c
  BY DEF WithoutNode
<1>2. rest \in Seq(EndsAt(others))
  <2> DEFINE es == d.edges
             At == EndsAt(NodeIds(d))
             Left == EndsAt(others)
  <2>1. es \in Seq(At) /\ rest = Only(es, away)
    BY <1>0
  <2>2. At \cap away \subseteq Left
    BY DEF EndsAt
  <2> HIDE DEF away, es, At, Left
  <2>3. Only(es, away) \in Seq(At \cap away)
    BY <2>1, OnlyKeeps
  <2> HIDE DEF rest
  <2>4. rest \in Seq(Left)
    BY <2>1, <2>2, <2>3, SeqMonotonic
  <2> QED BY <2>4 DEF Left
<1>3. ns \in Seq(NodeType) /\ Distinct(ns) /\ NodeIds(c) = others
  <2> HIDE DEF others
  <2>1. /\ ns \in Seq({n \in NodeType : n.id \in others}) /\ Distinct(ns)
        /\ ToSet(ns) = {n \in ToSet(d.nodes) : n.id \in others}
    BY <1>0, NodesOfDiagram
  <2> HIDE DEF ns, rest
  <2>2. ns \in Seq(NodeType)
    BY <2>1, SeqMonotonic
  <2>3. {ns[i].id : i \in DOMAIN ns} = others
    <3>1. ASSUME NEW i \in DOMAIN ns PROVE ns[i].id \in others
      <4>1. ns[i] \in ToSet(ns)
        BY DEF ToSet
      <4> QED BY <2>1, <4>1
    <3>2. ASSUME NEW o \in others PROVE \E i \in DOMAIN ns : ns[i].id = o
      <4>1. PICK k \in DOMAIN d.nodes : d.nodes[k].id = o
        BY <3>2 DEF others, NodeIds
      <4>2. d.nodes[k] \in ToSet(ns)
        BY <2>1, <4>1 DEF ToSet
      <4> QED BY <4>1, <4>2 DEF ToSet
    <3> QED BY <3>1, <3>2
  <2> QED BY <2>1, <2>2, <2>3 DEF NodeIds
<1>4. rest \in Seq(Ends)
  <2> DEFINE Left == EndsAt(others)
  <2>1. rest \in Seq(Left) /\ Left \subseteq Ends
    BY <1>2 DEF EndsAt
  <2> HIDE DEF Left, rest
  <2> QED BY <2>1, SeqMonotonic
<1>5. others \subseteq ids
  BY <1>0
<1> HIDE DEF rest, ns, others
<1>6. c \in DiagramOf(ids)
  BY <1>2, <1>3, <1>4, <1>5 DEF Diagram, DiagramOf
<1> HIDE DEF c
<1>7. NodeIds(WithoutNode(d, id)) = others
  BY <1>1, <1>3
<1> QED BY <1>1, <1>6, <1>7 DEF others

LEMMA LaidOutIsDiagram ==
  ASSUME NEW all, NEW d \in DiagramOf(all)
  PROVE  LaidOut(d) \in DiagramOf(all)
<1> DEFINE ids == NodeIds(d)
           next == [i \in NodeIds(d) |-> {e[2] : e \in {f \in ToSet(d.edges) : f[1] = i}}]
           root == LayoutRoot(d)
           depth == Depths(ids, root, next)
           nodes == [i \in DOMAIN d.nodes |-> [d.nodes[i] EXCEPT !.y = 2 * depth[d.nodes[i].id]]]
<1>1. d.nodes \in Seq(NodeType) /\ \A i \in DOMAIN d.nodes : d.nodes[i] \in NodeType
  BY DiagramFields DEF DiagramOf
<1>2. IsFiniteSet(ids)
  <2> DEFINE list == [i \in DOMAIN d.nodes |-> d.nodes[i].id]
             All == Events \cup Gates
  <2>1. \A i \in DOMAIN d.nodes : list[i] \in All
    BY <1>1 DEF NodeType
  <2>2. DOMAIN list = DOMAIN d.nodes /\ list = [i \in DOMAIN d.nodes |-> list[i]]
    OBVIOUS
  <2>3. ids = ToSet(list)
    BY DEF NodeIds, ToSet
  <2> HIDE DEF list, All, ids
  <2>4. list \in Seq(All)
    BY <1>1, <2>1, <2>2, MappedIsSequence
  <2> QED BY <2>3, <2>4, ElementsAreFinite
<1>3. LaidOut(d) = [d EXCEPT !.nodes = nodes]
  BY DEF LaidOut
<1>4. \A e \in ids : depth[e] \in Nat
  <2> HIDE DEF ids, next, root
  <2>1. Cardinality(ids) \in Nat /\ \A e \in ids : depth[e] \in 0..Cardinality(ids)
    BY <1>2, DepthIsNatural
  <2> HIDE DEF depth
  <2> QED BY <2>1
<1> HIDE DEF depth
<1>5. \A i \in DOMAIN d.nodes : nodes[i] \in NodeType /\ nodes[i].id = d.nodes[i].id
  <2> TAKE i \in DOMAIN d.nodes
  <2>1. d.nodes[i] \in NodeType
    BY <1>1
  <2>2. d.nodes[i].id \in ids
    BY DEF NodeIds
  <2>3. 2 * depth[d.nodes[i].id] \in Nat
    BY <1>4, <2>2
  <2> QED BY <2>1, <2>3 DEF NodeType
<1>6. DOMAIN nodes = DOMAIN d.nodes /\ nodes = [i \in DOMAIN d.nodes |-> nodes[i]]
  OBVIOUS
<1> HIDE DEF nodes
<1> QED BY <1>3, <1>5, <1>6, NodesReplaced

-----------------------------------------------------------------------------
(* There and back again                                                    *)

\* The nodes of a diagram of events and gates, by kind and by id.
LEMMA NodesByKind ==
  ASSUME NEW E \in Seq(EventNode), NEW G \in Seq(GateNode), Distinct(E), Distinct(G),
         NEW d, d.nodes = E \o G
  PROVE  /\ EventNodes(d) = E /\ NodesOf(d, Gates) = G
         /\ NodeIds(d) \cap Events = {E[i].id : i \in DOMAIN E}
         /\ \A i \in DOMAIN E : Node(d, E[i].id) = E[i]
         /\ \A i \in DOMAIN G : Node(d, G[i].id) = G[i]
<1> DEFINE s == E \o G
<1>1. /\ s \in Seq(NodeType) /\ Distinct(s)
      /\ \A i \in DOMAIN E : i \in DOMAIN s /\ s[i] = E[i]
      /\ \A i \in DOMAIN G : Len(E) + i \in DOMAIN s /\ s[Len(E) + i] = G[i]
      /\ DOMAIN E = 1..Len(E) /\ DOMAIN G = 1..Len(G)
      /\ DOMAIN s = 1..(Len(E) + Len(G))
  BY NodesAreApart
<1>2. Len(E) \in Nat /\ Len(G) \in Nat
  BY LenProperties
<1>3. \A i \in DOMAIN E : E[i].id \in Events
  <2>1. \A i \in DOMAIN E : E[i] \in EventNode
    BY <1>1, ElementOfSeq
  <2> QED BY <2>1 DEF EventNode
<1>4. \A i \in DOMAIN G : G[i].id \in Gates
  <2>1. \A i \in DOMAIN G : G[i] \in GateNode
    BY <1>1, ElementOfSeq
  <2> QED BY <2>1 DEF GateNode
<1>5. Events \cap Gates = {}
  BY EditorAssumption DEF DiagramsAssumption
<1>6. E \in Seq(NodeType) /\ G \in Seq(NodeType)
  BY SeqMonotonic DEF EventNode, GateNode
<1>7. d.nodes = s
  OBVIOUS
<1> HIDE DEF s
<1>8. ASSUME NEW i \in DOMAIN s
      PROVE  \/ i \in DOMAIN E /\ s[i] = E[i]
             \/ \E j \in DOMAIN G : s[i] = G[j]
  <2>1. CASE i <= Len(E)
    <3>1. i \in DOMAIN E
      BY <1>1, <1>2, <2>1
    <3> QED BY <1>1, <3>1
  <2>2. CASE ~(i <= Len(E))
    <3>1. i - Len(E) \in DOMAIN G /\ Len(E) + (i - Len(E)) = i
      BY <1>1, <1>2, <2>2
    <3> QED BY <1>1, <3>1
  <2> QED BY <2>1, <2>2
<1>9. ASSUME NEW i \in DOMAIN s PROVE Node(d, s[i].id) = s[i]
  <2> DEFINE at == CHOOSE j \in DOMAIN d.nodes : d.nodes[j].id = s[i].id
  <2>1. at \in DOMAIN s /\ s[at].id = s[i].id
    BY <1>7
  <2>2. Node(d, s[i].id) = s[at]
    BY <1>7 DEF Node
  <2> HIDE DEF at
  <2>3. at = i
    BY <1>1, <2>1 DEF Distinct
  <2> QED BY <2>2, <2>3
<1>10. \A i \in DOMAIN E : Node(d, E[i].id) = E[i]
  <2> TAKE i \in DOMAIN E
  <2>1. i \in DOMAIN s /\ s[i] = E[i]
    BY <1>1
  <2>2. Node(d, s[i].id) = s[i]
    BY <1>9, <2>1
  <2> QED BY <2>1, <2>2
<1>11. \A i \in DOMAIN G : Node(d, G[i].id) = G[i]
  <2> TAKE i \in DOMAIN G
  <2> DEFINE j == Len(E) + i
  <2>1. j \in DOMAIN s /\ s[j] = G[i]
    BY <1>1
  <2> HIDE DEF j
  <2>2. Node(d, s[j].id) = s[j]
    BY <1>9, <2>1
  <2> QED BY <2>1, <2>2
<1>12. NodeIds(d) \cap Events = {E[i].id : i \in DOMAIN E}
  <2>1. ASSUME NEW i \in DOMAIN s, s[i].id \in Events
        PROVE  s[i].id \in {E[j].id : j \in DOMAIN E}
    BY <1>4, <1>5, <1>8, <2>1
  <2>2. ASSUME NEW i \in DOMAIN E PROVE E[i].id \in NodeIds(d)
    <3>1. i \in DOMAIN d.nodes /\ d.nodes[i] = E[i]
      BY <1>1, <1>7
    <3> QED BY <3>1 DEF NodeIds
  <2>3. NodeIds(d) = {s[i].id : i \in DOMAIN s}
    BY <1>7 DEF NodeIds
  <2> QED BY <1>3, <2>1, <2>2, <2>3
\* Of either kind of nodes the selection has all, and of the other none.
<1>13. ASSUME NEW ids
       PROVE  NodesOf(d, ids) = Only(E, {n \in ToSet(s) : n.id \in ids})
                                  \o Only(G, {n \in ToSet(s) : n.id \in ids})
  <2> DEFINE with == {n \in ToSet(s) : n.id \in ids}
  <2>1. NodesOf(d, ids) = Only(E \o G, with)
    BY <1>7 DEF NodesOf, s
  <2> HIDE DEF with
  <2>2. Only(E \o G, with) = Only(E, with) \o Only(G, with)
    BY <1>6, OnlyOfConcat
  <2> QED BY <2>1, <2>2 DEF with
<1>14. ToSet(E) \subseteq ToSet(s) /\ ToSet(G) \subseteq ToSet(s)
  <2>1. \A i \in DOMAIN E : E[i] \in ToSet(s)
    BY <1>1 DEF ToSet
  <2>2. \A i \in DOMAIN G : G[i] \in ToSet(s)
    BY <1>1 DEF ToSet
  <2> QED BY <2>1, <2>2 DEF ToSet
<1>15. E \o <<>> = E /\ <<>> \o G = G
  BY ConcatEmptySeq
<1>16. EventNodes(d) = E
  <2> DEFINE with == {n \in ToSet(s) : n.id \in Events}
  <2>1. ToSet(E) \subseteq with
    BY <1>3, <1>14 DEF ToSet
  <2>2. ToSet(G) \cap with = {}
    BY <1>4, <1>5 DEF ToSet
  <2>3. NodesOf(d, Events) = Only(E, with) \o Only(G, with)
    BY <1>13
  <2> HIDE DEF with
  <2>4. Only(E, with) = E
    BY <2>1, OnlyAll
  <2>5. Only(G, with) = <<>>
    BY <2>2, OnlyNone
  <2> QED BY <1>15, <2>3, <2>4, <2>5 DEF EventNodes
<1>17. NodesOf(d, Gates) = G
  <2> DEFINE with == {n \in ToSet(s) : n.id \in Gates}
  <2>1. ToSet(G) \subseteq with
    BY <1>4, <1>14 DEF ToSet
  <2>2. ToSet(E) \cap with = {}
    BY <1>3, <1>5 DEF ToSet
  <2>3. NodesOf(d, Gates) = Only(E, with) \o Only(G, with)
    BY <1>13
  <2> HIDE DEF with
  <2>4. Only(G, with) = G
    BY <2>1, OnlyAll
  <2>5. Only(E, with) = <<>>
    BY <2>2, OnlyNone
  <2> QED BY <1>15, <2>3, <2>4, <2>5
<1> QED BY <1>10, <1>11, <1>12, <1>16, <1>17

\* What Levelled says of the marks and the gates, whether or not an event is out of reach.
InLevels(tree) ==
  LET depth == EventDepth(tree)
  IN  /\ \A i \in DOMAIN tree.events : tree.events[i].top <=> tree.events[i].id = tree.top
      /\ \A g \in ToSet(tree.gates) :
           /\ g.output # None /\ g.inputs # <<>>
           /\ \A e \in ToSet(g.inputs) : depth[e] = depth[g.output] + 1
           /\ \A h \in ToSet(tree.gates) : h.output = g.output => h = g

\* What InLevels says of a gate.
LEMMA LevelledGate ==
  ASSUME NEW tree, WellFormed(tree), InLevels(tree), NEW i \in DOMAIN tree.gates
  PROVE  /\ tree.gates[i].id \in Gates
         /\ tree.gates[i].output \in EventIds(tree)
         /\ tree.gates[i].inputs \in Seq(EventIds(tree)) /\ tree.gates[i].inputs # <<>>
         /\ \A e \in ToSet(tree.gates[i].inputs) :
              EventDepth(tree)[e] = EventDepth(tree)[tree.gates[i].output] + 1
         /\ tree.gates[i] = [id |-> tree.gates[i].id, output |-> tree.gates[i].output,
                             inputs |-> tree.gates[i].inputs]
<1>1. tree.gates[i] \in GateOf(EventIds(tree)) /\ tree.gates[i] \in ToSet(tree.gates)
  BY TreeElements DEF ToSet
<1>2. /\ tree.gates[i].output # None /\ tree.gates[i].inputs # <<>>
      /\ \A e \in ToSet(tree.gates[i].inputs) :
           EventDepth(tree)[e] = EventDepth(tree)[tree.gates[i].output] + 1
  BY <1>1 DEF InLevels
<1> QED BY <1>1, <1>2 DEF GateOf

\* The diagram of a tree in levels.
LEMMA FlowNodes ==
  ASSUME NEW tree, tree # None, WellFormed(tree)
  PROVE  /\ EventNodes(Flow(tree)) = FlowEvents(tree)
         /\ NodesOf(Flow(tree), Gates) = FlowGates(tree)
         /\ NodeIds(Flow(tree)) \cap Events = EventIds(tree)
         /\ \A e \in EventIds(tree) : Node(Flow(tree), e).y = 2 * EventDepth(tree)[e]
         /\ \A i \in DOMAIN tree.gates :
              Node(Flow(tree), tree.gates[i].id).y = GateHeight(EventDepth(tree), tree.gates[i])
         /\ DOMAIN FlowEvents(tree) = DOMAIN tree.events
         /\ DOMAIN FlowGates(tree) = DOMAIN tree.gates
         /\ \A i \in DOMAIN tree.events : /\ FlowEvents(tree)[i].id = tree.events[i].id
                                          /\ FlowEvents(tree)[i].top = tree.events[i].top
         /\ \A i \in DOMAIN tree.gates : FlowGates(tree)[i].id = tree.gates[i].id
<1> DEFINE E == FlowEvents(tree)
           G == FlowGates(tree)
           d == Flow(tree)
<1>1. E \in Seq(EventNode) /\ G \in Seq(GateNode) /\ Distinct(E) /\ Distinct(G)
  BY FlowPartsTyped
<1>2. d.nodes = E \o G
  BY FlowHasParts
<1>3. /\ DOMAIN E = DOMAIN tree.events /\ DOMAIN G = DOMAIN tree.gates
      /\ \A i \in DOMAIN tree.events : /\ E[i].id = tree.events[i].id
                                       /\ E[i].top = tree.events[i].top
                                       /\ E[i].y = 2 * EventDepth(tree)[tree.events[i].id]
      /\ \A i \in DOMAIN tree.gates : /\ G[i].id = tree.gates[i].id
                                      /\ G[i].y = GateHeight(EventDepth(tree), tree.gates[i])
  BY DEF FlowEvents, FlowGates
<1> HIDE DEF E, G, d
<1>4. /\ EventNodes(d) = E /\ NodesOf(d, Gates) = G
      /\ NodeIds(d) \cap Events = {E[i].id : i \in DOMAIN E}
      /\ \A i \in DOMAIN E : Node(d, E[i].id) = E[i]
      /\ \A i \in DOMAIN G : Node(d, G[i].id) = G[i]
  BY <1>1, <1>2, NodesByKind, ZenonT(40)
<1>5. EventIds(tree) = {E[i].id : i \in DOMAIN E}
  BY <1>3 DEF EventIds
<1>6. \A e \in EventIds(tree) : Node(d, e).y = 2 * EventDepth(tree)[e]
  <2>1. ASSUME NEW i \in DOMAIN tree.events
        PROVE  Node(d, tree.events[i].id).y = 2 * EventDepth(tree)[tree.events[i].id]
    BY <1>3, <1>4
  <2> QED BY <2>1 DEF EventIds
<1>7. \A i \in DOMAIN tree.gates :
        Node(d, tree.gates[i].id).y = GateHeight(EventDepth(tree), tree.gates[i])
  BY <1>3, <1>4
<1> QED BY <1>3, <1>4, <1>5, <1>6, <1>7 DEF E, G, d

\* The events joined to a gate of the diagram: its output, then its inputs.
LEMMA JoinedOfFlow ==
  ASSUME NEW tree, tree # None, WellFormed(tree), InLevels(tree), NEW i \in DOMAIN tree.gates
  PROVE  Joined(Flow(tree), tree.gates[i].id) = <<tree.gates[i].output>> \o tree.gates[i].inputs
<1> DEFINE g == tree.gates[i]
           ids == EventIds(tree)
           d == Flow(tree)
           parts == FlowEdges(tree)
           N == Len(tree.gates)
           other(e) == IF e[1] = g.id THEN e[2] ELSE e[1]
           to == {e \in ToSet(d.edges) : g.id \in {e[1], e[2]} /\ other(e) \in NodeIds(d) \cap Events}
           near == Only(d.edges, to)
<1>1. /\ parts \in Seq(Seq(EndsAt(TreeIds(tree)))) /\ Len(parts) = N
      /\ DOMAIN tree.gates = 1..N /\ N \in Nat
      /\ \A k \in 1..N : parts[k] = GateEdges(tree.gates[k])
  BY FlowPartsTyped, TreeElements DEF FlowEdges
<1>2. d.edges = FlattenSeq(parts)
  BY FlowHasParts
<1>3. NodeIds(d) \cap Events = ids
  BY FlowNodes
<1>4. ids \in SUBSET Events /\ Events \cap Gates = {}
  BY TreeElements, EditorAssumption DEF DiagramsAssumption
<1>5. \A k \in 1..N : /\ tree.gates[k].id \in Gates /\ tree.gates[k].output \in ids
                      /\ tree.gates[k].inputs \in Seq(ids) /\ tree.gates[k] \in GateOf(ids)
  BY <1>1, LevelledGate, TreeElements
\* An edge of a gate is between that gate and one of the tree's events.
<1>6. ASSUME NEW k \in 1..N, NEW e \in ToSet(parts[k])
      PROVE  \/ e[1] \in ids /\ e[2] = tree.gates[k].id
             \/ e[1] = tree.gates[k].id /\ e[2] \in ids
  <2> DEFINE h == tree.gates[k]
  <2>1. /\ h.id \in Gates /\ h.output \in ids /\ h.inputs \in Seq(ids) /\ h \in GateOf(ids)
        /\ parts[k] = GateEdges(h)
    BY <1>1, <1>5
  <2> HIDE DEF h, ids, parts
  <2>2. /\ GateEdges(h) \in Seq(EndsAt(ids \cup {h.id})) /\ Len(GateEdges(h)) = Len(h.inputs) + 1
        /\ GateEdges(h)[1] = <<h.output, h.id>>
        /\ \A j \in 1..Len(h.inputs) : GateEdges(h)[j + 1] = <<h.id, h.inputs[j]>>
    BY <1>4, <2>1, GateEdgesAreEdges
  <2>3. Len(h.inputs) \in Nat /\ DOMAIN GateEdges(h) = 1..(Len(h.inputs) + 1)
    BY <2>1, <2>2, LenProperties
  <2>4. PICK m \in 1..(Len(h.inputs) + 1) : e = GateEdges(h)[m]
    BY <2>1, <2>3 DEF ToSet
  <2>5. CASE m = 1
    <3>1. e = <<h.output, h.id>>
      BY <2>2, <2>4, <2>5
    <3> QED BY <2>1, <3>1 DEF h
  <2>6. CASE m # 1
    <3>1. m - 1 \in 1..Len(h.inputs) /\ (m - 1) + 1 = m
      BY <2>3, <2>6
    <3>2. e = <<h.id, h.inputs[m - 1]>>
      BY <2>2, <2>4, <3>1
    <3>3. h.inputs[m - 1] \in ids
      BY <2>1, <3>1, ElementOfSeq
    <3> QED BY <3>2, <3>3 DEF h
  <2> QED BY <2>5, <2>6
<1>7. i \in 1..N /\ g.id \in Gates /\ g.output \in ids /\ g.inputs \in Seq(ids) /\ g \in GateOf(ids)
  BY <1>1, <1>5
<1>8. Alone(parts, i, to)
  <2>1. ASSUME NEW e \in ToSet(parts[i]) PROVE e \in to
    <3>1. e \in ToSet(d.edges)
      <4> HIDE DEF parts, d
      <4> QED BY <1>1, <1>2, <1>7, FlattenedHasParts
    <3>2. \/ e[1] \in ids /\ e[2] = g.id
          \/ e[1] = g.id /\ e[2] \in ids
      <4> HIDE DEF ids, parts
      <4> QED BY <1>6, <1>7
    <3>3. g.id \in {e[1], e[2]} /\ other(e) \in ids
      <4> HIDE DEF ids, g
      <4> QED BY <1>4, <1>7, <3>2
    <3> QED BY <1>3, <3>1, <3>3
  <2>2. ASSUME NEW k \in 1..N, k # i, NEW e \in ToSet(parts[k]) PROVE e \notin to
    <3>1. tree.gates[k].id # g.id /\ tree.gates[k].id \in Gates
      <4>1. Distinct(tree.gates)
        BY DEF WellFormed
      <4> QED BY <1>1, <1>5, <1>7, <2>2, <4>1 DEF Distinct
    <3>2. \/ e[1] \in ids /\ e[2] = tree.gates[k].id
          \/ e[1] = tree.gates[k].id /\ e[2] \in ids
      <4> HIDE DEF ids, parts
      <4> QED BY <1>6
    <3>3. g.id \notin {e[1], e[2]}
      <4> HIDE DEF ids, g
      <4> QED BY <1>4, <1>7, <3>1, <3>2
    <3> QED BY <3>3
  <2> HIDE DEF parts, to
  <2>3. ToSet(parts[i]) \subseteq to
    BY <2>1
  <2>4. \A k \in 1..Len(parts) : k # i => ToSet(parts[k]) \cap to = {}
    BY <1>1, <2>2
  <2> QED BY <2>3, <2>4 DEF Alone
<1>9. near = GateEdges(g)
  <2> HIDE DEF parts, to, d, g
  <2>1. Only(FlattenSeq(parts), to) = parts[i]
    BY <1>1, <1>7, <1>8, OnlyOfFlattened
  <2> QED BY <1>1, <1>2, <1>7, <2>1 DEF g
<1>10. Joined(d, g.id) = [k \in DOMAIN near |-> other(near[k])]
  BY DEF Joined
<1> HIDE DEF d, near, to, parts, ids
<1> DEFINE joined == [k \in DOMAIN GateEdges(g) |-> other(GateEdges(g)[k])]
           one == <<g.output>>
           list == g.inputs
           n == Len(g.inputs)
<1>11. Joined(d, g.id) = joined
  BY <1>9, <1>10
<1>12. /\ DOMAIN GateEdges(g) = 1..(n + 1) /\ n \in Nat
       /\ GateEdges(g)[1] = <<g.output, g.id>>
       /\ \A j \in 1..n : GateEdges(g)[j + 1] = <<g.id, g.inputs[j]>>
  <2>1. /\ GateEdges(g) \in Seq(EndsAt(ids \cup {g.id})) /\ Len(GateEdges(g)) = Len(g.inputs) + 1
        /\ GateEdges(g)[1] = <<g.output, g.id>>
        /\ \A j \in 1..Len(g.inputs) : GateEdges(g)[j + 1] = <<g.id, g.inputs[j]>>
    <3> HIDE DEF g
    <3> QED BY <1>4, <1>7, GateEdgesAreEdges
  <2>2. DOMAIN GateEdges(g) = 1..Len(GateEdges(g)) /\ Len(g.inputs) \in Nat
    <3> HIDE DEF g
    <3> QED BY <1>7, <2>1, LenProperties
  <2> QED BY <2>1, <2>2
<1>13. g.output # g.id
  BY <1>4, <1>7
<1> HIDE DEF g
<1>14. /\ joined[1] = g.output /\ DOMAIN joined = 1..(n + 1)
       /\ \A j \in 1..n : joined[j + 1] = list[j]
  <2>1. 1 \in 1..(n + 1) /\ \A j \in 1..n : j + 1 \in 1..(n + 1)
    BY <1>12
  <2> QED BY <1>12, <1>13, <2>1
<1>15. joined = [k \in 1..(n + 1) |-> joined[k]]
  BY <1>12
<1>16. one \in Seq(ids) /\ list \in Seq(ids) /\ Len(one) = 1 /\ one[1] = g.output /\ Len(list) = n
  BY <1>7
<1> HIDE DEF joined, one, list, n
<1>17. ASSUME NEW k \in 1..(n + 1) PROVE joined[k] = IF k <= 1 THEN one[k] ELSE list[k - 1]
  <2>1. CASE k = 1
    BY <1>14, <1>16, <2>1
  <2>2. CASE k # 1
    <3>1. k - 1 \in 1..n /\ (k - 1) + 1 = k /\ ~(k <= 1)
      BY <1>12, <2>2
    <3> QED BY <1>14, <3>1
  <2> QED BY <2>1, <2>2
<1>18. /\ one \o list \in Seq(ids) /\ Len(one \o list) = 1 + n
       /\ \A k \in 1..(1 + n) : (one \o list)[k] = IF k <= 1 THEN one[k] ELSE list[k - 1]
  <2>1. /\ one \o list \in Seq(ids) /\ Len(one \o list) = Len(one) + Len(list)
        /\ \A k \in 1..(Len(one) + Len(list)) :
             (one \o list)[k] = IF k <= Len(one) THEN one[k] ELSE list[k - Len(one)]
    BY <1>16, ConcatProperties
  <2> QED BY <1>16, <2>1
<1> DEFINE both == one \o list
<1>19. /\ both \in Seq(ids) /\ Len(both) = n + 1
       /\ \A k \in 1..(n + 1) : joined[k] = both[k]
  <2>1. n \in Nat /\ 1 + n = n + 1
    BY <1>12
  <2>2. \A k \in 1..(n + 1) : both[k] = IF k <= 1 THEN one[k] ELSE list[k - 1]
    BY <1>18, <2>1
  <2>3. both \in Seq(ids) /\ Len(both) = n + 1
    BY <1>18, <2>1
  <2> HIDE DEF both
  <2> QED BY <1>17, <2>2, <2>3
<1> HIDE DEF both
<1>20. joined \in Seq(ids) /\ Len(joined) = n + 1
  <2>1. \A k \in 1..(n + 1) : joined[k] \in ids
    BY <1>19, ElementOfSeq
  <2>2. joined \in [1..(n + 1) -> ids]
    BY <1>15, <2>1
  <2>3. n + 1 \in Nat
    BY <1>12
  <2> QED BY <2>2, <2>3, SeqDef, LenProperties
<1>21. joined = both
  BY <1>19, <1>20, SeqEqual
<1> QED BY <1>11, <1>21 DEF d, g, one, list, both

\* A gate halfway between its output and its inputs, which are all on one level.
LEMMA HeightsInLevels ==
  ASSUME NEW tree, tree # None, WellFormed(tree), InLevels(tree), NEW i \in DOMAIN tree.gates
  PROVE  /\ Above(Flow(tree), tree.gates[i].output, tree.gates[i].id)
         /\ \A e \in ToSet(tree.gates[i].inputs) : /\ ~Above(Flow(tree), e, tree.gates[i].id)
                                                   /\ Above(Flow(tree), tree.gates[i].id, e)
<1> DEFINE g == tree.gates[i]
           ids == EventIds(tree)
           depth == EventDepth(tree)
           below == {depth[e] : e \in ToSet(g.inputs)}
           D == depth[g.output]
           d == Flow(tree)
<1>1. /\ g.output \in ids /\ g.inputs \in Seq(ids) /\ g.inputs # <<>>
      /\ \A e \in ToSet(g.inputs) : depth[e] = D + 1
  BY LevelledGate
<1>2. D \in Nat
  <2>1. Cardinality(ids) \in Nat /\ depth[g.output] \in 0..Cardinality(ids)
    BY <1>1, DepthsOfEvents
  <2> QED BY <2>1
<1>3. g.output # None
  BY <1>1, TreeElements, EditorAssumption DEF DiagramsAssumption
<1>4. /\ \A e \in ids : Node(d, e).y = 2 * depth[e]
      /\ Node(d, g.id).y = GateHeight(depth, g)
  BY FlowNodes
<1> HIDE DEF d, depth, ids, g
<1>5. ToSet(g.inputs) \subseteq ids /\ ToSet(g.inputs) # {}
  <2>1. 1 \in DOMAIN g.inputs
    BY <1>1, LenProperties, EmptySeq
  <2>2. g.inputs[1] \in ToSet(g.inputs)
    BY <2>1 DEF ToSet
  <2> QED BY <1>1, <2>2, ElementsAreFinite
<1>6. GateHeight(depth, g) = D + (D + 1)
  <2>1. below = {D + 1}
    BY <1>1, <1>5
  <2>2. GateHeight(depth, g) = D + Highest(below)
    BY <1>1, <1>3 DEF GateHeight
  <2>3. Highest(below) = D + 1
    <3>1. \A k \in {D + 1} : k <= D + 1
      BY <1>2
    <3> HIDE DEF D, below
    <3> QED BY <2>1, <3>1 DEF Highest
  <2> QED BY <2>2, <2>3
<1>7. Above(d, g.output, g.id)
  <2>1. Node(d, g.output).y = 2 * D /\ Node(d, g.id).y = D + (D + 1)
    BY <1>1, <1>4, <1>6
  <2> HIDE DEF D
  <2> QED BY <1>2, <2>1 DEF Above
<1>8. ASSUME NEW e \in ToSet(g.inputs) PROVE ~Above(d, e, g.id) /\ Above(d, g.id, e)
  <2>1. Node(d, e).y = 2 * (D + 1) /\ Node(d, g.id).y = D + (D + 1)
    BY <1>1, <1>4, <1>5, <1>6
  <2> HIDE DEF D
  <2> QED BY <1>2, <2>1 DEF Above
<1> QED BY <1>7, <1>8 DEF d, g

LEMMA GateComesBack ==
  ASSUME NEW tree, tree # None, WellFormed(tree), InLevels(tree), NEW i \in DOMAIN tree.gates
  PROVE  SavedGate(Flow(tree), tree.gates[i].id) = tree.gates[i]
<1> DEFINE g == tree.gates[i]
           ids == EventIds(tree)
           d == Flow(tree)
           one == <<g.output>>
           list == g.inputs
           joined == Joined(d, g.id)
           above == {e \in ToSet(joined) : Above(d, e, g.id)}
           below == ToSet(joined) \ above
           outputs == Only(joined, above)
           inputs == Only(joined, below)
<1>1. /\ g.output \in ids /\ list \in Seq(ids)
      /\ g = [id |-> g.id, output |-> g.output, inputs |-> list]
  BY LevelledGate
<1>2. joined = one \o list
  BY JoinedOfFlow
<1>3. Above(d, g.output, g.id) /\ \A e \in ToSet(list) : ~Above(d, e, g.id)
  BY HeightsInLevels
<1>4. SavedGate(d, g.id) =
        [id |-> g.id, output |-> IF outputs = <<>> THEN None ELSE outputs[1], inputs |-> inputs]
  BY DEF SavedGate
<1> HIDE DEF g, ids, d, list, joined
<1>5. one \in Seq(ids) /\ ToSet(one) = {g.output} /\ one # <<>> /\ one[1] = g.output
  <2>1. one \in Seq(ids) /\ one # <<>> /\ one[1] = g.output /\ DOMAIN one = {1}
    BY <1>1
  <2> HIDE DEF one
  <2> QED BY <2>1 DEF ToSet
<1> HIDE DEF one
<1>6. joined \in Seq(ids) /\ ToSet(joined) = {g.output} \cup ToSet(list)
  <2>1. /\ one \o list \in Seq(ids) /\ Len(one \o list) = Len(one) + Len(list)
        /\ \A k \in 1..(Len(one) + Len(list)) :
             (one \o list)[k] = IF k <= Len(one) THEN one[k] ELSE list[k - Len(one)]
    BY <1>1, <1>5, ConcatProperties
  <2> QED BY <1>1, <1>2, <1>5, <2>1, ElementsOfConcat
<1>7. above = {g.output}
  BY <1>3, <1>6
<1>8. below = ToSet(list)
  BY <1>3, <1>6, <1>7
<1>9. ToSet(list) \cap {g.output} = {}
  BY <1>3
<1> HIDE DEF above, below
<1>10. outputs = one
  <2>1. Only(one \o list, above) = Only(one, above) \o Only(list, above)
    BY <1>1, <1>5, OnlyOfConcat
  <2>2. Only(one, above) = one
    BY <1>5, <1>7, OnlyAll
  <2>3. Only(list, above) = <<>>
    BY <1>1, <1>7, <1>9, OnlyNone
  <2>4. one \o <<>> = one
    BY <1>5, ConcatEmptySeq
  <2> QED BY <1>2, <2>1, <2>2, <2>3, <2>4
<1>11. inputs = list
  <2>1. Only(one \o list, below) = Only(one, below) \o Only(list, below)
    BY <1>1, <1>5, OnlyOfConcat
  <2>2. Only(one, below) = <<>>
    BY <1>5, <1>8, <1>9, OnlyNone
  <2>3. Only(list, below) = list
    BY <1>1, <1>8, OnlyAll
  <2>4. <<>> \o list = list
    BY <1>1, ConcatEmptySeq
  <2> QED BY <1>2, <2>1, <2>2, <2>3, <2>4
<1> HIDE DEF outputs, inputs
<1>12. SavedGate(d, g.id) = g
  BY <1>1, <1>4, <1>5, <1>10, <1>11
<1> QED BY <1>12 DEF d, g

LEMMA TopComesBack ==
  ASSUME NEW tree, tree # None, WellFormed(tree), InLevels(tree)
  PROVE  TopEvent(Flow(tree)) = tree.top
<1> DEFINE d == Flow(tree)
           events == EventNodes(d)
           tops == {n \in ToSet(events) : n.top}
           unled == {n \in ToSet(events) : n.id \notin Entered(d)}
           marked == Only(events, tops)
           roots == Only(events, unled)
<1>1. TopEvent(d) = IF marked # <<>> THEN marked[1].id
                    ELSE IF roots # <<>> THEN roots[1].id
                    ELSE IF events # <<>> THEN events[1].id ELSE None
  BY DEF TopEvent
<1>2. events = FlowEvents(tree) /\ events \in Seq(EventNode)
  BY FlowNodes, FlowPartsTyped
<1>3. /\ DOMAIN events = DOMAIN tree.events
      /\ \A i \in DOMAIN tree.events : /\ events[i].id = tree.events[i].id
                                       /\ events[i].top <=> events[i].id = tree.top
  <2>1. \A i \in DOMAIN tree.events : tree.events[i].top <=> tree.events[i].id = tree.top
    BY DEF InLevels
  <2>2. /\ DOMAIN FlowEvents(tree) = DOMAIN tree.events
        /\ \A i \in DOMAIN tree.events : /\ FlowEvents(tree)[i].id = tree.events[i].id
                                         /\ FlowEvents(tree)[i].top = tree.events[i].top
    BY FlowNodes
  <2> HIDE DEF events
  <2> QED BY <1>2, <2>1, <2>2
<1> HIDE DEF d, events
<1>4. CASE tree.top \in EventIds(tree)
  <2>1. PICK i \in DOMAIN events : events[i].id = tree.top
    BY <1>3, <1>4 DEF EventIds
  <2>2. events[i] \in tops
    BY <1>3, <2>1 DEF ToSet
  <2>3. \A n \in tops : n.id = tree.top
    BY <1>3 DEF ToSet
  <2> HIDE DEF tops
  <2>4. marked \in Seq(EventNode \cap tops) /\ ToSet(marked) = ToSet(events) \cap tops
    BY <1>2, OnlyKeeps
  <2>5. events[i] \in ToSet(marked)
    BY <2>1, <2>2, <2>4 DEF ToSet
  <2> HIDE DEF marked
  <2>6. marked # <<>>
    BY <2>5 DEF ToSet
  <2>7. 1 \in 1..Len(marked)
    BY <2>4, <2>6, LenProperties, EmptySeq
  <2>8. marked[1] \in tops
    BY <2>4, <2>7, ElementOfSeq
  <2> QED BY <1>1, <2>3, <2>6, <2>8 DEF d
<1>5. CASE tree.events = <<>> /\ tree.top = None
  <2>1. DOMAIN events = {}
    BY <1>3, <1>5
  <2>2. events = <<>>
    BY <1>2, <2>1, LenProperties, EmptySeq
  <2>3. ToSet(events) \cap tops = {} /\ ToSet(events) \cap unled = {}
    BY <2>1 DEF ToSet
  <2> HIDE DEF tops, unled
  <2>4. marked = <<>> /\ roots = <<>>
    BY <1>2, <2>3, OnlyNone
  <2> HIDE DEF marked, roots
  <2> QED BY <1>1, <1>5, <2>2, <2>4 DEF d
<1>6. tree.top \in EventIds(tree) \/ (tree.events = <<>> /\ tree.top = None)
  BY DEF WellFormed
<1> QED BY <1>4, <1>5, <1>6

LEMMA TreeComesBack ==
  ASSUME NEW tree, tree # None, WellFormed(tree), InLevels(tree)
  PROVE  Saved(Flow(tree)) = tree
<1> DEFINE d == Flow(tree)
           nodes == EventNodes(d)
           boxes == NodesOf(d, Gates)
           events == [i \in DOMAIN nodes |->
                        [id |-> nodes[i].id, top |-> nodes[i].top \/ nodes[i].id = tree.top]]
           gates == [i \in DOMAIN boxes |-> SavedGate(d, boxes[i].id)]
<1>1. Saved(d) = [top |-> tree.top, events |-> events, gates |-> gates]
  BY TopComesBack DEF Saved
<1>2. /\ tree = [top |-> tree.top, events |-> tree.events, gates |-> tree.gates]
      /\ tree.events \in Seq([id : Events, top : BOOLEAN])
      /\ tree.gates \in Seq(GateOf(EventIds(tree)))
  BY DEF WellFormed, GateOf
<1>3. /\ DOMAIN nodes = DOMAIN tree.events /\ DOMAIN boxes = DOMAIN tree.gates
      /\ \A i \in DOMAIN tree.events : /\ nodes[i].id = tree.events[i].id
                                       /\ nodes[i].top = tree.events[i].top
      /\ \A i \in DOMAIN tree.gates : boxes[i].id = tree.gates[i].id
  BY FlowNodes
<1> HIDE DEF nodes, boxes
<1>4. \A i \in DOMAIN tree.events : events[i] = tree.events[i]
  <2> TAKE i \in DOMAIN tree.events
  <2>1. tree.events[i] \in [id : Events, top : BOOLEAN]
    BY TreeElements
  <2>2. tree.events[i].top <=> tree.events[i].id = tree.top
    BY DEF InLevels
  <2> QED BY <1>3, <2>1, <2>2
<1>5. \A i \in DOMAIN tree.gates : gates[i] = tree.gates[i]
  BY <1>3, GateComesBack
<1>6. events = [i \in DOMAIN tree.events |-> events[i]] /\ gates = [i \in DOMAIN tree.gates |-> gates[i]]
  BY <1>3
<1> HIDE DEF events, gates, d
<1>7. events = tree.events
  <2>1. tree.events = [i \in DOMAIN tree.events |-> tree.events[i]]
    BY <1>2, LenProperties
  <2> QED BY <1>4, <1>6, <2>1
<1>8. gates = tree.gates
  <2>1. tree.gates = [i \in DOMAIN tree.gates |-> tree.gates[i]]
    BY <1>2, LenProperties
  <2> QED BY <1>5, <1>6, <2>1
<1> QED BY <1>1, <1>2, <1>7, <1>8 DEF d

-----------------------------------------------------------------------------
(* The automatic layout                                                    *)

Mapped(s, h) == [i \in DOMAIN s |-> h[s[i]]]

LEMMA MappedElements ==
  ASSUME NEW U, NEW V, NEW h \in [U -> V], NEW s \in Seq(U)
  PROVE  /\ Mapped(s, h) \in Seq(V) /\ Len(Mapped(s, h)) = Len(s)
         /\ DOMAIN Mapped(s, h) = DOMAIN s
         /\ \A i \in DOMAIN s : Mapped(s, h)[i] = h[s[i]] /\ s[i] \in U
         /\ (s = <<>> <=> Mapped(s, h) = <<>>)
<1> DEFINE t == Mapped(s, h)
<1>1. DOMAIN t = DOMAIN s /\ t = [i \in DOMAIN s |-> t[i]] /\ \A i \in DOMAIN s : t[i] = h[s[i]]
  BY DEF Mapped
<1>2. \A i \in DOMAIN s : s[i] \in U
  BY ElementOfSeq, LenProperties
<1> HIDE DEF t
<1>3. \A i \in DOMAIN s : t[i] \in V
  BY <1>1, <1>2
<1>4. t \in Seq(V) /\ Len(t) = Len(s)
  BY <1>1, <1>3, MappedIsSequence
<1>5. s = <<>> <=> t = <<>>
  <2>1. Len(s) \in Nat /\ (Len(s) = 0 <=> s = <<>>)
    BY EmptySeq, LenProperties
  <2>2. Len(t) = 0 <=> t = <<>>
    BY <1>4, EmptySeq, LenProperties
  <2> QED BY <1>4, <2>1, <2>2
<1> QED BY <1>1, <1>2, <1>4, <1>5 DEF t

LEMMA MappedLength ==
  ASSUME NEW U, NEW s \in Seq(U), NEW h
  PROVE  Len(Mapped(s, h)) = Len(s)
<1> DEFINE V == {h[x] : x \in U}
           t == Mapped(s, h)
<1>1. DOMAIN t = DOMAIN s /\ t = [i \in DOMAIN s |-> t[i]] /\ \A i \in DOMAIN s : t[i] = h[s[i]]
  BY DEF Mapped
<1>2. \A i \in DOMAIN s : s[i] \in U
  BY ElementOfSeq, LenProperties
<1> HIDE DEF t
<1>3. \A i \in DOMAIN s : t[i] \in V
  BY <1>1, <1>2
<1> HIDE DEF V
<1>4. t \in Seq(V) /\ Len(t) = Len(s)
  BY <1>1, <1>3, MappedIsSequence
<1> QED BY <1>4 DEF t

LEMMA MappedAppend ==
  ASSUME NEW U, NEW V, NEW h \in [U -> V], NEW s \in Seq(U), NEW x \in U
  PROVE  Mapped(Append(s, x), h) = Append(Mapped(s, h), h[x])
<1>0. /\ Mapped(s, h) \in Seq(V) /\ Len(Mapped(s, h)) = Len(s)
      /\ \A i \in DOMAIN s : Mapped(s, h)[i] = h[s[i]]
  <2>1. Len(Mapped(s, h)) = Len(s)
    BY MappedLength
  <2>2. \A i \in DOMAIN s : Mapped(s, h)[i] = h[s[i]]
    BY DEF Mapped
  <2> QED BY <2>1, <2>2, MappedElements
<1> DEFINE n == Len(s)
           a == Append(s, x)
           t == Mapped(s, h)
           b == Append(Mapped(s, h), h[x])
           c == Mapped(Append(s, x), h)
<1>1. a \in Seq(U) /\ Len(a) = n + 1 /\ (\A i \in 1..n : a[i] = s[i]) /\ a[n + 1] = x
  BY AppendProperties
<1>2. t \in Seq(V) /\ Len(t) = n /\ \A i \in DOMAIN s : t[i] = h[s[i]]
  BY <1>0
<1>3. h[x] \in V /\ n \in Nat /\ DOMAIN s = 1..n
  BY LenProperties
<1>4. b \in Seq(V) /\ Len(b) = n + 1 /\ (\A i \in 1..n : b[i] = t[i]) /\ b[n + 1] = h[x]
  <2> HIDE DEF t
  <2>1. t \in Seq(V) /\ h[x] \in V /\ Len(t) = n
    BY <1>2, <1>3
  <2>2. /\ Append(t, h[x]) \in Seq(V) /\ Len(Append(t, h[x])) = Len(t) + 1
        /\ \A i \in 1..Len(t) : Append(t, h[x])[i] = t[i]
        /\ Append(t, h[x])[Len(t) + 1] = h[x]
    BY <2>1, AppendProperties
  <2> QED BY <2>1, <2>2 DEF t
<1>5. c \in Seq(V) /\ Len(c) = n + 1 /\ \A i \in DOMAIN a : c[i] = h[a[i]]
  <2> HIDE DEF a
  <2>1. c = Mapped(a, h)
    BY DEF a
  <2>2. /\ Mapped(a, h) \in Seq(V) /\ Len(Mapped(a, h)) = Len(a)
        /\ \A i \in DOMAIN a : Mapped(a, h)[i] = h[a[i]]
    <3>1. a \in Seq(U)
      BY <1>1
    <3>2. Len(Mapped(a, h)) = Len(a)
      BY <3>1, MappedLength
    <3>3. \A i \in DOMAIN a : Mapped(a, h)[i] = h[a[i]]
      BY DEF Mapped
    <3> QED BY <3>1, <3>2, <3>3, MappedElements
  <2> HIDE DEF c
  <2> QED BY <1>1, <2>1, <2>2
<1>6. DOMAIN a = 1..(n + 1)
  BY <1>1, LenProperties
<1> HIDE DEF n, a, b, c, t
<1>7. ASSUME NEW i \in 1..(n + 1) PROVE c[i] = b[i]
  <2>1. CASE i = n + 1
    BY <1>1, <1>4, <1>5, <1>6, <2>1
  <2>2. CASE i # n + 1
    <3>1. i \in 1..n
      BY <1>3, <2>2
    <3>2. i \in DOMAIN a /\ i \in DOMAIN s
      <4>1. i \in DOMAIN s
        BY <1>3, <3>1
      <4> QED BY <1>6, <4>1
    <3>3. c[i] = h[a[i]] /\ a[i] = s[i]
      BY <1>1, <1>5, <3>1, <3>2
    <3>4. b[i] = t[i] /\ t[i] = h[s[i]]
      BY <1>2, <1>4, <3>1, <3>2
    <3> QED BY <3>3, <3>4
  <2> QED BY <2>1, <2>2
<1>8. c = b
  BY <1>4, <1>5, <1>7, SeqEqual
<1> QED BY <1>8 DEF a, b, c, t

\* What is selected of the images are the images of what is selected.
LEMMA OnlyOfMapped ==
  ASSUME NEW U, NEW V, NEW h \in [U -> V], NEW s \in Seq(U), NEW S, NEW T,
         \A i \in DOMAIN s : s[i] \in S <=> h[s[i]] \in T
  PROVE  Only(Mapped(s, h), T) = Mapped(Only(s, S), h)
<1>0. Mapped(s, h) \in Seq(V) /\ Len(Mapped(s, h)) = Len(s)
  <2>1. Len(Mapped(s, h)) = Len(s)
    BY MappedLength
  <2>2. Mapped(s, h) \in Seq(V)
    BY MappedElements, Zenon
  <2> QED BY <2>1, <2>2
<1> DEFINE n == Len(s)
           t == Mapped(s, h)
<1>1. n \in Nat /\ DOMAIN s = 1..n /\ \A i \in 1..n : s[i] \in U
  BY LenProperties, ElementOfSeq
<1>2. PICK r : Selects(r, s, S) /\ Only(s, S) = r[n]
  BY OnlySelects
<1>3. r[0] = <<>> /\ \A i \in 1..n : r[i] = IF s[i] \in S THEN Append(r[i - 1], s[i]) ELSE r[i - 1]
  BY <1>2 DEF Selects
<1>4. t \in Seq(V) /\ Len(t) = n /\ \A i \in 1..n : t[i] = h[s[i]]
  BY <1>0, <1>1 DEF Mapped
<1>5. \A i \in 1..n : i \in 0..n /\ i - 1 \in 0..n
  BY <1>1
<1> HIDE DEF n, t
<1> DEFINE good == [i \in 0..n |-> r[i] \in Seq(U)]
<1>6. \A i \in 0..n : good[i]
  <2>1. good \in [0..n -> BOOLEAN] /\ good[0]
    <3>1. 0 \in 0..n /\ <<>> \in Seq(U)
      BY <1>1, EmptySeq
    <3>2. r[0] \in Seq(U)
      BY <1>3, <3>1
    <3>3. good[0]
      BY <3>1, <3>2
    <3> QED BY <3>3
  <2>2. ASSUME NEW i \in 1..n, good[i - 1] PROVE good[i]
    <3>1. r[i - 1] \in Seq(U)
      BY <1>5, <2>2
    <3>2. r[i] \in Seq(U)
      <4>1. s[i] \in U /\ Append(r[i - 1], s[i]) \in Seq(U)
        <5> DEFINE q == r[i - 1]
                   x == s[i]
        <5>1. q \in Seq(U) /\ x \in U
          BY <1>1, <3>1
        <5> HIDE DEF q, x
        <5>2. Append(q, x) \in Seq(U)
          BY <5>1, AppendProperties
        <5> QED BY <5>1, <5>2 DEF q, x
      <4> QED BY <1>3, <3>1, <4>1
    <3> QED BY <1>5, <3>2
  <2> HIDE DEF good
  <2> QED BY <1>1, <2>1, <2>2, AllPrefixes
<1> DEFINE m == [i \in 0..n |-> Mapped(r[i], h)]
<1>7. Selects(m, t, T)
  <2>1. m[0] = <<>>
    <3>1. 0 \in 0..n /\ Mapped(<<>>, h) = <<>>
      BY <1>1 DEF Mapped
    <3> QED BY <1>3, <3>1
  <2>2. ASSUME NEW i \in 1..n
        PROVE  m[i] = IF t[i] \in T THEN Append(m[i - 1], t[i]) ELSE m[i - 1]
    <3>1. m[i] = Mapped(r[i], h) /\ m[i - 1] = Mapped(r[i - 1], h)
      BY <1>5
    <3>2. r[i - 1] \in Seq(U) /\ s[i] \in U /\ t[i] = h[s[i]]
      BY <1>1, <1>4, <1>5, <1>6
    <3>3. t[i] \in T <=> s[i] \in S
      BY <1>1, <3>2
    <3>4. Mapped(Append(r[i - 1], s[i]), h) = Append(Mapped(r[i - 1], h), h[s[i]])
      BY <3>2, MappedAppend
    <3> QED BY <1>3, <3>1, <3>2, <3>3, <3>4
  <2> HIDE DEF m
  <2> QED BY <1>4, <2>1, <2>2 DEF Selects
<1> HIDE DEF m
<1>8. Only(t, T) = m[n]
  BY <1>4, <1>7, OnlyIsUnique
<1>9. m[n] = Mapped(r[n], h)
  <2>1. n \in 0..n
    BY <1>1
  <2> QED BY <2>1 DEF m
<1> QED BY <1>2, <1>8, <1>9 DEF t

\* The parts of LaidOut.
NextNodes(d) == [i \in NodeIds(d) |-> {e[2] : e \in {f \in ToSet(d.edges) : f[1] = i}}]

LayoutDepth(d) == Depths(NodeIds(d), LayoutRoot(d), NextNodes(d))

NodesAt(ids) == {n \in NodeType : n.id \in ids}

Placed(d) == [n \in NodesAt(NodeIds(d)) |-> [n EXCEPT !.y = 2 * LayoutDepth(d)[n.id]]]

LEMMA NodeIdsAreFinite ==
  ASSUME NEW d \in Diagram
  PROVE  /\ IsFiniteSet(NodeIds(d))
         /\ \A i \in NodeIds(d) : LayoutDepth(d)[i] \in Nat
<1> DEFINE list == [i \in DOMAIN d.nodes |-> d.nodes[i].id]
           All == Events \cup Gates
           ids == NodeIds(d)
           root == LayoutRoot(d)
           next == NextNodes(d)
<1>1. d.nodes \in Seq(NodeType) /\ \A i \in DOMAIN d.nodes : list[i] \in All
  BY DiagramFields DEF NodeType
<1>2. DOMAIN list = DOMAIN d.nodes /\ list = [i \in DOMAIN d.nodes |-> list[i]]
  OBVIOUS
<1>3. ids = ToSet(list)
  BY DEF NodeIds, ToSet
<1> HIDE DEF list, All, ids, root, next
<1>4. list \in Seq(All)
  BY <1>1, <1>2, MappedIsSequence
<1>5. IsFiniteSet(ids)
  BY <1>3, <1>4, ElementsAreFinite
<1>6. Cardinality(ids) \in Nat /\ \A i \in ids : Depths(ids, root, next)[i] \in 0..Cardinality(ids)
  BY <1>5, DepthIsNatural
<1>7. \A i \in ids : Depths(ids, root, next)[i] \in Nat
  BY <1>6
<1> QED BY <1>5, <1>7 DEF LayoutDepth, ids, root, next

\* The layout moves each node to a row, and changes nothing else.
LEMMA LayoutMoves ==
  ASSUME NEW d \in Diagram
  PROVE  /\ Placed(d) \in [NodesAt(NodeIds(d)) -> NodesAt(NodeIds(d))]
         /\ \A n \in NodesAt(NodeIds(d)) : /\ Placed(d)[n].id = n.id /\ Placed(d)[n].top = n.top
                                           /\ Placed(d)[n].y = 2 * LayoutDepth(d)[n.id]
         /\ d.nodes \in Seq(NodesAt(NodeIds(d)))
         /\ LaidOut(d).nodes = Mapped(d.nodes, Placed(d))
         /\ LaidOut(d).edges = d.edges
<1> DEFINE At == NodesAt(NodeIds(d))
           h == Placed(d)
<1>1. ASSUME NEW n \in At
      PROVE  /\ h[n] \in At /\ h[n].id = n.id /\ h[n].top = n.top
             /\ h[n].y = 2 * LayoutDepth(d)[n.id]
  <2>1. n \in NodeType /\ n.id \in NodeIds(d)
    BY DEF NodesAt
  <2>2. LayoutDepth(d)[n.id] \in Nat
    BY <2>1, NodeIdsAreFinite
  <2> DEFINE y == 2 * LayoutDepth(d)[n.id]
  <2>3. y \in Nat
    BY <2>2
  <2>4. h[n] = [n EXCEPT !.y = y]
    BY DEF Placed
  <2> HIDE DEF y, h
  <2>5. h[n] \in NodeType /\ h[n].id = n.id /\ h[n].top = n.top /\ h[n].y = y
    BY <2>1, <2>3, <2>4 DEF NodeType
  <2> QED BY <2>1, <2>5 DEF NodesAt, y
<1>2. h \in [At -> At]
  <2>1. h = [n \in At |-> h[n]]
    BY DEF Placed
  <2> HIDE DEF h
  <2> QED BY <1>1, <2>1
<1>3. d.nodes \in Seq(At) /\ \A i \in DOMAIN d.nodes : d.nodes[i] \in At
  <2>1. /\ d.nodes \in Seq(NodeType)
        /\ \A i \in DOMAIN d.nodes : d.nodes[i] \in NodeType /\ d.nodes[i].id \in NodeIds(d)
    BY DiagramFields
  <2>2. \A i \in DOMAIN d.nodes : d.nodes[i] \in At
    BY <2>1 DEF NodesAt
  <2> DEFINE s == d.nodes
  <2>3. DOMAIN s = 1..Len(s) /\ Len(s) \in Nat /\ s \in [1..Len(s) -> NodeType]
    BY <2>1, LenProperties
  <2>4. \A i \in DOMAIN s : s[i] \in At
    BY <2>2
  <2> HIDE DEF s, At
  <2>5. s \in [1..Len(s) -> At]
    BY <2>3, <2>4
  <2>6. s \in Seq(At)
    BY <2>3, <2>5, SeqDef
  <2> QED BY <2>4, <2>6 DEF s
<1>4. LaidOut(d).nodes = Mapped(d.nodes, h) /\ LaidOut(d).edges = d.edges
  <2> DEFINE nodes == [i \in DOMAIN d.nodes |->
                         [d.nodes[i] EXCEPT !.y = 2 * LayoutDepth(d)[d.nodes[i].id]]]
  <2>1. LaidOut(d) = [d EXCEPT !.nodes = nodes]
    BY DEF LaidOut, LayoutDepth, NextNodes
  <2>2. \A i \in DOMAIN d.nodes : nodes[i] = h[d.nodes[i]]
    BY <1>3 DEF Placed
  <2>3. nodes = Mapped(d.nodes, h)
    BY <2>2 DEF Mapped
  <2>4. d = [nodes |-> d.nodes, edges |-> d.edges]
    BY DiagramFields
  <2> HIDE DEF nodes, h
  <2> QED BY <2>1, <2>3, <2>4
<1> QED BY <1>1, <1>2, <1>3, <1>4

LEMMA LayoutKeepsNodes ==
  ASSUME NEW d \in Diagram
  PROVE  /\ NodeIds(LaidOut(d)) = NodeIds(d)
         /\ \A ids : /\ NodesOf(d, ids) \in Seq(NodesAt(NodeIds(d)))
                     /\ NodesOf(LaidOut(d), ids) = Mapped(NodesOf(d, ids), Placed(d))
         /\ \A i \in NodeIds(d) : Node(LaidOut(d), i).y = 2 * LayoutDepth(d)[i]
<1> DEFINE At == NodesAt(NodeIds(d))
           h == Placed(d)
           s == d.nodes
           t == LaidOut(d).nodes
<1>1. /\ h \in [At -> At] /\ s \in Seq(At) /\ t = Mapped(s, h)
      /\ \A n \in At : h[n].id = n.id /\ h[n].y = 2 * LayoutDepth(d)[n.id]
  BY LayoutMoves
<1>2. Distinct(s)
  BY DiagramFields
<1>3. NodeIds(d) = {s[i].id : i \in DOMAIN s} /\ NodeIds(LaidOut(d)) = {t[i].id : i \in DOMAIN t}
  BY DEF NodeIds
<1>4. \A i \in DOMAIN s : s[i] \in At
  BY <1>1, ElementOfSeq, LenProperties
<1>5. DOMAIN t = DOMAIN s /\ \A i \in DOMAIN s : t[i] = h[s[i]] /\ t[i].id = s[i].id
  BY <1>1, <1>4 DEF Mapped
<1>6. NodeIds(LaidOut(d)) = NodeIds(d)
  <2> HIDE DEF s, t, h
  <2> QED BY <1>3, <1>5
<1>7. ASSUME NEW ids
      PROVE  /\ NodesOf(d, ids) \in Seq(At)
             /\ NodesOf(LaidOut(d), ids) = Mapped(NodesOf(d, ids), h)
  <2> DEFINE S == {n \in ToSet(s) : n.id \in ids}
             T == {n \in ToSet(t) : n.id \in ids}
  <2>1. NodesOf(d, ids) = Only(s, S) /\ NodesOf(LaidOut(d), ids) = Only(t, T)
    BY DEF NodesOf
  <2>2. \A i \in DOMAIN s : s[i] \in S <=> h[s[i]] \in T
    <3> HIDE DEF s, t, h
    <3> QED BY <1>5 DEF ToSet
  <2> HIDE DEF S, T, s, t, h, At
  <2>3. Only(s, S) \in Seq(At \cap S)
    BY <1>1, OnlyKeeps
  <2>4. Only(s, S) \in Seq(At)
    BY <2>3, SeqMonotonic
  <2>5. Only(Mapped(s, h), T) = Mapped(Only(s, S), h)
    BY <1>1, <2>2, OnlyOfMapped
  <2> QED BY <1>1, <2>1, <2>4, <2>5
<1>8. ASSUME NEW i \in NodeIds(d) PROVE Node(LaidOut(d), i).y = 2 * LayoutDepth(d)[i]
  <2> DEFINE at == CHOOSE k \in DOMAIN t : t[k].id = i
  <2>1. Node(LaidOut(d), i) = t[at]
    BY DEF Node
  <2> HIDE DEF s, t, h, At
  <2>2. \E k \in DOMAIN t : t[k].id = i
    BY <1>3, <1>5
  <2>3. at \in DOMAIN t /\ t[at].id = i
    BY <2>2
  <2> HIDE DEF at
  <2>4. s[at] \in At /\ s[at].id = i /\ t[at] = h[s[at]]
    BY <1>4, <1>5, <2>3
  <2>5. t[at].y = 2 * LayoutDepth(d)[i]
    BY <1>1, <2>4
  <2> QED BY <2>1, <2>5
<1> QED BY <1>6, <1>7, <1>8

LEMMA LayoutKeepsTop ==
  ASSUME NEW d \in Diagram
  PROVE  TopEvent(LaidOut(d)) = TopEvent(d)
<1> DEFINE At == NodesAt(NodeIds(d))
           h == Placed(d)
           e == LaidOut(d)
           s == EventNodes(d)
           t == EventNodes(e)
           S == {n \in ToSet(s) : n.top}
           T == {n \in ToSet(t) : n.top}
           Q == {n \in ToSet(s) : n.id \notin Entered(d)}
           R == {n \in ToSet(t) : n.id \notin Entered(e)}
<1>1. /\ h \in [At -> At]
      /\ \A n \in At : h[n].id = n.id /\ h[n].top = n.top
  BY LayoutMoves
<1>2. s \in Seq(At) /\ t = Mapped(s, h)
  BY LayoutKeepsNodes DEF EventNodes
<1>3. Entered(e) = Entered(d)
  BY LayoutMoves DEF Entered
<1>4. /\ TopEvent(d) = IF Only(s, S) # <<>> THEN Only(s, S)[1].id
                       ELSE IF Only(s, Q) # <<>> THEN Only(s, Q)[1].id
                       ELSE IF s # <<>> THEN s[1].id ELSE None
      /\ TopEvent(e) = IF Only(t, T) # <<>> THEN Only(t, T)[1].id
                       ELSE IF Only(t, R) # <<>> THEN Only(t, R)[1].id
                       ELSE IF t # <<>> THEN t[1].id ELSE None
  BY DEF TopEvent
<1> HIDE DEF h, s, t, At, e
<1>5. \A i \in DOMAIN s : s[i] \in At
  BY <1>2, ElementOfSeq, LenProperties
<1>6. DOMAIN t = DOMAIN s /\ \A i \in DOMAIN s : t[i] = h[s[i]]
  BY <1>2 DEF Mapped
<1>7. /\ \A i \in DOMAIN s : s[i] \in S <=> h[s[i]] \in T
      /\ \A i \in DOMAIN s : s[i] \in Q <=> h[s[i]] \in R
  BY <1>1, <1>3, <1>5, <1>6 DEF ToSet
<1>8. ASSUME NEW q \in Seq(At)
      PROVE  (q = <<>> <=> Mapped(q, h) = <<>>) /\ (q # <<>> => Mapped(q, h)[1].id = q[1].id)
  <2>1. q = <<>> <=> Mapped(q, h) = <<>>
    <3>1. Len(Mapped(q, h)) = Len(q)
      BY MappedLength
    <3>2. Mapped(q, h) \in Seq(At)
      BY <1>1, MappedElements, Zenon
    <3> QED BY <3>1, <3>2, EmptySeq, LenProperties
  <2>2. ASSUME q # <<>> PROVE Mapped(q, h)[1].id = q[1].id
    <3>1. 1 \in DOMAIN q
      BY <2>2, EmptySeq, LenProperties
    <3>2. q[1] \in At
      BY <3>1, ElementOfSeq, LenProperties
    <3> QED BY <1>1, <3>1, <3>2 DEF Mapped
  <2> QED BY <2>1, <2>2
<1> HIDE DEF S, T, Q, R
<1>9. Only(s, S) \in Seq(At) /\ Only(s, Q) \in Seq(At)
  <2>1. Only(s, S) \in Seq(At \cap S) /\ Only(s, Q) \in Seq(At \cap Q)
    BY <1>2, OnlyKeeps
  <2>2. At \cap S \subseteq At /\ At \cap Q \subseteq At
    OBVIOUS
  <2> QED BY <2>1, <2>2, SeqMonotonic
<1>10. Only(Mapped(s, h), T) = Mapped(Only(s, S), h)
  BY <1>1, <1>2, <1>7, OnlyOfMapped
<1>11. Only(Mapped(s, h), R) = Mapped(Only(s, Q), h)
  BY <1>1, <1>2, <1>7, OnlyOfMapped
<1>12. /\ Only(t, T) = <<>> <=> Only(s, S) = <<>>
       /\ Only(s, S) # <<>> => Only(t, T)[1].id = Only(s, S)[1].id
  BY <1>2, <1>8, <1>9, <1>10
<1>13. /\ Only(t, R) = <<>> <=> Only(s, Q) = <<>>
       /\ Only(s, Q) # <<>> => Only(t, R)[1].id = Only(s, Q)[1].id
  BY <1>2, <1>8, <1>9, <1>11
<1>14. (t = <<>> <=> s = <<>>) /\ (s # <<>> => t[1].id = s[1].id)
  BY <1>2, <1>8
<1>15. TopEvent(e) = TopEvent(d)
  BY <1>4, <1>12, <1>13, <1>14
<1> QED BY <1>15 DEF e

\* Heights decide only what is a gate's output, and what its input.
LEMMA LayoutSavesAlike ==
  ASSUME NEW d \in Diagram,
         \A g \in NodeIds(d) \cap Gates : \A e \in ToSet(Joined(d, g)) :
           Above(LaidOut(d), e, g) <=> Above(d, e, g)
  PROVE  Saved(LaidOut(d)) = Saved(d)
<1> DEFINE At == NodesAt(NodeIds(d))
           h == Placed(d)
           c == LaidOut(d)
           s == EventNodes(d)
           t == EventNodes(c)
           G == NodesOf(d, Gates)
           H == NodesOf(c, Gates)
           top == TopEvent(d)
<1>1. \A n \in At : h[n].id = n.id /\ h[n].top = n.top
  BY LayoutMoves
<1>2. s \in Seq(At) /\ t = Mapped(s, h) /\ G \in Seq(At) /\ H = Mapped(G, h)
  BY LayoutKeepsNodes DEF EventNodes
<1>3. TopEvent(c) = top
  BY LayoutKeepsTop
<1>4. NodeIds(c) = NodeIds(d) /\ c.edges = d.edges
  BY LayoutKeepsNodes, LayoutMoves
<1>5. \A g : Joined(c, g) = Joined(d, g)
  <2> HIDE DEF c
  <2> QED BY <1>4 DEF Joined
<1>6. ASSUME NEW g \in NodeIds(d) \cap Gates PROVE SavedGate(c, g) = SavedGate(d, g)
  <2> DEFINE joined == Joined(d, g)
             above == {e \in ToSet(joined) : Above(d, e, g)}
  <2>1. {e \in ToSet(joined) : Above(c, e, g)} = above
    OBVIOUS
  <2> HIDE DEF c
  <2>2. SavedGate(d, g) =
          [id |-> g, output |-> IF Only(joined, above) = <<>> THEN None ELSE Only(joined, above)[1],
           inputs |-> Only(joined, ToSet(joined) \ above)]
    BY DEF SavedGate
  <2>3. SavedGate(c, g) =
          [id |-> g, output |-> IF Only(joined, above) = <<>> THEN None ELSE Only(joined, above)[1],
           inputs |-> Only(joined, ToSet(joined) \ above)]
    BY <1>5, <2>1 DEF SavedGate
  <2> QED BY <2>2, <2>3
<1>7. \A i \in DOMAIN G : G[i].id \in NodeIds(d) \cap Gates
  <2> DEFINE Q == {n \in NodeType : n.id \in Gates}
  <2>1. G \in Seq(Q)
    BY NodesOfDiagram
  <2> HIDE DEF G, Q, At
  <2>2. \A i \in DOMAIN G : G[i] \in Q /\ G[i] \in At
    BY <1>2, <2>1, ElementOfSeq, LenProperties
  <2> QED BY <2>2 DEF Q, At, NodesAt
<1> HIDE DEF h, c, s, t, G, H, At
<1>8. /\ DOMAIN t = DOMAIN s
      /\ \A i \in DOMAIN s : t[i].id = s[i].id /\ t[i].top = s[i].top
  <2>1. \A i \in DOMAIN s : s[i] \in At
    BY <1>2, ElementOfSeq, LenProperties
  <2> QED BY <1>1, <1>2, <2>1 DEF Mapped
<1>9. DOMAIN H = DOMAIN G /\ \A i \in DOMAIN G : H[i].id = G[i].id
  <2>1. \A i \in DOMAIN G : G[i] \in At
    BY <1>2, ElementOfSeq, LenProperties
  <2> QED BY <1>1, <1>2, <2>1 DEF Mapped
<1>10. [i \in DOMAIN t |-> [id |-> t[i].id, top |-> t[i].top \/ t[i].id = top]]
         = [i \in DOMAIN s |-> [id |-> s[i].id, top |-> s[i].top \/ s[i].id = top]]
  BY <1>8
<1>11. [i \in DOMAIN H |-> SavedGate(c, H[i].id)] = [i \in DOMAIN G |-> SavedGate(d, G[i].id)]
  BY <1>6, <1>7, <1>9
<1>12. Saved(d) = [top |-> top,
                   events |-> [i \in DOMAIN s |->
                                 [id |-> s[i].id, top |-> s[i].top \/ s[i].id = top]],
                   gates |-> [i \in DOMAIN G |-> SavedGate(d, G[i].id)]]
  BY DEF Saved, s, G
<1>13. Saved(c) = [top |-> top,
                   events |-> [i \in DOMAIN t |->
                                 [id |-> t[i].id, top |-> t[i].top \/ t[i].id = top]],
                   gates |-> [i \in DOMAIN H |-> SavedGate(c, H[i].id)]]
  BY <1>3 DEF Saved, t, H
<1>14. Saved(c) = Saved(d)
  BY <1>10, <1>11, <1>12, <1>13
<1> QED BY <1>14 DEF c

\* The events joined to a gate are those at the other ends of its edges.
LEMMA JoinedByEdges ==
  ASSUME NEW d \in Diagram, NEW g \in NodeIds(d) \cap Gates
  PROVE  ToSet(Joined(d, g)) =
           {e \in NodeIds(d) \cap Events : <<e, g>> \in ToSet(d.edges) \/ <<g, e>> \in ToSet(d.edges)}
<1> DEFINE other(e) == IF e[1] = g THEN e[2] ELSE e[1]
           events == NodeIds(d) \cap Events
           to == {e \in ToSet(d.edges) : g \in {e[1], e[2]} /\ other(e) \in events}
           near == Only(d.edges, to)
<1>1. Joined(d, g) = [i \in DOMAIN near |-> other(near[i])]
  BY DEF Joined
<1>2. \A e \in ToSet(d.edges) : e = <<e[1], e[2]>>
  <2>1. d.edges \in Seq(Ends)
    BY DiagramFields
  <2> DEFINE es == d.edges
  <2> HIDE DEF es
  <2>2. ToSet(es) \subseteq Ends
    BY <2>1, ElementsAreFinite DEF es
  <2> QED BY <2>2 DEF es, Ends
<1>3. ToSet(near) = to
  <2> DEFINE es == d.edges
  <2>1. es \in Seq(Ends) /\ near = Only(es, to) /\ to \subseteq ToSet(es)
    BY DiagramFields
  <2> HIDE DEF es, to, near
  <2>2. ToSet(Only(es, to)) = ToSet(es) \cap to
    BY <2>1, OnlyKeeps
  <2> QED BY <2>1, <2>2
<1>4. Events \cap Gates = {}
  BY EditorAssumption DEF DiagramsAssumption
<1>5. ToSet(Joined(d, g)) = {other(e) : e \in to}
  <2> HIDE DEF near, to
  <2>1. ToSet(Joined(d, g)) = {other(near[i]) : i \in DOMAIN near}
    BY <1>1 DEF ToSet
  <2> QED BY <1>3, <2>1 DEF ToSet
<1>6. ASSUME NEW e \in events, <<e, g>> \in ToSet(d.edges) PROVE e \in {other(f) : f \in to}
  <2>1. <<e, g>>[1] = e /\ <<e, g>>[2] = g /\ e # g
    BY <1>4
  <2>2. <<e, g>> \in to /\ other(<<e, g>>) = e
    BY <1>6, <2>1
  <2> QED BY <2>2
<1>7. ASSUME NEW e \in events, <<g, e>> \in ToSet(d.edges) PROVE e \in {other(f) : f \in to}
  <2>1. <<g, e>>[1] = g /\ <<g, e>>[2] = e
    OBVIOUS
  <2>2. <<g, e>> \in to /\ other(<<g, e>>) = e
    BY <1>7, <2>1
  <2> QED BY <2>2
<1>8. ASSUME NEW f \in to
      PROVE  /\ other(f) \in events
             /\ <<other(f), g>> \in ToSet(d.edges) \/ <<g, other(f)>> \in ToSet(d.edges)
  <2>1. f \in ToSet(d.edges) /\ f = <<f[1], f[2]>> /\ (f[1] = g \/ f[2] = g) /\ other(f) \in events
    BY <1>2
  <2> QED BY <2>1
<1> HIDE DEF to, other
<1> QED BY <1>5, <1>6, <1>7, <1>8 DEF events

\* A saved gate's output is joined to it and above, and its inputs are the events joined
\* that are not.
LEMMA SavedGateJoins ==
  ASSUME NEW d \in Diagram, NEW g \in NodeIds(d) \cap Gates
  PROVE  /\ SavedGate(d, g).output # None => SavedGate(d, g).output \in ToSet(Joined(d, g))
         /\ ToSet(SavedGate(d, g).inputs) = {e \in ToSet(Joined(d, g)) : ~Above(d, e, g)}
<1> DEFINE joined == Joined(d, g)
           events == NodeIds(d) \cap Events
           above == {e \in ToSet(joined) : Above(d, e, g)}
           below == ToSet(joined) \ above
           outputs == Only(joined, above)
<1>1. SavedGate(d, g) =
        [id |-> g, output |-> IF outputs = <<>> THEN None ELSE outputs[1],
         inputs |-> Only(joined, below)]
  BY DEF SavedGate
<1>2. joined \in Seq(events)
  BY JoinedAreEvents
<1>3. below = {e \in ToSet(joined) : ~Above(d, e, g)} /\ above \subseteq ToSet(joined)
  OBVIOUS
<1>4. below \subseteq ToSet(joined)
  OBVIOUS
<1> HIDE DEF joined, events, above, below
<1>5. outputs \in Seq(events \cap above) /\ ToSet(Only(joined, below)) = ToSet(joined) \cap below
  BY <1>2, OnlyKeeps
<1> HIDE DEF outputs
<1>6. outputs # <<>> => outputs[1] \in above
  <2>1. outputs # <<>> => 1 \in 1..Len(outputs)
    BY <1>5, LenProperties, EmptySeq
  <2> QED BY <1>5, <2>1, ElementOfSeq
<1> QED BY <1>1, <1>3, <1>4, <1>5, <1>6 DEF joined

LEMMA EachGateIsSaved ==
  ASSUME NEW d \in Diagram, NEW g \in NodeIds(d) \cap Gates
  PROVE  SavedGate(d, g) \in ToSet(Saved(d).gates)
<1> DEFINE boxes == NodesOf(d, Gates)
           gates == [i \in DOMAIN boxes |-> SavedGate(d, boxes[i].id)]
<1>1. Saved(d).gates = gates
  BY DEF Saved
<1>2. ToSet(boxes) = {n \in ToSet(d.nodes) : n.id \in Gates}
  BY NodesOfDiagram
<1>3. PICK k \in DOMAIN d.nodes : d.nodes[k].id = g
  BY DEF NodeIds
<1> HIDE DEF boxes
<1>4. PICK i \in DOMAIN boxes : boxes[i].id = g
  <2>1. d.nodes[k] \in ToSet(boxes)
    BY <1>2, <1>3 DEF ToSet
  <2> QED BY <1>3, <2>1 DEF ToSet
<1>5. gates[i] = SavedGate(d, g) /\ DOMAIN gates = DOMAIN boxes
  BY <1>4
<1> HIDE DEF gates
<1> QED BY <1>1, <1>4, <1>5 DEF ToSet

LEMMA InputsAreOfGates ==
  ASSUME NEW tree, WellFormed(tree), NEW e, NEW x \in GateInputs(tree, e)
  PROVE  \E h \in ToSet(tree.gates) : x \in ToSet(h.inputs)
<1> DEFINE gs == {i \in DOMAIN tree.gates : tree.gates[i].output = e}
           N == Len(tree.gates)
<1>1. GateInputs(tree, e) = IF gs = {} THEN {} ELSE ToSet(tree.gates[Highest(gs)].inputs)
  BY DEF GateInputs
<1>2. DOMAIN tree.gates = 1..N /\ N \in Nat
  BY TreeElements
<1>3. gs \in SUBSET (0..N) /\ gs \subseteq DOMAIN tree.gates
  BY <1>2
<1> HIDE DEF gs, N
<1>4. gs # {}
  BY <1>1
<1>5. \E n \in gs : \A k \in gs : k <= n
  BY <1>2, <1>3, <1>4, GreatestNumber
<1>6. Highest(gs) \in gs
  BY <1>5 DEF Highest
<1>7. tree.gates[Highest(gs)] \in ToSet(tree.gates)
  BY <1>3, <1>6 DEF ToSet
<1> QED BY <1>1, <1>4, <1>7

\* What DrawnAsTree says of the set of edges.
LeadsDown(d) ==
  \A f \in ToSet(d.edges) :
    /\ f[1] # None /\ Node(d, f[1]).y < Node(d, f[2]).y
    /\ f[2] \in Gates => \A e \in ToSet(d.edges) : e[2] = f[2] => e = f

LEMMA DrawnLeadsDown ==
  ASSUME NEW d, DrawnAsTree(d)
  PROVE  LeadsDown(d)
<1> SUFFICES ASSUME NEW f \in ToSet(d.edges)
             PROVE  /\ f[1] # None /\ Node(d, f[1]).y < Node(d, f[2]).y
                    /\ f[2] \in Gates => \A e \in ToSet(d.edges) : e[2] = f[2] => e = f
  BY DEF LeadsDown
<1>1. PICK i \in DOMAIN d.edges : d.edges[i] = f
  BY DEF ToSet
<1>2. f[1] # None /\ Node(d, f[1]).y < Node(d, f[2]).y
  BY <1>1 DEF DrawnAsTree
<1>3. ASSUME NEW e \in ToSet(d.edges), f[2] \in Gates, e[2] = f[2] PROVE e = f
  <2>1. PICK j \in DOMAIN d.edges : d.edges[j] = e
    BY DEF ToSet
  <2>2. i = j
    BY <1>1, <1>3, <2>1 DEF DrawnAsTree
  <2> QED BY <1>1, <2>1, <2>2
<1> QED BY <1>2, <1>3

\* Such an edge leads down, from an event to a gate or from a gate to an event.
LEMMA EdgesLeadDown ==
  ASSUME NEW d \in Diagram, LeadsDown(d), NEW f \in ToSet(d.edges)
  PROVE  /\ f = <<f[1], f[2]>>
         /\ \/ f[1] \in NodeIds(d) \cap Events /\ f[2] \in NodeIds(d) \cap Gates
            \/ f[1] \in NodeIds(d) \cap Gates /\ f[2] \in NodeIds(d) \cap Events
         /\ Node(d, f[1]).y \in Nat /\ Node(d, f[2]).y \in Nat
         /\ Node(d, f[1]).y < Node(d, f[2]).y
         /\ \A e \in ToSet(d.edges) : f[2] \in Gates /\ e[2] = f[2] => e = f
<1> DEFINE At == EndsAt(NodeIds(d))
<1>1. f \in At
  <2> DEFINE es == d.edges
  <2>1. es \in Seq(At)
    BY DiagramFields
  <2> HIDE DEF es, At
  <2>2. ToSet(es) \subseteq At
    BY <2>1, ElementsAreFinite
  <2> QED BY <2>2 DEF es
<1>3. f[1] # None /\ Node(d, f[1]).y < Node(d, f[2]).y
  BY DEF LeadsDown
<1>4. \A e \in ToSet(d.edges) : f[2] \in Gates /\ e[2] = f[2] => e = f
  BY DEF LeadsDown
<1>5. /\ f = <<f[1], f[2]>>
      /\ \/ f[1] \in NodeIds(d) \cap Events /\ f[2] \in NodeIds(d) \cap Gates
         \/ f[1] \in NodeIds(d) \cap Gates /\ f[2] \in NodeIds(d) \cap Events
  BY <1>1, <1>3 DEF EndsAt, Ends
<1>6. Node(d, f[1]).y \in Nat /\ Node(d, f[2]).y \in Nat
  BY <1>5, NodeOfDiagram
<1> QED BY <1>3, <1>4, <1>5, <1>6

\* In a tree in levels that is drawn as one, the edge into a gate is from its output, the
\* edges from it are to its inputs, one level down, and every event on a level below the
\* first is one of those.
LEMMA EdgesJoinLevels ==
  ASSUME NEW d \in Diagram, LeadsDown(d), InLevels(Saved(d))
  PROVE  /\ \A g \in NodeIds(d) \cap Gates :
              /\ SavedGate(d, g).output \in NodeIds(d) \cap Events
              /\ <<SavedGate(d, g).output, g>> \in ToSet(d.edges)
              /\ \A e \in NodeIds(d) \cap Events :
                   /\ <<e, g>> \in ToSet(d.edges) => e = SavedGate(d, g).output
                   /\ <<g, e>> \in ToSet(d.edges) =>
                        EventDepth(Saved(d))[e] = EventDepth(Saved(d))[SavedGate(d, g).output] + 1
         /\ \A e \in NodeIds(d) \cap Events :
              EventDepth(Saved(d))[e] > 0 => \E g \in NodeIds(d) \cap Gates : <<g, e>> \in ToSet(d.edges)
<1> DEFINE tree == Saved(d)
           ids == NodeIds(d) \cap Events
           boxes == NodeIds(d) \cap Gates
           D == EventDepth(tree)
           Edge(s, t) == <<s, t>> \in ToSet(d.edges)
<1>1. /\ WellFormed(tree) /\ EventIds(tree) = ids
      /\ \A h \in ToSet(tree.gates) : \E g \in NodeIds(d) : h = SavedGate(d, g)
  BY SavedIsWellFormed
<1>2. \A h \in ToSet(tree.gates) :
        h.output # None /\ \A e \in ToSet(h.inputs) : D[e] = D[h.output] + 1
  BY DEF InLevels
<1>3. \A g \in boxes : SavedGate(d, g) \in ToSet(tree.gates)
  BY EachGateIsSaved
<1>4. \A g \in boxes : ToSet(Joined(d, g)) = {e \in ids : Edge(e, g) \/ Edge(g, e)}
  BY JoinedByEdges
<1>5. \A g \in boxes :
        /\ SavedGate(d, g).output # None => SavedGate(d, g).output \in ToSet(Joined(d, g))
        /\ ToSet(SavedGate(d, g).inputs) = {e \in ToSet(Joined(d, g)) : ~Above(d, e, g)}
  BY SavedGateJoins
<1>6. \A g \in boxes : SavedGate(d, g).output # None => Above(d, SavedGate(d, g).output, g)
  BY SavedGateByHeights
<1>7. ASSUME NEW g \in boxes, NEW e \in ids
      PROVE  (Edge(e, g) => Above(d, e, g)) /\ (Edge(g, e) => ~Above(d, e, g))
  <2>1. ASSUME Edge(e, g) PROVE Above(d, e, g)
    <3>1. Node(d, <<e, g>>[1]).y < Node(d, <<e, g>>[2]).y
      BY <2>1, EdgesLeadDown
    <3> QED BY <3>1 DEF Above
  <2>2. ASSUME Edge(g, e) PROVE ~Above(d, e, g)
    <3>1. /\ Node(d, <<g, e>>[1]).y < Node(d, <<g, e>>[2]).y
          /\ Node(d, <<g, e>>[1]).y \in Nat /\ Node(d, <<g, e>>[2]).y \in Nat
      BY <2>2, EdgesLeadDown
    <3> DEFINE a == Node(d, g).y
               b == Node(d, e).y
    <3>2. a < b /\ a \in Nat /\ b \in Nat
      BY <3>1
    <3> HIDE DEF a, b
    <3>3. ~(b < a)
      BY <3>2
    <3> QED BY <3>3 DEF Above, a, b
  <2> QED BY <2>1, <2>2
<1>8. ASSUME NEW g \in boxes
      PROVE  /\ SavedGate(d, g).output \in ids /\ Edge(SavedGate(d, g).output, g)
             /\ \A e \in ids : /\ Edge(e, g) => e = SavedGate(d, g).output
                               /\ Edge(g, e) => D[e] = D[SavedGate(d, g).output] + 1
  <2> DEFINE o == SavedGate(d, g).output
  <2>1. o # None
    BY <1>2, <1>3
  <2>2. o \in ids /\ (Edge(o, g) \/ Edge(g, o)) /\ Above(d, o, g)
    BY <1>4, <1>5, <1>6, <2>1
  <2>3. Edge(o, g)
    BY <1>7, <2>2
  <2>4. ASSUME NEW e \in ids, Edge(e, g) PROVE e = o
    <3>1. <<e, g>>[2] = g /\ <<o, g>>[2] = g /\ g \in Gates
      OBVIOUS
    <3>2. <<o, g>> = <<e, g>>
      BY <2>3, <2>4, <3>1, EdgesLeadDown
    <3> QED BY <3>2
  <2>5. ASSUME NEW e \in ids, Edge(g, e) PROVE D[e] = D[o] + 1
    <3>1. e \in ToSet(SavedGate(d, g).inputs)
      BY <1>4, <1>5, <1>7, <2>5
    <3> QED BY <1>2, <1>3, <3>1
  <2> QED BY <2>2, <2>3, <2>4, <2>5
<1>9. ASSUME NEW e \in ids, D[e] > 0 PROVE \E g \in boxes : Edge(g, e)
  <2> DEFINE evs == EventIds(tree)
             root == tree.top
             next == [i \in EventIds(tree) |-> GateInputs(tree, i)]
  <2>1. D = Depths(evs, root, next)
    BY DEF EventDepth
  <2>2. IsFiniteSet(evs)
    BY <1>1, EventsAreFinite
  <2>3. e \in evs /\ D[e] > 0
    BY <1>1, <1>9
  <2> HIDE DEF evs, root, next, D, tree
  <2>4. PICK j \in evs : e \in next[j]
    BY <2>1, <2>2, <2>3, FoundFromBefore
  <2>5. e \in GateInputs(tree, j)
    BY <2>4 DEF evs, next
  <2>6. PICK h \in ToSet(tree.gates) : e \in ToSet(h.inputs)
    BY <1>1, <2>5, InputsAreOfGates
  <2>7. PICK g \in NodeIds(d) : h = SavedGate(d, g)
    BY <1>1, <2>6
  <2>8. g \in Gates
    <3>1. h.id \in Gates
      <4>1. PICK i \in DOMAIN tree.gates : tree.gates[i] = h
        BY <2>6 DEF ToSet
      <4>2. tree.gates[i] \in GateOf(EventIds(tree))
        BY <1>1, <4>1, TreeElements
      <4> QED BY <4>1, <4>2 DEF GateOf
    <3>2. SavedGate(d, g).id = g
      BY DEF SavedGate
    <3> QED BY <2>7, <3>1, <3>2
  <2>9. e \in ToSet(Joined(d, g)) /\ ~Above(d, e, g)
    BY <1>5, <2>6, <2>7, <2>8
  <2>10. Edge(e, g) \/ Edge(g, e)
    BY <1>4, <2>7, <2>8, <2>9
  <2>11. Edge(g, e)
    BY <1>7, <2>7, <2>8, <2>9, <2>10
  <2> QED BY <2>7, <2>8, <2>11
<1> QED BY <1>8, <1>9

\* The level of a node, in half rows: events on every other one, a gate right below its
\* output.
RowOf(d) ==
  LET depth == EventDepth(Saved(d))
  IN  [i \in NodeIds(d) |->
         IF i \in Events THEN 2 * depth[i] ELSE 2 * depth[SavedGate(d, i).output] + 1]

LEMMA RowsOfNodes ==
  ASSUME NEW d \in Diagram, LeadsDown(d), InLevels(Saved(d))
  PROVE  /\ RowOf(d) \in [NodeIds(d) -> Nat]
         /\ \A g \in NodeIds(d) \cap Gates : RowOf(d)[g] = RowOf(d)[SavedGate(d, g).output] + 1
         /\ \A g \in NodeIds(d) \cap Gates : \A e \in NodeIds(d) \cap Events :
              <<g, e>> \in ToSet(d.edges) => RowOf(d)[e] = RowOf(d)[g] + 1
         /\ \A i \in NodeIds(d) : i \in Events \/ i \in Gates
         /\ \A e \in NodeIds(d) \cap Events : RowOf(d)[e] = 2 * EventDepth(Saved(d))[e]
<1> DEFINE ids == NodeIds(d) \cap Events
           boxes == NodeIds(d) \cap Gates
           D == EventDepth(Saved(d))
           R == RowOf(d)
           out(g) == SavedGate(d, g).output
<1>1. \A e \in ids : D[e] \in Nat
  <2>1. WellFormed(Saved(d)) /\ EventIds(Saved(d)) = ids
    BY SavedIsWellFormed
  <2> DEFINE K == Cardinality(EventIds(Saved(d)))
  <2>2. K \in Nat /\ \A e \in ids : D[e] \in 0..K
    BY <2>1, DepthsOfEvents
  <2> QED BY <2>2
<1>2. Events \cap Gates = {}
  BY EditorAssumption DEF DiagramsAssumption
<1>3. \A i \in NodeIds(d) : i \in Events \/ i \in Gates
  BY NodeOfDiagram
<1>4. \A g \in boxes : out(g) \in ids
  BY EdgesJoinLevels
<1>5. \A g \in boxes : \A e \in ids : <<g, e>> \in ToSet(d.edges) => D[e] = D[out(g)] + 1
  BY EdgesJoinLevels
<1>6. \A e \in ids : R[e] = 2 * D[e]
  BY DEF RowOf
<1>7. \A g \in boxes : R[g] = 2 * D[out(g)] + 1
  BY <1>2 DEF RowOf
<1>8. R = [i \in NodeIds(d) |-> R[i]]
  BY DEF RowOf
<1> HIDE DEF D, R, out
<1>9. ASSUME NEW i \in NodeIds(d) PROVE R[i] \in Nat
  <2>1. CASE i \in ids
    BY <1>1, <1>6, <2>1
  <2>2. CASE i \in boxes
    BY <1>1, <1>4, <1>7, <2>2
  <2> QED BY <1>3, <2>1, <2>2
<1>10. R \in [NodeIds(d) -> Nat]
  BY <1>8, <1>9
<1>11. \A g \in boxes : R[g] = R[out(g)] + 1
  BY <1>4, <1>6, <1>7
<1>12. ASSUME NEW g \in boxes, NEW e \in ids, <<g, e>> \in ToSet(d.edges)
       PROVE  R[e] = R[g] + 1
  <2>1. D[e] = D[out(g)] + 1 /\ D[out(g)] \in Nat
    BY <1>1, <1>4, <1>5, <1>12
  <2>2. R[e] = 2 * D[e] /\ R[g] = 2 * D[out(g)] + 1
    BY <1>6, <1>7
  <2> QED BY <2>1, <2>2
<1> QED BY <1>3, <1>6, <1>10, <1>11, <1>12 DEF R, D, out

\* A tree in levels, with events out of reach only if the top event is drawn first: no
\* gate is out of reach.
Rooted(d) ==
  LET tree == Saved(d)
  IN  /\ InLevels(tree)
      /\ \A g \in ToSet(tree.gates) : g.output = tree.top \/ EventDepth(tree)[g.output] > 0
      /\ \/ \A e \in EventIds(tree) \ {tree.top} : EventDepth(tree)[e] > 0
         \/ d.nodes[1].id = tree.top

\* Nothing leads to the top event, and something does to every node on another level: the
\* layout starts from the top event.
LEMMA LayoutStartsAtTop ==
  ASSUME NEW d \in Diagram, d.nodes # <<>>, LeadsDown(d), Rooted(d)
  PROVE  /\ LayoutRoot(d) = Saved(d).top /\ Saved(d).top \in NodeIds(d) \cap Events
         /\ RowOf(d)[Saved(d).top] = 0
         /\ \A i \in NodeIds(d) : RowOf(d)[i] > 0 =>
              \E j \in NodeIds(d) : <<j, i>> \in ToSet(d.edges)
         /\ \A i \in NodeIds(d) \ {Saved(d).top} : RowOf(d)[i] = 0 =>
              \A j : <<i, j>> \notin ToSet(d.edges)
<1> DEFINE ids == NodeIds(d) \cap Events
           boxes == NodeIds(d) \cap Gates
           tree == Saved(d)
           top == Saved(d).top
           R == RowOf(d)
           out(g) == SavedGate(d, g).output
           Edge(s, t) == <<s, t>> \in ToSet(d.edges)
           D == EventDepth(Saved(d))
<1>0. /\ InLevels(tree)
      /\ \A h \in ToSet(tree.gates) : h.output = top \/ D[h.output] > 0
      /\ (\A e \in EventIds(tree) \ {top} : D[e] > 0) \/ d.nodes[1].id = top
  BY DEF Rooted
<1>1. WellFormed(tree) /\ EventIds(tree) = ids
  BY SavedIsWellFormed
<1>2. \A g \in boxes : out(g) \in ids /\ Edge(out(g), g)
  BY <1>0, EdgesJoinLevels
<1>3. \A i \in NodeIds(d) : i \in ids \/ i \in boxes
  BY NodeOfDiagram
<1>4. ids # {}
  <2>1. NodeIds(d) # {}
    <3>1. d.nodes \in Seq(NodeType)
      BY DiagramFields
    <3>2. 1 \in DOMAIN d.nodes
      BY <3>1, LenProperties, EmptySeq
    <3> QED BY <3>2 DEF NodeIds
  <2> HIDE DEF ids, boxes, out
  <2> QED BY <1>2, <1>3, <2>1
<1>5. top \in ids
  <2>1. tree.events = <<>> => EventIds(tree) = {}
    BY DEF EventIds
  <2> HIDE DEF ids, tree
  <2> QED BY <1>1, <1>4, <2>1 DEF WellFormed, tree
<1>6. R[top] = 0
  <2> DEFINE evs == EventIds(tree)
             root == tree.top
             next == [i \in EventIds(tree) |-> GateInputs(tree, i)]
  <2>1. EventDepth(tree) = Depths(evs, root, next)
    BY DEF EventDepth
  <2>2. IsFiniteSet(evs) /\ root \in evs
    BY <1>1, <1>5, EventsAreFinite
  <2> HIDE DEF evs, root, next, tree
  <2>3. Depths(evs, root, next)[root] = 0
    BY <2>2, FoundFromBefore
  <2>4. EventDepth(Saved(d))[top] = 0
    BY <2>1, <2>3 DEF root, tree
  <2>5. R[top] = 2 * EventDepth(Saved(d))[top]
    BY <1>0, <1>5, RowsOfNodes DEF tree
  <2> QED BY <2>4, <2>5
<1>7. ASSUME NEW j, Edge(j, top) PROVE FALSE
  <2>1. /\ \/ j \in ids /\ top \in boxes
           \/ j \in boxes /\ top \in ids
    <3> DEFINE f == <<j, top>>
    <3>1. f \in ToSet(d.edges) /\ f[1] = j /\ f[2] = top
      BY <1>7
    <3> HIDE DEF f, top
    <3> QED BY <3>1, EdgesLeadDown
  <2>2. Events \cap Gates = {}
    BY EditorAssumption DEF DiagramsAssumption
  <2>3. j \in boxes
    BY <1>5, <2>1, <2>2
  <2>4. R[top] = R[j] + 1 /\ R[j] \in Nat
    BY <1>0, <1>5, <1>7, <2>3, RowsOfNodes
  <2> QED BY <1>6, <2>4
<1>8. ASSUME NEW i \in NodeIds(d), R[i] > 0 PROVE \E j \in NodeIds(d) : Edge(j, i)
  <2>1. CASE i \in ids
    <3>1. R[i] = 2 * D[i] /\ D[i] \in Nat
      <4>1. D[i] \in Nat
        <5> DEFINE K == Cardinality(EventIds(tree))
        <5>1. K \in Nat /\ D[i] \in 0..K
          BY <1>1, <2>1, DepthsOfEvents
        <5> HIDE DEF K, D
        <5> QED BY <5>1
      <4> QED BY <1>0, <2>1, <4>1, RowsOfNodes
    <3>2. D[i] > 0
      <4> HIDE DEF R, D
      <4> QED BY <1>8, <3>1
    <3>3. PICK g \in boxes : Edge(g, i)
      BY <1>0, <2>1, <3>2, EdgesJoinLevels
    <3> QED BY <3>3
  <2>2. CASE i \in boxes
    <3>1. out(i) \in ids /\ Edge(out(i), i)
      BY <1>2, <2>2
    <3> HIDE DEF out, Edge
    <3> QED BY <3>1
  <2> QED BY <1>3, <2>1, <2>2
<1>9. ASSUME NEW i \in NodeIds(d) \ {top}, R[i] = 0, NEW j, Edge(i, j) PROVE FALSE
  <2>0. Events \cap Gates = {}
    BY EditorAssumption DEF DiagramsAssumption
  <2>1. CASE i \in boxes
    <3>1. R[i] = R[out(i)] + 1 /\ R[out(i)] \in Nat
      BY <1>0, <1>2, <2>1, RowsOfNodes
    <3> QED BY <1>9, <3>1
  <2>2. CASE i \in ids
    <3>1. j \in boxes
      <4> DEFINE f == <<i, j>>
      <4>1. f \in ToSet(d.edges) /\ f[1] = i /\ f[2] = j
        BY <1>9
      <4> HIDE DEF f
      <4> QED BY <2>0, <2>2, <4>1, EdgesLeadDown
    <3>2. i = out(j)
      BY <1>0, <1>9, <2>2, <3>1, EdgesJoinLevels
    <3>3. SavedGate(d, j) \in ToSet(tree.gates)
      BY <3>1, EachGateIsSaved
    <3>4. D[i] > 0 /\ R[i] = 2 * D[i]
      BY <1>0, <2>2, <3>2, <3>3, RowsOfNodes
    <3>5. D[i] \in Nat
      <4> DEFINE K == Cardinality(EventIds(tree))
      <4>1. K \in Nat /\ D[i] \in 0..K
        BY <1>1, <2>2, DepthsOfEvents
      <4> HIDE DEF K, D
      <4> QED BY <4>1
    <3> HIDE DEF D, R
    <3> QED BY <1>9, <3>4, <3>5
  <2> QED BY <1>3, <2>1, <2>2
<1>10. top \in NodeIds(d) \ Entered(d)
  <2>1. \A i : i \in Entered(d) => \E j : Edge(j, i)
    <3>1. ASSUME NEW k \in DOMAIN d.edges PROVE Edge(d.edges[k][1], d.edges[k][2])
      <4>1. d.edges[k] \in ToSet(d.edges)
        BY DEF ToSet
      <4>2. d.edges[k] = <<d.edges[k][1], d.edges[k][2]>>
        BY <4>1, EdgesLeadDown
      <4> QED BY <4>1, <4>2
    <3> QED BY <3>1 DEF Entered
  <2>2. top \in NodeIds(d)
    BY <1>5
  <2> HIDE DEF top, Edge
  <2> QED BY <1>7, <2>1, <2>2
<1> DEFINE free == NodeIds(d) \ Entered(d)
           roots == NodesOf(d, free)
           V == {n \in NodeType : n.id \in free}
<1>11. LayoutRoot(d) = IF roots # <<>> THEN roots[1].id ELSE d.nodes[1].id
  BY DEF LayoutRoot
<1>12. roots \in Seq(V) /\ ToSet(roots) = {n \in ToSet(d.nodes) : n.id \in free}
  BY NodesOfDiagram
<1>13. roots # <<>> /\ roots[1].id \in free
  <2>1. PICK i \in DOMAIN d.nodes : d.nodes[i].id = top
    BY <1>5 DEF NodeIds
  <2>2. ToSet(roots) # {}
    BY <1>10, <1>12, <2>1 DEF ToSet
  <2> HIDE DEF roots, V
  <2>3. 1 \in DOMAIN roots /\ roots # <<>>
    <3>1. \E k \in DOMAIN roots : TRUE
      BY <2>2 DEF ToSet
    <3> QED BY <1>12, <3>1, LenProperties, EmptySeq
  <2>4. roots[1] \in V
    BY <1>12, <2>3, ElementOfSeq, LenProperties
  <2> QED BY <2>3, <2>4 DEF V
<1>14. LayoutRoot(d) = top
  <2>1. CASE \A e \in EventIds(tree) \ {top} : D[e] > 0
    <3>1. ASSUME NEW i \in NodeIds(d) \ {top} PROVE R[i] > 0
      <4>1. CASE i \in ids
        <5>1. R[i] = 2 * D[i] /\ D[i] > 0 /\ R[i] \in Nat
          BY <1>0, <1>1, <2>1, <3>1, <4>1, RowsOfNodes
        <5>2. D[i] \in Nat
          <6> DEFINE K == Cardinality(EventIds(tree))
          <6>1. K \in Nat /\ D[i] \in 0..K
            BY <1>1, <4>1, DepthsOfEvents
          <6> HIDE DEF K, D
          <6> QED BY <6>1
        <5> HIDE DEF R, D
        <5> QED BY <5>1, <5>2
      <4>2. CASE i \in boxes
        <5>1. R[i] = R[out(i)] + 1 /\ R[out(i)] \in Nat
          BY <1>0, <1>2, <4>2, RowsOfNodes
        <5> HIDE DEF R
        <5> QED BY <5>1
      <4> QED BY <1>3, <3>1, <4>1, <4>2
    <3>2. \A i, j : Edge(j, i) => i \in Entered(d)
      BY DEF Entered, ToSet
    <3>3. \A i \in NodeIds(d) \ {top} : \E j : Edge(j, i)
      BY <1>8, <3>1
    <3> HIDE DEF top, Edge, roots
    <3>4. free = {top}
      BY <1>10, <3>2, <3>3
    <3> HIDE DEF free
    <3> QED BY <1>11, <1>13, <3>4
  <2>2. CASE d.nodes[1].id = top
    <3> DEFINE s == d.nodes
               with == {n \in ToSet(d.nodes) : n.id \in free}
    <3>1. s \in Seq(NodeType) /\ s # <<>>
      BY DiagramFields
    <3>2. 1 \in DOMAIN s
      BY <3>1, LenProperties, EmptySeq
    <3>3. s[1] \in with
      BY <1>10, <2>2, <3>2 DEF ToSet
    <3>4. roots = Only(s, with)
      BY DEF NodesOf
    <3> HIDE DEF s, with, roots, free
    <3>5. roots[1] = s[1]
      BY <3>1, <3>3, <3>4, OnlyBegins
    <3> QED BY <1>11, <1>13, <2>2, <3>5 DEF s
  <2> QED BY <1>0, <2>1, <2>2
<1> QED BY <1>5, <1>6, <1>8, <1>9, <1>14

\* The layout puts each node on its level.
LEMMA LayoutFindsRows ==
  ASSUME NEW d \in Diagram, d.nodes # <<>>, LeadsDown(d), Rooted(d)
  PROVE  \A i \in NodeIds(d) : LayoutDepth(d)[i] = RowOf(d)[i]
<1> DEFINE ids == NodeIds(d)
           root == LayoutRoot(d)
           next == NextNodes(d)
           level == RowOf(d)
<1>0. InLevels(Saved(d))
  BY DEF Rooted
<1>1. IsFiniteSet(ids)
  BY NodeIdsAreFinite
<1>2. root \in ids /\ level[root] = 0
  BY LayoutStartsAtTop
<1>3. level \in [ids -> Nat]
  BY <1>0, RowsOfNodes
<1>4. \A i \in ids : next[i] = {e[2] : e \in {f \in ToSet(d.edges) : f[1] = i}}
  BY DEF NextNodes
<1>5. ASSUME NEW i \in ids, NEW j \in next[i] PROVE j \in ids /\ level[j] = level[i] + 1
  <2>1. PICK f \in ToSet(d.edges) : f[1] = i /\ f[2] = j
    BY <1>4
  <2>2. /\ <<i, j>> \in ToSet(d.edges)
        /\ \/ i \in NodeIds(d) \cap Events /\ j \in NodeIds(d) \cap Gates
           \/ i \in NodeIds(d) \cap Gates /\ j \in NodeIds(d) \cap Events
    BY <2>1, EdgesLeadDown
  <2>3. CASE i \in NodeIds(d) \cap Events /\ j \in NodeIds(d) \cap Gates
    <3>1. i = SavedGate(d, j).output
      BY <1>0, <2>2, <2>3, EdgesJoinLevels
    <3>2. level[j] = level[SavedGate(d, j).output] + 1
      BY <1>0, <2>3, RowsOfNodes
    <3> QED BY <2>3, <3>1, <3>2
  <2>4. CASE i \in NodeIds(d) \cap Gates /\ j \in NodeIds(d) \cap Events
    <3>1. level[j] = level[i] + 1
      BY <1>0, <2>2, <2>4, RowsOfNodes
    <3> QED BY <2>4, <3>1
  <2> QED BY <2>2, <2>3, <2>4
<1>6. ASSUME NEW j \in ids, level[j] > 0 PROVE \E i \in ids : j \in next[i]
  <2>1. PICK i \in ids : <<i, j>> \in ToSet(d.edges)
    BY <1>6, LayoutStartsAtTop
  <2>2. <<i, j>>[1] = i /\ <<i, j>>[2] = j
    OBVIOUS
  <2>3. j \in next[i]
    BY <1>4, <2>1, <2>2
  <2> QED BY <2>3
<1>9. ASSUME NEW i \in ids \ {root}, level[i] = 0 PROVE next[i] = {}
  <2>1. \A j : <<i, j>> \notin ToSet(d.edges)
    BY <1>9, LayoutStartsAtTop
  <2>2. ASSUME NEW f \in ToSet(d.edges), f[1] = i PROVE FALSE
    <3>1. f = <<i, f[2]>>
      BY <2>2, EdgesLeadDown
    <3> QED BY <2>1, <3>1
  <2> QED BY <1>4, <2>2
<1>7. next \in [ids -> SUBSET ids]
  <2>1. next = [i \in ids |-> next[i]]
    BY DEF NextNodes
  <2> HIDE DEF next
  <2> QED BY <1>5, <2>1
<1>8. LayoutDepth(d) = Depths(ids, root, next)
  BY DEF LayoutDepth
<1> HIDE DEF ids, root, next, level
<1>10. \A i \in ids : \A j \in next[i] : level[j] = level[i] + 1
  BY <1>5
<1>11. \A i \in ids : Depths(ids, root, next)[i] = level[i]
  BY <1>1, <1>2, <1>3, <1>6, <1>7, <1>9, <1>10, LevelsAreFound
<1> QED BY <1>8, <1>11 DEF ids, level

\* So what was above a gate it is joined to still is, and nothing else is.
LEMMA LayoutKeepsTheTree ==
  ASSUME NEW d \in Diagram, d.nodes # <<>>, LeadsDown(d), Rooted(d)
  PROVE  Saved(LaidOut(d)) = Saved(d)
<1> DEFINE R == RowOf(d)
           Edge(s, t) == <<s, t>> \in ToSet(d.edges)
<1>0. InLevels(Saved(d))
  BY DEF Rooted
<1>1. \A i \in NodeIds(d) : Node(LaidOut(d), i).y = 2 * R[i] /\ R[i] \in Nat
  BY <1>0, LayoutKeepsNodes, LayoutFindsRows, RowsOfNodes
<1>2. ASSUME NEW s, NEW t, Edge(s, t)
      PROVE  s \in NodeIds(d) /\ t \in NodeIds(d) /\ R[t] = R[s] + 1
             /\ Above(d, s, t) /\ ~Above(d, t, s)
  <2> DEFINE f == <<s, t>>
  <2>1. f \in ToSet(d.edges) /\ f[1] = s /\ f[2] = t
    BY <1>2
  <2> HIDE DEF f
  <2>2. /\ \/ s \in NodeIds(d) \cap Events /\ t \in NodeIds(d) \cap Gates
           \/ s \in NodeIds(d) \cap Gates /\ t \in NodeIds(d) \cap Events
        /\ Node(d, s).y \in Nat /\ Node(d, t).y \in Nat /\ Node(d, s).y < Node(d, t).y
    BY <2>1, EdgesLeadDown
  <2>3. Above(d, s, t) /\ ~Above(d, t, s)
    <3> DEFINE a == Node(d, s).y
               b == Node(d, t).y
    <3>1. a \in Nat /\ b \in Nat /\ a < b
      BY <2>2
    <3> HIDE DEF a, b
    <3>2. a < b /\ ~(b < a)
      BY <3>1
    <3> QED BY <3>2 DEF Above, a, b
  <2>4. R[t] = R[s] + 1
    <3>1. CASE s \in NodeIds(d) \cap Events /\ t \in NodeIds(d) \cap Gates
      <4>1. s = SavedGate(d, t).output
        BY <1>0, <1>2, <3>1, EdgesJoinLevels
      <4>2. R[t] = R[SavedGate(d, t).output] + 1
        BY <1>0, <3>1, RowsOfNodes
      <4> QED BY <4>1, <4>2
    <3>2. CASE s \in NodeIds(d) \cap Gates /\ t \in NodeIds(d) \cap Events
      BY <1>0, <1>2, <3>2, RowsOfNodes
    <3> QED BY <2>2, <3>1, <3>2
  <2> QED BY <2>2, <2>3, <2>4
<1>3. ASSUME NEW s, NEW t, Edge(s, t) PROVE Above(LaidOut(d), s, t) /\ ~Above(LaidOut(d), t, s)
  <2> DEFINE a == Node(LaidOut(d), s).y
             b == Node(LaidOut(d), t).y
             m == R[s]
  <2>1. a = 2 * m /\ b = 2 * (m + 1) /\ m \in Nat
    BY <1>1, <1>2, <1>3
  <2> HIDE DEF a, b, m
  <2>2. a < b /\ ~(b < a)
    BY <2>1
  <2> QED BY <2>2 DEF Above, a, b
<1>4. ASSUME NEW g \in NodeIds(d) \cap Gates, NEW e \in ToSet(Joined(d, g))
      PROVE  Above(LaidOut(d), e, g) <=> Above(d, e, g)
  <2>1. Edge(e, g) \/ Edge(g, e)
    BY <1>4, JoinedByEdges
  <2> HIDE DEF Edge
  <2> QED BY <1>2, <1>3, <2>1
<1> QED BY <1>4, LayoutSavesAlike

-----------------------------------------------------------------------------
(* A tree that is opened, laid out and saved                               *)

\* A tree in levels with its top event first, which may have events out of reach, and two
\* gates that share an input, but no gate out of reach.
Drawable(tree) ==
  /\ tree # None /\ WellFormed(tree) /\ InLevels(tree)
  /\ tree.events # <<>> /\ tree.events[1].id = tree.top
  /\ \A g \in ToSet(tree.gates) : g.output = tree.top \/ EventDepth(tree)[g.output] > 0

\* An edge of its diagram joins a gate and its output, or a gate and one of its inputs.
LEMMA EdgesOfFlow ==
  ASSUME NEW tree, tree # None, WellFormed(tree), NEW f \in ToSet(Flow(tree).edges)
  PROVE  \E i \in DOMAIN tree.gates :
           \/ f = <<tree.gates[i].output, tree.gates[i].id>>
           \/ \E e \in ToSet(tree.gates[i].inputs) : f = <<tree.gates[i].id, e>>
<1> DEFINE parts == FlowEdges(tree)
           T == EndsAt(TreeIds(tree))
<1>1. /\ parts \in Seq(Seq(T)) /\ Len(parts) = Len(tree.gates)
      /\ DOMAIN tree.gates = 1..Len(tree.gates)
  BY FlowPartsTyped, TreeElements
<1>2. Flow(tree).edges = FlattenSeq(parts)
  BY FlowHasParts
<1> HIDE DEF parts, T
<1>3. PICK k \in 1..Len(parts) : f \in ToSet(parts[k])
  BY <1>1, <1>2, FlattenedIsOfParts
<1> DEFINE g == tree.gates[k]
<1>4. k \in DOMAIN tree.gates /\ parts[k] = GateEdges(g)
  BY <1>1, <1>3 DEF parts, FlowEdges
<1>5. /\ g \in GateOf(EventIds(tree)) /\ EventIds(tree) \in SUBSET Events
  BY <1>4, TreeElements
<1>6. /\ GateEdges(g) \in Seq(EndsAt(EventIds(tree) \cup {g.id}))
      /\ Len(GateEdges(g)) = Len(g.inputs) + 1 /\ GateEdges(g)[1] = <<g.output, g.id>>
      /\ \A j \in 1..Len(g.inputs) : GateEdges(g)[j + 1] = <<g.id, g.inputs[j]>>
  <2> HIDE DEF g
  <2> QED BY <1>5, GateEdgesAreEdges
<1>7. g.inputs \in Seq(EventIds(tree))
  BY <1>5 DEF GateOf
<1>8. f \in ToSet(GateEdges(g))
  BY <1>3, <1>4
<1> HIDE DEF g
<1>9. DOMAIN GateEdges(g) = 1..(Len(g.inputs) + 1) /\ Len(g.inputs) \in Nat
      /\ DOMAIN g.inputs = 1..Len(g.inputs)
  BY <1>6, <1>7, LenProperties
<1>10. PICK n \in 1..(Len(g.inputs) + 1) : f = GateEdges(g)[n]
  BY <1>8, <1>9 DEF ToSet
<1>11. CASE n = 1
  BY <1>4, <1>6, <1>10, <1>11 DEF g
<1>12. CASE n # 1
  <2>1. n - 1 \in 1..Len(g.inputs) /\ (n - 1) + 1 = n
    BY <1>9, <1>12
  <2>2. f = <<g.id, g.inputs[n - 1]>>
    BY <1>6, <1>10, <2>1
  <2>3. g.inputs[n - 1] \in ToSet(g.inputs)
    BY <1>9, <2>1 DEF ToSet
  <2> QED BY <1>4, <2>2, <2>3 DEF g
<1> QED BY <1>11, <1>12

LEMMA FlowLeadsDown ==
  ASSUME NEW tree, tree # None, WellFormed(tree), InLevels(tree)
  PROVE  LeadsDown(Flow(tree))
<1> DEFINE d == Flow(tree)
           g(i) == tree.gates[i]
<1>0. Events \cap Gates = {} /\ None \notin Events \cup Gates
  BY EditorAssumption DEF DiagramsAssumption
<1>1. /\ \A i \in DOMAIN tree.gates :
            /\ g(i).id \in Gates /\ g(i).output \in EventIds(tree)
            /\ g(i).inputs \in Seq(EventIds(tree))
      /\ EventIds(tree) \subseteq Events
  BY LevelledGate, TreeElements
<1>2. \A i \in DOMAIN tree.gates : ToSet(g(i).inputs) \subseteq Events
  BY <1>1, ElementsAreFinite
<1>3. \A i, j \in DOMAIN tree.gates : g(i).id = g(j).id => i = j
  BY DEF WellFormed, Distinct
<1>4. \A i \in DOMAIN tree.gates :
        /\ Above(d, g(i).output, g(i).id)
        /\ \A e \in ToSet(g(i).inputs) : Above(d, g(i).id, e)
  BY HeightsInLevels
<1> SUFFICES ASSUME NEW f \in ToSet(d.edges)
             PROVE  /\ f[1] # None /\ Above(d, f[1], f[2])
                    /\ f[2] \in Gates => \A e \in ToSet(d.edges) : e[2] = f[2] => e = f
  BY DEF LeadsDown, Above
<1>5. \A x \in ToSet(d.edges) : \E i \in DOMAIN tree.gates :
        \/ x = <<g(i).output, g(i).id>>
        \/ \E e \in ToSet(g(i).inputs) : x = <<g(i).id, e>>
  BY EdgesOfFlow
<1> HIDE DEF d, g
<1>6. PICK i \in DOMAIN tree.gates : \/ f = <<g(i).output, g(i).id>>
                                     \/ \E e \in ToSet(g(i).inputs) : f = <<g(i).id, e>>
  BY <1>5
<1>7. ASSUME f[2] \in Gates, NEW x \in ToSet(d.edges), x[2] = f[2] PROVE x = f
  <2>1. PICK j \in DOMAIN tree.gates : \/ x = <<g(j).output, g(j).id>>
                                       \/ \E e \in ToSet(g(j).inputs) : x = <<g(j).id, e>>
    BY <1>5
  <2>2. f = <<g(i).output, g(i).id>>
    BY <1>0, <1>2, <1>6, <1>7
  <2>3. x = <<g(j).output, g(j).id>>
    BY <1>0, <1>2, <1>7, <2>1
  <2>4. i = j
    BY <1>3, <1>7, <2>2, <2>3
  <2> QED BY <2>2, <2>3, <2>4
<1>8. f[1] # None /\ Above(d, f[1], f[2])
  <2>1. CASE f = <<g(i).output, g(i).id>>
    BY <1>0, <1>1, <1>4, <2>1
  <2>2. ASSUME NEW e \in ToSet(g(i).inputs), f = <<g(i).id, e>>
        PROVE  f[1] # None /\ Above(d, f[1], f[2])
    BY <1>0, <1>1, <1>4, <2>2
  <2> QED BY <1>6, <2>1, <2>2
<1> QED BY <1>7, <1>8

\* Opened in the editor, laid out or not, it is saved as it was.
LEMMA DrawableIsKept ==
  ASSUME NEW tree, Drawable(tree)
  PROVE  Saved(Flow(tree)) = tree /\ Saved(LaidOut(Flow(tree))) = tree
<1> DEFINE d == Flow(tree)
<1>1. tree # None /\ WellFormed(tree) /\ InLevels(tree)
  BY DEF Drawable
<1>2. d \in Diagram
  BY <1>1, FlowIsDiagram DEF MaybeTree
<1>3. Saved(d) = tree
  BY <1>1, TreeComesBack
<1>4. LeadsDown(d)
  BY <1>1, FlowLeadsDown
<1>5. d.nodes # <<>> /\ d.nodes[1].id = tree.top
  <2> DEFINE E == FlowEvents(tree)
             G == FlowGates(tree)
  <2>1. d.nodes = E \o G
    BY <1>1, FlowHasParts
  <2>2. E \in Seq(EventNode) /\ G \in Seq(GateNode) /\ Distinct(E) /\ Distinct(G)
    BY <1>1, FlowPartsTyped
  <2>3. /\ DOMAIN E = DOMAIN tree.events /\ \A i \in DOMAIN tree.events : E[i].id = tree.events[i].id
    BY DEF FlowEvents
  <2>4. 1 \in DOMAIN tree.events
    <3>1. tree.events \in Seq([id : Events, top : BOOLEAN]) /\ tree.events # <<>>
      BY DEF Drawable, WellFormed
    <3> QED BY <3>1, LenProperties, EmptySeq
  <2> HIDE DEF E, G
  <2>5. 1 \in DOMAIN (E \o G) /\ (E \o G)[1] = E[1]
    BY <2>2, <2>3, <2>4, NodesAreApart
  <2>6. (E \o G)[1].id = tree.top
    BY <2>3, <2>4, <2>5 DEF Drawable
  <2>7. E \o G # <<>>
    BY <2>5
  <2> HIDE DEF d
  <2> QED BY <2>1, <2>6, <2>7
<1>6. Rooted(d)
  <2>1. \A g \in ToSet(tree.gates) : g.output = tree.top \/ EventDepth(tree)[g.output] > 0
    BY DEF Drawable
  <2> HIDE DEF d
  <2> QED BY <1>1, <1>3, <1>5, <2>1 DEF Rooted
<1> HIDE DEF d
<1>7. Saved(LaidOut(d)) = Saved(d)
  BY <1>2, <1>4, <1>5, <1>6, LayoutKeepsTheTree
<1> QED BY <1>3, <1>7 DEF d

\* What is drawn again of a diagram that was saved was there before.
LEMMA SaveAddsNothing ==
  ASSUME NEW d \in Diagram
  PROVE  NodeIds(Flow(Saved(d))) \subseteq NodeIds(d)
<1> DEFINE tree == Saved(d)
<1>1. /\ WellFormed(tree) /\ EventIds(tree) = NodeIds(d) \cap Events
      /\ \A h \in ToSet(tree.gates) : \E g \in NodeIds(d) : h = SavedGate(d, g)
  BY SavedIsWellFormed
<1>2. CASE tree = None
  <2>1. Flow(None).nodes = <<>>
    BY DEF Flow
  <2>2. NodeIds(Flow(None)) = {}
    BY <2>1 DEF NodeIds
  <2> QED BY <1>2, <2>2
<1>3. CASE tree # None
  <2>1. \A g : SavedGate(d, g).id = g
    BY DEF SavedGate
  <2> HIDE DEF tree
  <2>2. NodeIds(Flow(tree)) = TreeIds(tree)
    BY <1>1, <1>3, IdsOfFlow
  <2>3. ASSUME NEW i \in DOMAIN tree.gates PROVE tree.gates[i].id \in NodeIds(d)
    <3>1. tree.gates[i] \in ToSet(tree.gates)
      BY DEF ToSet
    <3> QED BY <1>1, <2>1, <3>1
  <2> QED BY <1>1, <2>2, <2>3 DEF TreeIds, tree
<1> QED BY <1>2, <1>3

\* A diagram that is laid out is not changed by the layout.
LEMMA LaidOutOnce ==
  ASSUME NEW d \in Diagram
  PROVE  LaidOut(LaidOut(d)) = LaidOut(d)
<1> DEFINE e == LaidOut(d)
           h == Placed(d)
           k == Placed(e)
           At == NodesAt(NodeIds(d))
<1>1. e \in Diagram
  <2>1. d \in DiagramOf(NodeIds(d))
    BY DEF DiagramOf
  <2> QED BY <2>1, LaidOutIsDiagram DEF DiagramOf
<1>2. NodeIds(e) = NodeIds(d) /\ e.edges = d.edges
  BY LayoutKeepsNodes, LayoutMoves
<1>3. LayoutRoot(e) = LayoutRoot(d)
  <2> DEFINE free == NodeIds(d) \ Entered(d)
             s == NodesOf(d, free)
             t == NodesOf(e, free)
  <2>1. s \in Seq(At) /\ t = Mapped(s, h)
    BY LayoutKeepsNodes
  <2>2. h \in [At -> At] /\ \A n \in At : h[n].id = n.id
    BY LayoutMoves
  <2>3. Entered(e) = Entered(d)
    BY <1>2 DEF Entered
  <2>4. /\ LayoutRoot(d) = IF s # <<>> THEN s[1].id ELSE d.nodes[1].id
        /\ LayoutRoot(e) = IF t # <<>> THEN t[1].id ELSE e.nodes[1].id
    BY <1>2, <2>3 DEF LayoutRoot
  <2>5. d.nodes \in Seq(At) /\ e.nodes = Mapped(d.nodes, h)
    BY LayoutMoves
  <2> DEFINE p == d.nodes
             q == e.nodes
  <2>6. CASE s # <<>>
    <3> HIDE DEF h, At, s, t
    <3>1. 1 \in DOMAIN s /\ s[1] \in At
      BY <2>1, <2>6, LenProperties, EmptySeq, ElementOfSeq
    <3>2. DOMAIN t = DOMAIN s /\ t[1] = h[s[1]]
      BY <2>1, <3>1 DEF Mapped
    <3>3. t # <<>>
      BY <3>1, <3>2
    <3> QED BY <2>2, <2>4, <2>6, <3>1, <3>2, <3>3
  <2>7. CASE s = <<>>
    <3> HIDE DEF h, At, s, t
    <3>1. t = <<>>
      <4>1. t \in Seq(At) /\ Len(t) = Len(s)
        BY <2>1, <2>2, MappedElements
      <4> QED BY <2>7, <4>1, EmptySeq, LenProperties
    <3>2. CASE p = <<>>
      <4>1. q \in Seq(At) /\ Len(q) = Len(p)
        BY <2>2, <2>5, MappedElements
      <4>2. q = <<>>
        BY <3>2, <4>1, EmptySeq, LenProperties
      <4> HIDE DEF p, q
      <4>3. p[1].id = q[1].id
        BY <3>2, <4>2
      <4> QED BY <2>4, <2>7, <3>1, <4>3 DEF p, q
    <3>3. CASE p # <<>>
      <4> HIDE DEF p
      <4>1. 1 \in DOMAIN p /\ p[1] \in At
        BY <2>5, <3>3, LenProperties, EmptySeq, ElementOfSeq DEF p
      <4>2. q[1] = h[p[1]]
        BY <2>5, <4>1 DEF Mapped, p
      <4>3. q[1].id = p[1].id
        BY <2>2, <4>1, <4>2
      <4> QED BY <2>4, <2>7, <3>1, <4>3 DEF p
    <3> QED BY <3>2, <3>3
  <2> QED BY <2>6, <2>7
<1>4. LayoutDepth(e) = LayoutDepth(d)
  <2>1. NextNodes(e) = NextNodes(d)
    BY <1>2 DEF NextNodes
  <2> QED BY <1>2, <1>3, <2>1 DEF LayoutDepth
<1>5. /\ h \in [At -> At] /\ d.nodes \in Seq(At) /\ e.nodes = Mapped(d.nodes, h)
      /\ k \in [At -> At] /\ e.nodes \in Seq(At)
      /\ LaidOut(e).nodes = Mapped(e.nodes, k) /\ LaidOut(e).edges = e.edges
  <2> HIDE DEF h, k, At
  <2>1. h \in [At -> At] /\ d.nodes \in Seq(At) /\ e.nodes = Mapped(d.nodes, h)
    BY LayoutMoves DEF h, At
  <2>2. /\ k \in [At -> At] /\ e.nodes \in Seq(At)
        /\ LaidOut(e).nodes = Mapped(e.nodes, k) /\ LaidOut(e).edges = e.edges
    BY <1>1, <1>2, LayoutMoves DEF k, At
  <2> QED BY <2>1, <2>2
<1>6. ASSUME NEW n \in At PROVE k[h[n]] = h[n]
  <2>1. h[n] = [n EXCEPT !.y = 2 * LayoutDepth(d)[n.id]]
    BY DEF Placed
  <2>2. h[n] \in At /\ h[n].id = n.id
    BY LayoutMoves
  <2> DEFINE m == h[n]
  <2>3. k[m] = [m EXCEPT !.y = 2 * LayoutDepth(d)[m.id]]
    <3> HIDE DEF h
    <3> QED BY <1>2, <1>4, <2>2 DEF Placed
  <2> DEFINE y == 2 * LayoutDepth(d)[n.id]
  <2>4. m = [n EXCEPT !.y = y] /\ k[m] = [m EXCEPT !.y = y]
    BY <2>1, <2>2, <2>3
  <2>5. n = [id |-> n.id, top |-> n.top, y |-> n.y]
    BY DEF NodesAt, NodeType
  <2> HIDE DEF y, m, k
  <2>6. k[m] = m
    BY <2>4, <2>5
  <2> QED BY <2>6 DEF m
<1>7. LaidOut(e).nodes = e.nodes
  <2> DEFINE s == d.nodes
             t == e.nodes
             u == LaidOut(e).nodes
  <2>1. s \in Seq(At) /\ t = Mapped(s, h) /\ u = Mapped(t, k)
    BY <1>5
  <2> HIDE DEF s, t, u, h, k, At
  <2>2. \A i \in DOMAIN s : s[i] \in At
    BY <2>1, ElementOfSeq, LenProperties
  <2>3. DOMAIN t = DOMAIN s /\ \A i \in DOMAIN s : t[i] = h[s[i]]
    BY <2>1 DEF Mapped
  <2>4. t = [i \in DOMAIN s |-> t[i]] /\ u = [i \in DOMAIN s |-> k[t[i]]]
    BY <2>1, <2>3 DEF Mapped
  <2>5. \A i \in DOMAIN s : k[t[i]] = t[i]
    BY <1>6, <2>2, <2>3
  <2> HIDE DEF Mapped
  <2>6. u = t
    BY <2>4, <2>5
  <2> QED BY <2>6 DEF t, u
<1>8. LaidOut(e) \in Diagram
  <2>1. e \in DiagramOf(NodeIds(e))
    BY <1>1 DEF DiagramOf
  <2> QED BY <2>1, LaidOutIsDiagram DEF DiagramOf
<1>9. e = [nodes |-> e.nodes, edges |-> e.edges]
      /\ LaidOut(e) = [nodes |-> LaidOut(e).nodes, edges |-> LaidOut(e).edges]
  <2> HIDE DEF e
  <2> QED BY <1>1, <1>8, DiagramFields
<1> QED BY <1>5, <1>7, <1>9

-----------------------------------------------------------------------------
(* Types                                                                   *)

\* Ids that were used are never used again, whichever diagram is gone back to.
EditorTypeOK ==
  /\ MaybeTree(server) /\ MaybeTree(cache) /\ MaybeTree(fetch)
  /\ save = [state |-> save.state, tree |-> save.tree] /\ MaybeTree(save.tree)
  /\ shown \in DiagramOf(used) /\ Flow(cache) \in DiagramOf(used)
  /\ past \in Seq(DiagramOf(used)) /\ future \in Seq(DiagramOf(used))
  /\ dirty \in BOOLEAN /\ strayed \in BOOLEAN

LEMMA TypeInit == Init => EditorTypeOK
<1> SUFFICES ASSUME Init PROVE EditorTypeOK
  OBVIOUS
<1>1. MaybeTree(server)
  BY EditorAssumption DEF Init, MaybeTree
<1>2. Flow(server) \in DiagramOf(used)
  <2>1. Flow(server) \in Diagram /\ used = NodeIds(Flow(server))
    BY <1>1, FlowIsDiagram DEF Init
  <2> QED BY <2>1 DEF DiagramOf
<1>3. MaybeTree(None)
  BY DEF MaybeTree
<1>4. <<>> \in Seq(DiagramOf(used))
  BY EmptySeq
<1> QED BY <1>1, <1>2, <1>3, <1>4 DEF Init, Idle, EditorTypeOK

LEMMA PushedIsHistory ==
  ASSUME NEW D, NEW h \in Seq(D), NEW d \in D
  PROVE  Pushed(h, d) \in Seq(D)
<1> DEFINE kept == IF Len(h) > MaxPast THEN SubSeq(h, Len(h) - MaxPast + 1, Len(h)) ELSE h
<1>1. Len(h) \in Nat /\ MaxPast \in Nat /\ \A i \in 1..Len(h) : h[i] \in D
  BY LenProperties, ElementOfSeq, EditorAssumption
<1>2. kept \in Seq(D)
  <2>1. CASE Len(h) > MaxPast
    <3>1. \A i \in (Len(h) - MaxPast + 1)..Len(h) : h[i] \in D
      BY <1>1, <2>1
    <3>2. Len(h) - MaxPast + 1 \in Int /\ Len(h) \in Int
      BY <1>1
    <3>3. SubSeq(h, Len(h) - MaxPast + 1, Len(h)) \in Seq(D)
      BY <3>1, <3>2, SubSeqProperties
    <3> QED BY <2>1, <3>3
  <2> QED BY <2>1
<1>3. Pushed(h, d) = Append(kept, d)
  BY DEF Pushed
<1> HIDE DEF kept
<1> QED BY <1>2, <1>3, AppendProperties

\* A history that is not empty ends with a diagram, before which is a history.
LEMMA HistoryEnds ==
  ASSUME NEW D, NEW h \in Seq(D), h # <<>>
  PROVE  Last(h) \in D /\ Front(h) \in Seq(D)
<1>1. Len(h) \in Nat /\ Len(h) # 0 /\ \A i \in 1..Len(h) : h[i] \in D
  BY LenProperties, ElementOfSeq, EmptySeq
<1>2. \A i \in 1..(Len(h) - 1) : h[i] \in D
  BY <1>1
<1>3. SubSeq(h, 1, Len(h) - 1) \in Seq(D)
  BY <1>1, <1>2, SubSeqProperties
<1> QED BY <1>1, <1>3 DEF Last, Front

\* With more ids used, what was a diagram of them still is.
LEMMA MoreUsed ==
  ASSUME NEW ids, NEW more, ids \subseteq more
  PROVE  /\ DiagramOf(ids) \subseteq DiagramOf(more)
         /\ \A h \in Seq(DiagramOf(ids)) : h \in Seq(DiagramOf(more))
<1> DEFINE D == DiagramOf(ids)
           M == DiagramOf(more)
<1>1. D \subseteq M
  BY DEF DiagramOf
<1> HIDE DEF D, M
<1>2. \A h \in Seq(D) : h \in Seq(M)
  BY <1>1, SeqMonotonic
<1> QED BY <1>1, <1>2 DEF D, M

LEMMA LoadedKeepsTypes ==
  ASSUME EditorTypeOK, NEW tree, MaybeTree(tree), Loaded(tree)
  PROVE  /\ MaybeTree(cache')
         /\ shown' \in DiagramOf(used') /\ Flow(cache') \in DiagramOf(used')
         /\ past' \in Seq(DiagramOf(used')) /\ future' \in Seq(DiagramOf(used'))
         /\ dirty' \in BOOLEAN /\ strayed' \in BOOLEAN
<1>1. CASE tree = cache
  BY <1>1 DEF EditorTypeOK, Loaded, editorVars
<1>2. CASE tree # cache
  <2>1. /\ cache' = tree /\ shown' = Flow(tree) /\ UNCHANGED <<past, future>>
        /\ used' = used \cup NodeIds(Flow(tree)) /\ dirty' = FALSE /\ strayed' = FALSE
    BY <1>2 DEF Loaded
  <2>2. Flow(tree) \in DiagramOf(used')
    <3>1. Flow(tree) \in Diagram
      BY FlowIsDiagram
    <3> QED BY <2>1, <3>1 DEF DiagramOf
  <2>3. past' \in Seq(DiagramOf(used')) /\ future' \in Seq(DiagramOf(used'))
    <3>1. used \subseteq used'
      BY <2>1
    <3>2. past \in Seq(DiagramOf(used)) /\ future \in Seq(DiagramOf(used))
      BY DEF EditorTypeOK
    <3> QED BY <2>1, <3>1, <3>2, MoreUsed
  <2> QED BY <2>1, <2>2, <2>3
<1> QED BY <1>1, <1>2

LEMMA EditsKeepTypes ==
  ASSUME EditorTypeOK, NEW pushes, NEW d \in DiagramOf(used'), used \subseteq used',
         Edits(pushes, d)
  PROVE  EditorTypeOK'
<1> DEFINE D == DiagramOf(used')
<1>1. shown \in D /\ past \in Seq(D) /\ Flow(cache) \in D
  <2>1. shown \in DiagramOf(used) /\ past \in Seq(DiagramOf(used)) /\ Flow(cache) \in DiagramOf(used)
    BY DEF EditorTypeOK
  <2> QED BY <2>1, MoreUsed
<1>2. Edits(pushes, d) /\ d \in D
  OBVIOUS
<1> HIDE DEF D
<1>3. Pushed(past, shown) \in Seq(D)
  BY <1>1, PushedIsHistory
<1>4. Pushed(Pushed(past, shown), shown) \in Seq(D)
  BY <1>1, <1>3, PushedIsHistory
<1>5. shown' \in D /\ past' \in Seq(D)
  BY <1>2, <1>3, <1>4 DEF Edits
<1>6. future' \in Seq(D)
  BY <1>2, EmptySeq DEF Edits
<1>7. dirty' \in BOOLEAN /\ strayed' \in BOOLEAN
  BY <1>2 DEF EditorTypeOK, Edits
<1>8. UNCHANGED <<server, cache, fetch, save>>
  BY <1>2 DEF Edits, PageUnchanged
<1> QED BY <1>1, <1>5, <1>6, <1>7, <1>8 DEF EditorTypeOK, D

LEMMA TypeNext == EditorTypeOK /\ [Next]_vars => EditorTypeOK'
<1> SUFFICES ASSUME EditorTypeOK, [Next]_vars PROVE EditorTypeOK'
  OBVIOUS
<1>0. /\ shown \in DiagramOf(used) /\ shown \in Diagram /\ Heights \subseteq Nat
      /\ shown.nodes \in Seq(NodeType) /\ shown.edges \in Seq(EndsAt(NodeIds(shown)))
      /\ \A i \in DOMAIN shown.nodes : shown.nodes[i] \in NodeType
  BY EditorAssumption, DiagramFields DEF EditorTypeOK, DiagramOf
<1>1. CASE FetchServed
  BY <1>1 DEF FetchServed, EditorTypeOK, editorVars
<1>2. CASE FetchEnds
  <2>1. MaybeTree(fetch) /\ Loaded(fetch)
    BY <1>2 DEF FetchEnds, EditorTypeOK
  <2>2. MaybeTree(None)
    BY DEF MaybeTree
  <2> QED BY <1>2, <2>1, <2>2, LoadedKeepsTypes DEF FetchEnds, EditorTypeOK
<1>3. CASE FetchFails
  <2>1. MaybeTree(None)
    BY DEF MaybeTree
  <2> QED BY <1>3, <2>1 DEF FetchFails, EditorTypeOK, editorVars
<1>4. CASE Save
  <2>1. MaybeTree(Saved(shown))
    BY <1>0, SavedIsWellFormed DEF MaybeTree
  <2> QED BY <1>4, <2>1 DEF Save, EditorTypeOK
<1>5. CASE SaveServed
  BY <1>5 DEF SaveServed, EditorTypeOK, editorVars
<1>6. CASE SaveEnds
  <2>1. MaybeTree(save.tree) /\ Loaded(save.tree)
    BY <1>6 DEF SaveEnds, EditorTypeOK
  <2>2. MaybeTree(None)
    BY DEF MaybeTree
  <2> QED BY <1>6, <2>1, <2>2, LoadedKeepsTypes DEF SaveEnds, EditorTypeOK, Idle
<1>7. CASE SaveFails
  <2>1. MaybeTree(None)
    BY DEF MaybeTree
  <2> QED BY <1>7, <2>1 DEF SaveFails, EditorTypeOK, Idle
<1>8. CASE Remount
  <2>1. <<>> \in Seq(DiagramOf(used))
    BY EmptySeq
  <2> QED BY <1>8, <2>1 DEF Remount, EditorTypeOK
<1>9. CASE OthersSave
  <2>1. MaybeTree(server')
    BY <1>9, EditorAssumption DEF OthersSave, MaybeTree
  <2> QED BY <1>9, <2>1 DEF OthersSave, EditorTypeOK, editorVars
<1>10. ASSUME NEW id \in Fresh, NEW top \in BOOLEAN, NEW y \in Heights, Drop(id, top, y)
       PROVE  EditorTypeOK'
  <2> DEFINE node == [id |-> id, top |-> top, y |-> y]
             d == [shown EXCEPT !.nodes = Append(shown.nodes, node)]
  <2>1. id \in Events \cup Gates
    BY DEF Fresh
  <2>2. node \in NodeType /\ node.id = id
    BY <1>0, <2>1 DEF NodeType
  <2>3. Edits(1, d) /\ id \notin used /\ used' = used \cup {id}
    BY <1>10 DEF Drop
  <2> HIDE DEF node
  <2>4. d \in DiagramOf(used')
    BY <1>0, <2>2, <2>3, NodeAdded
  <2> HIDE DEF d
  <2> QED BY <2>3, <2>4, EditsKeepTypes
<1>11. ASSUME NEW s \in NodeIds(shown), NEW t \in NodeIds(shown), Connect(s, t)
       PROVE  EditorTypeOK'
  <2> DEFINE es == IF <<s, t>> \in ToSet(shown.edges) THEN shown.edges
                   ELSE Append(shown.edges, <<s, t>>)
  <2>1. <<s, t>> \in EndsAt(NodeIds(shown))
    <3>1. s \in Events \cup Gates /\ t \in Events \cup Gates
      BY <1>0, NodeOfDiagram
    <3>2. (s \in Events) # (t \in Events)
      BY <1>11 DEF Connect, Connectable
    <3> QED BY <3>1, <3>2 DEF EndsAt, Ends
  <2>2. es \in Seq(EndsAt(NodeIds(shown)))
    BY <1>0, <2>1, AppendProperties
  <2>3. Edits(1, [shown EXCEPT !.edges = es]) /\ used' = used
    BY <1>11 DEF Connect
  <2> HIDE DEF es
  <2>4. [shown EXCEPT !.edges = es] \in DiagramOf(used')
    BY <1>0, <2>2, <2>3, EdgesReplaced
  <2> QED BY <2>3, <2>4, EditsKeepTypes
<1>12. ASSUME NEW id \in NodeIds(shown), DeleteNode(id)
       PROVE  EditorTypeOK'
  <2> DEFINE rest == Only(shown.edges, {e \in ToSet(shown.edges) : id \notin {e[1], e[2]}})
             pushes == IF rest = shown.edges THEN 1 ELSE 2
             d == WithoutNode(shown, id)
  <2>1. Edits(pushes, d) /\ used' = used
    BY <1>12 DEF DeleteNode, WithoutNode
  <2> HIDE DEF pushes, d
  <2>2. d \in DiagramOf(used')
    BY <1>0, <2>1, NodeDeleted DEF d
  <2> QED BY <2>1, <2>2, EditsKeepTypes
<1>13. ASSUME NEW id \in NodeIds(shown), NEW top \in BOOLEAN, Apply(id, top)
       PROVE  EditorTypeOK'
  <2> DEFINE ns == [i \in DOMAIN shown.nodes |->
                      IF shown.nodes[i].id = id THEN [shown.nodes[i] EXCEPT !.top = top]
                      ELSE shown.nodes[i]]
             d == [shown EXCEPT !.nodes = ns]
  <2>1. \A i \in DOMAIN shown.nodes : ns[i] \in NodeType /\ ns[i].id = shown.nodes[i].id
    BY <1>0 DEF NodeType
  <2>2. DOMAIN ns = DOMAIN shown.nodes /\ ns = [i \in DOMAIN shown.nodes |-> ns[i]]
    OBVIOUS
  <2>3. Edits(1, d) /\ used' = used
    BY <1>13 DEF Apply
  <2> HIDE DEF ns
  <2>4. d \in DiagramOf(used')
    BY <1>0, <2>1, <2>2, <2>3, NodesReplaced
  <2> HIDE DEF d
  <2> QED BY <2>3, <2>4, EditsKeepTypes
<1>14. ASSUME NEW id \in NodeIds(shown), NEW y \in Heights, Drag(id, y)
       PROVE  EditorTypeOK'
  <2> DEFINE ns == [i \in DOMAIN shown.nodes |->
                      IF shown.nodes[i].id = id THEN [shown.nodes[i] EXCEPT !.y = y]
                      ELSE shown.nodes[i]]
             d == [shown EXCEPT !.nodes = ns]
  <2>1. \A i \in DOMAIN shown.nodes : ns[i] \in NodeType /\ ns[i].id = shown.nodes[i].id
    BY <1>0 DEF NodeType
  <2>2. DOMAIN ns = DOMAIN shown.nodes /\ ns = [i \in DOMAIN shown.nodes |-> ns[i]]
    OBVIOUS
  <2>3. shown' = d /\ used' = used
    BY <1>14 DEF Drag
  <2> HIDE DEF ns
  <2>4. d \in DiagramOf(used')
    BY <1>0, <2>1, <2>2, <2>3, NodesReplaced
  <2> HIDE DEF d
  <2> QED BY <1>14, <2>3, <2>4 DEF Drag, PageUnchanged, EditorTypeOK
<1>15. ASSUME NEW e \in ToSet(shown.edges), DeleteEdge(e)
       PROVE  EditorTypeOK'
  <2> DEFINE others == ToSet(shown.edges) \ {e}
             es == Only(shown.edges, others)
  <2>1. es \in Seq(EndsAt(NodeIds(shown)))
    <3> DEFINE all == shown.edges
               At == EndsAt(NodeIds(shown))
    <3>1. all \in Seq(At) /\ es = Only(all, others)
      BY <1>0
    <3> HIDE DEF others, all, At
    <3>2. Only(all, others) \in Seq(At \cap others)
      BY <3>1, OnlyKeeps
    <3> HIDE DEF es
    <3>3. es \in Seq(At)
      BY <3>1, <3>2, SeqMonotonic
    <3> QED BY <3>3 DEF At
  <2>2. Edits(1, [shown EXCEPT !.edges = es]) /\ used' = used
    BY <1>15 DEF DeleteEdge
  <2> HIDE DEF es
  <2>3. [shown EXCEPT !.edges = es] \in DiagramOf(used')
    BY <1>0, <2>1, <2>2, EdgesReplaced
  <2> QED BY <2>2, <2>3, EditsKeepTypes
<1>16. CASE AutoLayout
  <2> DEFINE d == IF shown.nodes = <<>> THEN shown ELSE LaidOut(shown)
  <2>1. Edits(1, d) /\ used' = used
    BY <1>16 DEF AutoLayout
  <2>2. d \in DiagramOf(used')
    BY <1>0, <2>1, LaidOutIsDiagram
  <2> HIDE DEF d
  <2> QED BY <2>1, <2>2, EditsKeepTypes
<1>17. CASE Undo
  <2> DEFINE D == DiagramOf(used)
  <2>1. past \in Seq(D) /\ future \in Seq(D) /\ shown \in D /\ past # <<>>
    BY <1>17 DEF Undo, EditorTypeOK
  <2> HIDE DEF D
  <2>2. Last(past) \in D /\ Front(past) \in Seq(D)
    BY <2>1, HistoryEnds
  <2>3. Append(future, shown) \in Seq(D)
    BY <2>1, AppendProperties
  <2> QED BY <1>17, <2>2, <2>3 DEF Undo, PageUnchanged, EditorTypeOK, D
<1>18. CASE Redo
  <2> DEFINE D == DiagramOf(used)
  <2>1. past \in Seq(D) /\ future \in Seq(D) /\ shown \in D /\ future # <<>>
    BY <1>18 DEF Redo, EditorTypeOK
  <2> HIDE DEF D
  <2>2. Last(future) \in D /\ Front(future) \in Seq(D)
    BY <2>1, HistoryEnds
  <2>3. Append(past, shown) \in Seq(D)
    BY <2>1, AppendProperties
  <2> QED BY <1>18, <2>2, <2>3 DEF Redo, PageUnchanged, EditorTypeOK, D
<1>19. CASE UNCHANGED vars
  BY <1>19 DEF vars, editorVars, EditorTypeOK
<1> QED BY <1>1, <1>2, <1>3, <1>4, <1>5, <1>6, <1>7, <1>8, <1>9, <1>10, <1>11, <1>12, <1>13,
           <1>14, <1>15, <1>16, <1>17, <1>18, <1>19 DEF Next

-----------------------------------------------------------------------------
(* Clean means saved                                                       *)

\* Whatever tree gets to the page, a diagram that matched the old tree matches it or
\* is replaced by its own.
LEMMA LoadedKeepsClean ==
  ASSUME CleanMeansSaved, NEW tree, Loaded(tree), save' = save \/ tree = save.tree
  PROVE  CleanMeansSaved'
<1>1. CASE tree = cache
  <2>1. UNCHANGED <<shown, dirty, strayed>> /\ cache' = cache
    BY <1>1 DEF Loaded, editorVars
  <2> QED BY <1>1, <2>1 DEF CleanMeansSaved
<1>2. CASE tree # cache
  BY <1>2 DEF Loaded, CleanMeansSaved
<1> QED BY <1>1, <1>2

LEMMA CleanNext == EditorTypeOK /\ CleanMeansSaved /\ [Next]_vars => CleanMeansSaved'
<1> SUFFICES ASSUME EditorTypeOK, CleanMeansSaved, [Next]_vars PROVE CleanMeansSaved'
  OBVIOUS
<1>1. ASSUME UNCHANGED <<shown, dirty, strayed, cache>>, save'.tree = save.tree
      PROVE  CleanMeansSaved'
  BY <1>1 DEF CleanMeansSaved
<1>2. ASSUME dirty' \/ strayed' PROVE CleanMeansSaved'
  BY <1>2 DEF CleanMeansSaved
<1>3. CASE FetchServed
  BY <1>1, <1>3 DEF FetchServed, editorVars
<1>4. CASE FetchEnds
  BY <1>4, LoadedKeepsClean DEF FetchEnds
<1>5. CASE FetchFails
  BY <1>1, <1>5 DEF FetchFails, editorVars
<1>6. CASE Save
  BY <1>6 DEF Save, CleanMeansSaved
<1>7. CASE SaveServed
  <2>1. save'.tree = save.tree
    BY <1>7 DEF SaveServed, EditorTypeOK
  <2> QED BY <1>1, <1>7, <2>1 DEF SaveServed, editorVars
<1>8. CASE SaveEnds
  BY <1>8, LoadedKeepsClean DEF SaveEnds
<1>9. CASE SaveFails
  BY <1>2, <1>9 DEF SaveFails
<1>10. CASE Remount
  BY <1>10 DEF Remount, CleanMeansSaved
<1>11. CASE OthersSave
  BY <1>1, <1>11 DEF OthersSave, editorVars
<1>12. ASSUME NEW pushes, NEW d, Edits(pushes, d) PROVE CleanMeansSaved'
  BY <1>2, <1>12 DEF Edits
<1>13. CASE \E id \in Fresh, top \in BOOLEAN, y \in Heights : Drop(id, top, y)
  BY <1>12, <1>13 DEF Drop
<1>14. CASE \E s, t \in NodeIds(shown) : Connect(s, t)
  BY <1>12, <1>14 DEF Connect
<1>15. ASSUME NEW id \in NodeIds(shown), DeleteNode(id) PROVE CleanMeansSaved'
  BY <1>12, <1>15 DEF DeleteNode
<1>16. ASSUME NEW id \in NodeIds(shown), NEW top \in BOOLEAN, Apply(id, top)
       PROVE  CleanMeansSaved'
  BY <1>12, <1>16 DEF Apply
<1>17. ASSUME NEW id \in NodeIds(shown), NEW y \in Heights, Drag(id, y)
       PROVE  CleanMeansSaved'
  BY <1>2, <1>17 DEF Drag
<1>18. ASSUME NEW e \in ToSet(shown.edges), DeleteEdge(e) PROVE CleanMeansSaved'
  BY <1>12, <1>18 DEF DeleteEdge
<1>19. CASE AutoLayout
  BY <1>12, <1>19 DEF AutoLayout
<1>20. CASE Undo
  BY <1>2, <1>20 DEF Undo
<1>21. CASE Redo
  BY <1>2, <1>21 DEF Redo
<1>22. CASE UNCHANGED vars
  BY <1>1, <1>22 DEF vars, editorVars
<1> QED BY <1>3, <1>4, <1>5, <1>6, <1>7, <1>8, <1>9, <1>10, <1>11, <1>13, <1>14, <1>15, <1>16,
           <1>17, <1>18, <1>19, <1>20, <1>21, <1>22 DEF Next

-----------------------------------------------------------------------------
(* Theorems                                                                *)

\* What the page, the server and the calls hold are fault trees whose gates join
\* events of their own, and what the editor shows, or may go back to, are diagrams
\* with whole heights: neither flowToFaultTree nor faultTreeToFlow, whatever was
\* dropped, dragged, connected, deleted or laid out in between, leaves them.
THEOREM EditorIsTyped == Spec => []EditorTypeOK
<1> QED BY TypeInit, TypeNext, PTL DEF Spec

\* "Saved" on the button means it, whenever reads, writes and the writes of others
\* end, until a drag, an undo or redo, or a failed save came in between.
THEOREM CleanIsSaved == Spec => []CleanMeansSaved
<1>1. Init => CleanMeansSaved
  BY DEF Init, CleanMeansSaved
<1> QED BY <1>1, TypeInit, TypeNext, CleanNext, PTL DEF Spec

\* Whatever was connected, dragged and laid out, the tree that would be saved has no
\* cycle: a gate's output was left above it, its inputs were not, and the events of a
\* diagram are finitely many.
THEOREM SavedTreesEnd == Spec => []SavedAcyclic
<1>1. EditorTypeOK => SavedAcyclic
  BY SavedIsAcyclic DEF EditorTypeOK, DiagramOf, SavedAcyclic
<1> QED BY <1>1, TypeInit, TypeNext, PTL DEF Spec

\* A stored tree whose events lie in levels is loaded and saved again as the same tree,
\* whoever stored it: no two of a diagram's nodes ever share an id, a gate is drawn
\* between its output and its inputs, and of the edges it finds its own, in their order.
THEOREM TreesComeBack == Spec => []RoundTrip
<1>1. \A tree : Levelled(tree) => InLevels(tree)
  BY DEF Levelled, InLevels
<1>2. EditorTypeOK => RoundTrip
  BY <1>1, TreeComesBack DEF EditorTypeOK, MaybeTree, RoundTrip
<1> QED BY <1>2, TypeInit, TypeNext, PTL DEF Spec

\* Laying out a tree in levels, whatever heights its nodes were dragged to before, moves
\* no event from above a gate to below it: the layout starts from the top event, finds
\* each node one row below the one that leads to it, and the tree saved is the same.
THEOREM LayoutsKeepTrees == Spec => []LayoutKeepsTree
<1>0. ASSUME NEW d \in Diagram, DrawnAsTree(d), Levelled(Saved(d))
      PROVE  LeadsDown(d) /\ Rooted(d)
  <2>1. LeadsDown(d)
    BY <1>0, DrawnLeadsDown
  <2>2. InLevels(Saved(d))
    BY <1>0 DEF Levelled, InLevels
  <2>3. \A e \in EventIds(Saved(d)) \ {Saved(d).top} : EventDepth(Saved(d))[e] > 0
    BY <1>0 DEF Levelled
  <2>4. \A g \in ToSet(Saved(d).gates) : g.output \in EventIds(Saved(d))
    <3>1. WellFormed(Saved(d))
      BY SavedIsWellFormed
    <3> QED BY <2>2, <3>1, LevelledGate DEF ToSet
  <2> QED BY <2>1, <2>2, <2>3, <2>4 DEF Rooted
<1>1. EditorTypeOK => LayoutKeepsTree
  BY <1>0, LayoutKeepsTheTree DEF EditorTypeOK, DiagramOf, LayoutKeepsTree
<1> QED BY <1>1, TypeInit, TypeNext, PTL DEF Spec
=============================================================================
