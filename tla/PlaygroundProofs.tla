--------------------------- MODULE PlaygroundProofs ---------------------------
(***************************************************************************)
(* Proofs about the conversation page, for any number of tabs, agents,     *)
(* questions and conversations: no question is lost, a conversation has one*)
(* agent, answers stand under their questions, and the spinner stops.      *)
(*                                                                         *)
(* The invariant is in five parts.  A handler changes the page of one tab, *)
(* so that each part has one lemma about such a change; what is left for a *)
(* handler is to show what its new page is made of.                        *)
(***************************************************************************)
EXTENDS Playground, TLAPS

Message == [role : {"user", "agent", "blank"}, ask : Asks]

Record == [id : Nat, agent : Agents \cup {None}, msgs : Seq(Message)]

Page == [agents : {"loading", "ready", "failed"}, agent : Agents \cup {None}, conv : Nat,
         msgs : Seq(Message), loading : BOOLEAN, history : Seq(Record),
         deletes : SUBSET [id : Nat, shown : Nat]]

AskType == [state : {"unsent", "pending", "settled", "abandoned"}, tab : Tabs \cup {None},
            conv : Nat, agent : Agents \cup {None}, chip : BOOLEAN, moved : BOOLEAN]

TypeInv ==
  /\ tab \in [Tabs -> Page]
  /\ storage \in Seq(Record)
  /\ ask \in [Asks -> AskType]
  /\ \A q \in Asks : ask[q].state # "unsent" <=> ask[q].tab \in Tabs
  /\ drawn \in Nat
  /\ dropped \in [Tabs -> SUBSET Nat]
  /\ full \in [Tabs -> BOOLEAN]

(* A history has no two records of a conversation, and no more than fit;   *)
(* localStorage holds the history of the tab that wrote it last.           *)
Distinct(h) == \A i, j \in DOMAIN h : h[i].id = h[j].id => i = j

Sound(h) == Distinct(h) /\ Len(h) <= MaxHistory

HistoryInv ==
  /\ \A t \in Tabs : Sound(tab[t].history)
  /\ Sound(storage)
  /\ \A t \in Tabs : writer = t => storage = tab[t].history

(* Wherever a conversation is named with an agent, it was given to that    *)
(* agent when its id was drawn; a page just opened names none.             *)
Names(id, a) ==
  \/ id = NoConv /\ a = None
  \/ \E q \in Asks : ask[q].state # "unsent" /\ ask[q].conv = id /\ ask[q].agent = a
  \/ \E t \in Tabs : tab[t].conv = id /\ tab[t].agent = a
  \/ \E t \in Tabs : \E x \in ToSet(tab[t].history) : x.id = id /\ x.agent = a
  \/ \E x \in ToSet(storage) : x.id = id /\ x.agent = a

IdsInv ==
  \A id \in Nat : \A a, b \in Agents \cup {None} :
    Names(id, a) /\ Names(id, b) => a = b /\ id <= drawn

(* A question that is to be kept is in the history under its conversation, *)
(* and among the messages shown when that conversation is shown: the next  *)
(* save, which replaces the record, will have it.                          *)
ToKeep(q) ==
  Asked(q) /\ ask[q].conv \notin dropped[ask[q].tab] /\ ~full[ask[q].tab]

Holds(s, id, q) ==
  /\ \E x \in ToSet(s.history) : x.id = id /\ Question(q) \in ToSet(x.msgs)
  /\ id = s.conv => Question(q) \in ToSet(s.msgs)

QuestionsInv ==
  \A q \in Asks : ToKeep(q) => Holds(tab[ask[q].tab], ask[q].conv, q)

(* Messages are of questions sent, and answers of questions that were      *)
(* answered; a question the user waits for is shown, unless the user moved.*)
Proper(a, m) ==
  /\ \A i \in DOMAIN m :
       /\ a[m[i].ask].state # "unsent"
       /\ m[i].role # "user" => a[m[i].ask].state # "pending"
       /\ m[i].role # "user" =>
            a[m[i].ask].moved \/ \E j \in 1..(i - 1) : m[j] = Question(m[i].ask)
  /\ \A i, j \in DOMAIN m :
       m[i].ask = m[j].ask /\ (m[i].role = "user" <=> m[j].role = "user") => i = j

MessagesInv ==
  /\ \A t \in Tabs : Proper(ask, tab[t].msgs)
  /\ \A t \in Tabs : \A x \in ToSet(tab[t].history) : Proper(ask, x.msgs)
  /\ \A x \in ToSet(storage) : Proper(ask, x.msgs)
  /\ \A q \in Asks : ask[q].state = "pending" /\ ~ask[q].moved =>
       Question(q) \in ToSet(tab[ask[q].tab].msgs)

PageInv ==
  TypeInv /\ HistoryInv /\ IdsInv /\ QuestionsInv /\ MessagesInv /\ SpinnerMeansWaiting

-----------------------------------------------------------------------------
(* Histories *)

LEMMA PositionInRange ==
  ASSUME NEW h \in Seq(Record), NEW id
  PROVE  /\ PositionOf(h, id) \in 1..(Len(h) + 1)
         /\ PositionOf(h, id) <= Len(h) => h[PositionOf(h, id)].id = id
         /\ PositionOf(h, id) > Len(h) => \A i \in 1..Len(h) : h[i].id # id
<1>1. DOMAIN h = 1..Len(h) /\ Len(h) \in Nat
  OBVIOUS
<1>2. CASE \E i \in DOMAIN h : h[i].id = id
  <2>1. PositionOf(h, id) \in DOMAIN h /\ h[PositionOf(h, id)].id = id
    BY <1>2 DEF PositionOf
  <2> QED
    BY <1>1, <2>1
<1>3. CASE ~\E i \in DOMAIN h : h[i].id = id
  <2>1. PositionOf(h, id) = Len(h) + 1
    BY <1>3 DEF PositionOf
  <2> QED
    BY <1>1, <1>3, <2>1
<1> QED
  BY <1>2, <1>3

(* A saved conversation is in the history; no other record was changed, and*)
(* none lost unless the history is full.                                   *)
LEMMA PutProperties ==
  ASSUME NEW h \in Seq(Record), NEW r \in Record, Sound(h)
  PROVE  /\ Put(h, r) \in Seq(Record) /\ Sound(Put(h, r))
         /\ Len(Put(h, r)) >= Len(h)
         /\ r \in ToSet(Put(h, r))
         /\ ToSet(Put(h, r)) \subseteq ToSet(h) \cup {r}
         /\ Len(Put(h, r)) # MaxHistory =>
              \A x \in ToSet(h) : x.id # r.id => x \in ToSet(Put(h, r))
<1> DEFINE p == PositionOf(h, r.id)
           n == IF p > Len(h) /\ Len(h) < MaxHistory THEN Len(h) + 1 ELSE Len(h)
           g == Put(h, r)
<1>1. /\ DOMAIN h = 1..Len(h) /\ Len(h) \in Nat /\ Len(h) <= MaxHistory
      /\ MaxHistory \in Nat \ {0}
      /\ \A i \in 1..Len(h) : h[i] \in Record
      /\ \A i, j \in 1..Len(h) : h[i].id = h[j].id => i = j
  BY ValuesAssumption DEF Sound, Distinct
<1>2. /\ p \in 1..(Len(h) + 1)
      /\ p <= Len(h) => h[p].id = r.id
      /\ p > Len(h) => \A i \in 1..Len(h) : h[i].id # r.id
  BY PositionInRange
<1>3. g = [i \in 1..n |-> IF i = 1 THEN r ELSE IF i <= p THEN h[i - 1] ELSE h[i]]
  BY DEF Put
<1> HIDE DEF p, g
<1>4. /\ Len(h) \in Int /\ MaxHistory \in Int /\ p \in Int /\ n \in Int
      /\ 0 <= Len(h) /\ Len(h) <= MaxHistory /\ 1 <= MaxHistory /\ 1 <= p /\ p <= Len(h) + 1
      /\ 1 <= n /\ Len(h) <= n /\ n <= MaxHistory /\ n <= Len(h) + 1
      /\ p <= Len(h) => n = Len(h)
      /\ p > Len(h) /\ n # MaxHistory => n = Len(h) + 1
      /\ p > Len(h) => p = Len(h) + 1
  <2>1. /\ Len(h) \in Int /\ MaxHistory \in Int
        /\ 0 <= Len(h) /\ Len(h) <= MaxHistory /\ 1 <= MaxHistory
    BY <1>1
  <2>2. p \in Int /\ 1 <= p /\ p <= Len(h) + 1
    BY <1>2, <2>1
  <2> DEFINE l == Len(h)
  <2> HIDE DEF l
  <2>3. n = IF p > l /\ l < MaxHistory THEN l + 1 ELSE l
    BY DEF l
  <2> HIDE DEF n
  <2>4. l = Len(h)
    BY DEF l
  <2> QED
    BY <2>1, <2>2, <2>3, <2>4
<1> HIDE DEF n
<1>5. \A i \in 2..n : (i <= p => i - 1 \in 1..Len(h)) /\ (i > p => i \in 1..Len(h))
  BY <1>4
<1>6. /\ 1 \in 1..n /\ g[1] = r
      /\ \A i \in 2..n : i \in 1..n /\ (i <= p => g[i] = h[i - 1]) /\ (i > p => g[i] = h[i])
      /\ \A i \in 1..n : i = 1 \/ i \in 2..n
      /\ DOMAIN g = 1..n
  <2>1. DOMAIN g = 1..n /\ 1 \in 1..n /\ g[1] = r
    BY <1>3, <1>4
  <2>2. \A i \in 1..n : i = 1 \/ i \in 2..n
    BY <1>4
  <2>3. ASSUME NEW i \in 2..n
        PROVE  i \in 1..n /\ (i <= p => g[i] = h[i - 1]) /\ (i > p => g[i] = h[i])
    <3>1. i \in 1..n /\ i # 1 /\ ~(i > p /\ i <= p)
      BY <1>4
    <3> QED
      BY <1>3, <3>1
  <2> QED
    BY <2>1, <2>2, <2>3
<1>7. \A i \in 2..n : \E j \in 1..Len(h) : g[i] = h[j] /\ j # p
  <2> SUFFICES ASSUME NEW i \in 2..n
               PROVE  \E j \in 1..Len(h) : g[i] = h[j] /\ j # p
    OBVIOUS
  <2>1. CASE i <= p
    <3>1. i - 1 \in 1..Len(h) /\ i - 1 # p /\ g[i] = h[i - 1]
      BY <1>4, <1>5, <1>6, <2>1
    <3> QED
      BY <3>1
  <2>2. CASE i > p
    <3>1. i \in 1..Len(h) /\ i # p /\ g[i] = h[i]
      BY <1>4, <1>5, <1>6, <2>2
    <3> QED
      BY <3>1
  <2> QED
    BY <1>4, <2>1, <2>2
<1>8. g \in Seq(Record) /\ Len(g) = n
  <2>1. g = [i \in 1..n |-> g[i]]
    BY <1>3
  <2>2. \A i \in 1..n : g[i] \in Record
    BY <1>1, <1>6, <1>7
  <2> QED
    BY <1>4, <2>1, <2>2
<1>9. ToSet(g) \subseteq ToSet(h) \cup {r} /\ r \in ToSet(g)
  BY <1>1, <1>6, <1>7 DEF ToSet
<1>10. \A i \in 2..n : g[i].id # r.id
  <2> SUFFICES ASSUME NEW i \in 2..n
               PROVE  g[i].id # r.id
    OBVIOUS
  <2>1. PICK j \in 1..Len(h) : g[i] = h[j] /\ j # p
    BY <1>7
  <2>2. CASE p <= Len(h)
    <3>1. p \in 1..Len(h)
      BY <1>4, <2>2
    <3> QED
      BY <1>1, <1>2, <2>1, <2>2, <3>1
  <2>3. CASE p > Len(h)
    BY <1>2, <2>1, <2>3
  <2> QED
    BY <1>4, <2>2, <2>3
<1>11. \A i, j \in 2..n : g[i].id = g[j].id => i = j
  <2> SUFFICES ASSUME NEW i \in 2..n, NEW j \in 2..n, g[i].id = g[j].id
               PROVE  i = j
    OBVIOUS
  <2> DEFINE from(k) == IF k <= p THEN k - 1 ELSE k
  <2>1. g[i] = h[from(i)] /\ g[j] = h[from(j)] /\ from(i) \in 1..Len(h) /\ from(j) \in 1..Len(h)
    BY <1>2, <1>4, <1>5, <1>6
  <2>2. from(i) = from(j)
    BY <1>1, <2>1
  <2>3. from(i) # p /\ from(j) # p
    BY <1>2, <1>6, <1>10, <2>1
  <2> QED
    BY <1>2, <1>4, <2>2, <2>3
<1>12. Distinct(g)
  BY <1>6, <1>10, <1>11 DEF Distinct
<1>13. ASSUME n # MaxHistory, NEW x \in ToSet(h), x.id # r.id
       PROVE  x \in ToSet(g)
  <2>1. PICK i \in 1..Len(h) : x = h[i]
    BY <1>1 DEF ToSet
  <2>2. i # p
    BY <1>2, <1>13, <2>1
  <2>3. CASE i < p
    <3> DEFINE l == Len(h)
    <3> HIDE DEF l
    <3>0. l = Len(h) /\ n # MaxHistory
      BY <1>13 DEF l
    <3>1. i + 1 \in 2..n
      <4>1. i \in Int /\ 1 <= i /\ i <= l /\ l \in Int
        BY <1>4, <3>0
      <4>2. CASE p <= l
        BY <1>4, <2>3, <3>0, <4>1, <4>2
      <4>3. CASE p > l
        BY <1>4, <3>0, <4>1, <4>3
      <4> QED
        BY <1>4, <3>0, <4>1, <4>2, <4>3
    <3> QED
      BY <1>2, <1>6, <2>1, <2>3, <3>1 DEF ToSet
  <2>4. CASE i > p
    <3>1. i \in 2..n
      BY <1>4, <2>4
    <3> QED
      BY <1>2, <1>6, <2>1, <2>4, <3>1 DEF ToSet
  <2> QED
    BY <1>2, <2>2, <2>3, <2>4
<1> QED
  BY <1>4, <1>8, <1>9, <1>12, <1>13 DEF Sound, g

(* A deletion removes the record of that conversation and no other.        *)
LEMMA WithoutProperties ==
  ASSUME NEW h \in Seq(Record), NEW id \in Nat, Sound(h)
  PROVE  /\ Without(h, id) \in Seq(Record) /\ Sound(Without(h, id))
         /\ ToSet(Without(h, id)) \subseteq ToSet(h)
         /\ \A x \in ToSet(h) : x.id # id => x \in ToSet(Without(h, id))
<1> DEFINE p == PositionOf(h, id)
           n == IF p > Len(h) THEN Len(h) ELSE Len(h) - 1
           g == Without(h, id)
<1>1. /\ DOMAIN h = 1..Len(h) /\ Len(h) \in Nat /\ Len(h) <= MaxHistory
      /\ MaxHistory \in Nat
      /\ \A i \in 1..Len(h) : h[i] \in Record
      /\ \A i, j \in 1..Len(h) : h[i].id = h[j].id => i = j
  BY ValuesAssumption DEF Sound, Distinct
<1>2. p \in 1..(Len(h) + 1) /\ (p <= Len(h) => h[p].id = id)
  BY PositionInRange
<1>3. g = [i \in 1..n |-> IF i < p THEN h[i] ELSE h[i + 1]]
  BY DEF Without
<1> HIDE DEF p, g
<1>4. n \in Nat /\ n <= Len(h) /\ n <= MaxHistory
  BY <1>1, <1>2
<1>5. \A i \in 1..n : (i < p => i \in 1..Len(h)) /\ (i >= p => i + 1 \in 1..Len(h))
  BY <1>1, <1>2
<1>6. \A i \in 1..Len(h) : (i < p => i \in 1..n) /\ (i > p => i - 1 \in 1..n /\ i - 1 >= p)
  BY <1>1, <1>2
<1> HIDE DEF n
<1>7. /\ \A i \in 1..n : (i < p => g[i] = h[i]) /\ (i >= p => g[i] = h[i + 1])
      /\ DOMAIN g = 1..n
  BY <1>2, <1>3, <1>4
<1>8. \A i \in 1..n : g[i] \in Record
  BY <1>1, <1>2, <1>4, <1>5, <1>7
<1>9. g \in Seq(Record) /\ Len(g) = n
  <2>1. g = [i \in 1..n |-> g[i]]
    BY <1>3
  <2> QED
    BY <1>4, <1>8, <2>1
<1>10. ToSet(g) \subseteq ToSet(h)
  <2>1. ASSUME NEW i \in 1..n
        PROVE  \E j \in 1..Len(h) : g[i] = h[j]
    <3>1. CASE i < p
      BY <1>5, <1>7, <3>1
    <3>2. CASE i >= p
      BY <1>5, <1>7, <3>2
    <3> QED
      BY <1>2, <1>4, <3>1, <3>2
  <2> QED
    BY <1>1, <1>7, <2>1 DEF ToSet
<1>11. Distinct(g)
  <2> SUFFICES ASSUME NEW i \in 1..n, NEW j \in 1..n, g[i].id = g[j].id
               PROVE  i = j
    BY <1>7 DEF Distinct
  <2> DEFINE from(k) == IF k < p THEN k ELSE k + 1
  <2>1. g[i] = h[from(i)] /\ g[j] = h[from(j)] /\ from(i) \in 1..Len(h) /\ from(j) \in 1..Len(h)
    BY <1>2, <1>4, <1>5, <1>7
  <2>2. from(i) = from(j)
    BY <1>1, <2>1
  <2> QED
    BY <1>2, <1>4, <2>2
<1>12. ASSUME NEW x \in ToSet(h), x.id # id
       PROVE  x \in ToSet(g)
  <2>1. PICK i \in 1..Len(h) : x = h[i]
    BY <1>1 DEF ToSet
  <2>2. i # p
    BY <1>2, <1>12, <2>1
  <2>3. CASE i < p
    BY <1>2, <1>6, <1>7, <2>1, <2>3 DEF ToSet
  <2>4. CASE i > p
    <3>1. i - 1 \in 1..n /\ i - 1 >= p /\ (i - 1) + 1 = i
      BY <1>6, <2>4
    <3>2. g[i - 1] = h[i]
      BY <1>7, <3>1
    <3> QED
      BY <1>7, <2>1, <3>1, <3>2 DEF ToSet
  <2> QED
    BY <1>2, <2>2, <2>3, <2>4
<1> QED
  BY <1>4, <1>9, <1>10, <1>11, <1>12 DEF Sound, g

LEMMA PersistProperties ==
  ASSUME NEW s \in Page, Sound(s.history)
  PROVE  /\ Persist(s) \in Page /\ Sound(Persist(s).history)
         /\ Persist(s).conv = s.conv /\ Persist(s).agent = s.agent
         /\ Persist(s).msgs = s.msgs /\ Persist(s).loading = s.loading
         /\ Len(Persist(s).history) >= Len(s.history)
         /\ Savable(s) => Current(s) \in ToSet(Persist(s).history)
         /\ ~Savable(s) => Persist(s).history = s.history
         /\ ToSet(Persist(s).history) \subseteq ToSet(s.history) \cup {Current(s)}
<1>1. s.history \in Seq(Record) /\ Current(s) \in Record /\ Len(s.history) \in Nat
  BY DEF Page, Record, Current
<1>2. CASE Savable(s)
  <2> DEFINE h == Put(s.history, Current(s))
  <2>1. /\ h \in Seq(Record) /\ Sound(h) /\ Len(h) >= Len(s.history)
        /\ Current(s) \in ToSet(h) /\ ToSet(h) \subseteq ToSet(s.history) \cup {Current(s)}
    BY <1>1, PutProperties
  <2> HIDE DEF h
  <2>2. Persist(s) = [s EXCEPT !.history = h]
    BY <1>2 DEF Persist, h
  <2> QED
    BY <1>2, <2>1, <2>2 DEF Page
<1>3. CASE ~Savable(s)
  BY <1>1, <1>3 DEF Persist
<1> QED
  BY <1>2, <1>3

LEMMA PersistHolds ==
  ASSUME NEW s \in Page, Sound(s.history), NEW id, NEW q, Holds(s, id, q),
         Len(Persist(s).history) # MaxHistory
  PROVE  Holds(Persist(s), id, q)
<1>1. s.history \in Seq(Record) /\ Current(s) \in Record
  BY DEF Page, Record, Current
<1>2. CASE Savable(s)
  <2> DEFINE h == Put(s.history, Current(s))
  <2>1. Persist(s).history = h
    BY <1>2 DEF Persist, Page
  <2>2. Current(s) \in ToSet(h) /\ \A x \in ToSet(s.history) : x.id # s.conv => x \in ToSet(h)
    BY <1>1, <2>1, PutProperties DEF Current
  <2> HIDE DEF h
  <2>3. PICK x \in ToSet(s.history) : x.id = id /\ Question(q) \in ToSet(x.msgs)
    BY DEF Holds
  <2>4. CASE id = s.conv
    <3>1. Current(s).id = id /\ Question(q) \in ToSet(Current(s).msgs)
      BY <2>4 DEF Current, Holds
    <3> QED
      BY <2>1, <2>2, <3>1, PersistProperties DEF Holds
  <2>5. CASE id # s.conv
    BY <2>1, <2>2, <2>3, <2>5, PersistProperties DEF Holds
  <2> QED
    BY <2>4, <2>5
<1>3. CASE ~Savable(s)
  BY <1>3 DEF Persist
<1> QED
  BY <1>2, <1>3

-----------------------------------------------------------------------------
(* Questions and answers *)

(* Questions go from unsent to pending and on, and the user only moves on. *)
Grows(a, b) ==
  \A q \in Asks :
    /\ a[q].state # "unsent" => b[q].state # "unsent"
    /\ a[q].state \notin {"unsent", "pending"} => b[q].state # "pending"
    /\ a[q].state # "unsent" /\ a[q].moved => b[q].moved

LEMMA ProperGrows ==
  ASSUME NEW a, NEW b, Grows(a, b), NEW m \in Seq(Message), Proper(a, m)
  PROVE  Proper(b, m)
<1>1. ASSUME NEW i \in DOMAIN m
      PROVE  /\ b[m[i].ask].state # "unsent"
             /\ m[i].role # "user" => b[m[i].ask].state # "pending"
             /\ m[i].role # "user" =>
                  b[m[i].ask].moved \/ \E j \in 1..(i - 1) : m[j] = Question(m[i].ask)
  <2>1. m[i].ask \in Asks
    <3>1. m[i] \in Message
      OBVIOUS
    <3> QED
      BY <3>1 DEF Message
  <2>2. /\ a[m[i].ask].state # "unsent"
        /\ m[i].role # "user" => a[m[i].ask].state # "pending"
        /\ m[i].role # "user" =>
             a[m[i].ask].moved \/ \E j \in 1..(i - 1) : m[j] = Question(m[i].ask)
    BY DEF Proper
  <2> QED
    BY <2>1, <2>2 DEF Grows
<1>2. \A i, j \in DOMAIN m :
        m[i].ask = m[j].ask /\ (m[i].role = "user" <=> m[j].role = "user") => i = j
  BY DEF Proper
<1> QED
  BY <1>1, <1>2 DEF Proper

LEMMA QuestionAppended ==
  ASSUME NEW q \in Asks, NEW m \in Seq(Message), Proper(ask, m), Grows(ask, ask'),
         ask[q].state = "unsent", ask'[q].state = "pending"
  PROVE  /\ Append(m, Question(q)) \in Seq(Message)
         /\ Proper(ask', Append(m, Question(q)))
         /\ ToSet(Append(m, Question(q))) = ToSet(m) \cup {Question(q)}
<1> DEFINE c == Append(m, Question(q))
<1>1. Question(q) \in Message /\ Question(q).role = "user" /\ Question(q).ask = q
  BY DEF Question, Message
<1>2. /\ c \in Seq(Message) /\ DOMAIN c = 1..(Len(m) + 1) /\ DOMAIN m = 1..Len(m)
      /\ \A i \in 1..Len(m) : c[i] = m[i]
      /\ c[Len(m) + 1] = Question(q)
      /\ Len(m) \in Nat
  BY <1>1
<1>3. ToSet(c) = ToSet(m) \cup {Question(q)}
  BY <1>2 DEF ToSet
<1> HIDE DEF c
<1>4. Proper(ask', m)
  BY ProperGrows
<1>5. \A i \in 1..Len(m) : m[i].ask # q
  BY <1>2 DEF Proper
<1>6. ASSUME NEW i \in DOMAIN c
      PROVE  /\ ask'[c[i].ask].state # "unsent"
             /\ c[i].role # "user" => ask'[c[i].ask].state # "pending"
             /\ c[i].role # "user" =>
                  ask'[c[i].ask].moved \/ \E j \in 1..(i - 1) : c[j] = Question(c[i].ask)
  <2>1. CASE i \in 1..Len(m)
    <3>1. \A j \in 1..(i - 1) : c[j] = m[j]
      BY <1>2, <2>1
    <3> QED
      BY <1>2, <1>4, <2>1, <3>1 DEF Proper
  <2>2. CASE i = Len(m) + 1
    BY <1>1, <1>2, <2>2
  <2> QED
    BY <1>2, <2>1, <2>2
<1>7. ASSUME NEW i \in DOMAIN c, NEW j \in DOMAIN c,
             c[i].ask = c[j].ask, c[i].role = "user" <=> c[j].role = "user"
      PROVE  i = j
  <2>1. CASE i \in 1..Len(m) /\ j \in 1..Len(m)
    BY <1>2, <1>7, <2>1 DEF Proper
  <2>2. CASE i = Len(m) + 1 \/ j = Len(m) + 1
    BY <1>1, <1>2, <1>5, <1>7, <2>2
  <2> QED
    BY <1>2, <2>1, <2>2
<1>8. Proper(ask', c)
  BY <1>6, <1>7 DEF Proper
<1> QED
  BY <1>2, <1>3, <1>8 DEF c

(* An answer arrives: it is appended, or takes the place of an empty one,  *)
(* and no question goes.                                                   *)
LEMMA AnswerAdded ==
  ASSUME NEW q \in Asks, NEW m \in Seq(Message), Proper(ask, m), Grows(ask, ask'),
         ask[q].state = "pending", ask'[q].state = "settled",
         ask'[q].moved \/ Question(q) \in ToSet(m),
         NEW role \in {"agent", "blank"}, NEW chip \in BOOLEAN
  PROVE  LET c == Answered(m, chip, [role |-> role, ask |-> q])
         IN  /\ c \in Seq(Message) /\ c # <<>> /\ Proper(ask', c)
             /\ \A p \in Asks : Question(p) \in ToSet(m) => Question(p) \in ToSet(c)
<1> DEFINE new == [role |-> role, ask |-> q]
           l == Len(m)
           n == IF chip /\ l > 0 /\ m[l].role = "blank" THEN l ELSE l + 1
           c == Answered(m, chip, new)
<1>1. new \in Message /\ new.role # "user" /\ new.ask = q
  BY DEF Message
<1>2. \A p : Question(p).role = "user" /\ Question(p).ask = p
  BY DEF Question
<1> HIDE DEF new
<1>0. l = Len(m) /\ l \in Nat /\ DOMAIN m = 1..l
  OBVIOUS
<1> HIDE DEF l
<1>3. /\ DOMAIN m = 1..l /\ l \in Nat /\ n \in Nat /\ n >= 1 /\ n >= l /\ n <= l + 1
      /\ c \in Seq(Message) /\ DOMAIN c = 1..n /\ c[n] = new
      /\ \A i \in 1..(n - 1) : c[i] = m[i] /\ i \in 1..l
      /\ \A i \in 1..l : i \in 1..(n - 1) \/ m[i].role # "user"
  <2>1. CASE chip /\ l > 0 /\ m[l].role = "blank"
    <3>1. c = [m EXCEPT ![l] = new] /\ n = l
      BY <2>1 DEF Answered, l
    <3>2. l \in 1..l
      BY <1>0, <2>1
    <3>3. \A i \in 1..l : i \in 1..(l - 1) \/ i = l
      BY <1>0
    <3>4. \A i \in 1..(l - 1) : i \in 1..l /\ i # l
      BY <1>0
    <3> HIDE DEF n, c
    <3> QED
      BY <1>1, <1>0, <2>1, <3>1, <3>2, <3>3, <3>4
  <2>2. CASE ~(chip /\ l > 0 /\ m[l].role = "blank")
    <3>1. c = Append(m, new) /\ n = l + 1
      BY <2>2 DEF Answered, l
    <3> HIDE DEF n, c
    <3> QED
      BY <1>1, <1>0, <3>1
  <2> QED
    BY <2>1, <2>2
<1> HIDE DEF n, c
<1>4. Proper(ask', m)
  BY ProperGrows
<1>5. \A i \in 1..l : m[i].ask = q => m[i].role = "user"
  BY <1>3 DEF Proper
<1>6. ASSUME NEW p \in Asks, Question(p) \in ToSet(m)
      PROVE  \E j \in 1..(n - 1) : c[j] = Question(p)
  <2>1. PICK j \in 1..l : m[j] = Question(p)
    BY <1>3, <1>6 DEF ToSet
  <2> QED
    BY <1>2, <1>3, <2>1
<1>7. ASSUME NEW i \in 1..n
      PROVE  i \in 1..(n - 1) \/ i = n
  BY <1>3
<1>8. ASSUME NEW i \in DOMAIN c
      PROVE  /\ ask'[c[i].ask].state # "unsent"
             /\ c[i].role # "user" => ask'[c[i].ask].state # "pending"
             /\ c[i].role # "user" =>
                  ask'[c[i].ask].moved \/ \E j \in 1..(i - 1) : c[j] = Question(c[i].ask)
  <2>1. CASE i \in 1..(n - 1)
    <3>1. \A j \in 1..(i - 1) : c[j] = m[j]
      BY <1>3, <2>1
    <3>2. i \in DOMAIN m /\ c[i] = m[i]
      BY <1>3, <2>1
    <3> QED
      BY <1>4, <3>1, <3>2 DEF Proper
  <2>2. CASE i = n
    BY <1>1, <1>3, <1>6, <2>2
  <2> QED
    BY <1>3, <1>7, <2>1, <2>2
<1>9. ASSUME NEW i \in DOMAIN c, NEW j \in DOMAIN c,
             c[i].ask = c[j].ask, c[i].role = "user" <=> c[j].role = "user"
      PROVE  i = j
  <2>1. CASE i \in 1..(n - 1) /\ j \in 1..(n - 1)
    BY <1>3, <1>9, <2>1 DEF Proper
  <2>2. CASE i = n \/ j = n
    BY <1>1, <1>3, <1>5, <1>7, <1>9, <2>2
  <2> QED
    BY <1>3, <1>7, <2>1, <2>2
<1>10. Proper(ask', c)
  BY <1>8, <1>9 DEF Proper
<1>11. \A p \in Asks : Question(p) \in ToSet(m) => Question(p) \in ToSet(c)
  <2>1. \A j \in 1..(n - 1) : j \in DOMAIN c
    BY <1>3
  <2> QED
    BY <1>6, <2>1 DEF ToSet
<1>12. c # <<>>
  BY <1>3
<1> QED
  BY <1>3, <1>10, <1>11, <1>12 DEF c, new

-----------------------------------------------------------------------------
(* A step that gives tab t the page s: one lemma for each part of PageInv. *)

Shown(t, s) ==
  /\ tab' = [tab EXCEPT ![t] = s]
  /\ \/ storage' = s.history /\ writer' = t
     \/ storage' = storage /\ writer' = None
     \/ storage' = storage /\ writer' = writer /\ s.history = tab[t].history
  /\ full' \in [Tabs -> BOOLEAN] /\ dropped' \in [Tabs -> SUBSET Nat]
  /\ \A u \in Tabs : u # t => full'[u] = full[u] /\ dropped'[u] = dropped[u]

LEMMA KeepShows ==
  ASSUME TypeInv, NEW t \in Tabs, NEW s \in Page, NEW saves \in BOOLEAN, Keep(t, s, saves),
         saves = FALSE => s.history = tab[t].history,
         dropped' = dropped \/ \E id \in Nat : dropped' = [dropped EXCEPT ![t] = @ \cup {id}]
  PROVE  /\ Shown(t, s)
         /\ full'[t] = FALSE => full[t] = FALSE /\ Len(s.history) # MaxHistory
<1>1. /\ tab' = [tab EXCEPT ![t] = s]
      /\ full' = [full EXCEPT ![t] = @ \/ Len(s.history) = MaxHistory]
      /\ saves = TRUE => Store(t, s.history)
      /\ saves = FALSE => UNCHANGED <<storage, writer, upsets>>
  BY DEF Keep
<1>2. \/ storage' = s.history /\ writer' = t
      \/ storage' = storage /\ writer' = None
      \/ storage' = storage /\ writer' = writer /\ s.history = tab[t].history
  BY <1>1 DEF Store
<1>3. full \in [Tabs -> BOOLEAN] /\ dropped \in [Tabs -> SUBSET Nat]
  BY DEF TypeInv
<1>4. /\ full' \in [Tabs -> BOOLEAN]
      /\ \A u \in Tabs : u # t => full'[u] = full[u]
      /\ full'[t] = (full[t] \/ Len(s.history) = MaxHistory)
  BY <1>1, <1>3
<1>5. /\ dropped' \in [Tabs -> SUBSET Nat]
      /\ \A u \in Tabs : u # t => dropped'[u] = dropped[u]
  BY <1>3
<1>6. full[t] \in BOOLEAN
  BY <1>3
<1> QED
  BY <1>1, <1>2, <1>4, <1>5, <1>6 DEF Shown

LEMMA ShownType ==
  ASSUME TypeInv, NEW t \in Tabs, NEW s \in Page, Shown(t, s), drawn' \in Nat,
         ask' \in [Asks -> AskType],
         \A q \in Asks : ask'[q].state # "unsent" <=> ask'[q].tab \in Tabs
  PROVE  TypeInv'
<1>1. tab' \in [Tabs -> Page]
  BY DEF TypeInv, Shown
<1>2. s.history \in Seq(Record)
  BY DEF Page
<1>3. storage' \in Seq(Record)
  BY <1>2 DEF TypeInv, Shown
<1> QED
  BY <1>1, <1>3 DEF TypeInv, Shown

LEMMA ShownHistory ==
  ASSUME TypeInv, HistoryInv, NEW t \in Tabs, NEW s \in Page, Shown(t, s), Sound(s.history)
  PROVE  HistoryInv'
<1>1. /\ tab'[t] = s /\ \A u \in Tabs : u # t => tab'[u] = tab[u]
      /\ None \notin Tabs
  BY ValuesAssumption DEF TypeInv, Shown
<1> QED
  BY <1>1 DEF HistoryInv, Shown

LEMMA ShownIds ==
  ASSUME TypeInv, IdsInv, NEW t \in Tabs, NEW s \in Page, Shown(t, s),
         \/ drawn' = drawn /\ Names(s.conv, s.agent)
         \/ drawn' = drawn + 1 /\ s.conv = drawn + 1,
         \A x \in ToSet(s.history) : Names(x.id, x.agent),
         \A q \in Asks : ask'[q].state # "unsent" => Names(ask'[q].conv, ask'[q].agent)
  PROVE  IdsInv'
<1>1. /\ tab'[t] = s /\ \A u \in Tabs : u # t => tab'[u] = tab[u]
      /\ storage' = storage \/ storage' = s.history
  BY DEF TypeInv, Shown
<1>2. ASSUME NEW id, NEW a, Names(id, a)'
      PROVE  Names(id, a) \/ (drawn' = drawn + 1 /\ id = drawn + 1 /\ a = s.agent)
  <2>1. CASE \E q \in Asks : ask'[q].state # "unsent" /\ ask'[q].conv = id /\ ask'[q].agent = a
    BY <2>1
  <2>2. CASE \E u \in Tabs : tab'[u].conv = id /\ tab'[u].agent = a
    BY <1>1, <2>2 DEF Names
  <2>3. CASE \E u \in Tabs : \E x \in ToSet(tab'[u].history) : x.id = id /\ x.agent = a
    BY <1>1, <2>3 DEF Names
  <2>4. CASE \E x \in ToSet(storage') : x.id = id /\ x.agent = a
    BY <1>1, <2>4 DEF Names
  <2>5. CASE id = NoConv /\ a = None
    BY <2>5 DEF Names
  <2> QED
    BY <1>2, <2>1, <2>2, <2>3, <2>4, <2>5 DEF Names
<1>3. drawn \in Nat /\ (drawn' = drawn \/ drawn' = drawn + 1)
  BY DEF TypeInv
<1>4. ASSUME NEW id \in Nat, NEW a \in Agents \cup {None}, NEW b \in Agents \cup {None},
             Names(id, a)', Names(id, b)'
      PROVE  a = b /\ id <= drawn'
  <2>1. Names(id, a) \/ (drawn' = drawn + 1 /\ id = drawn + 1 /\ a = s.agent)
    BY <1>2, <1>4
  <2>2. Names(id, b) \/ (drawn' = drawn + 1 /\ id = drawn + 1 /\ b = s.agent)
    BY <1>2, <1>4
  <2>3. Names(id, a) => id <= drawn
    BY DEF IdsInv
  <2>4. Names(id, b) => id <= drawn
    BY DEF IdsInv
  <2>5. Names(id, a) /\ Names(id, b) => a = b
    BY DEF IdsInv
  <2> QED
    BY <1>3, <2>1, <2>2, <2>3, <2>4, <2>5
<1> QED
  BY <1>4 DEF IdsInv

LEMMA ShownQuestions ==
  ASSUME TypeInv, QuestionsInv, NEW t \in Tabs, NEW s \in Page, Shown(t, s),
         \A q \in Asks : ask'[q].state \in {"pending", "settled"} /\ ask'[q].tab # t =>
           Asked(q) /\ ask[q].tab \in Tabs /\ ask'[q].tab = ask[q].tab /\ ask'[q].conv = ask[q].conv,
         \A q \in Asks :
           /\ ask'[q].state \in {"pending", "settled"} /\ ask'[q].tab = t
           /\ ask'[q].conv \notin dropped'[t] /\ ~full'[t]
           => Holds(s, ask'[q].conv, q)
  PROVE  QuestionsInv'
<1>1. tab'[t] = s /\ \A u \in Tabs : u # t => tab'[u] = tab[u]
  BY DEF TypeInv, Shown
<1>2. ASSUME NEW q \in Asks, ToKeep(q)'
      PROVE  Holds(tab'[ask'[q].tab], ask'[q].conv, q)
  <2>1. /\ ask'[q].state \in {"pending", "settled"}
        /\ ask'[q].conv \notin dropped'[ask'[q].tab] /\ ~full'[ask'[q].tab]
    BY <1>2 DEF ToKeep, Asked
  <2>2. CASE ask'[q].tab = t
    BY <1>1, <2>1, <2>2
  <2>3. CASE ask'[q].tab # t
    <3>1. /\ Asked(q) /\ ask'[q].tab = ask[q].tab /\ ask'[q].conv = ask[q].conv
          /\ ask[q].tab \in Tabs /\ ask[q].tab # t
      BY <2>1, <2>3
    <3>2. ToKeep(q)
      BY <2>1, <3>1 DEF ToKeep, Shown
    <3> QED
      BY <1>1, <3>1, <3>2 DEF QuestionsInv
  <2> QED
    BY <2>2, <2>3
<1> QED
  BY <1>2 DEF QuestionsInv, Holds, Question

LEMMA ShownMessages ==
  ASSUME TypeInv, MessagesInv, NEW t \in Tabs, NEW s \in Page, Shown(t, s), Grows(ask, ask'),
         Proper(ask', s.msgs), \A x \in ToSet(s.history) : Proper(ask', x.msgs),
         \A q \in Asks : ask'[q].state = "pending" /\ ~ask'[q].moved =>
           IF ask'[q].tab = t THEN Question(q) \in ToSet(s.msgs)
           ELSE /\ ask[q].state = "pending" /\ ~ask[q].moved
                /\ ask[q].tab = ask'[q].tab /\ ask[q].tab \in Tabs
  PROVE  MessagesInv'
<1>1. /\ tab'[t] = s /\ \A u \in Tabs : u # t => tab'[u] = tab[u]
      /\ storage' = storage \/ storage' = s.history
  BY DEF TypeInv, Shown
<1>2. \A x \in Record : x.msgs \in Seq(Message)
  BY DEF Record
<1>3. \A u \in Tabs : tab[u].msgs \in Seq(Message) /\ tab[u].history \in Seq(Record)
  BY DEF TypeInv, Page
<1>4. \A h \in Seq(Record) : ToSet(h) \subseteq Record
  BY DEF ToSet
<1>5. \A u \in Tabs : Proper(ask', tab'[u].msgs)
  <2> SUFFICES ASSUME NEW u \in Tabs, u # t
               PROVE  Proper(ask', tab[u].msgs)
    BY <1>1
  <2> QED
    BY <1>3, ProperGrows DEF MessagesInv
<1>6. \A u \in Tabs : \A x \in ToSet(tab'[u].history) : Proper(ask', x.msgs)
  <2> SUFFICES ASSUME NEW u \in Tabs, u # t, NEW x \in ToSet(tab[u].history)
               PROVE  Proper(ask', x.msgs)
    BY <1>1
  <2>1. x.msgs \in Seq(Message) /\ Proper(ask, x.msgs)
    BY <1>2, <1>3, <1>4 DEF MessagesInv
  <2> QED
    BY <2>1, ProperGrows
<1>7. \A x \in ToSet(storage') : Proper(ask', x.msgs)
  <2> SUFFICES ASSUME NEW x \in ToSet(storage)
               PROVE  Proper(ask', x.msgs)
    BY <1>1
  <2>1. x.msgs \in Seq(Message) /\ Proper(ask, x.msgs)
    BY <1>2, <1>4 DEF MessagesInv, TypeInv
  <2> QED
    BY <2>1, ProperGrows
<1>8. ASSUME NEW q \in Asks, ask'[q].state = "pending", ~ask'[q].moved
      PROVE  Question(q) \in ToSet(tab'[ask'[q].tab].msgs)
  <2>1. CASE ask'[q].tab = t
    BY <1>1, <1>8, <2>1
  <2>2. CASE ask'[q].tab # t
    BY <1>1, <1>8, <2>2 DEF MessagesInv
  <2> QED
    BY <2>1, <2>2
<1> QED
  BY <1>5, <1>6, <1>7, <1>8 DEF MessagesInv, Proper, Question

LEMMA ShownSpinner ==
  ASSUME TypeInv, SpinnerMeansWaiting, NEW t \in Tabs, NEW s \in Page, Shown(t, s),
         s.loading = TRUE => \E q \in Asks : ask'[q].state = "pending" /\ ask'[q].tab = t,
         \A q \in Asks : ask[q].state = "pending" /\ ask[q].tab # t =>
           ask'[q].state = "pending" /\ ask'[q].tab = ask[q].tab
  PROVE  SpinnerMeansWaiting'
<1>1. tab'[t] = s /\ \A u \in Tabs : u # t => tab'[u] = tab[u]
  BY DEF TypeInv, Shown
<1>2. s.loading \in BOOLEAN
  BY DEF Page
<1> QED
  BY <1>1, <1>2 DEF SpinnerMeansWaiting

-----------------------------------------------------------------------------
(* What the invariant says of the page of a tab, for the handlers. *)

LEMMA PageFacts ==
  ASSUME PageInv, NEW t \in Tabs
  PROVE  /\ tab[t] \in Page /\ Sound(tab[t].history)
         /\ Names(tab[t].conv, tab[t].agent)
         /\ \A x \in ToSet(tab[t].history) : Names(x.id, x.agent) /\ x \in Record /\ Proper(ask, x.msgs)
         /\ Proper(ask, tab[t].msgs) /\ tab[t].msgs \in Seq(Message)
<1>1. tab[t] \in Page
  BY DEF PageInv, TypeInv
<1>2. tab[t].history \in Seq(Record) /\ tab[t].msgs \in Seq(Message)
  BY <1>1 DEF Page
<1>3. \A x \in ToSet(tab[t].history) : x \in Record
  BY <1>2 DEF ToSet
<1>4. \A x \in ToSet(tab[t].history) : Names(x.id, x.agent)
  BY DEF Names
<1>5. Names(tab[t].conv, tab[t].agent)
  BY DEF Names
<1> QED
  BY <1>1, <1>2, <1>3, <1>4, <1>5 DEF PageInv, HistoryInv, MessagesInv

(* Ids are drawn before they are used. *)
LEMMA AskFacts ==
  ASSUME PageInv, NEW q \in Asks
  PROVE  /\ ask[q].conv \in Nat
         /\ ask[q].state # "unsent" => ask[q].conv <= drawn /\ ask[q].tab \in Tabs
                                       /\ Names(ask[q].conv, ask[q].agent)
<1>1. ask[q] \in AskType
  BY DEF PageInv, TypeInv
<1>2. ask[q].conv \in Nat /\ ask[q].agent \in Agents \cup {None}
  BY <1>1 DEF AskType
<1>3. ask[q].state # "unsent" => Names(ask[q].conv, ask[q].agent)
  BY DEF Names
<1>4. ask[q].state # "unsent" => ask[q].conv <= drawn
  BY <1>2, <1>3 DEF PageInv, IdsInv
<1> QED
  BY <1>2, <1>3, <1>4 DEF PageInv, TypeInv

(* A handler that sends no question and gets no answer: the user may have  *)
(* moved away from what was shown.                                         *)
LEMMA Navigation ==
  ASSUME PageInv, NEW t \in Tabs, NEW s \in Page, Shown(t, s), Sound(s.history),
         s.loading = tab[t].loading,
         \/ drawn' = drawn /\ Names(s.conv, s.agent)
         \/ drawn' = drawn + 1 /\ s.conv = drawn + 1,
         \A x \in ToSet(s.history) : Names(x.id, x.agent) /\ Proper(ask, x.msgs),
         Proper(ask, s.msgs),
         ask' = Moved(t) \/ (ask' = ask /\ s.msgs = tab[t].msgs),
         full'[t] = FALSE => full[t] = FALSE,
         dropped[t] \subseteq dropped'[t],
         \A q \in Asks :
           /\ Holds(tab[t], ask[q].conv, q) /\ ask[q].conv <= drawn
           /\ ask[q].conv \notin dropped'[t] /\ full'[t] = FALSE
           => Holds(s, ask[q].conv, q)
  PROVE  PageInv'
<1>1. TypeInv /\ HistoryInv /\ IdsInv /\ QuestionsInv /\ MessagesInv /\ SpinnerMeansWaiting
  BY DEF PageInv
<1>2. /\ ask \in [Asks -> AskType] /\ drawn \in Nat
      /\ full[t] \in BOOLEAN /\ full'[t] \in BOOLEAN
  BY <1>1 DEF TypeInv, Shown
<1>3. ASSUME NEW q \in Asks
      PROVE  /\ ask'[q] \in AskType
             /\ ask'[q].state = ask[q].state /\ ask'[q].tab = ask[q].tab
             /\ ask'[q].conv = ask[q].conv /\ ask'[q].agent = ask[q].agent
             /\ ask[q].moved => ask'[q].moved
             /\ ask[q].tab # t => ask'[q] = ask[q]
             /\ ask' = Moved(t) /\ ask[q].tab = t /\ ask[q].state = "pending" => ask'[q].moved
  <2>1. ask[q] \in AskType
    BY <1>2
  <2>2. CASE ask' # Moved(t)
    BY <2>1, <2>2
  <2>3. CASE ask' = Moved(t)
    <3>1. ask'[q] = IF ask[q].state = "pending" /\ ask[q].tab = t
                    THEN [ask[q] EXCEPT !.moved = TRUE] ELSE ask[q]
      BY <2>3 DEF Moved
    <3>2. CASE ask[q].state = "pending" /\ ask[q].tab = t
      BY <2>1, <3>1, <3>2 DEF AskType
    <3>3. CASE ~(ask[q].state = "pending" /\ ask[q].tab = t)
      BY <2>1, <3>1, <3>3 DEF AskType
    <3> QED
      BY <3>2, <3>3
  <2> QED
    BY <2>2, <2>3
<1>4. ask' \in [Asks -> AskType]
  <2>1. DOMAIN ask' = Asks /\ ask' = [q \in Asks |-> ask'[q]]
    BY <1>2 DEF Moved
  <2> QED
    BY <1>3, <2>1
<1>5. Grows(ask, ask')
  BY <1>3 DEF Grows
<1>6. TypeInv'
  <2>1. \A q \in Asks : ask'[q].state # "unsent" <=> ask'[q].tab \in Tabs
    BY <1>1, <1>3 DEF TypeInv
  <2>2. drawn' \in Nat
    BY <1>2
  <2> QED
    BY <1>1, <1>4, <2>1, <2>2, ShownType
<1>7. HistoryInv'
  BY <1>1, ShownHistory
<1>8. IdsInv'
  <2>1. \A q \in Asks : ask'[q].state # "unsent" => Names(ask'[q].conv, ask'[q].agent)
    BY <1>3, AskFacts
  <2> QED
    BY <1>1, <2>1, ShownIds
<1>9. QuestionsInv'
  <2>1. \A q \in Asks : ask'[q].state \in {"pending", "settled"} /\ ask'[q].tab # t =>
          Asked(q) /\ ask[q].tab \in Tabs /\ ask'[q].tab = ask[q].tab /\ ask'[q].conv = ask[q].conv
    BY <1>1, <1>3 DEF Asked, TypeInv
  <2>2. ASSUME NEW q \in Asks, ask'[q].state \in {"pending", "settled"}, ask'[q].tab = t,
               ask'[q].conv \notin dropped'[t], ~full'[t]
        PROVE  Holds(s, ask'[q].conv, q)
    <3>1. full'[t] = FALSE /\ full[t] = FALSE
      BY <1>2, <2>2
    <3>2. ToKeep(q) /\ ask[q].tab = t /\ ask[q].state # "unsent"
      BY <1>3, <2>2, <3>1 DEF ToKeep, Asked
    <3>3. Holds(tab[t], ask[q].conv, q) /\ ask[q].conv <= drawn
      BY <1>1, <3>2, AskFacts DEF QuestionsInv
    <3> QED
      BY <1>3, <2>2, <3>1, <3>3
  <2> QED
    BY <1>1, <2>1, <2>2, ShownQuestions
<1>10. MessagesInv'
  <2>1. ASSUME NEW q \in Asks, ask'[q].state = "pending", ~ask'[q].moved
        PROVE  IF ask'[q].tab = t THEN Question(q) \in ToSet(s.msgs)
               ELSE /\ ask[q].state = "pending" /\ ~ask[q].moved
                    /\ ask[q].tab = ask'[q].tab /\ ask[q].tab \in Tabs
    <3>1. ask[q].state = "pending" /\ ~ask[q].moved /\ ask[q].tab = ask'[q].tab
      BY <1>3, <2>1
    <3>2. ask[q].tab \in Tabs /\ Question(q) \in ToSet(tab[ask[q].tab].msgs)
      BY <1>1, <3>1 DEF MessagesInv, TypeInv
    <3>3. ask[q].tab = t => s.msgs = tab[t].msgs
      BY <1>3, <2>1, <3>1
    <3> QED
      BY <3>1, <3>2, <3>3
  <2>2. s.msgs \in Seq(Message) /\ \A x \in ToSet(s.history) : x.msgs \in Seq(Message)
    <3>1. s.msgs \in Seq(Message) /\ s.history \in Seq(Record)
      BY DEF Page
    <3>2. \A x \in ToSet(s.history) : x \in Record
      BY <3>1 DEF ToSet
    <3> QED
      BY <3>1, <3>2 DEF Record
  <2>3. Proper(ask', s.msgs) /\ \A x \in ToSet(s.history) : Proper(ask', x.msgs)
    BY <1>5, <2>2, ProperGrows
  <2> QED
    BY <1>1, <1>5, <2>1, <2>3, ShownMessages
<1>11. SpinnerMeansWaiting'
  <2>1. s.loading = TRUE => \E q \in Asks : ask'[q].state = "pending" /\ ask'[q].tab = t
    BY <1>1, <1>3 DEF SpinnerMeansWaiting
  <2>2. \A q \in Asks : ask[q].state = "pending" /\ ask[q].tab # t =>
          ask'[q].state = "pending" /\ ask'[q].tab = ask[q].tab
    BY <1>3
  <2> QED
    BY <1>1, <2>1, <2>2, ShownSpinner
<1> QED
  BY <1>6, <1>7, <1>8, <1>9, <1>10, <1>11 DEF PageInv

-----------------------------------------------------------------------------
(* The handlers, one lemma each. *)

LEMMA MountedPage ==
  ASSUME NEW h \in Seq(Record)
  PROVE  Mounted(h) \in Page
<1> DEFINE msgs == <<>>
           deletes == {}
<1>1. msgs \in Seq(Message) /\ deletes \in SUBSET [id : Nat, shown : Nat]
  OBVIOUS
<1>2. Mounted(h) = [agents |-> "loading", agent |-> None, conv |-> 0, msgs |-> msgs,
                    loading |-> FALSE, history |-> h, deletes |-> deletes]
  BY DEF Mounted, NoConv
<1> HIDE DEF msgs, deletes
<1> QED
  BY <1>1, <1>2 DEF Page

LEMMA InitPage == Init => PageInv
<1> SUFFICES ASSUME Init PROVE PageInv
  OBVIOUS
<1>1. /\ \A t \in Tabs : tab[t] = Mounted(<<>>)
      /\ DOMAIN tab = Tabs /\ tab = [t \in Tabs |-> tab[t]]
      /\ storage = <<>> /\ drawn = 0 /\ writer = None
      /\ dropped = [t \in Tabs |-> {}] /\ full = [t \in Tabs |-> FALSE]
      /\ ask = [q \in Asks |-> [state |-> "unsent", tab |-> None, conv |-> 0,
                                agent |-> None, chip |-> FALSE, moved |-> FALSE]]
  BY DEF Init, NoConv
<1>0. /\ Mounted(<<>>).history = <<>> /\ Mounted(<<>>).msgs = <<>>
      /\ Mounted(<<>>).conv = 0 /\ Mounted(<<>>).agent = None /\ Mounted(<<>>).loading = FALSE
  BY DEF Mounted, NoConv
<1>2. TypeInv
  <2>1. \A t \in Tabs : tab[t] \in Page
    <3>1. <<>> \in Seq(Record)
      OBVIOUS
    <3> QED
      BY <1>1, <3>1, MountedPage
  <2>2. tab \in [Tabs -> Page]
    BY <1>1, <2>1
  <2>3. ask \in [Asks -> AskType]
    BY <1>1 DEF AskType
  <2>4. storage \in Seq(Record) /\ drawn \in Nat
    BY <1>1
  <2> QED
    BY <1>1, <2>2, <2>3, <2>4, ValuesAssumption DEF TypeInv
<1>3. Sound(<<>>)
  BY ValuesAssumption DEF Sound, Distinct
<1>4. HistoryInv
  BY <1>1, <1>0, <1>3 DEF HistoryInv
<1>5. ToSet(<<>>) = {}
  BY DEF ToSet
<1>6. IdsInv
  <2>1. \A id, a : Names(id, a) => a = None /\ id = 0
    BY <1>1, <1>0, <1>5 DEF Names, NoConv
  <2> QED
    BY <1>1, <2>1 DEF IdsInv
<1>7. QuestionsInv
  BY <1>1 DEF QuestionsInv, ToKeep, Asked
<1>8. Proper(ask, <<>>)
  BY DEF Proper
<1>9. MessagesInv
  BY <1>1, <1>0, <1>5, <1>8 DEF MessagesInv
<1>10. SpinnerMeansWaiting
  BY <1>1, <1>0 DEF SpinnerMeansWaiting
<1> QED
  BY <1>2, <1>4, <1>6, <1>7, <1>9, <1>10 DEF PageInv

LEMMA AgentsArrivePage ==
  ASSUME PageInv, NEW t \in Tabs, AgentsArrive(t)
  PROVE  PageInv'
<1> DEFINE s == [tab[t] EXCEPT !.agents = "ready", !.agent = FirstAgent, !.conv = drawn']
<1>1. /\ drawn' = drawn + 1 /\ Keep(t, s, FALSE) /\ ask' = ask /\ dropped' = dropped
  BY DEF AgentsArrive, Draw
<1>2. drawn \in Nat /\ TypeInv
  BY DEF PageInv, TypeInv
<1>3. /\ s \in Page /\ s.history = tab[t].history /\ s.msgs = tab[t].msgs
      /\ s.loading = tab[t].loading /\ s.conv = drawn + 1
  <2>1. drawn' \in Nat /\ FirstAgent \in Agents /\ tab[t] \in Page
    BY <1>1, <1>2, PageFacts, ValuesAssumption
  <2> QED
    BY <1>1, <2>1 DEF Page
<1> HIDE DEF s
<1>4. Shown(t, s) /\ (full'[t] = FALSE => full[t] = FALSE)
  BY <1>1, <1>2, <1>3, KeepShows
<1>5. \A q \in Asks : Holds(tab[t], ask[q].conv, q) /\ ask[q].conv <= drawn => Holds(s, ask[q].conv, q)
  BY <1>2, <1>3, AskFacts DEF Holds
<1> QED
  BY <1>1, <1>3, <1>4, <1>5, PageFacts, Navigation

LEMMA AgentsFailPage ==
  ASSUME PageInv, NEW t \in Tabs, AgentsFail(t)
  PROVE  PageInv'
<1> DEFINE s == [tab[t] EXCEPT !.agents = "failed"]
<1>1. drawn' = drawn /\ Keep(t, s, FALSE) /\ ask' = ask /\ dropped' = dropped
  BY DEF AgentsFail
<1>2. TypeInv
  BY DEF PageInv
<1>3. /\ s \in Page /\ s.history = tab[t].history /\ s.msgs = tab[t].msgs
      /\ s.loading = tab[t].loading /\ s.conv = tab[t].conv /\ s.agent = tab[t].agent
  BY PageFacts DEF Page
<1> HIDE DEF s
<1>4. Shown(t, s) /\ (full'[t] = FALSE => full[t] = FALSE)
  BY <1>1, <1>2, <1>3, KeepShows
<1>5. \A q \in Asks : Holds(tab[t], ask[q].conv, q) => Holds(s, ask[q].conv, q)
  BY <1>3 DEF Holds
<1> QED
  BY <1>1, <1>3, <1>4, <1>5, PageFacts, Navigation

(* Saving what a sound page shows keeps it sound. *)
LEMMA SavedPage ==
  ASSUME PageInv, NEW s \in Page, Sound(s.history), Names(s.conv, s.agent), Proper(ask, s.msgs),
         \A x \in ToSet(s.history) : Names(x.id, x.agent) /\ Proper(ask, x.msgs)
  PROVE  \A x \in ToSet(Persist(s).history) : Names(x.id, x.agent) /\ Proper(ask, x.msgs)
<1>1. Names(Current(s).id, Current(s).agent) /\ Proper(ask, Current(s).msgs)
  BY DEF Current
<1> QED
  BY <1>1, PersistProperties

(* NewConversation and SelectAgent: what is shown is saved, and the page   *)
(* starts over under a new id.                                             *)
LEMMA StartOverPage ==
  ASSUME PageInv, NEW t \in Tabs, NEW s \in Page, drawn' = drawn + 1, Keep(t, s, Savable(tab[t])),
         ask' = Moved(t), dropped' = dropped,
         s.history = Persist(tab[t]).history, s.msgs = <<>>, s.conv = drawn + 1,
         s.loading = tab[t].loading
  PROVE  PageInv'
<1>1. TypeInv /\ drawn \in Nat
  BY DEF PageInv, TypeInv
<1>2. Savable(tab[t]) \in BOOLEAN /\ (Savable(tab[t]) = FALSE => s.history = tab[t].history)
  BY PageFacts, PersistProperties DEF Savable
<1>3. /\ Shown(t, s)
      /\ full'[t] = FALSE => full[t] = FALSE /\ Len(Persist(tab[t]).history) # MaxHistory
  BY <1>1, <1>2, KeepShows
<1>4. Sound(s.history) /\ \A x \in ToSet(s.history) : Names(x.id, x.agent) /\ Proper(ask, x.msgs)
  BY PageFacts, PersistProperties, SavedPage
<1>5. Proper(ask, s.msgs)
  BY DEF Proper
<1>6. ASSUME NEW q \in Asks, Holds(tab[t], ask[q].conv, q), ask[q].conv <= drawn, full'[t] = FALSE
      PROVE  Holds(s, ask[q].conv, q)
  <2>1. Holds(Persist(tab[t]), ask[q].conv, q)
    BY <1>3, <1>6, PageFacts, PersistHolds
  <2>2. ask[q].conv # s.conv
    BY <1>1, <1>6, AskFacts
  <2> QED
    BY <2>1, <2>2 DEF Holds
<1> QED
  BY <1>3, <1>4, <1>5, <1>6, Navigation

LEMMA NewConversationPage ==
  ASSUME PageInv, NEW t \in Tabs, NewConversation(t)
  PROVE  PageInv'
<1> DEFINE s == StartOver(Persist(tab[t]), drawn')
<1>1. /\ drawn' = drawn + 1 /\ Keep(t, s, Savable(tab[t])) /\ ask' = Moved(t) /\ dropped' = dropped
      /\ drawn \in Nat
  BY DEF NewConversation, Draw, PageInv, TypeInv
<1>2. Persist(tab[t]) \in Page /\ Persist(tab[t]).loading = tab[t].loading
  BY PageFacts, PersistProperties
<1>3. /\ s \in Page /\ s.history = Persist(tab[t]).history /\ s.msgs = <<>> /\ s.conv = drawn + 1
      /\ s.loading = tab[t].loading
  <2>1. drawn' \in Nat /\ <<>> \in Seq(Message)
    BY <1>1
  <2> QED
    BY <1>1, <1>2, <2>1 DEF StartOver, Page
<1> HIDE DEF s
<1> QED
  BY <1>1, <1>3, StartOverPage

LEMMA SelectAgentPage ==
  ASSUME PageInv, NEW t \in Tabs, NEW a \in Agents, SelectAgent(t, a)
  PROVE  PageInv'
<1> DEFINE s == [StartOver(Persist(tab[t]), drawn') EXCEPT !.agent = a]
<1>1. /\ drawn' = drawn + 1 /\ Keep(t, s, Savable(tab[t])) /\ ask' = Moved(t) /\ dropped' = dropped
      /\ drawn \in Nat
  BY DEF SelectAgent, Draw, PageInv, TypeInv
<1>2. Persist(tab[t]) \in Page /\ Persist(tab[t]).loading = tab[t].loading
  BY PageFacts, PersistProperties
<1>3. /\ s \in Page /\ s.history = Persist(tab[t]).history /\ s.msgs = <<>> /\ s.conv = drawn + 1
      /\ s.loading = tab[t].loading
  <2>1. drawn' \in Nat /\ <<>> \in Seq(Message)
    BY <1>1
  <2> QED
    BY <1>1, <1>2, <2>1 DEF StartOver, Page
<1> HIDE DEF s
<1> QED
  BY <1>1, <1>3, StartOverPage

(* An opened conversation shows the messages of its record, which is the   *)
(* only one of that conversation.                                          *)
LEMMA OpenPage ==
  ASSUME PageInv, NEW t \in Tabs, NEW i \in DOMAIN tab[t].history, Open(t, i)
  PROVE  PageInv'
<1> DEFINE r == tab[t].history[i]
           o == Persist(tab[t])
           s == [o EXCEPT !.conv = r.id, !.msgs = r.msgs, !.agent = r.agent]
<1>1. /\ Keep(t, AutoSave(s), TRUE) \/ Keep(t, s, TRUE)
      /\ ask' = Moved(t) /\ drawn' = drawn /\ dropped' = dropped
  BY DEF Open
<1>2. /\ o \in Page /\ Sound(o.history) /\ o.loading = tab[t].loading
      /\ \A x \in ToSet(o.history) : Names(x.id, x.agent) /\ Proper(ask, x.msgs)
      /\ tab[t] \in Page /\ Sound(tab[t].history)
  BY PageFacts, PersistProperties, SavedPage
<1>3. r \in ToSet(tab[t].history)
  BY DEF ToSet
<1>4. r \in Record /\ Names(r.id, r.agent) /\ Proper(ask, r.msgs)
  BY <1>3, PageFacts
<1>5. \A x \in ToSet(tab[t].history) : x.id = r.id => x = r
  BY <1>2 DEF Sound, Distinct, ToSet
<1> HIDE DEF r, o
<1>6. /\ s \in Page /\ s.history = o.history /\ s.loading = tab[t].loading
      /\ s.conv = r.id /\ s.agent = r.agent /\ s.msgs = r.msgs
  BY <1>2, <1>4 DEF Page, Record
<1> HIDE DEF s
<1>7. ASSUME NEW q \in Asks, Holds(tab[t], ask[q].conv, q), Len(o.history) # MaxHistory
      PROVE  Holds(s, ask[q].conv, q)
  <2>1. Holds(o, ask[q].conv, q)
    BY <1>2, <1>7, PersistHolds DEF o
  <2> QED
    BY <1>5, <1>6, <1>7, <2>1 DEF Holds
<1>8. ASSUME NEW n \in Page, n = s \/ n = Persist(s), Keep(t, n, TRUE)
      PROVE  PageInv'
  <2>1. /\ Sound(s.history) /\ Names(s.conv, s.agent) /\ Proper(ask, s.msgs)
        /\ \A x \in ToSet(s.history) : Names(x.id, x.agent) /\ Proper(ask, x.msgs)
    BY <1>2, <1>4, <1>6
  <2>2. /\ Sound(n.history) /\ n.conv = s.conv /\ n.agent = s.agent /\ n.msgs = s.msgs
        /\ n.loading = s.loading /\ Len(n.history) >= Len(s.history)
        /\ \A x \in ToSet(n.history) : Names(x.id, x.agent) /\ Proper(ask, x.msgs)
    <3>1. Len(s.history) \in Nat
      BY <1>6 DEF Page
    <3>2. CASE n = s
      BY <2>1, <3>1, <3>2
    <3>3. CASE n = Persist(s)
      BY <1>6, <2>1, <3>3, PersistProperties, SavedPage
    <3> QED
      BY <1>8, <3>2, <3>3
  <2>3. TypeInv
    BY DEF PageInv
  <2>4. Shown(t, n) /\ (full'[t] = FALSE => full[t] = FALSE /\ Len(n.history) # MaxHistory)
    BY <1>1, <1>8, <2>3, KeepShows
  <2>5. Len(n.history) # MaxHistory => Len(s.history) # MaxHistory
    <3>1. Len(n.history) \in Nat /\ Len(s.history) \in Nat /\ Len(n.history) <= MaxHistory
          /\ MaxHistory \in Nat
      BY <1>6, <2>2, ValuesAssumption DEF Page, Sound
    <3> QED
      BY <2>2, <3>1
  <2>6. ASSUME NEW q \in Asks, Holds(tab[t], ask[q].conv, q), full'[t] = FALSE
        PROVE  Holds(n, ask[q].conv, q)
    <3>1. Holds(s, ask[q].conv, q)
      BY <1>6, <1>7, <2>4, <2>5, <2>6
    <3> QED
      BY <1>6, <1>8, <2>1, <2>4, <2>6, <3>1, PersistHolds
  <2> QED
    BY <1>1, <1>6, <2>1, <2>2, <2>4, <2>6, Navigation
<1>9. Persist(s) \in Page
  BY <1>2, <1>6, PersistProperties
<1> QED
  BY <1>1, <1>6, <1>8, <1>9 DEF AutoSave

LEMMA ClickDeletePage ==
  ASSUME PageInv, NEW t \in Tabs, NEW i \in DOMAIN tab[t].history, ClickDelete(t, i)
  PROVE  PageInv'
<1> DEFINE d == [id |-> tab[t].history[i].id, shown |-> tab[t].conv]
           s == [tab[t] EXCEPT !.deletes = @ \cup {d}]
<1>1. /\ tab' = [tab EXCEPT ![t] = s]
      /\ UNCHANGED <<storage, ask, drawn, dropped, full>> /\ writer' = writer
  BY DEF ClickDelete, PageInv, TypeInv
<1>2. tab[t] \in Page /\ tab[t].history[i] \in Record
  BY PageFacts DEF ToSet
<1>3. d \in [id : Nat, shown : Nat]
  BY <1>2 DEF Page, Record
<1> HIDE DEF d
<1>4. /\ s \in Page /\ s.history = tab[t].history /\ s.msgs = tab[t].msgs
      /\ s.loading = tab[t].loading /\ s.conv = tab[t].conv /\ s.agent = tab[t].agent
  BY <1>2, <1>3 DEF Page
<1> HIDE DEF s
<1>5. Shown(t, s)
  BY <1>1, <1>4 DEF Shown, PageInv, TypeInv
<1>6. \A q \in Asks : Holds(tab[t], ask[q].conv, q) => Holds(s, ask[q].conv, q)
  BY <1>4 DEF Holds
<1> QED
  BY <1>1, <1>4, <1>5, <1>6, PageFacts, Navigation

LEMMA FireDeletePage ==
  ASSUME PageInv, NEW t \in Tabs, NEW d \in tab[t].deletes, FireDelete(t, d)
  PROVE  PageInv'
<1> DEFINE h == Without(tab[t].history, d.id)
           o == [tab[t] EXCEPT !.history = h, !.deletes = @ \ {d}]
<1>1. tab[t] \in Page /\ d.id \in Nat /\ Sound(tab[t].history) /\ tab[t].history \in Seq(Record)
  BY PageFacts DEF Page
<1>2. /\ h \in Seq(Record) /\ Sound(h) /\ ToSet(h) \subseteq ToSet(tab[t].history)
      /\ \A x \in ToSet(tab[t].history) : x.id # d.id => x \in ToSet(h)
  BY <1>1, WithoutProperties
<1>3. /\ \/ Draw /\ Keep(t, StartOver(o, drawn'), TRUE) /\ ask' = Moved(t)
         \/ Keep(t, o, TRUE) /\ UNCHANGED <<drawn, ask>>
      /\ dropped' = [dropped EXCEPT ![t] = @ \cup {d.id}]
  BY DEF FireDelete
<1> HIDE DEF h
<1>4. /\ o \in Page /\ o.history = h /\ o.msgs = tab[t].msgs /\ o.loading = tab[t].loading
      /\ o.conv = tab[t].conv /\ o.agent = tab[t].agent
  BY <1>1, <1>2 DEF Page
<1> HIDE DEF o
<1>5. /\ TypeInv /\ drawn \in Nat
      /\ dropped[t] \subseteq dropped'[t] /\ d.id \in dropped'[t]
  BY <1>3 DEF PageInv, TypeInv
<1>6. ASSUME NEW s \in Page, s.history = h, Keep(t, s, TRUE)
      PROVE  /\ Shown(t, s) /\ (full'[t] = FALSE => full[t] = FALSE)
             /\ Sound(s.history)
             /\ \A x \in ToSet(s.history) : Names(x.id, x.agent) /\ Proper(ask, x.msgs)
  <2>1. Shown(t, s) /\ (full'[t] = FALSE => full[t] = FALSE)
    BY <1>1, <1>3, <1>5, <1>6, KeepShows
  <2> QED
    BY <1>2, <1>6, <2>1, PageFacts
<1>7. CASE Draw /\ Keep(t, StartOver(o, drawn'), TRUE) /\ ask' = Moved(t)
  <2> DEFINE s == StartOver(o, drawn')
  <2>1. drawn' = drawn + 1 /\ drawn' \in Nat /\ <<>> \in Seq(Message)
    BY <1>5, <1>7 DEF Draw
  <2>2. /\ s \in Page /\ s.history = h /\ s.msgs = <<>> /\ s.loading = tab[t].loading
        /\ s.conv = drawn + 1
    BY <1>4, <2>1 DEF StartOver, Page
  <2> HIDE DEF s
  <2>3. Keep(t, s, TRUE)
    BY <1>7 DEF s
  <2>4. Proper(ask, s.msgs)
    BY <2>2 DEF Proper
  <2>5. ASSUME NEW q \in Asks, Holds(tab[t], ask[q].conv, q), ask[q].conv <= drawn,
               ask[q].conv \notin dropped'[t]
        PROVE  Holds(s, ask[q].conv, q)
    <3>1. ask[q].conv # d.id /\ ask[q].conv # s.conv
      BY <1>5, <2>2, <2>5, AskFacts
    <3> QED
      BY <1>2, <2>2, <2>5, <3>1 DEF Holds
  <2> QED
    BY <1>5, <1>6, <1>7, <2>1, <2>2, <2>3, <2>4, <2>5, Navigation
<1>8. CASE Keep(t, o, TRUE) /\ UNCHANGED <<drawn, ask>>
  <2>1. ASSUME NEW q \in Asks, Holds(tab[t], ask[q].conv, q), ask[q].conv \notin dropped'[t]
        PROVE  Holds(o, ask[q].conv, q)
    <3>1. ask[q].conv # d.id
      BY <1>5, <2>1
    <3> QED
      BY <1>2, <1>4, <2>1, <3>1 DEF Holds
  <2>2. /\ Shown(t, o) /\ (full'[t] = FALSE => full[t] = FALSE) /\ Sound(o.history)
        /\ \A x \in ToSet(o.history) : Names(x.id, x.agent) /\ Proper(ask, x.msgs)
    BY <1>4, <1>6, <1>8
  <2> QED
    BY <1>4, <1>5, <1>8, <2>1, <2>2, PageFacts, Navigation
<1> QED
  BY <1>3, <1>7, <1>8

LEMMA SendPage ==
  ASSUME PageInv, NEW t \in Tabs, NEW q \in Asks, NEW chip \in BOOLEAN, Send(t, q, chip)
  PROVE  PageInv'
<1> DEFINE new == [state |-> "pending", tab |-> t, conv |-> tab[t].conv, agent |-> tab[t].agent,
                   chip |-> chip, moved |-> FALSE]
           m == Append(tab[t].msgs, Question(q))
           o == [tab[t] EXCEPT !.msgs = m, !.loading = TRUE]
           s == Persist(o)
<1>1. /\ ask[q].state = "unsent" /\ tab[t].agent # None
      /\ ask' = [ask EXCEPT ![q] = new] /\ Keep(t, s, TRUE)
      /\ drawn' = drawn /\ dropped' = dropped
  BY DEF Send, InputEnabled, ChipsShown, AutoSave, Question
<1>2. /\ TypeInv /\ HistoryInv /\ IdsInv /\ QuestionsInv /\ MessagesInv /\ SpinnerMeansWaiting
      /\ ask \in [Asks -> AskType] /\ tab[t] \in Page /\ drawn \in Nat
  BY DEF PageInv, TypeInv
<1>3. new \in AskType /\ new.state = "pending" /\ new.tab = t /\ new.conv = tab[t].conv
      /\ new.agent = tab[t].agent /\ new.moved = FALSE
  BY <1>2 DEF Page, AskType
<1> HIDE DEF new
<1>4. /\ ask' \in [Asks -> AskType] /\ ask'[q] = new
      /\ \A p \in Asks : p # q => ask'[p] = ask[p]
  BY <1>1, <1>2, <1>3
<1>5. Grows(ask, ask')
  BY <1>1, <1>3, <1>4 DEF Grows
<1>6. m \in Seq(Message) /\ Proper(ask', m) /\ ToSet(m) = ToSet(tab[t].msgs) \cup {Question(q)}
  <2>1. tab[t].msgs \in Seq(Message) /\ Proper(ask, tab[t].msgs)
    BY PageFacts
  <2>2. ask'[q].state = "pending"
    BY <1>3, <1>4
  <2> QED
    BY <1>1, <1>5, <2>1, <2>2, QuestionAppended
<1>7. m # <<>>
  BY PageFacts
<1> HIDE DEF m
<1>8. /\ o \in Page /\ o.history = tab[t].history /\ o.msgs = m
      /\ o.conv = tab[t].conv /\ o.agent = tab[t].agent
  BY <1>2, <1>6 DEF Page
<1> HIDE DEF o
<1>9. Savable(o) /\ Sound(o.history)
  BY <1>1, <1>7, <1>8, PageFacts DEF Savable
<1>10. /\ s \in Page /\ Sound(s.history) /\ s.conv = tab[t].conv /\ s.agent = tab[t].agent
       /\ s.msgs = m /\ Current(o) \in ToSet(s.history)
       /\ ToSet(s.history) \subseteq ToSet(tab[t].history) \cup {Current(o)}
  BY <1>8, <1>9, PersistProperties
<1>11. /\ Current(o).id = tab[t].conv /\ Current(o).agent = tab[t].agent /\ Current(o).msgs = m
  BY <1>8 DEF Current
<1>12. /\ Shown(t, s)
       /\ full'[t] = FALSE => full[t] = FALSE /\ Len(s.history) # MaxHistory
  BY <1>1, <1>2, <1>10, KeepShows
<1>13. TypeInv'
  <2>1. \A p \in Asks : ask'[p].state # "unsent" <=> ask'[p].tab \in Tabs
    BY <1>2, <1>3, <1>4 DEF TypeInv
  <2> QED
    BY <1>1, <1>2, <1>4, <1>10, <1>12, <2>1, ShownType
<1>14. HistoryInv'
  BY <1>2, <1>10, <1>12, ShownHistory
<1>15. IdsInv'
  <2>1. \A x \in ToSet(s.history) : Names(x.id, x.agent)
    BY <1>10, <1>11, PageFacts
  <2>2. \A p \in Asks : ask'[p].state # "unsent" => Names(ask'[p].conv, ask'[p].agent)
    BY <1>3, <1>4, AskFacts, PageFacts
  <2> QED
    BY <1>1, <1>2, <1>10, <1>12, <2>1, <2>2, PageFacts, ShownIds
<1>16. QuestionsInv'
  <2>1. \A p \in Asks : ask'[p].state \in {"pending", "settled"} /\ ask'[p].tab # t =>
          Asked(p) /\ ask[p].tab \in Tabs /\ ask'[p].tab = ask[p].tab /\ ask'[p].conv = ask[p].conv
    BY <1>2, <1>3, <1>4 DEF Asked, TypeInv
  <2>2. ASSUME NEW p \in Asks, ask'[p].state \in {"pending", "settled"}, ask'[p].tab = t,
               ask'[p].conv \notin dropped'[t], ~full'[t]
        PROVE  Holds(s, ask'[p].conv, p)
    <3>1. full'[t] = FALSE /\ full[t] = FALSE /\ Len(s.history) # MaxHistory
      BY <1>12, <2>2 DEF Shown
    <3>2. CASE p = q
      BY <1>3, <1>4, <1>6, <1>10, <1>11, <3>2 DEF Holds
    <3>3. CASE p # q
      <4>1. ToKeep(p) /\ ask[p].tab = t /\ ask'[p].conv = ask[p].conv
        BY <1>1, <1>4, <2>2, <3>1, <3>3 DEF ToKeep, Asked
      <4>2. Holds(tab[t], ask[p].conv, p)
        BY <1>2, <4>1 DEF QuestionsInv
      <4>3. Holds(o, ask[p].conv, p)
        BY <1>6, <1>8, <4>2 DEF Holds
      <4> QED
        BY <1>8, <1>9, <3>1, <4>1, <4>3, PersistHolds
    <3> QED
      BY <3>2, <3>3
  <2> QED
    BY <1>2, <1>10, <1>12, <2>1, <2>2, ShownQuestions
<1>17. MessagesInv'
  <2>1. \A x \in ToSet(s.history) : Proper(ask', x.msgs)
    <3>1. ASSUME NEW x \in ToSet(tab[t].history)
          PROVE  Proper(ask', x.msgs)
      <4>1. x.msgs \in Seq(Message) /\ Proper(ask, x.msgs)
        BY PageFacts DEF Record
      <4> QED
        BY <1>5, <4>1, ProperGrows
    <3> QED
      BY <1>6, <1>10, <1>11, <3>1
  <2>2. ASSUME NEW p \in Asks, ask'[p].state = "pending", ~ask'[p].moved
        PROVE  IF ask'[p].tab = t THEN Question(p) \in ToSet(s.msgs)
               ELSE /\ ask[p].state = "pending" /\ ~ask[p].moved
                    /\ ask[p].tab = ask'[p].tab /\ ask[p].tab \in Tabs
    <3>1. CASE p = q
      BY <1>3, <1>4, <1>6, <1>10, <3>1
    <3>2. CASE p # q
      <4>1. /\ ask'[p] = ask[p] /\ ask[p].tab \in Tabs
            /\ Question(p) \in ToSet(tab[ask[p].tab].msgs)
        BY <1>2, <1>4, <2>2, <3>2 DEF MessagesInv, TypeInv
      <4> QED
        BY <1>6, <1>10, <2>2, <4>1
    <3> QED
      BY <3>1, <3>2
  <2> QED
    BY <1>2, <1>5, <1>6, <1>10, <1>12, <2>1, <2>2, ShownMessages
<1>18. SpinnerMeansWaiting'
  <2>1. \A p \in Asks : ask[p].state = "pending" /\ ask[p].tab # t =>
          ask'[p].state = "pending" /\ ask'[p].tab = ask[p].tab
    BY <1>1, <1>4
  <2> QED
    BY <1>2, <1>3, <1>4, <1>10, <1>12, <2>1, ShownSpinner
<1> QED
  BY <1>13, <1>14, <1>15, <1>16, <1>17, <1>18 DEF PageInv

LEMMA SettlePage ==
  ASSUME PageInv, NEW q \in Asks, Settle(q)
  PROVE  PageInv'
<1> DEFINE t == ask[q].tab
<1>1. PICK role \in {"agent", "blank"} :
        LET s == [Unblocked(tab[t], role) EXCEPT
                    !.msgs = Answered(@, ask[q].chip, [role |-> role, ask |-> q])]
        IN  Keep(t, AutoSave(s), Savable(s))
  BY DEF Settle
<1> DEFINE m == Answered(tab[t].msgs, ask[q].chip, [role |-> role, ask |-> q])
           o == [[tab[t] EXCEPT !.loading = FALSE] EXCEPT !.msgs = m]
           s == Persist(o)
<1>2. /\ TypeInv /\ HistoryInv /\ IdsInv /\ QuestionsInv /\ MessagesInv /\ SpinnerMeansWaiting
      /\ ask \in [Asks -> AskType] /\ drawn \in Nat /\ ask[q] \in AskType
  BY DEF PageInv, TypeInv
<1>3. /\ ask[q].state = "pending" /\ ask' = [ask EXCEPT ![q].state = "settled"]
      /\ drawn' = drawn /\ dropped' = dropped
  BY DEF Settle
<1>4. t \in Tabs /\ tab[t] \in Page
  BY <1>2, <1>3 DEF TypeInv
<1>5. /\ ask' \in [Asks -> AskType] /\ ask'[q].state = "settled"
      /\ \A p \in Asks : /\ p # q => ask'[p] = ask[p]
                          /\ ask'[p].tab = ask[p].tab /\ ask'[p].conv = ask[p].conv
                          /\ ask'[p].agent = ask[p].agent /\ ask'[p].moved = ask[p].moved
  BY <1>2, <1>3 DEF AskType
<1>6. Grows(ask, ask')
  BY <1>3, <1>5 DEF Grows
<1>7. /\ m \in Seq(Message) /\ m # <<>> /\ Proper(ask', m)
      /\ \A p \in Asks : Question(p) \in ToSet(tab[t].msgs) => Question(p) \in ToSet(m)
  <2>1. tab[t].msgs \in Seq(Message) /\ Proper(ask, tab[t].msgs)
    BY <1>4, PageFacts
  <2>2. ask'[q].moved \/ Question(q) \in ToSet(tab[t].msgs)
    BY <1>2, <1>3, <1>5 DEF MessagesInv
  <2>3. ask[q].chip \in BOOLEAN
    BY <1>2 DEF AskType
  <2> QED
    BY <1>3, <1>5, <1>6, <2>1, <2>2, <2>3, AnswerAdded, ZenonT(40)
<1>8. Keep(t, s, Savable(o))
  BY <1>1, <1>4 DEF Unblocked, AutoSave, Page
<1> HIDE DEF m
<1>9. /\ o \in Page /\ o.history = tab[t].history /\ o.msgs = m /\ o.loading = FALSE
      /\ o.conv = tab[t].conv /\ o.agent = tab[t].agent
  BY <1>4, <1>7 DEF Page
<1> HIDE DEF o, t
<1>10. Sound(o.history) /\ Savable(o) \in BOOLEAN
  BY <1>4, <1>9, PageFacts DEF Savable
<1>11. /\ s \in Page /\ Sound(s.history) /\ s.conv = tab[t].conv /\ s.agent = tab[t].agent
       /\ s.msgs = m /\ s.loading = FALSE
       /\ Savable(o) = FALSE => s.history = tab[t].history
       /\ ToSet(s.history) \subseteq ToSet(tab[t].history) \cup {Current(o)}
  BY <1>9, <1>10, PersistProperties
<1>12. Current(o).id = tab[t].conv /\ Current(o).agent = tab[t].agent /\ Current(o).msgs = m
  BY <1>9 DEF Current
<1>13. /\ Shown(t, s)
       /\ full'[t] = FALSE => full[t] = FALSE /\ Len(s.history) # MaxHistory
  BY <1>2, <1>3, <1>4, <1>8, <1>10, <1>11, KeepShows
<1>14. TypeInv'
  <2>1. \A p \in Asks : ask'[p].state # "unsent" <=> ask'[p].tab \in Tabs
    BY <1>2, <1>3, <1>5 DEF TypeInv
  <2> QED
    BY <1>2, <1>3, <1>4, <1>5, <1>11, <1>13, <2>1, ShownType
<1>15. HistoryInv'
  BY <1>2, <1>4, <1>11, <1>13, ShownHistory
<1>16. IdsInv'
  <2>1. \A x \in ToSet(s.history) : Names(x.id, x.agent)
    BY <1>4, <1>11, <1>12, PageFacts
  <2>2. \A p \in Asks : ask'[p].state # "unsent" => Names(ask'[p].conv, ask'[p].agent)
    BY <1>3, <1>5, AskFacts
  <2>3. Names(s.conv, s.agent)
    BY <1>4, <1>11, PageFacts
  <2> QED
    BY <1>2, <1>3, <1>4, <1>11, <1>13, <2>1, <2>2, <2>3, ShownIds
<1>17. QuestionsInv'
  <2>1. \A p \in Asks : ask'[p].state \in {"pending", "settled"} =>
          Asked(p) /\ ask[p].tab \in Tabs /\ ask'[p].tab = ask[p].tab /\ ask'[p].conv = ask[p].conv
    BY <1>2, <1>3, <1>5 DEF Asked, TypeInv
  <2>2. ASSUME NEW p \in Asks, ask'[p].state \in {"pending", "settled"}, ask'[p].tab = t,
               ask'[p].conv \notin dropped'[t], ~full'[t]
        PROVE  Holds(s, ask'[p].conv, p)
    <3>1. full'[t] = FALSE /\ full[t] = FALSE /\ Len(s.history) # MaxHistory
      BY <1>4, <1>13, <2>2 DEF Shown
    <3>2. ToKeep(p) /\ ask[p].tab = t /\ ask'[p].conv = ask[p].conv
      BY <1>3, <2>1, <2>2, <3>1 DEF ToKeep
    <3>3. Holds(tab[t], ask[p].conv, p)
      BY <1>2, <3>2 DEF QuestionsInv
    <3>4. Holds(o, ask[p].conv, p)
      BY <1>7, <1>9, <3>3 DEF Holds
    <3> QED
      BY <1>9, <1>10, <3>1, <3>2, <3>4, PersistHolds
  <2> QED
    BY <1>2, <1>4, <1>11, <1>13, <2>1, <2>2, ShownQuestions
<1>18. MessagesInv'
  <2>1. \A x \in ToSet(s.history) : Proper(ask', x.msgs)
    <3>1. ASSUME NEW x \in ToSet(tab[t].history)
          PROVE  Proper(ask', x.msgs)
      <4>1. x.msgs \in Seq(Message) /\ Proper(ask, x.msgs)
        BY <1>4, PageFacts DEF Record
      <4> QED
        BY <1>6, <4>1, ProperGrows
    <3> QED
      BY <1>7, <1>11, <1>12, <3>1
  <2>2. ASSUME NEW p \in Asks, ask'[p].state = "pending", ~ask'[p].moved
        PROVE  IF ask'[p].tab = t THEN Question(p) \in ToSet(s.msgs)
               ELSE /\ ask[p].state = "pending" /\ ~ask[p].moved
                    /\ ask[p].tab = ask'[p].tab /\ ask[p].tab \in Tabs
    <3>1. p # q /\ ask'[p] = ask[p]
      BY <1>5, <2>2
    <3>2. ask[p].tab \in Tabs /\ Question(p) \in ToSet(tab[ask[p].tab].msgs)
      BY <1>2, <2>2, <3>1 DEF MessagesInv, TypeInv
    <3> QED
      BY <1>7, <1>11, <2>2, <3>1, <3>2
  <2> QED
    BY <1>2, <1>4, <1>6, <1>7, <1>11, <1>13, <2>1, <2>2, ShownMessages
<1>19. SpinnerMeansWaiting'
  <2>1. \A p \in Asks : ask[p].state = "pending" /\ ask[p].tab # t =>
          ask'[p].state = "pending" /\ ask'[p].tab = ask[p].tab
    BY <1>5 DEF t
  <2> QED
    BY <1>2, <1>4, <1>11, <1>13, <2>1, ShownSpinner
<1> QED
  BY <1>14, <1>15, <1>16, <1>17, <1>18, <1>19 DEF PageInv

LEMMA ReloadPage ==
  ASSUME PageInv, NEW t \in Tabs, Reload(t)
  PROVE  PageInv'
<1> DEFINE s == Mounted(storage)
<1>1. /\ tab' = [tab EXCEPT ![t] = s] /\ writer' = t /\ storage' = storage /\ drawn' = drawn
      /\ ask' = [q \in Asks |-> IF ask[q].tab = t THEN [ask[q] EXCEPT !.state = "abandoned"]
                                ELSE ask[q]]
      /\ dropped' = [dropped EXCEPT ![t] = {}]
      /\ full' = [full EXCEPT ![t] = Len(storage) = MaxHistory]
  BY DEF Reload
<1>2. /\ TypeInv /\ HistoryInv /\ IdsInv /\ QuestionsInv /\ MessagesInv /\ SpinnerMeansWaiting
      /\ ask \in [Asks -> AskType] /\ drawn \in Nat /\ storage \in Seq(Record)
  BY DEF PageInv, TypeInv
<1>3. /\ s \in Page /\ s.history = storage /\ s.msgs = <<>> /\ s.loading = FALSE
      /\ s.conv = NoConv /\ s.agent = None
  BY <1>2, MountedPage DEF Mounted
<1> HIDE DEF s
<1>4. Shown(t, s)
  <2>1. full' \in [Tabs -> BOOLEAN] /\ \A u \in Tabs : u # t => full'[u] = full[u]
    BY <1>1, <1>2 DEF TypeInv
  <2>2. dropped' \in [Tabs -> SUBSET Nat] /\ \A u \in Tabs : u # t => dropped'[u] = dropped[u]
    BY <1>1, <1>2 DEF TypeInv
  <2> QED
    BY <1>1, <1>3, <2>1, <2>2 DEF Shown
<1>5. ASSUME NEW q \in Asks
      PROVE  /\ ask'[q] \in AskType
             /\ ask'[q].tab = ask[q].tab /\ ask'[q].conv = ask[q].conv
             /\ ask'[q].agent = ask[q].agent /\ ask'[q].moved = ask[q].moved
             /\ ask[q].tab # t => ask'[q].state = ask[q].state
             /\ ask[q].tab = t => ask'[q].state = "abandoned"
  <2>1. ask[q] \in AskType
    BY <1>2
  <2>2. CASE ask[q].tab = t
    <3>1. ask'[q] = [ask[q] EXCEPT !.state = "abandoned"]
      BY <1>1, <2>2
    <3> QED
      BY <2>1, <2>2, <3>1 DEF AskType
  <2>3. CASE ask[q].tab # t
    BY <1>1, <2>1, <2>3
  <2> QED
    BY <2>2, <2>3
<1>6. ask' \in [Asks -> AskType]
  <2>1. ask' = [q \in Asks |-> ask'[q]]
    BY <1>1
  <2> QED
    BY <1>5, <2>1
<1>7. /\ Grows(ask, ask')
      /\ \A q \in Asks : ask'[q].state # "unsent" => ask[q].state # "unsent"
  <2>1. \A q \in Asks : ask[q].state = "unsent" => ask[q].tab # t
    BY <1>2, ValuesAssumption DEF TypeInv
  <2> QED
    BY <1>5, <2>1 DEF Grows
<1>8. TypeInv'
  <2>1. \A q \in Asks : ask'[q].state # "unsent" <=> ask'[q].tab \in Tabs
    BY <1>2, <1>5, <1>7 DEF TypeInv
  <2> QED
    BY <1>1, <1>2, <1>3, <1>4, <1>6, <2>1, ShownType
<1>9. HistoryInv'
  <2>1. Sound(s.history)
    BY <1>2, <1>3 DEF HistoryInv
  <2> QED
    BY <1>2, <1>3, <1>4, <2>1, ShownHistory
<1>10. IdsInv'
  <2>1. Names(s.conv, s.agent) /\ \A x \in ToSet(s.history) : Names(x.id, x.agent)
    BY <1>3 DEF Names
  <2>2. \A q \in Asks : ask'[q].state # "unsent" => Names(ask'[q].conv, ask'[q].agent)
    BY <1>5, <1>7, AskFacts
  <2> QED
    BY <1>1, <1>2, <1>3, <1>4, <2>1, <2>2, ShownIds
<1>11. QuestionsInv'
  <2>1. \A q \in Asks : ask'[q].state \in {"pending", "settled"} =>
          /\ Asked(q) /\ ask[q].tab \in Tabs /\ ask'[q].tab = ask[q].tab
          /\ ask'[q].conv = ask[q].conv /\ ask'[q].tab # t
    BY <1>2, <1>5 DEF Asked, TypeInv
  <2> QED
    BY <1>2, <1>3, <1>4, <2>1, ShownQuestions
<1>12. MessagesInv'
  <2>1. Proper(ask', s.msgs)
    BY <1>3 DEF Proper
  <2>2. ASSUME NEW x \in ToSet(storage)
        PROVE  Proper(ask', x.msgs)
    <3>1. x \in Record /\ Proper(ask, x.msgs)
      BY <1>2 DEF MessagesInv, ToSet
    <3>2. x.msgs \in Seq(Message)
      BY <3>1 DEF Record
    <3> QED
      BY <1>7, <3>1, <3>2, ProperGrows
  <2>3. \A q \in Asks : ask'[q].state = "pending" =>
          /\ ask'[q].tab # t /\ ask[q].state = "pending" /\ ask[q].tab \in Tabs
          /\ ask[q].tab = ask'[q].tab /\ ask'[q].moved = ask[q].moved
    BY <1>2, <1>5 DEF TypeInv
  <2> QED
    BY <1>2, <1>3, <1>4, <1>7, <2>1, <2>2, <2>3, ShownMessages
<1>13. SpinnerMeansWaiting'
  <2>1. \A q \in Asks : ask[q].state = "pending" /\ ask[q].tab # t =>
          ask'[q].state = "pending" /\ ask'[q].tab = ask[q].tab
    BY <1>5
  <2> QED
    BY <1>2, <1>3, <1>4, <2>1, ShownSpinner
<1> QED
  BY <1>8, <1>9, <1>10, <1>11, <1>12, <1>13 DEF PageInv

LEMMA StepPage ==
  ASSUME PageInv, [Next]_vars
  PROVE  PageInv'
<1>1. CASE UNCHANGED vars
  <2>1. UNCHANGED <<tab, storage, ask, drawn, dropped, full, writer>>
    BY <1>1 DEF vars
  <2>2. TypeInv' /\ HistoryInv' /\ MessagesInv' /\ SpinnerMeansWaiting'
    BY <2>1 DEF PageInv, TypeInv, HistoryInv, MessagesInv, SpinnerMeansWaiting
  <2>3. \A id, a : Names(id, a)' <=> Names(id, a)
    BY <2>1 DEF Names
  <2>4. IdsInv'
    BY <2>1, <2>3 DEF PageInv, IdsInv
  <2>5. QuestionsInv'
    BY <2>1 DEF PageInv, QuestionsInv, ToKeep, Asked
  <2> QED
    BY <2>2, <2>4, <2>5 DEF PageInv
<1>2. CASE Next
  BY <1>2, AgentsArrivePage, AgentsFailPage, NewConversationPage, ReloadPage, SendPage,
     SelectAgentPage, OpenPage, ClickDeletePage, FireDeletePage, SettlePage DEF Next
<1> QED
  BY <1>1, <1>2

LEMMA AlwaysPageInv == Spec => []PageInv
BY InitPage, StepPage, PTL DEF Spec

-----------------------------------------------------------------------------
(* What follows. *)

(* No question the user asked is lost, whatever handlers run while answers,*)
(* lists of agents and deletions are under way, in any number of tabs: it  *)
(* is in the history of its tab, and in localStorage when that tab wrote it*)
(* last (handleSend, the automatic save, useConversationHistory).          *)
THEOREM QuestionsAlwaysKept == Spec => []QuestionsKept
<1>1. ASSUME PageInv
      PROVE  QuestionsKept
  <2> SUFFICES ASSUME NEW q \in Asks, ToKeep(q)
               PROVE  /\ KeptIn(tab[ask[q].tab].history, q)
                      /\ writer = ask[q].tab => KeptIn(storage, q)
    BY DEF QuestionsKept, ToKeep
  <2>1. ask[q].tab \in Tabs
    BY <1>1 DEF PageInv, TypeInv, ToKeep, Asked
  <2>2. Holds(tab[ask[q].tab], ask[q].conv, q)
    BY <1>1 DEF PageInv, QuestionsInv
  <2>3. KeptIn(tab[ask[q].tab].history, q)
    BY <2>2 DEF Holds, KeptIn, ToSet
  <2> QED
    BY <1>1, <2>1, <2>3 DEF PageInv, HistoryInv
<1> QED
  BY <1>1, AlwaysPageInv, PTL

(* A conversation id stands for one agent wherever it is used: a request   *)
(* never continues a conversation of one agent with another.               *)
THEOREM AlwaysOneAgent == Spec => []OneAgentPerConversation
<1>1. ASSUME PageInv
      PROVE  OneAgentPerConversation
  <2> SUFFICES ASSUME NEW id \in 0..drawn, NEW a \in AgentOf(id), NEW b \in AgentOf(id)
               PROVE  a = b
    BY DEF OneAgentPerConversation
  <2>1. \A c \in AgentOf(id) : Names(id, c)
    BY DEF AgentOf, Names, ToSet
  <2>2. \A c : Names(id, c) => c \in Agents \cup {None}
    <3>1. \A q \in Asks : ask[q].agent \in Agents \cup {None}
      BY <1>1 DEF PageInv, TypeInv, AskType
    <3>2. \A t \in Tabs : tab[t].agent \in Agents \cup {None}
      BY <1>1 DEF PageInv, TypeInv, Page
    <3>3. \A t \in Tabs : \A x \in ToSet(tab[t].history) : x.agent \in Agents \cup {None}
      BY <1>1, PageFacts DEF Record
    <3>4. \A x \in ToSet(storage) : x.agent \in Agents \cup {None}
      <4>1. \A x \in ToSet(storage) : x \in Record
        BY <1>1 DEF PageInv, TypeInv, ToSet
      <4> QED
        BY <4>1 DEF Record
    <3> QED
      BY <3>1, <3>2, <3>3, <3>4 DEF Names
  <2>3. id \in Nat
    BY <1>1 DEF PageInv, TypeInv
  <2> QED
    BY <1>1, <2>1, <2>2, <2>3 DEF PageInv, IdsInv
<1> QED
  BY <1>1, AlwaysPageInv, PTL

(* An answer stands after its question unless the user moved on while      *)
(* waiting for it, and no message is twice in a conversation, although an  *)
(* answer joins what is shown when it arrives (the continuation of a send).*)
THEOREM AnswersUnderQuestions == Spec => []AnswerUnderItsQuestion
<1>1. ASSUME PageInv
      PROVE  AnswerUnderItsQuestion
  <2>1. ASSUME NEW m \in Conversations
        PROVE  Proper(ask, m)
    BY <1>1 DEF Conversations, PageInv, MessagesInv, ToSet
  <2> QED
    BY <2>1 DEF AnswerUnderItsQuestion, Proper
<1> QED
  BY <1>1, AlwaysPageInv, PTL

(* The spinner of a tab only turns while an answer is awaited in that tab, *)
(* so that the input is not disabled for good.                             *)
THEOREM SpinnerAlwaysWaits == Spec => []SpinnerMeansWaiting
BY AlwaysPageInv, PTL DEF PageInv
=============================================================================
