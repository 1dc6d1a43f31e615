---------------------------- MODULE WebPagesProofs ----------------------------
(***************************************************************************)
(* Theorems about the groups of pages, for any inputs of their users.      *)
(***************************************************************************)
EXTENDS WebPages, Integers, SequencesExt, SequenceTheorems, NaturalsInduction,
        WellFoundedInduction, FiniteSetTheorems, TLAPS

\* Each group of pages behaves as its module says, as no step of another one
\* touches its state.
LEMMA GroupsApart ==
  /\ Init => /\ Home!Init /\ Demo!Init /\ Solutions!Init /\ Agents!Init
             /\ Graphs!Init /\ Workflows!Init /\ Executions!Init /\ Corpus!Init
  /\ [Next]_vars => /\ [Home!Next]_(Home!vars) /\ [Demo!Next]_(Demo!vars)
                    /\ [Solutions!Next]_(Solutions!vars) /\ [Agents!Next]_(Agents!vars)
                    /\ [Graphs!Next]_(Graphs!vars) /\ [Workflows!Next]_(Workflows!vars)
                    /\ [Executions!Next]_(Executions!vars) /\ [Corpus!Next]_(Corpus!vars)
<1>1. [Next]_vars => [Home!Next]_(Home!vars)
  BY DEF Next, vars, homeVars, Home!vars
<1>2. [Next]_vars => [Demo!Next]_(Demo!vars)
  BY DEF Next, vars, demoVars, Demo!vars
<1>3. [Next]_vars => [Solutions!Next]_(Solutions!vars)
  BY DEF Next, vars, solutionsVars, Solutions!vars
<1>4. [Next]_vars => [Agents!Next]_(Agents!vars)
  BY DEF Next, vars, agentsVars, Agents!vars, Agents!store, Agents!listVars, Agents!formVars,
         Agents!memoryVars
<1>5. [Next]_vars => [Graphs!Next]_(Graphs!vars)
  BY DEF Next, vars, graphsVars, Graphs!vars
<1>6. [Next]_vars => [Workflows!Next]_(Workflows!vars)
  BY DEF Next, vars, workflowsVars, Workflows!vars, Workflows!editor, Workflows!executionsTab
<1>7. [Next]_vars => [Executions!Next]_(Executions!vars)
  BY DEF Next, vars, executionsVars, Executions!vars
<1>8. [Next]_vars => [Corpus!Next]_(Corpus!vars)
  BY DEF Next, vars, corpusVars, Corpus!vars
<1> QED BY <1>1, <1>2, <1>3, <1>4, <1>5, <1>6, <1>7, <1>8 DEF Init

-----------------------------------------------------------------------------
(* Sequences of requests under way, whatever the requests are. *)

IsList(s) == s \in Seq({s[i] : i \in DOMAIN s})

LEMMA ListOfAny ==
  ASSUME NEW S, NEW s \in Seq(S)
  PROVE  IsList(s) /\ DOMAIN s = 1..Len(s) /\ Len(s) \in Nat
<1>1. Len(s) \in Nat /\ s \in [1..Len(s) -> {s[i] : i \in DOMAIN s}] /\ DOMAIN s = 1..Len(s)
  BY LenProperties
<1> QED BY <1>1, SeqDef DEF IsList

LEMMA ListAppended ==
  ASSUME NEW s, IsList(s), NEW x
  PROVE  /\ IsList(Append(s, x)) /\ Append(s, x) # <<>>
         /\ Len(Append(s, x)) = Len(s) + 1 /\ Append(s, x)[Len(s) + 1] = x
         /\ \A i \in 1..Len(s) : Append(s, x)[i] = s[i]
<1> DEFINE S == {s[i] : i \in DOMAIN s}
           T == S \cup {x}
<1>1. s \in Seq(T) /\ x \in T
  <2>1. s \in Seq(S) /\ S \subseteq T
    BY DEF IsList
  <2> HIDE DEF S, T
  <2>2. s \in Seq(T)
    BY <2>1, SeqMonotonic
  <2> QED BY <2>2 DEF T
<1> HIDE DEF T
<1>2. Append(s, x) \in Seq(T)
  BY <1>1, AppendProperties
<1>3. IsList(Append(s, x))
  BY <1>2, ListOfAny
<1> QED BY <1>1, <1>3, AppendProperties

LEMMA ListRemoved ==
  ASSUME NEW s, IsList(s), NEW i \in DOMAIN s
  PROVE  /\ IsList(RemoveAt(s, i)) /\ Len(RemoveAt(s, i)) = Len(s) - 1
         /\ \A j \in 1..(Len(s) - 1) : RemoveAt(s, i)[j] = s[IF j < i THEN j ELSE j + 1]
<1> DEFINE S == {s[j] : j \in DOMAIN s}
           a == SubSeq(s, 1, i - 1)
           b == SubSeq(s, i + 1, Len(s))
<1>1. s \in Seq(S) /\ Len(s) \in Nat /\ DOMAIN s = 1..Len(s) /\ i \in 1..Len(s)
  BY LenProperties DEF IsList
<1>2. \A j \in 1..Len(s) : s[j] \in S
  BY <1>1
<1> HIDE DEF S
<1>3. a \in Seq(S) /\ Len(a) = i - 1 /\ \A j \in 1..(i - 1) : a[j] = s[j]
  <2>1. \A j \in 1..(i - 1) : s[j] \in S
    BY <1>1, <1>2
  <2> QED BY <1>1, <2>1, SubSeqProperties
<1>4. b \in Seq(S) /\ Len(b) = Len(s) - i /\ \A j \in 1..(Len(s) - i) : b[j] = s[i + j]
  <2>1. \A j \in (i + 1)..Len(s) : s[j] \in S
    BY <1>1, <1>2
  <2>2. i + 1 \in Int /\ Len(s) \in Int
    BY <1>1
  <2>3. /\ b \in Seq(S)
        /\ Len(b) = IF i + 1 <= Len(s) THEN Len(s) - (i + 1) + 1 ELSE 0
        /\ \A j \in 1..(Len(s) - (i + 1) + 1) : b[j] = s[i + 1 + j - 1]
    BY <2>1, <2>2, SubSeqProperties
  <2> HIDE DEF b
  <2>4. Len(b) = Len(s) - i
    BY <1>1, <2>3
  <2>5. ASSUME NEW j \in 1..(Len(s) - i) PROVE b[j] = s[i + j]
    <3>1. i + 1 + j - 1 = i + j /\ j \in 1..(Len(s) - (i + 1) + 1)
      BY <1>1
    <3> QED BY <2>3, <3>1
  <2> QED BY <2>3, <2>4, <2>5
<1>5. /\ a \o b \in Seq(S) /\ Len(a \o b) = Len(s) - 1
      /\ \A j \in 1..(Len(s) - 1) : (a \o b)[j] = IF j <= i - 1 THEN a[j] ELSE b[j - (i - 1)]
  <2> HIDE DEF a, b
  <2>1. /\ a \o b \in Seq(S) /\ Len(a \o b) = Len(a) + Len(b)
        /\ \A j \in 1..(Len(a) + Len(b)) : (a \o b)[j] = IF j <= Len(a) THEN a[j] ELSE b[j - Len(a)]
    BY <1>3, <1>4, ConcatProperties
  <2> QED BY <1>1, <1>3, <1>4, <2>1
<1>6. \A j \in 1..(Len(s) - 1) : (a \o b)[j] = s[IF j < i THEN j ELSE j + 1]
  <2> HIDE DEF a, b
  <2> TAKE j \in 1..(Len(s) - 1)
  <2>1. CASE j < i
    BY <1>1, <1>3, <1>5, <2>1
  <2>2. CASE ~(j < i)
    <3>1. j - (i - 1) \in 1..(Len(s) - i) /\ i + (j - (i - 1)) = j + 1 /\ ~(j <= i - 1)
      BY <1>1, <2>2
    <3> QED BY <1>4, <1>5, <2>2, <3>1
  <2> QED BY <2>1, <2>2
<1> QED BY <1>5, <1>6, ListOfAny DEF RemoveAt

\* Of the requests under way, all but the one that ended go on.
LEMMA OthersGoOn ==
  ASSUME NEW s, IsList(s), NEW i \in DOMAIN s, NEW k \in DOMAIN s, k # i
  PROVE  \E j \in DOMAIN RemoveAt(s, i) : RemoveAt(s, i)[j] = s[k]
<1>1. /\ Len(s) \in Nat /\ DOMAIN s = 1..Len(s)
      /\ DOMAIN RemoveAt(s, i) = 1..(Len(s) - 1)
  BY ListRemoved, LenProperties DEF IsList
<1>2. CASE k < i
  <2>1. k \in 1..(Len(s) - 1)
    BY <1>1, <1>2
  <2> QED BY <1>1, <1>2, <2>1, ListRemoved
<1>3. CASE i < k
  <2>1. k - 1 \in 1..(Len(s) - 1) /\ ~(k - 1 < i) /\ (k - 1) + 1 = k
    BY <1>1, <1>3
  <2> QED BY <1>1, <2>1, ListRemoved
<1> QED BY <1>1, <1>2, <1>3

-----------------------------------------------------------------------------
(* Home *)

HomeTypes ==
  /\ choices \in Seq([to : Chosen, phase : 1..4])
  /\ cycle \in 0..3 /\ chosen \in Nat /\ activeIndex \in 1..7

\* There is one interval when timerRef has one and none otherwise: never while the demo
\* is paused, always while it is shown and not paused.  Resumed by the timer of a click
\* while the page is hidden, it has one as well.
IntervalInv ==
  /\ \/ held /\ live = 1
     \/ ~held /\ live = 0
  /\ held => ~isPaused
  /\ ~isPaused /\ ~hidden => held

HomeBooleans == isPaused \in BOOLEAN /\ hidden \in BOOLEAN /\ held \in BOOLEAN

\* A change that faded the panel has yet to reach its routing, one that left the
\* phase short of the end has yet to reach the end.
DecisionInv ==
  /\ isAnimating \/ cycle \in {1, 2} \/ \E k \in 1..Len(choices) : choices[k].phase < 3
  /\ phase = "done" \/ cycle # 0 \/ \E k \in 1..Len(choices) : choices[k].phase < 4

\* The scenario clicked last is on display when its click got as far as routing,
\* which it does after all earlier ones; the interval does not interfere.
ChosenInv ==
  chosen # 0 =>
    /\ isPaused /\ cycle = 0
    /\ \/ activeIndex = chosen /\ \A k \in 1..Len(choices) : choices[k].phase >= 3
       \/ /\ choices # <<>>
          /\ choices[Len(choices)].to = chosen /\ choices[Len(choices)].phase < 3

HomeInv == HomeTypes /\ HomeBooleans /\ IntervalInv /\ DecisionInv /\ ChosenInv

LEMMA HomeInitially == ASSUME Home!Init PROVE HomeInv
<1>1. /\ choices = <<>> /\ cycle = 0 /\ chosen = 0 /\ activeIndex = 1 /\ phase = "done"
      /\ isAnimating = TRUE /\ isPaused = FALSE /\ hidden = FALSE /\ held = TRUE /\ live = 1
  BY DEF Home!Init, Home!None
<1>2. choices \in Seq([to : Chosen, phase : 1..4])
  BY <1>1
<1>3. HomeTypes
  BY <1>1, <1>2 DEF HomeTypes
<1>4. HomeBooleans /\ IntervalInv
  <2>1. HomeBooleans
    BY <1>1 DEF HomeBooleans
  <2>2. held /\ ~isPaused /\ ~hidden /\ live = 1
    BY <1>1
  <2> QED BY <2>1, <2>2 DEF IntervalInv
<1>5. DecisionInv /\ ChosenInv
  BY <1>1 DEF DecisionInv, ChosenInv
<1> QED BY <1>3, <1>4, <1>5 DEF HomeInv

LEMMA ChoiceTyped ==
  ASSUME HomeTypes, NEW k \in 1..Len(choices)
  PROVE  choices[k].to \in Chosen /\ choices[k].phase \in 1..4
<1> DEFINE Choice == [to : Chosen, phase : 1..4]
<1>1. choices[k] \in Choice
  <2>1. choices \in Seq(Choice)
    BY DEF HomeTypes
  <2> HIDE DEF Choice
  <2> QED BY <2>1, ElementOfSeq
<1> QED BY <1>1

LEMMA HomeTypesKept ==
  ASSUME HomeTypes, [Home!Next]_(Home!vars), Home!ChoicesAssumption
  PROVE  HomeTypes'
<1> DEFINE Choice == [to : Chosen, phase : 1..4]
<1>0. Chosen \subseteq 1..7 /\ Len(Home!DEMO_SCENARIOS) = 7
  BY DEF Home!ChoicesAssumption, Home!DEMO_SCENARIOS
<1>a. Len(Home!Phases) = 4 /\ \A p \in 1..4 : Home!Phases[p] = "routing" <=> p = 3
  BY DEF Home!Phases
<1> USE DEF Home!None
<1>1. CASE Home!Tick
  BY <1>1 DEF HomeTypes, Home!Tick
<1>2. CASE Home!CycleGoesOn
  <2>1. activeIndex' \in 1..7
    <3>1. (activeIndex % 7) + 1 \in 1..7
      BY DEF HomeTypes
    <3> QED BY <1>0, <1>2, <3>1 DEF HomeTypes, Home!CycleGoesOn, Home!Reach
  <2> QED BY <1>2, <1>a, <2>1 DEF HomeTypes, Home!CycleGoesOn, Home!Reach
<1>3. CASE \E i \in Chosen : Home!selectScenario(i)
  <2>1. PICK i \in Chosen : Home!selectScenario(i)
    BY <1>3
  <2>2. [to |-> i, phase |-> 1] \in Choice
    OBVIOUS
  <2>3. choices' \in Seq(Choice)
    <3>1. choices \in Seq(Choice)
      BY DEF HomeTypes
    <3> HIDE DEF Choice
    <3> QED BY <2>1, <2>2, <3>1 DEF Home!selectScenario
  <2> QED BY <1>0, <2>1, <2>3 DEF HomeTypes, Home!selectScenario, Home!ClearInterval
<1>4. CASE \E k \in DOMAIN choices : Home!ChoiceGoesOn(k)
  <2>1. PICK k \in DOMAIN choices : Home!ChoiceGoesOn(k)
    BY <1>4
  <2> DEFINE next == choices[k].phase + 1
  <2>2. choices[k].to \in 1..7 /\ next \in 1..4
    <3>1. choices[k].to \in Chosen /\ choices[k].phase \in 1..4
      BY <2>1, ChoiceTyped DEF HomeTypes
    <3>2. choices[k].phase + 1 <= 4
      BY <1>a, <2>1 DEF Home!ChoiceGoesOn
    <3>3. next \in 1..4
      BY <3>1, <3>2
    <3> QED BY <1>0, <3>1, <3>3
  <2>3. choices' \in Seq(Choice)
    <3>1. choices' = [choices EXCEPT ![k].phase = next]
      BY <2>1 DEF Home!ChoiceGoesOn
    <3>2. choices \in Seq(Choice) /\ k \in 1..Len(choices)
      BY <2>1 DEF HomeTypes
    <3>3. [choices[k] EXCEPT !.phase = next] \in Choice
      <4>1. choices[k] \in Choice
        <5> HIDE DEF Choice
        <5> QED BY <3>2, ElementOfSeq
      <4> HIDE DEF next
      <4> QED BY <2>2, <4>1
    <3> HIDE DEF next, Choice
    <3> QED BY <3>1, <3>2, <3>3
  <2>4. activeIndex' \in 1..7
    BY <2>1, <2>2 DEF HomeTypes, Home!ChoiceGoesOn, Home!Reach
  <2> QED BY <2>1, <2>3, <2>4 DEF HomeTypes, Home!ChoiceGoesOn, Home!Reach
<1>5. CASE Home!ChoiceResumes
  BY <1>5 DEF HomeTypes, Home!ChoiceResumes, Home!SetPaused, Home!PauseEffect, Home!startCycling,
              Home!ClearInterval
<1>6. CASE Home!TogglePause
  BY <1>6 DEF HomeTypes, Home!TogglePause, Home!SetPaused, Home!PauseEffect, Home!startCycling,
              Home!ClearInterval
<1>7. CASE Home!Hides
  BY <1>7 DEF HomeTypes, Home!Hides, Home!ClearInterval
<1>8. CASE Home!Shows
  BY <1>8 DEF HomeTypes, Home!Shows, Home!CyclesWhenShown, Home!startCycling
<1>9. CASE UNCHANGED Home!vars
  BY <1>9 DEF HomeTypes, Home!vars
<1> QED BY <1>1, <1>2, <1>3, <1>4, <1>5, <1>6, <1>7, <1>8, <1>9 DEF Home!Next

LEMMA HomeBooleansKept ==
  ASSUME HomeBooleans, [Home!Next]_(Home!vars)
  PROVE  HomeBooleans'
<1>1. CASE Home!Tick \/ Home!CycleGoesOn
  BY <1>1 DEF HomeBooleans, Home!Tick, Home!CycleGoesOn
<1>2. CASE \E i \in Chosen : Home!selectScenario(i)
  BY <1>2 DEF HomeBooleans, Home!selectScenario, Home!ClearInterval
<1>3. CASE \E k \in DOMAIN choices : Home!ChoiceGoesOn(k)
  BY <1>3 DEF HomeBooleans, Home!ChoiceGoesOn
<1>4. CASE Home!ChoiceResumes
  BY <1>4 DEF HomeBooleans, Home!ChoiceResumes, Home!SetPaused, Home!PauseEffect,
              Home!startCycling, Home!ClearInterval
<1>5. CASE Home!TogglePause
  BY <1>5 DEF HomeBooleans, Home!TogglePause, Home!SetPaused, Home!PauseEffect,
              Home!startCycling, Home!ClearInterval
<1>6. CASE Home!Hides \/ Home!Shows
  BY <1>6 DEF HomeBooleans, Home!Hides, Home!Shows, Home!CyclesWhenShown, Home!startCycling,
              Home!ClearInterval
<1>7. CASE UNCHANGED Home!vars
  BY <1>7 DEF HomeBooleans, Home!vars
<1> QED BY <1>1, <1>2, <1>3, <1>4, <1>5, <1>6, <1>7 DEF Home!Next

\* Clearing leaves no interval and starting leaves one, whatever there was.
LEMMA IntervalsCounted ==
  ASSUME IntervalInv
  PROVE  /\ Home!ClearInterval => live' = 0 /\ ~held'
         /\ Home!startCycling => live' = 1 /\ held'
<1>1. CASE held /\ live = 1
  BY <1>1 DEF Home!ClearInterval, Home!startCycling
<1>2. CASE ~held /\ live = 0
  BY <1>2 DEF Home!ClearInterval, Home!startCycling
<1> QED BY <1>1, <1>2 DEF IntervalInv

\* Pausing, clicking, resuming, hiding and showing each leave the one interval or none.
LEMMA IntervalKept ==
  ASSUME HomeBooleans, IntervalInv, [Home!Next]_(Home!vars)
  PROVE  IntervalInv'
<1> USE IntervalsCounted
<1> DEFINE Same == UNCHANGED <<held, live, isPaused, hidden>>
<1>0. Same => IntervalInv'
  BY DEF IntervalInv
<1>1. CASE Home!Tick \/ Home!CycleGoesOn
  BY <1>0, <1>1 DEF Home!Tick, Home!CycleGoesOn
<1>3. CASE \E i \in Chosen : Home!selectScenario(i)
  BY <1>3, Zenon DEF IntervalInv, Home!selectScenario
<1>4. CASE \E k \in DOMAIN choices : Home!ChoiceGoesOn(k)
  BY <1>0, <1>4 DEF Home!ChoiceGoesOn
<1>5. ASSUME NEW paused \in BOOLEAN, Home!SetPaused(paused), hidden' = hidden
      PROVE  IntervalInv'
  <2>1. CASE paused = isPaused
    BY <1>5, <2>1, Zenon DEF IntervalInv, Home!SetPaused
  <2>2. CASE paused /\ ~isPaused
    <3>1. Home!ClearInterval /\ isPaused' = paused
      BY <1>5, <2>2, Zenon DEF Home!SetPaused, Home!PauseEffect
    <3> QED BY <2>2, <3>1, Zenon DEF IntervalInv
  <2>3. CASE ~paused /\ isPaused
    <3>1. Home!startCycling /\ isPaused' = paused
      BY <1>5, <2>3, Zenon DEF Home!SetPaused, Home!PauseEffect
    <3>2. live' = 1 /\ held' /\ ~isPaused'
      BY <2>3, <3>1
    <3> QED BY <3>2 DEF IntervalInv
  <2> QED BY <1>5, <2>1, <2>2, <2>3, Zenon DEF HomeBooleans
<1>6. CASE Home!ChoiceResumes
  BY <1>5, <1>6, Zenon DEF Home!ChoiceResumes
<1>7. CASE Home!TogglePause
  BY <1>5, <1>7, Zenon DEF HomeBooleans, Home!TogglePause
<1>8. CASE Home!Hides
  BY <1>8, Zenon DEF IntervalInv, Home!Hides
<1>9. CASE Home!Shows
  <2>1. CASE isPaused
    BY <1>9, <2>1, Zenon DEF IntervalInv, Home!Shows, Home!CyclesWhenShown
  <2>2. CASE ~isPaused
    <3>1. live' = 1 /\ held' /\ isPaused' = isPaused
      BY <1>9, <2>2 DEF Home!Shows, Home!CyclesWhenShown
    <3> QED BY <2>2, <3>1 DEF IntervalInv
  <2> QED BY <2>1, <2>2
<1>10. CASE UNCHANGED Home!vars
  BY <1>0, <1>10 DEF Home!vars
<1> QED BY <1>1, <1>3, <1>4, <1>6, <1>7, <1>8, <1>9, <1>10 DEF Home!Next

LEMMA DecisionKept ==
  ASSUME HomeTypes, DecisionInv, [Home!Next]_(Home!vars)
  PROVE  DecisionInv'
<1>a. /\ Len(Home!Phases) = 4
      /\ \A p \in 1..4 : (Home!Phases[p] = "routing" <=> p = 3) /\ (Home!Phases[p] = "done" <=> p = 4)
  BY DEF Home!Phases
<1> USE DEF HomeTypes, DecisionInv, Home!None
<1>1. CASE Home!Tick
  BY <1>1 DEF Home!Tick
<1>2. CASE Home!CycleGoesOn
  <2>1. /\ cycle \in 1..3 /\ choices' = choices
        /\ cycle' = IF cycle + 1 = 4 THEN 0 ELSE cycle + 1
        /\ phase' = Home!Phases[cycle + 1]
        /\ isAnimating' = (isAnimating \/ Home!Phases[cycle + 1] = "routing")
    BY <1>2, <1>a DEF Home!CycleGoesOn, Home!Reach
  <2>2. CASE cycle = 1
    <3>1. cycle' = 2
      BY <2>1, <2>2
    <3> QED BY <3>1
  <2>3. CASE cycle = 2
    <3>1. cycle' = 3 /\ cycle + 1 = 3
      BY <2>1, <2>3
    <3>2. isAnimating' = (isAnimating \/ Home!Phases[3] = "routing") /\ Home!Phases[3] = "routing"
      BY <1>a, <2>1, <3>1
    <3>3. isAnimating'
      BY <3>2
    <3>4. cycle' # 0
      BY <3>1
    <3> QED BY <3>3, <3>4
  <2>4. CASE cycle = 3
    <3>1. cycle' = 0 /\ phase' = "done"
      BY <1>a, <2>1, <2>4
    <3>2. isAnimating => isAnimating'
      BY <2>1
    <3> QED BY <2>1, <2>4, <3>1, <3>2
  <2> QED BY <2>1, <2>2, <2>3, <2>4
<1>3. CASE \E i \in Chosen : Home!selectScenario(i)
  <2>1. PICK i \in Chosen : Home!selectScenario(i)
    BY <1>3
  <2>2. /\ Len(choices') = Len(choices) + 1
        /\ choices'[Len(choices) + 1].phase = 1
    BY <2>1 DEF Home!selectScenario
  <2> QED BY <2>2
<1>4. CASE \E k \in DOMAIN choices : Home!ChoiceGoesOn(k)
  <2>1. PICK k \in 1..Len(choices) : Home!ChoiceGoesOn(k)
    BY <1>4
  <2> DEFINE next == choices[k].phase + 1
  <2>2. next \in 2..4
    <3>1. choices[k].phase \in 1..4
      BY <2>1, ChoiceTyped
    <3>2. choices[k].phase + 1 <= 4
      BY <1>a, <2>1 DEF Home!ChoiceGoesOn
    <3> QED BY <3>1, <3>2
  <2>3. /\ Len(choices') = Len(choices) /\ choices'[k].phase = next
        /\ \A j \in 1..Len(choices) : j # k => choices'[j] = choices[j]
    BY <2>1, <2>2 DEF Home!ChoiceGoesOn
  <2>4. cycle' = cycle /\ phase' = Home!Phases[next]
        /\ isAnimating' = (isAnimating \/ Home!Phases[next] = "routing")
    BY <2>1 DEF Home!ChoiceGoesOn, Home!Reach
  <2> HIDE DEF next
  <2>5. isAnimating' \/ cycle' \in {1, 2} \/ \E j \in 1..Len(choices') : choices'[j].phase < 3
    <3>1. CASE next <= 3
      <4>1. CASE next = 3
        <5>1. isAnimating' = (isAnimating \/ Home!Phases[3] = "routing") /\ Home!Phases[3] = "routing"
          BY <1>a, <2>4, <4>1
        <5> QED BY <5>1
      <4>2. CASE next < 3
        BY <2>3, <4>2
      <4> QED BY <2>2, <3>1, <4>1, <4>2
    <3>2. CASE next = 4
      <4>1. choices[k].phase = 3
        <5>1. choices[k].phase \in 1..4
          BY <2>1, ChoiceTyped
        <5> QED BY <3>2, <5>1 DEF next
      <4>2. isAnimating => isAnimating'
        BY <2>4
      <4>3. \A j \in 1..Len(choices) : choices[j].phase < 3 => j # k /\ choices'[j] = choices[j]
        BY <2>3, <4>1
      <4> QED BY <2>3, <2>4, <4>2, <4>3
    <3> QED BY <2>2, <3>1, <3>2
  <2>6. phase' = "done" \/ cycle' # 0 \/ \E j \in 1..Len(choices') : choices'[j].phase < 4
    <3>1. CASE next = 4
      BY <1>a, <2>4, <3>1
    <3>2. CASE next < 4
      BY <2>3, <3>2
    <3> QED BY <2>2, <3>1, <3>2
  <2> QED BY <2>5, <2>6
<1>5. CASE Home!ChoiceResumes
  <2>1. /\ choices # <<>> /\ choices[1].phase = 4
        /\ choices' = Tail(choices)
        /\ isAnimating' = isAnimating /\ phase' = phase /\ cycle' = cycle
    BY <1>5, <1>a DEF Home!ChoiceResumes
  <2>2. ASSUME NEW n \in 3..4, NEW k \in 1..Len(choices), choices[k].phase < n
        PROVE  \E j \in 1..Len(choices') : choices'[j].phase < n
    <3>1. k # 1
      BY <2>1, <2>2
    <3>2. k - 1 \in 1..Len(choices') /\ choices'[k - 1] = choices[k]
      BY <2>1, <3>1
    <3> QED BY <2>2, <3>2
  <2> QED BY <2>1, <2>2
<1>6. CASE Home!TogglePause
  BY <1>6 DEF Home!TogglePause
<1>7. CASE Home!Hides
  BY <1>7 DEF Home!Hides
<1>8. CASE Home!Shows
  BY <1>8 DEF Home!Shows
<1>9. CASE UNCHANGED Home!vars
  BY <1>9 DEF Home!vars
<1> QED BY <1>1, <1>2, <1>3, <1>4, <1>5, <1>6, <1>7, <1>8, <1>9 DEF Home!Next

LEMMA ChosenKept ==
  ASSUME HomeTypes, IntervalInv, ChosenInv, [Home!Next]_(Home!vars), Home!ChoicesAssumption
  PROVE  ChosenInv'
<1>a. /\ Len(Home!Phases) = 4
      /\ \A p \in 1..4 : Home!Phases[p] = "routing" <=> p = 3
  BY DEF Home!Phases
<1> USE DEF HomeTypes, ChosenInv, Home!None
<1>1. CASE Home!Tick
  BY <1>1 DEF Home!Tick, IntervalInv
<1>2. CASE Home!CycleGoesOn
  BY <1>2, <1>a DEF Home!CycleGoesOn, Home!Reach
<1>3. CASE \E i \in Chosen : Home!selectScenario(i)
  <2>1. PICK i \in Chosen : Home!selectScenario(i)
    BY <1>3
  <2>2. /\ choices' # <<>> /\ choices'[Len(choices')] = [to |-> i, phase |-> 1]
    BY <2>1 DEF Home!selectScenario
  <2>3. isPaused' /\ cycle' = cycle /\ chosen' = IF cycle = 0 THEN i ELSE 0
    BY <2>1 DEF Home!selectScenario
  <2> QED BY <2>2, <2>3
<1>4. CASE \E k \in DOMAIN choices : Home!ChoiceGoesOn(k)
  <2>1. PICK k \in 1..Len(choices) : Home!ChoiceGoesOn(k)
    BY <1>4
  <2> DEFINE next == choices[k].phase + 1
  <2>2. next \in 2..4 /\ \A j \in 1..(k - 1) : choices[j].phase >= next
    <3>1. choices[k].phase \in 1..4
      BY <2>1, ChoiceTyped
    <3>2. choices[k].phase + 1 <= 4 /\ \A j \in 1..(k - 1) : choices[j].phase >= next
      BY <1>a, <2>1 DEF Home!ChoiceGoesOn
    <3> QED BY <3>1, <3>2
  <2>3. /\ Len(choices') = Len(choices) /\ choices'[k].phase = next /\ choices'[k].to = choices[k].to
        /\ \A j \in 1..Len(choices) : j # k => choices'[j] = choices[j]
    BY <2>1, <2>2 DEF Home!ChoiceGoesOn
  <2>4. /\ cycle' = cycle /\ chosen' = chosen /\ isPaused' = isPaused
        /\ activeIndex' = IF Home!Phases[next] = "routing" THEN choices[k].to ELSE activeIndex
    BY <2>1 DEF Home!ChoiceGoesOn, Home!Reach
  <2> SUFFICES ASSUME chosen # 0
               PROVE  \/ activeIndex' = chosen /\ \A j \in 1..Len(choices) : choices'[j].phase >= 3
                      \/ choices'[Len(choices)].to = chosen /\ choices'[Len(choices)].phase < 3
    <3>1. choices # <<>> => choices' # <<>>
      BY <2>3
    <3> QED BY <2>1, <2>3, <2>4, <3>1
  <2>5. CASE activeIndex = chosen /\ \A j \in 1..Len(choices) : choices[j].phase >= 3
    <3>1. next = 4
      <4>1. choices[k].phase \in 1..4 /\ choices[k].phase >= 3
        BY <2>1, <2>5, ChoiceTyped
      <4> QED BY <2>2, <4>1
    <3>2. activeIndex' = chosen
      BY <1>a, <2>4, <2>5, <3>1
    <3>3. \A j \in 1..Len(choices) : choices'[j].phase >= 3
      BY <2>3, <2>5, <3>1
    <3> QED BY <3>2, <3>3
  <2>6. CASE /\ choices # <<>>
             /\ choices[Len(choices)].to = chosen /\ choices[Len(choices)].phase < 3
    <3>1. CASE k = Len(choices)
      <4>1. next < 3 \/ next = 3
        <5>1. choices[k].phase \in 1..4 /\ choices[k].phase < 3
          BY <2>1, <2>6, <3>1, ChoiceTyped
        <5> QED BY <2>2, <5>1
      <4>2. CASE next = 3
        <5>1. activeIndex' = chosen
          BY <1>a, <2>4, <2>6, <3>1, <4>2
        <5>2. \A j \in 1..Len(choices) : choices'[j].phase >= 3
          <6> TAKE j \in 1..Len(choices)
          <6>1. CASE j = k
            BY <2>3, <4>2, <6>1
          <6>2. CASE j # k
            <7>1. j \in 1..(k - 1)
              BY <3>1, <6>2
            <7> QED BY <2>2, <2>3, <4>2, <6>2, <7>1
          <6> QED BY <6>1, <6>2
        <5> QED BY <5>1, <5>2
      <4> QED BY <2>3, <2>6, <3>1, <4>1, <4>2
    <3>2. CASE k # Len(choices)
      <4>1. Len(choices) \in 1..Len(choices)
        BY <2>1
      <4> QED BY <2>3, <2>6, <3>2, <4>1
    <3> QED BY <3>1, <3>2
  <2> QED BY <2>5, <2>6
<1>5. CASE Home!ChoiceResumes
  BY <1>5 DEF Home!ChoiceResumes, Home!SetPaused
<1>6. CASE Home!TogglePause
  BY <1>6 DEF Home!TogglePause, Home!SetPaused
<1>7. CASE Home!Hides
  BY <1>7 DEF Home!Hides
<1>8. CASE Home!Shows
  BY <1>8 DEF Home!Shows
<1>9. CASE UNCHANGED Home!vars
  BY <1>9 DEF Home!vars
<1> QED BY <1>1, <1>2, <1>3, <1>4, <1>5, <1>6, <1>7, <1>8, <1>9 DEF Home!Next

\* Whatever scenario is on display, its trace has labels for its intents.
LEMMA IntentsLabelled ==
  ASSUME activeIndex \in 1..7 PROVE Home!IntentsShown \subseteq Home!INTENT_LABELS
<1>1. \A i \in 1..7 :
        {Home!DEMO_SCENARIOS[i].intent} \cup Home!DEMO_SCENARIOS[i].sub_intents
          \subseteq Home!INTENT_LABELS
  BY DEF Home!DEMO_SCENARIOS, Home!DemoScenario, Home!INTENT_LABELS
<1> QED BY <1>1 DEF Home!IntentsShown, Home!scenario

LEMMA HomeInvariant == Spec => []HomeInv
<1>1. Init => HomeInv
  BY GroupsApart, HomeInitially
<1>2. HomeInv /\ [Next]_vars => HomeInv'
  BY GroupsApart, PagesAssumption, HomeTypesKept, HomeBooleansKept, IntervalKept, DecisionKept, ChosenKept DEF HomeInv
<1> QED BY <1>1, <1>2, PTL DEF Spec

\* For any scenarios clicked and any number of clicks under way: however clicks, pauses,
\* late resumptions and hiding the page mix, one interval cycles, the scenario clicked
\* last stands, and every change ends on a complete decision.
THEOREM RoutingStaysSteady == Spec => []RoutingDemoSteady
<1>1. HomeInv => RoutingDemoSteady
  <2> SUFFICES ASSUME HomeInv
               PROVE  Home!CycleKept /\ Home!ChoiceStands /\ Home!RestsOnDecision
    BY DEF RoutingDemoSteady
  <2>1. Home!CycleKept
    BY DEF HomeInv, HomeTypes, IntervalInv, Home!CycleKept
  <2>2. Home!ChoiceStands
    <3> SUFFICES ASSUME chosen # 0, \A k \in 1..Len(choices) : choices[k].phase >= 3
                 PROVE  activeIndex = chosen
      BY DEF HomeInv, HomeTypes, Home!ChoiceStands, Home!None
    <3>1. choices # <<>> => Len(choices) \in 1..Len(choices) /\ choices[Len(choices)].phase \in 1..4
      <4>1. choices # <<>> => Len(choices) \in 1..Len(choices)
        BY DEF HomeInv, HomeTypes
      <4> QED BY <4>1, ChoiceTyped DEF HomeInv
    <3> QED BY <3>1 DEF HomeInv, ChosenInv
  <2>3. Home!RestsOnDecision
    <3>1. Len(Home!Phases) = 4
      BY DEF Home!Phases
    <3>2. Home!IntentsShown \subseteq Home!INTENT_LABELS
      BY IntentsLabelled DEF HomeInv, HomeTypes
    <3> QED BY <3>1, <3>2 DEF HomeInv, HomeTypes, DecisionInv, Home!RestsOnDecision,
                              Home!PanelReady, Home!None
  <2> QED BY <2>1, <2>2, <2>3
<1> QED BY <1>1, HomeInvariant, PTL

-----------------------------------------------------------------------------
(* Solutions *)

\* The load that was asked for last has the filters of the page, or is outdated.  With
\* none under way the list on display has no spinner, and shows what is stored, unless
\* the last answer was outdated or a list that was left wrote to the store since.
LastLoad == solutionLoads[Len(solutionLoads)]

SolutionsInv ==
  /\ IsList(solutionLoads)
  /\ solutionsRoute # "list" => filters = Solutions!NoFilters
  /\ solutionLoads # <<>> => LastLoad.outdated \/ LastLoad.filters = filters
  /\ solutionsRoute = "list" /\ solutionLoads = <<>> =>
       /\ ~solutionsLoading
       /\ overtaken \/ astray \/ solutions = Solutions!Matching(stored, filters)

LEMMA LoadIs ==
  \A f, outdated : /\ Solutions!Load(f, outdated).filters = f
                   /\ Solutions!Load(f, outdated).outdated = outdated
BY DEF Solutions!Load

LEMMA LoadsAgain ==
  ASSUME SolutionsInv, NEW f, NEW outdated, Solutions!loadSolutions(f, outdated),
         outdated \/ f = filters',
         solutionsRoute' # "list" => filters' = Solutions!NoFilters
  PROVE  SolutionsInv'
<1>1. solutionLoads' = Append(solutionLoads, Solutions!Load(f, outdated))
  BY DEF Solutions!loadSolutions
<1>2. /\ IsList(solutionLoads') /\ solutionLoads' # <<>>
      /\ Len(solutionLoads') = Len(solutionLoads) + 1
      /\ solutionLoads'[Len(solutionLoads) + 1] = Solutions!Load(f, outdated)
  BY <1>1, ListAppended DEF SolutionsInv
<1>3. LastLoad' = Solutions!Load(f, outdated)
  BY <1>2 DEF LastLoad
<1> QED BY <1>2, <1>3, LoadIs DEF SolutionsInv

\* The list as it opens has asked for one load.
LEMMA OneLoad ==
  LET loads == <<Solutions!Load(Solutions!NoFilters, FALSE)>>
  IN  IsList(loads) /\ loads # <<>> /\ loads[Len(loads)].filters = Solutions!NoFilters
<1> DEFINE load == Solutions!Load(Solutions!NoFilters, FALSE)
<1>1. load.filters = Solutions!NoFilters
  BY LoadIs
<1> HIDE DEF load
<1>2. /\ <<load>> \in Seq({load}) /\ <<load>> # <<>>
      /\ Len(<<load>>) = 1 /\ <<load>>[1] = load
  OBVIOUS
<1>3. IsList(<<load>>)
  BY <1>2, ListOfAny
<1> QED BY <1>1, <1>2, <1>3 DEF load

\* An answer makes the loads that were asked for before it outdated, and leaves the last.
LEMMA OvertakenLoads ==
  ASSUME SolutionsInv, NEW i \in DOMAIN solutionLoads,
         solutionLoads' = RemoveAt(Solutions!Overtakes(i), i), filters' = filters
  PROVE  /\ IsList(solutionLoads')
         /\ solutionLoads' # <<>> => LastLoad'.outdated \/ LastLoad'.filters = filters'
         /\ solutionLoads' = <<>> => solutionLoads[i] = LastLoad
<1> DEFINE n == Len(solutionLoads)
           others == Solutions!Overtakes(i)
<1>1. n \in Nat /\ DOMAIN solutionLoads = 1..n /\ i \in 1..n
  BY ListOfAny DEF SolutionsInv, IsList
<1>2. /\ DOMAIN others = 1..n
      /\ \A j \in 1..n : /\ others[j].filters = solutionLoads[j].filters
                         /\ others[j].outdated = (solutionLoads[j].outdated \/ j < i)
  BY <1>1, LoadIs DEF Solutions!Overtakes
<1> HIDE DEF others
<1>3. IsList(others) /\ Len(others) = n
  <2>1. others \in Seq({others[j] : j \in DOMAIN others})
    <3>1. others = [j \in 1..n |-> others[j]]
      BY <1>2 DEF others, Solutions!Overtakes
    <3> QED BY <1>1, <1>2, <3>1
  <2>2. IsList(others)
    BY <2>1 DEF IsList
  <2>3. Len(others) \in Nat /\ DOMAIN others = 1..Len(others)
    BY <2>1, ListOfAny
  <2> QED BY <1>1, <1>2, <2>2, <2>3
<1>4. /\ IsList(solutionLoads') /\ Len(solutionLoads') = n - 1
      /\ \A j \in 1..(n - 1) : solutionLoads'[j] = others[IF j < i THEN j ELSE j + 1]
  <2>1. solutionLoads' = RemoveAt(others, i) /\ i \in DOMAIN others
    BY <1>1, <1>2 DEF others
  <2> QED BY <1>3, <2>1, ListRemoved
<1>5. ASSUME solutionLoads' # <<>> PROVE LastLoad'.outdated \/ LastLoad'.filters = filters'
  <2>1. n > 1
    <3>1. Len(solutionLoads') # 0
      BY <1>4, <1>5, EmptySeq DEF IsList
    <3> QED BY <1>1, <1>4, <3>1
  <2>2. LastLoad' = others[IF n - 1 < i THEN n - 1 ELSE n]
    BY <1>1, <1>4, <2>1 DEF LastLoad
  <2>3. CASE i = n
    <3>1. LastLoad' = others[n - 1] /\ n - 1 \in 1..n /\ n - 1 < i
      BY <1>1, <2>1, <2>2, <2>3
    <3> QED BY <1>2, <3>1
  <2>4. CASE i # n
    <3>1. LastLoad' = others[n] /\ n \in 1..n
      BY <1>1, <2>1, <2>2, <2>4
    <3>2. LastLoad'.filters = LastLoad.filters /\ (LastLoad.outdated => LastLoad'.outdated)
      BY <1>2, <3>1 DEF LastLoad
    <3>3. LastLoad.outdated \/ LastLoad.filters = filters
      <4>1. solutionLoads # <<>>
        OBVIOUS
      <4> QED BY <4>1 DEF SolutionsInv
    <3> QED BY <3>2, <3>3
  <2> QED BY <2>3, <2>4
<1>6. ASSUME solutionLoads' = <<>> PROVE solutionLoads[i] = LastLoad
  <2>1. n - 1 = 0
    BY <1>4, <1>6
  <2>2. i = n
    <3> HIDE DEF n
    <3>1. n = 1 /\ i \in Nat /\ 1 <= i /\ i <= n
      BY <1>1, <2>1
    <3> QED BY <3>1
  <2> QED BY <2>2 DEF LastLoad
<1> QED BY <1>4, <1>5, <1>6

LEMMA SolutionsKept ==
  ASSUME SolutionsInv, [Solutions!Next]_(Solutions!vars), Solutions!SolutionsAssumption
  PROVE  SolutionsInv'
<1> DEFINE Same ==
      UNCHANGED <<stored, solutionsRoute, solutions, solutionsLoading, filters, solutionLoads,
                  astray, overtaken>>
<1> USE DEF Solutions!ListUnchanged, Solutions!WritesUnchanged, Solutions!RouteUnchanged
<1>1. Same => SolutionsInv'
  BY DEF SolutionsInv, IsList, LastLoad
<1>2. CASE \E f \in Solutions!OneChanged : Solutions!Filter(f)
  <2>1. PICK f \in Solutions!OneChanged : Solutions!Filter(f)
    BY <1>2
  <2>2. /\ filters' = f /\ Solutions!loadSolutions(f, FALSE)
        /\ solutionsRoute = "list" /\ solutionsRoute' = solutionsRoute
    BY <2>1 DEF Solutions!Filter, Solutions!ListUsable
  <2> QED BY <2>2, LoadsAgain
<1>3. CASE \E i \in DOMAIN solutionLoads : Solutions!LoadAnswers(i)
  <2>1. PICK i \in DOMAIN solutionLoads : Solutions!LoadAnswers(i)
    BY <1>3
  <2>2. /\ solutionLoads' = RemoveAt(Solutions!Overtakes(i), i)
        /\ solutionsLoading' = FALSE /\ astray' = solutionLoads[i].outdated
        /\ solutions' = Solutions!Matching(stored, solutionLoads[i].filters)
        /\ UNCHANGED <<stored, filters, solutionsRoute>>
    BY <2>1 DEF Solutions!LoadAnswers, Solutions!RemoveAt, RemoveAt
  <2>3. /\ IsList(solutionLoads')
        /\ solutionLoads' # <<>> => LastLoad'.outdated \/ LastLoad'.filters = filters'
        /\ solutionLoads' = <<>> => solutionLoads[i] = LastLoad
    BY <2>2, OvertakenLoads
  <2>4. ASSUME solutionLoads' = <<>>
        PROVE  astray' \/ solutions' = Solutions!Matching(stored', filters')
    <3>1. solutionLoads # <<>>
      OBVIOUS
    <3>2. solutionLoads[i].outdated \/ solutionLoads[i].filters = filters
      BY <2>3, <2>4, <3>1 DEF SolutionsInv
    <3> QED BY <2>2, <3>2
  <2>5. solutionsRoute' # "list" => filters' = Solutions!NoFilters
    BY <2>2 DEF SolutionsInv
  <2> QED BY <2>2, <2>3, <2>4, <2>5 DEF SolutionsInv
<1>4. CASE \E id \in TouchedSolutions \cup NewIds : Solutions!openEdit(id) \/ Solutions!AskDelete(id)
  BY <1>1, <1>4 DEF Solutions!openEdit, Solutions!OpenForm, Solutions!AskDelete
<1>5. CASE \E id \in TouchedSolutions \cup NewIds : Solutions!OpenDetail(id)
  <2>1. solutionsRoute' # "list" /\ solutionLoads' = <<>> /\ filters' = Solutions!NoFilters
    BY <1>5 DEF Solutions!OpenDetail, Solutions!SolutionsAssumption
  <2>2. IsList(<<>>)
    BY EmptySeq, ListOfAny
  <2> QED BY <2>1, <2>2 DEF SolutionsInv
<1>6. CASE \/ Solutions!openCreate \/ Solutions!CancelForm \/ Solutions!handleSubmit
           \/ Solutions!CancelDelete \/ Solutions!handleDelete
           \/ \E f \in Solutions!OneFieldChanged : Solutions!EditForm(f)
  BY <1>1, <1>6 DEF Solutions!openCreate, Solutions!OpenForm, Solutions!CancelForm,
       Solutions!handleSubmit, Solutions!CancelDelete, Solutions!handleDelete,
       Solutions!EditForm, Solutions!Write
<1>7. ASSUME NEW i \in DOMAIN writing, Solutions!Succeeds(i)
      PROVE  SolutionsInv'
  <2>1. CASE writing[i].mounted
    <3>1. /\ Solutions!loadSolutions(writing[i].under, writing[i].under # filters)
          /\ UNCHANGED <<filters, solutionsRoute>>
      BY <1>7, <2>1 DEF Solutions!Succeeds, Solutions!Reloaded
    <3> QED BY <3>1, LoadsAgain DEF SolutionsInv
  <2>2. CASE ~writing[i].mounted
    <3>1. overtaken' /\ UNCHANGED <<solutionsRoute, solutionsLoading, solutionLoads, filters>>
      BY <1>7, <2>2 DEF Solutions!Succeeds
    <3> QED BY <3>1 DEF SolutionsInv, IsList, LastLoad
  <2> QED BY <2>1, <2>2
<1>8. CASE \E i \in DOMAIN writing :
             \/ \E id \in NewIds : Solutions!Creates(i, id)
             \/ Solutions!Updates(i) \/ Solutions!Deletes(i)
  BY <1>7, <1>8 DEF Solutions!Creates, Solutions!Updates, Solutions!Deletes
<1>9. CASE (\E i \in DOMAIN writing : Solutions!UpdateFails(i)) \/ Solutions!DetailAnswers
  BY <1>1, <1>9 DEF Solutions!UpdateFails, Solutions!DetailAnswers
<1>10. CASE Solutions!BackToList
  <2>1. /\ solutionLoads' = <<Solutions!Load(Solutions!NoFilters, FALSE)>>
        /\ filters = Solutions!NoFilters /\ filters' = filters /\ solutionsRoute' = "list"
    BY <1>10 DEF Solutions!BackToList, SolutionsInv
  <2>2. /\ IsList(solutionLoads') /\ solutionLoads' # <<>>
        /\ LastLoad'.filters = Solutions!NoFilters
    BY <2>1, OneLoad DEF LastLoad
  <2> QED BY <2>1, <2>2 DEF SolutionsInv
<1>11. CASE UNCHANGED Solutions!vars
  BY <1>1, <1>11 DEF Solutions!vars
<1> QED BY <1>2, <1>3, <1>4, <1>5, <1>6, <1>8, <1>9, <1>10, <1>11 DEF Solutions!Next

LEMMA SolutionsStay == Spec => []SolutionsInv
<1>1. Init => SolutionsInv
  <2> SUFFICES ASSUME Init PROVE SolutionsInv
    OBVIOUS
  <2>1. /\ solutionLoads = <<Solutions!Load(Solutions!NoFilters, FALSE)>>
        /\ filters = Solutions!NoFilters /\ solutionsRoute = "list"
    BY GroupsApart DEF Solutions!Init
  <2> QED BY <2>1, OneLoad DEF SolutionsInv, LastLoad
<1>2. SolutionsInv /\ [Next]_vars => SolutionsInv'
  BY GroupsApart, SolutionsKept, PagesAssumption
<1> QED BY <1>1, <1>2, PTL DEF Spec

-----------------------------------------------------------------------------
(* Agents *)

\* With no load under way the list on display has no spinner, and shows the agents of
\* the store unless a page that was left wrote since; its dialog waits for a deletion
\* of its own only.
AgentsInv ==
  /\ IsList(calls) /\ agentLoads \in Nat
  /\ agentsRoute = Agents!List =>
       /\ agentLoads = 0 => ~agentsLoading /\ (behind \/ agents = mockAgents)
       /\ deleting => \E i \in DOMAIN calls : calls[i].op = "delete" /\ calls[i].mounted

\* A list that opens loads; so does every list that opens on a call's end.
LEMMA Mounted ==
  ASSUME NEW r, Agents!Mount(r), IsList(calls')
  PROVE  AgentsInv'
<1>1. agentLoads' = (IF r.page = "list" THEN 1 ELSE 0) /\ agentsRoute' = r /\ ~deleting'
  BY DEF Agents!Mount
<1>2. r = Agents!List => r.page = "list"
  <2>1. \A p, about, template : Agents!Page(p, about, template).page = p
    BY DEF Agents!Page
  <2> QED BY <2>1, Zenon DEF Agents!List
<1>3. agentsRoute' = Agents!List => agentLoads' = 1
  BY <1>1, <1>2
<1>4. agentLoads' \in Nat
  BY <1>1
<1> QED BY <1>1, <1>3, <1>4 DEF AgentsInv

LEMMA ListLeft ==
  ASSUME NEW s, IsList(s)
  PROVE  IsList(Agents!Left(s))
<1> DEFINE l == [i \in 1..Len(s) |-> [s[i] EXCEPT !.mounted = FALSE]]
           S == {l[i] : i \in 1..Len(s)}
<1>1. Len(s) \in Nat /\ DOMAIN s = 1..Len(s)
  BY LenProperties DEF IsList
<1>2. Agents!Left(s) = l
  BY <1>1 DEF Agents!Left
<1>3. l \in Seq(S)
  <2>1. l \in [1..Len(s) -> S]
    OBVIOUS
  <2> HIDE DEF l, S
  <2> QED BY <1>1, <2>1, SeqDef
<1> HIDE DEF l
<1> QED BY <1>2, <1>3, ListOfAny

\* A call that ends takes no other one with it.
LEMMA AnotherEnds ==
  ASSUME AgentsInv, NEW i \in DOMAIN calls, calls' = RemoveAt(calls, i),
         UNCHANGED <<agentsRoute, agentLoads, agentsLoading, deleting, agents>>,
         calls[i].op # "delete" \/ ~calls[i].mounted,
         behind' \/ (behind' = behind /\ mockAgents' = mockAgents)
  PROVE  AgentsInv'
<1>1. IsList(calls')
  BY ListRemoved DEF AgentsInv
<1>2. ASSUME NEW k \in DOMAIN calls, calls[k].op = "delete", calls[k].mounted
      PROVE  \E j \in DOMAIN calls' : calls'[j].op = "delete" /\ calls'[j].mounted
  BY <1>2, OthersGoOn DEF AgentsInv
<1> QED BY <1>1, <1>2 DEF AgentsInv

LEMMA AnotherAsked ==
  ASSUME AgentsInv, NEW call, calls' = Append(calls, call),
         UNCHANGED <<mockAgents, agentsRoute, agentLoads, agentsLoading, agents, behind>>,
         deleting' => deleting \/ (call.op = "delete" /\ call.mounted)
  PROVE  AgentsInv'
<1>1. /\ IsList(calls') /\ DOMAIN calls = 1..Len(calls) /\ DOMAIN calls' = 1..(Len(calls) + 1)
      /\ Len(calls) \in Nat
  BY ListAppended, ListOfAny DEF AgentsInv, IsList
<1>2. ASSUME NEW k \in DOMAIN calls, calls[k].op = "delete", calls[k].mounted
      PROVE  \E j \in DOMAIN calls' : calls'[j].op = "delete" /\ calls'[j].mounted
  BY <1>1, <1>2, ListAppended DEF AgentsInv
<1>3. call.op = "delete" /\ call.mounted =>
        \E j \in DOMAIN calls' : calls'[j].op = "delete" /\ calls'[j].mounted
  BY <1>1, ListAppended DEF AgentsInv
<1> QED BY <1>1, <1>2, <1>3 DEF AgentsInv

LEMMA CallAsks ==
  \A op, agent, item, wasSelected :
    /\ Agents!Call(op, agent, item, wasSelected).op = op
    /\ Agents!Call(op, agent, item, wasSelected).mounted
BY DEF Agents!Call

LEMMA AgentsKept ==
  ASSUME AgentsInv, [Agents!Next]_(Agents!vars)
  PROVE  AgentsInv'
<1> USE DEF Agents!listVars, Agents!formVars, Agents!memoryVars, Agents!store
<1> DEFINE Same == UNCHANGED <<mockAgents, agentsRoute, calls, agents, agentsLoading, deleting,
                               agentLoads, behind>>
<1>0. /\ Same => AgentsInv'
      /\ \A i \in DOMAIN calls : Agents!RemoveAt(calls, i) = RemoveAt(calls, i)
  BY DEF AgentsInv, IsList, Agents!RemoveAt, RemoveAt
<1>1. CASE Agents!Navigate
  <2>1. PICK r \in Agents!Links : Agents!Open(r)
    BY <1>1 DEF Agents!Navigate
  <2> QED BY <2>1, Mounted, ListLeft DEF Agents!Open, AgentsInv
<1>2. CASE Agents!LoadAnswers
  <2>1. agentLoads' \in Nat /\ agents' = mockAgents' /\ ~agentsLoading'
        /\ UNCHANGED <<agentsRoute, calls, deleting>>
    BY <1>2 DEF Agents!LoadAnswers, AgentsInv
  <2> QED BY <2>1 DEF AgentsInv, IsList
<1>3. CASE \/ \E id \in TouchedAgents : Agents!AskDelete(id)
           \/ Agents!CloseDelete \/ Agents!Edit \/ Agents!Prefills
  BY <1>0, <1>3 DEF Agents!AskDelete, Agents!CloseDelete, Agents!Edit, Agents!Prefills,
       Agents!FormUnchanged, Agents!OthersOfForm
<1>4. CASE Agents!handleDelete
  <2>1. PICK call : calls' = Append(calls, call) /\ call.op = "delete" /\ call.mounted
    <3> DEFINE started == Agents!Call("delete", agentToDelete, "", FALSE)
    <3>1. calls' = Append(calls, started)
      BY <1>4, Zenon DEF Agents!handleDelete, Agents!Asks
    <3>2. started.op = "delete" /\ started.mounted
      BY CallAsks, ZenonT(30)
    <3> HIDE DEF started
    <3> QED BY <3>1, <3>2
  <2>2. UNCHANGED <<mockAgents, agentsRoute, agentLoads, agentsLoading, agents, behind>>
    BY <1>4 DEF Agents!handleDelete, Agents!Asks
  <2> QED BY <2>1, <2>2, AnotherAsked
<1>5. CASE \/ Agents!handleSubmit
           \/ \E m \in Used \cap Agents!longTermMemories : Agents!handleDeleteMemory(m)
           \/ \E c \in Used \cap Agents!conversations : Agents!handleDeleteConversation(c)
  <2>1. PICK call : calls' = Append(calls, call)
    BY <1>5, Zenon DEF Agents!handleSubmit, Agents!handleDeleteMemory,
         Agents!handleDeleteConversation, Agents!Asks
  <2>2. /\ UNCHANGED <<mockAgents, agentsRoute, agentLoads, agentsLoading, agents, behind>>
        /\ deleting' = deleting
    BY <1>5, Zenon DEF Agents!handleSubmit, Agents!handleDeleteMemory,
         Agents!handleDeleteConversation, Agents!Asks
  <2>3. deleting' => deleting
    BY <2>2, Zenon
  <2> QED BY <2>1, <2>2, <2>3, AnotherAsked
<1>6. CASE \/ \E a \in Agents!Memories : Agents!FetchEnds(a) \/ Agents!GoesStale(a)
           \/ Agents!Focus
           \/ \E c \in Used \cap Agents!conversations : Agents!SelectConversation(c)
  BY <1>0, <1>6 DEF Agents!FetchEnds, Agents!GoesStale, Agents!Focus, Agents!SelectConversation,
       Agents!OthersOfMemory
<1>7. ASSUME NEW i \in DOMAIN calls, Agents!DeleteEnds(i)
      PROVE  AgentsInv'
  <2>1. /\ calls' = RemoveAt(calls, i) /\ agentsRoute' = agentsRoute /\ agents' = agents
        /\ calls[i].op = "delete"
    BY <1>0, <1>7 DEF Agents!DeleteEnds, Agents!Ends
  <2>2. CASE calls[i].mounted
    <3>1. ~deleting' /\ agentLoads' = agentLoads + 1
      BY <1>7, <2>2 DEF Agents!DeleteEnds, Agents!loadAgents
    <3>2. agentLoads' \in Nat /\ agentLoads' # 0
      BY <3>1 DEF AgentsInv
    <3>3. IsList(calls')
      BY <2>1, ListRemoved DEF AgentsInv
    <3> QED BY <3>1, <3>2, <3>3 DEF AgentsInv
  <2>3. CASE ~calls[i].mounted
    <3>1. behind' /\ UNCHANGED <<deleting, agentsLoading, agentLoads>>
      BY <1>7, <2>3 DEF Agents!DeleteEnds
    <3> QED BY <2>1, <2>3, <3>1, AnotherEnds
  <2> QED BY <2>2, <2>3
<1>8. ASSUME NEW i \in DOMAIN calls, NEW digits \in Digits, Agents!CreateEnds(i, digits)
      PROVE  AgentsInv'
  <2>1. CASE agentsRoute # Agents!List
    <3>1. Agents!Mount(Agents!List) /\ calls' = Agents!Left(RemoveAt(calls, i))
      BY <1>0, <1>8, <2>1 DEF Agents!CreateEnds
    <3>2. IsList(calls')
      BY <3>1, ListRemoved, ListLeft DEF AgentsInv
    <3> QED BY <3>1, <3>2, Mounted
  <2>2. CASE agentsRoute = Agents!List
    <3>1. /\ behind' /\ calls' = RemoveAt(calls, i) /\ calls[i].op # "delete"
          /\ UNCHANGED <<agentsRoute, agentLoads, agentsLoading, deleting, agents>>
      BY <1>0, <1>8, <2>2 DEF Agents!CreateEnds
    <3> QED BY <3>1, AnotherEnds
  <2> QED BY <2>1, <2>2
<1>9. ASSUME NEW i \in DOMAIN calls, Agents!MemoryDeleted(i) \/ Agents!ConversationDeleted(i)
      PROVE  AgentsInv'
  <2>1. /\ calls' = RemoveAt(calls, i) /\ calls[i].op # "delete"
        /\ UNCHANGED <<mockAgents, agentsRoute, agentLoads, agentsLoading, deleting, agents, behind>>
    BY <1>0, <1>9 DEF Agents!MemoryDeleted, Agents!ConversationDeleted, Agents!Ends,
         Agents!OthersOfMemory
  <2> QED BY <2>1, AnotherEnds
<1>10. CASE UNCHANGED Agents!vars
  BY <1>0, <1>10 DEF Agents!vars
<1> QED BY <1>1, <1>2, <1>3, <1>4, <1>5, <1>6, <1>7, <1>8, <1>9, <1>10 DEF Agents!Next

LEMMA AgentsStay == Spec => []AgentsInv
<1>1. Init => AgentsInv
  <2> SUFFICES ASSUME Init PROVE AgentsInv
    OBVIOUS
  <2>1. calls = <<>> /\ agentLoads = 1 /\ ~deleting
    BY GroupsApart DEF Agents!Init
  <2>2. IsList(calls)
    BY <2>1, EmptySeq, ListOfAny
  <2> QED BY <2>1, <2>2 DEF AgentsInv
<1>2. AgentsInv /\ [Next]_vars => AgentsInv'
  BY GroupsApart, AgentsKept
<1> QED BY <1>1, <1>2, PTL DEF Spec

\* For any solutions, filters and number of requests: however the loads and writes of the
\* list overtake each other, it ends as what the store has under the filters of the page,
\* without spinner, unless the last answer was outdated.
THEOREM ListEndsAsStored == Spec => []ListIsStored
<1>1. SolutionsInv => ListIsStored
  BY DEF SolutionsInv, ListIsStored, Solutions!ListIsStored
<1> QED BY <1>1, SolutionsStay, PTL

\* For any agents and number of requests: however loads, deletions and creations overtake
\* each other, the list of agents ends as what the store has, without spinner.
THEOREM AgentsEndListed == Spec => []AgentsListed
<1>1. AgentsInv => AgentsListed
  BY DEF AgentsInv, AgentsListed, Agents!AgentsListed
<1> QED BY <1>1, AgentsStay, PTL

\* Memories deleted on the page of an agent are in what the cache has for it only while
\* that is fetched, or before its page opens, which then fetches as it is stale.
Cached == [loaded : BOOLEAN, data : SUBSET Agents!longTermMemories, stale : BOOLEAN, fetching : BOOLEAN]

ShowsMemories(a) == agentsRoute.page = "memory" /\ agentsRoute.about = a

Forgotten(a) ==
  /\ ~memoryQueries[a].loaded => memoryQueries[a].data = {}
  /\ \/ memoryQueries[a].data \cap confirmed[a] = {}
     \/ memoryQueries[a].fetching
     \/ memoryQueries[a].stale /\ ~ShowsMemories(a)

MemoriesInv ==
  /\ memoryQueries \in [TouchedAgents -> Cached]
  /\ confirmed \in [TouchedAgents -> SUBSET deletedLtmIds]
  /\ agentsRoute.page = "memory" => agentsRoute.about \in TouchedAgents
  /\ \A a \in TouchedAgents : Forgotten(a)

LEMMA LinksLead ==
  ASSUME NEW r \in Agents!Links \cup {Agents!List}, r.page = "memory"
  PROVE  r.about \in TouchedAgents
<1>1. \A p, about, template :
        /\ Agents!Page(p, about, template).page = p
        /\ Agents!Page(p, about, template).about = about
  BY DEF Agents!Page
<1>2. r # Agents!List /\ r # Agents!Templates /\ r # Agents!New
      /\ \A about, template : r # Agents!Page("new", about, template)
  <2>1. "memory" # "list" /\ "memory" # "templates" /\ "memory" # "new"
    OBVIOUS
  <2>2. Agents!List.page = "list"
    BY <1>1, Zenon DEF Agents!List
  <2>3. Agents!Templates.page = "templates"
    BY <1>1, Zenon DEF Agents!Templates
  <2>4. Agents!New.page = "new"
    BY <1>1, Zenon DEF Agents!New
  <2> QED BY <1>1, <2>1, <2>2, <2>3, <2>4
<1>3. PICK id \in TouchedAgents : \E template : r = Agents!Page("memory", id, template)
  <2>1. r \in UNION {{Agents!Page("new", id, ""), Agents!Page("memory", id, "")} :
                       id \in {x \in TouchedAgents : Agents!CardShown(x)}}
    BY <1>2, Zenon DEF Agents!Links
  <2> QED BY <1>2, <2>1, Zenon
<1> QED BY <1>1, <1>3

\* Fetching an agent's memories when its page opens or has the focus again.
LEMMA FetchedWhenShown ==
  ASSUME NEW entries \in [TouchedAgents -> Cached], NEW a \in TouchedAgents
  PROVE  /\ Agents!Fetched(entries, a) \in [TouchedAgents -> Cached]
         /\ \A b \in TouchedAgents :
              /\ Agents!Fetched(entries, a)[b].data = entries[b].data
              /\ Agents!Fetched(entries, a)[b].loaded = entries[b].loaded
              /\ Agents!Fetched(entries, a)[b].stale = entries[b].stale
              /\ entries[b].fetching => Agents!Fetched(entries, a)[b].fetching
         /\ ~entries[a].loaded \/ entries[a].stale => Agents!Fetched(entries, a)[a].fetching
<1> DEFINE fetch == entries[a].fetching \/ ~entries[a].loaded \/ entries[a].stale
<1>1. fetch \in BOOLEAN
  OBVIOUS
<1>2. Agents!Fetched(entries, a) = [entries EXCEPT ![a].fetching = fetch]
  BY DEF Agents!Fetched
<1>3. (entries[a].fetching => fetch) /\ (~entries[a].loaded \/ entries[a].stale => fetch)
  OBVIOUS
<1> HIDE DEF fetch
<1> QED BY <1>1, <1>2, <1>3 DEF Cached

LEMMA MemoriesMounted ==
  ASSUME MemoriesInv, NEW r \in Agents!Links \cup {Agents!List}, Agents!Mount(r),
         UNCHANGED <<deletedLtmIds, confirmed>>
  PROVE  MemoriesInv'
<1>1. agentsRoute' = r /\ (r.page = "memory" => r.about \in TouchedAgents)
  BY LinksLead DEF Agents!Mount
<1>2. CASE r.page = "memory"
  <2>1. memoryQueries' = Agents!Fetched(memoryQueries, r.about)
    BY <1>2 DEF Agents!Mount
  <2>2. memoryQueries' \in [TouchedAgents -> Cached]
    BY <1>1, <1>2, <2>1, FetchedWhenShown DEF MemoriesInv
  <2>3. ASSUME NEW b \in TouchedAgents PROVE Forgotten(b)'
    <3>1. /\ memoryQueries'[b].data = memoryQueries[b].data
          /\ memoryQueries'[b].loaded = memoryQueries[b].loaded
          /\ memoryQueries'[b].stale = memoryQueries[b].stale
          /\ memoryQueries[b].fetching => memoryQueries'[b].fetching
          /\ memoryQueries[b].stale /\ b = r.about => memoryQueries'[b].fetching
      BY <1>1, <1>2, <2>1, FetchedWhenShown DEF MemoriesInv
    <3>2. Forgotten(b)
      BY DEF MemoriesInv
    <3> QED BY <1>1, <3>1, <3>2 DEF Forgotten, ShowsMemories
  <2> QED BY <1>1, <2>2, <2>3 DEF MemoriesInv
<1>3. CASE r.page # "memory"
  <2>1. memoryQueries' = memoryQueries
    BY <1>3 DEF Agents!Mount
  <2> QED BY <1>1, <1>3, <2>1 DEF MemoriesInv, Forgotten, ShowsMemories
<1> QED BY <1>2, <1>3

LEMMA MemoriesKept ==
  ASSUME MemoriesInv, [Agents!Next]_(Agents!vars)
  PROVE  MemoriesInv'
<1> USE DEF Agents!listVars, Agents!formVars, Agents!memoryVars, Agents!store
<1> DEFINE Same == UNCHANGED <<agentsRoute, memoryQueries, confirmed, deletedLtmIds>>
<1>0. Same => MemoriesInv'
  BY DEF MemoriesInv, Forgotten, ShowsMemories
<1>1. CASE Agents!Navigate
  <2>1. PICK r \in Agents!Links : Agents!Open(r)
    BY <1>1 DEF Agents!Navigate
  <2> QED BY <2>1, MemoriesMounted DEF Agents!Open
<1>2. CASE \/ Agents!LoadAnswers \/ Agents!CloseDelete \/ Agents!Edit \/ Agents!Prefills
           \/ \E id \in TouchedAgents : Agents!AskDelete(id)
  BY <1>0, <1>2 DEF Agents!LoadAnswers, Agents!CloseDelete, Agents!Edit, Agents!Prefills,
       Agents!AskDelete, Agents!FormUnchanged, Agents!OthersOfForm
<1>3. CASE \/ Agents!handleDelete \/ Agents!handleSubmit
           \/ \E m \in Used \cap Agents!longTermMemories : Agents!handleDeleteMemory(m)
           \/ \E c \in Used \cap Agents!conversations : Agents!handleDeleteConversation(c)
  <2>1. Same
    BY <1>3, Zenon DEF Agents!handleDelete, Agents!handleSubmit, Agents!handleDeleteMemory,
         Agents!handleDeleteConversation, Agents!Asks
  <2> QED BY <1>0, <2>1
<1>4. ASSUME NEW a \in TouchedAgents, Agents!FetchEnds(a)
      PROVE  MemoriesInv'
  <2> DEFINE fresh == [loaded |-> TRUE, data |-> Agents!longTermMemories \ deletedLtmIds,
                       stale |-> FALSE, fetching |-> FALSE]
  <2>1. /\ memoryQueries' = [memoryQueries EXCEPT ![a] = fresh]
        /\ UNCHANGED <<agentsRoute, confirmed, deletedLtmIds>>
    BY <1>4 DEF Agents!FetchEnds, Agents!OthersOfMemory, Agents!searchLongTermMemory
  <2>2. fresh \in Cached /\ fresh.loaded /\ fresh.data \cap confirmed[a] = {}
    BY DEF MemoriesInv, Cached
  <2> HIDE DEF fresh
  <2>3. memoryQueries' \in [TouchedAgents -> Cached]
    BY <2>1, <2>2 DEF MemoriesInv
  <2>4. ASSUME NEW b \in TouchedAgents PROVE Forgotten(b)'
    <3>1. CASE b = a
      BY <2>1, <2>2, <3>1 DEF MemoriesInv, Forgotten
    <3>2. CASE b # a
      BY <2>1, <3>2 DEF MemoriesInv, Forgotten, ShowsMemories
    <3> QED BY <3>1, <3>2
  <2> QED BY <2>1, <2>3, <2>4 DEF MemoriesInv
<1>5. ASSUME NEW a \in TouchedAgents, Agents!GoesStale(a)
      PROVE  MemoriesInv'
  <2>1. /\ memoryQueries' = [memoryQueries EXCEPT ![a].stale = TRUE]
        /\ UNCHANGED <<agentsRoute, confirmed, deletedLtmIds>> /\ ~memoryQueries[a].stale
    BY <1>5 DEF Agents!GoesStale, Agents!OthersOfMemory
  <2>2. memoryQueries' \in [TouchedAgents -> Cached]
    BY <2>1 DEF MemoriesInv, Cached
  <2>3. ASSUME NEW b \in TouchedAgents PROVE Forgotten(b)'
    <3>1. /\ memoryQueries'[b].data = memoryQueries[b].data
          /\ memoryQueries'[b].loaded = memoryQueries[b].loaded
          /\ memoryQueries'[b].fetching = memoryQueries[b].fetching
          /\ memoryQueries[b].stale => memoryQueries'[b].stale
      BY <2>1 DEF MemoriesInv, Cached
    <3>2. Forgotten(b)
      BY DEF MemoriesInv
    <3> QED BY <2>1, <3>1, <3>2 DEF Forgotten, ShowsMemories
  <2> QED BY <2>1, <2>2, <2>3 DEF MemoriesInv
<1>6. CASE Agents!Focus
  <2>1. /\ memoryQueries' = Agents!Fetched(memoryQueries, agentsRoute.about)
        /\ agentsRoute.about \in TouchedAgents
        /\ UNCHANGED <<agentsRoute, confirmed, deletedLtmIds>>
    BY <1>6 DEF Agents!Focus, Agents!OthersOfMemory, MemoriesInv
  <2>2. memoryQueries' \in [TouchedAgents -> Cached]
    BY <2>1, FetchedWhenShown DEF MemoriesInv
  <2>3. ASSUME NEW b \in TouchedAgents PROVE Forgotten(b)'
    <3>1. /\ memoryQueries'[b].data = memoryQueries[b].data
          /\ memoryQueries'[b].loaded = memoryQueries[b].loaded
          /\ memoryQueries'[b].stale = memoryQueries[b].stale
          /\ memoryQueries[b].fetching => memoryQueries'[b].fetching
      BY <2>1, FetchedWhenShown DEF MemoriesInv
    <3>2. Forgotten(b)
      BY DEF MemoriesInv
    <3> QED BY <2>1, <3>1, <3>2 DEF Forgotten, ShowsMemories
  <2> QED BY <2>1, <2>2, <2>3 DEF MemoriesInv
<1>7. CASE \E c \in Used \cap Agents!conversations : Agents!SelectConversation(c)
  BY <1>0, <1>7 DEF Agents!SelectConversation, Agents!OthersOfMemory
<1>8. CASE \E i \in DOMAIN calls : Agents!DeleteEnds(i) \/ Agents!ConversationDeleted(i)
  BY <1>0, <1>8, Zenon DEF Agents!DeleteEnds, Agents!ConversationDeleted, Agents!OthersOfMemory
<1>9. ASSUME NEW i \in DOMAIN calls, NEW digits \in Digits, Agents!CreateEnds(i, digits)
      PROVE  MemoriesInv'
  <2>1. CASE agentsRoute # Agents!List
    BY <1>9, <2>1, MemoriesMounted DEF Agents!CreateEnds
  <2>2. CASE agentsRoute = Agents!List
    BY <1>0, <1>9, <2>2 DEF Agents!CreateEnds
  <2> QED BY <2>1, <2>2
<1>10. ASSUME NEW i \in DOMAIN calls, Agents!MemoryDeleted(i)
       PROVE  MemoriesInv'
  <2> DEFINE a == calls[i].agent
             item == calls[i].item
             shown == ShowsMemories(a)
             fetch == memoryQueries[a].fetching \/ shown
  <2>1. /\ confirmed' = [confirmed EXCEPT ![a] = confirmed[a] \cup {item}]
        /\ deletedLtmIds' = deletedLtmIds \cup {item}
        /\ memoryQueries' = [memoryQueries EXCEPT ![a].stale = memoryQueries[a].loaded,
                                                  ![a].fetching = fetch]
        /\ agentsRoute' = agentsRoute
    BY <1>10 DEF Agents!MemoryDeleted, Agents!Invalidated, Agents!OthersOfMemory, ShowsMemories
  <2>2. CASE a \in TouchedAgents
    <3>1. fetch \in BOOLEAN /\ (memoryQueries[a].fetching \/ shown => fetch)
      OBVIOUS
    <3> HIDE DEF fetch, shown
    <3>2. /\ memoryQueries' \in [TouchedAgents -> Cached]
          /\ \A b \in TouchedAgents : b # a => memoryQueries'[b] = memoryQueries[b]
          /\ memoryQueries'[a].data = memoryQueries[a].data
          /\ memoryQueries'[a].loaded = memoryQueries[a].loaded
          /\ memoryQueries'[a].stale = memoryQueries[a].loaded
          /\ memoryQueries'[a].fetching = fetch
      <4> HIDE DEF a
      <4> QED BY <2>1, <2>2, <3>1 DEF MemoriesInv, Cached
    <3>3. /\ confirmed' \in [TouchedAgents -> SUBSET (deletedLtmIds')]
          /\ \A b \in TouchedAgents : b # a => confirmed'[b] = confirmed[b]
      <4> HIDE DEF a, item
      <4> QED BY <2>1, <2>2 DEF MemoriesInv
    <3>4. ASSUME NEW b \in TouchedAgents PROVE Forgotten(b)'
      <4>1. Forgotten(b)
        BY DEF MemoriesInv
      <4>2. CASE b = a
        <5>1. ShowsMemories(b)' => shown
          BY <2>1, <4>2 DEF shown, ShowsMemories
        <5> HIDE DEF a
        <5>2. ShowsMemories(b)' => memoryQueries'[b].fetching
          BY <3>1, <3>2, <4>2, <5>1
        <5>3. memoryQueries[b].fetching => memoryQueries'[b].fetching
          BY <3>1, <3>2, <4>2
        <5> QED BY <3>2, <4>1, <4>2, <5>2, <5>3 DEF Forgotten
      <4>3. CASE b # a
        BY <2>1, <3>2, <3>3, <4>1, <4>3 DEF Forgotten, ShowsMemories
      <4> QED BY <4>2, <4>3
    <3> QED BY <2>1, <3>2, <3>3, <3>4 DEF MemoriesInv
  <2>3. CASE a \notin TouchedAgents
    <3>1. memoryQueries' = memoryQueries /\ confirmed' = confirmed
      <4> HIDE DEF a, item, fetch
      <4> QED BY <2>1, <2>3 DEF MemoriesInv
    <3>2. confirmed' \in [TouchedAgents -> SUBSET (deletedLtmIds')]
      BY <2>1, <3>1 DEF MemoriesInv
    <3> QED BY <2>1, <3>1, <3>2 DEF MemoriesInv, Forgotten, ShowsMemories
  <2> QED BY <2>2, <2>3
<1>11. CASE UNCHANGED Agents!vars
  BY <1>0, <1>11 DEF Agents!vars
<1> QED BY <1>1, <1>2, <1>3, <1>4, <1>5, <1>6, <1>7, <1>8, <1>9, <1>10, <1>11
        DEF Agents!Next, Agents!Memories

\* For any agents and memories: what was deleted on the page of an agent is not on that
\* page any more, however fetches, deletions and leaving the page interleave.
THEOREM MemoriesStayForgotten == Spec => []MemoriesForgotten
<1>1. Init => MemoriesInv
  <2> SUFFICES ASSUME Init PROVE MemoriesInv
    OBVIOUS
  <2>1. /\ memoryQueries = [a \in TouchedAgents |-> Agents!NoQuery]
        /\ confirmed = [a \in TouchedAgents |-> {}] /\ agentsRoute = Agents!List
    BY GroupsApart DEF Agents!Init, Agents!Memories
  <2>2. Agents!NoQuery \in Cached /\ Agents!NoQuery.data = {}
    BY DEF Agents!NoQuery, Cached
  <2>3. agentsRoute.page = "memory" => agentsRoute.about \in TouchedAgents
    BY <2>1, LinksLead
  <2> QED BY <2>1, <2>2, <2>3 DEF MemoriesInv, Forgotten
<1>2. MemoriesInv /\ [Next]_vars => MemoriesInv'
  BY GroupsApart, MemoriesKept
<1>3. MemoriesInv => MemoriesForgotten
  BY DEF MemoriesInv, Forgotten, ShowsMemories, MemoriesForgotten, Agents!MemoriesForgotten,
         Agents!Shown
<1> QED BY <1>1, <1>2, <1>3, PTL DEF Spec

-----------------------------------------------------------------------------
(* Demo *)

Run == [id : Played, step : Nat \ {0}, revealed : Nat]

\* A run of the scenario on display is yet to end the step s.
Coming(s) == \E i \in DOMAIN runs : runs[i].id = activeScenario /\ runs[i].step <= s

\* Whatever the page will show at rest is shown already, or a run is to bring it.
DemoInv ==
  /\ runs \in Seq(Run) /\ selectorReveal \in Nat
  /\ activeScenario \in Played \cup {Demo!NoScenario}
  /\ runs = <<>> => ~running /\ (activeScenario # Demo!NoScenario => showResponse)
  /\ activeScenario # Demo!NoScenario =>
       \A s \in DOMAIN Demo!Scenario(activeScenario).steps : s \in completedSteps \/ Coming(s)
  /\ activeScenario = "mega" => selectorReveal >= 6 \/ Coming(3)
  /\ activeScenario = "mega" => selectorWinner \/ Coming(4)

LEMMA Scenarios ==
  /\ Demo!NoScenario \notin Played
  /\ \A id \in Played :
       /\ id # "mega" => /\ Len(Demo!Scenario(id).steps) = 4 /\ Demo!Scenario(id).candidates = 0
                         /\ \A s \in 1..4 : Demo!Scenario(id).steps[s] = "plain"
       /\ id = "mega" => /\ Len(Demo!Scenario(id).steps) = 6 /\ Demo!Scenario(id).candidates = 6
                         /\ \A s \in 1..6 : /\ Demo!Scenario(id).steps[s] = "candidates" <=> s = 3
                                            /\ Demo!Scenario(id).steps[s] = "verdict" <=> s = 4
       /\ DOMAIN Demo!Scenario(id).steps = 1..Len(Demo!Scenario(id).steps)
<1> DEFINE shipped == {"fta", "rag", "skill", "log", "change", "capacity", "security", "database",
                       "network"}
<1>1. Played \subseteq shipped \cup {"mega"}
  BY PagesAssumption DEF Demo!DemoAssumption, Demo!demoScenarios
<1>2. \A id \in shipped : Demo!Scenario(id) = [steps |-> Demo!plainSteps, candidates |-> 0]
  BY DEF Demo!Scenario, Demo!demoScenarios
<1>3. Demo!Scenario("mega") = [steps |-> Demo!megaSteps, candidates |-> 6]
  BY DEF Demo!Scenario, Demo!megaScenario
<1>4. /\ Len(Demo!plainSteps) = 4 /\ DOMAIN Demo!plainSteps = 1..4
      /\ \A s \in 1..4 : Demo!plainSteps[s] = "plain"
  BY DEF Demo!plainSteps
<1>5. /\ Len(Demo!megaSteps) = 6 /\ DOMAIN Demo!megaSteps = 1..6
      /\ \A s \in 1..6 : /\ Demo!megaSteps[s] = "candidates" <=> s = 3
                         /\ Demo!megaSteps[s] = "verdict" <=> s = 4
  BY DEF Demo!megaSteps
<1>6. Demo!NoScenario \notin Played
  BY <1>1 DEF Demo!NoScenario
<1>7. "mega" \notin shipped
  OBVIOUS
<1> HIDE DEF shipped
<1> QED BY <1>1, <1>2, <1>3, <1>4, <1>5, <1>6, <1>7

\* A run that comes goes on coming while others do something.
LEMMA StillComing ==
  ASSUME DemoInv, NEW s \in Nat, NEW i \in DOMAIN runs, Coming(s),
         runs[i].id # activeScenario \/ runs[i].step # s,
         NEW next \in Run, runs' = [runs EXCEPT ![i] = next],
         next.id = runs[i].id /\ next.step <= runs[i].step + 1,
         activeScenario' = activeScenario
  PROVE  Coming(s)'
<1>1. PICK j \in DOMAIN runs : runs[j].id = activeScenario /\ runs[j].step <= s
  BY DEF Coming
<1>2. runs \in Seq(Run) /\ DOMAIN runs' = DOMAIN runs
  BY DEF DemoInv
<1>3. CASE j = i
  <2>1. runs[i].step \in Nat
    <3>1. runs[i] \in Run
      BY <1>2, ElementOfSeq
    <3> QED BY <3>1 DEF Run
  <2>2. runs'[i] = next
    BY <1>2
  <2>3. next.step \in Nat
    BY DEF Run
  <2>4. next.step <= s
    BY <1>1, <1>3, <2>1, <2>3
  <2> QED BY <1>1, <1>2, <1>3, <2>2, <2>4 DEF Coming
<1>4. CASE j # i
  <2>1. runs'[j] = runs[j]
    BY <1>2, <1>4
  <2> QED BY <1>1, <1>2, <2>1 DEF Coming
<1> QED BY <1>3, <1>4

LEMMA DemoKept ==
  ASSUME DemoInv, [Demo!Next]_(Demo!vars)
  PROVE  DemoInv'
<1>0. ASSUME NEW i \in DOMAIN runs
      PROVE  /\ runs[i].id \in Played /\ runs[i].step \in Nat \ {0} /\ runs[i].revealed \in Nat
             /\ runs[i] \in Run
  <2>1. runs[i] \in Run
    BY ElementOfSeq DEF DemoInv
  <2> QED BY <2>1 DEF Run
<1>1. ASSUME NEW id \in Played, Demo!runDemo(id)
      PROVE  DemoInv'
  <2> DEFINE new == [id |-> id, step |-> 1, revealed |-> 0]
  <2>1. new \in Run /\ new.id = id /\ new.step = 1
    BY DEF Run
  <2>2. runs' = Append(runs, new) /\ activeScenario' = id /\ selectorReveal' = 0
    BY <1>1 DEF Demo!runDemo
  <2> HIDE DEF new
  <2>3. /\ runs' \in Seq(Run) /\ runs' # <<>>
        /\ Len(runs) + 1 \in DOMAIN runs' /\ runs'[Len(runs) + 1] = new
    BY <2>1, <2>2, AppendProperties DEF DemoInv
  <2>4. ASSUME NEW s \in Nat \ {0} PROVE Coming(s)'
    <3>1. runs'[Len(runs) + 1].id = activeScenario' /\ runs'[Len(runs) + 1].step <= s
      BY <2>1, <2>2, <2>3
    <3> QED BY <2>3, <3>1 DEF Coming
  <2>5. \A s \in DOMAIN Demo!Scenario(id).steps : s \in Nat \ {0}
    BY Scenarios
  <2>6. id # Demo!NoScenario
    BY Scenarios
  <2> QED BY <2>2, <2>3, <2>4, <2>5, <2>6 DEF DemoInv
<1>2. ASSUME NEW i \in DOMAIN runs, Demo!Reveal(i)
      PROVE  DemoInv'
  <2> DEFINE next == [runs[i] EXCEPT !.revealed = runs[i].revealed + 1]
  <2>1. next \in Run /\ next.id = runs[i].id /\ next.step = runs[i].step
    BY <1>0 DEF Run
  <2>2. /\ runs' = [runs EXCEPT ![i] = next] /\ selectorReveal' = runs[i].revealed + 1
        /\ UNCHANGED <<running, activeScenario, completedSteps, showResponse, selectorWinner>>
    BY <1>2 DEF Demo!Reveal
  <2>3. runs[i].id = "mega" /\ runs[i].step = 3
    <3>1. /\ runs[i].step <= Len(Demo!Scenario(runs[i].id).steps)
          /\ Demo!Scenario(runs[i].id).steps[runs[i].step] = "candidates"
      BY <1>0, <1>2, Scenarios DEF Demo!Reveal, Demo!Finished, Demo!StepOf
    <3> QED BY <1>0, <3>1, Scenarios, SMTT(20)
  <2>4. selectorReveal' \in Nat
    BY <1>0, <2>2
  <2> HIDE DEF next
  <2>5. runs' \in Seq(Run) /\ runs' # <<>> /\ DOMAIN runs' = DOMAIN runs /\ runs'[i] = next
    BY <2>1, <2>2 DEF DemoInv
  <2>6. ASSUME NEW s \in Nat, Coming(s) PROVE Coming(s)'
    <3>1. PICK j \in DOMAIN runs : runs[j].id = activeScenario /\ runs[j].step <= s
      BY <2>6 DEF Coming
    <3>2. runs'[j].id = runs[j].id /\ runs'[j].step = runs[j].step
      BY <2>1, <2>2, <2>5 DEF DemoInv
    <3> QED BY <2>2, <2>5, <3>1, <3>2 DEF Coming
  <2>7. activeScenario' = "mega" => Coming(3)'
    BY <2>1, <2>2, <2>3, <2>5 DEF Coming
  <2>8. ASSUME activeScenario # Demo!NoScenario
        PROVE  \A s \in DOMAIN Demo!Scenario(activeScenario).steps : s \in completedSteps \/ Coming(s)'
    <3>1. \A s \in DOMAIN Demo!Scenario(activeScenario).steps : s \in Nat
      BY <2>8, Scenarios DEF DemoInv
    <3> QED BY <2>6, <2>8, <3>1 DEF DemoInv
  <2>9. activeScenario = "mega" => selectorWinner \/ Coming(4)'
    BY <2>6 DEF DemoInv
  <2> QED BY <2>2, <2>4, <2>5, <2>7, <2>8, <2>9 DEF DemoInv
<1>3. ASSUME NEW i \in DOMAIN runs, Demo!StepEnds(i)
      PROVE  DemoInv'
  <2> DEFINE n == runs[i].step
             next == [runs[i] EXCEPT !.step = n + 1]
  <2>1. next \in Run /\ next.id = runs[i].id /\ next.step = n + 1 /\ n \in Nat \ {0}
    BY <1>0 DEF Run
  <2>2. /\ runs' = [runs EXCEPT ![i] = next] /\ completedSteps' = completedSteps \cup {n}
        /\ selectorReveal' = IF Demo!StepOf(runs[i]) = "candidates"
                             THEN Demo!Scenario(runs[i].id).candidates ELSE selectorReveal
        /\ Demo!StepOf(runs[i]) = "verdict" \/ selectorWinner => selectorWinner'
        /\ UNCHANGED <<running, activeScenario, showResponse>>
    BY <1>3 DEF Demo!StepEnds, Demo!RevealedInTheEnd
  <2>3. /\ Demo!StepOf(runs[i]) = Demo!Scenario(runs[i].id).steps[n]
        /\ n \in 1..Len(Demo!Scenario(runs[i].id).steps)
    BY <1>0, <1>3, <2>1, Scenarios DEF Demo!StepEnds, Demo!Finished, Demo!StepOf
  <2> HIDE DEF next, n
  <2>4. runs' \in Seq(Run) /\ runs' # <<>>
    BY <2>1, <2>2 DEF DemoInv
  <2>5. ASSUME NEW s \in Nat, Coming(s), runs[i].id # activeScenario \/ n # s
        PROVE  Coming(s)'
    <3>1. next.step = runs[i].step + 1 /\ (runs[i].id # activeScenario \/ runs[i].step # s)
      BY <2>1, <2>5 DEF n
    <3>2. next.step <= runs[i].step + 1
      BY <1>0, <3>1
    <3> QED BY <2>1, <2>2, <2>5, <3>1, <3>2, StillComing
  <2>6. ASSUME activeScenario # Demo!NoScenario
        PROVE  \A s \in DOMAIN Demo!Scenario(activeScenario).steps : s \in completedSteps' \/ Coming(s)'
    <3> TAKE s \in DOMAIN Demo!Scenario(activeScenario).steps
    <3>1. s \in Nat
      BY <2>6, Scenarios DEF DemoInv
    <3>2. s \in completedSteps \/ Coming(s)
      BY <2>6 DEF DemoInv
    <3> QED BY <2>2, <2>5, <3>1, <3>2
  <2>7. selectorReveal' \in Nat /\ (activeScenario = "mega" => selectorReveal' >= 6 \/ Coming(3)')
    <3>1. CASE Demo!StepOf(runs[i]) = "candidates"
      <4>1. selectorReveal' = 6
        BY <1>0, <2>2, <2>3, <3>1, Scenarios
      <4> QED BY <4>1
    <3>2. CASE Demo!StepOf(runs[i]) # "candidates"
      <4>1. selectorReveal' = selectorReveal /\ (runs[i].id # "mega" \/ n # 3)
        BY <1>0, <2>2, <2>3, <3>2, Scenarios
      <4>2. activeScenario = "mega" /\ Coming(3) => Coming(3)'
        BY <2>5, <4>1
      <4> QED BY <4>1, <4>2 DEF DemoInv
    <3> QED BY <3>1, <3>2
  <2>8. activeScenario = "mega" => selectorWinner' \/ Coming(4)'
    <3>1. CASE Demo!StepOf(runs[i]) = "verdict"
      BY <2>2, <3>1
    <3>2. CASE Demo!StepOf(runs[i]) # "verdict"
      <4>1. runs[i].id # "mega" \/ n # 4
        BY <1>0, <2>3, <3>2, Scenarios
      <4>2. activeScenario = "mega" /\ Coming(4) => Coming(4)'
        BY <2>5, <4>1
      <4> QED BY <2>2, <4>2 DEF DemoInv
    <3> QED BY <3>1, <3>2
  <2> QED BY <2>2, <2>4, <2>6, <2>7, <2>8 DEF DemoInv
<1>4. ASSUME NEW i \in DOMAIN runs, Demo!RunEnds(i)
      PROVE  DemoInv'
  <2>1. /\ runs' = RemoveAt(runs, i) /\ showResponse' /\ ~running'
        /\ runs[i].step > Len(Demo!Scenario(runs[i].id).steps)
        /\ UNCHANGED <<activeScenario, completedSteps, selectorReveal, selectorWinner>>
    BY <1>4 DEF Demo!RunEnds, Demo!Finished, Demo!RemoveAt, RemoveAt
  <2>2. IsList(runs)
    BY ListOfAny DEF DemoInv
  <2>3. runs' \in Seq(Run)
    <3>0. IsList(runs') /\ Len(runs') = Len(runs) - 1
      BY <2>1, <2>2, ListRemoved
    <3>1. /\ DOMAIN runs = 1..Len(runs) /\ Len(runs) \in Nat
          /\ DOMAIN runs' = 1..(Len(runs) - 1)
      BY <2>2, <3>0, LenProperties DEF IsList
    <3>2. \A j \in 1..(Len(runs) - 1) : runs'[j] \in Run
      <4> TAKE j \in 1..(Len(runs) - 1)
      <4>1. PICK k \in DOMAIN runs : runs'[j] = runs[k]
        <5>1. (IF j < i THEN j ELSE j + 1) \in DOMAIN runs
          BY <3>1
        <5> QED BY <2>1, <2>2, <5>1, ListRemoved
      <4> QED BY <1>0, <4>1
    <3>3. {runs'[j] : j \in DOMAIN runs'} \subseteq Run
      BY <3>1, <3>2
    <3> QED BY <3>0, <3>3, SeqMonotonic DEF IsList
  <2>4. ASSUME NEW s \in Nat, Coming(s), activeScenario \in Played,
               s <= Len(Demo!Scenario(activeScenario).steps)
        PROVE  Coming(s)'
    <3>1. PICK j \in DOMAIN runs : runs[j].id = activeScenario /\ runs[j].step <= s
      BY <2>4 DEF Coming
    <3>2. j # i
      <4>1. CASE runs[i].id = activeScenario
        <5>1. Len(Demo!Scenario(activeScenario).steps) \in Nat /\ runs[i].step \in Nat
          BY <1>0, <2>4, Scenarios
        <5> QED BY <2>1, <2>4, <3>1, <4>1, <5>1
      <4> QED BY <3>1, <4>1
    <3>3. PICK k \in DOMAIN runs' : runs'[k] = runs[j]
      BY <2>1, <2>2, <3>2, OthersGoOn
    <3> QED BY <2>1, <3>1, <3>3 DEF Coming
  <2>5. ASSUME activeScenario # Demo!NoScenario
        PROVE  \A s \in DOMAIN Demo!Scenario(activeScenario).steps : s \in completedSteps \/ Coming(s)'
    <3> TAKE s \in DOMAIN Demo!Scenario(activeScenario).steps
    <3>1. s \in Nat /\ s <= Len(Demo!Scenario(activeScenario).steps) /\ activeScenario \in Played
      BY <2>5, Scenarios DEF DemoInv
    <3>2. s \in completedSteps \/ Coming(s)
      BY <2>5 DEF DemoInv
    <3> QED BY <2>4, <3>1, <3>2
  <2>6. ASSUME activeScenario = "mega"
        PROVE  (Coming(3) => Coming(3)') /\ (Coming(4) => Coming(4)')
    <3>1. activeScenario \in Played
      BY <2>6 DEF DemoInv, Demo!NoScenario
    <3>2. Len(Demo!Scenario(activeScenario).steps) = 6
      BY <2>6, <3>1, Scenarios
    <3> QED BY <2>4, <3>1, <3>2
  <2> QED BY <2>1, <2>3, <2>5, <2>6 DEF DemoInv
<1>5. CASE Demo!Back
  <2>1. activeScenario' = Demo!NoScenario /\ activeScenario' # "mega"
        /\ UNCHANGED <<running, runs, selectorReveal>>
    BY <1>5 DEF Demo!Back, Demo!NoScenario
  <2> QED BY <2>1 DEF DemoInv
<1>6. CASE UNCHANGED Demo!vars
  BY <1>6 DEF Demo!vars, DemoInv, Coming
<1> QED BY <1>1, <1>2, <1>3, <1>4, <1>5, <1>6 DEF Demo!Next

\* For any scenarios played and any number of runs under way: when the last one ends, the
\* page shows the scenario it is on as finished, whichever others ran on behind it.
THEOREM DemoAlwaysSettles == Spec => []DemoSettles
<1>1. Init => DemoInv
  <2> SUFFICES ASSUME Init PROVE DemoInv
    OBVIOUS
  <2>1. /\ runs = <<>> /\ selectorReveal = 0 /\ ~running /\ activeScenario = Demo!NoScenario
        /\ Demo!NoScenario # "mega"
    BY GroupsApart DEF Demo!Init, Demo!NoScenario
  <2> QED BY <2>1 DEF DemoInv
<1>2. DemoInv /\ [Next]_vars => DemoInv'
  BY GroupsApart, DemoKept
<1>3. DemoInv => DemoSettles
  <2> SUFFICES ASSUME DemoInv, runs = <<>>, activeScenario # Demo!NoScenario
               PROVE  /\ Demo!ResponseShown
                      /\ \A i \in DOMAIN Demo!Scenario(activeScenario).steps : Demo!StepShown(i) = "completed"
                      /\ Demo!CandidatesShown(Demo!Scenario(activeScenario))
                           = 1..Demo!Scenario(activeScenario).candidates
                      /\ Demo!Scenario(activeScenario).candidates > 0 => selectorWinner
    BY DEF DemoInv, DemoSettles, Demo!DemoSettles
  <2>1. activeScenario \in Played /\ \A s : ~Coming(s)
    BY DEF DemoInv, Coming
  <2>2. Demo!ResponseShown
    BY DEF DemoInv, Demo!ResponseShown
  <2>3. \A i \in DOMAIN Demo!Scenario(activeScenario).steps : Demo!StepShown(i) = "completed"
    BY <2>1 DEF DemoInv, Demo!StepShown
  <2>4. CASE activeScenario = "mega"
    <3>1. selectorWinner /\ selectorReveal >= 6 /\ selectorReveal \in Nat
      BY <2>1, <2>4 DEF DemoInv
    <3>2. {c \in 1..6 : c <= selectorReveal} = 1..6
      BY <3>1
    <3>3. Demo!Scenario(activeScenario).candidates = 6
      BY <2>1, <2>4, Scenarios
    <3> QED BY <2>2, <2>3, <3>1, <3>2, <3>3 DEF Demo!CandidatesShown
  <2>5. CASE activeScenario # "mega"
    <3>1. Demo!Scenario(activeScenario).candidates = 0
      BY <2>1, <2>5, Scenarios
    <3>2. {c \in 1..0 : c <= selectorReveal} = {} /\ 1..0 = {}
      OBVIOUS
    <3>3. Demo!CandidatesShown(Demo!Scenario(activeScenario)) = {}
      BY <3>1, <3>2 DEF Demo!CandidatesShown
    <3> QED BY <2>2, <2>3, <3>1, <3>2, <3>3
  <2> QED BY <2>4, <2>5
<1> QED BY <1>1, <1>2, <1>3, PTL DEF Spec

-----------------------------------------------------------------------------
(* Workflows *)

\* What the cache has for a tree, compared with what is stored of it.
AsStored(query, tree) ==
  /\ DOMAIN query = {"status", "data", "stale", "fetching"}
  /\ query.status = "success" => query.data = tree
  /\ query.status = "error" => tree = Workflows!None

TreesInv ==
  /\ faultTrees = [w \in opened |-> faultTrees[w]]
  /\ treeQueries = [w \in opened |-> treeQueries[w]]
  /\ \A w \in opened : AsStored(treeQueries[w], faultTrees[w])

\* Fetching a tree again changes nothing of what the cache has.
LEMMA TreesRefetched ==
  ASSUME TreesInv, NEW w
  PROVE  LET entries == Workflows!Refetched(treeQueries, w)
         IN  /\ entries = [v \in opened |-> entries[v]]
             /\ \A v \in opened : AsStored(entries[v], faultTrees[v])
<1> DEFINE q == treeQueries[w]
           s == IF q.status = "success" THEN q.status ELSE "pending"
           f == [q EXCEPT !.fetching = TRUE, !.status = s]
<1>1. Workflows!Refetched(treeQueries, w) \in {treeQueries, [treeQueries EXCEPT ![w] = f]}
  BY DEF Workflows!Refetched, Workflows!Fetching
<1>2. w \in opened => AsStored(f, faultTrees[w])
  <2> SUFFICES ASSUME w \in opened PROVE AsStored(f, faultTrees[w])
    OBVIOUS
  <2>1. AsStored(q, faultTrees[w])
    BY DEF TreesInv
  <2>2. s # "error" /\ (s = "success" => q.status = "success")
    OBVIOUS
  <2> HIDE DEF q, s
  <2>3. DOMAIN f = DOMAIN q /\ f.status = s /\ f.data = q.data
    BY <2>1 DEF AsStored
  <2> HIDE DEF f
  <2> QED BY <2>1, <2>2, <2>3 DEF AsStored
<1> HIDE DEF f
<1> QED BY <1>1, <1>2 DEF TreesInv

LEMMA TreesKept ==
  ASSUME TreesInv, [Workflows!Next]_(Workflows!vars)
  PROVE  TreesInv'
<1> USE DEF Workflows!editor, Workflows!executionsTab
<1> DEFINE Same == UNCHANGED <<opened, faultTrees, treeQueries>>
<1>0. Same => TreesInv'
  BY DEF TreesInv
<1>1. ASSUME NEW w, treeQueries' = Workflows!Refetched(treeQueries, w),
             UNCHANGED <<opened, faultTrees>>
      PROVE  TreesInv'
  BY <1>1, TreesRefetched DEF TreesInv
<1>2. CASE Workflows!Navigate
  <2>1. PICK r \in Workflows!Links :
          /\ treeQueries' = IF r = Workflows!List THEN treeQueries
                            ELSE Workflows!Refetched(treeQueries, r.workflow)
          /\ UNCHANGED <<opened, faultTrees>>
    BY <1>2 DEF Workflows!Navigate
  <2> QED BY <1>0, <1>1, <2>1
<1>3. CASE Workflows!Focus
  BY <1>1, <1>3 DEF Workflows!Focus
<1>4. ASSUME NEW w \in opened, Workflows!FetchEnds(w)
      PROVE  TreesInv'
  <2> DEFINE s == IF faultTrees[w] = Workflows!None THEN "error" ELSE "success"
             new == [status |-> s, data |-> faultTrees[w], stale |-> FALSE, fetching |-> FALSE]
  <2>1. AsStored(new, faultTrees[w])
    <3>1. s = "error" => faultTrees[w] = Workflows!None
      OBVIOUS
    <3> HIDE DEF s
    <3> QED BY <3>1 DEF AsStored
  <2>2. treeQueries' = [treeQueries EXCEPT ![w] = new] /\ UNCHANGED <<opened, faultTrees>>
    BY <1>4 DEF Workflows!FetchEnds
  <2> HIDE DEF new
  <2> QED BY <2>1, <2>2 DEF TreesInv
<1>5. ASSUME NEW w \in opened, Workflows!GoesStale(w)
      PROVE  TreesInv'
  <2> DEFINE new == [treeQueries[w] EXCEPT !.stale = TRUE]
  <2>1. AsStored(new, faultTrees[w])
    BY DEF TreesInv, AsStored
  <2>2. treeQueries' = [treeQueries EXCEPT ![w] = new] /\ UNCHANGED <<opened, faultTrees>>
    BY <1>5 DEF Workflows!GoesStale
  <2> HIDE DEF new
  <2> QED BY <2>1, <2>2 DEF TreesInv
<1>6. ASSUME NEW i \in DOMAIN saves, Workflows!SaveEnds(i)
      PROVE  TreesInv'
  <2> DEFINE w == saves[i].workflow
             tree == saves[i].tree
             f == treeQueries[w].fetching \/ workflowsRoute.workflow = w
             new == [status |-> "success", data |-> tree, stale |-> TRUE, fetching |-> f]
  <2>1. AsStored(new, tree)
    <3> HIDE DEF f, tree
    <3> QED BY DEF AsStored
  <2>2. /\ treeQueries' = [treeQueries EXCEPT ![w] = new]
        /\ faultTrees' = [faultTrees EXCEPT ![w] = tree] /\ opened' = opened
    BY <1>6 DEF Workflows!SaveEnds, Workflows!Cached
  <2> HIDE DEF new, w, tree
  <2> QED BY <2>1, <2>2 DEF TreesInv
<1>7. CASE \/ \E part \in {"editor", "executions"} : Workflows!ShowPart(part)
           \/ \E w \in opened : Workflows!ExecutionsAnswered(w)
           \/ \E i \in 0..3 : Workflows!SelectRow(i)
           \/ Workflows!handleSave
  BY <1>0, <1>7 DEF Workflows!ShowPart, Workflows!ExecutionsAnswered, Workflows!SelectRow,
       Workflows!handleSave
<1>8. CASE \/ Workflows!AutoLayout \/ Workflows!Drop
           \/ \E id \in Deletable : Workflows!DeleteNode(id)
  <2>1. PICK d : Workflows!Draws(d)
    BY <1>8, Zenon DEF Workflows!AutoLayout, Workflows!Drop, Workflows!DeleteNode
  <2> QED BY <1>0, <2>1 DEF Workflows!Draws
<1>9. CASE UNCHANGED Workflows!vars
  BY <1>0, <1>9 DEF Workflows!vars
<1> QED BY <1>2, <1>3, <1>4, <1>5, <1>6, <1>7, <1>8, <1>9 DEF Workflows!Next

\* For any workflows, edits and number of saves: what the pages draw from is what the
\* store has, however saves, fetches and changes of page interleave.
THEOREM TreesStayAsStored == Spec => []TreesAsStored
<1>1. Init => TreesInv
  <2> SUFFICES ASSUME Init PROVE TreesInv
    OBVIOUS
  <2>1. /\ faultTrees = [w \in opened |-> Workflows!Tree(w)]
        /\ treeQueries = [w \in opened |-> Workflows!NoQuery]
    BY GroupsApart DEF Workflows!Init
  <2>2. DOMAIN Workflows!NoQuery = {"status", "data", "stale", "fetching"}
        /\ Workflows!NoQuery.status = "none"
    BY DEF Workflows!NoQuery
  <2> QED BY <2>1, <2>2 DEF TreesInv, AsStored
<1>2. TreesInv /\ [Next]_vars => TreesInv'
  BY GroupsApart, TreesKept
<1>3. TreesInv => TreesAsStored
  BY DEF TreesInv, AsStored, TreesAsStored, Workflows!TreesAsStored
<1> QED BY <1>1, <1>2, <1>3, PTL DEF Spec

-----------------------------------------------------------------------------
(* Code analysis *)

\* What the list, or the dialog of a graph, is to show.
Current(key) ==
  IF key = "list" THEN Graphs!list.data = Graphs!PayloadList(kind, scenario, currentPayload)
  ELSE /\ graphQueries[key].data = {g \in currentPayload : g.id = key}
       /\ graphQueries[key].data # {}

ViewOf(k, entries, id) == {"list"} \cup {key \in {id} : Graphs!DialogOpen(k, entries, id)}

Viewing(key) == shownTab /\ key \in ViewOf(kind, graphQueries, selectedId)

\* A query has what it is to show, or is stale; and if it is in view it is then fetched
\* already, or shows the error of the last fetch.
QueryInv(key) ==
  /\ DOMAIN graphQueries[key] = {"loaded", "data", "error", "stale", "fetching"}
  /\ ~graphQueries[key].loaded => graphQueries[key].data = {}
  /\ graphQueries[key].loaded => Current(key) \/ graphQueries[key].stale
  /\ Viewing(key) =>
       \/ graphQueries[key].fetching \/ graphQueries[key].error
       \/ graphQueries[key].loaded /\ Current(key)

GraphsInv ==
  /\ graphQueries = [key \in Graphs!Keys |-> graphQueries[key]]
  /\ selectedId \in Viewed \cup {"none"} /\ (~shownTab => selectedId = "none")
  /\ kind \in {"call", "traffic"} /\ currentPayload \subseteq Graphs!Items(kind)
  /\ \A key \in Graphs!Keys : QueryInv(key)

LEMMA KeysApart ==
  /\ "list" \notin Viewed /\ "none" \notin Viewed /\ "list" # "none"
  /\ Graphs!Keys = {"list"} \cup Viewed /\ Graphs!None = "none"
BY PagesAssumption DEF Graphs!GraphsAssumption, Graphs!Keys, Graphs!None

\* Whatever a fetch brings, it is what is to be shown.
LEMMA AnswersCurrent ==
  ASSUME NEW key \in Graphs!Keys, Graphs!Answers(key)
  PROVE  IF key = "list"
         THEN Graphs!Payload(key) = Graphs!PayloadList(kind, scenario, currentPayload)
         ELSE /\ Graphs!Payload(key) = {g \in currentPayload : g.id = key}
              /\ Graphs!Payload(key) # {}
<1>1. CASE key = "list"
  BY <1>1 DEF Graphs!Payload
<1>2. CASE key # "list"
  <2>1. Graphs!Has(Graphs!PayloadDetails(scenario, currentPayload), key)
    BY <1>2 DEF Graphs!Answers, Graphs!GetAnswers
  <2>2. \E g \in currentPayload : g.id = key
    BY <2>1 DEF Graphs!Has, Graphs!PayloadDetails
  <2> QED BY <1>2, <2>2 DEF Graphs!Payload
<1> QED BY <1>1, <1>2

\* A fetch that starts keeps what there is; an error goes only where there is no data.
LEMMA QueryStarted ==
  ASSUME NEW q, DOMAIN q = {"loaded", "data", "error", "stale", "fetching"}
  PROVE  /\ DOMAIN Graphs!Started(q) = DOMAIN q
         /\ Graphs!Started(q).loaded = q.loaded /\ Graphs!Started(q).data = q.data
         /\ Graphs!Started(q).stale = q.stale /\ Graphs!Started(q).fetching
         /\ Graphs!Started(q).error => q.error
         /\ q.loaded /\ q.error => Graphs!Started(q).error
<1> DEFINE e == q.error /\ q.loaded
<1>1. Graphs!Started(q) = [q EXCEPT !.fetching = TRUE, !.error = e]
  BY DEF Graphs!Started
<1>2. e <=> q.error /\ q.loaded
  OBVIOUS
<1> HIDE DEF e
<1>3. /\ DOMAIN Graphs!Started(q) = DOMAIN q
      /\ Graphs!Started(q).loaded = q.loaded /\ Graphs!Started(q).data = q.data
      /\ Graphs!Started(q).stale = q.stale /\ Graphs!Started(q).fetching = TRUE
      /\ Graphs!Started(q).error = e
  BY <1>1
<1> QED BY <1>2, <1>3

\* What is in view depends on the list and on the graph selected alone.
LEMMA SameView ==
  ASSUME NEW k, NEW entries, NEW others, NEW id,
         others["list"].data = entries["list"].data,
         entries["list"].data = {} \/ (others["list"].error <=> entries["list"].error)
  PROVE  ViewOf(k, others, id) = ViewOf(k, entries, id)
BY DEF ViewOf, Graphs!DialogOpen

LEMMA ListInView ==
  ASSUME NEW k, NEW entries, NEW id
  PROVE  /\ "list" \in ViewOf(k, entries, id)
         /\ ViewOf(k, entries, id) \subseteq {"list", id}
         /\ id = "none" => ViewOf(k, entries, id) = {"list"}
BY KeysApart DEF ViewOf, Graphs!DialogOpen

\* A query that goes on as it is, or starts to be fetched.
LEMMA QueryGoesOn ==
  ASSUME NEW key \in Graphs!Keys, QueryInv(key),
         UNCHANGED <<kind, scenario, currentPayload>>,
         graphQueries'[key] \in {graphQueries[key], Graphs!Started(graphQueries[key])},
         Viewing(key)' =>
           \/ Viewing(key) \/ graphQueries'[key] = Graphs!Started(graphQueries[key])
           \/ graphQueries[key].loaded /\ ~graphQueries[key].stale
  PROVE  QueryInv(key)'
<1>1. CASE graphQueries'[key] = graphQueries[key]
  BY <1>1, QueryStarted DEF QueryInv, Current, Graphs!list
<1>2. CASE graphQueries'[key] = Graphs!Started(graphQueries[key])
  BY <1>2, QueryStarted DEF QueryInv, Current, Graphs!list
<1> QED BY <1>1, <1>2

LEMMA GraphsKept ==
  ASSUME GraphsInv, [Graphs!Next]_(Graphs!vars)
  PROVE  GraphsInv'
<1> USE DEF Graphs!StoreUnchanged, Graphs!DeletionsUnchanged
<1> DEFINE Fetches(entries, keys) ==
             \A key \in Graphs!Keys :
               /\ entries[key] \in {graphQueries[key], Graphs!Started(graphQueries[key])}
               /\ key \in keys /\ (~graphQueries[key].loaded \/ graphQueries[key].stale) =>
                    entries[key] = Graphs!Started(graphQueries[key])
<1>0. /\ "list" \in Graphs!Keys /\ selectedId \in Viewed \cup {"none"}
      /\ \A key \in Graphs!Keys : QueryInv(key)
  BY KeysApart DEF GraphsInv
<1>2. \A keys : /\ Graphs!WithFetches(graphQueries, keys)
                     = [key \in Graphs!Keys |-> Graphs!WithFetches(graphQueries, keys)[key]]
                /\ Fetches(Graphs!WithFetches(graphQueries, keys), keys)
  BY DEF Graphs!WithFetches
<1>1. \A entries, id : Graphs!InView(entries, id) = ViewOf(kind, entries, id)
  BY DEF Graphs!InView, ViewOf
\* Fetching more entries leaves the dialog in view or out of it.
<1>3. ASSUME NEW entries, entries["list"] \in {graphQueries["list"], Graphs!Started(graphQueries["list"])},
             NEW id
      PROVE  ViewOf(kind, entries, id) = ViewOf(kind, graphQueries, id)
  <2>1. DOMAIN graphQueries["list"] = {"loaded", "data", "error", "stale", "fetching"}
        /\ (~graphQueries["list"].loaded => graphQueries["list"].data = {})
    BY <1>0 DEF QueryInv
  <2>2. entries["list"].data = graphQueries["list"].data
    BY <1>3, <2>1, QueryStarted
  <2>3. graphQueries["list"].data = {} \/ (entries["list"].error <=> graphQueries["list"].error)
    BY <1>3, <2>1, QueryStarted
  <2> QED BY <2>2, <2>3, SameView
<1>4. ASSUME UNCHANGED <<graphQueries, kind, scenario, currentPayload, shownTab, selectedId>>
      PROVE  GraphsInv'
  BY <1>4 DEF GraphsInv, QueryInv, Viewing, Current, Graphs!list
<1>5. ASSUME NEW keys, graphQueries' = Graphs!WithFetches(graphQueries, keys),
             selectedId' \in Viewed \cup {"none"}, ~shownTab' => selectedId' = "none",
             \A key \in Graphs!Keys : Viewing(key)' => Viewing(key) \/ key \in keys,
             UNCHANGED <<kind, scenario, currentPayload>>
      PROVE  GraphsInv'
  <2>1. graphQueries' = [key \in Graphs!Keys |-> graphQueries'[key]] /\ Fetches(graphQueries', keys)
    BY <1>2, <1>5
  <2>2. ASSUME NEW key \in Graphs!Keys PROVE QueryInv(key)'
    BY <1>0, <1>5, <2>1, QueryGoesOn
  <2> QED BY <1>5, <2>1, <2>2 DEF GraphsInv
<1>6. ASSUME NEW key \in Graphs!Keys, Graphs!FetchEnds(key)
      PROVE  GraphsInv'
  <2> DEFINE old == graphQueries[key]
             shown == [loaded |-> TRUE, data |-> Graphs!Payload(key), error |-> FALSE,
                       stale |-> FALSE, fetching |-> FALSE]
             kept == [old EXCEPT !.error = TRUE, !.fetching = FALSE]
             ended == IF Graphs!Answers(key) THEN shown ELSE kept
             entries == [graphQueries EXCEPT ![key] = ended]
             back == IF shownTab
                     THEN ViewOf(kind, entries, selectedId) \ ViewOf(kind, graphQueries, selectedId)
                     ELSE {}
  <2>1. /\ graphQueries' = Graphs!WithFetches(entries, back)
        /\ UNCHANGED <<kind, scenario, currentPayload, shownTab, selectedId>>
    BY <1>1, <1>6 DEF Graphs!FetchEnds
  \* What was fetched, before what comes into view with it.
  <2>2. /\ DOMAIN ended = {"loaded", "data", "error", "stale", "fetching"}
        /\ ~ended.loaded => ended.data = {}
        /\ \/ ended.error /\ ended.loaded = old.loaded /\ ended.data = old.data
              /\ ended.stale = old.stale
           \/ ended.loaded /\ ~ended.stale /\ Graphs!Answers(key) /\ ended.data = Graphs!Payload(key)
    <3>1. DOMAIN old = {"loaded", "data", "error", "stale", "fetching"}
          /\ (~old.loaded => old.data = {})
      BY <1>0 DEF QueryInv
    <3>2. CASE Graphs!Answers(key)
      BY <3>2
    <3>3. CASE ~Graphs!Answers(key)
      <4> HIDE DEF old
      <4> QED BY <3>1, <3>3
    <3> QED BY <3>2, <3>3
  <2> HIDE DEF ended
  <2>3. \A k \in Graphs!Keys : entries[k] = IF k = key THEN ended ELSE graphQueries[k]
    BY DEF GraphsInv
  <2>4. /\ graphQueries' = [k \in Graphs!Keys |-> graphQueries'[k]]
        /\ \A k \in Graphs!Keys :
             /\ graphQueries'[k] \in {entries[k], Graphs!Started(entries[k])}
             /\ k \in back /\ (~entries[k].loaded \/ entries[k].stale) =>
                  graphQueries'[k] = Graphs!Started(entries[k])
             /\ k \notin back => graphQueries'[k] = entries[k]
    <3> HIDE DEF entries, back
    <3> QED BY <2>1 DEF Graphs!WithFetches
  <2>5. "list" \notin back /\ graphQueries'["list"] = entries["list"]
    BY <1>0, <2>4, ListInView
  <2>6. ViewOf(kind, graphQueries', selectedId) = ViewOf(kind, entries, selectedId)
    <3> HIDE DEF entries, back
    <3> QED BY <2>5, SameView
  <2>7. ASSUME NEW k \in Graphs!Keys PROVE QueryInv(k)'
    <3> DEFINE q == entries[k]
               right == IF k = "list"
                        THEN q.data = Graphs!PayloadList(kind, scenario, currentPayload)
                        ELSE q.data = {g \in currentPayload : g.id = k} /\ q.data # {}
    <3>1. /\ DOMAIN q = {"loaded", "data", "error", "stale", "fetching"}
          /\ ~q.loaded => q.data = {}
          /\ q.loaded => right \/ q.stale
          /\ Viewing(k) => q.fetching \/ q.error \/ (q.loaded /\ right)
      <4>1. QueryInv(k)
        BY <1>0
      <4>2. CASE k = key
        <5>1. q = ended
          BY <2>3, <4>2
        <5> HIDE DEF q
        <5>2. CASE ended.loaded /\ ~ended.stale /\ Graphs!Answers(key) /\ ended.data = Graphs!Payload(key)
          <6>1. right
            BY <4>2, <5>1, <5>2, AnswersCurrent
          <6> QED BY <2>2, <5>1, <5>2, <6>1
        <5>3. CASE ended.error /\ ended.loaded = old.loaded /\ ended.data = old.data
                   /\ ended.stale = old.stale
          <6>1. right <=> Current(key)
            BY <4>2, <5>1, <5>3 DEF Current, Graphs!list
          <6> QED BY <2>2, <4>1, <4>2, <5>1, <5>3, <6>1 DEF QueryInv
        <5> QED BY <2>2, <5>2, <5>3
      <4>3. CASE k # key
        <5>1. q = graphQueries[k]
          BY <2>3, <4>3
        <5> HIDE DEF q
        <5> QED BY <4>1, <5>1 DEF QueryInv, Current, Graphs!list
      <4> QED BY <4>2, <4>3
    <3>2. Viewing(k)' => Viewing(k) \/ k \in back
      BY <2>1, <2>6 DEF Viewing
    <3>3. /\ graphQueries'[k] \in {q, Graphs!Started(q)}
          /\ k \in back /\ (~q.loaded \/ q.stale) => graphQueries'[k] = Graphs!Started(q)
      BY <2>4
    <3> HIDE DEF q, back
    <3>4. /\ DOMAIN graphQueries'[k] = {"loaded", "data", "error", "stale", "fetching"}
          /\ graphQueries'[k].loaded = q.loaded /\ graphQueries'[k].data = q.data
          /\ graphQueries'[k].stale = q.stale
          /\ q.fetching => graphQueries'[k].fetching
          /\ q.error => graphQueries'[k].error \/ graphQueries'[k].fetching
          /\ k \in back => graphQueries'[k].fetching \/ (q.loaded /\ ~q.stale)
      BY <3>1, <3>3, QueryStarted
    <3>5. right => Current(k)'
      BY <2>1, <3>4 DEF Current, Graphs!list
    <3> HIDE DEF right
    <3> QED BY <3>1, <3>2, <3>4, <3>5 DEF QueryInv
  <2> QED BY <2>1, <2>4, <2>7 DEF GraphsInv
<1>7. ASSUME NEW key \in Graphs!Keys, Graphs!GoesStale(key)
      PROVE  GraphsInv'
  <2>1. /\ graphQueries' = [graphQueries EXCEPT ![key].stale = TRUE]
        /\ UNCHANGED <<kind, scenario, currentPayload, shownTab, selectedId>>
    BY <1>7 DEF Graphs!GoesStale
  <2>2. /\ graphQueries' = [k \in Graphs!Keys |-> graphQueries'[k]]
        /\ \A k \in Graphs!Keys :
             /\ DOMAIN graphQueries'[k] = {"loaded", "data", "error", "stale", "fetching"}
             /\ graphQueries'[k].loaded = graphQueries[k].loaded
             /\ graphQueries'[k].data = graphQueries[k].data
             /\ graphQueries'[k].error = graphQueries[k].error
             /\ graphQueries'[k].fetching = graphQueries[k].fetching
             /\ graphQueries[k].stale => graphQueries'[k].stale
    <3>1. \A k \in Graphs!Keys :
            DOMAIN graphQueries[k] = {"loaded", "data", "error", "stale", "fetching"}
      BY <1>0 DEF QueryInv
    <3> QED BY <2>1, <3>1 DEF GraphsInv
  <2>3. ViewOf(kind, graphQueries', selectedId) = ViewOf(kind, graphQueries, selectedId)
    BY <1>0, <2>2, SameView
  <2>4. ASSUME NEW k \in Graphs!Keys PROVE QueryInv(k)'
    <3>1. QueryInv(k) /\ (Viewing(k)' => Viewing(k))
      BY <1>0, <2>1, <2>3 DEF Viewing
    <3>2. Current(k) => Current(k)'
      BY <1>0, <2>1, <2>2 DEF Current, Graphs!list
    <3> QED BY <2>2, <3>1, <3>2 DEF QueryInv
  <2> QED BY <2>1, <2>2, <2>4 DEF GraphsInv
<1>8. ASSUME NEW key \in Graphs!Keys, Graphs!Retry(key)
      PROVE  GraphsInv'
  <2>1. /\ graphQueries' = [graphQueries EXCEPT ![key] = Graphs!Started(graphQueries[key])]
        /\ UNCHANGED <<kind, scenario, currentPayload, shownTab, selectedId>>
    BY <1>8 DEF Graphs!Retry
  <2>2. /\ graphQueries' = [k \in Graphs!Keys |-> graphQueries'[k]]
        /\ \A k \in Graphs!Keys :
             graphQueries'[k] \in {graphQueries[k], Graphs!Started(graphQueries[k])}
    BY <2>1 DEF GraphsInv
  <2>3. ViewOf(kind, graphQueries', selectedId) = ViewOf(kind, graphQueries, selectedId)
    BY <1>0, <1>3, <2>2
  <2>4. ASSUME NEW k \in Graphs!Keys PROVE QueryInv(k)'
    <3>1. QueryInv(k) /\ (Viewing(k)' => Viewing(k))
      BY <1>0, <2>1, <2>3 DEF Viewing
    <3> QED BY <2>1, <2>2, <3>1, QueryGoesOn
  <2> QED BY <2>1, <2>2, <2>4 DEF GraphsInv
<1>9. CASE Graphs!Focus
  <2> DEFINE keys == ViewOf(kind, graphQueries, selectedId)
  <2>1. /\ graphQueries' = Graphs!WithFetches(graphQueries, keys)
        /\ UNCHANGED <<kind, scenario, currentPayload, shownTab, selectedId>>
    BY <1>1, <1>9 DEF Graphs!Focus
  <2>2. ViewOf(kind, graphQueries', selectedId) = keys
    BY <1>0, <1>2, <1>3, <2>1
  <2>3. \A key \in Graphs!Keys : Viewing(key)' => Viewing(key) \/ key \in keys
    BY <2>1, <2>2 DEF Viewing
  <2>4. ~shownTab' => selectedId' = "none"
    BY <2>1 DEF GraphsInv
  <2> QED BY <1>0, <1>5, <2>1, <2>3, <2>4
<1>10. ASSUME NEW id \in Viewed, Graphs!View(id)
       PROVE  GraphsInv'
  <2>1. /\ graphQueries' = Graphs!WithFetches(graphQueries, {id}) /\ selectedId' = id
        /\ shownTab /\ shownTab' = shownTab /\ UNCHANGED <<kind, scenario, currentPayload>>
    BY <1>10 DEF Graphs!View, Graphs!CardShown
  <2>2. ViewOf(kind, graphQueries', id) \subseteq {"list", id}
    BY ListInView
  <2>3. \A key \in Graphs!Keys : Viewing(key)' => Viewing(key) \/ key \in {id}
    BY <2>1, <2>2, ListInView DEF Viewing
  <2> QED BY <1>5, <2>1, <2>3
<1>11. CASE Graphs!CloseDialog
  <2>1. /\ selectedId' = "none" /\ graphQueries' = graphQueries /\ shownTab' = shownTab
        /\ UNCHANGED <<kind, scenario, currentPayload>>
    BY <1>11, KeysApart DEF Graphs!CloseDialog
  <2>2. \A key \in Graphs!Keys : Viewing(key)' => Viewing(key)
    BY <2>1, ListInView DEF Viewing
  <2>3. \A key \in Graphs!Keys : QueryInv(key)'
    BY <1>0, <2>1, <2>2 DEF QueryInv, Current, Graphs!list
  <2> QED BY <2>1, <2>3 DEF GraphsInv
<1>12. CASE Graphs!CloseTab
  <2>1. /\ ~shownTab' /\ selectedId' = "none" /\ graphQueries' = graphQueries
        /\ UNCHANGED <<kind, scenario, currentPayload>>
    BY <1>12, KeysApart DEF Graphs!CloseTab
  <2>2. \A key \in Graphs!Keys : QueryInv(key)'
    BY <1>0, <2>1 DEF QueryInv, Current, Viewing, Graphs!list
  <2> QED BY <2>1, <2>2 DEF GraphsInv
<1>13. CASE Graphs!OpenTab
  <2>1. /\ graphQueries' = Graphs!WithFetches(graphQueries, {"list"})
        /\ shownTab' /\ selectedId' = "none" /\ UNCHANGED <<kind, scenario, currentPayload>>
    BY <1>13 DEF Graphs!OpenTab, GraphsInv
  <2>2. \A key \in Graphs!Keys : Viewing(key)' => Viewing(key) \/ key \in {"list"}
    BY <2>1, ListInView DEF Viewing
  <2> QED BY <1>5, <2>1, <2>2
<1>14. ASSUME NEW id \in Viewed, Graphs!Delete(id)
       PROVE  GraphsInv'
  BY <1>4, <1>14 DEF Graphs!Delete
<1>15. ASSUME NEW d \in deletions, Graphs!DeleteSucceeds(d)
       PROVE  GraphsInv'
  <2> DEFINE inView == IF shownTab THEN ViewOf(kind, graphQueries, selectedId) ELSE {}
             staled(k) == [graphQueries[k] EXCEPT !.stale = @ \/ graphQueries[k].loaded]
  <2>1. /\ graphQueries' = Graphs!Invalidated(inView)
        /\ currentPayload' \subseteq currentPayload
        /\ UNCHANGED <<kind, scenario, shownTab, selectedId>>
    BY <1>1, <1>15 DEF Graphs!DeleteSucceeds, Graphs!Without
  <2>2. ASSUME NEW k \in Graphs!Keys
        PROVE  /\ DOMAIN staled(k) = {"loaded", "data", "error", "stale", "fetching"}
               /\ staled(k).loaded = graphQueries[k].loaded
               /\ staled(k).data = graphQueries[k].data
               /\ staled(k).error = graphQueries[k].error
               /\ graphQueries[k].loaded => staled(k).stale
    <3> DEFINE s == graphQueries[k].stale \/ graphQueries[k].loaded
    <3>1. staled(k) = [graphQueries[k] EXCEPT !.stale = s] /\ (graphQueries[k].loaded => s)
      OBVIOUS
    <3>2. DOMAIN graphQueries[k] = {"loaded", "data", "error", "stale", "fetching"}
      BY <1>0 DEF QueryInv
    <3> HIDE DEF s, staled
    <3> QED BY <3>1, <3>2
  <2>3. /\ graphQueries' = [k \in Graphs!Keys |-> graphQueries'[k]]
        /\ \A k \in Graphs!Keys :
             graphQueries'[k] = IF k \in inView THEN Graphs!Started(staled(k)) ELSE staled(k)
    BY <2>1 DEF Graphs!Invalidated
  <2> HIDE DEF staled
  <2>4. ASSUME NEW k \in Graphs!Keys
        PROVE  /\ DOMAIN graphQueries'[k] = {"loaded", "data", "error", "stale", "fetching"}
               /\ graphQueries'[k].loaded = graphQueries[k].loaded
               /\ graphQueries'[k].data = graphQueries[k].data
               /\ graphQueries[k].loaded => graphQueries'[k].stale
               /\ k \in inView => graphQueries'[k].fetching
               /\ graphQueries'[k].error => graphQueries[k].error
               /\ graphQueries[k].loaded /\ graphQueries[k].error => graphQueries'[k].error
    BY <2>2, <2>3, QueryStarted
  <2>5. ViewOf(kind, graphQueries', selectedId) = ViewOf(kind, graphQueries, selectedId)
    <3>1. ~graphQueries["list"].loaded => graphQueries["list"].data = {}
      BY <1>0 DEF QueryInv
    <3> QED BY <1>0, <2>4, <3>1, SameView
  <2>6. ASSUME NEW k \in Graphs!Keys PROVE QueryInv(k)'
    <3>1. Viewing(k)' => k \in inView
      BY <2>1, <2>5 DEF Viewing
    <3>2. QueryInv(k)
      BY <1>0
    <3> HIDE DEF inView
    <3> QED BY <2>4, <3>1, <3>2 DEF QueryInv
  <2> QED BY <2>1, <2>3, <2>6 DEF GraphsInv
<1>16. ASSUME NEW d \in deletions, Graphs!DeleteFails(d)
       PROVE  GraphsInv'
  BY <1>4, <1>16 DEF Graphs!DeleteFails
<1>17. CASE UNCHANGED Graphs!vars
  BY <1>4, <1>17 DEF Graphs!vars
<1> QED BY <1>6, <1>7, <1>8, <1>9, <1>10, <1>11, <1>12, <1>13, <1>14, <1>15, <1>16, <1>17
        DEF Graphs!Next

\* The edges of the graphs that are shipped join their nodes.
LEMMA EdgesJoin == \A g \in Graphs!trafficGraphItems : g.edges \subseteq g.nodes \X g.nodes
<1>1. Graphs!checkoutCriticalPath.edges
        \subseteq Graphs!checkoutCriticalPath.nodes \X Graphs!checkoutCriticalPath.nodes
  BY DEF Graphs!checkoutCriticalPath, Graphs!TrafficGraph
<1>2. Graphs!observabilityMesh.edges
        \subseteq Graphs!observabilityMesh.nodes \X Graphs!observabilityMesh.nodes
  BY DEF Graphs!observabilityMesh, Graphs!TrafficGraph
<1>3. Graphs!trafficReplay.edges \subseteq Graphs!trafficReplay.nodes \X Graphs!trafficReplay.nodes
  BY DEF Graphs!trafficReplay, Graphs!TrafficGraph
<1> QED BY <1>1, <1>2, <1>3 DEF Graphs!trafficGraphItems

LEMMA GraphsInvariant == Spec => []GraphsInv
<1>1. Init => GraphsInv
  <2> SUFFICES ASSUME Init PROVE GraphsInv
    OBVIOUS
  <2> DEFINE first == Graphs!Started(Graphs!NoQuery)
  <2>1. /\ graphQueries = [key \in Graphs!Keys |-> IF key = "list" THEN first ELSE Graphs!NoQuery]
        /\ selectedId = "none" /\ kind \in {"call", "traffic"} /\ currentPayload = Graphs!Items(kind)
    BY GroupsApart, KeysApart DEF Graphs!Init
  <2>2. /\ DOMAIN Graphs!NoQuery = {"loaded", "data", "error", "stale", "fetching"}
        /\ ~Graphs!NoQuery.loaded /\ Graphs!NoQuery.data = {}
    BY DEF Graphs!NoQuery
  <2>3. /\ DOMAIN first = {"loaded", "data", "error", "stale", "fetching"}
        /\ ~first.loaded /\ first.data = {} /\ first.fetching
    BY <2>2, QueryStarted
  <2> HIDE DEF first
  <2>4. ASSUME NEW key \in Graphs!Keys PROVE QueryInv(key)
    <3>1. Viewing(key) => key = "list"
      BY <2>1, ListInView DEF Viewing
    <3> QED BY <2>1, <2>2, <2>3, <3>1 DEF QueryInv
  <2> QED BY <2>1, <2>4 DEF GraphsInv
<1>2. GraphsInv /\ [Next]_vars => GraphsInv'
  BY GroupsApart, GraphsKept
<1> QED BY <1>1, <1>2, PTL DEF Spec

\* For any graphs viewed and deleted: at rest the cards are the graphs that are left and a
\* dialog shows one of them, whichever fetches failed, overlapped or were left behind.
THEOREM GraphsStayCurrent == Spec => []GraphsCurrent
<1>1. GraphsInv => GraphsCurrent
  <2> SUFFICES ASSUME GraphsInv, shownTab,
                      \A key \in ViewOf(kind, graphQueries, selectedId) : ~graphQueries[key].fetching
               PROVE  /\ Graphs!ShownList =>
                           Graphs!list.data = Graphs!PayloadList(kind, scenario, currentPayload)
                      /\ Graphs!DialogShown /\ ~graphQueries[selectedId].error =>
                           LET graph == CHOOSE g \in graphQueries[selectedId].data : TRUE
                           IN  /\ graph \in currentPayload /\ graph.id = selectedId
                               /\ kind = "traffic" => graph.edges \subseteq graph.nodes \X graph.nodes
    BY DEF GraphsCurrent, Graphs!GraphsCurrent, Graphs!InView, ViewOf
  <2>1. ASSUME NEW key \in Graphs!Keys, key \in ViewOf(kind, graphQueries, selectedId),
               ~graphQueries[key].error
        PROVE  Current(key)
    BY <2>1 DEF GraphsInv, QueryInv, Viewing
  <2>2. ASSUME Graphs!ShownList
        PROVE  Graphs!list.data = Graphs!PayloadList(kind, scenario, currentPayload)
    BY <2>1, <2>2, KeysApart, ListInView DEF Graphs!ShownList, Graphs!list, Current
  <2>3. ASSUME Graphs!DialogShown, ~graphQueries[selectedId].error
        PROVE  LET graph == CHOOSE g \in graphQueries[selectedId].data : TRUE
               IN  /\ graph \in currentPayload /\ graph.id = selectedId
                   /\ kind = "traffic" => graph.edges \subseteq graph.nodes \X graph.nodes
    <3> DEFINE graph == CHOOSE g \in graphQueries[selectedId].data : TRUE
    <3>1. selectedId \in Viewed /\ selectedId \in ViewOf(kind, graphQueries, selectedId)
      BY <2>3, KeysApart DEF Graphs!DialogShown, Graphs!DialogOpen, ViewOf, GraphsInv
    <3>2. /\ graphQueries[selectedId].data = {g \in currentPayload : g.id = selectedId}
          /\ graphQueries[selectedId].data # {}
      BY <2>1, <2>3, <3>1, KeysApart DEF Current
    <3>3. graph \in graphQueries[selectedId].data
      BY <3>2
    <3> HIDE DEF graph
    <3>4. graph \in currentPayload /\ graph.id = selectedId
      BY <3>2, <3>3
    <3>5. kind = "traffic" => graph \in Graphs!trafficGraphItems
      BY <3>4 DEF GraphsInv, Graphs!Items
    <3> QED BY <3>4, <3>5, EdgesJoin DEF graph
  <2> QED BY <2>2, <2>3
<1> QED BY <1>1, GraphsInvariant, PTL

\* As long as the tab was not closed during a deletion, there is at most one, and what
\* the list shows is there, or it shows an error, or a deletion waits for its fetch.
Present == \A g \in Graphs!list.data : Graphs!Has(currentPayload, g.id)

DeletionsInv ==
  /\ \A d \in deletions : DOMAIN d = {"nr", "id", "done", "awaits", "mounted"}
  /\ ~reopened =>
       /\ \A d \in deletions : d.mounted
       /\ \A d, e \in deletions : d = e
       /\ ~shownTab => deletions = {}
       /\ \/ Graphs!list.error \/ Present
          \/ \E d \in deletions : d.done /\ "list" \in d.awaits
       /\ \A d \in deletions : d.done \/ Graphs!Has(currentPayload, d.id)

\* The list is only answered with what is there: the invalid graphs fail its checks.
LEMMA ListedIsThere ==
  ASSUME Graphs!ListAnswers(kind, scenario, currentPayload)
  PROVE  Graphs!PayloadList(kind, scenario, currentPayload) \subseteq currentPayload
<1>1. CASE scenario = "invalid"
  <2>1. ~Graphs!Valid("call", Graphs!InvalidCallGraph)
    <3>1. Graphs!InvalidCallGraph.status = "broken"
      BY DEF Graphs!InvalidCallGraph, Graphs!checkoutService, Graphs!CallGraph
    <3> QED BY <3>1 DEF Graphs!Valid, Graphs!validateCallGraphInfo, Graphs!AnalysisStatus
  <2>2. kind # "call" => ~Graphs!Valid(kind, Graphs!InvalidTrafficGraph)
    <3>1. Graphs!InvalidTrafficGraph.priorities = {"urgent"}
      BY DEF Graphs!InvalidTrafficGraph, Graphs!checkoutCriticalPath, Graphs!TrafficGraph
    <3>2. ~({"urgent"} \subseteq {"high", "medium", "low"})
      OBVIOUS
    <3> QED BY <3>1, <3>2 DEF Graphs!Valid, Graphs!validateTrafficGraphInfo
  <2>3. \E g \in Graphs!PayloadList(kind, scenario, currentPayload) : ~Graphs!Valid(kind, g)
    BY <1>1, <2>1, <2>2 DEF Graphs!PayloadList
  <2> QED BY <2>3 DEF Graphs!ListAnswers
<1>2. CASE scenario # "invalid"
  BY <1>2 DEF Graphs!PayloadList
<1> QED BY <1>1, <1>2

\* The list changes with its own fetch alone, which fails or brings what is listed.
LEMMA ListFetched ==
  ASSUME GraphsInv, NEW key \in Graphs!Keys, Graphs!FetchEnds(key)
  PROVE  /\ key # "list" => graphQueries'["list"] = graphQueries["list"]
         /\ key = "list" =>
              \/ graphQueries'["list"].error
              \/ /\ Graphs!ListAnswers(kind, scenario, currentPayload)
                 /\ graphQueries'["list"].data = Graphs!PayloadList(kind, scenario, currentPayload)
<1> DEFINE old == graphQueries[key]
           shown == [loaded |-> TRUE, data |-> Graphs!Payload(key), error |-> FALSE,
                     stale |-> FALSE, fetching |-> FALSE]
           kept == [old EXCEPT !.error = TRUE, !.fetching = FALSE]
           ended == IF Graphs!Answers(key) THEN shown ELSE kept
           entries == [graphQueries EXCEPT ![key] = ended]
           back == IF shownTab
                   THEN Graphs!InView(entries, selectedId) \ Graphs!InView(graphQueries, selectedId)
                   ELSE {}
<1>0. "list" \in Graphs!Keys /\ graphQueries = [k \in Graphs!Keys |-> graphQueries[k]]
      /\ DOMAIN old = {"loaded", "data", "error", "stale", "fetching"}
  BY KeysApart DEF GraphsInv, QueryInv
<1>1. graphQueries' = Graphs!WithFetches(entries, back)
  BY DEF Graphs!FetchEnds
<1>2. "list" \notin back
  BY DEF Graphs!InView
<1>3. /\ key # "list" => entries["list"] = graphQueries["list"]
      /\ key = "list" => entries["list"] = ended
  <2> HIDE DEF ended
  <2> QED BY <1>0
<1>4. ended.error \/ (Graphs!Answers(key) /\ ended.data = Graphs!Payload(key))
  <2>1. CASE Graphs!Answers(key)
    BY <2>1
  <2>2. CASE ~Graphs!Answers(key)
    <3> HIDE DEF old
    <3> QED BY <1>0, <2>2
  <2> QED BY <2>1, <2>2
<1>5. graphQueries'["list"] = entries["list"]
  <2> HIDE DEF entries, back
  <2> QED BY <1>0, <1>1, <1>2 DEF Graphs!WithFetches
<1> HIDE DEF ended, entries
<1> QED BY <1>3, <1>4, <1>5 DEF Graphs!Answers, Graphs!Payload

LEMMA DeletionsKept ==
  ASSUME GraphsInv, DeletionsInv, [Graphs!Next]_(Graphs!vars)
  PROVE  DeletionsInv'
<1> USE DEF Graphs!StoreUnchanged, Graphs!DeletionsUnchanged
<1>0. /\ "list" \in Graphs!Keys
      /\ \A key \in Graphs!Keys :
           /\ DOMAIN graphQueries[key] = {"loaded", "data", "error", "stale", "fetching"}
           /\ ~graphQueries[key].loaded => graphQueries[key].data = {}
      /\ graphQueries = [key \in Graphs!Keys |-> graphQueries[key]]
  BY KeysApart DEF GraphsInv, QueryInv
<1>1. ASSUME graphQueries'["list"].data = graphQueries["list"].data,
             graphQueries["list"].error =>
               graphQueries'["list"].error \/ graphQueries["list"].data = {},
             UNCHANGED <<currentPayload, deletions, reopened>>, ~shownTab' => ~shownTab
      PROVE  DeletionsInv'
  BY <1>1 DEF DeletionsInv, Present, Graphs!list
<1>2. ASSUME graphQueries'["list"] \in {graphQueries["list"], Graphs!Started(graphQueries["list"])},
             UNCHANGED <<currentPayload, deletions, reopened>>, ~shownTab' => ~shownTab
      PROVE  DeletionsInv'
  <2>1. CASE graphQueries'["list"] = graphQueries["list"]
    BY <1>1, <1>2, <2>1
  <2>2. CASE graphQueries'["list"] = Graphs!Started(graphQueries["list"])
    <3>1. /\ graphQueries'["list"].data = graphQueries["list"].data
          /\ graphQueries["list"].error =>
               graphQueries'["list"].error \/ graphQueries["list"].data = {}
      BY <1>0, <2>2, QueryStarted
    <3> QED BY <1>1, <1>2, <3>1
  <2> QED BY <1>2, <2>1, <2>2
<1>3. ASSUME NEW entries, NEW keys
      PROVE  Graphs!WithFetches(entries, keys)["list"]
               \in {entries["list"], Graphs!Started(entries["list"])}
  BY <1>0 DEF Graphs!WithFetches
<1>4. ASSUME NEW key \in Graphs!Keys, Graphs!FetchEnds(key)
      PROVE  DeletionsInv'
  <2>1. /\ deletions' = Graphs!Settled(deletions, key)
        /\ UNCHANGED <<kind, scenario, currentPayload, shownTab, reopened>>
    BY <1>4 DEF Graphs!FetchEnds
  <2> DEFINE rest(e) == [e EXCEPT !.awaits = @ \ {key}]
  \* A deletion that goes on is one that waited, less what was fetched.
  <2>2. ASSUME NEW e \in deletions
        PROVE  /\ DOMAIN rest(e) = {"nr", "id", "done", "awaits", "mounted"}
               /\ rest(e).id = e.id /\ rest(e).done = e.done /\ rest(e).mounted = e.mounted
               /\ rest(e).awaits = e.awaits \ {key}
    BY DEF DeletionsInv
  <2>3. /\ \A d \in deletions' : \E e \in deletions : d = rest(e)
        /\ \A e \in deletions :
             rest(e) \in deletions' \/ ~(~rest(e).done \/ rest(e).awaits # {})
    BY <2>1 DEF Graphs!Settled
  <2> HIDE DEF rest
  <2>4. (\A d \in deletions' : DOMAIN d = {"nr", "id", "done", "awaits", "mounted"})
    BY <2>2, <2>3
  <2>5. ASSUME ~reopened
        PROVE  /\ \A d \in deletions' : d.mounted /\ (d.done \/ Graphs!Has(currentPayload, d.id))
               /\ \A d, e \in deletions' : d = e
               /\ ~shownTab => deletions' = {}
    <3>1. /\ \A d \in deletions : d.mounted /\ (d.done \/ Graphs!Has(currentPayload, d.id))
          /\ \A d, e \in deletions : d = e
          /\ ~shownTab => deletions = {}
      BY <2>5 DEF DeletionsInv
    <3> QED BY <2>2, <2>3, <3>1
  <2>6. ASSUME ~reopened
        PROVE  \/ graphQueries'["list"].error
               \/ \A g \in graphQueries'["list"].data : Graphs!Has(currentPayload, g.id)
               \/ \E d \in deletions' : d.done /\ "list" \in d.awaits
    <3>1. CASE key = "list"
      BY <1>4, <3>1, ListFetched, ListedIsThere DEF Graphs!Has
    <3>2. CASE key # "list"
      <4>1. graphQueries'["list"] = graphQueries["list"]
        BY <1>4, <3>2, ListFetched
      <4>2. ASSUME NEW e \in deletions, e.done, "list" \in e.awaits
            PROVE  rest(e) \in deletions' /\ rest(e).done /\ "list" \in rest(e).awaits
        BY <2>2, <2>3, <3>2, <4>2
      <4> QED BY <2>6, <4>1, <4>2 DEF DeletionsInv, Present, Graphs!list
    <3> QED BY <3>1, <3>2
  <2> QED BY <2>1, <2>4, <2>5, <2>6 DEF DeletionsInv, Present, Graphs!list
<1>5. ASSUME NEW key \in Graphs!Keys, Graphs!GoesStale(key)
      PROVE  DeletionsInv'
  <2>1. /\ graphQueries'["list"].data = graphQueries["list"].data
        /\ graphQueries'["list"].error = graphQueries["list"].error
    BY <1>0, <1>5 DEF Graphs!GoesStale
  <2> QED BY <1>1, <1>5, <2>1 DEF Graphs!GoesStale
<1>6. ASSUME NEW key \in Graphs!Keys, Graphs!Retry(key)
      PROVE  DeletionsInv'
  <2>1. graphQueries' = [graphQueries EXCEPT ![key] = Graphs!Started(graphQueries[key])]
    BY <1>6 DEF Graphs!Retry
  <2>2. graphQueries'["list"] \in {graphQueries["list"], Graphs!Started(graphQueries["list"])}
    BY <1>0, <2>1
  <2> QED BY <1>2, <1>6, <2>2 DEF Graphs!Retry
<1>7. ASSUME Graphs!Focus
      PROVE  DeletionsInv'
  BY <1>2, <1>3, <1>7 DEF Graphs!Focus
<1>8. ASSUME NEW id \in Viewed, Graphs!View(id)
      PROVE  DeletionsInv'
  BY <1>2, <1>3, <1>8 DEF Graphs!View
<1>9. ASSUME Graphs!CloseDialog
      PROVE  DeletionsInv'
  BY <1>2, <1>9 DEF Graphs!CloseDialog
<1>10. ASSUME Graphs!OpenTab
       PROVE  DeletionsInv'
  BY <1>2, <1>3, <1>10 DEF Graphs!OpenTab
\* Closed with nothing under way, the tab has no deletions; otherwise it was reopened.
<1>11. ASSUME Graphs!CloseTab
       PROVE  DeletionsInv'
  <2>1. /\ deletions' = {[d EXCEPT !.mounted = FALSE] : d \in deletions}
        /\ reopened' = (reopened \/ deletions # {})
        /\ UNCHANGED <<graphQueries, currentPayload>>
    BY <1>11 DEF Graphs!CloseTab
  <2>2. \A d \in deletions' : DOMAIN d = {"nr", "id", "done", "awaits", "mounted"}
    BY <2>1 DEF DeletionsInv
  <2>3. ~reopened' => deletions = {} /\ deletions' = {} /\ ~reopened
    BY <2>1
  <2> QED BY <2>1, <2>2, <2>3 DEF DeletionsInv, Present, Graphs!list
\* With no deletion pending, the list that is shown is there.
<1>12. ASSUME NEW id \in Viewed, Graphs!Delete(id)
       PROVE  DeletionsInv'
  <2> DEFINE new == [nr |-> asked', id |-> id, done |-> FALSE, awaits |-> {}, mounted |-> TRUE]
  <2>1. /\ deletions' = deletions \cup {new}
        /\ UNCHANGED <<graphQueries, currentPayload, shownTab, reopened>>
        /\ shownTab /\ ~Graphs!list.error /\ Graphs!Has(Graphs!list.data, id)
        /\ \A d \in deletions : ~d.mounted
    BY <1>12 DEF Graphs!Delete, Graphs!CardShown, Graphs!ShownList, Graphs!isPending
  <2>2. new.id = id /\ ~new.done /\ new.mounted
        /\ DOMAIN new = {"nr", "id", "done", "awaits", "mounted"}
    OBVIOUS
  <2> HIDE DEF new
  <2>3. ~reopened => deletions = {} /\ Present
    BY <2>1 DEF DeletionsInv
  <2>4. ~reopened => Graphs!Has(currentPayload, id)
    BY <2>1, <2>3 DEF Present, Graphs!Has
  <2> QED BY <2>1, <2>2, <2>3, <2>4 DEF DeletionsInv, Present, Graphs!list
\* One that succeeds waits for the list, as the tab is open.
<1>13. ASSUME NEW d \in deletions, Graphs!DeleteSucceeds(d)
       PROVE  DeletionsInv'
  <2> DEFINE inView == IF shownTab THEN Graphs!InView(graphQueries, selectedId) ELSE {}
             new == [d EXCEPT !.done = TRUE, !.awaits = inView]
  <2>1. /\ deletions' = (deletions \ {d}) \cup {e \in {new} : e.awaits # {}}
        /\ UNCHANGED <<shownTab, reopened>>
    BY <1>13 DEF Graphs!DeleteSucceeds, Graphs!Awaited
  <2>2. /\ DOMAIN new = {"nr", "id", "done", "awaits", "mounted"}
        /\ new.done /\ new.awaits = inView /\ new.mounted = d.mounted
    <3> HIDE DEF inView
    <3> QED BY DEF DeletionsInv
  <2>3. shownTab => "list" \in inView
    BY DEF Graphs!InView
  <2> HIDE DEF inView, new
  <2>4. \A e \in deletions' : DOMAIN e = {"nr", "id", "done", "awaits", "mounted"}
    BY <2>1, <2>2 DEF DeletionsInv
  <2>5. ~reopened => shownTab /\ deletions = {d} /\ d.mounted
    BY DEF DeletionsInv
  <2>6. ~reopened => deletions' = {new} /\ "list" \in new.awaits /\ new.mounted
    BY <2>1, <2>2, <2>3, <2>5
  <2> QED BY <2>1, <2>2, <2>4, <2>5, <2>6 DEF DeletionsInv, Present, Graphs!list
<1>14. ASSUME NEW d \in deletions, Graphs!DeleteFails(d)
       PROVE  DeletionsInv'
  <2>1. /\ deletions' = deletions \ {d} /\ ~d.done /\ ~Graphs!Has(currentPayload, d.id)
        /\ UNCHANGED <<graphQueries, currentPayload, shownTab, reopened>>
    BY <1>14 DEF Graphs!DeleteFails
  <2>2. reopened
    BY <2>1 DEF DeletionsInv
  <2> QED BY <2>1, <2>2 DEF DeletionsInv
<1>15. CASE UNCHANGED Graphs!vars
  BY <1>2, <1>15 DEF Graphs!vars
<1>16. CASE Graphs!Next
  BY <1>4, <1>5, <1>6, <1>7, <1>8, <1>9, <1>10, <1>11, <1>12, <1>13, <1>14, <1>16
     DEF Graphs!Next
<1> QED BY <1>15, <1>16

\* For any graphs and any number of deletions: as long as the tab was not closed during
\* one of them, the buttons only delete graphs that are still there.
THEOREM DeletionsFindTheirGraph == Spec => []DeletesWhatIsThere
<1>1. Init => DeletionsInv
  BY GroupsApart DEF Graphs!Init, DeletionsInv, Present, Graphs!list, Graphs!NoQuery,
     Graphs!Started, Graphs!Keys
<1>2. GraphsInv /\ DeletionsInv /\ [Next]_vars => DeletionsInv'
  BY GroupsApart, DeletionsKept
<1>3. DeletionsInv => DeletesWhatIsThere
  BY DEF DeletionsInv, DeletesWhatIsThere, Graphs!DeletesWhatIsThere
<1> QED BY <1>1, <1>2, <1>3, GraphsInvariant, PTL DEF Spec

-----------------------------------------------------------------------------
(* Sums and other functions that go by the number before. *)

LEMMA LeastNumber ==
  ASSUME NEW S \in SUBSET Nat, S # {}
  PROVE  \E i \in S : \A j \in S : i <= j
<1> DEFINE less == {p \in Nat \X Nat : p[1] < p[2]}
<1>1. less = OpToRel(<, Nat)
  BY Zenon DEF OpToRel
<1>2. IsWellFoundedOn(less, Nat)
  BY <1>1, NatLessThanWellFounded, Zenon
<1>3. PICK i \in S : \A j \in S : ~(<<j, i>> \in less)
  BY <1>2, WFMin, Zenon
<1>4. ASSUME NEW j \in S PROVE i <= j
  <2>1. ~(<<j, i>> \in less)
    BY <1>3
  <2>2. i \in Nat /\ j \in Nat
    OBVIOUS
  <2>3. ~(j < i)
    BY <2>1, <2>2
  <2> QED BY <2>2, <2>3
<1> QED BY <1>4

\* f goes from base, by one step after the other.
Goes(f, n, base, step) == f[0] = base /\ \A i \in 1..n : f[i] = step[i][f[i - 1]]

\* A step at each number, from the one before, makes up a function.
LEMMA StepsMakeFunction ==
  ASSUME NEW n \in Nat, NEW S, NEW base \in S, NEW step \in [1..n -> [S -> S]]
  PROVE  \E f \in [0..n -> S] : Goes(f, n, base, step)
<1> DEFINE Until(m) == \E f \in [0..m -> S] :
                         f[0] = base /\ \A i \in 1..m : f[i] = step[i][f[i - 1]]
           fails == {m \in 0..n : ~Until(m)}
<1>0. Until(0)
  <2> DEFINE f == [i \in 0..0 |-> base]
  <2>1. f \in [0..0 -> S] /\ f[0] = base
    OBVIOUS
  <2>2. \A i \in 1..0 : f[i] = step[i][f[i - 1]]
    OBVIOUS
  <2> HIDE DEF f
  <2> QED BY <2>1, <2>2
<1>1. ASSUME fails # {} PROVE FALSE
  <2>1. PICK m \in fails : \A k \in fails : m <= k
    <3>1. fails \in SUBSET Nat
      OBVIOUS
    <3> HIDE DEF fails
    <3> QED BY <1>1, <3>1, LeastNumber
  <2>2. m \in 0..n /\ ~Until(m)
    OBVIOUS
  <2>3. m # 0
    <3> HIDE DEF Until, fails
    <3> QED BY <1>0, <2>2
  <2>4. m \in 1..n /\ m - 1 \in 0..n /\ m \in Nat
    <3> HIDE DEF Until, fails
    <3> QED BY <2>2, <2>3
  <2>5. m - 1 \notin fails
    <3> HIDE DEF Until, fails
    <3> QED BY <2>1, <2>4
  <2>6. Until(m - 1)
    <3> HIDE DEF Until
    <3> QED BY <2>4, <2>5
  <2>7. PICK f \in [0..(m - 1) -> S] :
          f[0] = base /\ \A i \in 1..(m - 1) : f[i] = step[i][f[i - 1]]
    BY <2>6
  <2> DEFINE g == [i \in 0..m |-> IF i < m THEN f[i] ELSE step[m][f[m - 1]]]
  <2> HIDE DEF Until, fails
  <2>8. step[m][f[m - 1]] \in S
    BY <2>4, <2>7
  <2>9. g \in [0..m -> S] /\ g[0] = base
    BY <2>4, <2>7, <2>8
  <2>10. ASSUME NEW i \in 1..m PROVE g[i] = step[i][g[i - 1]]
    <3>1. CASE i < m
      <4>1. i \in 1..(m - 1) /\ i - 1 \in 0..m /\ i \in 0..m /\ i - 1 < m
        BY <2>4, <3>1
      <4> QED BY <2>7, <3>1, <4>1
    <3>2. CASE i = m
      <4>1. m \in 0..m /\ m - 1 \in 0..m /\ m - 1 < m /\ ~(m < m)
        BY <2>4
      <4> QED BY <3>2, <4>1
    <3> QED BY <2>4, <3>1, <3>2
  <2> HIDE DEF g
  <2>11. Until(m)
    BY <2>9, <2>10 DEF Until
  <2> QED BY <2>2, <2>11
<1>2. n \notin fails
  <2> HIDE DEF fails
  <2> QED BY <1>1
<1>3. Until(n)
  <2> HIDE DEF Until
  <2> QED BY <1>2
<1> QED BY <1>3 DEF Goes

\* f[n] has the first n of the sequences s joined.
Joins(f, s) == f[0] = <<>> /\ \A i \in 1..Len(s) : f[i] = f[i - 1] \o s[i]

\* The recursion of FlattenSeq goes through the sequence.
LEMMA FlattenJoins ==
  ASSUME NEW U, NEW s \in Seq(Seq(U))
  PROVE  \E f : Joins(f, s) /\ FlattenSeq(s) = f[Len(s)]
<1> DEFINE joins(f) == f = [i \in 1..Len(s) |-> IF i = 1 THEN s[i] ELSE f[i - 1] \o s[i]]
           flatten == CHOOSE f : joins(f)
           step == [i \in 1..Len(s) |-> [r \in Seq(U) |-> IF i = 1 THEN s[i] ELSE r \o s[i]]]
           all == [i \in 0..Len(s) |-> IF i = 0 THEN <<>> ELSE flatten[i]]
<1>1. Len(s) \in Nat /\ \A i \in 1..Len(s) : s[i] \in Seq(U)
  BY LenProperties, ElementOfSeq
<1>2. \E f : joins(f)
  <2>1. step \in [1..Len(s) -> [Seq(U) -> Seq(U)]]
    <3>1. ASSUME NEW i \in 1..Len(s), NEW r \in Seq(U) PROVE r \o s[i] \in Seq(U)
      BY <1>1, ConcatProperties
    <3>2. ASSUME NEW i \in 1..Len(s)
          PROVE  [r \in Seq(U) |-> IF i = 1 THEN s[i] ELSE r \o s[i]] \in [Seq(U) -> Seq(U)]
      BY <1>1, <3>1
    <3> QED BY <3>2
  <2>2. PICK f \in [0..Len(s) -> Seq(U)] : Goes(f, Len(s), <<>>, step)
    <3> DEFINE N == Len(s)
               Q == Seq(U)
               none == <<>>
    <3>1. N \in Nat /\ none \in Q /\ step \in [1..N -> [Q -> Q]]
      BY <1>1, <2>1, EmptySeq
    <3> HIDE DEF step, N, Q, none
    <3>2. \E f \in [0..N -> Q] : Goes(f, N, none, step)
      BY <3>1, StepsMakeFunction
    <3> QED BY <3>2 DEF N, Q, none
  <2>3. ASSUME NEW i \in 1..Len(s)
        PROVE  f[i] = IF i = 1 THEN s[i] ELSE f[i - 1] \o s[i]
    <3>1. i - 1 \in 0..Len(s)
      BY <1>1
    <3>2. f[i - 1] \in Seq(U)
      BY <3>1
    <3> QED BY <2>2, <3>2 DEF Goes
  <2> DEFINE g == [i \in 1..Len(s) |-> f[i]]
  <2>4. ASSUME NEW i \in 1..Len(s)
        PROVE  g[i] = IF i = 1 THEN s[i] ELSE g[i - 1] \o s[i]
    <3>1. i # 1 => i - 1 \in 1..Len(s)
      BY <1>1
    <3> QED BY <2>3, <3>1
  <2>5. g = [i \in 1..Len(s) |-> g[i]]
    OBVIOUS
  <2> HIDE DEF g
  <2>6. joins(g)
    BY <2>4, <2>5
  <2> QED BY <2>6
<1>3. joins(flatten)
  <2> HIDE DEF joins
  <2> QED BY <1>2
<1> HIDE DEF flatten, step
<1>4. \A i \in 1..Len(s) : flatten[i] = IF i = 1 THEN s[i] ELSE flatten[i - 1] \o s[i]
  BY <1>3
<1> HIDE DEF joins
<1>5. FlattenSeq(s) = all[Len(s)]
  <2>1. CASE Len(s) = 0
    <3>1. s = <<>>
      BY <2>1
    <3>2. FlattenSeq(s) = <<>>
      BY <2>1, <3>1 DEF FlattenSeq
    <3> QED BY <2>1, <3>2
  <2>2. CASE Len(s) # 0
    <3>1. FlattenSeq(s) = flatten[Len(s)]
      BY <2>2 DEF FlattenSeq, flatten, joins
    <3> QED BY <1>1, <2>2, <3>1
  <2> QED BY <2>1, <2>2
<1>6. ASSUME NEW i \in 1..Len(s) PROVE all[i] = all[i - 1] \o s[i]
  <2>1. i \in 0..Len(s) /\ i - 1 \in 0..Len(s) /\ i # 0
    BY <1>1
  <2>2. CASE i = 1
    <3>1. all[i - 1] = <<>> /\ all[i] = s[i]
      BY <1>4, <2>1, <2>2
    <3>2. <<>> \o s[i] = s[i]
      BY <1>1, ConcatEmptySeq
    <3> QED BY <3>1, <3>2
  <2>3. CASE i # 1
    <3>1. i - 1 # 0 /\ all[i - 1] = flatten[i - 1] /\ all[i] = flatten[i]
      BY <1>1, <2>1, <2>3
    <3> HIDE DEF all
    <3> QED BY <1>4, <2>3, <3>1
  <2> QED BY <2>2, <2>3
<1>7. all[0] = <<>>
  BY <1>1
<1> HIDE DEF all
<1> QED BY <1>5, <1>6, <1>7 DEF Joins

\* sum has the first of these numbers, added up one by one.
Sums(sum, n, numbers) == sum[0] = 0 /\ \A i \in 1..n : sum[i] = sum[i - 1] + numbers[i]

LEMMA SumsMakeFunction ==
  ASSUME NEW n \in Nat, NEW numbers \in [1..n -> Int]
  PROVE  LET adds(f) == f = [i \in 0..n |-> IF i = 0 THEN 0 ELSE f[i - 1] + numbers[i]]
         IN  /\ \E f : adds(f)
             /\ \A f : adds(f) => Sums(f, n, numbers)
<1> DEFINE adds(f) == f = [i \in 0..n |-> IF i = 0 THEN 0 ELSE f[i - 1] + numbers[i]]
           step == [i \in 1..n |-> [t \in Int |-> t + numbers[i]]]
<1>1. step \in [1..n -> [Int -> Int]] /\ 0 \in Int
  OBVIOUS
<1>2. PICK f \in [0..n -> Int] : f[0] = 0 /\ \A i \in 1..n : f[i] = step[i][f[i - 1]]
  <2> HIDE DEF step
  <2>1. \E f \in [0..n -> Int] : Goes(f, n, 0, step)
    BY <1>1, StepsMakeFunction
  <2> QED BY <2>1 DEF Goes
<1>3. ASSUME NEW i \in 0..n
      PROVE  f[i] = IF i = 0 THEN 0 ELSE f[i - 1] + numbers[i]
  <2>1. CASE i = 0
    BY <1>2, <2>1
  <2>2. CASE i # 0
    <3>1. i \in 1..n /\ i - 1 \in 0..n
      BY <2>2
    <3> QED BY <1>2, <2>2, <3>1
  <2> QED BY <2>1, <2>2
<1>4. adds(f)
  BY <1>3
<1>5. ASSUME NEW g, adds(g) PROVE Sums(g, n, numbers)
  <2>1. g[0] = 0
    BY <1>5
  <2>2. ASSUME NEW i \in 1..n PROVE g[i] = g[i - 1] + numbers[i]
    BY <1>5
  <2> HIDE DEF adds
  <2> QED BY <2>1, <2>2 DEF Sums
<1> HIDE DEF adds
<1>6. \E g : adds(g)
  BY <1>4
<1> QED BY <1>5, <1>6 DEF adds

-----------------------------------------------------------------------------
(* The executions of agents, and how one is explained. *)

LEMMA AgentsOfExecutions ==
  LET of(id) == Executions!mockAgentExecutions[id]
  IN  /\ DOMAIN Executions!mockAgentExecutions
           = {Executions!megaAgent, Executions!ftaAgent, Executions!ragAgent,
              Executions!skillAgent, Executions!rdsAgent}
      /\ of(Executions!megaAgent) = Executions!megaExecutions
      /\ of(Executions!ftaAgent) = Executions!ftaExecutions
      /\ of(Executions!ragAgent) = Executions!ragExecutions
      /\ of(Executions!skillAgent) = Executions!skillExecutions
      /\ of(Executions!rdsAgent) = Executions!rdsExecutions
<1>1. /\ Executions!megaAgent # Executions!ftaAgent /\ Executions!megaAgent # Executions!ragAgent
      /\ Executions!megaAgent # Executions!skillAgent /\ Executions!megaAgent # Executions!rdsAgent
      /\ Executions!ftaAgent # Executions!ragAgent /\ Executions!ftaAgent # Executions!skillAgent
      /\ Executions!ftaAgent # Executions!rdsAgent /\ Executions!ragAgent # Executions!skillAgent
      /\ Executions!ragAgent # Executions!rdsAgent /\ Executions!skillAgent # Executions!rdsAgent
  BY DEF Executions!megaAgent, Executions!ftaAgent, Executions!ragAgent, Executions!skillAgent,
         Executions!rdsAgent
<1> QED BY <1>1, Zenon DEF Executions!mockAgentExecutions

\* What is so of each of the shipped executions.
Plausible(e) ==
  /\ e.route_type \in {"multi", "direct", "fta", "rag", "skill"}
  /\ e.status \in {"completed", "failed"}
  /\ e.duration_ms \in Nat /\ e.duration_ms >= 480
  /\ e.route_type \in {"multi", "rag"} \/ e.duration_ms >= 500

LEMMA ShippedRuns ==
  /\ DOMAIN Executions!megaExecutions = 1..4
  /\ \A i \in 1..4 :
       LET e == Executions!megaExecutions[i]
       IN  /\ Plausible(e) /\ e.agent_id = Executions!megaAgent
           /\ e.id = <<"aexec-001", "aexec-002", "aexec-003", "aexec-004">>[i]
  /\ DOMAIN Executions!ftaExecutions = 1..3
  /\ \A i \in 1..3 :
       LET e == Executions!ftaExecutions[i]
       IN  /\ Plausible(e) /\ e.agent_id = Executions!ftaAgent
           /\ e.id = <<"aexec-005", "aexec-006", "aexec-007">>[i]
  /\ DOMAIN Executions!ragExecutions = 1..3
  /\ \A i \in 1..3 :
       LET e == Executions!ragExecutions[i]
       IN  /\ Plausible(e) /\ e.agent_id = Executions!ragAgent
           /\ e.id = <<"aexec-008", "aexec-009", "aexec-010">>[i]
  /\ DOMAIN Executions!skillExecutions = 1..3
  /\ \A i \in 1..3 :
       LET e == Executions!skillExecutions[i]
       IN  /\ Plausible(e) /\ e.agent_id = Executions!skillAgent
           /\ e.id = <<"aexec-011", "aexec-012", "aexec-013">>[i]
  /\ DOMAIN Executions!rdsExecutions = 1..2
  /\ \A i \in 1..2 :
       LET e == Executions!rdsExecutions[i]
       IN  /\ Plausible(e) /\ e.agent_id = Executions!rdsAgent
           /\ e.id = <<"aexec-014", "aexec-015">>[i]
<1>1. /\ DOMAIN Executions!megaExecutions = 1..4
      /\ \A i \in 1..4 :
           LET e == Executions!megaExecutions[i]
           IN  /\ Plausible(e) /\ e.agent_id = Executions!megaAgent
               /\ e.id = <<"aexec-001", "aexec-002", "aexec-003", "aexec-004">>[i]
  BY DEF Executions!megaExecutions, Executions!Execution, Plausible
<1>2. /\ DOMAIN Executions!ftaExecutions = 1..3
      /\ \A i \in 1..3 :
           LET e == Executions!ftaExecutions[i]
           IN  /\ Plausible(e) /\ e.agent_id = Executions!ftaAgent
               /\ e.id = <<"aexec-005", "aexec-006", "aexec-007">>[i]
  BY DEF Executions!ftaExecutions, Executions!Execution, Plausible
<1>3. /\ DOMAIN Executions!ragExecutions = 1..3
      /\ \A i \in 1..3 :
           LET e == Executions!ragExecutions[i]
           IN  /\ Plausible(e) /\ e.agent_id = Executions!ragAgent
               /\ e.id = <<"aexec-008", "aexec-009", "aexec-010">>[i]
  BY DEF Executions!ragExecutions, Executions!Execution, Plausible
<1>4. /\ DOMAIN Executions!skillExecutions = 1..3
      /\ \A i \in 1..3 :
           LET e == Executions!skillExecutions[i]
           IN  /\ Plausible(e) /\ e.agent_id = Executions!skillAgent
               /\ e.id = <<"aexec-011", "aexec-012", "aexec-013">>[i]
  BY DEF Executions!skillExecutions, Executions!Execution, Plausible
<1>5. /\ DOMAIN Executions!rdsExecutions = 1..2
      /\ \A i \in 1..2 :
           LET e == Executions!rdsExecutions[i]
           IN  /\ Plausible(e) /\ e.agent_id = Executions!rdsAgent
               /\ e.id = <<"aexec-014", "aexec-015">>[i]
  BY DEF Executions!rdsExecutions, Executions!Execution, Plausible
<1> QED BY <1>1, <1>2, <1>3, <1>4, <1>5

LEMMA ExecutionsOfAgent ==
  /\ \A id : \A e \in Executions!ToSet(Executions!getAgentExecutions(id)) :
       e.agent_id = id /\ e \in Executions!allExecutions
  /\ \A e \in Executions!allExecutions :
       Plausible(e) /\ e \in Executions!ToSet(Executions!getAgentExecutions(e.agent_id))
<1> DEFINE A == DOMAIN Executions!mockAgentExecutions
           at(id) == Executions!ToSet(Executions!mockAgentExecutions[id])
<1>1. \A id \in A : \A e \in at(id) : Plausible(e) /\ e.agent_id = id
  BY AgentsOfExecutions, ShippedRuns DEF Executions!ToSet
<1> HIDE DEF A
<1>2. Executions!allExecutions = UNION {at(id) : id \in A}
  BY Zenon DEF Executions!allExecutions, A
<1>3. \A id : Executions!getAgentExecutions(id)
                = IF id \in A THEN Executions!mockAgentExecutions[id] ELSE <<>>
  BY Zenon DEF Executions!getAgentExecutions, A
<1>4. Executions!ToSet(<<>>) = {}
  BY DEF Executions!ToSet
<1> HIDE DEF at
<1>5. ASSUME NEW id, NEW e \in Executions!ToSet(Executions!getAgentExecutions(id))
      PROVE  e.agent_id = id /\ e \in Executions!allExecutions
  <2>1. id \in A /\ e \in at(id)
    BY <1>3, <1>4, <1>5 DEF at
  <2> QED BY <1>1, <1>2, <2>1
<1>6. ASSUME NEW e \in Executions!allExecutions
      PROVE  Plausible(e) /\ e \in Executions!ToSet(Executions!getAgentExecutions(e.agent_id))
  <2>1. PICK id \in A : e \in at(id)
    BY <1>2
  <2>2. Plausible(e) /\ e.agent_id = id
    BY <1>1, <2>1
  <2> QED BY <1>3, <2>1, <2>2 DEF at
<1> QED BY <1>5, <1>6

LEMMA RunsToldApart ==
  \A e, f \in Executions!allExecutions : e.id = f.id => e = f
<1> DEFINE mega(i) == Executions!megaExecutions[i]
           fta(i) == Executions!ftaExecutions[i]
           rag(i) == Executions!ragExecutions[i]
           skill(i) == Executions!skillExecutions[i]
           rds(i) == Executions!rdsExecutions[i]
           with(id) ==
             IF id = "aexec-001" THEN mega(1) ELSE
             IF id = "aexec-002" THEN mega(2) ELSE
             IF id = "aexec-003" THEN mega(3) ELSE
             IF id = "aexec-004" THEN mega(4) ELSE
             IF id = "aexec-005" THEN fta(1) ELSE
             IF id = "aexec-006" THEN fta(2) ELSE
             IF id = "aexec-007" THEN fta(3) ELSE
             IF id = "aexec-008" THEN rag(1) ELSE
             IF id = "aexec-009" THEN rag(2) ELSE
             IF id = "aexec-010" THEN rag(3) ELSE
             IF id = "aexec-011" THEN skill(1) ELSE
             IF id = "aexec-012" THEN skill(2) ELSE
             IF id = "aexec-013" THEN skill(3) ELSE
             IF id = "aexec-014" THEN rds(1) ELSE
             rds(2)
<1> HIDE DEF mega, fta, rag, skill, rds
<1>1. with("aexec-001") = mega(1) /\ with("aexec-002") = mega(2) /\ with("aexec-003") = mega(3) /\ with("aexec-004") = mega(4)
  OBVIOUS
<1>2. with("aexec-005") = fta(1) /\ with("aexec-006") = fta(2) /\ with("aexec-007") = fta(3)
  OBVIOUS
<1>3. with("aexec-008") = rag(1) /\ with("aexec-009") = rag(2) /\ with("aexec-010") = rag(3)
  OBVIOUS
<1>4. with("aexec-011") = skill(1) /\ with("aexec-012") = skill(2) /\ with("aexec-013") = skill(3)
  OBVIOUS
<1>5. with("aexec-014") = rds(1) /\ with("aexec-015") = rds(2)
  OBVIOUS
<1> HIDE DEF with
<1>6. \A i \in DOMAIN Executions!megaExecutions : with(mega(i).id) = mega(i)
  BY <1>1, ShippedRuns DEF mega
<1>7. \A i \in DOMAIN Executions!ftaExecutions : with(fta(i).id) = fta(i)
  BY <1>2, ShippedRuns DEF fta
<1>8. \A i \in DOMAIN Executions!ragExecutions : with(rag(i).id) = rag(i)
  BY <1>3, ShippedRuns DEF rag
<1>9. \A i \in DOMAIN Executions!skillExecutions : with(skill(i).id) = skill(i)
  BY <1>4, ShippedRuns DEF skill
<1>10. \A i \in DOMAIN Executions!rdsExecutions : with(rds(i).id) = rds(i)
  BY <1>5, ShippedRuns DEF rds
<1>11. ASSUME NEW e \in Executions!allExecutions PROVE with(e.id) = e
  <2>1. PICK id \in DOMAIN Executions!mockAgentExecutions :
          \E i \in DOMAIN Executions!mockAgentExecutions[id] : e = Executions!mockAgentExecutions[id][i]
    BY DEF Executions!allExecutions, Executions!ToSet
  <2> QED BY <2>1, <1>6, <1>7, <1>8, <1>9, <1>10, AgentsOfExecutions DEF mega, fta, rag, skill, rds
<1> QED BY <1>11

LEMMA Extended ==
  ASSUME NEW S, NEW s \in Seq(S), NEW x \in S, NEW n \in Nat, Len(s) = n
  PROVE  /\ Append(s, x) \in Seq(S) /\ Len(Append(s, x)) = n + 1 /\ Append(s, x)[n + 1] = x
         /\ \A i \in 1..n : Append(s, x)[i] = s[i]
  BY AppendProperties

HookTime(h, types) == IF h.hook_type \in types THEN h.duration_ms ELSE 0

\* sum has the times of the hooks of these types, added up one by one.
AddsUp(sum, hooks, n, types) ==
  sum[0] = 0 /\ \A i \in 1..n : sum[i] = sum[i - 1] + HookTime(hooks[i], types)

LEMMA TimesAddUp ==
  ASSUME NEW hooks, NEW n \in Nat, Len(hooks) = n, NEW types,
         \A i \in 1..n : HookTime(hooks[i], types) \in Int
  PROVE  \E sum : AddsUp(sum, hooks, n, types) /\ Executions!TimeIn(hooks, types) = sum[n]
<1> DEFINE times == [i \in 1..n |-> HookTime(hooks[i], types)]
           adds(f) == f = [i \in 0..n |-> IF i = 0 THEN 0 ELSE f[i - 1] + times[i]]
           sums(f) == f = [i \in 0..Len(hooks) |->
                             IF i = 0 THEN 0
                             ELSE f[i - 1] + (IF hooks[i].hook_type \in types
                                              THEN hooks[i].duration_ms ELSE 0)]
           sum == CHOOSE f : sums(f)
<1>1. times \in [1..n -> Int]
  OBVIOUS
<1>2. (\E f : adds(f)) /\ \A f : adds(f) => Sums(f, n, times)
  <2> HIDE DEF times
  <2> QED BY <1>1, SumsMakeFunction
<1>3. ASSUME NEW f PROVE adds(f) <=> sums(f)
  <2>1. ASSUME NEW i \in 0..n
        PROVE  (IF i = 0 THEN 0 ELSE f[i - 1] + times[i])
               = (IF i = 0 THEN 0 ELSE f[i - 1] + (IF hooks[i].hook_type \in types
                                                   THEN hooks[i].duration_ms ELSE 0))
    <3>1. i # 0 => times[i] = IF hooks[i].hook_type \in types THEN hooks[i].duration_ms ELSE 0
      BY DEF HookTime
    <3> QED BY <3>1
  <2> HIDE DEF times
  <2> QED BY <2>1
<1>4. sums(sum)
  <2> HIDE DEF adds, sums
  <2> QED BY <1>2, <1>3
<1>5. Executions!TimeIn(hooks, types) = sum[n]
  BY DEF Executions!TimeIn
<1>6. adds(sum)
  <2> HIDE DEF adds, sums, sum
  <2> QED BY <1>3, <1>4
<1> HIDE DEF sum, sums
<1>7. sum[0] = 0
  BY <1>6
<1>8. ASSUME NEW i \in 1..n PROVE sum[i] = sum[i - 1] + HookTime(hooks[i], types)
  BY <1>6
<1> QED BY <1>5, <1>7, <1>8 DEF AddsUp

LEMMA TimeOfHooks ==
  ASSUME NEW hooks, NEW n \in {4, 5}, Len(hooks) = n, NEW types,
         \A i \in 1..n : HookTime(hooks[i], types) \in Int
  PROVE  LET Time(i) == HookTime(hooks[i], types)
         IN  Executions!TimeIn(hooks, types)
               = Time(1) + Time(2) + (IF n = 5 THEN Time(3) ELSE 0) + Time(n - 1) + Time(n)
<1>1. PICK sum : AddsUp(sum, hooks, n, types) /\ Executions!TimeIn(hooks, types) = sum[n]
  BY TimesAddUp
<1>2. sum[0] = 0 /\ \A i \in 1..n : sum[i] = sum[i - 1] + HookTime(hooks[i], types)
  BY <1>1 DEF AddsUp
<1>3. /\ sum[1] = HookTime(hooks[1], types) /\ sum[2] = sum[1] + HookTime(hooks[2], types)
      /\ sum[3] = sum[2] + HookTime(hooks[3], types) /\ sum[4] = sum[3] + HookTime(hooks[4], types)
      /\ n = 5 => sum[5] = sum[4] + HookTime(hooks[5], types)
  BY <1>2
<1> QED BY <1>1, <1>3

Is(hook, ran, ms, at) ==
  hook.hook_type = ran /\ hook.duration_ms = ms /\ hook.timestamp = at

\* The hooks of an execution: two before it, a third for what is looked up, one for its
\* outcome and one for its memory.
AreLogs(hooks, n, e, end) ==
  /\ Len(hooks) = n /\ n = (IF e.route_type \in {"rag", "multi"} THEN 5 ELSE 4)
  /\ DOMAIN hooks = 1..n
  /\ Is(hooks[1], "pre_execution", 12, 0) /\ Is(hooks[2], "pre_execution", 8, 1)
  /\ n = 5 => Is(hooks[3], "pre_execution", 15, 2)
  /\ IF e.status = "failed" THEN Is(hooks[n - 1], "on_error", 120, end)
     ELSE Is(hooks[n - 1], "post_execution", 6, end)
  /\ Is(hooks[n], "post_execution", 9, end + 1)

LEMMA HooksAre ==
  ASSUME NEW e
  PROVE  \E n : AreLogs(Executions!buildHookLogs(e), n, e, Executions!Seconds(e.duration_ms))
<1> DEFINE H(n, t, s, ms, at) == Executions!Hook(n, t, s, ms, at)
           end == Executions!Seconds(e.duration_ms)
           a == H("compaction", "pre_execution", "success", 12, 0)
           b == H("quota-check", "pre_execution", "success", 8, 1)
           c == H("prefetch", "pre_execution", "success", 15, 2)
           d == IF e.status = "failed" THEN H("error-report", "on_error", "failed", 120, end)
                ELSE H("log", "post_execution", "success", 6, end)
           f == H("memory", "post_execution", "success", 9, end + 1)
           S == {a, b, c, d, f}
           with == Append(<<a, b>>, c)
<1>1. /\ Is(a, "pre_execution", 12, 0) /\ Is(b, "pre_execution", 8, 1)
      /\ Is(c, "pre_execution", 15, 2) /\ Is(f, "post_execution", 9, end + 1)
  BY DEF Executions!Hook, Is
<1>2. IF e.status = "failed" THEN Is(d, "on_error", 120, end) ELSE Is(d, "post_execution", 6, end)
  BY DEF Executions!Hook, Is
<1>3. Executions!buildHookLogs(e)
        = Append(Append(IF e.route_type \in {"rag", "multi"} THEN with ELSE <<a, b>>, d), f)
  BY DEF Executions!buildHookLogs
<1> HIDE DEF a, b, c, d, f, H, end
<1>4. <<a, b>> \in Seq(S) /\ Len(<<a, b>>) = 2 /\ a \in S /\ b \in S /\ c \in S /\ d \in S /\ f \in S
  OBVIOUS
<1> HIDE DEF S
<1>5. ASSUME NEW s \in Seq(S), NEW n \in {2, 3}, Len(s) = n
      PROVE  LET t == Append(Append(s, d), f)
             IN  /\ t \in Seq(S) /\ Len(t) = n + 2 /\ t[n + 1] = d /\ t[n + 2] = f
                 /\ \A i \in 1..n : t[i] = s[i]
  <2> DEFINE u == Append(s, d)
             t == Append(u, f)
  <2>1. u \in Seq(S) /\ Len(u) = n + 1 /\ u[n + 1] = d /\ \A i \in 1..n : u[i] = s[i]
    BY <1>4, <1>5, Extended
  <2> HIDE DEF u
  <2>2. t \in Seq(S) /\ Len(t) = n + 1 + 1 /\ t[n + 1 + 1] = f /\ \A i \in 1..(n + 1) : t[i] = u[i]
    BY <1>4, <2>1, Extended
  <2> HIDE DEF t
  <2>3. Len(t) = n + 2 /\ t[n + 2] = f /\ t[n + 1] = d /\ \A i \in 1..n : t[i] = s[i]
    BY <2>1, <2>2
  <2> QED BY <2>2, <2>3 DEF t, u
<1>6. with \in Seq(S) /\ Len(with) = 3 /\ with[1] = a /\ with[2] = b /\ with[3] = c
  <2>1. /\ with \in Seq(S) /\ Len(with) = 2 + 1 /\ with[2 + 1] = c
        /\ \A i \in 1..2 : with[i] = <<a, b>>[i]
    BY <1>4, Extended
  <2> HIDE DEF with
  <2> QED BY <2>1
<1> HIDE DEF with
<1>7. CASE e.route_type \in {"rag", "multi"}
  <2> DEFINE t == Append(Append(with, d), f)
  <2>1. /\ t \in Seq(S) /\ Len(t) = 5 /\ t[1] = a /\ t[2] = b /\ t[3] = c /\ t[4] = d /\ t[5] = f
    BY <1>5, <1>6
  <2>2. Executions!buildHookLogs(e) = t
    BY <1>3, <1>7
  <2> HIDE DEF t
  <2>3. DOMAIN t = 1..5
    BY <2>1
  <2>4. AreLogs(t, 5, e, end)
    BY <1>1, <1>2, <1>7, <2>1, <2>3 DEF AreLogs
  <2> QED BY <2>2, <2>4 DEF end
<1>8. CASE e.route_type \notin {"rag", "multi"}
  <2> DEFINE t == Append(Append(<<a, b>>, d), f)
  <2>1. /\ t \in Seq(S) /\ Len(t) = 4 /\ t[1] = a /\ t[2] = b /\ t[3] = d /\ t[4] = f
    BY <1>4, <1>5
  <2>2. Executions!buildHookLogs(e) = t
    BY <1>3, <1>8
  <2> HIDE DEF t
  <2>3. DOMAIN t = 1..4
    BY <2>1
  <2>4. AreLogs(t, 4, e, end)
    BY <1>1, <1>2, <1>8, <2>1, <2>3 DEF AreLogs
  <2> QED BY <2>2, <2>4 DEF end
<1> QED BY <1>7, <1>8

\* How long the selector takes is told by the route.
LEMMA SelectorTime ==
  ASSUME NEW e, Plausible(e)
  PROVE  Executions!pipeline_latency_ms(e) \in {14, 46, 96}
           /\ (e.route_type \in {"rag", "multi"} => Executions!pipeline_latency_ms(e) = 46)
<1>1. /\ e.route_type \in {"rag", "multi"} => Executions!strategy(e) = "hybrid"
      /\ Executions!strategy(e) \in {"llm", "hybrid", "rule"}
  <2>1. CASE e.route_type = "skill"
    BY <2>1, Zenon DEF Executions!strategy
  <2>2. CASE e.route_type \in {"rag", "multi"}
    <3>1. e.route_type # "skill"
      BY <2>2
    <3> QED BY <2>2, <3>1, Zenon DEF Executions!strategy
  <2>3. CASE e.route_type \notin {"skill", "rag", "multi"}
    <3>1. e.route_type # "skill"
      BY <2>3
    <3> QED BY <2>3, <3>1, Zenon DEF Executions!strategy
  <2> QED BY <2>1, <2>2, <2>3
<1>2. CASE Executions!strategy(e) = "rule"
  BY <1>1, <1>2, Zenon DEF Executions!pipeline_latency_ms
<1>3. CASE Executions!strategy(e) = "llm"
  <2>1. Executions!strategy(e) # "rule" /\ e.route_type \notin {"rag", "multi"}
    BY <1>1, <1>3
  <2> QED BY <1>3, <2>1, Zenon DEF Executions!pipeline_latency_ms
<1>4. CASE Executions!strategy(e) = "hybrid"
  <2>1. Executions!strategy(e) # "rule" /\ Executions!strategy(e) # "llm"
    BY <1>4
  <2> QED BY <1>4, <2>1, Zenon DEF Executions!pipeline_latency_ms
<1> QED BY <1>1, <1>2, <1>3, <1>4

\* What the page of an execution is about: the execution it is asked for.
LEMMA DetailsExplain ==
  ASSUME NEW e, Plausible(e), NEW d, d.duration_ms = e.duration_ms,
         d.hook_logs = Executions!buildHookLogs(e),
         d.timing_breakdown
           = Executions!buildTiming(e, Executions!buildPipelineTrace(e), d.hook_logs)
  PROVE  LET bars == Executions!Bars(d.timing_breakdown)
             hooks == Executions!HookRows(d.hook_logs)
         IN  /\ bars[1] + bars[2] + bars[3] + bars[4] = e.duration_ms
             /\ (\E i \in DOMAIN hooks : hooks[i].type = "on_error") <=> e.status = "failed"
             /\ \A i, j \in DOMAIN hooks :
                  i < j /\ ~Executions!PrefetchOutlasts(e) => hooks[i].at <= hooks[j].at
<1> DEFINE logs == Executions!buildHookLogs(e)
           end == Executions!Seconds(e.duration_ms)
           looksUp == e.route_type \in {"rag", "multi"}
           hooks == Executions!HookRows(d.hook_logs)
           pre == Executions!TimeIn(logs, {"pre_execution"})
           post == Executions!TimeIn(logs, {"post_execution", "on_error"})
           selector == Executions!pipeline_latency_ms(e)
<1>0. PICK n : AreLogs(logs, n, e, end)
  BY HooksAre
<1>1. /\ Len(logs) = n /\ n = (IF looksUp THEN 5 ELSE 4) /\ DOMAIN logs = 1..n
      /\ Is(logs[1], "pre_execution", 12, 0) /\ Is(logs[2], "pre_execution", 8, 1)
      /\ n = 5 => Is(logs[3], "pre_execution", 15, 2)
      /\ IF e.status = "failed" THEN Is(logs[n - 1], "on_error", 120, end)
         ELSE Is(logs[n - 1], "post_execution", 6, end)
      /\ Is(logs[n], "post_execution", 9, end + 1)
  BY <1>0 DEF AreLogs
<1>2. /\ DOMAIN hooks = DOMAIN logs
      /\ \A i \in DOMAIN logs : hooks[i].type = logs[i].hook_type /\ hooks[i].at = logs[i].timestamp
  BY DEF Executions!HookRows
<1>3. end \in Nat /\ (looksUp \/ end >= 1) /\ (e.duration_ms >= 1500 => end >= 2)
  BY DEF Executions!Seconds, Plausible
<1>4. selector \in {14, 46, 96} /\ (looksUp => selector = 46)
  BY SelectorTime
<1>5. /\ d.timing_breakdown.selector_ms = selector /\ d.timing_breakdown.pre_hook_ms = pre
      /\ d.timing_breakdown.post_hook_ms = post
      /\ LET rest == e.duration_ms - selector - pre - post
         IN  d.timing_breakdown.llm_inference_ms = IF rest < 50 THEN 50 ELSE rest
  BY DEF Executions!buildTiming, Executions!buildPipelineTrace
<1> HIDE DEF logs, end, hooks, pre, post, selector
<1>6. pre = (IF looksUp THEN 35 ELSE 20)
  <2> DEFINE types == {"pre_execution"}
             Time(i) == HookTime(logs[i], types)
  <2>1. /\ Time(1) = 12 /\ Time(2) = 8 /\ (n = 5 => Time(3) = 15)
        /\ Time(n - 1) = 0 /\ Time(n) = 0
    BY <1>1 DEF HookTime, Is
  <2>2. pre = Executions!TimeIn(logs, types)
    BY DEF pre
  <2> HIDE DEF types, Time
  <2>3. n \in {4, 5} /\ \A i \in 1..n : Time(i) \in Int
    BY <1>1, <2>1
  <2>4. pre = Time(1) + Time(2) + (IF n = 5 THEN Time(3) ELSE 0) + Time(n - 1) + Time(n)
    BY <1>1, <2>2, <2>3, TimeOfHooks DEF Time
  <2> QED BY <1>1, <2>1, <2>4
<1>7. post = (IF e.status = "failed" THEN 129 ELSE 15)
  <2> DEFINE types == {"post_execution", "on_error"}
             Time(i) == HookTime(logs[i], types)
  <2>1. /\ Time(1) = 0 /\ Time(2) = 0 /\ (n = 5 => Time(3) = 0)
        /\ Time(n - 1) = (IF e.status = "failed" THEN 120 ELSE 6) /\ Time(n) = 9
    BY <1>1 DEF HookTime, Is
  <2>2. post = Executions!TimeIn(logs, types)
    BY DEF post
  <2> HIDE DEF types, Time
  <2>3. n \in {4, 5} /\ \A i \in 1..n : Time(i) \in Int
    BY <1>1, <2>1
  <2>4. post = Time(1) + Time(2) + (IF n = 5 THEN Time(3) ELSE 0) + Time(n - 1) + Time(n)
    BY <1>1, <2>2, <2>3, TimeOfHooks DEF Time
  <2> QED BY <1>1, <2>1, <2>4
<1>8. e.duration_ms - selector - pre - post >= 50
  BY <1>4, <1>6, <1>7 DEF Plausible
<1>9. LET bars == Executions!Bars(d.timing_breakdown)
      IN  bars[1] + bars[2] + bars[3] + bars[4] = e.duration_ms
  <2>1. LET bars == Executions!Bars(d.timing_breakdown)
        IN  /\ bars[1] = selector /\ bars[2] = pre /\ bars[4] = post
            /\ bars[3] = e.duration_ms - selector - pre - post
    BY <1>4, <1>5, <1>6, <1>7, <1>8 DEF Executions!Bars, Plausible
  <2> QED BY <1>4, <1>6, <1>7, <2>1 DEF Plausible
<1>10. (\E i \in DOMAIN hooks : hooks[i].type = "on_error") <=> e.status = "failed"
  BY <1>1, <1>2 DEF Is
<1>11. ASSUME NEW i \in DOMAIN hooks, NEW j \in DOMAIN hooks, i < j,
              ~Executions!PrefetchOutlasts(e)
       PROVE  hooks[i].at <= hooks[j].at
  <2>1. looksUp => end >= 2
    BY <1>3, <1>11 DEF Executions!PrefetchOutlasts, Plausible
  <2>2. /\ logs[1].timestamp = 0 /\ logs[2].timestamp = 1 /\ (n = 5 => logs[3].timestamp = 2)
        /\ logs[n - 1].timestamp = end /\ logs[n].timestamp = end + 1
    BY <1>1 DEF Is
  <2>3. n \in {4, 5} /\ (n = 5 <=> looksUp)
    BY <1>1
  <2> QED BY <1>1, <1>2, <1>3, <1>11, <2>1, <2>2, <2>3
<1> QED BY <1>9, <1>10, <1>11 DEF hooks

-----------------------------------------------------------------------------
(* What the pages of agents have asked for. *)

\* Each key is that of one thing that is asked for.
AsksFor(ids, k, what) ==
  \E id \in ids :
    \/ k = Executions!AgentKey(id) /\ what = <<"agent", id>>
    \/ k = Executions!StatusKey(id) /\ what = <<"status", id>>
    \/ k = Executions!ExecutionsKey(id) /\ what = <<"executions", id>>
    \/ \E e \in Executions!allExecutions :
         k = Executions!DetailKey(id, e.id) /\ what = <<"detail", id, e.id>>

\* A query that is cached is that of its key, and not answered yet or answered.
QueriesInv ==
  \A k \in DOMAIN queries :
    LET what == queries[k].asked
    IN  /\ AsksFor(visited, k, what)
        /\ queries[k] \in {Executions!Pending(what), Executions!Answer(what)}

\* The page that is shown has asked for what it shows; that of an execution is one of
\* the agent it was opened from.
RouteInv ==
  \/ executionsRoute = <<>>
  \/ \E id \in visited :
       /\ executionsRoute = <<id>>
       /\ {Executions!AgentKey(id), Executions!StatusKey(id), Executions!ExecutionsKey(id)}
            \subseteq DOMAIN queries
  \/ \E id \in visited : \E e \in Executions!allExecutions :
       /\ executionsRoute = <<id, e.id>> /\ e.agent_id = id
       /\ Executions!DetailKey(id, e.id) \in DOMAIN queries

LEMMA QueryKeysApart ==
  ASSUME NEW a, NEW b, NEW x, NEW y
  PROVE  /\ Executions!AgentKey(a) = Executions!AgentKey(b) => a = b
         /\ Executions!StatusKey(a) = Executions!StatusKey(b) => a = b
         /\ Executions!ExecutionsKey(a) = Executions!ExecutionsKey(b) => a = b
         /\ Executions!DetailKey(a, x) = Executions!DetailKey(b, y) => a = b /\ x = y
         /\ Executions!AgentKey(a) # Executions!StatusKey(b)
         /\ Executions!AgentKey(a) # Executions!ExecutionsKey(b)
         /\ Executions!AgentKey(a) # Executions!DetailKey(b, y)
         /\ Executions!StatusKey(a) # Executions!ExecutionsKey(b)
         /\ Executions!StatusKey(a) # Executions!DetailKey(b, y)
         /\ Executions!ExecutionsKey(a) # Executions!DetailKey(b, y)
  BY DEF Executions!AgentKey, Executions!StatusKey, Executions!ExecutionsKey, Executions!DetailKey

LEMMA AskedUnder ==
  ASSUME NEW ids, NEW k, NEW what, AsksFor(ids, k, what), NEW id
  PROVE  /\ k = Executions!AgentKey(id) => what = <<"agent", id>>
         /\ k = Executions!StatusKey(id) => what = <<"status", id>>
         /\ k = Executions!ExecutionsKey(id) => what = <<"executions", id>>
<1>1. PICK a \in ids :
        \/ k = Executions!AgentKey(a) /\ what = <<"agent", a>>
        \/ k = Executions!StatusKey(a) /\ what = <<"status", a>>
        \/ k = Executions!ExecutionsKey(a) /\ what = <<"executions", a>>
        \/ \E f \in Executions!allExecutions :
             k = Executions!DetailKey(a, f.id) /\ what = <<"detail", a, f.id>>
  BY DEF AsksFor
<1>2. CASE k = Executions!AgentKey(a) /\ what = <<"agent", a>>
  BY <1>2, QueryKeysApart
<1>3. CASE k = Executions!StatusKey(a) /\ what = <<"status", a>>
  BY <1>3, QueryKeysApart
<1>4. CASE k = Executions!ExecutionsKey(a) /\ what = <<"executions", a>>
  BY <1>4, QueryKeysApart
<1>5. CASE \E f \in Executions!allExecutions :
             k = Executions!DetailKey(a, f.id) /\ what = <<"detail", a, f.id>>
  BY <1>5, QueryKeysApart
<1> QED BY <1>1, <1>2, <1>3, <1>4, <1>5

LEMMA DetailAskedUnder ==
  ASSUME NEW ids, NEW id, NEW execId, NEW what,
         AsksFor(ids, Executions!DetailKey(id, execId), what)
  PROVE  what = <<"detail", id, execId>>
<1> DEFINE k == Executions!DetailKey(id, execId)
<1>1. PICK a \in ids :
        \/ k = Executions!AgentKey(a) /\ what = <<"agent", a>>
        \/ k = Executions!StatusKey(a) /\ what = <<"status", a>>
        \/ k = Executions!ExecutionsKey(a) /\ what = <<"executions", a>>
        \/ \E f \in Executions!allExecutions :
             k = Executions!DetailKey(a, f.id) /\ what = <<"detail", a, f.id>>
  BY DEF AsksFor
<1>2. PICK f \in Executions!allExecutions :
        k = Executions!DetailKey(a, f.id) /\ what = <<"detail", a, f.id>>
  BY <1>1, QueryKeysApart
<1> QED BY <1>2, QueryKeysApart

LEMMA AgentAnswer ==
  ASSUME NEW id
  PROVE  LET agent == Executions!Answer(<<"agent", id>>)
         IN  /\ agent.status # "error" => agent.data = <<id>>
             /\ agent.asked = <<"agent", id>>
<1>1. LET what == <<"agent", id>>
      IN  Executions!Answer(what)
            = [status |-> IF id \notin Deleted THEN "success" ELSE "error",
               data |-> IF id \notin Deleted THEN <<id>> ELSE <<>>, asked |-> what]
  BY Zenon DEF Executions!Answer
<1> QED BY <1>1

LEMMA StatusAnswer ==
  ASSUME NEW id
  PROVE  LET status == Executions!Answer(<<"status", id>>)
         IN  /\ status.status # "error" => status.data = <<id>>
             /\ id \in DOMAIN Executions!mockAgentStatuses => status.status = "success"
             /\ status.asked = <<"status", id>>
<1>1. LET what == <<"status", id>>
          found == id \in DOMAIN Executions!mockAgentStatuses
      IN  Executions!Answer(what)
            = [status |-> IF found THEN "success" ELSE "error",
               data |-> IF found THEN <<id>> ELSE <<>>, asked |-> what]
  BY Zenon DEF Executions!Answer
<1> QED BY <1>1

LEMMA ExecutionsAnswer ==
  ASSUME NEW id
  PROVE  LET executions == Executions!Answer(<<"executions", id>>)
         IN  /\ executions.status = "success"
             /\ executions.data = Executions!getAgentExecutions(id)
             /\ executions.asked = <<"executions", id>>
<1>1. LET what == <<"executions", id>>
      IN  Executions!Answer(what)
            = [status |-> IF TRUE THEN "success" ELSE "error",
               data |-> IF TRUE THEN Executions!getAgentExecutions(id) ELSE <<>>,
               asked |-> what]
  BY Zenon DEF Executions!Answer
<1> QED BY <1>1

LEMMA DetailAnswer ==
  ASSUME NEW id, NEW execId
  PROVE  LET detailed == Executions!Answer(<<"detail", id, execId>>)
         IN  /\ detailed.status = "success"
             /\ detailed.data = <<Executions!getAgentExecutionDetail(execId)>>
             /\ detailed.asked = <<"detail", id, execId>>
<1>1. LET what == <<"detail", id, execId>>
      IN  Executions!Answer(what)
            = [status |-> IF TRUE THEN "success" ELSE "error",
               data |-> IF TRUE THEN <<Executions!getAgentExecutionDetail(execId)>> ELSE <<>>,
               asked |-> what]
  BY Zenon DEF Executions!Answer
<1> QED BY <1>1

\* An answer is the answer to what was asked.
LEMMA AnswersTo ==
  ASSUME NEW ids, NEW k, NEW what, AsksFor(ids, k, what)
  PROVE  Executions!Answer(what).asked = what
<1>1. PICK id \in ids :
        \/ what = <<"agent", id>> \/ what = <<"status", id>> \/ what = <<"executions", id>>
        \/ \E e \in Executions!allExecutions : what = <<"detail", id, e.id>>
  BY DEF AsksFor
<1>2. CASE what = <<"agent", id>>
  BY <1>2, AgentAnswer
<1>3. CASE what = <<"status", id>>
  BY <1>3, StatusAnswer
<1>4. CASE what = <<"executions", id>>
  BY <1>4, ExecutionsAnswer
<1>5. CASE \E e \in Executions!allExecutions : what = <<"detail", id, e.id>>
  BY <1>5, DetailAnswer
<1> QED BY <1>1, <1>2, <1>3, <1>4, <1>5

ExecutionsInv == QueriesInv /\ RouteInv

\* Opening a page adds pending queries under their own keys, and keeps the rest.
LEMMA QueriesMounted ==
  ASSUME QueriesInv, NEW mounting, queries' = Executions!Mounted(mounting), UNCHANGED visited,
         \A q \in mounting : AsksFor(visited, q.queryKey, q.asked)
  PROVE  QueriesInv' /\ \A q \in mounting : q.queryKey \in DOMAIN queries'
<1> DEFINE keys == {q.queryKey : q \in mounting}
           what(key) == (CHOOSE q \in mounting : q.queryKey = key).asked
<1>1. queries'
        = [key \in DOMAIN queries \cup keys |->
             IF key \in DOMAIN queries /\ (key \notin keys \/ queries[key].status # "error")
             THEN queries[key] ELSE Executions!Pending(what(key))]
  BY DEF Executions!Mounted
<1>2. ASSUME NEW k \in keys PROVE AsksFor(visited, k, what(k))
  <2> DEFINE q == CHOOSE q \in mounting : q.queryKey = k
  <2>1. q \in mounting /\ q.queryKey = k
    OBVIOUS
  <2>2. what(k) = q.asked
    OBVIOUS
  <2> HIDE DEF q, what
  <2> QED BY <2>1, <2>2
<1>3. \A q \in mounting : q.queryKey \in keys
  OBVIOUS
<1> HIDE DEF what, keys
<1>4. ASSUME NEW k \in DOMAIN queries'
      PROVE  /\ AsksFor(visited', k, queries'[k].asked)
             /\ queries'[k] \in {Executions!Pending(queries'[k].asked),
                                 Executions!Answer(queries'[k].asked)}
  <2>1. CASE k \in DOMAIN queries /\ queries'[k] = queries[k]
    BY <2>1 DEF QueriesInv
  <2>2. CASE k \in keys /\ queries'[k] = Executions!Pending(what(k))
    <3>1. queries'[k].asked = what(k)
      BY <2>2 DEF Executions!Pending
    <3> QED BY <1>2, <2>2, <3>1
  <2> QED BY <1>1, <2>1, <2>2
<1>5. QueriesInv'
  BY <1>4 DEF QueriesInv
<1> QED BY <1>1, <1>3, <1>5

LEMMA ExecutionsKept ==
  ASSUME ExecutionsInv, [Executions!Next]_(Executions!vars)
  PROVE  ExecutionsInv'
<1>0. QueriesInv /\ RouteInv
  BY DEF ExecutionsInv
<1>1. ASSUME NEW id \in visited, Executions!OpenAgent(id)
      PROVE  ExecutionsInv'
  <2> DEFINE mounting == {Executions!Query(Executions!AgentKey(id), <<"agent", id>>),
                          Executions!Query(Executions!StatusKey(id), <<"status", id>>),
                          Executions!Query(Executions!ExecutionsKey(id), <<"executions", id>>)}
  <2>1. /\ queries' = Executions!Mounted(mounting) /\ executionsRoute' = <<id>>
        /\ UNCHANGED visited
    BY <1>1 DEF Executions!OpenAgent
  <2>2. /\ \A q \in mounting : AsksFor(visited, q.queryKey, q.asked)
        /\ {Executions!AgentKey(id), Executions!StatusKey(id), Executions!ExecutionsKey(id)}
             = {q.queryKey : q \in mounting}
    BY DEF Executions!Query, AsksFor
  <2> HIDE DEF mounting
  <2>3. QueriesInv' /\ \A q \in mounting : q.queryKey \in DOMAIN queries'
    BY <1>0, <2>1, <2>2, QueriesMounted
  <2>4. {Executions!AgentKey(id), Executions!StatusKey(id), Executions!ExecutionsKey(id)}
          \subseteq DOMAIN queries'
    BY <2>2, <2>3
  <2>5. RouteInv'
    BY <2>1, <2>4 DEF RouteInv
  <2> QED BY <2>3, <2>5 DEF ExecutionsInv
<1>2. ASSUME Executions!Leave
      PROVE  ExecutionsInv'
  BY <1>0, <1>2 DEF Executions!Leave, ExecutionsInv, QueriesInv, RouteInv
<1>3. ASSUME NEW t \in Executions!Tabs, Executions!ChooseTab(t)
      PROVE  ExecutionsInv'
  BY <1>0, <1>3 DEF Executions!ChooseTab, ExecutionsInv, QueriesInv, RouteInv
<1>4. ASSUME NEW e \in Executions!allExecutions, Executions!OpenExecution(e)
      PROVE  ExecutionsInv'
  <2>1. Len(executionsRoute) = 1
    BY <1>4 DEF Executions!OpenExecution
  <2>2. PICK id \in visited : executionsRoute = <<id>> /\ Executions!ExecutionsKey(id) \in DOMAIN queries
    BY <1>0, <2>1 DEF RouteInv
  <2> DEFINE mounting == {Executions!Query(Executions!AgentKey(id), <<"agent", id>>),
                          Executions!Query(Executions!DetailKey(id, e.id), <<"detail", id, e.id>>)}
  <2>3. /\ e \in Executions!ToSet(queries[Executions!ExecutionsKey(id)].data)
        /\ queries' = Executions!Mounted(mounting) /\ executionsRoute' = <<id, e.id>>
        /\ UNCHANGED visited
    BY <1>4, <2>2 DEF Executions!OpenExecution
  <2>4. /\ \A q \in mounting : AsksFor(visited, q.queryKey, q.asked)
        /\ Executions!DetailKey(id, e.id) \in {q.queryKey : q \in mounting}
    BY DEF Executions!Query, AsksFor
  <2> HIDE DEF mounting
  <2>5. QueriesInv' /\ \A q \in mounting : q.queryKey \in DOMAIN queries'
    BY <1>0, <2>3, <2>4, QueriesMounted
  <2>6. e.agent_id = id
    <3> DEFINE k == Executions!ExecutionsKey(id)
    <3>1. AsksFor(visited, k, queries[k].asked)
      BY <1>0, <2>2 DEF QueriesInv
    <3>2. queries[k].asked = <<"executions", id>>
      BY <3>1, AskedUnder
    <3>3. /\ Executions!Pending(<<"executions", id>>).data = <<>>
          /\ Executions!Answer(<<"executions", id>>).data = Executions!getAgentExecutions(id)
      BY ExecutionsAnswer, Zenon DEF Executions!Pending
    <3>4. Executions!ToSet(<<>>) = {}
      BY DEF Executions!ToSet
    <3> HIDE DEF k
    <3>5. queries[k].data \in {<<>>, Executions!getAgentExecutions(id)}
      BY <1>0, <2>2, <3>2, <3>3 DEF QueriesInv, k
    <3>6. e \in Executions!ToSet(Executions!getAgentExecutions(id))
      BY <2>3, <3>4, <3>5 DEF k
    <3> QED BY <3>6, ExecutionsOfAgent
  <2>7. Executions!DetailKey(id, e.id) \in DOMAIN queries'
    BY <2>4, <2>5
  <2>8. RouteInv'
    BY <2>3, <2>6, <2>7 DEF RouteInv
  <2> QED BY <2>5, <2>8 DEF ExecutionsInv
<1>5. ASSUME NEW k \in DOMAIN queries, Executions!Answered(k)
      PROVE  ExecutionsInv'
  <2> DEFINE what == queries[k].asked
  <2>1. /\ queries' = [queries EXCEPT ![k] = Executions!Answer(what)]
        /\ UNCHANGED <<visited, executionsRoute>>
    BY <1>5 DEF Executions!Answered
  <2>2. AsksFor(visited, k, what)
    BY <1>0 DEF QueriesInv
  <2> HIDE DEF what
  <2>3. Executions!Answer(what).asked = what
    BY <2>2, AnswersTo
  <2>4. /\ DOMAIN queries' = DOMAIN queries /\ queries'[k] = Executions!Answer(what)
        /\ \A j \in DOMAIN queries : j # k => queries'[j] = queries[j]
    BY <2>1
  <2>5. ASSUME NEW j \in DOMAIN queries'
        PROVE  /\ AsksFor(visited', j, queries'[j].asked)
               /\ queries'[j] \in {Executions!Pending(queries'[j].asked),
                                   Executions!Answer(queries'[j].asked)}
    BY <1>0, <2>1, <2>2, <2>3, <2>4 DEF QueriesInv
  <2>6. QueriesInv'
    BY <2>5 DEF QueriesInv
  <2>7. RouteInv'
    BY <1>0, <2>1, <2>4 DEF RouteInv
  <2> QED BY <2>6, <2>7 DEF ExecutionsInv
<1>6. CASE UNCHANGED Executions!vars
  BY <1>0, <1>6 DEF Executions!vars, ExecutionsInv, QueriesInv, RouteInv
<1>7. CASE Executions!Next
  BY <1>1, <1>2, <1>3, <1>4, <1>5, <1>7 DEF Executions!Next
<1> QED BY <1>6, <1>7

LEMMA ExecutionsStart ==
  ASSUME Executions!Init
  PROVE  ExecutionsInv
BY DEF Executions!Init, ExecutionsInv, QueriesInv, RouteInv

\* What the detail of an execution says is what is so of it.
LEMMA DetailOf ==
  ASSUME NEW e \in Executions!allExecutions, Plausible(e)
  PROVE  LET d == Executions!getAgentExecutionDetail(e.id)
         IN  /\ d.agent_id = e.agent_id /\ d.id = e.id /\ d.route_type = e.route_type
             /\ d.duration_ms = e.duration_ms /\ d.error_detail = (e.status = "failed")
             /\ d.pipeline_trace.decision.chain # <<>> <=> e.route_type = "multi"
             /\ d.hook_logs = Executions!buildHookLogs(e)
             /\ d.timing_breakdown
                  = Executions!buildTiming(e, Executions!buildPipelineTrace(e), d.hook_logs)
<1> DEFINE base == CHOOSE f \in Executions!allExecutions : f.id = e.id
           d == Executions!getAgentExecutionDetail(e.id)
<1>1. base = e
  BY RunsToldApart
<1>2. d = [agent_id |-> base.agent_id, id |-> base.id, route_type |-> base.route_type,
           status |-> base.status, duration_ms |-> base.duration_ms,
           pipeline_trace |-> Executions!buildPipelineTrace(base),
           hook_logs |-> Executions!buildHookLogs(base),
           memory_context |-> Executions!buildMemoryContext(base),
           error_detail |-> base.status = "failed",
           timing_breakdown |-> Executions!buildTiming(base, Executions!buildPipelineTrace(base),
                                                       Executions!buildHookLogs(base))]
  BY Zenon DEF Executions!getAgentExecutionDetail
<1> HIDE DEF base, d
<1>3. /\ d.agent_id = e.agent_id /\ d.id = e.id /\ d.route_type = e.route_type
      /\ d.duration_ms = e.duration_ms
  BY <1>1, <1>2
<1>4. d.error_detail = (e.status = "failed")
  BY <1>1, <1>2, Zenon
<1>5. /\ d.hook_logs = Executions!buildHookLogs(e)
      /\ d.pipeline_trace = Executions!buildPipelineTrace(e)
      /\ d.timing_breakdown
           = Executions!buildTiming(e, Executions!buildPipelineTrace(e), d.hook_logs)
  BY <1>1, <1>2, Zenon
<1>6. Executions!buildPipelineTrace(e).decision.chain = Executions!chain(e)
  BY Zenon DEF Executions!buildPipelineTrace
<1>7. Executions!chain(e) # <<>> <=> e.route_type = "multi"
  BY DEF Executions!chain
<1> QED BY <1>3, <1>4, <1>5, <1>6, <1>7, Zenon DEF d

\* A query under a key that the page asks is pending or answered.
LEMMA QueryUnder ==
  ASSUME QueriesInv, NEW k \in DOMAIN queries, NEW what,
         AsksFor(visited, k, queries[k].asked) => queries[k].asked = what
  PROVE  queries[k] \in {Executions!Pending(what), Executions!Answer(what)}
BY DEF QueriesInv

LEMMA ShownOrNot ==
  ASSUME NEW query, NEW body
  PROVE  LET shown == Executions!Shown(query, body)
         IN  /\ shown.kind = "shown" => query.status \notin {"pending", "error"} /\ shown.body = body
             /\ shown = Executions!Nothing => query.status = "error"
<1>1. /\ Executions!Skeleton.kind = "skeleton" /\ Executions!Nothing.kind = "nothing"
      /\ [kind |-> "shown", body |-> body].kind = "shown"
      /\ [kind |-> "shown", body |-> body].body = body
  BY DEF Executions!Skeleton, Executions!Nothing
<1> QED BY <1>1 DEF Executions!Shown

LEMMA PendingIs ==
  ASSUME NEW what
  PROVE  Executions!Pending(what).status = "pending"
BY DEF Executions!Pending

LEMMA StatusesOfRuns ==
  ASSUME NEW id, Executions!getAgentExecutions(id) # <<>>
  PROVE  id \in DOMAIN Executions!mockAgentStatuses
<1>1. id \in DOMAIN Executions!mockAgentExecutions
  BY DEF Executions!getAgentExecutions
<1>2. DOMAIN Executions!mockAgentStatuses
        = {Executions!megaAgent, Executions!ftaAgent, Executions!ragAgent,
           Executions!skillAgent, Executions!rdsAgent, <<"custom", "005">>, <<"mega", "006">>}
  BY DEF Executions!mockAgentStatuses
<1> QED BY <1>1, <1>2, AgentsOfExecutions, Zenon

LEMMA AgentsExplained ==
  ASSUME ExecutionsInv
  PROVE  Executions!AgentExplained
<1> SUFFICES ASSUME Len(executionsRoute) = 1
             PROVE  LET id == executionsRoute[1]
                    IN  /\ Executions!Overview.kind = "shown" => Executions!Overview.body.id = id
                        /\ Executions!Harness.kind = "shown" => Executions!Harness.body.id = id
                        /\ Executions!RuntimeStatus.kind = "shown" =>
                             Executions!RuntimeStatus.body.id = id
                        /\ Executions!History.kind = "shown" =>
                             /\ \A i \in DOMAIN Executions!History.body :
                                  Executions!History.body[i].agent_id = id
                             /\ Executions!History.body # <<>> =>
                                  Executions!RuntimeStatus # Executions!Nothing
  BY Zenon DEF Executions!AgentExplained
<1>0. QueriesInv /\ RouteInv
  BY DEF ExecutionsInv
<1>1. PICK id \in visited :
        /\ executionsRoute = <<id>>
        /\ {Executions!AgentKey(id), Executions!StatusKey(id), Executions!ExecutionsKey(id)}
             \subseteq DOMAIN queries
  BY <1>0 DEF RouteInv
<1>2. executionsRoute[1] = id
  BY <1>1
<1> DEFINE agent == queries[Executions!AgentKey(id)]
           status == queries[Executions!StatusKey(id)]
           executions == queries[Executions!ExecutionsKey(id)]
<1>3. agent \in {Executions!Pending(<<"agent", id>>), Executions!Answer(<<"agent", id>>)}
  BY <1>0, <1>1, QueryUnder, AskedUnder
<1>4. status \in {Executions!Pending(<<"status", id>>), Executions!Answer(<<"status", id>>)}
  BY <1>0, <1>1, QueryUnder, AskedUnder
<1>5. executions \in {Executions!Pending(<<"executions", id>>),
                      Executions!Answer(<<"executions", id>>)}
  BY <1>0, <1>1, QueryUnder, AskedUnder
<1>6. /\ Executions!Overview
           = Executions!Shown(agent, [id |-> agent.data[1], type |-> agent.data[1][1]])
      /\ Executions!Harness
           = Executions!Shown(agent, [id |-> agent.data[1],
                                      cards |-> Executions!HarnessCards(agent.data[1])])
      /\ Executions!RuntimeStatus
           = Executions!Shown(status,
               [id |-> status.data[1],
                uptime |-> Executions!formatUptime(Executions!mockAgentStatuses[status.data[1]])])
      /\ Executions!History = Executions!Shown(executions, executions.data)
  BY <1>2, Zenon DEF Executions!Overview, Executions!Harness, Executions!RuntimeStatus,
                     Executions!History
<1> HIDE DEF agent, status, executions
<1>7. agent.status \notin {"pending", "error"} => agent.data[1] = id
  BY <1>3, AgentAnswer, PendingIs
<1>8. /\ status.status \notin {"pending", "error"} => status.data[1] = id
      /\ id \in DOMAIN Executions!mockAgentStatuses => status.status # "error"
  BY <1>4, StatusAnswer, PendingIs
<1>9. executions.status \notin {"pending", "error"} =>
        executions.data = Executions!getAgentExecutions(id)
  BY <1>5, ExecutionsAnswer, PendingIs
<1>10. /\ Executions!Overview.kind = "shown" => Executions!Overview.body.id = id
       /\ Executions!Harness.kind = "shown" => Executions!Harness.body.id = id
  BY <1>6, <1>7, ShownOrNot
<1>11. Executions!RuntimeStatus.kind = "shown" => Executions!RuntimeStatus.body.id = id
  BY <1>6, <1>8, ShownOrNot
<1>12. Executions!History.kind = "shown" =>
         Executions!History.body = Executions!getAgentExecutions(id)
  BY <1>6, <1>9, ShownOrNot
<1>13. \A i \in DOMAIN Executions!getAgentExecutions(id) :
         Executions!getAgentExecutions(id)[i].agent_id = id
  BY ExecutionsOfAgent DEF Executions!ToSet
<1>14. Executions!getAgentExecutions(id) # <<>> => Executions!RuntimeStatus # Executions!Nothing
  BY <1>6, <1>8, StatusesOfRuns, ShownOrNot
<1> QED BY <1>2, <1>10, <1>11, <1>12, <1>13, <1>14, Zenon

LEMMA ExecutionsExplained ==
  ASSUME ExecutionsInv
  PROVE  Executions!ExecutionExplained
<1> DEFINE shown == Executions!ExecutionShown
           execution == shown.body.execution
           hooks == shown.body.hooks
           bars == shown.body.bars
<1> SUFFICES ASSUME Len(executionsRoute) = 2
             PROVE  /\ shown # Executions!Nothing
                    /\ shown.kind = "shown" =>
                       /\ execution.id = executionsRoute[2]
                       /\ execution.agent_id = executionsRoute[1]
                       /\ ("chain" \in shown.body.cards) <=> (execution.route_type = "multi")
                       /\ ("error" \in shown.body.cards)
                            <=> (\E i \in DOMAIN hooks : hooks[i].type = "on_error")
                       /\ bars[1] + bars[2] + bars[3] + bars[4] = execution.duration_ms
                       /\ \A i, j \in DOMAIN hooks :
                            i < j /\ ~Executions!PrefetchOutlasts(execution) =>
                              hooks[i].at <= hooks[j].at
  BY Zenon DEF Executions!ExecutionExplained
<1>0. QueriesInv /\ RouteInv
  BY DEF ExecutionsInv
<1>1. PICK id \in visited, e \in Executions!allExecutions :
        /\ executionsRoute = <<id, e.id>> /\ e.agent_id = id
        /\ Executions!DetailKey(id, e.id) \in DOMAIN queries
  BY <1>0 DEF RouteInv
<1>2. executionsRoute[1] = id /\ executionsRoute[2] = e.id
  BY <1>1
<1> DEFINE query == queries[Executions!DetailKey(id, e.id)]
           found == query.data[1]
           body == [execution |-> found, bars |-> Executions!Bars(found.timing_breakdown),
                    hooks |-> Executions!HookRows(found.hook_logs),
                    cards |-> {"input", "trace", "timing", "hooks"}
                                \cup Executions!ChainCard(found)
                                \cup Executions!MemoryCard(found)
                                \cup Executions!ErrorCard(found)]
           d == Executions!getAgentExecutionDetail(e.id)
<1>3. query \in {Executions!Pending(<<"detail", id, e.id>>),
                 Executions!Answer(<<"detail", id, e.id>>)}
  <2> DEFINE k == Executions!DetailKey(id, e.id)
  <2>1. AsksFor(visited, k, queries[k].asked) => queries[k].asked = <<"detail", id, e.id>>
    BY DetailAskedUnder
  <2>2. k \in DOMAIN queries
    BY <1>1
  <2> HIDE DEF k
  <2>3. queries[k] \in {Executions!Pending(<<"detail", id, e.id>>),
                        Executions!Answer(<<"detail", id, e.id>>)}
    BY <1>0, <2>1, <2>2, QueryUnder
  <2> QED BY <2>3 DEF k
<1>4. shown = Executions!Shown(query, body)
  BY <1>2, Zenon DEF Executions!ExecutionShown
<1>5. body.execution = found /\ body.bars = Executions!Bars(found.timing_breakdown)
      /\ body.hooks = Executions!HookRows(found.hook_logs)
  OBVIOUS
<1>6. /\ "chain" \in body.cards <=> found.pipeline_trace.decision.chain # <<>>
      /\ "error" \in body.cards <=> found.error_detail
  <2>1. body.cards = {"input", "trace", "timing", "hooks"} \cup Executions!ChainCard(found)
                       \cup Executions!MemoryCard(found) \cup Executions!ErrorCard(found)
    OBVIOUS
  <2> HIDE DEF body, found
  <2> QED BY <2>1 DEF Executions!ChainCard, Executions!MemoryCard, Executions!ErrorCard
<1> HIDE DEF query, body, d
<1>7. query.status # "error" /\ (query.status # "pending" => found = d)
  BY <1>3, DetailAnswer, PendingIs DEF d
<1> HIDE DEF found
<1>8. shown # Executions!Nothing
      /\ (shown.kind = "shown" => shown.body = body /\ found = d)
  BY <1>4, <1>7, ShownOrNot
<1>9. Plausible(e)
  BY ExecutionsOfAgent
<1>10. /\ d.agent_id = id /\ d.id = e.id /\ d.route_type = e.route_type
       /\ d.duration_ms = e.duration_ms /\ d.error_detail = (e.status = "failed")
       /\ d.pipeline_trace.decision.chain # <<>> <=> e.route_type = "multi"
       /\ d.hook_logs = Executions!buildHookLogs(e)
       /\ d.timing_breakdown
            = Executions!buildTiming(e, Executions!buildPipelineTrace(e), d.hook_logs)
  BY <1>1, <1>9, DetailOf, Zenon DEF d
<1> DEFINE dbars == Executions!Bars(d.timing_breakdown)
           dhooks == Executions!HookRows(d.hook_logs)
<1>11. /\ dbars[1] + dbars[2] + dbars[3] + dbars[4] = e.duration_ms
       /\ (\E i \in DOMAIN dhooks : dhooks[i].type = "on_error") <=> e.status = "failed"
       /\ \A i, j \in DOMAIN dhooks :
            i < j /\ ~Executions!PrefetchOutlasts(e) => dhooks[i].at <= dhooks[j].at
  BY <1>9, <1>10, DetailsExplain
<1>12. Executions!PrefetchOutlasts(d) <=> Executions!PrefetchOutlasts(e)
  BY <1>10 DEF Executions!PrefetchOutlasts
<1> HIDE DEF dbars, dhooks, shown
<1>13. CASE shown.kind = "shown"
  <2>1. /\ execution = d /\ bars = dbars /\ hooks = dhooks
        /\ "chain" \in shown.body.cards <=> d.pipeline_trace.decision.chain # <<>>
        /\ "error" \in shown.body.cards <=> d.error_detail
    BY <1>5, <1>6, <1>8, <1>13, Zenon DEF dbars, dhooks
  <2> HIDE DEF execution, bars, hooks
  <2>2. execution.id = executionsRoute[2] /\ execution.agent_id = executionsRoute[1]
    BY <1>2, <1>10, <2>1
  <2>3. /\ "chain" \in shown.body.cards <=> execution.route_type = "multi"
        /\ "error" \in shown.body.cards <=> \E i \in DOMAIN hooks : hooks[i].type = "on_error"
    BY <1>10, <1>11, <2>1, Zenon
  <2>4. bars[1] + bars[2] + bars[3] + bars[4] = execution.duration_ms
    BY <1>10, <1>11, <2>1
  <2>5. \A i, j \in DOMAIN hooks :
          i < j /\ ~Executions!PrefetchOutlasts(execution) => hooks[i].at <= hooks[j].at
    BY <1>11, <1>12, <2>1
  <2> QED BY <1>8, <2>2, <2>3, <2>4, <2>5, Zenon DEF execution, bars, hooks
<1> QED BY <1>8, <1>13

\* For any agents opened and left and any answers under way: the pages show nothing of
\* another agent or execution than the one opened.  As the shipped data has it, the parts
\* shown of an execution are of its kind, their times add up and the hooks are in order,
\* the latter except for runs that PrefetchOutlasts names.
THEOREM PagesAlwaysExplain == Spec => []PagesExplain
<1>1. Init => ExecutionsInv
  BY GroupsApart, ExecutionsStart
<1>2. ExecutionsInv /\ [Next]_vars => ExecutionsInv'
  BY GroupsApart, ExecutionsKept
<1>3. ExecutionsInv => PagesExplain
  BY AgentsExplained, ExecutionsExplained DEF PagesExplain, Executions!PagesExplain
<1> QED BY <1>1, <1>2, <1>3, PTL DEF Spec
=============================================================================
