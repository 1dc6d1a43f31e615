----------------------------- MODULE RoutingDemo -----------------------------
(***************************************************************************)
(* The demonstration of routing decisions on the home page, InteractiveDemo*)
(* of pages/Home: an interval cycles through the scenarios, a click on one *)
(* shows it and pauses the interval for a while.  Every change of scenario *)
(* is a chain of timers that nothing cancels, so that the change of a cycle*)
(* and those of several clicks may be under way together.  Strategy, trace *)
(* toggle and the animated bar are left out.                               *)
(***************************************************************************)
EXTENDS Naturals, Sequences

CONSTANTS
  Chosen,      \* the scenarios that are clicked
  MaxChoices   \* bound on the clicks whose timers are under way

VARIABLES
  activeIndex, isAnimating, isPaused, phase,   \* the state of the component
  hidden,      \* document.hidden
  live, held,  \* the intervals there are; whether timerRef has one of them
  cycle,       \* the phase that the change begun by the interval is in
  choices,     \* the clicks whose timers are under way: scenario and phase
  chosen       \* history: the scenario clicked since the demo was paused

vars == <<activeIndex, isAnimating, isPaused, phase, hidden, live, held, cycle, choices, chosen>>

None == 0

DemoScenario(routeType, intent, sub_intents) ==
  [routeType |-> routeType, intent |-> intent, sub_intents |-> sub_intents]

DEMO_SCENARIOS == <<
  DemoScenario("skill", "skill", {"rag"}),
  DemoScenario("skill", "skill", {}),
  DemoScenario("skill", "skill", {}),
  DemoScenario("rag", "rag", {"workflow"}),
  DemoScenario("fta", "workflow", {"skill"}),
  DemoScenario("code_analysis", "code_analysis", {}),
  DemoScenario("direct", "direct", {}) >>

(* The intents that have a label; sub-intents are shown by label only.     *)
INTENT_LABELS == {"workflow", "skill", "rag", "code_analysis", "direct", "multi"}

ChoicesAssumption ==
  Chosen \subseteq DOMAIN DEMO_SCENARIOS /\ MaxChoices \in Nat \ {0}

(* A change of scenario goes through these; the scenario is set at routing.*)
Phases == <<"analyzing", "enriching", "routing", "done">>

Init ==
  /\ activeIndex = 1 /\ isAnimating = TRUE /\ isPaused = FALSE /\ phase = "done"
  /\ hidden = FALSE /\ live = 1 /\ held = TRUE
  /\ cycle = None /\ choices = <<>> /\ chosen = None

-----------------------------------------------------------------------------
(* The interval *)

ClearInterval == live' = (IF held THEN live - 1 ELSE live) /\ held' = FALSE

startCycling == live' = (IF held THEN live ELSE live + 1) /\ held' = TRUE

(* The effect of isPaused: clears what there is and starts unless paused.  *)
PauseEffect(paused) == IF paused THEN ClearInterval ELSE startCycling

(* Intervals are of 6000 ms, longer than a change: no two cycles overlap.  *)
Tick ==
  /\ live > 0 /\ cycle = None
  /\ cycle' = 1 /\ phase' = Phases[1] /\ isAnimating' = FALSE
  /\ UNCHANGED <<activeIndex, isPaused, hidden, live, held, choices, chosen>>

(* Reaching a phase of a change; to is the scenario it changes to.         *)
Reach(p, to) ==
  /\ phase' = Phases[p]
  /\ activeIndex' = IF Phases[p] = "routing" THEN to ELSE activeIndex
  /\ isAnimating' = (isAnimating \/ Phases[p] = "routing")

CycleGoesOn ==
  /\ cycle # None
  /\ Reach(cycle + 1, (activeIndex % Len(DEMO_SCENARIOS)) + 1)
  /\ cycle' = IF cycle + 1 = Len(Phases) THEN None ELSE cycle + 1
  /\ UNCHANGED <<isPaused, hidden, live, held, choices, chosen>>

-----------------------------------------------------------------------------
(* Clicks, and what their timers do *)

selectScenario(i) ==
  /\ ~hidden /\ Len(choices) < MaxChoices
  /\ ClearInterval
  /\ isPaused' = TRUE /\ isAnimating' = FALSE /\ phase' = Phases[1]
  /\ choices' = Append(choices, [to |-> i, phase |-> 1])
  /\ chosen' = IF cycle = None THEN i ELSE None
  /\ UNCHANGED <<activeIndex, hidden, cycle>>

(* The timers of clicks have the same delays: an earlier click is ahead.   *)
ChoiceGoesOn(k) ==
  LET next == choices[k].phase + 1
  IN  /\ next <= Len(Phases) /\ \A j \in 1..(k - 1) : choices[j].phase >= next
      /\ Reach(next, choices[k].to)
      /\ choices' = [choices EXCEPT ![k].phase = next]
      /\ UNCHANGED <<isPaused, hidden, live, held, cycle, chosen>>

SetPaused(paused) ==
  /\ isPaused' = paused
  /\ IF paused # isPaused THEN PauseEffect(paused) ELSE UNCHANGED <<live, held>>
  /\ chosen' = IF paused THEN chosen ELSE None

(* 15 s after its click, also when there was another one since.            *)
ChoiceResumes ==
  /\ choices # <<>> /\ Head(choices).phase = Len(Phases)
  /\ SetPaused(FALSE)
  /\ choices' = Tail(choices)
  /\ UNCHANGED <<activeIndex, isAnimating, phase, hidden, cycle>>

TogglePause ==
  /\ ~hidden /\ SetPaused(~isPaused)
  /\ UNCHANGED <<activeIndex, isAnimating, phase, hidden, cycle, choices>>

-----------------------------------------------------------------------------
(* The browser hides the page or shows it again *)

Hides ==
  /\ ~hidden /\ hidden' = TRUE
  /\ ClearInterval
  /\ UNCHANGED <<activeIndex, isAnimating, isPaused, phase, cycle, choices, chosen>>

\* A plausible bug: showing the page starts the interval although paused.
CyclesWhenPaused == startCycling

CyclesWhenShown == IF isPaused THEN UNCHANGED <<live, held>> ELSE startCycling

Shows ==
  /\ hidden /\ hidden' = FALSE
  /\ CyclesWhenShown
  /\ UNCHANGED <<activeIndex, isAnimating, isPaused, phase, cycle, choices, chosen>>

Next ==
  \/ Tick
  \/ CycleGoesOn
  \/ \E i \in Chosen : selectScenario(i)
  \/ \E k \in DOMAIN choices : ChoiceGoesOn(k)
  \/ ChoiceResumes
  \/ TogglePause
  \/ Hides
  \/ Shows

Spec == Init /\ [][Next]_vars

-----------------------------------------------------------------------------
(* What the panel shows. *)

scenario == DEMO_SCENARIOS[activeIndex]

(* The panel is faded while a change is under way; its dots show the phase.*)
PanelReady == isAnimating /\ phase = "done"

(* The intent and the sub-intents of the trace, each by its label.         *)
IntentsShown == {scenario.intent} \cup scenario.sub_intents

-----------------------------------------------------------------------------
(* The interval neither stops for good nor doubles: there is one whenever  *)
(* the demo is shown and not paused, and never a second one, however pauses*)
(* by hand, clicks, their late resumption and hiding the page mix.         *)
CycleKept == live <= 1 /\ (~isPaused /\ ~hidden => live = 1)

(* The scenario that was clicked last stands until the demo is resumed,    *)
(* unless the interval had begun a change when it was clicked.             *)
ChoiceStands ==
  chosen # None /\ (\A k \in DOMAIN choices : choices[k].phase >= 3) => activeIndex = chosen

(* With no change under way the decision is on display and complete.       *)
RestsOnDecision ==
  cycle = None /\ (\A k \in DOMAIN choices : choices[k].phase = Len(Phases)) =>
    PanelReady /\ IntentsShown \subseteq INTENT_LABELS
=============================================================================
