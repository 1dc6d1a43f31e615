------------------------------ MODULE DemoPage ------------------------------
(***************************************************************************)
(* The page that plays scripted scenarios (pages/Demo).  runDemo takes a   *)
(* scenario through its steps on timers of its own and writes into the one *)
(* state of the page; going back to the cards does not stop it, so that    *)
(* runs of several scenarios may write into the same page.                 *)
(***************************************************************************)
EXTENDS Naturals, Sequences, SequencesExt

CONSTANTS
  Played,    \* the ids of the scenarios that are played
  MaxRuns    \* bound on the runs under way

VARIABLES
  running, activeScenario, currentStep, completedSteps, showResponse, selectorReveal,
  selectorWinner,   \* the state of the page
  runs              \* the runDemo calls under way

vars == <<running, activeScenario, currentStep, completedSteps, showResponse, selectorReveal,
          selectorWinner, runs>>

NoScenario == "none"

(* Steps are told apart by what runDemo does in them: candidates are shown *)
(* one by one in the one called 候选评估, the winner after 路由裁决.       *)
plainSteps == <<"plain", "plain", "plain", "plain">>
megaSteps == <<"plain", "plain", "candidates", "verdict", "plain", "plain">>

demoScenarios ==
  [id \in {"fta", "rag", "skill", "log", "change", "capacity", "security", "database", "network"} |->
     [steps |-> plainSteps, candidates |-> 0]]
megaScenario == [steps |-> megaSteps, candidates |-> 6]

Scenario(id) == IF id = "mega" THEN megaScenario ELSE demoScenarios[id]

scenarioCategories == <<
  <<"mega", "fta", "database", "network">>,
  <<"skill", "change", "security">>,
  <<"rag", "log", "capacity">> >>

(* The cards of the page: a scenario outside the categories has none.      *)
Cards == UNION {ToSet(scenarioCategories[i]) : i \in DOMAIN scenarioCategories}

DemoAssumption ==
  /\ Played \subseteq Cards /\ Cards = DOMAIN demoScenarios \cup {"mega"}
  /\ MaxRuns \in Nat \ {0}

Init ==
  /\ running = FALSE /\ activeScenario = NoScenario /\ currentStep = 1 /\ completedSteps = {}
  /\ showResponse = FALSE /\ selectorReveal = 0 /\ selectorWinner = FALSE
  /\ runs = <<>>

(* Starting from a card resets what the page shows.                        *)
runDemo(id) ==
  /\ activeScenario = NoScenario /\ Len(runs) < MaxRuns
  /\ running' = TRUE /\ activeScenario' = id /\ currentStep' = 1 /\ completedSteps' = {}
  /\ showResponse' = FALSE /\ selectorReveal' = 0 /\ selectorWinner' = FALSE
  /\ runs' = Append(runs, [id |-> id, step |-> 1, revealed |-> 0])

StepOf(run) == Scenario(run.id).steps[run.step]

Finished(run) == run.step > Len(Scenario(run.id).steps)

(* A tick of the reveal timer; how many there are before the step ends is  *)
(* up to the browser.                                                      *)
Reveal(i) ==
  LET run == runs[i]
  IN  /\ ~Finished(run) /\ StepOf(run) = "candidates"
      /\ run.revealed < Scenario(run.id).candidates
      /\ runs' = [runs EXCEPT ![i].revealed = @ + 1]
      /\ selectorReveal' = run.revealed + 1
      /\ UNCHANGED <<running, activeScenario, currentStep, completedSteps, showResponse, selectorWinner>>

\* A plausible bug: what the timer revealed is left as it is.
RevealedByTimer(run) == run.revealed

RevealedInTheEnd(run) == Scenario(run.id).candidates

StepEnds(i) ==
  LET run == runs[i]
      next == [run EXCEPT !.step = @ + 1]
  IN  /\ ~Finished(run)
      /\ runs' = [runs EXCEPT ![i] = next]
      /\ selectorReveal' = IF StepOf(run) = "candidates" THEN RevealedInTheEnd(run) ELSE selectorReveal
      /\ selectorWinner' = (selectorWinner \/ StepOf(run) = "verdict")
      /\ completedSteps' = completedSteps \cup {run.step}
      /\ currentStep' = IF Finished(next) THEN currentStep ELSE next.step
      /\ UNCHANGED <<running, activeScenario, showResponse>>

(* 300 ms after the last step.                                             *)
RunEnds(i) ==
  /\ Finished(runs[i])
  /\ runs' = RemoveAt(runs, i)
  /\ showResponse' = TRUE /\ running' = FALSE
  /\ UNCHANGED <<activeScenario, currentStep, completedSteps, selectorReveal, selectorWinner>>

(* The button that goes back to the cards.                                 *)
Back ==
  /\ activeScenario # NoScenario /\ activeScenario' = NoScenario
  /\ UNCHANGED <<running, currentStep, completedSteps, showResponse, selectorReveal, selectorWinner, runs>>

Next ==
  \/ \E id \in Played : runDemo(id)
  \/ \E i \in DOMAIN runs : Reveal(i) \/ StepEnds(i) \/ RunEnds(i)
  \/ Back

Spec == Init /\ [][Next]_vars

-----------------------------------------------------------------------------
(* What the page draws of its state: StepIndicator, SelectorDecisionPanel. *)

StepShown(i) ==
  CASE i \in completedSteps -> "completed"
    [] i \notin completedSteps /\ running /\ currentStep = i -> "active"
    [] OTHER -> "pending"

(* The candidates with their confidence, from the highest one down.        *)
CandidatesShown(scenario) ==
  IF selectorReveal > 0 \/ selectorWinner
  THEN {c \in 1..scenario.candidates : c <= selectorReveal}
  ELSE {}

ResponseShown == activeScenario # NoScenario /\ showResponse

(* Once no run is under way, the page shows the finished scenario it is on,*)
(* whichever other ones were left and ran on: no spinner, the response, all*)
(* its steps completed, and its candidates and the winner if it has any.   *)
DemoSettles ==
  runs = <<>> =>
    /\ ~running
    /\ activeScenario # NoScenario =>
         LET scenario == Scenario(activeScenario)
         IN  /\ ResponseShown
             /\ \A i \in DOMAIN scenario.steps : StepShown(i) = "completed"
             /\ CandidatesShown(scenario) = 1..scenario.candidates
             /\ scenario.candidates > 0 => selectorWinner
=============================================================================
