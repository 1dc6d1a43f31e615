---------------------------- MODULE SolutionsPage ----------------------------
(***************************************************************************)
(* The pages of the troubleshooting solutions (pages/Solutions) over the   *)
(* mock store, which serves a build without a backend: the list with its   *)
(* filters, the dialogs that create, edit and delete, and the page of one  *)
(* solution.  Each request acts on the store and answers when its delay is *)
(* over, so that requests overtake each other; the functions that wait for *)
(* them go on with the filters and targets of the moment of the click.     *)
(***************************************************************************)
EXTENDS SolutionStore

CONSTANTS
  Keywords,      \* what is searched for, among "" and the words of the solutions
  Severities, Domains, Statuses,   \* the options that are chosen
  NewIds,        \* the ids that the clock may give
  Touched,       \* the solutions whose menus are used
  MaxLoads,      \* bound on the list requests under way
  MaxWrites      \* bound on the solutions written

SolutionsAssumption ==
  /\ Severities \subseteq SolutionSeverity /\ Statuses \subseteq SolutionStatus
  /\ "list" \notin Touched \cup NewIds
  /\ MaxLoads \in Nat \ {0} /\ MaxWrites \in Nat

VARIABLES
  stored,        \* mockSolutions of the store
  route,         \* "list", or the id of the solution whose page is open
  solutions, loading, filters, deleteTarget, formOpen, form,   \* the list's state
  loads,         \* the loadSolutions under way, in the order asked for
  writing,       \* the handleSubmit and handleDelete calls under way
  astray,        \* history: whether the load that answered last was outdated
  overtaken,     \* history: a write of a list that was left ended since then
  detail,        \* what the page of one solution shows
  solutionWrites

vars == <<stored, route, solutions, loading, filters, deleteTarget, formOpen, form, loads,
          writing, astray, overtaken, detail, solutionWrites>>

None == "none"
NoDetail == [state |-> "closed"]

(* editTarget is None in a form that creates; title tells whether it has one. *)
emptyForm ==
  [editTarget |-> None, title |-> FALSE, domain |-> "kubernetes", severity |-> "medium",
   status |-> "active", words |-> {}]

hasFilters == filters # NoFilters

(* A load is outdated (history) when a later one answered before it, or    *)
(* when it was asked for with filters that were no longer the page's.      *)
Load(f, outdated) == [filters |-> f, outdated |-> outdated]

(* The list as it mounts, which loads it.                                  *)
Init ==
  /\ stored = mockSolutions
  /\ route = "list" /\ detail = NoDetail
  /\ solutions = <<>> /\ loading = TRUE /\ filters = NoFilters
  /\ deleteTarget = None /\ formOpen = FALSE /\ form = emptyForm
  /\ loads = <<Load(NoFilters, FALSE)>> /\ astray = FALSE /\ overtaken = FALSE
  /\ writing = <<>> /\ solutionWrites = 0

-----------------------------------------------------------------------------
(* The list and its filters. *)

DialogsUnchanged == UNCHANGED <<deleteTarget, formOpen, form>>
RouteUnchanged == UNCHANGED <<route, detail>>
WritesUnchanged == UNCHANGED <<stored, writing, solutionWrites>>

(* With nothing to show and no filters, the page is an empty state that    *)
(* has neither filters nor buttons nor dialogs.                            *)
IsEmptyState == ~loading /\ solutions = <<>> /\ ~hasFilters

DialogOpen == formOpen \/ deleteTarget # None

(* Dialogs are modal.                                                      *)
ListUsable == route = "list" /\ ~IsEmptyState /\ ~DialogOpen

loadSolutions(f, outdated) == loads' = Append(loads, Load(f, outdated)) /\ loading' = TRUE

(* handleSearch and the filters' selects: an effect loads when one changes.*)
Filter(f) ==
  /\ ListUsable /\ f # filters /\ Len(loads) < MaxLoads
  /\ filters' = f
  /\ loadSolutions(f, FALSE)
  /\ UNCHANGED <<solutions, astray, overtaken>> /\ DialogsUnchanged /\ RouteUnchanged /\ WritesUnchanged

OneChanged ==
  {[filters EXCEPT !.keyword = k] : k \in Keywords}
    \cup {[filters EXCEPT !.severity = s] : s \in Severities \cup {"all"}}
    \cup {[filters EXCEPT !.domain = d] : d \in Domains \cup {"all"}}
    \cup {[filters EXCEPT !.status = s] : s \in Statuses \cup {"all"}}

(* Those that were asked for before load i are outdated once it answers.   *)
Overtakes(i) ==
  [j \in DOMAIN loads |-> Load(loads[j].filters, loads[j].outdated \/ j < i)]

(* A load answers; whichever comes last is shown, and ends the loading.    *)
(* The mock waits first and reads the store then.                          *)
LoadAnswers(i) ==
  /\ loads' = RemoveAt(Overtakes(i), i)
  /\ solutions' = Matching(stored, loads[i].filters) /\ astray' = loads[i].outdated
  /\ loading' = FALSE /\ overtaken' = FALSE
  /\ UNCHANGED filters /\ DialogsUnchanged /\ RouteUnchanged /\ WritesUnchanged

-----------------------------------------------------------------------------
(* The dialogs. *)

ListUnchanged == UNCHANGED <<solutions, loading, filters, loads, astray, overtaken>>

OpenForm(f) ==
  /\ ListUsable
  /\ formOpen' = TRUE /\ form' = f
  /\ UNCHANGED deleteTarget /\ ListUnchanged /\ RouteUnchanged /\ WritesUnchanged

openCreate == OpenForm(emptyForm)

Shown(id) == ~loading /\ Has(solutions, id)

openEdit(id) ==
  LET sol == getSolution(solutions, id)
  IN  /\ Shown(id)
      /\ OpenForm([editTarget |-> id, title |-> TRUE, domain |-> sol.domain,
                   severity |-> sol.severity, status |-> sol.status, words |-> sol.words])

FormVisible == route = "list" /\ ~IsEmptyState /\ formOpen

EditForm(f) ==
  /\ FormVisible /\ f # form /\ form' = f
  /\ UNCHANGED <<deleteTarget, formOpen>> /\ ListUnchanged /\ RouteUnchanged /\ WritesUnchanged

OneFieldChanged ==
  {[form EXCEPT !.title = t] : t \in BOOLEAN}
    \cup {[form EXCEPT !.severity = s] : s \in Severities}
    \cup {[form EXCEPT !.domain = d] : d \in Domains}
    \cup {[form EXCEPT !.status = s] : s \in Statuses}

CancelForm ==
  /\ FormVisible /\ formOpen' = FALSE
  /\ UNCHANGED <<deleteTarget, form>> /\ ListUnchanged /\ RouteUnchanged /\ WritesUnchanged

(* A button is disabled while a click of this visit is being handled.      *)
Busy(kind) == \E i \in DOMAIN writing : writing[i].kind = kind /\ writing[i].mounted

Write(kind, what) ==
  /\ ~Busy(kind) /\ solutionWrites < MaxWrites
  /\ writing' = Append(writing, [kind |-> kind, what |-> what, under |-> filters, mounted |-> TRUE])
  /\ solutionWrites' = solutionWrites + 1
  /\ UNCHANGED stored /\ ListUnchanged /\ DialogsUnchanged /\ RouteUnchanged

handleSubmit == FormVisible /\ form.title /\ Write("save", form)

AskDelete(id) ==
  /\ ListUsable /\ Shown(id)
  /\ deleteTarget' = id
  /\ UNCHANGED <<formOpen, form>> /\ ListUnchanged /\ RouteUnchanged /\ WritesUnchanged

DeleteVisible == route = "list" /\ ~IsEmptyState /\ deleteTarget # None

CancelDelete ==
  /\ DeleteVisible /\ deleteTarget' = None
  /\ UNCHANGED <<formOpen, form>> /\ ListUnchanged /\ RouteUnchanged /\ WritesUnchanged

handleDelete == DeleteVisible /\ Write("delete", deleteTarget)

(* Where a write ends, it closes the dialog of its kind that is open,      *)
(* whichever that is, and loads the list with the filters of its click; a  *)
(* list that was left has no state to change.                              *)

\* A plausible bug: the list is not loaded again.
NotReloaded(w) == UNCHANGED <<loads, loading>>

Reloaded(w) == loadSolutions(w.under, w.under # filters)

Succeeds(i) ==
  LET w == writing[i]
  IN  /\ writing' = RemoveAt(writing, i)
      /\ IF w.mounted
         THEN /\ formOpen' = (formOpen /\ w.kind # "save")
              /\ deleteTarget' = IF w.kind = "delete" THEN None ELSE deleteTarget
              /\ Reloaded(w)
              /\ UNCHANGED overtaken
         ELSE overtaken' = TRUE /\ UNCHANGED <<formOpen, deleteTarget, loads, loading>>
      /\ UNCHANGED <<solutions, filters, astray, form, solutionWrites>> /\ RouteUnchanged

Fields(id, f) == Solution(id, f.domain, f.severity, f.status, f.words)

Creates(i, id) ==
  /\ writing[i].kind = "save" /\ writing[i].what.editTarget = None
  /\ stored' = createSolution(stored, Fields(id, writing[i].what))
  /\ Succeeds(i)

Updates(i) ==
  LET id == writing[i].what.editTarget
  IN  /\ writing[i].kind = "save" /\ id # None /\ Has(stored, id)
      /\ stored' = updateSolution(stored, Fields(id, writing[i].what))
      /\ Succeeds(i)

(* It was deleted in the meantime: the dialog stays open.                  *)
UpdateFails(i) ==
  /\ writing[i].kind = "save"
  /\ writing[i].what.editTarget # None /\ ~Has(stored, writing[i].what.editTarget)
  /\ writing' = RemoveAt(writing, i)
  /\ UNCHANGED <<stored, solutionWrites>> /\ ListUnchanged /\ DialogsUnchanged /\ RouteUnchanged

Deletes(i) ==
  /\ writing[i].kind = "delete"
  /\ stored' = deleteSolution(stored, writing[i].what)
  /\ Succeeds(i)

-----------------------------------------------------------------------------
(* The page of one solution. *)

(* Leaving the list drops its state and the answers it waits for.          *)
OpenDetail(id) ==
  /\ ListUsable /\ Shown(id)
  /\ route' = id /\ detail' = [state |-> "loading"]
  /\ solutions' = <<>> /\ loading' = TRUE /\ filters' = NoFilters
  /\ loads' = <<>> /\ astray' = FALSE /\ overtaken' = FALSE
  /\ form' = emptyForm
  /\ writing' = [i \in DOMAIN writing |-> [writing[i] EXCEPT !.mounted = FALSE]]
  /\ UNCHANGED <<stored, deleteTarget, formOpen, solutionWrites>>

DetailAnswers ==
  /\ detail.state = "loading"
  /\ detail' = IF Has(stored, route)
               THEN [state |-> "shown", solution |-> getSolution(stored, route),
                     executions |-> listSolutionExecutions(route)]
               ELSE [state |-> "failed"]
  /\ UNCHANGED route /\ ListUnchanged /\ DialogsUnchanged /\ WritesUnchanged

BackToList ==
  /\ route # "list"
  /\ route' = "list" /\ detail' = NoDetail
  /\ loads' = <<Load(NoFilters, FALSE)>>
  /\ overtaken' = FALSE
  /\ UNCHANGED <<solutions, loading, filters, astray>> /\ DialogsUnchanged /\ WritesUnchanged

Next ==
  \/ \E f \in OneChanged : Filter(f)
  \/ \E i \in DOMAIN loads : LoadAnswers(i)
  \/ openCreate
  \/ \E id \in Touched \cup NewIds : openEdit(id) \/ AskDelete(id) \/ OpenDetail(id)
  \/ \E f \in OneFieldChanged : EditForm(f)
  \/ CancelForm
  \/ handleSubmit
  \/ CancelDelete
  \/ handleDelete
  \/ \E i \in DOMAIN writing :
       \/ \E id \in NewIds : Creates(i, id)
       \/ Updates(i)
       \/ UpdateFails(i)
       \/ Deletes(i)
  \/ DetailAnswers
  \/ BackToList

Spec == Init /\ [][Next]_vars

-----------------------------------------------------------------------------
(* Whatever loads and writes overtake each other: once none is under way,  *)
(* the list shows exactly what the store has under the filters chosen on   *)
(* the page, and no spinner.  The code does not see to that when the last  *)
(* answer was of an outdated load, to which nothing else comes: answers    *)
(* that crossed, or a reload under the filters of a click made before they *)
(* changed; nor after a write confirmed on an earlier visit of the list.   *)
ListIsStored ==
  route = "list" /\ loads = <<>> /\ (\A i \in DOMAIN writing : ~writing[i].mounted)
      /\ ~astray /\ ~overtaken
    => ~loading /\ solutions = Matching(stored, filters)
=============================================================================
