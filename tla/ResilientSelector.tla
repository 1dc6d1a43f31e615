-------------------------- MODULE ResilientSelector --------------------------
(***************************************************************************)
(* ResilientSelector of python/src/resolveagent/selector: concurrent       *)
(* routing sessions that share one circuit breaker per route of the        *)
(* priority list.  A session awaits twice per attempt, in selector.route   *)
(* and in the executor; everything between two awaits is one action here.  *)
(*                                                                         *)
(* Abstracted: the selector may answer any route type it can emit (rules,  *)
(* LLM and cache decide), an error is the class _classify_error puts it    *)
(* in, and the order that the adaptive weights give the untried routes is  *)
(* left open, since every session of the process moves the weights.        *)
(***************************************************************************)
EXTENDS Breaker, FiniteSets

CONSTANTS
  Clients,             \* concurrent callers of route_and_execute
  Priority,            \* the routes of route_priority
  Decisions,           \* route types selector.route can answer
  Errors,              \* error classes the executor's failures fall in
  MaxRetries,          \* max_retries
  MaxClarifications,   \* max_clarifications
  SessionBound         \* bound on the sessions ever started

ASSUME PriorityAssumption ==
  /\ {"fta", "code_analysis"} \subseteq Priority
  /\ "workflow" \notin Priority
\* fta is normalised to workflow at the selector's boundary.
ASSUME DecisionsAssumption == "fta" \notin Decisions
ASSUME ErrorsAssumption ==
  /\ Errors \subseteq {"missing", "network", "logic", "permission", "capacity", "unknown"}
  \* "Circuit breaker open" matches none of the keyword lists
  /\ "unknown" \in Errors
ASSUME BoundsAssumption ==
  /\ MaxRetries \in Nat /\ MaxClarifications \in Nat /\ SessionBound \in Nat
  \* as many attempts as routes to try, as in the default configuration
  /\ MaxRetries < Cardinality(Priority)

VARIABLES
  cb,         \* _circuit_breakers: one breaker per route of the priority list
  session,    \* what each client's session holds
  sessions,   \* _session_counter
  raised      \* history: exceptions in a row of each canonical route,
              \* counted up to FailureThreshold

vars == <<cb, session, sessions, raised>>

RouteTypes == Priority \cup Decisions

\* 'fta' and 'workflow' are the same route when deduplicating.
canonical(r) == IF r = "workflow" THEN "fta" ELSE r

Routes == {canonical(r) : r \in RouteTypes}

Prefs == {"reasoning", "knowledge", "analysis"}

SessionRecord ==
  [pc       : {"idle", "routing", "running", "solved", "failed"},
   attempt  : 0..MaxRetries,         \* attempt_num
   tried    : SUBSET Routes,         \* tried_routes
   route    : RouteTypes,            \* route type of the decision being executed
   fallback : BOOLEAN,               \* executing the final fallback
   failed   : SUBSET RouteTypes,     \* route types of the failed attempts
   errors   : SUBSET Errors,         \* error classes of the failed attempts
   prefs    : SUBSET Prefs,          \* ctx["route_preferences"]
   expired  : BOOLEAN,               \* total_timeout_seconds have passed
   rounds   : 0..MaxClarifications,  \* clarification_rounds
   attempts : Nat,                   \* history: len(session.attempts)
   ran      : SUBSET Routes,         \* history: routes the executor was called for
   refused  : SUBSET Routes,         \* history: routes a breaker refused
   late     : Nat]                   \* history: executor calls after the timeout

Fresh(rounds) ==
  [pc |-> "routing", attempt |-> 0, tried |-> {}, route |-> "code_analysis",
   fallback |-> FALSE, failed |-> {}, errors |-> {}, prefs |-> {}, expired |-> FALSE,
   rounds |-> rounds, attempts |-> 0, ran |-> {}, refused |-> {}, late |-> 0]

Init ==
  /\ cb = [r \in Priority |-> NewBreaker]
  /\ session = [s \in Clients |-> [Fresh(0) EXCEPT !.pc = "idle"]]
  /\ sessions = 0
  /\ raised = [r \in Routes |-> 0]

-----------------------------------------------------------------------------
(* Re-enrichment after a failed attempt (ReEnricher._compute_preferences). *)

\* The preferences that the failures of a session add: `errors` are the classes
\* of all its failures, `failed` its failed route types, `last` the latest of
\* them, which failed with class `e`.
AddedPrefs(errors, failed, last, e) ==
  {p \in Prefs :
     \/ /\ p = "reasoning"
        /\ "missing" \in errors /\ "rag" \in failed
     \/ /\ p = "knowledge"
        /\ \/ "missing" \in errors /\ "rag" \notin failed /\ "skill" \in failed
           \/ "permission" \in errors /\ "rag" \notin failed
           \/ "capacity" \in errors /\ "skill" \notin failed
     \/ /\ p = "analysis"
        /\ \/ {"network", "logic"} \cap errors # {} /\ "code_analysis" \notin failed
           \/ last = "skill" /\ e = "network"
           \/ /\ last = "fta" /\ "code_analysis" \notin failed}

\* The routes _force_alternative_route may pick: a preferred one if it is
\* untried, otherwise whichever untried route weighs most, or the original
\* decision when every route of the list was tried.
ForcedFrom(tried, prefs) ==
  LET available == Priority \ tried
  IN  IF "reasoning" \in prefs /\ "fta" \in available THEN {"fta"}
      ELSE IF "knowledge" \in prefs /\ "rag" \in available THEN {"rag"}
      ELSE IF "analysis" \in prefs /\ "code_analysis" \in available
           THEN {"code_analysis"}
      ELSE available

\* A plausible bug: deduplication by the raw route type, workflow apart from fta.
AlternativesRaw(ses, r) ==
  IF r \in ses.tried /\ ses.attempt > 0 THEN ForcedFrom(ses.tried, ses.prefs) ELSE {r}

\* The route types that may be executed when the selector answers r.
Alternatives(ses, r) ==
  IF canonical(r) \in ses.tried /\ ses.attempt > 0 /\ ~ Priority \subseteq ses.tried
  THEN ForcedFrom(ses.tried, ses.prefs)
  ELSE {r}

-----------------------------------------------------------------------------
(* _execute_route: breakers are kept per raw route type of the priority    *)
(* list, so a decision for a type outside it (workflow, direct) has none.  *)

Guarded(r) == r \in Priority

Refuses(breakers, r) == Guarded(r) /\ ~ Admits(breakers[r])

Enter(breakers, r) ==
  IF Guarded(r) THEN [breakers EXCEPT ![r] = Admitted(@)] ELSE breakers

\* The attempt is handed to the executor: the session now awaits it.
Executing(ses, r) ==
  [ses EXCEPT !.pc = "running", !.route = r, !.ran = @ \cup {canonical(r)},
              !.late = IF ses.expired THEN @ + 1 ELSE @]

\* The attempt ended without reaching the executor (CircuitOpenError).
Refused(ses, r) ==
  [ses EXCEPT !.attempts = @ + 1, !.refused = @ \cup {canonical(r)}]

-----------------------------------------------------------------------------
(* What follows a failed attempt, up to the session's next await.          *)

\* The loop body after the attempt of r failed with class e: tried_routes, and
\* re-enrichment when another attempt may follow.
Recorded(ses, r, e) ==
  LET failed == ses.failed \cup {r}
      errors == ses.errors \cup {e}
  IN  [ses EXCEPT
         !.tried = @ \cup {canonical(r)}, !.failed = failed, !.errors = errors,
         !.prefs = IF ses.attempt < MaxRetries
                   THEN @ \cup AddedPrefs(errors, failed, r, e) ELSE @]

\* A plausible bug: the timeout is looked at when the session starts only.
LoopsRegardless(ses) == ses.attempt < MaxRetries

Loops(ses) == ses.attempt < MaxRetries /\ ~ ses.expired

\* The coroutine returns: its locals are gone, what it did stays on record.
Ended(ses, outcome) ==
  [Fresh(ses.rounds) EXCEPT !.pc = outcome, !.attempts = ses.attempts, !.ran = ses.ran,
                            !.refused = ses.refused, !.late = ses.late]

\* A plausible bug: a session that timed out gives up without the final fallback.
ProceedWithoutLateFallback(ses, breakers) ==
  IF Loops(ses)
  THEN [ses |-> [ses EXCEPT !.pc = "routing", !.attempt = @ + 1], cb |-> breakers]
  ELSE IF "code_analysis" \in ses.tried \/ ses.expired
       THEN [ses |-> Ended(ses, "failed"), cb |-> breakers]
  ELSE IF Refuses(breakers, "code_analysis")
       THEN [ses |-> Ended(Refused(ses, "code_analysis"), "failed"),
             cb  |-> breakers]
  ELSE [ses |-> Executing([ses EXCEPT !.fallback = TRUE], "code_analysis"),
        cb  |-> Enter(breakers, "code_analysis")]

\* Another turn of the loop, or the final fallback to code analysis, or the end.
Proceed(ses, breakers) ==
  IF Loops(ses)
  THEN [ses |-> [ses EXCEPT !.pc = "routing", !.attempt = @ + 1], cb |-> breakers]
  ELSE IF "code_analysis" \in ses.tried
       THEN [ses |-> Ended(ses, "failed"), cb |-> breakers]
  ELSE IF Refuses(breakers, "code_analysis")
       THEN [ses |-> Ended(Refused(ses, "code_analysis"), "failed"),
             cb  |-> breakers]
  ELSE [ses |-> Executing([ses EXCEPT !.fallback = TRUE], "code_analysis"),
        cb  |-> Enter(breakers, "code_analysis")]

\* A failed attempt of r, in the loop or in the final fallback.
Failed(ses, breakers, r, e) ==
  IF ses.fallback THEN [ses |-> Ended(ses, "failed"), cb |-> breakers]
  ELSE Proceed(Recorded(ses, r, e), breakers)

Moves(s, next) ==
  /\ session' = [session EXCEPT ![s] = next.ses]
  /\ cb' = next.cb

-----------------------------------------------------------------------------

\* route_and_execute: a new request of client s.
Start(s) ==
  /\ session[s].pc \in {"idle", "solved", "failed"}
  /\ sessions < SessionBound
  /\ sessions' = sessions + 1
  /\ session' = [session EXCEPT ![s] = Fresh(0)]
  /\ UNCHANGED <<cb, raised>>

\* route_and_execute_with_clarification: the user answered the question asked
\* after a failed session, and the request is routed afresh.
Clarify(s) ==
  /\ session[s].pc = "failed"
  /\ session[s].rounds < MaxClarifications
  /\ sessions < SessionBound
  /\ sessions' = sessions + 1
  /\ session' = [session EXCEPT ![s] = Fresh(session[s].rounds + 1)]
  /\ UNCHANGED <<cb, raised>>

\* selector.route answers r: the session executes it, or an alternative to it,
\* or finds the breaker of that route open and goes on.
Route(s) ==
  /\ session[s].pc = "routing"
  /\ \E r \in Decisions : \E q \in Alternatives(session[s], r) :
       Moves(s, IF Refuses(cb, q)
                THEN Failed(Refused(session[s], q), cb, q, "unknown")
                ELSE [ses |-> Executing(session[s], q), cb |-> Enter(cb, q)])
  /\ UNCHANGED <<sessions, raised>>

\* The breaker, if the route has one, after the executor returned or raised.
Reported(r, returned) ==
  IF Guarded(r)
  THEN [cb EXCEPT ![r] = IF returned THEN AfterSuccess(@) ELSE AfterFailure(@)]
  ELSE cb

\* The executor's result says success.
Solve(s) ==
  LET r == session[s].route
  IN  /\ session[s].pc = "running"
      /\ session' = [session EXCEPT
                        ![s] = Ended([session[s] EXCEPT !.attempts = @ + 1], "solved")]
      /\ cb' = Reported(r, TRUE)
      /\ raised' = [raised EXCEPT ![canonical(r)] = 0]
      /\ UNCHANGED sessions

\* The executor returns a result that says failure.  Nothing was raised, so the
\* breaker counts a success; the session counts a failure.
SoftFail(s) ==
  LET r == session[s].route
  IN  /\ session[s].pc = "running"
      /\ \E e \in Errors :
           Moves(s, Failed([session[s] EXCEPT !.attempts = @ + 1],
                           Reported(r, TRUE), r, e))
      /\ raised' = [raised EXCEPT ![canonical(r)] = 0]
      /\ UNCHANGED sessions

\* The executor raises.
Raise(s) ==
  LET r == session[s].route
  IN  /\ session[s].pc = "running"
      /\ \E e \in Errors :
           Moves(s, Failed([session[s] EXCEPT !.attempts = @ + 1],
                           Reported(r, FALSE), r, e))
      /\ raised' = [raised EXCEPT ![canonical(r)] = IF @ < FailureThreshold THEN @ + 1 ELSE @]
      /\ UNCHANGED sessions

\* total_timeout_seconds pass; the session looks only at the top of its loop.
Expire(s) ==
  /\ session[s].pc \in {"routing", "running"} /\ ~ session[s].expired
  /\ session' = [session EXCEPT ![s].expired = TRUE]
  /\ UNCHANGED <<cb, sessions, raised>>

\* reset_timeout passes after the last failure of route r.
ResetTimeoutElapses(r) ==
  /\ ~ cb[r].rested
  /\ cb' = [cb EXCEPT ![r] = AfterTimeout(@)]
  /\ UNCHANGED <<session, sessions, raised>>

End(s) == Solve(s) \/ SoftFail(s) \/ Raise(s)

Next ==
  \/ \E s \in Clients : Start(s) \/ Clarify(s) \/ Route(s) \/ End(s) \/ Expire(s)
  \/ \E r \in Priority : ResetTimeoutElapses(r)

Spec == Init /\ [][Next]_vars

-----------------------------------------------------------------------------

TypeOK ==
  /\ cb \in [Priority -> BreakerRecord]
  /\ session \in [Clients -> SessionRecord]
  /\ sessions \in Nat
  /\ raised \in [Routes -> Nat]

\* A session never attempts the same route twice, whatever the selector answers
\* and whichever route the final fallback finds tried: it made as many attempts as
\* there are routes that it ran or found refused, so that a route refused first is
\* not run later either.  workflow and fta are one route.
NoRouteTwice ==
  \A s \in Clients :
    session[s].attempts
      = Cardinality(session[s].refused \cup session[s].ran)
          - (IF session[s].pc = "running" THEN 1 ELSE 0)

\* A session gives up only after code analysis was attempted: the executor ran it
\* and failed, or its breaker refused it.  It holds for sessions that time out.
LastResort ==
  \A s \in Clients :
    session[s].pc = "failed" => "code_analysis" \in session[s].ran \cup session[s].refused

\* The timeout does not stop a session at once, but the executor is called at most
\* twice after it: for the decision that was being awaited, and for code analysis.
LateCallsBounded == \A s \in Clients : session[s].late <= 2

\* A route of the list whose executor raised FailureThreshold times in a row is
\* shielded by its breaker, whatever other sessions did with it in between.
\* fta is left out: see FtaIsShielded.
FailingRouteIsShielded ==
  \A r \in Priority \ {"fta"} :
    raised[r] >= FailureThreshold => cb[r].state # "closed"

\* The same of fta.  The selector answers workflow for it, and decisions of that
\* type have no breaker: MCFtaUnshielded.cfg shows the counterexample.
FtaIsShielded ==
  raised["fta"] >= FailureThreshold => cb["fta"].state # "closed"
=============================================================================
