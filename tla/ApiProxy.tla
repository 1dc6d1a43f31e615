------------------------------ MODULE ApiProxy ------------------------------
(***************************************************************************)
(* The proxy of web/src/api/client.ts through which every page of the      *)
(* console calls the platform.  With mocks enabled a call first asks       *)
(* whether the backend is up: one health probe serves all calls that wait, *)
(* and its verdict holds for 30 seconds.  A call goes to the backend or,   *)
(* if that is down or the request fails, to the mock store in the page.    *)
(*                                                                         *)
(* What the backend and the mock do with a method, and what the page does  *)
(* with the answer, is left to the module that extends this one.           *)
(***************************************************************************)
EXTENDS Naturals

CONSTANTS
  Slots,      \* the calls that can be under way at a time
  Methods     \* methods of the API

VARIABLES
  mocks,      \* whether mocks are enabled and their module could be loaded
  verdict,    \* backendAvailable: "unknown", "up" or "down"
  probing,    \* whether backendCheckPromise is pending
  timer,      \* whether the timer that forgets the verdict is set
  call        \* [Slots -> call record]

proxyVars == <<mocks, verdict, probing, timer, call>>

NoCall == [state |-> "idle"]

Active(s) == call[s].state # "idle"

ProxyInit ==
  /\ mocks \in BOOLEAN          \* DEV_MOCKS_ENABLED of this build
  /\ verdict = "unknown" /\ probing = FALSE /\ timer = FALSE
  /\ call = [s \in Slots |-> NoCall]

(* A call of the proxy: without a fallback, or with a backend known to be  *)
(* up, the request is sent; with one known to be down the mock is called.  *)
Entered(method, arg) ==
  [method |-> method, arg |-> arg, mounted |-> TRUE,
   state |-> IF ~mocks \/ verdict = "up" THEN "requesting"
             ELSE IF verdict = "down" THEN "mocking" ELSE "checking"]

(* The calls in c become the calls under way; those that must wait share   *)
(* the pending probe or start one.                                         *)
Calls(c) ==
  /\ call' = c
  /\ probing' = (probing \/ \E s \in Slots : c[s].state = "checking")

\* A plausible bug: only the call that started the probe goes on.
WakeOne(healthy) ==
  \E s \in Slots :
    /\ call[s].state = "checking"
    /\ call' = [call EXCEPT ![s].state = IF healthy THEN "requesting" ELSE "mocking"]

Wake(healthy) ==
  call' = [s \in Slots |->
             IF call[s].state = "checking"
             THEN [call[s] EXCEPT !.state = IF healthy THEN "requesting" ELSE "mocking"]
             ELSE call[s]]

(* checkBackend's probe comes back, after 1.5 s at the latest.  The backend*)
(* comes and goes at any time: neither does a healthy probe mean that the  *)
(* next request succeeds, nor a failed one that it would not.              *)
ProbeEnds(healthy) ==
  /\ probing
  /\ verdict' = (IF healthy THEN "up" ELSE "down")
  /\ probing' = FALSE
  /\ timer' = TRUE
  /\ Wake(healthy)
  /\ UNCHANGED <<mocks>>

VerdictForgotten ==
  /\ timer
  /\ timer' = FALSE /\ verdict' = "unknown"
  /\ UNCHANGED <<mocks, probing, call>>

(* A request fails, before or after the backend acted on it: with mocks    *)
(* the mock is asked instead, and the user is told so.                     *)
FallBack(s) ==
  /\ call[s].state \in {"requesting", "answered"}
  /\ mocks
  /\ call' = [call EXCEPT ![s].state = "mocking"]
  /\ UNCHANGED <<mocks, verdict, probing, timer>>
=============================================================================
