----------------------------- MODULE MessageBus -----------------------------
(***************************************************************************)
(* AgentMessageBus of python/src/resolveagent/message_bus.py: one FIFO     *)
(* queue, one worker task that delivers a message at a time and awaits the *)
(* coroutine callbacks it calls, and the request-response pattern built on *)
(* it, where each request waits on a future with a timeout.                *)
(*                                                                         *)
(* A service is one agent subscribed to one request channel.  Its callback *)
(* may publish a reply on <sender>.reply, with the correlation id or       *)
(* without, may leave that to a task of its own, may never reply or raise, *)
(* and may itself await bus.request.  Correlation ids are the fresh uuids  *)
(* that request() draws when the caller passes none.                       *)
(***************************************************************************)
EXTENDS Naturals, Sequences, FiniteSets

CONSTANTS
  Requests,     \* the calls of request() ever made
  Senders,      \* agents that make them
  Services,     \* agents that answer requests
  Sender,       \* [Requests -> Senders]
  Service,      \* [Requests -> Services], by the channel of the request
  Inner,        \* [Requests -> Requests \cup {None}]: the request that the
                \* callback handling a request awaits, if any
  None,
  StopBound     \* bound on calls of stop()

ASSUME FunctionsAssumption ==
  /\ Sender \in [Requests -> Senders]
  /\ Service \in [Requests -> Services]
  /\ Inner \in [Requests -> Requests \cup {None}]
  /\ None \notin Requests
ASSUME StopBoundAssumption == StopBound \in Nat

VARIABLES
  queue,        \* _message_queue
  worker,       \* what _process_messages is doing: "stopped", "idle" or "handling"
  handled,      \* the request whose callback the worker awaits
  subscribed,   \* services subscribed to their channel
  handlers,     \* requests whose reply_handler is subscribed, by sender
  pending,      \* requests in _pending_requests
  request,      \* where each request is
  answer,       \* the message its future was resolved with
  owed,         \* requests that a service will reply to from a task of its own
  stops         \* calls of stop()

vars == <<queue, worker, handled, subscribed, handlers, pending, request, answer, owed, stops>>

Message == [kind : {"request", "reply"}, of : Requests, correlated : BOOLEAN]

RequestMessage(r) == [kind |-> "request", of |-> r, correlated |-> TRUE]
ReplyMessage(r, correlated) == [kind |-> "reply", of |-> r, correlated |-> correlated]

Nested == {Inner[r] : r \in Requests} \ {None}

Finished == {"answered", "timedout", "cancelled"}

Init ==
  /\ queue = <<>>
  /\ worker = "stopped" /\ handled = None
  /\ subscribed = Services
  /\ handlers = [a \in Senders |-> {}]
  /\ pending = {}
  /\ request = [r \in Requests |-> "idle"]
  /\ answer = [r \in Requests |-> None]
  /\ owed = {}
  /\ stops = 0

-----------------------------------------------------------------------------
(* request()                                                               *)

\* Register the future, subscribe the reply handler, publish: no await suspends.
Issue(r) ==
  /\ request[r] = "idle"
  /\ request' = [request EXCEPT ![r] = "waiting"]
  /\ pending' = pending \cup {r}
  /\ handlers' = [handlers EXCEPT ![Sender[r]] = @ \cup {r}]
  /\ queue' = Append(queue, RequestMessage(r))
  /\ UNCHANGED <<worker, handled, subscribed, answer, owed, stops>>

Call(r) == r \notin Nested /\ Issue(r)

\* The callback that handles a request makes a request of its own and awaits it.
CallInside(r) ==
  /\ worker = "handling" /\ handled # None /\ Inner[handled] = r
  /\ Issue(r)

\* The finally block.  unsubscribe drops every handler the agent has on the channel,
\* those of its other requests included.
CleanedUp(r) ==
  /\ handlers' = [handlers EXCEPT ![Sender[r]] = {}]
  /\ pending' = pending \ {r}

\* The waiting task finds its future resolved and returns the message.
Return(r) ==
  /\ request[r] = "resolved"
  /\ request' = [request EXCEPT ![r] = "answered"]
  /\ CleanedUp(r)
  /\ UNCHANGED <<queue, worker, handled, subscribed, answer, owed, stops>>

\* A plausible bug: the cleanup is skipped when the request times out.
TimeOutUnclean(r) ==
  /\ request[r] \in {"waiting", "resolved"}
  /\ request' = [request EXCEPT ![r] = "timedout"]
  /\ UNCHANGED <<queue, worker, handled, subscribed, handlers, pending, answer, owed, stops>>

\* A plausible bug: a request made inside a callback has no timeout.
TimeOutOutside(r) ==
  /\ request[r] \in {"waiting", "resolved"} /\ r \notin Nested
  /\ request' = [request EXCEPT ![r] = "timedout"]
  /\ CleanedUp(r)
  /\ UNCHANGED <<queue, worker, handled, subscribed, answer, owed, stops>>

\* wait_for times out and request returns None.  The timer may beat the task that a
\* resolved future has woken: the answer is then dropped.
TimeOut(r) ==
  /\ request[r] \in {"waiting", "resolved"}
  /\ request' = [request EXCEPT ![r] = "timedout"]
  /\ CleanedUp(r)
  /\ UNCHANGED <<queue, worker, handled, subscribed, answer, owed, stops>>

-----------------------------------------------------------------------------
(* The worker                                                              *)

\* The callback of the service starts, or nobody is subscribed and the message is
\* gone.  The request never resolves its own future.
TakeRequest ==
  /\ worker = "idle" /\ queue # <<>> /\ Head(queue).kind = "request"
  /\ queue' = Tail(queue)
  /\ IF Service[Head(queue).of] \in subscribed
     THEN worker' = "handling" /\ handled' = Head(queue).of
     ELSE UNCHANGED <<worker, handled>>
  /\ UNCHANGED <<subscribed, handlers, pending, request, answer, owed, stops>>

\* A plausible bug: all requests share one reply channel.
ResolvedOnOneChannel(m) ==
  {r \in Requests :
     /\ request[r] = "waiting"
     /\ r \in UNION {handlers[a] : a \in Senders}}

\* Requests whose future a reply resolves: through any reply handler on the channel
\* (no handler looks at the correlation id), then through _pending_requests.
ResolvedBy(m) ==
  {r \in Requests :
     /\ request[r] = "waiting"
     /\ r \in handlers[Sender[m.of]] \/ (m.correlated /\ r = m.of /\ r \in pending)}

\* Reply handlers are synchronous: the reply is delivered in one go.
TakeReply ==
  /\ worker = "idle" /\ queue # <<>> /\ Head(queue).kind = "reply"
  /\ LET m == Head(queue) IN
       /\ request' = [r \in Requests |->
                        IF r \in ResolvedBy(m) THEN "resolved" ELSE request[r]]
       /\ answer' = [r \in Requests |-> IF r \in ResolvedBy(m) THEN m ELSE answer[r]]
  /\ queue' = Tail(queue)
  /\ UNCHANGED <<worker, handled, subscribed, handlers, pending, owed, stops>>

\* A plausible bug: the worker does not await what the callback awaits.
CallbackEndsUnawaited ==
  /\ worker = "handling"
  /\ worker' = "idle" /\ handled' = None
  /\ \/ \E correlated \in BOOLEAN :
          queue' = Append(queue, ReplyMessage(handled, correlated)) /\ UNCHANGED owed
     \/ owed' = owed \cup {handled} /\ UNCHANGED queue
     \/ UNCHANGED <<queue, owed>>
  /\ UNCHANGED <<subscribed, handlers, pending, request, answer, stops>>

\* The callback ends: it has replied, will have a task reply, or never replies.
CallbackEnds ==
  /\ worker = "handling"
  /\ Inner[handled] # None => request[Inner[handled]] \in Finished
  /\ worker' = "idle" /\ handled' = None
  /\ \/ \E correlated \in BOOLEAN :
          queue' = Append(queue, ReplyMessage(handled, correlated)) /\ UNCHANGED owed
     \/ owed' = owed \cup {handled} /\ UNCHANGED queue
     \/ UNCHANGED <<queue, owed>>
  /\ UNCHANGED <<subscribed, handlers, pending, request, answer, stops>>

ReplyLater(r) ==
  /\ r \in owed
  /\ owed' = owed \ {r}
  /\ \E correlated \in BOOLEAN : queue' = Append(queue, ReplyMessage(r, correlated))
  /\ UNCHANGED <<worker, handled, subscribed, handlers, pending, request, answer, stops>>

-----------------------------------------------------------------------------
(* subscribe, unsubscribe, start, stop                                     *)

Subscribe(a) ==
  /\ a \notin subscribed
  /\ subscribed' = subscribed \cup {a}
  /\ UNCHANGED <<queue, worker, handled, handlers, pending, request, answer, owed, stops>>

Unsubscribe(a) ==
  /\ a \in subscribed
  /\ subscribed' = subscribed \ {a}
  /\ UNCHANGED <<queue, worker, handled, handlers, pending, request, answer, owed, stops>>

Start ==
  /\ worker = "stopped"
  /\ worker' = "idle"
  /\ UNCHANGED <<queue, handled, subscribed, handlers, pending, request, answer, owed, stops>>

\* The worker task is cancelled wherever it awaits: in a callback, the rest of the
\* delivery is lost, and a request the callback awaits ends in its finally block.
Stop ==
  /\ worker # "stopped" /\ stops < StopBound
  /\ stops' = stops + 1
  /\ worker' = "stopped" /\ handled' = None
  /\ IF /\ worker = "handling" /\ Inner[handled] # None
        /\ request[Inner[handled]] \in {"waiting", "resolved"}
     THEN /\ request' = [request EXCEPT ![Inner[handled]] = "cancelled"]
          /\ CleanedUp(Inner[handled])
     ELSE UNCHANGED <<request, handlers, pending>>
  /\ UNCHANGED <<queue, subscribed, answer, owed>>

Deliver == TakeRequest \/ TakeReply \/ CallbackEnds

Next ==
  \/ \E r \in Requests :
       Call(r) \/ CallInside(r) \/ Return(r) \/ TimeOut(r) \/ ReplyLater(r)
  \/ Deliver
  \/ \E a \in Services : Subscribe(a) \/ Unsubscribe(a)
  \/ Start \/ Stop

Spec == Init /\ [][Next]_vars

\* The event loop runs ready tasks and fires timers; callbacks do what they do and end.
FairSpec ==
  /\ Spec
  /\ WF_vars(Deliver)
  /\ \A r \in Requests : WF_vars(CallInside(r)) /\ WF_vars(Return(r)) /\ WF_vars(TimeOut(r))

-----------------------------------------------------------------------------

TypeOK ==
  /\ queue \in Seq(Message)
  /\ worker \in {"stopped", "idle", "handling"}
  /\ handled \in Requests \cup {None} /\ (handled # None <=> worker = "handling")
  /\ subscribed \subseteq Services
  /\ handlers \in [Senders -> SUBSET Requests]
  /\ pending \subseteq Requests /\ owed \subseteq Requests
  /\ request \in [Requests -> {"idle", "waiting", "resolved"} \cup Finished]
  /\ answer \in [Requests -> Message \cup {None}]
  /\ stops \in 0..StopBound

\* A request that has ended leaves nothing behind on the bus, however it ended: no
\* future in _pending_requests, no reply handler for a later reply to run into.
NothingLeftBehind ==
  \A r \in Requests : request[r] \in Finished =>
    r \notin pending /\ r \notin handlers[Sender[r]]

\* A request may be answered by a reply to another request, but only of its sender.
AnswersStayWithSender ==
  \A r \in Requests : answer[r] # None => Sender[answer[r].of] = Sender[r]

\* A request made inside a coroutine callback is never answered: the only worker that
\* could deliver its message or the reply is the one that awaits it.
InnerRequestsStarve == \A r \in Nested : answer[r] = None

\* The worker always gets through its queue again unless it is stopped: a callback
\* that waits on the bus itself holds it up only until the inner request times out.
QueueDrains == []<>(queue = <<>> \/ worker = "stopped")

\* The answer of a request is the reply to that request, which is what the correlation
\* id is for.  It does not hold: reply handlers never compare correlation ids.
AnswersCorrelate ==
  \A r \in Requests : answer[r] # None => answer[r].of = r
=============================================================================
