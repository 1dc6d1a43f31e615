-------------------------- MODULE MessageBusProofs --------------------------
(***************************************************************************)
(* Theorems of MessageBus for any number of requests, senders and services *)
(* and any way requests are nested: TypeOK, NothingLeftBehind,             *)
(* AnswersStayWithSender and InnerRequestsStarve.  QueueDrains needs       *)
(* fairness and is model-checked only.                                     *)
(***************************************************************************)
EXTENDS MessageBus, TLAPS

Live == {"waiting", "resolved"}

Places == {"idle", "waiting", "resolved"} \cup Finished

-----------------------------------------------------------------------------
(* Types                                                                   *)

LEMMA MessageTyped ==
  ASSUME NEW r \in Requests, NEW correlated \in BOOLEAN
  PROVE  RequestMessage(r) \in Message /\ ReplyMessage(r, correlated) \in Message
  BY DEF RequestMessage, ReplyMessage, Message

\* finally: what it unsubscribes and forgets keeps the tables typed.
LEMMA CleanedUpTyped ==
  ASSUME TypeOK, NEW r \in Requests, CleanedUp(r)
  PROVE  handlers' \in [Senders -> SUBSET Requests] /\ pending' \subseteq Requests
  BY DEF TypeOK, CleanedUp

LEMMA HeadTyped ==
  ASSUME TypeOK, queue # <<>>
  PROVE  Head(queue) \in Message /\ Head(queue).of \in Requests /\ Tail(queue) \in Seq(Message)
<1>1. Head(queue) \in Message /\ Tail(queue) \in Seq(Message)
  BY DEF TypeOK
<1> QED BY <1>1 DEF Message

LEMMA TypeInit == Init => TypeOK
<1> SUFFICES ASSUME Init PROVE TypeOK
  OBVIOUS
<1>1. queue \in Seq(Message)
  BY DEF Init
<1>2. stops \in 0..StopBound
  BY StopBoundAssumption DEF Init
<1>3. handlers \in [Senders -> SUBSET Requests]
  BY DEF Init
<1>4. /\ request \in [Requests -> Places]
      /\ answer \in [Requests -> Message \cup {None}]
  BY DEF Init, Places
<1> QED
  BY <1>1, <1>2, <1>3, <1>4, FunctionsAssumption DEF Init, TypeOK, Places

LEMMA IssueTyped ==
  ASSUME TypeOK, NEW r \in Requests, Issue(r)
  PROVE  TypeOK'
<1>1. queue' \in Seq(Message)
  <2>1. RequestMessage(r) \in Message
    BY MessageTyped
  <2> QED BY <2>1 DEF TypeOK, Issue
<1>2. request' \in [Requests -> Places] /\ pending' \subseteq Requests
  BY DEF TypeOK, Issue, Places
<1>3. handlers' \in [Senders -> SUBSET Requests]
  BY DEF TypeOK, Issue
<1> QED BY <1>1, <1>2, <1>3 DEF TypeOK, Issue, Places

LEMMA TypeNext == TypeOK /\ [Next]_vars => TypeOK'
<1> SUFFICES ASSUME TypeOK, [Next]_vars PROVE TypeOK'
  OBVIOUS
<1>1. ASSUME NEW r \in Requests, Call(r) \/ CallInside(r) PROVE TypeOK'
  BY <1>1, IssueTyped DEF Call, CallInside
<1>2. ASSUME NEW r \in Requests, Return(r) PROVE TypeOK'
  <2>1. CleanedUp(r)
    BY <1>2 DEF Return
  <2>2. request' \in [Requests -> Places]
    BY <1>2 DEF Return, TypeOK, Places, Finished
  <2> QED BY <1>2, <2>1, <2>2, CleanedUpTyped DEF Return, TypeOK, Places
<1>3. ASSUME NEW r \in Requests, TimeOut(r) PROVE TypeOK'
  <2>1. CleanedUp(r)
    BY <1>3 DEF TimeOut
  <2>2. request' \in [Requests -> Places]
    BY <1>3 DEF TimeOut, TypeOK, Places, Finished
  <2> QED BY <1>3, <2>1, <2>2, CleanedUpTyped DEF TimeOut, TypeOK, Places
<1>4. ASSUME NEW r \in Requests, ReplyLater(r) PROVE TypeOK'
  <2>1. queue' \in Seq(Message)
    BY <1>4, MessageTyped DEF ReplyLater, TypeOK
  <2> QED BY <1>4, <2>1 DEF ReplyLater, TypeOK
<1>5. CASE TakeRequest
  <2>1. Head(queue).of \in Requests /\ queue' \in Seq(Message)
    BY <1>5, HeadTyped DEF TakeRequest
  <2>2. /\ worker' \in {"idle", "handling"} /\ handled' \in Requests \cup {None}
        /\ handled' # None <=> worker' = "handling"
    BY <1>5, <2>1, FunctionsAssumption DEF TakeRequest, TypeOK
  <2> QED BY <1>5, <2>1, <2>2 DEF TakeRequest, TypeOK
<1>6. CASE TakeReply
  <2>1. Head(queue) \in Message /\ queue' \in Seq(Message)
    BY <1>6, HeadTyped DEF TakeReply
  <2>2. request' \in [Requests -> Places] /\ answer' \in [Requests -> Message \cup {None}]
    BY <1>6, <2>1 DEF TakeReply, TypeOK, Places
  <2> QED BY <1>6, <2>1, <2>2 DEF TakeReply, TypeOK, Places
<1>7. CASE CallbackEnds
  <2>1. handled \in Requests
    BY <1>7 DEF CallbackEnds, TypeOK
  <2>2. queue' \in Seq(Message) /\ owed' \subseteq Requests
    BY <1>7, <2>1, MessageTyped, SMTT(20) DEF CallbackEnds, TypeOK
  <2> QED BY <1>7, <2>2 DEF CallbackEnds, TypeOK
<1>8. ASSUME NEW a \in Services, Subscribe(a) \/ Unsubscribe(a) PROVE TypeOK'
  BY <1>8 DEF Subscribe, Unsubscribe, TypeOK
<1>9. CASE Start
  BY <1>9 DEF Start, TypeOK
<1>10. CASE Stop
  <2>1. stops' \in 0..StopBound
    BY <1>10, StopBoundAssumption DEF Stop, TypeOK
  <2>2. /\ request' \in [Requests -> Places]
        /\ handlers' \in [Senders -> SUBSET Requests] /\ pending' \subseteq Requests
    <3>1. CASE UNCHANGED <<request, handlers, pending>>
      BY <3>1 DEF TypeOK, Places
    <3>2. CASE /\ worker = "handling" /\ Inner[handled] # None
               /\ request' = [request EXCEPT ![Inner[handled]] = "cancelled"]
               /\ CleanedUp(Inner[handled])
      <4>1. Inner[handled] \in Requests
        BY <3>2, FunctionsAssumption DEF TypeOK
      <4>2. request' \in [Requests -> Places]
        BY <3>2, <4>1 DEF TypeOK, Places, Finished
      <4> QED BY <3>2, <4>1, <4>2, CleanedUpTyped
    <3> QED BY <1>10, <3>1, <3>2 DEF Stop
  <2> QED BY <1>10, <2>1, <2>2 DEF Stop, TypeOK, Places
<1>11. CASE UNCHANGED vars
  BY <1>11 DEF vars, TypeOK
<1> QED
  BY <1>1, <1>2, <1>3, <1>4, <1>5, <1>6, <1>7, <1>8, <1>9, <1>10, <1>11
     DEF Next, Deliver

\* Every reachable state of the bus is well typed.
THEOREM TypeCorrect == Spec => []TypeOK
<1>1. Init => TypeOK
  BY TypeInit
<1>2. TypeOK /\ [Next]_vars => TypeOK'
  BY TypeNext
<1> QED BY <1>1, <1>2, PTL DEF Spec

-----------------------------------------------------------------------------
(* What a request leaves on the bus, and who answers it.                   *)

\* Only requests that are being awaited are registered, each handler with the
\* sender of its request: stronger than NothingLeftBehind, and inductive.
Registered ==
  /\ \A a \in Senders : \A r \in handlers[a] : Sender[r] = a /\ request[r] \in Live
  /\ \A r \in pending : request[r] \in Live

\* A request made inside a callback is awaited only while its callback is.
Held ==
  \A r \in Nested :
    answer[r] = None /\ (request[r] \in Live => worker = "handling" /\ Inner[handled] = r)

IInv == TypeOK /\ Registered /\ AnswersStayWithSender /\ Held

LEMMA RegisteredImplies == Registered /\ TypeOK => NothingLeftBehind
  BY FunctionsAssumption DEF Registered, TypeOK, NothingLeftBehind, Live, Finished

LEMMA HeldImplies == Held => InnerRequestsStarve
  BY DEF Held, InnerRequestsStarve

LEMMA BusInit == Init => Registered /\ AnswersStayWithSender /\ Held
<1> SUFFICES ASSUME Init PROVE Registered /\ AnswersStayWithSender /\ Held
  OBVIOUS
<1>1. /\ \A r \in Requests : request[r] = "idle" /\ answer[r] = None
      /\ Nested \subseteq Requests
  BY FunctionsAssumption DEF Init, Nested
<1>2. Registered
  BY DEF Init, Registered
<1>3. AnswersStayWithSender /\ Held
  BY <1>1 DEF AnswersStayWithSender, Held, Live
<1> QED BY <1>2, <1>3

\* The finally block of an awaited request keeps every table in order.
LEMMA EndKeepsRegistered ==
  ASSUME TypeOK, Registered, NEW r \in Requests, NEW outcome \in Finished,
         request' = [request EXCEPT ![r] = outcome], CleanedUp(r)
  PROVE  Registered'
<1>1. \A a \in Senders : \A q \in handlers'[a] : q # r /\ q \in handlers[a]
  BY FunctionsAssumption DEF TypeOK, Registered, CleanedUp
<1>2. \A q \in Requests : q # r => request'[q] = request[q]
  BY DEF TypeOK
<1>3. \A q \in pending' : q # r /\ q \in pending
  BY DEF CleanedUp
<1> QED BY <1>1, <1>2, <1>3 DEF TypeOK, Registered

LEMMA RegisteredNext == IInv /\ [Next]_vars => Registered'
<1> SUFFICES ASSUME IInv, [Next]_vars PROVE Registered'
  OBVIOUS
<1> USE DEF IInv
<1>1. ASSUME NEW r \in Requests, Issue(r) PROVE Registered'
  <2>1. request'[r] \in Live /\ \A q \in Requests : q # r => request'[q] = request[q]
    BY <1>1 DEF Issue, TypeOK, Live
  <2>2. pending' = pending \cup {r}
    BY <1>1 DEF Issue
  <2>3. \A a \in Senders : \A q \in handlers'[a] :
          (q = r /\ a = Sender[r]) \/ q \in handlers[a]
    BY <1>1, FunctionsAssumption DEF Issue, TypeOK
  <2> QED BY <2>1, <2>2, <2>3 DEF Registered, TypeOK
<1>2. ASSUME NEW r \in Requests, Return(r) PROVE Registered'
  BY <1>2, EndKeepsRegistered DEF Return, Finished
<1>3. ASSUME NEW r \in Requests, TimeOut(r) PROVE Registered'
  BY <1>3, EndKeepsRegistered DEF TimeOut, Finished
<1>4. CASE TakeReply
  <2>1. \A r \in Requests : request[r] \in Live => request'[r] \in Live
    BY <1>4 DEF TakeReply, Live
  <2> QED BY <1>4, <2>1 DEF TakeReply, Registered, TypeOK
<1>5. CASE Stop
  <2>1. CASE UNCHANGED <<request, handlers, pending>>
    BY <2>1 DEF Registered
  <2>2. CASE /\ worker = "handling" /\ Inner[handled] # None
             /\ request' = [request EXCEPT ![Inner[handled]] = "cancelled"]
             /\ CleanedUp(Inner[handled])
    <3>1. Inner[handled] \in Requests
      BY <2>2, FunctionsAssumption DEF TypeOK
    <3> QED BY <2>2, <3>1, EndKeepsRegistered DEF Finished
  <2> QED BY <1>5, <2>1, <2>2 DEF Stop
<1>6. ASSUME UNCHANGED <<request, handlers, pending>> PROVE Registered'
  BY <1>6 DEF Registered
<1> QED
  BY <1>1, <1>2, <1>3, <1>4, <1>5, <1>6
     DEF Next, Call, CallInside, ReplyLater, Deliver, TakeRequest, CallbackEnds,
         Subscribe, Unsubscribe, Start, vars

LEMMA AnswersNext == IInv /\ [Next]_vars => AnswersStayWithSender'
<1> SUFFICES ASSUME IInv, [Next]_vars PROVE AnswersStayWithSender'
  OBVIOUS
<1>1. CASE TakeReply
  <2> DEFINE m == Head(queue)
  <2>1. m.of \in Requests
    BY <1>1, HeadTyped DEF IInv, TakeReply
  <2>2. Sender[m.of] \in Senders
    BY <2>1, FunctionsAssumption
  <2>3. \A r \in ResolvedBy(m) : Sender[r] = Sender[m.of]
    BY <2>2 DEF ResolvedBy, IInv, Registered
  <2>4. \A r \in Requests : answer'[r] = IF r \in ResolvedBy(m) THEN m ELSE answer[r]
    BY <1>1 DEF TakeReply
  <2> HIDE DEF m
  <2> QED BY <2>3, <2>4 DEF IInv, AnswersStayWithSender
<1>2. ASSUME UNCHANGED answer PROVE AnswersStayWithSender'
  BY <1>2 DEF IInv, AnswersStayWithSender
<1> QED
  BY <1>1, <1>2
     DEF Next, Call, CallInside, Issue, Return, TimeOut, ReplyLater, Deliver,
         TakeRequest, CallbackEnds, Subscribe, Unsubscribe, Start, Stop, vars

LEMMA HeldNext == IInv /\ [Next]_vars => Held'
<1> SUFFICES ASSUME IInv, [Next]_vars, NEW n \in Nested
             PROVE  /\ answer'[n] = None
                    /\ request'[n] \in Live => worker' = "handling" /\ Inner[handled'] = n
  BY DEF Held
<1>0. n \in Requests /\ n # None
  BY FunctionsAssumption DEF Nested
<1>h. answer[n] = None /\ (request[n] \in Live => worker = "handling" /\ Inner[handled] = n)
  BY DEF IInv, Held
<1>t. request \in [Requests -> Places]
  BY DEF IInv, TypeOK, Places
<1>1. ASSUME NEW r \in Requests, Call(r)
      PROVE  /\ answer' = answer /\ request'[n] = request[n]
             /\ worker' = worker /\ handled' = handled
  BY <1>0, <1>1, <1>t DEF Call, Issue
<1>2. ASSUME NEW r \in Requests, CallInside(r)
      PROVE  /\ answer' = answer /\ worker' = "handling" /\ handled' = handled
             /\ n = Inner[handled] \/ request'[n] = request[n]
  BY <1>0, <1>2, <1>t DEF CallInside, Issue
<1>3. ASSUME NEW r \in Requests, Return(r) \/ TimeOut(r)
      PROVE  /\ answer' = answer /\ worker' = worker /\ handled' = handled
             /\ request'[n] \in Live => request[n] \in Live
  BY <1>0, <1>3, <1>t DEF Return, TimeOut, Live
<1>4. CASE TakeReply
  <2>1. request[n] \notin Live
    BY <1>4, <1>h DEF TakeReply
  <2>2. n \notin ResolvedBy(Head(queue))
    BY <2>1 DEF ResolvedBy, Live
  <2> QED BY <1>0, <1>4, <1>h, <2>1, <2>2 DEF TakeReply
<1>5. CASE TakeRequest \/ Start
  <2>1. request[n] \notin Live
    BY <1>5, <1>h DEF TakeRequest, Start
  <2> QED BY <1>5, <1>h, <2>1 DEF TakeRequest, Start
<1>6. CASE CallbackEnds
  <2>1. request[n] \notin Live
    BY <1>0, <1>6, <1>h DEF CallbackEnds, Live, Finished
  <2> QED BY <1>6, <1>h, <2>1 DEF CallbackEnds
<1>7. CASE Stop
  <2>1. request'[n] \notin Live
    <3>1. CASE request[n] \in Live
      <4>1. worker = "handling" /\ Inner[handled] = n
        BY <1>h, <3>1
      <4>2. request' = [request EXCEPT ![n] = "cancelled"]
        BY <1>0, <1>7, <3>1, <4>1 DEF Stop, Live
      <4> QED BY <1>0, <1>t, <4>2 DEF Live
    <3>2. CASE request[n] \notin Live
      <4>1. request'[n] = request[n] \/ request'[n] = "cancelled"
        BY <1>0, <1>7, <1>t DEF Stop
      <4> QED BY <3>2, <4>1 DEF Live
    <3> QED BY <3>1, <3>2
  <2> QED BY <1>7, <1>h, <2>1 DEF Stop
<1>8. ASSUME UNCHANGED <<answer, request, worker, handled>>
      PROVE  /\ answer'[n] = None
             /\ request'[n] \in Live => worker' = "handling" /\ Inner[handled'] = n
  BY <1>8, <1>h
<1>9. CASE \E r \in Requests : Call(r) \/ CallInside(r) \/ Return(r) \/ TimeOut(r)
  BY <1>1, <1>2, <1>3, <1>9, <1>h
<1>10. CASE Deliver \/ Start \/ Stop
  BY <1>4, <1>5, <1>6, <1>7, <1>10 DEF Deliver
<1>11. CASE \/ \E r \in Requests : ReplyLater(r)
            \/ \E a \in Services : Subscribe(a) \/ Unsubscribe(a)
            \/ UNCHANGED vars
  BY <1>8, <1>11 DEF ReplyLater, Subscribe, Unsubscribe, vars
<1> QED BY <1>9, <1>10, <1>11 DEF Next

LEMMA Inductive == Spec => []IInv
<1>1. Init => IInv
  BY TypeInit, BusInit DEF IInv
<1>2. IInv /\ [Next]_vars => IInv'
  BY TypeNext, RegisteredNext, AnswersNext, HeldNext DEF IInv
<1> QED BY <1>1, <1>2, PTL DEF Spec

\* However a request ends (answered, timed out with or without an answer on its way,
\* cancelled by stop), neither its future nor its reply handler stays behind.
THEOREM Cleanup == Spec => []NothingLeftBehind
<1>1. IInv => NothingLeftBehind
  BY RegisteredImplies DEF IInv
<1> QED BY <1>1, Inductive, PTL

\* For any assignment of requests to senders, a reply that resolves a request answers
\* a request of the same sender.
THEOREM Replies == Spec => []AnswersStayWithSender
<1>1. IInv => AnswersStayWithSender
  BY DEF IInv
<1> QED BY <1>1, Inductive, PTL

\* However deeply requests are nested, one that a coroutine callback awaits is never
\* answered.
THEOREM Starvation == Spec => []InnerRequestsStarve
<1>1. IInv => InnerRequestsStarve
  BY HeldImplies DEF IInv
<1> QED BY <1>1, Inductive, PTL
=============================================================================
