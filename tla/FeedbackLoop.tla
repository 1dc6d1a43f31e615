---------------------------- MODULE FeedbackLoop ----------------------------
(***************************************************************************)
(* The feedback loop of the Go platform, pkg/feedback: goroutines emit     *)
(* signals of one event to a collector, which keeps the latest in a ring   *)
(* buffer and hands each to an aggregator subscribed to all sources; an    *)
(* alert engine evaluates a rule "<event>_total >= Threshold" over the     *)
(* aggregator's window, from its ticker or from other goroutines.          *)
(*                                                                         *)
(* A step is what a goroutine does while it holds a lock, or between two   *)
(* locks.  Sinks are left out: an error of one is returned to the emitter  *)
(* and changes nothing.                                                    *)
(***************************************************************************)
EXTENDS Integers, FiniteSets, SequencesExt

CONSTANTS
  Emitters,    \* goroutines that emit
  Evaluators,  \* goroutines that evaluate the rule
  Sources,
  Cap,         \* RingBufferSize
  Window,      \* AggregationWindow
  Threshold,   \* of the rule
  MaxTime,     \* bound on the clock
  EmitBound,   \* bound on the signals emitted
  EvalBound    \* bound on the evaluations

ASSUME LoopAssumption ==
  /\ Cap \in Nat \ {0} /\ Window \in Nat \ {0} /\ Threshold \in Nat
  /\ MaxTime \in Nat /\ EmitBound \in Nat /\ EvalBound \in Nat

VARIABLES
  clock,
  closed,    \* the collector is closed
  emit,      \* [Emitters -> [pc, sig]], where each call of Emit is
  buf, head, size,   \* RingBuffer
  entries,   \* [Sources -> Seq(Signal)], the buckets; <<>> when there is none
  severity,  \* [Sources -> 0..1], severityMax of each
  eval,      \* [Evaluators -> [pc, now, triggered]]
  fired,     \* whether the rule is in fired
  pushed,    \* all signals pushed, in that order
  recorded,  \* all signals recorded
  cleared,   \* whether an evaluation found the rule clear since it last fired
  overlap,   \* whether evaluations overlapped since it last fired
  evals      \* evaluations so far

emitVars == <<closed, emit, buf, head, size, pushed>>
aggVars  == <<entries, severity, recorded>>
evalVars == <<eval, fired, cleared, overlap, evals>>
loopVars == <<clock, emitVars, aggVars, evalVars>>

Signal == [n : 1..EmitBound, source : Sources, severity : 0..1, ts : 0..MaxTime]

None == [n |-> 0]   \* no signal

LoopInit ==
  /\ clock = 0 /\ closed = FALSE
  /\ emit = [e \in Emitters |-> [pc |-> "idle", sig |-> None]]
  /\ buf = [i \in 0..(Cap - 1) |-> None] /\ head = 0 /\ size = 0
  /\ entries = [s \in Sources |-> <<>>] /\ severity = [s \in Sources |-> 0]
  /\ eval = [e \in Evaluators |-> [pc |-> "idle", now |-> 0, triggered |-> FALSE]]
  /\ fired = FALSE /\ cleared = TRUE /\ overlap = FALSE
  /\ pushed = <<>> /\ recorded = {} /\ evals = 0

Tick ==
  /\ clock < MaxTime /\ clock' = clock + 1
  /\ UNCHANGED <<emitVars, aggVars, evalVars>>

-----------------------------------------------------------------------------
(* Collector.Emit *)

EmitUnchanged == UNCHANGED <<clock, evalVars>>

Stands(e, pc) == emit[e].pc = pc

Emitting == Cardinality({e \in Emitters : Stands(e, "accepted")})

(* The check of closed, and the timestamp.  Close may come any time later. *)
Accept(e, source, sev) ==
  /\ Stands(e, "idle") /\ ~closed
  /\ Len(pushed) + Emitting < EmitBound
  /\ emit' = [emit EXCEPT ![e] =
       [pc |-> "accepted", sig |-> [n |-> 0, source |-> source, severity |-> sev, ts |-> clock]]]
  /\ UNCHANGED <<closed, buf, head, size, pushed, aggVars>> /\ EmitUnchanged

NextHead == (head + 1) % Cap

(* RingBuffer.Push; the signal gets its number.                            *)
Push(e) ==
  /\ Stands(e, "accepted")
  /\ LET sig == [emit[e].sig EXCEPT !.n = Len(pushed) + 1]
     IN  /\ buf' = [i \in DOMAIN buf |-> IF i = head THEN sig ELSE buf[i]]
         /\ pushed' = Append(pushed, sig)
         /\ emit' = [emit EXCEPT ![e] = [pc |-> "stored", sig |-> sig]]
  /\ head' = NextHead
  /\ size' = IF size < Cap THEN size + 1 ELSE size
  /\ UNCHANGED <<closed, aggVars>> /\ EmitUnchanged

HighestSeverity(s) == IF \E i \in DOMAIN s : s[i].severity = 1 THEN 1 ELSE 0

(* The subscriber: Aggregator.Record.  Emit goes on to its sinks and ends. *)
Record(e) ==
  /\ Stands(e, "stored")
  /\ LET sig == emit[e].sig
     IN  /\ entries' = [entries EXCEPT ![sig.source] = Append(@, sig)]
         /\ severity' = [severity EXCEPT ![sig.source] = IF sig.severity > @ THEN sig.severity ELSE @]
         /\ recorded' = recorded \cup {sig}
  /\ emit' = [emit EXCEPT ![e] = [pc |-> "idle", sig |-> None]]
  /\ UNCHANGED <<closed, buf, head, size, pushed>> /\ EmitUnchanged

Close ==
  /\ ~closed /\ closed' = TRUE
  /\ UNCHANGED <<emit, buf, head, size, pushed, aggVars>> /\ EmitUnchanged

\* A plausible bug: the oldest signal is taken to be at the head.
SnapshotFromHead == [i \in 1..size |-> buf[(head + i - 1) % Cap]]

(* RingBuffer.Snapshot, from the oldest to the newest.                     *)
Snapshot ==
  LET start == (head - size + Cap) % Cap
  IN  [i \in 1..size |-> buf[(start + i - 1) % Cap]]

-----------------------------------------------------------------------------
(* Aggregator.Stats and AlertEngine.Evaluate *)

\* A plausible bug: everything before the last expired entry is dropped.
PrunedToLastExpired(s, cutoff) ==
  LET old == {i \in DOMAIN s : s[i].ts < cutoff}
  IN  IF old = {} THEN s
      ELSE SubSeq(s, (CHOOSE i \in old : \A j \in old : j <= i) + 1, Len(s))

(* pruneBucket drops the expired entries at the front; one that was        *)
(* recorded after a younger one stays.                                     *)
Pruned(s, cutoff) ==
  LET live == {i \in DOMAIN s : s[i].ts >= cutoff}
  IN  IF live = {} THEN <<>>
      ELSE SubSeq(s, CHOOSE i \in live : \A j \in live : i <= j, Len(s))

Others(e) == \E f \in Evaluators \ {e} : eval[f].pc # "idle"

AtEval(e, pc) == eval[e].pc = pc

(* Evaluate begins; Stats reads the clock before it waits for the lock.    *)
Begin(e) ==
  /\ AtEval(e, "idle") /\ evals < EvalBound
  /\ evals' = evals + 1
  /\ eval' = [eval EXCEPT ![e] = [pc |-> "begun", now |-> clock, triggered |-> FALSE]]
  /\ overlap' = (overlap \/ Others(e))
  /\ UNCHANGED <<clock, emitVars, aggVars, fired, cleared>>

(* Stats' totals are keyed by source and event, but the metric by the event*)
(* alone, so that its value is the total of any one source with a bucket;  *)
(* without one the rule does not trigger.                                  *)
Verdicts(kept) ==
  IF \A s \in Sources : kept[s] = <<>> THEN {FALSE}
  ELSE {triggered \in BOOLEAN :
          \E s \in Sources : kept[s] # <<>> /\ (triggered <=> Len(kept[s]) >= Threshold)}

(* Stats prunes every bucket, and the condition is evaluated.              *)
Stats(e) ==
  /\ AtEval(e, "begun")
  /\ LET kept == [s \in Sources |-> Pruned(entries[s], eval[e].now - Window)]
     IN  /\ entries' = kept
         /\ severity' = [s \in Sources |-> IF kept[s] = entries[s] THEN severity[s]
                                           ELSE HighestSeverity(kept[s])]
         /\ \E triggered \in Verdicts(kept) :
              /\ eval' = [eval EXCEPT ![e] =
                            [pc |-> "evaluated", now |-> eval[e].now, triggered |-> triggered]]
              /\ cleared' = (cleared \/ ~triggered)
  /\ UNCHANGED <<clock, emitVars, recorded, fired, overlap, evals>>

\* A plausible bug: the rule is marked only by an evaluation that finds it
\* marked.
MarkedBefore(triggered) == fired /\ triggered

Marked(triggered) == triggered

Fires(e) == AtEval(e, "evaluated") /\ eval[e].triggered /\ ~fired

(* The rule is marked or unmarked, and the handler called if it fires.     *)
Decide(e) ==
  /\ AtEval(e, "evaluated")
  /\ fired' = Marked(eval[e].triggered)
  /\ IF Fires(e) THEN cleared' = FALSE /\ overlap' = Others(e) ELSE UNCHANGED <<cleared, overlap>>
  /\ eval' = [eval EXCEPT ![e] = [pc |-> "idle", now |-> 0, triggered |-> FALSE]]
  /\ UNCHANGED <<clock, emitVars, aggVars, evals>>

LoopNext ==
  \/ Tick
  \/ Close
  \/ \E e \in Emitters :
       \/ \E source \in Sources, sev \in 0..1 : Accept(e, source, sev)
       \/ Push(e)
       \/ Record(e)
  \/ \E e \in Evaluators :
       \/ Begin(e)
       \/ Stats(e)
       \/ Decide(e)

LoopSpec == LoopInit /\ [][LoopNext]_loopVars

-----------------------------------------------------------------------------
LoopTypeOK ==
  /\ clock \in 0..MaxTime /\ closed \in BOOLEAN
  /\ \A e \in Emitters : emit[e].pc \in {"idle", "accepted", "stored"}
  /\ DOMAIN buf = 0..(Cap - 1) /\ \A i \in DOMAIN buf : buf[i] \in Signal \cup {None}
  /\ head \in 0..(Cap - 1) /\ size \in 0..Cap
  /\ \A s \in Sources : \A i \in DOMAIN entries[s] :
       entries[s][i] \in Signal /\ entries[s][i].source = s
  /\ severity \in [Sources -> 0..1]
  /\ eval \in [Evaluators -> [pc : {"idle", "begun", "evaluated"}, now : 0..MaxTime,
                              triggered : BOOLEAN]]
  /\ fired \in BOOLEAN /\ cleared \in BOOLEAN /\ overlap \in BOOLEAN /\ evals \in 0..EvalBound

(* Whatever goroutines push, the buffer's snapshot is the last signals     *)
(* pushed, as many as it has room for, in the order they were pushed.      *)
BufferHoldsLatest ==
  LET n == Len(pushed)
  IN  Snapshot = SubSeq(pushed, (IF n > Cap THEN n - Cap ELSE 0) + 1, n)

(* Signals are recorded in another order than they were stamped, and a     *)
(* Stats may work with an outdated cutoff: still no signal of the window   *)
(* is pruned, so that no count is too low, and a bucket's severity is the  *)
(* highest of the entries it counts.                                       *)
WindowKept ==
  /\ \A sig \in recorded : sig.ts >= clock - Window => sig \in ToSet(entries[sig.source])
  /\ \A s \in Sources : severity[s] = HighestSeverity(entries[s])

(* Cooldown: unless evaluations overlapped, a rule that fired does not fire*)
(* again before an evaluation found it clear.                              *)
Cooldown ==
  [][\A e \in Evaluators : Fires(e) /\ Decide(e) => cleared \/ overlap]_loopVars
=============================================================================
