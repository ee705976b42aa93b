----------------------------- MODULE WriteQueue -----------------------------
(***************************************************************************)
(* The write half of src/daemon/plugin.c: plugin_dispatch_values and       *)
(* plugin_dispatch_multivalue, called by any thread of the daemon; the     *)
(* write queue with its limits; and the write threads.                     *)
(*                                                                         *)
(* A metric is a pair <<p, n>>: the n-th one that producer p offers.  The  *)
(* decision to drop (check_drop_value) and the insertion into the queue    *)
(* (plugin_write_enqueue) take write_lock separately and are separate      *)
(* actions; a multivalue call decides once and inserts several times.      *)
(* cdrand_d is a free choice.  write_cond is represented by the threads    *)
(* blocked on it (wpc = "wait").                                           *)
(*                                                                         *)
(* Not modelled: allocation failures, and the start without write threads  *)
(* (plugin_init_all returns early when no plugin has an init or a read     *)
(* callback, so nobody dispatches anything).                               *)
(***************************************************************************)
EXTENDS Integers, Sequences, FiniteSets

CONSTANTS
  Producer,           \* threads that dispatch values
  Writer,             \* the write threads (global option WriteThreads)
  BatchSize,          \* most values that one multivalue call dispatches
  MaxMetrics,         \* bound: how many metrics a producer offers
  write_limit_low,    \* global option WriteQueueLimitLow
  write_limit_high,   \* global option WriteQueueLimitHigh, 0 means no limit
  Invalid,            \* the metrics whose value list is refused: no such type,
                      \*   or a wrong number of values
  record_statistics,  \* global option CollectInternalStats
  NoMetric            \* "no value list in hand"

Metric == Producer \X (1..MaxMetrics)
Nth(p, n) == <<p, n>>
Src(m) == m[1]
Num(m) == m[2]

\* plugin_init_all corrects the limits so that 0 <= low <= high.
ASSUME WriteQueueAssumption ==
  /\ IsFiniteSet(Producer)
  /\ BatchSize \in Nat \ {0}
  /\ MaxMetrics \in Nat
  /\ write_limit_low \in Nat
  /\ write_limit_high \in Nat
  /\ write_limit_low <= write_limit_high
  /\ record_statistics \in BOOLEAN
  /\ NoMetric \notin Metric

VARIABLES
  queue,                 \* write_queue_head ... write_queue_tail
  write_queue_length,    \* the counter kept beside the list
  write_loop,            \* TRUE until stop_write_threads clears it
  offered,               \* how many metrics every producer has offered
  passed,                \* how many of them are through: enqueued or dropped
  wpc,                   \* control state of every write thread
  hand,                  \* the value list every write thread works on
  stats_values_dropped,  \* what CollectInternalStats reports
  main,                  \* control state of the main thread
  end                    \* history: how every metric ended, if it did

callers == <<offered, passed>>
writers == <<wpc, hand>>
InQueue(m) == \E i \in 1..Len(queue) : queue[i] = m

vars == <<queue, write_queue_length, write_loop, callers, writers,
          stats_values_dropped, main, end>>

-----------------------------------------------------------------------------
(* plugin_dispatch_values, plugin_dispatch_multivalue *)

\* A call with k values: producer p offers its next k metrics.
NewCall(p, k) ==
  /\ passed[p] = offered[p]
  /\ offered[p] + k <= MaxMetrics
  /\ offered' = [offered EXCEPT ![p] = @ + k]

\* get_drop_probability() > 0.
MayDrop == write_limit_high # 0 /\ write_queue_length >= write_limit_low

\* get_drop_probability() < 1.  (Definitions named X_Y are X with a mistake Y:
\* they are used only to show that the properties notice it.)
MayKeep_OneTooMany == write_limit_high = 0 \/ write_queue_length <= write_limit_high

MayKeep == write_limit_high = 0 \/ write_queue_length < write_limit_high

\* check_drop_value returned true.  The statistic counts the call.
dispatch_drop(p, k) ==
  /\ NewCall(p, k)
  /\ MayDrop
  /\ passed' = [passed EXCEPT ![p] = @ + k]
  /\ end' = [m \in Metric |->
               IF Src(m) = p /\ Num(m) > offered[p] /\ Num(m) <= offered[p] + k
                 THEN "dropped" ELSE end[m]]
  /\ stats_values_dropped' =
       IF record_statistics THEN stats_values_dropped + 1 ELSE stats_values_dropped
  /\ UNCHANGED <<queue, write_queue_length, write_loop, writers, main>>

\* check_drop_value returned false.
dispatch_keep(p, k) ==
  /\ NewCall(p, k)
  /\ MayKeep
  /\ UNCHANGED <<queue, write_queue_length, write_loop, passed, writers,
                 stats_values_dropped, main, end>>

\* pthread_cond_signal(&write_cond).
Signal ==
  IF \E w \in Writer : wpc[w] = "wait"
    THEN \E w \in Writer : wpc[w] = "wait" /\ wpc' = [wpc EXCEPT ![w] = "lock"]
    ELSE UNCHANGED wpc

\* The next value list of p's call, linked behind write_queue_tail.
Linked_Front(p) == <<Nth(p, passed[p] + 1)>> \o queue

Linked_Overwrites(p) == <<Nth(p, passed[p] + 1)>>

Linked(p) == Append(queue, Nth(p, passed[p] + 1))

plugin_write_enqueue_NoSignal(p) ==
  /\ passed[p] < offered[p]
  /\ queue' = Linked(p)
  /\ write_queue_length' = IF queue = <<>> THEN 1 ELSE write_queue_length + 1
  /\ passed' = [passed EXCEPT ![p] = @ + 1]
  /\ UNCHANGED <<write_loop, offered, writers, stats_values_dropped, main, end>>

plugin_write_enqueue(p) ==
  /\ passed[p] < offered[p]
  /\ queue' = Linked(p)
  /\ write_queue_length' = IF queue = <<>> THEN 1 ELSE write_queue_length + 1
  /\ passed' = [passed EXCEPT ![p] = @ + 1]
  /\ Signal
  /\ UNCHANGED <<write_loop, offered, hand, stats_values_dropped, main, end>>

-----------------------------------------------------------------------------
(* plugin_write_thread *)

\* while (write_loop), evaluated without the lock.
write_loop_test(w) ==
  /\ wpc[w] = "loop"
  /\ wpc' = [wpc EXCEPT ![w] = IF write_loop THEN "lock" ELSE "exit"]
  /\ UNCHANGED <<queue, write_queue_length, write_loop, callers, hand,
                 stats_values_dropped, main, end>>

\* plugin_write_dequeue, under the lock: an empty queue means sleep, or return
\* NULL when the loop has ended ...
write_dequeue_empty(w) ==
  /\ wpc[w] = "lock" /\ queue = <<>>
  /\ wpc' = [wpc EXCEPT ![w] = IF write_loop THEN "wait" ELSE "loop"]
  /\ UNCHANGED <<queue, write_queue_length, write_loop, callers, hand,
                 stats_values_dropped, main, end>>

\* ... otherwise take the head, even when the loop has ended.
plugin_write_dequeue_Peek(w) ==
  /\ wpc[w] = "lock" /\ queue # <<>>
  /\ wpc' = [wpc EXCEPT ![w] = "busy"]
  /\ hand' = [hand EXCEPT ![w] = Head(queue)]
  /\ queue' = queue
  /\ write_queue_length' = write_queue_length - 1
  /\ UNCHANGED <<write_loop, callers, stats_values_dropped, main, end>>

plugin_write_dequeue(w) ==
  /\ wpc[w] = "lock" /\ queue # <<>>
  /\ wpc' = [wpc EXCEPT ![w] = "busy"]
  /\ hand' = [hand EXCEPT ![w] = Head(queue)]
  /\ queue' = Tail(queue)
  /\ write_queue_length' = write_queue_length - 1
  /\ UNCHANGED <<write_loop, callers, stats_values_dropped, main, end>>

\* plugin_dispatch_values_internal: filter chains, value cache and write
\* callbacks, or an error return for a value list that is invalid.
plugin_dispatch_values_internal(w) ==
  /\ wpc[w] = "busy"
  /\ wpc' = [wpc EXCEPT ![w] = "loop"]
  /\ hand' = [hand EXCEPT ![w] = NoMetric]
  /\ end' = [end EXCEPT ![hand[w]] = IF hand[w] \in Invalid THEN "refused" ELSE "written"]
  /\ UNCHANGED <<queue, write_queue_length, write_loop, callers,
                 stats_values_dropped, main>>

spurious_wakeup(w) ==
  /\ wpc[w] = "wait"
  /\ wpc' = [wpc EXCEPT ![w] = "lock"]
  /\ UNCHANGED <<queue, write_queue_length, write_loop, callers, hand,
                 stats_values_dropped, main, end>>

WriterStep(w) ==
  \/ write_loop_test(w)
  \/ write_dequeue_empty(w)
  \/ plugin_write_dequeue(w)
  \/ plugin_dispatch_values_internal(w)

-----------------------------------------------------------------------------
(* The main thread *)

\* Values may be queued already: init callbacks start threads that dispatch.
start_write_threads(S) ==
  /\ main = "init"
  /\ main' = "run"
  /\ wpc' = [w \in Writer |-> IF w \in S THEN "loop" ELSE "off"]
  /\ UNCHANGED <<queue, write_queue_length, write_loop, callers, hand,
                 stats_values_dropped, end>>

\* stop_write_threads, first critical section: end the loop, wake everybody.
stop_write_threads_NoBroadcast ==
  /\ main = "run"
  /\ main' = "join"
  /\ write_loop' = FALSE
  /\ UNCHANGED <<queue, write_queue_length, callers, writers, stats_values_dropped, end>>

stop_write_threads ==
  /\ main = "run"
  /\ main' = "join"
  /\ write_loop' = FALSE
  /\ wpc' = [w \in Writer |-> IF wpc[w] = "wait" THEN "lock" ELSE wpc[w]]
  /\ UNCHANGED <<queue, write_queue_length, callers, hand, stats_values_dropped, end>>

join_write_threads ==
  /\ main = "join"
  /\ \A w \in Writer : wpc[w] \in {"off", "exit"}
  /\ main' = "joined"
  /\ UNCHANGED <<queue, write_queue_length, write_loop, callers, writers,
                 stats_values_dropped, end>>

\* Second critical section: free what is left in the queue.
free_leftovers_KeepsLength ==
  /\ main = "joined"
  /\ main' = "done"
  /\ end' = [m \in Metric |-> IF InQueue(m) THEN "discarded" ELSE end[m]]
  /\ queue' = <<>>
  /\ write_queue_length' = write_queue_length
  /\ UNCHANGED <<write_loop, callers, writers, stats_values_dropped>>

free_leftovers ==
  /\ main = "joined"
  /\ main' = "done"
  /\ end' = [m \in Metric |-> IF InQueue(m) THEN "discarded" ELSE end[m]]
  /\ queue' = <<>>
  /\ write_queue_length' = 0
  /\ UNCHANGED <<write_loop, callers, writers, stats_values_dropped>>

-----------------------------------------------------------------------------
Init ==
  /\ queue = <<>>
  /\ write_queue_length = 0
  /\ write_loop = TRUE
  /\ offered = [p \in Producer |-> 0]
  /\ passed = [p \in Producer |-> 0]
  /\ wpc = [w \in Writer |-> "off"]
  /\ hand = [w \in Writer |-> NoMetric]
  /\ stats_values_dropped = 0
  /\ main = "init"
  /\ end = [m \in Metric |-> "none"]

DispatchCall ==
  \/ \E p \in Producer, k \in 1..BatchSize : dispatch_drop(p, k) \/ dispatch_keep(p, k)
  \/ \E p \in Producer : plugin_write_enqueue(p)

ShutdownStep == join_write_threads \/ free_leftovers

Next ==
  \/ DispatchCall
  \/ \E w \in Writer : WriterStep(w) \/ spurious_wakeup(w)
  \/ \E S \in SUBSET Writer : start_write_threads(S)
  \/ stop_write_threads
  \/ ShutdownStep

Spec == Init /\ [][Next]_vars

\* Threads are scheduled, write callbacks return, a call of
\* plugin_dispatch_values goes on once it has begun, and so does a shutdown.
Fairness ==
  /\ \A w \in Writer : WF_vars(WriterStep(w))
  /\ \A p \in Producer : WF_vars(plugin_write_enqueue(p))
  /\ WF_vars(ShutdownStep)

FairSpec == Spec /\ Fairness

-----------------------------------------------------------------------------
(* Where a metric is *)

InHand(m)  == \E w \in Writer : hand[w] = m

\* Kept by check_drop_value, not yet enqueued.
IsPending(m) == passed[Src(m)] < Num(m) /\ Num(m) <= offered[Src(m)]

\* The promise of MetricPipe, read off the state of the queue.
FateOf(m) == IF InQueue(m) \/ InHand(m) \/ IsPending(m) THEN "accepted"
             ELSE IF end[m] = "none" THEN "new"
             ELSE end[m]

Pipe == INSTANCE MetricPipe
          WITH fate <- [m \in Metric |-> FateOf(m)], up <- main \in {"init", "run"}

-----------------------------------------------------------------------------
(* Properties *)

\* The type invariant of plugin.c's write-side state.
TypeOK ==
  /\ queue \in Seq(Metric)
  /\ write_queue_length \in Nat
  /\ write_loop \in BOOLEAN
  /\ offered \in [Producer -> 0..MaxMetrics]
  /\ passed \in [Producer -> 0..MaxMetrics]
  /\ \A p \in Producer : offered[p] - passed[p] \in 0..BatchSize
  /\ wpc \in [Writer -> {"off", "loop", "lock", "wait", "busy", "exit"}]
  /\ hand \in [Writer -> Metric \cup {NoMetric}]
  /\ stats_values_dropped \in Nat
  /\ main \in {"init", "run", "join", "joined", "done"}
  /\ end \in [Metric -> {"none", "dropped", "written", "refused", "discarded"}]

\* The counter that the limits are compared with is the length of the list;
\* plugin_write_dequeue asserts it for the empty list.
LengthIsExact == write_queue_length = Len(queue)

\* No metric is in two places: queued twice, held by two write threads, or
\* still under way after it has ended.  So nothing is written twice and no
\* value list is freed twice.
OnePlace ==
  /\ \A i, j \in 1..Len(queue) : queue[i] = queue[j] => i = j
  /\ \A v, w \in Writer : hand[v] = hand[w] /\ hand[v] # NoMetric => v = w
  /\ \A w \in Writer : ~InQueue(hand[w])
  /\ \A m \in Metric : InQueue(m) \/ InHand(m) => ~IsPending(m) /\ end[m] = "none"
  /\ \A m \in Metric : IsPending(m) => end[m] = "none"

\* The values of one producer leave the queue in the order in which it
\* dispatched them: while a metric is queued no later one is being written.
NoOvertaking ==
  \A m \in Metric : InQueue(m) =>
    \A l \in Metric : Src(l) = Src(m) /\ Num(l) > Num(m) =>
      ~InHand(l) /\ end[l] \notin {"written", "refused"}

\* With a limit configured the memory held by the queue is bounded.  The bound
\* is not WriteQueueLimitHigh: every producer may have one call between the
\* check and the last insertion.
PendingSlots == {s \in Producer \X (1..BatchSize) : s[2] <= offered[s[1]] - passed[s[1]]}

QueueBounded ==
  write_limit_high # 0 =>
    Len(queue) + Cardinality(PendingSlots)
      <= write_limit_high - 1 + Cardinality(Producer) * BatchSize

\* A call is kept or dropped as a whole; a kept metric is handled at most once
\* and lost only in a shutdown.
ImplementsPipe == Pipe!PipeSpec

\* While the daemon runs and has a write thread, whatever is queued is handled.
QueuedIsHandled ==
  \A m \in Metric :
    (InQueue(m) /\ main = "run" /\ \E w \in Writer : wpc[w] # "off")
      ~> (end[m] \in {"written", "refused"} \/ main # "run")

\* stop_write_threads returns, although write_loop is tested without the lock:
\* plugin_write_dequeue tests it again before it sleeps.
StopTerminates == main = "join" ~> main = "done"
=============================================================================
