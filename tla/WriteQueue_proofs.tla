------------------------- MODULE WriteQueue_proofs -------------------------
(***************************************************************************)
(* Proofs about the write half of plugin.c for any number of producers and *)
(* write threads, any batch size and any limits.                           *)
(***************************************************************************)
EXTENDS WriteQueue, FiniteSetTheorems, TLAPS

\* The metrics of a producer pass through its call in order: those it has
\* enqueued or dropped have lower numbers than those that are still pending.
Past(m) == Num(m) <= passed[Src(m)]

Numbered ==
  \A m \in Metric : InQueue(m) \/ InHand(m) \/ end[m] # "none" => Past(m)

\* The queue holds the metrics of one producer in ascending order.
Ascending ==
  \A i, j \in 1..Len(queue) :
    i < j /\ Src(queue[i]) = Src(queue[j]) => Num(queue[i]) < Num(queue[j])

Control ==
  /\ \A w \in Writer : hand[w] # NoMetric <=> wpc[w] = "busy"
  /\ main = "init" => \A w \in Writer : wpc[w] = "off"

IInv ==
  /\ TypeOK
  /\ Control
  /\ LengthIsExact
  /\ Numbered
  /\ Ascending
  /\ OnePlace
  /\ NoOvertaking

-----------------------------------------------------------------------------
(* Metrics and where they are *)

\* A metric is determined by its producer and its number.
LEMMA MetricFacts ==
  /\ \A m \in Metric : Src(m) \in Producer /\ Num(m) \in 1..MaxMetrics
  /\ \A l, m \in Metric : Src(l) = Src(m) /\ Num(l) = Num(m) => l = m
  /\ \A p \in Producer, n \in 1..MaxMetrics :
       Nth(p, n) \in Metric /\ Src(Nth(p, n)) = p /\ Num(Nth(p, n)) = n
  BY DEF Metric, Src, Num, Nth

\* plugin_write_enqueue adds exactly the next pending metric of its caller, at
\* the end.
LEMMA EnqueueEffect ==
  ASSUME NEW p \in Producer, TypeOK, plugin_write_enqueue(p)
  PROVE  LET n == Nth(p, passed[p] + 1)
         IN  /\ n \in Metric /\ Src(n) = p /\ Num(n) = passed[p] + 1
             /\ IsPending(n)
             /\ queue' \in Seq(Metric)
             /\ Len(queue') = Len(queue) + 1
             /\ \A i \in 1..Len(queue) : queue'[i] = queue[i]
             /\ queue'[Len(queue) + 1] = n
             /\ \A m : InQueue(m)' <=> InQueue(m) \/ m = n
             /\ passed' \in [Producer -> 0..MaxMetrics]
             /\ passed'[p] = passed[p] + 1
             /\ \A q \in Producer : q # p => passed'[q] = passed[q]
<1>. DEFINE n == Nth(p, passed[p] + 1)
<1>1. passed[p] + 1 \in 1..MaxMetrics
  BY WriteQueueAssumption DEF TypeOK, plugin_write_enqueue
<1>2. n \in Metric /\ Src(n) = p /\ Num(n) = passed[p] + 1
  BY <1>1, MetricFacts
<1>3. IsPending(n)
  BY <1>1, <1>2 DEF IsPending, TypeOK, plugin_write_enqueue
<1>4. queue' = Append(queue, n) /\ queue \in Seq(Metric)
  BY DEF plugin_write_enqueue, Linked, TypeOK
<1>5. /\ queue' \in Seq(Metric)
      /\ Len(queue') = Len(queue) + 1
      /\ \A i \in 1..Len(queue) : queue'[i] = queue[i]
      /\ queue'[Len(queue) + 1] = n
  BY <1>2, <1>4
<1>6. \A m : InQueue(m)' <=> InQueue(m) \/ m = n
  BY <1>4, <1>5 DEF InQueue
<1>7. /\ passed' \in [Producer -> 0..MaxMetrics]
      /\ passed'[p] = passed[p] + 1
      /\ \A q \in Producer : q # p => passed'[q] = passed[q]
  BY <1>1 DEF TypeOK, plugin_write_enqueue
<1>. QED BY <1>2, <1>3, <1>5, <1>6, <1>7

\* plugin_write_dequeue moves exactly the head of the queue into the hand of
\* the thread.
LEMMA DequeueEffect ==
  ASSUME NEW w \in Writer, TypeOK, Control, OnePlace, plugin_write_dequeue(w)
  PROVE  LET h == queue[1]
         IN  /\ h \in Metric /\ InQueue(h)
             /\ queue' \in Seq(Metric)
             /\ Len(queue) > 0 /\ Len(queue') = Len(queue) - 1
             /\ \A i \in 1..Len(queue') : queue'[i] = queue[i + 1]
             /\ \A m : InQueue(m)' <=> InQueue(m) /\ m # h
             /\ hand'[w] = h /\ hand[w] = NoMetric
             /\ \A v \in Writer : v # w => hand'[v] = hand[v]
             /\ \A m \in Metric : InHand(m)' <=> InHand(m) \/ m = h
<1>. DEFINE h == queue[1]
<1>1. queue \in Seq(Metric) /\ queue # <<>> /\ queue' = Tail(queue)
  BY DEF TypeOK, plugin_write_dequeue
<1>2. /\ h \in Metric /\ InQueue(h) /\ Len(queue) > 0
      /\ queue' \in Seq(Metric) /\ Len(queue') = Len(queue) - 1
      /\ \A i \in 1..Len(queue') : queue'[i] = queue[i + 1]
  BY <1>1 DEF InQueue
<1>3. ASSUME NEW m PROVE InQueue(m)' <=> InQueue(m) /\ m # h
  <2>1. InQueue(m)' => InQueue(m) /\ m # h
    BY <1>1, <1>2 DEF InQueue, OnePlace
  <2>2. ASSUME InQueue(m), m # h PROVE InQueue(m)'
    <3>1. PICK i \in 1..Len(queue) : queue[i] = m
      BY <2>2 DEF InQueue
    <3>2. i # 1 /\ i - 1 \in 1..Len(queue') /\ queue'[i - 1] = m
      BY <1>1, <1>2, <2>2, <3>1
    <3>. QED BY <3>2 DEF InQueue
  <2>. QED BY <2>1, <2>2
<1>4. /\ hand'[w] = h /\ hand[w] = NoMetric
      /\ \A v \in Writer : v # w => hand'[v] = hand[v]
  BY <1>1, <1>2 DEF TypeOK, Control, plugin_write_dequeue
<1>5. \A m \in Metric : InHand(m)' <=> InHand(m) \/ m = h
  BY <1>4, WriteQueueAssumption DEF InHand
<1>. QED BY <1>2, <1>3, <1>4, <1>5

\* plugin_dispatch_values_internal ends the metric in hand and no other.
LEMMA DispatchEffect ==
  ASSUME NEW w \in Writer, TypeOK, Control, OnePlace, plugin_dispatch_values_internal(w)
  PROVE  LET h == hand[w]
         IN  /\ h \in Metric /\ InHand(h) /\ hand'[w] = NoMetric
             /\ \A v \in Writer : v # w => hand'[v] = hand[v]
             /\ \A m \in Metric : InHand(m)' <=> InHand(m) /\ m # h
             /\ end'[h] \in {"written", "refused"}
             /\ \A m \in Metric : m # h => end'[m] = end[m]
             /\ end' \in [Metric -> {"none", "dropped", "written", "refused", "discarded"}]
<1>. DEFINE h == hand[w]
<1>1. h \in Metric /\ InHand(h) /\ h # NoMetric
  BY WriteQueueAssumption DEF TypeOK, Control, InHand, plugin_dispatch_values_internal
<1>2. hand'[w] = NoMetric /\ \A v \in Writer : v # w => hand'[v] = hand[v]
  BY DEF TypeOK, plugin_dispatch_values_internal
<1>3. \A m \in Metric : InHand(m)' <=> InHand(m) /\ m # h
  BY <1>1, <1>2, WriteQueueAssumption DEF InHand, OnePlace
<1>4. PICK e \in {"written", "refused"} : end' = [end EXCEPT ![h] = e]
  BY DEF plugin_dispatch_values_internal
<1>5. /\ end'[h] \in {"written", "refused"}
      /\ \A m \in Metric : m # h => end'[m] = end[m]
      /\ end' \in [Metric -> {"none", "dropped", "written", "refused", "discarded"}]
  BY <1>1, <1>4 DEF TypeOK
<1>. QED BY <1>1, <1>2, <1>3, <1>5

-----------------------------------------------------------------------------
(* The inductive invariant *)

\* Before start_write_threads the queue is empty and nobody has a metric.
LEMMA InitialState == Init => IInv
  BY WriteQueueAssumption, MetricFacts
  DEF Init, IInv, TypeOK, Control, LengthIsExact, Numbered, Past, Ascending, OnePlace,
      NoOvertaking, InQueue, InHand, IsPending

\* Steps that move no metric.
LEMMA NothingMoves ==
  ASSUME IInv, TypeOK', Control',
         UNCHANGED <<queue, write_queue_length, callers, hand, end>>
  PROVE  IInv'
  BY DEF IInv, LengthIsExact, Numbered, Past, Ascending, OnePlace, NoOvertaking,
    InQueue, InHand, IsPending, callers

\* check_drop_value drops a whole call: its metrics are settled at once.
LEMMA DropStep ==
  ASSUME NEW p \in Producer, NEW k \in 1..BatchSize, dispatch_drop(p, k), IInv
  PROVE  IInv'
<1>. USE WriteQueueAssumption, MetricFacts DEF IInv
<1>1. TypeOK' /\ Control' /\ LengthIsExact' /\ Ascending'
  BY DEF TypeOK, Control, LengthIsExact, Ascending, dispatch_drop, NewCall, writers
<1>2. \A q \in Producer : /\ passed'[q] \in Nat /\ passed[q] \in Nat
                          /\ passed'[q] = IF q = p THEN passed[q] + k ELSE passed[q]
                          /\ offered'[q] = IF q = p THEN offered[q] + k ELSE offered[q]
  BY DEF TypeOK, dispatch_drop, NewCall
<1>3. offered[p] = passed[p]
  BY DEF dispatch_drop, NewCall
<1>4. \A m \in Metric : /\ InQueue(m)' <=> InQueue(m)
                        /\ InHand(m)' <=> InHand(m)
                        /\ IsPending(m)' => IsPending(m)
  BY <1>2, <1>3 DEF InQueue, InHand, IsPending, dispatch_drop, writers, TypeOK
<1>5. \A m \in Metric :
        end'[m] = IF Src(m) = p /\ Num(m) > offered[p] /\ Num(m) <= offered[p] + k
                    THEN "dropped" ELSE end[m]
  BY DEF dispatch_drop
<1>6. Numbered'
  BY <1>2, <1>3, <1>4, <1>5 DEF Numbered, Past
<1>7. OnePlace'
  <2>1. \A m \in Metric : InQueue(m) \/ InHand(m) => end'[m] = end[m]
    BY <1>2, <1>3, <1>5 DEF Numbered, Past
  <2>2. \A m \in Metric : IsPending(m)' => end'[m] = end[m]
    BY <1>2, <1>3, <1>5 DEF IsPending
  <2>3. queue' = queue /\ hand' = hand
    BY DEF dispatch_drop, writers
  <2>. QED BY <1>4, <2>1, <2>2, <2>3 DEF OnePlace, InQueue
<1>8. NoOvertaking'
  BY <1>4, <1>5 DEF NoOvertaking
<1>. QED BY <1>1, <1>6, <1>7, <1>8

\* A call that is not dropped takes new numbers; the queue is not touched yet.
LEMMA KeepStep ==
  ASSUME NEW p \in Producer, NEW k \in 1..BatchSize, dispatch_keep(p, k), IInv
  PROVE  IInv'
<1>. USE WriteQueueAssumption, MetricFacts DEF IInv
<1>1. TypeOK' /\ Control' /\ LengthIsExact' /\ Ascending'
  BY DEF TypeOK, Control, LengthIsExact, Ascending, dispatch_keep, NewCall, writers
<1>2. \A m \in Metric : (InQueue(m)' <=> InQueue(m)) /\ (InHand(m)' <=> InHand(m))
  BY DEF InQueue, InHand, dispatch_keep, writers
<1>3. Numbered' /\ NoOvertaking'
  BY <1>2 DEF Numbered, Past, NoOvertaking, dispatch_keep
<1>4. \A m \in Metric : IsPending(m)' => ~Past(m)
  BY DEF IsPending, Past, TypeOK, dispatch_keep
<1>5. OnePlace'
  <2>1. queue' = queue /\ hand' = hand /\ end' = end
    BY DEF dispatch_keep, writers
  <2>. QED BY <1>2, <1>4, <2>1 DEF OnePlace, Numbered, InQueue
<1>. QED BY <1>1, <1>3, <1>5

\* plugin_write_enqueue appends the caller's next metric.
LEMMA EnqueueStep ==
  ASSUME NEW p \in Producer, plugin_write_enqueue(p), IInv
  PROVE  IInv'
<1>0. TypeOK /\ Control /\ LengthIsExact /\ Numbered /\ Ascending /\ OnePlace /\ NoOvertaking
  BY DEF IInv
<1>1. PICK n \in Metric :
        /\ Src(n) = p /\ Num(n) = passed[p] + 1
        /\ IsPending(n)
        /\ queue' \in Seq(Metric)
        /\ Len(queue') = Len(queue) + 1
        /\ \A i \in 1..Len(queue) : queue'[i] = queue[i]
        /\ queue'[Len(queue) + 1] = n
        /\ \A m : InQueue(m)' <=> InQueue(m) \/ m = n
        /\ passed' \in [Producer -> 0..MaxMetrics]
        /\ passed'[p] = passed[p] + 1
        /\ \A q \in Producer : q # p => passed'[q] = passed[q]
  BY <1>0, EnqueueEffect
<1>2. hand' = hand /\ end' = end /\ offered' = offered
  BY DEF plugin_write_enqueue
<1>3. Len(queue) \in Nat /\ \A q \in Producer : passed[q] \in Nat /\ offered[q] \in Nat
  BY <1>0 DEF TypeOK
<1>4. TypeOK'
  <2>1. wpc' \in [Writer -> {"off", "loop", "lock", "wait", "busy", "exit"}]
    BY <1>0 DEF TypeOK, plugin_write_enqueue, Signal
  <2>2. \A q \in Producer : offered'[q] - passed'[q] \in 0..BatchSize
    <3>1. passed[p] < offered[p]
      BY DEF plugin_write_enqueue
    <3>2. \A q \in Producer : offered[q] - passed[q] \in 0..BatchSize
      BY <1>0 DEF TypeOK
    <3>3. passed'[p] = passed[p] + 1 /\ \A q \in Producer : q # p => passed'[q] = passed[q]
      BY <1>1
    <3>4. BatchSize \in Nat
      BY WriteQueueAssumption
    <3>5. offered[p] - (passed[p] + 1) \in 0..BatchSize
      BY <1>3, <3>1, <3>2, <3>4
    <3>. QED BY <1>2, <3>2, <3>3, <3>5
  <2>3. write_queue_length' \in Nat
    BY <1>0 DEF TypeOK, plugin_write_enqueue
  <2>. QED BY <1>0, <1>1, <1>2, <2>1, <2>2, <2>3 DEF TypeOK, plugin_write_enqueue
<1>5. Control'
  BY <1>0 DEF TypeOK, Control, plugin_write_enqueue, Signal
<1>6. LengthIsExact'
  BY <1>0, <1>1 DEF TypeOK, LengthIsExact, plugin_write_enqueue
<1>7. \A m \in Metric : InHand(m)' <=> InHand(m)
  BY <1>2 DEF InHand
<1>8. \A m \in Metric : Past(m) => Past(m)' /\ m # n
  BY <1>1, <1>3, MetricFacts DEF Past
<1>9. Past(n)'
  BY <1>1, <1>3 DEF Past
<1>10. \A m \in Metric : IsPending(m)' <=> IsPending(m) /\ m # n
  <2>. TAKE m \in Metric
  <2>1. Src(m) \in Producer /\ Num(m) \in Nat /\ (Src(m) = p /\ Num(m) = Num(n) => m = n)
    BY <1>1, MetricFacts
  <2>2. offered'[Src(m)] = offered[Src(m)]
    BY <1>2
  <2>3. CASE Src(m) = p
    <3>1. passed'[p] < Num(m) <=> passed[p] < Num(m) /\ Num(m) # Num(n)
      BY <1>1, <1>3, <2>1
    <3>. QED BY <1>1, <2>1, <2>2, <2>3, <3>1 DEF IsPending
  <2>4. CASE Src(m) # p
    BY <1>1, <2>1, <2>2, <2>4 DEF IsPending
  <2>. QED BY <2>3, <2>4
<1>11. Numbered'
  BY <1>0, <1>1, <1>2, <1>7, <1>8, <1>9 DEF Numbered
<1>12. Ascending'
  <2>1. \A i \in 1..Len(queue) : queue[i] \in Metric /\ InQueue(queue[i])
    BY <1>0 DEF TypeOK, InQueue
  <2>2. \A i \in 1..Len(queue) : Src(queue[i]) = p => Num(queue[i]) < Num(n)
    BY <1>0, <1>1, <1>3, <2>1, MetricFacts DEF Numbered, Past
  <2>3. ASSUME NEW i \in 1..Len(queue'), NEW j \in 1..Len(queue'), i < j,
               Src(queue'[i]) = Src(queue'[j])
        PROVE  Num(queue'[i]) < Num(queue'[j])
    <3>1. i \in 1..Len(queue)
      BY <1>1, <1>3, <2>3
    <3>2. CASE j \in 1..Len(queue)
      BY <1>0, <1>1, <2>3, <3>1, <3>2 DEF Ascending
    <3>3. CASE j = Len(queue) + 1
      BY <1>1, <2>2, <2>3, <3>1, <3>3
    <3>. QED BY <1>1, <1>3, <3>2, <3>3
  <2>. QED BY <2>3 DEF Ascending
<1>13. OnePlace'
  <2>1. \A i, j \in 1..Len(queue') : queue'[i] = queue'[j] => i = j
    <3>1. \A i \in 1..Len(queue) : queue[i] # n
      BY <1>0, <1>1 DEF OnePlace, InQueue
    <3>2. \A i \in 1..Len(queue') : i \in 1..Len(queue) \/ i = Len(queue) + 1
      BY <1>1, <1>3
    <3>3. \A i, j \in 1..Len(queue) : queue[i] = queue[j] => i = j
      BY <1>0 DEF OnePlace
    <3>. QED BY <1>1, <3>1, <3>2, <3>3
  <2>2. \A w \in Writer : ~InQueue(hand[w])'
    <3>1. \A w \in Writer : hand[w] # n
      BY <1>0, <1>1 DEF OnePlace, InHand
    <3>. QED BY <1>0, <1>1, <1>2, <3>1 DEF OnePlace
  <2>3. \A m \in Metric : InQueue(m)' \/ InHand(m)' => ~IsPending(m)' /\ end'[m] = "none"
    BY <1>0, <1>1, <1>2, <1>7, <1>10 DEF OnePlace
  <2>4. \A m \in Metric : IsPending(m)' => end'[m] = "none"
    BY <1>0, <1>2, <1>10 DEF OnePlace
  <2>5. \A v, w \in Writer : hand'[v] = hand'[w] /\ hand'[v] # NoMetric => v = w
    BY <1>0, <1>2 DEF OnePlace
  <2>. QED BY <2>1, <2>2, <2>3, <2>4, <2>5 DEF OnePlace
<1>14. NoOvertaking'
  <2>1. \A l \in Metric : Src(l) = p /\ Num(l) > Num(n) =>
          ~InHand(l) /\ end[l] = "none"
    BY <1>0, <1>1, <1>3, MetricFacts DEF Numbered, Past
  <2>. QED BY <1>0, <1>1, <1>2, <1>7, <2>1 DEF NoOvertaking
<1>. QED BY <1>4, <1>5, <1>6, <1>11, <1>12, <1>13, <1>14 DEF IInv

\* plugin_write_dequeue hands the first metric to one thread.
LEMMA DequeueStep ==
  ASSUME NEW w \in Writer, plugin_write_dequeue(w), IInv
  PROVE  IInv'
<1>0. TypeOK /\ Control /\ LengthIsExact /\ Numbered /\ Ascending /\ OnePlace /\ NoOvertaking
  BY DEF IInv
<1>1. PICK h \in Metric :
        /\ h = queue[1] /\ InQueue(h)
        /\ queue' \in Seq(Metric)
        /\ Len(queue) > 0 /\ Len(queue') = Len(queue) - 1
        /\ \A i \in 1..Len(queue') : queue'[i] = queue[i + 1]
        /\ \A m : InQueue(m)' <=> InQueue(m) /\ m # h
        /\ hand'[w] = h /\ hand[w] = NoMetric
        /\ \A v \in Writer : v # w => hand'[v] = hand[v]
        /\ \A m \in Metric : InHand(m)' <=> InHand(m) \/ m = h
  BY <1>0, DequeueEffect
<1>2. offered' = offered /\ passed' = passed /\ end' = end
  BY DEF plugin_write_dequeue, callers
<1>3. Len(queue) \in Nat /\ \A i \in 1..Len(queue') : i + 1 \in 1..Len(queue)
  BY <1>0, <1>1 DEF TypeOK
<1>4. TypeOK' /\ Control' /\ LengthIsExact'
  <2>1. write_queue_length' = Len(queue') /\ write_queue_length' \in Nat
    BY <1>0, <1>1, <1>3 DEF LengthIsExact, plugin_write_dequeue
  <2>2. hand' \in [Writer -> Metric \cup {NoMetric}]
    BY <1>0, <1>1 DEF TypeOK, plugin_write_dequeue
  <2>3. wpc' = [wpc EXCEPT ![w] = "busy"]
    BY DEF plugin_write_dequeue
  <2>4. Control'
    BY <1>0, <1>1, <2>3, WriteQueueAssumption DEF Control, TypeOK, plugin_write_dequeue
  <2>. QED BY <1>0, <1>1, <1>2, <2>1, <2>2, <2>3, <2>4
       DEF TypeOK, LengthIsExact, plugin_write_dequeue
<1>5. \A m \in Metric : (Past(m)' <=> Past(m)) /\ (IsPending(m)' <=> IsPending(m))
  BY <1>2 DEF Past, IsPending
<1>6. Numbered'
  BY <1>0, <1>1, <1>2, <1>5 DEF Numbered
<1>7. Ascending'
  BY <1>0, <1>1, <1>3 DEF Ascending
<1>8. OnePlace'
  <2>1. \A i, j \in 1..Len(queue') : queue'[i] = queue'[j] => i = j
    <3>1. \A i, j \in 1..Len(queue) : queue[i] = queue[j] => i = j
      BY <1>0 DEF OnePlace
    <3>. QED BY <1>1, <1>3, <3>1
  <2>2. \A v \in Writer : ~InQueue(hand[v])'
    BY <1>0, <1>1 DEF OnePlace
  <2>3. \A m \in Metric : InQueue(m)' \/ InHand(m)' => ~IsPending(m)' /\ end'[m] = "none"
    BY <1>0, <1>1, <1>2, <1>5 DEF OnePlace
  <2>4. \A m \in Metric : IsPending(m)' => end'[m] = "none"
    BY <1>0, <1>2, <1>5 DEF OnePlace
  <2>5. \A u, v \in Writer : hand'[u] = hand'[v] /\ hand'[u] # NoMetric => u = v
    <3>1. \A v \in Writer : hand[v] # h
      BY <1>0, <1>1 DEF OnePlace
    <3>. QED BY <1>0, <1>1, <3>1 DEF OnePlace
  <2>. QED BY <2>1, <2>2, <2>3, <2>4, <2>5 DEF OnePlace
<1>9. NoOvertaking'
  <2>1. ASSUME NEW m \in Metric, InQueue(m)', Src(m) = Src(h) PROVE Num(h) < Num(m)
    <3>1. PICK i \in 1..Len(queue') : queue'[i] = m
      BY <2>1 DEF InQueue
    <3>2. queue[i + 1] = m /\ 1 < i + 1 /\ 1 \in 1..Len(queue)
      BY <1>1, <1>3, <3>1
    <3>. QED BY <1>0, <1>1, <1>3, <2>1, <3>2 DEF Ascending
  <2>2. \A m \in Metric : InQueue(m)' /\ Src(m) = Src(h) => ~(Num(h) > Num(m))
    BY <2>1, MetricFacts
  <2>. QED BY <1>0, <1>1, <1>2, <2>2 DEF NoOvertaking
<1>. QED BY <1>4, <1>6, <1>7, <1>8, <1>9 DEF IInv

\* A write thread hands its metric to plugin_dispatch_values_internal.
LEMMA DispatchStep ==
  ASSUME NEW w \in Writer, plugin_dispatch_values_internal(w), IInv
  PROVE  IInv'
<1>0. TypeOK /\ Control /\ LengthIsExact /\ Numbered /\ Ascending /\ OnePlace /\ NoOvertaking
  BY DEF IInv
<1>1. PICK h \in Metric :
        /\ h = hand[w] /\ InHand(h) /\ hand'[w] = NoMetric
        /\ \A v \in Writer : v # w => hand'[v] = hand[v]
        /\ \A m \in Metric : InHand(m)' <=> InHand(m) /\ m # h
        /\ end'[h] \in {"written", "refused"}
        /\ \A m \in Metric : m # h => end'[m] = end[m]
        /\ end' \in [Metric -> {"none", "dropped", "written", "refused", "discarded"}]
  BY <1>0, DispatchEffect
<1>2. offered' = offered /\ passed' = passed /\ queue' = queue
      /\ write_queue_length' = write_queue_length
  BY DEF plugin_dispatch_values_internal, callers
<1>3. TypeOK' /\ Control'
  <2>1. hand' \in [Writer -> Metric \cup {NoMetric}]
    BY <1>0 DEF TypeOK, plugin_dispatch_values_internal
  <2>2. wpc' = [wpc EXCEPT ![w] = "loop"]
    BY DEF plugin_dispatch_values_internal
  <2>3. Control'
    BY <1>0, <1>1, <2>2, WriteQueueAssumption
    DEF Control, TypeOK, plugin_dispatch_values_internal
  <2>. QED BY <1>0, <1>1, <1>2, <2>1, <2>2, <2>3
       DEF TypeOK, plugin_dispatch_values_internal
<1>4. \A m \in Metric : /\ Past(m)' <=> Past(m)
                        /\ IsPending(m)' <=> IsPending(m)
                        /\ InQueue(m)' <=> InQueue(m)
  BY <1>2 DEF Past, IsPending, InQueue
<1>5. LengthIsExact' /\ Ascending'
  BY <1>0, <1>2 DEF LengthIsExact, Ascending
<1>6. Numbered'
  BY <1>0, <1>1, <1>4 DEF Numbered
<1>7. OnePlace'
  <2>1. \A i, j \in 1..Len(queue') : queue'[i] = queue'[j] => i = j
    BY <1>0, <1>2 DEF OnePlace
  <2>2. \A v \in Writer : ~InQueue(hand[v])'
    <3>1. ~InQueue(NoMetric)
      BY <1>0, WriteQueueAssumption DEF TypeOK, InQueue
    <3>2. \A v \in Writer : hand'[v] = NoMetric \/ hand'[v] = hand[v]
      BY <1>1
    <3>. QED BY <1>0, <1>2, <3>1, <3>2 DEF OnePlace, InQueue
  <2>3. ~InQueue(h) /\ ~IsPending(h)
    BY <1>0, <1>1 DEF OnePlace
  <2>4. \A m \in Metric : InQueue(m)' \/ InHand(m)' => ~IsPending(m)' /\ end'[m] = "none"
    BY <1>0, <1>1, <1>4, <2>3 DEF OnePlace
  <2>5. \A m \in Metric : IsPending(m)' => end'[m] = "none"
    BY <1>0, <1>1, <1>4, <2>3 DEF OnePlace
  <2>6. \A u, v \in Writer : hand'[u] = hand'[v] /\ hand'[u] # NoMetric => u = v
    BY <1>0, <1>1 DEF OnePlace
  <2>. QED BY <2>1, <2>2, <2>4, <2>5, <2>6 DEF OnePlace
<1>8. NoOvertaking'
  BY <1>0, <1>1, <1>4 DEF NoOvertaking
<1>. QED BY <1>3, <1>5, <1>6, <1>7, <1>8 DEF IInv

\* stop_write_threads frees what is left in the queue.
LEMMA FreeStep == ASSUME free_leftovers, IInv PROVE IInv'
<1>0. TypeOK /\ Control /\ LengthIsExact /\ Numbered /\ Ascending /\ OnePlace /\ NoOvertaking
  BY DEF IInv
<1>1. /\ offered' = offered /\ passed' = passed /\ hand' = hand /\ wpc' = wpc
      /\ queue' = <<>> /\ write_queue_length' = 0
      /\ \A m \in Metric : end'[m] = IF InQueue(m) THEN "discarded" ELSE end[m]
  BY DEF free_leftovers, callers, writers
<1>2. TypeOK' /\ Control' /\ LengthIsExact' /\ Ascending'
  BY <1>0, <1>1 DEF TypeOK, Control, LengthIsExact, Ascending, free_leftovers
<1>3. \A m : ~InQueue(m)'
  BY <1>1 DEF InQueue
<1>4. \A m \in Metric : /\ Past(m)' <=> Past(m)
                        /\ IsPending(m)' <=> IsPending(m)
                        /\ InHand(m)' <=> InHand(m)
  BY <1>1 DEF Past, IsPending, InHand
<1>5. Numbered'
  BY <1>0, <1>1, <1>3, <1>4 DEF Numbered
<1>6. OnePlace'
  <2>1. \A m \in Metric : IsPending(m) \/ InHand(m) => ~InQueue(m)
    BY <1>0 DEF OnePlace, InHand
  <2>. QED BY <1>0, <1>1, <1>3, <1>4, <2>1 DEF OnePlace
<1>7. NoOvertaking'
  BY <1>3 DEF NoOvertaking
<1>. QED BY <1>2, <1>5, <1>6, <1>7 DEF IInv

\* Every critical section, every step between two of them and every step of
\* the main thread preserves the invariant.
LEMMA InductiveStep == IInv /\ [Next]_vars => IInv'
<1>. SUFFICES ASSUME IInv, [Next]_vars PROVE IInv'
  OBVIOUS
<1>1. ASSUME NEW w \in Writer, write_loop_test(w) \/ write_dequeue_empty(w)
                               \/ spurious_wakeup(w)
      PROVE  IInv'
  <2>1. TypeOK' /\ Control'
    BY <1>1 DEF IInv, TypeOK, Control, write_loop_test, write_dequeue_empty,
      spurious_wakeup, callers
  <2>. QED BY <1>1, <2>1, NothingMoves
       DEF write_loop_test, write_dequeue_empty, spurious_wakeup
<1>2. ASSUME NEW S \in SUBSET Writer, start_write_threads(S) PROVE IInv'
  <2>1. TypeOK' /\ Control'
    BY <1>2 DEF IInv, TypeOK, Control, start_write_threads, callers
  <2>. QED BY <1>2, <2>1, NothingMoves DEF start_write_threads
<1>3. CASE stop_write_threads \/ join_write_threads
  <2>1. TypeOK' /\ Control'
    BY <1>3 DEF IInv, TypeOK, Control, stop_write_threads, join_write_threads,
      callers, writers
  <2>. QED BY <1>3, <2>1, NothingMoves DEF stop_write_threads, join_write_threads, writers
<1>4. CASE UNCHANGED vars
  <2>1. TypeOK' /\ Control'
    BY <1>4 DEF IInv, TypeOK, Control, vars, callers, writers
  <2>. QED BY <1>4, <2>1, NothingMoves DEF vars, writers
<1>. QED BY <1>1, <1>2, <1>3, <1>4, DropStep, KeepStep, EnqueueStep, DequeueStep,
            DispatchStep, FreeStep
     DEF Next, DispatchCall, WriterStep, ShutdownStep

\* The inductive invariant holds in every reachable state.
THEOREM Invariance == Spec => []IInv
<1>. QED BY InitialState, InductiveStep, PTL DEF Spec

-----------------------------------------------------------------------------
(* The properties of WriteQueue that follow *)

\* The write-side state of plugin.c is well typed.
THEOREM TypeCorrect == Spec => []TypeOK
<1>1. IInv => TypeOK
  BY DEF IInv
<1>. QED BY Invariance, <1>1, PTL

\* The assertion in plugin_write_dequeue, and the length that the limits are
\* compared with.
THEOREM LengthCorrect == Spec => []LengthIsExact
<1>1. IInv => LengthIsExact
  BY DEF IInv
<1>. QED BY Invariance, <1>1, PTL

\* No metric is queued, held or ended twice, for any number of producers and
\* write threads.
THEOREM NoDuplication == Spec => []OnePlace
<1>1. IInv => OnePlace
  BY DEF IInv
<1>. QED BY Invariance, <1>1, PTL

\* The metrics of a producer leave the queue in order.
THEOREM LeavesInOrder == Spec => []NoOvertaking
<1>1. IInv => NoOvertaking
  BY DEF IInv
<1>. QED BY Invariance, <1>1, PTL

-----------------------------------------------------------------------------
(* The bound on the queue *)

\* There are at most BatchSize decided insertions per producer.
LEMMA SlotFacts ==
  LET All == Producer \X (1..BatchSize)
  IN  /\ IsFiniteSet(All)
      /\ Cardinality(All) = Cardinality(Producer) * BatchSize
      /\ Cardinality(Producer) \in Nat
<1>1. IsFiniteSet(1..BatchSize) /\ Cardinality(1..BatchSize) = BatchSize
  BY FS_Interval, WriteQueueAssumption
<1>. QED BY <1>1, FS_Product, FS_CardinalityType, WriteQueueAssumption

\* Any set of decided insertions is finite and within that number.
LEMMA PendingFacts ==
  ASSUME NEW P, P \subseteq Producer \X (1..BatchSize)
  PROVE  /\ IsFiniteSet(P)
         /\ Cardinality(P) \in Nat
         /\ Cardinality(P) <= Cardinality(Producer) * BatchSize
  BY SlotFacts, FS_Subset, FS_CardinalityType

\* Under any interleaving, the queue together with the insertions that are
\* already decided stays below WriteQueueLimitHigh plus one batch per producer.
THEOREM BoundedQueue == Spec => []QueueBounded
<1>1. Init => QueueBounded
  <2>1. PendingSlots \subseteq Producer \X (1..BatchSize)
    BY DEF PendingSlots
  <2>2. Cardinality(Producer) * BatchSize \in Nat /\ write_limit_high \in Nat
    BY SlotFacts, FS_CardinalityType, WriteQueueAssumption
  <2>. QED BY <2>1, <2>2, PendingFacts DEF Init, QueueBounded
<1>2. IInv /\ QueueBounded /\ [Next]_vars => QueueBounded'
  <2>. SUFFICES ASSUME IInv, QueueBounded, [Next]_vars, write_limit_high # 0
       PROVE  Len(queue') + Cardinality(PendingSlots')
                <= write_limit_high - 1 + Cardinality(Producer) * BatchSize
    BY DEF QueueBounded
  <2>. DEFINE B == write_limit_high - 1 + Cardinality(Producer) * BatchSize
  <2>1. Len(queue) \in Nat /\ queue \in Seq(Metric) /\ TypeOK
    BY DEF IInv, TypeOK
  <2>0. /\ PendingSlots \subseteq Producer \X (1..BatchSize)
        /\ PendingSlots' \subseteq Producer \X (1..BatchSize)
    BY DEF PendingSlots
  <2>2. Cardinality(PendingSlots) \in Nat /\ Len(queue) + Cardinality(PendingSlots) <= B
    BY <2>0, PendingFacts DEF QueueBounded
  <2>3. /\ IsFiniteSet(PendingSlots') /\ Cardinality(PendingSlots') \in Nat
        /\ Cardinality(PendingSlots') <= Cardinality(Producer) * BatchSize
    BY <2>0, PendingFacts
  <2>4. /\ Cardinality(Producer) \in Nat /\ Cardinality(Producer) * BatchSize \in Nat
        /\ write_limit_high \in Nat
    BY SlotFacts, FS_CardinalityType, WriteQueueAssumption
  <2>5. ASSUME NEW p \in Producer, NEW k \in 1..BatchSize, dispatch_drop(p, k)
        PROVE  Len(queue') + Cardinality(PendingSlots') <= B
    <3>1. \A q \in Producer : offered'[q] - passed'[q] = offered[q] - passed[q]
      BY <2>1, <2>5 DEF dispatch_drop, NewCall, TypeOK
    <3>2. PendingSlots' = PendingSlots
      BY <3>1 DEF PendingSlots
    <3>. QED BY <2>2, <2>5, <3>2 DEF dispatch_drop
  <2>6. ASSUME NEW p \in Producer, NEW k \in 1..BatchSize, dispatch_keep(p, k)
        PROVE  Len(queue') + Cardinality(PendingSlots') <= B
    <3>1. Len(queue) < write_limit_high
      BY <2>6 DEF dispatch_keep, MayKeep, IInv, LengthIsExact
    <3>2. Len(queue') = Len(queue)
      BY <2>6 DEF dispatch_keep
    <3>. QED BY <2>1, <2>3, <2>4, <3>1, <3>2
  <2>7. ASSUME NEW p \in Producer, plugin_write_enqueue(p)
        PROVE  Len(queue') + Cardinality(PendingSlots') <= B
    <3>. DEFINE s == <<p, offered[p] - passed[p]>>
    <3>1. Len(queue') = Len(queue) + 1
      BY <2>1, <2>7, EnqueueEffect
    <3>2. /\ passed[p] < offered[p] /\ passed[p] \in Nat /\ offered[p] \in Nat
          /\ offered[p] - passed[p] \in 0..BatchSize
          /\ offered' = offered /\ passed' = [passed EXCEPT ![p] = @ + 1]
          /\ passed \in [Producer -> 0..MaxMetrics]
      BY <2>1, <2>7 DEF plugin_write_enqueue, TypeOK
    <3>3. s \in PendingSlots
      BY <3>2, WriteQueueAssumption DEF PendingSlots
    <3>4. PendingSlots' = PendingSlots \ {s}
      BY <2>1, <3>2, WriteQueueAssumption DEF PendingSlots, TypeOK
    <3>5. Cardinality(PendingSlots') = Cardinality(PendingSlots) - 1
      BY <2>0, <3>3, <3>4, PendingFacts, FS_RemoveElement, SMTT(30)
    <3>. QED BY <2>1, <2>2, <2>4, <3>1, <3>5
  <2>8. CASE /\ UNCHANGED <<offered, passed>>
             /\ Len(queue') \in Nat /\ Len(queue') <= Len(queue)
    <3>1. PendingSlots' = PendingSlots
      BY <2>8 DEF PendingSlots
    <3>. QED BY <2>1, <2>2, <2>4, <2>8, <3>1
  <2>9. ASSUME NEW w \in Writer, plugin_write_dequeue(w)
        PROVE  Len(queue') \in Nat /\ Len(queue') <= Len(queue)
    BY <2>1, <2>9 DEF plugin_write_dequeue
  <2>10. CASE free_leftovers
    BY <2>1, <2>8, <2>10 DEF free_leftovers, callers
  <2>11. CASE UNCHANGED <<queue, callers>>
    BY <2>1, <2>8, <2>11 DEF callers
  <2>. QED BY <2>5, <2>6, <2>7, <2>8, <2>9, <2>10, <2>11
       DEF Next, DispatchCall, WriterStep, ShutdownStep, write_loop_test,
           write_dequeue_empty, plugin_write_dequeue, plugin_dispatch_values_internal,
           spurious_wakeup, start_write_threads, stop_write_threads,
           join_write_threads, callers, vars
<1>. QED BY Invariance, <1>1, <1>2, PTL DEF Spec

-----------------------------------------------------------------------------
(* The queue implements the pipe *)

\* A step that gives all of M a new fate and leaves the others alone.
LEMMA TurnIntro ==
  ASSUME NEW M \in SUBSET Metric, NEW from, NEW to,
         \A m \in M : FateOf(m) = from /\ FateOf(m)' = to,
         \A m \in Metric \ M : FateOf(m)' = FateOf(m)
  PROVE  Pipe!Turn(M, from, to)
  BY DEF Pipe!Turn

\* The metrics of a new call have no history.
LEMMA NewMetrics ==
  ASSUME IInv, NEW m \in Metric, Num(m) > offered[Src(m)]
  PROVE  FateOf(m) = "new" /\ end[m] = "none" /\ ~InQueue(m) /\ ~InHand(m)
<1>1. ~Past(m) /\ ~IsPending(m)
  BY MetricFacts DEF IInv, TypeOK, Past, IsPending
<1>. QED BY <1>1 DEF IInv, Numbered, FateOf

\* Every step of the queue is a step of the pipe or leaves it unchanged.
LEMMA PipeStep == IInv /\ [Next]_vars => [Pipe!PipeNext]_(Pipe!pipe)
<1>. SUFFICES ASSUME IInv, [Next]_vars PROVE Pipe!PipeNext \/ UNCHANGED Pipe!pipe
  BY DEF Pipe!pipe
<1>0. TypeOK /\ Control /\ Numbered /\ OnePlace
  BY DEF IInv
<1>1. ASSUME \A m \in Metric : FateOf(m)' = FateOf(m),
             (main \in {"init", "run"})' <=> main \in {"init", "run"}
      PROVE  UNCHANGED Pipe!pipe
  BY <1>1 DEF Pipe!pipe
<1>2. ASSUME NEW p \in Producer, NEW k \in 1..BatchSize, dispatch_drop(p, k)
      PROVE  Pipe!PipeNext
  <2>. DEFINE M == {m \in Metric : Src(m) = p /\ Num(m) > offered[p]
                                   /\ Num(m) <= offered[p] + k}
  <2>1. /\ queue' = queue /\ hand' = hand /\ main' = main
        /\ passed[p] = offered[p] /\ offered[p] \in Nat
        /\ offered'[p] = offered[p] + k /\ passed'[p] = offered[p] + k
        /\ \A q \in Producer : q # p => offered'[q] = offered[q] /\ passed'[q] = passed[q]
        /\ \A m \in Metric : end'[m] = IF m \in M THEN "dropped" ELSE end[m]
    BY <1>0, <1>2 DEF dispatch_drop, NewCall, TypeOK, writers
  <2>2. \A m \in Metric : (InQueue(m)' <=> InQueue(m)) /\ (InHand(m)' <=> InHand(m))
    BY <2>1 DEF InQueue, InHand
  <2>3. \A m \in M : FateOf(m) = "new" /\ ~InQueue(m) /\ ~InHand(m)
    BY NewMetrics
  <2>4. \A m \in Metric : IsPending(m)' <=> IsPending(m) /\ Src(m) # p
    BY <2>1, MetricFacts DEF IsPending
  <2>5. \A m \in Metric : IsPending(m) => Src(m) # p
    BY <2>1, MetricFacts DEF IsPending
  <2>6. \A m \in M : FateOf(m)' = "dropped"
    BY <2>1, <2>2, <2>3, <2>4 DEF FateOf
  <2>7. \A m \in Metric \ M : FateOf(m)' = FateOf(m)
    BY <2>1, <2>2, <2>4, <2>5 DEF FateOf
  <2>8. Pipe!Turn(M, "new", "dropped")
    BY <2>3, <2>6, <2>7, TurnIntro
  <2>. QED BY <2>1, <2>8 DEF Pipe!PipeNext, Pipe!Dispatch, Pipe!Turn, Pipe!Having
<1>3. ASSUME NEW p \in Producer, NEW k \in 1..BatchSize, dispatch_keep(p, k)
      PROVE  Pipe!PipeNext
  <2>. DEFINE M == {m \in Metric : Src(m) = p /\ Num(m) > offered[p]
                                   /\ Num(m) <= offered[p] + k}
  <2>1. /\ queue' = queue /\ hand' = hand /\ main' = main /\ end' = end
        /\ passed[p] = offered[p] /\ offered[p] \in Nat /\ passed' = passed
        /\ offered'[p] = offered[p] + k
        /\ \A q \in Producer : q # p => offered'[q] = offered[q]
    BY <1>0, <1>3 DEF dispatch_keep, NewCall, TypeOK, writers
  <2>2. \A m \in Metric : (InQueue(m)' <=> InQueue(m)) /\ (InHand(m)' <=> InHand(m))
    BY <2>1 DEF InQueue, InHand
  <2>3. \A m \in M : FateOf(m) = "new"
    BY NewMetrics
  <2>4. \A m \in Metric : IsPending(m)' <=> IsPending(m) \/ m \in M
    BY <2>1, MetricFacts DEF IsPending
  <2>5. \A m \in M : FateOf(m)' = "accepted"
    BY <2>4 DEF FateOf
  <2>6. \A m \in Metric \ M : FateOf(m)' = FateOf(m)
    BY <2>1, <2>2, <2>4 DEF FateOf
  <2>7. Pipe!Turn(M, "new", "accepted")
    BY <2>3, <2>5, <2>6, TurnIntro
  <2>. QED BY <2>1, <2>7 DEF Pipe!PipeNext, Pipe!Dispatch, Pipe!Turn, Pipe!Having
<1>4. ASSUME NEW p \in Producer, plugin_write_enqueue(p) PROVE UNCHANGED Pipe!pipe
  <2>1. PICK n \in Metric :
          /\ Src(n) = p /\ Num(n) = passed[p] + 1 /\ IsPending(n)
          /\ \A m : InQueue(m)' <=> InQueue(m) \/ m = n
          /\ passed'[p] = passed[p] + 1
          /\ \A q \in Producer : q # p => passed'[q] = passed[q]
    BY <1>0, <1>4, EnqueueEffect
  <2>2. hand' = hand /\ end' = end /\ offered' = offered /\ main' = main
    BY <1>4 DEF plugin_write_enqueue
  <2>3. \A m \in Metric : InHand(m)' <=> InHand(m)
    BY <2>2 DEF InHand
  <2>4. \A q \in Producer : passed[q] \in Nat
    BY <1>0 DEF TypeOK
  <2>5. \A m \in Metric : IsPending(m)' <=> IsPending(m) /\ m # n
    BY <2>1, <2>2, <2>4, MetricFacts DEF IsPending
  <2>6. \A m \in Metric : FateOf(m)' = FateOf(m)
    BY <2>1, <2>2, <2>3, <2>5 DEF FateOf
  <2>. QED BY <1>1, <2>2, <2>6
<1>5. ASSUME NEW w \in Writer, plugin_write_dequeue(w) PROVE UNCHANGED Pipe!pipe
  <2>1. PICK h \in Metric :
          /\ InQueue(h)
          /\ \A m : InQueue(m)' <=> InQueue(m) /\ m # h
          /\ \A m \in Metric : InHand(m)' <=> InHand(m) \/ m = h
    BY <1>0, <1>5, DequeueEffect
  <2>2. end' = end /\ offered' = offered /\ passed' = passed /\ main' = main
    BY <1>5 DEF plugin_write_dequeue, callers
  <2>3. \A m \in Metric : FateOf(m)' = FateOf(m)
    BY <2>1, <2>2 DEF FateOf, IsPending
  <2>. QED BY <1>1, <2>2, <2>3
<1>6. ASSUME NEW w \in Writer, plugin_dispatch_values_internal(w) PROVE Pipe!PipeNext
  <2>1. PICK h \in Metric :
          /\ InHand(h)
          /\ \A m \in Metric : InHand(m)' <=> InHand(m) /\ m # h
          /\ end'[h] \in {"written", "refused"}
          /\ \A m \in Metric : m # h => end'[m] = end[m]
    BY <1>0, <1>6, DispatchEffect
  <2>2. queue' = queue /\ offered' = offered /\ passed' = passed /\ main' = main
    BY <1>6 DEF plugin_dispatch_values_internal, callers
  <2>3. \A m \in Metric : (InQueue(m)' <=> InQueue(m)) /\ (IsPending(m)' <=> IsPending(m))
    BY <2>2 DEF InQueue, IsPending
  <2>4. ~InQueue(h) /\ ~IsPending(h)
    BY <1>0, <2>1 DEF OnePlace, InHand
  <2>5. FateOf(h) = "accepted" /\ FateOf(h)' = end'[h]
    BY <2>1, <2>3, <2>4 DEF FateOf
  <2>6. \A m \in Metric \ {h} : FateOf(m)' = FateOf(m)
    BY <2>1, <2>3 DEF FateOf
  <2>7. Pipe!Turn({h}, "accepted", end'[h])
    BY <2>5, <2>6, TurnIntro
  <2>8. Pipe!Handle(h)
    BY <2>1, <2>2, <2>7 DEF Pipe!Handle
  <2>. QED BY <2>8 DEF Pipe!PipeNext
<1>7. CASE free_leftovers
  <2>. DEFINE M == {m \in Metric : InQueue(m)}
  <2>1. /\ offered' = offered /\ passed' = passed /\ hand' = hand /\ queue' = <<>>
        /\ main = "joined" /\ main' = "done"
        /\ \A m \in Metric : end'[m] = IF m \in M THEN "discarded" ELSE end[m]
    BY <1>7 DEF free_leftovers, callers, writers
  <2>2. \A m \in Metric : /\ ~InQueue(m)'
                          /\ IsPending(m)' <=> IsPending(m)
                          /\ InHand(m)' <=> InHand(m)
    BY <2>1 DEF InQueue, IsPending, InHand
  <2>3. \A m \in M : ~IsPending(m) /\ ~InHand(m)
    BY <1>0 DEF OnePlace, InHand
  <2>4. \A m \in M : FateOf(m) = "accepted" /\ FateOf(m)' = "discarded"
    BY <2>1, <2>2, <2>3 DEF FateOf
  <2>5. \A m \in Metric \ M : FateOf(m)' = FateOf(m)
    BY <2>1, <2>2 DEF FateOf
  <2>6. Pipe!Turn(M, "accepted", "discarded")
    BY <2>4, <2>5, TurnIntro
  <2>7. Pipe!Discard(M)
    BY <2>1, <2>6 DEF Pipe!Discard
  <2>. QED BY <2>6, <2>7 DEF Pipe!PipeNext, Pipe!Turn, Pipe!Having
<1>8. ASSUME UNCHANGED <<queue, callers, hand, end>>
      PROVE  \A m \in Metric : FateOf(m)' = FateOf(m)
  BY <1>8 DEF FateOf, InQueue, InHand, IsPending, callers
<1>9. CASE stop_write_threads
  <2>1. [m \in Metric |-> FateOf(m)]' = [m \in Metric |-> FateOf(m)]
    BY <1>8, <1>9 DEF stop_write_threads
  <2>2. Pipe!Stop
    BY <1>9, <2>1 DEF stop_write_threads, Pipe!Stop
  <2>. QED BY <2>2 DEF Pipe!PipeNext
<1>10. ASSUME UNCHANGED <<queue, callers, hand, end>>,
              (main \in {"init", "run"})' <=> main \in {"init", "run"}
       PROVE  UNCHANGED Pipe!pipe
  BY <1>1, <1>8, <1>10
<1>11. ASSUME NEW w \in Writer, write_loop_test(w) \/ write_dequeue_empty(w)
                                \/ spurious_wakeup(w)
       PROVE  UNCHANGED Pipe!pipe
  BY <1>10, <1>11 DEF write_loop_test, write_dequeue_empty, spurious_wakeup
<1>12. ASSUME NEW S \in SUBSET Writer, start_write_threads(S) PROVE UNCHANGED Pipe!pipe
  BY <1>10, <1>12 DEF start_write_threads
<1>13. CASE join_write_threads \/ UNCHANGED vars
  BY <1>10, <1>13 DEF join_write_threads, vars, writers
<1>. QED BY <1>2, <1>3, <1>4, <1>5, <1>6, <1>7, <1>9, <1>11, <1>12, <1>13
     DEF Next, DispatchCall, WriterStep, ShutdownStep

\* plugin_dispatch_values keeps the promise of MetricPipe: calls are atomic,
\* kept metrics are handled at most once and lost only in a shutdown.
THEOREM Refinement == Spec => ImplementsPipe
<1>1. Init => Pipe!PipeInit
  BY MetricFacts, WriteQueueAssumption DEF Init, Pipe!PipeInit, FateOf, InQueue, InHand, IsPending
<1>. QED BY <1>1, Invariance, PipeStep, PTL DEF Spec, ImplementsPipe, Pipe!PipeSpec

=============================================================================
