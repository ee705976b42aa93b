# A TLA+ model of collectd

collectd is a daemon that reads metrics at regular intervals, passes them
through filters and a cache of current values, and hands them to plugins that
store or forward them.  Nearly all of its core is in `src/src/daemon`: the plugin
dispatcher `plugin.c`, the filter chains `filter_chain.c` and the value cache
`utils_cache.c`; the read scheduler is built on the heap of `utils/heap`.  Three
plugins belong to nearly every installation and have caches, queues and threads of
their own: `threshold`, `rrdtool` and `network`.  The data that cross the daemon are
simple; what is hard is that configuration, read threads, write threads, the main
loop, the threads of plugins and the shutdown all work on the same lists.  This
directory holds TLA+ models of those parts, TLC configurations that check them on
small instances, and TLAPS proofs for all instances.

## 1. Inventory

| part | state | operations | used by | what is hard |
|---|---|---|---|---|
| read scheduler (`plugin.c`) | `read_heap`, `read_list`, `read_loop`, the `read_func_t` objects | register, unregister by name or group, the read threads, `-T` mode, start, stop | plugins, main | functions leave the heap while a thread works on them; removal marks them, another thread frees them; one condition variable for two kinds of waiting |
| write queue (`plugin.c`) | `write_queue_head/tail/length`, `write_loop`, statistics | dispatch, drop decision, enqueue, dequeue, start, stop | all producers, write threads, main | check and insertion are separate critical sections; wakeups; shutdown |
| value cache (`utils_cache.c`) | `cache_tree` of `cache_entry_t` | `uc_update`, `uc_check_timeout`, accessors, history, meta data, iterator | write threads, main loop, plugins | callbacks run without the lock in the middle of a time-out; wall-clock arithmetic |
| cache events (`plugin.c`) | `list_cache_event[32]`, `callbacks_mask` | register, unregister, NEW/UPDATE/EXPIRED | write threads, main loop | the answer to NEW is stored later, by name |
| callback registry (`plugin.c`) | lists for init, write, flush, missing, shutdown, log, notification | register, unregister, walk | everything | walked without a lock |
| binary heap (`utils/heap`) | array, length, size | insert, get root | read scheduler | a recursion that stops early, index arithmetic that wraps around, an array that shrinks |
| filter chains (`filter_chain.c`) | chains of rules, matches, targets | `fc_process_chain`, the built-in targets | write threads | jump, stop and return unwind a nest of chains by different amounts |
| thresholds (`threshold.c`) | tree of thresholds; `state` and `hits` in the cache | check a value, report a state, report a missing value | write and main thread | rate, hits and state are read under separate locks while the entry may vanish |
| rrdtool plugin (`rrdtool.c`) | `cache` of values per file, `queue`, `flushq`, `do_shutdown` | insert, flush all or one file, the queue thread, shutdown | write threads, flush commands, main | a file is moved between the queues in two critical sections; rate-limited waits; shutdown |
| network plugin (`network.c`) | `send_buffer`, `send_buffer_vl`; `receive_list` and a private list; `listen_loop` | write, flush, encode, decode, receive and dispatch thread, shutdown | write threads, main, other daemons | delta encoding over packets that get lost; a lock that is only tried; two threads that stop in turn |
| daemon life cycle (`collectd.c`, `cmd.c`) | `loop`, signals | init, main loop, shutdown | - | order of the parts, signal threads |
| configuration, types.db, meta data, lookup, formatters | trees and text | parse, look up, format | start-up, plugins | sequential |
| other plugins | their own caches and queues | read, write, flush, shutdown | daemon | exec, statsd, aggregation have threads and queues |
| collectdmon, clients, bindings | - | - | - | separate programs or foreign run-time systems |

Interactions: read functions (in read threads) and the threads of plugins call
`plugin_dispatch_values`; this puts a copy into the write queue; a write thread
takes it out, runs the pre-cache chain, `uc_update`, the post-cache chain and the
write callbacks.  `uc_update` calls the cache event callbacks; the main loop calls
`uc_check_timeout`, which calls the missing and the cache event callbacks.  Shutdown
stops the read threads, then the write threads, then calls flush and shutdown
callbacks, then frees the lists.

The properties that make the parts correct: a read function has one owner, is called
when it is due and not before, and is freed once after it has been removed; a value is
queued, handled or dropped once and in order; the cache holds the newest value, silent
values expire, events reach those who asked for them; a value list takes the way
through the chains that the manual's flow control describes; an alarm and its end are
announced, and once; what rrdtool has accepted reaches its file; a packet can be
decoded whatever became of the ones before it; and everything stops when it is told
to.  `PROJECT.json` lists under `hazards` where each of them could go wrong in the
code.

## 2. Plan

Done, in this order:

1. `PluginRead`: the read scheduler.
2. `MetricPipe` and `WriteQueue`: what dispatching promises, and the queue that
   implements it.
3. `ValueCache`: values, time-outs and cache events.
4. `PrioritySet` and `Heap`: what the scheduler expects of its heap, and the array
   that implements it.
5. `RrdTool`: the cache, the queues and the thread of the rrdtool plugin.
6. `Network`: encoding and decoding, and the threads that receive.
7. `FilterChain`, `FlowControl`, `Threshold` and `Dispatch`: the chains as a function
   against the flow control of the manual, the threshold plugin over the cache, and their
   composition in `plugin_dispatch_values_internal`.
8. Proofs: every invariant and every action property of a passing run is a theorem.

Next, in this order:

9. `Lifecycle`: `plugin_init_all`, `do_loop`, the signals, `plugin_shutdown_all`
   and the callback lists, composed from the abstract behaviour of the read
   scheduler, the write queue and the cache.
10. `ValueHistory`: the ring buffer behind `uc_get_history`, against a plain
    sequence of the last values.
11. The meta data by which the network plugin keeps a server from sending back what
    it received; counter arithmetic; the processes of `exec.c`; `collectdmon`.

Theorems worth having for each: type correctness and the main safety
invariants, for any number of threads, and refinement where there is an
abstract specification.

## 3. The modules

General conventions.  Names are those of the source.  A step is a critical
section, or what a thread does between two critical sections; this is exact
because all shared variables but the flags `read_loop` and `write_loop` are
accessed under their mutex, and reading a flag is a step of its own.  Condition
variables are represented by the set of threads that are blocked on them; threads
may wake up spuriously.  Callbacks are arbitrary: their duration is the distance
between two steps, their result a free choice.  Definitions named `X_Y` are `X`
with a plausible mistake `Y`; nothing uses them except the entries `mutants` of
`PROJECT.json`, which show that each property notices such a mistake.  Allocation
failures are not modelled (in `Heap`, an insertion that fails is a step that changes
nothing); a `pthread_create` that fails is.

### PluginRead

| model | code |
|---|---|
| `read_heap`, `read_list` | the heap and the list, as sets of functions |
| `rf_type` | `RF_SIMPLE`/`RF_COMPLEX` ("active"), `RF_REMOVE`, and before and after the life of the object |
| `rf_next_read` | `rf_next_read - cdtime()`; time is relative, so that the state space is finite |
| `rf_udata` | who has to free the user data |
| `pc`, `mine`, `sampled` | program counter, `rf` and `rf_type` of each `plugin_read_thread` |
| `once_rf`, `main` | `plugin_read_all_once` and the main thread |

`read_loop_test`, `read_take_root`, `read_wait`, `read_sleep`, `read_timeout`,
`read_sample_type`, `read_leave`, `read_destroy`, `read_call` and `read_return` are
the body of `plugin_read_thread` from top to bottom.  `plugin_insert_read`,
`plugin_register_read_duplicate`, `plugin_unregister_read` and
`plugin_unregister_read_group` may happen whenever somebody can call them: while
the configuration is read (functions in `Boot`), later from a callback or from a
plugin's thread.  In `-T` mode callbacks do not register functions.  The heap is a
set whose root is any function with the earliest date; that the code's heap is
such a set is what `Heap` shows.  The branch for
`rf_interval == 0` is left out, registration never produces it.

### MetricPipe and WriteQueue

A metric is a pair of its producer and a number.  `NewCall`, `dispatch_drop` and
`dispatch_keep` are the drop decision of `plugin_dispatch_values` (one value) and
`plugin_dispatch_multivalue` (several values), `plugin_write_enqueue` inserts one
value.  The random number of `check_drop_value` is a free choice, so the decision is
`MayDrop` (probability above 0) or `MayKeep` (below 1).  `plugin_dispatch_values_internal`
is one step that writes the value or, if it is in `Invalid`, refuses it; `Dispatch`
looks into this step.  `end` is a history variable.

`MetricPipe` is the promise to the callers: a call is accepted or dropped as a
whole; what is accepted is handled at most once and is lost only in a shutdown.
`WriteQueue` implements it under the mapping `FateOf`.

### ValueCache

The fields of an entry are functions on names.  `age` is `cdtime() - last_update`
(negative after the clock was set back), which the code computes as an unsigned
difference; `Stale` says what this difference does.  `uc_insert`,
`uc_update_rejected` and `uc_update` are the three outcomes of `uc_update` under the
lock; `event_new`, `uc_set_callbacks_mask`, `event_update` are what follows without it,
one callback per step.  `collect_expired`, `dispatch_missing`, `event_expired` and
`remove_expired` are the three phases of `uc_check_timeout`.  `newest`, `answer` and
`early`, the number of callbacks registered before the write threads started, are
history variables.  `state` and `hits` are in `Threshold`; values and
rates, history, meta data and the iterator are not modelled.
A mask is the set of its bits, and `Skipped` is the code's
`callbacks_mask && (1 << (i)) == 0`, as written.

### PrioritySet and Heap

`PrioritySet` is what `PluginRead` uses for `read_heap`: a set from which an element
with the earliest date can be taken.  `Heap` is the array of `heap.c` with its indices
in `size_t`.  Each call of the recursive function `reheap` is a step
(`reheap_return` and `reheap_swap`), `c_heap_insert` and `c_heap_get_root` are the parts
before it and `free_some_memory` the part after it.  An element's date is what
`plugin_compare_read_func` looks at; its owner sets it when the element is inserted.
The set takes its step with the first step of the call, the others are stuttering
steps: the mutex of the heap hides the states between from all callers.

### RrdTool

A value is its time stamp.  `cache` maps a file to its entry: the values, the times of
the first and the last, the random variation, and the flag that says in which queue the
file is.  `rrd_cache_insert` is what a write thread does, with the periodic flush at its
end.  `rrd_cache_flush` is a flush of everything; the flush of one file is two steps,
`flush_identifier` and `flush_requeue`, because `rrd_queue_dequeue` and
`rrd_queue_enqueue` take `queue_lock` separately: `cache_lock` is held all the time and
the variable `flusher` tells who holds it.  `queue_wait`, `queue_timedwait`, `queue_exit`,
`queue_dequeue`, `queue_get` and `queue_update` are the body of `rrd_queue_thread`;
`shutdown_flush`, `shutdown_signal` and `rrd_cache_destroy` that of `rrd_shutdown`.  Ages
are unsigned differences (`Old`).  The order in which a flush visits the files of the
tree is arbitrary.

### Network

Two daemons.  The sender's `network_write` encodes a value list into `send_buffer`; a
field that equals the one of the value list before (`send_buffer_vl`) is not repeated.
If a part does not fit, the packet is sent and a new one begun; `PartlyWritten` is what
a value list leaves behind that does not even fit into an empty packet.  `sent` holds all
packets, and the receiver gets any of them, in any order and any number of times.
`receive_loop_test`, `receive_packet`, `receive_try` and `receive_end` are
`network_receive`, where the lock of the list is only tried; `dispatch_lock`,
`dispatch_wait`, `dispatch_take` and `dispatch_parse` are `dispatch_thread`, which keeps
the lock from `dispatch_lock` on, so that a try can fail.  `Parsed` is the loop of
`parse_packet` over the parts of a packet, `ParsePart` what it does with one of them,
with the refusal of incomplete value lists in `network_dispatch_values`.  Values travel
in one direction only, so that the checks against circles always pass.  The length of
the list is a number modulo `Width`; `receive_try` evaluates the assertion of the code on
it (`LengthMatches`) and, if it fails, aborts the daemon (`Abort`), after which none of its
threads takes a step.  Sizes count parts; `BuffSigSize` is the room that
the code leaves for a signature.

### FilterChain, FlowControl, Threshold and Dispatch

`fc_process_chain` takes a value list to what becomes of it: the value,
the writes it has led to, and the status.  Its three loops are `Rules` and twice
`Targets`, recursive functions of the number of rounds; `NextRule` and `NextTarget` are
one round.  The code calls chains recursively; in the model `ProcessChain` is given what
the called chains do, one level deeper, and `ProcessChains` has as many levels as there
are chains.  Matches are sets of values; targets of
other modules change the value (`set`) or fail (`fail`).  The reference is `Flow` in
`FlowControl`: the section "Flow control" of collectd.conf(5) read as a list of what is
still to do, the rest of the current chain first, then that of the chain which called it,
and so on.  One step takes the first thing from the list; there are no statuses that
chains pass to each other.  `NoCircle` says that chains do not call each other in a
circle; only then does the code end, and only then is the flow compared.

`Threshold` is the write callback of the plugin: `uc_get_rate`, `ut_check_one_data_source`,
`ut_check_threshold`, `uc_get_hits`, `report_count`, `uc_get_state`, `uc_set_state` and
`plugin_dispatch_notification` are the steps between which another thread may get hold of
`cache_lock`.  The check of a value list is a loop over thresholds and data sources, and
each turn looks up the state of the entry anew: `turn` is where a thread is in it,
`ut_check_threshold` its last turn.  `ut_missing` is the callback for missing values.
Any number of write threads may check the same metric.  History variables, all of them
since the entry was made: `notified` and `repeated` the last notification, `result` what a
check found for the value that is in the cache now, `row` the checks in a row that found a
value out of range, and `overlap` whether two checks have been under way at once.

`Dispatch` composes them: `plugin_dispatch_values_internal` runs the pre-cache chain,
`plugin_write` calls the threshold plugin as often as the writes of the chain name it,
`uc_update` changes the cache entry - or refuses an older value, which goes on all the
same - and runs the post-cache chain.  `plugin_dispatch_missing` and `uc_remove` are the
main thread, which may take the metric for silent at any time.

## 4. The runs

| run | instance | shows |
|---|---|---|
| `read_safety` | 3 threads; functions a, b at start-up (each may be absent), c later under a's name; intervals 1 and 3, `MaxReadInterval` 2 | one owner; the list is consistent; nothing leaks; no call is early, none is postponed too far, although the failure of a function whose own interval exceeds `MaxReadInterval` shortens it |
| `read_live` | 2 threads, 3 functions, unit intervals | functions are called again and again, removed ones are freed and not called again |
| `read_stop_hangs` | 2 threads, 1 function | *violation*: the shutdown can hang |
| `queue` | 2 producers with 3 metrics each, one of them invalid, batches of 1 and 2, 2 write threads, limits 0 and 1 | counter, order, no loss or duplication, bounded overshoot, refinement of `MetricPipe`; every queued value is handled; the shutdown ends |
| `cache` | 2 write threads, 1 metric, time stamps 1-3, interval 1, 2 callbacks, registered before or after the threads start, clock set back by 1 | missing values are still cached; the newest value wins; NEW comes first; updates reach subscribers; silent metrics expire |
| `heap_safety` | 7 elements, 3 dates, chunks of 1, `size_t` of 4 bits | indices stay in the array, only an earliest element is taken, memory is returned |
| `rrd` | 2 files, up to 2 accepted values, clock up to 3, all timeouts 1, with `WritesPerSecond` or with flush commands for one file | flags and queues agree; no value is lost, doubled or overtaken; a flushed file is written; the shutdown writes everything and ends |
| `rrd_thread_gives_up` | the same with both | *violation*: the queue thread can end while the daemon runs |
| `network` | 3 fields, 4 value lists of which one fits into no packet, 3 writes, 3 packets received | every packet stands for itself; nothing is lost or doubled between the threads; the assertion on the length fails only during a shutdown; what is handed over is taken |
| `network_shutdown_loses` | the same with 1 write | *violation*: packets stay behind in the list |
| `dispatch` | 1600 configurations of two chains and 24 of three, without values; 4 with 2 or 3 value lists of a metric with two data sources, 5 lists of thresholds, one of them for a data source that the metric does not have; 2 write threads | the flow control of the manual; and, as long as no two checks of the metric overlap, notifications are not repeated, alarms come after exactly `Hits` + 2 values, recoveries are announced |
| `dispatch_recovery_lost` | 2 write threads, 2 value lists, one threshold | *violation*: the last notification of a metric that is within range again can be the alarm |

Why the bounds are enough to be interesting.  Three threads and three functions give
more threads than functions (waiting for an empty heap) and fewer (functions that
queue up); a removed name can be registered again while the old function is still in
somebody's hands.  `MaxLate`, the lateness at which the clock waits, is at least the
longest interval, so every case of `Reschedule` occurs.  Two producers with batches of
two exceed the limit in every possible way (the bound of `QueueBounded` is reached),
and six metrics go round the queue often enough for it to become empty and to be
refilled.  In the cache an entry can be created, updated by the other thread during
the NEW loop, expire, be removed and created anew, all while one of the threads is
still at its events.  Seven elements fill three levels of the heap, so that `reheap`
goes over an inner place in both directions; a chunk of 1 makes the array grow and
shrink all the time.  With two files one can be in each queue, or one moved while the
thread works on the other.  The packets of `network` have room for two value lists of
one metric or for one of another, so that the delta encoding goes on, is cut off by a
full packet and by a flush; three packets are enough for one to be held back in the
private list, and for the length to wrap around before the next is handed over.  The
chains of `dispatch` have every built-in target in every place: before and after a
jump, in a called rule, as a default target of either chain; the nests of three chains
let stop and return come from two levels down.  Two or three values of one metric, out
of order and in the hands of two threads, with removals between any two steps, count
hits up and reset them.  The constants `MaxMetrics`, `MaxTime`, `MaxName`,
`MaxInterval`, `MaxBack`, `MaxSlots`, `MaxLen`, `MaxValues`, `MaxWrites` and
`MaxPackets` are bounds of the model; the code has 32 slots and no other bound.
Deadlock is checked in `PluginRead`, `ValueCache` and `Heap`.  In the other modules a
daemon that has stopped, or whose producers are at their bound, really has nothing
left to do.  Threads and functions are treated as symmetric only in runs that check
invariants and nothing else.  The run `cache` has one metric because its liveness is
checked together with its safety; the theorems are about any number of metrics.

### Fairness

`PluginRead` and `WriteQueue`: each thread is scheduled (weak fairness of its own
steps, which includes that callbacks return: collectd has no way to interrupt one
that does not), a shutdown that has begun goes on, and time passes.  `WriteQueue`
also assumes that a dispatch call that has begun goes on.  Nothing is assumed about
producers calling, about registrations, about the moment of the shutdown, or about spurious wakeups.
`ValueCache`: time passes and the main loop keeps calling `uc_check_timeout`, which
`do_loop` does once per interval; and the clock is not set back for ever: a clock that
were set back again and again would keep a value from becoming old.
`RrdTool`: the queue thread is scheduled, its timed wait ends, a flush command that has
begun goes on, and so does a shutdown.  `Network`: the dispatch thread is scheduled; nothing
is assumed about packets or about the receive thread.

## 5. What the violations show

* `read_stop_hangs`.  Thread 1 holds the only function.  Thread 2 tests
  `read_loop`; then `stop_read_threads` clears it and broadcasts; then thread 2
  finds the heap empty and waits on `read_cond`, which nobody signals again.
  `plugin_write_dequeue` tests its flag under the lock and has no such problem.
* `rrd_thread_gives_up`.  With `WritesPerSecond` set, the queue thread waits for its next
  turn with the file in the slow queue.  A flush command takes the file out of that queue;
  before it puts it into the fast one the thread's wait ends, and the thread, which does
  not test the queues again, finds both empty and takes this for the shutdown phase.
  Nobody starts it again: from then on nothing is written.
* `network_shutdown_loses`.  `network_shutdown` sets `listen_loop` first.  The dispatch
  thread may see it with an empty list and leave, while the receive thread still has
  packets to hand over.  They are never dispatched.  The dispatch thread has also counted
  the length of the empty list down; a receive thread that comes to the assertion on it
  (`network.c:2352`) aborts the daemon instead.  `AbortOnlyInShutdown` in the run `network`
  says that this is the only time at which the assertion can fail.
* `dispatch_recovery_lost`.  collectd-threshold(5) promises a notification when a value
  comes within range again.  Two write threads work on two values of a metric.  The one
  with the older value, out of range, sets the state; the other one finds the newer value
  within range, sets the state and notifies; then the first one sends its alarm.  The entry
  is okay, so that values within range are not reported any more, and the alarm stays the
  last word.  `ut_report_state` reads, sets and notifies in steps that nothing holds together.

Three more findings are shown by properties of the passing run `dispatch`, which state
what the code does where two places of the documentation disagree or one of them is wrong.

* `FollowsFlowControl`.  The section on flow control says that `stop` ends the processing of
  a value list, in called chains too, and the code does so.  The description of `jump` says
  that processing goes on after the jump if the called chain was left by `stop`.
* `AlarmAfterHits`.  `Hits` is compared with `>`, and the value that passes the comparison
  is not counted, so that an alarm needs two values more than `Hits` says.  The property
  says that it comes neither later nor earlier.
* `AlertsAlternate`.  The manual says that without `Persist` an alert is sent only if the
  previous value was okay; the code reports every change, also one from a warning to a
  failure and back.

These properties and `RecoveryUnlessOverlap` are about a metric whose checks have not
overlapped since it entered the cache.  With five write threads (the default) checks may
overlap.  Then two threads that both see the old state send the same alert twice; hits
that are read by one thread and counted by another are lost or counted in the wrong order,
so that an alarm is late or early; and states are set in one order and notified in the
other, which is `dispatch_recovery_lost`.  `overlap` is reset only when the entry is made
anew: after an overlap what the cache and the user know may differ until then.

Other deviations from the documentation that the models contain and no run is
devoted to: the queue may exceed `WriteQueueLimitHigh` (by at most what `QueueBounded`
says); if a plugin's interval exceeds `MaxReadInterval`, the first failure shortens
it; the user data of a read function that cannot be registered are freed although
`plugin.h` says they are not; in `-T` mode functions are called although they have
been unregistered; updates that fall into the NEW loop of their metric are not
reported to its subscribers; a value that is updated while its missing callbacks run
is removed; a dropped multivalue call is counted as one dropped value
(`plugin.c:2280`); the mask of cache events is tested with `&&` where `&` is meant, so
that callbacks that declined get events (`plugin.c:2043`, the operator `Skipped`); when the
wall clock is set back fresh values are taken for stale (`utils_cache.c:244`, the operator
`Stale`), so that no property says that only silent values are missing.

In the chains and thresholds: `Persist` does not apply to missing values.  With `Invert`
and no failure limits the state always is a failure.  `STATE_MISSING` is never set.  Chains
that jump in a circle recurse without end; no such chain is in a run, and `NoCircle`
excludes them from `FollowsFlowControl`.

In the plugins: a flush command for a single file during `rrd_shutdown` may come after
the queue thread has ended, and its values are lost with the cache (`conf.late`).  A signal that
comes between the test of `listen_loop` and `poll` is lost, and the shutdown of the network
plugin then waits for the next packet.  A value list that fits into no packet leaves its
fields in `send_buffer_vl`, and the next packet lacks them; `PacketsDecode` therefore
speaks of runs in which no call of `network_write` has failed.  `BUFF_SIG_SIZE` being
larger, the flush of a packet with fewer than 15 bytes left never happens.

## 6. Proofs

The proofs hold for any number of threads, producers, functions, names and
metrics, and any values of the options that satisfy the `ASSUME` of the module.

* `PluginRead_proofs`.  The invariants of the runs are not inductive: that a
  function has one owner depends on which states of a thread have something in
  hand.  `Control` says this; `Sampled` says that the copy of the type can be
  outdated in one direction only; `Punctual` relates dates, intervals and threads;
  `ListedActive` relates list and types.  Together they are inductive, and
  `TypeCorrect`, `ExactlyOneOwner`, `ListIsConsistent`, `ShutdownFreesAll`,
  `CallsAreNotEarly` and `DatesAreClose` follow.  `RemovedStaysRemoved` is the temporal property
  `RemovedNotCalled`, from the invariant that a removed function in the heap stays
  uncalled.
* `WriteQueue_proofs`.  The inductive invariant says where each number of a producer
  can be: finished or in hand, then queued in order, then pending.  Duplicates,
  overtaking and the counter follow from it.  `BoundedQueue` counts the reservations
  of producers between check and insertion.  `Refinement` maps every step to a step of
  `MetricPipe` or a stutter.
* `ValueCache_proofs`.  `Control` ties the places of the threads to the sets they work
  on; `Offered` gives `NewComesFirst`, for the callbacks that were registered before
  the write threads started (`early`), as init callbacks are.  `Subscribed` says where
  a subscription can be until the mask is stored: in the mask of a NEW loop, or before
  its place; it gives `SubscribersAreTold`, whatever becomes of the entry meanwhile.
  That the least element exists, which the loops over slots and names need, is
  `FirstIsLeast`.
* `Heap_proofs`.  While `reheap` works the array is ordered except at one place.  On the
  way down (`OrderedBut`, `Above`) this is below the root of `reheap`, and the root's
  parent is not later than the root's children.  On the way up (`Rising`) one child of
  the root may be earlier than it; the code does not know which, and exchanges it only
  because it is then the smaller of the two.  `Shape` says which of the two holds where,
  and that `reheap` is called outside the array only for the very first element, where
  it finds no children (`FirstHasNoParent`).  `RootIsLeast` takes the first place that
  is earlier than the root and looks at its parent.  `TypeCorrect`, `MemoryBounded`
  and `Refinement` (every step is a step of `PrioritySet` or a stutter) follow.

* `SequenceFacts`.  What the operators on sequences do that `RrdTool`, `Network` and
  `FilterChain` are built from, and a substitute for induction over data, for which the provers have no
  rule: a loop over a sequence is a recursive function on `0..n`, `LoopExists` shows that
  there is one if every step leads from a state to a state, and `LoopInduction` takes
  the least step at which a claim fails (`LeastExists`).  `FlattenAppend` is an example.
  `WhileExists` is the same for a loop that goes on until a condition holds: it is a
  function of its first state, whether it ends or not, so that `Flow[s] = Flow[FlowStep(s)]`
  can be used before anything is known about the end.
* `RrdTool_proofs`.  `NoValueIsLost` and `FlagsAreQueued` need `Control`: at which places
  the thread has a file, that freed entries hold nothing, and when `do_shutdown` is set.
  They hold in every configuration.  `EverythingIsWritten` and `ThreadEndsInShutdown`
  assume that no flush command for a single file comes after `rrd_shutdown` was called,
  and that such commands are not used together with `WritesPerSecond`; without the
  second assumption the run `rrd_thread_gives_up` refutes them, without the first
  section 5 tells what happens.  `Orderly` is how a shutdown proceeds then: after the
  last flush whatever holds values is in a queue, and the thread leaves only when both
  queues are empty.  Files are assumed to be finitely many (`IsFiniteSet(File)`): a flush
  puts them into a queue.
* `Network_proofs`.  Sender and receiver share nothing but packets, and so do their
  invariants.  `Remembered` says that `send_buffer_vl` is what a receiver knows after the
  parts of the buffer; `EncodedParses`, that the parts which `add_to_buffer` writes take
  a receiver from the fields of one value list to those of the next and make it
  dispatch that value list, by a loop induction over the fields.  `EveryPacketDecodes`
  follows for any fields, value lists and packet sizes.  `Counted` relates
  `receive_list_length`, an unsigned number, to the lists; `NoPacketIsLost` and
  `NoAbortWhileRunning` (the assertion holds whenever it is evaluated before the shutdown)
  follow.  The only assumption that is about numbers is that the counter
  is wide enough for the packets there are (`MaxPackets < Width`).
* `Dispatch_proofs`, notifications.  What the chains do does not matter to them, so that
  the theorems hold for any chains and any thresholds.
  `Knows` says what a thread has read and found between `ut_check_threshold` and its
  report, by an invariant of the loop (`Loop`, `Found`: the worst state of the turns so
  far, each with the state that the entry had in that turn); `Told`, that the state in the
  cache is the last one reported unless a report is on its way; `Counting`, that until
  there is an alarm the hits keep up with the values out of range; `Earned`, that they are
  not ahead of them; `Changing` and `Recovering`, what a change of the state leads to.  All
  are said of a metric in the cache, because `uc_check_timeout` may remove it between any
  two steps, and of one thread: as long as no checks overlapped there is a thread besides
  which nobody is in the callback (`Solo`) and of which all this holds (`Good`), while the
  others may update the entry under its hands.  `HandOver` passes it on to the next thread
  that enters.  `NoAlertIsRepeated`, `AlarmIsRaised` and `RecoveryIsAnnounced` follow for
  any number of write threads; that checks do not overlap is part of the properties, not an
  assumption on the constants, and section 5 tells what happens when they do.
* `Dispatch_proofs`, chains.  `ChainsFollowFlowControl` is `FollowsFlowControl` for any value
  lists, any write plugins, any number of chains, rules and targets, and chains nested to
  any depth.  The code passes a status up through loops and calls, the flow drops parts
  of a list; `Outcome` and `ChainOutcome` say what the flow has still to do when a target
  or a rule, or a whole chain, has ended with a given status.  `ItemsFlow` is an induction over the
  rounds of a loop, once for targets and once for rules; `ChainFlow` puts rules and
  default targets together, under the hypothesis that the called chains are right
  (`Right`, for every list of callers, so that it can be used at any depth).  The last
  induction is over the numbers of the chains in `NoCircle`: at depth n all chains with
  numbers up to n are right.  The assumptions are that the chains are finitely many and
  well-formed (`SetupsAssumption`; `fc_config_add_rule` refuses rules without targets) and
  `NoCircle`, which is part of the property.

The inductive invariants were checked with TLC before they were proved, on the
instances of the runs; those of `RrdTool` in all eight configurations.

Only model-checked: all liveness properties (`ReadsHappen`, `RemovedIsFreed`,
`QueuedIsHandled`, `StopTerminates`, `SilentExpires`, `FlushedIsWritten`,
`ShutdownEnds`, `PushedIsTaken`), which need fairness and `ENABLED`, of which this prover
knows nothing.

## 7. Not modelled

Allocation failures; the contents of value lists beyond what the properties tell
apart; the callback lists and their missing locks; the life cycle of the whole daemon
and what section 2 lists as planned; in the modelled plugins their configuration,
encryption and signatures, notifications over the network, the creation of files and
librrd, percentages in thresholds; the matches and targets of other modules, which
appear by what they return.  All other plugins - some hundred of them, most of the
repository's lines - read counters from an operating system or a service, or speak a
foreign protocol: to the daemon they are callbacks with arbitrary results, and this is
how the models treat them.  Text processing, configuration, foreign libraries and
separate programs have no state worth a model.
