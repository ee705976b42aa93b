----------------------------- MODULE PluginRead -----------------------------
(***************************************************************************)
(* The read half of src/daemon/plugin.c: the registry of read functions    *)
(* (read_list), the schedule they wait in (read_heap), the pool of read    *)
(* threads that call them, and what the main thread does with all three    *)
(* at start-up, in the `-T' test mode and at shutdown.                     *)
(*                                                                         *)
(* Every step of a thread that holds read_lock is one action; everything   *)
(* a thread does between two critical sections is another, so that the     *)
(* interleavings of the code are the interleavings of the actions.         *)
(* read_cond is represented by the threads blocked on it: pc = "wait"      *)
(* (pthread_cond_wait, no function to call) and pc = "sleep"               *)
(* (pthread_cond_timedwait, a function in hand that is not due yet).       *)
(*                                                                         *)
(* Time is relative: rf_next_read[rf] is the code's rf_next_read minus the *)
(* current cdtime(), so a tick of the clock lowers it by one and a value   *)
(* at or below zero means "due".  MaxLate bounds how late a function may   *)
(* get before the clock waits for the threads; it is at least the longest  *)
(* interval, so the clock never waits for a thread that only sleeps.       *)
(*                                                                         *)
(* Not modelled: allocation failures, and the branch for rf_interval == 0, *)
(* which registration never produces (plugin_get_interval falls back to a  *)
(* positive default).                                                      *)
(***************************************************************************)
EXTENDS Integers

CONSTANTS
  Thread,           \* the read threads (global option ReadThreads)
  Rf,               \* the read_func_t objects of an execution
  Boot,             \* those registered before the read threads are started
  Configured,       \* those of them that the configuration always registers
  Name,             \* rf_name of every object
  Group,            \* rf_group of every object
  Interval,         \* rf_interval of every object
  Removable,        \* names that somebody may unregister
  RemovableGroup,   \* groups that somebody may unregister
  MaxReadInterval,  \* global option MaxReadInterval
  MaxLate,          \* bound: how late a function may become
  StartModes,       \* "daemon", and "test" for a start with `-T'
  NoRf              \* "no read function in hand"

ASSUME PluginReadAssumption ==
  /\ Boot \subseteq Rf
  /\ Configured \subseteq Boot
  /\ Interval \in [Rf -> Nat \ {0}]
  /\ MaxReadInterval \in Nat \ {0}
  /\ MaxLate \in Nat \ {0}
  /\ MaxReadInterval <= MaxLate
  /\ \A rf \in Rf : Interval[rf] <= MaxLate
  /\ StartModes \subseteq {"daemon", "test"}
  /\ NoRf \notin Rf

VARIABLES
  read_heap,              \* the functions waiting in the heap
  read_list,              \* the functions that can be found by name
  read_loop,              \* 1 until stop_read_threads clears it
  rf_type,                \* life cycle of an object, RF_REMOVE included
  rf_next_read,           \* rf_next_read - cdtime()
  rf_effective_interval,  \* rf_interval, doubled by every failure
  rf_udata,               \* who owns the user data of an object
  pc,                     \* control state of every read thread
  mine,                   \* the local variable `rf' of every read thread
  sampled,                \* the local variable `rf_type' of every read thread
  once_rf,                \* the local variable `rf' of plugin_read_all_once
  main                    \* control state of the main thread

schedule == <<rf_next_read, rf_effective_interval>>
objects  == <<rf_type, rf_udata, schedule>>
threads  == <<pc, mine, sampled>>
vars == <<read_heap, read_list, read_loop, objects, threads, once_rf, main>>

-----------------------------------------------------------------------------
(* Helpers *)

\* "none" before registration; "rejected" when registration failed; "active"
\* stands for RF_SIMPLE and RF_COMPLEX, "remove" for RF_REMOVE; "freed" after
\* destroy_callback.
RfType == {"none", "rejected", "active", "remove", "freed"}

Live(rf) == rf_type[rf] \in {"active", "remove"}

\* read_heap != NULL: plugin_insert_read has created the heap.
HeapCreated == \E rf \in Rf : Live(rf) \/ rf_type[rf] = "freed"

\* pthread_cond_broadcast(&read_cond).  (Definitions named X_Y are X with a
\* mistake Y: they are used only to show that the properties notice it.)
Broadcast_NoRecheck(p) ==
  [t \in Thread |-> IF p[t] = "wait" THEN "loop"
                    ELSE IF p[t] = "sleep" THEN "sampled" ELSE p[t]]

Broadcast(p) ==
  [t \in Thread |-> IF p[t] = "wait" THEN "loop"
                    ELSE IF p[t] = "sleep" THEN "held" ELSE p[t]]

\* c_heap_get_root: one of the earliest functions (see module Heap).
IsRoot(rf) ==
  /\ rf \in read_heap
  /\ \A f \in read_heap : rf_next_read[rf] <= rf_next_read[f]

Go(t, from, to) == pc[t] = from /\ pc' = [pc EXCEPT ![t] = to]

\* The interval after a failed read: doubled, but at most MaxReadInterval.
Backoff_NoCap(e) == 2 * e

Backoff(e) == IF 2 * e > MaxReadInterval THEN MaxReadInterval ELSE 2 * e

\* rf_next_read += interval, moved to `now' when that is in the past.
Reschedule(due, e) == IF due + e < 0 THEN 0 ELSE due + e

\* sfree(rf_name) and destroy_callback for every object in F.
Destroy(F) ==
  /\ rf_type' = [rf \in Rf |-> IF rf \in F THEN "freed" ELSE rf_type[rf]]
  /\ rf_udata' = [rf \in Rf |-> IF rf \in F THEN "freed" ELSE rf_udata[rf]]
  /\ rf_next_read' = [rf \in Rf |-> IF rf \in F THEN 0 ELSE rf_next_read[rf]]
  /\ rf_effective_interval' =
       [rf \in Rf |-> IF rf \in F THEN 0 ELSE rf_effective_interval[rf]]

-----------------------------------------------------------------------------
(* Registration.  Configuration and init callbacks register and unregister *)
(* before the threads run; read callbacks and the threads of plugins do so *)
(* at any time until the read threads have been joined.                    *)

MayRegister(rf) ==
  /\ rf_type[rf] = "none"
  /\ IF rf \in Boot
       THEN main = "init"
       ELSE main \in {"run", "idle"} \/ \E t \in Thread : pc[t] = "call"

NameTaken_Never(rf) == FALSE

NameTaken(rf) == \E f \in read_list : Name[f] = Name[rf]

\* plugin_register_read / plugin_register_complex_read that succeed.
plugin_insert_read_NoBroadcast(rf) ==
  /\ MayRegister(rf)
  /\ ~NameTaken(rf)
  /\ rf_type' = [rf_type EXCEPT ![rf] = "active"]
  /\ rf_udata' = [rf_udata EXCEPT ![rf] = "daemon"]
  /\ rf_next_read' = [rf_next_read EXCEPT ![rf] = 0]
  /\ rf_effective_interval' = [rf_effective_interval EXCEPT ![rf] = Interval[rf]]
  /\ read_heap' = read_heap \cup {rf}
  /\ read_list' = read_list \cup {rf}
  /\ UNCHANGED <<read_loop, threads, once_rf, main>>

plugin_insert_read(rf) ==
  /\ MayRegister(rf)
  /\ ~NameTaken(rf)
  /\ rf_type' = [rf_type EXCEPT ![rf] = "active"]
  /\ rf_udata' = [rf_udata EXCEPT ![rf] = "daemon"]
  /\ rf_next_read' = [rf_next_read EXCEPT ![rf] = 0]
  /\ rf_effective_interval' = [rf_effective_interval EXCEPT ![rf] = Interval[rf]]
  /\ read_heap' = read_heap \cup {rf}
  /\ read_list' = read_list \cup {rf}
  /\ pc' = Broadcast(pc)
  /\ UNCHANGED <<read_loop, mine, sampled, once_rf, main>>

\* The same call for a name that is registered already: EINVAL, and the
\* object and its user data are freed.
plugin_register_read_duplicate(rf) ==
  /\ MayRegister(rf)
  /\ NameTaken(rf)
  /\ rf_type' = [rf_type EXCEPT ![rf] = "rejected"]
  /\ rf_udata' = [rf_udata EXCEPT ![rf] = "freed"]
  /\ UNCHANGED <<read_heap, read_list, read_loop, schedule, threads, once_rf, main>>

\* Takes F off read_list and marks it RF_REMOVE; a thread frees it later.
MarkRemoved(F) ==
  /\ F # {}
  /\ main \in {"init", "run", "idle"} \/ \E t \in Thread : pc[t] = "call"
  /\ read_list' = read_list \ F
  /\ rf_type' = [rf \in Rf |-> IF rf \in F THEN "remove" ELSE rf_type[rf]]
  /\ UNCHANGED <<read_heap, read_loop, rf_udata, schedule, threads, once_rf, main>>

plugin_unregister_read(name) == MarkRemoved({rf \in read_list : Name[rf] = name})

plugin_unregister_read_group(group) ==
  MarkRemoved({rf \in read_list : Group[rf] = group})

-----------------------------------------------------------------------------
(* plugin_read_thread *)

\* while (read_loop != 0), evaluated without the lock.
read_loop_test(t) ==
  /\ Go(t, "loop", IF read_loop # 0 THEN "take" ELSE "exit")
  /\ UNCHANGED <<read_heap, read_list, read_loop, objects, mine, sampled, once_rf, main>>

\* c_heap_get_root and, when the heap is empty, pthread_cond_wait.
read_take_root(t, rf) ==
  /\ IsRoot(rf)
  /\ Go(t, "take", "held")
  /\ mine' = [mine EXCEPT ![t] = rf]
  /\ read_heap' = read_heap \ {rf}
  /\ UNCHANGED <<read_list, read_loop, objects, sampled, once_rf, main>>

read_wait(t) ==
  /\ read_heap = {}
  /\ Go(t, "take", "wait")
  /\ UNCHANGED <<read_heap, read_list, read_loop, objects, mine, sampled, once_rf, main>>

\* The timed wait: the condition holds, so the thread sleeps.
read_sleep(t) ==
  /\ read_loop # 0
  /\ pc[t] = "held" /\ rf_next_read[mine[t]] > 0
  /\ Go(t, "held", "sleep")
  /\ UNCHANGED <<read_heap, read_list, read_loop, objects, mine, sampled, once_rf, main>>

\* ETIMEDOUT.
read_timeout(t) ==
  /\ pc[t] = "sleep" /\ rf_next_read[mine[t]] <= 0
  /\ Go(t, "sleep", "held")
  /\ UNCHANGED <<read_heap, read_list, read_loop, objects, mine, sampled, once_rf, main>>

\* A wakeup nobody asked for, which POSIX allows for both kinds of wait.
spurious_wakeup(t) ==
  /\ \/ Go(t, "sleep", "held")
     \/ Go(t, "wait", "loop")
  /\ UNCHANGED <<read_heap, read_list, read_loop, objects, mine, sampled, once_rf, main>>

\* End of the timed wait: copy rf_type while the lock is held.
read_sample_type(t) ==
  /\ pc[t] = "held"
  /\ read_loop = 0 \/ rf_next_read[mine[t]] <= 0
  /\ Go(t, "held", "sampled")
  /\ sampled' = [sampled EXCEPT ![t] = rf_type[mine[t]]]
  /\ UNCHANGED <<read_heap, read_list, read_loop, objects, mine, once_rf, main>>

\* "Check if we're supposed to stop": hand the function back and leave.
read_leave_Drops(t) ==
  /\ read_loop = 0
  /\ Go(t, "sampled", "exit")
  /\ mine' = [mine EXCEPT ![t] = NoRf]
  /\ sampled' = [sampled EXCEPT ![t] = "none"]
  /\ UNCHANGED <<read_heap, read_list, read_loop, objects, once_rf, main>>

read_leave(t) ==
  /\ read_loop = 0
  /\ Go(t, "sampled", "exit")
  /\ read_heap' = read_heap \cup {mine[t]}
  /\ mine' = [mine EXCEPT ![t] = NoRf]
  /\ sampled' = [sampled EXCEPT ![t] = "none"]
  /\ UNCHANGED <<read_list, read_loop, objects, once_rf, main>>

\* The copy says RF_REMOVE: free the function and go on.
read_destroy_Leaks(t) ==
  /\ read_loop # 0 /\ sampled[t] = "remove"
  /\ Go(t, "sampled", "loop")
  /\ mine' = [mine EXCEPT ![t] = NoRf]
  /\ sampled' = [sampled EXCEPT ![t] = "none"]
  /\ UNCHANGED <<read_heap, read_list, read_loop, objects, once_rf, main>>

read_destroy(t) ==
  /\ read_loop # 0 /\ sampled[t] = "remove"
  /\ Go(t, "sampled", "loop")
  /\ Destroy({mine[t]})
  /\ mine' = [mine EXCEPT ![t] = NoRf]
  /\ sampled' = [sampled EXCEPT ![t] = "none"]
  /\ UNCHANGED <<read_heap, read_list, read_loop, once_rf, main>>

\* Enter the callback.
read_call_Unchecked(t) ==
  /\ read_loop # 0
  /\ Go(t, "sampled", "call")
  /\ UNCHANGED <<read_heap, read_list, read_loop, objects, mine, sampled, once_rf, main>>

read_call(t) ==
  /\ read_loop # 0 /\ sampled[t] # "remove"
  /\ Go(t, "sampled", "call")
  /\ UNCHANGED <<read_heap, read_list, read_loop, objects, mine, sampled, once_rf, main>>

\* The callback returns: adapt the interval, compute the next date, hand the
\* function back to the heap.  Nobody is signalled.
read_return_SwappedOrder(t, status) ==
  LET rf == mine[t]
      e  == IF status # 0 THEN Backoff(rf_effective_interval[rf]) ELSE Interval[rf]
  IN  /\ Go(t, "call", "loop")
      /\ rf_effective_interval' = [rf_effective_interval EXCEPT ![rf] = e]
      /\ rf_next_read' = [rf_next_read EXCEPT ![rf] = Reschedule(@, rf_effective_interval[rf])]
      /\ read_heap' = read_heap \cup {rf}
      /\ mine' = [mine EXCEPT ![t] = NoRf]
      /\ sampled' = [sampled EXCEPT ![t] = "none"]
      /\ UNCHANGED <<read_list, read_loop, rf_type, rf_udata, once_rf, main>>

read_return(t, status) ==
  LET rf == mine[t]
      e  == IF status # 0 THEN Backoff(rf_effective_interval[rf]) ELSE Interval[rf]
  IN  /\ Go(t, "call", "loop")
      /\ rf_effective_interval' = [rf_effective_interval EXCEPT ![rf] = e]
      /\ rf_next_read' = [rf_next_read EXCEPT ![rf] = Reschedule(@, e)]
      /\ read_heap' = read_heap \cup {rf}
      /\ mine' = [mine EXCEPT ![t] = NoRf]
      /\ sampled' = [sampled EXCEPT ![t] = "none"]
      /\ UNCHANGED <<read_list, read_loop, rf_type, rf_udata, once_rf, main>>

ReaderStep(t) ==
  \/ read_loop_test(t)
  \/ \E rf \in Rf : read_take_root(t, rf)
  \/ read_wait(t)
  \/ read_sleep(t)
  \/ read_timeout(t)
  \/ read_sample_type(t)
  \/ read_leave(t)
  \/ read_destroy(t)
  \/ read_call(t)
  \/ \E status \in {0, 1} : read_return(t, status)

-----------------------------------------------------------------------------
(* The main thread *)

BootDone == main = "init" /\ \A rf \in Configured : rf_type[rf] # "none"

\* End of plugin_init_all: the threads S that pthread_create could start.
start_read_threads(S) ==
  /\ BootDone /\ "daemon" \in StartModes /\ HeapCreated
  /\ main' = "run"
  /\ pc' = [t \in Thread |-> IF t \in S THEN "loop" ELSE "off"]
  /\ UNCHANGED <<read_heap, read_list, read_loop, objects, mine, sampled, once_rf>>

\* Without a heap, or with `-T' (ReadThreads = -1), no thread is started.
start_no_read_threads ==
  /\ BootDone
  /\ \/ "test" \in StartModes /\ main' = "once"
     \/ "daemon" \in StartModes /\ ~HeapCreated /\ main' = "idle"
  /\ UNCHANGED <<read_heap, read_list, read_loop, objects, threads, once_rf>>

\* plugin_read_all_once: take the root and call it, whatever its rf_type.
read_once_call_Peek(rf) ==
  /\ main = "once" /\ once_rf = NoRf
  /\ IsRoot(rf)
  /\ once_rf' = rf
  /\ UNCHANGED <<read_heap, read_list, read_loop, objects, threads, main>>

read_once_call(rf) ==
  /\ main = "once" /\ once_rf = NoRf
  /\ IsRoot(rf)
  /\ once_rf' = rf
  /\ read_heap' = read_heap \ {rf}
  /\ UNCHANGED <<read_list, read_loop, objects, threads, main>>

read_once_return ==
  /\ main = "once" /\ once_rf # NoRf
  /\ Destroy({once_rf})
  /\ once_rf' = NoRf
  /\ UNCHANGED <<read_heap, read_list, read_loop, threads, main>>

\* plugin_shutdown_all, first part: clear read_loop and wake everybody.
stop_read_threads ==
  /\ main = "run"
  /\ main' = "join"
  /\ read_loop' = 0
  /\ pc' = Broadcast(pc)
  /\ UNCHANGED <<read_heap, read_list, objects, mine, sampled, once_rf>>

\* The same when read_threads == NULL.
stop_no_read_threads ==
  /\ main = "idle" \/ (main = "once" /\ once_rf = NoRf /\ read_heap = {})
  /\ main' = "joined"
  /\ UNCHANGED <<read_heap, read_list, read_loop, objects, threads, once_rf>>

\* pthread_join of every thread that was started.
join_read_threads ==
  /\ main = "join"
  /\ \A t \in Thread : pc[t] \in {"off", "exit"}
  /\ main' = "joined"
  /\ UNCHANGED <<read_heap, read_list, read_loop, objects, threads, once_rf>>

destroy_read_list ==
  /\ main = "joined"
  /\ main' = "unlisted"
  /\ read_list' = {}
  /\ UNCHANGED <<read_heap, read_loop, objects, threads, once_rf>>

destroy_read_heap ==
  /\ main = "unlisted"
  /\ main' = "done"
  /\ Destroy(read_heap)
  /\ read_heap' = {}
  /\ UNCHANGED <<read_list, read_loop, threads, once_rf>>

ShutdownStep == join_read_threads \/ destroy_read_list \/ destroy_read_heap

\* One unit of wall-clock time passes.
Tick ==
  /\ \A rf \in Rf : Live(rf) => rf_next_read[rf] > -MaxLate
  /\ rf_next_read' =
       [rf \in Rf |-> IF Live(rf) THEN rf_next_read[rf] - 1 ELSE rf_next_read[rf]]
  /\ UNCHANGED <<read_heap, read_list, read_loop, rf_type, rf_effective_interval,
                 rf_udata, threads, once_rf, main>>

-----------------------------------------------------------------------------
Init ==
  /\ read_heap = {}
  /\ read_list = {}
  /\ read_loop = 1
  /\ rf_type = [rf \in Rf |-> "none"]
  /\ rf_next_read = [rf \in Rf |-> 0]
  /\ rf_effective_interval = [rf \in Rf |-> 0]
  /\ rf_udata = [rf \in Rf |-> "caller"]
  /\ pc = [t \in Thread |-> "off"]
  /\ mine = [t \in Thread |-> NoRf]
  /\ sampled = [t \in Thread |-> "none"]
  /\ once_rf = NoRf
  /\ main = "init"

MainStep ==
  \/ \E S \in SUBSET Thread : start_read_threads(S)
  \/ start_no_read_threads
  \/ \E rf \in Rf : read_once_call(rf)
  \/ read_once_return
  \/ stop_read_threads
  \/ stop_no_read_threads
  \/ ShutdownStep

Registration ==
  \/ \E rf \in Rf : plugin_insert_read(rf) \/ plugin_register_read_duplicate(rf)
  \/ \E name \in Removable : plugin_unregister_read(name)
  \/ \E group \in RemovableGroup : plugin_unregister_read_group(group)

Next ==
  \/ Registration
  \/ \E t \in Thread : ReaderStep(t) \/ spurious_wakeup(t)
  \/ MainStep
  \/ Tick

Spec == Init /\ [][Next]_vars

\* Threads are scheduled and callbacks return; the main thread, once it is
\* shutting down, goes on; time passes.
Fairness ==
  /\ \A t \in Thread : WF_vars(ReaderStep(t))
  /\ WF_vars(ShutdownStep)
  /\ WF_vars(Tick)

FairSpec == Spec /\ Fairness

-----------------------------------------------------------------------------
(* Properties *)

\* The type invariant of plugin.c's read-side state.
TypeOK ==
  /\ read_heap \in SUBSET Rf
  /\ read_list \in SUBSET Rf
  /\ read_loop \in {0, 1}
  /\ rf_type \in [Rf -> RfType]
  /\ rf_next_read \in [Rf -> Int]
  /\ rf_effective_interval \in [Rf -> 0..MaxLate]
  /\ rf_udata \in [Rf -> {"caller", "daemon", "freed"}]
  /\ pc \in [Thread -> {"off", "loop", "take", "wait", "held", "sleep",
                        "sampled", "call", "exit"}]
  /\ mine \in [Thread -> Rf \cup {NoRf}]
  /\ sampled \in [Thread -> RfType]
  /\ once_rf \in Rf \cup {NoRf}
  /\ main \in {"init", "run", "idle", "once", "join", "joined", "unlisted", "done"}

\* Every registered read function has exactly one owner: the heap or one
\* thread.  So a callback never runs in two threads at once, no function is
\* lost between c_heap_get_root and c_heap_insert, and a thread never holds a
\* function that was freed.
OneOwner ==
  /\ \A rf \in Rf : Live(rf) => \/ rf \in read_heap
                                \/ once_rf = rf
                                \/ \E t \in Thread : mine[t] = rf
  /\ \A t \in Thread : mine[t] # NoRf =>
        Live(mine[t]) /\ mine[t] \notin read_heap /\ mine[t] # once_rf
  /\ once_rf # NoRf => Live(once_rf) /\ once_rf \notin read_heap
  /\ \A rf \in read_heap : Live(rf)
  /\ \A t, u \in Thread : mine[t] # NoRf /\ mine[t] = mine[u] => t = u

\* A name finds the one function registered under it: read_list holds exactly
\* the functions that are not marked for removal, no two of the same name, and
\* never one that a thread has freed, although marking and freeing are done by
\* different threads.
ListConsistent ==
  main \in {"init", "run", "idle", "join"} =>
    /\ \A rf, f \in read_list : Name[rf] = Name[f] => rf = f
    /\ \A rf \in read_list : rf_type[rf] = "active"
    /\ \A rf \in Rf : rf_type[rf] = "active" => rf \in read_list

\* Shutdown frees every read function: whatever the threads held when
\* read_loop was cleared went back into the heap before it is destroyed.
NothingLeaks == main = "done" => \A rf \in Rf : ~Live(rf)

\* A function that is back in the heap after plugin_unregister_read is never
\* called again; at most the call that had passed the check finishes.
RemovedNotCalled ==
  \A rf \in Rf :
    [](rf_type[rf] = "remove" /\ rf \in read_heap =>
         [](\A t \in Thread : pc[t] = "call" => mine[t] # rf))

\* No callback runs before its date, whatever wakes the thread that sleeps on
\* it: a broadcast for somebody else's function, a spurious wakeup, a timeout.
NeverEarly ==
  \A t \in Thread : pc[t] = "call" => rf_next_read[mine[t]] <= 0

\* A function is never scheduled further ahead than its own effective
\* interval, whatever delays, failures and recoveries came before.
ScheduledWithinInterval ==
  \A rf \in Rf : Live(rf) => rf_next_read[rf] <= rf_effective_interval[rf]

\* Every registered function is called, or unregistered, or the daemon stops:
\* no function starves behind others, and no thread sleeps through its work.
ReadsHappen ==
  \A rf \in Rf :
    (rf_type[rf] = "active" /\ main = "run" /\ \E t \in Thread : pc[t] # "off")
      ~> (\/ \E t \in Thread : pc[t] = "call" /\ mine[t] = rf
          \/ rf_type[rf] # "active"
          \/ main # "run")

\* A function marked for removal is freed by some thread while the daemon runs.
RemovedIsFreed ==
  \A rf \in Rf :
    (rf_type[rf] = "remove" /\ main = "run" /\ \E t \in Thread : pc[t] # "off")
      ~> (rf_type[rf] = "freed" \/ main # "run")

\* "These signals cause collectd to shut down all plugins and terminate"
\* (collectd(1)): stop_read_threads returns.
StopTerminates == main = "join" ~> main = "done"

=============================================================================
