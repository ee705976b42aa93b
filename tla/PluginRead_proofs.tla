------------------------- MODULE PluginRead_proofs -------------------------
(***************************************************************************)
(* Proofs about the read half of plugin.c for any number of threads, read  *)
(* functions, names, groups and intervals.                                 *)
(*                                                                         *)
(* The invariants of PluginRead are not inductive by themselves: that a    *)
(* thread may free or re-insert what it holds depends on where it is, and  *)
(* that shutdown may free the heap depends on every thread being gone.     *)
(* Control ties the local variables of the threads and of the main thread  *)
(* to their program counters; Punctual and Sampled say what a thread still *)
(* knows about its function after it has released read_lock.               *)
(***************************************************************************)
EXTENDS PluginRead, TLAPS

Holding == {"held", "sleep", "sampled", "call"}

\* Who holds what, and who may still be running, at every program counter.
Control ==
  /\ \A t \in Thread : mine[t] # NoRf <=> pc[t] \in Holding
  /\ once_rf # NoRf => main = "once"
  /\ main \notin {"run", "join"} => \A t \in Thread : pc[t] \in {"off", "exit"}
  /\ main \in {"unlisted", "done"} => read_list = {}

\* The date of the function in hand has come, unless the wait was cut short
\* by the end of the loop.
Punctual ==
  \A t \in Thread :
    pc[t] = "sampled" /\ read_loop # 0 => rf_next_read[mine[t]] <= 0

\* A copy of rf_type that says RF_REMOVE cannot get out of date.
Sampled ==
  \A t \in Thread :
    pc[t] = "sampled" /\ sampled[t] = "remove" => rf_type[mine[t]] = "remove"

\* As long as somebody may unregister functions, read_list leads to none that
\* was freed (plugin_read_all_once frees functions that are still listed, but
\* only when nobody looks there any more).
ListedActive ==
  main \in {"init", "run", "idle", "join"} =>
    \A rf \in read_list : rf_type[rf] = "active"

Schedule == NeverEarly /\ Punctual /\ ScheduledWithinInterval

IInv ==
  /\ TypeOK
  /\ Control
  /\ OneOwner
  /\ NothingLeaks
  /\ Schedule
  /\ Sampled
  /\ ListedActive
  /\ ListConsistent

-----------------------------------------------------------------------------
(* The inductive invariant *)

\* The state before plugin_init_all: nothing registered, no thread started.
LEMMA InitialState == Init => IInv
  BY PluginReadAssumption
  DEF Init, IInv, TypeOK, RfType, Control, Holding, OneOwner, Live, NothingLeaks,
      Schedule, NeverEarly, Punctual, ScheduledWithinInterval, Sampled,
      ListedActive, ListConsistent

\* Every critical section, every step between two of them, every step of the
\* main thread and every tick of the clock preserves the invariant.
LEMMA InductiveStep == IInv /\ [Next]_vars => IInv'
<1>. SUFFICES ASSUME IInv, Next PROVE IInv'
  BY DEF IInv, TypeOK, Control, OneOwner, Live, NothingLeaks, Schedule,
    NeverEarly, Punctual, ScheduledWithinInterval, Sampled, ListedActive,
    ListConsistent, vars, objects, schedule, threads
<1>. USE PluginReadAssumption
     DEF IInv, TypeOK, RfType, Control, Holding, OneOwner, Live, NothingLeaks,
         Schedule, NeverEarly, Punctual, ScheduledWithinInterval, Sampled,
         ListedActive, ListConsistent, NameTaken
<1>1. ASSUME NEW rf \in Rf, plugin_insert_read(rf) PROVE IInv'
  BY <1>1 DEF plugin_insert_read, MayRegister, Broadcast
<1>2. ASSUME NEW rf \in Rf, plugin_register_read_duplicate(rf) PROVE IInv'
  BY <1>2 DEF plugin_register_read_duplicate, MayRegister, schedule, threads
<1>3. ASSUME NEW F \in SUBSET read_list, MarkRemoved(F) PROVE IInv'
  BY <1>3 DEF MarkRemoved, schedule, threads
<1>4. ASSUME NEW t \in Thread, ReaderStep(t) PROVE IInv'
  <2>1. CASE read_loop_test(t)
    BY <2>1 DEF read_loop_test, Go, objects, schedule
  <2>2. ASSUME NEW rf \in Rf, read_take_root(t, rf) PROVE IInv'
    BY <2>2 DEF read_take_root, IsRoot, Go, objects, schedule
  <2>3. CASE read_wait(t) \/ read_sleep(t) \/ read_timeout(t)
    BY <2>3 DEF read_wait, read_sleep, read_timeout, Go, objects, schedule
  <2>4. CASE read_sample_type(t)
    BY <2>4 DEF read_sample_type, Go, objects, schedule
  <2>5. CASE read_leave(t)
    BY <2>5 DEF read_leave, Go, objects, schedule
  <2>6. CASE read_destroy(t)
    BY <2>6 DEF read_destroy, Destroy, Go
  <2>7. CASE read_call(t)
    BY <2>7 DEF read_call, Go, objects, schedule
  <2>8. ASSUME NEW status \in {0, 1}, read_return(t, status) PROVE IInv'
    BY <2>8 DEF read_return, Go, Reschedule, Backoff
  <2>. QED BY <1>4, <2>1, <2>2, <2>3, <2>4, <2>5, <2>6, <2>7, <2>8 DEF ReaderStep
<1>5. ASSUME NEW t \in Thread, spurious_wakeup(t) PROVE IInv'
  BY <1>5 DEF spurious_wakeup, Go, objects, schedule
<1>6. CASE MainStep
  <2>1. ASSUME NEW S \in SUBSET Thread, start_read_threads(S) PROVE IInv'
    BY <2>1 DEF start_read_threads, BootDone, objects, schedule
  <2>2. CASE start_no_read_threads
    BY <2>2 DEF start_no_read_threads, BootDone, objects, schedule, threads
  <2>3. ASSUME NEW rf \in Rf, read_once_call(rf) PROVE IInv'
    BY <2>3 DEF read_once_call, IsRoot, objects, schedule, threads
  <2>4. CASE read_once_return
    BY <2>4 DEF read_once_return, Destroy, threads
  <2>5. CASE stop_read_threads
    BY <2>5 DEF stop_read_threads, Broadcast, objects, schedule
  <2>6. CASE stop_no_read_threads \/ join_read_threads \/ destroy_read_list
    BY <2>6 DEF stop_no_read_threads, join_read_threads, destroy_read_list,
      objects, schedule, threads
  <2>7. CASE destroy_read_heap
    BY <2>7 DEF destroy_read_heap, Destroy, threads
  <2>. QED BY <1>6, <2>1, <2>2, <2>3, <2>4, <2>5, <2>6, <2>7 DEF MainStep, ShutdownStep
<1>7. CASE Tick
  BY <1>7 DEF Tick, threads
<1>. QED BY <1>1, <1>2, <1>3, <1>4, <1>5, <1>6, <1>7
  DEF Next, Registration, plugin_unregister_read, plugin_unregister_read_group

\* IInv holds in every state of every execution.
THEOREM Invariance == Spec => []IInv
<1>1. IInv /\ [Next]_vars => IInv'
  BY InductiveStep
<1>. QED BY InitialState, <1>1, PTL DEF Spec

-----------------------------------------------------------------------------
(* The properties of PluginRead that follow *)

\* The read-side state of plugin.c is well typed, and no back-off carries an
\* effective interval beyond the longest one configured.
THEOREM TypeCorrect == Spec => []TypeOK
<1>1. IInv => TypeOK
  BY DEF IInv
<1>. QED BY Invariance, <1>1, PTL

\* plugin_read_thread, plugin_read_all_once and destroy_read_heap hand read
\* functions around so that each has exactly one owner: no callback runs in
\* two threads, none is lost, none is freed under the thread that holds it.
THEOREM ExactlyOneOwner == Spec => []OneOwner
<1>1. IInv => OneOwner
  BY DEF IInv
<1>. QED BY Invariance, <1>1, PTL

\* read_list and the removal marks agree, although plugin_unregister_read
\* marks a function and another thread frees it.
THEOREM ListIsConsistent == Spec => []ListConsistent
<1>1. IInv => ListConsistent
  BY DEF IInv
<1>. QED BY Invariance, <1>1, PTL

\* plugin_shutdown_all leaves no read function behind.
THEOREM ShutdownFreesAll == Spec => []NothingLeaks
<1>1. IInv => NothingLeaks
  BY DEF IInv
<1>. QED BY Invariance, <1>1, PTL

\* plugin_read_thread calls no function before its date, whatever woke the
\* thread: the check after the wait is enough.
THEOREM CallsAreNotEarly == Spec => []NeverEarly
<1>1. IInv => NeverEarly
  BY DEF IInv, Schedule
<1>. QED BY Invariance, <1>1, PTL

\* No function is scheduled further ahead than its effective interval: the
\* moving of a missed date to the present, the doubling after failures and the reset
\* after a success in plugin_read_thread leave no date behind that is too far away.
THEOREM DatesAreClose == Spec => []ScheduledWithinInterval
<1>1. IInv => ScheduledWithinInterval
  BY DEF IInv, Schedule
<1>. QED BY Invariance, <1>1, PTL

-----------------------------------------------------------------------------
(* Unregistered functions *)

\* rf is gone for good: marked or freed, and no thread is beyond the check of
\* a copy that it took before the mark.
Retired(rf) ==
  /\ rf_type[rf] \in {"remove", "freed"}
  /\ \A t \in Thread : mine[t] = rf =>
       \/ pc[t] \in {"held", "sleep"}
       \/ pc[t] = "sampled" /\ sampled[t] = "remove"

\* Once retired, always retired: nothing un-marks a function, and a thread
\* that picks it up from here on copies the mark.
LEMMA RetiredStep ==
  ASSUME NEW rf \in Rf
  PROVE  IInv /\ Retired(rf) /\ [Next]_vars => Retired(rf)'
<1>. SUFFICES ASSUME IInv, Retired(rf), Next PROVE Retired(rf)'
  BY DEF Retired, vars, objects, schedule, threads
<1>. USE PluginReadAssumption
     DEF IInv, TypeOK, RfType, Control, Holding, OneOwner, Live, Retired, ListedActive
<1>1. ASSUME NEW f \in Rf, plugin_insert_read(f) PROVE Retired(rf)'
  BY <1>1 DEF plugin_insert_read, MayRegister, Broadcast
<1>2. ASSUME NEW f \in Rf, plugin_register_read_duplicate(f) PROVE Retired(rf)'
  BY <1>2 DEF plugin_register_read_duplicate, MayRegister, schedule, threads
<1>3. ASSUME NEW F \in SUBSET read_list, MarkRemoved(F) PROVE Retired(rf)'
  BY <1>3 DEF MarkRemoved, schedule, threads
<1>4. ASSUME NEW t \in Thread, ReaderStep(t) PROVE Retired(rf)'
  <2>1. CASE read_loop_test(t)
    BY <2>1 DEF read_loop_test, Go, objects, schedule
  <2>2. ASSUME NEW f \in Rf, read_take_root(t, f) PROVE Retired(rf)'
    BY <2>2 DEF read_take_root, IsRoot, Go, objects, schedule
  <2>3. CASE read_wait(t) \/ read_sleep(t) \/ read_timeout(t)
    BY <2>3 DEF read_wait, read_sleep, read_timeout, Go, objects, schedule
  <2>4. CASE read_sample_type(t)
    BY <2>4 DEF read_sample_type, Go, objects, schedule
  <2>5. CASE read_leave(t)
    BY <2>5 DEF read_leave, Go, objects, schedule
  <2>6. CASE read_destroy(t)
    BY <2>6 DEF read_destroy, Destroy, Go
  <2>7. CASE read_call(t)
    BY <2>7 DEF read_call, Go, objects, schedule
  <2>8. ASSUME NEW status \in {0, 1}, read_return(t, status) PROVE Retired(rf)'
    BY <2>8 DEF read_return, Go, Reschedule, Backoff
  <2>. QED BY <1>4, <2>1, <2>2, <2>3, <2>4, <2>5, <2>6, <2>7, <2>8 DEF ReaderStep
<1>5. ASSUME NEW t \in Thread, spurious_wakeup(t) PROVE Retired(rf)'
  BY <1>5 DEF spurious_wakeup, Go, objects, schedule
<1>6. CASE MainStep
  <2>1. ASSUME NEW S \in SUBSET Thread, start_read_threads(S) PROVE Retired(rf)'
    BY <2>1 DEF start_read_threads, BootDone, objects, schedule
  <2>2. CASE start_no_read_threads
    BY <2>2 DEF start_no_read_threads, BootDone, objects, schedule, threads
  <2>3. ASSUME NEW f \in Rf, read_once_call(f) PROVE Retired(rf)'
    BY <2>3 DEF read_once_call, IsRoot, objects, schedule, threads
  <2>4. CASE read_once_return
    BY <2>4 DEF read_once_return, Destroy, threads
  <2>5. CASE stop_read_threads
    BY <2>5 DEF stop_read_threads, Broadcast, objects, schedule
  <2>6. CASE stop_no_read_threads \/ join_read_threads \/ destroy_read_list
    BY <2>6 DEF stop_no_read_threads, join_read_threads, destroy_read_list,
      objects, schedule, threads
  <2>7. CASE destroy_read_heap
    BY <2>7 DEF destroy_read_heap, Destroy, threads
  <2>. QED BY <1>6, <2>1, <2>2, <2>3, <2>4, <2>5, <2>6, <2>7 DEF MainStep, ShutdownStep
<1>7. CASE Tick
  BY <1>7 DEF Tick, threads
<1>. QED BY <1>1, <1>2, <1>3, <1>4, <1>5, <1>6, <1>7
  DEF Next, Registration, plugin_unregister_read, plugin_unregister_read_group

\* A function that is back in the heap after plugin_unregister_read is never
\* called again, in whatever order the threads run.
THEOREM RemovedStaysRemoved == Spec => RemovedNotCalled
<1>. SUFFICES ASSUME NEW rf \in Rf
     PROVE Spec => [](rf_type[rf] = "remove" /\ rf \in read_heap =>
                        [](\A t \in Thread : pc[t] = "call" => mine[t] # rf))
  BY DEF RemovedNotCalled
<1>1. IInv /\ rf_type[rf] = "remove" /\ rf \in read_heap => Retired(rf)
  BY PluginReadAssumption DEF IInv, OneOwner, Retired, TypeOK
<1>2. IInv /\ Retired(rf) /\ [Next]_vars => Retired(rf)'
  BY RetiredStep
<1>3. Retired(rf) => \A t \in Thread : pc[t] = "call" => mine[t] # rf
  BY DEF Retired
<1>. QED BY Invariance, <1>1, <1>2, <1>3, PTL DEF Spec
=============================================================================
