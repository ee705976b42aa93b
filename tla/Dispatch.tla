------------------------------ MODULE Dispatch ------------------------------
(***************************************************************************)
(* The way of a value list through plugin_dispatch_values_internal: the    *)
(* pre-cache chain, the value cache, the post-cache chain, and the write   *)
(* callback of the threshold plugin, which each write target that names it *)
(* calls; and the main thread, which removes the metric from the cache     *)
(* when it has fallen silent.  All values belong to one metric.            *)
(*                                                                         *)
(* The chains have no state of their own, so that a run of one is a single *)
(* step up to the writes it leads to.                                      *)
(***************************************************************************)
EXTENDS Threshold, FilterChain

CONSTANT
  Setups    \* configurations and bounds: [chains, values: how many value lists]

ASSUME SetupsAssumption ==
  \A s \in Setups :
    IsFiniteSet(DOMAIN s.chains) /\ s.chains \in [DOMAIN s.chains -> fc_chain_t]

VARIABLES
  chains,    \* the configured chains
  pending,   \* times of the values that are still to be dispatched
  job,       \* what each write thread is at: see plugin_dispatch_values_internal
  expiring   \* ut_missing was called for the entry that is about to be removed

vars == <<th, entry, check, history, chains, pending, job, expiring>>

-----------------------------------------------------------------------------
(* plugin_dispatch_values_internal *)

\* plugin_write: the writes of r that call the threshold plugin.
Calls(r) == Len(SelectSeq(r.writes, LAMBDA p : p = {} \/ "threshold" \in p))

PreCache(v) ==
  IF "PreCache" \in DOMAIN chains THEN fc_process_chain(chains, "PreCache", Fresh(v))
  ELSE Fresh(v)

PostCache(v) ==
  IF "PostCache" \in DOMAIN chains THEN fc_process_chain(chains, "PostCache", Fresh(v))
  ELSE fc_default_action(Fresh(v))

NoJob == [time |-> 0, value |-> <<>>, calls |-> 0, update |-> FALSE]

\* The value list is about to leave the pre-cache chain.
plugin_dispatch_values_internal(w, t, v) ==
  LET pre == PreCache(v)
  IN  /\ writer[w] = "idle"
      /\ t \in pending
      /\ pending' = pending \ {t}
      /\ job' = [job EXCEPT ![w] =
                  [time |-> t, value |-> pre.v, calls |-> Calls(pre),
                   update |-> pre.status # FC_TARGET_STOP]]
      /\ writer' = [writer EXCEPT ![w] = "next"]
      /\ UNCHANGED <<th, entry, rate, turn, worst, seen, history, chains, expiring>>

plugin_write(w) ==
  /\ writer[w] = "next" /\ job[w].calls > 0
  /\ job' = [job EXCEPT ![w].calls = @ - 1]
  /\ writer' = [writer EXCEPT ![w] = "rate"]
  /\ overlap' = (overlap \/ \E x \in Writer \ {w} : Checking(x))
  /\ UNCHANGED <<th, entry, rate, turn, worst, seen, notified, repeated, result, row>>
  /\ UNCHANGED <<chains, pending, expiring>>

NewEntry_Okay(t, v) == [time |-> t, value |-> v, state |-> STATE_OKAY, hits |-> 0]
NewEntry(t, v) == [time |-> t, value |-> v, state |-> STATE_UNKNOWN, hits |-> 0]

NewHistory ==
  /\ notified' = STATE_UNKNOWN /\ repeated' = FALSE
  /\ result' = STATE_UNKNOWN /\ row' = 0
  /\ overlap' = \E w \in Writer : Checking(w)

\* uc_update: a value that is not newer is refused, and goes on all the same.
uc_update(w) ==
  LET t == job[w].time
      v == job[w].value
  IN  /\ writer[w] = "next" /\ job[w].calls = 0 /\ job[w].update
      /\ \/ /\ ~Cached
            /\ entry' = NewEntry(t, v)
            /\ NewHistory
         \/ /\ Cached /\ entry.time < t
            /\ entry' = [entry EXCEPT !.time = t, !.value = v]
            /\ result' = STATE_UNKNOWN
            /\ UNCHANGED <<notified, repeated, row, overlap>>
         \/ /\ Cached /\ entry.time >= t
            /\ UNCHANGED <<entry, history>>
      /\ job' = [job EXCEPT ![w].calls = Calls(PostCache(v)), ![w].update = FALSE]
      /\ UNCHANGED <<th, check, chains, pending, expiring>>

\* (What the variables of the thread hold afterwards is irrelevant.)
dispatch_return(w) ==
  /\ writer[w] = "next" /\ job[w].calls = 0 /\ ~job[w].update
  /\ writer' = [writer EXCEPT ![w] = "idle"]
  /\ job' = [job EXCEPT ![w] = NoJob]
  /\ rate' = [rate EXCEPT ![w] = NoRate]
  /\ turn' = [turn EXCEPT ![w] = FirstTurn]
  /\ worst' = [worst EXCEPT ![w] = NotChecked]
  /\ seen' = [seen EXCEPT ![w] = 0]
  /\ UNCHANGED <<th, entry, history, chains, pending, expiring>>

CallbackStep(w) ==
  /\ \/ uc_get_rate(w) \/ ut_check_one_data_source(w) \/ ut_check_threshold(w)
     \/ uc_get_hits(w) \/ report_count(w) \/ uc_get_state(w) \/ uc_set_state(w)
     \/ plugin_dispatch_notification(w)
  /\ UNCHANGED <<chains, pending, job, expiring>>

-----------------------------------------------------------------------------
(* uc_check_timeout *)

plugin_dispatch_missing ==
  /\ Cached /\ ~expiring
  /\ expiring' = TRUE
  /\ ut_missing
  /\ UNCHANGED <<chains, pending, job>>

\* A removed entry takes the state and the hits with it.
uc_remove ==
  /\ expiring
  /\ expiring' = FALSE
  /\ entry' = Absent
  /\ UNCHANGED <<th, check, history, chains, pending, job>>

-----------------------------------------------------------------------------
Init ==
  /\ \E s \in Setups : chains = s.chains /\ pending = 1..s.values
  /\ th \in Thresholds
  /\ entry = Absent
  /\ expiring = FALSE
  /\ writer = [w \in Writer |-> "idle"]
  /\ job = [w \in Writer |-> NoJob]
  /\ rate = [w \in Writer |-> NoRate]
  /\ turn = [w \in Writer |-> FirstTurn]
  /\ worst = [w \in Writer |-> NotChecked]
  /\ seen = [w \in Writer |-> 0]
  /\ notified = STATE_UNKNOWN /\ repeated = FALSE
  /\ result = STATE_UNKNOWN /\ row = 0 /\ overlap = FALSE

Next ==
  \/ \E w \in Writer :
       \/ \E t \in pending, v \in Value : plugin_dispatch_values_internal(w, t, v)
       \/ plugin_write(w) \/ uc_update(w) \/ dispatch_return(w)
       \/ CallbackStep(w)
  \/ plugin_dispatch_missing \/ uc_remove

Spec == Init /\ [][Next]_vars

-----------------------------------------------------------------------------
(* Properties *)

Alarm == {STATE_WARNING, STATE_ERROR}

\* Nothing is on its way to the cache or to a notification.
Resting == \A w \in Writer : ~Checking(w)

\* ut_report_state reports changes ("If the state didn't change, report if
\* `persistent' is specified"): without Persist no two notifications in a row are
\* alike, while the metric is in the cache and its checks did not overlap.  A
\* warning may be followed by a failure, although the manual promises an alert
\* only if "the previous value was okay".
AlertsAlternate ==
  Cached /\ ~expiring /\ ~overlap /\ repeated => \E i \in 1..Len(th) : th[i].persist

\* Hits: an alarm is raised when the values were out of range for two more than
\* Hits times in a row, neither later nor earlier; earlier if the threshold has
\* no Hits or if PersistOK keeps the hits over an okay value.
AlarmAfterHits ==
  Resting /\ Cached /\ ~expiring /\ ~overlap =>
    /\ (\A i \in 1..Len(th) : row > th[i].hits + 1) => notified \in Alarm
    /\ notified \in Alarm =>
         \E i \in 1..Len(th) :
           row > th[i].hits + 1 \/ th[i].hits = 0 \/ th[i].persist_ok

\* "When a value comes within range again or is received after it was missing,
\* an OKAY-notification is dispatched": it is the last one if no write threads
\* checked the metric at the same time, unless PersistOK delays it for Hits.
RecoveryUnlessOverlap ==
  Resting /\ Cached /\ ~expiring /\ ~overlap /\ result = STATE_OKAY =>
    \/ notified = STATE_OKAY
    \/ \E i \in 1..Len(th) : th[i].persist_ok /\ th[i].hits # 0

\* The same of any write threads: the newest value was found within range and the
\* metric counts as okay, so that values within range are not reported any more;
\* then the last notification is not an alarm.
RecoveryAnnounced ==
  Resting /\ Cached /\ ~expiring /\ result = STATE_OKAY /\ entry.state = STATE_OKAY =>
    notified = STATE_OKAY
=============================================================================
