----------------------------- MODULE Threshold ------------------------------
(***************************************************************************)
(* The threshold plugin (src/threshold.c): its write callback, which reads *)
(* the rate, the state and the hits of a metric from the value cache, each *)
(* time under a lock of its own, and reports a change of the state; and    *)
(* its callback for missing values.  What calls them is in Dispatch.       *)
(*                                                                         *)
(* A value list is a sequence of numbers, one for each data source.  Left  *)
(* out: the percentages, undefined values, the texts, and the search for   *)
(* the thresholds of a metric.                                             *)
(*                                                                         *)
(* Definitions named X_Y are X with a mistake Y: they are used only to     *)
(* show that the properties notice it.                                     *)
(***************************************************************************)
EXTENDS Integers, Sequences, FiniteSets

CONSTANTS
  Writer,      \* write threads
  DataSource,  \* names of the data sources, in the order of the data set
  Thresholds,  \* the lists of thresholds to look at, see th
  NoLimit      \* NAN: a limit that is not configured

\* threshold_t: data_source is empty if the threshold is for all of them.
Limit == Int \cup {NoLimit}
threshold_t ==
  [data_source : STRING, failure_min : Limit, failure_max : Limit,
   warning_min : Limit, warning_max : Limit, hysteresis : Nat, invert : BOOLEAN,
   hits : Nat, persist : BOOLEAN, persist_ok : BOOLEAN, interesting : BOOLEAN]

ASSUME ThresholdAssumption ==
  /\ NoLimit \notin Int
  /\ DataSource \in Seq(STRING) /\ DataSource # <<>>
  /\ Thresholds \subseteq Seq(threshold_t) \ {<<>>}

STATE_UNKNOWN == 0
STATE_OKAY == 1
STATE_WARNING == 2
STATE_ERROR == 3

VARIABLES
  th,         \* the thresholds of the metric: the list threshold_search returns
  entry,      \* the metric's cache entry: [time, value, state, hits], or Absent
  writer,     \* where each write thread is
  rate,       \* uc_get_rate: [time, value], what each write thread checks
  turn,       \* which threshold and which data source each write thread is at
  worst,      \* [state, th]: the worst state so far, see ut_check_threshold
  seen,       \* uc_get_hits and uc_get_state: what each write thread has read
  \* history, since the metric has been in the cache:
  notified,   \* severity of the last notification
  repeated,   \* it is the same as that of the one before
  result,     \* the state that a check found for the value in the cache
  row,        \* checks in a row that found a value out of range
  overlap     \* two checks were under way at the same time

check == <<writer, rate, turn, worst, seen>>
history == <<notified, repeated, result, row, overlap>>

Absent == [time |-> 0, value |-> <<>>, state |-> STATE_ERROR, hits |-> STATE_ERROR]
Cached == entry.time # 0

-----------------------------------------------------------------------------
(* ut_check_one_data_source *)

\* A value is outside of limits that are widened by h.
Outside(x, min, max, h) ==
  \/ min # NoLimit /\ min + h > x
  \/ max # NoLimit /\ max - h < x

\* The hysteresis applies only to the state that the metric is in.
CheckDataSource(t, v, i, state) ==
  LET h(s) == IF state = s THEN t.hysteresis ELSE 0
      is(out) == IF t.invert THEN ~out ELSE out
  IN  IF t.data_source # "" /\ DataSource[i] # t.data_source THEN STATE_UNKNOWN
      ELSE IF is(Outside(v[i], t.failure_min, t.failure_max, h(STATE_ERROR)))
        THEN STATE_ERROR
      ELSE IF is(Outside(v[i], t.warning_min, t.warning_max, h(STATE_WARNING)))
        THEN STATE_WARNING
      ELSE STATE_OKAY

-----------------------------------------------------------------------------
(* ut_check_threshold *)

\* A write thread is inside of the write callback.
Checking(w) == writer[w] \notin {"idle", "next"}

NoRate == [time |-> 0, value |-> <<>>]
NotChecked == [state |-> -1, th |-> <<>>]
FirstTurn == <<1, 1>>
LastTurn == <<Len(th), Len(DataSource)>>
NextTurn(p) ==
  IF p[2] < Len(DataSource) THEN <<p[1], p[2] + 1>> ELSE <<p[1] + 1, 1>>

uc_get_rate(w) ==
  /\ writer[w] = "rate"
  /\ \/ /\ Cached
        /\ rate' = [rate EXCEPT ![w] = [time |-> entry.time, value |-> entry.value]]
        /\ turn' = [turn EXCEPT ![w] = FirstTurn]
        /\ worst' = [worst EXCEPT ![w] = NotChecked]
        /\ writer' = [writer EXCEPT ![w] = "check"]
     \/ /\ ~Cached
        /\ writer' = [writer EXCEPT ![w] = "next"]
        /\ UNCHANGED <<rate, turn, worst>>
  /\ UNCHANGED <<th, entry, seen, history>>

\* The worst state, and the first threshold that found it, after this turn, which
\* looks up the state of the entry (uc_get_state) for the sake of the hysteresis.
Checked(w) ==
  LET t == th[turn[w][1]]
      s == CheckDataSource(t, rate[w].value, turn[w][2], entry.state)
  IN  IF worst[w].state < s THEN [state |-> s, th |-> t] ELSE worst[w]

ut_check_one_data_source(w) ==
  /\ writer[w] = "check" /\ turn[w] # LastTurn
  /\ worst' = [worst EXCEPT ![w] = Checked(w)]
  /\ turn' = [turn EXCEPT ![w] = NextTurn(@)]
  /\ UNCHANGED <<th, entry, writer, rate, seen, history>>

\* After the last turn ut_report_state is called.
ut_check_threshold(w) ==
  LET x == Checked(w)
  IN  /\ writer[w] = "check" /\ turn[w] = LastTurn
      /\ worst' = [worst EXCEPT ![w] = x]
      /\ writer' = [writer EXCEPT ![w] = IF x.th.hits # 0 THEN "hits" ELSE "state"]
      /\ result' = IF rate[w].time = entry.time THEN x.state ELSE result
      /\ row' = IF x.state \in {STATE_WARNING, STATE_ERROR} THEN row + 1 ELSE 0
      /\ UNCHANGED <<th, entry, rate, turn, seen, notified, repeated, overlap>>

\* ut_report_state reads the hits, counts until there are enough of them ...
uc_get_hits(w) ==
  /\ writer[w] = "hits"
  /\ seen' = [seen EXCEPT ![w] = entry.hits]
  /\ writer' = [writer EXCEPT ![w] = "count"]
  /\ UNCHANGED <<th, entry, rate, turn, worst, history>>

EnoughHits(x, hits) == (x.state = STATE_OKAY /\ ~x.th.persist_ok) \/ hits > x.th.hits

report_count_NeverMore(w) ==
  /\ writer[w] = "count"
  /\ writer' = [writer EXCEPT ![w] = IF EnoughHits(worst[w], seen[w]) THEN "state" ELSE "next"]
  /\ entry' = IF ~Cached THEN entry
              ELSE [entry EXCEPT !.hits = IF EnoughHits(worst[w], seen[w]) THEN 0 ELSE 1]
  /\ UNCHANGED <<th, rate, turn, worst, seen, history>>
report_count(w) ==
  /\ writer[w] = "count"
  /\ writer' = [writer EXCEPT ![w] = IF EnoughHits(worst[w], seen[w]) THEN "state" ELSE "next"]
  /\ entry' = IF ~Cached THEN entry
              ELSE [entry EXCEPT !.hits = IF EnoughHits(worst[w], seen[w]) THEN 0 ELSE @ + 1]
  /\ UNCHANGED <<th, rate, turn, worst, seen, history>>

\* ... and the state, which it ...
uc_get_state(w) ==
  /\ writer[w] = "state"
  /\ seen' = [seen EXCEPT ![w] = entry.state]
  /\ writer' = [writer EXCEPT ![w] = "set"]
  /\ UNCHANGED <<th, entry, rate, turn, worst, history>>

\* A state that has not changed is reported only if that is configured.
Silent(x, old) ==
  /\ x.state = old
  /\ \/ x.state = STATE_UNKNOWN
     \/ ~x.th.persist
     \/ x.state = STATE_OKAY /\ ~x.th.persist_ok

\* ... changes ...
uc_set_state_Never(w) ==
  /\ writer[w] = "set"
  /\ writer' = [writer EXCEPT ![w] = IF Silent(worst[w], seen[w]) THEN "next" ELSE "notify"]
  /\ UNCHANGED <<th, entry, rate, turn, worst, seen, history>>
uc_set_state(w) ==
  /\ writer[w] = "set"
  /\ writer' = [writer EXCEPT ![w] = IF Silent(worst[w], seen[w]) THEN "next" ELSE "notify"]
  /\ entry' = IF Cached /\ worst[w].state # seen[w]
                THEN [entry EXCEPT !.state = worst[w].state] ELSE entry
  /\ UNCHANGED <<th, rate, turn, worst, seen, history>>

Notify(state) ==
  /\ notified' = state
  /\ repeated' = (notified = state)

\* ... and reports, unless it is unknown.
plugin_dispatch_notification(w) ==
  /\ writer[w] = "notify"
  /\ writer' = [writer EXCEPT ![w] = "next"]
  /\ IF worst[w].state # STATE_UNKNOWN
       THEN Notify(worst[w].state)
       ELSE UNCHANGED <<notified, repeated>>
  /\ UNCHANGED <<th, entry, rate, turn, worst, seen, result, row, overlap>>

-----------------------------------------------------------------------------
\* ut_missing: a failure is reported for interesting values.
ut_missing ==
  /\ IF Head(th).interesting
       THEN Notify(STATE_ERROR)
       ELSE UNCHANGED <<notified, repeated>>
  /\ UNCHANGED <<th, entry, check, result, row, overlap>>
=============================================================================
