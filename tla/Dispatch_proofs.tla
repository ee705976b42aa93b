-------------------------- MODULE Dispatch_proofs --------------------------
(***************************************************************************)
(* Proofs about the notifications of the threshold plugin, for any filter  *)
(* chains, any number of write threads and value lists in any order, and   *)
(* any thresholds.                                                         *)
(*                                                                         *)
(* The state in the cache and the last notification must agree whenever no *)
(* notification is on its way (Told), the hits keep up with the values out *)
(* of range until there is an alarm (Counting), and are not ahead of them  *)
(* (Earned).  As long as checks did not overlap this is true of one of the *)
(* write threads, the only one that may be inside of the callback; it is   *)
(* handed over when another one enters.  The other threads may update the  *)
(* entry meanwhile, and the main thread may remove it at any step, so that *)
(* all of it is said about a metric that is in the cache.                  *)
(*                                                                         *)
(* The second half is about the chains themselves: the code, three loops   *)
(* that call each other, against the flow of the manual, a list of what is *)
(* still to do.  Outcome relates the two; that it is kept by a target, a   *)
(* rule and a chain is shown one by one, and that it holds for all chains  *)
(* by induction over their numbers (NoCircle).                             *)
(***************************************************************************)
EXTENDS FlowControl, SequenceFacts

State == STATE_UNKNOWN..STATE_ERROR

Quiet == {"idle", "next", "rate", "check"}   \* not between check and report
Busy == {"hits", "count", "state", "set", "notify"}

\* The threshold applies to a data source.
Applies(t, j) == t.data_source = "" \/ DataSource[j] = t.data_source

\* A threshold of the metric applies to one of its data sources.
Matched == \E i \in 1..Len(th), j \in 1..Len(DataSource) : Applies(th[i], j)

\* The turns, and those before one of them.
Turn == (1..Len(th)) \X (1..Len(DataSource))
Before(p) == {q \in Turn : q[1] < p[1] \/ (q[1] = p[1] /\ q[2] < p[2])}

\* What the turns in S have found: a state and one of the thresholds; it is
\* unknown exactly if no threshold applied.
Found(x, S) ==
  /\ x.state \in State
  /\ \E i \in 1..Len(th) : x.th = th[i]
  /\ x.state = STATE_UNKNOWN <=> \A q \in S : ~Applies(th[q[1]], q[2])

\* The loops of the check, of any write thread.
Loop(w) ==
  /\ writer[w] = "check" =>
       /\ turn[w] \in Turn
       /\ \/ turn[w] = FirstTurn /\ worst[w].state = -1
          \/ Found(worst[w], Before(turn[w]))
  /\ writer[w] \in Busy => Found(worst[w], Turn)

\* The variables of the check and its history have their types; the values and
\* times of the cache, and what the chains do, are of no importance.
TypeOK ==
  /\ th \in Thresholds
  /\ entry = [time |-> entry.time, value |-> entry.value, state |-> entry.state,
              hits |-> entry.hits]
  /\ entry.state \in State /\ entry.hits \in Nat
  /\ writer \in [Writer -> Quiet \cup Busy]
  /\ rate = [w \in Writer |-> rate[w]]
  /\ turn = [w \in Writer |-> turn[w]]
  /\ worst = [w \in Writer |-> worst[w]]
  /\ \A w \in Writer : Loop(w)
  /\ seen \in [Writer -> Nat]
  /\ expiring \in BOOLEAN
  /\ notified \in State /\ repeated \in BOOLEAN /\ overlap \in BOOLEAN
  /\ result \in State /\ row \in Nat

\* What the thread knows: the result for the value that it has read, and what it
\* has read of the entry.
Knows(w) ==
  /\ writer[w] = "check" => rate[w].time = entry.time \/ result = STATE_UNKNOWN
  /\ writer[w] \in Busy =>
       /\ result \in {worst[w].state, STATE_UNKNOWN}
       /\ worst[w].state \notin Alarm => row = 0
  /\ writer[w] \in {"hits", "count"} => worst[w].th.hits # 0
  /\ writer[w] = "count" => seen[w] = entry.hits
  /\ writer[w] = "set" => seen[w] = entry.state

\* The state of the entry is the one that was reported, or is about to be.  A
\* missing value is reported as a failure that the entry does not know of.
Told(w) ==
  /\ ~Matched => entry.state = STATE_UNKNOWN /\ writer[w] # "notify"
  /\ writer[w] = "notify" => entry.state = worst[w].state
  /\ writer[w] # "notify" =>
       /\ ~expiring \/ ~Head(th).interesting => notified = entry.state
       /\ entry.state \in Alarm => notified \in Alarm

\* Without an alarm the hits keep up with the values out of range.
Counting(w) ==
  notified \notin Alarm =>
    /\ writer[w] \in Quiet => row <= entry.hits /\ \E i \in 1..Len(th) : row <= th[i].hits + 1
    /\ writer[w] \in {"hits", "count"} => row <= entry.hits + 1

\* Some threshold is exceeded for long enough.
Overdue == \E i \in 1..Len(th) : row > th[i].hits + 1

\* If all thresholds have Hits, and an okay value resets the hits, they are never
\* ahead of the values out of range, and an alarm was overdue.
Earned(w) ==
  Matched /\ ~expiring /\ (\A i \in 1..Len(th) : th[i].hits # 0 /\ ~th[i].persist_ok) =>
    /\ writer[w] \in Quiet => entry.hits <= row /\ (notified \in Alarm => Overdue)
    /\ writer[w] \in {"hits", "count"} /\ worst[w].state \in Alarm =>
         entry.hits < row /\ (notified \in Alarm => Overdue)
    /\ writer[w] \in {"state", "set", "notify"} =>
         entry.hits = 0 /\ (worst[w].state \in Alarm => Overdue)

\* Without Persist only changes are reported.
Changing(w) ==
  ~expiring /\ (\A i \in 1..Len(th) : ~th[i].persist) =>
    ~repeated /\ (writer[w] = "notify" => worst[w].state # notified)

\* Unless PersistOK delays it, a recovery has been reported or is about to be.
Recovering(w) ==
  /\ ~expiring /\ result = STATE_OKAY /\ writer[w] \in Quiet
  /\ \A i \in 1..Len(th) : ~(th[i].persist_ok /\ th[i].hits # 0)
  => notified = STATE_OKAY

Good(w) ==
  Knows(w) /\ Told(w) /\ Counting(w) /\ Earned(w) /\ Changing(w) /\ Recovering(w)

\* No thread but w is inside of the callback.
Solo(w) == \A u \in Writer \ {w} : ~Checking(u)

IInv == TypeOK /\ (Cached /\ ~overlap => \E w \in Writer : Solo(w) /\ Good(w))

-----------------------------------------------------------------------------
(* The check *)

\* A data source is unknown exactly if the threshold is for another one.
LEMMA DataSourceFacts ==
  ASSUME NEW t, NEW v, NEW i, NEW s
  PROVE  /\ CheckDataSource(t, v, i, s) \in State
         /\ CheckDataSource(t, v, i, s) = STATE_UNKNOWN <=> ~Applies(t, i)
<1>. DEFINE h(x) == IF s = x THEN t.hysteresis ELSE 0
            is(out) == IF t.invert THEN ~out ELSE out
            failure == is(Outside(v[i], t.failure_min, t.failure_max, h(STATE_ERROR)))
            warning == is(Outside(v[i], t.warning_min, t.warning_max, h(STATE_WARNING)))
<1>1. CheckDataSource(t, v, i, s) =
        IF t.data_source # "" /\ DataSource[i] # t.data_source THEN STATE_UNKNOWN
        ELSE IF failure THEN STATE_ERROR ELSE IF warning THEN STATE_WARNING ELSE STATE_OKAY
  BY Zenon DEF CheckDataSource
<1>2. CheckDataSource(t, v, i, s) =
        IF ~Applies(t, i) THEN STATE_UNKNOWN
        ELSE IF failure THEN STATE_ERROR ELSE IF warning THEN STATE_WARNING ELSE STATE_OKAY
  BY <1>1, Zenon DEF Applies
<1>. HIDE DEF failure, warning
<1>3. CASE ~Applies(t, i)
  BY <1>2, <1>3 DEF State, STATE_UNKNOWN, STATE_ERROR
<1>4. CASE Applies(t, i)
  <2>1. CheckDataSource(t, v, i, s) \in {STATE_OKAY, STATE_WARNING, STATE_ERROR}
    BY <1>2, <1>4
  <2>. QED BY <1>4, <2>1 DEF State, STATE_UNKNOWN, STATE_OKAY, STATE_WARNING, STATE_ERROR
<1>. QED BY <1>3, <1>4

\* The thresholds are a sequence and not empty, and so are the data sources.
LEMMA ThFacts ==
  ASSUME th \in Thresholds
  PROVE  /\ th \in Seq(threshold_t) /\ Len(th) \in Nat /\ 1 \in 1..Len(th) /\ Head(th) = th[1]
         /\ \A i \in 1..Len(th) : th[i] \in threshold_t
         /\ Len(DataSource) \in Nat /\ 1 \in 1..Len(DataSource)
<1>1. th \in Seq(threshold_t) /\ th # <<>>
  BY ThresholdAssumption
<1>2. Len(th) \in Nat /\ 1 \in 1..Len(th)
  BY <1>1, EmptySeq, LenProperties
<1>3. Len(DataSource) \in Nat /\ 1 \in 1..Len(DataSource)
  BY ThresholdAssumption, EmptySeq, LenProperties
<1>. QED BY <1>1, <1>2, <1>3

\* The turns go through all thresholds and data sources, one by one.
LEMMA TurnFacts ==
  ASSUME th \in Thresholds
  PROVE  /\ FirstTurn \in Turn /\ LastTurn \in Turn
         /\ Before(FirstTurn) = {}
         /\ Before(LastTurn) \cup {LastTurn} = Turn
         /\ \A p \in Turn : p # LastTurn =>
              NextTurn(p) \in Turn /\ Before(NextTurn(p)) = Before(p) \cup {p}
<1>. DEFINE m == Len(th)
            n == Len(DataSource)
<1>1. m \in Nat /\ n \in Nat /\ 1 \in 1..m /\ 1 \in 1..n
  BY ThFacts
<1>2. /\ Turn = (1..m) \X (1..n) /\ LastTurn = <<m, n>> /\ FirstTurn = <<1, 1>>
      /\ \A p : NextTurn(p) = IF p[2] < n THEN <<p[1], p[2] + 1>> ELSE <<p[1] + 1, 1>>
      /\ \A p : Before(p) = {q \in Turn : q[1] < p[1] \/ (q[1] = p[1] /\ q[2] < p[2])}
  BY DEF Turn, LastTurn, FirstTurn, NextTurn, Before
<1>. HIDE DEF m, n
<1>3. \A q \in Turn : q[1] \in 1..m /\ q[2] \in 1..n /\ q = <<q[1], q[2]>>
  BY <1>2
<1>4. FirstTurn \in Turn /\ LastTurn \in Turn
  BY <1>1, <1>2
<1>5. Before(FirstTurn) = {}
  BY <1>1, <1>2, <1>3
<1>6. \A q \in Turn : q \in Before(LastTurn) \/ q = LastTurn
  BY <1>1, <1>2, <1>3
<1>7. ASSUME NEW p \in Turn, p # LastTurn
      PROVE  NextTurn(p) \in Turn /\ Before(NextTurn(p)) = Before(p) \cup {p}
  <2>1. PICK i \in 1..m, j \in 1..n : p = <<i, j>>
    BY <1>2
  <2>2. j < n \/ (j = n /\ i < m)
    BY <1>1, <1>2, <1>7, <2>1
  <2>3. CASE j < n
    <3>1. NextTurn(p) = <<i, j + 1>> /\ j + 1 \in 1..n
      BY <1>1, <1>2, <2>1, <2>3
    <3>2. ASSUME NEW q \in Turn
          PROVE  q \in Before(NextTurn(p)) <=> q \in Before(p) \/ q = p
      <4>1. PICK k \in 1..m, l \in 1..n : q = <<k, l>>
        BY <1>2
      <4>. QED BY <1>1, <1>2, <2>1, <3>1, <4>1
    <3>3. NextTurn(p) \in Turn
      BY <1>2, <3>1
    <3>. QED BY <1>2, <3>2, <3>3
  <2>4. CASE j = n /\ i < m
    <3>1. NextTurn(p) = <<i + 1, 1>> /\ i + 1 \in 1..m
      BY <1>1, <1>2, <2>1, <2>4
    <3>2. ASSUME NEW q \in Turn
          PROVE  q \in Before(NextTurn(p)) <=> q \in Before(p) \/ q = p
      <4>1. PICK k \in 1..m, l \in 1..n : q = <<k, l>>
        BY <1>2
      <4>. QED BY <1>1, <1>2, <2>1, <2>4, <3>1, <4>1
    <3>3. NextTurn(p) \in Turn
      BY <1>1, <1>2, <3>1
    <3>. QED BY <1>2, <3>2, <3>3
  <2>. QED BY <2>2, <2>3, <2>4
<1>8. Before(LastTurn) \subseteq Turn
  BY <1>2
<1>. QED BY <1>4, <1>5, <1>6, <1>7, <1>8

\* A turn adds what it has found itself.
LEMMA CheckedFacts ==
  ASSUME th \in Thresholds, NEW w, turn[w] \in Turn,
         (turn[w] = FirstTurn /\ worst[w].state = -1) \/ Found(worst[w], Before(turn[w]))
  PROVE  Found(Checked(w), Before(turn[w]) \cup {turn[w]})
<1>. DEFINE p == turn[w]
            t == th[p[1]]
            s == CheckDataSource(t, rate[w].value, p[2], entry.state)
<1>1. s \in State /\ (s = STATE_UNKNOWN <=> ~Applies(t, p[2]))
  BY DataSourceFacts
<1>2. p[1] \in 1..Len(th)
  BY DEF Turn
<1>3. Checked(w) = IF worst[w].state < s THEN [state |-> s, th |-> t] ELSE worst[w]
  BY DEF Checked
<1>4. Before(FirstTurn) = {}
  BY TurnFacts
<1>. HIDE DEF s
<1>5. CASE p = FirstTurn /\ worst[w].state = -1
  <2>1. worst[w].state < s
    BY <1>1, <1>5 DEF State, STATE_UNKNOWN, STATE_ERROR
  <2>2. Checked(w).state = s /\ Checked(w).th = th[p[1]]
    BY <1>3, <2>1
  <2>3. \A q \in Before(p) \cup {p} : q = p
    BY <1>4, <1>5
  <2>. QED BY <1>1, <1>2, <2>2, <2>3 DEF Found
<1>6. CASE Found(worst[w], Before(p))
  <2>1. CASE worst[w].state < s
    <3>1. Checked(w).state = s /\ Checked(w).th = th[p[1]]
      BY <1>3, <2>1
    <3>2. s # STATE_UNKNOWN
      BY <1>1, <1>6, <2>1 DEF Found, State, STATE_UNKNOWN, STATE_ERROR
    <3>. QED BY <1>1, <1>2, <3>1, <3>2 DEF Found
  <2>2. CASE ~(worst[w].state < s)
    <3>1. Checked(w) = worst[w]
      BY <1>3, <2>2
    <3>2. worst[w].state = STATE_UNKNOWN => s = STATE_UNKNOWN
      BY <1>1, <2>2 DEF State, STATE_UNKNOWN, STATE_ERROR
    <3>. QED BY <1>1, <1>6, <3>1, <3>2 DEF Found
  <2>. QED BY <2>1, <2>2
<1>. QED BY <1>5, <1>6

\* After all turns the state is unknown exactly if no threshold is for one of the
\* data sources.
LEMMA FoundMatched ==
  ASSUME NEW x, Found(x, Turn)
  PROVE  x.state = STATE_UNKNOWN <=> ~Matched
<1>1. \A i \in 1..Len(th), j \in 1..Len(DataSource) : <<i, j>> \in Turn
  BY DEF Turn
<1>2. \A q \in Turn : q[1] \in 1..Len(th) /\ q[2] \in 1..Len(DataSource)
  BY DEF Turn
<1>. QED BY <1>1, <1>2 DEF Found, Matched

\* Whether a threshold applies depends on the configuration alone.
LEMMA MatchedStays == ASSUME th' = th PROVE Matched' <=> Matched
BY DEF Matched, Applies

-----------------------------------------------------------------------------
(* Types *)

\* The types hold at the start ...
LEMMA InitType == Init => TypeOK
<1>. SUFFICES ASSUME Init PROVE TypeOK
  OBVIOUS
<1>1. entry = [time |-> 0, value |-> <<>>, state |-> 3, hits |-> 3]
  BY DEF Init, Absent, STATE_ERROR
<1>2. entry.state = 3 /\ entry.hits = 3
      /\ entry = [time |-> entry.time, value |-> entry.value, state |-> entry.state,
                  hits |-> entry.hits]
  BY <1>1
<1>3. th \in Thresholds /\ expiring \in BOOLEAN /\ repeated \in BOOLEAN /\ overlap \in BOOLEAN
  BY DEF Init
<1>4. /\ rate = [w \in Writer |-> rate[w]] /\ turn = [w \in Writer |-> turn[w]]
      /\ worst = [w \in Writer |-> worst[w]]
  BY DEF Init
<1>5. writer = [w \in Writer |-> "idle"] /\ seen = [w \in Writer |-> 0]
  BY DEF Init
<1>6. notified \in State /\ result \in State /\ row \in Nat
  BY DEF Init, State, STATE_UNKNOWN, STATE_ERROR
<1>7. entry.state \in State
  BY <1>2 DEF State, STATE_UNKNOWN, STATE_ERROR
<1>8. \A w \in Writer : Loop(w)
  BY <1>5 DEF Loop, Busy
<1>. QED BY <1>2, <1>3, <1>4, <1>5, <1>6, <1>7, <1>8 DEF TypeOK, Quiet, Busy

\* The entry, if some of its fields are replaced by others of the same type.
EntryOK(e) ==
  /\ e = [time |-> e.time, value |-> e.value, state |-> e.state, hits |-> e.hits]
  /\ e.state \in State /\ e.hits \in Nat

\* The loops of a thread that does not move, or moves from one step of the report
\* to the next, or is outside of both.
LEMMA LoopStays ==
  ASSUME NEW w \in Writer, Loop(w), th' = th, worst'[w] = worst[w],
         \/ writer'[w] = writer[w] /\ turn'[w] = turn[w]
         \/ writer[w] \in Busy /\ writer'[w] \in Busy
  PROVE  Loop(w)'
<1>1. "check" \notin Busy
  BY DEF Busy
<1>2. Found(worst[w], Turn) => Found(worst[w], Turn)'
  BY DEF Found, Turn, Applies
<1>3. Found(worst[w], Before(turn[w])) /\ turn'[w] = turn[w] =>
        Found(worst[w], Before(turn[w]))'
  BY DEF Found, Turn, Before, Applies
<1>4. turn'[w] = turn[w] =>
        /\ turn[w] \in Turn => (turn[w] \in Turn)'
        /\ (turn[w] = FirstTurn) => (turn[w] = FirstTurn)'
  BY DEF Turn, FirstTurn
<1>. QED BY <1>1, <1>2, <1>3, <1>4 DEF Loop

LEMMA LoopOutside ==
  ASSUME NEW w \in Writer, writer'[w] \notin Busy, writer'[w] # "check"
  PROVE  Loop(w)'
BY DEF Loop

\* The loops of the thread that takes a turn.
LEMMA LoopTurn ==
  ASSUME TypeOK, NEW w \in Writer, ut_check_one_data_source(w) \/ ut_check_threshold(w)
  PROVE  /\ Loop(w)'
         /\ Found(Checked(w), Before(turn[w]) \cup {turn[w]})
<1>1. /\ th \in Thresholds /\ th' = th /\ writer[w] = "check" /\ Loop(w)
      /\ worst'[w] = Checked(w)
  BY DEF TypeOK, ut_check_one_data_source, ut_check_threshold
<1>2. turn[w] \in Turn
  BY <1>1 DEF Loop
<1>3. Found(Checked(w), Before(turn[w]) \cup {turn[w]})
  BY <1>1, <1>2, CheckedFacts DEF Loop
<1>4. ASSUME NEW p, NEW x, NEW S, S = Before(p), Found(x, S)
      PROVE  /\ turn'[w] = p /\ p \in Turn => (turn[w] \in Turn)'
             /\ turn'[w] = p /\ worst'[w] = x => Found(worst[w], Before(turn[w]))'
  <2>1. turn'[w] = p /\ p \in Turn => (turn[w] \in Turn)'
    BY <1>1 DEF Turn
  <2>2. turn'[w] = p /\ worst'[w] = x => Found(worst[w], Before(turn[w]))'
    BY <1>1, <1>4 DEF Found, Before, Turn, Applies
  <2>. QED BY <2>1, <2>2
<1>5. CASE ut_check_one_data_source(w)
  <2>1. turn[w] # LastTurn /\ turn'[w] = NextTurn(turn[w]) /\ writer' = writer
    BY <1>5 DEF ut_check_one_data_source, TypeOK
  <2>2. /\ NextTurn(turn[w]) \in Turn
        /\ Before(NextTurn(turn[w])) = Before(turn[w]) \cup {turn[w]}
    BY <1>1, <1>2, <2>1, TurnFacts
  <2>3. (turn[w] \in Turn)' /\ Found(worst[w], Before(turn[w]))'
    BY <1>1, <1>3, <1>4, <2>1, <2>2
  <2>4. writer'[w] \notin Busy
    BY <1>1, <2>1 DEF Busy
  <2>. QED BY <1>3, <2>3, <2>4 DEF Loop
<1>6. CASE ut_check_threshold(w)
  <2>1. turn[w] = LastTurn /\ writer'[w] \in {"hits", "state"}
    BY <1>6 DEF ut_check_threshold, TypeOK
  <2>2. Found(worst'[w], Turn)
    BY <1>1, <1>3, <2>1, TurnFacts
  <2>3. Found(worst[w], Turn)'
    BY <1>1, <2>2 DEF Found, Turn, Applies
  <2>. QED BY <1>3, <2>1, <2>3 DEF Loop
<1>. QED BY <1>5, <1>6

\* ... and every step of the callback keeps them.
LEMMA CallbackType ==
  ASSUME TypeOK, NEW w \in Writer, CallbackStep(w)
  PROVE  TypeOK'
<1>. USE DEF TypeOK, Quiet, Busy
<1>0. th' = th /\ expiring' = expiring /\ overlap' = overlap
  BY DEF CallbackStep, uc_get_rate, ut_check_one_data_source, ut_check_threshold, uc_get_hits,
         report_count, uc_get_state, uc_set_state, plugin_dispatch_notification, history
<1>a. ASSUME NEW u \in Writer \ {w} PROVE Loop(u)'
  <2>1. writer'[u] = writer[u] /\ turn'[u] = turn[u] /\ worst'[u] = worst[u]
    BY DEF CallbackStep, uc_get_rate, ut_check_one_data_source, ut_check_threshold,
           uc_get_hits, report_count, uc_get_state, uc_set_state, plugin_dispatch_notification
  <2>. QED BY <1>0, <2>1, LoopStays
<1>1. CASE uc_get_rate(w)
  <2>1. writer' \in [Writer -> Quiet \cup Busy]
        /\ rate' = [u \in Writer |-> rate'[u]] /\ turn' = [u \in Writer |-> turn'[u]]
        /\ worst' = [u \in Writer |-> worst'[u]]
    BY <1>1 DEF uc_get_rate
  <2>2. UNCHANGED <<entry, seen, notified, repeated, result, row>>
    BY <1>1 DEF uc_get_rate, history
  <2>3. Loop(w)'
    <3>1. CASE writer'[w] = "next"
      BY <3>1, LoopOutside
    <3>2. CASE writer'[w] = "check"
      <4>1. turn'[w] = FirstTurn /\ worst'[w].state = -1
        BY <1>1, <3>2 DEF uc_get_rate, NotChecked
      <4>2. FirstTurn \in Turn
        BY TurnFacts
      <4>3. (turn[w] \in Turn)' /\ (turn[w] = FirstTurn)'
        BY <1>0, <4>1, <4>2 DEF Turn, FirstTurn
      <4>. QED BY <3>2, <4>1, <4>3 DEF Loop
    <3>. QED BY <1>1, <3>1, <3>2 DEF uc_get_rate
  <2>. QED BY <1>0, <1>a, <2>1, <2>2, <2>3
<1>2. CASE ut_check_one_data_source(w)
  <2>1. /\ turn' = [u \in Writer |-> turn'[u]] /\ worst' = [u \in Writer |-> worst'[u]]
        /\ UNCHANGED <<entry, writer, rate, seen, notified, repeated, result, row>>
    BY <1>2 DEF ut_check_one_data_source, history
  <2>. QED BY <1>0, <1>2, <1>a, <2>1, LoopTurn
<1>3. CASE ut_check_threshold(w)
  <2>. DEFINE x == Checked(w)
  <2>1. x.state \in State /\ Loop(w)'
    BY <1>3, LoopTurn DEF Found
  <2>2. /\ worst' = [worst EXCEPT ![w] = x]
        /\ writer' = [writer EXCEPT ![w] = IF x.th.hits # 0 THEN "hits" ELSE "state"]
        /\ result' \in {x.state, result}
        /\ row' = IF x.state \in {STATE_WARNING, STATE_ERROR} THEN row + 1 ELSE 0
        /\ UNCHANGED <<entry, rate, turn, seen, notified, repeated>>
    BY <1>3 DEF ut_check_threshold
  <2>. HIDE DEF x
  <2>3. row' \in Nat /\ result' \in State
    BY <2>1, <2>2
  <2>4. writer' \in [Writer -> Quiet \cup Busy] /\ worst' = [u \in Writer |-> worst'[u]]
    BY <2>2
  <2>. QED BY <1>0, <1>a, <2>1, <2>2, <2>3, <2>4
<1>4. CASE uc_get_hits(w)
  <2>1. /\ writer[w] = "hits" /\ writer'[w] = "count" /\ writer' \in [Writer -> Quiet \cup Busy]
        /\ seen' \in [Writer -> Nat]
        /\ UNCHANGED <<entry, rate, turn, worst, notified, repeated, result, row>>
    BY <1>4 DEF uc_get_hits, history
  <2>2. Loop(w)'
    BY <1>0, <2>1, LoopStays
  <2>. QED BY <1>0, <1>a, <2>1, <2>2
<1>5. CASE report_count(w)
  <2>1. EntryOK(entry')
    <3>1. CASE entry' = entry
      BY <3>1 DEF EntryOK
    <3>2. ASSUME NEW k \in Nat, entry' = [entry EXCEPT !.hits = k] PROVE EntryOK(entry')
      <4>1. entry' = [time |-> entry.time, value |-> entry.value, state |-> entry.state,
                      hits |-> k]
        BY <3>2, Zenon
      <4>. QED BY <4>1 DEF EntryOK
    <3>3. 0 \in Nat /\ entry.hits + 1 \in Nat
      OBVIOUS
    <3>4. entry' = entry \/ \E k \in {0, entry.hits + 1} : entry' = [entry EXCEPT !.hits = k]
      BY <1>5 DEF report_count
    <3>. QED BY <3>1, <3>2, <3>3, <3>4
  <2>2. /\ writer[w] = "count" /\ writer'[w] \in {"state", "next"}
        /\ writer' \in [Writer -> Quiet \cup Busy]
        /\ UNCHANGED <<rate, turn, worst, seen, notified, repeated, result, row>>
    BY <1>5 DEF report_count, history
  <2>3. Loop(w)'
    BY <1>0, <2>2, LoopStays, LoopOutside
  <2>. QED BY <1>0, <1>a, <2>1, <2>2, <2>3 DEF EntryOK
<1>6. CASE uc_get_state(w)
  <2>1. /\ writer[w] = "state" /\ writer'[w] = "set" /\ writer' \in [Writer -> Quiet \cup Busy]
        /\ seen' = [seen EXCEPT ![w] = entry.state]
        /\ UNCHANGED <<entry, rate, turn, worst, notified, repeated, result, row>>
    BY <1>6 DEF uc_get_state, history
  <2>2. Loop(w)'
    BY <1>0, <2>1, LoopStays
  <2>3. seen' \in [Writer -> Nat]
    BY <2>1 DEF State, STATE_UNKNOWN, STATE_ERROR
  <2>. QED BY <1>0, <1>a, <2>1, <2>2, <2>3
<1>7. CASE uc_set_state(w)
  <2>1. EntryOK(entry')
    <3>1. CASE entry' = entry
      BY <3>1 DEF EntryOK
    <3>2. CASE entry' = [entry EXCEPT !.state = worst[w].state]
      <4>1. entry' = [time |-> entry.time, value |-> entry.value, state |-> worst[w].state,
                      hits |-> entry.hits]
        BY <3>2, Zenon
      <4>2. worst[w].state \in State
        BY <1>7 DEF uc_set_state, Loop, Found
      <4>. QED BY <4>1, <4>2 DEF EntryOK
    <3>. QED BY <1>7, <3>1, <3>2 DEF uc_set_state
  <2>2. /\ writer[w] = "set" /\ writer'[w] \in {"notify", "next"}
        /\ writer' \in [Writer -> Quiet \cup Busy]
        /\ UNCHANGED <<rate, turn, worst, seen, notified, repeated, result, row>>
    BY <1>7 DEF uc_set_state, history
  <2>3. Loop(w)'
    BY <1>0, <2>2, LoopStays, LoopOutside
  <2>. QED BY <1>0, <1>a, <2>1, <2>2, <2>3 DEF EntryOK
<1>8. CASE plugin_dispatch_notification(w)
  <2>1. /\ writer' \in [Writer -> Quiet \cup Busy] /\ writer'[w] = "next"
        /\ UNCHANGED <<entry, rate, turn, worst, seen, result, row>>
    BY <1>8 DEF plugin_dispatch_notification, Notify
  <2>2. notified' \in State
    <3>1. worst[w].state \in State
      BY <1>8 DEF plugin_dispatch_notification, Loop, Found
    <3>. QED BY <1>8, <3>1 DEF plugin_dispatch_notification, Notify
  <2>3. repeated' \in BOOLEAN
    BY <1>8, Zenon DEF plugin_dispatch_notification, Notify
  <2>4. Loop(w)'
    BY <2>1, LoopOutside
  <2>. QED BY <1>0, <1>a, <2>1, <2>2, <2>3, <2>4
<1>. QED BY <1>1, <1>2, <1>3, <1>4, <1>5, <1>6, <1>7, <1>8 DEF CallbackStep

\* The same for every other step.
LEMMA TypeStep == TypeOK /\ [Next]_vars => TypeOK'
<1>. SUFFICES ASSUME TypeOK, [Next]_vars PROVE TypeOK'
  OBVIOUS
<1>. USE DEF TypeOK, Quiet, Busy
<1>a. ASSUME UNCHANGED <<th, writer, turn, worst>> PROVE \A u \in Writer : Loop(u)'
  BY <1>a, LoopStays
<1>b. ASSUME NEW w \in Writer, th' = th, writer'[w] \in {"idle", "next", "rate"},
             \A u \in Writer \ {w} :
               writer'[u] = writer[u] /\ turn'[u] = turn[u] /\ worst'[u] = worst[u]
      PROVE  \A u \in Writer : Loop(u)'
  <2>1. Loop(w)'
    BY <1>b, LoopOutside
  <2>2. \A u \in Writer \ {w} : Loop(u)'
    BY <1>b, LoopStays
  <2>. QED BY <2>1, <2>2
<1>1. ASSUME NEW w \in Writer, NEW t \in pending, NEW v \in Value,
             plugin_dispatch_values_internal(w, t, v)
      PROVE  TypeOK'
  <2>1. \A u \in Writer : Loop(u)'
    BY <1>1, <1>b DEF plugin_dispatch_values_internal
  <2>. QED BY <1>1, <2>1 DEF plugin_dispatch_values_internal, history
<1>2. ASSUME NEW w \in Writer, plugin_write(w) PROVE TypeOK'
  <2>1. \A u \in Writer : Loop(u)'
    BY <1>2, <1>b DEF plugin_write
  <2>2. overlap' \in BOOLEAN
    BY <1>2, Zenon DEF plugin_write
  <2>3. /\ writer' \in [Writer -> Quiet \cup Busy]
        /\ UNCHANGED <<th, entry, rate, turn, worst, seen, notified, repeated, result, row,
                       expiring>>
    BY <1>2 DEF plugin_write
  <2>. QED BY <2>1, <2>2, <2>3
<1>3. ASSUME NEW w \in Writer, uc_update(w) PROVE TypeOK'
  <2>1. EntryOK(entry')
    <3>1. CASE entry' = entry
      BY <3>1 DEF EntryOK
    <3>2. CASE entry' = NewEntry(job[w].time, job[w].value)
      BY <3>2 DEF NewEntry, EntryOK, State, STATE_UNKNOWN, STATE_ERROR
    <3>3. CASE entry' = [entry EXCEPT !.time = job[w].time, !.value = job[w].value]
      <4>1. entry' = [time |-> job[w].time, value |-> job[w].value, state |-> entry.state,
                      hits |-> entry.hits]
        BY <3>3, Zenon
      <4>. QED BY <4>1 DEF EntryOK
    <3>. QED BY <1>3, <3>1, <3>2, <3>3 DEF uc_update
  <2>2. notified' \in State /\ result' \in State /\ row' \in Nat
    <3>1. 0 \in Nat /\ STATE_UNKNOWN \in State
      BY DEF State, STATE_UNKNOWN, STATE_ERROR
    <3>2. CASE NewHistory
      BY <3>1, <3>2 DEF NewHistory
    <3>3. CASE ~NewHistory
      <4>1. notified' = notified /\ row' = row /\ result' \in {result, STATE_UNKNOWN}
        BY <1>3, <3>3 DEF uc_update, history
      <4>. QED BY <3>1, <4>1
    <3>. QED BY <3>2, <3>3
  <2>3. repeated' \in BOOLEAN /\ overlap' \in BOOLEAN
    BY <1>3, Zenon DEF uc_update, NewHistory, history
  <2>4. UNCHANGED <<th, writer, rate, turn, worst, seen, expiring>>
    BY <1>3 DEF uc_update, check
  <2>. QED BY <1>a, <2>1, <2>2, <2>3, <2>4 DEF EntryOK
<1>4. ASSUME NEW w \in Writer, dispatch_return(w) PROVE TypeOK'
  <2>1. \A u \in Writer : Loop(u)'
    BY <1>4, <1>b DEF dispatch_return
  <2>2. /\ writer' \in [Writer -> Quiet \cup Busy] /\ seen' \in [Writer -> Nat]
        /\ rate' = [u \in Writer |-> rate'[u]] /\ turn' = [u \in Writer |-> turn'[u]]
        /\ worst' = [u \in Writer |-> worst'[u]]
        /\ UNCHANGED <<th, entry, notified, repeated, result, row, overlap, expiring>>
    BY <1>4 DEF dispatch_return, history
  <2>. QED BY <2>1, <2>2
<1>5. ASSUME NEW w \in Writer, CallbackStep(w) PROVE TypeOK'
  BY <1>5, CallbackType
<1>6. CASE plugin_dispatch_missing
  <2>1. UNCHANGED <<th, entry, writer, rate, turn, worst, seen, result, row, overlap>>
        /\ expiring' = TRUE
    BY <1>6 DEF plugin_dispatch_missing, ut_missing, check
  <2>2. notified' \in State
    BY <1>6 DEF plugin_dispatch_missing, ut_missing, Notify, State, STATE_UNKNOWN, STATE_ERROR
  <2>3. repeated' \in BOOLEAN
    BY <1>6 DEF plugin_dispatch_missing, ut_missing, Notify
  <2>. QED BY <1>a, <2>1, <2>2, <2>3
<1>7. CASE uc_remove
  <2>1. EntryOK(entry')
    BY <1>7 DEF uc_remove, Absent, EntryOK, State, STATE_UNKNOWN, STATE_ERROR
  <2>2. UNCHANGED <<th, writer, rate, turn, worst, seen, notified, repeated, result, row, overlap>>
        /\ expiring' = FALSE
    BY <1>7 DEF uc_remove, check, history
  <2>. QED BY <1>a, <2>1, <2>2 DEF EntryOK
<1>8. CASE UNCHANGED vars
  <2>1. UNCHANGED <<th, entry, writer, rate, turn, worst, seen, notified, repeated, result, row,
                    overlap, expiring>>
    BY <1>8 DEF vars, check, history
  <2>. QED BY <1>a, <2>1
<1>. QED BY <1>1, <1>2, <1>3, <1>4, <1>5, <1>6, <1>7, <1>8 DEF Next

-----------------------------------------------------------------------------
(* Notifications *)

\* A thread outside of the report takes over from one outside of it, perhaps from
\* itself: the entry and its history stay as they are.
LEMMA HandOver ==
  ASSUME NEW w, NEW u, Good(w),
         UNCHANGED <<th, entry, expiring, notified, repeated, result, row>>,
         writer[w] \in Quiet, writer'[u] \in Quiet,
         writer'[u] = "check" => rate'[u].time = entry.time \/ result = STATE_UNKNOWN
  PROVE  Good(u)'
<1>. USE DEF Good
<1>1. /\ writer'[u] \notin Busy
      /\ writer'[u] \notin {"hits", "count", "state", "set", "notify"} /\ writer[w] # "notify"
  BY DEF Quiet, Busy
<1>2. Knows(u)'
  BY <1>1 DEF Knows
<1>3. Told(u)'
  BY <1>1, MatchedStays DEF Told
<1>4. Counting(u)'
  BY <1>1 DEF Counting
<1>5. Earned(u)'
  BY <1>1, MatchedStays DEF Earned, Overdue
<1>6. Changing(u)'
  BY <1>1 DEF Changing
<1>7. Recovering(u)'
  BY DEF Recovering
<1>. QED BY <1>2, <1>3, <1>4, <1>5, <1>6, <1>7

\* The thread does not move, and at most the value of the entry changes.
LEMMA Bystander ==
  ASSUME NEW w, Good(w), UNCHANGED <<th, expiring, notified, repeated, row>>,
         writer'[w] = writer[w], rate'[w] = rate[w], worst'[w] = worst[w], seen'[w] = seen[w],
         entry'.state = entry.state, entry'.hits = entry.hits,
         (entry'.time = entry.time /\ result' = result) \/ result' = STATE_UNKNOWN
  PROVE  Good(w)'
<1>. USE DEF Good
<1>1. Knows(w)'
  BY DEF Knows
<1>2. Told(w)'
  BY MatchedStays DEF Told
<1>3. Counting(w)'
  BY DEF Counting
<1>4. Earned(w)'
  BY MatchedStays DEF Earned, Overdue
<1>5. Changing(w)'
  BY DEF Changing
<1>6. Recovering(w)'
  BY DEF Recovering, STATE_UNKNOWN, STATE_OKAY
<1>. QED BY <1>1, <1>2, <1>3, <1>4, <1>5, <1>6

\* ut_check_threshold: the values out of range are counted, and only then the
\* hits.
LEMMA CheckStep ==
  ASSUME NEW w \in Writer, TypeOK, TypeOK', Good(w), ut_check_threshold(w), expiring' = expiring
  PROVE  Good(w)'
<1>. USE DEF Good
<1>. DEFINE x == Checked(w)
<1>1. x.state \in State /\ \E i \in 1..Len(th) : x.th = th[i]
  BY LoopTurn DEF Found
<1>2. /\ worst'[w] = x /\ writer'[w] = IF x.th.hits # 0 THEN "hits" ELSE "state"
      /\ result' = IF rate[w].time = entry.time THEN x.state ELSE result
      /\ row' = IF x.state \in Alarm THEN row + 1 ELSE 0
      /\ UNCHANGED <<th, entry, seen, notified, repeated>>
      /\ writer[w] = "check"
  BY DEF ut_check_threshold, TypeOK, Alarm
<1>3. result' \in {x.state, STATE_UNKNOWN}
  BY <1>2 DEF Knows
<1>. HIDE DEF x
<1>4. Knows(w)'
  BY <1>1, <1>2, <1>3 DEF Knows
<1>5. Told(w)'
  BY <1>2, MatchedStays DEF Told
<1>6. Counting(w)'
  BY <1>2 DEF Counting, Quiet, TypeOK
<1>7. Earned(w)'
  <2>. SUFFICES ASSUME Matched, ~expiring,
                       \A i \in 1..Len(th) : th[i].hits # 0 /\ ~th[i].persist_ok
                PROVE  /\ writer'[w] = "hits"
                       /\ x.state \in Alarm =>
                            entry.hits < row + 1 /\ (notified \in Alarm => Overdue')
    BY <1>2, MatchedStays DEF Earned, Quiet
  <2>1. writer'[w] = "hits"
    BY <1>1, <1>2
  <2>2. entry.hits <= row /\ (notified \in Alarm => Overdue)
    BY <1>2 DEF Earned, Quiet
  <2>3. row \in Nat /\ entry.hits \in Nat /\ \A i \in 1..Len(th) : th[i].hits \in Nat
    BY ThFacts DEF TypeOK, threshold_t
  <2>4. x.state \in Alarm /\ Overdue => Overdue'
    BY <1>2, <2>3 DEF Overdue
  <2>. QED BY <2>1, <2>2, <2>3, <2>4
<1>8. Changing(w)'
  BY <1>2 DEF Changing
<1>9. Recovering(w)'
  BY <1>2 DEF Recovering, Quiet
<1>. QED BY <1>4, <1>5, <1>6, <1>7, <1>8, <1>9

\* uc_get_hits and uc_get_state: what was read is what the entry holds.
LEMMA ReadStep ==
  ASSUME NEW w \in Writer, TypeOK, TypeOK', Good(w), uc_get_hits(w) \/ uc_get_state(w),
         expiring' = expiring
  PROVE  Good(w)'
<1>. USE DEF Good
<1>1. /\ \/ writer[w] = "hits" /\ writer'[w] = "count" /\ seen'[w] = entry.hits
         \/ writer[w] = "state" /\ writer'[w] = "set" /\ seen'[w] = entry.state
      /\ UNCHANGED <<th, entry, worst, notified, repeated, result, row>>
  BY DEF uc_get_hits, uc_get_state, history, TypeOK
<1>2. Knows(w)'
  BY <1>1 DEF Knows, Busy
<1>3. Told(w)'
  BY <1>1, MatchedStays DEF Told
<1>4. Counting(w)'
  BY <1>1 DEF Counting, Quiet
<1>5. Earned(w)'
  BY <1>1, MatchedStays DEF Earned, Overdue, Quiet
<1>6. Changing(w)'
  BY <1>1 DEF Changing
<1>7. Recovering(w)'
  BY <1>1 DEF Recovering, Quiet
<1>. QED BY <1>2, <1>3, <1>4, <1>5, <1>6, <1>7

\* The hits are counted: if there are not enough of them, neither are there
\* enough values out of range, and the other way round.
LEMMA CountStep ==
  ASSUME NEW w \in Writer, TypeOK, TypeOK', Cached, Good(w), report_count(w),
         expiring' = expiring
  PROVE  Good(w)'
<1>. USE DEF Good
<1>. DEFINE enough == EnoughHits(worst[w], seen[w])
<1>1. /\ writer[w] = "count" /\ writer'[w] = IF enough THEN "state" ELSE "next"
      /\ UNCHANGED <<th, worst, seen, notified, repeated, result, row>>
  BY DEF report_count, history, TypeOK
<1>2. /\ entry'.state = entry.state
      /\ entry'.hits = IF enough THEN 0 ELSE entry.hits + 1
  <2>1. entry = [time |-> entry.time, value |-> entry.value, state |-> entry.state,
                 hits |-> entry.hits]
    BY DEF TypeOK
  <2>2. entry' = [entry EXCEPT !.hits = IF enough THEN 0 ELSE @ + 1]
    BY DEF report_count
  <2>. HIDE DEF enough
  <2>. QED BY <2>1, <2>2
<1>3. Found(worst[w], Turn)
  BY <1>1 DEF TypeOK, Loop, Busy
<1>4. PICK i \in 1..Len(th) : worst[w].th = th[i]
  BY <1>3 DEF Found
<1>5. th[i].hits \in Nat /\ th[i].persist_ok \in BOOLEAN
  BY ThFacts DEF TypeOK, threshold_t
<1>6. enough <=> (worst[w].state = STATE_OKAY /\ ~th[i].persist_ok) \/ seen[w] > th[i].hits
  BY <1>4 DEF EnoughHits
<1>7. row \in Nat /\ entry.hits \in Nat /\ seen[w] = entry.hits
  BY <1>1 DEF TypeOK, Knows
<1>. HIDE DEF enough
<1>8. Knows(w)'
  BY <1>1 DEF Knows, Busy
<1>9. Told(w)'
  BY <1>1, <1>2, MatchedStays DEF Told
<1>10. Counting(w)'
  <2>1. CASE enough
    BY <1>1, <2>1 DEF Counting, Quiet
  <2>2. CASE ~enough
    <3>. SUFFICES ASSUME notified \notin Alarm
                  PROVE  row <= entry'.hits /\ row <= th[i].hits + 1
      BY <1>1, <2>2 DEF Counting
    <3>1. row <= entry.hits + 1 /\ entry'.hits = entry.hits + 1
      BY <1>1, <1>2, <2>2 DEF Counting
    <3>. QED BY <1>5, <1>6, <1>7, <2>2, <3>1
  <2>. QED BY <2>1, <2>2
<1>11. Earned(w)'
  <2>. SUFFICES ASSUME Matched, ~expiring,
                       \A j \in 1..Len(th) : th[j].hits # 0 /\ ~th[j].persist_ok
                PROVE  /\ enough => entry'.hits = 0 /\ (worst[w].state \in Alarm => Overdue)
                       /\ ~enough => entry'.hits <= row /\ (notified \in Alarm => Overdue)
    BY <1>1, MatchedStays DEF Earned, Overdue, Quiet
  <2>1. worst[w].state \in Alarm => entry.hits < row /\ (notified \in Alarm => Overdue)
    BY <1>1 DEF Earned
  <2>2. worst[w].state \in Alarm \/ worst[w].state = STATE_OKAY
    BY <1>3, FoundMatched
       DEF Found, State, Alarm, STATE_UNKNOWN, STATE_OKAY, STATE_WARNING, STATE_ERROR
  <2>3. STATE_OKAY \notin Alarm
    BY DEF Alarm, STATE_OKAY, STATE_WARNING, STATE_ERROR
  <2>4. CASE enough
    <3>1. worst[w].state \in Alarm => row > th[i].hits + 1
      BY <1>5, <1>6, <1>7, <2>1, <2>3, <2>4
    <3>. QED BY <1>2, <2>4, <3>1 DEF Overdue
  <2>5. CASE ~enough
    <3>1. worst[w].state \in Alarm
      BY <1>6, <2>2, <2>5
    <3>. QED BY <1>2, <1>7, <2>1, <2>5, <3>1
  <2>. QED BY <2>4, <2>5
<1>12. Changing(w)'
  BY <1>1 DEF Changing
<1>13. Recovering(w)'
  <2>. SUFFICES ASSUME result = STATE_OKAY, ~enough,
                       \A j \in 1..Len(th) : ~(th[j].persist_ok /\ th[j].hits # 0)
                PROVE  FALSE
    BY <1>1 DEF Recovering, Quiet
  <2>1. worst[w].state = STATE_OKAY /\ th[i].hits # 0
    BY <1>1, <1>4 DEF Knows, Busy, STATE_OKAY, STATE_UNKNOWN
  <2>. QED BY <1>5, <1>6, <2>1
<1>. QED BY <1>8, <1>9, <1>10, <1>11, <1>12, <1>13

\* The state is set: a change is reported, and what is not reported has been
\* reported before.
LEMMA SetStep ==
  ASSUME NEW w \in Writer, TypeOK, TypeOK', Cached, Good(w), uc_set_state(w),
         expiring' = expiring
  PROVE  Good(w)'
<1>. USE DEF Good
<1>. DEFINE silent == Silent(worst[w], seen[w])
<1>1. /\ writer[w] = "set" /\ writer'[w] = IF silent THEN "next" ELSE "notify"
      /\ UNCHANGED <<th, worst, seen, notified, repeated, result, row>>
  BY DEF uc_set_state, history, TypeOK
<1>2. seen[w] = entry.state
  BY <1>1 DEF Knows
<1>3. entry'.hits = entry.hits /\ entry'.state = worst[w].state
  <2>1. entry = [time |-> entry.time, value |-> entry.value, state |-> entry.state,
                 hits |-> entry.hits]
    BY DEF TypeOK
  <2>2. entry' = IF worst[w].state # seen[w]
                   THEN [entry EXCEPT !.state = worst[w].state] ELSE entry
    BY DEF uc_set_state
  <2>. QED BY <1>2, <2>1, <2>2
<1>4. Found(worst[w], Turn)
  BY <1>1 DEF TypeOK, Loop, Busy
<1>5. PICK i \in 1..Len(th) : worst[w].th = th[i]
  BY <1>4 DEF Found
<1>6. /\ silent => worst[w].state = seen[w]
      /\ worst[w].state = STATE_UNKNOWN /\ seen[w] = STATE_UNKNOWN => silent
      /\ ~silent /\ ~th[i].persist => worst[w].state # seen[w]
  BY <1>5 DEF Silent
<1>. HIDE DEF silent
<1>7. /\ result \in {worst[w].state, STATE_UNKNOWN}
      /\ worst[w].state \notin Alarm => row = 0
      /\ worst[w].state = STATE_UNKNOWN <=> ~Matched
  BY <1>1, <1>4, FoundMatched DEF Knows, Busy
<1>8. Knows(w)'
  BY <1>1, <1>7 DEF Knows
<1>9. Told(w)'
  BY <1>1, <1>2, <1>3, <1>6, <1>7, MatchedStays DEF Told
<1>10. Counting(w)'
  <2>. SUFFICES ASSUME notified \notin Alarm, silent
                PROVE  row <= entry'.hits /\ row <= th[i].hits + 1
    BY <1>1 DEF Counting, Quiet
  <2>1. row = 0
    BY <1>1, <1>2, <1>6, <1>7 DEF Told
  <2>2. th[i].hits \in Nat /\ entry'.hits \in Nat
    BY ThFacts DEF threshold_t, TypeOK
  <2>. QED BY <2>1, <2>2
<1>11. Earned(w)'
  <2>. SUFFICES ASSUME Matched, ~expiring,
                       \A j \in 1..Len(th) : th[j].hits # 0 /\ ~th[j].persist_ok
                PROVE  /\ entry.hits = 0 /\ entry.hits <= row
                       /\ worst[w].state \in Alarm => Overdue
                       /\ silent /\ notified \in Alarm => Overdue
    BY <1>1, <1>3, MatchedStays DEF Earned, Overdue, Quiet
  <2>1. entry.hits = 0 /\ (worst[w].state \in Alarm => Overdue)
    BY <1>1 DEF Earned
  <2>2. silent => notified = worst[w].state
    BY <1>1, <1>2, <1>6 DEF Told
  <2>3. row \in Nat
    BY DEF TypeOK
  <2>. QED BY <2>1, <2>2, <2>3
<1>12. Changing(w)'
  BY <1>1, <1>2, <1>6 DEF Changing, Told
<1>13. Recovering(w)'
  <2>. SUFFICES ASSUME ~expiring, result = STATE_OKAY, silent
                PROVE  notified = STATE_OKAY
    BY <1>1 DEF Recovering, Quiet
  <2>. QED BY <1>1, <1>2, <1>6, <1>7 DEF Told, STATE_OKAY, STATE_UNKNOWN
<1>. QED BY <1>8, <1>9, <1>10, <1>11, <1>12, <1>13

\* The notification: from now on it agrees with the entry.
LEMMA NotifyStep ==
  ASSUME NEW w \in Writer, TypeOK, TypeOK', Good(w), plugin_dispatch_notification(w),
         expiring' = expiring
  PROVE  Good(w)'
<1>. USE DEF Good
<1>1. /\ writer[w] = "notify" /\ writer'[w] = "next"
      /\ UNCHANGED <<th, entry, worst, seen, result, row>>
      /\ worst[w].state # STATE_UNKNOWN =>
           notified' = worst[w].state /\ repeated' = (notified = worst[w].state)
      /\ worst[w].state = STATE_UNKNOWN => UNCHANGED <<notified, repeated>>
  BY DEF plugin_dispatch_notification, Notify, TypeOK
<1>2. Found(worst[w], Turn)
  BY <1>1 DEF TypeOK, Loop, Busy
<1>3. /\ result \in {worst[w].state, STATE_UNKNOWN}
      /\ worst[w].state \notin Alarm => row = 0
      /\ worst[w].state = STATE_UNKNOWN <=> ~Matched
  BY <1>1, <1>2, FoundMatched DEF Knows, Busy
<1>4. entry.state = worst[w].state /\ worst[w].state # STATE_UNKNOWN
  BY <1>1, <1>3 DEF Told
<1>5. Knows(w)'
  BY <1>1 DEF Knows, Busy
<1>6. Told(w)'
  BY <1>1, <1>3, <1>4, MatchedStays DEF Told
<1>7. row \in Nat /\ th[1].hits \in Nat /\ entry.hits \in Nat /\ 1 \in 1..Len(th)
  BY ThFacts DEF threshold_t, TypeOK
<1>8. Counting(w)'
  <2>. SUFFICES ASSUME notified' \notin Alarm
                PROVE  row <= entry.hits /\ row <= th[1].hits + 1
    BY <1>1, <1>7 DEF Counting
  <2>1. row = 0
    BY <1>1, <1>3, <1>4
  <2>. QED BY <1>7, <2>1
<1>9. Earned(w)'
  <2>. SUFFICES ASSUME Matched, ~expiring,
                       \A j \in 1..Len(th) : th[j].hits # 0 /\ ~th[j].persist_ok
                PROVE  entry.hits <= row /\ (worst[w].state \in Alarm => Overdue)
    BY <1>1, <1>4, MatchedStays DEF Earned, Overdue
  <2>. QED BY <1>1, <1>7 DEF Earned
<1>10. Changing(w)'
  BY <1>1, <1>4 DEF Changing
<1>11. Recovering(w)'
  BY <1>1, <1>3, <1>4 DEF Recovering, STATE_OKAY, STATE_UNKNOWN
<1>. QED BY <1>5, <1>6, <1>8, <1>9, <1>10, <1>11

\* A new entry starts without a state, without hits and with a new history.
LEMMA NewStep ==
  ASSUME NEW w \in Writer, TypeOK, ~Cached, uc_update(w)
  PROVE  Good(w)'
<1>1. /\ writer[w] = "next" /\ UNCHANGED <<th, writer>>
      /\ entry'.state = STATE_UNKNOWN /\ entry'.hits = 0
      /\ notified' = STATE_UNKNOWN /\ ~repeated' /\ result' = STATE_UNKNOWN /\ row' = 0
  <2>1. entry' = NewEntry(job[w].time, job[w].value) /\ NewHistory
    BY DEF uc_update
  <2>2. writer[w] = "next" /\ UNCHANGED <<th, writer>>
    BY DEF uc_update, check
  <2>3. entry'.state = STATE_UNKNOWN /\ entry'.hits = 0
    BY <2>1 DEF NewEntry
  <2>4. notified' = STATE_UNKNOWN /\ ~repeated' /\ result' = STATE_UNKNOWN /\ row' = 0
    BY <2>1, Zenon DEF NewHistory
  <2>. QED BY <2>2, <2>3, <2>4
<1>2. STATE_UNKNOWN \notin Alarm /\ STATE_UNKNOWN # STATE_OKAY
  BY DEF Alarm, STATE_UNKNOWN, STATE_OKAY, STATE_WARNING, STATE_ERROR
<1>3. Knows(w)'
  BY <1>1 DEF Knows, Busy
<1>4. Told(w)'
  BY <1>1, <1>2 DEF Told
<1>5. Counting(w)'
  <2>1. th[1].hits \in Nat /\ 1 \in 1..Len(th)
    BY ThFacts DEF threshold_t, TypeOK
  <2>. QED BY <1>1, <2>1 DEF Counting
<1>6. Earned(w)'
  BY <1>1, <1>2 DEF Earned
<1>7. Changing(w)'
  BY <1>1 DEF Changing
<1>8. Recovering(w)'
  BY <1>1, <1>2 DEF Recovering
<1>. QED BY <1>3, <1>4, <1>5, <1>6, <1>7, <1>8 DEF Good

\* A missing value is reported at any moment, but only shortly before the entry
\* is removed, and as an alarm.
LEMMA MissingStep ==
  ASSUME NEW w \in Writer, Good(w), plugin_dispatch_missing
  PROVE  Good(w)'
<1>. USE DEF Good
<1>1. /\ UNCHANGED <<th, entry, writer, rate, worst, seen, result, row>>
      /\ expiring' = TRUE /\ ~expiring
      /\ Head(th).interesting => notified' = STATE_ERROR
      /\ ~Head(th).interesting => notified' = notified
  BY DEF plugin_dispatch_missing, ut_missing, Notify, check
<1>2. STATE_ERROR \in Alarm
  BY DEF Alarm
<1>3. Knows(w)'
  BY <1>1 DEF Knows
<1>4. Told(w)'
  BY <1>1, <1>2, MatchedStays DEF Told
<1>5. Counting(w)'
  BY <1>1, <1>2 DEF Counting
<1>6. Earned(w)' /\ Changing(w)' /\ Recovering(w)'
  BY <1>1 DEF Earned, Changing, Recovering
<1>. QED BY <1>3, <1>4, <1>5, <1>6

\* What a step of the callback leaves alone.
LEMMA CallbackFrame ==
  ASSUME TypeOK, NEW w \in Writer, CallbackStep(w)
  PROVE  /\ expiring' = expiring /\ overlap' = overlap
         /\ Cached' <=> Cached
         /\ Checking(w)
         /\ \A u \in Writer \ {w} : writer'[u] = writer[u]
<1>1. entry'.time = entry.time
  <2>1. CASE entry' = entry
    BY <2>1
  <2>2. ASSUME NEW k, entry' = [entry EXCEPT !.hits = k] \/ entry' = [entry EXCEPT !.state = k]
        PROVE  entry'.time = entry.time
    <3>1. entry = [time |-> entry.time, value |-> entry.value, state |-> entry.state,
                   hits |-> entry.hits]
      BY DEF TypeOK
    <3>. QED BY <2>2, <3>1
  <2>3. \/ entry' = entry
        \/ \E k : entry' = [entry EXCEPT !.hits = k] \/ entry' = [entry EXCEPT !.state = k]
    BY DEF CallbackStep, uc_get_rate, ut_check_one_data_source, ut_check_threshold,
           uc_get_hits, report_count, uc_get_state, uc_set_state, plugin_dispatch_notification
  <2>. QED BY <2>1, <2>2, <2>3
<1>2. expiring' = expiring /\ overlap' = overlap
  BY DEF CallbackStep, uc_get_rate, ut_check_one_data_source, ut_check_threshold,
         uc_get_hits, report_count, uc_get_state, uc_set_state, plugin_dispatch_notification,
         history
<1>3. Checking(w) /\ \A u \in Writer \ {w} : writer'[u] = writer[u]
  BY DEF CallbackStep, uc_get_rate, ut_check_one_data_source, ut_check_threshold,
         uc_get_hits, report_count, uc_get_state, uc_set_state, plugin_dispatch_notification,
         TypeOK, Checking
<1>. QED BY <1>1, <1>2, <1>3 DEF Cached

\* The steps of the callback, taken by the thread the invariant is about.
LEMMA CallbackGood ==
  ASSUME NEW w \in Writer, TypeOK, TypeOK', Cached, Good(w), CallbackStep(w)
  PROVE  Good(w)'
<1>0. expiring' = expiring
  BY CallbackFrame
<1>1. CASE uc_get_rate(w)
  <2>1. /\ writer[w] \in Quiet /\ writer'[w] \in Quiet /\ rate'[w].time = entry.time
        /\ UNCHANGED <<th, entry, notified, repeated, result, row>>
    BY <1>1 DEF uc_get_rate, Quiet, TypeOK, history
  <2>. QED BY <1>0, <2>1, HandOver
<1>2. CASE ut_check_one_data_source(w)
  <2>1. /\ writer[w] = "check" /\ writer' = writer /\ rate' = rate
        /\ UNCHANGED <<th, entry, notified, repeated, result, row>>
    BY <1>2 DEF ut_check_one_data_source, history
  <2>2. writer[w] \in Quiet /\ (rate[w].time = entry.time \/ result = STATE_UNKNOWN)
    BY <2>1 DEF Good, Knows, Quiet
  <2>. QED BY <1>0, <2>1, <2>2, HandOver
<1>. QED BY <1>0, <1>1, <1>2, CheckStep, ReadStep, CountStep, SetStep, NotifyStep DEF CallbackStep

-----------------------------------------------------------------------------
(* The invariant *)

\* Every step keeps it: the thread it is about moves or stands by, hands over to
\* the one that enters the callback, or the metric gets a new entry or loses it.
LEMMA InvStep == IInv /\ [Next]_vars => IInv'
<1>. SUFFICES ASSUME IInv, [Next]_vars, Cached', ~overlap'
              PROVE  \E w \in Writer : Solo(w)' /\ Good(w)'
  BY TypeStep DEF IInv
<1>0. TypeOK /\ TypeOK'
  BY TypeStep DEF IInv
<1>a. ASSUME Cached, ~overlap PROVE \E w \in Writer : Solo(w) /\ Good(w)
  BY <1>a DEF IInv
<1>1. ASSUME NEW u \in Writer,
             \/ dispatch_return(u)
             \/ \E t \in pending, v \in Value : plugin_dispatch_values_internal(u, t, v)
      PROVE  \E w \in Writer : Solo(w)' /\ Good(w)'
  <2>1. /\ UNCHANGED <<th, entry, expiring, notified, repeated, result, row, overlap>>
        /\ writer[u] \in {"idle", "next"} /\ writer'[u] \in {"idle", "next"}
        /\ \A x \in Writer \ {u} : /\ writer'[x] = writer[x] /\ rate'[x] = rate[x]
                                   /\ worst'[x] = worst[x] /\ seen'[x] = seen[x]
    BY <1>0, <1>1 DEF dispatch_return, plugin_dispatch_values_internal, history, TypeOK
  <2>2. Cached /\ ~overlap
    BY <2>1 DEF Cached
  <2>3. PICK w \in Writer : Solo(w) /\ Good(w)
    BY <1>a, <2>2
  <2>4. Solo(w)'
    BY <2>1, <2>3 DEF Solo, Checking
  <2>5. CASE w = u
    <3>1. writer[w] \in Quiet /\ writer'[w] \in Quiet /\ writer'[w] # "check"
      BY <2>1, <2>5 DEF Quiet
    <3>2. Good(w)'
      BY <2>1, <2>3, <3>1, HandOver
    <3>. QED BY <2>4, <3>2
  <2>6. CASE w # u
    <3>1. Good(w)'
      BY <2>1, <2>3, <2>6, Bystander
    <3>. QED BY <2>4, <3>1
  <2>. QED BY <2>5, <2>6
<1>2. ASSUME NEW u \in Writer, plugin_write(u)
      PROVE  \E w \in Writer : Solo(w)' /\ Good(w)'
  <2>1. /\ UNCHANGED <<th, entry, expiring, notified, repeated, result, row>>
        /\ writer[u] = "next" /\ writer'[u] = "rate"
        /\ \A x \in Writer \ {u} : writer'[x] = writer[x]
        /\ overlap' = (overlap \/ \E x \in Writer \ {u} : Checking(x))
    BY <1>0, <1>2 DEF plugin_write, TypeOK
  <2>2. Cached /\ ~overlap /\ \A x \in Writer : ~Checking(x)
    BY <2>1 DEF Cached, Checking
  <2>3. PICK w \in Writer : Solo(w) /\ Good(w)
    BY <1>a, <2>2
  <2>4. Solo(u)'
    BY <2>1, <2>2 DEF Solo, Checking
  <2>5. writer[w] \in Quiet /\ writer'[u] \in Quiet /\ writer'[u] # "check"
    BY <2>1, <2>2 DEF Checking, Quiet
  <2>6. Good(u)'
    BY <2>1, <2>3, <2>5, HandOver
  <2>. QED BY <2>4, <2>6
<1>3. ASSUME NEW u \in Writer, uc_update(u)
      PROVE  \E w \in Writer : Solo(w)' /\ Good(w)'
  <2>1. UNCHANGED <<th, writer, rate, worst, seen, expiring>>
    BY <1>3 DEF uc_update, check
  <2>2. ASSUME NEW w, Solo(w) PROVE Solo(w)'
    BY <2>1, <2>2 DEF Solo, Checking
  <2>3. CASE ~Cached
    <3>1. overlap' = \E x \in Writer : Checking(x)
      BY <1>3, <2>3 DEF uc_update, NewHistory
    <3>2. Solo(u)
      BY <3>1 DEF Solo
    <3>. QED BY <1>0, <1>3, <2>2, <2>3, <3>2, NewStep
  <2>4. CASE Cached
    <3>1. UNCHANGED <<notified, repeated, row, overlap>>
      BY <1>3, <2>4 DEF uc_update, history
    <3>2. PICK w \in Writer : Solo(w) /\ Good(w)
      BY <1>a, <2>4, <3>1
    <3>3. CASE UNCHANGED <<entry, result>>
      BY <2>1, <2>2, <3>1, <3>2, <3>3, Bystander
    <3>4. CASE /\ entry' = [entry EXCEPT !.time = job[u].time, !.value = job[u].value]
               /\ result' = STATE_UNKNOWN
      <4>1. entry = [time |-> entry.time, value |-> entry.value, state |-> entry.state,
                     hits |-> entry.hits]
        BY <1>0 DEF TypeOK
      <4>2. entry' = [time |-> job[u].time, value |-> job[u].value, state |-> entry.state,
                      hits |-> entry.hits]
        BY <3>4, <4>1, Zenon
      <4>3. entry'.state = entry.state /\ entry'.hits = entry.hits
        BY <4>2
      <4>. QED BY <2>1, <2>2, <3>1, <3>2, <3>4, <4>3, Bystander
    <3>. QED BY <1>3, <2>4, <3>3, <3>4 DEF uc_update, history
  <2>. QED BY <2>3, <2>4
<1>4. ASSUME NEW u \in Writer, CallbackStep(u)
      PROVE  \E w \in Writer : Solo(w)' /\ Good(w)'
  <2>1. Cached /\ ~overlap /\ Checking(u) /\ \A x \in Writer \ {u} : writer'[x] = writer[x]
    BY <1>0, <1>4, CallbackFrame
  <2>2. Solo(u) /\ Good(u)
    BY <1>a, <2>1 DEF Solo
  <2>3. Solo(u)'
    BY <2>1, <2>2 DEF Solo, Checking
  <2>. QED BY <1>0, <1>4, <2>1, <2>2, <2>3, CallbackGood
<1>5. CASE plugin_dispatch_missing
  <2>1. UNCHANGED <<entry, writer, overlap>>
    BY <1>5 DEF plugin_dispatch_missing, ut_missing, check
  <2>2. PICK w \in Writer : Solo(w) /\ Good(w)
    BY <1>a, <2>1 DEF Cached
  <2>. QED BY <1>5, <2>1, <2>2, MissingStep DEF Solo, Checking
<1>6. CASE uc_remove
  BY <1>6 DEF uc_remove, Cached, Absent
<1>7. CASE UNCHANGED vars
  <2>1. UNCHANGED <<th, entry, expiring, writer, rate, worst, seen, notified, repeated, result,
                    row, overlap>>
    BY <1>7 DEF vars, check, history
  <2>2. PICK w \in Writer : Solo(w) /\ Good(w)
    BY <1>a, <2>1 DEF Cached
  <2>3. Solo(w)'
    BY <2>1, <2>2 DEF Solo, Checking
  <2>. QED BY <2>1, <2>2, <2>3, Bystander
<1>. QED BY <1>1, <1>2, <1>3, <1>4, <1>5, <1>6, <1>7 DEF Next

\* So the invariant always holds.
LEMMA Invariance == Spec => []IInv
<1>1. Init => IInv
  BY InitType DEF IInv, Init, Cached, Absent
<1>. QED BY <1>1, InvStep, PTL DEF Spec

\* The state of the checks, the hits and the histories stay well typed, however
\* many threads write.
THEOREM TypeCorrect == Spec => []TypeOK
BY InitType, TypeStep, PTL DEF Spec

\* As long as no two checks overlap, ut_report_state never reports the same twice
\* in a row, unless Persist says so: the state that it compares with is the one
\* that was reported last, although other write threads update the entry between
\* any two steps, and the main thread removes it.
THEOREM NoAlertIsRepeated == Spec => []AlertsAlternate
<1>1. IInv => AlertsAlternate
  BY DEF IInv, Good, Changing, AlertsAlternate
<1>. QED BY <1>1, Invariance, PTL

\* Whatever thresholds find the values out of range, and however hits of one
\* are counted for another: as long as no two checks overlap, an alarm is raised
\* after two values more than Hits in a row, and not earlier.
THEOREM AlarmIsRaised == Spec => []AlarmAfterHits
<1>1. IInv => AlarmAfterHits
  <2>. SUFFICES ASSUME IInv, Resting, Cached, ~expiring, ~overlap
                PROVE  /\ (\A i \in 1..Len(th) : row > th[i].hits + 1) => notified \in Alarm
                       /\ notified \in Alarm =>
                            \E i \in 1..Len(th) :
                              row > th[i].hits + 1 \/ th[i].hits = 0 \/ th[i].persist_ok
    BY DEF AlarmAfterHits
  <2>1. PICK w \in Writer : Good(w)
    BY DEF IInv
  <2>2. writer[w] \in Quiet /\ writer[w] # "notify"
    BY DEF IInv, TypeOK, Resting, Checking, Quiet, Busy
  <2>3. row \in Nat /\ \A i \in 1..Len(th) : th[i].hits \in Nat
    BY ThFacts DEF IInv, TypeOK, threshold_t
  <2>4. ASSUME notified \notin Alarm, \A i \in 1..Len(th) : row > th[i].hits + 1
        PROVE  FALSE
    <3>1. PICK i \in 1..Len(th) : row <= th[i].hits + 1
      BY <2>1, <2>2, <2>4 DEF Good, Counting
    <3>. QED BY <2>3, <2>4, <3>1
  <2>5. ASSUME notified \in Alarm, \A i \in 1..Len(th) : th[i].hits # 0 /\ ~th[i].persist_ok
        PROVE  Overdue
    <3>1. Matched
      BY <2>1, <2>2, <2>5
         DEF Good, Told, Alarm, STATE_UNKNOWN, STATE_WARNING, STATE_ERROR
    <3>. QED BY <2>1, <2>2, <2>5, <3>1 DEF Good, Earned
  <2>. QED BY <2>4, <2>5 DEF Overdue
<1>. QED BY <1>1, Invariance, PTL

\* As long as no two checks overlap, a metric whose newest value was okay has been
\* reported as okay, also after an alarm and after it was missing, unless
\* PersistOK delays it.
THEOREM RecoveryIsAnnounced == Spec => []RecoveryUnlessOverlap
<1>1. IInv => RecoveryUnlessOverlap
  <2>. SUFFICES ASSUME IInv, Resting, Cached, ~expiring, ~overlap, result = STATE_OKAY
                PROVE  \/ notified = STATE_OKAY
                       \/ \E i \in 1..Len(th) : th[i].persist_ok /\ th[i].hits # 0
    BY DEF RecoveryUnlessOverlap
  <2>1. PICK w \in Writer : Good(w)
    BY DEF IInv
  <2>2. writer[w] \in Quiet
    BY DEF IInv, TypeOK, Resting, Checking, Quiet, Busy
  <2>. QED BY <2>1, <2>2 DEF Good, Recovering
<1>. QED BY <1>1, Invariance, PTL

-----------------------------------------------------------------------------
(* Filter chains: the way through the code *)

\* What chains do that are called by name.
Callable(names) == [names -> [Way -> Way]]

\* Only the status of a value list changes.
LEMMA StatusFacts ==
  ASSUME NEW r \in Way, NEW s \in Failed..FC_TARGET_RETURN
  PROVE  /\ Status(r, s) \in Way
         /\ Status(r, s).v = r.v /\ Status(r, s).writes = r.writes /\ Status(r, s).status = s
  BY DEF Status, Way

\* Every kind of target has its fields.
LEMMA TargetKinds ==
  ASSUME NEW t \in fc_target_t
  PROVE  /\ t.name \in {"stop", "return", "fail", "jump", "write", "set"}
         /\ t.name = "write" => t.plugins \in SUBSET Plugin
         /\ t.name = "set" => t.to \in [Value -> Value]
  BY DEF fc_target_t

\* A target leads from a value list to a value list.
LEMMA InvokeType ==
  ASSUME NEW names, NEW call \in Callable(names), NEW t \in fc_target_t, NEW r \in Way
  PROVE  Invoke(call, t, r) \in Way
<1>. USE DEF Failed, FC_TARGET_CONTINUE, FC_TARGET_STOP, FC_TARGET_RETURN
<1>0. Failed \in Failed..FC_TARGET_RETURN /\ FC_TARGET_CONTINUE \in Failed..FC_TARGET_RETURN
      /\ FC_TARGET_STOP \in Failed..FC_TARGET_RETURN
      /\ FC_TARGET_RETURN \in Failed..FC_TARGET_RETURN
  OBVIOUS
<1>1. CASE t.name = "jump"
  <2>1. Invoke(call, t, r) = fc_bit_jump_invoke(call, t, r)
    BY <1>1 DEF Invoke
  <2>2. CASE t.chain \notin DOMAIN call
    <3>1. Invoke(call, t, r) = Status(r, Failed)
      BY <2>1, <2>2 DEF fc_bit_jump_invoke
    <3>. QED BY <1>0, <3>1, StatusFacts
  <2>3. CASE t.chain \in DOMAIN call
    <3>1. call[t.chain][r] \in Way
      BY <2>3 DEF Callable
    <3>2. Invoke(call, t, r) \in {call[t.chain][r], Status(call[t.chain][r], FC_TARGET_CONTINUE)}
      BY <2>1, <2>3 DEF fc_bit_jump_invoke
    <3>. QED BY <1>0, <3>1, <3>2, StatusFacts
  <2>. QED BY <2>2, <2>3
<1>2. CASE t.name \in {"stop", "return", "fail"}
  BY <1>0, <1>2, StatusFacts DEF Invoke
<1>3. CASE t.name = "write"
  <2>1. t.plugins \in SUBSET Plugin
    BY <1>3, TargetKinds
  <2>2. Invoke(call, t, r) =
          [r EXCEPT !.writes = Append(r.writes, t.plugins), !.status = FC_TARGET_CONTINUE]
    BY <1>3 DEF Invoke, fc_bit_write_invoke
  <2>3. r.writes \in Seq(SUBSET Plugin)
    BY DEF Way
  <2>4. Append(r.writes, t.plugins) \in Seq(SUBSET Plugin)
    BY <2>1, <2>3, AppendProperties
  <2>. QED BY <1>0, <2>2, <2>4 DEF Way
<1>4. CASE t.name = "set"
  <2>1. t.to \in [Value -> Value]
    BY <1>4, TargetKinds
  <2>2. Invoke(call, t, r) = [r EXCEPT !.v = t.to[r.v], !.status = FC_TARGET_CONTINUE]
    BY <1>4 DEF Invoke
  <2>3. t.to[r.v] \in Value
    BY <2>1 DEF Way
  <2>. QED BY <1>0, <2>2, <2>3 DEF Way
<1>. QED BY <1>1, <1>2, <1>3, <1>4, TargetKinds

\* The states that the loop over targets goes through.
TargetRun(g, call, ts, r) ==
  /\ g \in [0..Len(ts) -> Way]
  /\ g[0] = Status(r, FC_TARGET_CONTINUE)
  /\ \A i \in 1..Len(ts) : g[i] = NextTarget(call, ts[i], g[i - 1])

\* The loop over targets is such a run.
LEMMA TargetsLoop ==
  ASSUME NEW names, NEW call \in Callable(names), NEW ts \in Seq(fc_target_t), NEW r \in Way
  PROVE  \E g : TargetRun(g, call, ts, r) /\ Targets(call, ts, r) = g[Len(ts)]
<1>. DEFINE n == Len(ts)
            base == Status(r, FC_TARGET_CONTINUE)
            step == [i \in 1..n |-> [x \in Way |-> NextTarget(call, ts[i], x)]]
            Rec(f) == f = [i \in 0..n |-> IF i = 0 THEN base ELSE NextTarget(call, ts[i], f[i - 1])]
<1>1. n \in Nat /\ \A i \in 1..n : ts[i] \in fc_target_t
  BY ElementOfSeq
<1>2. base \in Way
  <2>1. FC_TARGET_CONTINUE \in Failed..FC_TARGET_RETURN
    BY DEF FC_TARGET_CONTINUE, Failed, FC_TARGET_RETURN
  <2>. QED BY <2>1, StatusFacts
<1>3. step \in [1..n -> [Way -> Way]]
  <2>1. ASSUME NEW i \in 1..n, NEW x \in Way PROVE NextTarget(call, ts[i], x) \in Way
    BY <1>1, InvokeType DEF NextTarget
  <2>. QED BY <2>1
<1>4. PICK g : LoopRun(g, Way, n, base, step)
  <2>. HIDE DEF n, base, step
  <2>. QED BY <1>1, <1>2, <1>3, LoopExists
<1>5. ASSUME NEW i \in 1..n PROVE g[i] = NextTarget(call, ts[i], g[i - 1])
  <2>1. i - 1 \in 0..n
    BY <1>1
  <2>2. g[i - 1] \in Way /\ g[i] = step[i][g[i - 1]]
    BY <1>4, <2>1 DEF LoopRun
  <2>. QED BY <2>2
<1>6. TargetRun(g, call, ts, r)
  BY <1>4, <1>5 DEF TargetRun, LoopRun
<1>. HIDE DEF base, step
<1>7. Rec(g)
  <2>1. g = [i \in 0..n |-> g[i]] /\ g[0] = base
    BY <1>4 DEF LoopRun
  <2>2. ASSUME NEW i \in 0..n, i # 0 PROVE g[i] = NextTarget(call, ts[i], g[i - 1])
    BY <1>1, <1>5, <2>2
  <2>. QED BY <2>1, <2>2
<1>8. ASSUME NEW f, Rec(f) PROVE f[n] = g[n]
  <2>1. f[0] = base /\ g[0] = base
    BY <1>1, <1>4, <1>8 DEF LoopRun
  <2>2. ASSUME NEW i \in 1..n, f[i - 1] = g[i - 1] PROVE f[i] = g[i]
    <3>1. f[i] = NextTarget(call, ts[i], f[i - 1])
      BY <1>1, <1>8
    <3>. QED BY <1>5, <2>2, <3>1
  <2>3. n \in Nat /\ n \in 0..n
    BY <1>1
  <2>4. f[0] = g[0]
    BY <2>1
  <2>. DEFINE G == {i \in 0..n : f[i] = g[i]}
  <2>. HIDE DEF n, Rec
  <2>5. 0 \in G /\ \A i \in 1..n : i - 1 \in G => i \in G
    BY <2>2, <2>3, <2>4
  <2>. HIDE DEF G
  <2>6. \A i \in 0..n : i \in G
    BY <2>3, <2>5, LoopInduction
  <2>. QED BY <2>3, <2>6 DEF G
<1>9. Targets(call, ts, r) = (CHOOSE f : Rec(f))[n]
  BY DEF Targets, base
<1>. HIDE DEF Rec
<1>10. Targets(call, ts, r) = g[n]
  BY <1>7, <1>8, <1>9
<1>. QED BY <1>6, <1>10

\* Every rule has its fields.
LEMMA RuleFields ==
  ASSUME NEW rule \in fc_rule_t
  PROVE  rule.name = "rule" /\ rule.targets \in Seq(fc_target_t)
  BY DEF fc_rule_t

\* The loop over targets leads from a value list to a value list.
LEMMA TargetsType ==
  ASSUME NEW names, NEW call \in Callable(names), NEW ts \in Seq(fc_target_t), NEW r \in Way
  PROVE  Targets(call, ts, r) \in Way
<1>1. PICK g : TargetRun(g, call, ts, r) /\ Targets(call, ts, r) = g[Len(ts)]
  BY TargetsLoop
<1>2. Len(ts) \in 0..Len(ts)
  OBVIOUS
<1>. QED BY <1>1, <1>2 DEF TargetRun

\* A rule leads from a value list to a value list.
LEMMA NextRuleType ==
  ASSUME NEW names, NEW call \in Callable(names), NEW rule \in fc_rule_t, NEW x \in Way
  PROVE  NextRule(call, rule, x) \in Way
<1>1. Targets(call, rule.targets, x) \in Way
  BY RuleFields, TargetsType
<1>2. FC_TARGET_CONTINUE \in Failed..FC_TARGET_RETURN
  BY DEF FC_TARGET_CONTINUE, Failed, FC_TARGET_RETURN
<1>3. Status(x, FC_TARGET_CONTINUE) \in Way
  BY <1>2, StatusFacts
<1>. QED BY <1>1, <1>3 DEF NextRule

\* The states that the loop over rules goes through.
RuleRun(g, call, rules, r) ==
  /\ g \in [0..Len(rules) -> Way]
  /\ g[0] = Status(r, FC_TARGET_CONTINUE)
  /\ \A i \in 1..Len(rules) : g[i] = NextRule(call, rules[i], g[i - 1])

\* The loop over rules is such a run.
LEMMA RulesLoop ==
  ASSUME NEW names, NEW call \in Callable(names), NEW rules \in Seq(fc_rule_t), NEW r \in Way
  PROVE  \E g : RuleRun(g, call, rules, r) /\ Rules(call, rules, r) = g[Len(rules)]
<1>. DEFINE n == Len(rules)
            base == Status(r, FC_TARGET_CONTINUE)
            step == [i \in 1..n |-> [x \in Way |-> NextRule(call, rules[i], x)]]
            Rec(f) == f = [i \in 0..n |->
                             IF i = 0 THEN base ELSE NextRule(call, rules[i], f[i - 1])]
<1>1. n \in Nat /\ \A i \in 1..n : rules[i] \in fc_rule_t
  BY ElementOfSeq
<1>2. base \in Way
  <2>1. FC_TARGET_CONTINUE \in Failed..FC_TARGET_RETURN
    BY DEF FC_TARGET_CONTINUE, Failed, FC_TARGET_RETURN
  <2>. QED BY <2>1, StatusFacts
<1>3. step \in [1..n -> [Way -> Way]]
  <2>1. ASSUME NEW i \in 1..n, NEW x \in Way PROVE NextRule(call, rules[i], x) \in Way
    BY <1>1, NextRuleType
  <2>. QED BY <2>1
<1>4. PICK g : LoopRun(g, Way, n, base, step)
  <2>. HIDE DEF n, base, step
  <2>. QED BY <1>1, <1>2, <1>3, LoopExists
<1>5. ASSUME NEW i \in 1..n PROVE g[i] = NextRule(call, rules[i], g[i - 1])
  <2>1. i - 1 \in 0..n
    BY <1>1
  <2>2. g[i - 1] \in Way /\ g[i] = step[i][g[i - 1]]
    BY <1>4, <2>1 DEF LoopRun
  <2>. QED BY <2>2
<1>6. RuleRun(g, call, rules, r)
  BY <1>4, <1>5 DEF RuleRun, LoopRun
<1>. HIDE DEF base, step
<1>7. Rec(g)
  <2>1. g = [i \in 0..n |-> g[i]] /\ g[0] = base
    BY <1>4 DEF LoopRun
  <2>2. ASSUME NEW i \in 0..n, i # 0 PROVE g[i] = NextRule(call, rules[i], g[i - 1])
    BY <1>1, <1>5, <2>2
  <2>. QED BY <2>1, <2>2
<1>8. ASSUME NEW f, Rec(f) PROVE f[n] = g[n]
  <2>1. f[0] = base /\ g[0] = base
    BY <1>1, <1>4, <1>8 DEF LoopRun
  <2>2. ASSUME NEW i \in 1..n, f[i - 1] = g[i - 1] PROVE f[i] = g[i]
    <3>1. f[i] = NextRule(call, rules[i], f[i - 1])
      BY <1>1, <1>8
    <3>. QED BY <1>5, <2>2, <3>1
  <2>3. n \in Nat /\ n \in 0..n
    BY <1>1
  <2>4. f[0] = g[0]
    BY <2>1
  <2>. DEFINE G == {i \in 0..n : f[i] = g[i]}
  <2>. HIDE DEF n, Rec
  <2>5. 0 \in G /\ \A i \in 1..n : i - 1 \in G => i \in G
    BY <2>2, <2>3, <2>4
  <2>. HIDE DEF G
  <2>6. \A i \in 0..n : i \in G
    BY <2>3, <2>5, LoopInduction
  <2>. QED BY <2>3, <2>6 DEF G
<1>9. Rules(call, rules, r) = (CHOOSE f : Rec(f))[n]
  BY DEF Rules, base
<1>. HIDE DEF Rec
<1>10. Rules(call, rules, r) = g[n]
  BY <1>7, <1>8, <1>9
<1>. QED BY <1>6, <1>10

\* The chains are chains, and there are finitely many of them.
Configured == IsFiniteSet(DOMAIN chains) /\ chains \in [DOMAIN chains -> fc_chain_t]

\* A chain leads from a value list to a value list.
LEMMA ProcessChainType ==
  ASSUME NEW names, NEW call \in Callable(names), NEW chain \in fc_chain_t, NEW r \in Way
  PROVE  ProcessChain(call, chain, r) \in Way
<1>. DEFINE x == Rules(call, chain.rules, r)
            default == Targets(call, chain.targets, x)
<1>1. chain.rules \in Seq(fc_rule_t) /\ chain.targets \in Seq(fc_target_t)
  BY DEF fc_chain_t
<1>2. x \in Way
  <2>1. PICK g : RuleRun(g, call, chain.rules, r) /\ x = g[Len(chain.rules)]
    BY <1>1, RulesLoop
  <2>2. Len(chain.rules) \in 0..Len(chain.rules)
    BY <1>1
  <2>. QED BY <2>1, <2>2 DEF RuleRun
<1>3. default \in Way
  <2>. HIDE DEF x
  <2>. QED BY <1>1, <1>2, TargetsType
<1>4. FC_TARGET_CONTINUE \in Failed..FC_TARGET_RETURN
  BY DEF FC_TARGET_CONTINUE, Failed, FC_TARGET_RETURN
<1>5. ProcessChain(call, chain, r) =
        IF Ended(x) THEN x ELSE IF default.status = FC_TARGET_STOP THEN default
        ELSE Status(default, FC_TARGET_CONTINUE)
  BY DEF ProcessChain
<1>. HIDE DEF x, default
<1>. QED BY <1>2, <1>3, <1>4, <1>5, StatusFacts

\* What the chains do to greater and greater depth.
ProcessRun(g, n) ==
  /\ g \in [0..n -> Callable(DOMAIN chains)]
  /\ \A i \in 1..n : \A c \in DOMAIN chains : \A r \in Way :
       g[i][c][r] = ProcessChain(g[i - 1], chains[c], r)

\* The recursion of fc_process_chain is such a run.
LEMMA ProcessLoop ==
  ASSUME Configured, NEW n \in Nat
  PROVE  \E g : ProcessRun(g, n) /\ ProcessChains(chains, n) = g[n]
<1>. DEFINE names == DOMAIN chains
            base == [c \in names |-> [r \in Way |-> r]]
            Deeper(call) == [c \in names |-> [r \in Way |-> ProcessChain(call, chains[c], r)]]
            step == [i \in 1..n |-> [call \in Callable(names) |-> Deeper(call)]]
            Rec(f) == f = [i \in 0..n |-> [c \in names |-> [r \in Way |->
                             IF i = 0 THEN r ELSE ProcessChain(f[i - 1], chains[c], r)]]]
<1>1. base \in Callable(names)
  BY DEF Callable
<1>2. ASSUME NEW call \in Callable(names) PROVE Deeper(call) \in Callable(names)
  <2>1. ASSUME NEW c \in names, NEW r \in Way PROVE ProcessChain(call, chains[c], r) \in Way
    <3>1. chains[c] \in fc_chain_t
      BY DEF Configured
    <3>. QED BY <3>1, ProcessChainType
  <2>. QED BY <2>1 DEF Callable
<1>3. step \in [1..n -> [Callable(names) -> Callable(names)]]
  <2>. HIDE DEF Deeper, names
  <2>. QED BY <1>2
<1>4. PICK g : LoopRun(g, Callable(names), n, base, step)
  <2>. HIDE DEF names, base, step
  <2>. QED BY <1>1, <1>3, LoopExists
<1>5. ASSUME NEW i \in 1..n PROVE g[i] = Deeper(g[i - 1])
  <2>1. i - 1 \in 0..n
    OBVIOUS
  <2>. HIDE DEF Deeper, names
  <2>2. g[i - 1] \in Callable(names) /\ g[i] = step[i][g[i - 1]]
    BY <1>4, <2>1 DEF LoopRun
  <2>. QED BY <2>2
<1>6. ProcessRun(g, n)
  <2>1. g \in [0..n -> Callable(names)]
    BY <1>4 DEF LoopRun
  <2>2. ASSUME NEW i \in 1..n, NEW c \in names, NEW r \in Way
        PROVE  g[i][c][r] = ProcessChain(g[i - 1], chains[c], r)
    <3>1. g[i] = Deeper(g[i - 1])
      BY <1>5
    <3>. QED BY <3>1
  <2>. QED BY <2>1, <2>2 DEF ProcessRun
<1>. HIDE DEF step
<1>7. Rec(g)
  <2>1. g = [i \in 0..n |-> g[i]] /\ g[0] = base
    BY <1>4 DEF LoopRun
  <2>2. ASSUME NEW i \in 0..n
        PROVE g[i] = [c \in names |-> [r \in Way |->
                        IF i = 0 THEN r ELSE ProcessChain(g[i - 1], chains[c], r)]]
    <3>1. CASE i = 0
      BY <2>1, <3>1
    <3>2. CASE i # 0
      <4>1. i \in 1..n
        BY <3>2
      <4>2. g[i] = Deeper(g[i - 1])
        BY <1>5, <4>1
      <4>. QED BY <3>2, <4>2
    <3>. QED BY <3>1, <3>2
  <2>. QED BY <2>1, <2>2
<1>8. ASSUME NEW f, Rec(f) PROVE f[n] = g[n]
  <2>1. f[0] = base /\ g[0] = base
    BY <1>4, <1>8 DEF LoopRun
  <2>2. ASSUME NEW i \in 1..n, f[i - 1] = g[i - 1] PROVE f[i] = g[i]
    <3>1. i \in 0..n /\ i # 0
      OBVIOUS
    <3>2. f[i] = Deeper(f[i - 1])
      BY <1>8, <3>1
    <3>3. Deeper(f[i - 1]) = Deeper(g[i - 1])
      BY <2>2
    <3>. QED BY <1>5, <3>2, <3>3
  <2>3. f[0] = g[0] /\ n \in 0..n
    BY <2>1
  <2>. DEFINE G == {i \in 0..n : f[i] = g[i]}
  <2>. HIDE DEF Rec
  <2>4. 0 \in G /\ \A i \in 1..n : i - 1 \in G => i \in G
    BY <2>2, <2>3
  <2>. HIDE DEF G
  <2>5. \A i \in 0..n : i \in G
    BY <2>4, LoopInduction
  <2>. QED BY <2>3, <2>5 DEF G
<1>9. ProcessChains(chains, n) = (CHOOSE f : Rec(f))[n]
  BY DEF ProcessChains
<1>. HIDE DEF Rec
<1>10. ProcessChains(chains, n) = g[n]
  BY <1>7, <1>8, <1>9
<1>. QED BY <1>6, <1>10

-----------------------------------------------------------------------------
(* Filter chains: the flow of the manual *)

\* The value list with what is left to do.
At(todo, x) == [todo |-> todo, v |-> x.v, writes |-> x.writes, status |-> FC_TARGET_CONTINUE]

\* A target or a rule leads from a state of the flow to another.
LEMMA FlowTargetType ==
  ASSUME Configured, NEW t \in Item, NEW rest \in Seq(Item), NEW callers \in Seq(Seq(Item)),
         NEW s \in FlowState
  PROVE  FlowTarget(t, rest, callers, s) \in FlowState
<1>. DEFINE later == <<rest>> \o callers
<1>1. later \in Seq(Seq(Item))
  BY ConsFacts
<1>2. s.writes \in Seq(SUBSET Plugin) /\ s.v \in Value
  BY DEF FlowState
<1>. HIDE DEF later
<1>3. ASSUME NEW todo \in Seq(Seq(Item)) PROVE [s EXCEPT !.todo = todo] \in FlowState
  BY DEF FlowState
<1>4. CASE t \in fc_rule_t
  <2>1. t.name = "rule" /\ t.targets \in Seq(Item)
    BY <1>4, RuleFields DEF Item
  <2>2. t.targets \o rest \in Seq(Item)
    BY <2>1, ConcatProperties
  <2>3. <<t.targets \o rest>> \o callers \in Seq(Seq(Item))
    BY <2>2, ConsFacts
  <2>4. FlowTarget(t, rest, callers, s) =
          [s EXCEPT !.todo = IF s.v \in t.match THEN <<t.targets \o rest>> \o callers ELSE later]
    BY <2>1 DEF FlowTarget, later
  <2>. QED BY <1>1, <1>3, <2>3, <2>4
<1>5. CASE t \in fc_target_t
  <2>1. CASE t.name = "jump"
    <3>1. FlowTarget(t, rest, callers, s) =
            [s EXCEPT !.todo = IF t.chain \in DOMAIN chains
                                 THEN <<Agenda(chains[t.chain])>> \o later ELSE later]
      BY <2>1 DEF FlowTarget, later
    <3>2. ASSUME t.chain \in DOMAIN chains
          PROVE  <<Agenda(chains[t.chain])>> \o later \in Seq(Seq(Item))
      <4>1. chains[t.chain].rules \in Seq(Item) /\ chains[t.chain].targets \in Seq(Item)
        BY <3>2 DEF Configured, fc_chain_t, Item
      <4>2. Agenda(chains[t.chain]) \in Seq(Item)
        BY <4>1, ConcatProperties DEF Agenda
      <4>. QED BY <1>1, <4>2, ConsFacts
    <3>. QED BY <1>1, <1>3, <3>1, <3>2
  <2>2. CASE t.name = "stop"
    <3>1. FlowTarget(t, rest, callers, s) = [s EXCEPT !.todo = <<>>, !.status = FC_TARGET_STOP]
      BY <2>2 DEF FlowTarget
    <3>2. <<>> \in Seq(Seq(Item))
      OBVIOUS
    <3>. QED BY <3>1, <3>2 DEF FlowState
  <2>3. CASE t.name = "return"
    BY <2>3, <1>3 DEF FlowTarget
  <2>4. CASE t.name = "write"
    <3>1. Append(s.writes, t.plugins) \in Seq(SUBSET Plugin)
      BY <1>2, <1>5, <2>4, TargetKinds, AppendProperties
    <3>2. FlowTarget(t, rest, callers, s) =
            [s EXCEPT !.todo = later, !.writes = Append(s.writes, t.plugins)]
      BY <2>4 DEF FlowTarget, later
    <3>. QED BY <1>1, <3>1, <3>2 DEF FlowState
  <2>5. CASE t.name = "set"
    <3>1. t.to[s.v] \in Value
      BY <1>2, <1>5, <2>5, TargetKinds
    <3>2. FlowTarget(t, rest, callers, s) = [s EXCEPT !.todo = later, !.v = t.to[s.v]]
      BY <2>5 DEF FlowTarget, later
    <3>. QED BY <1>1, <3>1, <3>2 DEF FlowState
  <2>6. CASE t.name = "fail"
    BY <2>6, <1>1, <1>3 DEF FlowTarget, later
  <2>. QED BY <1>5, <2>1, <2>2, <2>3, <2>4, <2>5, <2>6, TargetKinds
<1>. QED BY <1>4, <1>5 DEF Item

\* So does every step of the flow.
LEMMA FlowStepType ==
  ASSUME Configured, NEW s \in FlowState, s.todo # <<>>
  PROVE  FlowStep(s) \in FlowState
<1>1. Head(s.todo) \in Seq(Item) /\ Tail(s.todo) \in Seq(Seq(Item))
  <2>1. s.todo \in Seq(Seq(Item))
    BY DEF FlowState
  <2>. QED BY <2>1, HeadTailProperties
<1>2. CASE Head(s.todo) = <<>>
  BY <1>1, <1>2 DEF FlowStep, FlowState
<1>3. CASE Head(s.todo) # <<>>
  <2>1. Head(Head(s.todo)) \in Item /\ Tail(Head(s.todo)) \in Seq(Item)
    BY <1>1, <1>3, HeadTailProperties
  <2>2. FlowStep(s) = FlowTarget(Head(Head(s.todo)), Tail(Head(s.todo)), Tail(s.todo), s)
    BY <1>3 DEF FlowStep
  <2>. QED BY <1>1, <2>1, <2>2, FlowTargetType
<1>. QED BY <1>2, <1>3

\* The recursion of Flow.
LEMMA FlowUnfolds ==
  ASSUME Configured
  PROVE  \A s \in FlowState : Flow[s] = IF s.todo = <<>> THEN s ELSE Flow[FlowStep(s)]
<1>. DEFINE E == {s \in FlowState : s.todo = <<>>}
            step == [s \in FlowState |-> IF s \in E THEN s ELSE FlowStep(s)]
            Rec(f) == f = [s \in FlowState |-> IF s.todo = <<>> THEN s ELSE f[FlowStep(s)]]
<1>1. E \in SUBSET FlowState
  OBVIOUS
<1>2. step \in [FlowState -> FlowState]
  BY FlowStepType
<1>3. PICK f : f = [s \in FlowState |-> IF s \in E THEN s ELSE f[step[s]]]
  <2>. HIDE DEF E, step
  <2>. QED BY <1>1, <1>2, WhileExists
<1>4. Rec(f)
  <2>1. ASSUME NEW s \in FlowState
        PROVE f[s] = IF s.todo = <<>> THEN s ELSE f[FlowStep(s)]
    <3>1. f[s] = IF s \in E THEN s ELSE f[step[s]]
      <4>. HIDE DEF E, step
      <4>. QED BY <1>3
    <3>. QED BY <3>1
  <2>2. f = [s \in FlowState |-> f[s]]
    <3>. HIDE DEF E, step
    <3>. QED BY <1>3
  <2>. QED BY <2>1, <2>2
<1>5. Flow = CHOOSE g : Rec(g)
  BY DEF Flow
<1>6. Rec(Flow)
  <2>. HIDE DEF Rec
  <2>. QED BY <1>4, <1>5
<1>. QED BY <1>6

-----------------------------------------------------------------------------
(* Filter chains: the code follows the flow of the manual *)

Stopped(x) == [todo |-> <<>>, v |-> x.v, writes |-> x.writes, status |-> FC_TARGET_STOP]

\* The end of the flow after a target or rule, with the rest of the chain to do.
Outcome(x, rest, callers) ==
  IF x.status = FC_TARGET_STOP THEN Stopped(x)
  ELSE IF x.status = FC_TARGET_RETURN THEN Flow[At(callers, x)]
  ELSE Flow[At(<<rest>> \o callers, x)]

\* ... and after a chain.
ChainOutcome(x, todo) == IF x.status = FC_TARGET_STOP THEN Stopped(x) ELSE Flow[At(todo, x)]

\* A called chain does what the flow does with it.
Right(call, c) ==
  \A x \in Way : \A todo \in Seq(Seq(Item)) :
    Flow[At(<<Agenda(chains[c])>> \o todo, x)] = ChainOutcome(call[c][x], todo)

AllRight(call, names) == \A c \in names \cap DOMAIN chains : Right(call, c)

\* At is a state of the flow; the status does not matter to it.
LEMMA AtFacts ==
  ASSUME NEW x \in Way, NEW todo \in Seq(Seq(Item))
  PROVE  /\ At(todo, x) \in FlowState /\ At(todo, x).todo = todo
         /\ \A s \in Failed..FC_TARGET_RETURN : At(todo, Status(x, s)) = At(todo, x)
  BY DEF At, FlowState, Way, Status

\* Only what is left to do changes.
LEMMA AtTodo ==
  ASSUME NEW x, NEW todo, NEW other PROVE [At(todo, x) EXCEPT !.todo = other] = At(other, x)
  BY DEF At

\* The flow ends when nothing is left to do, ...
LEMMA FlowEnds ==
  ASSUME Configured, NEW x \in Way
  PROVE  Flow[At(<<>>, x)] = At(<<>>, x) /\ Flow[Stopped(x)] = Stopped(x)
<1>1. <<>> \in Seq(Seq(Item))
  OBVIOUS
<1>2. At(<<>>, x) \in FlowState /\ At(<<>>, x).todo = <<>>
  BY <1>1, AtFacts
<1>3. Stopped(x) \in FlowState /\ Stopped(x).todo = <<>>
  BY <1>1 DEF Stopped, FlowState, Way
<1>. QED BY <1>2, <1>3, FlowUnfolds

\* ... returns to the caller at the end of a chain ...
LEMMA FlowPops ==
  ASSUME Configured, NEW x \in Way, NEW callers \in Seq(Seq(Item))
  PROVE  Flow[At(<<<<>>>> \o callers, x)] = Flow[At(callers, x)]
<1>. DEFINE todo == <<<<>>>> \o callers
            s == At(todo, x)
<1>1. todo \in Seq(Seq(Item)) /\ todo # <<>> /\ Head(todo) = <<>> /\ Tail(todo) = callers
  <2>1. <<>> \in Seq(Item)
    OBVIOUS
  <2>. QED BY <2>1, ConsFacts
<1>. HIDE DEF todo
<1>2. s \in FlowState /\ s.todo = todo
  BY <1>1, AtFacts
<1>3. FlowStep(s) = [s EXCEPT !.todo = callers]
  BY <1>1, <1>2 DEF FlowStep
<1>4. [s EXCEPT !.todo = callers] = At(callers, x)
  BY DEF At
<1>. HIDE DEF s
<1>5. Flow[s] = Flow[At(callers, x)]
  BY <1>1, <1>2, <1>3, <1>4, FlowUnfolds
<1>. QED BY <1>5 DEF s, todo

\* ... and otherwise does the next thing.
LEMMA FlowGoesOn ==
  ASSUME Configured, NEW x \in Way, NEW t \in Item, NEW rest \in Seq(Item),
         NEW callers \in Seq(Seq(Item))
  PROVE  \E s : /\ s = At(<<<<t>> \o rest>> \o callers, x)
                /\ s \in FlowState
                /\ Flow[s] = Flow[FlowTarget(t, rest, callers, s)]
<1>. DEFINE current == <<t>> \o rest
            todo == <<current>> \o callers
            s == At(todo, x)
<1>1. current \in Seq(Item) /\ current # <<>> /\ Head(current) = t /\ Tail(current) = rest
  BY ConsFacts
<1>. HIDE DEF current
<1>2. todo \in Seq(Seq(Item)) /\ todo # <<>> /\ Head(todo) = current /\ Tail(todo) = callers
  BY <1>1, ConsFacts
<1>. HIDE DEF todo
<1>3. s \in FlowState /\ s.todo = todo
  BY <1>2, AtFacts
<1>. HIDE DEF s
<1>4. FlowStep(s) = FlowTarget(t, rest, callers, s)
  BY <1>1, <1>2, <1>3 DEF FlowStep
<1>5. Flow[s] = Flow[FlowTarget(t, rest, callers, s)]
  BY <1>2, <1>3, <1>4, FlowUnfolds
<1>. QED BY <1>3, <1>5 DEF s, todo, current

\* A target does what the flow does with it.
LEMMA TargetFlow ==
  ASSUME Configured, NEW call \in Callable(DOMAIN chains), NEW t \in fc_target_t,
         t.name = "jump" => AllRight(call, {t.chain}),
         NEW x \in Way, NEW rest \in Seq(Item), NEW callers \in Seq(Seq(Item))
  PROVE  Flow[At(<<<<t>> \o rest>> \o callers, x)] = Outcome(Invoke(call, t, x), rest, callers)
<1>. DEFINE later == <<rest>> \o callers
            y == Invoke(call, t, x)
<1>0. t \in Item
  BY DEF Item
<1>1. PICK s : /\ s = At(<<<<t>> \o rest>> \o callers, x)
               /\ s \in FlowState
               /\ Flow[s] = Flow[FlowTarget(t, rest, callers, s)]
  BY <1>0, FlowGoesOn
<1>2. later \in Seq(Seq(Item))
  BY ConsFacts
<1>3. y \in Way
  BY InvokeType
<1>4. ASSUME NEW todo PROVE [s EXCEPT !.todo = todo] = At(todo, x)
  BY <1>1, AtTodo
<1>5. s.v = x.v /\ s.writes = x.writes
  BY <1>1 DEF At
<1>6. /\ FC_TARGET_CONTINUE \in Failed..FC_TARGET_RETURN
      /\ Failed \in Failed..FC_TARGET_RETURN
      /\ FC_TARGET_STOP \in Failed..FC_TARGET_RETURN
      /\ FC_TARGET_RETURN \in Failed..FC_TARGET_RETURN
      /\ FC_TARGET_CONTINUE \notin {FC_TARGET_STOP, FC_TARGET_RETURN}
      /\ Failed \notin {FC_TARGET_STOP, FC_TARGET_RETURN}
      /\ FC_TARGET_STOP # FC_TARGET_RETURN
  BY DEF FC_TARGET_CONTINUE, Failed, FC_TARGET_STOP, FC_TARGET_RETURN
<1>. SUFFICES Flow[FlowTarget(t, rest, callers, s)] = Outcome(y, rest, callers)
  BY <1>1
<1>7. ASSUME y.status \notin {FC_TARGET_STOP, FC_TARGET_RETURN}
      PROVE  Outcome(y, rest, callers) = Flow[At(later, y)]
  BY <1>7 DEF Outcome
<1>. HIDE DEF later, y
<1>8. CASE t.name = "jump"
  <2>1. y = fc_bit_jump_invoke(call, t, x)
    BY <1>8 DEF Invoke, y
  <2>2. DOMAIN call = DOMAIN chains
    BY DEF Callable
  <2>3. CASE t.chain \notin DOMAIN chains
    <3>1. y = Status(x, Failed)
      BY <2>1, <2>2, <2>3 DEF fc_bit_jump_invoke
    <3>2. y.status = Failed /\ At(later, y) = At(later, x)
      BY <1>2, <1>6, <3>1, StatusFacts, AtFacts
    <3>3. FlowTarget(t, rest, callers, s) = At(later, x)
      BY <1>4, <1>8, <2>3 DEF FlowTarget, later
    <3>. QED BY <1>6, <1>7, <3>2, <3>3
  <2>4. CASE t.chain \in DOMAIN chains
    <3>. DEFINE z == call[t.chain][x]
    <3>1. FlowTarget(t, rest, callers, s) = At(<<Agenda(chains[t.chain])>> \o later, x)
      BY <1>4, <1>8, <2>4 DEF FlowTarget, later
    <3>2. Right(call, t.chain)
      BY <1>8, <2>4 DEF AllRight
    <3>3. Flow[At(<<Agenda(chains[t.chain])>> \o later, x)] = ChainOutcome(z, later)
      BY <1>2, <3>2 DEF Right
    <3>4. z \in Way
      BY <2>4 DEF Callable
    <3>5. y = IF z.status = FC_TARGET_STOP THEN z ELSE Status(z, FC_TARGET_CONTINUE)
      BY <2>1, <2>2, <2>4 DEF fc_bit_jump_invoke
    <3>. HIDE DEF z
    <3>6. CASE z.status = FC_TARGET_STOP
      BY <3>1, <3>3, <3>5, <3>6 DEF ChainOutcome, Outcome
    <3>7. CASE z.status # FC_TARGET_STOP
      <4>1. y.status = FC_TARGET_CONTINUE /\ At(later, y) = At(later, z)
        BY <1>2, <1>6, <3>4, <3>5, <3>7, StatusFacts, AtFacts
      <4>. QED BY <1>6, <1>7, <3>1, <3>3, <3>7, <4>1 DEF ChainOutcome
    <3>. QED BY <3>6, <3>7
  <2>. QED BY <2>3, <2>4
<1>9. CASE t.name = "stop"
  <2>1. y = Status(x, FC_TARGET_STOP)
    BY <1>9 DEF Invoke, y
  <2>2. y.status = FC_TARGET_STOP /\ Stopped(y) = Stopped(x)
    BY <1>6, <2>1, StatusFacts DEF Stopped
  <2>3. FlowTarget(t, rest, callers, s) = Stopped(x)
    BY <1>1, <1>9 DEF FlowTarget, At, Stopped
  <2>. QED BY <2>2, <2>3, FlowEnds DEF Outcome
<1>10. CASE t.name = "return"
  <2>1. y = Status(x, FC_TARGET_RETURN)
    BY <1>10 DEF Invoke, y
  <2>2. y.status = FC_TARGET_RETURN /\ At(callers, y) = At(callers, x)
    BY <1>6, <2>1, StatusFacts, AtFacts
  <2>3. FlowTarget(t, rest, callers, s) = At(callers, x)
    BY <1>4, <1>10 DEF FlowTarget
  <2>. QED BY <1>6, <2>2, <2>3 DEF Outcome
<1>11. CASE t.name = "fail"
  <2>1. y = Status(x, Failed)
    BY <1>11 DEF Invoke, y
  <2>2. y.status = Failed /\ At(later, y) = At(later, x)
    BY <1>2, <1>6, <2>1, StatusFacts, AtFacts
  <2>3. FlowTarget(t, rest, callers, s) = At(later, x)
    BY <1>4, <1>11 DEF FlowTarget, later
  <2>. QED BY <1>6, <1>7, <2>2, <2>3
<1>12. CASE t.name = "write"
  <2>1. y = [x EXCEPT !.writes = Append(x.writes, t.plugins), !.status = FC_TARGET_CONTINUE]
    BY <1>12 DEF Invoke, fc_bit_write_invoke, y
  <2>2. /\ y.status = FC_TARGET_CONTINUE /\ y.v = x.v
        /\ y.writes = Append(x.writes, t.plugins)
    BY <2>1 DEF Way
  <2>3. FlowTarget(t, rest, callers, s) =
          [s EXCEPT !.todo = later, !.writes = Append(s.writes, t.plugins)]
    BY <1>12 DEF FlowTarget, later
  <2>4. FlowTarget(t, rest, callers, s) = At(later, y)
    BY <1>1, <1>5, <2>2, <2>3 DEF At
  <2>. QED BY <1>6, <1>7, <2>2, <2>4
<1>13. CASE t.name = "set"
  <2>1. y = [x EXCEPT !.v = t.to[x.v], !.status = FC_TARGET_CONTINUE]
    BY <1>13 DEF Invoke, y
  <2>2. /\ y.status = FC_TARGET_CONTINUE /\ y.v = t.to[x.v]
        /\ y.writes = x.writes
    BY <2>1 DEF Way
  <2>3. FlowTarget(t, rest, callers, s) = [s EXCEPT !.todo = later, !.v = t.to[s.v]]
    BY <1>13 DEF FlowTarget, later
  <2>4. FlowTarget(t, rest, callers, s) = At(later, y)
    BY <1>1, <1>5, <2>2, <2>3 DEF At
  <2>. QED BY <1>6, <1>7, <2>2, <2>4
<1>. QED BY <1>8, <1>9, <1>10, <1>11, <1>12, <1>13, TargetKinds

\* A loop over targets or rules does what the flow does with them, if each does.
LEMMA ItemsFlow ==
  ASSUME Configured, NEW items \in Seq(Item), NEW callers \in Seq(Seq(Item)), NEW x \in Way,
         NEW g \in [0..Len(items) -> Way], g[0] = Status(x, FC_TARGET_CONTINUE),
         \A i \in 1..Len(items) :
           IF Ended(g[i - 1]) THEN g[i] = g[i - 1]
           ELSE \A later \in Seq(Item) :
                  Flow[At(<<<<items[i]>> \o later>> \o callers, g[i - 1])] =
                    Outcome(g[i], later, callers),
         NEW rest \in Seq(Item)
  PROVE  Flow[At(<<items \o rest>> \o callers, x)] = Outcome(g[Len(items)], rest, callers)
<1>. DEFINE n == Len(items)
            Left(i) == SubSeq(items, i + 1, n) \o rest
            start == Flow[At(<<items \o rest>> \o callers, x)]
            G == {i \in 0..n : start = Outcome(g[i], Left(i), callers)}
<1>1. n \in Nat
  OBVIOUS
<1>2. 0 \in G
  <2>1. SubSeq(items, 0 + 1, n) = items
    BY SubSeqFull
  <2>2. Left(0) = items \o rest
    BY <2>1
  <2>3. items \o rest \in Seq(Item)
    BY ConcatProperties
  <2>4. <<items \o rest>> \o callers \in Seq(Seq(Item))
    BY <2>3, ConsFacts
  <2>5. /\ FC_TARGET_CONTINUE \in Failed..FC_TARGET_RETURN
        /\ FC_TARGET_CONTINUE \notin {FC_TARGET_STOP, FC_TARGET_RETURN}
    BY DEF FC_TARGET_CONTINUE, Failed, FC_TARGET_STOP, FC_TARGET_RETURN
  <2>6. g[0].status = FC_TARGET_CONTINUE
    BY <2>5, StatusFacts
  <2>7. At(<<items \o rest>> \o callers, g[0]) = At(<<items \o rest>> \o callers, x)
    <3>. DEFINE todo == <<items \o rest>> \o callers
    <3>. HIDE DEF todo
    <3>1. At(todo, Status(x, FC_TARGET_CONTINUE)) = At(todo, x)
      BY <2>4, <2>5, AtFacts DEF todo
    <3>2. At(todo, g[0]) = At(todo, x)
      BY <3>1
    <3>. QED BY <3>2 DEF todo
  <2>8. start = Outcome(g[0], Left(0), callers)
    BY <2>2, <2>5, <2>6, <2>7 DEF Outcome
  <2>. HIDE DEF Left, start
  <2>. QED BY <1>1, <2>8
<1>3. ASSUME NEW i \in 1..n, i - 1 \in G PROVE i \in G
  <2>1. i \in 0..n /\ (i - 1) + 1 = i /\ start = Outcome(g[i - 1], Left(i - 1), callers)
    BY <1>1, <1>3
  <2>2. CASE Ended(g[i - 1])
    <3>1. g[i] = g[i - 1]
      BY <2>2
    <3>2. Outcome(g[i - 1], Left(i - 1), callers) = Outcome(g[i - 1], Left(i), callers)
      <4>. HIDE DEF Left
      <4>. QED BY <2>2 DEF Ended, Outcome
    <3>. HIDE DEF Left, start
    <3>. QED BY <2>1, <3>1, <3>2
  <2>3. CASE ~Ended(g[i - 1])
    <3>3. Left(i - 1) = <<items[i]>> \o Left(i) /\ Left(i) \in Seq(Item)
      <4>1. Left(i - 1) = SubSeq(items, i, n) \o rest
        BY <2>1
      <4>2. /\ SubSeq(items, i, n) \o rest = <<items[i]>> \o (SubSeq(items, i + 1, n) \o rest)
            /\ SubSeq(items, i + 1, n) \o rest \in Seq(Item)
        BY SuffixFacts
      <4>. QED BY <4>1, <4>2
    <3>4. Outcome(g[i - 1], Left(i - 1), callers) = Flow[At(<<Left(i - 1)>> \o callers, g[i - 1])]
      <4>. HIDE DEF Left
      <4>. QED BY <2>3 DEF Ended, Outcome
    <3>5. Flow[At(<<<<items[i]>> \o Left(i)>> \o callers, g[i - 1])]
            = Outcome(g[i], Left(i), callers)
      <4>. HIDE DEF Left
      <4>. QED BY <2>3, <3>3
    <3>. HIDE DEF Left, start
    <3>. QED BY <2>1, <3>3, <3>4, <3>5
  <2>. QED BY <2>2, <2>3
<1>4. n \in G
  <2>1. \A i \in 1..n : i - 1 \in G => i \in G
    <3>. HIDE DEF G, n
    <3>. QED BY <1>3
  <2>2. n \in 0..n
    BY <1>1
  <2>. HIDE DEF G, n
  <2>3. \A i \in 0..n : i \in G
    BY <1>1, <1>2, <2>1, LoopInduction
  <2>. QED BY <2>2, <2>3
<1>5. Left(n) = rest
  <2>1. SubSeq(items, n + 1, n) = <<>>
    BY <1>1, SubSeqEmpty
  <2>. QED BY <2>1, ConcatEmptySeq
<1>6. start = Outcome(g[n], Left(n), callers)
  <2>. HIDE DEF Left, start, n
  <2>. QED BY <1>4
<1>. HIDE DEF Left
<1>. QED BY <1>5, <1>6

\* The targets of a rule, or the default targets.
LEMMA TargetsFlow ==
  ASSUME Configured, NEW call \in Callable(DOMAIN chains), NEW ts \in Seq(fc_target_t),
         AllRight(call, Jumps(ts)),
         NEW x \in Way, NEW rest \in Seq(Item), NEW callers \in Seq(Seq(Item))
  PROVE  Flow[At(<<ts \o rest>> \o callers, x)] = Outcome(Targets(call, ts, x), rest, callers)
<1>1. PICK g : TargetRun(g, call, ts, x) /\ Targets(call, ts, x) = g[Len(ts)]
  BY TargetsLoop
<1>2. ts \in Seq(Item)
  BY DEF Item
<1>3. ASSUME NEW i \in 1..Len(ts), ~Ended(g[i - 1]), NEW later \in Seq(Item)
      PROVE  Flow[At(<<<<ts[i]>> \o later>> \o callers, g[i - 1])] = Outcome(g[i], later, callers)
  <2>1. ts[i] \in fc_target_t
    BY ElementOfSeq
  <2>2. g[i - 1] \in Way /\ g[i] = Invoke(call, ts[i], g[i - 1])
    <3>1. i - 1 \in 0..Len(ts)
      OBVIOUS
    <3>. QED BY <1>1, <1>3, <3>1 DEF TargetRun, NextTarget
  <2>3. ts[i].name = "jump" => AllRight(call, {ts[i].chain})
    <3>1. ts[i].name = "jump" => ts[i].chain \in Jumps(ts)
      BY DEF Jumps
    <3>. QED BY <3>1 DEF AllRight
  <2>. DEFINE t == ts[i]
              y == g[i - 1]
  <2>. HIDE DEF t, y
  <2>4. t \in fc_target_t /\ y \in Way /\ (t.name = "jump" => AllRight(call, {t.chain}))
    BY <2>1, <2>2, <2>3 DEF t, y
  <2>5. Flow[At(<<<<t>> \o later>> \o callers, y)] = Outcome(Invoke(call, t, y), later, callers)
    BY <2>4, TargetFlow
  <2>. QED BY <2>2, <2>5 DEF t, y
<1>4. ASSUME NEW i \in 1..Len(ts), Ended(g[i - 1]) PROVE g[i] = g[i - 1]
  BY <1>1, <1>4 DEF TargetRun, NextTarget
<1>5. g \in [0..Len(ts) -> Way] /\ g[0] = Status(x, FC_TARGET_CONTINUE)
  BY <1>1 DEF TargetRun
<1>6. \A i \in 1..Len(ts) :
        IF Ended(g[i - 1]) THEN g[i] = g[i - 1]
        ELSE \A later \in Seq(Item) :
               Flow[At(<<<<ts[i]>> \o later>> \o callers, g[i - 1])] = Outcome(g[i], later, callers)
  BY <1>3, <1>4
<1>7. Flow[At(<<ts \o rest>> \o callers, x)] = Outcome(g[Len(ts)], rest, callers)
  BY <1>2, <1>5, <1>6, ItemsFlow
<1>. QED BY <1>1, <1>7

\* A rule does what the flow does with it, ...
LEMMA RuleFlow ==
  ASSUME Configured, NEW call \in Callable(DOMAIN chains), NEW rule \in fc_rule_t,
         AllRight(call, Jumps(rule.targets)),
         NEW x \in Way, ~Ended(x), NEW rest \in Seq(Item), NEW callers \in Seq(Seq(Item))
  PROVE  Flow[At(<<<<rule>> \o rest>> \o callers, x)]
           = Outcome(NextRule(call, rule, x), rest, callers)
<1>0. rule \in Item
  BY DEF Item
<1>1. PICK s : /\ s = At(<<<<rule>> \o rest>> \o callers, x)
               /\ s \in FlowState
               /\ Flow[s] = Flow[FlowTarget(rule, rest, callers, s)]
  BY <1>0, FlowGoesOn
<1>2. s.v = x.v /\ \A todo : [s EXCEPT !.todo = todo] = At(todo, x)
  <2>1. s.v = x.v
    BY <1>1 DEF At
  <2>2. ASSUME NEW todo PROVE [s EXCEPT !.todo = todo] = At(todo, x)
    BY <1>1, AtTodo
  <2>. QED BY <2>1, <2>2
<1>3. rule.name = "rule" /\ rule.targets \in Seq(fc_target_t)
  BY RuleFields
<1>4. FlowTarget(rule, rest, callers, s) =
        [s EXCEPT !.todo = IF s.v \in rule.match THEN <<rule.targets \o rest>> \o callers
                           ELSE <<rest>> \o callers]
  BY <1>3 DEF FlowTarget
<1>5. CASE x.v \in rule.match
  <2>1. FlowTarget(rule, rest, callers, s) = At(<<rule.targets \o rest>> \o callers, x)
    BY <1>2, <1>4, <1>5
  <2>2. NextRule(call, rule, x) = Targets(call, rule.targets, x)
    BY <1>5 DEF NextRule
  <2>3. Flow[At(<<rule.targets \o rest>> \o callers, x)] =
          Outcome(Targets(call, rule.targets, x), rest, callers)
    BY <1>3, TargetsFlow
  <2>. QED BY <1>1, <2>1, <2>2, <2>3
<1>6. CASE x.v \notin rule.match
  <2>1. FlowTarget(rule, rest, callers, s) = At(<<rest>> \o callers, x)
    BY <1>2, <1>4, <1>6
  <2>2. NextRule(call, rule, x) = Status(x, FC_TARGET_CONTINUE)
    BY <1>6 DEF NextRule
  <2>3. <<rest>> \o callers \in Seq(Seq(Item))
    BY ConsFacts
  <2>4. /\ FC_TARGET_CONTINUE \in Failed..FC_TARGET_RETURN
        /\ FC_TARGET_CONTINUE # FC_TARGET_STOP /\ FC_TARGET_CONTINUE # FC_TARGET_RETURN
    BY DEF FC_TARGET_CONTINUE, Failed, FC_TARGET_STOP, FC_TARGET_RETURN
  <2>. DEFINE y == Status(x, FC_TARGET_CONTINUE)
  <2>5. y.status = FC_TARGET_CONTINUE
    BY <2>4, StatusFacts
  <2>6. At(<<rest>> \o callers, y) = At(<<rest>> \o callers, x)
    BY <2>3, <2>4, AtFacts
  <2>. HIDE DEF y
  <2>7. Outcome(y, rest, callers) = Flow[At(<<rest>> \o callers, x)]
    BY <2>4, <2>5, <2>6 DEF Outcome
  <2>. QED BY <1>1, <2>1, <2>2, <2>7 DEF y
<1>. QED BY <1>5, <1>6

\* ... all rules of a chain ...
LEMMA RulesFlow ==
  ASSUME Configured, NEW call \in Callable(DOMAIN chains), NEW rules \in Seq(fc_rule_t),
         \A i \in 1..Len(rules) : AllRight(call, Jumps(rules[i].targets)),
         NEW x \in Way, NEW rest \in Seq(Item), NEW callers \in Seq(Seq(Item))
  PROVE  Flow[At(<<rules \o rest>> \o callers, x)] = Outcome(Rules(call, rules, x), rest, callers)
<1>1. PICK g : RuleRun(g, call, rules, x) /\ Rules(call, rules, x) = g[Len(rules)]
  BY RulesLoop
<1>2. rules \in Seq(Item)
  BY DEF Item
<1>3. ASSUME NEW i \in 1..Len(rules), ~Ended(g[i - 1]), NEW later \in Seq(Item)
      PROVE  Flow[At(<<<<rules[i]>> \o later>> \o callers, g[i - 1])]
               = Outcome(g[i], later, callers)
  <2>1. rules[i] \in fc_rule_t
    BY ElementOfSeq
  <2>2. g[i - 1] \in Way /\ g[i] = NextRule(call, rules[i], g[i - 1])
    <3>1. i - 1 \in 0..Len(rules)
      OBVIOUS
    <3>. QED BY <1>1, <3>1 DEF RuleRun
  <2>. DEFINE rule == rules[i]
              y == g[i - 1]
  <2>. HIDE DEF rule, y
  <2>3. rule \in fc_rule_t /\ AllRight(call, Jumps(rule.targets)) /\ y \in Way /\ ~Ended(y)
    BY <1>3, <2>1, <2>2 DEF rule, y
  <2>4. Flow[At(<<<<rule>> \o later>> \o callers, y)]
          = Outcome(NextRule(call, rule, y), later, callers)
    BY <2>3, RuleFlow
  <2>. QED BY <2>2, <2>4 DEF rule, y
<1>4. ASSUME NEW i \in 1..Len(rules), Ended(g[i - 1]) PROVE g[i] = g[i - 1]
  BY <1>1, <1>4 DEF RuleRun, NextRule
<1>5. g \in [0..Len(rules) -> Way] /\ g[0] = Status(x, FC_TARGET_CONTINUE)
  BY <1>1 DEF RuleRun
<1>6. \A i \in 1..Len(rules) :
        IF Ended(g[i - 1]) THEN g[i] = g[i - 1]
        ELSE \A later \in Seq(Item) :
               Flow[At(<<<<rules[i]>> \o later>> \o callers, g[i - 1])]
                 = Outcome(g[i], later, callers)
  BY <1>3, <1>4
<1>7. Flow[At(<<rules \o rest>> \o callers, x)] = Outcome(g[Len(rules)], rest, callers)
  BY <1>2, <1>5, <1>6, ItemsFlow
<1>. QED BY <1>1, <1>7

\* ... and the whole chain, if the chains that it calls do.
LEMMA ChainFlow ==
  ASSUME Configured, NEW call \in Callable(DOMAIN chains), NEW c \in DOMAIN chains,
         AllRight(call, Called(c)), NEW x \in Way, NEW todo \in Seq(Seq(Item))
  PROVE  Flow[At(<<Agenda(chains[c])>> \o todo, x)]
           = ChainOutcome(ProcessChain(call, chains[c], x), todo)
<1>. DEFINE rules == chains[c].rules
            targets == chains[c].targets
            y == Rules(call, rules, x)
            z == Targets(call, targets, y)
            p == ProcessChain(call, chains[c], x)
<1>1. rules \in Seq(fc_rule_t) /\ targets \in Seq(fc_target_t) /\ targets \in Seq(Item)
  BY DEF Configured, fc_chain_t, Item
<1>2. /\ AllRight(call, Jumps(targets))
      /\ \A i \in 1..Len(rules) : AllRight(call, Jumps(rules[i].targets))
  BY DEF Called, AllRight
<1>3. p = IF Ended(y) THEN y ELSE IF z.status = FC_TARGET_STOP THEN z
          ELSE Status(z, FC_TARGET_CONTINUE)
  BY DEF ProcessChain
<1>4. Agenda(chains[c]) = rules \o targets
  BY DEF Agenda
<1>5. y \in Way
  <2>1. PICK g : RuleRun(g, call, rules, x) /\ y = g[Len(rules)]
    BY <1>1, RulesLoop
  <2>2. Len(rules) \in 0..Len(rules)
    BY <1>1
  <2>. QED BY <2>1, <2>2 DEF RuleRun
<1>. HIDE DEF p
<1>6. Flow[At(<<Agenda(chains[c])>> \o todo, x)] = Outcome(y, targets, todo)
  <2>. HIDE DEF rules, targets
  <2>. QED BY <1>1, <1>2, <1>4, RulesFlow
<1>. HIDE DEF y, rules
<1>7. z \in Way
  <2>. HIDE DEF targets
  <2>. QED BY <1>1, <1>5, TargetsType
<1>8. FC_TARGET_STOP # FC_TARGET_RETURN /\ FC_TARGET_CONTINUE # FC_TARGET_STOP
      /\ FC_TARGET_CONTINUE \in Failed..FC_TARGET_RETURN
  BY DEF FC_TARGET_CONTINUE, FC_TARGET_STOP, FC_TARGET_RETURN, Failed
<1>9. CASE Ended(y)
  <2>1. p = y
    BY <1>3, <1>9
  <2>. HIDE DEF z
  <2>2. Outcome(y, targets, todo) = ChainOutcome(y, todo)
    BY <1>8, <1>9 DEF Ended, Outcome, ChainOutcome
  <2>. QED BY <1>6, <2>1, <2>2 DEF p
<1>10. CASE ~Ended(y)
  <2>1. Outcome(y, targets, todo) = Flow[At(<<targets>> \o todo, y)]
    BY <1>10 DEF Ended, Outcome
  <2>2. Flow[At(<<targets>> \o todo, y)] = Outcome(z, <<>>, todo)
    <3>1. <<>> \in Seq(Item) /\ targets \o <<>> = targets
      BY <1>1, ConcatEmptySeq
    <3>2. Flow[At(<<targets \o <<>>>> \o todo, y)] = Outcome(z, <<>>, todo)
      <4>. HIDE DEF targets
      <4>. QED BY <1>1, <1>2, <1>5, <3>1, TargetsFlow
    <3>. HIDE DEF z, targets
    <3>. QED BY <3>1, <3>2
  <2>. HIDE DEF z, targets
  <2>3. CASE z.status = FC_TARGET_STOP
    <3>1. p = z
      BY <1>3, <1>10, <2>3
    <3>2. Outcome(z, <<>>, todo) = ChainOutcome(z, todo)
      BY <2>3 DEF Outcome, ChainOutcome
    <3>. QED BY <1>6, <2>1, <2>2, <3>1, <3>2 DEF p
  <2>4. CASE z.status # FC_TARGET_STOP
    <3>1. p = Status(z, FC_TARGET_CONTINUE)
      BY <1>3, <1>10, <2>4
    <3>2. p.status = FC_TARGET_CONTINUE
      BY <1>7, <1>8, <3>1, StatusFacts
    <3>3. At(todo, p) = At(todo, z)
      BY <1>7, <1>8, <3>1, AtFacts
    <3>4. ChainOutcome(p, todo) = Flow[At(todo, z)]
      BY <1>8, <3>2, <3>3 DEF ChainOutcome
    <3>5. Flow[At(<<<<>>>> \o todo, z)] = Flow[At(todo, z)]
      BY <1>7, FlowPops
    <3>6. Outcome(z, <<>>, todo) = Flow[At(todo, z)]
      BY <2>4, <3>5 DEF Outcome
    <3>. QED BY <1>6, <2>1, <2>2, <3>4, <3>6 DEF p
  <2>. QED BY <2>3, <2>4
<1>. QED BY <1>9, <1>10

\* By induction over the numbers of the chains all of them are right.
LEMMA ChainsAreRight ==
  ASSUME Configured, NoCircle
  PROVE  \A c \in DOMAIN chains : Right(ProcessChains(chains, Cardinality(DOMAIN chains)), c)
<1>. DEFINE n == Cardinality(DOMAIN chains)
<1>1. n \in Nat
  BY FS_CardinalityType DEF Configured
<1>2. PICK number \in [DOMAIN chains -> 1..n] :
        \A c \in DOMAIN chains : \A d \in Called(c) \cap DOMAIN chains : number[d] < number[c]
  BY DEF NoCircle
<1>. HIDE DEF n
<1>3. PICK g : ProcessRun(g, n) /\ ProcessChains(chains, n) = g[n]
  BY <1>1, ProcessLoop
<1>. DEFINE G == {k \in 0..n : \A c \in DOMAIN chains : number[c] <= k => Right(g[k], c)}
<1>4. 0 \in G
  <2>1. \A c \in DOMAIN chains : ~(number[c] <= 0)
    BY <1>1, <1>2
  <2>. QED BY <1>1, <2>1
<1>5. ASSUME NEW k \in 1..n, k - 1 \in G PROVE k \in G
  <2>1. k \in 0..n /\ k - 1 \in 0..n
    BY <1>1
  <2>2. g[k - 1] \in Callable(DOMAIN chains)
    BY <1>3, <2>1 DEF ProcessRun
  <2>3. ASSUME NEW c \in DOMAIN chains, number[c] <= k PROVE Right(g[k], c)
    <3>1. AllRight(g[k - 1], Called(c))
      <4>1. ASSUME NEW d \in Called(c) \cap DOMAIN chains PROVE Right(g[k - 1], d)
        <5>1. number[d] < number[c] /\ number[d] \in 1..n /\ number[c] \in 1..n
          BY <1>2
        <5>2. number[d] <= k - 1
          BY <1>1, <2>3, <5>1
        <5>. QED BY <1>5, <5>2
      <4>. QED BY <4>1 DEF AllRight
    <3>2. ASSUME NEW x \in Way, NEW todo \in Seq(Seq(Item))
          PROVE  Flow[At(<<Agenda(chains[c])>> \o todo, x)] = ChainOutcome(g[k][c][x], todo)
      <4>1. g[k][c][x] = ProcessChain(g[k - 1], chains[c], x)
        BY <1>3 DEF ProcessRun
      <4>2. Flow[At(<<Agenda(chains[c])>> \o todo, x)]
              = ChainOutcome(ProcessChain(g[k - 1], chains[c], x), todo)
        BY <2>2, <3>1, ChainFlow
      <4>. QED BY <4>1, <4>2
    <3>. QED BY <3>2 DEF Right
  <2>. QED BY <2>1, <2>3
<1>6. n \in G
  <2>1. n \in 0..n
    BY <1>1
  <2>. HIDE DEF G
  <2>2. \A k \in 1..n : k - 1 \in G => k \in G
    BY <1>5
  <2>3. \A k \in 0..n : k \in G
    BY <1>1, <1>4, <2>2, LoopInduction
  <2>. QED BY <2>1, <2>3
<1>7. ASSUME NEW c \in DOMAIN chains PROVE Right(g[n], c)
  <2>1. number[c] <= n
    BY <1>1, <1>2
  <2>. QED BY <1>6, <2>1
<1>. QED BY <1>3, <1>7 DEF n

\* fc_process_chain as plugin_dispatch_values_internal calls it.
LEMMA FlowFromStart == Configured => FollowsFlowControl
<1>. SUFFICES ASSUME Configured, NoCircle, NEW v \in Value, NEW c \in DOMAIN chains
              PROVE  LET code == fc_process_chain(chains, c, Fresh(v))
                         flow == Flow[FlowStart(c, v)]
                     IN  /\ code.v = flow.v /\ code.writes = flow.writes
                         /\ (code.status = FC_TARGET_STOP) <=> (flow.status = FC_TARGET_STOP)
  BY DEF FollowsFlowControl
<1>. DEFINE process == ProcessChains(chains, Cardinality(DOMAIN chains))
            code == fc_process_chain(chains, c, Fresh(v))
            flow == Flow[FlowStart(c, v)]
<1>1. Fresh(v) \in Way
  BY DEF Fresh, Way, FC_TARGET_CONTINUE, Failed, FC_TARGET_RETURN
<1>2. Right(process, c)
  BY ChainsAreRight
<1>3. code = process[c][Fresh(v)]
  BY DEF fc_process_chain
<1>4. code \in Way
  <2>1. Cardinality(DOMAIN chains) \in Nat
    BY FS_CardinalityType DEF Configured
  <2>. DEFINE n == Cardinality(DOMAIN chains)
  <2>. HIDE DEF n
  <2>2. n \in Nat
    BY <2>1 DEF n
  <2>3. PICK g : ProcessRun(g, n) /\ ProcessChains(chains, n) = g[n]
    BY <2>2, ProcessLoop
  <2>4. g[n] \in Callable(DOMAIN chains)
    BY <2>2, <2>3 DEF ProcessRun
  <2>5. process = g[n]
    BY <2>3 DEF n
  <2>. HIDE DEF process, code
  <2>. QED BY <1>1, <1>3, <2>4, <2>5 DEF Callable
<1>5. FlowStart(c, v) = At(<<Agenda(chains[c])>> \o <<>>, Fresh(v))
  <2>1. chains[c].rules \in Seq(Item) /\ chains[c].targets \in Seq(Item)
    BY DEF Configured, fc_chain_t, Item
  <2>2. Agenda(chains[c]) \in Seq(Item)
    BY <2>1, ConcatProperties DEF Agenda
  <2>3. <<Agenda(chains[c])>> \o <<>> = <<Agenda(chains[c])>>
    <3>1. <<Agenda(chains[c])>> \in Seq(Seq(Item))
      BY <2>2
    <3>. QED BY <3>1, ConcatEmptySeq
  <2>. QED BY <2>3 DEF FlowStart, At, Fresh
<1>. HIDE DEF process, code
<1>6. flow = ChainOutcome(code, <<>>)
  <2>1. <<>> \in Seq(Seq(Item))
    OBVIOUS
  <2>2. Flow[At(<<Agenda(chains[c])>> \o <<>>, Fresh(v))] = ChainOutcome(process[c][Fresh(v)], <<>>)
    BY <1>1, <1>2, <2>1 DEF Right
  <2>. QED BY <1>3, <1>5, <2>2
<1>. HIDE DEF flow
<1>7. CASE code.status = FC_TARGET_STOP
  <2>1. flow = Stopped(code)
    BY <1>6, <1>7 DEF ChainOutcome
  <2>. QED BY <1>7, <2>1 DEF Stopped, code, flow
<1>8. CASE code.status # FC_TARGET_STOP
  <2>1. flow = At(<<>>, code)
    BY <1>4, <1>6, <1>8, FlowEnds DEF ChainOutcome
  <2>2. FC_TARGET_CONTINUE # FC_TARGET_STOP
    BY DEF FC_TARGET_CONTINUE, FC_TARGET_STOP
  <2>. QED BY <1>8, <2>1, <2>2 DEF At, code, flow
<1>. QED BY <1>7, <1>8

\* Whatever chains are configured, if they do not jump in a circle fc_process_chain
\* leaves each value list, its writes and its status as the flow control of the
\* manual does: the one status that targets, rules and chains share unwinds a nest of any depth
\* by the right amount.
THEOREM ChainsFollowFlowControl == Spec => []FollowsFlowControl
<1>1. Init => Configured
  BY SetupsAssumption DEF Init, Configured
<1>2. Configured /\ [Next]_vars => Configured'
  <2>1. [Next]_vars => chains' = chains
    BY DEF Next, vars, plugin_dispatch_values_internal, plugin_write, uc_update, dispatch_return,
           CallbackStep, plugin_dispatch_missing, uc_remove
  <2>. QED BY <2>1 DEF Configured
<1>3. Configured => FollowsFlowControl
  BY FlowFromStart
<1>. QED BY <1>1, <1>2, <1>3, PTL DEF Spec
=============================================================================
