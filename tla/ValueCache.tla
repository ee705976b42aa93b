----------------------------- MODULE ValueCache -----------------------------
(***************************************************************************)
(* The value cache of src/daemon/utils_cache.c and the cache events of     *)
(* src/daemon/plugin.c.                                                    *)
(*                                                                         *)
(* Write threads call uc_update for every value list; the main thread      *)
(* calls uc_check_timeout once per interval.  Each section that holds      *)
(* cache_lock is one step.  Callbacks run without the lock: the NEW,       *)
(* UPDATE and EXPIRED events go to one callback per step, and the mask of  *)
(* subscribed callbacks that the NEW events return is stored under the     *)
(* lock afterwards, by name.                                               *)
(*                                                                         *)
(* Names are numbers in the order in which the AVL tree holds the keys.    *)
(* Instead of the two absolute times `now' and last_update an entry holds  *)
(* their difference, which is all that uc_check_timeout looks at; it is    *)
(* negative after the wall clock has been set back behind last_update.     *)
(*                                                                         *)
(* Not modelled here: the values and rates, the history, the meta data,    *)
(* `state' and `hits', and the read-only accessors.                        *)
(***************************************************************************)
EXTENDS Integers, FiniteSets

CONSTANTS
  Writer,         \* the write threads
  MaxName,        \* bound: how many different identifiers occur
  MaxTime,        \* bound: the latest time stamp of a value list
  MaxInterval,    \* bound: the longest interval of a value list
  timeout_g,      \* global option Timeout
  MaxBack,        \* bound: how far the wall clock is set back, 0 means never
  MaxSlots        \* size of list_cache_event; the code has 32


Name == 1..MaxName
Slot == 1..MaxSlots
MaxAge == MaxInterval * timeout_g

ASSUME ValueCacheAssumption ==
  /\ MaxName \in Nat
  /\ MaxTime \in Nat
  /\ MaxInterval \in Nat \ {0}
  /\ timeout_g \in Nat \ {0}
  /\ MaxBack \in Nat
  /\ MaxSlots \in Nat

VARIABLES
  cache_tree,            \* the names that have an entry
  last_time,             \* of every entry: time stamp of its value list
  interval,              \* of every entry
  age,                   \* of every entry: cdtime() - last_update
  callbacks_mask,        \* of every entry: the slots that have subscribed
  list_cache_event_num,  \* how many slots of list_cache_event are in use
  active,                \* the slots whose callback is not NULL
  pc,                    \* of every write thread: its place in uc_update
  name,                  \* of every write thread: the name of its value list
  slot,                  \* of every write thread: where its callback loop is
  mask,                  \* of every write thread: the mask it works with
  main,                  \* the place of the main thread in uc_check_timeout
  main_name,             \* the expired name the main thread is at
  main_slot,             \* where its callback loop is
  expired,               \* the names that uc_check_timeout has collected
  expired_mask,          \* and the callbacks_mask each had then
  early,                 \* history: slots taken before the write threads start
  newest,                \* history: latest time offered since the insertion
  answer                 \* history: what every callback said to NEW

values == <<cache_tree, last_time, interval>>
entries == <<values, age, callbacks_mask>>
callbacks == <<list_cache_event_num, active, early>>
threads == <<pc, name, slot, mask>>
checker == <<main, main_name, main_slot, expired, expired_mask>>
vars == <<entries, callbacks, threads, checker, newest, answer>>

\* A loop over list_cache_event that is at slot i: the callbacks to come.
ToCome(i) == {s \in i..list_cache_event_num : s \in active}

\* A mask is the set of the slots whose bits are set: (1 << i) has one.
Bit(i) == {i}

\* if (callbacks_mask && (1 << (i)) == 0) continue;
Skipped(m, i) == m # {} /\ Bit(i) = {}

\* The callbacks that an UPDATE or EXPIRED loop at slot i is still to call.
Called(i, m) == {s \in ToCome(i) : ~Skipped(m, s)}
First(S) == CHOOSE s \in S : \A t \in S : s <= t

Larger(a, b) == IF a >= b THEN a ELSE b
Smaller(a, b) == IF a <= b THEN a ELSE b
-----------------------------------------------------------------------------
(* uc_update *)

\* What uc_insert and uc_update have in common: the entry gets the time and
\* the interval of the value list, and last_update = cdtime().
Store(n, t, i) ==
  /\ last_time' = [last_time EXCEPT ![n] = t]
  /\ interval' = [interval EXCEPT ![n] = i]
  /\ age' = [age EXCEPT ![n] = 0]

\* Thread w starts a loop over the callbacks for the name n.
StartLoop(w, p, n, m) ==
  /\ pc' = [pc EXCEPT ![w] = p]
  /\ name' = [name EXCEPT ![w] = n]
  /\ slot' = [slot EXCEPT ![w] = 1]
  /\ mask' = [mask EXCEPT ![w] = m]

\* Thread w returns from uc_update; what its variables hold is irrelevant.
Return(w) ==
  /\ pc' = [pc EXCEPT ![w] = "idle"]
  /\ name' = [name EXCEPT ![w] = 0]
  /\ slot' = [slot EXCEPT ![w] = 0]
  /\ mask' = [mask EXCEPT ![w] = {}]

\* The name is unknown: uc_insert under the lock, the NEW events after it.
uc_insert(w, n, t, i) ==
  /\ pc[w] = "idle"
  /\ n \notin cache_tree
  /\ cache_tree' = cache_tree \cup {n}
  /\ Store(n, t, i)
  /\ callbacks_mask' = [callbacks_mask EXCEPT ![n] = {}]
  /\ StartLoop(w, "new", n, {})
  /\ newest' = [newest EXCEPT ![n] = t]
  /\ UNCHANGED <<callbacks, checker, answer>>

\* "Value too old".  (Definitions named X_Y are X with a mistake Y: they are
\* used only to show that the properties notice it.)
TooOld_AcceptsOlder(n, t) == last_time[n] = t
TooOld(n, t) == last_time[n] >= t

\* Such a value list changes nothing.
uc_update_rejected(w, n, t) ==
  /\ pc[w] = "idle"
  /\ n \in cache_tree
  /\ TooOld(n, t)
  /\ newest' = [newest EXCEPT ![n] = Larger(@, t)]
  /\ UNCHANGED <<entries, callbacks, threads, checker, answer>>

\* The mask that was read under the lock decides whether UPDATE events follow.
AfterUpdate_IgnoresMask(w, n) == StartLoop(w, "update", n, callbacks_mask[n])
AfterUpdate(w, n) ==
  \/ callbacks_mask[n] # {} /\ StartLoop(w, "update", n, callbacks_mask[n])
  \/ callbacks_mask[n] = {} /\ UNCHANGED threads

\* The entry is refreshed and keeps its mask.
uc_update_ForgetsMask(w, n, t, i) ==
  /\ pc[w] = "idle"
  /\ n \in cache_tree
  /\ ~TooOld(n, t)
  /\ Store(n, t, i)
  /\ AfterUpdate(w, n)
  /\ newest' = [newest EXCEPT ![n] = Larger(@, t)]
  /\ callbacks_mask' = [callbacks_mask EXCEPT ![n] = {}]
  /\ UNCHANGED <<cache_tree, callbacks, checker, answer>>
uc_update(w, n, t, i) ==
  /\ pc[w] = "idle"
  /\ n \in cache_tree
  /\ ~TooOld(n, t)
  /\ Store(n, t, i)
  /\ AfterUpdate(w, n)
  /\ newest' = [newest EXCEPT ![n] = Larger(@, t)]
  /\ UNCHANGED <<cache_tree, callbacks_mask, callbacks, checker, answer>>
-----------------------------------------------------------------------------
(* plugin_dispatch_cache_event *)

\* CE_VALUE_NEW: callback i is asked; it subscribes or it does not.
event_new(w, i, yes) ==
  /\ pc[w] = "new"
  /\ i \in ToCome(slot[w])
  /\ i = First(ToCome(slot[w]))
  /\ slot' = [slot EXCEPT ![w] = i + 1]
  /\ mask' = [mask EXCEPT ![w] = IF yes THEN @ \cup {i} ELSE @]
  /\ answer' = [answer EXCEPT ![i] = [@ EXCEPT ![name[w]] = IF yes THEN "yes" ELSE "no"]]
  /\ UNCHANGED <<pc, name, entries, callbacks, checker, newest>>

\* After the last callback: uc_set_callbacks_mask looks the name up again,
\* and finds the entry, none, or another entry with this name.
uc_set_callbacks_mask(w) ==
  /\ pc[w] = "new"
  /\ ToCome(slot[w]) = {}
  /\ callbacks_mask' =
       IF mask[w] # {} /\ name[w] \in cache_tree
         THEN [callbacks_mask EXCEPT ![name[w]] = mask[w]]
         ELSE callbacks_mask
  /\ Return(w)
  /\ UNCHANGED <<values, age, callbacks, checker, newest, answer>>

\* CE_VALUE_UPDATE for callback i.
event_update(w, i) ==
  /\ pc[w] = "update"
  /\ i \in Called(slot[w], mask[w])
  /\ i = First(Called(slot[w], mask[w]))
  /\ slot' = [slot EXCEPT ![w] = i + 1]
  /\ UNCHANGED <<pc, name, mask, entries, callbacks, checker, newest, answer>>

event_update_done(w) ==
  /\ pc[w] = "update"
  /\ Called(slot[w], mask[w]) = {}
  /\ Return(w)
  /\ UNCHANGED <<entries, callbacks, checker, newest, answer>>

\* A slot is taken and never given back; at the limit, and for a name that
\* is registered already, the call fails and changes nothing.
plugin_register_cache_event_NoLimit ==
  /\ list_cache_event_num' = list_cache_event_num + 1
  /\ active' = active \cup {list_cache_event_num + 1}
  /\ UNCHANGED <<early, entries, threads, checker, newest, answer>>
plugin_register_cache_event ==
  /\ list_cache_event_num < MaxSlots
  /\ list_cache_event_num' = list_cache_event_num + 1
  /\ active' = active \cup {list_cache_event_num + 1}
  /\ UNCHANGED <<early, entries, threads, checker, newest, answer>>

\* Only cef->callback is cleared, so that the masks remain valid.
plugin_unregister_cache_event(i) ==
  /\ i \in active
  /\ active' = active \ {i}
  /\ UNCHANGED <<list_cache_event_num, early, entries, threads, checker, newest, answer>>
-----------------------------------------------------------------------------
(* uc_check_timeout, in the main thread *)

\* (now - ce->last_update) < (ce->interval * timeout_g) fails.  The
\* subtraction is unsigned: a negative difference is a huge one.
Stale(n) == age[n] < 0 \/ age[n] >= interval[n] * timeout_g

Goto(p, n) == main' = p /\ main_name' = n /\ main_slot' = 1

\* First section: collect what is stale, with the masks of now.
collect_expired ==
  /\ main = "idle"
  /\ \E n \in cache_tree : Stale(n)
  /\ expired' = {n \in cache_tree : Stale(n)}
  /\ expired_mask' = [n \in Name |-> IF n \in expired' THEN callbacks_mask[n] ELSE {}]
  /\ Goto("missing", First(expired'))
  /\ UNCHANGED <<entries, callbacks, threads, newest, answer>>

\* On to the entry of `expired' after this one, or to the removal.
NextExpired ==
  LET S == {m \in expired : m > main_name}
  IN  IF S # {} THEN Goto("missing", First(S)) ELSE Goto("remove", 0)

\* The callbacks for missing values.  One that returns non-zero ends this
\* loop; what comes after it is the same.
dispatch_missing_RemovesFirst ==
  /\ main = "missing"
  /\ IF expired_mask[main_name] # {} THEN Goto("expired", main_name) ELSE NextExpired
  /\ cache_tree' = cache_tree \ {main_name}
  /\ UNCHANGED <<last_time, interval, age, callbacks_mask, callbacks, threads,
                 expired, expired_mask, newest, answer>>
dispatch_missing ==
  /\ main = "missing"
  /\ IF expired_mask[main_name] # {} THEN Goto("expired", main_name) ELSE NextExpired
  /\ UNCHANGED <<entries, callbacks, threads, expired, expired_mask, newest, answer>>

\* CE_VALUE_EXPIRED for callback i.
event_expired(i) ==
  /\ main = "expired"
  /\ i \in Called(main_slot, expired_mask[main_name])
  /\ i = First(Called(main_slot, expired_mask[main_name]))
  /\ main_slot' = i + 1
  /\ UNCHANGED <<main, main_name, expired, expired_mask, entries, callbacks, threads,
                 newest, answer>>

event_expired_done ==
  /\ main = "expired"
  /\ Called(main_slot, expired_mask[main_name]) = {}
  /\ NextExpired
  /\ UNCHANGED <<entries, callbacks, threads, expired, expired_mask, newest, answer>>

\* The entries of S are freed.  (So that it does not matter what they held,
\* their fields are set to what they were before the insertion.)
Free(S) ==
  /\ cache_tree' = cache_tree \ S
  /\ last_time' = [n \in Name |-> IF n \in S THEN 0 ELSE last_time[n]]
  /\ interval' = [n \in Name |-> IF n \in S THEN 0 ELSE interval[n]]
  /\ age' = [n \in Name |-> IF n \in S THEN 0 ELSE age[n]]
  /\ callbacks_mask' = [n \in Name |-> IF n \in S THEN {} ELSE callbacks_mask[n]]
  /\ newest' = [n \in Name |-> IF n \in S THEN 0 ELSE newest[n]]

\* Last section: every collected name goes, whatever happened since.
remove_expired_SkipsFirst ==
  /\ main = "remove"
  /\ Free(expired \ {First(expired)})
  /\ main' = "idle" /\ main_name' = 0 /\ main_slot' = 0
  /\ expired' = {}
  /\ expired_mask' = [n \in Name |-> {}]
  /\ UNCHANGED <<callbacks, threads, answer>>
remove_expired ==
  /\ main = "remove"
  /\ Free(expired)
  /\ main' = "idle" /\ main_name' = 0 /\ main_slot' = 0
  /\ expired' = {}
  /\ expired_mask' = [n \in Name |-> {}]
  /\ UNCHANGED <<callbacks, threads, answer>>
-----------------------------------------------------------------------------
(* cdtime, the wall clock *)

\* One second passes.  Ages beyond MaxAge need not be told apart.
tick ==
  /\ age' = [n \in Name |-> IF n \in cache_tree THEN Smaller(age[n] + 1, MaxAge) ELSE 0]
  /\ UNCHANGED <<values, callbacks_mask, callbacks, threads, checker, newest, answer>>

\* The clock is set back by d seconds.
clock_set_back(d) ==
  /\ age' = [n \in Name |-> IF n \in cache_tree THEN Larger(age[n] - d, -MaxBack) ELSE 0]
  /\ UNCHANGED <<values, callbacks_mask, callbacks, threads, checker, newest, answer>>
-----------------------------------------------------------------------------
Init ==
  /\ cache_tree = {}
  /\ last_time = [n \in Name |-> 0]
  /\ interval = [n \in Name |-> 0]
  /\ age = [n \in Name |-> 0]
  /\ callbacks_mask = [n \in Name |-> {}]
  /\ early \in 0..MaxSlots
  /\ list_cache_event_num = early
  /\ active = 1..early
  /\ pc = [w \in Writer |-> "idle"]
  /\ name = [w \in Writer |-> 0]
  /\ slot = [w \in Writer |-> 0]
  /\ mask = [w \in Writer |-> {}]
  /\ main = "idle" /\ main_name = 0 /\ main_slot = 0
  /\ expired = {}
  /\ expired_mask = [n \in Name |-> {}]
  /\ newest = [n \in Name |-> 0]
  /\ answer = [s \in Slot |-> [n \in Name |-> "none"]]

WriterNext(w) ==
  \/ \E n \in Name, t \in 1..MaxTime, i \in 1..MaxInterval :
       uc_insert(w, n, t, i) \/ uc_update(w, n, t, i)
  \/ \E n \in Name, t \in 1..MaxTime : uc_update_rejected(w, n, t)
  \/ \E i \in Slot, yes \in BOOLEAN : event_new(w, i, yes)
  \/ uc_set_callbacks_mask(w)
  \/ \E i \in Slot : event_update(w, i)
  \/ event_update_done(w)

MainNext ==
  \/ collect_expired
  \/ dispatch_missing
  \/ \E i \in Slot : event_expired(i)
  \/ event_expired_done
  \/ remove_expired

Next ==
  \/ \E w \in Writer : WriterNext(w)
  \/ MainNext
  \/ plugin_register_cache_event
  \/ \E i \in Slot : plugin_unregister_cache_event(i)
  \/ tick
  \/ \E d \in 1..MaxBack : clock_set_back(d)

Spec == Init /\ [][Next]_vars

\* Time passes, and the clock is not set back for ever; the main loop keeps
\* calling uc_check_timeout, and the callbacks it calls return.
Fairness ==
  /\ WF_vars(tick)
  /\ WF_vars(MainNext)
  /\ <>[][~\E d \in 1..MaxBack : clock_set_back(d)]_vars
LiveSpec == Spec /\ Fairness
-----------------------------------------------------------------------------
(* Properties *)

\* Type invariant.  In particular list_cache_event never overflows: this is
\* the test of list_cache_event_num in plugin_register_cache_event.
TypeOK ==
  /\ cache_tree \subseteq Name
  /\ last_time \in [Name -> 0..MaxTime]
  /\ interval \in [Name -> 0..MaxInterval]
  /\ age \in [Name -> (-MaxBack)..MaxAge]
  /\ callbacks_mask \in [Name -> SUBSET Slot]
  /\ list_cache_event_num \in 0..MaxSlots
  /\ active \subseteq 1..list_cache_event_num
  /\ early \in 0..list_cache_event_num
  /\ pc \in [Writer -> {"idle", "new", "update"}]
  /\ name \in [Writer -> 0..MaxName]
  /\ slot \in [Writer -> 0..(MaxSlots + 1)]
  /\ mask \in [Writer -> SUBSET Slot]
  /\ main \in {"idle", "missing", "expired", "remove"}
  /\ main_name \in 0..MaxName
  /\ main_slot \in 0..(MaxSlots + 1)
  /\ expired \subseteq Name
  /\ expired_mask \in [Name -> SUBSET Slot]
  /\ newest \in [Name -> 0..MaxTime]
  /\ answer \in [Slot -> [Name -> {"none", "no", "yes"}]]

\* While uc_check_timeout calls the missing and the EXPIRED callbacks, every
\* value it has collected is still in the cache, "so that callbacks can still
\* access the data stored", whatever the write threads do meanwhile.
MissingStillCached == main \in {"missing", "expired"} => expired \subseteq cache_tree

\* However the write threads interleave, the cache holds the newest of all
\* the values offered to uc_update since the entry was created.
CacheHoldsNewest == \A n \in cache_tree : last_time[n] = newest[n]

\* UPDATE events that are about to be delivered: thread and callback.
DueUpdate ==
  {x \in Writer \X Slot : /\ pc[x[1]] = "update"
                          /\ x[2] \in Called(slot[x[1]], mask[x[1]])}

\* EXPIRED events that are about to be delivered: the callbacks.
DueExpired ==
  {i \in Slot : main = "expired" /\ i \in Called(main_slot, expired_mask[main_name])}

\* A callback that was registered before the write threads started hears of an
\* update or of the expiration of a metric only after it has been offered that
\* metric by a NEW event, whoever else is registered or unregistered later.
NewFirst ==
  /\ \A x \in DueUpdate : x[2] <= early => answer[x[2]][name[x[1]]] # "none"
  /\ \A i \in DueExpired : i <= early => answer[i][main_name] # "none"

\* A callback that has subscribed to a metric is told of every update of it,
\* except for those that fall into the NEW loop of the metric: the mask is
\* stored only after that loop.
Subscribers(n) == {s \in active : answer[s][n] = "yes"}
InNewLoop(n) == \E w \in Writer : pc[w] = "new" /\ name[w] = n
UpdatesReachSubscribers ==
  [][\A n \in cache_tree \cap cache_tree' :
       last_time'[n] # last_time[n] /\ Subscribers(n) # {} /\ ~InNewLoop(n)
       => \E w \in Writer : /\ pc[w] = "idle" /\ pc'[w] = "update"
                            /\ name'[w] = n
                            /\ Subscribers(n) \subseteq Called(1, mask'[w])]_vars

\* A metric whose source has fallen silent leaves the cache.  (After the last
\* time stamp of the model no update is accepted.)
SilentExpires == \A n \in Name : last_time[n] = MaxTime ~> n \notin cache_tree
=============================================================================
