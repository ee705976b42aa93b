-------------------------- MODULE ValueCache_proofs --------------------------
(***************************************************************************)
(* Proofs about the value cache for any number of write threads, names,    *)
(* time stamps, intervals and cache event callbacks.                       *)
(*                                                                         *)
(* The invariants of ValueCache say what holds at the unlocked callbacks.  *)
(* To be inductive they need what the threads remember across the unlocks: *)
(* Control ties the loops over list_cache_event to real names and slots,   *)
(* and Offered follows the answers to the NEW events from the loop that    *)
(* collects them, through the mask of the entry, to the masks that the     *)
(* UPDATE and EXPIRED loops work with.                                     *)
(***************************************************************************)
EXTENDS ValueCache, WellFoundedInduction, TLAPS

\* What the threads remember is a name and a slot of the callback list; what
\* the main thread has collected stays in the tree until it removes it.
Control ==
  /\ \A w \in Writer : pc[w] # "idle" => name[w] \in Name /\ slot[w] # 0
  /\ main # "idle" => main_slot # 0 /\ expired \subseteq cache_tree
  /\ main \in {"missing", "expired"} => main_name \in expired
  /\ main = "expired" => expired_mask[main_name] # {}

IInv ==
  /\ TypeOK
  /\ Control
  /\ CacheHoldsNewest

\* Every early callback that is still registered has been offered the name.
AllOffered(n) == \A s \in active : s <= early => answer[s][n] # "none"

\* Where a non-empty mask can be found, the NEW loop of that name is over.
Offered ==
  /\ \A w \in Writer : pc[w] = "new" =>
       \A s \in active : s <= early /\ s < slot[w] => answer[s][name[w]] # "none"
  /\ \A w \in Writer : pc[w] = "update" => AllOffered(name[w])
  /\ \A n \in Name : callbacks_mask[n] # {} => AllOffered(n)
  /\ \A n \in Name : expired_mask[n] # {} => AllOffered(n)

\* A callback that has subscribed to a metric of the cache will not be
\* forgotten: the mask is stored, or a NEW loop holds or will have its answer.
\* The loop may be that of an earlier entry with this name.
Subscribed ==
  /\ \A n \in cache_tree, s \in active : answer[s][n] = "yes" =>
       \/ callbacks_mask[n] # {}
       \/ \E w \in Writer : pc[w] = "new" /\ name[w] = n /\ (s \in mask[w] \/ slot[w] <= s)
  /\ \A s \in Slot, n \in Name : s > list_cache_event_num => answer[s][n] = "none"

-----------------------------------------------------------------------------
(* Lemmas *)

\* The loops over the callbacks and over the expired names go upwards: a
\* non-empty set of numbers has a first one.
LEMMA FirstIsLeast ==
  ASSUME NEW S \in SUBSET Nat, S # {}
  PROVE  First(S) \in S /\ \A t \in S : First(S) <= t
<1>1. \E s \in S : \A t \in S : s <= t
  <2>. DEFINE Less == OpToRel(<, Nat)
  <2>1. IsWellFoundedOn(Less, Nat)
    BY NatLessThanWellFounded
  <2>2. PICK s \in S : \A t \in S : ~(<<t, s>> \in Less)
    <3>. HIDE DEF Less
    <3>. QED BY <2>1, WFMin
  <2>3. \A t \in S : ~(t < s)
    <3>. SUFFICES ASSUME NEW t \in S, t < s PROVE FALSE
      OBVIOUS
    <3>1. <<t, s>> \in {ss \in Nat \X Nat : ss[1] < ss[2]}
      OBVIOUS
    <3>. QED BY <3>1, <2>2 DEF OpToRel
  <2>. QED BY <2>3
<1>. QED BY <1>1 DEF First

\* The largest age is a number.
LEMMA MaxAgeType == MaxAge \in Nat
  BY ValueCacheAssumption DEF MaxAge

\* Names and slots are numbers within the bounds that the types give.
LEMMA NameSlotFacts ==
  /\ \A n \in Name : n \in Nat /\ n # 0 /\ n \in 0..MaxName
  /\ \A i \in Slot : i \in Nat /\ i # 0 /\ i + 1 \in 0..(MaxSlots + 1) /\ i + 1 # 0
  /\ 0 \in 0..MaxName /\ 0 \in 0..(MaxSlots + 1) /\ 1 \in 0..(MaxSlots + 1)
  BY ValueCacheAssumption DEF Name, Slot

\* The next name after one expired name is again one of the expired names.
LEMMA NextExpiredFacts ==
  ASSUME NextExpired, expired \subseteq Name
  PROVE  /\ main_slot' = 1
         /\ \/ main' = "remove" /\ main_name' = 0
            \/ main' = "missing" /\ main_name' \in expired
<1>. DEFINE S == {m \in expired : m > main_name}
<1>1. CASE S = {}
  BY <1>1 DEF NextExpired, Goto
<1>2. CASE S # {}
  <2>1. S \in SUBSET Nat
    <3>1. \A m \in expired : m \in Nat
      BY NameSlotFacts
    <3>. QED BY <3>1
  <2>2. First(S) \in S
    BY <1>2, <2>1, FirstIsLeast
  <2>3. Goto("missing", First(S))
    BY <1>2 DEF NextExpired
  <2>. QED BY <2>2, <2>3 DEF Goto
<1>. QED BY <1>1, <1>2
-----------------------------------------------------------------------------
(* The inductive invariant *)

\* The cache is created empty, before any write thread runs.
LEMMA InitialState == Init => IInv
  BY ValueCacheAssumption, MaxAgeType
  DEF Init, IInv, TypeOK, Control, CacheHoldsNewest, Name, Slot

\* Every locked section and every callback preserves the invariant.
LEMMA InductiveStep == IInv /\ [Next]_vars => IInv'
<1>. SUFFICES ASSUME IInv, Next PROVE IInv'
  BY DEF IInv, TypeOK, Control, CacheHoldsNewest, vars, values,
    entries, callbacks, threads, checker
<1>. USE ValueCacheAssumption, MaxAgeType, NameSlotFacts
     DEF IInv, TypeOK, Control, CacheHoldsNewest, values, entries,
         callbacks, threads, checker
<1>1. ASSUME NEW w \in Writer, NEW n \in Name, NEW t \in 1..MaxTime,
             NEW i \in 1..MaxInterval, uc_insert(w, n, t, i)
      PROVE  IInv'
  BY <1>1 DEF uc_insert, Store, StartLoop
<1>2. ASSUME NEW w \in Writer, NEW n \in Name, NEW t \in 1..MaxTime,
             NEW i \in 1..MaxInterval, uc_update(w, n, t, i)
      PROVE  IInv'
  <2>1. newest[n] = last_time[n] /\ last_time[n] < t
    BY <1>2 DEF uc_update, TooOld
  <2>2. Larger(newest[n], t) = t
    BY <2>1 DEF Larger
  <2>5. newest' = [newest EXCEPT ![n] = t]
    BY <1>2, <2>2 DEF uc_update
  <2>3. CASE StartLoop(w, "update", n, callbacks_mask[n])
    BY <1>2, <2>5, <2>3 DEF uc_update, Store, StartLoop
  <2>4. CASE UNCHANGED threads
    BY <1>2, <2>5, <2>4 DEF uc_update, Store
  <2>. QED BY <1>2, <2>3, <2>4 DEF uc_update, AfterUpdate
<1>3. ASSUME NEW w \in Writer, NEW n \in Name, NEW t \in 1..MaxTime,
             uc_update_rejected(w, n, t)
      PROVE  IInv'
  BY <1>3 DEF uc_update_rejected, TooOld, Larger
<1>4. ASSUME NEW w \in Writer, NEW i \in Slot, NEW yes \in BOOLEAN,
             event_new(w, i, yes)
      PROVE  IInv'
  BY <1>4 DEF event_new
<1>5. ASSUME NEW w \in Writer, uc_set_callbacks_mask(w) PROVE IInv'
  BY <1>5 DEF uc_set_callbacks_mask, Return
<1>6. ASSUME NEW w \in Writer, NEW i \in Slot, event_update(w, i) PROVE IInv'
  BY <1>6 DEF event_update
<1>7. ASSUME NEW w \in Writer, event_update_done(w) PROVE IInv'
  BY <1>7 DEF event_update_done, Return
<1>8. ASSUME collect_expired PROVE IInv'
  <2>1. expired' \in SUBSET Nat /\ expired' # {}
    BY <1>8 DEF collect_expired
  <2>2. First(expired') \in expired'
    BY <2>1, FirstIsLeast
  <2>. QED BY <1>8, <2>2 DEF collect_expired, Goto
<1>9. ASSUME dispatch_missing PROVE IInv'
  BY <1>9, NextExpiredFacts DEF dispatch_missing, Goto
<1>10. ASSUME NEW i \in Slot, event_expired(i) PROVE IInv'
  BY <1>10 DEF event_expired
<1>11. ASSUME event_expired_done PROVE IInv'
  BY <1>11, NextExpiredFacts DEF event_expired_done
<1>12. ASSUME remove_expired PROVE IInv'
  BY <1>12 DEF remove_expired, Free
<1>13. ASSUME plugin_register_cache_event PROVE IInv'
  BY <1>13 DEF plugin_register_cache_event
<1>14. ASSUME NEW i \in Slot, plugin_unregister_cache_event(i) PROVE IInv'
  BY <1>14 DEF plugin_unregister_cache_event
<1>15. ASSUME tick PROVE IInv'
  BY <1>15 DEF tick, Smaller
<1>16. ASSUME NEW d \in 1..MaxBack, clock_set_back(d) PROVE IInv'
  BY <1>16 DEF clock_set_back, Larger
<1>. HIDE DEF IInv, TypeOK, Control, CacheHoldsNewest, values, entries,
              callbacks, threads, checker
<1>. QED
  BY <1>1, <1>2, <1>3, <1>4, <1>5, <1>6, <1>7, <1>8, <1>9, <1>10, <1>11, <1>12,
     <1>13, <1>14, <1>15, <1>16
  DEF Next, WriterNext, MainNext

\* The invariant holds in every reachable state.
THEOREM Invariance == Spec => []IInv
  BY InitialState, InductiveStep, PTL DEF Spec
-----------------------------------------------------------------------------
(* The properties *)

\* Type correctness; list_cache_event never overflows.
THEOREM TypeCorrect == Spec => []TypeOK
<1>1. IInv => TypeOK
  BY DEF IInv
<1>. QED BY <1>1, Invariance, PTL

\* A missing callback, and a callback for CE_VALUE_EXPIRED, still finds every
\* value that uc_check_timeout has collected in the cache.
THEOREM MissingValuesAccessible == Spec => []MissingStillCached
<1>1. IInv => MissingStillCached
  BY DEF IInv, Control, MissingStillCached
<1>. QED BY <1>1, Invariance, PTL

\* However uc_update is interleaved, the newest value wins.
THEOREM NewestWins == Spec => []CacheHoldsNewest
<1>1. IInv => CacheHoldsNewest
  BY DEF IInv
<1>. QED BY <1>1, Invariance, PTL
-----------------------------------------------------------------------------
(* The order of the events *)

\* The answers to the NEW events are complete before a mask shows up anywhere.
LEMMA OfferedStep ==
  ASSUME IInv, Offered, [Next]_vars PROVE Offered'
<1>. USE ValueCacheAssumption, NameSlotFacts
     DEF IInv, TypeOK, Control, Offered, AllOffered, values, entries, callbacks,
         threads, checker
<1>0. \A s \in active : /\ s \in Slot /\ s \in Nat /\ s >= 1
                        /\ s <= list_cache_event_num
  BY DEF Slot
<1>1. ASSUME NEW w \in Writer, NEW n \in Name, NEW t \in 1..MaxTime,
             NEW i \in 1..MaxInterval, uc_insert(w, n, t, i)
      PROVE  Offered'
  <2>1. \A s \in active : ~(s < 1)
    BY <1>0
  <2>. QED BY <1>1, <2>1 DEF uc_insert, StartLoop
<1>2. ASSUME NEW w \in Writer, NEW n \in Name, NEW t \in 1..MaxTime,
             NEW i \in 1..MaxInterval, uc_update(w, n, t, i)
      PROVE  Offered'
  <2>1. CASE callbacks_mask[n] # {} /\ StartLoop(w, "update", n, callbacks_mask[n])
    BY <1>2, <2>1 DEF uc_update, StartLoop
  <2>2. CASE UNCHANGED threads
    BY <1>2, <2>2 DEF uc_update
  <2>. QED BY <1>2, <2>1, <2>2 DEF uc_update, AfterUpdate
<1>3. ASSUME NEW w \in Writer, NEW n \in Name, NEW t \in 1..MaxTime,
             uc_update_rejected(w, n, t)
      PROVE  Offered'
  BY <1>3 DEF uc_update_rejected
<1>4. ASSUME NEW w \in Writer, NEW i \in Slot, NEW yes \in BOOLEAN,
             event_new(w, i, yes)
      PROVE  Offered'
  <2>1. ToCome(slot[w]) \in SUBSET Nat /\ ToCome(slot[w]) # {}
    BY <1>4, <1>0 DEF event_new, ToCome
  <2>2. \A s \in active : s >= slot[w] => i <= s
    <3>1. \A s \in ToCome(slot[w]) : i <= s
      BY <1>4, <2>1, FirstIsLeast DEF event_new
    <3>2. \A s \in active : s >= slot[w] => s \in ToCome(slot[w])
      BY <1>0 DEF ToCome
    <3>. QED BY <3>1, <3>2
  <2>3. \A s \in active : s < i + 1 => s < slot[w] \/ s = i
    BY <1>0, <2>2
  <2>4. \A s \in Slot, n \in Name : answer[s][n] # "none" => answer'[s][n] # "none"
    BY <1>4 DEF event_new
  <2>5. answer'[i][name[w]] # "none"
    BY <1>4 DEF event_new
  <2>6. UNCHANGED <<pc, name, entries, callbacks, checker>>
    BY <1>4 DEF event_new
  <2>7. slot' = [slot EXCEPT ![w] = i + 1]
    BY <1>4 DEF event_new
  <2>8. pc[w] = "new"
    BY <1>4 DEF event_new
  <2>. QED BY <1>0, <2>3, <2>4, <2>5, <2>6, <2>7, <2>8
<1>5. ASSUME NEW w \in Writer, uc_set_callbacks_mask(w) PROVE Offered'
  <2>1. \A s \in active : s < slot[w]
    BY <1>5, <1>0 DEF uc_set_callbacks_mask, ToCome
  <2>2. AllOffered(name[w]) /\ name[w] \in Name
    BY <1>5, <2>1 DEF uc_set_callbacks_mask
  <2>. QED BY <1>5, <2>2 DEF uc_set_callbacks_mask, Return
<1>6. ASSUME NEW w \in Writer, NEW i \in Slot, event_update(w, i) PROVE Offered'
  BY <1>6 DEF event_update
<1>7. ASSUME NEW w \in Writer, event_update_done(w) PROVE Offered'
  BY <1>7 DEF event_update_done, Return
<1>8. ASSUME collect_expired PROVE Offered'
  BY <1>8 DEF collect_expired
<1>9. ASSUME dispatch_missing PROVE Offered'
  BY <1>9 DEF dispatch_missing
<1>10. ASSUME NEW i \in Slot, event_expired(i) PROVE Offered'
  BY <1>10 DEF event_expired
<1>11. ASSUME event_expired_done PROVE Offered'
  BY <1>11 DEF event_expired_done
<1>12. ASSUME remove_expired PROVE Offered'
  BY <1>12 DEF remove_expired, Free
<1>13. ASSUME plugin_register_cache_event PROVE Offered'
  BY <1>13 DEF plugin_register_cache_event
<1>14. ASSUME NEW i \in Slot, plugin_unregister_cache_event(i) PROVE Offered'
  BY <1>14 DEF plugin_unregister_cache_event
<1>15. ASSUME tick PROVE Offered'
  BY <1>15 DEF tick
<1>16. ASSUME NEW d \in 1..MaxBack, clock_set_back(d) PROVE Offered'
  BY <1>16 DEF clock_set_back
<1>17. CASE UNCHANGED vars
  BY <1>17 DEF vars
<1>. HIDE ValueCacheAssumption, NameSlotFacts
     DEF IInv, TypeOK, Control, Offered, AllOffered, values, entries, callbacks,
         threads, checker
<1>. QED
  BY <1>1, <1>2, <1>3, <1>4, <1>5, <1>6, <1>7, <1>8, <1>9, <1>10, <1>11, <1>12,
     <1>13, <1>14, <1>15, <1>16, <1>17
  DEF Next, WriterNext, MainNext

\* A callback that was registered before the write threads started is not told
\* of an update or of the expiration of a metric before it was offered the
\* metric by CE_VALUE_NEW.
THEOREM NewComesFirst == Spec => []NewFirst
<1>1. Init => Offered
  BY ValueCacheAssumption DEF Init, Offered
<1>2. IInv /\ Offered /\ [Next]_vars => Offered'
  BY OfferedStep
<1>3. IInv /\ Offered => NewFirst
  <2>. SUFFICES ASSUME IInv, Offered PROVE NewFirst
    OBVIOUS
  <2>1. ASSUME NEW x \in DueUpdate, x[2] <= early PROVE answer[x[2]][name[x[1]]] # "none"
    BY <2>1 DEF DueUpdate, Called, ToCome, Offered, AllOffered
  <2>2. ASSUME NEW i \in DueExpired, i <= early PROVE answer[i][main_name] # "none"
    BY <2>2 DEF DueExpired, Called, ToCome, Offered, AllOffered, IInv, TypeOK, Control
  <2>. QED BY <2>1, <2>2 DEF NewFirst
<1>. QED BY <1>1, <1>2, <1>3, Invariance, PTL DEF Spec
-----------------------------------------------------------------------------
(* Subscriptions *)

\* A step of the main thread, of the clock, of a registration or of an UPDATE
\* loop asks nobody, stores no mask and leaves the NEW loops alone.
LEMMA SubscribedKept ==
  ASSUME IInv, Subscribed, cache_tree' \subseteq cache_tree,
         \A n \in cache_tree' : callbacks_mask'[n] = callbacks_mask[n],
         \A s \in active' : s \in active \/ s > list_cache_event_num,
         list_cache_event_num' \in Nat, list_cache_event_num' >= list_cache_event_num,
         \A s \in active' : s \in Slot,
         \A w \in Writer : pc[w] = "new" =>
            /\ pc'[w] = "new" /\ name'[w] = name[w]
            /\ mask'[w] = mask[w] /\ slot'[w] = slot[w],
         answer' = answer
  PROVE  Subscribed'
<1>1. ASSUME NEW n \in cache_tree', NEW s \in active', answer[s][n] = "yes"
      PROVE  \/ callbacks_mask'[n] # {}
             \/ \E w \in Writer : /\ pc'[w] = "new" /\ name'[w] = n
                                  /\ s \in mask'[w] \/ slot'[w] <= s
  <2>1. n \in cache_tree /\ n \in Name
    BY DEF IInv, TypeOK
  <2>2. s \in active
    BY <1>1, <2>1 DEF Subscribed
  <2>. QED BY <1>1, <2>1, <2>2 DEF Subscribed
<1>2. ASSUME NEW s \in Slot, NEW n \in Name, s > list_cache_event_num'
      PROVE  answer[s][n] = "none"
  <2>1. s > list_cache_event_num
    BY <1>2, NameSlotFacts DEF IInv, TypeOK
  <2>. QED BY <2>1 DEF Subscribed
<1>. QED BY <1>1, <1>2 DEF Subscribed

\* Every step keeps the subscriptions.
LEMMA SubscribedStep == IInv /\ Subscribed /\ [Next]_vars => Subscribed'
<1>. SUFFICES ASSUME IInv, Subscribed, [Next]_vars PROVE Subscribed'
  OBVIOUS
<1>0. /\ \A s \in active : s \in Slot /\ s \in Nat /\ s >= 1 /\ s <= list_cache_event_num
      /\ list_cache_event_num \in Nat
      /\ cache_tree \subseteq Name
  BY ValueCacheAssumption DEF IInv, TypeOK, Slot
<1>. USE NameSlotFacts DEF values, entries, callbacks, threads, checker
<1>1. ASSUME NEW w \in Writer, NEW n \in Name, NEW t \in 1..MaxTime,
             NEW i \in 1..MaxInterval, uc_insert(w, n, t, i)
      PROVE  Subscribed'
  <2>1. /\ pc'[w] = "new" /\ name'[w] = n /\ slot'[w] = 1
        /\ \A u \in Writer \ {w} : /\ pc'[u] = pc[u] /\ name'[u] = name[u]
                                   /\ slot'[u] = slot[u] /\ mask'[u] = mask[u]
        /\ pc[w] = "idle"
    BY <1>1 DEF uc_insert, StartLoop, IInv, TypeOK
  <2>2. cache_tree' = cache_tree \cup {n} /\ UNCHANGED <<callbacks, answer>>
    BY <1>1 DEF uc_insert
  <2>3. \A m \in cache_tree : m # n /\ callbacks_mask'[m] = callbacks_mask[m]
    BY <1>1, <1>0 DEF uc_insert, IInv, TypeOK
  <2>4. ASSUME NEW m \in cache_tree', NEW s \in active', answer'[s][m] = "yes"
        PROVE  \/ callbacks_mask'[m] # {}
               \/ \E u \in Writer : /\ pc'[u] = "new" /\ name'[u] = m
                                    /\ s \in mask'[u] \/ slot'[u] <= s
    <3>1. CASE m = n
      BY <1>0, <2>1, <2>2, <3>1
    <3>2. CASE m # n
      <4>1. \A u \in Writer : pc[u] = "new" => u # w
        BY <2>1
      <4>. QED BY <2>1, <2>2, <2>3, <2>4, <3>2, <4>1 DEF Subscribed
    <3>. QED BY <3>1, <3>2
  <2>. QED BY <2>2, <2>4 DEF Subscribed
<1>2. ASSUME NEW w \in Writer, NEW n \in Name, NEW t \in 1..MaxTime,
             NEW i \in 1..MaxInterval, uc_update(w, n, t, i)
      PROVE  Subscribed'
  <2>1. \A u \in Writer : pc[u] = "new" =>
          pc'[u] = "new" /\ name'[u] = name[u] /\ mask'[u] = mask[u] /\ slot'[u] = slot[u]
    <3>1. CASE StartLoop(w, "update", n, callbacks_mask[n])
      BY <1>2, <3>1 DEF uc_update, StartLoop, IInv, TypeOK
    <3>2. CASE UNCHANGED threads
      BY <3>2
    <3>. QED BY <1>2, <3>1, <3>2 DEF uc_update, AfterUpdate
  <2>2. UNCHANGED <<cache_tree, callbacks_mask, callbacks, answer>>
    BY <1>2 DEF uc_update
  <2>. QED BY <1>0, <2>1, <2>2, SubscribedKept
<1>3. ASSUME NEW w \in Writer, NEW n \in Name, NEW t \in 1..MaxTime,
             uc_update_rejected(w, n, t)
      PROVE  Subscribed'
  BY <1>0, <1>3, SubscribedKept DEF uc_update_rejected
<1>4. ASSUME NEW w \in Writer, NEW i \in Slot, NEW yes \in BOOLEAN, event_new(w, i, yes)
      PROVE  Subscribed'
  <2>1. /\ UNCHANGED <<pc, name, cache_tree, callbacks_mask, callbacks>>
        /\ pc[w] = "new" /\ slot'[w] = i + 1
        /\ mask'[w] = IF yes THEN mask[w] \cup {i} ELSE mask[w]
        /\ \A u \in Writer \ {w} : slot'[u] = slot[u] /\ mask'[u] = mask[u]
    BY <1>4 DEF event_new, IInv, TypeOK
  <2>2. name[w] \in Name
    BY <2>1 DEF IInv, Control
  <2>3. \A s \in Slot, n \in Name :
          answer'[s][n] = IF s = i /\ n = name[w] THEN (IF yes THEN "yes" ELSE "no")
                          ELSE answer[s][n]
    BY <1>4, <2>2 DEF event_new, IInv, TypeOK
  <2>4. i \in active /\ \A s \in active : s >= slot[w] => i <= s
    <3>1. ToCome(slot[w]) \in SUBSET Nat /\ ToCome(slot[w]) # {} /\ i \in active
      BY <1>4, <1>0 DEF event_new, ToCome
    <3>2. \A s \in ToCome(slot[w]) : i <= s
      BY <1>4, <3>1, FirstIsLeast DEF event_new
    <3>3. \A s \in active : s >= slot[w] => s \in ToCome(slot[w])
      BY <1>0 DEF ToCome, IInv, TypeOK
    <3>. QED BY <3>1, <3>2, <3>3
  <2>5. ASSUME NEW m \in cache_tree, NEW s \in active, answer'[s][m] = "yes"
        PROVE  \/ callbacks_mask[m] # {}
               \/ \E u \in Writer : /\ pc[u] = "new" /\ name[u] = m
                                    /\ s \in mask'[u] \/ slot'[u] <= s
    <3>0. s \in Slot /\ m \in Name /\ s \in Nat
      BY <1>0
    <3>1. CASE s = i /\ m = name[w]
      <4>1. yes
        BY <2>3, <2>5, <3>0, <3>1
      <4>. QED BY <2>1, <3>1, <4>1
    <3>2. CASE ~(s = i /\ m = name[w])
      <4>1. answer[s][m] = "yes"
        BY <2>3, <2>5, <3>0, <3>2
      <4>2. ASSUME NEW u \in Writer, pc[u] = "new", name[u] = m, s \in mask[u] \/ slot[u] <= s
            PROVE  s \in mask'[u] \/ slot'[u] <= s
        <5>1. CASE u # w
          BY <2>1, <4>2, <5>1
        <5>2. CASE u = w
          <6>1. s # i
            BY <3>2, <4>2, <5>2
          <6>2. slot[w] \in Nat
            BY ValueCacheAssumption DEF IInv, TypeOK
          <6>. QED BY <2>1, <2>4, <3>0, <4>2, <5>2, <6>1, <6>2
        <5>. QED BY <5>1, <5>2
      <4>. QED BY <4>1, <4>2 DEF Subscribed
    <3>. QED BY <3>1, <3>2
  <2>6. ASSUME NEW s \in Slot, NEW n \in Name, s > list_cache_event_num
        PROVE  answer'[s][n] = "none"
    BY <1>0, <2>3, <2>4, <2>6 DEF Subscribed
  <2>. QED BY <2>1, <2>5, <2>6 DEF Subscribed
<1>5. ASSUME NEW w \in Writer, uc_set_callbacks_mask(w) PROVE Subscribed'
  <2>1. /\ UNCHANGED <<cache_tree, callbacks, answer>>
        /\ \A u \in Writer \ {w} : /\ pc'[u] = pc[u] /\ name'[u] = name[u]
                                   /\ slot'[u] = slot[u] /\ mask'[u] = mask[u]
    BY <1>5 DEF uc_set_callbacks_mask, Return, IInv, TypeOK
  <2>2. \A s \in active : ~(slot[w] <= s)
    BY <1>0, <1>5 DEF uc_set_callbacks_mask, ToCome, IInv, TypeOK
  <2>3. \A n \in cache_tree :
          /\ callbacks_mask[n] # {} => callbacks_mask'[n] # {}
          /\ n = name[w] /\ mask[w] # {} => callbacks_mask'[n] # {}
    BY <1>0, <1>5 DEF uc_set_callbacks_mask, IInv, TypeOK
  <2>4. ASSUME NEW m \in cache_tree, NEW s \in active, answer[s][m] = "yes"
        PROVE  \/ callbacks_mask'[m] # {}
               \/ \E u \in Writer : /\ pc'[u] = "new" /\ name'[u] = m
                                    /\ s \in mask'[u] \/ slot'[u] <= s
    <3>1. CASE callbacks_mask[m] # {}
      BY <2>3, <3>1
    <3>2. ASSUME NEW u \in Writer, pc[u] = "new", name[u] = m, s \in mask[u] \/ slot[u] <= s
          PROVE  \/ callbacks_mask'[m] # {}
                 \/ pc'[u] = "new" /\ name'[u] = m /\ (s \in mask'[u] \/ slot'[u] <= s)
      <4>1. CASE u = w
        BY <2>2, <2>3, <3>2, <4>1
      <4>2. CASE u # w
        BY <2>1, <3>2, <4>2
      <4>. QED BY <4>1, <4>2
    <3>. QED BY <2>4, <3>1, <3>2 DEF Subscribed
  <2>. QED BY <2>1, <2>4 DEF Subscribed
<1>6. ASSUME NEW w \in Writer, NEW i \in Slot, event_update(w, i) PROVE Subscribed'
  <2>1. \A u \in Writer : pc[u] = "new" => slot'[u] = slot[u]
    BY <1>6 DEF event_update, IInv, TypeOK
  <2>2. UNCHANGED <<pc, name, mask, cache_tree, callbacks_mask, callbacks, answer>>
    BY <1>6 DEF event_update
  <2>. QED BY <1>0, <2>1, <2>2, SubscribedKept
<1>7. ASSUME NEW w \in Writer, event_update_done(w) PROVE Subscribed'
  <2>1. \A u \in Writer : pc[u] = "new" =>
          pc'[u] = "new" /\ name'[u] = name[u] /\ mask'[u] = mask[u] /\ slot'[u] = slot[u]
    BY <1>7 DEF event_update_done, Return, IInv, TypeOK
  <2>2. UNCHANGED <<cache_tree, callbacks_mask, callbacks, answer>>
    BY <1>7 DEF event_update_done
  <2>. QED BY <1>0, <2>1, <2>2, SubscribedKept
<1>8. CASE MainNext
  <2>1. UNCHANGED <<threads, callbacks, answer>>
    BY <1>8 DEF MainNext, collect_expired, dispatch_missing, event_expired, event_expired_done,
                remove_expired
  <2>2. cache_tree' \subseteq cache_tree
        /\ \A n \in cache_tree' : callbacks_mask'[n] = callbacks_mask[n]
    BY <1>0, <1>8 DEF MainNext, collect_expired, dispatch_missing, event_expired,
                      event_expired_done, remove_expired, Free
  <2>. QED BY <1>0, <2>1, <2>2, SubscribedKept
<1>9. CASE plugin_register_cache_event
  <2>1. /\ UNCHANGED <<threads, cache_tree, callbacks_mask, answer>>
        /\ list_cache_event_num' = list_cache_event_num + 1
        /\ active' = active \cup {list_cache_event_num + 1}
        /\ list_cache_event_num + 1 \in Slot
    BY <1>0, <1>9, ValueCacheAssumption DEF plugin_register_cache_event, Slot
  <2>. QED BY <1>0, <2>1, SubscribedKept
<1>10. ASSUME NEW i \in Slot, plugin_unregister_cache_event(i) PROVE Subscribed'
  BY <1>0, <1>10, SubscribedKept DEF plugin_unregister_cache_event
<1>11. ASSUME tick \/ \E d \in 1..MaxBack : clock_set_back(d) PROVE Subscribed'
  BY <1>0, <1>11, SubscribedKept DEF tick, clock_set_back
<1>12. CASE UNCHANGED vars
  BY <1>0, <1>12, SubscribedKept DEF vars
<1>. QED
  BY <1>1, <1>2, <1>3, <1>4, <1>5, <1>6, <1>7, <1>8, <1>9, <1>10, <1>11, <1>12
  DEF Next, WriterNext

\* Whoever has subscribed to a metric is called for each update of it that
\* uc_update accepts once the NEW loops of the metric are over, although the
\* mask is stored by name and the entry may have been replaced meanwhile.
THEOREM SubscribersAreTold == Spec => UpdatesReachSubscribers
<1>1. Init => Subscribed
  BY DEF Init, Subscribed
<1>2. ASSUME IInv, Subscribed, [Next]_vars, NEW n \in cache_tree \cap cache_tree',
             last_time'[n] # last_time[n], Subscribers(n) # {}, ~InNewLoop(n)
      PROVE  \E w \in Writer : /\ pc[w] = "idle" /\ pc'[w] = "update"
                               /\ name'[w] = n
                               /\ Subscribers(n) \subseteq Called(1, mask'[w])
  <2>0. n \in Name
    BY <1>2 DEF IInv, TypeOK
  <2>1. callbacks_mask[n] # {}
    BY <1>2 DEF Subscribed, Subscribers, InNewLoop
  <2>2. PICK w \in Writer, t \in 1..MaxTime, i \in 1..MaxInterval : uc_update(w, n, t, i)
    <3>1. ASSUME NEW w \in Writer, NEW m \in Name, NEW t \in 1..MaxTime,
                 NEW i \in 1..MaxInterval, uc_insert(w, m, t, i)
          PROVE  FALSE
      BY <1>2, <2>0, <3>1 DEF uc_insert, Store, IInv, TypeOK
    <3>2. ASSUME NEW w \in Writer, NEW m \in Name, NEW t \in 1..MaxTime,
                 NEW i \in 1..MaxInterval, uc_update(w, m, t, i)
          PROVE  m = n
      BY <1>2, <2>0, <3>2 DEF uc_update, Store, IInv, TypeOK
    <3>3. CASE remove_expired
      BY <1>2, <2>0, <3>3 DEF remove_expired, Free
    <3>4. CASE last_time' = last_time
      BY <1>2, <3>4
    <3>5. \/ last_time' = last_time \/ remove_expired
          \/ \E w \in Writer, m \in Name, t \in 1..MaxTime, i \in 1..MaxInterval :
                uc_insert(w, m, t, i) \/ uc_update(w, m, t, i)
      BY <1>2 DEF Next, WriterNext, MainNext, uc_update_rejected, event_new,
        uc_set_callbacks_mask, event_update, event_update_done, collect_expired,
        dispatch_missing, event_expired, event_expired_done, plugin_register_cache_event,
        plugin_unregister_cache_event, tick, clock_set_back, entries, values, vars
    <3>. QED BY <3>1, <3>2, <3>3, <3>4, <3>5
  <2>3. pc[w] = "idle" /\ StartLoop(w, "update", n, callbacks_mask[n])
    BY <2>1, <2>2 DEF uc_update, AfterUpdate
  <2>4. pc'[w] = "update" /\ name'[w] = n
    BY <1>2, <2>3 DEF StartLoop, IInv, TypeOK
  <2>5. \A s \in active : s \in 1..list_cache_event_num
    BY <1>2 DEF IInv, TypeOK
  <2>6. Subscribers(n) \subseteq Called(1, mask'[w])
    BY <2>5 DEF Subscribers, Called, ToCome, Skipped, Bit
  <2>. QED BY <2>3, <2>4, <2>6
<1>3. IInv /\ Subscribed /\ [Next]_vars =>
        \A n \in cache_tree \cap cache_tree' :
          last_time'[n] # last_time[n] /\ Subscribers(n) # {} /\ ~InNewLoop(n)
          => \E w \in Writer : /\ pc[w] = "idle" /\ pc'[w] = "update"
                               /\ name'[w] = n
                               /\ Subscribers(n) \subseteq Called(1, mask'[w])
  BY <1>2
<1>. QED BY <1>1, <1>3, SubscribedStep, Invariance, PTL DEF Spec, UpdatesReachSubscribers
=============================================================================
