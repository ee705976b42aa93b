-------------------------- MODULE RrdTool_proofs ---------------------------
(***************************************************************************)
(* Proofs about the rrdtool plugin for any set of files, any number of     *)
(* threads that flush, and any time-outs.                                  *)
(*                                                                         *)
(* That no value is lost needs to know what the queue thread holds at each *)
(* of its places, and that an entry that is freed holds nothing (Control). *)
(* That a shutdown writes everything needs more: after rrd_shutdown has    *)
(* flushed the cache no unflagged entry holds values, nobody moves a file  *)
(* between the queues, and the thread leaves only when both are empty      *)
(* (Orderly).  This holds in the configurations without the two mistakes   *)
(* that the runs show (Usual).                                             *)
(***************************************************************************)
EXTENDS RrdTool, SequenceFacts

Entry ==
  [values : Seq(Nat), first_value : Nat, last_value : Nat,
   random_variation : Variations, flags : {"absent", "none", "queued", "flushq"}]

\* The variables have their types; a program counter is one of its places.
TypeOK ==
  /\ conf \in Configurations
  /\ now \in Nat /\ cache_flush_last \in Nat
  /\ cache \in [File -> Entry]
  /\ queue \in Seq(File) /\ flushq \in Seq(File)
  /\ do_shutdown \in {0, 1}
  /\ thread \in {"check", "wait", "timedwait", "get", "update", "exit"}
  /\ queue_entry \in File \cup {NoFile}
  /\ values \in Seq(Nat)
  /\ flusher \in [Flusher -> File \cup {NoFile}]
  /\ main \in {"run", "stop", "join", "done"}
  /\ accepted \in [File -> Seq(Nat)]
  /\ updates \in [File -> Seq(Nat)]

\* The thread works on a file, freed entries hold no values, and do_shutdown
\* is set by rrd_shutdown.
Control ==
  /\ thread \in {"get", "update"} => queue_entry \in File
  /\ \A f \in File : cache[f].flags = "absent" => cache[f].values = <<>>
  /\ do_shutdown # 0 <=> main \in {"join", "done"}

IInv == TypeOK /\ Control /\ NothingLost /\ FlaggedIsQueued

\* WritesPerSecond and flush commands for single files are not used together,
\* and nobody flushes a single file while the daemon shuts down.
Usual == ~conf.late /\ ~(conf.delay /\ conf.identifiers)

\* How a shutdown proceeds then.
Orderly ==
  /\ ~conf.identifiers \/ main # "run" => CacheUnlocked
  /\ thread = "timedwait" => conf.delay /\ queue # <<>>
  /\ thread = "exit" => do_shutdown # 0 /\ queue = <<>> /\ flushq = <<>>
  /\ main # "run" => \A f \in File : cache[f].flags = "none" => cache[f].values = <<>>
  /\ main = "done" => thread = "exit"

-----------------------------------------------------------------------------
(* The cache *)

\* Variations are integers, and zero is one of them.
LEMMA VariationFacts == Variations \subseteq Int /\ 0 \in Variations /\ Absent \in Entry
  BY RrdAssumption DEF Variations, Absent, Entry

\* What rrd_cache_flush does to a cache c and a queue q: no value is touched,
\* nothing is taken out of the queue, and an entry gets a flag only together
\* with a place in the queue.  With time-out 0 no values stay unflagged.
LEMMA FlushedFacts ==
  ASSUME NEW c \in [File -> Entry], NEW q \in Seq(File), NEW timeout \in Nat,
         \A f \in File : c[f].flags = "absent" => c[f].values = <<>>,
         TypeOK, Flushed(c, q, timeout)
  PROVE  /\ cache' \in [File -> Entry] /\ queue' \in Seq(File)
         /\ cache_flush_last' = now
         /\ \A f \in File :
              /\ cache'[f].values = c[f].values
              /\ cache'[f].flags = "absent" => cache'[f].values = <<>>
              /\ cache'[f].flags = "queued" => c[f].flags = "queued" \/ Contains(queue', f)
              /\ cache'[f].flags = "flushq" => c[f].flags = "flushq"
              /\ cache'[f].flags = "none" => c[f].flags = "none"
              /\ cache'[f].flags = "none" /\ timeout = 0 => c[f].values = <<>>
         /\ \A f : Contains(q, f) => Contains(queue', f)
         /\ q # <<>> => queue' # <<>>
         /\ (\A f \in File : c[f].flags = "none" => c[f].values = <<>>) => queue' = q
<1>. DEFINE old == {f \in File : /\ c[f].flags = "none"
                                 /\ timeout # 0 => Old(c[f].first_value, timeout)}
            full == {f \in old : c[f].values # <<>>}
<1>1. PICK s \in SetToSeqs(full) : queue' = q \o s
  BY DEF Flushed
<1>2. /\ cache' = [f \in File |-> IF f \in full THEN [c[f] EXCEPT !.flags = "queued"]
                                 ELSE IF f \in old THEN Absent
                                 ELSE c[f]]
      /\ cache_flush_last' = now
  BY DEF Flushed
<1>3. full \in SUBSET File /\ IsFiniteSet(full)
  BY RrdAssumption, FS_Subset
<1>4. /\ s \in Seq(full)
      /\ \A x \in full : Contains(s, x)
      /\ full = {} => s = <<>>
  <2>. HIDE DEF full
  <2>. QED BY <1>1, <1>3, ContainsSetToSeqs
<1>5. s \in Seq(File)
  BY <1>3, <1>4
<1>6. /\ queue' \in Seq(File)
      /\ \A x : Contains(queue', x) <=> Contains(q, x) \/ Contains(s, x)
  BY <1>1, <1>5, ConcatProperties, ContainsConcat
<1>7. cache' \in [File -> Entry]
  BY <1>2, VariationFacts DEF Entry
<1>8. ASSUME NEW f \in File
      PROVE /\ cache'[f].values = c[f].values
            /\ cache'[f].flags = "absent" => cache'[f].values = <<>>
            /\ cache'[f].flags = "queued" => c[f].flags = "queued" \/ f \in full
            /\ cache'[f].flags = "flushq" => c[f].flags = "flushq"
            /\ cache'[f].flags = "none" => c[f].flags = "none"
            /\ cache'[f].flags = "none" /\ timeout = 0 => c[f].values = <<>>
  <2>1. CASE f \in full
    BY <1>2, <2>1 DEF Entry
  <2>2. CASE f \in old /\ f \notin full
    BY <1>2, <2>2 DEF Entry, Absent
  <2>3. CASE f \notin old
    BY <1>2, <2>3 DEF Entry
  <2>. QED BY <2>1, <2>2, <2>3
<1>9. q # <<>> => queue' # <<>>
  BY <1>1, <1>5, ConcatSimplifications
<1>10. ASSUME \A f \in File : c[f].flags = "none" => c[f].values = <<>> PROVE queue' = q
  <2>1. full = {}
    BY <1>10
  <2>. HIDE DEF full
  <2>. QED BY <1>1, <1>4, <2>1, ConcatEmptySeq
<1>. HIDE DEF full, old
<1>. QED BY <1>2, <1>4, <1>6, <1>7, <1>8, <1>9, <1>10

\* What rrd_cache_insert stores: the values of the entry and one more.
LEMMA InsertedFacts ==
  ASSUME TypeOK, Control, NEW f \in File, NEW t \in Nat, NEW v \in Variations
  PROVE  /\ Inserted(f, t, v) \in Entry
         /\ Inserted(f, t, v).values = Append(cache[f].values, t)
         /\ Inserted(f, t, v).flags =
              IF cache[f].flags = "absent" THEN "none" ELSE cache[f].flags
<1>. DEFINE e == IF cache[f].flags = "absent"
                   THEN [Absent EXCEPT !.flags = "none", !.random_variation = v]
                   ELSE cache[f]
<1>1. /\ e \in Entry /\ e.values = cache[f].values
      /\ e.flags = IF cache[f].flags = "absent" THEN "none" ELSE cache[f].flags
  BY DEF TypeOK, Control, Entry, Absent
<1>2. Inserted(f, t, v) = [e EXCEPT !.values = Append(@, t),
                                    !.first_value = IF e.values = <<>> THEN t ELSE @,
                                    !.last_value = t]
  BY DEF Inserted
<1>3. Append(e.values, t) \in Seq(Nat)
  BY <1>1, AppendProperties DEF Entry
<1>. HIDE DEF e
<1>. QED BY <1>1, <1>2, <1>3 DEF Entry

\* The effect of rrd_cache_insert, with or without the flush of old entries.
LEMMA InsertFacts ==
  ASSUME TypeOK, Control, NEW f \in File, NEW t \in 1..MaxTime,
         NEW v \in Variations, NEW next \in Variations,
         rrd_cache_insert(f, t, v, next)
  PROVE  /\ cache' \in [File -> Entry] /\ queue' \in Seq(File)
         /\ cache_flush_last' \in Nat
         /\ thread' \in {thread, Signalled}
         /\ \A g \in File :
              /\ cache'[g].values =
                   IF g = f THEN Append(cache[f].values, t) ELSE cache[g].values
              /\ cache'[g].flags = "absent" => cache'[g].values = <<>>
              /\ cache'[g].flags = "queued" => cache[g].flags = "queued" \/ Contains(queue', g)
              /\ cache'[g].flags = "flushq" => cache[g].flags = "flushq"
         /\ \A g : Contains(queue, g) => Contains(queue', g)
         /\ queue # <<>> => queue' # <<>>
<1>. DEFINE e == Inserted(f, t, v)
            c == [cache EXCEPT ![f] = IF IsDue(e) THEN Queued(e, next) ELSE e]
            q == IF IsDue(e) THEN Append(queue, f) ELSE queue
<1>1. t \in Nat
  BY RrdAssumption
<1>2. /\ e \in Entry /\ e.values = Append(cache[f].values, t)
      /\ e.flags = IF cache[f].flags = "absent" THEN "none" ELSE cache[f].flags
  BY <1>1, InsertedFacts
<1>3. /\ q \in Seq(File)
      /\ queue # <<>> => q # <<>>
      /\ \A g : Contains(queue, g) => Contains(q, g)
      /\ IsDue(e) => Contains(q, f)
  <2>1. queue \in Seq(File)
    BY DEF TypeOK
  <2>. QED BY <2>1, AppendProperties, ContainsAppend
<1>4. /\ c \in [File -> Entry]
      /\ \A g \in File :
           /\ c[g].values = IF g = f THEN Append(cache[f].values, t) ELSE cache[g].values
           /\ c[g].flags = "absent" => c[g].values = <<>>
           /\ c[g].flags = "queued" => cache[g].flags = "queued" \/ Contains(q, g)
           /\ c[g].flags = "flushq" => cache[g].flags = "flushq"
  <2>. DEFINE n == IF IsDue(e) THEN Queued(e, next) ELSE e
  <2>1. /\ n \in Entry /\ n.values = e.values /\ n.flags # "absent"
        /\ n.flags = "queued" => cache[f].flags = "queued" \/ IsDue(e)
        /\ n.flags = "flushq" => cache[f].flags = "flushq"
    <3>. HIDE DEF e
    <3>1. CASE IsDue(e)
      BY <1>2, <3>1 DEF Queued, Entry
    <3>2. CASE ~IsDue(e)
      BY <1>2, <3>2 DEF Entry, TypeOK
    <3>. QED BY <3>1, <3>2
  <2>2. c = [cache EXCEPT ![f] = n] /\ cache \in [File -> Entry]
    BY DEF TypeOK
  <2>. HIDE DEF n, e, c, q
  <2>. QED BY <1>2, <1>3, <2>1, <2>2 DEF Control
<1>5. /\ \/ Flushed(c, q, cache_timeout + random_timeout)
         \/ cache' = c /\ queue' = q /\ cache_flush_last' = cache_flush_last
      /\ thread' \in {thread, Signalled}
  BY DEF rrd_cache_insert
<1>6. cache_timeout + random_timeout \in Nat /\ now \in Nat /\ cache_flush_last \in Nat
  BY RrdAssumption DEF TypeOK
<1>. HIDE DEF e, c, q
<1>7. CASE Flushed(c, q, cache_timeout + random_timeout)
  <2>1. /\ cache' \in [File -> Entry] /\ queue' \in Seq(File)
        /\ cache_flush_last' = now
        /\ \A g \in File :
             /\ cache'[g].values = c[g].values
             /\ cache'[g].flags = "absent" => cache'[g].values = <<>>
             /\ cache'[g].flags = "queued" => c[g].flags = "queued" \/ Contains(queue', g)
             /\ cache'[g].flags = "flushq" => c[g].flags = "flushq"
        /\ \A g : Contains(q, g) => Contains(queue', g)
        /\ q # <<>> => queue' # <<>>
    BY <1>3, <1>4, <1>6, <1>7, FlushedFacts
  <2>. QED BY <1>3, <1>4, <1>5, <1>6, <2>1
<1>8. CASE cache' = c /\ queue' = q /\ cache_flush_last' = cache_flush_last
  BY <1>3, <1>4, <1>5, <1>6, <1>8
<1>. QED BY <1>5, <1>7, <1>8

-----------------------------------------------------------------------------
(* Types and control *)

\* The types and the bookkeeping hold at the start ...
LEMMA InitInv == Init => IInv
<1>. SUFFICES ASSUME Init PROVE IInv
  OBVIOUS
<1>1. TypeOK /\ Control
  BY RrdAssumption, VariationFacts DEF Init, TypeOK, Control, Absent
<1>2. NothingLost
  BY DEF Init, NothingLost, InHand, Absent
<1>3. FlaggedIsQueued
  BY DEF Init, FlaggedIsQueued, Absent
<1>. QED BY <1>1, <1>2, <1>3 DEF IInv

\* A step that flushes the cache, of rrd_flush or of rrd_shutdown.
FlushStep == \E timeout \in {0, 1} : rrd_cache_flush(timeout) \/ (timeout = 0 /\ shutdown_flush)

\* ... and the effect of such a step on the cache and the queue.
LEMMA FlushFacts ==
  ASSUME TypeOK, Control, FlushStep
  PROVE  /\ cache' \in [File -> Entry] /\ queue' \in Seq(File)
         /\ cache_flush_last' = now
         /\ thread' \in {thread, Signalled}
         /\ \A f \in File :
              /\ cache'[f].values = cache[f].values
              /\ cache'[f].flags = "absent" => cache'[f].values = <<>>
              /\ cache'[f].flags = "queued" => cache[f].flags = "queued" \/ Contains(queue', f)
              /\ cache'[f].flags = "flushq" => cache[f].flags = "flushq"
              /\ cache'[f].flags = "none" => cache[f].flags = "none"
              /\ cache'[f].flags = "none" /\ shutdown_flush => cache[f].values = <<>>
         /\ \A f : Contains(queue, f) => Contains(queue', f)
         /\ queue # <<>> => queue' # <<>>
         /\ (\A f \in File : cache[f].flags = "none" => cache[f].values = <<>>) => queue' = queue
         /\ UNCHANGED <<conf, now, flushq, do_shutdown, queue_entry, values, flusher,
                        accepted, updates>>
         /\ main' = main \/ (main = "run" /\ main' = "stop")
<1>1. PICK timeout \in {0, 1} : rrd_cache_flush(timeout) \/ (timeout = 0 /\ shutdown_flush)
  BY DEF FlushStep
<1>2. timeout \in Nat /\ Flushed(cache, queue, timeout) /\ thread' \in {thread, Signalled}
  BY <1>1 DEF rrd_cache_flush, shutdown_flush
<1>3. shutdown_flush => Flushed(cache, queue, 0)
  BY DEF shutdown_flush
<1>4. /\ cache \in [File -> Entry] /\ queue \in Seq(File)
      /\ \A f \in File : cache[f].flags = "absent" => cache[f].values = <<>>
  BY DEF TypeOK, Control
<1>5. /\ UNCHANGED <<conf, now, flushq, do_shutdown, queue_entry, values, flusher,
                     accepted, updates>>
      /\ main' = main \/ (main = "run" /\ main' = "stop")
  BY <1>1 DEF rrd_cache_flush, shutdown_flush
<1>6. ASSUME shutdown_flush, NEW f \in File, cache'[f].flags = "none"
      PROVE cache[f].values = <<>>
  BY <1>3, <1>4, <1>6, FlushedFacts
<1>. QED BY <1>2, <1>4, <1>5, <1>6, FlushedFacts

\* The steps that neither insert nor flush the whole cache.
OtherStep ==
  \/ \E timeout \in {0, 1}, f \in File : flush_identifier(f, timeout)
  \/ \E w \in Flusher : flush_requeue(w) \/ \E f \in File : rrd_queue_dequeue(w, f)
  \/ ThreadStep \/ spurious_wakeup \/ ShutdownStep \/ Tick

\* Every step is one of three kinds.
LEMMA StepKinds ==
  ASSUME Next
  PROVE  \/ \E f \in File, t \in 1..MaxTime, v, next \in Variations :
              rrd_cache_insert(f, t, v, next)
         \/ FlushStep
         \/ OtherStep
  BY DEF Next, FlushStep, OtherStep

\* The types, and where the threads can be, are kept by every step.
LEMMA TypeStep == TypeOK /\ Control /\ [Next]_vars => TypeOK' /\ Control'
<1>. SUFFICES ASSUME TypeOK, Control, [Next]_vars PROVE TypeOK' /\ Control'
  OBVIOUS
<1>1. ASSUME NEW f \in File, NEW t \in 1..MaxTime, NEW v \in Variations,
             NEW next \in Variations, rrd_cache_insert(f, t, v, next)
      PROVE TypeOK' /\ Control'
  <2>1. UNCHANGED <<conf, now, flushq, do_shutdown, queue_entry, values, flusher, main, updates>>
    BY <1>1 DEF rrd_cache_insert
  <2>2. accepted' \in [File -> Seq(Nat)]
    <3>1. accepted' = [accepted EXCEPT ![f] = Append(@, t)]
      BY <1>1 DEF rrd_cache_insert
    <3>2. t \in Nat /\ accepted \in [File -> Seq(Nat)]
      BY RrdAssumption DEF TypeOK
    <3>3. Append(accepted[f], t) \in Seq(Nat)
      BY <3>2, AppendProperties
    <3>. QED BY <3>1, <3>2, <3>3
  <2>3. /\ cache' \in [File -> Entry] /\ queue' \in Seq(File)
        /\ cache_flush_last' \in Nat
        /\ thread' \in {thread, Signalled}
        /\ \A g \in File : cache'[g].flags = "absent" => cache'[g].values = <<>>
    BY <1>1, InsertFacts
  <2>. QED BY <2>1, <2>2, <2>3 DEF TypeOK, Control, Signalled
<1>2. ASSUME FlushStep PROVE TypeOK' /\ Control'
  <2>1. /\ cache' \in [File -> Entry] /\ queue' \in Seq(File)
        /\ cache_flush_last' = now
        /\ thread' \in {thread, Signalled}
        /\ \A f \in File : cache'[f].flags = "absent" => cache'[f].values = <<>>
        /\ UNCHANGED <<conf, now, flushq, do_shutdown, queue_entry, values, flusher,
                       accepted, updates>>
        /\ main' = main \/ (main = "run" /\ main' = "stop")
    BY <1>2, FlushFacts
  <2>. QED BY <2>1 DEF TypeOK, Control, Signalled
<1>3. ASSUME NEW f \in File, NEW timeout \in {0, 1}, flush_identifier(f, timeout)
      PROVE TypeOK' /\ Control'
  <2>1. flushq' \in Seq(File)
    BY <1>3, AppendProperties DEF flush_identifier, TypeOK
  <2>2. cache' \in [File -> Entry]
    BY <1>3 DEF flush_identifier, TypeOK, Entry
  <2>3. \A g \in File : cache'[g].flags = "absent" => cache'[g].values = <<>>
    BY <1>3 DEF flush_identifier, TypeOK, Control, Entry
  <2>. QED BY <1>3, <2>1, <2>2, <2>3 DEF flush_identifier, TypeOK, Control, Signalled
<1>4. ASSUME NEW w \in Flusher, flush_requeue(w) PROVE TypeOK' /\ Control'
  <2>1. flusher[w] \in File
    BY <1>4 DEF flush_requeue, TypeOK
  <2>2. flushq' \in Seq(File)
    BY <1>4, <2>1, AppendProperties DEF flush_requeue, TypeOK
  <2>3. cache' \in [File -> Entry]
    BY <1>4, <2>1 DEF flush_requeue, TypeOK, Entry
  <2>4. \A g \in File : cache'[g].flags = "absent" => cache'[g].values = <<>>
    BY <1>4, <2>1 DEF flush_requeue, TypeOK, Control, Entry
  <2>. QED BY <1>4, <2>2, <2>3, <2>4 DEF flush_requeue, TypeOK, Control, Signalled
<1>5. ASSUME NEW w \in Flusher, NEW f \in File, rrd_queue_dequeue(w, f)
      PROVE TypeOK' /\ Control'
  <2>1. queue' \in Seq(File)
    BY <1>5, ContainsRemoveFirst DEF rrd_queue_dequeue, TypeOK
  <2>. QED BY <1>5, <2>1 DEF rrd_queue_dequeue, TypeOK, Control
<1>6. CASE ThreadStep
  <2>1. CASE queue_wait \/ queue_timedwait \/ queue_exit
    BY <2>1 DEF queue_wait, queue_timedwait, queue_exit, unchanged_by_thread, TypeOK, Control
  <2>2. CASE queue_dequeue
    <3>1. queue_entry' \in File /\ queue' \in Seq(File) /\ flushq' \in Seq(File)
      <4>1. queue \in Seq(File) /\ flushq \in Seq(File)
        BY DEF TypeOK
      <4>2. CASE flushq # <<>>
        BY <2>2, <4>1, <4>2, ContainsTail DEF queue_dequeue
      <4>3. CASE flushq = <<>>
        BY <2>2, <4>1, <4>3, ContainsTail DEF queue_dequeue
      <4>. QED BY <4>2, <4>3
    <3>. QED BY <2>2, <3>1 DEF queue_dequeue, unchanged_by_thread, TypeOK, Control
  <2>3. CASE queue_get
    <3>1. queue_entry \in File
      BY <2>3 DEF queue_get, Control
    <3>2. cache' \in [File -> Entry] /\ values' \in Seq(Nat)
      <4>1. CASE UNCHANGED <<cache, values>>
        BY <4>1 DEF TypeOK
      <4>2. CASE /\ values' = cache[queue_entry].values
                 /\ cache' = [cache EXCEPT ![queue_entry].values = <<>>,
                                           ![queue_entry].flags = "none"]
        <5>1. cache \in [File -> Entry] /\ <<>> \in Seq(Nat)
          BY EmptySeq DEF TypeOK
        <5>2. \A e \in Entry : [e EXCEPT !.values = <<>>, !.flags = "none"] \in Entry
          BY <5>1 DEF Entry
        <5>3. cache' = [cache EXCEPT ![queue_entry] = [@ EXCEPT !.values = <<>>, !.flags = "none"]]
          BY <3>1, <4>2, <5>1 DEF Entry
        <5>4. cache' \in [File -> Entry]
          BY <3>1, <5>1, <5>2, <5>3
        <5>. QED BY <3>1, <4>2, <5>1, <5>4 DEF Entry
      <4>. QED BY <2>3, <4>1, <4>2 DEF queue_get
    <3>3. ASSUME NEW g \in File, cache'[g].flags = "absent" PROVE cache'[g].values = <<>>
      <4>0. cache \in [File -> Entry] /\ (cache[g].flags = "absent" => cache[g].values = <<>>)
        BY DEF TypeOK, Control
      <4>1. CASE UNCHANGED cache
        BY <3>3, <4>0, <4>1
      <4>2. CASE cache' = [cache EXCEPT ![queue_entry].values = <<>>,
                                        ![queue_entry].flags = "none"]
        BY <3>1, <3>3, <4>0, <4>2 DEF Entry
      <4>. QED BY <2>3, <4>1, <4>2 DEF queue_get
    <3>. QED BY <2>3, <3>1, <3>2, <3>3 DEF queue_get, unchanged_by_thread, TypeOK, Control
  <2>4. CASE queue_update
    <3>1. updates' \in [File -> Seq(Nat)] /\ values' \in Seq(Nat)
      BY <2>4, ConcatProperties, EmptySeq DEF queue_update, TypeOK, Control
    <3>. QED BY <2>4, <3>1 DEF queue_update, unchanged_by_thread, TypeOK, Control
  <2>. QED BY <1>6, <2>1, <2>2, <2>3, <2>4 DEF ThreadStep
<1>7. CASE spurious_wakeup
  BY <1>7 DEF spurious_wakeup, unchanged_by_thread, TypeOK, Control
<1>8. CASE ShutdownStep
  <2>1. CASE shutdown_signal
    BY <2>1 DEF shutdown_signal, TypeOK, Control, Signalled
  <2>2. CASE rrd_cache_destroy
    <3>1. cache' \in [File -> Entry]
          /\ \A g \in File : cache'[g].flags = "absent" => cache'[g].values = <<>>
      BY <2>2, VariationFacts DEF rrd_cache_destroy, Absent
    <3>. QED BY <2>2, <3>1 DEF rrd_cache_destroy, queues, TypeOK, Control
  <2>. QED BY <1>8, <2>1, <2>2 DEF ShutdownStep
<1>9. CASE Tick
  BY <1>9, RrdAssumption DEF Tick, queues, TypeOK, Control
<1>10. CASE UNCHANGED vars
  BY <1>10 DEF vars, queues, TypeOK, Control
<1>. QED BY <1>1, <1>2, <1>3, <1>4, <1>5, <1>6, <1>7, <1>8, <1>9, <1>10, StepKinds
  DEF OtherStep

-----------------------------------------------------------------------------
(* Nothing is lost *)

\* No step loses, doubles or swaps values: rrd_cache_insert appends to what was
\* accepted and to the cache, and each step of the queue thread moves values
\* from one place to the next.
LEMMA LostStep == TypeOK /\ Control /\ NothingLost /\ [Next]_vars => NothingLost'
<1>. SUFFICES ASSUME TypeOK, Control, NothingLost, [Next]_vars, main' # "done",
                     NEW f \in File
              PROVE accepted'[f] = updates'[f] \o InHand(f)' \o cache'[f].values
  BY DEF NothingLost
<1>0. /\ main # "done" => accepted[f] = updates[f] \o InHand(f) \o cache[f].values
      /\ updates[f] \in Seq(Nat) /\ InHand(f) \in Seq(Nat) /\ cache[f].values \in Seq(Nat)
      /\ accepted[f] \in Seq(Nat)
  BY EmptySeq DEF NothingLost, TypeOK, Entry, InHand
<1>1. ASSUME NEW g \in File, NEW t \in 1..MaxTime, NEW v \in Variations,
             NEW next \in Variations, rrd_cache_insert(g, t, v, next)
      PROVE accepted'[f] = updates'[f] \o InHand(f)' \o cache'[f].values
  <2>1. /\ cache'[f].values = IF f = g THEN Append(cache[f].values, t) ELSE cache[f].values
        /\ thread' \in {thread, Signalled}
    BY <1>1, InsertFacts
  <2>2. /\ accepted'[f] = IF f = g THEN Append(accepted[f], t) ELSE accepted[f]
        /\ UNCHANGED <<queue_entry, values, updates>> /\ main # "done"
    BY <1>1 DEF rrd_cache_insert, TypeOK
  <2>3. InHand(f)' = InHand(f)
    BY <2>1, <2>2 DEF InHand, Signalled
  <2>4. CASE f = g
    <3>. DEFINE x == updates[f] \o InHand(f)
                y == cache[f].values
    <3>1. x \in Seq(Nat) /\ y \in Seq(Nat) /\ t \in Nat /\ <<t>> \in Seq(Nat)
      BY <1>0, RrdAssumption, ConcatProperties
    <3>2. accepted[f] = x \o y
      BY <1>0, <2>2
    <3>. HIDE DEF x, y
    <3>3. Append(x \o y, t) = x \o Append(y, t)
      <4>1. Append(x \o y, t) = (x \o y) \o <<t>>
        BY <3>1, ConcatProperties, AppendIsConcat
      <4>2. Append(y, t) = y \o <<t>>
        BY <3>1, AppendIsConcat
      <4>. QED BY <3>1, <4>1, <4>2, ConcatAssociative
    <3>. QED BY <2>1, <2>2, <2>3, <2>4, <3>2, <3>3 DEF x, y
  <2>5. CASE f # g
    BY <1>0, <2>1, <2>2, <2>3, <2>5
  <2>. QED BY <2>4, <2>5
<1>2. ASSUME FlushStep PROVE accepted'[f] = updates'[f] \o InHand(f)' \o cache'[f].values
  <2>1. /\ cache'[f].values = cache[f].values
        /\ thread' \in {thread, Signalled}
        /\ UNCHANGED <<queue_entry, values, accepted, updates>>
        /\ main # "done"
    BY <1>2, FlushFacts
  <2>2. InHand(f)' = InHand(f)
    BY <2>1 DEF InHand, Signalled
  <2>. QED BY <1>0, <2>1, <2>2
<1>3. CASE /\ cache'[f].values = cache[f].values
           /\ UNCHANGED <<accepted, updates>> /\ InHand(f)' = InHand(f) /\ main # "done"
  BY <1>0, <1>3
<1>4. ASSUME NEW g \in File, NEW timeout \in {0, 1}, flush_identifier(g, timeout)
      PROVE accepted'[f] = updates'[f] \o InHand(f)' \o cache'[f].values
  <2>1. cache'[f].values = cache[f].values
    BY <1>4 DEF flush_identifier, TypeOK, Entry
  <2>. QED BY <1>3, <1>4, <2>1 DEF flush_identifier, InHand, Signalled
<1>5. ASSUME NEW w \in Flusher, flush_requeue(w)
      PROVE accepted'[f] = updates'[f] \o InHand(f)' \o cache'[f].values
  <2>1. cache'[f].values = cache[f].values
    BY <1>5 DEF flush_requeue, TypeOK, Entry
  <2>. QED BY <1>3, <1>5, <2>1 DEF flush_requeue, InHand, Signalled
<1>6. ASSUME NEW w \in Flusher, NEW g \in File, rrd_queue_dequeue(w, g)
      PROVE accepted'[f] = updates'[f] \o InHand(f)' \o cache'[f].values
  BY <1>3, <1>6 DEF rrd_queue_dequeue, InHand
<1>7. CASE queue_wait \/ queue_timedwait \/ queue_exit \/ queue_dequeue \/ spurious_wakeup
  BY <1>3, <1>7 DEF queue_wait, queue_timedwait, queue_exit, queue_dequeue, spurious_wakeup,
    unchanged_by_thread, InHand
<1>8. CASE queue_get
  <2>1. InHand(f) = <<>> /\ UNCHANGED <<accepted, updates, queue_entry, main>>
    BY <1>8 DEF queue_get, InHand, unchanged_by_thread
  <2>2. CASE cache[queue_entry].flags = "absent"
    BY <1>3, <1>8, <2>1, <2>2 DEF queue_get, InHand
  <2>3. CASE cache[queue_entry].flags # "absent" /\ f # queue_entry
    BY <1>3, <1>8, <2>1, <2>3 DEF queue_get, InHand, TypeOK
  <2>4. CASE cache[queue_entry].flags # "absent" /\ f = queue_entry
    <3>1. cache'[f].values = <<>> /\ InHand(f)' = cache[f].values
      BY <1>8, <2>4 DEF queue_get, InHand, TypeOK, Entry
    <3>2. accepted[f] = updates[f] \o <<>> \o cache[f].values
      BY <1>0, <2>1
    <3>3. updates[f] \o <<>> = updates[f]
      BY <1>0, ConcatEmptySeq
    <3>4. (updates[f] \o cache[f].values) \o <<>> = updates[f] \o cache[f].values
      BY <1>0, ConcatProperties, ConcatEmptySeq
    <3>. QED BY <2>1, <3>1, <3>2, <3>3, <3>4
  <2>. QED BY <2>2, <2>3, <2>4
<1>9. CASE queue_update
  <2>1. InHand(f)' = <<>> /\ UNCHANGED <<accepted, cache, main>>
    BY <1>9 DEF queue_update, InHand, unchanged_by_thread
  <2>2. updates'[f] = updates[f] \o InHand(f)
    <3>1. CASE f = queue_entry
      BY <1>9, <3>1 DEF queue_update, InHand, TypeOK
    <3>2. CASE f # queue_entry
      BY <1>0, <1>9, <3>2, ConcatEmptySeq DEF queue_update, InHand, TypeOK
    <3>. QED BY <3>1, <3>2
  <2>3. updates'[f] \in Seq(Nat)
    BY <1>0, <2>2, ConcatProperties
  <2>4. updates'[f] \o <<>> = updates'[f]
    BY <2>3, ConcatEmptySeq
  <2>. QED BY <1>0, <2>1, <2>2, <2>4
<1>10. CASE shutdown_signal
  BY <1>3, <1>10 DEF shutdown_signal, InHand, Signalled
<1>11. CASE rrd_cache_destroy
  BY <1>11 DEF rrd_cache_destroy
<1>12. CASE Tick \/ UNCHANGED vars
  BY <1>3, <1>12 DEF Tick, vars, queues, InHand
<1>. QED BY <1>1, <1>2, <1>4, <1>5, <1>6, <1>7, <1>8, <1>9, <1>10, <1>11, <1>12, StepKinds
  DEF OtherStep, ThreadStep, ShutdownStep

-----------------------------------------------------------------------------
(* Flags and queues *)

\* File f is in the hands of the thread or of a caller of rrd_flush.
OnTheWay(f) == (thread = "get" /\ queue_entry = f) \/ \E w \in Flusher : flusher[w] = f

\* A step that takes a file out of a queue has it in its hands afterwards, or
\* clears the flag.
LEMMA QueuedStep == TypeOK /\ Control /\ FlaggedIsQueued /\ [Next]_vars => FlaggedIsQueued'
<1>. SUFFICES ASSUME TypeOK, Control, FlaggedIsQueued, [Next]_vars, NEW f \in File
              PROVE /\ cache'[f].flags = "queued" => Contains(queue', f) \/ OnTheWay(f)'
                    /\ cache'[f].flags = "flushq" => Contains(flushq', f) \/ OnTheWay(f)'
  BY DEF FlaggedIsQueued, OnTheWay
<1>. DEFINE Goal == /\ cache'[f].flags = "queued" => Contains(queue', f) \/ OnTheWay(f)'
                    /\ cache'[f].flags = "flushq" => Contains(flushq', f) \/ OnTheWay(f)'
<1>0. /\ cache[f].flags = "queued" => Contains(queue, f) \/ OnTheWay(f)
      /\ cache[f].flags = "flushq" => Contains(flushq, f) \/ OnTheWay(f)
      /\ queue \in Seq(File) /\ flushq \in Seq(File)
  BY DEF FlaggedIsQueued, OnTheWay, TypeOK
<1>1. ASSUME NEW g \in File, NEW t \in 1..MaxTime, NEW v \in Variations,
             NEW next \in Variations, rrd_cache_insert(g, t, v, next)
      PROVE Goal
  <2>1. /\ cache'[f].flags = "queued" => cache[f].flags = "queued" \/ Contains(queue', f)
        /\ cache'[f].flags = "flushq" => cache[f].flags = "flushq"
        /\ Contains(queue, f) => Contains(queue', f)
        /\ thread' \in {thread, Signalled}
    BY <1>1, InsertFacts
  <2>2. UNCHANGED <<flushq, queue_entry, flusher>>
    BY <1>1 DEF rrd_cache_insert
  <2>3. OnTheWay(f) => OnTheWay(f)'
    BY <2>1, <2>2 DEF OnTheWay, Signalled
  <2>. QED BY <1>0, <2>1, <2>2, <2>3
<1>2. ASSUME FlushStep PROVE Goal
  <2>1. /\ cache'[f].flags = "queued" => cache[f].flags = "queued" \/ Contains(queue', f)
        /\ cache'[f].flags = "flushq" => cache[f].flags = "flushq"
        /\ Contains(queue, f) => Contains(queue', f)
        /\ thread' \in {thread, Signalled}
        /\ UNCHANGED <<flushq, queue_entry, flusher>>
    BY <1>2, FlushFacts
  <2>2. OnTheWay(f) => OnTheWay(f)'
    BY <2>1 DEF OnTheWay, Signalled
  <2>. QED BY <1>0, <2>1, <2>2
<1>3. ASSUME NEW g \in File, NEW timeout \in {0, 1}, flush_identifier(g, timeout) PROVE Goal
  <2>1. /\ cache'[f].flags = IF f = g THEN "flushq" ELSE cache[f].flags
        /\ flushq' = Append(flushq, g) /\ UNCHANGED queue
    BY <1>3 DEF flush_identifier, TypeOK, Entry
  <2>2. (Contains(flushq, f) => Contains(flushq', f)) /\ Contains(flushq', g)
    BY <1>0, <2>1, ContainsAppend
  <2>3. OnTheWay(f) => OnTheWay(f)'
    BY <1>3 DEF flush_identifier, OnTheWay, Signalled
  <2>. QED BY <1>0, <2>1, <2>2, <2>3
<1>4. ASSUME NEW w \in Flusher, flush_requeue(w) PROVE Goal
  <2>1. flusher[w] \in File
    BY <1>4 DEF flush_requeue, TypeOK
  <2>2. /\ cache'[f].flags = IF f = flusher[w] THEN "flushq" ELSE cache[f].flags
        /\ flushq' = Append(flushq, flusher[w]) /\ UNCHANGED queue
    BY <1>4, <2>1 DEF flush_requeue, TypeOK, Entry
  <2>3. (Contains(flushq, f) => Contains(flushq', f)) /\ Contains(flushq', flusher[w])
    BY <1>0, <2>1, <2>2, ContainsAppend
  <2>4. f # flusher[w] /\ OnTheWay(f) => OnTheWay(f)'
    BY <1>4, <2>1 DEF flush_requeue, OnTheWay, Signalled, TypeOK
  <2>. QED BY <1>0, <2>2, <2>3, <2>4
<1>5. ASSUME NEW w \in Flusher, NEW g \in File, rrd_queue_dequeue(w, g) PROVE Goal
  <2>1. UNCHANGED <<cache, flushq>>
    BY <1>5 DEF rrd_queue_dequeue
  <2>2. Contains(queue, f) /\ f # g => Contains(queue', f)
    BY <1>0, <1>5, ContainsRemoveFirst DEF rrd_queue_dequeue
  <2>3. OnTheWay(g)' /\ (OnTheWay(f) => OnTheWay(f)')
    BY <1>5, RrdAssumption DEF rrd_queue_dequeue, OnTheWay, CacheUnlocked, TypeOK
  <2>. QED BY <1>0, <2>1, <2>2, <2>3
<1>6. CASE queue_dequeue
  <2>1. ~(thread = "get") /\ UNCHANGED <<cache, flusher>> /\ thread' = "get"
    BY <1>6 DEF queue_dequeue, unchanged_by_thread
  <2>2. OnTheWay(f) => OnTheWay(f)'
    BY <2>1 DEF OnTheWay
  <2>3. CASE flushq # <<>>
    <3>1. queue_entry' = Head(flushq) /\ flushq' = Tail(flushq) /\ UNCHANGED queue
      BY <1>6, <2>3 DEF queue_dequeue
    <3>2. Contains(flushq, f) => f = Head(flushq) \/ Contains(flushq', f)
      BY <1>0, <2>3, <3>1, ContainsTail
    <3>. QED BY <1>0, <2>1, <2>2, <3>1, <3>2 DEF OnTheWay
  <2>4. CASE flushq = <<>>
    <3>1. queue # <<>> /\ queue_entry' = Head(queue) /\ queue' = Tail(queue) /\ UNCHANGED flushq
      BY <1>6, <2>4 DEF queue_dequeue
    <3>2. Contains(queue, f) => f = Head(queue) \/ Contains(queue', f)
      BY <1>0, <3>1, ContainsTail
    <3>. QED BY <1>0, <2>1, <2>2, <3>1, <3>2 DEF OnTheWay
  <2>. QED BY <2>3, <2>4
<1>7. CASE queue_get
  <2>1. UNCHANGED <<queue, flushq, flusher, queue_entry>>
    BY <1>7 DEF queue_get, unchanged_by_thread
  <2>2. CASE f = queue_entry
    BY <1>7, <2>2 DEF queue_get, TypeOK, Entry
  <2>3. CASE f # queue_entry
    <3>1. cache'[f] = cache[f]
      BY <1>7, <2>3 DEF queue_get, TypeOK
    <3>2. OnTheWay(f) => OnTheWay(f)'
      BY <2>1, <2>3 DEF OnTheWay
    <3>. QED BY <1>0, <2>1, <3>1, <3>2
  <2>. QED BY <2>2, <2>3
<1>8. CASE queue_wait \/ queue_timedwait \/ queue_exit \/ queue_update \/ spurious_wakeup
  <2>1. UNCHANGED <<cache, queue, flushq, flusher, queue_entry>> /\ thread # "get"
    BY <1>8 DEF queue_wait, queue_timedwait, queue_exit, queue_update, spurious_wakeup,
      unchanged_by_thread
  <2>. QED BY <1>0, <2>1 DEF OnTheWay
<1>9. CASE shutdown_signal
  BY <1>0, <1>9 DEF shutdown_signal, OnTheWay, Signalled
<1>10. CASE rrd_cache_destroy
  BY <1>10 DEF rrd_cache_destroy, Absent
<1>11. CASE Tick \/ UNCHANGED vars
  BY <1>0, <1>11 DEF Tick, vars, queues, OnTheWay
<1>. QED BY <1>1, <1>2, <1>3, <1>4, <1>5, <1>6, <1>7, <1>8, <1>9, <1>10, <1>11, StepKinds
  DEF OtherStep, ThreadStep, ShutdownStep

\* So the types and the bookkeeping always hold.
LEMMA Invariance == Spec => []IInv
<1>1. IInv /\ [Next]_vars => IInv'
  BY TypeStep, LostStep, QueuedStep DEF IInv
<1>. QED BY InitInv, <1>1, PTL DEF Spec

\* The cache, the queues and the histories stay well typed.
THEOREM TypeCorrect == Spec => []TypeOK
<1>1. IInv => TypeOK
  BY DEF IInv
<1>. QED BY Invariance, <1>1, PTL

\* However inserts, flushes and the queue thread are interleaved, what
\* rrd_cache_insert has accepted for a file is what srrd_update got, what the
\* thread holds and what the cache holds, in this order: no value is lost,
\* doubled or overtaken.
THEOREM NoValueIsLost == Spec => []NothingLost
<1>1. IInv => NothingLost
  BY DEF IInv
<1>. QED BY Invariance, <1>1, PTL

\* A flag of an entry is never left behind by the queue entry it stands for,
\* although rrd_cache_flush_identifier moves a file in two steps.
THEOREM FlagsAreQueued == Spec => []FlaggedIsQueued
<1>1. IInv => FlaggedIsQueued
  BY DEF IInv
<1>. QED BY Invariance, <1>1, PTL

-----------------------------------------------------------------------------
(* Shutdown *)

\* The order of the shutdown: the thread does not leave before it is told to,
\* and once it is told to nothing new comes into the cache.
LEMMA OrderlyStep ==
  IInv /\ Usual /\ Orderly /\ [Next]_vars => Usual' /\ Orderly'
<1>. SUFFICES ASSUME IInv, Usual, Orderly, [Next]_vars PROVE Usual' /\ Orderly'
  OBVIOUS
<1>. USE DEF IInv
<1>0. /\ queue \in Seq(File) /\ flushq \in Seq(File)
      /\ conf \in [delay : BOOLEAN, identifiers : BOOLEAN, late : BOOLEAN]
  BY RrdAssumption DEF TypeOK
<1>1. ASSUME NEW f \in File, NEW t \in 1..MaxTime, NEW v \in Variations,
             NEW next \in Variations, rrd_cache_insert(f, t, v, next)
      PROVE Usual' /\ Orderly'
  <2>1. thread' \in {thread, Signalled} /\ (queue # <<>> => queue' # <<>>)
    BY <1>1, InsertFacts
  <2>2. UNCHANGED <<conf, do_shutdown, flusher, main>> /\ main = "run" /\ do_shutdown = 0
    BY <1>1 DEF rrd_cache_insert
  <2>. QED BY <2>1, <2>2 DEF Usual, Orderly, Signalled, CacheUnlocked
<1>2. ASSUME FlushStep PROVE Usual' /\ Orderly'
  <2>1. /\ thread' \in {thread, Signalled}
        /\ \A f \in File :
             /\ cache'[f].values = cache[f].values
             /\ cache'[f].flags = "none" => cache[f].flags = "none"
             /\ cache'[f].flags = "none" /\ shutdown_flush => cache[f].values = <<>>
        /\ queue # <<>> => queue' # <<>>
        /\ (\A f \in File : cache[f].flags = "none" => cache[f].values = <<>>) => queue' = queue
        /\ UNCHANGED <<conf, flushq, do_shutdown, flusher>>
        /\ main' = main \/ (main = "run" /\ main' = "stop")
    BY <1>2, FlushFacts
  <2>2. main # "done" /\ CacheUnlocked /\ (main' # main => shutdown_flush)
    BY <1>2 DEF FlushStep, rrd_cache_flush, shutdown_flush
  <2>3. CacheUnlocked'
    BY <2>1, <2>2 DEF CacheUnlocked
  <2>4. thread' = "timedwait" => thread = "timedwait"
    BY <2>1 DEF Signalled
  <2>5. thread' = "exit" => thread = "exit"
    BY <2>1 DEF Signalled
  <2>6. thread' = "exit" => queue' = queue
    BY <2>1, <2>5 DEF Orderly, Control
  <2>7. main' # "run" => \A f \in File : cache'[f].flags = "none" => cache'[f].values = <<>>
    BY <2>1, <2>2 DEF Orderly
  <2>. QED BY <2>1, <2>2, <2>3, <2>4, <2>5, <2>6, <2>7 DEF Usual, Orderly
<1>3. ASSUME NEW f \in File, NEW timeout \in {0, 1}, flush_identifier(f, timeout)
      PROVE Usual' /\ Orderly'
  <2>1. main = "run" /\ UNCHANGED <<conf, queue, do_shutdown, flusher, main>> /\ thread' = Signalled
    BY <1>3 DEF flush_identifier, MayFlushFile, Usual
  <2>. QED BY <2>1 DEF Usual, Orderly, Signalled, CacheUnlocked, Control
<1>4. ASSUME NEW w \in Flusher, flush_requeue(w) PROVE Usual' /\ Orderly'
  <2>1. ~CacheUnlocked
    BY <1>4 DEF flush_requeue, CacheUnlocked
  <2>2. main = "run" /\ conf.identifiers
    BY <1>0, <2>1 DEF Orderly
  <2>3. UNCHANGED <<conf, queue, do_shutdown, main>> /\ thread' = Signalled
    BY <1>4 DEF flush_requeue
  <2>. QED BY <1>0, <2>2, <2>3 DEF Usual, Orderly, Signalled, Control
<1>5. ASSUME NEW w \in Flusher, NEW f \in File, rrd_queue_dequeue(w, f)
      PROVE Usual' /\ Orderly'
  <2>1. main = "run" /\ conf.identifiers
        /\ UNCHANGED <<conf, cache, flushq, thread, do_shutdown, main>>
    BY <1>5 DEF rrd_queue_dequeue, MayFlushFile, Usual
  <2>2. thread # "timedwait"
    BY <2>1 DEF Usual, Orderly
  <2>3. thread # "exit"
    BY <2>1 DEF Orderly, Control
  <2>. QED BY <1>0, <2>1, <2>2, <2>3 DEF Usual, Orderly
<1>6. CASE queue_wait \/ queue_timedwait \/ queue_exit \/ spurious_wakeup \/ queue_update
  <2>1. UNCHANGED <<conf, cache, queue, flushq, do_shutdown, flusher, main>> /\ thread # "exit"
    BY <1>6 DEF queue_wait, queue_timedwait, queue_exit, spurious_wakeup, queue_update,
      unchanged_by_thread
  <2>2. /\ thread' = "timedwait" => conf.delay /\ queue # <<>>
        /\ thread' = "exit" => do_shutdown # 0 /\ queue = <<>> /\ flushq = <<>>
    BY <1>6 DEF queue_wait, queue_timedwait, queue_exit, spurious_wakeup, queue_update, Orderly
  <2>. QED BY <2>1, <2>2 DEF Usual, Orderly, CacheUnlocked
<1>7. CASE queue_dequeue
  BY <1>7 DEF queue_dequeue, unchanged_by_thread, Usual, Orderly, CacheUnlocked
<1>8. CASE queue_get
  <2>1. UNCHANGED <<conf, queue, flushq, do_shutdown, flusher, main>> /\ thread = "get"
        /\ thread' \in {"check", "update"}
    BY <1>8 DEF queue_get, unchanged_by_thread
  <2>2. \A f \in File : \/ cache'[f].flags = cache[f].flags /\ cache'[f].values = cache[f].values
                        \/ cache'[f].values = <<>>
    <3>1. CASE UNCHANGED cache
      BY <3>1
    <3>2. CASE cache' = [cache EXCEPT ![queue_entry].values = <<>>,
                                      ![queue_entry].flags = "none"]
      BY <3>2 DEF TypeOK, Entry
    <3>. QED BY <1>8, <3>1, <3>2 DEF queue_get
  <2>. QED BY <2>1, <2>2 DEF Usual, Orderly, CacheUnlocked
<1>9. CASE shutdown_signal
  BY <1>9 DEF shutdown_signal, Signalled, Usual, Orderly, CacheUnlocked, Control
<1>10. CASE rrd_cache_destroy
  BY <1>10 DEF rrd_cache_destroy, queues, Usual, Orderly, CacheUnlocked, Absent
<1>11. CASE Tick \/ UNCHANGED vars
  BY <1>11 DEF Tick, vars, queues, Usual, Orderly, CacheUnlocked
<1>. QED BY <1>1, <1>2, <1>3, <1>4, <1>5, <1>6, <1>7, <1>8, <1>9, <1>10, <1>11, StepKinds
  DEF OtherStep, ThreadStep, ShutdownStep

\* When the thread has ended, nothing is left in the cache, in the queues or
\* in its hands.
LEMMA NothingIsLeft ==
  ASSUME IInv, Usual, Orderly, main = "join", thread = "exit"
  PROVE  updates = accepted
<1>. SUFFICES ASSUME NEW f \in File PROVE updates[f] = accepted[f]
  BY DEF IInv, TypeOK
<1>1. queue = <<>> /\ flushq = <<>> /\ CacheUnlocked
  BY DEF Orderly
<1>2. cache[f].flags \in {"absent", "none"}
  <2>1. ~Contains(queue, f) /\ ~Contains(flushq, f)
    BY <1>1 DEF Contains
  <2>2. \A w \in Flusher : flusher[w] # f
    BY <1>1, RrdAssumption DEF CacheUnlocked
  <2>. QED BY <2>1, <2>2 DEF IInv, FlaggedIsQueued, TypeOK, Entry
<1>3. cache[f].values = <<>>
  BY <1>2 DEF IInv, Control, Orderly
<1>4. accepted[f] = updates[f] \o <<>> \o <<>> /\ updates[f] \in Seq(Nat)
  BY <1>3 DEF IInv, NothingLost, InHand, TypeOK
<1>. QED BY <1>4, ConcatEmptySeq

\* The state that a usual configuration keeps.
UInv == IInv /\ Usual /\ Orderly /\ ShutdownWritesAll

\* So in a usual configuration the shutdown is orderly.
LEMMA UsualInvariance ==
  ASSUME \A c \in Configurations : ~c.late /\ ~(c.delay /\ c.identifiers)
  PROVE  Spec => []UInv
<1>1. Init => UInv
  <2>1. Init => Usual /\ Orderly /\ ShutdownWritesAll
    BY DEF Init, Usual, Orderly, ShutdownWritesAll, CacheUnlocked
  <2>. QED BY <2>1, InitInv DEF UInv
<1>2. UInv /\ [Next]_vars => UInv'
  <2>. SUFFICES ASSUME UInv, [Next]_vars PROVE UInv'
    OBVIOUS
  <2>1. IInv'
    BY TypeStep, LostStep, QueuedStep DEF UInv, IInv
  <2>2. Usual' /\ Orderly'
    BY OrderlyStep DEF UInv
  <2>3. ShutdownWritesAll'
    <3>1. CASE rrd_cache_destroy
      BY <3>1, NothingIsLeft DEF rrd_cache_destroy, UInv, ShutdownWritesAll
    <3>2. CASE main = "done"
      <4>1. updates = accepted /\ thread = "exit" /\ do_shutdown # 0
        BY <3>2 DEF UInv, ShutdownWritesAll, Orderly, IInv, Control
      <4>2. UNCHANGED <<updates, accepted>>
        <5>1. ASSUME NEW f \in File, NEW t \in 1..MaxTime, NEW v \in Variations,
                     NEW next \in Variations, rrd_cache_insert(f, t, v, next)
              PROVE FALSE
          BY <4>1, <5>1 DEF rrd_cache_insert
        <5>2. CASE FlushStep
          BY <5>2 DEF FlushStep, rrd_cache_flush, shutdown_flush
        <5>3. CASE OtherStep \/ UNCHANGED vars
          <6>1. CASE ThreadStep
            BY <4>1, <6>1 DEF ThreadStep, queue_wait, queue_timedwait, queue_exit,
              queue_dequeue, queue_get, queue_update
          <6>2. CASE ShutdownStep
            BY <6>2 DEF ShutdownStep, shutdown_signal, rrd_cache_destroy
          <6>3. CASE \/ \E timeout \in {0, 1}, f \in File : flush_identifier(f, timeout)
                     \/ \E w \in Flusher : flush_requeue(w) \/ \E f \in File : rrd_queue_dequeue(w, f)
            BY <6>3 DEF flush_identifier, flush_requeue, rrd_queue_dequeue
          <6>4. CASE spurious_wakeup \/ Tick \/ UNCHANGED vars
            BY <6>4 DEF spurious_wakeup, unchanged_by_thread, Tick, vars
          <6>. QED BY <5>3, <6>1, <6>2, <6>3, <6>4 DEF OtherStep
        <5>. QED BY <5>1, <5>2, <5>3, StepKinds
      <4>. QED BY <4>1, <4>2 DEF ShutdownWritesAll
    <3>3. CASE main # "done" /\ ~rrd_cache_destroy
      <4>1. main' # "done"
        <5>1. ASSUME NEW f \in File, NEW t \in 1..MaxTime, NEW v \in Variations,
                     NEW next \in Variations, rrd_cache_insert(f, t, v, next)
              PROVE main' # "done"
          BY <3>3, <5>1 DEF rrd_cache_insert
        <5>2. CASE FlushStep
          BY <3>3, <5>2 DEF FlushStep, rrd_cache_flush, shutdown_flush
        <5>3. CASE OtherStep \/ UNCHANGED vars
          <6>1. CASE ThreadStep
            BY <3>3, <6>1 DEF ThreadStep, unchanged_by_thread, queue_wait, queue_timedwait,
              queue_exit, queue_dequeue, queue_get, queue_update
          <6>2. CASE ShutdownStep
            BY <3>3, <6>2 DEF ShutdownStep, shutdown_signal
          <6>3. CASE \/ \E timeout \in {0, 1}, f \in File : flush_identifier(f, timeout)
                     \/ \E w \in Flusher : flush_requeue(w) \/ \E f \in File : rrd_queue_dequeue(w, f)
            BY <3>3, <6>3 DEF flush_identifier, flush_requeue, rrd_queue_dequeue
          <6>4. CASE spurious_wakeup \/ Tick \/ UNCHANGED vars
            BY <3>3, <6>4 DEF spurious_wakeup, unchanged_by_thread, Tick, vars
          <6>. QED BY <5>3, <6>1, <6>2, <6>3, <6>4 DEF OtherStep
        <5>. QED BY <5>1, <5>2, <5>3, StepKinds
      <4>. QED BY <4>1 DEF ShutdownWritesAll
    <3>. QED BY <3>1, <3>2, <3>3
  <2>. QED BY <2>1, <2>2, <2>3 DEF UInv
<1>. QED BY <1>1, <1>2, PTL DEF Spec

\* When rrd_shutdown returns, every value that was accepted has been passed to
\* srrd_update, unless flush commands for single files come while the daemon
\* shuts down or are used together with WritesPerSecond.
THEOREM EverythingIsWritten ==
  ASSUME \A c \in Configurations : ~c.late /\ ~(c.delay /\ c.identifiers)
  PROVE  Spec => []ShutdownWritesAll
<1>1. UInv => ShutdownWritesAll
  BY DEF UInv
<1>. QED BY UsualInvariance, <1>1, PTL

\* In these configurations the queue thread does not end before the shutdown;
\* with both options it may (the run rrd_thread_gives_up).
THEOREM ThreadEndsInShutdown ==
  ASSUME \A c \in Configurations : ~c.late /\ ~(c.delay /\ c.identifiers)
  PROVE  Spec => []ThreadStays
<1>1. UInv => ThreadStays
  BY DEF UInv, Orderly, ThreadStays
<1>. QED BY UsualInvariance, <1>1, PTL
=============================================================================
