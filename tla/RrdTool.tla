------------------------------ MODULE RrdTool -------------------------------
(***************************************************************************)
(* The rrdtool plugin (src/rrdtool.c): values of the write threads are     *)
(* collected per file in a cache; files whose oldest value is old enough,  *)
(* or that somebody wants flushed, are put into one of two queues; a queue *)
(* thread hands their values to librrd.                                    *)
(*                                                                         *)
(* cache_lock is held for a whole step except in rrd_cache_flush_identifier*)
(* which takes a file out of one queue and puts it into the other: the     *)
(* queue thread needs only queue_lock to look at the queues in between.    *)
(*                                                                         *)
(* A value is represented by its time stamp.  Left out: allocation and     *)
(* file system failures, and what librrd does with the values.             *)
(*                                                                         *)
(* Definitions named X_Y are X with a mistake Y: they are used only to     *)
(* show that the properties notice it.                                     *)
(***************************************************************************)
EXTENDS Integers, Sequences, FiniteSets, SequencesExt

CONSTANTS
  File,                 \* names of RRD files
  Flusher,              \* threads that call rrd_flush
  MaxTime,              \* bound: the clock and the time stamps of values
  MaxValues,            \* bound: how many values are accepted
  cache_timeout,        \* CacheTimeout
  cache_flush_timeout,  \* CacheFlush
  random_timeout,       \* RandomTimeout
  Configurations,       \* the configurations to look at, see conf
  NoFile

ASSUME RrdAssumption ==
  /\ MaxTime \in Nat /\ MaxValues \in Nat
  /\ cache_timeout \in Nat /\ cache_flush_timeout \in Nat /\ random_timeout \in Nat
  /\ random_timeout <= cache_timeout  \* rrd_init sees to it
  /\ IsFiniteSet(File) /\ NoFile \notin File
  /\ Configurations \subseteq [delay : BOOLEAN, identifiers : BOOLEAN, late : BOOLEAN]

VARIABLES
  \* delay: WritesPerSecond is set; identifiers: single files are flushed, by
  \* a command; late: also while the daemon shuts down
  conf,
  now,               \* cdtime()
  cache,             \* file -> entry, for the files that have one
  cache_flush_last,
  queue,             \* queue_head ... queue_tail
  flushq,            \* flushq_head ... flushq_tail
  do_shutdown,
  thread,            \* where the queue thread is
  queue_entry,       \* the file it works on
  values,            \* the values it took out of the cache
  flusher,           \* what each Flusher is at: the file it is moving, or NoFile
  main,              \* rrd_shutdown: "run", "stop", "join", "done"
  accepted,          \* history: the values rrd_cache_insert accepted, per file
  updates            \* history: the values passed to srrd_update, per file

queues == <<queue, flushq, thread>>
vars == <<conf, now, cache, cache_flush_last, queues, do_shutdown,
          queue_entry, values, flusher, main, accepted, updates>>

-----------------------------------------------------------------------------
Variations == -random_timeout..random_timeout

\* A file that has no entry in the cache.
Absent == [values |-> <<>>, first_value |-> 0, last_value |-> 0,
           random_variation |-> 0, flags |-> "absent"]

\* Nobody is between the two halves of rrd_cache_flush_identifier.
CacheUnlocked == \A w \in Flusher : flusher[w] = NoFile

\* now - t >= timeout, where the difference is unsigned.
Old(t, timeout) == now < t \/ now - t >= timeout

\* pthread_cond_signal(&queue_cond): only the queue thread waits for it.
Signalled == IF thread \in {"wait", "timedwait"} THEN "check" ELSE thread

\* rrd_cache_flush, once the cache is c and the queue is q: old entries with
\* values are queued, in the order of the tree, and old ones without are freed.
Flushed(c, q, timeout) ==
  LET old == {f \in File : /\ c[f].flags = "none"
                           /\ timeout # 0 => Old(c[f].first_value, timeout)}
      full == {f \in old : c[f].values # <<>>}
  IN  /\ cache' = [f \in File |-> IF f \in full THEN [c[f] EXCEPT !.flags = "queued"]
                                  ELSE IF f \in old THEN Absent
                                  ELSE c[f]]
      /\ \E s \in SetToSeqs(full) : queue' = q \o s
      /\ cache_flush_last' = now

-----------------------------------------------------------------------------
(* The write threads *)

\* The entry after a value was added; a new one gets a random variation v.
Inserted(f, t, v) ==
  LET e == IF cache[f].flags = "absent"
             THEN [Absent EXCEPT !.flags = "none", !.random_variation = v]
             ELSE cache[f]
  IN  [e EXCEPT !.values = Append(@, t),
                !.first_value = IF e.values = <<>> THEN t ELSE @,
                !.last_value = t]

\* The file is put into the queue as soon as its values span CacheTimeout.
IsDue(e) ==
  /\ e.flags = "none"
  /\ e.last_value - e.first_value >= cache_timeout + e.random_variation

Queued(e, v) == [e EXCEPT !.flags = "queued", !.random_variation = v]

\* rrd_write and rrd_cache_insert.  The daemon has stopped its write threads
\* before it calls rrd_shutdown.  next is the variation drawn for the next time.
rrd_cache_insert(f, t, v, next) ==
  LET e == Inserted(f, t, v)
      c == [cache EXCEPT ![f] = IF IsDue(e) THEN Queued(e, next) ELSE e]
      q == IF IsDue(e) THEN Append(queue, f) ELSE queue
  IN  /\ main = "run" /\ do_shutdown = 0
      /\ CacheUnlocked
      /\ FoldFunction(LAMBDA s, n : Len(s) + n, 0, accepted) < MaxValues
      /\ cache[f].last_value < t
      /\ \/ /\ cache_timeout > 0 /\ now - cache_flush_last > cache_flush_timeout
            /\ Flushed(c, q, cache_timeout + random_timeout)
         \/ /\ ~(cache_timeout > 0 /\ now - cache_flush_last > cache_flush_timeout)
            /\ cache' = c
            /\ queue' = q
            /\ UNCHANGED cache_flush_last
      /\ thread' = IF queue' = queue THEN thread ELSE Signalled
      /\ accepted' = [accepted EXCEPT ![f] = Append(@, t)]
      /\ UNCHANGED <<conf, now, flushq, do_shutdown, queue_entry, values, flusher, main, updates>>

-----------------------------------------------------------------------------
(* Flushing *)

MayFlushFile == conf.identifiers /\ (main = "run" \/ (conf.late /\ main # "done"))

\* rrd_flush without an identifier; SIGUSR1 does this, also in a shutdown.
rrd_cache_flush(timeout) ==
  /\ main # "done"
  /\ CacheUnlocked
  /\ Flushed(cache, queue, timeout)
  /\ thread' = IF queue' = queue THEN thread ELSE Signalled
  /\ UNCHANGED <<conf, now, flushq, do_shutdown, queue_entry, values, flusher, main,
                 accepted, updates>>

flush_identifier_NoSignal(f, timeout) ==
  /\ MayFlushFile
  /\ CacheUnlocked
  /\ cache[f].flags = "none"
  /\ Old(cache[f].first_value, timeout)
  /\ cache[f].values # <<>>
  /\ cache' = [cache EXCEPT ![f].flags = "flushq"]
  /\ flushq' = Append(flushq, f)
  /\ UNCHANGED <<conf, now, cache_flush_last, queue, thread, do_shutdown, queue_entry,
                 values, flusher, main, accepted, updates>>
\* rrd_flush for a file that is in no queue.
flush_identifier(f, timeout) ==
  /\ MayFlushFile
  /\ CacheUnlocked
  /\ cache[f].flags = "none"
  /\ Old(cache[f].first_value, timeout)
  /\ cache[f].values # <<>>
  /\ cache' = [cache EXCEPT ![f].flags = "flushq"]
  /\ flushq' = Append(flushq, f)
  /\ thread' = Signalled
  /\ UNCHANGED <<conf, now, cache_flush_last, queue, do_shutdown, queue_entry, values,
                 flusher, main, accepted, updates>>

\* rrd_flush for a file that waits in the slow queue: first it is taken out,
\* if it is still there ...
rrd_queue_dequeue(w, f) ==
  /\ MayFlushFile
  /\ CacheUnlocked
  /\ cache[f].flags = "queued"
  /\ queue' = IF Contains(queue, f) THEN RemoveFirst(queue, f) ELSE queue
  /\ flusher' = [flusher EXCEPT ![w] = f]
  /\ UNCHANGED <<conf, now, cache, cache_flush_last, flushq, thread, do_shutdown,
                 queue_entry, values, main, accepted, updates>>

\* ... and then put into the fast one.
flush_requeue_KeepsFlag(w) ==
  /\ flusher[w] # NoFile
  /\ flusher' = [flusher EXCEPT ![w] = NoFile]
  /\ UNCHANGED <<conf, now, cache, cache_flush_last, queues, do_shutdown,
                 queue_entry, values, main, accepted, updates>>
flush_requeue(w) ==
  /\ flusher[w] # NoFile
  /\ flushq' = Append(flushq, flusher[w])
  /\ thread' = Signalled
  /\ cache' = [cache EXCEPT ![flusher[w]].flags = "flushq"]
  /\ flusher' = [flusher EXCEPT ![w] = NoFile]
  /\ UNCHANGED <<conf, now, cache_flush_last, queue, do_shutdown,
                 queue_entry, values, main, accepted, updates>>

-----------------------------------------------------------------------------
(* rrd_queue_thread *)

unchanged_by_thread ==
  <<conf, now, cache_flush_last, do_shutdown, flusher, main, accepted>>

\* pthread_cond_wait
queue_wait ==
  /\ thread = "check"
  /\ flushq = <<>> /\ queue = <<>> /\ do_shutdown = 0
  /\ thread' = "wait"
  /\ UNCHANGED <<unchanged_by_thread, cache, queue, flushq, queue_entry, values, updates>>

spurious_wakeup ==
  /\ thread \in {"wait", "timedwait"}
  /\ thread' = "check"
  /\ UNCHANGED <<unchanged_by_thread, cache, queue, flushq, queue_entry, values, updates>>

\* pthread_cond_timedwait: the next slow update is not due yet.  That takes an
\* earlier update: tv_next_update is the present time before.
queue_timedwait ==
  /\ thread = "check"
  /\ conf.delay /\ queue_entry # NoFile
  /\ flushq = <<>> /\ queue # <<>> /\ do_shutdown = 0
  /\ thread' = "timedwait"
  /\ UNCHANGED <<unchanged_by_thread, cache, queue, flushq, queue_entry, values, updates>>

queue_exit_DropsQueue ==
  /\ thread = "check" /\ do_shutdown # 0
  /\ thread' = "exit"
  /\ UNCHANGED <<unchanged_by_thread, cache, queue, flushq, queue_entry, values, updates>>
\* The loop is left because there is something to do, because it is time, or
\* because nothing is left and the daemon shuts down.
queue_exit ==
  /\ flushq = <<>> /\ queue = <<>>
  /\ \/ thread = "check" /\ do_shutdown # 0
     \/ thread = "timedwait"
  /\ thread' = "exit"
  /\ UNCHANGED <<unchanged_by_thread, cache, queue, flushq, queue_entry, values, updates>>

queue_dequeue ==
  /\ thread \in {"check", "timedwait"}
  /\ \/ /\ flushq # <<>>
        /\ queue_entry' = Head(flushq) /\ flushq' = Tail(flushq)
        /\ UNCHANGED queue
     \/ /\ flushq = <<>> /\ queue # <<>>
        /\ queue_entry' = Head(queue) /\ queue' = Tail(queue)
        /\ UNCHANGED flushq
  /\ thread' = "get"
  /\ UNCHANGED <<unchanged_by_thread, cache, values, updates>>

queue_get_KeepsValues ==
  /\ thread = "get"
  /\ CacheUnlocked
  /\ values' = cache[queue_entry].values
  /\ cache' = [cache EXCEPT ![queue_entry].flags = "none"]
  /\ thread' = "update"
  /\ UNCHANGED <<unchanged_by_thread, queue, flushq, queue_entry, updates>>
\* The values are taken out of the cache, which is open to new ones then.
queue_get ==
  /\ thread = "get"
  /\ CacheUnlocked
  /\ \/ /\ cache[queue_entry].flags = "absent"
        /\ thread' = "check"
        /\ UNCHANGED <<cache, values>>
     \/ /\ cache[queue_entry].flags # "absent"
        /\ values' = cache[queue_entry].values
        /\ cache' = [cache EXCEPT ![queue_entry].values = <<>>,
                                  ![queue_entry].flags = "none"]
        /\ thread' = "update"
  /\ UNCHANGED <<unchanged_by_thread, queue, flushq, queue_entry, updates>>

\* srrd_update, and the values are freed.
queue_update ==
  /\ thread = "update"
  /\ updates' = [updates EXCEPT ![queue_entry] = @ \o values]
  /\ values' = <<>>
  /\ thread' = "check"
  /\ UNCHANGED <<unchanged_by_thread, cache, queue, flushq, queue_entry>>

ThreadStep ==
  \/ queue_wait \/ queue_timedwait \/ queue_exit \/ queue_dequeue \/ queue_get \/ queue_update

-----------------------------------------------------------------------------
(* rrd_shutdown *)

shutdown_flush ==
  /\ main = "run"
  /\ CacheUnlocked
  /\ Flushed(cache, queue, 0)
  /\ thread' = IF queue' = queue THEN thread ELSE Signalled
  /\ main' = "stop"
  /\ UNCHANGED <<conf, now, flushq, do_shutdown, queue_entry, values, flusher,
                 accepted, updates>>

shutdown_signal_NoSignal ==
  /\ main = "stop"
  /\ do_shutdown' = 1
  /\ main' = "join"
  /\ UNCHANGED <<conf, now, cache, cache_flush_last, queues, queue_entry,
                 values, flusher, accepted, updates>>
shutdown_signal ==
  /\ main = "stop"
  /\ do_shutdown' = 1
  /\ thread' = Signalled
  /\ main' = "join"
  /\ UNCHANGED <<conf, now, cache, cache_flush_last, queue, flushq, queue_entry,
                 values, flusher, accepted, updates>>

\* pthread_join and rrd_cache_destroy
rrd_cache_destroy ==
  /\ main = "join"
  /\ thread = "exit"
  /\ CacheUnlocked
  /\ cache' = [f \in File |-> Absent]
  /\ main' = "done"
  /\ UNCHANGED <<conf, now, cache_flush_last, queues, do_shutdown, queue_entry,
                 values, flusher, accepted, updates>>

ShutdownStep == shutdown_signal \/ rrd_cache_destroy

Tick ==
  /\ now < MaxTime
  /\ now' = now + 1
  /\ UNCHANGED <<conf, cache, cache_flush_last, queues, do_shutdown, queue_entry,
                 values, flusher, main, accepted, updates>>

-----------------------------------------------------------------------------
Init ==
  /\ conf \in Configurations
  /\ now = 1
  /\ cache = [f \in File |-> Absent]
  /\ cache_flush_last = now
  /\ queue = <<>> /\ flushq = <<>>
  /\ do_shutdown = 0
  /\ thread = "check"
  /\ queue_entry = NoFile
  /\ values = <<>>
  /\ flusher = [w \in Flusher |-> NoFile]
  /\ main = "run"
  /\ accepted = [f \in File |-> <<>>]
  /\ updates = [f \in File |-> <<>>]

Next ==
  \/ \E f \in File, t \in 1..MaxTime, v, next \in Variations :
       rrd_cache_insert(f, t, v, next)
  \/ \E timeout \in {0, 1} :
       rrd_cache_flush(timeout) \/ \E f \in File : flush_identifier(f, timeout)
  \/ \E w \in Flusher : flush_requeue(w) \/ \E f \in File : rrd_queue_dequeue(w, f)
  \/ ThreadStep
  \/ spurious_wakeup
  \/ shutdown_flush
  \/ ShutdownStep
  \/ Tick

Spec == Init /\ [][Next]_vars

\* The queue thread is scheduled, a call of rrd_flush that holds the lock goes
\* on, and so does a shutdown.
Fairness ==
  /\ WF_vars(ThreadStep)
  /\ WF_vars(ShutdownStep)
  /\ \A w \in Flusher : WF_vars(flush_requeue(w))

FairSpec == Spec /\ Fairness

-----------------------------------------------------------------------------
(* Properties *)

\* What was taken out of the cache for file f and not yet written.
InHand(f) == IF thread = "update" /\ queue_entry = f THEN values ELSE <<>>

\* A flagged entry is on its way to the file: it is in the queue that the
\* flag names, in the hands of the thread or being moved.  A flag without this
\* would keep the entry out of the queues for ever, and its values in memory.
FlaggedIsQueued ==
  \A f \in File :
    LET onTheWay == (thread = "get" /\ queue_entry = f) \/ \E w \in Flusher : flusher[w] = f
    IN  /\ cache[f].flags = "queued" => Contains(queue, f) \/ onTheWay
        /\ cache[f].flags = "flushq" => Contains(flushq, f) \/ onTheWay

\* Between rrd_cache_insert and srrd_update no value is lost, doubled or
\* overtaken by a later one of the same file, whoever flushes at that time.
NothingLost ==
  main # "done" =>
    \A f \in File : accepted[f] = updates[f] \o InHand(f) \o cache[f].values

\* rrd_shutdown waits "for all the values to be written to disk".
ShutdownWritesAll == main = "done" => updates = accepted

\* The queue thread ends only "in the shutdown phase".
ThreadStays == thread = "exit" => do_shutdown # 0

\* A file that was flushed by a command is written.
FlushedIsWritten ==
  \A f \in File : cache[f].flags = "flushq" ~> cache[f].flags # "flushq"

\* The shutdown of the plugin does not hang.
ShutdownEnds == main = "stop" ~> main = "done"
=============================================================================
