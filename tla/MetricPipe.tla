----------------------------- MODULE MetricPipe -----------------------------
(***************************************************************************)
(* What plugin_dispatch_values promises to the plugins that call it, with  *)
(* no queue, no thread and no lock in it: a call is accepted or dropped as *)
(* a whole; an accepted metric is handled (written, or refused because it  *)
(* is invalid) at most once and is never dropped afterwards; only when the *)
(* daemon goes down may accepted metrics be discarded.                     *)
(***************************************************************************)
CONSTANT Metric

VARIABLES
  fate,  \* what has become of every metric
  up     \* FALSE once shutdown has begun

pipe == <<fate, up>>

Having(f) == {m \in Metric : fate[m] = f}

\* All of M, which had the fate `from', now have the fate `to'.
Turn(M, from, to) ==
  /\ \A m \in M : fate[m] = from
  /\ fate' = [m \in Metric |-> IF m \in M THEN to ELSE fate[m]]

Dispatch(M) ==
  /\ Turn(M, "new", "accepted") \/ Turn(M, "new", "dropped")
  /\ UNCHANGED up

Handle(m) ==
  /\ Turn({m}, "accepted", "written") \/ Turn({m}, "accepted", "refused")
  /\ UNCHANGED up

Stop == up /\ up' = FALSE /\ UNCHANGED fate

Discard(M) == ~up /\ Turn(M, "accepted", "discarded") /\ UNCHANGED up

PipeInit == fate = [m \in Metric |-> "new"] /\ up = TRUE

PipeNext ==
  \/ \E M \in SUBSET Having("new") : Dispatch(M)
  \/ \E M \in SUBSET Having("accepted") : Discard(M)
  \/ \E m \in Metric : Handle(m)
  \/ Stop

PipeSpec == PipeInit /\ [][PipeNext]_pipe
=============================================================================
