---------------------------- MODULE MCWriteQueue ----------------------------
(***************************************************************************)
(* Small instances of WriteQueue.                                          *)
(***************************************************************************)
EXTENDS WriteQueue

\* Every producer offers a value list that is refused, in the midst of others.
MCInvalid == {m \in Metric : Num(m) = 2}
=============================================================================
