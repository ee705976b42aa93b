----------------------------- MODULE MCRrdTool ------------------------------
(***************************************************************************)
(* Small instances of RrdTool.                                             *)
(***************************************************************************)
EXTENDS RrdTool

\* Configurations in which a file is never moved between the queues while the
\* queue thread can be misled by it.
MCUsual ==
  {[delay |-> TRUE, identifiers |-> FALSE, late |-> FALSE],
   [delay |-> FALSE, identifiers |-> TRUE, late |-> FALSE]}

\* WritesPerSecond together with flush commands for single files.
MCDelayed == {[delay |-> TRUE, identifiers |-> TRUE, late |-> FALSE]}
=============================================================================
