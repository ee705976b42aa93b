---------------------------- MODULE MCPluginRead ----------------------------
(***************************************************************************)
(* Small instances of PluginRead: two functions a and b registered during  *)
(* configuration, and a third one, c, that a plugin registers while the    *)
(* daemon runs under the name of a - so that it is a duplicate or, after a *)
(* was unregistered, a successor.                                          *)
(***************************************************************************)
EXTENDS PluginRead, TLC

CONSTANTS a, b, c

MCName == [rf \in Rf |-> IF rf = b THEN "beta" ELSE "alpha"]
MCGroup == [rf \in Rf |-> IF rf = a THEN "none" ELSE "group"]

\* An interval that doubles, and one that is longer than MaxReadInterval and is
\* shortened by a failed read.
MCInterval == [rf \in Rf |-> IF rf = b THEN 3 ELSE 1]

\* Every function is due at every tick.
MCUnitInterval == [rf \in Rf |-> 1]

MCSymmetry == Permutations(Thread)
=============================================================================
