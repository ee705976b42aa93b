----------------------------- MODULE MCNetwork ------------------------------
(***************************************************************************)
(* A small instance of Network: three fields, one of them optional.  A     *)
(* packet has room for two value lists of the same metric or one of        *)
(* another; the last value list fits into no packet.                       *)
(***************************************************************************)
EXTENDS Network

MCFieldOrder == <<"host", "type", "instance">>
MCRequired == {"host", "type"}
MCId(h, t, i) ==
  [f \in {"host", "type", "instance"} |->
    CASE f = "host" -> h [] f = "type" -> t [] f = "instance" -> i]
MCValueList ==
  {[id |-> MCId("a", "x", ""), size |-> 1],
   [id |-> MCId("a", "x", "1"), size |-> 1],
   [id |-> MCId("b", "x", ""), size |-> 2],
   [id |-> MCId("a", "x", "1"), size |-> 4]}
=============================================================================
