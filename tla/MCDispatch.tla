---------------------------- MODULE MCDispatch ------------------------------
(***************************************************************************)
(* Instances of Dispatch.  Many chains are looked at without a value list, *)
(* for the sake of FollowsFlowControl; some of them with a few value lists *)
(* and several kinds of thresholds.                                        *)
(***************************************************************************)
EXTENDS FlowControl, TLC

MCSymmetry == Permutations(Writer)

MCDataSource == <<"rx", "tx">>
MCValue == {<<0, 0>>, <<5, 0>>, <<0, 6>>}

MCTh ==
  [data_source |-> "", failure_min |-> NoLimit, failure_max |-> 5,
   warning_min |-> NoLimit, warning_max |-> 3, hysteresis |-> 0, invert |-> FALSE,
   hits |-> 0, persist |-> FALSE, persist_ok |-> FALSE, interesting |-> TRUE]
MCThresholds ==
  {<<[MCTh EXCEPT !.hysteresis = 1]>>,
   <<[MCTh EXCEPT !.hits = 1, !.interesting = FALSE]>>,
   <<[MCTh EXCEPT !.data_source = "none"]>>,
   <<[MCTh EXCEPT !.hits = 1, !.persist_ok = TRUE, !.interesting = FALSE]>>,
   <<[MCTh EXCEPT !.persist = TRUE, !.persist_ok = TRUE, !.data_source = "tx"],
     [MCTh EXCEPT !.invert = TRUE, !.failure_max = 0, !.data_source = "rx"]>>}

-----------------------------------------------------------------------------
Stop == [name |-> "stop"]
Return == [name |-> "return"]
Fail == [name |-> "fail"]
Write == [name |-> "write", plugins |-> {}]
WriteTo(p) == [name |-> "write", plugins |-> {p}]
Jump(c) == [name |-> "jump", chain |-> c]
Set == [name |-> "set", to |-> [v \in MCValue |-> IF v[2] = 0 THEN <<0, 6>> ELSE <<0, 0>>]]

High == {v \in MCValue : v[1] > 3 \/ v[2] > 3}
Rule(match, targets) == [name |-> "rule", match |-> match, targets |-> targets]
Chain(rules, targets) == [rules |-> rules, targets |-> targets]

\* One or two targets in a rule, and a chain that may be called by it.
MCChains ==
  {[c \in {"PostCache", "Sub"} |->
     IF c = "Sub" THEN Chain(<<Rule(High, <<s>>)>>, <<d>>)
     ELSE Chain(<<Rule(MCValue, <<Jump("Sub"), a>>), Rule(High, <<b, Write>>)>>,
                <<Jump("Sub"), e, WriteTo("csv")>>)] :
     s \in {Stop, Return, Write, Set}, d \in {Stop, Return, Write, Fail},
     a \in {Stop, Return, Set, Fail, Jump("None")},
     b \in {Stop, Return, Set, Jump("Sub")}, e \in {Stop, Return, Set, Fail, Jump("Sub")}}

\* Chains that are called by called ones, and leave in the middle of two nests.
MCNests ==
  {[c \in {"PostCache", "Sub", "Deep"} |->
     CASE c = "Deep" -> Chain(<<Rule(High, <<s, Write>>)>>, <<Set>>)
       [] c = "Sub" -> Chain(<<Rule(MCValue, <<Jump("Deep"), a>>)>>, <<d, WriteTo("csv")>>)
       [] c = "PostCache" -> Chain(<<>>, <<Jump("Sub"), e, Write, Jump("Deep")>>)] :
     s \in {Stop, Return, Set}, a \in {Return, Write}, d \in {Stop, Jump("Deep")},
     e \in {Return, Jump("Deep")}}

\* Values are filtered and changed before the cache, written before it, written
\* twice, or not at all.
MCSetups ==
  {[chains |-> c, values |-> 0] : c \in MCChains \cup MCNests} \cup
  {[chains |-> <<>>, values |-> 3],
   [values |-> 2, chains |-> [c \in {"PreCache"} |->
      Chain(<<Rule({<<0, 6>>}, <<Stop>>), Rule({<<5, 0>>}, <<Set, Return>>)>>, <<WriteTo("csv")>>)]],
   [values |-> 2, chains |-> [c \in {"PreCache", "PostCache"} |->
      IF c = "PreCache" THEN Chain(<<>>, <<WriteTo("threshold")>>)
      ELSE Chain(<<Rule(High, <<Write>>)>>, <<WriteTo("threshold")>>)]],
   [values |-> 2, chains |-> [c \in {"PostCache"} |->
      Chain(<<Rule({<<5, 0>>}, <<Return>>)>>, <<Write>>)]]}

-----------------------------------------------------------------------------
\* Two values, one out of range and one within it, and one threshold.
MCRecoveryThresholds == {<<[MCTh EXCEPT !.interesting = FALSE]>>}
MCRecoverySetups == {[chains |-> <<>>, values |-> 2]}
=============================================================================
