---------------------------- MODULE FilterChain -----------------------------
(***************************************************************************)
(* The filter chains of src/daemon/filter_chain.c: what happens to a value *)
(* list on its way through a chain.                                        *)
(*                                                                         *)
(* chains is a function from the names of the configured chains to what    *)
(* they consist of.  The targets of other modules are "set", which changes *)
(* the value, and "fail", which returns an error.                          *)
(*                                                                         *)
(* Chains that jump to each other in a circle are excluded: there is       *)
(* nothing in the code that would end the recursion.                       *)
(***************************************************************************)
EXTENDS Integers, Sequences, FiniteSets

CONSTANTS
  Value,    \* value lists
  Plugin    \* names of write plugins

fc_target_t ==
  [name : {"stop", "return", "fail"}] \cup [name : {"jump"}, chain : STRING] \cup
  [name : {"write"}, plugins : SUBSET Plugin] \cup [name : {"set"}, to : [Value -> Value]]

\* match is the set of values for which all matches of the rule match, so that a
\* match that fails is one that does not match.  A rule has at least one target.
fc_rule_t ==
  [name : {"rule"}, match : SUBSET Value, targets : Seq(fc_target_t) \ {<<>>}]

fc_chain_t == [rules : Seq(fc_rule_t), targets : Seq(fc_target_t)]

FC_TARGET_CONTINUE == 0
FC_TARGET_STOP == 1
FC_TARGET_RETURN == 2
Failed == -1

\* The value list, its writes so far - for each the plugins named, where {}
\* stands for all of them -, and the status of the last target or chain.
Fresh(v) == [v |-> v, writes |-> <<>>, status |-> FC_TARGET_CONTINUE]

Way == [v : Value, writes : Seq(SUBSET Plugin), status : Failed..FC_TARGET_RETURN]

Ended(r) == r.status \in {FC_TARGET_STOP, FC_TARGET_RETURN}
Status(r, s) == [r EXCEPT !.status = s]

\* Jumps: call is what the chains do, a function of their names.
\* (Definitions named X_Y are X with a mistake Y: they are used only to show
\* that the properties notice it.)
fc_bit_jump_invoke_PassesReturn(call, t, r) ==
  IF t.chain \in DOMAIN call THEN call[t.chain][r] ELSE Status(r, Failed)
fc_bit_jump_invoke(call, t, r) ==
  IF t.chain \notin DOMAIN call THEN Status(r, Failed)
  ELSE IF call[t.chain][r].status = FC_TARGET_STOP THEN call[t.chain][r]
  ELSE Status(call[t.chain][r], FC_TARGET_CONTINUE)

\* What the write plugins return does not matter.
fc_bit_write_invoke(plugins, r) ==
  [r EXCEPT !.writes = Append(@, plugins), !.status = FC_TARGET_CONTINUE]

Invoke(call, t, r) ==
  CASE t.name = "jump" -> fc_bit_jump_invoke(call, t, r)
    [] t.name = "stop" -> Status(r, FC_TARGET_STOP)
    [] t.name = "return" -> Status(r, FC_TARGET_RETURN)
    [] t.name = "write" -> fc_bit_write_invoke(t.plugins, r)
    [] t.name = "set" -> [r EXCEPT !.v = t.to[@], !.status = FC_TARGET_CONTINUE]
    [] t.name = "fail" -> Status(r, Failed)

\* Both loops over targets: a target that fails does not end them.
NextTarget(call, t, x) == IF Ended(x) THEN x ELSE Invoke(call, t, x)

Targets(call, ts, r) ==
  LET done[i \in 0..Len(ts)] ==
        IF i = 0 THEN Status(r, FC_TARGET_CONTINUE) ELSE NextTarget(call, ts[i], done[i - 1])
  IN  done[Len(ts)]

\* The loop over the rules ...
NextRule(call, rule, x) ==
  IF Ended(x) THEN x
  ELSE IF x.v \in rule.match THEN Targets(call, rule.targets, x)
  ELSE Status(x, FC_TARGET_CONTINUE)

Rules(call, rules, r) ==
  LET done[i \in 0..Len(rules)] ==
        IF i = 0 THEN Status(r, FC_TARGET_CONTINUE) ELSE NextRule(call, rules[i], done[i - 1])
  IN  done[Len(rules)]

\* ... and then the default targets.
ProcessChain(call, chain, r) ==
  LET x == Rules(call, chain.rules, r)
      default == Targets(call, chain.targets, x)
  IN  IF Ended(x) THEN x
      ELSE IF default.status = FC_TARGET_STOP THEN default
      ELSE Status(default, FC_TARGET_CONTINUE)

\* Chains that do not call each other in a circle are nested at most as deep as
\* there are chains: what they do to depth n, as functions of their names.
ProcessChains(chains, n) ==
  LET process[depth \in 0..n] ==
        [c \in DOMAIN chains |->
          [r \in Way |-> IF depth = 0 THEN r ELSE ProcessChain(process[depth - 1], chains[c], r)]]
  IN  process[n]

fc_process_chain(chains, c, r) == ProcessChains(chains, Cardinality(DOMAIN chains))[c][r]

fc_default_action(r) == fc_bit_write_invoke({}, r)
=============================================================================
