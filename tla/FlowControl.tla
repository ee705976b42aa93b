---------------------------- MODULE FlowControl -----------------------------
(***************************************************************************)
(* "Flow control" of collectd.conf(5), as a list of what is still to do,   *)
(* with FilterChain, which follows the code, compared with it.  todo holds *)
(* the rest of the current chain, then the rest of the chain that called   *)
(* it, and so on: a chain that is called is done before the others go on,  *)
(* stop drops everything, and return drops the rest of the current chain.  *)
(***************************************************************************)
EXTENDS Dispatch

Item == fc_rule_t \cup fc_target_t

FlowState ==
  [todo : Seq(Seq(Item)), v : Value, writes : Seq(SUBSET Plugin),
   status : {FC_TARGET_CONTINUE, FC_TARGET_STOP}]

Agenda(chain) == chain.rules \o chain.targets

FlowTarget(t, rest, callers, s) ==
  LET later == <<rest>> \o callers
  IN  CASE t.name = "rule" ->
             [s EXCEPT !.todo = IF s.v \in t.match THEN <<t.targets \o rest>> \o callers
                                ELSE later]
        [] t.name = "jump" ->
             [s EXCEPT !.todo = IF t.chain \in DOMAIN chains
                                  THEN <<Agenda(chains[t.chain])>> \o later
                                ELSE later]
        [] t.name = "stop" -> [s EXCEPT !.todo = <<>>, !.status = FC_TARGET_STOP]
        [] t.name = "return" -> [s EXCEPT !.todo = callers]
        [] t.name = "write" -> [s EXCEPT !.todo = later, !.writes = Append(@, t.plugins)]
        [] t.name = "set" -> [s EXCEPT !.todo = later, !.v = t.to[@]]
        [] t.name = "fail" -> [s EXCEPT !.todo = later]

FlowStep(s) ==
  LET current == Head(s.todo)
      callers == Tail(s.todo)
  IN  IF current = <<>> THEN [s EXCEPT !.todo = callers]
      ELSE FlowTarget(Head(current), Tail(current), callers, s)

Flow[s \in FlowState] == IF s.todo = <<>> THEN s ELSE Flow[FlowStep(s)]

\* The value list v is at the beginning of chain c.
FlowStart(c, v) ==
  [todo |-> <<Agenda(chains[c])>>, v |-> v, writes |-> <<>>, status |-> FC_TARGET_CONTINUE]

-----------------------------------------------------------------------------
Jumps(ts) == {ts[i].chain : i \in {j \in 1..Len(ts) : ts[j].name = "jump"}}

\* The chains that chain c calls.
Called(c) ==
  Jumps(chains[c].targets) \cup
    UNION {Jumps(chains[c].rules[i].targets) : i \in 1..Len(chains[c].rules)}

\* The chains can be numbered such that each calls only chains with lower numbers.
NoCircle ==
  \E number \in [DOMAIN chains -> 1..Cardinality(DOMAIN chains)] :
    \A c \in DOMAIN chains : \A d \in Called(c) \cap DOMAIN chains : number[d] < number[c]

\* fc_process_chain takes every value list the way that "Flow control" in
\* collectd.conf(5) describes: the same writes, the same changes, the same end,
\* unless chains call each other in a circle.  This includes that stop leaves all
\* chains at once, which the manual denies where it describes the target jump.
FollowsFlowControl ==
  NoCircle =>
    \A v \in Value, c \in DOMAIN chains :
      LET code == fc_process_chain(chains, c, Fresh(v))
          flow == Flow[FlowStart(c, v)]
      IN  /\ code.v = flow.v /\ code.writes = flow.writes
          /\ (code.status = FC_TARGET_STOP) <=> (flow.status = FC_TARGET_STOP)
=============================================================================
