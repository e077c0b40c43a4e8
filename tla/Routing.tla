------------------------------ MODULE Routing ------------------------------
(***************************************************************************)
(* The Router: rules in order of priority, the strategies that choose      *)
(* among several targets, the default and its fallback.  The router has    *)
(* ONE instance of each strategy, so that the index of the round-robin     *)
(* strategy is shared by all rules and the default, and moved by dry runs. *)
(*                                                                         *)
(* Connection counts, and what least-connections makes of them, are the    *)
(* matter of Dispatch; here that strategy chooses any healthy target.      *)
(***************************************************************************)
EXTENDS Integers, Sequences, SequencesExt

CONSTANTS
  Node,      \* node ids
  None,      \* what is absent
  Config,    \* routing configurations, with what the router reads of the nodes
  Context,   \* route contexts: [channel, source, session]
  Cycle      \* the round-robin index is kept modulo Cycle

Strategies == {"round-robin", "weighted", "random", "least-connections", "first-available"}

(* Decisions are made by a rule, by the default (0), or by none: the       *)
(* fallback, or a refusal.                                                 *)
Decision ==
  [context : Context, by : Nat, target : Node, dry : BOOLEAN] \union
  [context : Context, by : {None}, target : Node \union {None}, dry : BOOLEAN]

(* The schema admits these strategies only.  Modulo a common multiple of   *)
(* the lengths of the lists the index is as good as itself.                *)
ASSUME RoutingAssumption ==
  /\ None \notin Node \union Nat \union Decision
  /\ Cycle \in Nat \ {0}
  /\ \A c \in Config :
       /\ c.strategy \in Strategies
       /\ c.targets \in Seq(Node)
       /\ c.fallback \in Node \union {None}
       /\ \A n \in 1..Len(c.targets) : Cycle % n = 0
       /\ c.rules \in Seq(Range(c.rules))
       /\ \A i \in DOMAIN c.rules :
            LET r == c.rules[i] IN
            /\ r.strategy \in Strategies \union {None}
            /\ r.priority \in Int
            /\ r.target \in Node \union {None}
            /\ r.targets \in Seq(Node)
            /\ \A n \in 1..Len(r.targets) : Cycle % n = 0

VARIABLES
  config,    \* Router.config and Router.nodes
  health,    \* Router.nodeHealth
  index,     \* RoundRobinStrategy.index
  decision,  \* the decision of the latest step, if it made one
  served,    \* per list (0 is the default's): whom its current round has served
  tested     \* was there a dry run since health or configuration changed

routerVars == <<config, health, index, decision, served, tested>>

Rules == config.rules
Rank == DOMAIN Rules

RouterTypeOK ==
  /\ config \in Config
  /\ health \in [Node -> {"unknown", "up", "down"}]
  /\ index \in 0..(Cycle - 1)
  /\ decision \in Decision \union {None}
  /\ served \in [{0} \union Rank -> SUBSET Node]
  /\ tested \in BOOLEAN

NothingServed(c) == [l \in {0} \union DOMAIN c.rules |-> {}]

RouterInit ==
  /\ config \in Config
  /\ health = [n \in Node |-> "unknown"]
  /\ index = 0
  /\ decision = None
  /\ served = NothingServed(config)
  /\ tested = FALSE

-----------------------------------------------------------------------------
(* A node of which nothing is known is taken for healthy.                  *)
FilterHealthy(targets) ==
  LET kept[i \in 0..Len(targets)] ==
        IF i = 0 THEN <<>>
        ELSE IF health[targets[i]] # "down" THEN Append(kept[i - 1], targets[i]) ELSE kept[i - 1]
  IN  kept[Len(targets)]

(* What a strategy may answer.  Weighted picks by a random number in       *)
(* [0, total), and 0 itself picks the first whatever its weight.           *)
Weighted(healthy) ==
  LET heavy == {n \in Range(healthy) : config.weight[n] > 0}
  IN  IF heavy = {} THEN Range(healthy) ELSE heavy \union {healthy[1]}

Select(strategy, targets) ==
  LET healthy == FilterHealthy(targets) IN
  CASE healthy = <<>> -> {}
    [] healthy # <<>> /\ strategy = "round-robin" -> {healthy[(index % Len(healthy)) + 1]}
    [] healthy # <<>> /\ strategy = "first-available" -> {healthy[1]}
    [] healthy # <<>> /\ strategy = "weighted" -> Weighted(healthy)
    [] healthy # <<>> /\ strategy \in {"random", "least-connections"} -> Range(healthy)

(* A rule with one target does not use a strategy.  A list that is absent  *)
(* and an empty one differ only in what the capability is looked for in.   *)
StrategyOf(rule) == IF rule.strategy = None THEN "round-robin" ELSE rule.strategy

SelectFromRule(rule) ==
  IF rule.target # None THEN {rule.target} \ {n \in Node : health[n] = "down"}
  ELSE Select(StrategyOf(rule), rule.targets)

(* A pattern is the set of session keys it matches; a context without a    *)
(* session matches every pattern.                                          *)
MatchRule(rule, context) ==
  /\ rule.channel \in {None, context.channel}
  /\ rule.source \in {None, context.source}
  /\ rule.pattern = None \/ context.session = None \/ context.session \in rule.pattern
  /\ rule.capability = None
       \/ \E n \in (IF rule.listed THEN Range(rule.targets) ELSE {rule.target} \ {None}) :
            rule.capability \in config.capabilities[n]

(* The stable sort of the rules, as a sequence of their places.            *)
Precedes(rules, i, j) ==
  \/ rules[i].priority > rules[j].priority
  \/ rules[i].priority = rules[j].priority /\ i < j

(* Mutant of Sorted: the sort is the other way round. *)
SortedAscending(rules) ==
  CHOOSE order \in Bijection(DOMAIN rules, DOMAIN rules) :
    \A k, l \in DOMAIN rules : k < l => Precedes(rules, order[l], order[k])

Sorted(rules) ==
  CHOOSE order \in Bijection(DOMAIN rules, DOMAIN rules) :
    \A k, l \in DOMAIN rules : k < l => Precedes(rules, order[k], order[l])

(* The first rule in order that matches and has a healthy target, or 0.    *)
FirstRule(context) ==
  LET order == Sorted(Rules)
      k     == SelectInSeq(order, LAMBDA i :
                 MatchRule(Rules[i], context) /\ SelectFromRule(Rules[i]) # {})
  IN  IF k = 0 THEN 0 ELSE order[k]

-----------------------------------------------------------------------------
IsRoundRobin(l) ==
  IF l = 0 THEN config.strategy = "round-robin"
  ELSE Rules[l].target = None /\ StrategyOf(Rules[l]) = "round-robin"

TargetsOf(l) == IF l = 0 THEN config.targets ELSE Rules[l].targets

(* Mutant of Advance: the index wraps at the length of the whole list. *)
AdvanceWhole(l) ==
  index' = IF IsRoundRobin(l) THEN (index + 1) % Len(TargetsOf(l)) ELSE index

(* The strategy's index++.                                                 *)
Advance(l) == index' = IF IsRoundRobin(l) THEN (index + 1) % Cycle ELSE index

(* List l has chosen t: a round ends when it has served every healthy one. *)
Serve(l, t) ==
  served' = [served EXCEPT ![l] =
               LET round == served[l] \union {t}
               IN  IF Range(FilterHealthy(TargetsOf(l))) \subseteq round THEN {} ELSE round]

Choose(context, l, choices, dry) ==
  /\ \E t \in choices :
       /\ decision' = [context |-> context, by |-> l, target |-> t, dry |-> dry]
       /\ IF dry THEN UNCHANGED served ELSE Serve(l, t)
  /\ Advance(l)

(* routeDefault: without targets the fallback is not tried either.         *)
RouteDefault(context, dry) ==
  LET choices == Select(config.strategy, config.targets)
      healthyFallback == {config.fallback} \ ({None} \union {n \in Node : health[n] = "down"})
  IN
  \/ choices # {} /\ Choose(context, 0, choices, dry)
  \/ /\ choices = {}
     /\ decision' = [context |-> context, by |-> None, dry |-> dry,
                     target |-> IF config.targets # <<>> /\ healthyFallback # {}
                                THEN config.fallback ELSE None]
     /\ UNCHANGED <<index, served>>

Decide(context, dry) ==
  LET i == FirstRule(context) IN
  /\ \/ i # 0 /\ Choose(context, i, SelectFromRule(Rules[i]), dry)
     \/ i = 0 /\ RouteDefault(context, dry)
  /\ UNCHANGED <<config, health>>

Route(context) == Decide(context, FALSE) /\ UNCHANGED tested

(* testRoute also lists the rules that match and then routes.              *)
TestRoute(context) == Decide(context, TRUE) /\ tested' = TRUE

SetNodeHealth(n, h) ==
  /\ health[n] # h
  /\ health' = [health EXCEPT ![n] = h]
  /\ decision' = None
  /\ served' = NothingServed(config)
  /\ tested' = FALSE
  /\ UNCHANGED <<config, index>>

(* updateConfig and updateNodes, which a reload calls together.  The       *)
(* strategies and their index stay.                                        *)
UpdateConfig(c) ==
  /\ c # config
  /\ config' = c
  /\ decision' = None
  /\ served' = NothingServed(c)
  /\ tested' = FALSE
  /\ UNCHANGED <<health, index>>

RouterNext ==
  \/ \E context \in Context : Route(context) \/ TestRoute(context)
  \/ \E n \in Node, h \in {"up", "down"} : SetNodeHealth(n, h)
  \/ \E c \in Config : UpdateConfig(c)

RouterSpec == RouterInit /\ [][RouterNext]_routerVars

-----------------------------------------------------------------------------
(* What a list may choose from.                                            *)
Up(n) == health[n] # "down"
Candidates(rule) == {n \in {rule.target} \union Range(rule.targets) :
                       n # None /\ Up(n) /\ rule.target \in {None, n}}
Usable(context) == {i \in Rank : MatchRule(Rules[i], context) /\ Candidates(Rules[i]) # {}}
HealthyDefault == {n \in Range(config.targets) : Up(n)}

(* A request goes to a healthy node of the rule with the highest priority, *)
(* the first of these in the configuration, among those that match and     *)
(* have one; to one of the default only if there is no such rule, to the   *)
(* fallback only if the default has none, and nowhere only if all fail.    *)
DecisionSound ==
  decision # None =>
    LET usable == Usable(decision.context)
        by     == decision.by
        target == decision.target
    IN
    /\ target # None => Up(target)
    /\ by \in Rank =>
         /\ by \in usable /\ target \in Candidates(Rules[by])
         /\ \A j \in usable :
              /\ Rules[j].priority <= Rules[by].priority
              /\ Rules[j].priority = Rules[by].priority => by <= j
    /\ by \notin Rank => usable = {}
    /\ by = 0 => target \in HealthyDefault
    /\ by = None =>
         /\ HealthyDefault = {}
         /\ target # None => target = config.fallback
         /\ target = None /\ config.targets # <<>> /\ config.fallback # None => ~ Up(config.fallback)

(* A round-robin list serves each of its healthy targets once before it    *)
(* serves one again.                                                       *)
InTurn ==
  LET d == decision' IN
  d # None /\ d.by # None =>
    (IsRoundRobin(d.by) /\ ~ d.dry => d.target \notin served[d.by])

(* Alone: there is one such list and there were no dry runs.               *)
Alone ==
  /\ ~ tested
  /\ \A k, l \in {0} \union Rank :
       IsRoundRobin(k) /\ IsRoundRobin(l) /\ TargetsOf(k) # <<>> /\ TargetsOf(l) # <<>> => k = l

(* While health and configuration stay, a round-robin list that is alone   *)
(* rotates, wherever the shared index stands and whichever of its targets  *)
(* are down.                                                               *)
RotatesAlone == [][Alone => InTurn]_routerVars
=============================================================================
