----------------------------- MODULE MCRouting -----------------------------
(* Instances of Routing for TLC. *)
EXTENDS Routing

CONSTANTS a, b, c

Rule(channel, target, targets, strategy, priority) ==
  [channel |-> channel, source |-> None, pattern |-> None, capability |-> None,
   target |-> target, targets |-> targets, listed |-> targets # <<>>,
   strategy |-> strategy, priority |-> priority]

Routing(rules, strategy, targets, fallback) ==
  [rules |-> rules, strategy |-> strategy, targets |-> targets, fallback |-> fallback,
   weight |-> [n \in Node |-> IF n = b THEN 0 ELSE 1],
   capabilities |-> [n \in Node |-> IF n = c THEN {"coding"} ELSE {}]]

(* One round-robin list; two of them; rules of equal and of different      *)
(* priority with every condition.                                          *)
MCConfig ==
  {Routing(<<>>, "round-robin", <<a, b, c>>, None),
   Routing(<<Rule("slack", None, <<a, c>>, None, 0)>>, "round-robin", <<a, b>>, c),
   Routing(<<Rule("slack", b, <<>>, None, 0),
             [Rule(None, None, <<b, c>>, "weighted", 1) EXCEPT !.capability = "coding",
                                                              !.pattern = {"main"}],
             Rule("slack", None, <<c, a>>, "random", 1)>>, "first-available", <<a, b>>, c),
   Routing(<<[Rule(None, None, <<b, a>>, "least-connections", 0) EXCEPT !.source = a]>>,
           "round-robin", <<>>, c)}

MCContext ==
  {[channel |-> "slack", source |-> None, session |-> "main"],
   [channel |-> None, source |-> a, session |-> "other"],
   [channel |-> "slack", source |-> None, session |-> None]}
=============================================================================
