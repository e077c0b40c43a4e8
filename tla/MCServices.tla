----------------------------- MODULE MCServices -----------------------------
(* Instances of Bridge, Routing and ContextBroker for TLC, in one run.  The *)
(* three share no state and never call one another: from its initial state *)
(* each goes its way while the others rest, which gives every state and    *)
(* every step of each.                                                     *)
EXTENDS MCBridge, MCRouting, MCContextBroker

AtRest == config.rules = <<>>

ServicesInit == Init /\ RouterInit /\ BrokerInit

BridgeStep ==
  /\ RouterInit /\ AtRest /\ BrokerInit
  /\ Next
  /\ UNCHANGED <<routerVars, brokerVars>>

RouterStep ==
  /\ Init /\ BrokerInit
  /\ RouterNext
  /\ UNCHANGED <<bridgeVars, brokerVars>>

BrokerStep ==
  /\ Init /\ RouterInit /\ AtRest
  /\ BrokerNext
  /\ UNCHANGED <<bridgeVars, routerVars>>

ServicesSpec ==
  ServicesInit /\ [][BridgeStep \/ RouterStep \/ BrokerStep]_<<bridgeVars, routerVars, brokerVars>>

(* Messages are alike, and so are clients; no liveness is checked.  Where  *)
(* messages differ the clients are at rest, so that the exchange of the    *)
(* clients can go with the odd permutations of the messages: half of the   *)
(* products have all the symmetry of both.                                 *)
Odd(p) == Cardinality({m \in DOMAIN p : p[m] = m}) = Cardinality(DOMAIN p) - 2

Symmetry ==
  {p @@ q : p \in {f \in MessageSymmetry : ~ Odd(f)}, q \in {[x \in Client |-> x]}} \union
  {p @@ q : p \in {f \in MessageSymmetry : Odd(f)},
            q \in {f \in ClientSymmetry : f # [x \in Client |-> x]}}
=============================================================================
