-------------------------- MODULE Dispatch_proofs --------------------------
(***************************************************************************)
(* Theorems about Dispatch for every finite set of requests, every set of  *)
(* nodes and every value of the timeouts.                                  *)
(***************************************************************************)
EXTENDS Dispatch, FiniteSetTheorems, TLAPS

(* The inductive invariant: the counts are exact because a handler waits   *)
(* exactly while its call is pending, so that each call is given back by   *)
(* the one event that removes it from pendingCalls.                        *)
DispatchInv == TypeOK /\ PendingIsInFlight /\ CountsExact

-----------------------------------------------------------------------------
(* Sets of requests are finite, and so are the counts taken from them.     *)
LEMMA CountedFinite ==
  ASSUME NEW R \in SUBSET Request
  PROVE  /\ IsFiniteSet(R) /\ IsFiniteSet(Counted(R))
         /\ Cardinality(Counted(R)) \in Nat
<1>1. IsFiniteSet(R)
  BY DispatchAssumption, FS_Subset DEF DispatchAssumption
<1>2. Counted(R) \in SUBSET R
  BY DEF Counted
<1>3. IsFiniteSet(Counted(R))
  BY <1>1, <1>2, FS_Subset
<1> QED BY <1>1, <1>3, FS_CardinalityType

LEMMA InFlightRequests == \A n \in Node : InFlight(n) \in SUBSET Request
BY DEF InFlight

-----------------------------------------------------------------------------
(* A request that is answered at once changes nothing in flight.           *)
LEMMA RefuseKeeps ==
  ASSUME DispatchInv, NEW r \in Request, NEW k \in AllKinds,
         NEW n \in Node \cup {"none"}, NEW out \in {"refused", "failed"},
         outcome[r] = "new", Refuse(r, k, n, out)
  PROVE  DispatchInv'
<1>1. TypeOK'
  BY DEF DispatchInv, TypeOK, Refuse, nodeVars, Outcomes, AllKinds, Sights
<1>2. \A m \in Node : InFlight(m)' = InFlight(m)
  BY DEF DispatchInv, TypeOK, Refuse, InFlight
<1>3. \A m \in Node : Counted(InFlight(m))' = Counted(InFlight(m))
  BY <1>2 DEF DispatchInv, TypeOK, Refuse, Counted, InFlight
<1> QED BY <1>1, <1>2, <1>3 DEF DispatchInv, PendingIsInFlight, CountsExact, Refuse, nodeVars

(* A request that is sent adds itself to what is pending and in flight.    *)
LEMMA SendKeeps ==
  ASSUME DispatchInv, NEW r \in Request, NEW k \in AllKinds, NEW n \in Node,
         link[n] \in {"dialing", "up"}, outcome[r] = "new", Send(r, k, n)
  PROVE  DispatchInv'
<1>1. TypeOK'
  BY DEF DispatchInv, TypeOK, Send, Outcomes, AllKinds, Sights
<1>2. /\ InFlight(n)' = InFlight(n) \cup {r}
      /\ r \notin InFlight(n)
      /\ \A m \in Node \ {n} : InFlight(m)' = InFlight(m)
  BY DEF DispatchInv, TypeOK, Send, InFlight
<1>3. PendingIsInFlight'
  BY <1>2 DEF DispatchInv, TypeOK, PendingIsInFlight, Send
<1>4. \A m \in Node \ {n} : Counted(InFlight(m))' = Counted(InFlight(m))
  BY <1>2 DEF DispatchInv, TypeOK, Send, Counted, InFlight
<1>5. Counted(InFlight(n))' =
        IF k = "forward" THEN Counted(InFlight(n)) ELSE Counted(InFlight(n)) \cup {r}
  BY <1>2 DEF DispatchInv, TypeOK, Send, Counted, InFlight
<1>6. r \notin Counted(InFlight(n)) /\ IsFiniteSet(Counted(InFlight(n)))
  BY <1>2, InFlightRequests, CountedFinite DEF Counted
<1>7. Cardinality(Counted(InFlight(n)) \cup {r}) = Cardinality(Counted(InFlight(n))) + 1
  BY <1>6, FS_AddElement
<1>8. counts'[n] = Cardinality(Counted(InFlight(n))')
  BY <1>5, <1>7 DEF DispatchInv, TypeOK, CountsExact, Send
<1>9. \A m \in Node \ {n} : counts'[m] = Cardinality(Counted(InFlight(m))')
  BY <1>4 DEF DispatchInv, TypeOK, CountsExact, Send
<1> QED BY <1>1, <1>3, <1>8, <1>9 DEF DispatchInv, CountsExact

(* The calls R of node n are settled together: by a reply, a timer or a    *)
(* close.  What each action does besides is in the hypotheses.             *)
LEMMA SettleKeeps ==
  ASSUME DispatchInv, NEW n \in Node, NEW R \in SUBSET pend[n],
         NEW out \in Outcomes \ {"new", "pending"},
         pend' = [pend EXCEPT ![n] = @ \ R],
         Decrement(n, R), Finish(R, out)
  PROVE  /\ counts' \in [Node -> Nat]
         /\ pend' \in [Node -> SUBSET Request]
         /\ outcome' \in [Request -> Outcomes]
         /\ client' \in [Request -> Sights]
         /\ age' \in [Request -> 0..RpcTimeout]
         /\ \A m \in Node : pend'[m] = InFlight(m)'
         /\ CountsExact'
<1> DEFINE C == Counted(InFlight(n))
<1>1. R \in SUBSET InFlight(n)
  BY DEF DispatchInv, PendingIsInFlight
<1>2. R \in SUBSET Request
  BY <1>1, InFlightRequests
<1>3. /\ InFlight(n)' = InFlight(n) \ R
      /\ \A m \in Node \ {n} : InFlight(m)' = InFlight(m)
  BY <1>1 DEF DispatchInv, TypeOK, Finish, InFlight
<1>4. \A m \in Node : pend'[m] = InFlight(m)'
  BY <1>3 DEF DispatchInv, TypeOK, PendingIsInFlight
<1>5. pend' \in [Node -> SUBSET Request]
  BY DEF DispatchInv, TypeOK
<1>6. outcome' \in [Request -> Outcomes]
  BY DEF DispatchInv, TypeOK, Finish, Outcomes
<1>7. client' \in [Request -> Sights]
  BY DEF DispatchInv, TypeOK, Finish, Answered, Sights
<1>8. age' \in [Request -> 0..RpcTimeout]
  BY DispatchAssumption DEF DispatchInv, TypeOK, Finish, DispatchAssumption
<1>9. /\ Counted(InFlight(n))' = C \ Counted(R)
      /\ \A m \in Node \ {n} : Counted(InFlight(m))' = Counted(InFlight(m))
  BY <1>3 DEF Finish, Counted
<1>10. /\ C \cap Counted(R) = Counted(R)
       /\ IsFiniteSet(C) /\ Cardinality(C) \in Nat
       /\ IsFiniteSet(Counted(R)) /\ Cardinality(Counted(R)) \in Nat
  BY <1>1, <1>2, InFlightRequests, CountedFinite DEF Counted
<1>11. Counted(R) \in SUBSET C
  BY <1>10
<1>12. Cardinality(Counted(R)) <= Cardinality(C)
  BY <1>10, <1>11, FS_Subset
<1>13. Cardinality(C \ Counted(R)) = Cardinality(C) - Cardinality(Counted(R))
  BY <1>10, FS_Difference
<1>14. counts' = [counts EXCEPT ![n] = Cardinality(C) - Cardinality(Counted(R))]
  BY <1>12 DEF DispatchInv, CountsExact, TypeOK, Decrement
<1>15. counts' \in [Node -> Nat]
  BY <1>10, <1>12, <1>14 DEF DispatchInv, TypeOK
<1>16. \A m \in Node : counts'[m] = Cardinality(Counted(InFlight(m))')
  BY <1>9, <1>13, <1>14 DEF DispatchInv, CountsExact, TypeOK
<1> QED BY <1>4, <1>5, <1>6, <1>7, <1>8, <1>15, <1>16 DEF CountsExact

-----------------------------------------------------------------------------
LEMMA InitInv == Init => DispatchInv
<1> SUFFICES ASSUME Init PROVE DispatchInv
  OBVIOUS
<1>1. TypeOK
  BY DispatchAssumption DEF Init, TypeOK, LinkStates, Outcomes, Sights, DispatchAssumption
<1>2. \A n \in Node : InFlight(n) = {} /\ Counted(InFlight(n)) = {}
  BY DEF Init, InFlight, Counted
<1>3. PendingIsInFlight
  BY <1>2 DEF Init, PendingIsInFlight
<1>4. CountsExact
  BY <1>2, FS_EmptySet DEF Init, CountsExact
<1> QED BY <1>1, <1>3, <1>4 DEF DispatchInv

LEMMA HandleKeeps ==
  ASSUME DispatchInv, NEW r \in Request, NEW k \in AllKinds, NEW n \in Node,
         outcome[r] = "new", Handle(r, k, n)
  PROVE  DispatchInv'
<1>1. CASE Refuse(r, k, n, "refused") \/ Refuse(r, k, n, "failed")
  BY <1>1, RefuseKeeps
<1>2. CASE n \in Pooled /\ link[n] \in {"dialing", "up"} /\ Send(r, k, n)
  BY <1>2, SendKeeps
<1> QED BY <1>1, <1>2 DEF Handle

(* Steps that settle no call: the variables of CountsExact are unchanged.  *)
LEMMA QuietKeeps ==
  ASSUME DispatchInv, UNCHANGED <<counts, pend, kind, target, outcome>>
  PROVE  CountsExact' /\ \A n \in Node : pend'[n] = InFlight(n)'
<1>1. \A n \in Node : InFlight(n)' = InFlight(n)
                      /\ Counted(InFlight(n))' = Counted(InFlight(n))
  BY DEF InFlight, Counted
<1> QED BY <1>1 DEF DispatchInv, PendingIsInFlight, CountsExact

LEMMA LinkKeeps ==
  ASSUME DispatchInv, NEW n \in Node, LinkStep(n)
  PROVE  DispatchInv'
<1>1. CASE Dial(n) \/ Establish(n) \/ MarkedDown(n) \/ HangUp(n)
  <2>1. TypeOK'
    BY <1>1 DEF DispatchInv, TypeOK, Dial, Establish, MarkedDown, HangUp, SetLink,
                reqVars, LinkStates
  <2>2. UNCHANGED <<counts, pend, kind, target, outcome>>
    BY <1>1 DEF Dial, Establish, MarkedDown, HangUp, reqVars
  <2>3. \A m \in Node : pend'[m] # {} => link'[m] \in {"dialing", "up", "closing"}
    BY <1>1, <2>2 DEF DispatchInv, TypeOK, PendingIsInFlight,
                      Dial, Establish, MarkedDown, HangUp, SetLink
  <2> QED BY <2>1, <2>2, <2>3, QuietKeeps DEF DispatchInv, PendingIsInFlight
<1>2. CASE Lose(n)
  <2>1. pend' = [pend EXCEPT ![n] = @ \ pend[n]]
    BY <1>2 DEF Lose
  <2>2. /\ counts' \in [Node -> Nat]
        /\ pend' \in [Node -> SUBSET Request]
        /\ outcome' \in [Request -> Outcomes]
        /\ client' \in [Request -> Sights]
        /\ age' \in [Request -> 0..RpcTimeout]
        /\ \A m \in Node : pend'[m] = InFlight(m)'
        /\ CountsExact'
    BY <1>2, <2>1, SettleKeeps DEF Lose, Outcomes
  <2>3. TypeOK'
    BY <1>2, <2>2 DEF DispatchInv, TypeOK, Lose, SetLink, Finish, LinkStates
  <2>4. \A m \in Node : pend'[m] # {} => link'[m] \in {"dialing", "up", "closing"}
    BY <1>2 DEF DispatchInv, TypeOK, PendingIsInFlight, Lose, SetLink
  <2> QED BY <2>2, <2>3, <2>4 DEF DispatchInv, PendingIsInFlight
<1> QED BY <1>1, <1>2 DEF LinkStep

LEMMA CallKeeps ==
  ASSUME DispatchInv, NEW r \in Request, CallStep(r)
  PROVE  DispatchInv'
<1>1. CASE HandleAgent(r)
  <2>1. CASE Refuse(r, "agent", "none", "refused")
    BY <1>1, <2>1, RefuseKeeps DEF HandleAgent, AllKinds
  <2>2. ASSUME NEW i \in Healthy, Handle(r, "agent", Targets[i]) PROVE DispatchInv'
    <3>1. Targets[i] \in Node
      BY DispatchAssumption DEF Healthy, DispatchAssumption
    <3> QED BY <1>1, <2>2, <3>1, HandleKeeps DEF HandleAgent, AllKinds
  <2> QED BY <1>1, <2>1, <2>2 DEF HandleAgent
<1>2. CASE HandleSend(r)
  BY <1>2, HandleKeeps DEF HandleSend, AllKinds
<1>3. CASE HandleMessage(r)
  BY <1>3, HandleKeeps, RefuseKeeps DEF HandleMessage, AllKinds
<1>4. CASE ClientGivesUp(r) \/ ClientCutOff(r)
  <2>1. TypeOK'
    BY <1>4 DEF DispatchInv, TypeOK, ClientGivesUp, ClientCutOff, nodeVars, Sights
  <2>2. UNCHANGED <<link, counts, pend, kind, target, outcome>>
    BY <1>4 DEF ClientGivesUp, ClientCutOff, nodeVars
  <2> QED BY <2>1, <2>2, QuietKeeps DEF DispatchInv, PendingIsInFlight
<1>5. ASSUME NEW n \in Node, NEW out \in Outcomes \ {"new", "pending"}, r \in pend[n],
             pend' = [pend EXCEPT ![n] = @ \ {r}], Decrement(n, {r}), Finish({r}, out),
             UNCHANGED <<link, health>>,
             work' \in [Node -> SUBSET Request]
      PROVE  DispatchInv'
  <2>1. /\ counts' \in [Node -> Nat]
        /\ pend' \in [Node -> SUBSET Request]
        /\ outcome' \in [Request -> Outcomes]
        /\ client' \in [Request -> Sights]
        /\ age' \in [Request -> 0..RpcTimeout]
        /\ \A m \in Node : pend'[m] = InFlight(m)'
        /\ CountsExact'
    BY <1>5, SettleKeeps
  <2>2. TypeOK'
    BY <1>5, <2>1 DEF DispatchInv, TypeOK, Finish
  <2>3. \A m \in Node : pend'[m] # {} => link'[m] \in {"dialing", "up", "closing"}
    BY <1>5 DEF DispatchInv, TypeOK, PendingIsInFlight
  <2> QED BY <2>1, <2>2, <2>3 DEF DispatchInv, PendingIsInFlight
<1>6. ASSUME NEW n \in Node, RpcTimer(r, n) PROVE DispatchInv'
  BY <1>5, <1>6 DEF RpcTimer, Outcomes, DispatchInv, TypeOK
<1>7. ASSUME NEW n \in Node, NEW ok \in BOOLEAN, Reply(r, n, ok) PROVE DispatchInv'
  <2>1. work' \in [Node -> SUBSET Request]
    BY <1>7 DEF Reply, DispatchInv, TypeOK
  <2>2. CASE r \notin pend[n]
    <3>1. UNCHANGED <<link, health, counts, pend, kind, target, outcome, client, age>>
      BY <1>7, <2>2 DEF Reply, reqVars
    <3>2. TypeOK'
      BY <2>1, <3>1 DEF DispatchInv, TypeOK
    <3> QED BY <3>1, <3>2, QuietKeeps DEF DispatchInv, PendingIsInFlight
  <2>3. CASE r \in pend[n]
    BY <1>5, <1>7, <2>1, <2>3 DEF Reply, Outcomes
  <2> QED BY <2>2, <2>3
<1> QED BY <1>1, <1>2, <1>3, <1>4, <1>6, <1>7 DEF CallStep

LEMMA TickKeeps == DispatchInv /\ Tick => DispatchInv'
<1> SUFFICES ASSUME DispatchInv, Tick PROVE DispatchInv'
  OBVIOUS
<1>1. age' \in [Request -> 0..RpcTimeout]
  <2>1. ASSUME NEW r \in Request, r \in Pending PROVE age[r] + 1 \in 0..RpcTimeout
    BY <2>1, DispatchAssumption DEF Tick, DispatchInv, TypeOK, DispatchAssumption
  <2> QED BY <2>1 DEF Tick, DispatchInv, TypeOK
<1>2. UNCHANGED <<link, health, work, client, counts, pend, kind, target, outcome>>
  BY DEF Tick, nodeVars
<1>3. TypeOK'
  BY <1>1, <1>2 DEF DispatchInv, TypeOK
<1> QED BY <1>2, <1>3, QuietKeeps DEF DispatchInv, PendingIsInFlight

LEMMA InvStep == DispatchInv /\ [Next]_vars => DispatchInv'
<1>1. CASE UNCHANGED vars
  <2>1. DispatchInv => TypeOK' /\ UNCHANGED <<link, counts, pend, kind, target, outcome>>
    BY <1>1 DEF vars, nodeVars, reqVars, DispatchInv, TypeOK
  <2> QED BY <2>1, QuietKeeps DEF DispatchInv, PendingIsInFlight
<1> QED BY <1>1, TickKeeps, LinkKeeps, CallKeeps DEF Next

-----------------------------------------------------------------------------
(* The router's connection counts are exact: whatever errors, timeouts,    *)
(* late replies and closes happen, a node's count is its requests in       *)
(* flight, which are those in its transport's pendingCalls.                *)
THEOREM CountsAreExact == Spec => [](TypeOK /\ PendingIsInFlight /\ CountsExact)
<1>1. DispatchInv => TypeOK /\ PendingIsInFlight /\ CountsExact
  BY DEF DispatchInv
<1> QED BY InitInv, InvStep, <1>1, PTL DEF Spec

(* What pendingCalls of a transport holds is exactly the handlers that wait *)
(* for it: none is settled twice, forgotten, or settled for another.       *)
THEOREM CallsAreInFlight == Spec => []PendingIsInFlight
<1>1. DispatchInv => PendingIsInFlight
  BY DEF DispatchInv
<1> QED BY InitInv, InvStep, <1>1, PTL DEF Spec

(* An agent request goes to a healthy node with the fewest requests in     *)
(* flight: the counts the strategy compares are what they stand for.       *)
LEMMA AgentBalanced ==
  ASSUME DispatchInv, NEW r \in Request, HandleAgent(r), outcome'[r] = "pending"
  PROVE  \A j \in Healthy :
           Cardinality(Counted(InFlight(target'[r]))) <= Cardinality(Counted(InFlight(Targets[j])))
<1>1. PICK i \in Healthy : LeastLoaded(i) /\ Handle(r, "agent", Targets[i])
  BY DEF HandleAgent, Refuse, DispatchInv, TypeOK
<1>2. target'[r] = Targets[i]
  BY <1>1 DEF Handle, Refuse, Send, DispatchInv, TypeOK
<1>3. \A j \in Healthy : Targets[j] \in Node
  BY DispatchAssumption DEF Healthy, DispatchAssumption
<1>4. \A j \in Healthy : counts[Targets[i]] <= counts[Targets[j]]
  BY <1>1, <1>3 DEF LeastLoaded, DispatchInv, TypeOK
<1> QED BY <1>2, <1>3, <1>4 DEF DispatchInv, CountsExact

LEMMA StepBalanced == DispatchInv /\ [Next]_vars => BalancedStep
<1> SUFFICES ASSUME DispatchInv, [Next]_vars, NEW r \in Request,
                    kind'[r] = "agent", outcome[r] = "new", outcome'[r] = "pending"
             PROVE  HandleAgent(r)
  BY AgentBalanced DEF BalancedStep
<1>1. ~(UNCHANGED vars)
  BY DEF vars, reqVars
<1>2. ~Tick
  BY DEF Tick
<1>3. ASSUME NEW n \in Node PROVE ~LinkStep(n)
  BY DEF LinkStep, Dial, Establish, MarkedDown, HangUp, Lose, Finish, reqVars
<1>4. ASSUME NEW q \in Request, CallStep(q) PROVE HandleAgent(r)
  <2>1. \A n \in Node : ~RpcTimer(q, n) /\ \A ok \in BOOLEAN : ~Reply(q, n, ok)
    BY DEF RpcTimer, Reply, Finish, reqVars
  <2>2. ~ClientGivesUp(q) /\ ~ClientCutOff(q)
    BY DEF ClientGivesUp, ClientCutOff
  <2>3. ASSUME NEW k \in AllKinds, NEW n \in Node, Handle(q, k, n) PROVE q = r /\ k = "agent"
    BY <2>3 DEF Handle, Refuse, Send, DispatchInv, TypeOK
  <2>4. ASSUME NEW k \in AllKinds, NEW n \in Node \cup {"none"}
        PROVE  ~Refuse(q, k, n, "refused")
    BY DEF Refuse, DispatchInv, TypeOK
  <2>5. ~HandleSend(q) /\ ~HandleMessage(q)
    BY <2>3, <2>4 DEF HandleSend, HandleMessage, AllKinds
  <2>6. HandleAgent(q)
    BY <1>4, <2>1, <2>2, <2>5 DEF CallStep
  <2>7. PICK i \in Healthy : Handle(q, "agent", Targets[i])
    BY <2>4, <2>6 DEF HandleAgent, AllKinds
  <2>8. Targets[i] \in Node
    BY DispatchAssumption DEF Healthy, DispatchAssumption
  <2> QED BY <2>3, <2>6, <2>7, <2>8 DEF AllKinds
<1> QED BY <1>1, <1>2, <1>3, <1>4 DEF Next

THEOREM AgentsAreBalanced == Spec => Balanced
<1>1. DispatchInv /\ [Next]_vars => [BalancedStep]_vars
  BY StepBalanced
<1> QED BY InitInv, InvStep, <1>1, PTL DEF Spec, Balanced

(* The answer a client has is what the daemon's handler did, though its    *)
(* own timer or the close of its connection may leave it without one.      *)
LEMMA AgreesStep == DispatchInv /\ ClientAgrees /\ [Next]_vars => ClientAgrees'
<1> SUFFICES ASSUME DispatchInv, ClientAgrees, [Next]_vars PROVE ClientAgrees'
  OBVIOUS
<1>1. CASE UNCHANGED <<client, outcome>>
  BY <1>1 DEF ClientAgrees
<1>2. ASSUME NEW n \in Node, NEW R \in SUBSET pend[n],
             NEW out \in {"ok", "failed", "timeout", "closed"}, Finish(R, out)
      PROVE  ClientAgrees'
  <2>1. \A r \in R : r \in Request /\ outcome[r] = "pending"
    BY DEF DispatchInv, PendingIsInFlight, InFlight
  <2> QED BY <1>2, <2>1 DEF Finish, Answered, ClientAgrees, DispatchInv, TypeOK
<1>3. ASSUME NEW q \in Request, NEW k, NEW n, NEW out \in {"refused", "failed"},
             outcome[q] = "new", Refuse(q, k, n, out)
      PROVE  ClientAgrees'
  BY <1>3 DEF Refuse, ClientAgrees, DispatchInv, TypeOK
<1>4. ASSUME NEW q \in Request, NEW k, NEW n, outcome[q] = "new", Handle(q, k, n)
      PROVE  ClientAgrees'
  <2>1. CASE Send(q, k, n)
    BY <1>4, <2>1 DEF Send, ClientAgrees, DispatchInv, TypeOK
  <2> QED BY <1>3, <1>4, <2>1 DEF Handle
<1>5. CASE UNCHANGED vars \/ Tick
  BY <1>1, <1>5 DEF vars, reqVars, Tick
<1>6. ASSUME NEW n \in Node, LinkStep(n) PROVE ClientAgrees'
  <2>1. CASE Lose(n)
    BY <1>2, <2>1 DEF Lose
  <2> QED BY <1>1, <1>6, <2>1 DEF LinkStep, Dial, Establish, MarkedDown, HangUp, reqVars
<1>7. ASSUME NEW q \in Request, CallStep(q) PROVE ClientAgrees'
  <2>1. CASE HandleAgent(q) \/ HandleSend(q) \/ HandleMessage(q)
    BY <1>3, <1>4, <2>1 DEF HandleAgent, HandleSend, HandleMessage
  <2>2. CASE ClientGivesUp(q) \/ ClientCutOff(q)
    BY <2>2 DEF ClientGivesUp, ClientCutOff, ClientAgrees, DispatchInv, TypeOK
  <2>3. ASSUME NEW n \in Node, RpcTimer(q, n) PROVE ClientAgrees'
    BY <1>2, <2>3 DEF RpcTimer
  <2>4. ASSUME NEW n \in Node, NEW ok \in BOOLEAN, Reply(q, n, ok) PROVE ClientAgrees'
    BY <1>1, <1>2, <2>4 DEF Reply, reqVars
  <2> QED BY <1>7, <2>1, <2>2, <2>3, <2>4 DEF CallStep
<1> QED BY <1>5, <1>6, <1>7 DEF Next

THEOREM ClientsAgree == Spec => []ClientAgrees
<1>1. Init => ClientAgrees
  BY DEF Init, ClientAgrees
<1> QED BY InitInv, InvStep, AgreesStep, <1>1, PTL DEF Spec
=============================================================================
