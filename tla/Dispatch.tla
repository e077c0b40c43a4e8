------------------------------ MODULE Dispatch ------------------------------
(***************************************************************************)
(* Requests through the daemon: the handlers of DaemonServer that forward  *)
(* work to a node (POST /api/agent, the send method, raw Clawverse         *)
(* messages), the pending calls of BaseTransport with their 30 s timers,   *)
(* the Router's connection counts, and the pending call of the client that *)
(* made the request.                                                       *)
(*                                                                         *)
(* The connection of each node is one link of NodeLink, which              *)
(* NodeConnection implements for each dial; the second connection of a     *)
(* node that was dialed twice is not followed here.  A handler runs to its *)
(* await in one step; a reply, a timer or a close event settles the call   *)
(* and runs the rest of the handler in the same step.                      *)
(***************************************************************************)
EXTENDS Naturals, Sequences, FiniteSets

CONSTANTS
  Request,         \* requests, each made once
  Node,
  Pooled,          \* nodes that have a transport in the pool
  Targets,         \* routing.default.targets, in order
  Kinds,           \* the kinds of request clients make, a subset of AllKinds
  RpcTimeout       \* 30 s, in ticks: BaseTransport.call and DaemonClient.call

AllKinds == {"agent", "delegate", "message", "forward"}

ASSUME DispatchAssumption ==
  /\ IsFiniteSet(Request)
  /\ Pooled \subseteq Node
  /\ Targets \in Seq(Node)
  /\ Kinds \subseteq AllKinds
  /\ RpcTimeout \in Nat \ {0}

VARIABLES
  link,    \* per node: the state of its connection, as in NodeLink
  health,  \* per node: Router.nodeHealth
  counts,  \* per node: Router.connectionCounts
  pend,    \* per node: the requests in the transport's pendingCalls
  work,    \* per node: requests the gateway has received over this connection
           \* and not answered
  kind,    \* per request
  target,  \* per request: the node it was sent to
  outcome, \* per request: how the daemon's handler ended
  client,  \* per request: what its client saw
  age      \* per request: ticks since the call, while it is pending

nodeVars == <<link, health, counts, pend, work>>
reqVars == <<kind, target, outcome, client, age>>
vars == <<nodeVars, reqVars>>

LinkStates == {"idle", "dialing", "up", "closing", "waiting"}
Outcomes == {"new", "pending", "ok", "failed", "timeout", "closed", "refused"}

(* An answered client has "ok" or "error"; one that gave up or whose       *)
(* connection was closed was rejected on its own side, without an answer.  *)
Sights == {"new", "waiting", "ok", "error", "gaveUp", "cutOff"}

TypeOK ==
  /\ link \in [Node -> LinkStates]
  /\ health \in [Node -> {"unknown", "up", "down"}]
  /\ counts \in [Node -> Nat]
  /\ pend \in [Node -> SUBSET Request]
  /\ work \in [Node -> SUBSET Request]
  /\ kind \in [Request -> AllKinds \cup {"none"}]
  /\ target \in [Request -> Node \cup {"none"}]
  /\ outcome \in [Request -> Outcomes]
  /\ client \in [Request -> Sights]
  /\ age \in [Request -> 0..RpcTimeout]

Init ==
  /\ link = [n \in Node |-> "idle"]
  /\ health = [n \in Node |-> "unknown"]
  /\ counts = [n \in Node |-> 0]
  /\ pend = [n \in Node |-> {}]
  /\ work = [n \in Node |-> {}]
  /\ kind = [r \in Request |-> "none"]
  /\ target = [r \in Request |-> "none"]
  /\ outcome = [r \in Request |-> "new"]
  /\ client = [r \in Request |-> "new"]
  /\ age = [r \in Request |-> 0]

-----------------------------------------------------------------------------
(* Operators whose comment begins with "Mutant" are faults that the checks  *)
(* of the properties are tried on; no specification uses them.             *)

(* Mutant of Answered: an error is reported as a success. *)
AnsweredOk(r, out) == IF client[r] # "waiting" THEN client[r] ELSE "ok"

(* What the client of r makes of an answer that comes now: nothing after   *)
(* it gave up or was cut off, and a raw message has no answer.             *)
Answered(r, out) ==
  IF client[r] # "waiting" THEN client[r] ELSE IF out = "ok" THEN "ok" ELSE "error"

(* Mutant of Finish: of several rejected calls one is settled. *)
FinishOne(R, out) ==
  LET first(r) == r \in R /\ r = CHOOSE x \in R : TRUE
  IN  /\ outcome' = [r \in Request |-> IF first(r) THEN out ELSE outcome[r]]
      /\ client' = [r \in Request |-> IF first(r) THEN Answered(r, out) ELSE client[r]]
      /\ age' = [r \in Request |-> IF first(r) THEN 0 ELSE age[r]]
      /\ UNCHANGED <<kind, target>>

(* The handlers of the requests R run to their end with the given outcome. *)
Finish(R, out) ==
  /\ outcome' = [r \in Request |-> IF r \in R THEN out ELSE outcome[r]]
  /\ client' = [r \in Request |-> IF r \in R THEN Answered(r, out) ELSE client[r]]
  /\ age' = [r \in Request |-> IF r \in R THEN 0 ELSE age[r]]
  /\ UNCHANGED <<kind, target>>

(* Raw messages are not counted as connections. *)
Counted(R) == {r \in R : kind[r] # "forward"}

(* Mutant of Decrement: a close gives back one count for all its calls. *)
DecrementOnce(n, R) ==
  counts' = [counts EXCEPT ![n] = IF Counted(R) = {} \/ @ = 0 THEN @ ELSE @ - 1]

(* Router.decrementConnections, once for each of the requests R of n. *)
Decrement(n, R) ==
  LET k == Cardinality(Counted(R))
  IN  counts' = [counts EXCEPT ![n] = IF @ >= k THEN @ - k ELSE 0]

-----------------------------------------------------------------------------
(* Routing: the targets the router takes for healthy, and the choice of    *)
(* LeastConnectionsStrategy, the first of the least loaded.                *)
Healthy == {i \in DOMAIN Targets : health[Targets[i]] # "down"}

(* Mutant of LeastLoaded: the first healthy target. *)
FirstHealthy(i) == \A j \in Healthy : i <= j

LeastLoaded(i) ==
  \A j \in Healthy :
    \/ counts[Targets[i]] < counts[Targets[j]]
    \/ counts[Targets[i]] = counts[Targets[j]] /\ i <= j

(* A request that is answered before anything is sent. *)
Refuse(r, k, n, out) ==
  /\ kind' = [kind EXCEPT ![r] = k]
  /\ target' = [target EXCEPT ![r] = n]
  /\ outcome' = [outcome EXCEPT ![r] = out]
  /\ client' = [client EXCEPT ![r] = IF k = "forward" THEN "new" ELSE "error"]
  /\ UNCHANGED <<nodeVars, age>>

(* transport.call: on an open socket the request is sent and pending.      *)
Send(r, k, n) ==
  /\ kind' = [kind EXCEPT ![r] = k]
  /\ target' = [target EXCEPT ![r] = n]
  /\ outcome' = [outcome EXCEPT ![r] = "pending"]
  /\ client' = [client EXCEPT ![r] = IF k = "forward" THEN "new" ELSE "waiting"]
  /\ pend' = [pend EXCEPT ![n] = @ \cup {r}]
  /\ work' = [work EXCEPT ![n] = @ \cup {r}]
  /\ counts' = [counts EXCEPT ![n] = IF k = "forward" THEN @ ELSE @ + 1]
  /\ UNCHANGED <<link, health, age>>

(* Handing request r to node n: there may be no transport; its socket may  *)
(* not be open, and the call throws (a count taken is given back); while   *)
(* the link is dialing the socket may be open already, and the request is  *)
(* sent before the handshake is done.                                      *)
Handle(r, k, n) ==
  \/ n \notin Pooled /\ Refuse(r, k, n, "refused")
  \/ n \in Pooled /\ link[n] # "up" /\ Refuse(r, k, n, "failed")
  \/ n \in Pooled /\ link[n] \in {"dialing", "up"} /\ Send(r, k, n)

(* POST /api/agent: the router chooses the node. *)
HandleAgent(r) ==
  /\ outcome[r] = "new" /\ "agent" \in Kinds
  /\ \/ Healthy = {} /\ Refuse(r, "agent", "none", "refused")
     \/ \E i \in Healthy : LeastLoaded(i) /\ Handle(r, "agent", Targets[i])

(* The send method, a delegate with a timeout or a plain message: the      *)
(* message names its node, healthy or not.                                 *)
HandleSend(r) ==
  /\ outcome[r] = "new"
  /\ \E k \in Kinds \cap {"delegate", "message"}, n \in Node : Handle(r, k, n)

(* A raw message on the daemon's socket; the topology may deny it.         *)
HandleMessage(r) ==
  /\ outcome[r] = "new" /\ "forward" \in Kinds
  /\ \E n \in Node : Refuse(r, "forward", n, "refused") \/ Handle(r, "forward", n)

-----------------------------------------------------------------------------
(* A reply of the gateway over the connection the request came by.  Only   *)
(* a call still pending is settled.  transport.send does not look at the   *)
(* reply: a plain message is a success even when the gateway says error.   *)
Reply(r, n, ok) ==
  /\ r \in work[n] /\ link[n] \in {"dialing", "up", "closing"}
  /\ work' = [work EXCEPT ![n] = @ \ {r}]
  /\ UNCHANGED <<link, health>>
  /\ \/ /\ r \notin pend[n]
        /\ UNCHANGED <<counts, pend, reqVars>>
     \/ /\ r \in pend[n]
        /\ pend' = [pend EXCEPT ![n] = @ \ {r}]
        /\ Decrement(n, {r})
        /\ Finish({r}, IF ok \/ kind[r] \in {"message", "forward"} THEN "ok" ELSE "failed")

(* Mutant of RpcTimer: the timer is lost when the link is hung up. *)
RpcTimerIfUp(r, n) ==
  /\ r \in pend[n] /\ age[r] = RpcTimeout /\ link[n] = "up"
  /\ pend' = [pend EXCEPT ![n] = @ \ {r}]
  /\ Decrement(n, {r})
  /\ Finish({r}, "timeout")
  /\ UNCHANGED <<link, health, work>>

(* The 30 s timer of the call. *)
RpcTimer(r, n) ==
  /\ r \in pend[n] /\ age[r] = RpcTimeout
  /\ pend' = [pend EXCEPT ![n] = @ \ {r}]
  /\ Decrement(n, {r})
  /\ Finish({r}, "timeout")
  /\ UNCHANGED <<link, health, work>>

(* The 30 s timer of DaemonClient.call: the client of the send method      *)
(* stops waiting, and the daemon is not told.                              *)
ClientGivesUp(r) ==
  /\ client[r] = "waiting" /\ kind[r] \in {"delegate", "message"}
  /\ outcome[r] = "pending" /\ age[r] = RpcTimeout
  /\ client' = [client EXCEPT ![r] = "gaveUp"]
  /\ UNCHANGED <<nodeVars, kind, target, outcome, age>>

(* The close event of the client's own connection: its call is rejected    *)
(* with 'Connection closed' whenever that is, and the handler, if it is    *)
(* still at work, goes on and answers nobody.                              *)
ClientCutOff(r) ==
  /\ client[r] = "waiting"
  /\ client' = [client EXCEPT ![r] = "cutOff"]
  /\ UNCHANGED <<nodeVars, kind, target, outcome, age>>

Pending == UNION {pend[n] : n \in Node}

(* Time passes for every pending call; no timer that is due is overtaken.  *)
Tick ==
  /\ Pending # {}
  /\ \A r \in Pending : age[r] < RpcTimeout
  /\ age' = [r \in Request |-> IF r \in Pending THEN age[r] + 1 ELSE age[r]]
  /\ UNCHANGED <<nodeVars, kind, target, outcome, client>>

-----------------------------------------------------------------------------
(* The link of a node. *)
SetLink(n, st) == link' = [link EXCEPT ![n] = st]

Dial(n) ==
  /\ n \in Pooled /\ link[n] \in {"idle", "waiting"}
  /\ SetLink(n, "dialing")
  /\ health' = [health EXCEPT ![n] = IF @ = "unknown" THEN "down" ELSE @]
  /\ UNCHANGED <<counts, pend, work, reqVars>>

Establish(n) ==
  /\ link[n] = "dialing"
  /\ SetLink(n, "up")
  /\ health' = [health EXCEPT ![n] = "up"]
  /\ UNCHANGED <<counts, pend, work, reqVars>>

(* The registry marks the node after an error or a rejected connect(), the *)
(* late rejection of an earlier attempt included.                          *)
MarkedDown(n) ==
  /\ health[n] = "up"
  /\ health' = [health EXCEPT ![n] = "down"]
  /\ UNCHANGED <<link, counts, pend, work, reqVars>>

HangUp(n) ==
  /\ link[n] \in {"dialing", "up"}
  /\ SetLink(n, "closing")
  /\ UNCHANGED <<health, counts, pend, work, reqVars>>

(* The close event: every pending call of the transport is rejected, and   *)
(* replies still to come are lost with the connection.                     *)
Lose(n) ==
  /\ link[n] \in {"dialing", "up", "closing"}
  /\ SetLink(n, "waiting")
  /\ health' = [health EXCEPT ![n] = "down"]
  /\ pend' = [pend EXCEPT ![n] = {}]
  /\ work' = [work EXCEPT ![n] = {}]
  /\ Decrement(n, pend[n])
  /\ Finish(pend[n], "closed")

-----------------------------------------------------------------------------
LinkStep(n) == Dial(n) \/ Establish(n) \/ MarkedDown(n) \/ HangUp(n) \/ Lose(n)

CallStep(r) ==
  \/ HandleAgent(r) \/ HandleSend(r) \/ HandleMessage(r)
  \/ ClientGivesUp(r) \/ ClientCutOff(r)
  \/ \E n \in Node : RpcTimer(r, n) \/ \E ok \in BOOLEAN : Reply(r, n, ok)

Next == Tick \/ (\E n \in Node : LinkStep(n)) \/ (\E r \in Request : CallStep(r))

Spec == Init /\ [][Next]_vars

(* Only time and the two timers are fair: gateways and networks are not.   *)
Fairness ==
  /\ WF_vars(Tick)
  /\ \A r \in Request : WF_vars(ClientGivesUp(r)) /\ \A n \in Node : WF_vars(RpcTimer(r, n))

FairSpec == Spec /\ Fairness

-----------------------------------------------------------------------------
(* The requests whose handler is between its call and its answer. *)
InFlight(n) == {r \in Request : outcome[r] = "pending" /\ target[r] = n}

(* The router's connection count of a node is the number of counted        *)
(* requests in flight to it: no error path, timeout, late reply or close   *)
(* leaks a count or gives one back twice.                                  *)
CountsExact == \A n \in Node : counts[n] = Cardinality(Counted(InFlight(n)))

(* A handler waits exactly while its call is in the pendingCalls of its    *)
(* node's transport: none waits for a call nobody will settle, and none is *)
(* settled after its answer.  A pending call is on a connection not closed.*)
PendingIsInFlight ==
  \A n \in Node :
    /\ pend[n] = InFlight(n)
    /\ pend[n] # {} => link[n] \in {"dialing", "up", "closing"}

(* An agent request goes to a node with the fewest requests in flight      *)
(* among those the router takes for healthy.                               *)
BalancedStep ==
  \A r \in Request :
    kind'[r] = "agent" /\ outcome[r] = "new" /\ outcome'[r] = "pending" =>
      \A i \in Healthy :
        Cardinality(Counted(InFlight(target'[r]))) <= Cardinality(Counted(InFlight(Targets[i])))
Balanced == [][BalancedStep]_vars

(* An answer a client has is what the daemon's handler did, whatever order *)
(* replies, timers and closes come in: success only if the handler ended   *)
(* well, an error only if it did not, and no client waits after its end.   *)
(* It is said of answers: a call rejected by the client's own timer or its *)
(* own close event may have ended well at the daemon, or may yet.          *)
ClientAgrees ==
  \A r \in Request :
    /\ client[r] = "ok" => outcome[r] = "ok"
    /\ client[r] = "waiting" => outcome[r] = "pending"
    /\ client[r] = "error" => outcome[r] \in {"failed", "timeout", "closed", "refused"}

(* Every accepted request is answered or given up by its client, even if   *)
(* the gateway never replies and the connection keeps failing.             *)
EveryRequestEnds == \A r \in Request : outcome[r] = "pending" ~> outcome[r] # "pending"
=============================================================================
