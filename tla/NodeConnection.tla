--------------------------- MODULE NodeConnection ---------------------------
(***************************************************************************)
(* The connection of the daemon to ONE node: the node's transport          *)
(* (BaseTransport with UrlTransport, LocalTransport or SshTransport), the  *)
(* reconnect timers of the TransportPool, the NodeState the NodeRegistry   *)
(* keeps, and the health flag the Router is told.  Nodes do not share any  *)
(* of this, so one node is enough.                                         *)
(*                                                                         *)
(* The daemon is one JavaScript event loop: an action is one callback,     *)
(* run to completion together with the promise continuations (microtasks)  *)
(* it makes runnable.  Interleaving is that of callbacks: network events,  *)
(* the 10 s handshake timers, the reconnect timers, configuration reloads. *)
(*                                                                         *)
(* A Socket is a handle for one call of transport.connect(): the WebSocket *)
(* it creates, its handshake timer, and whoever awaits its promise.  A     *)
(* handle is free again when its socket is closed, its timer is off and    *)
(* its promise is settled.                                                 *)
(***************************************************************************)
EXTENDS Naturals, FiniteSets

CONSTANTS
  Socket,                \* handles of connection attempts
  Transport,             \* transport objects, one per registration of the node
  NoSocket, NoTransport, \* transport.ws = null, and a node that is not in the pool
  Ssh,                   \* TRUE for an SshTransport, FALSE for url and local ones
  MaxReconnectAttempts,  \* the pool's option of that name
  MaxDials               \* calls of registry.connect for one registration: 2 in the code

ASSUME ConnectionAssumption ==
  /\ NoSocket \notin Socket
  /\ NoTransport \notin Transport
  /\ Ssh \in BOOLEAN
  /\ MaxReconnectAttempts \in Nat \ {0}
  /\ MaxDials \in Nat \ {0}

VARIABLES
  wire,      \* per socket: where the tunnel and the WebSocket are
  phase,     \* per socket: how far the gateway's connect handshake is
  armed,     \* sockets whose 10 s timer of setupWebSocket is armed
  awaiter,   \* per socket: who awaits connect(): nobody, registry, reconnect
  owner,     \* per socket: the transport it was created by
  ws,        \* per transport: its field ws
  ssh,       \* per transport: its field sshProcess, as the attempt that spawned it
  status,    \* per transport: its field _status
  pooled,    \* the transport in TransportPool.transports, if any
  unused,    \* transport objects not created yet
  attempts,  \* TransportPool.reconnectAttempts of the node (0 when absent)
  timers,    \* scheduled reconnects of the node that have not fired
  regState,  \* NodeState.status in the registry, "none" when not registered
  due,       \* calls of registry.connect still to come for this registration
  dialed,    \* those that have been made
  health,    \* Router.nodeHealth of the node
  stable     \* the environment makes no more faults

sockVars == <<wire, phase, armed, awaiter, owner>>
poolVars == <<ws, ssh, status, pooled, unused, attempts, timers>>
regVars  == <<regState, due, dialed, health>>
vars == <<sockVars, poolVars, regVars, stable>>

WireState == {"closed", "tunnel", "stuck", "opening", "open", "closing", "aborting"}
Phase     == {"waiting", "challenged", "authed", "failed"}
Status    == {"disconnected", "connecting", "connected", "error"}

TypeOK ==
  /\ wire \in [Socket -> WireState]
  /\ phase \in [Socket -> Phase]
  /\ armed \subseteq Socket
  /\ awaiter \in [Socket -> {"nobody", "registry", "reconnect"}]
  /\ owner \in [Socket -> Transport \cup {NoTransport}]
  /\ ws \in [Transport -> Socket \cup {NoSocket}]
  /\ ssh \in [Transport -> Socket \cup {NoSocket}]
  /\ status \in [Transport -> Status]
  /\ pooled \in Transport \cup {NoTransport}
  /\ unused \subseteq Transport
  /\ attempts \in 0..MaxReconnectAttempts
  /\ timers \in Nat
  /\ regState \in Status \cup {"none"}
  /\ due \in Nat /\ dialed \in Nat /\ due + dialed <= MaxDials
  /\ health \in {"unknown", "up", "down"}
  /\ stable \in BOOLEAN

Live(s) == wire[s] # "closed"
Idle(s) == wire[s] = "closed" /\ s \notin armed /\ awaiter[s] = "nobody"

-----------------------------------------------------------------------------
(* The initial state: the node has just been registered.  One registered   *)
(* by start is dialed by connectAll.  One registered by a reload is dialed *)
(* by the reload, and once more by a connectAll that is still running and  *)
(* comes to it later, since it iterates the live Map of the nodes.         *)
Init ==
  /\ wire = [s \in Socket |-> "closed"]
  /\ phase = [s \in Socket |-> "waiting"]
  /\ armed = {}
  /\ awaiter = [s \in Socket |-> "nobody"]
  /\ owner = [s \in Socket |-> NoTransport]
  /\ ws = [t \in Transport |-> NoSocket]
  /\ ssh = [t \in Transport |-> NoSocket]
  /\ status = [t \in Transport |-> "disconnected"]
  /\ pooled \in Transport
  /\ unused = Transport \ {pooled}
  /\ attempts = 0
  /\ timers = 0
  /\ regState = "disconnected"
  /\ due \in 1..MaxDials /\ dialed = 0
  /\ health = "unknown"
  /\ stable = FALSE

-----------------------------------------------------------------------------
(* Operators whose comment begins with "Mutant" are faults that the checks  *)
(* of the properties are tried on; no specification uses them.             *)

(* Mutant of UpdateState: the router hears only of new connections. *)
UpdateStateQuietly(st) ==
  IF regState = "none"
  THEN UNCHANGED <<regState, health>>
  ELSE /\ regState' = st
       /\ health' = IF st = "connected" THEN "up" ELSE health

(* Mutant of UpdateState: "disconnected" events are not handled. *)
UpdateStateLate(st) ==
  IF regState = "none" \/ st = "disconnected"
  THEN UNCHANGED <<regState, health>>
  ELSE /\ regState' = st
       /\ health' = IF st = "connected" THEN "up" ELSE "down"

(* NodeRegistry.updateState: no effect on a node that is not registered,   *)
(* otherwise the state handlers tell the router.                           *)
UpdateState(st) ==
  IF regState = "none"
  THEN UNCHANGED <<regState, health>>
  ELSE /\ regState' = st
       /\ health' = IF st = "connected" THEN "up" ELSE "down"

(* Mutant of ScheduleReconnect: also at the "error" before a "close". *)
ScheduleAtErrorToo ==
  IF attempts < MaxReconnectAttempts
  THEN attempts' = attempts + 1 /\ timers' = timers + 2
  ELSE UNCHANGED <<attempts, timers>>

(* TransportPool.scheduleReconnect, run at every "disconnected" event. *)
ScheduleReconnect ==
  IF attempts < MaxReconnectAttempts
  THEN attempts' = attempts + 1 /\ timers' = timers + 1
  ELSE UNCHANGED <<attempts, timers>>

(* connect()'s promise settles; a second settlement changes nothing. *)
Settle(s) == awaiter' = [awaiter EXCEPT ![s] = "nobody"]

(* What the registry records when the promise of s is rejected after event *)
(* processing left it at st: the catch of registry.connect writes "error". *)
Rejected(s, st) == IF awaiter[s] = "registry" THEN "error" ELSE st

(* Mutant of StartSocket: the field ws is not assigned. *)
StartSocketUnassigned(s, t) ==
  /\ wire' = [wire EXCEPT ![s] = "opening"]
  /\ armed' = armed \cup {s}
  /\ status' = [status EXCEPT ![t] = "connecting"]
  /\ UNCHANGED ws

(* setupWebSocket: the new socket becomes transport.ws of t. *)
StartSocket(s, t) ==
  /\ wire' = [wire EXCEPT ![s] = "opening"]
  /\ armed' = armed \cup {s}
  /\ ws' = [ws EXCEPT ![t] = s]
  /\ status' = [status EXCEPT ![t] = "connecting"]

(* An ssh transport spawns its tunnel first, the others open the socket. *)
StartDial(s, who) ==
  /\ Idle(s)
  /\ owner' = [owner EXCEPT ![s] = pooled]
  /\ phase' = [phase EXCEPT ![s] = "waiting"]
  /\ awaiter' = [awaiter EXCEPT ![s] = who]
  /\ IF Ssh
     THEN /\ wire' = [wire EXCEPT ![s] = "tunnel"]
          /\ ssh' = [ssh EXCEPT ![pooled] = s]
          /\ UNCHANGED <<armed, ws, status>>
     ELSE StartSocket(s, pooled) /\ UNCHANGED ssh

(* Mutant of Dial: the attempts of a reconnect add up. *)
DialCounting(s, who) == StartDial(s, who) /\ UNCHANGED attempts

(* TransportPool.connect: the attempt counter is reset before the attempt. *)
Dial(s, who) == StartDial(s, who) /\ attempts' = 0

(* registry.connect, by connectAll or by the reload that registered the    *)
(* node: neither asks whether the other has dialed it, and the transport   *)
(* not whether it has a socket.                                            *)
RegistryConnect(s) ==
  /\ regState # "none" /\ due > 0
  /\ Dial(s, "registry")
  /\ due' = due - 1 /\ dialed' = dialed + 1
  /\ UpdateState("connecting")
  /\ UNCHANGED <<pooled, unused, timers, stable>>

(* A reconnect timer fires; pool.connect throws when the node is gone. *)
ReconnectTimer ==
  /\ timers > 0
  /\ timers' = timers - 1
  /\ UNCHANGED <<pooled, unused, regVars, stable>>
  /\ \/ /\ pooled = NoTransport
        /\ UNCHANGED <<sockVars, ws, ssh, status, attempts>>
     \/ /\ pooled # NoTransport
        /\ \E s \in Socket : Dial(s, "reconnect")

-----------------------------------------------------------------------------
(* The timer of startTunnel, one second after the spawn: the socket is     *)
(* created when the transport has an ssh process, be it a later one.  If a *)
(* disconnect has taken it, the promise stays unsettled.                   *)
TunnelTimer(s) ==
  /\ wire[s] = "tunnel"
  /\ IF ssh[owner[s]] # NoSocket
     THEN StartSocket(s, owner[s])
     ELSE wire' = [wire EXCEPT ![s] = "stuck"] /\ UNCHANGED <<armed, ws, status>>
  /\ UNCHANGED <<phase, awaiter, owner, ssh, pooled, unused, attempts, timers>>
  /\ UNCHANGED <<regVars, stable>>

(* ssh exits with an error before the promise is settled: it is rejected,  *)
(* and since no socket existed there is no event.                          *)
TunnelFail(s) ==
  /\ ~stable /\ wire[s] \in {"tunnel", "stuck"}
  /\ wire' = [wire EXCEPT ![s] = "closed"]
  /\ Settle(s)
  /\ UpdateState(Rejected(s, regState))
  /\ UNCHANGED <<phase, armed, owner, poolVars, due, dialed, stable>>

(* The WebSocket handshake is done. *)
Open(s) ==
  /\ wire[s] = "opening"
  /\ wire' = [wire EXCEPT ![s] = "open"]
  /\ UNCHANGED <<phase, armed, awaiter, owner, poolVars, regVars, stable>>

(* A socket that never opened emits "error" and then "close". *)
FailOpening(s) ==
  /\ wire' = [wire EXCEPT ![s] = "closed"]
  /\ armed' = armed \ {s}
  /\ status' = [status EXCEPT ![owner[s]] = "disconnected"]
  /\ ScheduleReconnect
  /\ Settle(s)
  /\ UpdateState(Rejected(s, "disconnected"))
  /\ UNCHANGED <<phase, owner, ws, ssh, pooled, unused, due, dialed, stable>>

(* The gateway cannot be reached, or disconnect() closed an opening socket. *)
Refused(s) ==
  /\ \/ wire[s] = "opening" /\ ~stable
     \/ wire[s] = "aborting"
  /\ FailOpening(s)

(* connect.challenge arrives and is answered with the connect request. *)
Challenge(s) ==
  /\ wire[s] = "open" /\ phase[s] = "waiting"
  /\ phase' = [phase EXCEPT ![s] = "challenged"]
  /\ UNCHANGED <<wire, armed, awaiter, owner, poolVars, regVars, stable>>

(* The gateway accepts; the answer may reach a socket that is closing. *)
AuthOk(s) ==
  /\ wire[s] \in {"open", "closing"} /\ phase[s] = "challenged"
  /\ phase' = [phase EXCEPT ![s] = "authed"]
  /\ armed' = armed \ {s}
  /\ status' = [status EXCEPT ![owner[s]] = "connected"]
  /\ UpdateState("connected")
  /\ attempts' = IF awaiter[s] = "reconnect" THEN 0 ELSE attempts
  /\ Settle(s)
  /\ UNCHANGED <<wire, owner, ws, ssh, pooled, unused, timers, due, dialed, stable>>

(* The gateway refuses the credentials: nothing closes the socket and the  *)
(* handshake timer stays armed.                                            *)
AuthFail(s) ==
  /\ ~stable
  /\ wire[s] \in {"open", "closing"} /\ phase[s] = "challenged"
  /\ phase' = [phase EXCEPT ![s] = "failed"]
  /\ Settle(s)
  /\ UpdateState(Rejected(s, regState))
  /\ UNCHANGED <<wire, armed, owner, poolVars, due, dialed, stable>>

(* A WebSocket protocol error on an open socket. *)
ProtocolError(s) ==
  /\ ~stable /\ wire[s] = "open"
  /\ wire' = [wire EXCEPT ![s] = "closing"]
  /\ armed' = armed \ {s}
  /\ status' = [status EXCEPT ![owner[s]] = "error"]
  /\ Settle(s)
  /\ UpdateState("error")
  /\ UNCHANGED <<phase, owner, ws, ssh, pooled, unused, attempts, timers, due, dialed, stable>>

(* The "close" event of an open or closing socket.  It does not touch the  *)
(* handshake timer nor the promise.                                        *)
Close(s) ==
  /\ wire[s] = "closing" \/ (wire[s] = "open" /\ ~stable)
  /\ wire' = [wire EXCEPT ![s] = "closed"]
  /\ status' = [status EXCEPT ![owner[s]] = "disconnected"]
  /\ ScheduleReconnect
  /\ UpdateState("disconnected")
  /\ UNCHANGED <<phase, armed, awaiter, owner, ws, ssh, pooled, unused, due, dialed, stable>>

(* The 10 s handshake timer: reject, then ws.close().  A stable gateway is *)
(* never too slow, so then the timer fires only for an attempt that is     *)
(* already lost.                                                           *)
Timeout(s) ==
  /\ s \in armed /\ wire[s] # "aborting"
  /\ stable => wire[s] \in {"closing", "closed"} \/ phase[s] = "failed"
  /\ \/ wire[s] = "opening" /\ FailOpening(s)
     \/ /\ wire[s] # "opening"
        /\ armed' = armed \ {s}
        /\ wire' = [wire EXCEPT ![s] = IF @ = "open" THEN "closing" ELSE @]
        /\ Settle(s)
        /\ UpdateState(Rejected(s, regState))
        /\ UNCHANGED <<phase, owner, poolVars, due, dialed, stable>>

Stabilise == ~stable /\ stable' = TRUE /\ UNCHANGED <<sockVars, poolVars, regVars>>

-----------------------------------------------------------------------------
(* Mutant of Disconnect: the ssh process is not stopped. *)
DisconnectSocketOnly ==
  LET closed(s) ==
        CASE s = ws[pooled] /\ wire[s] = "opening"  -> "aborting"
          [] s = ws[pooled] /\ wire[s] = "open"     -> "closing"
          [] OTHER -> wire[s]
  IN  /\ wire' = [s \in Socket |-> closed(s)]
      /\ ws' = [ws EXCEPT ![pooled] = NoSocket]
      /\ status' = [status EXCEPT ![pooled] = "disconnected"]
      /\ UNCHANGED ssh

(* BaseTransport.disconnect on the pooled transport: it closes the socket  *)
(* of the field ws, and no other, and emits "disconnected" at once; that   *)
(* socket's own "close" comes later.  SshTransport.disconnect also kills   *)
(* the ssh process of the field sshProcess, and forgets it.                *)
Disconnect ==
  LET closed(s) ==
        CASE s = ws[pooled] /\ wire[s] = "opening"  -> "aborting"
          [] s = ws[pooled] /\ wire[s] = "open"     -> "closing"
          [] OTHER -> wire[s]
  IN  /\ wire' = [s \in Socket |-> closed(s)]
      /\ ws' = [ws EXCEPT ![pooled] = NoSocket]
      /\ ssh' = [ssh EXCEPT ![pooled] = NoSocket]
      /\ status' = [status EXCEPT ![pooled] = "disconnected"]

(* registry.unregister (a reload without the node): disconnect, then the   *)
(* node leaves the pool and the registry.                                  *)
Unregister ==
  /\ regState # "none" /\ pooled # NoTransport
  /\ Disconnect
  /\ timers' = IF attempts < MaxReconnectAttempts THEN timers + 1 ELSE timers
  /\ attempts' = 0
  /\ pooled' = NoTransport
  /\ regState' = "none" /\ due' = 0
  /\ health' = "down"
  /\ UNCHANGED <<phase, armed, awaiter, owner, unused, dialed, stable>>

(* registry.register (a reload with the node again): a new transport.  The *)
(* events of an aborted socket come before another reload can run.         *)
Register ==
  /\ regState = "none" /\ pooled = NoTransport
  /\ \A s \in Socket : wire[s] # "aborting"
  /\ pooled' \in unused
  /\ unused' = unused \ {pooled'}
  /\ regState' = "disconnected"
  /\ due' \in 1..MaxDials /\ dialed' = 0
  /\ UNCHANGED <<sockVars, ws, ssh, status, attempts, timers, health, stable>>

(* registry.close: every transport is disconnected and the states are      *)
(* cleared, but the transport stays in the pool until the process exits.   *)
CloseRegistry ==
  /\ regState # "none"
  /\ Disconnect
  /\ ScheduleReconnect
  /\ regState' = "none" /\ due' = 0
  /\ health' = "down"
  /\ UNCHANGED <<phase, armed, awaiter, owner, pooled, unused, dialed, stable>>

-----------------------------------------------------------------------------
SocketStep(s) ==
  \/ RegistryConnect(s)
  \/ TunnelTimer(s) \/ TunnelFail(s)
  \/ Open(s) \/ Refused(s) \/ Challenge(s) \/ AuthOk(s) \/ AuthFail(s)
  \/ ProtocolError(s) \/ Close(s) \/ Timeout(s)

Operate == ReconnectTimer \/ \E s \in Socket : SocketStep(s)

(* Steady operation: the node stays registered. *)
SteadyNext == Operate \/ Stabilise

(* With configuration reloads and the shutdown of the registry. *)
Next == Operate \/ Unregister \/ Register \/ CloseRegistry

SteadySpec == Init /\ [][SteadyNext]_vars
Spec == Init /\ [][Next]_vars

(* Timers fire, the ws library completes closes and handshakes, and in the *)
(* end the environment is stable.                                          *)
Fairness ==
  /\ WF_vars(Stabilise) /\ WF_vars(ReconnectTimer)
  /\ WF_vars(\E s \in Socket : RegistryConnect(s))
  /\ \A s \in Socket :
       /\ WF_vars(TunnelTimer(s)) /\ WF_vars(Open(s)) /\ WF_vars(Challenge(s))
       /\ WF_vars(wire[s] = "open" /\ AuthOk(s))
       /\ WF_vars(wire[s] = "closing" /\ Close(s))
       /\ WF_vars(stable /\ Timeout(s))

FairSpec == SteadySpec /\ Fairness

-----------------------------------------------------------------------------
(* Properties of steady operation.                                         *)
LiveSet == {s \in Socket : Live(s)}
Authenticated(s) == Live(s) /\ phase[s] = "authed"

(* Every dial by the registry accounts for one link: at any time one       *)
(* connection, attempt or scheduled reconnect.  Every socket ends in one   *)
(* "close" event, which schedules one timer, which makes one socket; so a  *)
(* node that was dialed once never has two.                                *)
OneLinkPerDial == Cardinality(LiveSet) + timers <= dialed

(* After the first connect, a url or local transport always has either a   *)
(* socket or a scheduled reconnect: no path through the error, timeout and *)
(* close handlers drops the node, and the attempt counter, which every     *)
(* attempt resets, never reaches the limit that would.                     *)
KeepsTrying ==
  /\ dialed > 0 /\ ~Ssh => timers > 0 \/ \E s \in Socket : Live(s)
  /\ attempts <= timers

(* A transport reports "connected" only over an authenticated socket of    *)
(* its own.  Of a node that was dialed once, which has one socket at most, *)
(* the report is exact: it is that of its current socket, and an open,     *)
(* authenticated socket is never reported otherwise.                       *)
StatusTruthful ==
  \A t \in Transport :
    /\ status[t] = "connected" => \E s \in Socket : owner[s] = t /\ Authenticated(s)
    /\ dialed <= 1 =>
         /\ status[t] = "connected" => \E s \in Socket : ws[t] = s /\ Authenticated(s)
         /\ \A s \in Socket : owner[s] = t /\ wire[s] = "open" /\ phase[s] = "authed" =>
              ws[t] = s /\ status[t] = "connected"

(* The registry and the router never believe in a connection that is not   *)
(* there, whatever order events and promise settlements come in, nor, of a *)
(* node that was dialed once, in one that its transport does not report.   *)
RegistryNeverOptimistic ==
  /\ regState = "connected" => \E s \in Socket : Authenticated(s)
  /\ regState = "connected" /\ dialed <= 1 => status[pooled] = "connected"
  /\ health = "up" <=> regState = "connected"

(* The inductive invariant behind the four properties above: how many      *)
(* links there are (CountInv), where they are (LinkInv), and what is       *)
(* reported of them (ReportInv).                                           *)
CountInv == IsFiniteSet(LiveSet) /\ OneLinkPerDial

LinkInv ==
  /\ pooled \in Transport /\ regState # "none"
  /\ \A s \in Socket :
       /\ wire[s] # "aborting"
       /\ wire[s] \in {"tunnel", "stuck"} => Ssh
       /\ Live(s) => owner[s] = pooled
       /\ wire[s] \in {"tunnel", "stuck", "opening"} => phase[s] = "waiting"
       /\ awaiter[s] # "nobody" => phase[s] # "authed"
       /\ dialed <= 1 /\ wire[s] \in {"opening", "open", "closing"} => ws[pooled] = s
  /\ dialed <= 1 => \A s, t \in Socket : Live(s) /\ Live(t) => s = t
  /\ dialed <= 1 => timers = 0 \/ \A s \in Socket : ~Live(s)
  /\ dialed = 0 => timers = 0 /\ \A s \in Socket : ~Live(s)
  /\ KeepsTrying

ReportInv ==
  /\ \A t \in Transport : t # pooled => status[t] # "connected"
  /\ StatusTruthful
  /\ RegistryNeverOptimistic

SteadyInv == TypeOK /\ CountInv /\ LinkInv /\ ReportInv

(* When the environment stops making faults, a url or local node is        *)
(* connected again and stays so, whatever happened before.                 *)
Reconnects == ~Ssh => <>[](status[pooled] = "connected")

(* The same for a node behind an ssh tunnel. *)
SshReconnects == Ssh => <>[](status[pooled] = "connected")

(* The registry reports connected whenever the transport is connected. *)
RegistryTracksTransport == status[pooled] = "connected" => regState = "connected"

(* The steady connection of a url or local node implements NodeLink.  The  *)
(* stage of a socket, and how many links are at each stage:                *)
Stage(s) ==
  CASE wire[s] = "closed" -> "none"
    [] wire[s] = "closing" -> "closing"
    [] wire[s] = "open" /\ phase[s] = "authed" -> "up"
    [] OTHER -> "dialing"

linksAt ==
  [g \in {"dialing", "up", "closing", "waiting"} |->
     IF g = "waiting" THEN timers ELSE Cardinality({s \in Socket : Stage(s) = g})]

Link == INSTANCE NodeLink WITH links <- linksAt, dials <- dialed
LinkSpec == Link!Spec

-----------------------------------------------------------------------------
(* Properties across reloads and shutdown.                                 *)

(* Each registration of the node accounts for at most one connection or    *)
(* scheduled reconnect per dial and one for its removal: three in the      *)
(* code.  Removing and adding nodes leaks no more.                         *)
LeakBound ==
  Cardinality(LiveSet) + timers <= (MaxDials + 1) * Cardinality(Transport \ unused)

(* Even with the late events of removed transports, the registry reports   *)
(* connected only while some socket of the node is live and authenticated. *)
ConnectedIsBacked == regState = "connected" => \E s \in Socket : Authenticated(s)

(* A transport that left the pool opens no further WebSocket: not by a     *)
(* reconnect timer, nor by a tunnel that was starting when it was removed. *)
RemovedStaysQuiet ==
  [][\A s \in Socket : wire[s] # "opening" /\ wire'[s] = "opening" =>
       owner'[s] = pooled]_vars
=============================================================================
