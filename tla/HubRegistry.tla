---------------------------- MODULE HubRegistry ----------------------------
(***************************************************************************)
(* The NodeRegistry of the hub, for ONE node: its WebSockets, the interval *)
(* of its heartbeats, its reconnect timer and its status.  Nodes share     *)
(* only the flag running.                                                  *)
(*                                                                         *)
(* Sockets call back by node id.  A socket that was replaced, by a second  *)
(* registration or a second reconnect, goes on reporting for the node.     *)
(***************************************************************************)
EXTENDS Naturals, FiniteSets

CONSTANTS
  Socket,            \* handles of WebSockets
  NoSocket,          \* no entry in connections
  HeartbeatTimeout,  \* in intervals of the heartbeat
  MaxRegistrations   \* bound of the model on registerNode

ASSUME HubAssumption ==
  NoSocket \notin Socket /\ HeartbeatTimeout \in Nat \ {0} /\ MaxRegistrations \in Nat

VARIABLES
  wire,           \* per socket: what the WebSocket does
  current,        \* connections: the socket of the node
  status,         \* NodeState.status, "absent" without a NodeState
  silent,         \* intervals since NodeState.lastHeartbeat
  quiet,          \* the same, or since a socket opened if that is later
  beating,        \* heartbeatTimers has an interval of the node
  timers,         \* reconnect timers of the node that have not fired
  running,        \* NodeRegistry.running
  tended,         \* history: registered while running, and no stop since
  registrations   \* how often the node has been registered

vars == <<wire, current, status, silent, quiet, beating, timers, running, tended, registrations>>

Limit == HeartbeatTimeout + 2

TypeOK ==
  /\ wire \in [Socket -> {"closed", "opening", "open", "closing", "aborting"}]
  /\ current \in Socket \union {NoSocket}
  /\ status \in {"absent", "connecting", "online", "offline", "degraded"}
  /\ silent \in 0..Limit /\ quiet \in 0..Limit
  /\ beating \in BOOLEAN
  /\ timers \in 0..1
  /\ running \in BOOLEAN /\ tended \in BOOLEAN
  /\ registrations \in 0..MaxRegistrations

Init ==
  /\ wire = [s \in Socket |-> "closed"]
  /\ current = NoSocket
  /\ status = "absent"
  /\ silent = 0 /\ quiet = 0
  /\ beating = FALSE
  /\ timers = 0
  /\ running = FALSE /\ tended = FALSE
  /\ registrations = 0

Live(s) == wire[s] # "closed"

-----------------------------------------------------------------------------
(* updateNodeStatus: nothing without a NodeState.                          *)
UpdateNodeStatus(st) == status' = IF status = "absent" THEN "absent" ELSE st

(* At most one timer, and it does not ask whether the node is registered.  *)
ScheduleReconnect == timers' = IF running THEN 1 ELSE timers

(* ws.close(): an opening socket is aborted, an open one says goodbye.     *)
CloseSocket(s) ==
  IF s = NoSocket THEN wire
  ELSE [wire EXCEPT ![s] = CASE wire[s] = "opening" -> "aborting"
                              [] wire[s] = "open"    -> "closing"
                              [] OTHER               -> wire[s]]

(* registerNode, which unregisters a node it finds; its first connect.  The *)
(* constructor of WebSocket throws for an address it cannot use.            *)
RegisterNode(s, runs) ==
  LET found   == status # "absent"
      old     == IF found THEN CloseSocket(current) ELSE wire
      pending == IF found THEN 0 ELSE timers
  IN
  /\ registrations < MaxRegistrations
  /\ ~ Live(s)
  /\ running' = runs /\ tended' = runs
  /\ registrations' = registrations + 1
  /\ beating' = (beating /\ ~ found)
  /\ silent' = 0 /\ quiet' = 0
  /\ \/ /\ wire' = [old EXCEPT ![s] = "opening"]
        /\ current' = s
        /\ status' = "connecting"
        /\ timers' = pending
     \/ /\ wire' = old
        /\ current' = NoSocket
        /\ status' = "offline"
        /\ timers' = IF runs THEN 1 ELSE pending

Register(s) == RegisterNode(s, running)

(* initialize with a configuration that has the node, and with one that has *)
(* other nodes only: the registry runs, and does nothing for a node that it *)
(* kept from before a stop.                                                *)
Initialize(s) == RegisterNode(s, TRUE)

InitializeOthers ==
  /\ running' = TRUE
  /\ UNCHANGED <<wire, current, status, silent, quiet, beating, timers, tended, registrations>>

Unregister ==
  /\ status # "absent"
  /\ wire' = CloseSocket(current)
  /\ current' = NoSocket
  /\ status' = "absent"
  /\ beating' = FALSE
  /\ timers' = 0
  /\ tended' = FALSE
  /\ UNCHANGED <<silent, quiet, running, registrations>>

(* Mutant of ReconnectTimer: an attempt that throws is not repeated. *)
ReconnectOnce(s) ==
  /\ timers > 0
  /\ ~ Live(s)
  /\ timers' = timers - 1
  /\ \/ /\ status = "absent"
        /\ UNCHANGED <<wire, current, status>>
     \/ /\ status # "absent"
        /\ wire' = [wire EXCEPT ![s] = "opening"]
        /\ current' = s
        /\ UNCHANGED status
     \/ status # "absent" /\ status' = "offline" /\ UNCHANGED <<wire, current>>
  /\ UNCHANGED <<silent, quiet, beating, running, tended, registrations>>

(* The timer of scheduleReconnect, with connectToNode.                     *)
ReconnectTimer(s) ==
  /\ timers > 0
  /\ ~ Live(s)
  /\ \/ /\ status = "absent"
        /\ timers' = timers - 1
        /\ UNCHANGED <<wire, current, status>>
     \/ /\ status # "absent"
        /\ timers' = timers - 1
        /\ wire' = [wire EXCEPT ![s] = "opening"]
        /\ current' = s
        /\ UNCHANGED status
     \/ /\ status # "absent"
        /\ status' = "offline"
        /\ timers' = IF running THEN 1 ELSE timers - 1
        /\ UNCHANGED <<wire, current>>
  /\ UNCHANGED <<silent, quiet, beating, running, tended, registrations>>

(* The open event, with startHeartbeat, which sets the interval even of a  *)
(* node that is gone.                                                      *)
Open(s) ==
  /\ wire[s] = "opening"
  /\ wire' = [wire EXCEPT ![s] = "open"]
  /\ UpdateNodeStatus("online")
  /\ beating' = TRUE
  /\ quiet' = 0
  /\ UNCHANGED <<current, silent, timers, running, tended, registrations>>

(* Mutant of Error: a reconnect is scheduled here as well. *)
ErrorReconnects(s) ==
  /\ wire[s] \in {"open", "closing"}
  /\ wire' = [wire EXCEPT ![s] = "closing"]
  /\ UpdateNodeStatus("degraded")
  /\ ScheduleReconnect
  /\ UNCHANGED <<current, silent, quiet, beating, running, tended, registrations>>

(* The error event of an open socket, which the library then closes.       *)
Error(s) ==
  /\ wire[s] \in {"open", "closing"}
  /\ wire' = [wire EXCEPT ![s] = "closing"]
  /\ UpdateNodeStatus("degraded")
  /\ UNCHANGED <<current, silent, quiet, beating, timers, running, tended, registrations>>

(* Mutant of Close: only the node's own socket is listened to. *)
CloseOfCurrent(s) ==
  /\ Live(s)
  /\ wire' = [wire EXCEPT ![s] = "closed"]
  /\ IF s = current THEN UpdateNodeStatus("offline") /\ ScheduleReconnect
                    ELSE UNCHANGED <<status, timers>>
  /\ UNCHANGED <<current, silent, quiet, beating, running, tended, registrations>>

(* The close event.  Of a socket that never opened it follows the error    *)
(* event in the same callback, so that "degraded" is not seen in between.  *)
Close(s) ==
  /\ Live(s)
  /\ wire' = [wire EXCEPT ![s] = "closed"]
  /\ UpdateNodeStatus("offline")
  /\ ScheduleReconnect
  /\ UNCHANGED <<current, silent, quiet, beating, running, tended, registrations>>

(* A heartbeat of the node, on whatever socket of it.  Other messages      *)
(* change nothing.                                                         *)
RecordHeartbeat(s) ==
  /\ wire[s] \in {"open", "closing"} /\ status # "absent"
  /\ silent' = 0 /\ quiet' = 0
  /\ status' = IF status = "degraded" THEN "online" ELSE status
  /\ UNCHANGED <<wire, current, beating, timers, running, tended, registrations>>

Later(t) == IF t < Limit THEN t + 1 ELSE t

(* Mutant of Beat: one interval too many is allowed. *)
BeatLate ==
  /\ silent' = Later(silent) /\ quiet' = Later(quiet)
  /\ status' = IF beating /\ status = "online" /\ silent > HeartbeatTimeout + 1
               THEN "degraded" ELSE status
  /\ UNCHANGED <<wire, current, beating, timers, running, tended, registrations>>

(* An interval passes, and the timer of the heartbeats, if it is set,      *)
(* sends one and checks the timeout.                                       *)
Beat ==
  /\ silent' = Later(silent) /\ quiet' = Later(quiet)
  /\ status' = IF beating /\ status = "online" /\ silent' > HeartbeatTimeout
               THEN "degraded" ELSE status
  /\ UNCHANGED <<wire, current, beating, timers, running, tended, registrations>>

(* stop closes the connections it knows and leaves the states as they are. *)
Stop ==
  /\ running' = FALSE /\ tended' = FALSE
  /\ beating' = FALSE
  /\ timers' = 0
  /\ wire' = CloseSocket(current)
  /\ current' = NoSocket
  /\ UNCHANGED <<status, silent, quiet, registrations>>

Next ==
  \/ InitializeOthers \/ Unregister \/ Beat \/ Stop
  \/ \E s \in Socket :
       \/ Register(s) \/ Initialize(s) \/ ReconnectTimer(s)
       \/ Open(s) \/ Error(s) \/ Close(s) \/ RecordHeartbeat(s)

Spec == Init /\ [][Next]_vars

-----------------------------------------------------------------------------
(* Each registration accounts for one connection or scheduled reconnect at *)
(* most: late events of old sockets leak connections, but none that breed. *)
LeakBound == Cardinality({s \in Socket : Live(s)}) + timers <= registrations

(* A node registered by a running registry has a connection, an attempt or *)
(* a scheduled attempt, whatever late events have done to its entry, until *)
(* it is unregistered or the registry is stopped.  What was registered     *)
(* before a stop is not taken up again by an initialize without the node.  *)
KeepsTrying == tended => timers > 0 \/ \E s \in Socket : Live(s)

(* "online" is never reported without some socket that has been opened and *)
(* has not closed, not even by the late heartbeat of an old one.           *)
OnlineIsBacked == status = "online" => \E s \in Socket : wire[s] \in {"open", "closing"}

(* As long as the node was registered once, the registry has one socket,   *)
(* knows it, and reports it online, or degraded, exactly while it is open; *)
(* and a node that is silent for longer than the timeout, counted from     *)
(* when its socket opened, is online no more while connections has it.     *)
OneRegistration ==
  registrations <= 1 =>
    /\ \A s, t \in Socket : Live(s) /\ Live(t) => s = t
    /\ \A s \in Socket : wire[s] \in {"opening", "open"} => current = s
    /\ \A s \in Socket : wire[s] = "open" => status \in {"online", "degraded"}
    /\ status = "online" /\ current # NoSocket => quiet <= HeartbeatTimeout

(* What makes these inductive.                                             *)
TendedInv == tended => running /\ status # "absent"

SingleInv ==
  registrations <= 1 =>
    /\ registrations = 0 => status = "absent" /\ timers = 0 /\ \A s \in Socket : ~ Live(s)
    /\ timers > 0 => \A s \in Socket : ~ Live(s)
    /\ \A s \in Socket : wire[s] \in {"opening", "open"} => status # "absent"
    /\ \A s \in Socket : wire[s] \in {"open", "closing"} /\ current # NoSocket =>
                          beating /\ status \in {"online", "degraded"}
    /\ OneRegistration

HubInv ==
  /\ TypeOK /\ quiet <= silent
  /\ TendedInv /\ KeepsTrying /\ OnlineIsBacked /\ SingleInv
=============================================================================
