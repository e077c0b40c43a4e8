-------------------------- MODULE HubRegistry_proofs --------------------------
(***************************************************************************)
(* Theorems about the hub's registry and its calls, for every number of    *)
(* sockets, registrations and calls and every timeout, and about its       *)
(* topology, for every configuration over any finite set of names.         *)
(***************************************************************************)
EXTENDS MCHubRegistry, FiniteSetTheorems, TLAPS

Wire == {"closed", "opening", "open", "closing", "aborting"}

(* What close() does to a socket, and to no other.                         *)
LEMMA CloseFacts ==
  ASSUME TypeOK, NEW c \in Socket \union {NoSocket}
  PROVE  /\ CloseSocket(c) \in [Socket -> Wire]
         /\ \A s \in Socket :
              /\ s # c => CloseSocket(c)[s] = wire[s]
              /\ CloseSocket(c)[c] \notin {"opening", "open"} \/ c = NoSocket
              /\ CloseSocket(c)[s] = "closed" <=> wire[s] = "closed"
              /\ CloseSocket(c)[s] \in {"open", "closing"} <=> wire[s] \in {"open", "closing"}
<1>1. CASE c = NoSocket
  BY <1>1, HubAssumption DEF CloseSocket, TypeOK, Wire
<1>2. CASE c # NoSocket
  <2> DEFINE w == CASE wire[c] = "opening" -> "aborting"
                    [] wire[c] = "open"    -> "closing"
                    [] OTHER               -> wire[c]
  <2>1. c \in Socket /\ wire[c] \in Wire
    BY <1>2 DEF TypeOK, Wire
  <2>2. CloseSocket(c) = [wire EXCEPT ![c] = w]
    BY <1>2 DEF CloseSocket
  <2>3. /\ w \in Wire /\ w \notin {"opening", "open"}
        /\ w = "closed" <=> wire[c] = "closed"
        /\ w \in {"open", "closing"} <=> wire[c] \in {"open", "closing"}
    BY <2>1 DEF Wire
  <2>4. wire \in [Socket -> Wire]
    BY DEF TypeOK, Wire
  <2> HIDE DEF w
  <2>5. QED
    BY <1>2, <2>1, <2>2, <2>3, <2>4
<1>3. QED
  BY <1>1, <1>2

LEMMA LimitType == Limit \in Nat /\ Limit > HeartbeatTimeout
BY HubAssumption DEF Limit

-----------------------------------------------------------------------------
LEMMA InitInv == Init => HubInv
<1>1. SUFFICES ASSUME Init PROVE HubInv
  OBVIOUS
<1>2. TypeOK /\ quiet <= silent
  <2>1. 0 \in 0..Limit /\ 0 \in 0..MaxRegistrations /\ 0 \in 0..1
    BY HubAssumption, LimitType
  <2>2. beating \in BOOLEAN /\ running \in BOOLEAN /\ tended \in BOOLEAN
    BY <1>1, Zenon DEF Init
  <2>3. QED
    BY <1>1, <2>1, <2>2 DEF Init, TypeOK
<1>3. \A s \in Socket : ~ Live(s)
  BY <1>1 DEF Init, Live
<1>4. TendedInv /\ KeepsTrying /\ OnlineIsBacked /\ SingleInv
  BY <1>1, <1>3 DEF Init, TendedInv, KeepsTrying, OnlineIsBacked, SingleInv, OneRegistration, Live
<1>5. QED
  BY <1>2, <1>4 DEF HubInv

LEMMA RegisterType ==
  ASSUME TypeOK, NEW s \in Socket, NEW runs \in BOOLEAN, RegisterNode(s, runs)
  PROVE  TypeOK'
<1>1. CloseSocket(current) \in [Socket -> Wire]
  BY CloseFacts DEF TypeOK
<1>2. QED
  BY <1>1, HubAssumption, LimitType DEF RegisterNode, TypeOK, Wire

(* A registration ends with an attempt or a scheduled one.                 *)
LEMMA RegisterKeeps ==
  ASSUME HubInv, NEW s \in Socket, NEW runs \in BOOLEAN, RegisterNode(s, runs)
  PROVE  HubInv'
<1>1. TypeOK'
  BY RegisterType DEF HubInv
<1>2. CloseSocket(current) \in [Socket -> Wire]
  BY CloseFacts DEF HubInv, TypeOK
<1> DEFINE old == IF status # "absent" THEN CloseSocket(current) ELSE wire
           Connects == wire' = [old EXCEPT ![s] = "opening"] /\ current' = s /\ status' = "connecting"
           Throws == status' = "offline" /\ (runs => timers' = 1)
<1>3. Connects \/ Throws
  BY DEF RegisterNode
<1>4. old \in [Socket -> Wire]
  BY <1>2 DEF HubInv, TypeOK, Wire
<1>5. TendedInv' /\ KeepsTrying'
  BY <1>3, <1>4 DEF RegisterNode, TendedInv, KeepsTrying, Live
<1>6. OnlineIsBacked' /\ quiet' <= silent'
  BY <1>3 DEF RegisterNode, OnlineIsBacked
<1>7. SingleInv'
  <2>1. SUFFICES ASSUME registrations' <= 1 PROVE SingleInv'
    BY DEF SingleInv
  <2>2. registrations = 0 /\ registrations' = 1
    BY <2>1, HubAssumption DEF RegisterNode, HubInv, TypeOK
  <2>3. status = "absent" /\ timers = 0 /\ \A t \in Socket : wire[t] = "closed"
    BY <2>2 DEF HubInv, SingleInv, Live
  <2>4. CASE /\ wire' = [wire EXCEPT ![s] = "opening"]
             /\ current' = s /\ status' = "connecting" /\ timers' = 0
    <3>1. \A t \in Socket : wire'[t] = IF t = s THEN "opening" ELSE "closed"
      BY <2>3, <2>4 DEF HubInv, TypeOK
    <3>2. QED
      BY <2>2, <2>4, <3>1 DEF SingleInv, OneRegistration, Live
  <2>5. CASE wire' = wire /\ status' = "offline"
    BY <2>2, <2>3, <2>5 DEF SingleInv, OneRegistration, Live
  <2>6. QED
    BY <2>3, <2>4, <2>5 DEF RegisterNode
<1>8. QED
  BY <1>1, <1>5, <1>6, <1>7 DEF HubInv

LEMMA UnregisterKeeps ==
  ASSUME HubInv, Unregister
  PROVE  HubInv'
<1>1. /\ CloseSocket(current) \in [Socket -> Wire]
      /\ \A s \in Socket :
           /\ s # current => CloseSocket(current)[s] = wire[s]
           /\ CloseSocket(current)[current] \notin {"opening", "open"} \/ current = NoSocket
           /\ CloseSocket(current)[s] = "closed" <=> wire[s] = "closed"
  BY CloseFacts DEF HubInv, TypeOK
<1>2. wire' = CloseSocket(current)
  BY DEF Unregister
<1>3. TypeOK'
  <2>1. beating' \in BOOLEAN /\ running' \in BOOLEAN /\ tended' \in BOOLEAN
    BY Zenon DEF Unregister, HubInv, TypeOK
  <2>2. QED
    BY <1>1, <1>2, <2>1 DEF Unregister, HubInv, TypeOK, Wire, Limit
<1>4. quiet' <= silent' /\ TendedInv' /\ KeepsTrying' /\ OnlineIsBacked'
  BY <1>1, <1>2 DEF Unregister, HubInv, TendedInv, KeepsTrying, OnlineIsBacked
<1>5. SingleInv'
  <2>1. SUFFICES ASSUME registrations <= 1 PROVE SingleInv'
    BY DEF SingleInv, Unregister
  <2>2. \A s \in Socket : wire'[s] \notin {"opening", "open"}
    BY <1>1, <1>2, <2>1, HubAssumption DEF HubInv, SingleInv, OneRegistration, TypeOK
  <2>3. \A s \in Socket : wire'[s] = "closed" <=> wire[s] = "closed"
    BY <1>1, <1>2
  <2>4. QED
    BY <2>1, <2>2, <2>3 DEF Unregister, HubInv, SingleInv, OneRegistration, Live
<1>6. QED
  BY <1>3, <1>4, <1>5 DEF HubInv

LEMMA StopKeeps ==
  ASSUME HubInv, Stop
  PROVE  HubInv'
<1>1. /\ CloseSocket(current) \in [Socket -> Wire]
      /\ \A s \in Socket :
           /\ s # current => CloseSocket(current)[s] = wire[s]
           /\ CloseSocket(current)[current] \notin {"opening", "open"} \/ current = NoSocket
           /\ CloseSocket(current)[s] = "closed" <=> wire[s] = "closed"
           /\ CloseSocket(current)[s] \in {"open", "closing"} <=> wire[s] \in {"open", "closing"}
  BY CloseFacts DEF HubInv, TypeOK
<1>2. wire' = CloseSocket(current)
  BY DEF Stop
<1>3. TypeOK'
  <2>1. beating' \in BOOLEAN /\ running' \in BOOLEAN /\ tended' \in BOOLEAN
    BY Zenon DEF Stop, HubInv, TypeOK
  <2>2. QED
    BY <1>1, <1>2, <2>1 DEF Stop, HubInv, TypeOK, Wire, Limit
<1>4. quiet' <= silent' /\ TendedInv' /\ KeepsTrying' /\ OnlineIsBacked'
  BY <1>1, <1>2 DEF Stop, HubInv, TendedInv, KeepsTrying, OnlineIsBacked
<1>5. SingleInv'
  <2>1. SUFFICES ASSUME registrations <= 1 PROVE SingleInv'
    BY DEF SingleInv, Stop
  <2>2. \A s \in Socket : wire'[s] \notin {"opening", "open"}
    BY <1>1, <1>2, <2>1, HubAssumption DEF HubInv, SingleInv, OneRegistration, TypeOK
  <2>3. \A s \in Socket : wire'[s] = "closed" <=> wire[s] = "closed"
    BY <1>1, <1>2
  <2>4. QED
    BY <2>1, <2>2, <2>3 DEF Stop, HubInv, SingleInv, OneRegistration, Live
<1>6. QED
  BY <1>3, <1>4, <1>5 DEF HubInv

LEMMA TimerKeeps ==
  ASSUME HubInv, NEW s \in Socket, ReconnectTimer(s)
  PROVE  HubInv'
<1> USE DEF ReconnectTimer
<1>1. TypeOK'
  <2>1. beating' \in BOOLEAN /\ running' \in BOOLEAN /\ tended' \in BOOLEAN
    BY Zenon DEF HubInv, TypeOK
  <2>2. QED
    BY <2>1 DEF HubInv, TypeOK
<1> DEFINE Gone == status = "absent" /\ UNCHANGED <<wire, current, status>>
           Connects == /\ wire' = [wire EXCEPT ![s] = "opening"] /\ current' = s
                       /\ status # "absent" /\ UNCHANGED status
                       /\ timers' = timers - 1
           Throws == status' = "offline" /\ UNCHANGED <<wire, current>>
                       /\ timers' = IF running THEN 1 ELSE timers - 1
<1>2. /\ Gone \/ Connects \/ Throws
      /\ \A t \in Socket : Connects => wire'[t] = IF t = s THEN "opening" ELSE wire[t]
  BY DEF HubInv, TypeOK
<1>3. wire[s] = "closed"
  BY DEF Live
<1>4. quiet' <= silent' /\ TendedInv' /\ KeepsTrying' /\ OnlineIsBacked'
  <2>1. CASE Gone
    BY <2>1 DEF HubInv, TendedInv, KeepsTrying, OnlineIsBacked
  <2>2. CASE Connects
    BY <1>2, <1>3, <2>2 DEF HubInv, TendedInv, KeepsTrying, OnlineIsBacked, Live
  <2>3. CASE Throws
    BY <2>3 DEF HubInv, TendedInv, KeepsTrying, OnlineIsBacked
  <2>4. QED
    BY <1>2, <2>1, <2>2, <2>3
<1>5. SingleInv'
  <2>1. SUFFICES ASSUME registrations <= 1 PROVE SingleInv'
    BY DEF SingleInv
  <2>2. /\ \A t \in Socket : wire[t] = "closed"
        /\ registrations # 0 /\ timers = 1
    BY <2>1 DEF HubInv, TypeOK, SingleInv, Live
  <2>3. status # "online"
    BY <2>2 DEF HubInv, OnlineIsBacked
  <2>4. CASE Gone
    BY <2>2, <2>3, <2>4 DEF SingleInv, OneRegistration, Live
  <2>5. CASE Connects
    <3>1. timers' = 0
      BY <2>2, <2>5
    <3>2. QED
      BY <1>2, <2>2, <2>3, <2>5, <3>1 DEF SingleInv, OneRegistration, Live
  <2>6. CASE Throws
    BY <2>2, <2>6 DEF SingleInv, OneRegistration, Live
  <2>7. QED
    BY <1>2, <2>4, <2>5, <2>6
<1>6. QED
  BY <1>1, <1>4, <1>5 DEF HubInv

(* The events of a socket.                                                 *)
LEMMA OpenKeeps ==
  ASSUME HubInv, NEW s \in Socket, Open(s)
  PROVE  HubInv'
<1> USE DEF Open, UpdateNodeStatus
<1>1. TypeOK'
  <2>1. beating' \in BOOLEAN /\ running' \in BOOLEAN /\ tended' \in BOOLEAN
    BY Zenon DEF HubInv, TypeOK
  <2>2. QED
    BY <2>1, LimitType DEF HubInv, TypeOK
<1>2. \A t \in Socket : wire'[t] = IF t = s THEN "open" ELSE wire[t]
  BY DEF HubInv, TypeOK
<1>3. quiet' <= silent' /\ TendedInv' /\ KeepsTrying' /\ OnlineIsBacked'
  BY <1>2, LimitType DEF HubInv, TypeOK, TendedInv, KeepsTrying, OnlineIsBacked, Live
<1>4. SingleInv'
  <2>1. SUFFICES ASSUME registrations <= 1 PROVE SingleInv'
    BY DEF SingleInv
  <2>2. registrations # 0 /\ timers = 0 /\ current = s /\ status # "absent"
    BY <2>1 DEF HubInv, TypeOK, SingleInv, OneRegistration, Live
  <2>3. \A t \in Socket : t # s => wire[t] = "closed"
    BY <2>1 DEF HubInv, SingleInv, OneRegistration, Live
  <2>4. status' = "online" /\ beating' /\ quiet' = 0
    BY <2>2
  <2>5. QED
    BY <1>2, <2>2, <2>3, <2>4, HubAssumption DEF SingleInv, OneRegistration, Live
<1>5. QED
  BY <1>1, <1>3, <1>4 DEF HubInv

LEMMA ErrorKeeps ==
  ASSUME HubInv, NEW s \in Socket, Error(s)
  PROVE  HubInv'
<1> USE DEF Error, UpdateNodeStatus
<1>1. TypeOK'
  <2>1. beating' \in BOOLEAN /\ running' \in BOOLEAN /\ tended' \in BOOLEAN
    BY Zenon DEF HubInv, TypeOK
  <2>2. QED
    BY <2>1 DEF HubInv, TypeOK
<1>2. \A t \in Socket : wire'[t] = IF t = s THEN "closing" ELSE wire[t]
  BY DEF HubInv, TypeOK
<1>3. quiet' <= silent' /\ TendedInv' /\ KeepsTrying' /\ OnlineIsBacked'
  BY <1>2 DEF HubInv, TendedInv, KeepsTrying, OnlineIsBacked, Live
<1>4. SingleInv'
  <2>1. SUFFICES ASSUME registrations <= 1 PROVE SingleInv'
    BY DEF SingleInv
  <2>2. registrations # 0 /\ timers = 0
    BY <2>1 DEF HubInv, TypeOK, SingleInv, Live
  <2>3. \A t \in Socket : t # s => wire[t] = "closed"
    BY <2>1 DEF HubInv, SingleInv, OneRegistration, Live
  <2>4. current # NoSocket => beating /\ status # "absent"
    BY <2>1 DEF HubInv, SingleInv
  <2>5. status' \in {"absent", "degraded"} /\ (status' = "absent" => status = "absent")
    OBVIOUS
  <2>6. QED
    BY <1>2, <2>2, <2>3, <2>4, <2>5 DEF SingleInv, OneRegistration, Live
<1>5. QED
  BY <1>1, <1>3, <1>4 DEF HubInv

LEMMA CloseKeeps ==
  ASSUME HubInv, NEW s \in Socket, Close(s)
  PROVE  HubInv'
<1> USE DEF Close, UpdateNodeStatus, ScheduleReconnect
<1>1. TypeOK'
  <2>1. beating' \in BOOLEAN /\ running' \in BOOLEAN /\ tended' \in BOOLEAN
    BY Zenon DEF HubInv, TypeOK
  <2>2. QED
    BY <2>1 DEF HubInv, TypeOK
<1>2. \A t \in Socket : wire'[t] = IF t = s THEN "closed" ELSE wire[t]
  BY DEF HubInv, TypeOK
<1>3. quiet' <= silent' /\ TendedInv' /\ KeepsTrying' /\ OnlineIsBacked'
  BY DEF HubInv, TendedInv, KeepsTrying, OnlineIsBacked
<1>4. SingleInv'
  <2>1. SUFFICES ASSUME registrations <= 1 PROVE SingleInv'
    BY DEF SingleInv
  <2>2. registrations # 0
    BY <2>1 DEF HubInv, SingleInv, Live
  <2>3. \A t \in Socket : wire'[t] = "closed"
    BY <1>2, <2>1 DEF HubInv, SingleInv, OneRegistration, Live
  <2>4. QED
    BY <2>2, <2>3 DEF SingleInv, OneRegistration, Live
<1>5. QED
  BY <1>1, <1>3, <1>4 DEF HubInv

LEMMA HeartbeatKeeps ==
  ASSUME HubInv, NEW s \in Socket, RecordHeartbeat(s)
  PROVE  HubInv'
<1> USE DEF RecordHeartbeat
<1>1. TypeOK'
  <2>1. beating' \in BOOLEAN /\ running' \in BOOLEAN /\ tended' \in BOOLEAN
    BY Zenon DEF HubInv, TypeOK
  <2>2. QED
    BY <2>1, LimitType DEF HubInv, TypeOK
<1>2. quiet' <= silent' /\ TendedInv' /\ KeepsTrying' /\ OnlineIsBacked'
  BY DEF HubInv, TendedInv, KeepsTrying, OnlineIsBacked, Live
<1>3. SingleInv'
  <2>1. /\ status # "absent" /\ status' # "absent"
        /\ status \in {"online", "degraded"} <=> status' \in {"online", "degraded"}
    OBVIOUS
  <2>2. QED
    BY <2>1, HubAssumption DEF HubInv, SingleInv, OneRegistration, Live
<1>4. QED
  BY <1>1, <1>2, <1>3 DEF HubInv

(* While the node's socket is open its interval is set, so that a silence  *)
(* longer than the timeout is seen in the interval in which it gets so.    *)
LEMMA BeatKeeps ==
  ASSUME HubInv, Beat
  PROVE  HubInv'
<1> USE DEF Beat
<1>1. Later(silent) \in 0..Limit /\ Later(quiet) \in 0..Limit /\ Later(quiet) <= Later(silent)
  BY LimitType DEF HubInv, TypeOK, Later
<1>2. TypeOK'
  <2>1. beating' \in BOOLEAN /\ running' \in BOOLEAN /\ tended' \in BOOLEAN
    BY Zenon DEF HubInv, TypeOK
  <2>2. QED
    BY <1>1, <2>1 DEF HubInv, TypeOK
<1>3. quiet' <= silent' /\ TendedInv' /\ KeepsTrying' /\ OnlineIsBacked'
  BY <1>1 DEF HubInv, TendedInv, KeepsTrying, OnlineIsBacked, Live
<1>4. SingleInv'
  <2>1. SUFFICES ASSUME registrations <= 1 PROVE SingleInv'
    BY DEF SingleInv
  <2>2. /\ status' = "absent" <=> status = "absent"
        /\ status' \in {"online", "degraded"} <=> status \in {"online", "degraded"}
    BY DEF HubInv, TypeOK
  <2>3. ASSUME status' = "online", current # NoSocket PROVE quiet' <= HeartbeatTimeout
    <3>1. status = "online"
      BY <2>3
    <3>2. beating
      BY <2>1, <2>3, <3>1 DEF HubInv, OnlineIsBacked, SingleInv
    <3>3. ~ (silent' > HeartbeatTimeout)
      BY <2>3, <3>1, <3>2
    <3>4. QED
      BY <1>1, <3>3, HubAssumption, LimitType
  <2>4. QED
    BY <2>1, <2>2, <2>3 DEF HubInv, SingleInv, OneRegistration, Live
<1>5. QED
  BY <1>2, <1>3, <1>4 DEF HubInv

(* An initialize without the node finds it as a stop has left it.          *)
LEMMA OthersKeep ==
  ASSUME HubInv, InitializeOthers
  PROVE  HubInv'
<1>1. beating' \in BOOLEAN /\ running' \in BOOLEAN /\ tended' \in BOOLEAN
  BY Zenon DEF InitializeOthers, HubInv, TypeOK
<1>2. TypeOK'
  BY <1>1 DEF InitializeOthers, HubInv, TypeOK, Limit
<1>3. quiet' <= silent' /\ TendedInv' /\ KeepsTrying' /\ OnlineIsBacked'
  BY DEF InitializeOthers, HubInv, TendedInv, KeepsTrying, OnlineIsBacked, Live
<1>4. SingleInv'
  BY DEF InitializeOthers, HubInv, SingleInv, OneRegistration, Live
<1>5. QED
  BY <1>2, <1>3, <1>4 DEF HubInv

LEMMA Preserved == HubInv /\ [Next]_vars => HubInv'
<1> SUFFICES ASSUME HubInv, [Next]_vars PROVE HubInv'
  OBVIOUS
<1>1. CASE Unregister
  BY <1>1, UnregisterKeeps
<1>2. CASE Beat
  BY <1>2, BeatKeeps
<1>3. CASE Stop
  BY <1>3, StopKeeps
<1>4. ASSUME NEW s \in Socket, Register(s) PROVE HubInv'
  <2>1. running \in BOOLEAN
    BY Zenon DEF HubInv, TypeOK
  <2>2. QED
    BY <1>4, <2>1, RegisterKeeps DEF Register
<1>5. ASSUME NEW s \in Socket, Initialize(s) PROVE HubInv'
  BY <1>5, RegisterKeeps DEF Initialize
<1>6. ASSUME NEW s \in Socket, ReconnectTimer(s) PROVE HubInv'
  BY <1>6, TimerKeeps
<1>7. ASSUME NEW s \in Socket, Open(s) PROVE HubInv'
  BY <1>7, OpenKeeps
<1>8. ASSUME NEW s \in Socket, Error(s) PROVE HubInv'
  BY <1>8, ErrorKeeps
<1>9. ASSUME NEW s \in Socket, Close(s) PROVE HubInv'
  BY <1>9, CloseKeeps
<1>10. ASSUME NEW s \in Socket, RecordHeartbeat(s) PROVE HubInv'
  BY <1>10, HeartbeatKeeps
<1>11. CASE UNCHANGED vars
  BY <1>11 DEF vars, HubInv, TypeOK, TendedInv, KeepsTrying, OnlineIsBacked, SingleInv, OneRegistration, Live
<1>12. CASE InitializeOthers
  BY <1>12, OthersKeep
<1>13. QED
  BY <1>1, <1>2, <1>3, <1>4, <1>5, <1>6, <1>7, <1>8, <1>9, <1>10, <1>11, <1>12 DEF Next

LEMMA Invariance == Spec => []HubInv
BY InitInv, Preserved, PTL DEF Spec

(* The variables of the registry keep their types; there is never more     *)
(* than one reconnect timer of the node.                                   *)
THEOREM TypeCorrect == Spec => []TypeOK
<1>1. HubInv => TypeOK
  BY DEF HubInv
<1>2. QED
  BY <1>1, Invariance, PTL

(* A node registered by a running registry is never given up before it is  *)
(* unregistered or the registry is stopped, whichever sockets the late     *)
(* events are of (scheduleReconnect, connectToNode).                       *)
THEOREM NeverGivesUp == Spec => []KeepsTrying
<1>1. HubInv => KeepsTrying
  BY DEF HubInv
<1>2. QED
  BY <1>1, Invariance, PTL

(* No node is reported online without an open or closing socket of its own *)
(* (updateNodeStatus from the events of sockets and from heartbeats).      *)
THEOREM OnlineHasASocket == Spec => []OnlineIsBacked
<1>1. HubInv => OnlineIsBacked
  BY DEF HubInv
<1>2. QED
  BY <1>1, Invariance, PTL

(* A node that was registered once has one socket, which the registry      *)
(* knows and reports, and is not online when it has long been silent.      *)
THEOREM OnceIsExact == Spec => []OneRegistration
<1>1. HubInv /\ registrations <= 1 => OneRegistration
  BY DEF HubInv, SingleInv
<1>2. HubInv /\ ~ (registrations <= 1) => OneRegistration
  BY DEF OneRegistration
<1>3. QED
  BY <1>1, <1>2, Invariance, PTL

-----------------------------------------------------------------------------
(* Leaks: how a step changes the set of live sockets.                      *)
LiveSet == {s \in Socket : Live(s)}

LeakInv == TypeOK /\ IsFiniteSet(LiveSet) /\ LeakBound

LEMMA Sums ==
  ASSUME NEW c \in Nat, NEW d \in Nat, NEW x \in Nat, NEW y \in Nat, NEW r \in Nat, NEW q \in Nat,
         c + x <= r
  PROVE  /\ d = c /\ y + r <= x + q => d + y <= q
         /\ d = c - 1 /\ y <= x + 1 /\ q = r => d + y <= q
         /\ d <= c + 1 /\ y <= x /\ q = r + 1 => d + y <= q
         /\ d <= c + 1 /\ y = x - 1 /\ q = r => d + y <= q
OBVIOUS

(* A step keeps the bound if its socket and its timer are paid for, by a   *)
(* registration, by a timer that fired or by a socket that closed.         *)
LEMMA LeakKept ==
  ASSUME LeakInv, TypeOK',
         \/ LiveSet' = LiveSet /\ timers' <= timers /\ registrations' = registrations
         \/ LiveSet' = LiveSet /\ timers' <= 1 /\ registrations' = registrations + 1
         \/ \E s \in LiveSet : LiveSet' = LiveSet \ {s} /\ timers' <= timers + 1
                                 /\ registrations' = registrations
         \/ \E s \in Socket : LiveSet' = LiveSet \union {s} /\ timers' <= timers
                                /\ registrations' = registrations + 1
         \/ \E s \in Socket : LiveSet' = LiveSet \union {s} /\ timers' = timers - 1
                                /\ registrations' = registrations
  PROVE  LeakInv'
<1> DEFINE C == Cardinality(LiveSet)
           D == Cardinality(LiveSet')
<1>1. /\ timers \in Nat /\ timers' \in Nat
      /\ registrations \in Nat /\ registrations' \in Nat
      /\ C \in Nat
      /\ C + timers <= registrations
  BY FS_CardinalityType, HubAssumption DEF LeakInv, TypeOK, LeakBound, LiveSet
<1>2. IsFiniteSet(LiveSet)
  BY DEF LeakInv
<1>3. SUFFICES IsFiniteSet(LiveSet') /\ D + timers' <= registrations'
  BY DEF LeakInv, LeakBound, LiveSet
<1>4. CASE LiveSet' = LiveSet /\ timers' <= timers /\ registrations' = registrations
  BY <1>1, <1>2, <1>4
<1>5. CASE LiveSet' = LiveSet /\ timers' <= 1 /\ registrations' = registrations + 1
  BY <1>1, <1>2, <1>5
<1>6. ASSUME NEW s \in LiveSet, LiveSet' = LiveSet \ {s}, timers' <= timers + 1,
             registrations' = registrations
      PROVE  IsFiniteSet(LiveSet') /\ D + timers' <= registrations'
  <2>1. IsFiniteSet(LiveSet') /\ D = C - 1 /\ D \in Nat
    BY <1>2, <1>6, FS_RemoveElement, FS_CardinalityType
  <2> HIDE DEF C, D
  <2>2. QED
    BY <1>1, <1>6, <2>1, Sums
<1>7. ASSUME NEW s \in Socket, LiveSet' = LiveSet \union {s}
      PROVE  IsFiniteSet(LiveSet') /\ D \in Nat /\ D <= C + 1
  <2>1. IsFiniteSet(LiveSet') /\ D = IF s \in LiveSet THEN C ELSE C + 1
    BY <1>2, <1>7, FS_AddElement
  <2> HIDE DEF C, D
  <2>2. QED
    BY <1>1, <2>1
<1> HIDE DEF C, D
<1>8. ASSUME NEW s \in Socket, LiveSet' = LiveSet \union {s},
             \/ timers' <= timers /\ registrations' = registrations + 1
             \/ timers' = timers - 1 /\ registrations' = registrations
      PROVE  IsFiniteSet(LiveSet') /\ D + timers' <= registrations'
  BY <1>1, <1>7, <1>8, Sums
<1>9. QED
  BY <1>4, <1>5, <1>6, <1>8


LEMMA RegisterLeak ==
  ASSUME LeakInv, TypeOK', NEW s \in Socket, NEW runs \in BOOLEAN, RegisterNode(s, runs)
  PROVE  LeakInv'
<1> DEFINE old == IF status # "absent" THEN CloseSocket(current) ELSE wire
<1>1. /\ old \in [Socket -> Wire]
      /\ \A t \in Socket : old[t] = "closed" <=> wire[t] = "closed"
  BY CloseFacts DEF LeakInv, TypeOK, Wire
<1>2. registrations' = registrations + 1
  BY DEF RegisterNode
<1>3. CASE wire' = [old EXCEPT ![s] = "opening"] /\ timers' <= timers
  <2>1. \A t \in Socket : wire'[t] # "closed" <=> t = s \/ wire[t] # "closed"
    BY <1>1, <1>3
  <2>2. LiveSet' = LiveSet \union {s}
    BY <2>1 DEF LiveSet, Live
  <2>3. QED
    BY <1>2, <1>3, <2>2, LeakKept
<1>4. CASE wire' = old
  <2>1. LiveSet' = LiveSet
    BY <1>1, <1>4 DEF LiveSet, Live
  <2>2. timers' <= 1
    BY DEF TypeOK
  <2>3. QED
    BY <1>2, <2>1, <2>2, LeakKept
<1>5. \/ wire' = [old EXCEPT ![s] = "opening"] /\ timers' <= timers
      \/ wire' = old
  BY DEF RegisterNode, LeakInv, TypeOK
<1>6. QED
  BY <1>3, <1>4, <1>5

LEMMA TimerLeak ==
  ASSUME LeakInv, TypeOK', NEW s \in Socket, ReconnectTimer(s)
  PROVE  LeakInv'
<1>1. /\ registrations' = registrations
      /\ timers = 1 /\ timers' \in 0..1
  BY DEF ReconnectTimer, LeakInv, TypeOK
<1>2. CASE wire' = wire
  <2>1. LiveSet' = LiveSet /\ timers' <= timers
    BY <1>1, <1>2 DEF LiveSet, Live
  <2>2. QED
    BY <1>1, <2>1, LeakKept
<1>3. CASE wire' = [wire EXCEPT ![s] = "opening"] /\ timers' = timers - 1
  <2>1. \A t \in Socket : wire'[t] # "closed" <=> t = s \/ wire[t] # "closed"
    BY <1>3 DEF LeakInv, TypeOK
  <2>2. LiveSet' = LiveSet \union {s}
    BY <2>1 DEF LiveSet, Live
  <2>3. QED
    BY <1>1, <1>3, <2>2, LeakKept
<1>4. QED
  BY <1>2, <1>3 DEF ReconnectTimer

LEMMA CloseLeak ==
  ASSUME LeakInv, TypeOK', NEW s \in Socket, Close(s)
  PROVE  LeakInv'
<1>1. \A t \in Socket : wire'[t] # "closed" <=> t # s /\ wire[t] # "closed"
  BY DEF Close, LeakInv, TypeOK
<1>2. s \in LiveSet /\ LiveSet' = LiveSet \ {s}
  BY <1>1 DEF LiveSet, Live, Close
<1>3. timers' <= timers + 1 /\ registrations' = registrations
  BY DEF Close, ScheduleReconnect, LeakInv, TypeOK
<1>4. QED
  BY <1>2, <1>3, LeakKept

(* The other steps make no socket and no timer.                            *)
LEMMA OtherLeak ==
  ASSUME LeakInv, TypeOK',
         \/ InitializeOthers \/ Unregister \/ Beat \/ Stop \/ UNCHANGED vars
         \/ \E s \in Socket : Open(s) \/ Error(s) \/ RecordHeartbeat(s)
  PROVE  LeakInv'
<1>1. \A s \in Socket : CloseSocket(current)[s] = "closed" <=> wire[s] = "closed"
  BY CloseFacts DEF LeakInv, TypeOK
<1>2. timers' <= timers /\ registrations' = registrations
  BY DEF LeakInv, TypeOK, InitializeOthers, Unregister, Beat, Stop, Open, Error, RecordHeartbeat, vars
<1>3. \A t \in Socket : wire'[t] = "closed" <=> wire[t] = "closed"
  <2>1. CASE Unregister \/ Stop
    BY <1>1, <2>1 DEF Unregister, Stop
  <2>2. CASE InitializeOthers \/ Beat \/ UNCHANGED vars
    BY <2>2 DEF InitializeOthers, Beat, vars
  <2>3. ASSUME NEW s \in Socket, Open(s) \/ Error(s) \/ RecordHeartbeat(s)
        PROVE  \A t \in Socket : wire'[t] = "closed" <=> wire[t] = "closed"
    BY <2>3 DEF Open, Error, RecordHeartbeat, LeakInv, TypeOK
  <2>4. QED
    BY <2>1, <2>2, <2>3
<1>4. LiveSet' = LiveSet
  BY <1>3 DEF LiveSet, Live
<1>5. QED
  BY <1>2, <1>4, LeakKept

(* Late events of old sockets leak connections and reconnects, but never   *)
(* more than there were registrations: none of them breeds (the close      *)
(* handler of connectToNode with scheduleReconnect).                       *)
THEOREM LeaksAreBounded == Spec => []LeakBound
<1>1. Init => LeakInv
  <2>1. SUFFICES ASSUME Init PROVE LeakInv
    OBVIOUS
  <2>2. TypeOK
    BY <2>1, InitInv DEF HubInv
  <2>3. LiveSet = {}
    BY <2>1 DEF Init, LiveSet, Live
  <2>4. IsFiniteSet(LiveSet) /\ Cardinality(LiveSet) = 0
    BY <2>3, FS_EmptySet
  <2>5. timers = 0 /\ registrations = 0
    BY <2>1 DEF Init
  <2>6. QED
    BY <2>2, <2>4, <2>5 DEF LeakInv, LeakBound, LiveSet
<1>2. LeakInv /\ TypeOK' /\ [Next]_vars => LeakInv'
  <2>1. SUFFICES ASSUME LeakInv, TypeOK', [Next]_vars PROVE LeakInv'
    OBVIOUS
  <2>2. ASSUME NEW s \in Socket, Register(s) \/ Initialize(s) PROVE LeakInv'
    <3>1. running \in BOOLEAN
      BY <2>1, Zenon DEF LeakInv, TypeOK
    <3>2. QED
      BY <2>1, <2>2, <3>1, RegisterLeak DEF Register, Initialize
  <2>3. ASSUME NEW s \in Socket, ReconnectTimer(s) PROVE LeakInv'
    BY <2>1, <2>3, TimerLeak
  <2>4. ASSUME NEW s \in Socket, Close(s) PROVE LeakInv'
    BY <2>1, <2>4, CloseLeak
  <2>5. CASE \/ InitializeOthers \/ Unregister \/ Beat \/ Stop \/ UNCHANGED vars
             \/ \E s \in Socket : Open(s) \/ Error(s) \/ RecordHeartbeat(s)
    BY <2>1, <2>5, OtherLeak
  <2>6. QED
    BY <2>1, <2>2, <2>3, <2>4, <2>5 DEF Next
<1>3. LeakInv => LeakBound
  BY DEF LeakInv
<1>4. QED
  BY <1>1, <1>2, <1>3, TypeCorrect, PTL DEF Spec

-----------------------------------------------------------------------------
(* Calls leave the registry alone, but that an answer may be taken for one *)
(* to a heartbeat.                                                         *)
LEMMA CallLeavesRegistry == CallTypeOK /\ [CallNext]_<<vars, callVars>> => [Next]_vars
<1> SUFFICES ASSUME CallTypeOK, [CallNext]_<<vars, callVars>> PROVE [Next]_vars
  OBVIOUS
<1>1. CASE RegistryStep
  BY <1>1 DEF RegistryStep, Next
<1>2. CASE SocketCloses
  BY <1>2 DEF SocketCloses, Next
<1>3. CASE Passes
  BY <1>3 DEF Passes, Next
<1>4. ASSUME NEW c \in Call, CallNode(c) \/ CallTimer(c) PROVE UNCHANGED vars
  BY <1>4 DEF CallNode, CallTimer
<1>5. ASSUME NEW c \in Call, Answer(c) PROVE [Next]_vars
  <2>1. sentOn[c] \in Socket
    BY <1>5 DEF Answer, CallTypeOK
  <2>2. QED
    BY <1>5, <2>1 DEF Answer, Next
<1>6. QED
  BY <1>1, <1>2, <1>3, <1>4, <1>5 DEF CallNext

Outcome == {"idle", "waiting", "answered", "refused", "timed out"}

LEMMA EndType ==
  ASSUME CallTypeOK, NEW c \in Call, NEW how \in Outcome, End(c, how)
  PROVE  CallTypeOK'
<1>1. call' \in [Call -> Outcome]
  BY DEF End, CallTypeOK, Outcome
<1>2. sentOn' \in [Call -> Socket \union {NoSocket}]
  BY DEF End, CallTypeOK
<1>3. age' \in [Call -> 0..CallTimeout]
  <2>1. 0 \in 0..CallTimeout
    BY CallAssumption
  <2>2. QED
    BY <2>1 DEF End, CallTypeOK
<1>4. QED
  BY <1>1, <1>2, <1>3 DEF CallTypeOK, Outcome

LEMMA CallType == TypeOK /\ CallTypeOK /\ [CallNext]_<<vars, callVars>> => CallTypeOK'
<1> SUFFICES ASSUME TypeOK, CallTypeOK, [CallNext]_<<vars, callVars>> PROVE CallTypeOK'
  OBVIOUS
<1>1. CASE RegistryStep \/ UNCHANGED <<vars, callVars>>
  BY <1>1 DEF RegistryStep, callVars, CallTypeOK
<1>2. CASE SocketCloses
  BY <1>2 DEF SocketCloses, CallTypeOK
<1>3. CASE Passes
  <2>1. ASSUME NEW c \in Call PROVE (IF Waiting(c) THEN age[c] + 1 ELSE age[c]) \in 0..CallTimeout
    <3>1. age[c] \in 0..CallTimeout
      BY DEF CallTypeOK
    <3>2. CASE Waiting(c)
      BY <1>3, <3>1, <3>2, CallAssumption DEF Passes
    <3>3. QED
      BY <3>1, <3>2
  <2>2. QED
    BY <1>3, <2>1 DEF Passes, CallTypeOK
<1>4. ASSUME NEW c \in Call, CallNode(c) PROVE CallTypeOK'
  <2>1. CASE End(c, "refused")
    BY <1>4, <2>1, EndType DEF Outcome
  <2>2. CASE ~ End(c, "refused")
    <3>1. /\ current \in Socket
          /\ call' = [call EXCEPT ![c] = "waiting"]
          /\ sentOn' = [sentOn EXCEPT ![c] = current]
          /\ age' = age
      BY <1>4, <2>2 DEF CallNode, TypeOK
    <3>2. QED
      BY <3>1 DEF CallTypeOK
  <2>3. QED
    BY <2>1, <2>2
<1>5. ASSUME NEW c \in Call, Answer(c) \/ CallTimer(c) PROVE CallTypeOK'
  <2>1. PICK how \in {"answered", "timed out"} : End(c, how)
    BY <1>5 DEF Answer, CallTimer
  <2>2. QED
    BY <2>1, EndType DEF Outcome
<1>6. QED
  BY <1>1, <1>2, <1>3, <1>4, <1>5 DEF CallNext

LEMMA CallInvariance == CallSpec => [](HubInv /\ CallTypeOK)
<1>1. CallInit => HubInv /\ CallTypeOK
  <2>1. CallInit => Init /\ CallTypeOK
    BY CallAssumption DEF CallInit, CallTypeOK
  <2>2. QED
    BY <2>1, InitInv
<1>2. HubInv /\ CallTypeOK /\ [CallNext]_<<vars, callVars>> => (HubInv /\ CallTypeOK)'
  <2>1. HubInv => TypeOK
    BY DEF HubInv
  <2>2. QED
    BY <2>1, CallLeavesRegistry, CallType, Preserved
<1>3. QED
  BY <1>1, <1>2, PTL DEF CallSpec

(* With calls beside it the registry behaves as without them: all that is  *)
(* proved of it above holds of the composition.                            *)
THEOREM CallsKeepRegistry == CallSpec => Spec
<1>1. CallTypeOK /\ [CallNext]_<<vars, callVars>> => [Next]_vars
  BY CallLeavesRegistry
<1>2. CallInit => Init
  BY DEF CallInit
<1>3. QED
  BY <1>1, <1>2, CallInvariance, PTL DEF CallSpec, Spec

(* callNode tells a caller "not connected" of a node that was registered   *)
(* once only while no socket of it is open.                                *)
THEOREM RefusalsAreTrue == CallSpec => RefusedWhenDown
<1> DEFINE True(c) == call[c] = "idle" /\ call'[c] = "refused" /\ registrations <= 1 =>
                        \A s \in Socket : wire[s] # "open"
<1>1. HubInv /\ CallTypeOK /\ [CallNext]_<<vars, callVars>> => \A c \in Call : True(c)
  <2> SUFFICES ASSUME HubInv, CallTypeOK, [CallNext]_<<vars, callVars>>,
                      NEW c \in Call, call[c] = "idle", call'[c] = "refused", registrations <= 1
               PROVE  \A s \in Socket : wire[s] # "open"
    OBVIOUS
  <2>1. CallNode(c)
    <3>1. ~ (UNCHANGED call)
      OBVIOUS
    <3>2. \A d \in Call, how \in Outcome : End(d, how) => d = c /\ how = "refused"
      BY DEF End, CallTypeOK, Outcome
    <3>3. ASSUME NEW d \in Call, CallNode(d) PROVE d = c
      BY <3>2, <3>3 DEF CallNode, CallTypeOK, Outcome
    <3>4. \A d \in Call : ~ Answer(d) /\ ~ CallTimer(d)
      BY <3>2 DEF Answer, CallTimer, Outcome
    <3>5. QED
      BY <3>1, <3>3, <3>4 DEF CallNext, RegistryStep, SocketCloses, Passes, callVars
  <2>2. current = NoSocket \/ wire[current] # "open"
    BY <2>1 DEF CallNode, CallTypeOK
  <2>3. \A s \in Socket : wire[s] = "open" => current = s
    BY DEF HubInv, SingleInv, OneRegistration
  <2>4. QED
    BY <2>2, <2>3, HubAssumption
<1>2. QED
  BY <1>1, CallInvariance, PTL DEF CallSpec, RefusedWhenDown

-----------------------------------------------------------------------------
(***************************************************************************)
(* Induction and recursion, for the tree of the hub.                       *)
(***************************************************************************)

(* Induction, as a fact of sets.                                           *)
LEMMA NatInduct ==
  ASSUME NEW S, 0 \in S, \A n \in Nat : n \in S => n + 1 \in S
  PROVE  Nat \subseteq S
<1> DEFINE T == Nat \ S
<1>1. SUFFICES ASSUME T # {} PROVE FALSE
  OBVIOUS
<1>2. PICK x \in T : \A y \in T : ~ (<<y, x>> \in OpToRel(<, Nat))
  BY <1>1, NatLessThanWellFounded, WFMin
<1>3. x \in Nat /\ x # 0 /\ x - 1 \in Nat
  OBVIOUS
<1>4. x - 1 \in T
  BY <1>3
<1>5. <<x - 1, x>> \in OpToRel(<, Nat)
  BY <1>3 DEF OpToRel
<1>6. QED
  BY <1>2, <1>4, <1>5

(* A function is defined by its first value and by each from the last.     *)
LEMMA RecursionExists ==
  ASSUME NEW S, NEW first \in S, NEW n \in Nat, NEW next \in [1..n -> [S -> S]]
  PROVE  \E g \in [0..n -> S] :
           g[0] = first /\ \A i \in 1..n : g[i] = next[i][g[i - 1]]
<1> DEFINE Good(g, m) == /\ g \in [0..m -> S]
                         /\ g[0] = first
                         /\ \A i \in 1..m : g[i] = next[i][g[i - 1]]
           M == {m \in Nat : m <= n => \E g : Good(g, m)}
<1>1. 0 \in M
  <2>1. Good([i \in 0..0 |-> first], 0)
    OBVIOUS
  <2>2. QED
    BY <2>1
<1>2. ASSUME NEW m \in Nat, m \in M PROVE m + 1 \in M
  <2>1. SUFFICES ASSUME m + 1 <= n PROVE \E g : Good(g, m + 1)
    OBVIOUS
  <2>2. PICK g : Good(g, m)
    BY <1>2, <2>1
  <2> DEFINE h == [i \in 0..(m + 1) |-> IF i <= m THEN g[i] ELSE next[m + 1][g[m]]]
  <2>3. m + 1 \in 1..n /\ g[m] \in S
    BY <2>1, <2>2
  <2>4. h \in [0..(m + 1) -> S]
    BY <2>2, <2>3
  <2>5. h[0] = first
    BY <2>2
  <2>6. \A i \in 1..(m + 1) : h[i] = next[i][h[i - 1]]
    <3> TAKE i \in 1..(m + 1)
    <3>1. CASE i <= m
      <4>1. i \in 1..m /\ i - 1 \in 0..(m + 1) /\ i - 1 <= m /\ i \in 0..(m + 1)
        BY <3>1
      <4>2. h[i] = g[i] /\ h[i - 1] = g[i - 1]
        BY <3>1, <4>1
      <4>3. QED
        BY <2>2, <4>1, <4>2
    <3>2. CASE i = m + 1
      <4>1. i - 1 = m /\ m \in 0..(m + 1) /\ i \in 0..(m + 1) /\ ~ (i <= m)
        BY <3>2
      <4>2. h[i] = next[m + 1][g[m]] /\ h[m] = g[m]
        BY <4>1
      <4>3. QED
        BY <3>2, <4>1, <4>2
    <3>3. QED
      BY <3>1, <3>2
  <2>7. QED
    BY <2>4, <2>5, <2>6
<1>3. n \in M
  <2> HIDE DEF M
  <2> QED
    BY <1>1, <1>2, NatInduct
<1>4. PICK g : Good(g, n)
  BY <1>3
<1>5. QED
  BY <1>4


-----------------------------------------------------------------------------
(***************************************************************************)
(* The tree of the hub, as the recursive functions build it up.            *)
(***************************************************************************)
N == Cardinality(Id)

(* There are finitely many names, and none is the name of nobody.          *)
LEMMA Names == N \in Nat /\ NoId \notin Id
BY TopologyAssumption, FS_CardinalityType DEF N

(* The parent is one of the pairs, if there is one.                        *)
LEMMA ParentFacts ==
  ASSUME NEW c \in TopologyConfig, NEW id \in Id
  PROVE  /\ ParentOf(c, id) \in Id \union {NoId}
         /\ ParentOf(c, id) # NoId => ParentOf(c, id) \in Id /\ <<ParentOf(c, id), id>> \in c.children
         /\ ParentOf(c, id) = NoId => \A p \in Id : <<p, id>> \notin c.children
BY Names DEF ParentOf

(* What calculateDepth computes, for each bound on the steps.              *)
IsDepth(c, d) ==
  /\ d \in [0..N -> [Id -> Nat]]
  /\ \A id \in Id : d[0][id] = 0
  /\ \A n \in 1..N, id \in Id :
       d[n][id] = IF ParentOf(c, id) = NoId THEN 0 ELSE d[n - 1][ParentOf(c, id)] + 1

LEMMA DepthExists ==
  ASSUME NEW c \in TopologyConfig
  PROVE  \E d : IsDepth(c, d) /\ calculateDepth(c) = d[N]
<1> DEFINE S == [Id -> Nat]
           zero == [id \in Id |-> 0]
           next == [n \in 1..N |-> [e \in S |->
                      [id \in Id |-> IF ParentOf(c, id) = NoId THEN 0 ELSE e[ParentOf(c, id)] + 1]]]
           depth[n \in 0..N] ==
             [id \in Id |-> IF n = 0 \/ ParentOf(c, id) = NoId THEN 0
                           ELSE depth[n - 1][ParentOf(c, id)] + 1]
<1>1. N \in Nat /\ zero \in S
  BY Names
<1>2. next \in [1..N -> [S -> S]]
  <2>1. ASSUME NEW e \in S, NEW id \in Id
        PROVE  (IF ParentOf(c, id) = NoId THEN 0 ELSE e[ParentOf(c, id)] + 1) \in Nat
    <3>1. ParentOf(c, id) # NoId => ParentOf(c, id) \in Id
      BY ParentFacts
    <3>2. \A k \in Id : e[k] \in Nat
      OBVIOUS
    <3>3. QED
      BY <3>1, <3>2
  <2>2. QED
    BY <2>1
<1>3. PICK d \in [0..N -> S] : d[0] = zero /\ \A n \in 1..N : d[n] = next[n][d[n - 1]]
  <2> HIDE DEF S, zero, next
  <2>1. QED
    BY <1>1, <1>2, RecursionExists
<1>4. \A n \in 0..N : n # 0 => n \in 1..N /\ n - 1 \in 0..N
  BY Names
<1>5. \A n \in 0..N : d[n] = [id \in Id |-> IF n = 0 \/ ParentOf(c, id) = NoId THEN 0
                                         ELSE d[n - 1][ParentOf(c, id)] + 1]
  <2>1. SUFFICES ASSUME NEW n \in 0..N
                 PROVE  d[n] = [id \in Id |-> IF n = 0 \/ ParentOf(c, id) = NoId THEN 0
                                             ELSE d[n - 1][ParentOf(c, id)] + 1]
    OBVIOUS
  <2>2. CASE n = 0
    BY <1>3, <2>2
  <2>3. CASE n # 0
    <3>1. n \in 1..N /\ d[n - 1] \in S /\ d[n] = next[n][d[n - 1]]
      BY <1>3, <1>4, <2>3
    <3>2. QED
      BY <2>3, <3>1
  <2>4. QED
    BY <2>2, <2>3
<1>6. depth = [n \in 0..N |-> [id \in Id |-> IF n = 0 \/ ParentOf(c, id) = NoId THEN 0
                                         ELSE depth[n - 1][ParentOf(c, id)] + 1]]
  <2>1. d = [n \in 0..N |-> [id \in Id |-> IF n = 0 \/ ParentOf(c, id) = NoId THEN 0
                                         ELSE d[n - 1][ParentOf(c, id)] + 1]]
    BY <1>3, <1>5
  <2>2. QED
    BY <2>1
<1>7. calculateDepth(c) = depth[N]
  BY DEF calculateDepth, N
<1> HIDE DEF depth
<1>8. \A n \in 0..N : depth[n] \in S
  <2> DEFINE M == {n \in Nat : n <= N => depth[n] \in S}
  <2>1. 0 \in M
    BY <1>1, <1>6
  <2>2. ASSUME NEW n \in Nat, n \in M PROVE n + 1 \in M
    <3>1. SUFFICES ASSUME n + 1 <= N PROVE depth[n + 1] \in S
      OBVIOUS
    <3>2. depth[n] \in S /\ n + 1 \in 0..N /\ n + 1 # 0 /\ (n + 1) - 1 = n
      BY <1>1, <2>2, <3>1
    <3>3. depth[n + 1] = [id \in Id |-> IF ParentOf(c, id) = NoId THEN 0
                                       ELSE depth[n][ParentOf(c, id)] + 1]
      BY <1>6, <3>2
    <3>4. \A id \in Id : ParentOf(c, id) # NoId => ParentOf(c, id) \in Id
      BY ParentFacts
    <3>5. \A id \in Id : depth[n][id] \in Nat
      BY <3>2
    <3>6. QED
      BY <3>3, <3>4, <3>5
  <2>3. Nat \subseteq M
    <3> HIDE DEF M
    <3>1. QED
      BY <2>1, <2>2, NatInduct
  <2>4. QED
    BY <1>1, <2>3
<1>9. IsDepth(c, depth)
  <2>1. \A id \in Id : depth[0][id] = 0
    BY <1>1, <1>6
  <2>2. \A n \in 1..N, id \in Id :
          depth[n][id] = IF ParentOf(c, id) = NoId THEN 0 ELSE depth[n - 1][ParentOf(c, id)] + 1
    <3> TAKE n \in 1..N, id \in Id
    <3>1. n \in 0..N /\ n # 0
      BY <1>1
    <3>2. depth[n] = [k \in Id |-> IF ParentOf(c, k) = NoId THEN 0
                                  ELSE depth[n - 1][ParentOf(c, k)] + 1]
      BY <1>6, <3>1
    <3>3. QED
      BY <3>2
  <2>3. depth \in [0..N -> S]
    BY <1>6, <1>8
  <2>4. QED
    BY <2>1, <2>2, <2>3 DEF IsDepth
<1>10. QED
  BY <1>7, <1>9

(* What the closure holds, for each bound on the steps.                    *)
IsClosure(c, r) ==
  /\ r \in [0..N -> SUBSET (Id \X Id)]
  /\ r[0] = c.children
  /\ \A n \in 1..N : \A a, b \in Id :
       <<a, b>> \in r[n] <=> \/ <<a, b>> \in r[n - 1]
                            \/ \E q \in Id : <<a, q>> \in r[n - 1] /\ <<q, b>> \in c.children

LEMMA ClosureExists ==
  ASSUME NEW c \in TopologyConfig
  PROVE  \E r : IsClosure(c, r) /\ Above(c) = r[N]
<1> DEFINE S == SUBSET (Id \X Id)
           Longer(r) == {x \in Id \X Id : \E q \in Id : /\ <<x[1], q>> \in r
                                                        /\ <<q, x[2]>> \in c.children}
           first == c.children
           next == [n \in 1..N |-> [r \in S |-> r \union Longer(r)]]
           closure[n \in 0..N] ==
             IF n = 0 THEN c.children
             ELSE closure[n - 1] \union
                  {x \in Id \X Id : \E q \in Id : /\ <<x[1], q>> \in closure[n - 1]
                                                /\ <<q, x[2]>> \in c.children}
<1>1. N \in Nat /\ first \in S
  BY Names DEF TopologyConfig
<1>2. \A r \in S : r \union Longer(r) \in S
  OBVIOUS
<1>3. Above(c) = closure[N]
  BY DEF Above, N
<1>4. \E r : r = [n \in 0..N |-> IF n = 0 THEN first ELSE r[n - 1] \union Longer(r[n - 1])]
  <2>1. next \in [1..N -> [S -> S]]
    BY <1>2
  <2>2. PICK r \in [0..N -> S] : r[0] = first /\ \A n \in 1..N : r[n] = next[n][r[n - 1]]
    <3> HIDE DEF S, next, first
    <3>1. QED
      BY <1>1, <2>1, RecursionExists
  <2>3. \A n \in 0..N : r[n] = IF n = 0 THEN first ELSE r[n - 1] \union Longer(r[n - 1])
    <3>1. SUFFICES ASSUME NEW n \in 0..N, n # 0 PROVE r[n] = r[n - 1] \union Longer(r[n - 1])
      BY <2>2
    <3>2. n \in 1..N /\ n - 1 \in 0..N
      BY <1>1, <3>1
    <3>3. r[n] = next[n][r[n - 1]] /\ r[n - 1] \in S
      BY <2>2, <3>2
    <3> HIDE DEF Longer, S
    <3>4. QED
      BY <3>2, <3>3
  <2> HIDE DEF Longer, S, first
  <2>4. r = [n \in 0..N |-> IF n = 0 THEN first ELSE r[n - 1] \union Longer(r[n - 1])]
    BY <2>2, <2>3
  <2>5. QED
    BY <2>4
<1>5. closure = [n \in 0..N |-> IF n = 0 THEN first ELSE closure[n - 1] \union Longer(closure[n - 1])]
  BY <1>4
<1> HIDE DEF closure, next
<1>6. /\ closure[0] = first
      /\ \A n \in 1..N : closure[n] = closure[n - 1] \union Longer(closure[n - 1])
  <2>1. 0 \in 0..N /\ \A n \in 1..N : n \in 0..N /\ n # 0
    BY <1>1
  <2> HIDE DEF Longer, first
  <2>2. \A n \in 0..N : closure[n] = IF n = 0 THEN first ELSE closure[n - 1] \union Longer(closure[n - 1])
    BY ONLY <1>5
  <2>3. QED
    BY <2>1, <2>2
<1>7. \A n \in 0..N : closure[n] \in S
  <2> DEFINE M == {n \in Nat : n <= N => closure[n] \in S}
  <2>1. 0 \in M
    BY <1>1, <1>6
  <2>2. ASSUME NEW n \in Nat, n \in M PROVE n + 1 \in M
    <3> HIDE DEF S, Longer, first
    <3>1. SUFFICES ASSUME n + 1 <= N PROVE closure[n + 1] \in S
      OBVIOUS
    <3>2. closure[n] \in S /\ n + 1 \in 1..N /\ (n + 1) - 1 = n
      BY <1>1, <2>2, <3>1
    <3>3. QED
      BY <1>2, <1>6, <3>2
  <2>3. Nat \subseteq M
    <3> HIDE DEF M
    <3>1. QED
      BY <2>1, <2>2, NatInduct
  <2>4. QED
    BY <1>1, <2>3
<1>8. closure \in [0..N -> S]
  BY <1>5, <1>7
<1>9. \A n \in 1..N : \A a, b \in Id :
        <<a, b>> \in closure[n] <=>
          \/ <<a, b>> \in closure[n - 1]
          \/ \E q \in Id : <<a, q>> \in closure[n - 1] /\ <<q, b>> \in c.children
  BY <1>6
<1>10. QED
  BY <1>3, <1>6, <1>8, <1>9 DEF IsClosure

(* A tree whose children are all nodes of the configuration.               *)
IsTree(c) == c \in TopologyConfig /\ c.type = "tree" /\ c.children \subseteq c.nodes \X c.nodes

(* The map holds the parents, the children and the depths, and knows       *)
(* neither of a name that is no node.                                      *)
LEMMA MapFacts ==
  ASSUME NEW c, IsTree(c)
  PROVE  LET m == buildTopology(c) IN
         /\ DOMAIN m = c.nodes /\ c.nodes \subseteq Id
         /\ \A id \in Id : getParent(m, id) = ParentOf(c, id)
         /\ \A id \in Id : getChildren(m, id) = ChildrenOf(c, id)
         /\ \A id \in c.nodes : /\ m[id].parent = ParentOf(c, id)
                               /\ m[id].depth = calculateDepth(c)[id]
                               /\ (m[id].isLeaf <=> (ChildrenOf(c, id) = {}))
<1> DEFINE m == buildTopology(c)
<1>1. c.nodes \subseteq Id /\ c.type # "flat" /\ c \in TopologyConfig
  BY DEF IsTree, TopologyConfig
<1>2. DOMAIN m = c.nodes
  BY DEF buildTopology
<1>3. \A id \in c.nodes : m[id] = [parent   |-> ParentOf(c, id),
                                 children |-> ChildrenOf(c, id),
                                 depth    |-> calculateDepth(c)[id],
                                 isRoot   |-> id = c.root,
                                 isLeaf   |-> ChildrenOf(c, id) = {}]
  BY <1>1 DEF buildTopology
<1> HIDE DEF m
<1>4. \A id \in Id \ c.nodes : ChildrenOf(c, id) = {} /\ ParentOf(c, id) = NoId
  <2> TAKE id \in Id \ c.nodes
  <2>1. \A p, q \in Id : <<p, q>> \in c.children => p \in c.nodes /\ q \in c.nodes
    BY DEF IsTree
  <2>2. ChildrenOf(c, id) = {}
    BY <2>1 DEF ChildrenOf
  <2>3. ParentOf(c, id) = NoId
    BY <1>1, <2>1, ParentFacts
  <2>4. QED
    BY <2>2, <2>3
<1>5. \A id \in c.nodes : /\ m[id].parent = ParentOf(c, id)
                        /\ m[id].children = ChildrenOf(c, id)
                        /\ m[id].depth = calculateDepth(c)[id]
                        /\ (m[id].isLeaf <=> (ChildrenOf(c, id) = {}))
  <2> TAKE id \in c.nodes
  <2> DEFINE parent == ParentOf(c, id)
             children == ChildrenOf(c, id)
             depth == calculateDepth(c)[id]
             isRoot == id = c.root
             isLeaf == children = {}
  <2>1. m[id] = [parent |-> parent, children |-> children, depth |-> depth,
                 isRoot |-> isRoot, isLeaf |-> isLeaf]
    BY <1>3
  <2>2. (m[id].isLeaf <=> isLeaf) /\ m[id].depth = depth
    <3> HIDE DEF parent, children, depth, isRoot, isLeaf
    <3>1. QED
      BY <2>1
  <2>3. m[id].parent = parent /\ m[id].children = children
    <3> HIDE DEF parent, children, depth, isRoot, isLeaf
    <3>1. QED
      BY <2>1
  <2>4. QED
    BY <2>2, <2>3
<1>6. \A id \in Id : getParent(m, id) = ParentOf(c, id) /\ getChildren(m, id) = ChildrenOf(c, id)
  <2> TAKE id \in Id
  <2>1. CASE id \in c.nodes
    BY <1>2, <1>5, <2>1 DEF getParent, getChildren
  <2>2. CASE id \notin c.nodes
    BY <1>2, <1>4, <2>2 DEF getParent, getChildren
  <2>3. QED
    BY <2>1, <2>2
<1>7. QED
  BY <1>1, <1>2, <1>5, <1>6 DEF m

(* What getDescendants finds going down is what the closure relates.       *)
LEMMA DescendantsAreBelow ==
  ASSUME NEW c, IsTree(c), NEW a \in Id
  PROVE  getDescendants(buildTopology(c), a) = {b \in Id : <<a, b>> \in Above(c)}
<1> DEFINE m == buildTopology(c)
           Down(s) == UNION {getChildren(m, k) : k \in s}
           held[n \in 0..N] ==
             IF n = 0 THEN getChildren(m, a)
             ELSE held[n - 1] \union UNION {getChildren(m, k) : k \in held[n - 1]}
<1>1. PICK r : IsClosure(c, r) /\ Above(c) = r[N]
  BY ClosureExists DEF IsTree
<1>2. N \in Nat
  BY Names
<1>3. getDescendants(m, a) = held[N]
  BY DEF getDescendants, N
<1>4. \A k \in Id : getChildren(m, k) = {b \in Id : <<k, b>> \in c.children}
  BY MapFacts DEF ChildrenOf
<1> HIDE DEF m
<1> DEFINE Below(n) == {b \in Id : <<a, b>> \in r[n]}
           below == [n \in 0..N |-> Below(n)]
<1>5. Below(0) = getChildren(m, a)
  BY <1>1, <1>4 DEF IsClosure
<1>6. \A n \in 1..N : Below(n) = Below(n - 1) \union Down(Below(n - 1))
  <2> TAKE n \in 1..N
  <2>1. \A b \in Id : b \in Down(Below(n - 1)) <=>
                        \E q \in Id : <<a, q>> \in r[n - 1] /\ <<q, b>> \in c.children
    <3> TAKE b \in Id
    <3>1. b \in Down(Below(n - 1)) <=> \E q \in Below(n - 1) : b \in getChildren(m, q)
      BY Zenon
    <3>2. \A q \in Id : b \in getChildren(m, q) <=> <<q, b>> \in c.children
      BY ONLY <1>4, Zenon
    <3>3. \A q : q \in Below(n - 1) <=> q \in Id /\ <<a, q>> \in r[n - 1]
      BY Zenon
    <3> HIDE DEF Down, Below
    <3>4. QED
      BY ONLY <3>1, <3>2, <3>3, Zenon
  <2>2. Down(Below(n - 1)) \subseteq Id
    BY <1>4
  <2> HIDE DEF Down
  <2>3. QED
    BY <1>1, <2>1, <2>2 DEF IsClosure
<1> HIDE DEF Down, Below
<1>7. \E g : g = [n \in 0..N |-> IF n = 0 THEN getChildren(m, a) ELSE g[n - 1] \union Down(g[n - 1])]
  <2>1. \A n \in 0..N : n # 0 => n \in 1..N /\ n - 1 \in 0..N
    BY <1>2
  <2>2. below = [n \in 0..N |-> IF n = 0 THEN getChildren(m, a)
                               ELSE below[n - 1] \union Down(below[n - 1])]
    BY <1>5, <1>6, <2>1
  <2>3. QED
    BY <2>2
<1>8. held = [n \in 0..N |-> IF n = 0 THEN getChildren(m, a) ELSE held[n - 1] \union Down(held[n - 1])]
  BY <1>7 DEF Down
<1> HIDE DEF held
<1>9. held[N] = Below(N)
  <2> DEFINE M == {n \in Nat : n <= N => held[n] = Below(n)}
  <2>1. 0 \in M
    BY <1>2, <1>5, <1>8
  <2>2. ASSUME NEW n \in Nat, n \in M PROVE n + 1 \in M
    <3>1. SUFFICES ASSUME n + 1 <= N PROVE held[n + 1] = Below(n + 1)
      OBVIOUS
    <3>2. held[n] = Below(n) /\ n + 1 \in 1..N /\ n + 1 \in 0..N /\ n + 1 # 0 /\ (n + 1) - 1 = n
      BY <1>2, <2>2, <3>1
    <3>3. held[n + 1] = held[n] \union Down(held[n])
      BY <1>8, <3>2
    <3>4. QED
      BY <1>6, <3>2, <3>3
  <2>3. Nat \subseteq M
    <3> HIDE DEF M
    <3>1. QED
      BY <2>1, <2>2, NatInduct
  <2>4. QED
    BY <1>2, <2>3
<1>10. QED
  BY <1>1, <1>3, <1>9 DEF m, Below

-----------------------------------------------------------------------------
(* A depth below the number of names is the true one.                      *)
LEMMA DepthCounts ==
  ASSUME NEW c \in TopologyConfig
  PROVE  LET depth == calculateDepth(c) IN
         /\ depth \in [Id -> Nat]
         /\ \A id \in Id : depth[id] <= N
         /\ \A id \in Id : ParentOf(c, id) = NoId => depth[id] = 0
         /\ \A id \in Id : depth[id] < N /\ ParentOf(c, id) # NoId =>
              ParentOf(c, id) \in Id /\ depth[id] = depth[ParentOf(c, id)] + 1
<1>1. PICK d : IsDepth(c, d) /\ calculateDepth(c) = d[N]
  BY DepthExists
<1>2. N \in Nat
  BY Names
<1>3. \A n \in 0..N, id \in Id : d[n][id] \in Nat
  BY <1>1 DEF IsDepth
<1>4. \A id \in Id : ParentOf(c, id) # NoId => ParentOf(c, id) \in Id
  BY ParentFacts
<1> DEFINE Settled(n) ==
      n <= N =>
        \A id \in Id :
          /\ d[n][id] <= n
          /\ ParentOf(c, id) = NoId => d[n][id] = 0
          /\ n < N /\ d[n][id] < n => d[n + 1][id] = d[n][id]
           M == {n \in Nat : Settled(n)}
<1>5. 0 \in M
  BY <1>1, <1>2, <1>3 DEF IsDepth
<1>6. ASSUME NEW n \in Nat, n \in M PROVE n + 1 \in M
  <2>1. SUFFICES ASSUME n + 1 <= N, NEW id \in Id
                 PROVE  /\ d[n + 1][id] <= n + 1
                        /\ ParentOf(c, id) = NoId => d[n + 1][id] = 0
                        /\ n + 1 < N /\ d[n + 1][id] < n + 1 => d[(n + 1) + 1][id] = d[n + 1][id]
    OBVIOUS
  <2>2. n + 1 \in 1..N /\ (n + 1) - 1 = n /\ n \in 0..N /\ n < N
    BY <1>2, <2>1
  <2>3. d[n + 1][id] = IF ParentOf(c, id) = NoId THEN 0 ELSE d[n][ParentOf(c, id)] + 1
    BY <1>1, <2>2 DEF IsDepth
  <2>4. \A k \in Id : d[n][k] <= n /\ (d[n][k] < n => d[n + 1][k] = d[n][k])
    <3>1. Settled(n) /\ n <= N
      BY <1>6, <2>2
    <3>2. QED
      BY <2>2, <3>1
  <2>5. d[n + 1][id] <= n + 1
    BY <1>3, <1>4, <2>2, <2>3, <2>4
  <2>6. ASSUME n + 1 < N, d[n + 1][id] < n + 1 PROVE d[(n + 1) + 1][id] = d[n + 1][id]
    <3>1. (n + 1) + 1 \in 1..N /\ ((n + 1) + 1) - 1 = n + 1
      BY <1>2, <2>6
    <3>2. d[(n + 1) + 1][id] = IF ParentOf(c, id) = NoId THEN 0 ELSE d[n + 1][ParentOf(c, id)] + 1
      BY <1>1, <3>1 DEF IsDepth
    <3>3. CASE ParentOf(c, id) = NoId
      BY <2>3, <3>2, <3>3
    <3>4. CASE ParentOf(c, id) # NoId
      <4>1. d[n][ParentOf(c, id)] < n
        BY <1>3, <1>4, <2>2, <2>3, <2>6, <3>4
      <4>2. QED
        BY <1>4, <2>3, <2>4, <3>2, <3>4, <4>1
    <3>5. QED
      BY <3>3, <3>4
  <2>7. QED
    BY <2>3, <2>5, <2>6
<1>7. \A n \in 0..N : Settled(n)
  <2>1. Nat \subseteq M
    <3> HIDE DEF M
    <3>1. QED
      BY <1>5, <1>6, NatInduct
  <2>2. QED
    BY <1>2, <2>1
<1>8. ASSUME NEW id \in Id, d[N][id] < N, ParentOf(c, id) # NoId
      PROVE  d[N][id] = d[N][ParentOf(c, id)] + 1
  <2>1. d[N][id] \in Nat /\ N # 0
    BY <1>2, <1>3, <1>8
  <2>2. N \in 1..N /\ N - 1 \in 0..N /\ (N - 1) + 1 = N /\ N - 1 < N
    BY <1>2, <2>1
  <2>3. d[N][id] = d[N - 1][ParentOf(c, id)] + 1
    BY <1>1, <1>8, <2>2 DEF IsDepth
  <2>4. d[N - 1][ParentOf(c, id)] \in Nat
    BY <1>3, <1>4, <1>8, <2>2
  <2>5. d[N - 1][ParentOf(c, id)] < N - 1
    BY <1>2, <1>8, <2>3, <2>4
  <2>6. d[(N - 1) + 1][ParentOf(c, id)] = d[N - 1][ParentOf(c, id)]
    <3>1. Settled(N - 1) /\ N - 1 <= N
      BY <1>2, <1>7, <2>2
    <3>2. QED
      BY <1>4, <1>8, <2>2, <2>5, <3>1
  <2>7. QED
    BY <2>2, <2>3, <2>6
<1>9. \A id \in Id : d[N][id] <= N /\ (ParentOf(c, id) = NoId => d[N][id] = 0)
  <2>1. Settled(N) /\ N <= N
    BY <1>2, <1>7
  <2>2. QED
    BY <2>1
<1>10. d[N] \in [Id -> Nat]
  BY <1>1, <1>2 DEF IsDepth
<1>11. QED
  BY <1>1, <1>4, <1>8, <1>9, <1>10

(* The pairs of the closure only become more, and a pair is there as soon  *)
(* as the steps from one to the other allow.                               *)
LEMMA ClosureGrows ==
  ASSUME NEW c \in TopologyConfig, NEW r, IsClosure(c, r), NEW m \in 0..N
  PROVE  r[m] \subseteq r[N]
<1>1. N \in Nat
  BY Names
<1> DEFINE M == {k \in Nat : m + k <= N => r[m] \subseteq r[m + k]}
<1>2. 0 \in M
  OBVIOUS
<1>3. ASSUME NEW k \in Nat, k \in M PROVE k + 1 \in M
  <2>1. SUFFICES ASSUME m + (k + 1) <= N PROVE r[m] \subseteq r[m + (k + 1)]
    OBVIOUS
  <2>2. m + (k + 1) \in 1..N /\ (m + (k + 1)) - 1 = m + k /\ m + k \in 0..N
    BY <1>1, <2>1
  <2>3. r[m] \subseteq r[m + k]
    BY <1>1, <1>3, <2>1, <2>2
  <2>4. \A a, b \in Id : <<a, b>> \in r[m + k] => <<a, b>> \in r[m + (k + 1)]
    BY <2>2 DEF IsClosure
  <2>5. r[m + k] \subseteq Id \X Id
    BY <2>2 DEF IsClosure
  <2>6. r[m + k] \subseteq r[m + (k + 1)]
    BY <2>4, <2>5
  <2>7. QED
    BY <2>3, <2>6
<1>4. Nat \subseteq M
  <2> HIDE DEF M
  <2>1. QED
    BY <1>2, <1>3, NatInduct
<1>5. N - m \in Nat /\ m + (N - m) = N /\ N <= N
  BY <1>1
<1>6. m + (N - m) <= N => r[m] \subseteq r[m + (N - m)]
  BY <1>4, <1>5
<1>7. QED
  BY <1>5, <1>6

(* Who is as deep as there are names has a circle at or above him.         *)
LEMMA TooDeepIsBelowCircle ==
  ASSUME NEW c \in TopologyConfig, NEW id \in Id, calculateDepth(c)[id] >= N
  PROVE  \E p \in Id : <<p, p>> \in Above(c) /\ (p = id \/ <<p, id>> \in Above(c))
<1>1. PICK d : IsDepth(c, d) /\ calculateDepth(c) = d[N]
  BY DepthExists
<1>2. PICK r : IsClosure(c, r) /\ Above(c) = r[N]
  BY ClosureExists
<1>3. N \in Nat
  BY Names
<1>4. d[N][id] = N
  BY <1>1, <1>3, DepthCounts
<1> DEFINE next == [n \in 1..N |-> [x \in Id |-> IF ParentOf(c, x) = NoId THEN x ELSE ParentOf(c, x)]]
<1>5. PICK u \in [0..N -> Id] : u[0] = id /\ \A n \in 1..N : u[n] = next[n][u[n - 1]]
  <2>1. next \in [1..N -> [Id -> Id]]
    BY ParentFacts
  <2> HIDE DEF next
  <2>2. QED
    BY <1>3, <2>1, RecursionExists
<1>6. \A n \in 1..N : u[n - 1] \in Id /\ u[n] \in Id /\
        u[n] = IF ParentOf(c, u[n - 1]) = NoId THEN u[n - 1] ELSE ParentOf(c, u[n - 1])
  <2> TAKE n \in 1..N
  <2>1. n - 1 \in 0..N /\ n \in 0..N
    BY <1>3
  <2>2. QED
    BY <1>5, <2>1
<1> DEFINE M == {n \in Nat : n <= N => d[N - n][u[n]] = N - n}
<1>7. 0 \in M
  BY <1>3, <1>4, <1>5
<1>8. ASSUME NEW n \in Nat, n \in M, n + 1 <= N
      PROVE  <<u[n + 1], u[n]>> \in c.children /\ n + 1 \in M
  <2>1. n + 1 \in 1..N /\ (n + 1) - 1 = n /\ n \in 0..N /\ N - n \in 1..N /\ (N - n) - 1 = N - (n + 1)
        /\ N - (n + 1) \in 0..N
    BY <1>3, <1>8
  <2>2. d[N - n][u[n]] = N - n /\ N - n # 0
    BY <1>3, <1>8
  <2>3. u[n] \in Id
    BY <2>1
  <2>4. d[N - n][u[n]] = IF ParentOf(c, u[n]) = NoId THEN 0
                         ELSE d[N - (n + 1)][ParentOf(c, u[n])] + 1
    BY <1>1, <2>1, <2>3 DEF IsDepth
  <2>5. ParentOf(c, u[n]) # NoId
    BY <2>2, <2>4
  <2>6. u[n + 1] = ParentOf(c, u[n]) /\ ParentOf(c, u[n]) \in Id
    BY <1>6, <2>1, <2>3, <2>5, ParentFacts
  <2>7. d[N - (n + 1)][u[n + 1]] \in Nat
    BY <1>1, <2>1, <2>6 DEF IsDepth
  <2>8. d[N - (n + 1)][u[n + 1]] = N - (n + 1)
    BY <1>3, <2>1, <2>2, <2>4, <2>5, <2>6, <2>7
  <2>9. QED
    BY <2>3, <2>5, <2>6, <2>8, ParentFacts
<1>9. \A n \in 0..(N - 1) : <<u[n + 1], u[n]>> \in c.children
  <2>1. ASSUME NEW n \in Nat, n \in M PROVE n + 1 \in M
    <3>1. CASE n + 1 <= N
      BY <1>8, <2>1, <3>1
    <3>2. CASE ~ (n + 1 <= N)
      BY <3>2
    <3>3. QED
      BY <3>1, <3>2
  <2>2. Nat \subseteq M
    <3> HIDE DEF M
    <3>1. QED
      BY <1>7, <2>1, NatInduct
  <2> HIDE DEF M
  <2>3. QED
    BY <1>3, <1>8, <2>2
<1> HIDE DEF M
<1> DEFINE L == {k \in Nat : \A i \in Nat : i + (k + 1) <= N => <<u[i + (k + 1)], u[i]>> \in r[k]}
<1>10. \A k \in Nat : k \in L
  <2>1. 0 \in L
    <3>1. SUFFICES ASSUME NEW i \in Nat, i + (0 + 1) <= N PROVE <<u[i + (0 + 1)], u[i]>> \in r[0]
      OBVIOUS
    <3>2. i \in 0..(N - 1) /\ i + (0 + 1) = i + 1
      BY <1>3, <3>1
    <3>3. QED
      BY <1>2, <1>9, <3>2 DEF IsClosure
  <2>2. ASSUME NEW k \in Nat, k \in L PROVE k + 1 \in L
    <3>1. SUFFICES ASSUME NEW i \in Nat, i + ((k + 1) + 1) <= N
                   PROVE  <<u[i + ((k + 1) + 1)], u[i]>> \in r[k + 1]
      OBVIOUS
    <3>2. /\ i + 1 \in Nat /\ (i + 1) + (k + 1) = i + ((k + 1) + 1)
          /\ k + 1 \in 1..N /\ (k + 1) - 1 = k /\ i \in 0..(N - 1)
          /\ i + 1 \in 0..N /\ i \in 0..N /\ i + ((k + 1) + 1) \in 0..N
      BY <1>3, <3>1
    <3>3. <<u[i + ((k + 1) + 1)], u[i + 1]>> \in r[k]
      BY <2>2, <3>1, <3>2
    <3>4. <<u[i + 1], u[i]>> \in c.children
      BY <1>9, <3>2
    <3>5. u[i + 1] \in Id /\ u[i] \in Id /\ u[i + ((k + 1) + 1)] \in Id
      BY <3>2
    <3>6. QED
      BY <1>2, <3>2, <3>3, <3>4, <3>5 DEF IsClosure
  <2>3. QED
    <3> HIDE DEF L
    <3>1. QED
      BY <2>1, <2>2, NatInduct
<1>11. \A i, j \in 0..N : i < j => <<u[j], u[i]>> \in Above(c)
  <2> TAKE i, j \in 0..N
  <2> HAVE i < j
  <2>1. (j - i) - 1 \in Nat /\ i + (((j - i) - 1) + 1) = j /\ (j - i) - 1 \in 0..N /\ i \in Nat /\ j <= N
    BY <1>3
  <2>2. (j - i) - 1 \in L
    BY <1>10, <2>1
  <2>3. <<u[j], u[i]>> \in r[(j - i) - 1]
    BY <2>1, <2>2
  <2>4. r[(j - i) - 1] \subseteq r[N]
    BY <1>2, <2>1, ClosureGrows
  <2>5. QED
    BY <1>2, <2>3, <2>4
<1>12. PICK i, j \in 0..N : i # j /\ u[i] = u[j]
  <2>1. IsFiniteSet(0..N) /\ Cardinality(0..N) = N + 1
    BY <1>3, FS_Interval
  <2>2. IsFiniteSet(Id) /\ Cardinality(Id) < Cardinality(0..N)
    BY <1>3, <2>1, TopologyAssumption DEF N
  <2>3. u \in [0..N -> Id]
    BY <1>5
  <2> HIDE DEF next
  <2>4. QED
    BY ONLY <2>1, <2>2, <2>3, FS_PigeonHole
<1>13. \E i1, j1 \in 0..N : i1 < j1 /\ u[i1] = u[j1]
  BY <1>12
<1>14. PICK i1, j1 \in 0..N : i1 < j1 /\ u[i1] = u[j1]
  BY <1>13
<1>15. <<u[i1], u[i1]>> \in Above(c) /\ u[i1] \in Id
  BY <1>11, <1>14
<1>16. u[i1] = id \/ <<u[i1], id>> \in Above(c)
  <2>1. CASE i1 = 0
    BY <1>5, <2>1
  <2>2. CASE i1 # 0
    <3>1. 0 \in 0..N /\ 0 < i1
      BY <1>3, <2>2
    <3>2. QED
      BY <1>5, <1>11, <3>1
  <2>3. QED
    BY <2>1, <2>2
<1>17. QED
  BY <1>15, <1>16

(* No node has two parents.                                                *)
OneParent(c) == \A p, q, id \in Id : <<p, id>> \in c.children /\ <<q, id>> \in c.children => p = q

(* Then the parent that was found is the only one.                         *)
LEMMA OnlyParent ==
  ASSUME NEW c \in TopologyConfig, OneParent(c), NEW id \in Id, NEW p \in Id
  PROVE  <<p, id>> \in c.children <=> ParentOf(c, id) # NoId /\ p = ParentOf(c, id)
BY Names, ParentFacts DEF OneParent

(* The depth ranks what is above a node that is not too deep.              *)
LEMMA AboveIsHigher ==
  ASSUME NEW c \in TopologyConfig, OneParent(c), NEW a \in Id, NEW b \in Id,
         <<a, b>> \in Above(c), calculateDepth(c)[b] < N
  PROVE  calculateDepth(c)[a] < calculateDepth(c)[b]
<1> DEFINE depth == calculateDepth(c)
<1>1. PICK r : IsClosure(c, r) /\ Above(c) = r[N]
  BY ClosureExists
<1>2. N \in Nat /\ depth \in [Id -> Nat]
  BY Names, DepthCounts
<1>3. \A p, k \in Id : <<p, k>> \in c.children /\ depth[k] < N => depth[k] = depth[p] + 1
  BY OnlyParent, DepthCounts
<1> HIDE DEF depth
<1> DEFINE Higher(n) == \A x, y \in Id : <<x, y>> \in r[n] /\ depth[y] < N => depth[x] < depth[y]
           M == {n \in Nat : n <= N => Higher(n)}
<1>4. 0 \in M
  <2>1. \A x, y \in Id : <<x, y>> \in r[0] /\ depth[y] < N => depth[x] < depth[y]
    <3> TAKE x, y \in Id
    <3>1. depth[x] \in Nat /\ depth[y] \in Nat
      BY <1>2
    <3>2. QED
      BY <1>1, <1>3, <3>1 DEF IsClosure
  <2>2. QED
    BY <2>1
<1>5. ASSUME NEW n \in Nat, n \in M PROVE n + 1 \in M
  <2>1. SUFFICES ASSUME n + 1 <= N, NEW x \in Id, NEW y \in Id, <<x, y>> \in r[n + 1], depth[y] < N
                 PROVE  depth[x] < depth[y]
    OBVIOUS
  <2>2. n + 1 \in 1..N /\ (n + 1) - 1 = n /\ n <= N
    BY <1>2, <2>1
  <2>3. Higher(n)
    BY <1>5, <2>2
  <2>4. CASE <<x, y>> \in r[n]
    BY <2>1, <2>3, <2>4
  <2>5. CASE \E q \in Id : <<x, q>> \in r[n] /\ <<q, y>> \in c.children
    <3>1. PICK q \in Id : <<x, q>> \in r[n] /\ <<q, y>> \in c.children
      BY <2>5
    <3>2. depth[x] \in Nat /\ depth[y] \in Nat /\ depth[q] \in Nat
      BY <1>2
    <3>3. depth[y] = depth[q] + 1
      BY <1>3, <2>1, <3>1
    <3>4. depth[x] < depth[q]
      BY <1>2, <2>1, <2>3, <3>1, <3>2, <3>3
    <3>5. QED
      BY <3>2, <3>3, <3>4
  <2>6. QED
    BY <1>1, <2>1, <2>2, <2>4, <2>5 DEF IsClosure
<1>6. N \in M
  <2> HIDE DEF M
  <2>1. QED
    BY <1>2, <1>4, <1>5, NatInduct
<1>7. QED
  BY <1>1, <1>2, <1>6 DEF depth

(* The hub accepts a tree exactly if its root exists, no name is listed    *)
(* twice as a child and no node is below a circle: buildTopology and       *)
(* validateTree.                                                           *)
THEOREM ForestsAreAccepted ==
  ASSUME NEW c \in TopologyConfig
  PROVE  AcceptsForests(c)
<1> DEFINE Circle == \E id \in c.nodes, p \in Id :
                       <<p, p>> \in Above(c) /\ (p = id \/ <<p, id>> \in Above(c))
           Parents(id) == {p \in Id : <<p, id>> \in c.children}
           Single == \A id \in Id : Cardinality(Parents(id)) <= 1
           Shallow == \A id \in c.nodes : calculateDepth(c)[id] < N
<1>1. c.type \in {"flat", "tree"} /\ c.nodes \subseteq Id
  BY DEF TopologyConfig
<1>2. OneParent(c) <=> Single
  <2>1. \A id \in Id : IsFiniteSet(Parents(id)) /\ Cardinality(Parents(id)) \in Nat
    <3> TAKE id \in Id
    <3>1. IsFiniteSet(Parents(id))
      BY TopologyAssumption, FS_Subset
    <3>2. QED
      BY <3>1, FS_CardinalityType
  <2>2. ASSUME OneParent(c), NEW id \in Id PROVE Cardinality(Parents(id)) <= 1
    <3>1. CASE Parents(id) = {}
      <4>1. Cardinality({}) = 0
        BY FS_EmptySet
      <4>2. Cardinality(Parents(id)) = 0
        BY ONLY <3>1, <4>1
      <4>3. QED
        BY <4>2
    <3>2. CASE Parents(id) # {}
      <4>1. PICK p : p \in Parents(id)
        BY <3>2
      <4>2. Parents(id) = {p}
        BY <2>2, <4>1 DEF OneParent
      <4>3. Cardinality({p}) = 1
        BY FS_Singleton
      <4>4. Cardinality(Parents(id)) = 1
        BY ONLY <4>2, <4>3
      <4>5. QED
        BY <4>4
    <3>3. QED
      BY <3>1, <3>2
  <2>3. ASSUME Single, NEW p \in Id, NEW q \in Id, NEW id \in Id,
               <<p, id>> \in c.children, <<q, id>> \in c.children, p # q
        PROVE  FALSE
    <3>1. p \in Parents(id) /\ q \in Parents(id) \ {p}
      BY <2>3
    <3>2. Cardinality(Parents(id) \ {p}) = Cardinality(Parents(id)) - 1 /\ IsFiniteSet(Parents(id) \ {p})
      BY <2>1, <3>1, FS_RemoveElement
    <3>3. Cardinality(Parents(id) \ {p}) # 0
      BY <3>1, <3>2, FS_EmptySet
    <3>4. Cardinality(Parents(id)) <= 1 /\ Cardinality(Parents(id) \ {p}) \in Nat
      BY <2>3, <3>2, FS_CardinalityType
    <3> HIDE DEF Parents
    <3>5. QED
      BY <2>1, <3>2, <3>3, <3>4
  <2>4. QED
    BY <2>2, <2>3 DEF OneParent
<1>3. ASSUME OneParent(c) PROVE Shallow <=> ~ Circle
  <2>1. N \in Nat /\ \A id \in Id : calculateDepth(c)[id] \in Nat
    BY Names, DepthCounts
  <2>2. ASSUME ~ Shallow PROVE Circle
    <3>1. PICK id \in c.nodes : ~ (calculateDepth(c)[id] < N)
      BY <2>2
    <3>2. calculateDepth(c)[id] >= N /\ id \in Id
      BY <1>1, <2>1, <3>1
    <3>3. QED
      BY <3>2, TooDeepIsBelowCircle
  <2>3. ASSUME Shallow, Circle PROVE FALSE
    <3>1. PICK id \in c.nodes, p \in Id : <<p, p>> \in Above(c) /\ (p = id \/ <<p, id>> \in Above(c))
      BY <2>3
    <3>2. id \in Id /\ calculateDepth(c)[id] < N
      BY <1>1, <2>3
    <3>3. calculateDepth(c)[p] < N
      BY <1>3, <2>1, <3>1, <3>2, AboveIsHigher
    <3>4. calculateDepth(c)[p] < calculateDepth(c)[p]
      BY <1>3, <3>1, <3>3, AboveIsHigher
    <3>5. QED
      BY <2>1, <3>4
  <2>4. QED
    BY <2>2, <2>3
<1>4. Accepts(c) <=>
        (c.type = "tree" => c.twice = {} /\ OneParent(c) /\ Shallow /\ c.root \in c.nodes)
  BY DEF Accepts, OneParent, N
<1>5. AcceptsForests(c) <=>
        (Accepts(c) <=> (c.type = "flat" \/ (c.root \in c.nodes /\ Single /\ c.twice = {} /\ ~ Circle)))
  BY DEF AcceptsForests
<1> HIDE DEF Circle, Single, Shallow
<1>6. QED
  BY <1>1, <1>2, <1>3, <1>4, <1>5

-----------------------------------------------------------------------------
(* A tree that is accepted: every name has a true depth, for a name that   *)
(* is no node has no parent.                                               *)
LEMMA AcceptedIsShallow ==
  ASSUME NEW c, IsTree(c), Accepts(c), NEW id \in Id
  PROVE  OneParent(c) /\ calculateDepth(c)[id] < N
<1>1. c \in TopologyConfig /\ OneParent(c) /\ \A k \in c.nodes : calculateDepth(c)[k] < N
  BY DEF IsTree, Accepts, OneParent, N
<1>2. CASE id \in c.nodes
  BY <1>1, <1>2
<1>3. CASE id \notin c.nodes
  <2>1. ParentOf(c, id) = NoId
    BY <1>1, <1>3, ParentFacts DEF IsTree
  <2>2. calculateDepth(c)[id] = 0
    BY <1>1, <2>1, DepthCounts
  <2>3. N \in Nat /\ N # 0
    BY Names, TopologyAssumption, FS_EmptySet DEF N
  <2>4. QED
    BY <1>1, <2>2, <2>3
<1>4. QED
  BY <1>2, <1>3

Ancestors(c, id) == {a \in Id : <<a, id>> \in Above(c)}

(* What is above a node is its parent and what is above that.              *)
LEMMA AncestorsStep ==
  ASSUME NEW c, IsTree(c), Accepts(c), NEW id \in Id
  PROVE  Ancestors(c, id) = IF ParentOf(c, id) = NoId THEN {}
                            ELSE {ParentOf(c, id)} \union Ancestors(c, ParentOf(c, id))
<1> DEFINE P(k) == ParentOf(c, k)
           depth == calculateDepth(c)
<1>1. c \in TopologyConfig /\ OneParent(c)
  BY AcceptedIsShallow DEF IsTree
<1>2. PICK r : IsClosure(c, r) /\ Above(c) = r[N]
  BY <1>1, ClosureExists
<1>3. N \in Nat /\ depth \in [Id -> Nat] /\ \A k \in Id : depth[k] < N
  BY <1>1, Names, DepthCounts, AcceptedIsShallow
<1>4. \A k \in Id : P(k) # NoId => P(k) \in Id /\ depth[k] = depth[P(k)] + 1
  BY <1>1, <1>3, DepthCounts
<1>5. \A p, k \in Id : <<p, k>> \in c.children <=> P(k) # NoId /\ p = P(k)
  BY <1>1, OnlyParent
<1> HIDE DEF P, depth
<1>6. \A n \in 1..N : \A a, k \in Id :
        <<a, k>> \in r[n] <=> <<a, k>> \in r[n - 1] \/ (P(k) # NoId /\ <<a, P(k)>> \in r[n - 1])
  <2> TAKE n \in 1..N
  <2> TAKE a, k \in Id
  <2>1. <<a, k>> \in r[n] <=> \/ <<a, k>> \in r[n - 1]
                            \/ \E q \in Id : <<a, q>> \in r[n - 1] /\ <<q, k>> \in c.children
    BY <1>2 DEF IsClosure
  <2>2. (\E q \in Id : <<a, q>> \in r[n - 1] /\ <<q, k>> \in c.children)
          <=> (P(k) # NoId /\ <<a, P(k)>> \in r[n - 1])
    BY <1>4, <1>5
  <2>3. QED
    BY <2>1, <2>2
<1>7. \A a, k \in Id : <<a, k>> \in r[0] <=> P(k) # NoId /\ a = P(k)
  BY <1>2, <1>5 DEF IsClosure
<1> DEFINE Steps(n) == \A a, k \in Id :
                         <<a, k>> \in r[n] <=> P(k) # NoId /\ (a = P(k) \/ <<a, P(k)>> \in r[n - 1])
           M == {n \in Nat : n + 1 <= N => Steps(n + 1)}
<1>8. 0 \in M
  <2>1. SUFFICES ASSUME 0 + 1 <= N PROVE Steps(0 + 1)
    OBVIOUS
  <2>2. 1 \in 1..N /\ 1 - 1 = 0 /\ 0 + 1 = 1
    BY <1>3, <2>1
  <2>3. \A a, k \in Id : <<a, k>> \in r[1] <=> <<a, k>> \in r[0] \/ (P(k) # NoId /\ <<a, P(k)>> \in r[0])
    BY <1>6, <2>2
  <2>4. \A a, k \in Id : <<a, k>> \in r[1] <=> P(k) # NoId /\ (a = P(k) \/ <<a, P(k)>> \in r[0])
    BY <1>7, <2>3
  <2>5. Steps(1)
    BY <2>2, <2>4
  <2> HIDE DEF Steps
  <2>6. QED
    BY <2>2, <2>5
<1>9. ASSUME NEW n \in Nat, n \in M PROVE n + 1 \in M
  <2>1. SUFFICES ASSUME (n + 1) + 1 <= N PROVE Steps((n + 1) + 1)
    OBVIOUS
  <2>2. (n + 1) + 1 \in 1..N /\ ((n + 1) + 1) - 1 = n + 1 /\ n + 1 \in 1..N /\ (n + 1) - 1 = n
    BY <1>3, <2>1
  <2>3. Steps(n + 1)
    <3> HIDE DEF Steps
    <3>1. QED
      BY <1>9, <2>2
  <2>4. \A a, k \in Id : <<a, k>> \in r[n] => <<a, k>> \in r[n + 1]
    BY <1>6, <2>2
  <2>5. QED
    BY <1>4, <1>6, <2>2, <2>3, <2>4
<1>10. \A n \in 1..N : Steps(n)
  <2>1. Nat \subseteq M
    <3> HIDE DEF M
    <3>1. QED
      BY <1>8, <1>9, NatInduct
  <2> HIDE DEF Steps
  <2>2. SUFFICES ASSUME NEW n \in 1..N PROVE Steps(n)
    OBVIOUS
  <2>3. n - 1 \in Nat /\ (n - 1) + 1 = n /\ n <= N
    BY <1>3
  <2>4. Steps((n - 1) + 1)
    BY <2>1, <2>3
  <2>5. QED
    BY <2>3, <2>4
<1> DEFINE Full(n) == \A k \in Id : depth[k] <= n => \A a \in Id : <<a, k>> \in r[n + 1] <=> <<a, k>> \in r[n]
           L == {n \in Nat : n + 1 <= N => Full(n)}
<1>11. 0 \in L
  <2>1. SUFFICES ASSUME 0 + 1 <= N, NEW k \in Id, depth[k] <= 0, NEW a \in Id
                 PROVE  <<a, k>> \in r[0 + 1] <=> <<a, k>> \in r[0]
    OBVIOUS
  <2>2. P(k) = NoId
    BY <1>3, <1>4, <2>1
  <2>3. 0 + 1 \in 1..N
    BY <1>3, <2>1
  <2>4. QED
    BY <1>7, <1>10, <2>2, <2>3
<1>12. ASSUME NEW n \in Nat, n \in L PROVE n + 1 \in L
  <2>1. SUFFICES ASSUME (n + 1) + 1 <= N, NEW k \in Id, depth[k] <= n + 1, NEW a \in Id
                 PROVE  <<a, k>> \in r[(n + 1) + 1] <=> <<a, k>> \in r[n + 1]
    OBVIOUS
  <2>2. (n + 1) + 1 \in 1..N /\ ((n + 1) + 1) - 1 = n + 1 /\ n + 1 \in 1..N /\ (n + 1) - 1 = n
    BY <1>3, <2>1
  <2>3. Steps(n + 1) /\ Steps((n + 1) + 1)
    BY <1>10, <2>2
  <2>4. CASE P(k) = NoId
    BY <2>2, <2>3, <2>4
  <2>5. CASE P(k) # NoId
    <3>1. P(k) \in Id /\ depth[P(k)] <= n
      <4>1. P(k) \in Id /\ depth[k] = depth[P(k)] + 1
        BY <1>4, <2>5
      <4>2. depth[P(k)] \in Nat
        BY <1>3, <4>1
      <4>3. QED
        BY <2>1, <4>1, <4>2
    <3>2. Full(n)
      BY <1>12, <2>2
    <3>3. <<a, P(k)>> \in r[n + 1] <=> <<a, P(k)>> \in r[n]
      BY <3>1, <3>2
    <3>4. QED
      BY <2>2, <2>3, <2>5, <3>3
  <2>6. QED
    BY <2>4, <2>5
<1>13. \A n \in Nat : n + 1 <= N => Full(n)
  <2>1. Nat \subseteq L
    <3> HIDE DEF L
    <3>1. QED
      BY <1>11, <1>12, NatInduct
  <2> HIDE DEF Full
  <2>2. QED
    BY <2>1
<1>14. CASE P(id) = NoId
  <2>1. depth[id] \in Nat /\ depth[id] < N
    BY <1>3
  <2>2. N \in 1..N
    BY <1>3, <2>1
  <2>3. Steps(N)
    BY <1>10, <2>2
  <2>4. QED
    BY <1>2, <1>14, <2>3 DEF Ancestors, P
<1>15. CASE P(id) # NoId
  <2>1. P(id) \in Id /\ depth[id] = depth[P(id)] + 1
    BY <1>4, <1>15
  <2>2. depth[P(id)] \in Nat /\ depth[id] < N
    BY <1>3, <2>1
  <2>3. N \in 1..N /\ N - 1 \in Nat /\ (N - 1) + 1 = N /\ depth[P(id)] <= N - 1
    BY <1>3, <2>1, <2>2
  <2>4. Steps(N) /\ Full(N - 1)
    BY <1>10, <1>13, <2>3
  <2>5. \A a \in Id : <<a, P(id)>> \in r[N - 1] <=> <<a, P(id)>> \in r[N]
    BY <2>1, <2>3, <2>4
  <2>6. \A a \in Id : <<a, id>> \in r[N] <=> (a = P(id) \/ <<a, P(id)>> \in r[N])
    BY <1>15, <2>4, <2>5
  <2>7. Ancestors(c, id) = {P(id)} \union Ancestors(c, P(id))
    BY <1>2, <2>1, <2>6 DEF Ancestors
  <2>8. QED
    BY <1>15, <2>7 DEF P
<1>16. QED
  BY <1>14, <1>15

(* The depth of a node is the number of those above it.                    *)
LEMMA DepthIsNumberAbove ==
  ASSUME NEW c, IsTree(c), Accepts(c)
  PROVE  \A id \in Id : calculateDepth(c)[id] = Cardinality(Ancestors(c, id))
<1> DEFINE depth == calculateDepth(c)
           P(k) == ParentOf(c, k)
           M == {n \in Nat : \A id \in Id : depth[id] = n => Cardinality(Ancestors(c, id)) = n}
<1>1. c \in TopologyConfig /\ \A k \in Id : OneParent(c) /\ depth[k] < N
  BY AcceptedIsShallow DEF IsTree
<1>2. depth \in [Id -> Nat] /\ \A k \in Id : P(k) # NoId => P(k) \in Id /\ depth[k] = depth[P(k)] + 1
  BY <1>1, DepthCounts
<1>3. \A k \in Id : P(k) = NoId => depth[k] = 0
  BY <1>1, DepthCounts
<1>4. \A k \in Id : k \notin Ancestors(c, k) /\ IsFiniteSet(Ancestors(c, k))
  <2> TAKE k \in Id
  <2>1. k \notin Ancestors(c, k)
    <3>1. SUFFICES ASSUME <<k, k>> \in Above(c) PROVE FALSE
      BY DEF Ancestors
    <3>2. depth[k] < depth[k]
      BY <1>1, <3>1, AboveIsHigher
    <3>3. QED
      BY <1>2, <3>2
  <2>2. Ancestors(c, k) \subseteq Id
    BY DEF Ancestors
  <2>3. QED
    BY <2>1, <2>2, TopologyAssumption, FS_Subset
<1>5. \A k \in Id : Ancestors(c, k) = IF P(k) = NoId THEN {} ELSE {P(k)} \union Ancestors(c, P(k))
  BY AncestorsStep
<1> HIDE DEF depth, P
<1>6. 0 \in M
  <2>1. ASSUME NEW id \in Id, depth[id] = 0 PROVE P(id) = NoId
    <3>1. SUFFICES ASSUME P(id) # NoId PROVE FALSE
      OBVIOUS
    <3>2. P(id) \in Id /\ depth[id] = depth[P(id)] + 1
      BY <1>2, <3>1
    <3>3. depth[P(id)] \in Nat
      BY <1>2, <3>2
    <3>4. QED
      BY <2>1, <3>2, <3>3
  <2>2. \A id \in Id : depth[id] = 0 => Ancestors(c, id) = {}
    BY <1>5, <2>1
  <2>3. QED
    BY <2>2, FS_EmptySet
<1>7. ASSUME NEW n \in Nat, n \in M PROVE n + 1 \in M
  <2>1. SUFFICES ASSUME NEW id \in Id, depth[id] = n + 1
                 PROVE  Cardinality(Ancestors(c, id)) = n + 1
    OBVIOUS
  <2>2. P(id) # NoId
    BY <1>3, <2>1
  <2>3. P(id) \in Id /\ depth[id] = depth[P(id)] + 1
    BY <1>2, <2>2
  <2>4. depth[P(id)] \in Nat
    BY <1>2, <2>3
  <2>5. depth[P(id)] = n
    BY <2>1, <2>3, <2>4
  <2>6. Cardinality(Ancestors(c, P(id))) = n
    BY <1>7, <2>3, <2>5
  <2>7. Ancestors(c, id) = Ancestors(c, P(id)) \union {P(id)}
    BY <1>5, <2>2
  <2>8. QED
    BY <1>4, <2>3, <2>6, <2>7, FS_AddElement
<1>8. \A id \in Id : depth[id] = Cardinality(Ancestors(c, id))
  <2>1. Nat \subseteq M
    <3> HIDE DEF M
    <3>1. QED
      BY <1>6, <1>7, NatInduct
  <2>2. QED
    BY <1>2, <2>1
<1>9. QED
  BY <1>8 DEF depth

(* A chain that lists what is above a node, the nearer before the farther. *)
IsChain(c, id, s) ==
  /\ s \in Seq(Id)
  /\ \A a \in Id : a \in Ancestors(c, id) <=> \E i \in 1..Len(s) : s[i] = a
  /\ \A i, j \in 1..Len(s) : i < j => <<s[j], s[i]>> \in Above(c)

(* With its first member put before it, it is the chain from there.        *)
LEMMA LongerChain ==
  ASSUME NEW c, IsTree(c), Accepts(c), NEW p \in Id, NEW s, IsChain(c, p, s)
  PROVE  LET u == <<p>> \o s IN
         /\ u \in Seq(Id)
         /\ \A a \in Id : (a = p \/ a \in Ancestors(c, p)) <=> \E i \in 1..Len(u) : u[i] = a
         /\ \A i, j \in 1..Len(u) : i < j => <<u[j], u[i]>> \in Above(c)
<1> DEFINE u == <<p>> \o s
<1>1. s \in Seq(Id) /\ Len(s) \in Nat /\ \A i \in 1..Len(s) : s[i] \in Id
  BY DEF IsChain
<1>2. u \in Seq(Id) /\ Len(u) = Len(s) + 1 /\ u[1] = p /\ \A i \in 1..Len(s) : u[i + 1] = s[i]
  BY <1>1
<1> HIDE DEF u
<1>3. \A i \in 1..Len(u) : i = 1 \/ (i - 1 \in 1..Len(s) /\ u[i] = s[i - 1])
  <2> TAKE i \in 1..Len(u)
  <2>1. SUFFICES ASSUME i # 1 PROVE i - 1 \in 1..Len(s) /\ u[i] = s[i - 1]
    OBVIOUS
  <2>2. i - 1 \in 1..Len(s) /\ (i - 1) + 1 = i
    BY <1>1, <1>2, <2>1
  <2>3. QED
    BY <1>2, <2>2
<1>4. ASSUME NEW a \in Id PROVE (a = p \/ a \in Ancestors(c, p)) <=> \E i \in 1..Len(u) : u[i] = a
  <2>1. a \in Ancestors(c, p) <=> \E i \in 1..Len(s) : s[i] = a
    BY DEF IsChain
  <2>2. ASSUME a = p PROVE \E i \in 1..Len(u) : u[i] = a
    <3>1. 1 \in 1..Len(u)
      BY <1>1, <1>2
    <3>2. QED
      BY <1>2, <2>2, <3>1
  <2>3. ASSUME NEW i \in 1..Len(s), s[i] = a PROVE \E j \in 1..Len(u) : u[j] = a
    <3>1. i + 1 \in 1..Len(u)
      BY <1>1, <1>2
    <3>2. QED
      BY <1>2, <2>3, <3>1
  <2>4. ASSUME NEW i \in 1..Len(u), u[i] = a PROVE a = p \/ \E j \in 1..Len(s) : s[j] = a
    BY <1>2, <1>3, <2>4
  <2>5. QED
    BY <2>1, <2>2, <2>3, <2>4
<1>5. ASSUME NEW i \in 1..Len(u), NEW j \in 1..Len(u), i < j PROVE <<u[j], u[i]>> \in Above(c)
  <2>1. j # 1 /\ j - 1 \in 1..Len(s) /\ u[j] = s[j - 1]
    BY <1>1, <1>2, <1>3, <1>5
  <2>2. CASE i = 1
    <3>1. s[j - 1] \in Id /\ s[j - 1] \in Ancestors(c, p)
      BY <1>1, <2>1 DEF IsChain
    <3>2. QED
      BY <1>2, <2>1, <2>2, <3>1 DEF Ancestors
  <2>3. CASE i # 1
    <3>1. i - 1 \in 1..Len(s) /\ u[i] = s[i - 1] /\ i - 1 < j - 1
      BY <1>1, <1>2, <1>3, <1>5, <2>3
    <3>2. <<s[j - 1], s[i - 1]>> \in Above(c)
      BY <2>1, <3>1 DEF IsChain
    <3>3. QED
      BY <2>1, <3>1, <3>2
  <2>4. QED
    BY <2>2, <2>3
<1>6. QED
  BY <1>2, <1>4, <1>5 DEF u

(* getAncestors walks up that chain.                                       *)
LEMMA AncestorsAreAChain ==
  ASSUME NEW c, IsTree(c), Accepts(c), NEW id \in Id
  PROVE  IsChain(c, id, getAncestors(buildTopology(c), id))
<1> DEFINE m == buildTopology(c)
           P(k) == ParentOf(c, k)
           depth == calculateDepth(c)
           S == [Id -> Seq(Id)]
           empty == [k \in Id |-> <<>>]
           Row(e) == [k \in Id |-> IF P(k) = NoId THEN <<>> ELSE <<P(k)>> \o e[P(k)]]
           next == [n \in 1..N |-> [e \in S |-> Row(e)]]
           above[n \in 0..N] ==
             [k \in Id |-> IF n = 0 \/ getParent(m, k) = NoId THEN <<>>
                          ELSE <<getParent(m, k)>> \o above[n - 1][getParent(m, k)]]
<1>1. c \in TopologyConfig /\ \A k \in Id : OneParent(c) /\ depth[k] < N
  BY AcceptedIsShallow DEF IsTree
<1>2. depth \in [Id -> Nat] /\ \A k \in Id : P(k) # NoId => P(k) \in Id /\ depth[k] = depth[P(k)] + 1
  BY <1>1, DepthCounts
<1>3. N \in Nat /\ empty \in S
  BY Names
<1>4. \A k \in Id : getParent(m, k) = P(k)
  BY MapFacts
<1>5. \A e \in S : Row(e) \in S
  <2>1. ASSUME NEW e \in S, NEW k \in Id, P(k) # NoId PROVE <<P(k)>> \o e[P(k)] \in Seq(Id)
    BY <1>2, <2>1
  <2>2. QED
    BY <2>1
<1>6. PICK g \in [0..N -> S] : g[0] = empty /\ \A n \in 1..N : g[n] = Row(g[n - 1])
  <2>1. next \in [1..N -> [S -> S]]
    BY <1>5
  <2>2. PICK g \in [0..N -> S] : g[0] = empty /\ \A n \in 1..N : g[n] = next[n][g[n - 1]]
    <3> HIDE DEF S, next, empty
    <3>1. QED
      BY <1>3, <2>1, RecursionExists
  <2>3. \A n \in 1..N : g[n] = Row(g[n - 1])
    <3> TAKE n \in 1..N
    <3>1. n - 1 \in 0..N
      BY <1>3
    <3>2. g[n] = next[n][g[n - 1]] /\ g[n - 1] \in S
      BY <2>2, <3>1
    <3> HIDE DEF Row, S
    <3>3. QED
      BY <3>2
  <2>4. QED
    BY <2>2, <2>3
<1>7. \E f : f = [n \in 0..N |-> [k \in Id |-> IF n = 0 \/ getParent(m, k) = NoId THEN <<>>
                                           ELSE <<getParent(m, k)>> \o f[n - 1][getParent(m, k)]]]
  <2>1. \A n \in 0..N : g[n] = [k \in Id |-> IF n = 0 \/ getParent(m, k) = NoId THEN <<>>
                                           ELSE <<getParent(m, k)>> \o g[n - 1][getParent(m, k)]]
    <3> TAKE n \in 0..N
    <3> HIDE DEF P, m
    <3>1. CASE n = 0
      BY <1>6, <3>1
    <3>2. CASE n # 0
      <4>1. n \in 1..N
        BY <1>3, <3>2
      <4>2. g[n] = Row(g[n - 1])
        BY <1>6, <4>1
      <4>3. QED
        BY <1>4, <3>2, <4>2
    <3>3. QED
      BY <3>1, <3>2
  <2>2. g = [n \in 0..N |-> [k \in Id |-> IF n = 0 \/ getParent(m, k) = NoId THEN <<>>
                                        ELSE <<getParent(m, k)>> \o g[n - 1][getParent(m, k)]]]
    <3> HIDE DEF m
    <3>1. QED
      BY <1>6, <2>1
  <2>3. QED
    BY <2>2
<1>8. above = [n \in 0..N |-> [k \in Id |-> IF n = 0 \/ getParent(m, k) = NoId THEN <<>>
                                         ELSE <<getParent(m, k)>> \o above[n - 1][getParent(m, k)]]]
  BY <1>7
<1>9. getAncestors(m, id) = above[N][id]
  BY DEF getAncestors, N
<1> HIDE DEF above, m, depth
<1>10. \A k \in Id : above[0][k] = <<>>
  BY <1>3, <1>8
<1>11. \A n \in 1..N, k \in Id :
         above[n][k] = IF P(k) = NoId THEN <<>> ELSE <<P(k)>> \o above[n - 1][P(k)]
  <2> TAKE n \in 1..N, k \in Id
  <2>1. n \in 0..N /\ n # 0
    BY <1>3
  <2>2. above[n][k] = IF getParent(m, k) = NoId THEN <<>>
                      ELSE <<getParent(m, k)>> \o above[n - 1][getParent(m, k)]
    <3>1. above[n] = [j \in Id |-> IF n = 0 \/ getParent(m, j) = NoId THEN <<>>
                                 ELSE <<getParent(m, j)>> \o above[n - 1][getParent(m, j)]]
      <4> DEFINE Rest(e, i) == [j \in Id |-> IF i = 0 \/ getParent(m, j) = NoId THEN <<>>
                                           ELSE <<getParent(m, j)>> \o e[i - 1][getParent(m, j)]]
      <4>1. above = [i \in 0..N |-> Rest(above, i)]
        BY <1>8
      <4> HIDE DEF Rest
      <4>2. above[n] = Rest(above, n)
        BY ONLY <2>1, <4>1
      <4>3. QED
        BY <4>2 DEF Rest
    <3>2. QED
      BY <2>1, <3>1
  <2> HIDE DEF P
  <2>3. QED
    BY <1>4, <2>2
<1>12. \A k \in Id : Ancestors(c, k) = IF P(k) = NoId THEN {} ELSE {P(k)} \union Ancestors(c, P(k))
  BY AncestorsStep
<1>13. \A k \in Id : P(k) = NoId => IsChain(c, k, <<>>)
  BY <1>12 DEF IsChain
<1> HIDE DEF P
<1> DEFINE M == {n \in Nat : n <= N => \A k \in Id : depth[k] <= n => IsChain(c, k, above[n][k])}
<1>14. 0 \in M
  <2>1. SUFFICES ASSUME NEW k \in Id, depth[k] <= 0 PROVE IsChain(c, k, above[0][k])
    OBVIOUS
  <2>2. P(k) = NoId
    <3>1. SUFFICES ASSUME P(k) # NoId PROVE FALSE
      OBVIOUS
    <3>2. P(k) \in Id /\ depth[k] = depth[P(k)] + 1
      BY <1>2, <3>1
    <3>3. depth[P(k)] \in Nat
      BY <1>2, <3>2
    <3>4. QED
      BY <2>1, <3>2, <3>3
  <2>3. QED
    BY <1>10, <1>13, <2>2
<1>15. ASSUME NEW n \in Nat, n \in M PROVE n + 1 \in M
  <2>1. SUFFICES ASSUME n + 1 <= N, NEW k \in Id, depth[k] <= n + 1
                 PROVE  IsChain(c, k, above[n + 1][k])
    OBVIOUS
  <2>2. n + 1 \in 1..N /\ (n + 1) - 1 = n /\ n <= N
    BY <1>3, <2>1
  <2>3. above[n + 1][k] = IF P(k) = NoId THEN <<>> ELSE <<P(k)>> \o above[n][P(k)]
    BY <1>11, <2>2
  <2>4. CASE P(k) = NoId
    BY <1>13, <2>3, <2>4
  <2>5. CASE P(k) # NoId
    <3>1. P(k) \in Id /\ depth[k] = depth[P(k)] + 1
      BY <1>2, <2>5
    <3>2. depth[P(k)] \in Nat
      BY <1>2, <3>1
    <3>3. depth[P(k)] <= n
      BY <2>1, <3>1, <3>2
    <3>4. IsChain(c, P(k), above[n][P(k)])
      BY <1>15, <2>2, <3>1, <3>3
    <3> DEFINE u == <<P(k)>> \o above[n][P(k)]
    <3>5. /\ u \in Seq(Id)
          /\ \A a \in Id : (a = P(k) \/ a \in Ancestors(c, P(k))) <=> \E i \in 1..Len(u) : u[i] = a
          /\ \A i, j \in 1..Len(u) : i < j => <<u[j], u[i]>> \in Above(c)
      BY <3>1, <3>4, LongerChain
    <3>6. above[n + 1][k] = u
      BY <2>3, <2>5
    <3> HIDE DEF u
    <3>7. \A a \in Id : a \in Ancestors(c, k) <=> a = P(k) \/ a \in Ancestors(c, P(k))
      BY <1>12, <2>5
    <3>8. QED
      BY <3>5, <3>6, <3>7 DEF IsChain
  <2>6. QED
    BY <2>4, <2>5
<1>16. IsChain(c, id, above[N][id])
  <2>1. N \in M
    <3> HIDE DEF M
    <3>1. QED
      BY <1>3, <1>14, <1>15, NatInduct
  <2>2. depth[id] <= N /\ N <= N
    <3>1. depth[id] \in Nat /\ depth[id] < N
      BY <1>1, <1>2
    <3>2. QED
      BY <1>3, <3>1
  <2>3. QED
    BY <2>1, <2>2
<1>17. QED
  BY <1>9, <1>16 DEF m

(* isAncestor tells what the closure relates.                              *)
LEMMA AncestorIsAbove ==
  ASSUME NEW c, IsTree(c), Accepts(c), NEW a \in Id, NEW b \in Id
  PROVE  isAncestor(buildTopology(c), a, b) <=> <<a, b>> \in Above(c)
<1> DEFINE s == getAncestors(buildTopology(c), b)
<1>1. IsChain(c, b, s)
  BY AncestorsAreAChain
<1> HIDE DEF s
<1>2. s \in Seq(Id) /\ DOMAIN s = 1..Len(s)
  BY <1>1 DEF IsChain
<1>3. a \in ToSet(s) <=> \E i \in 1..Len(s) : s[i] = a
  BY <1>2 DEF ToSet
<1>4. QED
  BY <1>1, <1>3 DEF IsChain, Ancestors, isAncestor, s

(* Siblings have the same parent and the same depth.                       *)
LEMMA SiblingsShareAParent ==
  ASSUME NEW c, IsTree(c), Accepts(c), NEW a \in c.nodes, NEW b \in c.nodes
  PROVE  LET m == buildTopology(c) IN
         /\ a \in getSiblings(c, m, b) <=> b \in getSiblings(c, m, a)
         /\ a \in getSiblings(c, m, b) =>
              \E d \in 1..N : {a, b} \subseteq getNodesAtDepth(m, d)
<1> DEFINE m == buildTopology(c)
           P(k) == ParentOf(c, k)
           depth == calculateDepth(c)
<1>1. c \in TopologyConfig /\ c.type = "tree" /\ \A k \in Id : OneParent(c) /\ depth[k] < N
  BY AcceptedIsShallow DEF IsTree
<1>2. a \in Id /\ b \in Id /\ DOMAIN m = c.nodes
  BY MapFacts
<1>3. /\ \A k \in Id : getChildren(m, k) = ChildrenOf(c, k)
      /\ \A k \in c.nodes : m[k].parent = P(k) /\ m[k].depth = depth[k]
  BY MapFacts
<1>4. depth \in [Id -> Nat] /\ \A k \in Id : P(k) # NoId => P(k) \in Id /\ depth[k] = depth[P(k)] + 1
  BY <1>1, DepthCounts
<1>5. \A p, k \in Id : k \in ChildrenOf(c, p) <=> P(k) # NoId /\ p = P(k)
  <2> TAKE p, k \in Id
  <2>1. k \in ChildrenOf(c, p) <=> <<p, k>> \in c.children
    BY DEF ChildrenOf
  <2>2. QED
    BY <1>1, <2>1, OnlyParent
<1> HIDE DEF m, P, depth
<1>6. \A x, y \in c.nodes :
        x \in Id /\ y \in Id => (x \in getSiblings(c, m, y) <=> (P(y) # NoId /\ P(x) = P(y) /\ x # y))
  <2> TAKE x, y \in c.nodes
  <2> HAVE x \in Id /\ y \in Id
  <2>1. getSiblings(c, m, y) = IF P(y) = NoId THEN {} ELSE getChildren(m, P(y)) \ {y}
    <3>1. getSiblings(c, m, y) = getChildren(m, P(y)) \ {y}
      BY <1>1, <1>2, <1>3 DEF getSiblings, getParent
    <3>2. getChildren(m, NoId) = {}
      BY <1>2, TopologyAssumption DEF getChildren, IsTree, TopologyConfig
    <3>3. QED
      BY <3>1, <3>2
  <2>2. CASE P(y) = NoId
    BY <2>1, <2>2
  <2>3. CASE P(y) # NoId
    <3>1. P(y) \in Id
      BY <1>4, <2>3
    <3>2. getSiblings(c, m, y) = ChildrenOf(c, P(y)) \ {y}
      BY <1>3, <2>1, <2>3, <3>1
    <3>3. x \in ChildrenOf(c, P(y)) <=> P(x) # NoId /\ P(y) = P(x)
      BY <1>5, <3>1
    <3>4. QED
      BY <2>3, <3>2, <3>3
  <2>4. QED
    BY <2>2, <2>3
<1>7. a \in getSiblings(c, m, b) <=> b \in getSiblings(c, m, a)
  BY <1>2, <1>6
<1>8. ASSUME a \in getSiblings(c, m, b)
      PROVE  \E d \in 1..N : {a, b} \subseteq getNodesAtDepth(m, d)
  <2>1. P(b) # NoId /\ P(a) = P(b)
    BY <1>2, <1>6, <1>8
  <2>2. P(b) \in Id /\ depth[b] = depth[P(b)] + 1 /\ depth[a] = depth[b]
    BY <1>2, <1>4, <2>1
  <2>3. depth[P(b)] \in Nat /\ depth[b] < N
    BY <1>1, <1>2, <1>4, <2>2
  <2>4. depth[b] \in 1..N
    BY <2>2, <2>3, Names
  <2>5. {a, b} \subseteq getNodesAtDepth(m, depth[b])
    BY <1>2, <1>3, <2>2 DEF getNodesAtDepth
  <2>6. QED
    BY <2>4, <2>5
<1>9. QED
  BY <1>7, <1>8 DEF m

(* A set of naturals that is not empty has a least member.                 *)
LEMMA MinOfNaturals ==
  ASSUME NEW S \in SUBSET Nat, S # {}
  PROVE  Min(S) \in S /\ \A x \in S : Min(S) <= x
<1>1. PICK x \in S : \A y \in S : ~ (<<y, x>> \in OpToRel(<, Nat))
  BY NatLessThanWellFounded, WFMin
<1>2. \A y \in S : x <= y
  <2>1. SUFFICES ASSUME NEW y \in S PROVE ~ (y < x)
    OBVIOUS
  <2>2. y < x => <<y, x>> \in OpToRel(<, Nat)
    BY DEF OpToRel
  <2>3. QED
    BY <1>1, <2>2
<1>3. QED
  BY <1>2 DEF Min

(* findCommonAncestor finds the lowest of those at or above both nodes.    *)
LEMMA CommonAncestorIsLowest ==
  ASSUME NEW c, IsTree(c), Accepts(c), NEW a \in c.nodes, NEW b \in c.nodes
  PROVE  LET AtOrAbove(x, y) == x = y \/ <<x, y>> \in Above(c)
             k == findCommonAncestor(c, buildTopology(c), a, b)
             common == {x \in c.nodes : AtOrAbove(x, a) /\ AtOrAbove(x, b)}
         IN  IF common = {} THEN k = NoId
             ELSE k \in common /\ \A x \in common : AtOrAbove(x, k)
<1> DEFINE m == buildTopology(c)
           AtOrAbove(x, y) == x = y \/ <<x, y>> \in Above(c)
           common == {x \in c.nodes : AtOrAbove(x, a) /\ AtOrAbove(x, b)}
           chain == <<b>> \o getAncestors(m, b)
           shared(k) == k = a \/ isAncestor(m, k, a)
           I == {i \in 1..Len(chain) : shared(chain[i])}
<1>1. c \in TopologyConfig /\ c.type # "flat" /\ c.children \subseteq c.nodes \X c.nodes
  BY DEF IsTree
<1>2. a \in Id /\ b \in Id /\ c.nodes \subseteq Id
  BY MapFacts
<1>3. /\ chain \in Seq(Id)
      /\ \A x \in Id : (x = b \/ x \in Ancestors(c, b)) <=> \E i \in 1..Len(chain) : chain[i] = x
      /\ \A i, j \in 1..Len(chain) : i < j => <<chain[j], chain[i]>> \in Above(c)
  BY <1>2, AncestorsAreAChain, LongerChain
<1>4. \A x \in Id : shared(x) <=> AtOrAbove(x, a)
  BY <1>2, AncestorIsAbove
<1>5. findCommonAncestor(c, m, a, b) = IF I = {} THEN NoId ELSE chain[Min(I)]
  <2>1. SelectInSeq(chain, shared) = IF I # {} THEN Min(I) ELSE 0
    BY DEF SelectInSeq
  <2>2. I # {} => Min(I) \in 1..Len(chain)
    <3>1. I \in SUBSET Nat /\ I \subseteq 1..Len(chain)
      OBVIOUS
    <3> HIDE DEF I
    <3>2. QED
      BY <3>1, MinOfNaturals
  <2>3. findCommonAncestor(c, m, a, b) =
          IF c.type = "flat" \/ SelectInSeq(chain, shared) = 0 THEN NoId
          ELSE chain[SelectInSeq(chain, shared)]
    BY DEF findCommonAncestor
  <2> HIDE DEF I, chain, m, shared
  <2>4. QED
    BY <1>1, <2>1, <2>2, <2>3
<1> HIDE DEF chain, m, shared
<1>6. \A x \in Id : <<x, b>> \in Above(c) => x \in c.nodes
  <2>1. PICK r : IsClosure(c, r) /\ Above(c) = r[N]
    BY <1>1, ClosureExists
  <2>2. N \in Nat
    BY Names
  <2> DEFINE M == {n \in Nat : n <= N => \A x, y \in Id : <<x, y>> \in r[n] => x \in c.nodes}
  <2>3. 0 \in M
    BY <1>1, <2>1 DEF IsClosure
  <2>4. ASSUME NEW n \in Nat, n \in M PROVE n + 1 \in M
    <3>1. SUFFICES ASSUME n + 1 <= N, NEW x \in Id, NEW y \in Id, <<x, y>> \in r[n + 1]
                   PROVE  x \in c.nodes
      OBVIOUS
    <3>2. n + 1 \in 1..N /\ (n + 1) - 1 = n /\ n <= N
      BY <2>2, <3>1
    <3>3. \E q \in Id : <<x, q>> \in r[n]
      BY <2>1, <3>1, <3>2 DEF IsClosure
    <3>4. QED
      BY <2>4, <3>2, <3>3
  <2>5. N \in M
    <3> HIDE DEF M
    <3>1. QED
      BY <2>2, <2>3, <2>4, NatInduct
  <2>6. QED
    BY <1>2, <2>1, <2>2, <2>5
<1>7. \A x \in Id : x \in common <=> \E i \in I : chain[i] = x
  <2> TAKE x \in Id
  <2>1. x \in common <=> AtOrAbove(x, a) /\ (x = b \/ x \in Ancestors(c, b))
    BY <1>6 DEF Ancestors
  <2> HIDE DEF common, AtOrAbove
  <2>2. QED
    BY <1>3, <1>4, <2>1
<1>8. common \subseteq Id
  BY <1>2
<1>9. CASE I = {}
  <2>1. common = {}
    BY <1>7, <1>8, <1>9
  <2>2. QED
    BY <1>5, <1>9, <2>1 DEF m
<1>10. CASE I # {}
  <2> DEFINE i == Min(I)
             k == findCommonAncestor(c, m, a, b)
  <2>1. i \in I /\ \A j \in I : i <= j
    <3>1. I \in SUBSET Nat
      BY <1>3
    <3> HIDE DEF I
    <3>2. QED
      BY <1>10, <3>1, MinOfNaturals
  <2>2. i \in 1..Len(chain) /\ k = chain[i]
    BY <1>5, <1>10, <2>1
  <2>3. k \in Id
    BY <1>3, <2>2
  <2>4. k \in common
    BY <1>7, <2>1, <2>2, <2>3
  <2>5. ASSUME NEW x \in common PROVE AtOrAbove(x, k)
    <3>1. PICK j \in I : chain[j] = x
      BY <1>7, <1>8
    <3>2. i <= j /\ j \in 1..Len(chain)
      BY <2>1
    <3>3. j = i \/ i < j
      BY <2>2, <3>2
    <3>4. QED
      BY <1>3, <2>2, <3>1, <3>2, <3>3
  <2>6. QED
    BY <2>4, <2>5 DEF m
<1>11. QED
  BY <1>9, <1>10

(* On the trees it accepts, the queries of the hub that walk up, those     *)
(* that walk down and the depths it stored tell of one and the same tree:  *)
(* getAncestors, getDescendants, getSiblings, findCommonAncestor.          *)
THEOREM QueriesTellOneTree ==
  ASSUME NEW c \in TopologyConfig
  PROVE  QueriesAgree(c)
<1> DEFINE m == buildTopology(c)
           AtOrAbove(a, b) == a = b \/ <<a, b>> \in Above(c)
<1>1. SUFFICES ASSUME Accepts(c), c.type = "tree", c.children \subseteq c.nodes \X c.nodes
               PROVE  /\ \A id \in c.nodes : m[id].depth = Cardinality({a \in Id : <<a, id>> \in Above(c)})
                      /\ \A id \in getLeafNodes(m) : getDescendants(m, id) = {}
                      /\ \A a, b \in c.nodes :
                           /\ isAncestor(m, a, b) <=> <<a, b>> \in Above(c)
                           /\ isDescendant(m, b, a) <=> <<a, b>> \in Above(c)
                           /\ a \in getSiblings(c, m, b) <=> b \in getSiblings(c, m, a)
                           /\ a \in getSiblings(c, m, b) =>
                                \E d \in 1..Cardinality(Id) : {a, b} \subseteq getNodesAtDepth(m, d)
                           /\ LET k == findCommonAncestor(c, m, a, b)
                                  common == {x \in c.nodes : AtOrAbove(x, a) /\ AtOrAbove(x, b)}
                              IN  IF common = {} THEN k = NoId
                                  ELSE k \in common /\ \A x \in common : AtOrAbove(x, k)
  BY DEF QueriesAgree
<1>2. IsTree(c) /\ c.nodes \subseteq Id
  BY <1>1 DEF IsTree, TopologyConfig
<1>3. \A id \in c.nodes : m[id].depth = Cardinality({a \in Id : <<a, id>> \in Above(c)})
  BY <1>1, <1>2, MapFacts, DepthIsNumberAbove DEF Ancestors
<1>4. ASSUME NEW id \in getLeafNodes(m) PROVE getDescendants(m, id) = {}
  <2>1. id \in c.nodes /\ id \in Id /\ ChildrenOf(c, id) = {}
    BY <1>2, MapFacts DEF getLeafNodes
  <2>2. \A b \in Id : <<id, b>> \notin Above(c)
    <3>1. PICK r : IsClosure(c, r) /\ Above(c) = r[N]
      BY <1>2, ClosureExists
    <3>2. N \in Nat
      BY Names
    <3> DEFINE M == {n \in Nat : n <= N => \A b \in Id : <<id, b>> \notin r[n]}
    <3>3. 0 \in M
      BY <2>1, <3>1 DEF IsClosure, ChildrenOf
    <3>4. ASSUME NEW n \in Nat, n \in M PROVE n + 1 \in M
      <4>1. SUFFICES ASSUME n + 1 <= N, NEW b \in Id PROVE <<id, b>> \notin r[n + 1]
        OBVIOUS
      <4>2. n + 1 \in 1..N /\ (n + 1) - 1 = n /\ n <= N
        BY <3>2, <4>1
      <4>3. \A q \in Id : <<id, q>> \notin r[n]
        BY <3>4, <4>2
      <4>4. QED
        BY <2>1, <3>1, <4>2, <4>3 DEF IsClosure
    <3>5. N \in M
      <4> HIDE DEF M
      <4>1. QED
        BY <3>2, <3>3, <3>4, NatInduct
    <3>6. QED
      BY <3>1, <3>2, <3>5
  <2>3. getDescendants(m, id) = {b \in Id : <<id, b>> \in Above(c)}
    BY <1>2, <2>1, DescendantsAreBelow
  <2>4. QED
    BY <2>2, <2>3
<1>5. ASSUME NEW a \in c.nodes, NEW b \in c.nodes
      PROVE  /\ isAncestor(m, a, b) <=> <<a, b>> \in Above(c)
             /\ isDescendant(m, b, a) <=> <<a, b>> \in Above(c)
  <2>1. a \in Id /\ b \in Id
    BY <1>2
  <2>2. getDescendants(m, a) = {x \in Id : <<a, x>> \in Above(c)}
    BY <1>2, <2>1, DescendantsAreBelow
  <2>3. QED
    BY <1>1, <1>2, <2>1, <2>2, AncestorIsAbove DEF isDescendant
<1>6. ASSUME NEW a \in c.nodes, NEW b \in c.nodes
      PROVE  /\ a \in getSiblings(c, m, b) <=> b \in getSiblings(c, m, a)
             /\ a \in getSiblings(c, m, b) =>
                  \E d \in 1..Cardinality(Id) : {a, b} \subseteq getNodesAtDepth(m, d)
  BY <1>1, <1>2, SiblingsShareAParent DEF N
<1>7. ASSUME NEW a \in c.nodes, NEW b \in c.nodes
      PROVE  LET k == findCommonAncestor(c, m, a, b)
                 common == {x \in c.nodes : AtOrAbove(x, a) /\ AtOrAbove(x, b)}
             IN  IF common = {} THEN k = NoId
                 ELSE k \in common /\ \A x \in common : AtOrAbove(x, k)
  BY <1>1, <1>2, CommonAncestorIsLowest
<1>8. QED
  BY <1>3, <1>4, <1>5, <1>6, <1>7

(* While the hub runs, its topology is one it should have accepted and all *)
(* queries on it agree with the relation it was built from: the            *)
(* constructor of TopologyManager and its queries, on every configuration  *)
(* over the names that the run goes through.                               *)
THEOREM RunningTopologyIsExact == CallSpec => []TopologyExact
<1>1. TopologiesAgree
  <2>1. Topologies \subseteq TopologyConfig
    <3> DEFINE some == CHOOSE id \in Id : TRUE
    <3>1. some \in Id
      BY TopologyAssumption
    <3> HIDE DEF some
    <3>2. Topologies =
            {c \in [type : {"tree"}, nodes : {Id, Id \ {some}}, root : {some},
                    children : SUBSET (Id \X Id), twice : {{}}] :
               Cardinality(c.children) <= Cardinality(Id)}
            \union {[type |-> "tree", nodes |-> Id, root |-> some, children |-> {x, y},
                     twice |-> {x}] : x, y \in Id \X Id}
            \union [type : {"flat"}, nodes : SUBSET Id, root : {NoId}, children : {{}},
                    twice : {{}}]
      BY DEF Topologies, some
    <3>3. QED
      BY <3>1, <3>2 DEF TopologyConfig
  <2>2. QED
    BY <2>1, ForestsAreAccepted, QueriesTellOneTree DEF TopologiesAgree
<1>2. TopologyExact
  BY <1>1 DEF TopologyExact
<1>3. QED
  BY <1>2, PTL

=============================================================================
