----------------------- MODULE NodeConnection_proofs -----------------------
(***************************************************************************)
(* Theorems about NodeConnection, and about NodeHealth beside it, for      *)
(* every set of sockets and transports, every kind of transport, every     *)
(* limit on reconnect attempts and every window of errors.                 *)
(***************************************************************************)
EXTENDS NodeHealth, FiniteSetTheorems, TLAPS

-----------------------------------------------------------------------------
(* Type correctness, with reloads and the shutdown of the registry: every  *)
(* handler leaves the connection state well-typed; in particular the       *)
(* attempt counter never passes the limit.                                 *)
LEMMA InitType == Init => TypeOK
<1> SUFFICES ASSUME Init PROVE TypeOK
  OBVIOUS
<1>1. attempts \in 0..MaxReconnectAttempts
  BY ConnectionAssumption DEF Init
<1>2. due \in Nat /\ dialed \in Nat /\ due + dialed <= MaxDials
  BY ConnectionAssumption DEF Init
<1> QED BY <1>1, <1>2 DEF Init, TypeOK, WireState, Phase, Status

(* The two helpers the handlers share. *)
LEMMA ScheduleType ==
  TypeOK /\ ScheduleReconnect => attempts' \in 0..MaxReconnectAttempts /\ timers' \in Nat
BY ConnectionAssumption DEF TypeOK, ScheduleReconnect

LEMMA UpdateType ==
  ASSUME TypeOK, NEW st \in Status \cup {"none"}, UpdateState(st)
  PROVE  regState' \in Status \cup {"none"} /\ health' \in {"unknown", "up", "down"}
BY DEF TypeOK, UpdateState

LEMMA OperateType == TypeOK /\ Operate => TypeOK'
<1> SUFFICES ASSUME TypeOK, Operate PROVE TypeOK'
  OBVIOUS
<1> USE ConnectionAssumption DEF ConnectionAssumption, TypeOK, WireState, Phase, Status
<1>1. CASE ReconnectTimer
  <2>1. CASE pooled = NoTransport
    BY <1>1, <2>1 DEF ReconnectTimer, sockVars, regVars
  <2>2. CASE \E s \in Socket : Dial(s, "reconnect")
    BY <1>1, <2>2 DEF ReconnectTimer, Dial, StartDial, StartSocket, regVars
  <2> QED BY <1>1, <2>1, <2>2 DEF ReconnectTimer
<1>2. ASSUME NEW s \in Socket, SocketStep(s) PROVE TypeOK'
  <2>1. CASE RegistryConnect(s)
    BY <2>1 DEF RegistryConnect, Dial, StartDial, StartSocket, UpdateState
  <2>2. CASE TunnelTimer(s)
    BY <2>2 DEF TunnelTimer, StartSocket, regVars
  <2>3. CASE TunnelFail(s)
    BY <2>3 DEF TunnelFail, Settle, UpdateState, Rejected, poolVars
  <2>4. CASE Open(s)
    BY <2>4 DEF Open, poolVars, regVars
  <2>5. CASE FailOpening(s)
    <3>1. Rejected(s, "disconnected") \in Status \cup {"none"}
      BY DEF Rejected
    <3> QED BY <2>5, <3>1, ScheduleType, UpdateType DEF FailOpening, Settle
  <2>6. CASE Challenge(s)
    BY <2>6 DEF Challenge, poolVars, regVars
  <2>7. CASE AuthOk(s)
    <3>1. attempts' \in 0..MaxReconnectAttempts
      BY <2>7 DEF AuthOk
    <3> QED BY <2>7, <3>1, UpdateType DEF AuthOk, Settle
  <2>8. CASE AuthFail(s)
    BY <2>8 DEF AuthFail, Settle, UpdateState, Rejected, poolVars
  <2>9. CASE ProtocolError(s)
    BY <2>9 DEF ProtocolError, Settle, UpdateState
  <2>10. CASE Close(s)
    BY <2>10, ScheduleType, UpdateType DEF Close
  <2>11. CASE Timeout(s)
    BY <2>5, <2>11 DEF Timeout, Settle, UpdateState, Rejected, poolVars
  <2> QED BY <1>2, <2>1, <2>2, <2>3, <2>4, <2>5, <2>6, <2>7, <2>8, <2>9, <2>10, <2>11
          DEF SocketStep, Refused
<1> QED BY <1>1, <1>2 DEF Operate

LEMMA ReloadType == TypeOK /\ (Unregister \/ Register \/ CloseRegistry) => TypeOK'
<1> SUFFICES ASSUME TypeOK, Unregister \/ Register \/ CloseRegistry PROVE TypeOK'
  OBVIOUS
<1> USE ConnectionAssumption DEF ConnectionAssumption, TypeOK, WireState, Phase, Status
<1>d. due' \in Nat /\ dialed' \in Nat /\ due' + dialed' <= MaxDials
  BY DEF Unregister, Register, CloseRegistry
<1>1. CASE Unregister
  BY <1>1, <1>d DEF Unregister, Disconnect
<1>2. CASE Register
  BY <1>2, <1>d DEF Register, sockVars
<1>3. CASE CloseRegistry
  BY <1>3, <1>d, ScheduleType DEF CloseRegistry, Disconnect
<1> QED BY <1>1, <1>2, <1>3

THEOREM TypeCorrect == Spec => []TypeOK
<1>1. TypeOK /\ UNCHANGED vars => TypeOK'
  BY DEF TypeOK, vars, sockVars, poolVars, regVars
<1>2. TypeOK /\ [Next]_vars => TypeOK'
  BY <1>1, OperateType, ReloadType DEF Next
<1> QED BY InitType, <1>2, PTL DEF Spec

-----------------------------------------------------------------------------
(* Steady operation: one link per dial, never dropped, truthfully reported. *)

(* How the set of live sockets changes: a dial adds one, a loss removes    *)
(* one, and the other steps of a socket keep it.                           *)
LEMMA DialLive ==
  ASSUME TypeOK, NEW s \in Socket, NEW who \in {"registry", "reconnect"}, Dial(s, who)
  PROVE  LiveSet' = LiveSet \union {s}
<1>1. \A x \in Socket : wire'[x] # "closed" <=> x = s \/ wire[x] # "closed"
  BY DEF Dial, StartDial, StartSocket, TypeOK
<1>2. QED
  BY <1>1 DEF LiveSet, Live

LEMMA LossLive ==
  ASSUME TypeOK, NEW s \in Socket,
         \/ wire[s] \in {"opening", "aborting"} /\ FailOpening(s)
         \/ Close(s) \/ TunnelFail(s)
  PROVE  /\ s \in LiveSet /\ LiveSet' = LiveSet \ {s}
         /\ unused' = unused /\ due' = due /\ dialed' = dialed
         /\ timers' \in {timers, timers + 1}
         /\ regState' = "none" <=> regState = "none"
<1>1. /\ s \in LiveSet /\ unused' = unused /\ due' = due /\ dialed' = dialed
      /\ wire' = [wire EXCEPT ![s] = "closed"]
  BY DEF FailOpening, Close, TunnelFail, LiveSet, Live, poolVars
<1>2. LiveSet' = LiveSet \ {s}
  BY <1>1 DEF LiveSet, Live, TypeOK
<1>3. timers' \in {timers, timers + 1}
  BY DEF FailOpening, Close, TunnelFail, ScheduleReconnect, poolVars, TypeOK
<1>4. regState' = "none" <=> regState = "none"
  BY DEF FailOpening, Close, TunnelFail, UpdateState, Rejected, TypeOK, Status
<1>5. QED
  BY <1>1, <1>2, <1>3, <1>4

LEMMA QuietLive ==
  ASSUME TypeOK, NEW s \in Socket,
         \/ TunnelTimer(s) \/ Open(s) \/ Challenge(s) \/ AuthOk(s) \/ AuthFail(s)
         \/ ProtocolError(s) \/ (Timeout(s) /\ wire[s] # "opening")
  PROVE  /\ LiveSet' = LiveSet /\ unused' = unused /\ timers' = timers
         /\ due' = due /\ dialed' = dialed
         /\ regState' = "none" <=> regState = "none"
<1>1. /\ unused' = unused /\ due' = due /\ dialed' = dialed /\ timers' = timers
      /\ \A x \in Socket : wire'[x] = "closed" <=> wire[x] = "closed"
  BY DEF TunnelTimer, StartSocket, Open, Challenge, AuthOk, AuthFail, ProtocolError, Timeout,
         FailOpening, poolVars, regVars, TypeOK
<1>2. regState' = "none" <=> regState = "none"
  BY DEF TunnelTimer, Open, Challenge, AuthOk, AuthFail, ProtocolError, Timeout,
         FailOpening, UpdateState, Rejected, regVars, TypeOK, Status
<1>3. LiveSet' = LiveSet
  BY <1>1 DEF LiveSet, Live
<1>4. QED
  BY <1>1, <1>2, <1>3

(* The steps of a socket, by what they do to it.                           *)
LEMMA SocketSteps ==
  ASSUME NEW s \in Socket, SocketStep(s)
  PROVE  \/ RegistryConnect(s)
         \/ wire[s] \in {"opening", "aborting"} /\ FailOpening(s)
         \/ Close(s) \/ TunnelFail(s)
         \/ TunnelTimer(s) \/ Open(s) \/ Challenge(s) \/ AuthOk(s) \/ AuthFail(s)
         \/ ProtocolError(s) \/ (Timeout(s) /\ wire[s] # "opening")
<1>1. CASE Timeout(s) /\ wire[s] = "opening"
  BY <1>1 DEF Timeout
<1>2. CASE Refused(s)
  BY <1>2 DEF Refused
<1>3. QED
  BY <1>1, <1>2 DEF SocketStep

(* Arithmetic on the links of a node. *)
LEMMA CountStep ==
  ASSUME CountInv, TypeOK, TypeOK',
         \/ LiveSet' = LiveSet /\ timers' = timers /\ dialed' = dialed
         \/ /\ \E s \in LiveSet : LiveSet' = LiveSet \ {s}
            /\ timers' \in {timers, timers + 1} /\ dialed' = dialed
         \/ /\ \E s \in Socket : LiveSet' = LiveSet \union {s}
            /\ \/ timers' = timers - 1 /\ dialed' = dialed
               \/ timers' = timers /\ dialed' = dialed + 1
  PROVE  CountInv'
<1>1. /\ timers \in Nat /\ timers' \in Nat /\ dialed \in Nat /\ dialed' \in Nat
      /\ IsFiniteSet(LiveSet) /\ Cardinality(LiveSet) \in Nat
      /\ Cardinality(LiveSet) + timers <= dialed
  BY FS_CardinalityType DEF CountInv, OneLinkPerDial, TypeOK
<1>2. SUFFICES IsFiniteSet(LiveSet') /\ Cardinality(LiveSet') + timers' <= dialed'
  BY DEF CountInv, OneLinkPerDial
<1>3. CASE LiveSet' = LiveSet /\ timers' = timers /\ dialed' = dialed
  BY <1>1, <1>3
<1>4. ASSUME NEW s \in LiveSet, LiveSet' = LiveSet \ {s},
             timers' \in {timers, timers + 1}, dialed' = dialed
      PROVE  IsFiniteSet(LiveSet') /\ Cardinality(LiveSet') + timers' <= dialed'
  <2>1. IsFiniteSet(LiveSet') /\ Cardinality(LiveSet') = Cardinality(LiveSet) - 1
    BY <1>1, <1>4, FS_RemoveElement
  <2>2. QED
    BY <1>1, <1>4, <2>1
<1>5. ASSUME NEW s \in Socket, LiveSet' = LiveSet \union {s},
             \/ timers' = timers - 1 /\ dialed' = dialed
             \/ timers' = timers /\ dialed' = dialed + 1
      PROVE  IsFiniteSet(LiveSet') /\ Cardinality(LiveSet') + timers' <= dialed'
  <2>1. /\ IsFiniteSet(LiveSet')
        /\ Cardinality(LiveSet') \in {Cardinality(LiveSet), Cardinality(LiveSet) + 1}
    BY <1>1, <1>5, FS_AddElement
  <2>2. QED
    BY <1>1, <1>5, <2>1
<1>6. QED
  BY <1>3, <1>4, <1>5

LEMMA CountOperate ==
  ASSUME CountInv, TypeOK, TypeOK', Operate, pooled # NoTransport
  PROVE  CountInv'
<1>1. CASE ReconnectTimer
  <2>1. PICK s \in Socket : Dial(s, "reconnect")
    BY <1>1 DEF ReconnectTimer
  <2>2. LiveSet' = LiveSet \union {s} /\ timers' = timers - 1 /\ dialed' = dialed
    BY <1>1, <2>1, DialLive DEF ReconnectTimer, regVars
  <2>3. QED
    BY <2>2, CountStep
<1>2. ASSUME NEW s \in Socket, RegistryConnect(s) PROVE CountInv'
  <2>1. LiveSet' = LiveSet \union {s} /\ timers' = timers /\ dialed' = dialed + 1
    BY <1>2, DialLive DEF RegistryConnect
  <2>2. QED
    BY <2>1, CountStep
<1>3. ASSUME NEW s \in Socket,
             \/ wire[s] \in {"opening", "aborting"} /\ FailOpening(s)
             \/ Close(s) \/ TunnelFail(s)
      PROVE  CountInv'
  BY <1>3, LossLive, CountStep
<1>4. ASSUME NEW s \in Socket,
             \/ TunnelTimer(s) \/ Open(s) \/ Challenge(s) \/ AuthOk(s) \/ AuthFail(s)
             \/ ProtocolError(s) \/ (Timeout(s) /\ wire[s] # "opening")
      PROVE  CountInv'
  BY <1>4, QuietLive, CountStep
<1>5. QED
  BY <1>1, <1>2, <1>3, <1>4, SocketSteps DEF Operate

LEMMA TimersBounded ==
  ASSUME TypeOK, CountInv
  PROVE  /\ timers <= dialed
         /\ \A s \in Socket : Live(s) => timers + 1 <= dialed
<1>1. /\ timers \in Nat /\ dialed \in Nat /\ Cardinality(LiveSet) \in Nat
      /\ Cardinality(LiveSet) + timers <= dialed
      /\ LiveSet # {} => Cardinality(LiveSet) # 0
  BY FS_CardinalityType, FS_EmptySet DEF CountInv, OneLinkPerDial, TypeOK
<1>2. \A s \in Socket : Live(s) => LiveSet # {}
  BY DEF LiveSet
<1>3. QED
  BY <1>1, <1>2

LEMMA SteadyInit == Init => SteadyInv
<1> SUFFICES ASSUME Init PROVE SteadyInv
  OBVIOUS
<1>1. TypeOK
  BY InitType
<1>2. CountInv
  <2>1. LiveSet = {}
    BY DEF Init, LiveSet, Live
  <2>2. QED
    BY <2>1, FS_EmptySet DEF Init, CountInv, OneLinkPerDial
<1>3. LinkInv
  BY ConnectionAssumption DEF Init, LinkInv, Live, KeepsTrying
<1>4. ReportInv
  BY ConnectionAssumption
     DEF Init, ReportInv, StatusTruthful, RegistryNeverOptimistic, Authenticated, Live
<1> QED BY <1>1, <1>2, <1>3, <1>4 DEF SteadyInv

(* Every step of steady operation preserves LinkInv. *)
LEMMA LinkStep == SteadyInv /\ Operate => LinkInv'
<1> SUFFICES ASSUME SteadyInv, Operate PROVE LinkInv'
  OBVIOUS
<1>c. timers <= dialed
  BY TimersBounded DEF SteadyInv
<1> USE ConnectionAssumption
    DEF SteadyInv, TypeOK, LinkInv, Live, KeepsTrying, WireState, Phase, Settle
<1>1. CASE ReconnectTimer
  <2>1. PICK s \in Socket : Dial(s, "reconnect")
    BY <1>1 DEF ReconnectTimer
  <2> QED BY <1>1, <1>c, <2>1 DEF ReconnectTimer, Dial, StartDial, Idle, StartSocket, regVars
<1>2. ASSUME NEW s \in Socket, SocketStep(s) PROVE LinkInv'
  <2>1. CASE RegistryConnect(s)
    BY <2>1, <1>c DEF RegistryConnect, Dial, StartDial, Idle, StartSocket, UpdateState
  <2>2. CASE TunnelTimer(s)
    BY <2>2 DEF TunnelTimer, StartSocket, regVars
  <2>3. CASE TunnelFail(s)
    BY <2>3 DEF TunnelFail, UpdateState, Rejected, poolVars
  <2>4. CASE Open(s)
    BY <2>4 DEF Open, poolVars, regVars
  <2>5. CASE wire[s] = "opening" /\ FailOpening(s)
    BY <2>5 DEF FailOpening, ScheduleReconnect, UpdateState, Rejected
  <2>6. CASE Challenge(s)
    BY <2>6 DEF Challenge, poolVars, regVars
  <2>7. CASE AuthOk(s)
    BY <2>7 DEF AuthOk, UpdateState
  <2>8. CASE AuthFail(s)
    BY <2>8 DEF AuthFail, UpdateState, Rejected, poolVars
  <2>9. CASE ProtocolError(s)
    BY <2>9 DEF ProtocolError, UpdateState
  <2>10. CASE Close(s)
    BY <2>10 DEF Close, ScheduleReconnect, UpdateState
  <2>11. CASE Timeout(s)
    BY <2>5, <2>11 DEF Timeout, UpdateState, Rejected, poolVars
  <2> QED BY <1>2, <2>1, <2>2, <2>3, <2>4, <2>5, <2>6, <2>7, <2>8, <2>9, <2>10, <2>11
          DEF SocketStep, Refused
<1> QED BY <1>1, <1>2 DEF Operate

(* Every step of steady operation preserves ReportInv. *)
LEMMA ReportStep == SteadyInv /\ Operate => ReportInv'
<1> SUFFICES ASSUME SteadyInv, Operate PROVE ReportInv'
  OBVIOUS
<1> USE ConnectionAssumption
    DEF SteadyInv, TypeOK, LinkInv, Live, Authenticated, WireState, Phase, Status,
        ReportInv, StatusTruthful, RegistryNeverOptimistic
<1>1. CASE ReconnectTimer
  <2>1. PICK s \in Socket : Dial(s, "reconnect")
    BY <1>1 DEF ReconnectTimer
  <2> QED BY <1>1, <2>1 DEF ReconnectTimer, Dial, StartDial, Idle, StartSocket, regVars
<1>2. ASSUME NEW s \in Socket, SocketStep(s) PROVE ReportInv'
  <2>1. CASE RegistryConnect(s)
    BY <2>1 DEF RegistryConnect, Dial, StartDial, Idle, StartSocket, UpdateState
  <2>2. CASE TunnelTimer(s)
    BY <2>2 DEF TunnelTimer, StartSocket, regVars
  <2>3. CASE TunnelFail(s)
    BY <2>3 DEF TunnelFail, UpdateState, Rejected, poolVars
  <2>4. CASE Open(s)
    BY <2>4 DEF Open, poolVars, regVars
  <2>5. CASE wire[s] = "opening" /\ FailOpening(s)
    BY <2>5 DEF FailOpening, UpdateState, Rejected
  <2>6. CASE Challenge(s)
    BY <2>6 DEF Challenge, poolVars, regVars
  <2>7. CASE AuthOk(s)
    BY <2>7 DEF AuthOk, UpdateState
  <2>8. CASE AuthFail(s)
    BY <2>8 DEF AuthFail, UpdateState, Rejected, poolVars
  <2>9. CASE ProtocolError(s)
    BY <2>9 DEF ProtocolError, UpdateState
  <2>10. CASE Close(s)
    BY <2>10 DEF Close, UpdateState
  <2>11. CASE Timeout(s)
    BY <2>5, <2>11 DEF Timeout, UpdateState, Rejected, poolVars
  <2> QED BY <1>2, <2>1, <2>2, <2>3, <2>4, <2>5, <2>6, <2>7, <2>8, <2>9, <2>10, <2>11
          DEF SocketStep, Refused
<1> QED BY <1>1, <1>2 DEF Operate

LEMMA SteadyStep == SteadyInv /\ [SteadyNext]_vars => SteadyInv'
<1> SUFFICES ASSUME SteadyInv, [SteadyNext]_vars PROVE SteadyInv'
  OBVIOUS
<1>1. CASE Operate
  <2>1. TypeOK' /\ LinkInv' /\ ReportInv'
    BY <1>1, OperateType, LinkStep, ReportStep DEF SteadyInv
  <2>2. CountInv'
    BY <1>1, <2>1, CountOperate, ConnectionAssumption DEF SteadyInv, LinkInv
  <2>3. QED
    BY <2>1, <2>2 DEF SteadyInv
<1>2. CASE Stabilise \/ UNCHANGED vars
  <2>1. TypeOK'
    BY <1>2 DEF SteadyInv, TypeOK, Stabilise, vars, sockVars, poolVars, regVars
  <2>2. LinkInv'
    BY <1>2 DEF SteadyInv, LinkInv, Live, KeepsTrying,
                Stabilise, vars, sockVars, poolVars, regVars
  <2>3. ReportInv'
    BY <1>2 DEF SteadyInv, ReportInv, Live, Authenticated, StatusTruthful,
                RegistryNeverOptimistic, Stabilise, vars, sockVars, poolVars, regVars
  <2>4. CountInv'
    BY <1>2 DEF SteadyInv, CountInv, OneLinkPerDial, LiveSet, Live,
                Stabilise, vars, sockVars, poolVars, regVars
  <2> QED BY <2>1, <2>2, <2>3, <2>4 DEF SteadyInv
<1> QED BY <1>1, <1>2 DEF SteadyNext

LEMMA SteadyInvariant == SteadySpec => []SteadyInv
BY SteadyInit, SteadyStep, PTL DEF SteadySpec

(* A node that stays registered has at most one connection, attempt or     *)
(* scheduled reconnect for every time the registry dialed it.              *)
THEOREM LinksAreBounded == SteadySpec => []OneLinkPerDial
<1>1. SteadyInv => OneLinkPerDial
  BY DEF SteadyInv, CountInv
<1> QED BY <1>1, SteadyInvariant, PTL

(* A url or local node that was dialed once is never dropped: there is     *)
(* always a socket or a scheduled reconnect.                               *)
THEOREM NeverGivesUp == SteadySpec => []KeepsTrying
<1>1. SteadyInv => KeepsTrying
  BY DEF SteadyInv, LinkInv
<1> QED BY <1>1, SteadyInvariant, PTL

(* A transport reports itself connected over an authenticated socket of    *)
(* its own only; and of a node that was dialed once the report is exactly  *)
(* that of its current socket.                                             *)
THEOREM TruthfulReports == SteadySpec => []StatusTruthful
<1>1. SteadyInv => StatusTruthful
  BY DEF SteadyInv, ReportInv
<1> QED BY <1>1, SteadyInvariant, PTL

(* Though the handlers of a transport and the catch of registry.connect    *)
(* both write it, the registry's state never claims a connection that is   *)
(* not there, nor one that the transport of a node that was dialed once    *)
(* does not report; and the router knows what the registry knows.          *)
THEOREM RegistryIsNotOptimistic == SteadySpec => []RegistryNeverOptimistic
<1>1. SteadyInv => RegistryNeverOptimistic
  BY DEF SteadyInv, ReportInv
<1> QED BY <1>1, SteadyInvariant, PTL

-----------------------------------------------------------------------------
(* The refinement of NodeLink: a step moves one link from a stage to       *)
(* another.                                                                *)
AtStage(g) == {s \in Socket : Stage(s) = g}
SocketStages == {"dialing", "up", "closing"}

LEMMA StagesFinite ==
  ASSUME CountInv, NEW g \in SocketStages
  PROVE  IsFiniteSet(AtStage(g)) /\ Cardinality(AtStage(g)) \in Nat
<1>1. AtStage(g) \subseteq LiveSet
  BY DEF AtStage, LiveSet, Live, Stage, SocketStages
<1>2. QED
  BY <1>1, FS_Subset, FS_CardinalityType DEF CountInv

(* What becomes of the counts when one socket changes its stage.           *)
LEMMA StageMoves ==
  ASSUME CountInv, NEW s \in Socket, NEW from, NEW to,
         Stage(s) = from, Stage(s)' = to, from # to,
         \A x \in Socket : x # s => Stage(x)' = Stage(x),
         NEW g \in SocketStages
  PROVE  /\ g = from => /\ Cardinality(AtStage(g)) > 0
                        /\ Cardinality(AtStage(g)') = Cardinality(AtStage(g)) - 1
         /\ g = to => Cardinality(AtStage(g)') = Cardinality(AtStage(g)) + 1
         /\ g \notin {from, to} => Cardinality(AtStage(g)') = Cardinality(AtStage(g))
<1>1. IsFiniteSet(AtStage(g)) /\ Cardinality(AtStage(g)) \in Nat
  BY StagesFinite
<1>2. CASE g = from
  <2>1. s \in AtStage(g) /\ AtStage(g)' = AtStage(g) \ {s}
    BY <1>2 DEF AtStage
  <2>2. Cardinality(AtStage(g)') = Cardinality(AtStage(g)) - 1
    BY <1>1, <2>1, FS_RemoveElement
  <2>3. Cardinality(AtStage(g)) # 0
    BY <1>1, <2>1, FS_EmptySet
  <2>4. QED
    BY <1>1, <1>2, <2>2, <2>3
<1>3. CASE g = to
  <2>1. s \notin AtStage(g) /\ AtStage(g)' = AtStage(g) \union {s}
    BY <1>3 DEF AtStage
  <2>2. Cardinality(AtStage(g)') = Cardinality(AtStage(g)) + 1
    BY <1>1, <2>1, FS_AddElement
  <2>3. QED
    BY <1>3, <2>2
<1>4. CASE g \notin {from, to}
  <2>1. AtStage(g)' = AtStage(g)
    BY <1>4 DEF AtStage
  <2>2. QED
    BY <1>4, <2>1
<1>5. QED
  BY <1>2, <1>3, <1>4

LEMMA LinksAt ==
  /\ linksAt["dialing"] = Cardinality(AtStage("dialing"))
  /\ linksAt["up"] = Cardinality(AtStage("up"))
  /\ linksAt["closing"] = Cardinality(AtStage("closing"))
  /\ linksAt["waiting"] = timers
  /\ linksAt'["dialing"] = Cardinality(AtStage("dialing")')
  /\ linksAt'["up"] = Cardinality(AtStage("up")')
  /\ linksAt'["closing"] = Cardinality(AtStage("closing")')
  /\ linksAt'["waiting"] = timers'
  /\ linksAt = [g \in Link!Stages |-> linksAt[g]]
  /\ linksAt' = [g \in Link!Stages |-> linksAt'[g]]
BY DEF linksAt, AtStage, Link!Stages

LEMMA AbstractMove ==
  ASSUME NEW from \in Link!Stages, NEW to \in Link!Stages, from # to,
         linksAt[from] > 0, dialed' = dialed,
         linksAt'[from] = linksAt[from] - 1, linksAt'[to] = linksAt[to] + 1,
         \A g \in Link!Stages \ {from, to} : linksAt'[g] = linksAt[g]
  PROVE  Link!Move(from, to)
<1> DEFINE f == linksAt
           h == linksAt'
<1>1. f = [g \in Link!Stages |-> f[g]] /\ h = [g \in Link!Stages |-> h[g]]
  BY LinksAt
<1> HIDE DEF f, h
<1>2. h = [f EXCEPT ![from] = @ - 1, ![to] = @ + 1]
  <2>1. \A g \in Link!Stages :
          h[g] = [f EXCEPT ![from] = @ - 1, ![to] = @ + 1][g]
    BY <1>1 DEF f, h
  <2>2. QED
    BY <1>1, <2>1
<1>3. QED
  BY <1>2 DEF f, h, Link!Move

(* A step that keeps all stages, timers and dials is a stutter. *)
LEMMA AbstractStutter ==
  ASSUME timers' = timers, dialed' = dialed, \A x \in Socket : Stage(x)' = Stage(x)
  PROVE  UNCHANGED <<linksAt, dialed>>
<1>1. \A g \in SocketStages : AtStage(g)' = AtStage(g)
  BY DEF AtStage
<1>2. QED
  BY <1>1, LinksAt DEF SocketStages, Link!Stages

LEMMA MoveOfSocket ==
  ASSUME CountInv, NEW s \in Socket, NEW from \in SocketStages, NEW to \in SocketStages,
         from # to, Stage(s) = from, Stage(s)' = to, timers' = timers, dialed' = dialed,
         \A x \in Socket : x # s => Stage(x)' = Stage(x)
  PROVE  Link!Move(from, to)
<1>1. \A g \in SocketStages :
         /\ g = from => /\ Cardinality(AtStage(g)) > 0
                        /\ Cardinality(AtStage(g)') = Cardinality(AtStage(g)) - 1
         /\ g = to => Cardinality(AtStage(g)') = Cardinality(AtStage(g)) + 1
         /\ g \notin {from, to} => Cardinality(AtStage(g)') = Cardinality(AtStage(g))
  BY StageMoves
<1>2. from \in Link!Stages /\ to \in Link!Stages
  BY DEF SocketStages, Link!Stages
<1>3. QED
  BY <1>1, <1>2, LinksAt, AbstractMove DEF SocketStages, Link!Stages

LEMMA LossOfSocket ==
  ASSUME CountInv, TypeOK, NEW s \in Socket, NEW from \in SocketStages,
         Stage(s) = from, Stage(s)' = "none", timers' = timers + 1, dialed' = dialed,
         \A x \in Socket : x # s => Stage(x)' = Stage(x)
  PROVE  Link!Lose
<1>1. \A g \in SocketStages :
         /\ g = from => /\ Cardinality(AtStage(g)) > 0
                        /\ Cardinality(AtStage(g)') = Cardinality(AtStage(g)) - 1
         /\ g \notin {from, "none"} => Cardinality(AtStage(g)') = Cardinality(AtStage(g))
  BY StageMoves DEF SocketStages
<1>2. from \in Link!Stages /\ "waiting" \in Link!Stages /\ from # "waiting"
  BY DEF SocketStages, Link!Stages
<1>3. Link!Move(from, "waiting")
  BY <1>1, <1>2, LinksAt, AbstractMove DEF SocketStages, Link!Stages
<1>4. QED
  BY <1>3 DEF Link!Lose, SocketStages

LEMMA DialOfSocket ==
  ASSUME CountInv, TypeOK, NEW s \in Socket, Stage(s) = "none", Stage(s)' = "dialing",
         \A x \in Socket : x # s => Stage(x)' = Stage(x)
  PROVE  /\ timers > 0 /\ timers' = timers - 1 /\ dialed' = dialed => Link!Redial
         /\ timers' = timers /\ dialed < MaxDials /\ dialed' = dialed + 1 => Link!Dial
<1>1. \A g \in SocketStages :
         /\ g = "dialing" => Cardinality(AtStage(g)') = Cardinality(AtStage(g)) + 1
         /\ g \notin {"dialing", "none"} => Cardinality(AtStage(g)') = Cardinality(AtStage(g))
  BY StageMoves DEF SocketStages
<1>2. /\ linksAt'["dialing"] = linksAt["dialing"] + 1
      /\ linksAt'["up"] = linksAt["up"] /\ linksAt'["closing"] = linksAt["closing"]
  BY <1>1, LinksAt DEF SocketStages
<1>3. ASSUME timers > 0, timers' = timers - 1, dialed' = dialed PROVE Link!Redial
  <2>1. Link!Move("waiting", "dialing")
    BY <1>2, <1>3, LinksAt, AbstractMove DEF Link!Stages
  <2>2. QED
    BY <2>1 DEF Link!Redial
<1>4. ASSUME timers' = timers, dialed < MaxDials, dialed' = dialed + 1 PROVE Link!Dial
  <2> DEFINE f == linksAt
             h == linksAt'
  <2>1. /\ f = [g \in Link!Stages |-> f[g]] /\ h = [g \in Link!Stages |-> h[g]]
        /\ h["waiting"] = f["waiting"]
    BY <1>4, LinksAt
  <2>2. /\ h["dialing"] = f["dialing"] + 1
        /\ h["up"] = f["up"] /\ h["closing"] = f["closing"]
    BY <1>2
  <2> HIDE DEF f, h
  <2>3. h = [f EXCEPT !["dialing"] = @ + 1]
    <3>1. \A g \in Link!Stages : h[g] = [f EXCEPT !["dialing"] = @ + 1][g]
      BY <2>1, <2>2 DEF Link!Stages
    <3>2. QED
      BY <2>1, <3>1
  <2>4. QED
    BY <1>4, <2>3 DEF f, h, Link!Dial
<1>5. QED
  BY <1>3, <1>4

(* The limit on attempts is not reached as long as it is no smaller than   *)
(* the number of dials, which is far below it in the code (2 and 10).      *)
LEMMA LossIsRetried ==
  ASSUME SteadyInv, MaxReconnectAttempts >= MaxDials,
         NEW s \in Socket, Live(s), ScheduleReconnect
  PROVE  timers' = timers + 1
<1>1. timers + 1 <= dialed /\ attempts <= timers /\ dialed <= MaxDials
  BY TimersBounded, ConnectionAssumption DEF SteadyInv, LinkInv, KeepsTrying, TypeOK
<1>2. attempts < MaxReconnectAttempts
  BY <1>1, ConnectionAssumption DEF SteadyInv, TypeOK
<1>3. QED
  BY <1>2 DEF ScheduleReconnect

LEMMA LinkStepMaps ==
  ASSUME ~Ssh, MaxReconnectAttempts >= MaxDials, SteadyInv, Operate
  PROVE  Link!Next \/ UNCHANGED <<linksAt, dialed>>
<1> USE DEF SteadyInv
<1>t. /\ wire \in [Socket -> WireState] /\ phase \in [Socket -> Phase]
      /\ timers \in Nat /\ dialed \in Nat
  BY DEF TypeOK
<1>w. \A s \in Socket : /\ wire[s] \notin {"tunnel", "stuck", "aborting"}
                        /\ wire[s] = "opening" => phase[s] = "waiting"
  BY DEF LinkInv
<1>1. CASE ReconnectTimer
  <2>1. PICK s \in Socket : Dial(s, "reconnect")
    BY <1>1, ConnectionAssumption DEF ReconnectTimer, LinkInv
  <2>2. /\ Stage(s) = "none" /\ Stage(s)' = "dialing"
        /\ \A x \in Socket : x # s => Stage(x)' = Stage(x)
    BY <1>t, <2>1 DEF Dial, StartDial, StartSocket, Idle, Stage
  <2>3. timers > 0 /\ timers' = timers - 1 /\ dialed' = dialed
    BY <1>1 DEF ReconnectTimer, regVars
  <2> QED BY <2>2, <2>3, DialOfSocket DEF Link!Next
<1>2. ASSUME NEW s \in Socket, RegistryConnect(s) PROVE Link!Next
  <2>1. /\ Stage(s) = "none" /\ Stage(s)' = "dialing"
        /\ \A x \in Socket : x # s => Stage(x)' = Stage(x)
    BY <1>2, <1>t DEF RegistryConnect, Dial, StartDial, StartSocket, Idle, Stage
  <2>2. timers' = timers /\ dialed < MaxDials /\ dialed' = dialed + 1
    BY <1>2, ConnectionAssumption DEF RegistryConnect, TypeOK
  <2> QED BY <2>1, <2>2, DialOfSocket DEF Link!Next
<1>3. ASSUME NEW s \in Socket,
             \/ Open(s) \/ Challenge(s) \/ AuthFail(s)
             \/ AuthOk(s) /\ wire[s] = "closing"
             \/ Timeout(s) /\ wire[s] \notin {"open", "opening"}
      PROVE  UNCHANGED <<linksAt, dialed>>
  <2>1. \A x \in Socket : Stage(x)' = Stage(x)
    BY <1>3, <1>t, <1>w DEF Open, Challenge, AuthFail, AuthOk, Timeout, Stage
  <2>2. timers' = timers /\ dialed' = dialed
    BY <1>3 DEF Open, Challenge, AuthFail, AuthOk, Timeout, poolVars, regVars
  <2> QED BY <2>1, <2>2, AbstractStutter
<1>4. ASSUME NEW s \in Socket, AuthOk(s), wire[s] = "open" PROVE Link!Next
  <2>1. /\ Stage(s) = "dialing" /\ Stage(s)' = "up"
        /\ \A x \in Socket : x # s => Stage(x)' = Stage(x)
    BY <1>4, <1>t DEF AuthOk, Stage
  <2>2. timers' = timers /\ dialed' = dialed
    BY <1>4 DEF AuthOk
  <2> QED BY <2>1, <2>2, MoveOfSocket DEF SocketStages, Link!Next, Link!Establish
<1>5. ASSUME NEW s \in Socket, ProtocolError(s) \/ (Timeout(s) /\ wire[s] = "open")
      PROVE  Link!Next
  <2>1. /\ Stage(s) \in {"dialing", "up"} /\ Stage(s)' = "closing"
        /\ \A x \in Socket : x # s => Stage(x)' = Stage(x)
    BY <1>5, <1>t DEF ProtocolError, Timeout, Stage
  <2>2. timers' = timers /\ dialed' = dialed
    BY <1>5 DEF ProtocolError, Timeout, poolVars
  <2>3. Link!Move(Stage(s), "closing")
    BY <2>1, <2>2, MoveOfSocket DEF SocketStages
  <2> QED BY <2>1, <2>3 DEF Link!Next, Link!HangUp
<1>6. ASSUME NEW s \in Socket, (wire[s] = "opening" /\ FailOpening(s)) \/ Close(s)
      PROVE  Link!Next
  <2>1. /\ Stage(s) \in SocketStages /\ Stage(s)' = "none"
        /\ \A x \in Socket : x # s => Stage(x)' = Stage(x)
    BY <1>6, <1>t DEF FailOpening, Close, Stage, SocketStages
  <2>2. dialed' = dialed /\ ScheduleReconnect /\ Live(s)
    BY <1>6 DEF FailOpening, Close, Live
  <2>3. timers' = timers + 1
    BY <2>2, LossIsRetried
  <2> QED BY <2>1, <2>2, <2>3, LossOfSocket DEF Link!Next
<1>7. ASSUME NEW s \in Socket PROVE ~TunnelTimer(s) /\ ~TunnelFail(s)
  BY <1>w DEF TunnelTimer, TunnelFail
<1>8. ASSUME NEW s \in Socket, Refused(s) PROVE wire[s] = "opening" /\ FailOpening(s)
  BY <1>8, <1>w DEF Refused
<1>9. ASSUME NEW s \in Socket, Timeout(s), wire[s] = "opening" PROVE FailOpening(s)
  BY <1>9 DEF Timeout
<1>10. ASSUME NEW s \in Socket, AuthOk(s) PROVE wire[s] \in {"open", "closing"}
  BY <1>10 DEF AuthOk
<1> QED
  BY <1>1, <1>2, <1>3, <1>4, <1>5, <1>6, <1>7, <1>8, <1>9, <1>10 DEF Operate, SocketStep

(* The connection of a url or local node implements NodeLink: one link per *)
(* dial, with exactly one wait between two attempts of a link, for ever.   *)
THEOREM ImplementsNodeLink ==
  ASSUME ~Ssh, MaxReconnectAttempts >= MaxDials PROVE SteadySpec => LinkSpec
<1>1. Init => Link!Init
  <2>1. SUFFICES ASSUME Init PROVE Link!Init
    OBVIOUS
  <2>2. \A g \in SocketStages : AtStage(g) = {}
    BY <2>1 DEF Init, AtStage, Stage, SocketStages
  <2>3. QED
    BY <2>1, <2>2, LinksAt, FS_EmptySet DEF Init, Link!Init, SocketStages, Link!Stages
<1>2. SteadyInv /\ [SteadyNext]_vars => [Link!Next]_<<linksAt, dialed>>
  <2> SUFFICES ASSUME SteadyInv, [SteadyNext]_vars
               PROVE  Link!Next \/ UNCHANGED <<linksAt, dialed>>
    OBVIOUS
  <2>1. CASE Operate
    BY <2>1, LinkStepMaps
  <2>2. CASE Stabilise \/ UNCHANGED vars
    <3>1. /\ timers' = timers /\ dialed' = dialed
          /\ \A x \in Socket : Stage(x)' = Stage(x)
      BY <2>2 DEF Stage, Stabilise, vars, sockVars, poolVars, regVars
    <3> QED BY <3>1, AbstractStutter
  <2> QED BY <2>1, <2>2 DEF SteadyNext
<1> QED BY <1>1, <1>2, SteadyInvariant, PTL DEF SteadySpec, LinkSpec, Link!Spec

-----------------------------------------------------------------------------
(* Reloads and shutdown.                                                   *)
ReloadInv ==
  /\ TypeOK
  /\ \A s \in Socket :
       /\ wire[s] \in {"tunnel", "stuck", "opening", "aborting"} => phase[s] = "waiting"
       /\ Live(s) => owner[s] \in Transport
  /\ \A t \in Transport : t # pooled => ssh[t] = NoSocket
  /\ regState # "none" => pooled # NoTransport
  /\ ConnectedIsBacked

(* What a step may do to a socket that was not opening. *)
QuietStep ==
  \A s \in Socket : wire[s] # "opening" /\ wire'[s] = "opening" => owner'[s] = pooled

LEMMA ReloadStep == ReloadInv /\ Next => ReloadInv' /\ QuietStep
<1> SUFFICES ASSUME ReloadInv, Next PROVE ReloadInv' /\ QuietStep
  OBVIOUS
<1>t. TypeOK'
  BY OperateType, ReloadType DEF ReloadInv, Next
<1> USE DEF ReloadInv, TypeOK, ConnectedIsBacked, Authenticated, QuietStep, Live, WireState
<1>1. CASE ReconnectTimer
  <2>1. CASE pooled = NoTransport /\ UNCHANGED sockVars
    BY <1>1, <1>t, <2>1 DEF ReconnectTimer, sockVars, regVars
  <2>2. ASSUME pooled # NoTransport, NEW s \in Socket, Dial(s, "reconnect")
        PROVE  ReloadInv' /\ QuietStep
    BY <1>1, <1>t, <2>2 DEF ReconnectTimer, Dial, StartDial, Idle, StartSocket, regVars
  <2> QED BY <1>1, <2>1, <2>2 DEF ReconnectTimer, sockVars
<1>2. ASSUME NEW s \in Socket, SocketStep(s) PROVE ReloadInv' /\ QuietStep
  <2>1. CASE RegistryConnect(s)
    BY <1>t, <2>1 DEF RegistryConnect, Dial, StartDial, Idle, StartSocket, UpdateState
  <2>2. CASE TunnelTimer(s)
    BY <1>t, <2>2 DEF TunnelTimer, StartSocket, regVars
  <2>3. CASE TunnelFail(s)
    BY <1>t, <2>3 DEF TunnelFail, UpdateState, Rejected, poolVars
  <2>4. CASE Open(s)
    BY <1>t, <2>4 DEF Open, poolVars, regVars
  <2>5. CASE wire[s] \in {"opening", "aborting"} /\ FailOpening(s)
    BY <1>t, <2>5 DEF FailOpening, UpdateState, Rejected
  <2>6. CASE Challenge(s)
    BY <1>t, <2>6 DEF Challenge, poolVars, regVars
  <2>7. CASE AuthOk(s)
    BY <1>t, <2>7 DEF AuthOk, UpdateState
  <2>8. CASE AuthFail(s)
    BY <1>t, <2>8 DEF AuthFail, UpdateState, Rejected, poolVars
  <2>9. CASE ProtocolError(s)
    BY <1>t, <2>9 DEF ProtocolError, UpdateState
  <2>10. CASE Close(s)
    BY <1>t, <2>10 DEF Close, UpdateState
  <2>11. CASE Timeout(s)
    BY <1>t, <2>5, <2>11 DEF Timeout, UpdateState, Rejected, poolVars
  <2> QED BY <1>2, <2>1, <2>2, <2>3, <2>4, <2>5, <2>6, <2>7, <2>8, <2>9, <2>10, <2>11
          DEF SocketStep, Refused
<1>3. CASE Unregister
  BY <1>t, <1>3 DEF Unregister, Disconnect
<1>4. CASE Register
  <2>1. UNCHANGED <<wire, phase, owner, ssh>> /\ pooled = NoTransport
        /\ pooled' \in unused /\ regState' = "disconnected"
    BY <1>4 DEF Register, sockVars
  <2>2. QuietStep
    BY <2>1
  <2>3. pooled' \in Transport /\ pooled' # NoTransport
    BY <2>1, ConnectionAssumption
  <2>4. \A t \in Transport : t # pooled' => ssh'[t] = NoSocket
    BY <2>1, ConnectionAssumption
  <2>5. QED
    BY <1>t, <2>1, <2>2, <2>3, <2>4
<1>5. CASE CloseRegistry
  BY <1>t, <1>5 DEF CloseRegistry, Disconnect
<1> QED BY <1>1, <1>2, <1>3, <1>4, <1>5 DEF Next, Operate

LEMMA ReloadInvariant == Spec => []ReloadInv
<1>1. Init => ReloadInv
  BY InitType, ConnectionAssumption DEF Init, ReloadInv, ConnectedIsBacked, Live
<1>2. ReloadInv /\ UNCHANGED vars => ReloadInv'
  BY DEF ReloadInv, TypeOK, ConnectedIsBacked, Authenticated, Live, vars, sockVars, poolVars, regVars
<1> QED BY <1>1, <1>2, ReloadStep, PTL DEF Spec

(* Through any sequence of reloads, the registry reports connected only    *)
(* while a socket of the node is live and authenticated.                   *)
THEOREM ConnectedHasASocket == Spec => []ConnectedIsBacked
<1>1. ReloadInv => ConnectedIsBacked
  BY DEF ReloadInv
<1> QED BY <1>1, ReloadInvariant, PTL

(* A transport that left the pool opens no further WebSocket. *)
THEOREM RemovedOpensNothing == Spec => RemovedStaysQuiet
<1>1. ReloadInv /\ [Next]_vars => [QuietStep]_vars
  BY ReloadStep
<1> QED BY <1>1, ReloadInvariant, PTL DEF Spec, RemovedStaysQuiet, QuietStep

-----------------------------------------------------------------------------
(* Leaks: what each registration has been paid for.  One that stands may   *)
(* make a link for every dial still due, and one more by the timer that    *)
(* its removal leaves.                                                     *)
Created == Transport \ unused
Due == IF regState = "none" THEN 0 ELSE due + 1
PaidFor == (MaxDials + 1) * Cardinality(Created)

LeakInv ==
  /\ TypeOK
  /\ IsFiniteSet(LiveSet) /\ IsFiniteSet(Created)
  /\ Cardinality(LiveSet) + timers + Due <= PaidFor

LEMMA Bounds ==
  ASSUME NEW a \in Nat, NEW b \in Nat, NEW m \in Nat, NEW n \in Nat
  PROVE  /\ a + b <= m => a <= m
         /\ a <= m => a + 1 \in Nat /\ a + 1 <= m + 1
         /\ a <= m + 1 => n + (m + 1) \in Nat /\ n + (m + 1) >= n + a
OBVIOUS

LEMMA DueType ==
  ASSUME TypeOK, TypeOK'
  PROVE  Due \in Nat /\ Due' \in Nat /\ Due' <= MaxDials + 1
<1>1. /\ due \in Nat /\ dialed \in Nat /\ due + dialed <= MaxDials
      /\ due' \in Nat /\ dialed' \in Nat /\ due' + dialed' <= MaxDials
      /\ MaxDials \in Nat
  BY ConnectionAssumption DEF TypeOK
<1>2. due <= MaxDials /\ due' <= MaxDials
  BY ONLY <1>1, Bounds
<1>3. Due \in Nat
  BY ONLY <1>1 DEF Due
<1>4. CASE regState' = "none"
  <2>1. Due' = 0
    BY <1>4 DEF Due
  <2>2. QED
    BY ONLY <1>1, <1>3, <2>1, Bounds
<1>5. CASE regState' # "none"
  <2>1. Due' = due' + 1
    BY <1>5 DEF Due
  <2>2. QED
    BY ONLY <1>1, <1>2, <1>3, <2>1, Bounds
<1>6. QED
  BY ONLY <1>4, <1>5

LEMMA Sums ==
  ASSUME NEW c \in Nat, NEW d \in Nat, NEW x \in Nat, NEW y \in Nat,
         NEW u \in Nat, NEW v \in Nat, NEW n \in Nat, NEW m \in Nat,
         c + x + u <= n
  PROVE  /\ d = c /\ m = n /\ y + v <= x + u => d + y + v <= m
         /\ d <= c /\ m = n /\ y <= x + 1 /\ v + 1 <= u => d + y + v <= m
         /\ d <= c + 1 /\ m = n /\ y + v + 1 <= x + u => d + y + v <= m
OBVIOUS

LEMMA SumsLost ==
  ASSUME NEW c \in Nat, NEW x \in Nat, NEW y \in Nat, NEW u \in Nat, NEW n \in Nat,
         c + x + u <= n, y <= x + 1
  PROVE  (c - 1) + y + u <= n
OBVIOUS

LEMMA SumsNew ==
  ASSUME NEW c \in Nat, NEW x \in Nat, NEW v \in Nat, NEW n \in Nat, NEW m \in Nat,
         c + x + 0 <= n, m >= n + v
  PROVE  c + x + v <= m
OBVIOUS

LEMMA Products ==
  ASSUME NEW k \in Nat, NEW n \in Nat
  PROVE  (k + 1) * n \in Nat /\ (k + 1) * (n + 1) = (k + 1) * n + (k + 1)
OBVIOUS

(* A step keeps the bound if its socket and its timer are paid for: by a   *)
(* timer that fired, a socket that closed, or the registration.            *)
LEMMA LeakKept ==
  ASSUME LeakInv, TypeOK',
         \/ /\ LiveSet' = LiveSet /\ Created' = Created /\ timers' + Due' <= timers + Due
         \/ /\ LiveSet' \subseteq LiveSet /\ Created' = Created
            /\ timers' <= timers + 1 /\ Due' + 1 <= Due
         \/ /\ \E s \in LiveSet : LiveSet' = LiveSet \ {s}
            /\ Created' = Created /\ timers' <= timers + 1 /\ Due' = Due
         \/ /\ \E s \in Socket : LiveSet' = LiveSet \union {s}
            /\ Created' = Created /\ timers' + Due' + 1 <= timers + Due
         \/ /\ \E t \in unused : Created' = Created \union {t}
            /\ LiveSet' = LiveSet /\ timers' = timers /\ Due = 0
  PROVE  LeakInv'
<1> DEFINE C == Cardinality(LiveSet)
           D == Cardinality(LiveSet')
           N == PaidFor
           M == PaidFor'
<1>1. /\ timers \in Nat /\ timers' \in Nat
      /\ Due \in Nat /\ Due' \in Nat /\ Due' <= MaxDials + 1
      /\ C \in Nat /\ N \in Nat /\ MaxDials \in Nat
      /\ C + timers + Due <= N
  <2>1. timers \in Nat /\ timers' \in Nat /\ MaxDials \in Nat
    BY ConnectionAssumption DEF LeakInv, TypeOK
  <2>2. Due \in Nat /\ Due' \in Nat /\ Due' <= MaxDials + 1
    BY DueType DEF LeakInv
  <2>3. C \in Nat /\ N \in Nat
    BY <2>1, FS_CardinalityType, Products DEF LeakInv, PaidFor
  <2>4. C + timers + Due <= N
    BY DEF LeakInv
  <2>5. QED
    BY <2>1, <2>2, <2>3, <2>4
<1>2. IsFiniteSet(LiveSet) /\ IsFiniteSet(Created)
  BY DEF LeakInv
<1>3. SUFFICES /\ IsFiniteSet(LiveSet') /\ IsFiniteSet(Created')
               /\ D + timers' + Due' <= M
  BY DEF LeakInv
<1>4. CASE LiveSet' = LiveSet /\ Created' = Created /\ timers' + Due' <= timers + Due
  <2>1. D = C /\ M = N
    BY <1>4 DEF PaidFor
  <2>2. IsFiniteSet(LiveSet') /\ IsFiniteSet(Created')
    BY <1>2, <1>4
  <2> HIDE DEF C, D, N, M
  <2>3. D + timers' + Due' <= M
    BY ONLY <1>1, <1>4, <2>1, Sums
  <2>4. QED
    BY <2>2, <2>3
<1>5. CASE /\ LiveSet' \subseteq LiveSet /\ Created' = Created
           /\ timers' <= timers + 1 /\ Due' + 1 <= Due
  <2>1. IsFiniteSet(LiveSet') /\ D \in Nat /\ D <= C /\ M = N
    BY <1>2, <1>5, FS_Subset, FS_CardinalityType DEF PaidFor
  <2>2. IsFiniteSet(Created')
    BY <1>2, <1>5
  <2> HIDE DEF C, D, N, M
  <2>3. D + timers' + Due' <= M
    BY ONLY <1>1, <1>5, <2>1, Sums
  <2>4. QED
    BY <2>1, <2>2, <2>3
<1>6. ASSUME NEW s \in LiveSet, LiveSet' = LiveSet \ {s}, Created' = Created,
             timers' <= timers + 1, Due' = Due
      PROVE  /\ IsFiniteSet(LiveSet') /\ IsFiniteSet(Created')
             /\ D + timers' + Due' <= M
  <2>1. IsFiniteSet(LiveSet') /\ D = C - 1 /\ D \in Nat /\ M = N
    BY <1>2, <1>6, FS_RemoveElement, FS_CardinalityType DEF PaidFor
  <2>2. IsFiniteSet(Created')
    BY <1>2, <1>6
  <2> HIDE DEF C, D, N, M
  <2>3. D + timers' + Due' <= M
    BY ONLY <1>1, <1>6, <2>1, SumsLost
  <2>4. QED
    BY <2>1, <2>2, <2>3
<1>7. ASSUME NEW s \in Socket, LiveSet' = LiveSet \union {s}, Created' = Created,
             timers' + Due' + 1 <= timers + Due
      PROVE  /\ IsFiniteSet(LiveSet') /\ IsFiniteSet(Created')
             /\ D + timers' + Due' <= M
  <2>1. IsFiniteSet(LiveSet') /\ D \in {C, C + 1} /\ M = N
    BY <1>2, <1>7, FS_AddElement DEF PaidFor
  <2>2. IsFiniteSet(Created')
    BY <1>2, <1>7
  <2> HIDE DEF C, D, N, M
  <2>3. D \in Nat /\ D <= C + 1
    BY <1>1, <2>1
  <2>4. D + timers' + Due' <= M
    BY ONLY <1>1, <1>7, <2>1, <2>3, Sums
  <2>5. QED
    BY <2>1, <2>2, <2>4
<1>8. ASSUME NEW t \in unused, Created' = Created \union {t},
             LiveSet' = LiveSet, timers' = timers, Due = 0
      PROVE  /\ IsFiniteSet(LiveSet') /\ IsFiniteSet(Created')
             /\ D + timers' + Due' <= M
  <2>1. t \notin Created
    BY DEF Created
  <2>2. IsFiniteSet(Created') /\ M = N + (MaxDials + 1) /\ D = C
    <3>1. IsFiniteSet(Created') /\ Cardinality(Created') = Cardinality(Created) + 1
      BY <1>2, <1>8, <2>1, FS_AddElement
    <3>2. Cardinality(Created) \in Nat
      BY <1>2, FS_CardinalityType
    <3>3. QED
      BY <1>1, <1>8, <3>1, <3>2, Products DEF PaidFor
  <2>3. IsFiniteSet(LiveSet')
    BY <1>2, <1>8
  <2> HIDE DEF C, D, N, M
  <2>4. M \in Nat /\ M >= N + Due'
    BY ONLY <1>1, <2>2, Bounds
  <2>5. D + timers' + Due' <= M
    BY ONLY <1>1, <1>8, <2>2, <2>4, SumsNew
  <2>6. QED
    BY <2>2, <2>3, <2>5
<1>9. QED
  BY <1>4, <1>5, <1>6, <1>7, <1>8

LEMMA LossLeak ==
  ASSUME LeakInv, TypeOK', NEW s \in Socket,
         \/ wire[s] \in {"opening", "aborting"} /\ FailOpening(s)
         \/ Close(s) \/ TunnelFail(s)
  PROVE  LeakInv'
<1>1. /\ s \in LiveSet /\ LiveSet' = LiveSet \ {s}
      /\ unused' = unused /\ due' = due /\ timers' \in {timers, timers + 1}
      /\ regState' = "none" <=> regState = "none"
  BY LossLive DEF LeakInv
<1>2. Due' = Due /\ Created' = Created /\ timers' <= timers + 1
  BY <1>1 DEF Due, Created, LeakInv, TypeOK
<1>3. QED
  BY <1>1, <1>2, LeakKept

LEMMA QuietLeak ==
  ASSUME LeakInv, TypeOK', NEW s \in Socket,
         \/ TunnelTimer(s) \/ Open(s) \/ Challenge(s) \/ AuthOk(s) \/ AuthFail(s)
         \/ ProtocolError(s) \/ (Timeout(s) /\ wire[s] # "opening")
  PROVE  LeakInv'
<1>1. /\ LiveSet' = LiveSet /\ unused' = unused /\ timers' = timers /\ due' = due
      /\ regState' = "none" <=> regState = "none"
  BY QuietLive DEF LeakInv
<1>2. Due' = Due /\ Created' = Created /\ timers \in Nat /\ Due \in Nat
  BY <1>1 DEF Due, Created, LeakInv, TypeOK
<1>3. QED
  BY <1>1, <1>2, LeakKept

LEMMA DialLeak ==
  ASSUME LeakInv, TypeOK', ReconnectTimer \/ \E s \in Socket : RegistryConnect(s)
  PROVE  LeakInv'
<1>1. timers \in Nat /\ TypeOK
  BY DEF LeakInv, TypeOK
<1>2. CASE ReconnectTimer
  <2>1. /\ timers' = timers - 1 /\ timers > 0 /\ Due' = Due /\ Due \in Nat
        /\ Created' = Created
    BY <1>1, <1>2 DEF ReconnectTimer, regVars, Due, Created, TypeOK
  <2>2. timers' + Due' + 1 <= timers + Due /\ timers' + Due' <= timers + Due
    BY <1>1, <2>1
  <2>3. CASE UNCHANGED sockVars
    <3>1. LiveSet' = LiveSet
      BY <2>3 DEF sockVars, LiveSet, Live
    <3>2. QED
      BY <2>1, <2>2, <3>1, LeakKept
  <2>4. ASSUME NEW s \in Socket, Dial(s, "reconnect") PROVE LeakInv'
    BY <1>1, <2>1, <2>2, <2>4, DialLive, LeakKept
  <2>5. QED
    BY <1>2, <2>3, <2>4 DEF ReconnectTimer
<1>3. ASSUME NEW s \in Socket, RegistryConnect(s) PROVE LeakInv'
  <2>1. Dial(s, "registry") /\ timers' = timers /\ Created' = Created
    BY <1>3 DEF RegistryConnect, Created
  <2>2. Due \in Nat /\ Due' = Due - 1
    BY <1>1, <1>3 DEF RegistryConnect, UpdateState, Due, TypeOK
  <2>3. timers' + Due' + 1 <= timers + Due
    BY <1>1, <2>1, <2>2
  <2>4. QED
    BY <1>1, <2>1, <2>3, DialLive, LeakKept
<1>4. QED
  BY <1>2, <1>3

LEMMA ReloadLeak ==
  ASSUME LeakInv, TypeOK', Unregister \/ Register \/ CloseRegistry
  PROVE  LeakInv'
<1>1. timers \in Nat /\ TypeOK
  BY DEF LeakInv, TypeOK
<1>2. CASE Unregister \/ CloseRegistry
  <2>1. \A s \in Socket : wire[s] = "closed" => wire'[s] = "closed"
    BY <1>2 DEF Unregister, CloseRegistry, Disconnect
  <2>2. LiveSet' \subseteq LiveSet /\ Created' = Created
    BY <1>2, <2>1 DEF LiveSet, Live, Created, Unregister, CloseRegistry
  <2>3. timers' <= timers + 1
    BY <1>1, <1>2 DEF Unregister, CloseRegistry, ScheduleReconnect
  <2>4. Due' = 0 /\ Due \in Nat /\ Due >= 1
    BY <1>1, <1>2 DEF Unregister, CloseRegistry, Disconnect, Due, TypeOK
  <2>5. Due' + 1 <= Due
    BY <2>4
  <2>6. QED
    BY <2>2, <2>3, <2>5, LeakKept
<1>3. CASE Register
  <2>1. pooled' \in unused /\ unused' = unused \ {pooled'} /\ pooled' \in Transport
    BY <1>1, <1>3 DEF Register, TypeOK
  <2>2. Created' = Created \union {pooled'}
    BY <2>1 DEF Created
  <2>3. LiveSet' = LiveSet /\ timers' = timers /\ Due = 0
    BY <1>3 DEF Register, sockVars, LiveSet, Live, Due
  <2>4. QED
    BY <2>1, <2>2, <2>3, LeakKept
<1>4. QED
  BY <1>2, <1>3

(* Removing and adding a node leaks connections and reconnects, by the     *)
(* late events of its old transports, but for every time it was registered *)
(* at most one for each dial and one for disconnect's own event.           *)
THEOREM LeaksAreBounded == Spec => []LeakBound
<1>1. Init => LeakInv
  <2>1. SUFFICES ASSUME Init PROVE LeakInv
    OBVIOUS
  <2>2. TypeOK
    BY <2>1, InitType
  <2>3. LiveSet = {} /\ Created = {pooled}
    BY <2>1 DEF Init, LiveSet, Live, Created
  <2>4. /\ IsFiniteSet(LiveSet) /\ Cardinality(LiveSet) = 0
        /\ IsFiniteSet(Created) /\ Cardinality(Created) = 1
    BY <2>3, FS_EmptySet, FS_Singleton
  <2>5. timers = 0 /\ Due <= MaxDials + 1 /\ Due \in Nat
    BY <2>1, ConnectionAssumption DEF Init, Due
  <2>6. PaidFor = MaxDials + 1
    BY <2>4, ConnectionAssumption DEF PaidFor
  <2>7. QED
    BY <2>2, <2>4, <2>5, <2>6, ConnectionAssumption DEF LeakInv
<1>2. LeakInv /\ TypeOK' /\ [Next]_vars => LeakInv'
  <2>1. SUFFICES ASSUME LeakInv, TypeOK', [Next]_vars PROVE LeakInv'
    OBVIOUS
  <2>2. CASE ReconnectTimer \/ \E s \in Socket : RegistryConnect(s)
    BY <2>1, <2>2, DialLeak
  <2>3. ASSUME NEW s \in Socket, SocketStep(s), ~ RegistryConnect(s) PROVE LeakInv'
    <3>1. \/ wire[s] \in {"opening", "aborting"} /\ FailOpening(s)
          \/ Close(s) \/ TunnelFail(s)
          \/ TunnelTimer(s) \/ Open(s) \/ Challenge(s) \/ AuthOk(s) \/ AuthFail(s)
          \/ ProtocolError(s) \/ (Timeout(s) /\ wire[s] # "opening")
      BY ONLY <2>3, SocketSteps
    <3>2. CASE \/ wire[s] \in {"opening", "aborting"} /\ FailOpening(s)
               \/ Close(s) \/ TunnelFail(s)
      BY <2>1, <3>2, LossLeak
    <3>3. CASE \/ TunnelTimer(s) \/ Open(s) \/ Challenge(s) \/ AuthOk(s) \/ AuthFail(s)
               \/ ProtocolError(s) \/ (Timeout(s) /\ wire[s] # "opening")
      BY <2>1, <3>3, QuietLeak
    <3>4. QED
      BY ONLY <3>1, <3>2, <3>3
  <2>4. CASE Unregister \/ Register \/ CloseRegistry
    BY <2>1, <2>4, ReloadLeak
  <2>5. CASE UNCHANGED vars
    BY <2>1, <2>5 DEF vars, sockVars, poolVars, regVars, LeakInv, LiveSet, Live, Created, Due, PaidFor
  <2>6. QED
    BY <2>1, <2>2, <2>3, <2>4, <2>5 DEF Next, Operate
<1>3. LeakInv => LeakBound
  <2>1. SUFFICES ASSUME LeakInv PROVE LeakBound
    OBVIOUS
  <2>2. /\ Cardinality(LiveSet) \in Nat /\ PaidFor \in Nat /\ timers \in Nat /\ Due \in Nat
        /\ Cardinality(LiveSet) + timers + Due <= PaidFor
    BY <2>1, FS_CardinalityType, Products, ConnectionAssumption
       DEF LeakInv, TypeOK, Due, PaidFor
  <2>3. Cardinality(LiveSet) + timers <= PaidFor
    BY <2>2
  <2>4. QED
    BY <2>3 DEF LeakBound, PaidFor, Created
<1>4. QED
  BY <1>1, <1>2, <1>3, TypeCorrect, PTL DEF Spec

-----------------------------------------------------------------------------
(* The health monitor beside a node that stays registered.  Its steps are  *)
(* those of the connection and stutters of it, so all that holds of the    *)
(* connection in steady operation holds here.                              *)
LEMMA HealthIsSteady == HealthSpec => SteadySpec
<1>1. HealthInit => Init
  BY DEF HealthInit
<1>2. [HealthNext]_<<vars, healthVars>> => [SteadyNext]_vars
  BY DEF HealthNext, Ping, Later
<1>3. QED
  BY <1>1, <1>2, PTL DEF HealthSpec, SteadySpec

HealthOK == ErrorsOK /\ MetricsOK

LEMMA SeqOfFunction ==
  ASSUME NEW S, NEW k \in Nat, NEW f \in [1..k -> S]
  PROVE  f \in Seq(S) /\ Len(f) = k
OBVIOUS

LEMMA FunctionOfSeq ==
  ASSUME NEW S, NEW q \in Seq(S)
  PROVE  Len(q) \in Nat /\ DOMAIN q = 1..Len(q) /\ \A i \in 1..Len(q) : q[i] \in S
OBVIOUS

(* The errors that are kept stay within one window of the newest.          *)
LEMMA RecordKeepsWindow ==
  ASSUME ErrorsOK, NEW n \in Nat, RecordErrors(n)
  PROVE  ErrorsOK'
<1> USE HealthAssumption
<1>1. CASE n = 0
  BY <1>1 DEF RecordErrors, ErrorsOK
<1>2. CASE n # 0
  <2>1. PICK m \in 0..Len(errors) :
          /\ Recent(m)
          /\ errors' = [i \in 1..AtMost(n + m, Unhealthy) |->
                          IF i <= n THEN 0 ELSE errors[i - n]]
    BY <1>2 DEF RecordErrors
  <2> DEFINE k == AtMost(n + m, Unhealthy)
  <2>2. /\ k \in Nat /\ k <= n + m /\ k <= Unhealthy /\ k >= 1
        /\ m \in Nat /\ m <= Len(errors)
    BY <1>2, <2>1 DEF AtMost, ErrorsOK
  <2>3. \A i \in 1..Len(errors) : errors[i] \in 0..(ErrorWindow + 1)
    BY DEF ErrorsOK
  <2> HIDE DEF k
  <2>4. \A i \in 1..k : (IF i <= n THEN 0 ELSE errors[i - n]) \in 0..ErrorWindow
    <3>1. SUFFICES ASSUME NEW i \in 1..k, ~ i <= n PROVE errors[i - n] \in 0..ErrorWindow
      BY <2>2
    <3>2. i - n \in 1..Len(errors) /\ i - n <= m
      BY <2>2, <3>1
    <3>3. QED
      BY <2>1, <2>3, <3>2 DEF Recent
  <2>5. errors' = [i \in 1..k |-> IF i <= n THEN 0 ELSE errors[i - n]]
    BY <2>1 DEF k
  <2>6. \A i \in 1..k : errors'[i] \in 0..ErrorWindow
    BY <2>4, <2>5
  <2>7. errors' \in Seq(0..(ErrorWindow + 1)) /\ Len(errors') = k
    <3>1. errors' \in [1..k -> 0..(ErrorWindow + 1)]
      BY <2>4, <2>5
    <3>2. QED
      BY <2>2, <3>1, SeqOfFunction
  <2>8. errors'[1] = 0
    BY <1>2, <2>2, <2>5
  <2>9. QED
    BY <2>2, <2>6, <2>7, <2>8 DEF ErrorsOK
<1>3. QED
  BY <1>1, <1>2

(* Where nothing is heard the registry's state stays as it is, and the     *)
(* transport of a node that was dialed once too, if connected: only events *)
(* of its socket change it.                                                *)
LEMMA SilenceKeepsState ==
  ASSUME SteadyNext, TypeOK, pooled # NoTransport,
         \A s \in Socket :
           /\ Live(s) => owner[s] \in Transport
           /\ awaiter[s] # "nobody" => phase[s] # "authed"
           /\ wire[s] \in {"tunnel", "stuck"} => phase[s] = "waiting",
         ~ \E s \in Socket : ErrorEvent(s) \/ Rejection(s) \/ OtherEvent(s)
  PROVE  regState' = regState /\ dialed' = dialed
<1> USE DEF TypeOK, OtherEvent, ErrorEvent, Rejection
<1>1. CASE ReconnectTimer
  BY <1>1 DEF ReconnectTimer, regVars
<1>2. ASSUME NEW s \in Socket, SocketStep(s) PROVE regState' = regState /\ dialed' = dialed
  <2>1. CASE RegistryConnect(s)
    BY <2>1 DEF RegistryConnect, Dial, StartDial, Idle
  <2>2. CASE TunnelTimer(s)
    BY <2>2 DEF TunnelTimer, regVars
  <2>3. CASE TunnelFail(s)
    BY <2>3 DEF TunnelFail, Settle, UpdateState, Rejected, Phase, WireState
  <2>4. CASE Open(s) \/ Challenge(s)
    BY <2>4 DEF Open, Challenge, regVars
  <2>5. CASE wire[s] \in {"opening", "aborting"} /\ FailOpening(s)
    BY <2>5 DEF FailOpening
  <2>6. CASE AuthOk(s)
    BY <2>6 DEF AuthOk
  <2>7. CASE AuthFail(s)
    BY <2>7 DEF AuthFail, Settle, UpdateState, Rejected
  <2>8. CASE ProtocolError(s)
    BY <2>8 DEF ProtocolError, Live
  <2>9. CASE Close(s)
    BY <2>9 DEF Close
  <2>10. CASE Timeout(s)
    BY <2>5, <2>10 DEF Timeout, Settle, UpdateState, Rejected
  <2>11. QED
    <3>1. \/ RegistryConnect(s) \/ TunnelTimer(s) \/ TunnelFail(s)
          \/ Open(s) \/ Challenge(s)
          \/ wire[s] \in {"opening", "aborting"} /\ FailOpening(s)
          \/ AuthOk(s) \/ AuthFail(s) \/ ProtocolError(s) \/ Close(s) \/ Timeout(s)
      BY ONLY <1>2, SocketSteps
    <3>2. QED
      BY ONLY <3>1, <2>1, <2>2, <2>3, <2>4, <2>5, <2>6, <2>7, <2>8, <2>9, <2>10
<1>3. CASE Stabilise
  BY <1>3 DEF Stabilise, regVars
<1>4. QED
  BY <1>1, <1>2, <1>3 DEF SteadyNext, Operate

LEMMA SilenceKeepsStatus ==
  ASSUME SteadyInv, SteadyInv', SteadyNext, dialed <= 1,
         ~ \E s \in Socket : ErrorEvent(s) \/ Rejection(s) \/ OtherEvent(s),
         status[pooled] = "connected"
  PROVE  status'[pooled'] = "connected"
<1> USE ConnectionAssumption DEF SteadyInv, TypeOK, LinkInv, Live, Authenticated,
        ReportInv, StatusTruthful, OtherEvent, ErrorEvent, Rejection
<1>1. PICK c \in Socket : ws[pooled] = c /\ wire[c] # "closed" /\ phase[c] = "authed"
  BY DEF WireState
<1>2. CASE ReconnectTimer
  BY <1>1, <1>2 DEF ReconnectTimer, Dial, StartDial, Idle
<1>3. ASSUME NEW s \in Socket, SocketStep(s) PROVE status'[pooled'] = "connected"
  <2>1. CASE RegistryConnect(s)
    BY <1>1, <2>1 DEF RegistryConnect, Dial, StartDial, Idle
  <2>2. CASE TunnelTimer(s)
    BY <1>1, <2>2 DEF TunnelTimer
  <2>3. CASE TunnelFail(s)
    BY <2>3 DEF TunnelFail, poolVars
  <2>4. CASE Open(s)
    BY <2>4 DEF Open, poolVars
  <2>5. CASE wire[s] = "opening" /\ FailOpening(s)
    BY <2>5 DEF FailOpening
  <2>6. CASE Challenge(s)
    BY <2>6 DEF Challenge, poolVars
  <2>7. CASE AuthOk(s)
    BY <2>7 DEF AuthOk
  <2>8. CASE AuthFail(s)
    BY <2>8 DEF AuthFail, poolVars
  <2>9. CASE ProtocolError(s)
    BY <2>9 DEF ProtocolError
  <2>10. CASE Close(s)
    BY <2>10 DEF Close
  <2>11. CASE Timeout(s)
    BY <2>5, <2>11 DEF Timeout, poolVars
  <2>12. QED
    BY <1>3, <2>1, <2>2, <2>3, <2>4, <2>5, <2>6, <2>7, <2>8, <2>9, <2>10, <2>11
       DEF SocketStep, Refused
<1>4. CASE Stabilise
  BY <1>4 DEF Stabilise, poolVars
<1>5. QED
  BY <1>2, <1>3, <1>4 DEF SteadyNext, Operate

(* What handleStateChange copies is the state that was recorded, and the   *)
(* registry records no connection that is not there.                       *)
LEMMA HandleKeepsHealth ==
  ASSUME HealthOK, SteadyInv', NEW n \in Nat, HandleStateChange(n)
  PROVE  HealthOK'
<1>1. ErrorsOK'
  BY RecordKeepsWindow DEF HealthOK, HandleStateChange
<1>2. MetricsOK'
  BY DEF HandleStateChange, MetricsOK, SteadyInv, ReportInv, RegistryNeverOptimistic
<1>3. QED
  BY <1>1, <1>2 DEF HealthOK

LEMMA HealthStep ==
  ASSUME HealthOK, SteadyInv, SteadyInv', [HealthNext]_<<vars, healthVars>>
  PROVE  HealthOK'
<1>1. CASE SteadyNext /\ Hear
  <2>1. CASE \E s \in Socket : ErrorEvent(s) \/ Rejection(s) \/ OtherEvent(s)
    <3>1. Recorded \in Nat
      BY DEF Recorded
    <3>2. PICK n \in Nat : HandleStateChange(n)
      BY <1>1, <2>1, <3>1 DEF Hear
    <3>3. QED
      BY <3>2, HandleKeepsHealth
  <2>2. CASE ~ \E s \in Socket : ErrorEvent(s) \/ Rejection(s) \/ OtherEvent(s)
    <3>1. UNCHANGED healthVars
      BY <1>1, <2>2 DEF Hear
    <3>2. regState' = regState /\ dialed' = dialed
      BY <1>1, <2>2, SilenceKeepsState, ConnectionAssumption DEF SteadyInv, LinkInv
    <3>3. dialed <= 1 /\ status[pooled] = "connected" => status'[pooled'] = "connected"
      BY <1>1, <2>2, SilenceKeepsStatus
    <3>4. QED
      BY <3>1, <3>2, <3>3 DEF HealthOK, ErrorsOK, MetricsOK, healthVars
  <2>3. QED
    BY <2>1, <2>2
<1>2. CASE Ping
  <2>1. PICK n \in Nat : HandleStateChange(n)
    BY <1>2 DEF Ping
  <2>2. QED
    BY <2>1, HandleKeepsHealth
<1>3. CASE Later
  <2>1. MetricsOK'
    <3>1. Len(errors') = Len(errors)
      BY <1>3 DEF Later, HealthOK, ErrorsOK
    <3>2. QED
      BY <1>3, <3>1 DEF Later, HealthOK, MetricsOK, vars, poolVars, regVars
  <2>2. ErrorsOK'
    <3>1. /\ \A i \in 1..Len(errors) : errors[i] \in 0..(ErrorWindow + 1)
          /\ Len(errors) \in Nat /\ DOMAIN errors = 1..Len(errors)
      BY FunctionOfSeq DEF HealthOK, ErrorsOK
    <3>2. \A i \in 1..Len(errors) :
            /\ errors'[i] = IF errors[i] <= ErrorWindow THEN errors[i] + 1 ELSE errors[i]
            /\ errors'[i] \in 0..(ErrorWindow + 1)
      BY <1>3, <3>1, HealthAssumption DEF Later
    <3>3. errors' \in Seq(0..(ErrorWindow + 1)) /\ Len(errors') = Len(errors)
      <4>1. errors' \in [1..Len(errors) -> 0..(ErrorWindow + 1)]
        BY <1>3, <3>1, <3>2 DEF Later
      <4>2. QED
        BY <3>1, <4>1, SeqOfFunction
    <3>4. \A i \in 1..Len(errors) :
            errors[1] <= errors[i] /\ errors[i] <= errors[1] + ErrorWindow
      BY DEF HealthOK, ErrorsOK
    <3>5. \A i \in 1..Len(errors) :
            errors'[1] <= errors'[i] /\ errors'[i] <= errors'[1] + ErrorWindow
      <4>1. SUFFICES ASSUME NEW i \in 1..Len(errors)
            PROVE errors'[1] <= errors'[i] /\ errors'[i] <= errors'[1] + ErrorWindow
        OBVIOUS
      <4>2. 1 \in 1..Len(errors)
        BY <3>1
      <4>3. QED
        BY <3>1, <3>2, <3>4, <4>2, HealthAssumption
    <3>6. QED
      BY <3>3, <3>5 DEF HealthOK, ErrorsOK
  <2>3. QED
    BY <2>1, <2>2 DEF HealthOK
<1>4. CASE UNCHANGED <<vars, healthVars>>
  BY <1>4 DEF HealthOK, ErrorsOK, MetricsOK, vars, poolVars, regVars, healthVars
<1>5. QED
  BY <1>1, <1>2, <1>3, <1>4 DEF HealthNext

(* A node is counted healthy only over a live, authenticated socket, which *)
(* of a node that was dialed once its transport reports, and is counted    *)
(* unhealthy while connected only for errors within one window.            *)
THEOREM VerdictsFounded == HealthSpec => []VerdictFounded
<1>1. HealthInit => HealthOK
  BY HealthAssumption DEF HealthInit, HealthOK, ErrorsOK, MetricsOK
<1>2. SteadyInv /\ SteadyInv' /\ HealthOK /\ [HealthNext]_<<vars, healthVars>> => HealthOK'
  BY HealthStep
<1>3. SteadyInv /\ HealthOK => VerdictFounded
  <2>1. SUFFICES ASSUME SteadyInv, HealthOK PROVE VerdictFounded
    OBVIOUS
  <2>2. /\ Healthy => \E s \in Socket : Authenticated(s)
        /\ Healthy /\ dialed <= 1 => status[pooled] = "connected"
    BY <2>1 DEF HealthOK, MetricsOK, Healthy, SteadyInv, ReportInv, RegistryNeverOptimistic
  <2>3. ASSUME metrics.status = "connected", ~ Healthy
        PROVE  errors[Unhealthy] <= errors[1] + ErrorWindow
    <3>1. Unhealthy \in 1..Len(errors)
      BY <2>1, <2>3, HealthAssumption DEF HealthOK, MetricsOK, ErrorsOK, Healthy
    <3>2. QED
      BY <2>1, <3>1 DEF HealthOK, ErrorsOK
  <2>4. QED
    BY <2>2, <2>3 DEF VerdictFounded
<1>4. QED
  BY <1>1, <1>2, <1>3, HealthIsSteady, SteadyInvariant, PTL DEF HealthSpec
=============================================================================
