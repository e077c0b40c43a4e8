------------------------------ MODULE HubCalls ------------------------------
(***************************************************************************)
(* callNode of the hub's NodeRegistry beside its connections.  A call      *)
(* waits for the answer on the socket it was sent on, with a timer of its  *)
(* own.  Nothing else ends it: not the close of the socket, nor            *)
(* unregisterNode or stop.                                                 *)
(***************************************************************************)
EXTENDS HubRegistry

CONSTANTS
  Call,          \* calls of callNode
  CallTimeout    \* their timeout, in intervals of the heartbeat

ASSUME CallAssumption == CallTimeout \in Nat \ {0}

VARIABLES
  call,   \* per call: "idle", "waiting", "answered", "refused" or "timed out"
  sentOn, \* per call: the socket it listens to, NoSocket when that has closed
  age     \* per call: intervals since it was sent

callVars == <<call, sentOn, age>>

CallTypeOK ==
  /\ call \in [Call -> {"idle", "waiting", "answered", "refused", "timed out"}]
  /\ sentOn \in [Call -> Socket \union {NoSocket}]
  /\ age \in [Call -> 0..CallTimeout]

CallInit ==
  /\ Init
  /\ call = [c \in Call |-> "idle"]
  /\ sentOn = [c \in Call |-> NoSocket]
  /\ age = [c \in Call |-> 0]

Waiting(c) == call[c] = "waiting"

End(c, how) ==
  /\ call' = [call EXCEPT ![c] = how]
  /\ sentOn' = [sentOn EXCEPT ![c] = NoSocket]
  /\ age' = [age EXCEPT ![c] = 0]

(* Mutant of CallNode: the status is asked, and not the socket. *)
CallNodeOnline(c) ==
  /\ call[c] = "idle"
  /\ IF current # NoSocket /\ status = "online"
     THEN /\ call' = [call EXCEPT ![c] = "waiting"]
          /\ sentOn' = [sentOn EXCEPT ![c] = current]
          /\ UNCHANGED age
     ELSE End(c, "refused")
  /\ UNCHANGED vars

(* callNode sends on the socket of the node if it is open.                 *)
CallNode(c) ==
  /\ call[c] = "idle"
  /\ IF current # NoSocket /\ wire[current] = "open"
     THEN /\ call' = [call EXCEPT ![c] = "waiting"]
          /\ sentOn' = [sentOn EXCEPT ![c] = current]
          /\ UNCHANGED age
     ELSE End(c, "refused")
  /\ UNCHANGED vars

(* The answer, which handleMessage hears as well and may take for that to  *)
(* a heartbeat.                                                            *)
Answer(c) ==
  /\ Waiting(c) /\ sentOn[c] # NoSocket /\ wire[sentOn[c]] \in {"open", "closing"}
  /\ End(c, "answered")
  /\ UNCHANGED vars \/ RecordHeartbeat(sentOn[c])

(* Mutant of CallTimer: the timer ends with the connection. *)
CallTimerIfOpen(c) ==
  /\ Waiting(c) /\ age[c] >= CallTimeout /\ sentOn[c] # NoSocket
  /\ End(c, "timed out")
  /\ UNCHANGED vars

CallTimer(c) ==
  /\ Waiting(c) /\ age[c] >= CallTimeout
  /\ End(c, "timed out")
  /\ UNCHANGED vars

(* The steps of the registry.  A closed socket never reports again.        *)
RegistryStep ==
  /\ \/ InitializeOthers \/ Unregister \/ Stop
     \/ \E s \in Socket :
          \/ Register(s) \/ Initialize(s) \/ ReconnectTimer(s)
          \/ Open(s) \/ Error(s) \/ RecordHeartbeat(s)
  /\ UNCHANGED callVars

SocketCloses ==
  \E s \in Socket :
    /\ Close(s)
    /\ sentOn' = [c \in Call |-> IF sentOn[c] = s THEN NoSocket ELSE sentOn[c]]
    /\ UNCHANGED <<call, age>>

(* An interval passes for the calls as well.  Timers that are due fire     *)
(* before another has passed.                                              *)
Passes ==
  /\ Beat
  /\ \A c \in Call : Waiting(c) => age[c] < CallTimeout
  /\ age' = [c \in Call |-> IF Waiting(c) THEN age[c] + 1 ELSE age[c]]
  /\ UNCHANGED <<call, sentOn>>

CallNext ==
  \/ RegistryStep \/ SocketCloses \/ Passes
  \/ \E c \in Call : CallNode(c) \/ Answer(c) \/ CallTimer(c)

CallSpec == CallInit /\ [][CallNext]_<<vars, callVars>>

(* The clock goes on and the timers of calls fire.                         *)
CallFairness ==
  /\ WF_<<vars, callVars>>(Passes)
  /\ \A c \in Call : WF_<<vars, callVars>>(CallTimer(c))

FairCallSpec == CallSpec /\ CallFairness

-----------------------------------------------------------------------------
(* Every call ends, though its socket closes, is replaced or never answers. *)
CallsEnd == \A c \in Call : Waiting(c) ~> ~ Waiting(c)

(* As long as the node was registered once, a call is refused as "not      *)
(* connected" only while the node has no open socket at all: the entry in  *)
(* connections never hides an open one.                                    *)
RefusedWhenDown ==
  [][\A c \in Call : call[c] = "idle" /\ call'[c] = "refused" /\ registrations <= 1 =>
       \A s \in Socket : wire[s] # "open"]_<<vars, callVars>>
=============================================================================
