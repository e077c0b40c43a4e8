------------------------------ MODULE NodeHealth ------------------------------
(***************************************************************************)
(* The HealthMonitor of the daemon beside the connection of one node that  *)
(* stays registered.  It listens to the states the NodeRegistry records,   *)
(* keeps the times of the errors among them, and copies what it knows into *)
(* the metrics from which the daemon answers the health query.             *)
(*                                                                         *)
(* A step of the connection and what the monitor does about it are one     *)
(* callback.  The metrics are seen between callbacks only, so of several   *)
(* states recorded in one the last counts, and each error.                 *)
(***************************************************************************)
EXTENDS NodeConnection, Sequences

CONSTANTS
  ErrorWindow,   \* errorWindowMs, in units of the clock
  Unhealthy      \* the errors at which isHealthy says no, 3 in the code

ASSUME HealthAssumption == ErrorWindow \in Nat /\ Unhealthy \in Nat \ {0}

VARIABLES
  errors,    \* the ages of the node's errors, the newest first, Unhealthy at most
  metrics    \* HealthMetrics of the node: its status and errorCount

healthVars == <<errors, metrics>>

HealthInit ==
  /\ Init
  /\ errors = <<>> /\ metrics = [status |-> "none", errorCount |-> 0]

(* Whether s has been refused or has broken in this step: an "error" event *)
ErrorEvent(s) ==
  \/ wire[s] = "opening" /\ wire'[s] = "closed"
  \/ wire[s] = "open" /\ status'[owner[s]] = "error" /\ wire'[s] = "closing"

(* The promise that registry.connect awaits is rejected, and its catch     *)
(* records the error, a second time if an event has been there before.     *)
Rejection(s) ==
  awaiter[s] = "registry" /\ awaiter'[s] = "nobody" /\ phase'[s] # "authed"

(* The other states the registry records: "connecting", "connected" and    *)
(* "disconnected".                                                         *)
OtherEvent(s) ==
  \/ awaiter[s] = "nobody" /\ awaiter'[s] = "registry"
  \/ phase[s] # "authed" /\ phase'[s] = "authed"
  \/ wire[s] \notin {"closed", "tunnel", "stuck"} /\ wire'[s] = "closed"

(* How many errors the monitor is told of: a step is about one socket.     *)
Recorded ==
  (IF \E s \in Socket : ErrorEvent(s) THEN 1 ELSE 0) +
  (IF \E s \in Socket : Rejection(s) THEN 1 ELSE 0)

AtMost(n, most) == IF n < most THEN n ELSE most

(* Mutant of Recent: nothing is pruned. *)
RecentIsAll(m) == m = Len(errors)

(* pruneOldErrors keeps the errors of the window, which are the newest m.  *)
Recent(m) == \A i \in 1..Len(errors) : i <= m <=> errors[i] <= ErrorWindow

(* recordError, n times: the old are pruned only when there is another.    *)
(* Errors beyond the number that decides are not kept here.                *)
RecordErrors(n) ==
  IF n = 0 THEN errors' = errors
  ELSE \E m \in 0..Len(errors) :
         /\ Recent(m)
         /\ errors' = [i \in 1..AtMost(n + m, Unhealthy) |->
                         IF i <= n THEN 0 ELSE errors[i - n]]

(* handleStateChange with n errors among the states, and updateMetrics.    *)
HandleStateChange(n) ==
  /\ RecordErrors(n)
  /\ metrics' = [status |-> regState', errorCount |-> Len(errors')]

(* What the monitor does about a step.  The error of a socket that could   *)
(* not be opened may have an empty message, and is then not recorded.      *)
Hear ==
  LET nameless == \E s \in Socket : wire[s] = "opening" /\ wire'[s] = "closed"
  IN  IF \E s \in Socket : ErrorEvent(s) \/ Rejection(s) \/ OtherEvent(s)
      THEN \E n \in {Recorded} \union (IF nameless THEN {0} ELSE {}) : HandleStateChange(n)
      ELSE UNCHANGED healthVars

(* The periodic ping of a connected node is answered: pingNode records     *)
(* lastSeen, and the handlers hear the state that is recorded once more,   *)
(* be it an error that has been counted.                                   *)
Ping ==
  /\ status[pooled] = "connected" /\ \E s \in Socket : ws[pooled] = s /\ wire[s] = "open"
  /\ regState # "none"
  /\ UNCHANGED vars
  /\ HandleStateChange(IF regState = "error" THEN 1 ELSE 0)

(* The clock.  Ages beyond the window are not told apart.                  *)
Later ==
  /\ errors' = [i \in DOMAIN errors |->
                  IF errors[i] <= ErrorWindow THEN errors[i] + 1 ELSE errors[i]]
  /\ UNCHANGED <<vars, metrics>>

HealthNext == (SteadyNext /\ Hear) \/ Ping \/ Later

HealthSpec == HealthInit /\ [][HealthNext]_<<vars, healthVars>>
FairHealthSpec == HealthSpec /\ Fairness

(* isHealthy *)
Healthy == metrics.status = "connected" /\ metrics.errorCount < Unhealthy

-----------------------------------------------------------------------------
(* The errors that are kept were in one window, and the metrics are those  *)
(* of the errors and of a state that was true when it was recorded.        *)
ErrorsOK ==
  /\ errors \in Seq(0..(ErrorWindow + 1)) /\ Len(errors) <= Unhealthy
  /\ \A i \in 1..Len(errors) : errors[1] <= errors[i] /\ errors[i] <= errors[1] + ErrorWindow

MetricsOK ==
  /\ metrics.errorCount = Len(errors)
  /\ metrics.status = "connected" =>
       /\ regState = "connected"
       /\ dialed <= 1 => status[pooled] = "connected"

(* What the health query says of the node is founded.  It is counted       *)
(* healthy only over a live, authenticated socket, and if it was dialed    *)
(* once only while its transport says connected, whatever order events,    *)
(* the rejections of old attempts and pings come in; and it is counted     *)
(* unhealthy while connected only for errors that came within one window,  *)
(* though they are pruned only when there is another.                      *)
VerdictFounded ==
  /\ Healthy => \E s \in Socket : Authenticated(s)
  /\ Healthy /\ dialed <= 1 => status[pooled] = "connected"
  /\ metrics.status = "connected" /\ ~ Healthy =>
       errors[Unhealthy] <= errors[1] + ErrorWindow
=============================================================================
