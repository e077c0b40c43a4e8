-------------------------- MODULE Lifecycle_proofs --------------------------
(***************************************************************************)
(* Theorems about Lifecycle, for any number of commands and of daemons.    *)
(***************************************************************************)
EXTENDS Lifecycle, TLAPS

LEMMA TypeStep == TypeOK /\ Next => TypeOK'
<1>1. SUFFICES ASSUME TypeOK, Next PROVE TypeOK'
  OBVIOUS
<1> USE DEF TypeOK, Process, Check, Go, Finish, StartDaemon, Idle
<1>2. ASSUME NEW p \in Process, CheckStep(p) PROVE TypeOK'
  BY <1>1, <1>2 DEF CheckStep, Read, Ping, Clean, Probe, Release
<1>3. ASSUME NEW c \in Command, NEW task \in {"start", "stop", "restart", "status"},
             Begin(c, task)
      PROVE  TypeOK'
  BY <1>1, <1>3 DEF Begin
<1>4. ASSUME NEW c \in Command, CommandStep(c), ~ CheckStep(c) PROVE TypeOK'
  <2>1. CASE Proceed(c)
    BY <1>1, <2>1 DEF Proceed
  <2>2. CASE Spawn(c)
    BY <1>1, <2>2 DEF Spawn, Fresh
  <2>3. CASE Truncate(c)
    BY <1>1, <2>3 DEF Truncate
  <2>4. CASE Write(c)
    BY <1>1, <2>4 DEF Write
  <2>5. CASE Signal(c)
    BY <1>1, <2>5 DEF Signal, Stopped
  <2>6. CASE Terminate(c)
    <3>1. /\ port' \in {port, None} /\ httpPort' \in {httpPort, None}
          /\ seen' = seen \/ seen' = [seen EXCEPT ![seen[c]] = None]
      BY <2>6 DEF Terminate, Die, FreePorts
    <3>2. UNCHANGED <<pidFile, job, mishap>>
      BY <2>6 DEF Terminate
    <3>3. at' \in [Process -> Check \union
                    {"idle", "truncate", "write", "signal", "term", "stopping", "unlink",
                     "dead", "http", "serving", "closing", "draining"}]
      BY <1>1, <2>6 DEF Terminate
    <3>4. QED
      BY <1>1, <3>1, <3>2, <3>3
  <2>7. CASE Gone(c)
    BY <1>1, <2>7 DEF Gone
  <2>8. CASE Kill(c)
    BY <1>1, <2>8 DEF Kill, Die, FreePorts
  <2>9. CASE Unlink(c)
    <3>1. CASE Finish(c)
      BY <1>1, <2>9, <3>1 DEF Unlink
    <3>2. CASE StartDaemon(c)
      BY <1>1, <2>9, <3>2 DEF Unlink
    <3>3. QED
      BY <2>9, <3>1, <3>2 DEF Unlink, Stopped
  <2>10. QED
    BY <1>4, <2>1, <2>2, <2>3, <2>4, <2>5, <2>6, <2>7, <2>8, <2>9 DEF CommandStep
<1>5. ASSUME NEW d \in Daemon,
             \/ Foreground(d) \/ Yield(d) \/ Listen(d) \/ ListenHttp(d)
             \/ Shutdown(d) \/ Exit(d) \/ Crash(d)
      PROVE  TypeOK'
  BY <1>1, <1>5 DEF Foreground, Yield, Listen, ListenHttp, Shutdown, Exit, Crash, Die, FreePorts
<1>6. QED
  BY <1>1, <1>2, <1>3, <1>4, <1>5 DEF Next

-----------------------------------------------------------------------------
LEMMA PidStep == TypeOK /\ PidInv /\ Next => PidInv'
<1>1. SUFFICES ASSUME TypeOK, PidInv, Next PROVE PidInv'
  OBVIOUS
<1> USE LifecycleAssumption
    DEF TypeOK, PidInv, Process, Check, Alive, Go, Finish, StartDaemon, Idle
<1>2. ASSUME NEW p \in Process, CheckStep(p) PROVE PidInv'
  <2>1. CASE Read(p)
    BY <1>1, <2>1 DEF Read
  <2>2. CASE Ping(p)
    BY <1>1, <2>2 DEF Ping
  <2>3. CASE Clean(p)
    BY <1>1, <2>3 DEF Clean
  <2>4. CASE Probe(p)
    BY <1>1, <2>4 DEF Probe
  <2>5. CASE Release(p)
    BY <1>1, <2>5 DEF Release
  <2>6. QED
    BY <1>2, <2>1, <2>2, <2>3, <2>4, <2>5 DEF CheckStep
<1>3. ASSUME NEW c \in Command, NEW task \in {"start", "stop", "restart", "status"},
             Begin(c, task)
      PROVE  PidInv'
  BY <1>1, <1>3 DEF Begin
<1>4. ASSUME NEW c \in Command, CommandStep(c), ~ CheckStep(c) PROVE PidInv'
  <2>1. CASE Proceed(c)
    BY <1>1, <2>1 DEF Proceed
  <2>2. CASE Spawn(c)
    BY <1>1, <2>2 DEF Spawn, Fresh
  <2>3. CASE Truncate(c)
    BY <1>1, <2>3 DEF Truncate
  <2>4. CASE Write(c)
    BY <1>1, <2>4 DEF Write
  <2>5. CASE Signal(c)
    BY <1>1, <2>5 DEF Signal, Stopped
  <2>6. CASE Terminate(c)
    BY <1>1, <2>6 DEF Terminate, Die, FreePorts
  <2>7. CASE Gone(c)
    BY <1>1, <2>7 DEF Gone
  <2>8. CASE Kill(c)
    BY <1>1, <2>8 DEF Kill, Die, FreePorts
  <2>9. CASE Unlink(c)
    BY <1>1, <2>9 DEF Unlink, Stopped
  <2>10. QED
    BY <1>4, <2>1, <2>2, <2>3, <2>4, <2>5, <2>6, <2>7, <2>8, <2>9 DEF CommandStep
<1>5. ASSUME NEW d \in Daemon,
             \/ Foreground(d) \/ Yield(d) \/ Listen(d) \/ ListenHttp(d)
             \/ Shutdown(d) \/ Exit(d) \/ Crash(d)
      PROVE  PidInv'
  <2>1. CASE Foreground(d)
    BY <1>1, <2>1 DEF Foreground, Fresh
  <2>2. CASE Listen(d)
    BY <1>1, <2>2 DEF Listen
  <2>3. CASE Yield(d) \/ ListenHttp(d) \/ Shutdown(d) \/ Exit(d) \/ Crash(d)
    BY <1>1, <2>3 DEF Yield, ListenHttp, Shutdown, Exit, Crash, Die, FreePorts
  <2>4. QED
    BY <1>5, <2>1, <2>2, <2>3
<1>6. QED
  BY <1>1, <1>2, <1>3, <1>4, <1>5 DEF Next

-----------------------------------------------------------------------------
Serial ==
  /\ PortInv
  /\ \A d \in Daemon : Alive(d) => DaemonInv(d)
  /\ \A c \in Active : CommandInv(c)

LEMMA CommandChecks ==
  ASSUME LifecycleInv, Serial, ~ mishap, PidInv', NEW c \in Command, CheckStep(c)
  PROVE  Serial'
<1> USE LifecycleAssumption
    DEF LifecycleInv, TypeOK, PidInv, Process, Check, Alive, Active, Go, Idle,
        Serial, PortInv, DaemonInv, CommandInv, FindsInv, StartsInv, LooksInv, NoDaemon
<1>1. CASE Read(c)
  BY <1>1 DEF Read
<1>2. CASE Ping(c)
  BY <1>2 DEF Ping
<1>3. CASE Clean(c)
  BY <1>3 DEF Clean
<1>4. CASE Probe(c)
  BY <1>4 DEF Probe
<1>5. CASE Release(c)
  BY <1>5 DEF Release
<1>6. QED
  BY <1>1, <1>2, <1>3, <1>4, <1>5 DEF CheckStep

LEMMA DaemonChecks ==
  ASSUME LifecycleInv, Serial, ~ mishap, PidInv', NEW d \in Daemon, CheckStep(d)
  PROVE  Serial'
<1> USE LifecycleAssumption
    DEF LifecycleInv, TypeOK, PidInv, Process, Check, Alive, Active, Go, Idle,
        Serial, PortInv, DaemonInv, CommandInv, FindsInv, StartsInv, LooksInv, NoDaemon
<1>1. CASE Read(d)
  BY <1>1 DEF Read
<1>2. CASE Ping(d)
  BY <1>2 DEF Ping
<1>3. CASE Clean(d)
  BY <1>3 DEF Clean
<1>4. CASE Probe(d)
  BY <1>4 DEF Probe
<1>5. CASE Release(d)
  BY <1>5 DEF Release
<1>6. QED
  BY <1>1, <1>2, <1>3, <1>4, <1>5 DEF CheckStep

LEMMA DaemonSteps ==
  ASSUME LifecycleInv, Serial, ~ mishap, ~ mishap', PidInv', NEW d \in Daemon,
         \/ Yield(d) \/ Listen(d) \/ ListenHttp(d) \/ Shutdown(d) \/ Exit(d) \/ Crash(d)
  PROVE  Serial'
<1> USE LifecycleAssumption
    DEF LifecycleInv, TypeOK, PidInv, Process, Check, Alive, Active, Go, Idle, Die, FreePorts,
        Serial, PortInv, DaemonInv, CommandInv, FindsInv, StartsInv, LooksInv, NoDaemon
<1>1. CASE Yield(d)
  BY <1>1 DEF Yield
<1>2. CASE Listen(d)
  <2>1. /\ at[d] = "no" /\ port = None /\ port' = d /\ at' = [at EXCEPT ![d] = "http"]
        /\ UNCHANGED <<pidFile, httpPort, seen, job>>
    BY <1>2 DEF Listen
  <2>2. PortInv'
    BY <2>1
  <2>3. \A e \in Daemon : Alive(e)' => DaemonInv(e)'
    BY <2>1
  <2>4. \A c \in Active' : CommandInv(c)'
    BY <2>1
  <2>5. QED
    BY <2>2, <2>3, <2>4
<1>3. CASE ListenHttp(d)
  BY <1>3 DEF ListenHttp
<1>4. CASE Shutdown(d)
  BY <1>4 DEF Shutdown
<1>5. CASE Exit(d)
  BY <1>5 DEF Exit
<1>6. CASE Crash(d)
  <2>1. Active = {} /\ Active' = {}
    <3>1. Quiet
      BY <1>6 DEF Crash
    <3>2. \A c \in Command : at'[c] = at[c]
      BY <1>6 DEF Crash
    <3>3. QED
      BY <3>1, <3>2 DEF Quiet
  <2>2. /\ \A e \in Daemon : at'[e] = "dead"
        /\ port' \notin Daemon /\ httpPort' \notin Daemon
    BY <1>6 DEF Crash
  <2>3. PortInv'
    BY <1>6, <2>2 DEF Crash
  <2>4. QED
    BY <2>1, <2>2, <2>3
<1>7. QED
  BY <1>1, <1>2, <1>3, <1>4, <1>5, <1>6

LEMMA CommandSteps ==
  ASSUME LifecycleInv, Serial, ~ mishap, PidInv', NEW c \in Command,
         CommandStep(c), ~ CheckStep(c)
  PROVE  Serial'
<1> USE LifecycleAssumption
    DEF LifecycleInv, TypeOK, PidInv, Process, Check, Alive, Active, Go, Idle,
        Finish, StartDaemon, Die, FreePorts, Stopped,
        Serial, PortInv, DaemonInv, CommandInv, FindsInv, StartsInv, LooksInv, NoDaemon
<1>1. CASE Proceed(c)
  BY <1>1 DEF Proceed
<1>2. CASE Spawn(c)
  BY <1>2 DEF Spawn, Fresh
<1>3. CASE Truncate(c)
  BY <1>3 DEF Truncate
<1>4. CASE Write(c)
  BY <1>4 DEF Write
<1>5. CASE Signal(c)
  BY <1>5 DEF Signal
<1>6. CASE Terminate(c)
  BY <1>6 DEF Terminate
<1>7. CASE Gone(c)
  BY <1>7 DEF Gone
<1>8. CASE Kill(c)
  BY <1>8 DEF Kill
<1>9. CASE Unlink(c)
  BY <1>9 DEF Unlink
<1>10. QED
  BY <1>1, <1>2, <1>3, <1>4, <1>5, <1>6, <1>7, <1>8, <1>9 DEF CommandStep

LEMMA Begins ==
  ASSUME LifecycleInv, Serial, ~ mishap, ~ mishap', PidInv',
         NEW c \in Command, NEW task \in {"start", "stop", "restart", "status"},
         Begin(c, task)
  PROVE  Serial'
<1> USE LifecycleAssumption
    DEF LifecycleInv, TypeOK, PidInv, Process, Check, Alive, Active, Go, Idle,
        Serial, PortInv, DaemonInv, CommandInv, FindsInv
<1>1. /\ Active = {} /\ \A d \in Daemon : at[d] \in {"dead", "serving"}
      /\ at' = [at EXCEPT ![c] = "read"]
      /\ job'[c].stage = "cli" /\ job'[c].child = None
      /\ UNCHANGED <<pidFile, port, httpPort, seen>>
  <2>1. Quiet
    BY DEF Begin
  <2>2. QED
    BY <2>1 DEF Begin, Quiet
<1>2. Active' = {c}
  BY <1>1
<1>3. PortInv'
  BY <1>1
<1>4. \A d \in Daemon : Alive(d)' => DaemonInv(d)'
  BY <1>1, <1>2
<1>5. CommandInv(c)'
  BY <1>1, <1>2
<1>6. QED
  BY <1>2, <1>3, <1>4, <1>5

LEMMA SerialStep == LifecycleInv /\ PidInv' /\ Next => SerialInv'
<1>1. SUFFICES ASSUME LifecycleInv, PidInv', Next, ~ mishap' PROVE Serial'
  BY DEF SerialInv, Serial
<1>2. ~ mishap
  BY <1>1 DEF Next, CommandStep, CheckStep, Begin, Read, Ping, Clean, Probe, Release, Proceed,
       Spawn, Truncate, Write, Signal, Terminate, Gone, Kill, Unlink, Foreground, Yield,
       Listen, ListenHttp, Shutdown, Exit, Crash
<1>3. Serial
  BY <1>1, <1>2 DEF LifecycleInv, SerialInv, Serial
<1>4. ASSUME NEW d \in Daemon PROVE ~ Foreground(d)
  BY <1>1 DEF Foreground
<1>5. QED
  BY <1>1, <1>2, <1>3, <1>4, CommandChecks, DaemonChecks, DaemonSteps, CommandSteps, Begins
     DEF Next

LEMMA LifecycleInvariant == Spec => []LifecycleInv
<1>1. Init => LifecycleInv
  <2>1. SUFFICES ASSUME Init PROVE LifecycleInv
    OBVIOUS
  <2>2. TypeOK
    BY <2>1 DEF Init, TypeOK, Process, Check, Idle
  <2>3. PidInv
    BY <2>1, LifecycleAssumption DEF Init, PidInv, Process, Check, Idle, Alive
  <2>4. SerialInv
    BY <2>1, LifecycleAssumption
       DEF Init, SerialInv, PortInv, Process, Alive, Active
  <2>5. QED
    BY <2>2, <2>3, <2>4 DEF LifecycleInv
<1>2. LifecycleInv /\ Next => LifecycleInv'
  BY TypeStep, PidStep, SerialStep DEF LifecycleInv
<1>3. LifecycleInv /\ UNCHANGED vars => LifecycleInv'
  BY DEF LifecycleInv, TypeOK, PidInv, SerialInv, PortInv, DaemonInv, CommandInv,
         FindsInv, StartsInv, LooksInv, NoDaemon, Alive, Active, vars
<1>4. QED
  BY <1>1, <1>2, <1>3, PTL DEF Spec

(* Every process is at a step of its program and knows pids of daemons.    *)
THEOREM TypeCorrect == Spec => []TypeOK
<1>1. LifecycleInv => TypeOK
  BY DEF LifecycleInv
<1>2. QED
  BY <1>1, LifecycleInvariant, PTL

(* Processes that keep out of each other's way leave one daemon at most,   *)
(* with both ports, which the file names.                                  *)
THEOREM DaemonIsKnown == Spec => []KnownDaemon
<1>1. LifecycleInv => KnownDaemon
  BY DEF LifecycleInv, SerialInv, KnownDaemon, Quiet, DaemonInv, Alive, Active
<1>2. QED
  BY <1>1, LifecycleInvariant, PTL

(* What a command tells at its end is true: "stopped" of the process it    *)
(* has found whatever others do, and all of it if there was no mishap.     *)
THEOREM ReportsAreTrue == Spec => ReportsTrue
<1> DEFINE Reports == \A c \in Command : at[c] # "idle" /\ at'[c] = "idle" => Tells(c)
<1>1. LifecycleInv /\ [Next]_vars => [Reports]_vars
  <2>1. SUFFICES ASSUME LifecycleInv, Next,
                        NEW c \in Command, at[c] # "idle", at'[c] = "idle"
                 PROVE  Tells(c)
    OBVIOUS
  <2> USE LifecycleAssumption DEF LifecycleInv, TypeOK, PidInv, Process, Check, Alive
  <2>2. \/ Proceed(c) \/ Signal(c) \/ Unlink(c)
    <3>1. ASSUME NEW e \in Command, e # c, CommandStep(e) PROVE at'[c] = at[c]
      <4>1. CASE CheckStep(e) \/ Truncate(e) \/ Write(e) \/ Gone(e)
        BY <2>1, <3>1, <4>1
           DEF CheckStep, Read, Ping, Clean, Probe, Release, Truncate, Write, Gone, Go
      <4>2. CASE Proceed(e) \/ Signal(e) \/ Unlink(e)
        BY <2>1, <3>1, <4>2 DEF Proceed, Signal, Unlink, Stopped, Finish, StartDaemon, Go
      <4>3. CASE Spawn(e)
        BY <2>1, <3>1, <4>3 DEF Spawn, Fresh
      <4>4. CASE Terminate(e) \/ Kill(e)
        <5>1. seen[e] \in Daemon
          BY <2>1, <4>4 DEF Terminate, Kill
        <5>2. c # seen[e]
          BY <5>1
        <5>3. QED
          BY <2>1, <3>1, <4>4, <5>2 DEF Terminate, Kill, Go
      <4>5. QED
        BY <3>1, <4>1, <4>2, <4>3, <4>4 DEF CommandStep
    <3>2. ASSUME NEW d \in Daemon,
                 \/ Foreground(d) \/ CheckStep(d) \/ Yield(d) \/ Listen(d) \/ ListenHttp(d)
                 \/ Shutdown(d) \/ Exit(d) \/ Crash(d)
          PROVE  at'[c] = at[c]
      <4>1. PICK where : Go(d, where)
        BY <3>2 DEF Foreground, CheckStep, Read, Ping, Clean, Probe, Release, Yield, Listen,
             ListenHttp, Shutdown, Exit, Crash
      <4>2. c # d
        OBVIOUS
      <4>3. QED
        BY <4>1, <4>2 DEF Go
    <3>3. ASSUME NEW e \in Command,
                 NEW task \in {"start", "stop", "restart", "status"}, Begin(e, task)
          PROVE  at'[c] # "idle"
      BY <2>1, <3>3 DEF Begin, Go
    <3>4. CommandStep(c)
      BY <2>1, <3>1, <3>2, <3>3 DEF Next
    <3>5. QED
      BY <2>1, <3>4 DEF CommandStep, CheckStep, Read, Ping, Clean, Probe, Release,
           Spawn, Fresh, Truncate, Write, Terminate, Gone, Kill, Go
  <2>3. UNCHANGED mishap /\ \A d \in Daemon : at'[d] = at[d]
    <3>1. UNCHANGED mishap
      BY <2>2 DEF Proceed, Signal, Unlink
    <3>2. PICK where : Go(c, where)
      BY <2>2 DEF Proceed, Signal, Unlink, Stopped, Finish, StartDaemon
    <3>3. QED
      BY <3>1, <3>2 DEF Go
  <2>4. Told(c) = "stopped" /\ at[c] = "unlink" => at'[seen[c]] = "dead"
    BY <2>1, <2>3
  <2>5. ASSUME ~ mishap'
        PROVE  /\ Told(c) = "stopped" => \A d \in Daemon : at'[d] = "dead"
               /\ Told(c) = "running" => pidFile' # None /\ at'[pidFile'] # "dead"
               /\ Told(c) = "not running" => \A d \in Daemon : at'[d] # "serving"
    <3>1. CommandInv(c)
      BY <2>1, <2>3, <2>5 DEF SerialInv, Active
    <3>2. CASE Proceed(c)
      BY <2>1, <2>3, <3>1, <3>2
         DEF Proceed, Told, CommandInv, FindsInv, LooksInv, NoDaemon
    <3>3. CASE Signal(c)
      <4>1. at[c] = "signal" /\ pidFile # None
        BY <2>1, <3>1, <3>3 DEF Signal, CommandInv, FindsInv, StartsInv, LooksInv
      <4>2. at'[c] = "term"
        BY <2>1, <3>3, <4>1 DEF Signal, Go
      <4>3. QED
        BY <2>1, <4>2
    <3>4. CASE Unlink(c)
      BY <2>1, <2>3, <3>1, <3>4
         DEF Unlink, Told, CommandInv, FindsInv, StartsInv, LooksInv, NoDaemon
    <3>5. QED
      BY <2>2, <3>2, <3>3, <3>4
  <2>6. QED
    BY <2>4, <2>5 DEF Tells
<1>2. QED
  BY <1>1, LifecycleInvariant, PTL DEF Spec, ReportsTrue
=============================================================================
