----------------------------- MODULE Lifecycle -----------------------------
(***************************************************************************)
(* The daemon's processes and the commands that start and stop them, over  *)
(* the file daemon.pid and the daemon's two ports.  Every command is a     *)
(* process of its own, and so is every daemon: the steps of all of them    *)
(* interleave.                                                             *)
(*                                                                         *)
(* isDaemonRunning, here "the check", is run by every command, by start    *)
(* three times, and by the new daemon itself before it listens.  It tries  *)
(* the port by binding it, and so can be seen by others.                   *)
(***************************************************************************)
EXTENDS FiniteSets, Naturals

CONSTANTS
  Command,   \* processes of the command line
  Daemon,    \* handles of daemon processes: their pids
  None       \* what is absent

ASSUME LifecycleAssumption ==
  /\ Command \intersect Daemon = {}
  /\ None \notin Command \union Daemon
  /\ IsFiniteSet(Daemon)

VARIABLES
  pidFile,   \* whom daemon.pid names, None without a file and in an empty one
  port,      \* who is bound to the port of the WebSocket server
  httpPort,  \* who is bound to that of the HTTP server
  at,        \* where a process is
  seen,      \* the pid a process has read and still uses
  job,       \* per command: what it does, how far it is, its child
  mishap     \* have processes got in each other's way (see Quiet)

vars == <<pidFile, port, httpPort, at, seen, job, mishap>>

Process == Command \union Daemon

(* The check, from its first await to its verdict.                         *)
Check == {"read", "ping", "clean", "probe", "probing", "yes", "no"}

Idle == [task |-> "none", stage |-> "cli", child |-> None]

TypeOK ==
  /\ pidFile \in Daemon \union {None}
  /\ port \in Process \union {None}
  /\ httpPort \in Daemon \union {None}
  /\ at \in [Process -> Check \union
               {"idle", "truncate", "write", "signal", "term", "stopping", "unlink",
                "dead", "http", "serving", "closing", "draining"}]
  /\ seen \in [Process -> Daemon \union {None}]
  /\ job \in [Command -> [task : {"none", "start", "stop", "restart", "status"},
                          stage : {"cli", "start", "after"},
                          child : Daemon \union {None}]]
  /\ mishap \in BOOLEAN

Init ==
  /\ pidFile = None /\ port = None /\ httpPort = None
  /\ at = [p \in Process |-> IF p \in Command THEN "idle" ELSE "dead"]
  /\ seen = [p \in Process |-> None]
  /\ job = [c \in Command |-> Idle]
  /\ mishap = FALSE

Alive(d) == at[d] # "dead"
Active == {c \in Command : at[c] # "idle"}

(* Nothing is under way: the daemons that are alive serve.                 *)
Quiet == Active = {} /\ \A d \in Daemon : at[d] \in {"dead", "serving"}

(* A pid that no file and no process remembers.                            *)
Fresh == {d \in Daemon : ~ Alive(d) /\ pidFile # d /\ \A p \in Process : seen[p] # d}
         \ {job[c].child : c \in Active}

(* Room bounds the model: what may start a daemon begins only if there is  *)
(* a fresh pid left beside those that such commands under way may take.    *)
Starters == {c \in Active : /\ job[c].task \in {"start", "restart"}
                            /\ job[c].stage # "after" /\ job[c].child = None}
Room == Cardinality(Fresh) > Cardinality(Starters)

Go(p, where) == at' = [at EXCEPT ![p] = where]

-----------------------------------------------------------------------------
(* getDaemonPid and isDaemonRunning.                                       *)
Read(p) ==
  /\ at[p] = "read"
  /\ seen' = [seen EXCEPT ![p] = pidFile]
  /\ Go(p, IF pidFile = None THEN "no" ELSE "ping")
  /\ UNCHANGED <<pidFile, port, httpPort, job, mishap>>

Ping(p) ==
  /\ at[p] = "ping"
  /\ Go(p, IF Alive(seen[p]) THEN "probe" ELSE "clean")
  /\ seen' = [seen EXCEPT ![p] = None]
  /\ UNCHANGED <<pidFile, port, httpPort, job, mishap>>

(* unlink removes the file, whatever is in it by now.                      *)
Clean(p) ==
  /\ at[p] = "clean"
  /\ pidFile' = None
  /\ Go(p, "no")
  /\ UNCHANGED <<port, httpPort, seen, job, mishap>>

Probe(p) ==
  /\ at[p] = "probe"
  /\ \/ port = None /\ port' = p /\ Go(p, "probing")
     \/ port # None /\ UNCHANGED port /\ Go(p, "yes")
  /\ UNCHANGED <<pidFile, httpPort, seen, job, mishap>>

(* Mutant of Release: a file of a process that does not serve is removed. *)
ReleaseCleaning(p) ==
  /\ at[p] = "probing"
  /\ port' = None
  /\ pidFile' = None
  /\ Go(p, "no")
  /\ UNCHANGED <<httpPort, seen, job, mishap>>

Release(p) ==
  /\ at[p] = "probing"
  /\ port' = None
  /\ Go(p, "no")
  /\ UNCHANGED <<pidFile, httpPort, seen, job, mishap>>

CheckStep(p) == Read(p) \/ Ping(p) \/ Clean(p) \/ Probe(p) \/ Release(p)

-----------------------------------------------------------------------------
(* A user runs a command of the daemon.                                    *)
Begin(c, task) ==
  /\ at[c] = "idle"
  /\ task \in {"start", "restart"} => Room
  /\ job' = [job EXCEPT ![c] = [Idle EXCEPT !.task = task]]
  /\ Go(c, "read")
  /\ mishap' = (mishap \/ ~ Quiet)
  /\ UNCHANGED <<pidFile, port, httpPort, seen>>

(* The process of the command ends.                                        *)
Finish(c) ==
  /\ job' = [job EXCEPT ![c] = Idle]
  /\ seen' = [seen EXCEPT ![c] = None]
  /\ Go(c, "idle")

(* startDaemon, from its own check on.                                     *)
StartDaemon(c) ==
  /\ job' = [job EXCEPT ![c].stage = "start"]
  /\ Go(c, "read")
  /\ UNCHANGED seen

(* The command goes on after a check.                                      *)
Proceed(c) ==
  LET task == job[c].task
      running == at[c] = "yes"
  IN
  /\ at[c] \in {"yes", "no"}
  /\ UNCHANGED <<pidFile, port, httpPort, mishap>>
  /\ \/ /\ job[c].stage = "cli"
        /\ running => task \in {"start", "status"}
        /\ ~ running => task \in {"stop", "status"}
        /\ Finish(c)
     \/ /\ job[c].stage = "cli" /\ ~ running /\ task \in {"start", "restart"}
        /\ StartDaemon(c)
     \/ /\ job[c].stage = "cli" /\ running /\ task \in {"stop", "restart"}
        /\ Go(c, "signal")
        /\ UNCHANGED <<seen, job>>
     \/ /\ job[c].stage = "after" \/ (job[c].stage = "start" /\ running)
        /\ Finish(c)

(* startDaemon spawns the daemon ...                                       *)
Spawn(c) ==
  /\ at[c] = "no" /\ job[c].stage = "start"
  /\ \E d \in Fresh :
       /\ at' = [at EXCEPT ![c] = "truncate", ![d] = "read"]
       /\ job' = [job EXCEPT ![c].child = d]
  /\ UNCHANGED <<pidFile, port, httpPort, seen, mishap>>

(* ... writes its pid in two steps, opening the file and writing it, waits *)
(* for a second, in which the daemon may or may not have come up, and      *)
(* checks again.                                                           *)
Truncate(c) ==
  /\ at[c] = "truncate"
  /\ pidFile' = None
  /\ Go(c, "write")
  /\ UNCHANGED <<port, httpPort, seen, job, mishap>>

Write(c) ==
  /\ at[c] = "write"
  /\ pidFile' = job[c].child
  /\ job' = [job EXCEPT ![c].stage = "after", ![c].child = None]
  /\ Go(c, "read")
  /\ UNCHANGED <<port, httpPort, seen, mishap>>

(* A process that ends lets its ports go.                                  *)
FreePorts(d) ==
  /\ port' = IF port = d THEN None ELSE port
  /\ httpPort' = IF httpPort = d THEN None ELSE httpPort

Die(d) == FreePorts(d) /\ seen' = [seen EXCEPT ![d] = None]

(* The end of stopDaemon.                                                  *)
Stopped(c) ==
  \/ job[c].task = "stop" /\ Finish(c)
  \/ job[c].task = "restart" /\ StartDaemon(c)

(* stopDaemon reads the file again, ...                                    *)
Signal(c) ==
  /\ at[c] = "signal"
  /\ \/ pidFile = None /\ Stopped(c)
     \/ /\ pidFile # None
        /\ seen' = [seen EXCEPT ![c] = pidFile]
        /\ Go(c, "term")
        /\ UNCHANGED job
  /\ UNCHANGED <<pidFile, port, httpPort, mishap>>

(* ... sends SIGTERM, which ends a daemon that has not installed its       *)
(* handler, as it does at the end of its start, ...                        *)
Terminate(c) ==
  LET d == seen[c] IN
  /\ at[c] = "term"
  /\ \/ /\ ~ Alive(d)
        /\ Go(c, "unlink")
        /\ UNCHANGED <<port, httpPort, seen>>
     \/ /\ at[d] \in {"serving", "closing", "draining"}
        /\ at' = [at EXCEPT ![c] = "stopping",
                            ![d] = IF @ = "serving" THEN "closing" ELSE @]
        /\ UNCHANGED <<port, httpPort, seen>>
     \/ /\ Alive(d) /\ at[d] \notin {"closing", "draining"}
        /\ at' = [at EXCEPT ![c] = "stopping", ![d] = "dead"]
        /\ Die(d)
  /\ UNCHANGED <<pidFile, job, mishap>>

(* ... waits until the process is gone, ...                                *)
Gone(c) ==
  /\ at[c] = "stopping" /\ ~ Alive(seen[c])
  /\ Go(c, "unlink")
  /\ UNCHANGED <<pidFile, port, httpPort, seen, job, mishap>>

(* Mutant of Kill: after five seconds stop gives up. *)
KillNothing(c) ==
  /\ at[c] = "stopping" /\ Alive(seen[c])
  /\ Go(c, "unlink")
  /\ UNCHANGED <<pidFile, port, httpPort, seen, job, mishap>>

(* Mutant of Kill: only a daemon that has begun to close is killed. *)
KillClosing(c) ==
  /\ at[c] = "stopping" /\ at[seen[c]] = "closing"
  /\ at' = [at EXCEPT ![c] = "unlink", ![seen[c]] = "dead"]
  /\ Die(seen[c])
  /\ UNCHANGED <<pidFile, job, mishap>>

(* ... kills it after five seconds, ...                                    *)
Kill(c) ==
  /\ at[c] = "stopping" /\ Alive(seen[c])
  /\ at' = [at EXCEPT ![c] = "unlink", ![seen[c]] = "dead"]
  /\ Die(seen[c])
  /\ UNCHANGED <<pidFile, job, mishap>>

(* ... and removes the file.                                               *)
Unlink(c) ==
  /\ at[c] = "unlink"
  /\ pidFile' = None
  /\ Stopped(c)
  /\ UNCHANGED <<port, httpPort, mishap>>

CommandStep(c) ==
  \/ CheckStep(c) \/ Proceed(c) \/ Spawn(c) \/ Truncate(c) \/ Write(c)
  \/ Signal(c) \/ Terminate(c) \/ Gone(c) \/ Kill(c) \/ Unlink(c)

-----------------------------------------------------------------------------
(* A user's daemon start --foreground: no pid is written.                  *)
Foreground(d) ==
  /\ d \in Fresh /\ Room
  /\ Go(d, "read")
  /\ mishap' = TRUE
  /\ UNCHANGED <<pidFile, port, httpPort, seen, job>>

(* The foreground process finds a daemon running and exits.                *)
Yield(d) ==
  /\ at[d] = "yes"
  /\ Go(d, "dead")
  /\ Die(d)
  /\ UNCHANGED <<pidFile, job, mishap>>

(* DaemonServer.start: the WebSocket server only logs that it has no port. *)
Listen(d) ==
  /\ at[d] = "no"
  /\ port' = IF port = None THEN d ELSE port
  /\ mishap' = (mishap \/ port # None)
  /\ Go(d, "http")
  /\ UNCHANGED <<pidFile, httpPort, seen, job>>

(* The HTTP server has no handler of errors, and the process ends.         *)
ListenHttp(d) ==
  /\ at[d] = "http"
  /\ \/ /\ httpPort = None
        /\ httpPort' = d
        /\ Go(d, "serving")
        /\ UNCHANGED <<port, seen>>
     \/ /\ httpPort # None
        /\ Go(d, "dead")
        /\ Die(d)
  /\ UNCHANGED <<pidFile, job, mishap>>

(* close: both servers stop listening; open requests may hold up the exit. *)
Shutdown(d) ==
  /\ at[d] = "closing"
  /\ FreePorts(d)
  /\ Go(d, "draining")
  /\ UNCHANGED <<pidFile, seen, job, mishap>>

Exit(d) ==
  /\ at[d] = "draining"
  /\ Go(d, "dead")
  /\ Die(d)
  /\ UNCHANGED <<pidFile, job, mishap>>

Crash(d) ==
  /\ Alive(d)
  /\ Go(d, "dead")
  /\ Die(d)
  /\ mishap' = (mishap \/ ~ Quiet)
  /\ UNCHANGED <<pidFile, job>>

Next ==
  \/ \E c \in Command :
       \/ \E task \in {"start", "stop", "restart", "status"} : Begin(c, task)
       \/ CommandStep(c)
  \/ \E d \in Daemon :
       \/ Foreground(d) \/ CheckStep(d) \/ Yield(d) \/ Listen(d) \/ ListenHttp(d)
       \/ Shutdown(d) \/ Exit(d) \/ Crash(d)

Spec == Init /\ [][Next]_vars

(* A command's process runs; nothing is assumed of daemons.                *)
FairSpec == Spec /\ \A c \in Command : WF_vars(CommandStep(c))

-----------------------------------------------------------------------------
(* Processes that keep out of each other's way leave one daemon at most,   *)
(* with both ports, which the file names, so that it can be found and      *)
(* stopped.                                                                *)
KnownDaemon ==
  ~ mishap /\ Quiet =>
    \A d \in Daemon : Alive(d) => pidFile = d /\ port = d /\ httpPort = d

(* What a command that ends has told the user.                             *)
Told(c) ==
  CASE at[c] \in {"signal", "unlink"}                    -> "stopped"
    [] at[c] = "yes" /\ job[c].stage \in {"cli", "after"} -> "running"
    [] at[c] = "no" /\ job[c].stage = "cli"              -> "not running"
    [] OTHER                                             -> "failed"

(* A command that tells "stopped" has ended the process it found in the    *)
(* file, whatever others did.  If there was no mishap, no daemon is left   *)
(* then, the daemon is alive when a command tells "running", and nothing   *)
(* serves when it tells "not running".                                     *)
Tells(c) ==
  /\ Told(c) = "stopped" /\ at[c] = "unlink" => at'[seen[c]] = "dead"
  /\ ~ mishap' =>
       /\ Told(c) = "stopped" => \A d \in Daemon : at'[d] = "dead"
       /\ Told(c) = "running" => pidFile' # None /\ at'[pidFile'] # "dead"
       /\ Told(c) = "not running" => \A d \in Daemon : at'[d] # "serving"

ReportsTrue ==
  [][\A c \in Command : at[c] # "idle" /\ at'[c] = "idle" => Tells(c)]_vars

(* Every command ends, even if the daemon it stops hangs.                  *)
CommandsEnd == \A c \in Command : at[c] # "idle" ~> at[c] = "idle"

-----------------------------------------------------------------------------
(* The inductive invariant behind KnownDaemon and ReportsTrue.  Whatever   *)
(* others do, a command acts on a process it has read of, and removes the  *)
(* file only when that process is gone.                                    *)
PidInv ==
  /\ \A c \in Command :
       /\ at[c] \notin {"dead", "http", "serving", "closing", "draining"}
       /\ at[c] = "idle" <=> job[c].task = "none"
       /\ at[c] = "unlink" => ~ Alive(seen[c])
  /\ \A d \in Daemon :
       at[d] \in Check \union {"dead", "http", "serving", "closing", "draining"}
  /\ \A p \in Process :
       at[p] \in {"ping", "term", "stopping", "unlink"} => seen[p] \in Daemon

NoDaemon == \A d \in Daemon : ~ Alive(d)

(* A daemon that is alive, without a mishap: it is the only one, the file  *)
(* names it as soon as its parent has written it, and it has the ports     *)
(* that its progress says.                                                 *)
DaemonInv(d) ==
  /\ \A e \in Daemon : Alive(e) => e = d
  /\ at[d] # "clean"
  /\ at[d] = "ping" => seen[d] = d
  /\ pidFile = d \/ \E c \in Active : job[c].child = d
  /\ at[d] \in {"ping", "probe", "probing", "yes"} => pidFile = d
  /\ port = d <=> at[d] \in {"probing", "http", "serving", "closing"}
  /\ httpPort = d <=> at[d] \in {"serving", "closing"}
  /\ at[d] \in {"closing", "draining"} => \E c \in Active : at[c] = "stopping"

PortInv ==
  /\ port \in Daemon => Alive(port)
  /\ httpPort \in Daemon => Alive(httpPort)
  /\ \A c \in Command : port = c <=> at[c] = "probing"

(* A command that is under way, without a mishap.  It has begun when the   *)
(* daemons that are alive served, and knows what it has found, ...         *)
FindsInv(c) ==
  /\ job[c].child = None
  /\ at[c] \in {"read", "ping", "probe", "yes", "clean", "no",
                "signal", "term", "stopping", "unlink"}
  /\ at[c] \in {"read", "ping"} => \A d \in Daemon : at[d] \in {"dead", "serving"}
  /\ at[c] \in {"ping", "term", "stopping"} => seen[c] = pidFile
  /\ at[c] \in {"probe", "yes", "signal", "term"} =>
       pidFile # None /\ at[pidFile] = "serving"
  /\ at[c] = "stopping" => at[pidFile] \in {"closing", "draining", "dead"}
  /\ at[c] \in {"clean", "no", "unlink"} => NoDaemon
  /\ at[c] = "no" => pidFile = None

(* ... starts a daemon when there is none, ...                             *)
StartsInv(c) ==
  /\ pidFile = None
  /\ \/ at[c] \in {"read", "no"} /\ job[c].child = None /\ NoDaemon
     \/ /\ at[c] \in {"truncate", "write"}
        /\ job[c].child \in Daemon
        /\ \A d \in Daemon : Alive(d) => d = job[c].child

(* ... and looks for it then.                                              *)
LooksInv(c) ==
  /\ job[c].child = None
  /\ at[c] \in Check
  /\ at[c] = "ping" => seen[c] = pidFile
  /\ at[c] = "clean" => NoDaemon
  /\ at[c] = "yes" =>
       pidFile # None /\ at[pidFile] \in {"probing", "no", "http", "serving"}

CommandInv(c) ==
  /\ \A e \in Active : e = c
  /\ job[c].stage = "cli" => FindsInv(c)
  /\ job[c].stage = "start" => StartsInv(c)
  /\ job[c].stage = "after" => LooksInv(c)

SerialInv ==
  ~ mishap =>
    /\ PortInv
    /\ \A d \in Daemon : Alive(d) => DaemonInv(d)
    /\ \A c \in Active : CommandInv(c)

LifecycleInv == TypeOK /\ PidInv /\ SerialInv
=============================================================================
