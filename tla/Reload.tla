------------------------------- MODULE Reload -------------------------------
(***************************************************************************)
(* The daemon's set of nodes against the configuration file: start and     *)
(* handleReload of DaemonServer, registerAll and connectAll of the node    *)
(* registry.  Both connect nodes one after the other and are suspended at  *)
(* each; meanwhile other reloads run and commands write the file.          *)
(*                                                                         *)
(* A connect ends by itself - its outcome is the matter of NodeConnection, *)
(* reloads ignore it - except that the promise of an ssh node whose tunnel *)
(* is killed while it comes up is never settled.                           *)
(***************************************************************************)
EXTENDS ConfigFile

CONSTANTS
  Handler,   \* reload requests that the daemon handles
  Ssh        \* the nodes behind an ssh tunnel

ASSUME ReloadAssumption == Ssh \subseteq Node

VARIABLES
  config,      \* DaemonServer.config
  registered,  \* the keys of NodeRegistry.nodes, its states and the pool
  dialed,      \* the nodes whose transport has been told to connect
  handler,     \* per reload: [pc, at, todo]
  starter,     \* start: [pc, at, seen]
  overlap      \* did the latest reload begin while another was running

daemonVars == <<config, registered, dialed, handler, starter, overlap>>
vars == <<fileVars, daemonVars>>

(* A "lost" task awaits a promise that is never settled.  "at" is the node *)
(* awaited, None once it is gone; "todo" is what is left of the list of    *)
(* new nodes, in the order of the file, which is left open.                *)
NoReload == [pc |-> Idle, at |-> None, todo |-> {}]
Off      == [pc |-> "off", at |-> None, seen |-> {}]

TypeOK ==
  /\ FileTypeOK
  /\ config \in ClawverseConfig
  /\ registered \subseteq Node
  /\ dialed \subseteq registered
  /\ handler \in [Handler -> [pc : {Idle, "awaiting", "lost"}, at : Node \union {None},
                              todo : SUBSET Node]]
  /\ starter \in [pc : {"off", "awaiting", "lost", "done"}, at : Node \union {None},
                  seen : SUBSET Node]
  /\ overlap \in BOOLEAN

DaemonInit ==
  /\ config = DEFAULT_CONFIG
  /\ registered = {}
  /\ dialed = {}
  /\ handler = [h \in Handler |-> NoReload]
  /\ starter = Off
  /\ overlap = FALSE

Init == FileInit /\ DaemonInit

(* connectAll goes on to the next key of the registry's map.  The iterator *)
(* of a Map is live: it comes to nodes that were registered in between.    *)
ConnectNext(seen, nodes, dialedNow) ==
  \/ /\ nodes \subseteq seen
     /\ starter' = [pc |-> "done", at |-> None, seen |-> {}]
     /\ dialed' = dialedNow
  \/ \E n \in nodes \ seen :
       /\ starter' = [pc |-> "awaiting", at |-> n, seen |-> seen \union {n}]
       /\ dialed' = dialedNow \union {n}

(* The constructor and start, up to the first connect.  Both servers listen *)
(* before any request arrives, and nothing is awaited before registerAll.   *)
Start ==
  /\ starter.pc = "off"
  /\ Readable
  /\ config' = file.config
  /\ registered' = Enabled(file.config)
  /\ ConnectNext({}, Enabled(file.config), {})
  /\ UNCHANGED <<handler, overlap>>

StartStep ==
  /\ starter.pc = "awaiting"
  /\ ConnectNext(starter.seen, registered, dialed)
  /\ UNCHANGED <<config, registered, handler, overlap>>

(* Unregistering a node disconnects it, and a connect of it that is awaited *)
(* fails or, for an ssh node, may be stuck for ever.                        *)
Interrupts(removed, task) == task.pc = "awaiting" /\ task.at \in removed

PcAfter(stuck) == IF stuck THEN "lost" ELSE "awaiting"

(* Mutant of Removed: nodes that are gone from the configuration stay. *)
NoneRemoved(c) == {}

Removed(c) == registered \ c.nodes

Added(c) == Enabled(c) \ registered

(* handleReload up to its first connect.  If the file cannot be read it    *)
(* throws before it changes anything.                                      *)
Reload(h) ==
  LET removed == Removed(file.config)
      added   == Added(file.config)
      kept    == registered \ removed
  IN
  /\ starter.pc # "off"
  /\ handler[h].pc = Idle
  /\ Readable
  /\ config' = file.config
  /\ overlap' = (\E g \in Handler : handler[g].pc = "awaiting")
  /\ \E stuck \in BOOLEAN :
       /\ stuck => starter.at \in Ssh
       /\ starter' = IF Interrupts(removed, starter)
                     THEN [pc |-> PcAfter(stuck), at |-> None, seen |-> starter.seen \ removed]
                     ELSE [pc |-> starter.pc, at |-> starter.at, seen |-> starter.seen \ removed]
  /\ \E stuck \in SUBSET {g \in Handler : handler[g].at \in Ssh} :
       LET After(g) == IF Interrupts(removed, handler[g])
                       THEN [pc |-> PcAfter(g \in stuck), at |-> None, todo |-> handler[g].todo]
                       ELSE handler[g]
       IN
       \/ /\ added = {}
          /\ registered' = kept
          /\ dialed' = dialed \ removed
          /\ handler' = [g \in Handler |-> After(g)]
       \/ \E n \in added :
            /\ registered' = kept \union {n}
            /\ dialed' = (dialed \ removed) \union {n}
            /\ handler' = [g \in Handler |->
                            IF g = h THEN [pc |-> "awaiting", at |-> n, todo |-> added \ {n}]
                                     ELSE After(g)]

(* Mutant of ReloadStep: the next node is registered and not connected. *)
ReloadStepUndialed(h) ==
  /\ handler[h].pc = "awaiting"
  /\ \/ /\ handler[h].todo \subseteq registered
        /\ handler' = [handler EXCEPT ![h] = NoReload]
        /\ UNCHANGED registered
     \/ \E n \in handler[h].todo \ registered :
          /\ handler' = [handler EXCEPT ![h] = [pc |-> "awaiting", at |-> n,
                                                todo |-> handler[h].todo \ {n}]]
          /\ registered' = registered \union {n}
  /\ UNCHANGED <<config, dialed, starter, overlap>>

(* The awaited connect has ended, well or not, and the reload goes on: it  *)
(* has handled its list, or throws because another reload has registered   *)
(* the next node, or registers and connects that node.                     *)
ReloadStep(h) ==
  /\ handler[h].pc = "awaiting"
  /\ \/ /\ handler[h].todo = {} \/ handler[h].todo \intersect registered # {}
        /\ handler' = [handler EXCEPT ![h] = NoReload]
        /\ UNCHANGED <<registered, dialed>>
     \/ \E n \in handler[h].todo \ registered :
          /\ handler' = [handler EXCEPT ![h] = [pc |-> "awaiting", at |-> n,
                                                todo |-> handler[h].todo \ {n}]]
          /\ registered' = registered \union {n}
          /\ dialed' = dialed \union {n}
  /\ UNCHANGED <<config, starter, overlap>>

(* The daemon is stopped, or dies. *)
Exit ==
  /\ starter.pc # "off"
  /\ config' = DEFAULT_CONFIG
  /\ registered' = {}
  /\ dialed' = {}
  /\ handler' = [h \in Handler |-> NoReload]
  /\ starter' = Off
  /\ overlap' = FALSE

DaemonNext ==
  \/ Start \/ StartStep \/ Exit
  \/ \E h \in Handler : Reload(h) \/ ReloadStep(h)

Next ==
  \/ FileNext /\ UNCHANGED daemonVars
  \/ DaemonNext /\ UNCHANGED fileVars

Spec == Init /\ [][Next]_vars

-----------------------------------------------------------------------------
(* When no reload is running and the latest one ran alone, the nodes of    *)
(* the registry are those of the configuration it read, short of disabled  *)
(* ones that were registered before.  A reload that runs alone so repairs  *)
(* whatever reloads that overlapped have left.                             *)
Converged ==
  starter.pc # "off" /\ ~ overlap /\ (\A h \in Handler : handler[h].pc # "awaiting") =>
    Enabled(config) \subseteq registered /\ registered \subseteq config.nodes

(* No node is registered and left alone: each has been told to connect,    *)
(* from where the pool keeps it connected, or is one that start has still  *)
(* to come to, however registrations and start interleave.                 *)
EveryNodeDialed ==
  registered \ dialed \subseteq
    IF starter.pc \in {"awaiting", "lost"} THEN Node \ starter.seen ELSE {}
=============================================================================
