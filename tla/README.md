# Clawverse in TLA+

A verification development for Clawverse, a daemon that connects to several
OpenClaw gateways ("nodes"), routes requests to them and answers queries about
their sessions. The specifications are written from the source under `src/`;
each definition names its lines in `PROJECT.json` ("map").

Contents: [system](#the-system) - [modules](#modules) - [runs](#runs) -
[bounds](#bounds) - [fairness](#fairness) - [proofs](#proofs) -
[what is not modelled](#what-is-not-modelled) - [plan](#plan).

## The system

Everything below runs in one JavaScript event loop per process. A callback runs
to its end before another starts, together with the promise continuations it
makes runnable; code after an `await` that waits for a network event, a timer or
a file is another callback. The interleavings that matter are those of callbacks.

| Component | Source | State | Operations | Hard parts | What makes it correct |
|---|---|---|---|---|---|
| Transports | `src/src/transport/{base,url,local,ssh}.ts` | socket, status, `pendingCalls`, tunnel process | connect, handshake, send, call, disconnect | events of old and new sockets, a 10 s timer that outlives its socket, tunnels | one connection per dial; status agrees with the socket; every call is settled once |
| Transport pool | `src/src/transport/pool.ts` | transports, reconnect attempts, timers | add, remove, connect, reconnect on "disconnected" | timers that outlive the node, counter reset at every attempt | a node is retried for ever, and no event makes two retries of one |
| Node registry | `src/src/daemon/node-registry.ts` | node states | register, unregister, connect, pool events, health checks, close | writes after an await against events | never reports a connection that is not there |
| Daemon server | `src/src/daemon/server.ts` | clients, and all of the above | HTTP and WebSocket requests, reload, start, close | handlers suspended at an await, two reloads at once | every request ends; counts balance; a reload ends in the configuration |
| Client | `src/src/daemon/client.ts` | pending calls | connect, call, close | its timeout and its own close against the daemon's handler | an answer is what the daemon did |
| Router and strategies | `src/src/routing/*.ts` | health, connection counts, round-robin index | route, testRoute, updates | state changed by requests in flight | a healthy target; the least loaded; rules in order |
| Context broker and cache | `src/src/context/*.ts` | cached answers in order | query, invalidate, prune | fills on their way at once | size bound, freshness, the right answer |
| Health monitor | `src/src/daemon/health-monitor.ts` | latencies, errors, metrics | record, summary | windows pruned at some events only, one fault heard of twice, metrics are copies | a healthy node is connected; an unhealthy one had its errors in one window |
| Configuration | `src/src/config/*.ts` | a JSON file | load, save, add, remove, validate | commands at the same time | no update is lost; accepted configurations are sound |
| Topology | `src/src/topology/manager.ts` | relations between nodes | ancestors, descendants, permissions | recursion over data | agrees with the relation it represents |
| Lifecycle | `src/src/daemon/lifecycle.ts`, `src/src/cli/commands/daemon.ts` | PID file, ports, processes | start, stop, restart, status | commands at the same time, stale PIDs, a probe that takes the port | one daemon, known by the file; stop stops it; what commands tell is true |
| Hub registry, hub topology | `src/packages/hub/src/**` | connections, heartbeats, calls, a tree | register, heartbeat, reconnect, call | late events of old sockets, calls that outlive their socket, recursion over data | status agrees with the connection; every call ends; the queries tell of one tree |
| Bridges | `src/bridges/**` | sessions per user, the token of Feishu | messages, commands, cleanup | a session read before an await and written after it, a token held over it | a conversation remembers whole turns in order; replies have a valid token; nothing of a reply is lost |
| Protocol, command line | `src/src/protocol/*.ts`, `src/src/cli/**` | none | constructors, prompts | - | - |

How they interact: the server owns registry, router, topology, health monitor and
broker. The registry owns the pool and hears its events; the server forwards every
state change of the registry to the router. Handlers ask the router for a node, the
registry for its transport, and await a call of it. The pool reacts to
"disconnected" events of its transports by scheduling a `connect`. Clients (the
command line, bridges) talk to the server by WebSocket or HTTP. The command line
writes the configuration file and asks the server to reload it.

The hazards, each at the line where it bites and with the properties that cover it,
are listed in `PROJECT.json`.

## Modules

| Module | Models | Built on |
|---|---|---|
| `NodeLink` | the abstract links of one node, one for each dial: dialing, up, closing, waiting | - |
| `NodeConnection` | transport, pool, registry state and router health of one node | implements `NodeLink` |
| `Dispatch` | requests from client to gateway and back, pending calls, connection counts | a link per node, with the stages of `NodeLink` |
| `ContextBroker` | context queries and their cache | - |
| `Config` | the configuration, its validation, the changes commands make to it | - |
| `ConfigStore` | the abstract store: each command one valid change | `Config` |
| `ConfigFile` | the configuration file and the processes that change it | `Config`, implements `ConfigStore` |
| `Topology` | `TopologyManager` and the cycle check, as functions | `Config` |
| `Reload` | start, `handleReload` and shutdown of the daemon beside the file | `ConfigFile` |
| `Routing` | the router: rules, default, fallback, strategies, dry runs | - |
| `NodeHealth` | the health monitor and its pings beside the connection of a node | `NodeConnection` |
| `HubRegistry` | the hub's registry of one node | - |
| `HubCalls` | `callNode` of the hub beside that registry | `HubRegistry` |
| `HubTopology` | the tree of the hub and its queries, as functions | - |
| `Conversation` | the abstract conversations: the last turns, whole, until forgotten | - |
| `Bridge` | session store, message handlers and token of the chat bridges | implements `Conversation` |
| `SplitMessage` | `splitMessage`, as a function | - |
| `Lifecycle` | commands and daemons as processes over the PID file and the ports | - |
| `MC*` | instances for TLC; `MCServices` puts `Bridge`, `Routing` and `ContextBroker` into one run | |
| `*_proofs` | theorems, one module per component; `Reload_proofs` has those on the file and on `Topology` too, `HubRegistry_proofs` those on the calls and the tree of the hub | the module, or its `MC*` where a run's property is defined there |

Some operators carry a comment that begins with "Mutant". Each is a fault - a
guard dropped, a reset forgotten - that a property is tried on: with the operator it
names replaced by it, TLC finds the property violated. No specification uses them.

### NodeConnection

One node is enough, for nodes share none of this state. A `Socket` is a handle for
one call of `transport.connect()`: the WebSocket, its handshake timer and the code
that awaits its promise; `wire`, `phase`, `armed`, `awaiter` and `owner` say where
each of these is. `ws`, `ssh` and `status` are the transport's fields, `pooled`,
`attempts` and `timers` the pool's, `regState` the registry's, `health` the router's.

`registry.connect` may be called twice for one registration: `connectAll` of the start
iterates over the live `Map` and awaits each node (`node-registry.ts:134`), while the servers
already listen, so that a reload can register a node, dial it (`server.ts:575-578`) and
leave it to `connectAll` as well. `due` is the number of dials a registration will get,
one up to `MaxDials`, and `dialed` those made. Nothing keeps the second from opening a
socket beside the first: it takes the field `ws`, both report to one status, and
`disconnect` later closes the second only. The properties say what holds all the same.

| Action | Code |
|---|---|
| `RegistryConnect`, `ReconnectTimer`, `Dial` | `NodeRegistry.connect`, the timer of `scheduleReconnect`, `TransportPool.connect` |
| `TunnelTimer`, `TunnelFail` | `SshTransport.connect`, `startTunnel`; a tunnel killed in its first second leaves its attempt `"stuck"` |
| `Open`, `Challenge`, `AuthOk`, `AuthFail` | the handshake in `setupWebSocket` and `handleConnectChallenge` |
| `Refused`, `ProtocolError`, `Close`, `Timeout` | the `error` and `close` handlers and the 10 s timer |
| `Unregister`, `Register`, `CloseRegistry` | `unregister`, `register`, `close` of the registry with `removeNode`, `addNode` and `disconnectAll` of the pool |
| `Stabilise` | the environment: from then on no faults |

Each action includes the rest of the chain that runs synchronously: event handlers
of the pool and the registry, the scheduled reconnect, the settled promise and the
catch that writes the registry's state. The events "error" and "close" of a socket
that never opened come in one step, as the `ws` library emits them, and the promise
rejected by the first is handled after the second.

`SteadySpec` keeps the node registered; `Spec` adds reloads and the shutdown.
Abstractions: a scheduled reconnect fires at any time (the delay of 5 s and more is
left out), the gateway's answers are nondeterministic, pending calls are the matter
of `Dispatch`. What the first of two tunnels of one transport does when the second
takes its field is kept (its timer finds the second). After `CloseRegistry` the process is about to exit; that a reconnect
within the second in which a killed tunnel was starting revives it is left out.

### NodeHealth

The monitor listens to the states the registry records, so `Hear` reads off each step of
the connection what those were: the error event of a socket, the rejection of an attempt
(which records the same error a second time), and the others. `RecordErrors` is
`recordError` with `pruneOldErrors`; `metrics` is the copy that `isHealthy` looks at. A
`Ping` records `lastSeen` and makes the monitor hear the node's state again, an old error
included. Ages of errors are counted up to the window, and of the errors those are kept
that decide. Latencies, uptime and `clear`, which nothing calls, are left out.

### Dispatch

A request is made once, by an agent bridge (`HandleAgent`), by a client's `send`
(`HandleSend`) or as a raw message (`HandleMessage`). `pend` is `pendingCalls` of
each transport, `work` what the gateway has received and not answered, `counts` and
`health` the router's maps, `outcome` how the daemon's handler ended and `client` what
its client saw; a client that waits may stop by its own 30 s timer (`ClientGivesUp`) or
because its own connection closes (`ClientCutOff`), of which the handler learns nothing. A handler runs to its await in one step (`Send` or `Refuse`). What
settles its call - `Reply`, `RpcTimer`, the close event `Lose` - runs the rest of it:
the decrement and the answer (`Decrement`, `Finish`). While a link is dialing its
socket may be open or not, so that a call may be sent before the handshake is done,
as the code allows. The router is configured with least-connections; a send names
its node. Time is `age` in ticks, and no timer that is due is overtaken.

### ContextBroker

The cache is a JavaScript `Map`: `at` maps keys to entries, `older` is their
insertion order. An entry keeps the ticks since it was cached and the delay before
that since the gateway read its data. `QueryMiss` deletes an expired entry and makes
a call, unless there is no connection (`QueryFails`); `Filled` runs when its response
comes, after fills of other clients. `answer` is the answer given by the latest step.
`Maintain` is `invalidateNode`, `clearCache` and `prune`.

A text is the sequence of its parts between colons, so that joining texts by colons is
concatenation: `"main:10"` is `<<"main", "10">>`, and a key tells as little of where one
parameter ends as the string in the code does. `KeyOf` leaves out an empty text and a limit
of 0, as `buildCacheKey` does; `CallOf` is the gateway call the query makes. Two queries with
different calls may so have one key, and one gets the answer of the other; `Unambiguous` says
that this is not so for a query. `MCQuery` has two queries with keys of their own and two
that share one.

### Config, ConfigStore, ConfigFile

Of the configuration `Config` keeps what refers to nodes: `nodes` and which of them
are `disabled`, `relations`, `targets` and `fallback` of the default routing, and
the targets of `rules`. Names, ports, URLs, strategies, match conditions and the
topology mode are checked one value at a time in the source and are left out, and so
is the multiplicity of equal rules. There is at most one relation per parent, as
`topology set` keeps it. `Accepts` is what a command checks of the configuration it
has loaded, `Apply` what it makes of it; `validateConfig` states acyclicity as a
property of the relation, and `Topology` compares the source's search with it.

In `ConfigFile` each command is a process. `Load` is `loadConfig` with the command's
checks; prompts of the user may separate it from `saveConfig`, which is `Invalid` or
`Open` followed by `Write`, for `writeFile` truncates the file when it opens it. A
second command may have written in between: then the later, shorter text leaves the
end of the longer one (`"garbage"`). `Kill` ends a process anywhere. A command whose
checks fail changes nothing and has no step. `mishap` is a history variable: commands
have overlapped, or one died while it wrote.

### Topology

The functions of `TopologyManager` over the sequence of relations, whose order decides
which parent `getParent` finds. `Dfs` is the search of `hasCircularDependency`, with
its shared `visited` and its `recursionStack`. `Below`, `Granted` and `Forest` are
written independently of them, from the relation: `Below` is the least set that has the
children of a node and of its members. The source's recursion and its loops are recursive
functions here. `DfsCall` is one call `dfs(node)` on a table of the calls one level deeper
and `VisitChildren` its loop with the early return; as a node on the stack is not called
again, no call nests deeper than there are nodes. TLC compares all of them with their
references on every configuration the commands of `ConfigFile` reach, and they are proved
equal for every configuration.

### Reload

`registered` is the set of nodes that registry and pool hold, `dialed` those whose
transport has been told to connect. `Start` runs to the first connect: both servers
listen and `registerAll` awaits nothing that takes time. `StartStep` is one round of
`connectAll` over the live `Map`. `Reload` runs to the first connect of a new node,
and `ReloadStep` goes on after each; a second handler may run between. An awaited
connect may end at any step: its outcome is ignored by reloads and modelled in
`NodeConnection`. When a reload unregisters a node behind a tunnel while another task
awaits its connect, that promise may never settle, and the task is `"lost"`. The
order of the list of nodes is left open. A reload that cannot read the file throws
before any change and has no step. `Exit` is `close` or a crash.

### Routing

`index` is the counter of the one `RoundRobinStrategy` the router keeps; it counts
without end in the source and modulo `Cycle` here, which makes no difference as long
as `Cycle` is a multiple of the number of healthy targets. `decision` is what the
latest step decided: by a rule, by the default (0), or by neither. `served` is a
history: whom each list has served in its current round. `Route` and `TestRoute` both
move the index; `UpdateConfig` is a reload and leaves it alone. A pattern is the set of
keys it matches. Three details of the code are kept: a rule's capability is looked for
in the nodes of the rule, not in the request; a rule without a strategy is round-robin;
the fallback is not tried when the default has no targets. A list may name a node twice.
Connection counts are in `Dispatch`, so that here least-connections chooses freely.

### HubRegistry

Nodes share only the flag `running`, so one is enough. A socket's callbacks name the
node and not the socket: `Close`, `Error`, `Open` and `RecordHeartbeat` of a replaced
socket act on the entry of the new one. `silent` counts intervals of the heartbeat
since `lastHeartbeat`, and `quiet`, a history, since the socket opened if that is
later. `RegisterNode` is `registerNode` with the `unregisterNode` and `connectToNode`
it calls. `Initialize` is `initialize` with a configuration that has the node,
`InitializeOthers` with one that has not: it sets `running` and does nothing else, so that
a node left registered by `stop` stays offline, without a connection or an attempt, while
the registry runs. `tended`, a history, is that the node was registered while the registry
ran, and neither unregistered nor stopped since; `KeepsTrying` holds of such a node.
Registered twice, a node can be reported offline while it is connected and
keep a connection nobody knows; the properties bound this and are exact for a node
registered once. `sendToNode` does not change the registry.

### HubCalls, HubTopology

A call listens to the socket it was sent on (`sentOn`, until that has closed) and to its
own timer, and to nothing else. An answer is heard by the registry's own handler too,
which may take it for that to a heartbeat. Time is the interval of the heartbeat.

`HubTopology` has the operators of the hub's `TopologyManager` under their names, on the
map `buildTopology` makes of a configuration. The lists of children are sets of pairs, with
those that a list repeats in `twice`: `buildTopology` takes a repeated child for one with
several parents. `calculateDepth` runs before the check for
cycles and does not end on one; here such a node gets a depth no acyclic one has. The
references (`Above`, `AcceptsForests`, `QueriesAgree`) are written from the relation alone.
A tree may name nodes that do not exist; of those the queries promise nothing.
`TopologyExact` compares functions, not states: it is a constant formula, asserted of a hub
that runs because the hub's nodes are what its tree is built over.

### Bridge, Conversation, SplitMessage

Every webhook call is a message with a handler of its own: `Receive` runs to the first
wait, which is that for the token of Feishu or that for the daemon; `TokenArrives` goes on
to the second (`Proceed`), `Answered` and `AskFails` to the sending of the reply,
`Replied` to the end. A command is obeyed where it is found, without a wait for the daemon,
and so overtakes questions. The functions of `SessionStore` keep their names. `cached` is
the token of Feishu with its true age, which the bridge does not know: it counts from the
arrival of the response (`delay` is what it has waited by then). Policies have let the
messages pass; the two bridges are two processes in the source, and share nothing here.

`Conversation` knows no sessions, waits or tokens: a turn is added whole or not at all,
the last `MaxTurns` are kept, and only a command or the expiry takes any away. A history
of the store stands for the turns it consists of (`TurnsOf`), and one that is torn would
stand for none. An answer that comes after `/new` starts the new conversation's history;
the abstract specification allows it, for nothing in the repository says otherwise.

`SplitMessage` works on four kinds of characters, all that the code tells apart. `SplitSound`
and `PiecesFit` apply its properties to all replies of up to seven characters; they are
constant formulas, as `splitMessage` keeps no state. A cut at the end of a sentence is looked
up by the sentence's last characters, which may be found once more exactly at `maxLength`:
the piece is then one character too long (`PiecesFit` is violated, a finding).
`SplitsNearlyFit` says that this is the only case, and is proved.

### Lifecycle

Each command and each daemon is a process. `isDaemonRunning` is four steps: `Read`
the PID file, `Ping` the process, `Clean` a stale file, `Probe` the port by binding
it; while it is bound (`"probing"`, until `Release`) others take it for a daemon.
`Spawn`, `Truncate` and `Write` are `startDaemon`, `Signal` to `Unlink` `stopDaemon`;
`restart` of the command line is a stop and a start. A daemon checks for another one
(`"read"`), listens (`Listen`, `ListenHttp`) and serves, until `Shutdown` and `Exit`
or a `Crash`. A WebSocket server that gets no port only logs it, and the daemon goes on
without; an HTTP server that gets none ends the process. Delays (500 ms of polling,
five seconds before SIGKILL, one second after a spawn) may end at any time. Pids are
handles that are used again once nothing remembers them. `mishap` is a history:
commands overlapped, a daemon crashed while one ran, one was run in the foreground,
or a daemon found its port taken. With mishaps two starts can leave a daemon that
serves and that the file does not name. Commands are not killed: one that dies between its
spawn and the PID file leaves such a daemon too.

## Runs

| Run | Question | Shows |
|---|---|---|
| `steady` | does a url node stay connected? | a link per dial, never more (`OneLinkPerDial`), never none without a scheduled reconnect (`KeepsTrying`); no connection is reported that is not there, and for a node dialed once the report is exact (`StatusTruthful`, `RegistryNeverOptimistic`); connected again once faults stop (`Reconnects`); implements `NodeLink` (`LinkSpec`); and its health is judged with reason (`VerdictFounded`) |
| `lifecycle` | what do late events do after a node was removed and added again? | leaks are bounded (`LeakBound`), "connected" is backed by a socket (`ConnectedIsBacked`), removed transports open nothing (`RemovedStaysQuiet`) |
| `dispatch` | is every request settled once and accounted for? | `CountsExact`, `PendingIsInFlight`, `Balanced`, `EveryRequestEnds`; an answer is what the handler did, and no client waits after its end (`ClientAgrees`) |
| `config` | what do concurrent commands leave in the file? | what can be read is valid (`FileSound`), a node can always be removed (`RemovalsSucceed`), one command after the other is the abstract store (`SerialImplementsStore`); `CycleCheckExact` and `PermissionsGranted` for every reachable configuration and order of relations |
| `reload` | do registry and configuration agree? | a reload that runs alone repairs everything overlapping ones left (`Converged`), no node is registered and forgotten (`EveryNodeDialed`) |
| `hub` | what do late events of replaced sockets do to the hub's entry? | at most one connection or reconnect per registration (`LeakBound`), a tended node never given up (`KeepsTrying`), online is backed by a socket (`OnlineIsBacked`), exact for a node registered once (`OneRegistration`); every call ends (`CallsEnd`), and none is refused beside an open socket (`RefusedWhenDown`); the tree is accepted and told of as the relation says (`TopologyExact`) |
| `services` | what do overlapping messages leave in a conversation, where do requests go, whose answers does the cache give? | `Bridge`: whole turns in the order of their answers (`ConversationSpec`), valid tokens (`TokenValid`), replies cut without loss (`SplitSound`). `Routing`: the first rule that matches and has a healthy target, else the default, else the fallback (`DecisionSound`); a round-robin list that is alone serves its healthy targets in turn, wherever the index stands (`RotatesAlone`). `ContextBroker`: the size bound (`SizeBounded`), the age of answers (`AnswerFresh`), and the own answer for every query whose key is its own (`AnswersOwnCall`) |
| `processes` | do start, stop and restart leave one daemon that can be found? | without mishaps one daemon at most, with both ports, named by the file (`KnownDaemon`); what commands tell the user is true, and a stop has ended what it found whatever others do (`ReportsTrue`); every command ends although the daemon hangs (`CommandsEnd`) |

`services` puts three modules into one run. They share no state and no calls, so the states
worth checking are those of each while the others rest at their start (the disjoint sum and
not the product): every state and every step of each is there, and each property is of one
of them. Messages are alike and so are clients, and the symmetry set exchanges either where
the other rests.

Four runs end in a violation of what the code or its documentation says:

- `registry_status`: the first attempt of a node closes early, the pool reconnects,
  and the old attempt's 10 s timer rejects a promise whose catch sets the registry to
  "error" and the router to unhealthy although the node is connected.
- `ssh_reconnect`: a tunnel that does not start rejects `connect` without an event;
  no reconnect is scheduled, and the node stays down.
- `cache_keys`: the history of a session with `--limit 0` and the one with a limit that is no
  number share a key, since 0 is left out of it and NaN arrives as absent: asked one after the
  other, the second is answered with the data of the first (`broker.ts:216`). The session
  `main:10` and the session `main` with limit 10 collide likewise (`:220`).
- `split_length`: a reply that has a full stop at `maxLength` as well as before it is cut
  behind the later one, one character over the limit of the platform (`utils.ts:26`).

What overlapping commands lose, and what overlapping reloads and starts leave, are not
findings, for nothing promises otherwise; the properties say under which condition they
do not. Nor is a property checked of behaviours that the models show plainly: `call`
gives up after its 30 s whatever timeout a delegate names; a second fill of one key
leaves it at its old place in the order of eviction; all rules and the default share one
round-robin index, so that requests that alternate between two lists reach the same target
of each every time; a node stays unhealthy after its errors have left the window, until
there is another; `/list` stands in the help of the bridges and is an unknown command.

No run checks a type invariant that is proved for every instance.

## Bounds

- `steady`: two sockets, one transport and up to two dials. A reconnect may start while the
  timer of the attempt before still runs, and two dials have two sockets at once; a handle
  is free again after its timer, so attempts go on without end. With three sockets, and
  smaller bounds of the monitor, the properties hold as well (697 thousand states); that
  instance is too large for the liveness check and is not kept as a run. `lifecycle`: two sockets and three
  transports, the node is removed and added twice, each time dialed once or twice.
  `MaxReconnectAttempts` is 2 where the default is 10: the attempt counter is to stay below
  it, and it does. `registry_status` and `ssh_reconnect` need one dial.
- `dispatch`: two requests of any kind to two nodes: two on one node and one on each;
  `RpcTimeout` is one tick and the client's the same, the smallest with a before and an
  after.
- `config`: three nodes and two commands with twelve operations that make a chain, a
  diamond-shaped pair of relations, a cycle through all nodes and every way to refer
  to a node.
- `reload`: three nodes, one behind a tunnel, two reloads beside start, one command at
  a time: a reload can be suspended with another node still to come while a second one
  adds or removes either.
- `hub`: three sockets and three registrations, so that a socket replaced twice still
  reports; `HeartbeatTimeout` is 2 intervals where the default is 3, for silence below
  the limit, at it and over it. One call, for calls share nothing, with a timer of one
  interval. The topologies are all sets of at most four pairs over four names, with one of
  the names missing from the nodes or none, and lists of one or two pairs that repeat some.
- `steady` has `Unhealthy` as in the code and a window of one unit: errors within it, at
  its end and beyond.
- `services`, `Bridge`: a conversation of each bridge and three messages, so that two are on
  their way while a third is obeyed; one turn remembered, so that every second answer drops
  one; `Life` 3 and `Margin` 1, for a token in use, in its margin and expired. Replies of up to
  seven characters in pieces of three and four: two and three pieces, each rule for a cut
  (also in `split_length`).
  `Routing`: three nodes and four configurations: a list of three, two
  round-robin lists, rules of equal and of different priority with each condition and
  each other strategy, a default without targets. `Cycle` is 6, a multiple of all lengths.
  `ContextBroker`: two clients, four queries under three keys, one of them a profile, room for
  two: two fills of one key, and of two keys into a full cache, cross. `Ttl` and
  `CallTimeout` 2, for an entry fresh, at its limit and over it. `cache_keys` adds two
  queries of the command line.
- `processes`: two commands, repeated without end, and two handles of daemons. `Room`
  lets a command that may spawn begin only while a handle is left for it: two
  starts can overlap while no daemon is alive, and a start or restart with any stop while
  one is; two restarts of a daemon that serves need a third
  handle. With three, and symmetry, the three safety properties hold as well (1.7 million
  states); that instance is too large for `CommandsEnd` and is not kept as a run.

Where deadlock is not checked the system may rest: connected, all requests answered,
or with a file no command can read.

## Fairness

`steady` needs it for `Reconnects`: timers fire (`ReconnectTimer`, `Timeout` - the
event loop runs timers that are due), the `ws` library completes a close it has begun
and opens or refuses a connection, the gateway answers the handshake on an open
socket, and the environment at some time makes no more faults (`Stabilise`). The
property is of what happens after that; there is no fairness for faults before it.
`dispatch` needs time to pass and the two timers to fire, and nothing of gateways
and networks: `EveryRequestEnds` holds although they never answer. `processes` needs that
the process of a command that can go on does (the operating system schedules it, its
timers fire) and nothing of daemons, which may hang or never come up. `hub` needs that the
clock goes on (`Passes`) and that timers which are due fire (`CallTimer`), and nothing of
sockets, for `CallsEnd`. The other runs check
safety and refinement and assume none.

## Proofs

Theorems hold for every value of the constants under the named assumptions of the
modules: `ConnectionAssumption`, `DispatchAssumption`, `BrokerAssumption`,
`ConfigAssumption`, `OperationAssumption` (commands are of the listed kinds),
`ReloadAssumption`, `HubAssumption`, `CallAssumption`, `BridgeAssumption`, `HealthAssumption`,
`LifecycleAssumption`, `RoutingAssumption` (configurations pass the schema) and
`TopologyAssumption`. TLC evaluates them in the runs.

- `NodeConnection_proofs`. `SteadyInv` is `TypeOK`, `CountInv` (how many links there are),
  `LinkInv` (where they are: which transport owns a live socket, what its phase may be, and
  for a node dialed once that `ws` points to it)
  and `ReportInv` (what is reported of them). `OneLinkPerDial` is a count: every step moves a
  socket to a timer or a timer to a socket, and only a dial adds one. From `SteadyInv` follow
  `LinksAreBounded`, `NeverGivesUp`, `TruthfulReports` and
  `RegistryIsNotOptimistic`, and `ImplementsNodeLink`: each step maps to a step of `NodeLink` or
  leaves it. That is for url and local nodes, and for a limit of attempts not below the dials
  (10 and 2 in the code): as many "disconnected" events may come before the next attempt
  resets the counter. `TypeCorrect`, `ConnectedHasASocket` and
  `RemovedOpensNothing` hold with reloads and shutdown, by `ReloadInv`.
  `LeaksAreBounded` has an invariant of its own, `LeakInv`: to the live sockets and the
  timers it adds what the present registration may still make (`Due`: the dials to come
  and one for the timer that its removal leaves), so that each
  event pays for what it starts. `VerdictsFounded` adds to `SteadyInv` that all errors kept
  lie within one window of the newest (`ErrorsOK`) and that the metrics are theirs
  (`MetricsOK`); where the monitor hears nothing, a connected transport stays connected.
- `Dispatch_proofs`. `DispatchInv` is `TypeOK`, `PendingIsInFlight` and `CountsExact`:
  the count is exact because the handlers in flight are exactly the pending calls, so
  that each path that settles a call ends one handler. `AgentsAreBalanced` and
  `ClientsAgree` rest on it.
- `ContextBroker_proofs`. `BrokerInv` says of the cache that its keys are finite and
  totally ordered by age of insertion, within the size, each entry under the key of
  its call, and of the fetches how old what they have read can be. That there is a
  first key to evict uses the well-foundedness of strict subsets. `AnswersAreOwn` assumes nothing
  of the queries: under each key lies the answer to some query with that key, so that an
  unambiguous one gets its own. `PlainAnswersAreOwn` says which queries get what they ask for
  whatever others there are of their kind: those of the commands whose node and session have no
  colon and whose limit is a number other than 0 (`Plain`).
- `Reload_proofs`, the file. `RemoveKeepsValid`: `removeNode` keeps every valid configuration
  valid; acyclicity because a set of nodes on a cycle afterwards was one before.
  `FileInv` adds to the three invariants that a writing command holds a valid
  configuration, and that without a mishap one command is under way whose loaded
  configuration is still the file's; `SerialStore` is the refinement.
- `Reload_proofs`, the topology. `CycleSearchIsExact`: of every configuration
  `hasCircularDependency` says what the relation is, a cycle or none. The invariant of the
  search (`Right`, for each call and each round of its loop) is that of the visited nodes
  those off the stack are settled: their children are visited, off the stack and on no
  cycle. A call that finds nothing adds settled nodes and leaves the stack as it was; one that
  finds a child on the stack has the path from it. The induction is over the nesting, which
  the nodes not yet on the stack bound. `PermissionsAreExact`: for every order of the
  relations of a valid configuration `checkPermission` grants what the relation does
  (`Granted`). On an acyclic relation with one parent per node all chains end within as many
  steps as there are nodes (`PathsEnd`: the sets that chains of each length reach shrink
  strictly), so that the queue of `getDescendants` ends closed under children and the chain of
  `getAncestors` reaches every node above. `CycleCheckIsExact` and `PermissionsFollowRelations`
  carry both over to what the commands leave in the file, by `FileSound`.
- `Reload_proofs`, the daemon. `Inv` is `FileInv`, `TypeOK`, `EveryNodeDialed`, that a daemon that
  is off holds nothing, and `OnItsOwn`: while one reload runs that found no other, the
  registry and what is left of its list make up the configuration. That it cannot
  throw at a node registered by another is part of it.

- `HubRegistry_proofs`. `HubInv` is `TypeOK`, `KeepsTrying`, `OnlineIsBacked`, that
  `quiet` is at most `silent`, and `SingleInv`: what `OneRegistration` needs to be
  inductive, namely that a timer waits only while no socket is live and that an open
  socket has its heartbeats. `LeaksAreBounded` is an invariant of its own, by lemmas on
  the number of live sockets after one opens or closes. `KeepsTrying` needs that a tended node
  is registered and the registry runs (`TendedInv`). `CallsKeepRegistry` carries all of
  them over to the registry with its calls, which never change it; `RefusalsAreTrue` needs
  `SingleInv`, that the entry of a node registered once is its open socket.
  Of the tree, for every configuration: `ForestsAreAccepted` - a list that repeats a child is
  refused, below a circle depths grow
  without end, and without one the chain of parents of a node too deep would repeat a name
  (a pigeonhole), which is a circle - and `QueriesTellOneTree`, where the depth is the rank
  that the chains up and the queue down descend by. `RunningTopologyIsExact` is the property
  of the run.
- `Bridge_proofs`. `BridgeInv` is `TypeOK`, `HistoryInv` (each history is the turns it stands
  for, which makes cutting off old entries cutting off old turns, since the limit is even),
  `HandlerInv` (no effect before the answer) and `TokenInv` (the age of a token, what it has
  left and the margin are at most its life and the delay it came with; a handler's delay
  goes on while it waits). Lemmas say what each function of the store does to the turns; the
  refinement takes one abstract step for each. `SplitsAreSound` is about `splitMessage` alone, for
  every reply and every length of a piece: a cut lies within the reply, at `maxLength` or before
  it or in the blanks behind the mark of a sentence that does (`SplitCuts`), so that trimming
  takes no printed character, and the rest is shorter and begins
  with a printed character (`OneCut`); the rest is by induction on the length. `PiecesNearlyFit`: a piece is longer than `maxLength`
  by one character at most, and only if it ends with a mark.
  `RepliesAreSplitWell` instantiates it for the run.
- `Routing_proofs`. `DecisionsAreSound` needs no invariant but the types: the rule that decides
  precedes, by priority and then by place, all others that match and have a healthy target
  (`DecideCases`). `Rotates` has `Turn`: what a list that is alone has served in its
  round are the healthy members from the one its round began at up to the one the index points
  at, on a ring (`Arc`). The round is over exactly when the arc closes. It assumes
  `NoRepeats`: a list that names a node twice serves it twice in a round.
- `Lifecycle_proofs`. `LifecycleInv` is `TypeOK`, `PidInv` (what a process knows whatever
  others do: a command removes the file only when the process it has read of is gone) and,
  for a history without mishap, `SerialInv`: one command at most is under way, at a stage
  that says what it has found (`FindsInv`), that it starts a daemon where there is none
  (`StartsInv`), or what it may see of the child (`LooksInv`); and the one daemon that may be
  alive has the ports and the file that its own progress says (`DaemonInv`). The child's
  own check runs beside the command's, so that each may see the other's probe as a server: a
  child may be lost by that, but the command does not tell "running" then; and the child
  never meets a stale pid, whose file it would remove.
  `DaemonIsKnown` and `ReportsAreTrue` follow.

Only model-checked: the liveness properties (`Reconnects`, `EveryRequestEnds`,
`CommandsEnd`, `CallsEnd`), for the prover has no rule for fairness, and the four violations.
Everything else a passing run checks is a theorem.

Recursive functions and loops over data are within reach in this form: induction over a
set of numbers (`NatInduct`: a set that has 0 and with each number the next has them all,
by the well-foundedness of `<`), the existence of a function by a table of its
approximations (`RecursionExists`, `IterationExists`), and induction over its rows. So no
module declares a `RECURSIVE` operator and no `CASE` has two guards that hold at once, since
its value is then any of theirs.

## What is not modelled

- Delays: back-off, health check interval. A timer that is set may fire at any time,
  except where a property is about time.
- Data that no property tells apart: names, ports, messages, gateway versions, hit
  counters, latencies, logging, prompts, terminal output.
- Pids that other programs take, ports that other programs use, processes of ssh that
  outlive their tunnel, TLS, JSON and the wire format.
- Checks of one value that no other state depends on: the policies and the account
  resolution of the bridges, URLs and ports of the configuration.
- The constructors and type guards of the protocol (`messages.ts`, `delegate.ts`,
  `control.ts`): they keep no state, and what they make are the requests of `Dispatch` and
  the queries of `ContextBroker`.
- What nothing calls: `restartDaemon`, `resetStrategies`, `recordLatency`, `clearErrors` and
  `clear` of the health monitor. The tree for display (`toTree`) of both topologies.
- The standalone entry points of the bridges and the HTTP calls to their platforms, whose
  failure is modelled; that a platform delivers a webhook twice, which is two messages
  here; the WeCom channel, a stub in the source.

## Plan

1. Composition: `Reload` with `Dispatch` (requests to nodes that a reload removes) and
   with `ContextBroker` (answers for removed nodes), in place of the run `reload`, and the
   invariants of `Inv` carried over to it as `CallsKeepRegistry` does for the hub.
2. Proofs: bounds in place of instances where a theorem assumes more than the code does:
   `ImplementsNodeLink` for nodes behind a tunnel until a tunnel fails.
