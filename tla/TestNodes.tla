----------------------------- MODULE TestNodes -----------------------------
(***************************************************************************)
(* The containers of one end-to-end test (tests-e2e/src): WakuNode's life  *)
(* cycle over DockerManager, the registry DS.waku_nodes, the postgres      *)
(* fixture, and the teardown that stops what the test started.  Nodes are  *)
(* started one after the other or, in the fleet tests, by a thread pool;   *)
(* containers fail and exit at any time.  An action is one call to Docker  *)
(* or to a node's REST API with the code up to the next one.               *)
(***************************************************************************)
EXTENDS Naturals, Sequences, FiniteSets

CONSTANTS
    Nodes,         \* the WakuNode objects, in the order the set-up starts them
    MaxAttempts,   \* bound on the attempts tenacity makes within its 60 s
    MaxOps         \* bound on stop, restart, pause and unpause in a test body

ASSUME TestNodesAssumption ==
    /\ Nodes \in Seq(STRING) /\ MaxAttempts \in Nat \ {0} /\ MaxOps \in Nat

VARIABLES
    parallel,    \* started by start_fleet_nodes's thread pool
    network,     \* the docker network exists
    docker,      \* the state of every container, named <<node, attempt>>
    postgres,    \* the state of the postgres container
    at,          \* per node: where its start() is
    attempt,     \* per node: the attempts made so far
    handle,      \* per node: the attempt self._container belongs to, 0: None
    info,        \* per node: the attempt info_response came from, 0: none
    waku_nodes,  \* DS.waku_nodes
    phase,       \* the test: "setup", "body", "teardown" or "over"
    ops,         \* operations made by the test body
    stopping,    \* the entry of DS.waku_nodes the teardown is at
    refused      \* history: containers Docker would not stop or remove

nodeVars == <<parallel, network, docker, postgres, at, attempt, handle, info,
              waku_nodes, phase, ops, stopping, refused>>

NodeSet == {Nodes[i] : i \in DOMAIN Nodes}

Containers == NodeSet \X (1 .. MaxAttempts)

Live == {"running", "paused"}

Starting == {"prepare", "network", "create", "connect", "start", "health", "info"}

NodesInit ==
    /\ parallel \in BOOLEAN
    /\ network \in BOOLEAN
    /\ docker = [c \in Containers |-> "absent"]
    /\ postgres \in {"unused", "wanted"}
    /\ at = [n \in NodeSet |-> "new"]
    /\ attempt = [n \in NodeSet |-> 0]
    /\ handle = [n \in NodeSet |-> 0]
    /\ info = [n \in NodeSet |-> 0]
    /\ waku_nodes = << >>
    /\ phase = "setup" /\ ops = 0 /\ stopping = 1 /\ refused = {}

\* The attempt of n ended with an exception: tenacity tries again while its
\* time lasts and reraises after it.
Retry(n) ==
    \/ attempt[n] < MaxAttempts /\ at' = [at EXCEPT ![n] = "prepare"]
    \/ at' = [at EXCEPT ![n] = "failed"]

\* The set-up gets to n.start(): in its turn once the nodes before it are up,
\* or in a thread of the pool.
BeginStart(n) ==
    /\ phase = "setup" /\ at[n] = "new" /\ postgres \in {"unused", "running"}
    /\ parallel \/ \E i \in DOMAIN Nodes :
                    Nodes[i] = n /\ \A j \in 1 .. i - 1 : at[Nodes[j]] = "up"
    /\ at' = [at EXCEPT ![n] = "prepare"]
    /\ UNCHANGED <<parallel, network, docker, postgres, attempt, handle, info,
                   waku_nodes, phase, ops, stopping, refused>>

\* _prepare_start_context with create_network's list of networks: Docker may
\* fail, a node type is not implemented, a flag is refused with a ValueError.
Prepare(n) ==
    /\ at[n] = "prepare"
    /\ attempt' = [attempt EXCEPT ![n] = @ + 1]
    /\ \/ at' = [at EXCEPT ![n] = IF network THEN "create" ELSE "network"]
       \/ at' = [at EXCEPT ![n] = "failed"]
       \/ attempt[n] + 1 < MaxAttempts /\ UNCHANGED at
    /\ UNCHANGED <<parallel, network, docker, postgres, handle, info,
                   waku_nodes, phase, ops, stopping, refused>>

\* create_network's create.  Another thread may have created the network
\* since the list: Docker refuses a second one of the name.
CreateNetwork(n) ==
    /\ at[n] = "network"
    /\ IF network THEN Retry(n) /\ UNCHANGED network
       ELSE \/ network' = TRUE /\ at' = [at EXCEPT ![n] = "create"]
            \/ Retry(n) /\ UNCHANGED network
    /\ UNCHANGED <<parallel, docker, postgres, attempt, handle, info,
                   waku_nodes, phase, ops, stopping, refused>>

\* start_container as far as containers.create; pulling the image or the
\* create may raise.
CreateContainer(n) ==
    /\ at[n] = "create"
    /\ \/ /\ docker' = [docker EXCEPT ![<<n, attempt[n]>>] = "created"]
          /\ at' = [at EXCEPT ![n] = "connect"]
       \/ Retry(n) /\ UNCHANGED docker
    /\ UNCHANGED <<parallel, network, postgres, attempt, handle, info,
                   waku_nodes, phase, ops, stopping, refused>>

\* network.connect; an address another container holds is refused, and the
\* container stays as created.
ConnectContainer(n) ==
    /\ at[n] = "connect"
    /\ at' = [at EXCEPT ![n] = "start"] \/ Retry(n)
    /\ UNCHANGED <<parallel, network, docker, postgres, attempt, handle, info,
                   waku_nodes, phase, ops, stopping, refused>>

\* container.start, then _start_docker's assignment of self._container and
\* the entry into DS.waku_nodes.  A port in use is refused, and the container
\* stays as created.
StartContainer(n) ==
    /\ at[n] = "start"
    /\ \/ /\ docker' = [docker EXCEPT ![<<n, attempt[n]>>] = "running"]
          /\ handle' = [handle EXCEPT ![n] = attempt[n]]
          /\ waku_nodes' = Append(waku_nodes, n)
          /\ at' = [at EXCEPT ![n] = "health"]
       \/ Retry(n) /\ UNCHANGED <<docker, handle, waku_nodes>>
    /\ UNCHANGED <<parallel, network, postgres, attempt, info, phase, ops,
                   stopping, refused>>

\* WakuNode.stop: without a container nothing; a container that is gone
\* counts as stopped; a stopped one is removed by Docker; a container Docker
\* refuses to stop for 5 s keeps its handle, and stop raises.
StopOK(n) ==
    /\ docker' = IF handle[n] = 0 THEN docker
                 ELSE [docker EXCEPT ![<<n, handle[n]>>] = "absent"]
    /\ handle' = [handle EXCEPT ![n] = 0]
    /\ UNCHANGED refused

StopRaises(n) ==
    /\ handle[n] # 0 /\ docker[<<n, handle[n]>>] # "absent"
    /\ refused' = refused \cup {<<n, handle[n]>>}
    /\ UNCHANGED <<docker, handle>>

Stop(n) == StopOK(n) \/ StopRaises(n)

\* ensure_ready: check_healthy until READY, then check_ready for the info.
\* Either may run out of its time; _start_docker then stops the container,
\* swallows what stop raises, and lets the retry go on.
CheckHealthy(n) ==
    /\ at[n] = "health" /\ docker[<<n, handle[n]>>] = "running"
    /\ at' = [at EXCEPT ![n] = "info"]
    /\ UNCHANGED <<parallel, network, docker, postgres, attempt, handle, info,
                   waku_nodes, phase, ops, stopping, refused>>

\* The bug of asking for the info once and keeping it.
CheckReadyCached(n) ==
    /\ at[n] = "info" /\ docker[<<n, handle[n]>>] = "running"
    /\ info' = [info EXCEPT ![n] = IF @ = 0 THEN handle[n] ELSE @]
    /\ at' = [at EXCEPT ![n] = "up"]
    /\ UNCHANGED <<parallel, network, docker, postgres, attempt, handle,
                   waku_nodes, phase, ops, stopping, refused>>

CheckReady(n) ==
    /\ at[n] = "info" /\ docker[<<n, handle[n]>>] = "running"
    /\ info' = [info EXCEPT ![n] = handle[n]]
    /\ at' = [at EXCEPT ![n] = "up"]
    /\ UNCHANGED <<parallel, network, docker, postgres, attempt, handle,
                   waku_nodes, phase, ops, stopping, refused>>

\* The bug of retrying without a stop of the container that is not ready.
NeverReadyLeft(n) ==
    /\ at[n] \in {"health", "info"}
    /\ Retry(n)
    /\ UNCHANGED <<parallel, network, docker, postgres, attempt, handle, info,
                   waku_nodes, phase, ops, stopping, refused>>

NeverReady(n) ==
    /\ at[n] \in {"health", "info"}
    /\ Stop(n) /\ Retry(n)
    /\ UNCHANGED <<parallel, network, postgres, attempt, info, waku_nodes,
                   phase, ops, stopping>>

\* A node's process ends on its own; Docker removes the container.
Crash(c) ==
    /\ docker[c] = "running" /\ phase # "over"
    /\ docker' = [docker EXCEPT ![c] = "absent"]
    /\ UNCHANGED <<parallel, network, postgres, at, attempt, handle, info,
                   waku_nodes, phase, ops, stopping, refused>>

\* start_postgres: the network is created if it is not there; a failed create
\* leaves nothing; when the server does not start or does not answer in 30 s
\* the container is removed, if Docker will.
StartPostgres ==
    /\ phase = "setup" /\ postgres = "wanted"
    /\ \/ network' = TRUE /\ postgres' \in {"running", "failed", "leftover"}
       \/ UNCHANGED network /\ postgres' = "failed"
    /\ UNCHANGED <<parallel, docker, at, attempt, handle, info, waku_nodes,
                   phase, ops, stopping, refused>>

\* The bug of a set-up that waits for nodes that failed.
SetupEndsUp ==
    /\ phase = "setup" /\ \A n \in NodeSet : at[n] = "up"
    /\ phase' = "body"
    /\ UNCHANGED <<parallel, network, docker, postgres, at, attempt, handle,
                   info, waku_nodes, ops, stopping, refused>>

\* The set-up is over when every start() it made has ended: the pool waits
\* for all its threads before an exception of one gets out, and in sequence
\* the nodes after a failed one are not started.
SetupEnds ==
    LET broken == \/ \E n \in NodeSet : at[n] = "failed"
                  \/ postgres \in {"failed", "leftover"}
    IN  /\ phase = "setup"
        /\ \A n \in NodeSet : at[n] \notin Starting
        /\ parallel /\ postgres \in {"unused", "running"} =>
                \A n \in NodeSet : at[n] # "new"
        /\ broken \/ \A n \in NodeSet : at[n] = "up"
        /\ phase' = IF broken THEN "teardown" ELSE "body"
        /\ UNCHANGED <<parallel, network, docker, postgres, at, attempt,
                       handle, info, waku_nodes, ops, stopping, refused>>

\* The test body, one operation after the other.
BodyTurn ==
    /\ phase = "body" /\ ops < MaxOps /\ ops' = ops + 1
    /\ \A n \in NodeSet : at[n] \in {"up", "stopped"}
    /\ UNCHANGED <<parallel, network, postgres, attempt, waku_nodes, stopping>>

\* An exception out of an operation ends the body.
BodyStop(n) ==
    /\ BodyTurn /\ at[n] = "up" /\ UNCHANGED info
    /\ \/ StopOK(n) /\ at' = [at EXCEPT ![n] = "stopped"] /\ UNCHANGED phase
       \/ StopRaises(n) /\ phase' = "teardown" /\ UNCHANGED at

BodyStart(n) ==
    /\ BodyTurn /\ at[n] = "stopped" /\ attempt[n] < MaxAttempts
    /\ at' = [at EXCEPT ![n] = "prepare"]
    /\ UNCHANGED <<docker, handle, info, phase, refused>>

\* restart, with or without ensure_ready after it.
BodyRestart(n) ==
    /\ BodyTurn /\ at[n] = "up" /\ UNCHANGED <<docker, at, handle, refused>>
    /\ \/ /\ docker[<<n, handle[n]>>] = "running" /\ UNCHANGED phase
          /\ UNCHANGED info \/ info' = [info EXCEPT ![n] = handle[n]]
       \/ phase' = "teardown" /\ UNCHANGED info

\* pause and unpause; Docker refuses what does not fit the container's state.
BodyPause(n) ==
    LET c == <<n, handle[n]>>
    IN  /\ BodyTurn /\ at[n] = "up" /\ UNCHANGED <<at, handle, info, refused>>
        /\ \/ /\ docker[c] \in Live /\ UNCHANGED phase
              /\ docker' = [docker EXCEPT ![c] =
                    IF @ = "running" THEN "paused" ELSE "running"]
           \/ docker[c] \notin Live /\ phase' = "teardown" /\ UNCHANGED docker

\* The body returns or fails, once a start() it made has ended.
BodyEnds ==
    /\ phase = "body" /\ \A n \in NodeSet : at[n] \notin Starting
    /\ phase' = "teardown"
    /\ UNCHANGED <<parallel, network, docker, postgres, at, attempt, handle,
                   info, waku_nodes, ops, stopping, refused>>

\* start_postgres_container's finalizer, the first to run.
StopPostgres ==
    /\ phase = "teardown" /\ postgres = "running"
    /\ postgres' \in {"removed", "leftover"}
    /\ UNCHANGED <<parallel, network, docker, at, attempt, handle, info,
                   waku_nodes, phase, ops, stopping, refused>>

\* The bug of a teardown that ends at the first stop that raises.
CloseNodeAborts ==
    /\ phase = "teardown" /\ postgres # "running"
    /\ stopping <= Len(waku_nodes)
    /\ \/ StopOK(waku_nodes[stopping]) /\ stopping' = stopping + 1
       \/ StopRaises(waku_nodes[stopping]) /\ stopping' = Len(waku_nodes) + 1
    /\ UNCHANGED <<parallel, network, postgres, at, attempt, info, waku_nodes,
                   phase, ops>>

\* close_open_nodes: every entry of DS.waku_nodes is stopped, whatever the
\* stops before it raised.
CloseNode ==
    /\ phase = "teardown" /\ postgres # "running"
    /\ stopping <= Len(waku_nodes)
    /\ Stop(waku_nodes[stopping])
    /\ stopping' = stopping + 1
    /\ UNCHANGED <<parallel, network, postgres, at, attempt, info, waku_nodes,
                   phase, ops>>

TeardownEnds ==
    /\ phase = "teardown" /\ postgres # "running"
    /\ stopping > Len(waku_nodes)
    /\ phase' = "over"
    /\ UNCHANGED <<parallel, network, docker, postgres, at, attempt, handle,
                   info, waku_nodes, ops, stopping, refused>>

StartStep(n) ==
    \/ BeginStart(n) \/ Prepare(n) \/ CreateNetwork(n) \/ CreateContainer(n)
    \/ ConnectContainer(n) \/ StartContainer(n) \/ CheckHealthy(n)
    \/ CheckReady(n) \/ NeverReady(n)

TestStep ==
    \/ StartPostgres \/ SetupEnds \/ BodyEnds \/ StopPostgres \/ CloseNode
    \/ TeardownEnds
    \/ \E n \in NodeSet : \/ StartStep(n) \/ BodyStop(n) \/ BodyStart(n)
                          \/ BodyRestart(n) \/ BodyPause(n)

NodesNext == TestStep \/ \E c \in Containers : Crash(c)

NodesSpec == NodesInit /\ [][NodesNext]_nodeVars
-----------------------------------------------------------------------------
\* The type of the state.
NodesTypeOK ==
    /\ {parallel, network} \subseteq BOOLEAN
    /\ docker \in [Containers -> {"absent", "created"} \cup Live]
    /\ postgres \in {"unused", "wanted", "running", "failed", "leftover", "removed"}
    /\ at \in [NodeSet -> Starting \cup {"new", "up", "failed", "stopped"}]
    /\ attempt \in [NodeSet -> 0 .. MaxAttempts]
    /\ handle \in [NodeSet -> 0 .. MaxAttempts]
    /\ info \in [NodeSet -> 0 .. MaxAttempts]
    /\ waku_nodes \in Seq(NodeSet)
    /\ phase \in {"setup", "body", "teardown", "over"}
    /\ ops \in 0 .. MaxOps /\ stopping \in 1 .. Len(waku_nodes) + 1
    /\ refused \subseteq Containers

\* A node never has two containers running, however often its start was
\* tried, except for one Docker would not stop: "a node that never becomes
\* ready leaves one container behind instead of one per attempt"
\* (WakuNode._start_docker).
OneContainerPerNode ==
    \A n \in NodeSet :
        Cardinality({i \in 1 .. MaxAttempts : /\ docker[<<n, i>>] \in Live
                                              /\ <<n, i>> \notin refused}) <= 1

\* After the teardown the only containers left are those Docker would not
\* stop and those that were created but could not be attached or started,
\* whichever nodes failed, crashed, were restarted or were started by
\* threads whose sibling failed (close_open_nodes over DS.waku_nodes,
\* start_fleet_nodes).
NothingLeftRunning ==
    phase = "over" =>
        /\ \A c \in Containers \ refused : docker[c] \in {"absent", "created"}
        /\ postgres # "running"

\* While the set-up or the body can ask a started node for its id, ENR or
\* address, info_response is that of the container the node holds now, not
\* of one an earlier attempt lost (check_ready, get_id, get_enr_uri,
\* get_multiaddr_with_id).
InfoCurrent ==
    \A n \in NodeSet : at[n] = "up" /\ phase \in {"setup", "body"} =>
        handle[n] # 0 /\ info[n] = handle[n]
=============================================================================
