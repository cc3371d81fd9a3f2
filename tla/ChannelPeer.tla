---------------------------- MODULE ChannelPeer ----------------------------
(***************************************************************************)
(* The channel peer of the C ABI end-to-end tests: a node in a process of  *)
(* its own (tests-e2e/src/node/subprocess_node.py).  The parent, a test    *)
(* thread, starts the child, waits for its readiness, sends it commands,   *)
(* collects what its node received and ends it; the child starts a node,   *)
(* serves commands and forwards events.  They share three queues and one   *)
(* event, every wait of the parent has a timeout, and the child may die.   *)
(***************************************************************************)
EXTENDS Naturals, Sequences

CONSTANTS
    MaxCommands,    \* bound: commands and waits of one test body
    MaxArrivals     \* bound: channel messages the child's node receives

ASSUME ChannelPeerAssumption == {MaxCommands, MaxArrivals} \subseteq Nat

VARIABLES
    staticnodes,    \* the config names nodes to dial
    payload_b64,    \* there is a message to send at the start
    ppc, cpc,       \* where the parent and the child are
    commands,       \* the commands and waits of the test body so far
    count,          \* what a wait_for_received waits for
    result_q, cmd_q, evt_q,
    stop_evt,
    arrived,        \* the channel messages in the child's collector
    snapshot,       \* how many of them the child's last snapshot holds
    forwarded,
    received,       \* the parent's _received
    channel         \* the child's channel is open

peerVars == <<staticnodes, payload_b64, ppc, cpc, commands, count, result_q,
              cmd_q, evt_q, stop_evt, arrived, snapshot, forwarded, received,
              channel>>

parentOnly == <<staticnodes, payload_b64, ppc, commands, count, stop_evt, received>>

childOnly == <<staticnodes, payload_b64, cpc, arrived, snapshot, forwarded, channel>>

Serving == {"snapshot", "forward", "serve"}

\* The steps of _sender_worker before it serves.
Startup == {"start", "connect", "subscribe", "create", "mesh", "initial", "ready"}

PeerInit ==
    /\ staticnodes \in BOOLEAN /\ payload_b64 \in BOOLEAN
    /\ ppc = "new" /\ cpc = "none" /\ commands = 0 /\ count = 0
    /\ result_q = << >> /\ cmd_q = << >> /\ evt_q = << >> /\ stop_evt = FALSE
    /\ arrived = 0 /\ snapshot = 0 /\ forwarded = 0 /\ received = << >>
    /\ channel = FALSE
-----------------------------------------------------------------------------
\* __enter__: the process starts.
Enter ==
    /\ ppc = "new" /\ ppc' = "entering" /\ cpc' = "start"
    /\ UNCHANGED <<staticnodes, payload_b64, commands, count, result_q, cmd_q,
                   evt_q, stop_evt, arrived, snapshot, forwarded, received, channel>>

\* __exit__ begins: stop_evt is set, the parent joins the child.
BeginExit == ppc' = "joining" /\ stop_evt' = TRUE

\* __enter__ gets the child's first result, or none in SENDER_READY_TIMEOUT_S.
EnterOutcome ==
    /\ ppc = "entering"
    /\ \/ /\ result_q # << >>
          /\ result_q' = Tail(result_q)
          /\ IF Head(result_q).ok THEN ppc' = "body" /\ UNCHANGED stop_evt ELSE BeginExit
       \/ result_q = << >> /\ BeginExit /\ UNCHANGED result_q
    /\ UNCHANGED <<childOnly, commands, count, cmd_q, evt_q, received>>

\* send and close_and_recreate: _run puts the command.
PutCommand(op) ==
    /\ ppc = "body" /\ commands < MaxCommands
    /\ ppc' = "running" /\ commands' = commands + 1
    /\ cmd_q' = Append(cmd_q, [op |-> op, n |-> commands'])
    /\ UNCHANGED <<childOnly, count, result_q, evt_q, stop_evt, received>>

\* The bug of a _run that waits without a timeout.
RunOutcomeNoTimeout ==
    /\ ppc = "running" /\ result_q # << >>
    /\ result_q' = Tail(result_q)
    /\ IF Head(result_q).ok THEN ppc' = "body" /\ UNCHANGED stop_evt ELSE BeginExit
    /\ UNCHANGED <<childOnly, commands, count, cmd_q, evt_q, received>>

\* The bug of a _run that takes no answer for an answer.
RunOutcomeSwallowed ==
    /\ ppc = "running"
    /\ \/ /\ result_q # << >>
          /\ result_q' = Tail(result_q)
          /\ IF Head(result_q).ok THEN ppc' = "body" /\ UNCHANGED stop_evt ELSE BeginExit
       \/ result_q = << >> /\ ppc' = "body" /\ UNCHANGED <<result_q, stop_evt>>
    /\ UNCHANGED <<childOnly, commands, count, cmd_q, evt_q, received>>

\* _run gets the next result, or none in SEND_ACK_TIMEOUT_S; an error string
\* and a timeout raise, and the exception leaves the `with` block.
RunOutcome ==
    /\ ppc = "running"
    /\ \/ /\ result_q # << >>
          /\ result_q' = Tail(result_q)
          /\ IF Head(result_q).ok THEN ppc' = "body" /\ UNCHANGED stop_evt ELSE BeginExit
       \/ result_q = << >> /\ BeginExit /\ UNCHANGED result_q
    /\ UNCHANGED <<childOnly, commands, count, cmd_q, evt_q, received>>

\* wait_for_received is called, takes one event after the other, and returns
\* with as many as it waits for or at its deadline.
wait_for_received ==
    /\ UNCHANGED <<childOnly, result_q, cmd_q, stop_evt>>
    /\ \/ /\ ppc = "body" /\ ppc' = "waiting"
          /\ commands < MaxCommands /\ commands' = commands + 1
          /\ count' \in 1 .. MaxArrivals
          /\ UNCHANGED <<evt_q, received>>
       \/ /\ ppc = "waiting" /\ Len(received) < count /\ evt_q # << >>
          /\ received' = Append(received, Head(evt_q)) /\ evt_q' = Tail(evt_q)
          /\ UNCHANGED <<ppc, commands, count>>
       \/ /\ ppc = "waiting"
          /\ ppc' = "body" /\ count' = 0 /\ UNCHANGED <<commands, evt_q, received>>

\* The `with` block ends, by its last line or an assertion of the test.
BodyDone ==
    /\ ppc = "body" /\ BeginExit
    /\ UNCHANGED <<childOnly, commands, count, result_q, cmd_q, evt_q, received>>

\* __exit__ ends: the child has ended within SENDER_STOP_TIMEOUT_S, or it is
\* terminated and joined.
EndExit ==
    /\ ppc = "joining" /\ ppc' = "done" /\ cpc' = "dead"
    /\ UNCHANGED <<staticnodes, payload_b64, commands, count, result_q, cmd_q,
                   evt_q, stop_evt, arrived, snapshot, forwarded, received, channel>>
-----------------------------------------------------------------------------
\* The child puts a result; `n` is the command it answers, 0 for readiness.
PutResult(n, ok) == result_q' = Append(result_q, [n |-> n, ok |-> ok])

\* A call of the startup fails: the error is put and the worker returns,
\* leaving the node's `with` block if there is one yet.
StartupFails ==
    /\ PutResult(0, FALSE)
    /\ cpc' = IF cpc = "start" THEN "dead" ELSE "closing"
    /\ UNCHANGED channel

\* The step after this one: the two waits are for a config with staticnodes.
After(step) ==
    CASE step = "start" -> IF staticnodes THEN "connect" ELSE "subscribe"
      [] step = "connect" -> "subscribe"
      [] step = "subscribe" -> "create"
      [] step = "create" -> IF staticnodes THEN "mesh" ELSE
                            IF payload_b64 THEN "initial" ELSE "ready"
      [] step = "mesh" -> IF payload_b64 THEN "initial" ELSE "ready"
      [] step = "initial" -> "ready"

StartupStep ==
    /\ cpc \in Startup \ {"ready"}
    /\ \/ /\ cpc' = After(cpc) /\ channel' = (channel \/ cpc = "create")
          /\ UNCHANGED result_q
       \/ StartupFails
    /\ UNCHANGED <<parentOnly, cmd_q, evt_q, arrived, snapshot, forwarded>>

\* Readiness, with the node's multiaddr; get_node_multiaddr may raise, and
\* then nothing is put.
Ready ==
    /\ cpc = "ready"
    /\ \/ PutResult(0, TRUE) /\ cpc' = "snapshot"
       \/ UNCHANGED result_q /\ cpc' = "closing"
    /\ UNCHANGED <<parentOnly, cmd_q, evt_q, arrived, snapshot, forwarded, channel>>

\* A channel message comes in while the child serves.
Arrive ==
    /\ cpc \in Serving /\ arrived < MaxArrivals /\ arrived' = arrived + 1
    /\ UNCHANGED <<parentOnly, cpc, result_q, cmd_q, evt_q, snapshot, forwarded, channel>>

\* The top of the loop: stop_evt, or the collector's snapshot.
TakeSnapshot ==
    /\ cpc = "snapshot"
    /\ IF stop_evt THEN cpc' = "closing" /\ UNCHANGED snapshot
       ELSE cpc' = "forward" /\ snapshot' = arrived
    /\ UNCHANGED <<parentOnly, result_q, cmd_q, evt_q, arrived, forwarded, channel>>

\* The bug of counting again what arrived after the snapshot.
ForwardRecounts ==
    /\ cpc = "forward" /\ cpc' = "serve"
    /\ evt_q' = evt_q \o [i \in 1 .. snapshot - forwarded |-> forwarded + i]
    /\ forwarded' = arrived
    /\ UNCHANGED <<parentOnly, result_q, cmd_q, arrived, snapshot, channel>>

\* What the snapshot has and was not forwarded is put, oldest first.
Forward ==
    /\ cpc = "forward" /\ cpc' = "serve"
    /\ evt_q' = evt_q \o [i \in 1 .. snapshot - forwarded |-> forwarded + i]
    /\ forwarded' = snapshot
    /\ UNCHANGED <<parentOnly, result_q, cmd_q, arrived, snapshot, channel>>

\* _recreate: the channel is closed, then created; each may fail.
Recreate(n) ==
    \/ PutResult(n, FALSE) /\ UNCHANGED channel
    \/ PutResult(n, FALSE) /\ channel' = FALSE
    \/ PutResult(n, TRUE) /\ channel' = TRUE

\* A command is taken and answered, or none comes in _SERVE_POLL_S.
Serve ==
    /\ cpc = "serve" /\ cpc' = "snapshot"
    /\ \/ /\ cmd_q # << >> /\ cmd_q' = Tail(cmd_q)
          /\ \/ /\ Head(cmd_q).op = "send" /\ UNCHANGED channel
                /\ \E ok \in BOOLEAN : PutResult(Head(cmd_q).n, ok)
             \/ Head(cmd_q).op = "recreate" /\ Recreate(Head(cmd_q).n)
       \/ cmd_q = << >> /\ UNCHANGED <<cmd_q, result_q, channel>>
    /\ UNCHANGED <<parentOnly, evt_q, arrived, snapshot, forwarded>>

\* The node is stopped and destroyed and the process ends.  It may hang: the
\* process waits for its queues to be flushed.
Close ==
    /\ cpc = "closing" /\ cpc' = "dead"
    /\ UNCHANGED <<parentOnly, result_q, cmd_q, evt_q, arrived, snapshot,
                   forwarded, channel>>

\* The process dies (the native library aborts).
Die ==
    /\ cpc \in Startup \cup Serving /\ cpc' = "dead"
    /\ UNCHANGED <<parentOnly, result_q, cmd_q, evt_q, arrived, snapshot,
                   forwarded, channel>>
-----------------------------------------------------------------------------
ParentStep ==
    \/ Enter \/ EnterOutcome
    \/ PutCommand("send") \/ PutCommand("recreate") \/ RunOutcome
    \/ wait_for_received \/ BodyDone \/ EndExit

ChildStep ==
    StartupStep \/ Ready \/ Arrive \/ TakeSnapshot \/ Forward \/ Serve \/ Close \/ Die

PeerNext == ParentStep \/ ChildStep

PeerSpec == PeerInit /\ [][PeerNext]_peerVars
-----------------------------------------------------------------------------
\* The type of the state.
PeerTypeOK ==
    /\ {staticnodes, payload_b64, stop_evt, channel} \subseteq BOOLEAN
    /\ ppc \in {"new", "entering", "body", "running", "waiting", "joining", "done"}
    /\ cpc \in {"none", "closing", "dead"} \cup Startup \cup Serving
    /\ commands \in 0 .. MaxCommands /\ count \in 0 .. MaxArrivals
    /\ {arrived, snapshot, forwarded} \subseteq 0 .. MaxArrivals
    /\ Len(cmd_q) <= 1 /\ Len(result_q) <= 1

\* The result a command of the test waits for is the result of that command:
\* none that an earlier one left in result_q is taken for it (_run).  And while
\* the test body runs, its peer has the channel open: readiness and the result
\* of close_and_recreate are reported only with the channel made ("blocking
\* until the peer has re-subscribed").
AckIsOwn ==
    /\ ppc \in {"body", "waiting"} =>
        /\ result_q = << >> /\ cmd_q = << >>
        /\ channel /\ cpc \in Serving \cup {"dead"}
    /\ ppc = "running" =>
        /\ Len(result_q) + Len(cmd_q) <= 1
        /\ \A i \in DOMAIN result_q : result_q[i].n = commands

\* wait_for_received returns "what this peer received, oldest first": what it
\* has and what is still in evt_q are the messages forwarded, each once and
\* in order, though messages come in while the child forwards.
ReceivedInOrder ==
    /\ forwarded <= arrived
    /\ received \o evt_q = [i \in 1 .. forwarded |-> i]

\* A test that enters the peer always leaves it with no child left, in
\* whatever step the child was, also when it died or hangs: no wait of the
\* parent depends on the child alone (SENDER_STOP_TIMEOUT_S, terminate).
PeerLeft == []<>(ppc = "new" \/ (ppc = "done" /\ cpc = "dead"))
=============================================================================
