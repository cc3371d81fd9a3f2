------------------------------ MODULE Harness ------------------------------
(***************************************************************************)
(* The repository's Python tooling, one job at a time: a test's nodes, the *)
(* steps of a REST test, the waits of a test, a channel peer in a process  *)
(* of its own, the metric label linter, the store monitor.  The jobs share *)
(* no state; the jobs that do not run stay in one of their initial states. *)
(***************************************************************************)
EXTENDS TestNodes, RestSteps, EventWaits, ChannelPeer, MetricLabels, Sonda

VARIABLE job

harnessVars == <<job, nodeVars, stepVars, waitVars, peerVars, lintVars, sondaVars>>

Jobs == {"nodes", "steps", "waits", "peer", "lint", "sonda"}

HarnessInit ==
    /\ job \in Jobs
    /\ NodesInit /\ (job # "nodes" => ~parallel /\ ~network /\ postgres = "unused")
    /\ StepsInit /\ (job # "steps" => step = "relay")
    /\ WaitsInit /\ (job # "waits" => helper = "sent" /\ request_id \in Confirmed)
    /\ PeerInit /\ (job # "peer" => ~staticnodes /\ ~payload_b64)
    /\ LintInit
    /\ SondaInit

NodesJob ==
    job = "nodes" /\ UNCHANGED <<job, stepVars, waitVars, peerVars, lintVars, sondaVars>>

StepsJob ==
    job = "steps" /\ UNCHANGED <<job, nodeVars, waitVars, peerVars, lintVars, sondaVars>>

WaitsJob ==
    job = "waits" /\ UNCHANGED <<job, nodeVars, stepVars, peerVars, lintVars, sondaVars>>

PeerJob ==
    job = "peer" /\ UNCHANGED <<job, nodeVars, stepVars, waitVars, lintVars, sondaVars>>

LintJob ==
    job = "lint" /\ UNCHANGED <<job, nodeVars, stepVars, waitVars, peerVars, sondaVars>>

SondaJob ==
    job = "sonda" /\ UNCHANGED <<job, nodeVars, stepVars, waitVars, peerVars, lintVars>>

HarnessNext ==
    \/ NodesJob /\ NodesNext
    \/ StepsJob /\ StepsNext
    \/ WaitsJob /\ WaitsNext
    \/ PeerJob /\ PeerNext
    \/ LintJob /\ LintNext
    \/ SondaJob /\ SondaNext

\* The test thread and its pool run on; so does the parent of a channel peer.
\* Nothing is assumed of containers, of the network or of the child.
HarnessSpec ==
    /\ HarnessInit /\ [][HarnessNext]_harnessVars
    /\ WF_harnessVars(NodesJob /\ TestStep)
    /\ WF_harnessVars(PeerJob /\ ParentStep)
-----------------------------------------------------------------------------
\* The type of the state: among others, the attempts of a start stay within
\* the stop condition of its retry, and the error labels of sonda and the keys
\* of the linter's allowlist within their sets.
HarnessTypeOK ==
    /\ job \in Jobs
    /\ NodesTypeOK /\ StepsTypeOK /\ WaitsTypeOK
    /\ PeerTypeOK /\ LintTypeOK /\ SondaTypeOK

\* Every test comes to the end of its teardown: tenacity's delays end every
\* retry, and what stop raises is swallowed (close_open_nodes).
TestEnds == <>[](job = "nodes" => phase = "over")
=============================================================================
