------------------------------- MODULE Sonda -------------------------------
(***************************************************************************)
(* apps/sonda/sonda.py: the monitor that publishes a message through its   *)
(* own node every round, asks every monitored store node for it, and turns *)
(* the answers into Prometheus metrics.  One thread; an action is the code *)
(* between two HTTP calls.  Counters only ever grow, so what a query adds  *)
(* to them is kept instead of their totals.                                *)
(***************************************************************************)
EXTENDS Naturals, Sequences, StoreRest

CONSTANTS
    store_nodes,        \* args.store_nodes, split at the commas
    health_threshold,   \* args.health_threshold
    RestModes           \* REST APIs the local node may have: subset of
                        \* {"status", "always200"}

ASSUME SondaAssumption ==
    /\ store_nodes \in Seq(STRING) \ {<< >>}
    /\ health_threshold \in Nat \ {0}
    /\ RestModes \subseteq {"status", "always200"} /\ RestModes # {}

VARIABLES
    pc,           \* "publish", "query" or "health": the next step of main
    res,          \* send_sonda_msg's result of this round
    next,         \* the index of the store node send_store_queries is at
    consecutive,  \* the gauge consecutive_successful_responses, per node
    node_health,  \* the gauge node_health, for the nodes it was set for
    counted,      \* what the last query added to which counter
    cause,        \* history: what really became of the last query
    asked         \* history: per node, which of its last queries found
                  \* their message, the newest first

sondaVars == <<pc, res, next, consecutive, node_health, counted, cause, asked>>

StoreNodes == {store_nodes[i] : i \in DOMAIN store_nodes}

\* The gauge is compared with the threshold and nothing else: it is counted
\* up to one above it.
ConsecutiveCap == health_threshold + 1

ERR_LOCAL_NODE_UNREACHABLE == "local_node_unreachable"
ERR_PEER_UNREACHABLE == "peer_unreachable"
ERR_QUERY_TIMEOUT == "query_timeout"
ERR_STORE_BACKEND_ERROR == "store_backend_error"
ERR_UNKNOWN == "unknown"

STORE_STATUS_ERRORS ==
    [s \in {504, 503, 429} |->
        IF s = 504 THEN ERR_PEER_UNREACHABLE ELSE ERR_STORE_BACKEND_ERROR]

\* The cause strings of a BAD_RESPONSE, told apart as far as
\* classify_bad_response does.
Descs(truth) ==
    CASE truth = "archiveFailed" -> {"archive error"}
      [] truth = "readFailed"    -> {"timeout", "eof", "other"}
      [] OTHER                   -> {"other"}

\* The bug of a label that holds the raw cause.
classify_raw(desc) == desc

classify_bad_response(desc) ==
    CASE desc = "archive error" -> ERR_STORE_BACKEND_ERROR
      [] desc = "timeout"       -> ERR_QUERY_TIMEOUT
      [] desc = "eof"           -> ERR_PEER_UNREACHABLE
      [] OTHER                  -> ERR_UNKNOWN

\* What record_store_failure adds to failed_store_queries: the label 'node'
\* stays empty unless the peer is blamed.
Failure(error, blame_peer) ==
    [counter |-> "failed", error |-> error, blame |-> blame_peer]

Success == [counter |-> "successful", error |-> "", blame |-> FALSE]

Empty == [counter |-> "empty", error |-> "", blame |-> FALSE]

\* check_store_response on a JSON body.  found: the returned page has an
\* entry with a message of this round's timestamp.  An empty page, a page of
\* other messages and entries without a message all count as empty.
check_store_response(status, desc, found) ==
    CASE status = 200 /\ found  -> Success
      [] status = 200 /\ ~found -> Empty
      [] status = 300 -> Failure(classify_bad_response(desc), TRUE)
      [] status \in DOMAIN STORE_STATUS_ERRORS ->
            Failure(STORE_STATUS_ERRORS[status], TRUE)
      [] OTHER -> Failure(ERR_UNKNOWN, FALSE)

\* send_store_query on an HTTP answer: only a 200 is parsed; a body that is
\* not JSON is a failure of its own.
ClassifyAnswer(answer, desc, found) ==
    CASE answer.http = 429 -> Failure(ERR_STORE_BACKEND_ERROR, TRUE)
      [] answer.http \notin {200, 429} -> Failure(ERR_UNKNOWN, FALSE)
      [] answer.http = 200 /\ ~answer.json -> Failure(ERR_UNKNOWN, FALSE)
      [] answer.http = 200 /\ answer.json ->
            check_store_response(answer.status, desc, found)

\* The bug of an empty answer that leaves the gauge as it is.
ConsecutiveKept(n, outcome) ==
    IF outcome.counter = "failed" THEN 0
    ELSE IF outcome.counter = "successful" /\ consecutive[n] < ConsecutiveCap
         THEN consecutive[n] + 1 ELSE consecutive[n]

\* The gauge after a query: one more for a message found, otherwise zero.
Consecutive(n, outcome) ==
    IF outcome.counter = "successful"
    THEN IF consecutive[n] < ConsecutiveCap THEN consecutive[n] + 1
         ELSE consecutive[n]
    ELSE 0

NewestFirst(s, x) == SubSeq(<<x>> \o s, 1,
    IF Len(s) < health_threshold THEN Len(s) + 1 ELSE health_threshold)

SondaInit ==
    /\ pc = "publish" /\ res = FALSE /\ next = 1
    /\ consecutive = [n \in StoreNodes |-> 0]
    /\ node_health = [n \in {} |-> 0]
    /\ counted = Empty /\ cause = "answered"
    /\ asked = [n \in StoreNodes |-> << >>]

\* send_sonda_msg, and the sleep after it.  Anything but a 200 (another
\* status, no connection, the 10 s timeout) is a failed message.
Publish ==
    /\ pc = "publish"
    /\ res' \in BOOLEAN
    /\ pc' = IF res' THEN "query" ELSE "health"
    /\ next' = 1
    /\ UNCHANGED <<consecutive, node_health, counted, cause, asked>>

\* The end of send_store_query for the node at `next`: the query came to
\* `truth`, and sonda counts `outcome`.
Queried(truth, found, outcome) ==
    LET n == store_nodes[next]
    IN  /\ pc = "query"
        /\ counted' = outcome /\ cause' = truth
        /\ consecutive' = [consecutive EXCEPT ![n] = Consecutive(n, outcome)]
        /\ asked' = [asked EXCEPT ![n] = NewestFirst(@, found)]
        /\ next' = next + 1
        /\ pc' = IF next = Len(store_nodes) THEN "health" ELSE "query"
        /\ UNCHANGED <<res, node_health>>

\* The bug of leaving out blame_peer=False.
QueryRaisesBlames ==
    \E error \in {ERR_LOCAL_NODE_UNREACHABLE, ERR_UNKNOWN} :
        Queried("local", FALSE, Failure(error, TRUE))

\* requests.get raised: no HTTP answer, or an exception of sonda's own.
QueryRaises ==
    \E error \in {ERR_LOCAL_NODE_UNREACHABLE, ERR_UNKNOWN} :
        Queried("local", FALSE, Failure(error, FALSE))

\* The local node answered, with what became of the query.  A body garbled
\* on the way is not JSON.
QueryAnswered ==
    \E truth \in Causes \cup LocalCauses, found \in BOOLEAN,
            mode \in RestModes, garbled \in BOOLEAN :
        \E desc \in Descs(truth) :
            LET good == IF mode = "status" THEN GetStoreMessages(truth)
                        ELSE GetStoreMessages200(truth)
                answer == [good EXCEPT !.json = @ /\ ~garbled]
            IN  /\ found => truth = "answered" /\ ~garbled
                /\ Queried(truth, found, ClassifyAnswer(answer, desc, found))

\* The health loop at the end of a round, over every node whether or not it
\* was asked.
UpdateHealth ==
    /\ pc = "health"
    /\ node_health' = [n \in StoreNodes |->
            IF consecutive[n] >= health_threshold THEN 1 ELSE 0]
    /\ pc' = "publish"
    /\ UNCHANGED <<res, next, consecutive, counted, cause, asked>>

SondaNext == Publish \/ QueryRaises \/ QueryAnswered \/ UpdateHealth

SondaSpec == SondaInit /\ [][SondaNext]_sondaVars
-----------------------------------------------------------------------------
CountedOnce == [counter : {"failed", "successful", "empty"},
             error : {"", ERR_LOCAL_NODE_UNREACHABLE, ERR_PEER_UNREACHABLE,
                      ERR_QUERY_TIMEOUT, ERR_STORE_BACKEND_ERROR, ERR_UNKNOWN},
             blame : BOOLEAN]

\* The type of the state: the error label is one of a bounded set ("A label
\* must never hold a raw cause string").
SondaTypeOK ==
    /\ pc \in {"publish", "query", "health"} /\ res \in BOOLEAN
    /\ next \in 1 .. Len(store_nodes) + 1
    /\ consecutive \in [StoreNodes -> 0 .. ConsecutiveCap]
    /\ node_health \in [{} -> {0, 1}] \cup [StoreNodes -> {0, 1}]
    /\ counted \in CountedOnce /\ cause \in Causes \cup LocalCauses \cup {"local"}
    /\ \A n \in StoreNodes :
        asked[n] \in Seq(BOOLEAN) /\ Len(asked[n]) <= health_threshold

\* At the end of every round a store node is shown healthy exactly when its
\* last health_threshold queries all brought the message published in their
\* own round, through every mixture of refused, failed, garbled and empty
\* answers and of rounds that published nothing (main's health loop,
\* check_store_response, record_store_failure).
HealthExact ==
    pc = "publish" => \A n \in DOMAIN node_health :
        node_health[n] = 1 <=>
            /\ Len(asked[n]) = health_threshold
            /\ \A i \in DOMAIN asked[n] : asked[n][i]

\* A failed query is charged to a store node only if the local node dialled
\* it: "so we don't blame a peer that was never contacted"
\* (record_store_failure, and the blame_peer=False of its callers).
BlamedOnlyIfAsked == counted.blame => cause \in Causes \ {"answered"}

\* The table "Store protocol status code -> error label" of sonda.py holds
\* for every query that came to one of its statuses: a PEER_DIAL_FAILURE is
\* counted as peer_unreachable, a SERVICE_UNAVAILABLE and a
\* TOO_MANY_REQUESTS as store_backend_error, with the peer's name.
StatusLabelled ==
    cause \in Causes =>
        LET status == StoreStatus(cause)
        IN  status \in DOMAIN STORE_STATUS_ERRORS =>
                counted = Failure(STORE_STATUS_ERRORS[status], TRUE)
=============================================================================
