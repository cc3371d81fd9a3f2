----------------------------- MODULE EventWaits -----------------------------
(***************************************************************************)
(* The waits of the end-to-end tests for what a node reports: the polls of *)
(* an EventCollector that the wrapper's event thread fills                 *)
(* (tests-e2e/src/node/wrapper_helpers.py), and the collect_* polls of the *)
(* messaging REST API, where a GET clears what it returns                  *)
(* (tests-e2e/src/steps/messaging.py).  The node reports by RequestEvents, *)
(* at any moment between two steps of the test.  A tick is one poll        *)
(* interval; looking takes less than one.                                  *)
(***************************************************************************)
EXTENDS RequestEvents, FiniteSets

CONSTANTS
    Timeout,        \* the timeout of a wait, in ticks
    Shards,         \* the pubsub topics of the node
    MaxHealth       \* bound: relay_topic_health_change events of a shard

ASSUME EventWaitsAssumption == Timeout \in Nat \ {0, 1} /\ MaxHealth \in Nat

VARIABLES
    helper,         \* the helper the test calls
    request_id,
    wpc,            \* "look", "sleep", or how it ended
    now,            \* ticks since the helper was called
    connected,      \* a connection_status_change with a connection came
    topicHealth,    \* per shard: whether the mesh has a peer, event by event
    buffered,       \* per request: the events the next GET returns
    gathered,      \* per request: those the polls have returned
    since           \* history: the tick from which Target holds

waitVars == <<events, helper, request_id, wpc, now, connected, topicHealth,
              buffered, gathered, since>>

nodeState == <<events, connected, topicHealth, since>>

Kinds == {"propagated", "sent", "error"}

Collectors == {"collect_send_kinds", "collect_send_events", "collect_sent_request_ids"}

\* wait_for_propagated, wait_for_sent and wait_for_error are named by what
\* they wait for; assert_no_error is wait_for_error with no time.
Helpers ==
    Kinds \cup {"assert_no_error", "connected", "mesh"} \cup Collectors

Never == Timeout + 1

timeout_s == IF helper = "assert_no_error" THEN 0 ELSE Timeout

Has(s, kinds) == \E i \in DOMAIN s : s[i] \in kinds

\* latest_health of a shard: its last event counts.
Latest(hs) == hs # << >> /\ hs[Len(hs)]

\* The requests with a "sent" event, and how many a test waits for.
SentIds(evs) == {r \in Requests : Has(evs[r], {"sent"})}

AwaitedIds == Cardinality(Confirmed)

\* What the helper waits for holds of the events `evs` and of the node's
\* latest status.
Holds(evs, conn, health) ==
    CASE helper \in Kinds -> Has(evs[request_id], {helper})
      [] helper = "assert_no_error" -> Has(evs[request_id], {"error"})
      [] helper = "connected" -> conn
      [] helper = "mesh" -> \E s \in Shards : Latest(health[s])
      [] helper = "collect_send_kinds" ->
            Has(evs[request_id], {"propagated"}) /\ Has(evs[request_id], {"sent"})
      [] helper = "collect_send_events" -> Has(evs[request_id], {"sent", "error"})
      [] helper = "collect_sent_request_ids" -> Cardinality(SentIds(evs)) >= AwaitedIds

Target == Holds(events, connected, topicHealth)

WaitsInit ==
    /\ REInit
    /\ helper \in Helpers /\ request_id \in Requests
    /\ wpc = "look" /\ now = 0
    /\ connected = FALSE /\ topicHealth = [s \in Shards |-> << >>]
    /\ buffered = [r \in Requests |-> << >>]
    /\ gathered = [r \in Requests |-> << >>]
    /\ since = Never
-----------------------------------------------------------------------------
\* History: since when the target holds without a break.
Observe ==
    since' = IF ~Target' THEN Never ELSE IF since = Never THEN now ELSE since

Running == wpc \in {"look", "sleep"}

\* The node reports events of a request: event_callback appends them, the
\* REST service buffers them.
ReportEvents ==
    /\ Running /\ helper \notin {"connected", "mesh"}
    /\ \E r \in Requests :
        /\ Report(r)
        /\ buffered' = IF helper \in Collectors
                       THEN [buffered EXCEPT ![r] = @ \o
                               SubSeq(events'[r], Len(events[r]) + 1, Len(events'[r]))]
                       ELSE buffered
    /\ UNCHANGED <<helper, request_id, wpc, now, connected, topicHealth, gathered>>
    /\ Observe

\* It reports its connection, or the health of a shard's mesh.
ReportStatus ==
    /\ Running
    /\ \/ helper = "connected" /\ connected' = TRUE /\ UNCHANGED topicHealth
       \/ /\ helper = "mesh" /\ UNCHANGED connected
          /\ \E s \in Shards, h \in BOOLEAN :
                /\ Len(topicHealth[s]) < MaxHealth
                /\ topicHealth' = [topicHealth EXCEPT ![s] = Append(@, h)]
    /\ UNCHANGED <<events, helper, request_id, wpc, now, buffered, gathered>>
    /\ Observe

\* The loops of the other helpers run while there is time, and look then.
DeadlineThenLook(found) ==
    /\ wpc = "look"
    /\ wpc' = IF now >= timeout_s THEN "none" ELSE IF found THEN "found" ELSE "sleep"

\* wait_for_event's loop: it looks, then at its deadline.
LookThenDeadline(found) ==
    /\ wpc = "look"
    /\ wpc' = IF found THEN "found" ELSE IF now >= timeout_s THEN "none" ELSE "sleep"

\* time.sleep(poll_interval_s).
Sleep ==
    /\ wpc = "sleep" /\ wpc' = "look" /\ now' = now + 1
    /\ UNCHANGED <<nodeState, helper, request_id, buffered, gathered>>

wait_for_event ==
    /\ helper \in Kinds \cup {"assert_no_error"}
    /\ LookThenDeadline(Target)
    /\ UNCHANGED <<nodeState, helper, request_id, now, buffered, gathered>>

wait_for_connected ==
    /\ helper = "connected" /\ DeadlineThenLook(connected)
    /\ UNCHANGED <<nodeState, helper, request_id, now, buffered, gathered>>

wait_for_mesh ==
    /\ helper = "mesh"
    /\ DeadlineThenLook(\E s \in Shards : Latest(topicHealth[s]))
    /\ UNCHANGED <<nodeState, helper, request_id, now, buffered, gathered>>

\* A GET returns and clears what is buffered; 404 says that nothing is.
Fetch(rs) ==
    /\ gathered' = [r \in Requests |->
                        IF r \in rs THEN gathered[r] \o buffered[r] ELSE gathered[r]]
    /\ buffered' = [r \in Requests |-> IF r \in rs THEN << >> ELSE buffered[r]]

\* One poll of a collect_* helper for the requests `rs`.
Collect(rs) ==
    /\ UNCHANGED <<nodeState, helper, request_id, now>>
    /\ \/ /\ now < timeout_s /\ Fetch(rs)
          /\ DeadlineThenLook(Holds(gathered', connected, topicHealth))
       \/ now >= timeout_s /\ DeadlineThenLook(FALSE) /\ UNCHANGED <<buffered, gathered>>
       \/ \* the GET raises another error
          /\ now < timeout_s /\ wpc = "look" /\ wpc' = "raised"
          /\ UNCHANGED <<buffered, gathered>>

collect_send_kinds == helper = "collect_send_kinds" /\ Collect({request_id})

collect_send_events == helper = "collect_send_events" /\ Collect({request_id})

collect_sent_request_ids == helper = "collect_sent_request_ids" /\ Collect(Requests)

WaitStep ==
    \/ Sleep \/ wait_for_event \/ wait_for_connected \/ wait_for_mesh
    \/ collect_send_kinds \/ collect_send_events \/ collect_sent_request_ids

WaitsNext == WaitStep \/ ReportEvents \/ ReportStatus

WaitsSpec == WaitsInit /\ [][WaitsNext]_waitVars

\* assert_event_invariants of a request's events: there are some, each of the
\* three kinds comes once at most, and `propagated` before `sent`.
assert_event_invariants(evs) ==
    LET At(k) == {i \in DOMAIN evs : evs[i] = k}
    IN  /\ evs # << >>
        /\ \A k \in Kinds : Cardinality(At(k)) <= 1
        /\ \A i \in At("propagated"), j \in At("sent") : i < j
-----------------------------------------------------------------------------
\* The type of the state.
WaitsTypeOK ==
    /\ helper \in Helpers /\ request_id \in Requests
    /\ wpc \in {"look", "sleep", "found", "none", "raised"}
    /\ now \in 0 .. Timeout /\ since \in 0 .. Never /\ connected \in BOOLEAN
    /\ \A s \in Shards : topicHealth[s] \in Seq(BOOLEAN)
    /\ \A r \in Requests : events[r] \in Legal(r)

\* A wait is right.  One that gives up has missed nothing that was there in
\* time: wait_for_event looks once more at the deadline, the others last
\* looked one poll interval before it, and assert_no_error, which looks once
\* and does not wait, claims nothing of later.  One that succeeds does so on
\* what is reported then, such as the latest health of a shard; for
\* wait_for_connected that is any connection so far.  collect_send_events
\* returns all events of its request, in order, whatever the polls were
\* between which they came.  And assert_event_invariants accepts every
\* sequence of events the messaging API promises, at any moment.
WaitsRight ==
    /\ wpc = "none" =>
        since >= IF helper \in Kinds \cup {"assert_no_error"}
                 THEN timeout_s ELSE timeout_s - 1
    /\ wpc = "found" =>
        /\ Target
        /\ helper = "collect_send_events" => gathered[request_id] = events[request_id]
    /\ \A r \in Requests : events[r] # << >> => assert_event_invariants(events[r])

=============================================================================
