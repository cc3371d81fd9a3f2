----------------------------- MODULE RestSteps -----------------------------
(***************************************************************************)
(* The steps of the REST end-to-end tests that publish a message and look  *)
(* for it at other nodes (tests-e2e/src/steps: relay, filter, light_push,  *)
(* sharding, store).  Every GET of relay or filter messages empties the    *)
(* node's cache, messages are late or lost, a call may fail with its       *)
(* effect made, and the retries publish again: what an earlier attempt     *)
(* left behind meets the later ones.  One test thread; an action is one    *)
(* REST call with the assertions on its answer.                            *)
(***************************************************************************)
EXTENDS Naturals, Sequences, FiniteSets

CONSTANTS
    peer_list,      \* the nodes the step looks at, in order
    Batch           \* how many messages the steps that do not publish
                    \* again publish before they look

ASSUME RestStepsAssumption ==
    /\ peer_list \in Seq(STRING) \ {<< >>} /\ Batch \in Nat \ {0}
    /\ \A i, j \in DOMAIN peer_list : peer_list[i] = peer_list[j] => i = j

VARIABLES
    step,       \* the step the test calls
    spc,        \* "publish", "check", "passed" or "failed"
    message,    \* the last message published, by its timestamp
    peer,       \* the index in peer_list
    cache,      \* per node: the messages its next GET returns
    flying,     \* messages on their way, <<message, node>>
    collected,  \* the records a wait has collected at its node
    prompt,     \* from now on messages arrive in time and no call fails
    landed,     \* history: which message of now reached which node
    lost,       \* history: a call raised in its last poll, or with its effect made
    good        \* history: the attempts made since prompt, up to GoodCap

stepVars == <<step, spc, message, peer, cache, flying, collected, prompt,
              landed, lost, good>>

Peers == {peer_list[i] : i \in DOMAIN peer_list}

\* A message of another content topic, and one of an earlier attempt: what
\* tells those apart is never looked at.  A message reaches a node once, so a
\* cache is a set.
Noise == 0

Old == Batch + 1

\* The steps that publish again when a check fails
\* (wait_for_published_message_to_reach_relay_peer,
\* subscribe_and_light_push_with_retry).
Retried == {"relay", "lightpush"}

\* The steps that publish all their messages first
\* (wait_for_relay_messages and wait_for_filter_messages with a count,
\* check_published_message_is_stored of the last one or of all,
\* check_sent_message_is_stored).
Collecting == {"collect", "storeLast", "storeAll", "storeHashes"}

Steps == Retried \cup Collecting \cup {"filter", "sharding", "fleet"}

GoodCap == Len(peer_list) + 2

StepsInit ==
    /\ step \in Steps
    /\ spc = "publish" /\ message = 0 /\ peer = 1
    /\ cache = [p \in Peers |-> {}]
    /\ flying = {} /\ collected = {} /\ prompt = FALSE
    /\ landed = {} /\ lost = FALSE /\ good = 0

\* An assertion failed or a call raised: tenacity calls the step again while
\* its time lasts, if it is one that is retried.
AttemptFails ==
    /\ spc' \in IF step \in Retried THEN {"publish", "failed"} ELSE {"failed"}
    /\ UNCHANGED <<step, peer, collected, prompt>>

\* The next message of a batch, or a new one in the place of the last.
NewMessage == IF step \in Collecting THEN message + 1 ELSE 1

Aged(m) == IF step \notin Collecting /\ m = 1 THEN Old ELSE m

\* send_relay_message or send_light_push_message of a new message.  A call
\* that raises may have published it (its answer came too late).
Send ==
    LET before == {<<Aged(f[1]), f[2]>> : f \in flying}
        sent == {NewMessage} \X Peers
    IN  /\ spc = "publish" /\ step # "fleet"
        /\ message' = NewMessage
        /\ cache' = [p \in Peers |-> {Aged(m) : m \in cache[p]}]
        /\ landed' = IF step \in Collecting THEN landed ELSE {}
        /\ good' = IF prompt /\ good < GoodCap THEN good + 1 ELSE good
        /\ \/ /\ flying' = before \cup sent
              /\ spc' = IF step \in Collecting /\ message' < Batch
                        THEN "publish" ELSE "check"
              /\ peer' = 1 /\ collected' = {}
              /\ UNCHANGED <<step, prompt, lost>>
           \/ /\ ~prompt /\ lost' = (lost \/ step \notin Retried)
              /\ flying' \in {before, before \cup sent}
              /\ AttemptFails

\* light_push_through_fleet: one message is pushed until a push is accepted,
\* or refused as already seen because an earlier one had its effect made.
light_push_through_fleet ==
    LET sent == IF message = 0 THEN {1} \X Peers ELSE {}
    IN  /\ step = "fleet" /\ spc = "publish"
        /\ \/ message' = 1 /\ flying' = flying \cup sent /\ spc' = "check"
           \/ /\ \/ message' = 1 /\ flying' = flying \cup sent
                 \/ UNCHANGED <<message, flying>>
              /\ spc' \in {"publish", "failed"}
        /\ UNCHANGED <<step, peer, cache, collected, prompt, landed, lost, good>>

\* The messages a step is about.
Awaited == IF step \in {"collect", "storeAll", "storeHashes"} THEN 1 .. message ELSE {message}

\* A message reaches a node.  Of the old ones there may be more on the way.
Land ==
    /\ spc \in {"publish", "check"}
    /\ \E f \in flying :
        /\ flying' \in {flying \ {f}} \cup (IF f[1] = Old THEN {flying} ELSE {})
        /\ landed' = IF f[1] \in Awaited THEN landed \cup {f} ELSE landed
        /\ cache' = [cache EXCEPT ![f[2]] = @ \cup {f[1]}]
    /\ UNCHANGED <<step, spc, message, peer, collected, prompt, lost, good>>

\* It does not.
Lose ==
    /\ ~prompt
    /\ \E f \in flying : flying' = flying \ {f}
    /\ UNCHANGED <<step, spc, message, peer, cache, collected, prompt, landed,
                   lost, good>>

\* A message of another participant.  It reaches the steps that filter by
\* content topic; wait_for_relay_messages counts every record and is for tests
\* whose topic nobody else publishes on.
OthersPublish ==
    /\ step \in {"relay", "lightpush", "filter"} /\ spc = "check"
    /\ \E p \in Peers :
        cache' = [cache EXCEPT ![p] = @ \cup {Noise}]
    /\ UNCHANGED <<step, spc, message, peer, flying, collected, prompt, landed,
                   lost, good>>

\* The network settles between two attempts.
Settle ==
    /\ step \in Retried /\ spc = "publish" /\ flying = {} /\ ~prompt
    /\ prompt' = TRUE
    /\ UNCHANGED <<step, spc, message, peer, cache, flying, collected, landed,
                   lost, good>>

\* The bug of a GET that leaves the cache as it is.
DrainNot == UNCHANGED cache

\* GET of the messages at the node the step is at: the node's cache answers and
\* is emptied (clear = true), also when the answer is lost.
Drain == cache' = [cache EXCEPT ![peer_list[peer]] = {}]

\* The GET of a single look raises: the attempt fails with it.
GetRaises ==
    /\ spc = "check" /\ step \in Retried \cup {"filter"} /\ ~prompt
    /\ Drain \/ UNCHANGED cache
    /\ UNCHANGED <<message, flying, landed, lost, good>>
    /\ AttemptFails

NextPeer ==
    /\ peer' = IF peer = Len(peer_list) THEN peer ELSE peer + 1
    /\ spc' = IF peer = Len(peer_list) THEN "passed" ELSE "check"
    /\ collected' = {}
    /\ UNCHANGED <<step, prompt>>

\* The bug of passing on any message that is there.
LookForAny ==
    /\ spc = "check"
    /\ prompt => flying = {}
    /\ Drain
    /\ UNCHANGED <<message, flying, landed, lost, good>>
    /\ IF cache[peer_list[peer]] \ {Noise} # {} THEN NextPeer ELSE AttemptFails

\* One look after the propagation delay: of the messages of the test's
\* content topic there is exactly one, and it is the one just published.
LookOnce ==
    LET test_messages == cache[peer_list[peer]] \ {Noise}
    IN  /\ spc = "check"
        /\ prompt => flying = {}
        /\ Drain
        /\ UNCHANGED <<message, flying, landed, lost, good>>
        /\ IF test_messages = {message} THEN NextPeer ELSE AttemptFails

check_published_message_reaches_relay_peer == step = "relay" /\ LookOnce

check_light_pushed_message_reaches_receiving_peer ==
    step = "lightpush" /\ LookOnce

check_published_message_reaches_filter_peer == step = "filter" /\ LookOnce

\* The records a polling wait needs: one, or as many as were published.
Count == IF step = "sharding" THEN 1 ELSE Batch

\* wait_until with wait_for_relay_messages' condition: the records of all
\* polls are collected; a GET that raises is polled through.  tenacity looks
\* at its time after a poll, never instead of one.
Poll ==
    /\ spc = "check"
    /\ UNCHANGED <<message, flying, landed, good>>
    /\ \/ LET messages == collected \cup cache[peer_list[peer]]
          IN  /\ Drain /\ UNCHANGED lost
              /\ IF Cardinality(messages) < Count
                 THEN \/ /\ collected' = messages
                         /\ UNCHANGED <<step, spc, peer, prompt>>
                      \/ AttemptFails
                 ELSE IF step = "sharding" /\ messages # {message}
                      THEN AttemptFails ELSE NextPeer
       \/ /\ Drain \/ UNCHANGED cache
          /\ \/ /\ lost' = (lost \/ cache' # cache)
                /\ UNCHANGED <<step, spc, peer, collected, prompt>>
             \/ lost' = TRUE /\ AttemptFails

check_published_message_reaches_shard_peer == step = "sharding" /\ Poll

wait_for_relay_messages == step = "collect" /\ Poll

\* What a store node answers: its records in the order of their timestamps.
InOrder(records) ==
    {s \in [1 .. Cardinality(records) -> records] :
        \A i, j \in DOMAIN s : i < j => s[i] < s[j]}

\* check_published_message_is_stored at one store node, within
\* wait_for_published_message_is_stored: the last record is the one message
\* to check, or the records agree with all of them by position.  A failed
\* check starts again at the first node.
StoreAgrees(messages) ==
    /\ messages # << >>
    /\ IF step = "storeLast" THEN messages[Len(messages)] = message
       ELSE /\ Len(messages) >= message
            /\ \A i \in 1 .. message : messages[i] = i

check_published_message_is_stored ==
    /\ spc = "check" /\ step \in {"storeLast", "storeAll"}
    /\ UNCHANGED <<message, cache, flying, landed, lost, good>>
    /\ \E messages \in InOrder(cache[peer_list[peer]]) :
        \/ StoreAgrees(messages) /\ NextPeer
        \/ peer' = 1 /\ UNCHANGED <<step, spc, collected, prompt>>
        \/ ~StoreAgrees(messages) /\ AttemptFails

\* check_sent_message_is_stored: one look at each node, and the hashes
\* expected are among those returned.
check_sent_message_is_stored ==
    /\ spc = "check" /\ step = "storeHashes"
    /\ UNCHANGED <<message, cache, flying, landed, lost, good>>
    /\ \/ Awaited \subseteq cache[peer_list[peer]] /\ NextPeer
       \/ AttemptFails

\* wait_for_fleet_store_messages: the store is asked until it has the message.
wait_for_fleet_store_messages ==
    /\ spc = "check" /\ step = "fleet"
    /\ UNCHANGED <<message, cache, flying, landed, lost, good>>
    /\ \/ cache[peer_list[peer]] # {} /\ NextPeer
       \/ AttemptFails

StepsNext ==
    \/ Send \/ light_push_through_fleet \/ Land \/ Lose \/ OthersPublish \/ Settle \/ GetRaises
    \/ check_published_message_reaches_relay_peer
    \/ check_light_pushed_message_reaches_receiving_peer
    \/ check_published_message_reaches_filter_peer
    \/ check_published_message_reaches_shard_peer
    \/ wait_for_relay_messages
    \/ check_published_message_is_stored
    \/ check_sent_message_is_stored
    \/ wait_for_fleet_store_messages

StepsSpec == StepsInit /\ [][StepsNext]_stepVars
-----------------------------------------------------------------------------
\* The type of the state.
StepsTypeOK ==
    /\ step \in Steps /\ spc \in {"publish", "check", "passed", "failed"}
    /\ message \in 0 .. Batch /\ peer \in DOMAIN peer_list
    /\ cache \in [Peers -> SUBSET (0 .. Old)]
    /\ flying \subseteq (1 .. Old) \X Peers
    /\ landed \subseteq (1 .. Batch) \X Peers
    /\ collected \subseteq 1 .. Batch
    /\ {prompt, lost} \subseteq BOOLEAN /\ good \in 0 .. GoodCap

\* The verdict of a step is right.  One that passes has seen its message at
\* every node it looks at: never one that an earlier attempt published and
\* that came late, nor one of another participant (the assertions of the
\* check_published steps).  A wait that polls fails only if a message it waits
\* for had not reached a node at its last look: what a GET drained is kept
\* across the polls ("they are collected across polls",
\* wait_for_relay_messages).
VerdictRight ==
    /\ spc = "passed" => Awaited \X Peers \subseteq landed
    /\ spc = "failed" /\ step \in {"sharding", "collect"} /\ ~lost =>
        ~(Awaited \X Peers \subseteq landed)

\* Once the network has settled, publishing again heals: however many
\* messages of earlier attempts wait in the caches, the retried steps pass
\* after at most one attempt per node and one more (a failed attempt empties
\* the cache of the node it failed at, and not of the ones after it).
HealsInTime == good <= Len(peer_list) + 1
=============================================================================
