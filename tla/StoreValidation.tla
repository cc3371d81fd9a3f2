-------------------------- MODULE StoreValidation --------------------------
(* The Store validation loop of the send service: which propagated tasks   *)
(* it asks a Store peer about, what it does with the answer, and the       *)
(* resends of the messages that the answer lacks (send_service.nim,        *)
(* lightpush_processor.nim). SendService has the deliver calls that wait   *)
(* for this loop; here a deliver is only its wait.                         *)
EXTENDS WaitQueues, FiniteSets

CONSTANTS
    Requests,             \* the tasks that await Store validation in a run
    HashOf,               \* the message hash of each request
    PageSize,             \* MaxPageSize of the Store protocol
    MaxStoreMissResends,
    MaxStops              \* bound: stops of the client in a run

ASSUME StoreAssumption ==
    /\ IsFiniteSet(Requests)
    /\ PageSize \in Nat \ {0}
    /\ MaxStoreMissResends \in Nat /\ MaxStops \in Nat

VARIABLES
    client,        \* "started", "stopping" or "stopped"
    waits,         \* the storeAnswer of each request: "none", "pending",
                   \* "complete", "cancelled", or "over" once the task got its
                   \* last event
    order,         \* the queued propagated tasks by storeValidationKey
    ripe,          \* how many of them have a key older than archiveTime
    loop,          \* storeValidationLoop: "off", "sleep" or "query"
    batch,         \* the tasks of the pending query
    resendCount,   \* resendCount of each task
    publishing,    \* the resends of each task that run
    passedOver,    \* ghost: queries since a ripe task last was in one
    stops,         \* stops so far
    handles        \* the resends that a stop cancels and waits for

svVars == <<client, waits, order, ripe, loop, batch, resendCount, publishing,
            passedOver, stops, handles>>

SVTypeOK ==
    /\ client \in {"started", "stopping", "stopped"}
    /\ waits \in [Requests -> {"none", "pending", "complete", "cancelled", "over"}]
    /\ order \in Seq(Requests) /\ ripe \in 0..Len(order)
    /\ loop \in {"off", "sleep", "query"}
    /\ batch \in Seq(Requests)
    /\ resendCount \in [Requests -> Nat]
    /\ publishing \in [Requests -> Nat]
    /\ passedOver \in [Requests -> Nat]
    /\ stops \in Nat
    /\ handles \subseteq Requests

SVInit ==
    /\ client = "started" /\ loop = "sleep"
    /\ waits = [r \in Requests |-> "none"]
    /\ order = <<>> /\ ripe = 0 /\ batch = <<>>
    /\ resendCount = [r \in Requests |-> 0]
    /\ publishing = [r \in Requests |-> 0]
    /\ passedOver = [r \in Requests |-> 0]
    /\ stops = 0 /\ handles = {}

----------------------------------------------------------------------------
(* The deliver calls: waitForStoreValidation.                              *)

\* storeAnswerPending
StoreAnswerPending(r) == waits[r] = "pending"

Hashes == {HashOf[r] : r \in Requests}

\* A task propagates and starts to wait; the queue has a message once.
Propagates(r) ==
    /\ client # "stopped"
    /\ waits[r] = "none" /\ ~InSeq(r, order)
    /\ \A i \in DOMAIN order : HashOf[order[i]] # HashOf[r]
    /\ waits' = [waits EXCEPT ![r] = "pending"]
    /\ order' = Append(order, r)
    /\ UNCHANGED <<client, ripe, loop, batch, resendCount, publishing, passedOver,
                   stops, handles>>

\* After a restart the task waits again. Its key is the one it had.
WaitsAgain(r) ==
    /\ client = "started"
    /\ waits[r] = "none" /\ InSeq(r, order)
    /\ waits' = [waits EXCEPT ![r] = "pending"]
    /\ UNCHANGED <<client, order, ripe, loop, batch, resendCount, publishing,
                   passedOver, stops, handles>>

\* finish: the task leaves the queue.
Leaves(r) ==
    /\ waits' = [waits EXCEPT ![r] = "over"]
    /\ order' = Without(order, r)
    /\ ripe' = IF \E i \in 1..ripe : order[i] = r THEN ripe - 1 ELSE ripe
    /\ passedOver' = [passedOver EXCEPT ![r] = 0]
    /\ UNCHANGED <<client, loop, batch, resendCount, publishing, stops, handles>>

\* The deliver sees the answer.
Confirmed(r) == waits[r] = "complete" /\ Leaves(r)

\* The waits of the task add up to maxValidationAge.
TimesOut(r) == StoreAnswerPending(r) /\ Leaves(r)

\* A deliver that a stop cancelled ends its wait, also one that the task began
\* after the cancel of the others. An answer that it did not see is lost.
CancelWait(r) ==
    /\ client = "stopping"
    /\ waits[r] \in {"pending", "complete", "cancelled"}
    /\ waits' = [waits EXCEPT ![r] = "none"]
    /\ passedOver' = [passedOver EXCEPT ![r] = 0]
    /\ UNCHANGED <<client, order, ripe, loop, batch, resendCount, publishing, stops,
                   handles>>

----------------------------------------------------------------------------
(* The rounds of storeValidationLoop.                                      *)

\* The oldest key that is not yet older than archiveTime gets there.
Ripens ==
    /\ ripe < Len(order)
    /\ ripe' = ripe + 1
    /\ UNCHANGED <<client, waits, order, loop, batch, resendCount, publishing,
                   passedOver, stops, handles>>

Eligible == {i \in 1..ripe : StoreAnswerPending(order[i])}

\* The first PageSize members of a set of positions.
FirstPage(S) == {i \in S : Cardinality({j \in S : j < i}) < PageSize}

\* Faulty: takes the tasks that were asked about last.
NextStoreValidationBatchNewest ==
    {i \in Eligible : Cardinality({j \in Eligible : j > i}) < PageSize}

\* nextStoreValidationBatch: the positions of its tasks in `order`.
NextStoreValidationBatch == FirstPage(Eligible)

\* The orders of a set of positions: tasks of one query get the same key, and
\* the queue decides between them.
Orders(S) == {f \in [1..Cardinality(S) -> S] :
                 \A i, j \in 1..Cardinality(S) : f[i] = f[j] => i = j}

\* `order` without the positions S.
Rest(S) ==
    [i \in 1..(Len(order) - Cardinality(S)) |->
        order[CHOOSE k \in DOMAIN order \ S :
                 Cardinality({j \in DOMAIN order \ S : j <= k}) = i]]

\* Faulty: waits for the resends.
AskAfterResends ==
    /\ loop = "sleep" /\ Eligible # {}
    /\ \A r \in Requests : publishing[r] = 0
    /\ LET asked == NextStoreValidationBatch IN
       \E f \in Orders(asked) :
         LET tasks == [i \in DOMAIN f |-> order[f[i]]] IN
         /\ batch' = tasks
         /\ order' = Rest(asked) \o tasks
         /\ ripe' = ripe - Cardinality(asked)
    /\ loop' = "query"
    /\ UNCHANGED <<client, waits, resendCount, publishing, passedOver, stops,
                   handles>>

\* A round with a batch and a Store peer, up to its query: the tasks get a new
\* key. A round without either changes nothing.
Ask ==
    /\ loop = "sleep" /\ Eligible # {}
    /\ LET asked == NextStoreValidationBatch IN
       \E f \in Orders(asked) :
         LET tasks == [i \in DOMAIN f |-> order[f[i]]] IN
         /\ batch' = tasks
         /\ order' = Rest(asked) \o tasks
         /\ ripe' = ripe - Cardinality(asked)
         /\ passedOver' = [r \in Requests |->
              IF InSeq(r, tasks) THEN 0
              ELSE IF \E i \in Eligible : order[i] = r THEN passedOver[r] + 1
              ELSE passedOver[r]]
    /\ loop' = "query"
    /\ UNCHANGED <<client, waits, resendCount, publishing, stops, handles>>

\* The end of a round. The cancel of a stop meets the sleep after it.
RoundEnds ==
    /\ loop' = IF client = "started" THEN "sleep" ELSE "off"
    /\ batch' = <<>>

\* The query times out or fails.
QueryFails ==
    /\ loop = "query"
    /\ RoundEnds
    /\ UNCHANGED <<client, waits, order, ripe, resendCount, publishing, passedOver,
                   stops, handles>>

\* Faulty: does not look for a resend that runs.
MayResendAnytime(r) == resendCount[r] < MaxStoreMissResends

\* The guard of startResend. The table has no resend of an earlier stop's clear.
MayResend(r) ==
    /\ resendCount[r] < MaxStoreMissResends
    /\ \A q \in Requests :
         HashOf[q] = HashOf[r] => publishing[q] = 0 \/ q \in handles

\* Faulty: sends again what the answer lacks, whether or not its task waits.
MissedAsAsked(reported) ==
    {r \in Requests : InSeq(r, batch) /\ HashOf[r] \notin reported}

\* The tasks of the batch that a full answer lacks and that still wait.
Missed(reported) ==
    {r \in Requests : /\ InSeq(r, batch)
                      /\ HashOf[r] \notin reported
                      /\ StoreAnswerPending(r)}

\* checkMsgsInStore from the answer on. The peer decides which hashes it lists,
\* asked or not. A resend starts, and counts, only with a lightpush peer.
Answer ==
    /\ loop = "query"
    /\ \E reported \in SUBSET Hashes, partial, peers \in BOOLEAN :
         /\ waits' = [r \in Requests |->
              IF HashOf[r] \in reported /\ StoreAnswerPending(r) THEN "complete"
                                                                ELSE waits[r]]
         /\ LET resent == IF partial \/ ~peers THEN {}
                          ELSE {r \in Missed(reported) : MayResend(r)}
                started(count) == [r \in Requests |-> IF r \in resent THEN count[r] + 1
                                                                      ELSE count[r]]
            IN  /\ resendCount' = started(resendCount)
                /\ publishing' = started(publishing)
    /\ RoundEnds
    /\ UNCHANGED <<client, order, ripe, passedOver, stops, handles>>

\* A resend ends: its answer, its error or ResendTimeout; or a stop cancels it.
ResendEnds(r) ==
    /\ publishing[r] > 0
    /\ publishing' = [publishing EXCEPT ![r] = @ - 1]
    /\ handles' = handles \ {r}
    /\ UNCHANGED <<client, waits, order, ripe, loop, batch, resendCount, passedOver,
                   stops>>

----------------------------------------------------------------------------
(* stopSendService and startSendService.                                   *)

\* Faulty: the deliver calls are cancelled after the others.
StopKeepsWaits ==
    /\ client = "started" /\ stops < MaxStops
    /\ client' = "stopping" /\ stops' = stops + 1
    /\ handles' = {r \in Requests : publishing[r] > 0}
    /\ loop' = IF loop = "sleep" THEN "off" ELSE loop
    /\ UNCHANGED <<waits, order, ripe, batch, resendCount, publishing, passedOver>>

\* stopSendService up to its await: the resends that run are taken out of their
\* table, and the cancels are sent. A sleep, and the storeAnswer of a waiting
\* deliver, end with the cancel; a query that has its answer does not see it.
Stop ==
    /\ client = "started" /\ stops < MaxStops
    /\ client' = "stopping" /\ stops' = stops + 1
    /\ handles' = {r \in Requests : publishing[r] > 0}
    /\ waits' = [r \in Requests |-> IF StoreAnswerPending(r) THEN "cancelled"
                                                            ELSE waits[r]]
    /\ loop' = IF loop = "sleep" THEN "off" ELSE loop
    /\ UNCHANGED <<order, ripe, batch, resendCount, publishing, passedOver>>

\* The cancel reaches a query that is still pending.
CancelRound ==
    /\ client = "stopping" /\ loop = "query"
    /\ RoundEnds
    /\ UNCHANGED <<client, waits, order, ripe, resendCount, publishing, passedOver,
                   stops, handles>>

\* cancelAndWait returns once the loop, the deliver calls and the resends that it
\* was given have ended.
StopEnds ==
    /\ client = "stopping"
    /\ loop = "off" /\ handles = {}
    /\ \A r \in Requests : waits[r] \in {"none", "over"}
    /\ client' = "stopped"
    /\ UNCHANGED <<waits, order, ripe, loop, batch, resendCount, publishing,
                   passedOver, stops, handles>>

Start ==
    /\ client = "stopped"
    /\ client' = "started" /\ loop' = "sleep"
    /\ UNCHANGED <<waits, order, ripe, batch, resendCount, publishing, passedOver,
                   stops, handles>>

SVNext ==
    \/ \E r \in Requests :
         \/ Propagates(r) \/ WaitsAgain(r) \/ Confirmed(r) \/ TimesOut(r)
         \/ CancelWait(r) \/ ResendEnds(r)
    \/ Ripens \/ Ask \/ QueryFails \/ Answer
    \/ Stop \/ CancelRound \/ StopEnds \/ Start

SVSpec == SVInit /\ [][SVNext]_svVars

\* A query ends by StoreValidationQueryTimeout, sleeps and archive times end, a
\* Store peer is there, and deliver calls that are resumed or cancelled go on.
\* No lightpush peer owes an answer while the client runs, and no task has to
\* time out.
FairSV ==
    /\ SVSpec
    /\ WF_svVars(Ripens) /\ WF_svVars(Ask) /\ WF_svVars(QueryFails \/ Answer)
    /\ WF_svVars(CancelRound) /\ WF_svVars(StopEnds) /\ WF_svVars(Start)
    /\ \A r \in Requests :
         /\ WF_svVars(WaitsAgain(r)) /\ WF_svVars(Confirmed(r))
         /\ WF_svVars(CancelWait(r) \/ (client = "stopping" /\ TimesOut(r)))
         /\ WF_svVars(client = "stopping" /\ ResendEnds(r))

----------------------------------------------------------------------------
(* Properties.                                                             *)

\* The types; and a message has at most one resend at a time, also when it is
\* sent anew after its task ended, and a task at most MaxStoreMissResends in all,
\* over every stop and restart (send_service.nim, startResend).
SVInv ==
    /\ SVTypeOK
    /\ \A r \in Requests : resendCount[r] <= MaxStoreMissResends
    /\ \A r, q \in Requests :
         /\ publishing[r] <= 1
         /\ publishing[r] > 0 /\ publishing[q] > 0 /\ HashOf[r] = HashOf[q] => r = q

\* A task that may be asked about is asked once all that are older were: no
\* Store page size lets newer tasks pass it again and again.
NoStarvation ==
    \A r \in Requests :
        passedOver[r] * PageSize <= Cardinality(Hashes) - 1

\* No resend outlives a stop (send_service.nim, stopSendService, cancels "each
\* resend"), although a round that has its answer goes on after the table of the
\* resends is cleared: it finds no task that waits, so it starts no resend that
\* the stop would neither cancel nor wait for.
NoResendAfterStop ==
    client = "stopped" => \A r \in Requests : publishing[r] = 0

\* No message is twice in a sequence of tasks.
OncePerHash(tasks) ==
    \A i, j \in DOMAIN tasks : HashOf[tasks[i]] = HashOf[tasks[j]] => i = j

\* A task that was passed over moved forward by a page each time, so its place
\* and the times it was passed over are bounded together.
TurnComes ==
    /\ \A p \in DOMAIN order :
         passedOver[order[p]] * PageSize + p <= Cardinality(Hashes)
    /\ \A r \in Requests : ~InSeq(r, order) => passedOver[r] = 0

\* What a stop leaves for a round to find: the tasks of its query no longer wait,
\* and the resends that run are the ones that the stop waits for.
StopTakesAll ==
    /\ client = "started" => loop # "off" /\ handles = {}
    /\ client = "stopping" => loop # "sleep"
    /\ client = "stopped" => loop = "off" /\ handles = {}
    /\ client # "started" =>
         /\ \A r \in Requests : publishing[r] > 0 => r \in handles
         /\ \A i \in DOMAIN batch : waits[batch[i]] # "pending"
    /\ \A i \in DOMAIN batch : InSeq(batch[i], order) \/ waits[batch[i]] = "over"

\* SVInv; no message is queued twice or asked about twice in a query; the turns,
\* which bound the times a task is passed over; and a batch is there only while
\* its query runs.
RoundsInv ==
    /\ SVInv
    /\ OncePerHash(order) /\ OncePerHash(batch)
    /\ TurnComes
    /\ loop # "query" => batch = <<>>

\* The inductive invariant: what the rounds keep, and what a stop takes from them.
StoreInv == RoundsInv /\ StopTakesAll

\* A message is sent again only while its task waits, after a query that asked
\* about it: not once it is confirmed or has failed while the query ran.
ResentOnlyWhileWaiting ==
    [][\A r \in Requests :
          resendCount'[r] # resendCount[r] =>
              InSeq(r, batch) /\ waits[r] = "pending" /\ waits'[r] = "pending"]_svVars

\* "a slow lightpush peer does not stop the Store rounds of the other tasks"
\* (send_service.nim, checkMsgsInStore): every waiting task gets its query, even
\* if no resend ever ends.
AskedInTheEnd ==
    \A r \in Requests : waits[r] = "pending" ~> InSeq(r, batch) \/ waits[r] # "pending"

============================================================================
