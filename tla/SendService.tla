---------------------------- MODULE SendService ----------------------------
(* The send service of the messaging layer: one `deliver` per queued       *)
(* message, with its admission, its send attempts, its retries and its     *)
(* Store confirmation, under stops and restarts of the client              *)
(* (messaging/delivery_service/send_service).                              *)
(*                                                                         *)
(* One event loop runs all of it, so an action is the code from one await  *)
(* to the next. A call that does not have to wait goes on at once in the   *)
(* code; here others may step in between, which only adds behaviours.      *)
(* The completions that resume one deliver step by step are one action.    *)
EXTENDS NonceManager, RateLimitManager, WaitQueues, FiniteSets

CONSTANTS
    Requests,             \* request ids
    HashOf,               \* the message hash of each request
    Ephemeral,            \* requests whose message is ephemeral
    TooLarge,             \* requests whose message does not fit into mix
    Reliability,          \* checkStoreForMessages
    AnonymityLevel,       \* "None", "Preferred" or "Required"
    HasRelay,             \* waku.hasRelay()
    HasLightpush,         \* waku.hasLightpush()
    MixMounted,           \* waku.mixMounted()
    Rln,                  \* an RLN backend with proofs and a quota is mounted
    ProofRefresh,         \* the backend refreshes on a rejected proof
    TimestampGap,         \* epochs that a message timestamp may lag behind
    SendQueueCapacity,    \* sendQueueCapacity
    MaxSendsInFlight,     \* slots of sendSlots
    LastEpoch,            \* bound: the last epoch of a run
    MaxStops              \* bound: stops of the client in a run

ASSUME SendAssumption ==
    /\ IsFiniteSet(Requests)
    /\ Ephemeral \subseteq Requests /\ TooLarge \subseteq Requests
    /\ {Reliability, HasRelay, HasLightpush, MixMounted, Rln, ProofRefresh}
         \subseteq BOOLEAN
    /\ AnonymityLevel \in {"None", "Preferred", "Required"}
    /\ HasRelay \/ HasLightpush                     \* else the chain is refused
    /\ AnonymityLevel # "None" => HasLightpush
    /\ {TimestampGap, LastEpoch, MaxStops} \subseteq Nat
    /\ SendQueueCapacity \in Nat \ {0} /\ MaxSendsInFlight \in Nat \ {0}

VARIABLES
    client,      \* "started", "stopping" or "stopped"
    queue,       \* deliveryTasks, in queue order
    soon,        \* callbacks that the event loop has still to run, in order
    phase,       \* where the deliver of each request is suspended
    lockQ,       \* admissionLock: its holder, then its waiters
    slotQ,       \* sendSlots: its holders, then its waiters
    tickQ,       \* the deliver calls that wait for retryTick, in order
    via,         \* the processor of the chain that an attempt has reached
    task,        \* the DeliveryTask of each request
    asked,       \* the epoch that the pending quota read asks for
    mgr,         \* the RateLimitManager
    nonces,      \* the message id counter of the RLN backend
    epoch,       \* the epoch of the wall clock, the same for RLN
    events,      \* what the application was told about each request
    answer,      \* what `send` returned: "none" before the call
    stops,       \* stops so far
    cancels      \* the deliver calls that the cancel of a stop has yet to reach

sendVars == <<client, queue, soon, phase, lockQ, slotQ, tickQ, via, task, asked,
              mgr, nonces, epoch, events, answer, stops, cancels>>

\* DeliveryState. A task that reaches SuccessfullyValidated is dropped at once.
States == {"Entry", "SuccessfullyPropagated", "FallbackRetry", "NextRoundRetry",
           "FailedToDeliver"}

\* "lock" and "slot" are in the queue of admissionLock and of sendSlots, the
\* holders included; "quota", "admit" and "prove" hold the lock; "wire" holds a
\* slot while a publish is pending; "woken" has its wake-up in `soon`;
\* "answered" has a Store answer that it has not seen yet.
Phases == {"none", "lock", "quota", "admit", "prove", "slot", "wire", "tick",
           "woken", "store", "answered"}

\* age counts the limits that the time since the admission has passed: at
\* "None" maxDeliveryTime; at "Preferred" the mix window, then maxDeliveryTime;
\* at "Required" MixUnusableGrace, then maxDeliveryTime.
\* owed counts the budget charges of a task that no proof has used yet.
MaxDeliveryAge == IF AnonymityLevel = "None" THEN 1 ELSE 2

Task == [state : States, admitted : BOOLEAN, age : 0..2, old : BOOLEAN,
         epoch : Nat, proof : BOOLEAN, propagated : BOOLEAN,
         propagatedEventEmitted : BOOLEAN, queuedEventEmitted : BOOLEAN,
         propagatedAnonymously : BOOLEAN, storeSpent : BOOLEAN, owed : Int]

NewTask(e) ==
    [state |-> "Entry", admitted |-> FALSE, age |-> 0, old |-> FALSE,
     epoch |-> e, proof |-> FALSE, propagated |-> FALSE,
     propagatedEventEmitted |-> FALSE, queuedEventEmitted |-> FALSE,
     propagatedAnonymously |-> FALSE, storeSpent |-> FALSE, owed |-> 0]

Events == {"queued", "propagated", "sent", "error"}

\* setupSendProcessorChain
Chain ==
    (IF AnonymityLevel # "None" THEN <<"mix">> ELSE <<>>)
    \o (IF HasRelay /\ AnonymityLevel # "Required" THEN <<"relay">> ELSE <<>>)
    \o (IF HasLightpush /\ AnonymityLevel # "Required" THEN <<"lightpush">> ELSE <<>>)

SendTypeOK ==
    /\ client \in {"started", "stopping", "stopped"}
    /\ queue \in Seq(Requests)
    /\ soon \in Seq([call : {"deliver", "wake"}, of : Requests])
    /\ phase \in [Requests -> Phases]
    /\ lockQ \in Seq(Requests) /\ slotQ \in Seq(Requests) /\ tickQ \in Seq(Requests)
    /\ via \in [Requests -> 1..Len(Chain)]
    /\ task \in [Requests -> Task]
    /\ asked \in Nat /\ epoch \in Nat /\ stops \in Nat
    /\ mgr \in Manager
    /\ nonces \in Counter
    /\ cancels \subseteq Requests
    /\ events \in [Requests -> Seq(Events)]
    /\ answer \in [Requests -> {"none", "ok", "folded", "full"}]

\* The first epoch is 1: the index 0 of a fresh manager is in the past.
SendInit ==
    /\ client = "started"
    /\ queue = <<>> /\ soon = <<>>
    /\ phase = [r \in Requests |-> "none"]
    /\ lockQ = <<>> /\ slotQ = <<>> /\ tickQ = <<>>
    /\ via = [r \in Requests |-> 1]
    /\ task = [r \in Requests |-> NewTask(1)]
    /\ asked = 1 /\ epoch = 1 /\ stops = 0 /\ cancels = {}
    /\ mgr = FreshManager
    /\ nonces = FreshCounter
    /\ events = [r \in Requests |-> <<>>]
    /\ answer = [r \in Requests |-> "none"]

----------------------------------------------------------------------------

HoldsLock(r) == lockQ # <<>> /\ Head(lockQ) = r
HoldsSlot(r) == \E i \in DOMAIN slotQ : i <= MaxSendsInFlight /\ slotQ[i] = r

StoreConfirmationExpected(r) == Reliability /\ r \notin Ephemeral

\* Faulty: asks the Store about a message that went out over mix.
AwaitsStoreValidationAnyPath(r, t) ==
    StoreConfirmationExpected(r) /\ t.state = "SuccessfullyPropagated"

AwaitsStoreValidation(r, t) ==
    /\ StoreConfirmationExpected(r)
    /\ t.state = "SuccessfullyPropagated"
    /\ ~t.propagatedAnonymously

NeedsRlnProof(t) == Rln /\ ~t.proof

NeedsAdmission(t) == ~t.admitted \/ NeedsRlnProof(t)

\* Faulty: a parked task never gets too old.
ExpiredOnceAdmitted(t) ==
    t.admitted /\ ~t.propagated /\ t.age >= MaxDeliveryAge

\* isDeliveryTimedOut, or isParkedExpired
Expired(t) ==
    \/ t.admitted /\ ~t.propagated /\ t.age >= MaxDeliveryAge
    \/ ~t.admitted /\ t.old

----------------------------------------------------------------------------
(* How a step leaves the deliver of `r`: `t` is its task and `ev` are the  *)
(* events of the step.                                                     *)

Becomes(r, t, ev, where) ==
    /\ task' = [task EXCEPT ![r] = t]
    /\ events' = [events EXCEPT ![r] = @ \o ev]
    /\ phase' = [phase EXCEPT ![r] = where]

\* Faulty: the entry stays in the queue.
FinishKeepsEntry(r, ev) ==
    /\ task' = [task EXCEPT ![r] = NewTask(1)]
    /\ events' = [events EXCEPT ![r] = @ \o ev]
    /\ phase' = [phase EXCEPT ![r] = "none"]
    /\ UNCHANGED queue

\* finish, after the last event. The task is dropped with its queue entry.
Finish(r, ev) ==
    /\ Becomes(r, NewTask(1), ev, "none")
    /\ queue' = Without(queue, r)

Fail(r, ev) == Finish(r, Append(ev, "error"))

\* The part of deliver after the propagation, up to its wait for the Store.
AfterPropagation(r, t, ev) ==
    IF ~AwaitsStoreValidation(r, t) THEN Finish(r, ev)
    ELSE IF t.storeSpent THEN Fail(r, ev)
    ELSE Becomes(r, t, ev, "store") /\ UNCHANGED queue

\* The events of reportPropagated.
PropagatedEvents(r, t) ==
    IF t.propagatedAnonymously /\ StoreConfirmationExpected(r)
      THEN <<"propagated", "sent">>
      ELSE <<"propagated">>

\* The end of an attempt in sendUntilPropagated.
EndAttempt(r, t, ev) ==
    LET retry == [t EXCEPT !.state = "NextRoundRetry"] IN
    \/ /\ t.state = "SuccessfullyPropagated"
       /\ AfterPropagation(r, [t EXCEPT !.propagatedEventEmitted = TRUE],
                           ev \o PropagatedEvents(r, t))
       /\ UNCHANGED tickQ
    \/ /\ t.state = "FailedToDeliver"
       /\ Fail(r, ev)
       /\ UNCHANGED tickQ
    \/ /\ t.state \notin {"SuccessfullyPropagated", "FailedToDeliver"}
       /\ Expired(retry)
       /\ Fail(r, ev)
       /\ UNCHANGED tickQ
    \/ /\ t.state \notin {"SuccessfullyPropagated", "FailedToDeliver"}
       /\ ~Expired(retry)
       /\ Becomes(r, retry, ev, "tick")
       /\ tickQ' = Append(tickQ, r)
       /\ UNCHANGED queue

\* The start of an attempt: through admission, or straight to a slot.
BeginAttempt(r) ==
    IF NeedsAdmission(task[r])
      THEN /\ phase' = [phase EXCEPT ![r] = "lock"]
           /\ lockQ' = Append(lockQ, r)
           /\ UNCHANGED <<slotQ, via>>
      ELSE /\ phase' = [phase EXCEPT ![r] = "slot"]
           /\ slotQ' = Append(slotQ, r)
           /\ via' = [via EXCEPT ![r] = 1]
           /\ UNCHANGED lockQ

----------------------------------------------------------------------------
(* `send` and the callbacks of the event loop.                             *)

Callback(call, r) == [call |-> call, of |-> r]

\* Faulty: does not look for the message in the queue.
SendUnfolded(r) ==
    /\ client = "started"
    /\ answer[r] = "none"
    /\ Len(queue) < SendQueueCapacity
    /\ answer' = [answer EXCEPT ![r] = "ok"]
    /\ queue' = Append(queue, r)
    /\ soon' = Append(soon, Callback("deliver", r))
    /\ task' = [task EXCEPT ![r] = NewTask(epoch)]
    /\ UNCHANGED <<client, phase, lockQ, slotQ, tickQ, via, asked, mgr, nonces,
                   epoch, events, stops, cancels>>

\* enqueue, for a started client: a message that the queue already has is
\* folded into the queued request, and a full queue refuses.
Send(r) ==
    /\ client = "started"
    /\ answer[r] = "none"
    /\ LET folded == \E i \in DOMAIN queue : HashOf[queue[i]] = HashOf[r]
           full == Len(queue) >= SendQueueCapacity
       IN  /\ answer' = [answer EXCEPT ![r] = IF folded THEN "folded"
                                             ELSE IF full THEN "full" ELSE "ok"]
           /\ IF folded \/ full
                THEN UNCHANGED <<queue, soon, task>>
                ELSE /\ queue' = Append(queue, r)
                     /\ soon' = Append(soon, Callback("deliver", r))
                     /\ task' = [task EXCEPT ![r] = NewTask(epoch)]
    /\ UNCHANGED <<client, phase, lockQ, slotQ, tickQ, via, asked, mgr, nonces,
                   epoch, events, stops, cancels>>

\* Faulty: a restarted task is sent again, propagated or not.
StartDeliverAfresh(r) ==
    /\ soon # <<>> /\ Head(soon) = Callback("deliver", r)
    /\ soon' = Tail(soon)
    /\ IF client = "started" /\ phase[r] = "none" /\ InSeq(r, queue)
         THEN BeginAttempt(r)
         ELSE UNCHANGED <<phase, lockQ, slotQ, via>>
    /\ UNCHANGED <<client, queue, tickQ, task, asked, mgr, nonces, epoch, events,
                   answer, stops, cancels>>

\* The callback of startDeliverSoon. A task that has propagated is not sent again.
StartDeliver(r) ==
    /\ soon # <<>> /\ Head(soon) = Callback("deliver", r)
    /\ soon' = Tail(soon)
    /\ IF client = "started" /\ phase[r] = "none" /\ InSeq(r, queue)
         THEN IF task[r].propagatedEventEmitted
                THEN /\ AfterPropagation(r, task[r], <<>>)
                     /\ UNCHANGED <<lockQ, slotQ, via>>
                ELSE /\ BeginAttempt(r)
                     /\ UNCHANGED <<task, events, queue>>
         ELSE UNCHANGED <<phase, lockQ, slotQ, via, task, events, queue>>
    /\ UNCHANGED <<client, tickQ, asked, mgr, nonces, epoch, answer, stops,
                   cancels>>

\* A deliver that retryNow woke starts its next attempt.
Wake(r) ==
    /\ soon # <<>> /\ Head(soon) = Callback("wake", r)
    /\ soon' = Tail(soon)
    /\ BeginAttempt(r)
    /\ UNCHANGED <<client, queue, tickQ, task, asked, mgr, nonces, epoch, events,
                   answer, stops, cancels>>

\* One round of retryLoop: retryNow wakes the waiting tasks in their order.
RetryNow ==
    /\ client = "started"
    /\ tickQ # <<>>
    /\ soon' = soon \o [i \in DOMAIN tickQ |-> Callback("wake", tickQ[i])]
    /\ phase' = [r \in Requests |-> IF InSeq(r, tickQ) THEN "woken" ELSE phase[r]]
    /\ tickQ' = <<>>
    /\ UNCHANGED <<client, queue, lockQ, slotQ, via, task, asked, mgr, nonces,
                   epoch, events, answer, stops, cancels>>

----------------------------------------------------------------------------
(* admitAndProve, under admissionLock.                                     *)

LeaveLock(r) == lockQ' = Without(lockQ, r)

\* Admission ends without a send: the finally of runAdmission, and the attempt
\* with it.
NotAdmitted(r, t, ev) ==
    /\ LeaveLock(r)
    /\ EndAttempt(r, t, ev)

\* checkBeforeAdmission: what does not fit into mix fails before it costs
\* budget or a message id.
CheckFails(r) ==
    /\ HoldsLock(r) /\ phase[r] = "lock"
    /\ AnonymityLevel = "Required" /\ r \in TooLarge
    /\ NotAdmitted(r, [task[r] EXCEPT !.state = "FailedToDeliver"], <<>>)
    /\ UNCHANGED <<client, soon, slotQ, via, asked, mgr, nonces, epoch, answer,
                   stops, cancels>>

\* Faulty: admits what does not fit into mix.
BeginAdmissionUnchecked(r) ==
    /\ HoldsLock(r) /\ phase[r] = "lock"
    /\ phase' = [phase EXCEPT ![r] = IF task[r].admitted THEN "prove" ELSE "admit"]
    /\ asked' = epoch
    /\ UNCHANGED <<client, queue, soon, lockQ, slotQ, tickQ, via, task, mgr,
                   nonces, epoch, events, answer, stops, cancels>>

\* The rate limit manager is asked unless an earlier attempt was admitted.
BeginAdmission(r) ==
    /\ HoldsLock(r) /\ phase[r] = "lock"
    /\ ~(AnonymityLevel = "Required" /\ r \in TooLarge)
    /\ phase' = [phase EXCEPT ![r] = IF task[r].admitted THEN "prove"
                                     ELSE IF r \in Ephemeral THEN "quota"
                                     ELSE "admit"]
    /\ asked' = epoch
    /\ UNCHANGED <<client, queue, soon, lockQ, slotQ, tickQ, via, task, mgr,
                   nonces, epoch, events, answer, stops, cancels>>

\* What rlnQuotaProvider may return for the epoch it asked about: a failed or
\* cancelled read is none, as is a read without RLN.
Quotas ==
    {NoQuota} \cup
    IF Rln THEN {SomeQuota(asked, NonceLimit, NonceLimit - Spent(nonces, asked))}
           ELSE {}

\* The cancels still due after a wait of `r`. A wait that turns a cancel into an
\* ordinary result may have spent it, and a stop has one for each deliver.
CancelsLeft(r, swallows) ==
    {cancels} \cup IF swallows THEN {cancels \ {r}} ELSE {}

\* quotaState for an ephemeral message, which is dropped when budget gets short.
QuotaAnswers(r) ==
    /\ phase[r] = "quota"
    /\ \E quota \in Quotas :
         LET rolled == RefreshEpoch(mgr, quota, epoch) IN
         /\ mgr' = rolled
         /\ cancels' \in CancelsLeft(r, Rln /\ quota = NoQuota)
         /\ IF QuotaState(rolled, quota) = Normal
              THEN /\ phase' = [phase EXCEPT ![r] = "admit"]
                   /\ asked' = epoch
                   /\ UNCHANGED <<lockQ, task, events, queue, tickQ>>
              ELSE /\ NotAdmitted(r, [task[r] EXCEPT !.state = "FailedToDeliver"],
                                  <<>>)
                   /\ UNCHANGED asked
    /\ UNCHANGED <<client, soon, slotQ, via, nonces, epoch, answer, stops>>

\* Faulty: reports every park.
QueuedEventsEachTime(t) == <<"queued">>

\* The events of reportTaskQueued.
QueuedEvents(t) == IF t.queuedEventEmitted THEN <<>> ELSE <<"queued">>

\* admit: charges the epoch, or leaves the task parked for budget.
AdmitAnswers(r) ==
    /\ phase[r] = "admit"
    /\ \E quota \in Quotas :
         LET rolled == RefreshEpoch(mgr, quota, epoch) IN
         /\ cancels' \in CancelsLeft(r, Rln /\ quota = NoQuota)
         /\ IF Admits(rolled, quota)
              THEN /\ mgr' = Charge(rolled)
                   /\ task' = [task EXCEPT ![r].admitted = TRUE, ![r].age = 0,
                                           ![r].owed = @ + 1]
                   /\ phase' = [phase EXCEPT ![r] = "prove"]
                   /\ UNCHANGED <<lockQ, events, queue, tickQ>>
              ELSE /\ mgr' = rolled
                   /\ NotAdmitted(r, [task[r] EXCEPT !.queuedEventEmitted = TRUE],
                                  QueuedEvents(task[r]))
    /\ UNCHANGED <<client, soon, slotQ, via, asked, nonces, epoch, answer, stops>>

\* runAdmission returned true: the lock is free and a slot is next.
Admitted(r) ==
    /\ LeaveLock(r)
    /\ phase' = [phase EXCEPT ![r] = "slot"]
    /\ slotQ' = Append(slotQ, r)
    /\ via' = [via EXCEPT ![r] = 1]
    /\ UNCHANGED <<queue, tickQ, events>>

\* What generateProof answers for the epoch of the message timestamp.
ProofAnswer(t) ==
    IF epoch > t.epoch + TimestampGap THEN "Permanent"
                                      ELSE ReserveAnswer(nonces, t.epoch)

\* attachRlnProof succeeds, with a new proof if the message needs one.
AttachProof(r) ==
    /\ phase[r] = "prove"
    /\ Admitted(r)
    /\ IF NeedsRlnProof(task[r])
         THEN /\ ProofAnswer(task[r]) = "ok"
              /\ nonces' = Reserve(nonces, task[r].epoch)
              /\ task' = [task EXCEPT ![r].proof = TRUE, ![r].owed = @ - 1]
         ELSE UNCHANGED <<nonces, task>>
    /\ UNCHANGED <<client, soon, asked, mgr, epoch, answer, stops, cancels>>

\* Permanent or BudgetExhausted: the task fails.
ProofRefused(r) ==
    /\ phase[r] = "prove"
    /\ NeedsRlnProof(task[r]) /\ ProofAnswer(task[r]) # "ok"
    /\ nonces' = IF epoch > task[r].epoch + TimestampGap
                   THEN nonces ELSE Reserve(nonces, task[r].epoch)
    /\ NotAdmitted(r, [task[r] EXCEPT !.state = "FailedToDeliver"], <<>>)
    /\ UNCHANGED <<client, soon, slotQ, via, asked, mgr, epoch, answer, stops,
                   cancels>>

\* The counter after a proof that was not made: nothing was drawn, or the id
\* came back, or it is lost.
UnusedDraw(t) ==
    {nonces} \cup IF ProofAnswer(t) = "ok"
                   THEN {Rolled(nonces, t.epoch), Reserve(nonces, t.epoch)}
                   ELSE {}

\* NotReady, Transient, or an exception: the task waits for a retry. The proof
\* generation turns a cancel into such an error.
ProofFails(r) ==
    /\ phase[r] = "prove"
    /\ NeedsRlnProof(task[r])
    /\ nonces' \in UnusedDraw(task[r])
    /\ cancels' \in CancelsLeft(r, TRUE)
    /\ NotAdmitted(r, task[r], <<>>)
    /\ UNCHANGED <<client, soon, slotQ, via, asked, mgr, epoch, answer, stops>>

----------------------------------------------------------------------------
(* process: the processors of the chain, under a slot of sendSlots.        *)

Trying(r, processor) ==
    /\ HoldsSlot(r) /\ phase[r] = "slot"
    /\ Chain[via[r]] = processor

LeaveSlot(r) == slotQ' = Without(slotQ, r)

\* A processor returned: the next one tries while the state is FallbackRetry.
Advance(r, t) ==
    IF t.state = "FallbackRetry" /\ via[r] < Len(Chain)
      THEN /\ Becomes(r, t, <<>>, "slot")
           /\ via' = [via EXCEPT ![r] = @ + 1]
           /\ UNCHANGED <<slotQ, queue, tickQ>>
      ELSE /\ LeaveSlot(r)
           /\ EndAttempt(r, t, <<>>)
           /\ UNCHANGED via

WithState(r, state) == [task[r] EXCEPT !.state = state]

\* decideTooLarge and decideWithoutMix.
GiveUpMix(r) ==
    Advance(r, WithState(r,
        IF AnonymityLevel = "Preferred" THEN "FallbackRetry"
        ELSE IF r \notin TooLarge /\ MixMounted /\ task[r].age < 1
          THEN "NextRoundRetry"
        ELSE "FailedToDeliver"))

\* Mix does not attempt the task: too large, not usable now, or its window ended.
SkipMix(r) ==
    /\ Trying(r, "mix")
    /\ GiveUpMix(r)
    /\ UNCHANGED <<client, soon, lockQ, asked, mgr, nonces, epoch, answer,
                   stops, cancels>>

Publish(r) ==
    /\ phase' = [phase EXCEPT ![r] = "wire"]
    /\ UNCHANGED <<client, queue, soon, lockQ, slotQ, tickQ, via, task, asked, mgr,
                   nonces, epoch, events, answer, stops, cancels>>

PublishOverMix(r) ==
    /\ Trying(r, "mix")
    /\ MixMounted /\ r \notin TooLarge
    /\ ~(AnonymityLevel = "Preferred" /\ task[r].age >= 1)
    /\ Publish(r)

PublishPlain(r) ==
    /\ Trying(r, "relay") \/ Trying(r, "lightpush")
    /\ Publish(r)

\* No lightpush peer: the processor is not valid and the task keeps its state.
NoLightpushPeer(r) ==
    /\ Trying(r, "lightpush")
    /\ LeaveSlot(r)
    /\ EndAttempt(r, task[r], <<>>)
    /\ UNCHANGED <<client, soon, lockQ, via, asked, mgr, nonces, epoch, answer,
                   stops, cancels>>

\* A pending publish ends, with the task that its sendImpl leaves behind.
PublishEnds(r, t) ==
    /\ phase[r] = "wire"
    /\ Advance(r, t)
    /\ UNCHANGED <<client, soon, lockQ, asked, mgr, nonces, epoch, answer,
                   stops, cancels>>

\* At least one peer took the message.
Published(r) ==
    PublishEnds(r, [task[r] EXCEPT
        !.state = "SuccessfullyPropagated",
        !.propagated = TRUE,
        !.propagatedAnonymously = @ \/ Chain[via[r]] = "mix"])

\* Faulty: the new proof is not charged.
ProofRejectedFree(r) ==
    PublishEnds(r, [task[r] EXCEPT !.state = "NextRoundRetry", !.proof = FALSE])

\* parkForRlnProofRefresh: a new proof, and a new charge for it.
ProofRejected(r) ==
    PublishEnds(r,
        IF Rln /\ ProofRefresh
          THEN [task[r] EXCEPT !.state = "NextRoundRetry", !.proof = FALSE,
                               !.admitted = FALSE, !.age = 0]
          ELSE WithState(r, "FailedToDeliver"))

\* No peer, or an answer that a later attempt may better.
NotPublished(r) ==
    PublishEnds(r, WithState(r,
        IF Chain[via[r]] # "relay" THEN "NextRoundRetry"
        ELSE IF HasLightpush THEN "FallbackRetry" ELSE "FailedToDeliver"))

\* Any other error of the peers.
PublishRefused(r) == PublishEnds(r, WithState(r, "FailedToDeliver"))

\* An exception leaves the chain; the task keeps its state.
PublishRaises(r) ==
    /\ phase[r] = "wire"
    /\ LeaveSlot(r)
    /\ EndAttempt(r, task[r], <<>>)
    /\ UNCHANGED <<client, soon, lockQ, via, asked, mgr, nonces, epoch, answer,
                   stops, cancels>>

----------------------------------------------------------------------------
(* waitForStoreValidation.                                                 *)

\* A Store answer lists the message: storeAnswer completes.
StoreReports(r) ==
    /\ client = "started"
    /\ phase[r] = "store"
    /\ phase' = [phase EXCEPT ![r] = "answered"]
    /\ UNCHANGED <<client, queue, soon, lockQ, slotQ, tickQ, via, task, asked, mgr,
                   nonces, epoch, events, answer, stops, cancels>>

StoreConfirms(r) ==
    /\ phase[r] = "answered"
    /\ Finish(r, <<"sent">>)
    /\ UNCHANGED <<client, soon, lockQ, slotQ, tickQ, via, asked, mgr, nonces,
                   epoch, answer, stops, cancels>>

\* The waits of the task add up to maxValidationAge.
StoreTimesOut(r) ==
    /\ phase[r] = "store"
    /\ Fail(r, <<>>)
    /\ UNCHANGED <<client, soon, lockQ, slotQ, tickQ, via, asked, mgr, nonces,
                   epoch, answer, stops, cancels>>

----------------------------------------------------------------------------
(* MessagingClient.stop and start, over stopSendService and                *)
(* startSendService.                                                       *)

Stop ==
    /\ client = "started" /\ stops < MaxStops
    /\ client' = "stopping"
    /\ stops' = stops + 1
    /\ cancels' = {r \in Requests : phase[r] # "none"}
    /\ UNCHANGED <<queue, soon, phase, lockQ, slotQ, tickQ, via, task, asked, mgr,
                   nonces, epoch, events, answer>>

\* Where the cancel of a stop can end a deliver: at an await that is not over
\* and that raises it again. A quota read does not, nor do all waits of a proof.
Cancellable(r) ==
    \/ phase[r] = "prove" /\ NeedsRlnProof(task[r])
    \/ phase[r] \in {"wire", "tick", "store", "answered"}
    \/ phase[r] = "lock" /\ ~HoldsLock(r)
    \/ phase[r] = "slot" /\ ~HoldsSlot(r)

\* Faulty: the slot of a cancelled send is lost.
CancelKeepsSlot(r) ==
    /\ client = "stopping" /\ r \in cancels
    /\ Cancellable(r)
    /\ cancels' = cancels \ {r}
    /\ LeaveLock(r)
    /\ tickQ' = Without(tickQ, r)
    /\ phase' = [phase EXCEPT ![r] = "none"]
    /\ UNCHANGED <<client, queue, soon, slotQ, via, task, asked, mgr, nonces, epoch,
                   events, answer, stops>>

\* A cancelled deliver frees what it holds and keeps its task for a restart; an
\* id that it has drawn is lost. The time that it waited for the Store counts, so
\* the window may be over.
Cancel(r) ==
    /\ client = "stopping" /\ r \in cancels
    /\ Cancellable(r)
    /\ cancels' = cancels \ {r}
    /\ nonces' \in IF phase[r] = "prove" THEN UnusedDraw(task[r]) ELSE {nonces}
    /\ LeaveLock(r) /\ LeaveSlot(r)
    /\ tickQ' = Without(tickQ, r)
    /\ phase' = [phase EXCEPT ![r] = "none"]
    /\ \E spent \in IF phase[r] \in {"store", "answered"} THEN BOOLEAN ELSE {FALSE} :
         task' = [task EXCEPT
            ![r].state = IF @ \in {"Entry", "FallbackRetry"} THEN "NextRoundRetry"
                                                            ELSE @,
            ![r].storeSpent = @ \/ spent]
    /\ UNCHANGED <<client, queue, soon, via, asked, mgr, epoch, events, answer,
                   stops>>

\* cancelAndWait returns once every deliver has ended.
StopEnds ==
    /\ client = "stopping"
    /\ \A r \in Requests : phase[r] = "none"
    /\ client' = "stopped"
    /\ cancels' = {}
    /\ UNCHANGED <<queue, soon, phase, lockQ, slotQ, tickQ, via, task, asked, mgr,
                   nonces, epoch, events, answer, stops>>

\* Faulty: waits for new requests only.
StartWithoutTasks ==
    /\ client = "stopped"
    /\ client' = "started"
    /\ UNCHANGED <<queue, soon, phase, lockQ, slotQ, tickQ, via, task, asked, mgr,
                   nonces, epoch, events, answer, stops, cancels>>

Start ==
    /\ client = "stopped"
    /\ client' = "started"
    /\ soon' = soon \o [i \in DOMAIN queue |-> Callback("deliver", queue[i])]
    /\ UNCHANGED <<queue, phase, lockQ, slotQ, tickQ, via, task, asked, mgr, nonces,
                   epoch, events, answer, stops, cancels>>

----------------------------------------------------------------------------
(* Time, and the other users of the RLN backend.                           *)

\* An admitted task passes the next limit of its delivery.
DeadlinePasses(r) ==
    /\ InSeq(r, queue)
    /\ task[r].admitted /\ ~task[r].propagatedEventEmitted
    /\ task[r].age < MaxDeliveryAge
    /\ task' = [task EXCEPT ![r].age = @ + 1]
    /\ UNCHANGED <<client, queue, soon, phase, lockQ, slotQ, tickQ, via, asked, mgr,
                   nonces, epoch, events, answer, stops, cancels>>

\* The message gets older than maxParkedAge.
GetsOld(r) ==
    /\ InSeq(r, queue) /\ ~task[r].old
    /\ (RateLimitEnabled /\ ~task[r].admitted) \/ ProofRefresh   \* else never read
    /\ task' = [task EXCEPT ![r].old = TRUE]
    /\ UNCHANGED <<client, queue, soon, phase, lockQ, slotQ, tickQ, via, asked, mgr,
                   nonces, epoch, events, answer, stops, cancels>>

EpochRolls ==
    /\ epoch < LastEpoch
    /\ epoch' = epoch + 1
    /\ UNCHANGED <<client, queue, soon, phase, lockQ, slotQ, tickQ, via, task,
                   asked, mgr, nonces, events, answer, stops, cancels>>

\* A proof that is not one of the send service draws an id of this epoch.
OtherDraw ==
    /\ Rln /\ ReserveAnswer(nonces, epoch) = "ok"
    /\ nonces' = Reserve(nonces, epoch)
    /\ UNCHANGED <<client, queue, soon, phase, lockQ, slotQ, tickQ, via, task,
                   asked, mgr, epoch, events, answer, stops, cancels>>

SendNext ==
    \/ \E r \in Requests :
         \/ Send(r) \/ StartDeliver(r) \/ Wake(r)
         \/ CheckFails(r) \/ BeginAdmission(r) \/ QuotaAnswers(r) \/ AdmitAnswers(r)
         \/ AttachProof(r) \/ ProofRefused(r) \/ ProofFails(r)
         \/ SkipMix(r) \/ PublishOverMix(r) \/ PublishPlain(r) \/ NoLightpushPeer(r)
         \/ Published(r) \/ ProofRejected(r) \/ NotPublished(r)
         \/ PublishRefused(r) \/ PublishRaises(r)
         \/ StoreReports(r) \/ StoreConfirms(r) \/ StoreTimesOut(r)
         \/ Cancel(r) \/ DeadlinePasses(r) \/ GetsOld(r)
    \/ RetryNow \/ Stop \/ StopEnds \/ Start \/ EpochRolls \/ OtherDraw

SendSpec == SendInit /\ [][SendNext]_sendVars

\* Scheduling: the event loop runs its callbacks and resumes every deliver
\* whose await is over, the retry loop ticks, timers fire, a stop cancels the
\* deliver calls, and a stopped client is started again. A request to send or
\* to stop is never owed, and no peer owes an answer.
FairSend ==
    /\ SendSpec
    /\ \A r \in Requests :
         /\ WF_sendVars(StartDeliver(r)) /\ WF_sendVars(Wake(r))
         /\ WF_sendVars(CheckFails(r) \/ BeginAdmission(r))
         /\ WF_sendVars(QuotaAnswers(r)) /\ WF_sendVars(AdmitAnswers(r))
         /\ WF_sendVars(AttachProof(r) \/ ProofRefused(r) \/ ProofFails(r))
         /\ WF_sendVars(SkipMix(r) \/ PublishOverMix(r) \/ PublishPlain(r)
                          \/ NoLightpushPeer(r))
         /\ WF_sendVars(StoreConfirms(r)) /\ WF_sendVars(StoreTimesOut(r))
         /\ WF_sendVars(DeadlinePasses(r)) /\ WF_sendVars(GetsOld(r))
         /\ WF_sendVars(Cancel(r))
    /\ WF_sendVars(RetryNow) /\ WF_sendVars(StopEnds) /\ WF_sendVars(Start)

\* Every publish ends, with an answer or an exception.
FairPublish ==
    /\ FairSend
    /\ \A r \in Requests :
         WF_sendVars(Published(r) \/ ProofRejected(r) \/ NotPublished(r)
                      \/ PublishRefused(r) \/ PublishRaises(r))

----------------------------------------------------------------------------
(* Properties.                                                             *)

Confirmed == {r \in Requests : StoreConfirmationExpected(r)}

Promise == INSTANCE RequestEvents WITH
    Requests <- Requests, Confirmed <- Confirmed, events <- events

\* Every request gets a legal sequence of events, in order, with one last
\* event and nothing after it, over all retries, stops and restarts.
EventsAsPromised == Promise!RESpec

Running(r) == phase[r] # "none"

\* No task is forgotten: while the client is started, every queued task has a
\* deliver that runs, or a callback that will start one.
Driven ==
    client = "started" =>
        \A i \in DOMAIN queue :
            Running(queue[i]) \/ InSeq(Callback("deliver", queue[i]), soon)

\* The queue holds exactly the accepted requests that did not get their last
\* event, each once and each message once.
QueueExact ==
    /\ \A r \in Requests :
         InSeq(r, queue) <=> answer[r] = "ok" /\ ~Promise!Over(r, events[r])
    /\ \A i, j \in DOMAIN queue : HashOf[queue[i]] = HashOf[queue[j]] => i = j

\* The lock, the slots and the tick queue hold exactly the calls that are
\* inside them, each once: no cancel, error or end of a task leaks one.
PermitsExact ==
    /\ \A r \in Requests :
         /\ InSeq(r, lockQ) <=> phase[r] \in {"lock", "quota", "admit", "prove"}
         /\ InSeq(r, slotQ) <=> phase[r] \in {"slot", "wire"}
         /\ InSeq(r, tickQ) <=> phase[r] = "tick"
         /\ InSeq(Callback("wake", r), soon) <=> phase[r] = "woken"
         /\ phase[r] \in {"quota", "admit", "prove"} => HoldsLock(r)
         /\ phase[r] = "wire" => HoldsSlot(r)
    /\ Distinct(lockQ) /\ Distinct(slotQ) /\ Distinct(tickQ)

\* A message whose propagation was reported is never sent, admitted or proved
\* again, not even after a restart (delivery_task.nim, propagatedEventEmitted).
NotSentAgain ==
    \A r \in Requests :
        task[r].propagatedEventEmitted => phase[r] \in {"none", "store", "answered"}

\* A task pays once for each proof (send_service.nim, admitAndProve: "It
\* charges a task once for each proof"): a charge waits for a proof exactly
\* while the task is admitted without one, and nothing is sent unpaid.
PaidPerProof ==
    Rln => \A r \in Requests :
              /\ task[r].owed = IF task[r].admitted /\ ~task[r].proof THEN 1 ELSE 0
              /\ phase[r] = "wire" => task[r].admitted /\ task[r].proof

\* The event that queues a message says that "The message stays queued and is
\* sent once the budget refills" (api/events/messaging_client_events.nim): a
\* queued message that gets budget of a later epoch is not refused a proof.
QueuedIsSent ==
    \A r \in Requests :
        /\ phase[r] = "prove" /\ NeedsRlnProof(task[r])
        /\ InSeq("queued", events[r]) /\ mgr.currentEpochIndex > task[r].epoch
        => ProofAnswer(task[r]) = "ok"

\* A stop that no event can end: a deliver waits for the next tick, the retry
\* loop is gone, and the deliver's cancel is spent.
StopHangs ==
    /\ client = "stopping"
    /\ \E r \in Requests : phase[r] = "tick" /\ r \notin cancels

\* Every accepted request gets its last event, through contention for the slots,
\* retries, and a stop with its restart, unless the stop hangs in that one way.
EndsUnlessStopHangs ==
    \A r \in Requests :
        answer[r] = "ok" ~> Promise!Over(r, events[r]) \/ StopHangs

\* stopSendService "Cancels each `deliver`, `retryLoop`, the Store validation loop
\* and each resend" and returns, so that "`startSendService` starts them again"
\* (send_service.nim).
StopReturns == client = "stopping" ~> client = "stopped"

\* DeliveryWindow is "how long an admitted task tries before it fails with no
\* propagation" (send_service.nim): an admitted task propagates or fails.
AdmittedTaskEnds ==
    \A r \in Requests :
        task[r].admitted ~> ~task[r].admitted \/ task[r].propagated

\* What is too large for mix fails "before it spends budget or a message id" at
\* the Required level (send_processor.nim, checkBeforeAdmission).
TooLargeCostsNothing ==
    AnonymityLevel = "Required" =>
        \A r \in TooLarge : ~task[r].admitted /\ ~task[r].proof

\* No task waits for the Store after a mix publish that answered
\* (send_service.nim, awaitsStoreValidation: "A task that went out over mix never
\* does"). A mix publish whose reply was lost does not count as one.
MixNeverAsksStore ==
    \A r \in Requests :
        task[r].propagatedAnonymously => phase[r] \notin {"store", "answered"}

----------------------------------------------------------------------------
(* The inductive invariant behind these properties.                        *)

\* The events that a queued task has reported.
Told(t) ==
    (IF t.queuedEventEmitted THEN <<"queued">> ELSE <<>>)
    \o (IF t.propagatedEventEmitted THEN <<"propagated">> ELSE <<>>)

\* No proof without a charge; and a charge waits for a proof exactly while the
\* task is admitted without one.
OwesRight(t) ==
    /\ t.proof => t.admitted
    /\ Rln => t.owed = IF t.admitted /\ ~t.proof THEN 1 ELSE 0

Refused(r) == AnonymityLevel = "Required" /\ r \in TooLarge

\* What a request's queue entry, task, events, phase and answer have to do with
\* each other.
Consistent(r, queued, t, e, p, a) ==
    /\ queued => a = "ok" /\ e = Told(t)
    /\ ~queued => p = "none" /\ t = NewTask(1)
    /\ a = "none" => e = <<>>
    /\ a = "ok" /\ ~queued => Promise!Over(r, e)
    /\ t.propagatedEventEmitted =>
         AwaitsStoreValidation(r, t) /\ p \in {"none", "store", "answered"}
    /\ p \in {"store", "answered"} => t.propagatedEventEmitted
    /\ p \in {"quota", "admit"} => ~t.admitted
    /\ p = "prove" => t.admitted
    /\ p \in {"slot", "wire"} => ~NeedsAdmission(t)
    /\ OwesRight(t)
    /\ Refused(r) => /\ ~t.admitted /\ ~t.proof /\ ~t.propagatedEventEmitted
                     /\ p \in {"none", "lock"}

AllConsistent ==
    \A r \in Requests :
        Consistent(r, InSeq(r, queue), task[r], events[r], phase[r], answer[r])

\* The wake-ups of retryNow: one for each deliver that waits for it.
WakesExact ==
    /\ Distinct(tickQ)
    /\ \A r \in Requests : InSeq(r, tickQ) => phase[r] = "tick"
    /\ \A i \in DOMAIN soon :
         soon[i].call = "wake" =>
           /\ phase[soon[i].of] = "woken"
           /\ \A j \in DOMAIN soon : soon[j] = soon[i] => i = j

OneEntryPerMessage ==
    \A i, j \in DOMAIN queue : HashOf[queue[i]] = HashOf[queue[j]] => i = j

\* Between its events, its phase and its charges, every task is where the code
\* left it: inductive, and it implies the safety properties above.
SendInv ==
    /\ SendTypeOK
    /\ AllConsistent
    /\ WakesExact
    /\ OneEntryPerMessage
    /\ Driven

============================================================================
