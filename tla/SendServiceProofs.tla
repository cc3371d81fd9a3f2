------------------------- MODULE SendServiceProofs -------------------------
(* For any requests, capacity, slots, chain, budget and number of stops:   *)
(* the send service reports the events that the API promises, forgets no   *)
(* task, sends nothing again and nothing unpaid. The argument is that      *)
(* SendInv is inductive.                                                   *)
EXTENDS SendService, WaitQueuesProofs, TLAPS

----------------------------------------------------------------------------
(* Types.                                                                  *)

\* The operators of the rate limit manager return managers.
LEMMA ManagerKept ==
    ASSUME NEW m \in Manager, NEW e \in Nat, NEW quota, quota.epochIndex \in Nat
    PROVE  /\ RefreshEpoch(m, quota, e) \in Manager
           /\ Charge(m) \in Manager
  BY DEF Manager, RefreshEpoch, Charge

\* A draw, and one that rolled the epoch only, return a counter.
LEMMA CounterKept ==
    ASSUME NEW n \in Counter, NEW e \in Nat
    PROVE  Reserve(n, e) \in Counter /\ Rolled(n, e) \in Counter
  BY NonceLimitAssumption DEF Counter, Reserve, ReserveAnswer, Rolled

\* A draw that was not used leaves a counter.
LEMMA UnusedDrawType ==
    ASSUME SendTypeOK, NEW t \in Task, nonces' \in UnusedDraw(t)
    PROVE  nonces' \in Counter
<1>1. t.epoch \in Nat
  BY DEF Task
<1>2. nonces \in Counter
  BY DEF SendTypeOK
<1>3. Reserve(nonces, t.epoch) \in Counter /\ Rolled(nonces, t.epoch) \in Counter
  BY <1>1, <1>2, CounterKept, Zenon
<1> QED BY <1>2, <1>3 DEF UnusedDraw

\* Spending a cancel leaves a set of requests.
LEMMA CancelsLeftType ==
    ASSUME SendTypeOK, NEW r, NEW b, cancels' \in CancelsLeft(r, b)
    PROVE  cancels' \subseteq Requests
<1>1. cancels \subseteq Requests
  BY DEF SendTypeOK
<1> QED BY <1>1 DEF CancelsLeft

Callbacks == [call : {"deliver", "wake"}, of : Requests]

\* Short sequences.
LEMMA ShortSeqs ==
    ASSUME NEW S, NEW x \in S, NEW y \in S
    PROVE  /\ <<>> \in Seq(S) /\ <<x>> \in Seq(S) /\ <<x, y>> \in Seq(S)
           /\ Len(<<>>) = 0 /\ Len(<<x>>) = 1 /\ Len(<<x, y>>) = 2
           /\ <<x>>[1] = x /\ <<x, y>>[1] = x /\ <<x, y>>[2] = y
  OBVIOUS

\* The chain has a processor.
LEMMA ChainFacts ==
    /\ Chain \in Seq({"mix", "relay", "lightpush"})
    /\ Len(Chain) \in Nat \ {0}
<1> DEFINE P == {"mix", "relay", "lightpush"}
           a == IF AnonymityLevel # "None" THEN <<"mix">> ELSE <<>>
           b == IF HasRelay /\ AnonymityLevel # "Required" THEN <<"relay">> ELSE <<>>
           c == IF HasLightpush /\ AnonymityLevel # "Required" THEN <<"lightpush">>
                                                               ELSE <<>>
<1>1. a \in Seq(P) /\ b \in Seq(P) /\ c \in Seq(P)
  BY ShortSeqs, Zenon
<1>2. Len(a) > 0 \/ Len(b) > 0 \/ Len(c) > 0
  BY SendAssumption
<1>3. Chain = (a \o b) \o c
  BY DEF Chain
<1> HIDE DEF a, b, c
<1>4. a \o b \in Seq(P) /\ Len(a \o b) = Len(a) + Len(b)
  BY <1>1
<1>5. (a \o b) \o c \in Seq(P) /\ Len((a \o b) \o c) = Len(a) + Len(b) + Len(c)
  BY <1>1, <1>4
<1>6. Len(a) \in Nat /\ Len(b) \in Nat /\ Len(c) \in Nat
  BY <1>1
<1> QED BY <1>2, <1>3, <1>5, <1>6

\* A new task is a task.
LEMMA NewTaskType == \A e \in Nat : NewTask(e) \in Task
  BY DEF NewTask, Task, States

\* The fields that a step may set.
LEMMA TaskUpdates ==
    ASSUME NEW t \in Task
    PROVE  /\ \A x \in States : [t EXCEPT !.state = x] \in Task
           /\ [t EXCEPT !.propagatedEventEmitted = TRUE] \in Task
           /\ [t EXCEPT !.queuedEventEmitted = TRUE] \in Task
           /\ [t EXCEPT !.old = TRUE] \in Task
           /\ \A x \in 0..2 : [t EXCEPT !.age = x] \in Task
           /\ [t EXCEPT !.admitted = TRUE, !.age = 0, !.owed = @ + 1] \in Task
           /\ [t EXCEPT !.proof = TRUE, !.owed = @ - 1] \in Task
           /\ [t EXCEPT !.state = "SuccessfullyPropagated", !.propagated = TRUE]
                \in Task
           /\ \A x \in BOOLEAN : [t EXCEPT !.propagatedAnonymously = x] \in Task
           /\ [t EXCEPT !.state = "NextRoundRetry", !.proof = FALSE,
                        !.admitted = FALSE, !.age = 0] \in Task
           /\ \A x \in BOOLEAN, y \in States :
                [t EXCEPT !.state = y, !.storeSpent = x] \in Task
<1>1. /\ \A x \in States : [t EXCEPT !.state = x] \in Task
      /\ [t EXCEPT !.propagatedEventEmitted = TRUE] \in Task
  BY Zenon DEF Task
<1>2. /\ [t EXCEPT !.queuedEventEmitted = TRUE] \in Task
      /\ [t EXCEPT !.old = TRUE] \in Task
  BY Zenon DEF Task
<1>3. \A x \in 0..2 : [t EXCEPT !.age = x] \in Task
  BY DEF Task
<1>o. t.owed + 1 \in Int /\ t.owed - 1 \in Int
  BY DEF Task
<1>4. [t EXCEPT !.admitted = TRUE, !.age = 0, !.owed = @ + 1] \in Task
  <2> DEFINE w == [t EXCEPT !.admitted = TRUE]
             u == [w EXCEPT !.age = 0]
  <2>0. w \in Task /\ w.owed = t.owed
    BY Zenon DEF Task
  <2>1. u \in Task /\ u.owed = t.owed
    <3> HIDE DEF w
    <3> QED BY <2>0 DEF Task
  <2>2. [u EXCEPT !.owed = @ + 1] \in Task
    <3> HIDE DEF u
    <3> QED BY <1>o, <2>1 DEF Task
  <2>3. [t EXCEPT !.admitted = TRUE, !.age = 0, !.owed = @ + 1]
          = [u EXCEPT !.owed = @ + 1]
    BY DEF Task
  <2> QED BY <2>2, <2>3
<1>5. [t EXCEPT !.proof = TRUE, !.owed = @ - 1] \in Task
  BY <1>o, Zenon DEF Task
<1>6. [t EXCEPT !.state = "SuccessfullyPropagated", !.propagated = TRUE] \in Task
  BY Zenon DEF Task, States
<1>7. \A x \in BOOLEAN : [t EXCEPT !.propagatedAnonymously = x] \in Task
  BY DEF Task
<1>8. [t EXCEPT !.state = "NextRoundRetry", !.proof = FALSE,
                !.admitted = FALSE, !.age = 0] \in Task
  <2> DEFINE u == [t EXCEPT !.state = "NextRoundRetry", !.proof = FALSE]
  <2>1. u \in Task
    BY Zenon DEF Task, States
  <2> DEFINE w == [u EXCEPT !.admitted = FALSE]
  <2>2. w \in Task
    <3> HIDE DEF u
    <3> QED BY <2>1, Zenon DEF Task
  <2>3. [w EXCEPT !.age = 0] \in Task
    <3> HIDE DEF w
    <3> QED BY <2>2 DEF Task
  <2> QED BY <2>3
<1>9. \A x \in BOOLEAN, y \in States :
        [t EXCEPT !.state = y, !.storeSpent = x] \in Task
  BY ZenonT(40) DEF Task
<1> QED BY <1>1, <1>2, <1>3, <1>4, <1>5, <1>6, <1>7, <1>8, <1>9, Zenon

\* The task of a successful publish.
LEMMA PublishedTask ==
    ASSUME NEW t \in Task, NEW mixed
    PROVE  [t EXCEPT !.state = "SuccessfullyPropagated", !.propagated = TRUE,
                     !.propagatedAnonymously = @ \/ mixed = "mix"] \in Task
<1> DEFINE u == [t EXCEPT !.state = "SuccessfullyPropagated", !.propagated = TRUE]
           x == t.propagatedAnonymously \/ mixed = "mix"
           w == [t EXCEPT !.state = "SuccessfullyPropagated", !.propagated = TRUE,
                          !.propagatedAnonymously = @ \/ mixed = "mix"]
<1>1. u \in Task
  BY TaskUpdates, Zenon
<1>2. x \in BOOLEAN
  OBVIOUS
<1>3. w = [u EXCEPT !.propagatedAnonymously = x]
  BY DEF Task
<1> HIDE DEF u, x, w
<1>4. w \in Task
  BY <1>1, <1>2, <1>3, TaskUpdates, Zenon
<1> QED BY <1>4 DEF w

\* A step that moves one deliver keeps the types of what it moves.
LEMMA BecomesType ==
    ASSUME SendTypeOK, NEW r \in Requests, NEW t \in Task, NEW ev \in Seq(Events),
           NEW where \in Phases, Becomes(r, t, ev, where)
    PROVE  /\ task' \in [Requests -> Task]
           /\ events' \in [Requests -> Seq(Events)]
           /\ phase' \in [Requests -> Phases]
<1>1. events[r] \o ev \in Seq(Events)
  BY DEF SendTypeOK
<1> QED BY <1>1 DEF SendTypeOK, Becomes

\* The end of a task keeps the types.
LEMMA FinishType ==
    ASSUME SendTypeOK, NEW r \in Requests, NEW ev \in Seq(Events), Finish(r, ev)
    PROVE  /\ task' \in [Requests -> Task]
           /\ events' \in [Requests -> Seq(Events)]
           /\ phase' \in [Requests -> Phases]
           /\ queue' \in Seq(Requests)
<1>1. NewTask(1) \in Task /\ "none" \in Phases
  BY NewTaskType DEF Phases
<1>2. queue' \in Seq(Requests)
  BY WithoutType DEF Finish, SendTypeOK
<1> QED BY <1>1, <1>2, BecomesType DEF Finish

\* So does its end with an error.
LEMMA FailType ==
    ASSUME SendTypeOK, NEW r \in Requests, NEW ev \in Seq(Events), Fail(r, ev)
    PROVE  /\ task' \in [Requests -> Task]
           /\ events' \in [Requests -> Seq(Events)]
           /\ phase' \in [Requests -> Phases]
           /\ queue' \in Seq(Requests)
<1>1. Append(ev, "error") \in Seq(Events)
  BY DEF Events
<1> QED BY <1>1, FinishType, ZenonT(40) DEF Fail

\* So does the way on from a propagation.
LEMMA AfterPropagationType ==
    ASSUME SendTypeOK, NEW r \in Requests, NEW t \in Task, NEW ev \in Seq(Events),
           AfterPropagation(r, t, ev)
    PROVE  /\ task' \in [Requests -> Task]
           /\ events' \in [Requests -> Seq(Events)]
           /\ phase' \in [Requests -> Phases]
           /\ queue' \in Seq(Requests)
<1>1. CASE ~AwaitsStoreValidation(r, t)
  BY <1>1, FinishType DEF AfterPropagation
<1>2. CASE AwaitsStoreValidation(r, t) /\ t.storeSpent
  BY <1>2, FailType DEF AfterPropagation
<1>3. CASE AwaitsStoreValidation(r, t) /\ ~t.storeSpent
  <2>1. Becomes(r, t, ev, "store") /\ queue' = queue /\ "store" \in Phases
    BY <1>3 DEF AfterPropagation, Phases
  <2> QED BY <2>1, BecomesType DEF SendTypeOK
<1> QED BY <1>1, <1>2, <1>3

\* So does the end of an attempt.
LEMMA EndAttemptType ==
    ASSUME SendTypeOK, NEW r \in Requests, NEW t \in Task, NEW ev \in Seq(Events),
           EndAttempt(r, t, ev)
    PROVE  /\ task' \in [Requests -> Task]
           /\ events' \in [Requests -> Seq(Events)]
           /\ phase' \in [Requests -> Phases]
           /\ queue' \in Seq(Requests) /\ tickQ' \in Seq(Requests)
<1> DEFINE done == [t EXCEPT !.propagatedEventEmitted = TRUE]
           retry == [t EXCEPT !.state = "NextRoundRetry"]
<1>1. done \in Task /\ retry \in Task
  BY TaskUpdates, Zenon DEF States
<1>2. ev \o PropagatedEvents(r, t) \in Seq(Events)
  <2>1. PropagatedEvents(r, t) \in Seq(Events)
    BY ShortSeqs, Zenon DEF PropagatedEvents, Events
  <2> QED BY <2>1
<1> HIDE DEF done, retry
<1>3. CASE AfterPropagation(r, done, ev \o PropagatedEvents(r, t)) /\ UNCHANGED tickQ
  BY <1>1, <1>2, <1>3, AfterPropagationType, Zenon DEF SendTypeOK
<1>4. CASE Fail(r, ev) /\ UNCHANGED tickQ
  BY <1>4, FailType DEF SendTypeOK
<1>5. CASE /\ Becomes(r, retry, ev, "tick")
           /\ tickQ' = Append(tickQ, r)
           /\ UNCHANGED queue
  <2>1. "tick" \in Phases
    BY DEF Phases
  <2> QED BY <1>1, <1>5, <2>1, BecomesType DEF SendTypeOK
<1> QED BY <1>3, <1>4, <1>5 DEF EndAttempt, done, retry

\* So does a processor that returns.
LEMMA AdvanceType ==
    ASSUME SendTypeOK, NEW r \in Requests, NEW t \in Task, Advance(r, t)
    PROVE  /\ task' \in [Requests -> Task]
           /\ events' \in [Requests -> Seq(Events)]
           /\ phase' \in [Requests -> Phases]
           /\ queue' \in Seq(Requests) /\ tickQ' \in Seq(Requests)
           /\ slotQ' \in Seq(Requests)
           /\ via' \in [Requests -> 1..Len(Chain)]
<1>1. <<>> \in Seq(Events) /\ "slot" \in Phases
  BY DEF Phases
<1>2. CASE t.state = "FallbackRetry" /\ via[r] < Len(Chain)
  <2>1. /\ Becomes(r, t, <<>>, "slot")
        /\ via' = [via EXCEPT ![r] = @ + 1]
        /\ UNCHANGED <<slotQ, queue, tickQ>>
    BY <1>2 DEF Advance
  <2>2. via' \in [Requests -> 1..Len(Chain)]
    <3>1. via[r] + 1 \in 1..Len(Chain)
      BY <1>2, ChainFacts DEF SendTypeOK
    <3> QED BY <2>1, <3>1 DEF SendTypeOK
  <2> QED BY <1>1, <2>1, <2>2, BecomesType, Zenon DEF SendTypeOK
<1>3. CASE ~(t.state = "FallbackRetry" /\ via[r] < Len(Chain))
  <2>1. LeaveSlot(r) /\ EndAttempt(r, t, <<>>) /\ UNCHANGED via
    BY <1>3 DEF Advance
  <2>2. slotQ' \in Seq(Requests)
    BY <2>1, WithoutType DEF SendTypeOK, LeaveSlot
  <2> QED BY <1>1, <2>1, <2>2, EndAttemptType, Zenon DEF SendTypeOK
<1> QED BY <1>2, <1>3

\* So does an attempt that begins.
LEMMA BeginAttemptType ==
    ASSUME SendTypeOK, NEW r \in Requests, BeginAttempt(r)
    PROVE  /\ phase' \in [Requests -> Phases]
           /\ lockQ' \in Seq(Requests) /\ slotQ' \in Seq(Requests)
           /\ via' \in [Requests -> 1..Len(Chain)]
<1>1. 1 \in 1..Len(Chain) /\ "lock" \in Phases /\ "slot" \in Phases
  BY ChainFacts DEF Phases
<1>0. /\ phase \in [Requests -> Phases]
      /\ lockQ \in Seq(Requests) /\ slotQ \in Seq(Requests)
      /\ via \in [Requests -> 1..Len(Chain)]
  BY DEF SendTypeOK
<1>2. CASE NeedsAdmission(task[r])
  <2>1. /\ phase' = [phase EXCEPT ![r] = "lock"]
        /\ lockQ' = Append(lockQ, r) /\ slotQ' = slotQ /\ via' = via
    BY <1>2 DEF BeginAttempt
  <2> QED BY <1>0, <1>1, <2>1
<1>3. CASE ~NeedsAdmission(task[r])
  <2>1. /\ phase' = [phase EXCEPT ![r] = "slot"]
        /\ slotQ' = Append(slotQ, r) /\ lockQ' = lockQ
        /\ via' = [via EXCEPT ![r] = 1]
    BY <1>3 DEF BeginAttempt
  <2> QED BY <1>0, <1>1, <2>1
<1> QED BY <1>2, <1>3

\* So does an admission without a send.
LEMMA NotAdmittedType ==
    ASSUME SendTypeOK, NEW r \in Requests, NEW t \in Task, NEW ev \in Seq(Events),
           NotAdmitted(r, t, ev)
    PROVE  /\ task' \in [Requests -> Task]
           /\ events' \in [Requests -> Seq(Events)]
           /\ phase' \in [Requests -> Phases]
           /\ queue' \in Seq(Requests) /\ tickQ' \in Seq(Requests)
           /\ lockQ' \in Seq(Requests)
<1>1. lockQ' \in Seq(Requests)
  BY WithoutType DEF NotAdmitted, LeaveLock, SendTypeOK
<1> QED BY <1>1, EndAttemptType DEF NotAdmitted

\* Every answer of the quota provider names an epoch.
LEMMA QuotaTypes ==
    ASSUME SendTypeOK
    PROVE  \A quota \in Quotas : quota.epochIndex \in Nat
  BY DEF Quotas, NoQuota, SomeQuota, SendTypeOK

\* So does the end of a publish.
LEMMA PublishEndsType ==
    ASSUME SendTypeOK, NEW r \in Requests, NEW t \in Task, PublishEnds(r, t)
    PROVE  SendTypeOK'
  BY AdvanceType DEF PublishEnds, SendTypeOK

\* Every step of the send service keeps the types.
THEOREM SendTypeStep == SendTypeOK /\ [SendNext]_sendVars => SendTypeOK'
<1> SUFFICES ASSUME SendTypeOK, [SendNext]_sendVars PROVE SendTypeOK'
  OBVIOUS
<1>s. <<>> \in Seq(Events)
  BY DEF Events
<1>t. /\ \A r \in Requests : task[r] \in Task
      /\ \A r \in Requests : \A x \in States : [task[r] EXCEPT !.state = x] \in Task
  <2>1. \A r \in Requests : task[r] \in Task
    BY DEF SendTypeOK
  <2> QED BY <2>1, TaskUpdates, Zenon
<1>0. ASSUME NEW r \in Requests PROVE /\ Callback("deliver", r) \in Callbacks
                                      /\ Callback("wake", r) \in Callbacks
  BY DEF Callback, Callbacks
<1>1. ASSUME NEW r \in Requests, Send(r) PROVE SendTypeOK'
  <2>1. NewTask(epoch) \in Task
    BY NewTaskType DEF SendTypeOK
  <2>2. /\ queue' \in Seq(Requests) /\ soon' \in Seq(Callbacks)
        /\ task' \in [Requests -> Task]
    <3>1. CASE UNCHANGED <<queue, soon, task>>
      BY <3>1 DEF SendTypeOK, Callbacks
    <3>2. CASE /\ queue' = Append(queue, r)
               /\ soon' = Append(soon, Callback("deliver", r))
               /\ task' = [task EXCEPT ![r] = NewTask(epoch)]
      BY <1>0, <2>1, <3>2 DEF SendTypeOK, Callbacks
    <3> QED BY <1>1, <3>1, <3>2 DEF Send
  <2>3. answer' \in [Requests -> {"none", "ok", "folded", "full"}]
    BY <1>1 DEF Send, SendTypeOK
  <2> QED BY <1>1, <2>2, <2>3, Zenon DEF Send, SendTypeOK, Callbacks
<1>2. ASSUME NEW r \in Requests, StartDeliver(r) PROVE SendTypeOK'
  <2>1. soon' \in Seq(Callbacks)
    BY <1>2 DEF StartDeliver, SendTypeOK, Callbacks
  <2>2. CASE AfterPropagation(r, task[r], <<>>) /\ UNCHANGED <<lockQ, slotQ, via>>
    BY <1>2, <1>s, <1>t, <2>1, <2>2, AfterPropagationType, Zenon
       DEF StartDeliver, SendTypeOK, Callbacks
  <2>3. CASE BeginAttempt(r) /\ UNCHANGED <<task, events, queue>>
    BY <1>2, <2>1, <2>3, BeginAttemptType, Zenon DEF StartDeliver, SendTypeOK, Callbacks
  <2>4. CASE UNCHANGED <<phase, lockQ, slotQ, via, task, events, queue>>
    BY <1>2, <2>1, <2>4, Zenon DEF StartDeliver, SendTypeOK, Callbacks
  <2> QED BY <1>2, <2>2, <2>3, <2>4 DEF StartDeliver
<1>3. ASSUME NEW r \in Requests, Wake(r) PROVE SendTypeOK'
  <2>1. soon' \in Seq(Callbacks)
    BY <1>3 DEF Wake, SendTypeOK, Callbacks
  <2> QED BY <1>3, <2>1, BeginAttemptType, Zenon DEF Wake, SendTypeOK, Callbacks
<1>4. CASE RetryNow
  <2>1. [i \in DOMAIN tickQ |-> Callback("wake", tickQ[i])] \in Seq(Callbacks)
    <3>1. /\ Len(tickQ) \in Nat /\ DOMAIN tickQ = 1..Len(tickQ)
          /\ \A i \in DOMAIN tickQ : tickQ[i] \in Requests
      BY DEF SendTypeOK
    <3>2. \A i \in DOMAIN tickQ : Callback("wake", tickQ[i]) \in Callbacks
      BY <1>0, <3>1
    <3> QED BY <3>1, <3>2
  <2>2. soon' \in Seq(Callbacks)
    BY <1>4, <2>1 DEF RetryNow, SendTypeOK, Callbacks
  <2>3. phase' \in [Requests -> Phases] /\ tickQ' \in Seq(Requests)
    BY <1>4 DEF RetryNow, SendTypeOK, Phases
  <2> QED BY <1>4, <2>2, <2>3 DEF RetryNow, SendTypeOK, Callbacks
<1>5. ASSUME NEW r \in Requests, CheckFails(r) PROVE SendTypeOK'
  BY <1>5, <1>s, <1>t, NotAdmittedType, Zenon DEF CheckFails, SendTypeOK, States
<1>6. ASSUME NEW r \in Requests, BeginAdmission(r) PROVE SendTypeOK'
  BY <1>6 DEF BeginAdmission, SendTypeOK, Phases
<1>7. ASSUME NEW r \in Requests, QuotaAnswers(r) PROVE SendTypeOK'
  <2>1. PICK quota \in Quotas :
          LET rolled == RefreshEpoch(mgr, quota, epoch) IN
          /\ mgr' = rolled
          /\ cancels' \in CancelsLeft(r, Rln /\ quota = NoQuota)
          /\ IF QuotaState(rolled, quota) = Normal
               THEN /\ phase' = [phase EXCEPT ![r] = "admit"]
                    /\ asked' = epoch
                    /\ UNCHANGED <<lockQ, task, events, queue, tickQ>>
               ELSE /\ NotAdmitted(r, [task[r] EXCEPT !.state = "FailedToDeliver"],
                                   <<>>)
                    /\ UNCHANGED asked
    BY <1>7 DEF QuotaAnswers
  <2>2. mgr' \in Manager /\ cancels' \subseteq Requests
    BY <2>1, ManagerKept, QuotaTypes, CancelsLeftType, Zenon DEF SendTypeOK
  <2>3. CASE /\ phase' = [phase EXCEPT ![r] = "admit"]
             /\ asked' = epoch
             /\ UNCHANGED <<lockQ, task, events, queue, tickQ>>
    BY <1>7, <2>2, <2>3 DEF QuotaAnswers, SendTypeOK, Phases
  <2>4. CASE /\ NotAdmitted(r, [task[r] EXCEPT !.state = "FailedToDeliver"], <<>>)
             /\ UNCHANGED asked
    BY <1>7, <1>s, <1>t, <2>2, <2>4, NotAdmittedType, Zenon
       DEF QuotaAnswers, SendTypeOK, States
  <2> QED BY <2>1, <2>3, <2>4
<1>8. ASSUME NEW r \in Requests, AdmitAnswers(r) PROVE SendTypeOK'
  <2>1. PICK quota \in Quotas :
          LET rolled == RefreshEpoch(mgr, quota, epoch) IN
          /\ cancels' \in CancelsLeft(r, Rln /\ quota = NoQuota)
          /\ IF Admits(rolled, quota)
               THEN /\ mgr' = Charge(rolled)
                    /\ task' = [task EXCEPT ![r].admitted = TRUE, ![r].age = 0,
                                            ![r].owed = @ + 1]
                    /\ phase' = [phase EXCEPT ![r] = "prove"]
                    /\ UNCHANGED <<lockQ, events, queue, tickQ>>
               ELSE /\ mgr' = rolled
                    /\ NotAdmitted(r, [task[r] EXCEPT !.queuedEventEmitted = TRUE],
                                   QueuedEvents(task[r]))
    BY <1>8, Zenon DEF AdmitAnswers
  <2>2. /\ RefreshEpoch(mgr, quota, epoch) \in Manager
        /\ Charge(RefreshEpoch(mgr, quota, epoch)) \in Manager
        /\ cancels' \subseteq Requests
    BY <2>1, ManagerKept, QuotaTypes, CancelsLeftType, Zenon DEF SendTypeOK
  <2>3. CASE Admits(RefreshEpoch(mgr, quota, epoch), quota)
    <3>1. /\ task' = [task EXCEPT ![r] = [task[r] EXCEPT !.admitted = TRUE,
                                              !.age = 0, !.owed = @ + 1]]
          /\ phase' = [phase EXCEPT ![r] = "prove"]
      BY <2>1, <2>3, Zenon DEF SendTypeOK
    <3>2. task' \in [Requests -> Task] /\ phase' \in [Requests -> Phases]
      BY <1>t, <3>1, TaskUpdates, Zenon DEF SendTypeOK, Phases
    <3> QED BY <1>8, <2>1, <2>2, <2>3, <3>2 DEF AdmitAnswers, SendTypeOK
  <2>4. CASE ~Admits(RefreshEpoch(mgr, quota, epoch), quota)
    <3>1. /\ [task[r] EXCEPT !.queuedEventEmitted = TRUE] \in Task
          /\ QueuedEvents(task[r]) \in Seq(Events)
      BY <1>t, TaskUpdates, ShortSeqs, Zenon DEF QueuedEvents, Events
    <3>2. NotAdmitted(r, [task[r] EXCEPT !.queuedEventEmitted = TRUE],
                      QueuedEvents(task[r]))
      BY <2>1, <2>4
    <3> QED BY <1>8, <2>1, <2>2, <2>4, <3>1, <3>2, NotAdmittedType, Zenon
            DEF AdmitAnswers, SendTypeOK
  <2> QED BY <2>3, <2>4
<1>9. ASSUME NEW r \in Requests, AttachProof(r) PROVE SendTypeOK'
  <2>1. nonces' \in Counter /\ task' \in [Requests -> Task]
    <3>1. CASE NeedsRlnProof(task[r])
      <4>1. /\ nonces' = Reserve(nonces, task[r].epoch)
            /\ task' = [task EXCEPT ![r] = [task[r] EXCEPT !.proof = TRUE,
                                                          !.owed = @ - 1]]
        BY <1>9, <3>1, Zenon DEF AttachProof, SendTypeOK
      <4>2. task[r].epoch \in Nat
        BY <1>t DEF Task
      <4> QED BY <1>t, <4>1, <4>2, TaskUpdates, CounterKept, Zenon DEF SendTypeOK
    <3>2. CASE ~NeedsRlnProof(task[r])
      BY <1>9, <3>2 DEF AttachProof, SendTypeOK
    <3> QED BY <3>1, <3>2
  <2>2. /\ lockQ' \in Seq(Requests) /\ slotQ' \in Seq(Requests)
        /\ phase' \in [Requests -> Phases] /\ via' \in [Requests -> 1..Len(Chain)]
    <3>1. 1 \in 1..Len(Chain) /\ "slot" \in Phases
      BY ChainFacts DEF Phases
    <3>2. /\ lockQ \in Seq(Requests) /\ slotQ \in Seq(Requests)
          /\ phase \in [Requests -> Phases] /\ via \in [Requests -> 1..Len(Chain)]
      BY DEF SendTypeOK
    <3> QED BY <1>9, <3>1, <3>2, WithoutType DEF AttachProof, Admitted, LeaveLock
  <2> QED BY <1>9, <2>1, <2>2 DEF AttachProof, Admitted, SendTypeOK
<1>10. ASSUME NEW r \in Requests, ProofRefused(r) PROVE SendTypeOK'
  <2>1. nonces' \in Counter
    <3>1. task[r].epoch \in Nat
      BY <1>t DEF Task
    <3> QED BY <1>10, <3>1, CounterKept DEF ProofRefused, SendTypeOK
  <2> QED BY <1>10, <1>s, <1>t, <2>1, NotAdmittedType, Zenon
          DEF ProofRefused, SendTypeOK, States
<1>11. ASSUME NEW r \in Requests, ProofFails(r) PROVE SendTypeOK'
  <2>1. nonces' \in Counter /\ cancels' \subseteq Requests
    BY <1>11, <1>t, UnusedDrawType, CancelsLeftType, Zenon DEF ProofFails
  <2> QED BY <1>11, <1>s, <1>t, <2>1, NotAdmittedType, Zenon
          DEF ProofFails, SendTypeOK
<1>12. ASSUME NEW r \in Requests, SkipMix(r) PROVE SendTypeOK'
  <2>1. PICK x \in States : Advance(r, WithState(r, x))
    BY <1>12 DEF SkipMix, GiveUpMix, States
  <2>2. WithState(r, x) \in Task
    BY <1>t DEF WithState
  <2> QED BY <1>12, <2>1, <2>2, AdvanceType DEF SkipMix, SendTypeOK
<1>13. ASSUME NEW r \in Requests, Publish(r) PROVE SendTypeOK'
  BY <1>13 DEF Publish, SendTypeOK, Phases
<1>14. ASSUME NEW r \in Requests, LeaveSlot(r), EndAttempt(r, task[r], <<>>),
              UNCHANGED <<client, soon, lockQ, via, asked, mgr, nonces, epoch,
                          answer, stops, cancels>>
       PROVE  SendTypeOK'
  <2>1. slotQ' \in Seq(Requests)
    BY <1>14, WithoutType DEF LeaveSlot, SendTypeOK
  <2> QED BY <1>14, <1>s, <1>t, <2>1, EndAttemptType, Zenon DEF SendTypeOK
<1>15. ASSUME NEW r \in Requests, Published(r) PROVE SendTypeOK'
  BY <1>15, <1>t, PublishedTask, PublishEndsType, Zenon DEF Published
<1>16. ASSUME NEW r \in Requests, ProofRejected(r) PROVE SendTypeOK'
  <2>1. /\ [task[r] EXCEPT !.state = "NextRoundRetry", !.proof = FALSE,
                          !.admitted = FALSE, !.age = 0] \in Task
        /\ WithState(r, "FailedToDeliver") \in Task
    BY <1>t, TaskUpdates, Zenon DEF WithState, States
  <2> QED BY <1>16, <2>1, PublishEndsType DEF ProofRejected
<1>17. ASSUME NEW r \in Requests, NEW x \in States, PublishEnds(r, WithState(r, x))
       PROVE  SendTypeOK'
  BY <1>17, <1>t, PublishEndsType DEF WithState
<1>18. ASSUME NEW r \in Requests, StoreReports(r) PROVE SendTypeOK'
  BY <1>18 DEF StoreReports, SendTypeOK, Phases
<1>19. ASSUME NEW r \in Requests, StoreConfirms(r) PROVE SendTypeOK'
  <2>1. <<"sent">> \in Seq(Events)
    BY ShortSeqs DEF Events
  <2> QED BY <1>19, <2>1, FinishType, Zenon DEF StoreConfirms, SendTypeOK
<1>20. ASSUME NEW r \in Requests, StoreTimesOut(r) PROVE SendTypeOK'
  BY <1>20, <1>s, FailType, Zenon DEF StoreTimesOut, SendTypeOK
<1>21. ASSUME NEW r \in Requests, Cancel(r) PROVE SendTypeOK'
  <2>1. PICK spent \in BOOLEAN :
          task' = [task EXCEPT
            ![r].state = IF @ \in {"Entry", "FallbackRetry"} THEN "NextRoundRetry"
                                                            ELSE @,
            ![r].storeSpent = @ \/ spent]
    BY <1>21, Zenon DEF Cancel
  <2> DEFINE y == IF task[r].state \in {"Entry", "FallbackRetry"}
                    THEN "NextRoundRetry" ELSE task[r].state
             x == task[r].storeSpent \/ spent
  <2>2. y \in States /\ x \in BOOLEAN
    BY <1>t DEF Task, States
  <2>3. task' = [task EXCEPT ![r] = [task[r] EXCEPT !.state = y, !.storeSpent = x]]
    BY <2>1, ZenonT(40) DEF SendTypeOK
  <2>4. task' \in [Requests -> Task]
    <3> HIDE DEF x, y
    <3> QED BY <1>t, <2>2, <2>3, TaskUpdates, Zenon DEF SendTypeOK
  <2>5. /\ lockQ' \in Seq(Requests) /\ slotQ' \in Seq(Requests)
        /\ tickQ' \in Seq(Requests) /\ phase' \in [Requests -> Phases]
    BY <1>21, WithoutType DEF Cancel, LeaveLock, LeaveSlot, SendTypeOK, Phases
  <2>6. nonces' \in Counter
    <3>1. CASE phase[r] = "prove"
      BY <1>21, <1>t, <3>1, UnusedDrawType, Zenon DEF Cancel
    <3>2. CASE phase[r] # "prove"
      BY <1>21, <3>2, Zenon DEF Cancel, SendTypeOK
    <3> QED BY <3>1, <3>2
  <2>7. cancels' \subseteq Requests
    BY <1>21 DEF Cancel, SendTypeOK
  <2> QED BY <1>21, <2>4, <2>5, <2>6, <2>7 DEF Cancel, SendTypeOK
<1>22. ASSUME NEW r \in Requests, DeadlinePasses(r) PROVE SendTypeOK'
  <2>1. task[r].age + 1 \in 0..2
    BY <1>22, <1>t DEF DeadlinePasses, MaxDeliveryAge, Task
  <2>2. task' = [task EXCEPT ![r] = [task[r] EXCEPT !.age = task[r].age + 1]]
    BY <1>22 DEF DeadlinePasses, SendTypeOK
  <2>3. task' \in [Requests -> Task]
    BY <1>t, <2>1, <2>2, TaskUpdates, Zenon DEF SendTypeOK
  <2> QED BY <1>22, <2>3 DEF DeadlinePasses, SendTypeOK
<1>23. ASSUME NEW r \in Requests, GetsOld(r) PROVE SendTypeOK'
  <2>1. task' = [task EXCEPT ![r] = [task[r] EXCEPT !.old = TRUE]]
    BY <1>23 DEF GetsOld, SendTypeOK
  <2>2. task' \in [Requests -> Task]
    BY <1>t, <2>1, TaskUpdates, Zenon DEF SendTypeOK
  <2> QED BY <1>23, <2>2 DEF GetsOld, SendTypeOK
<1>24. CASE Stop \/ StopEnds \/ EpochRolls
  <2>1. cancels' \subseteq Requests
    BY <1>24 DEF Stop, StopEnds, EpochRolls, SendTypeOK
  <2>2. /\ client' \in {"started", "stopping", "stopped"}
        /\ epoch' \in Nat /\ stops' \in Nat
    BY <1>24 DEF Stop, StopEnds, EpochRolls, SendTypeOK
  <2> QED BY <1>24, <2>1, <2>2 DEF Stop, StopEnds, EpochRolls, SendTypeOK
<1>25. CASE Start
  <2>1. [i \in DOMAIN queue |-> Callback("deliver", queue[i])] \in Seq(Callbacks)
    <3>1. /\ Len(queue) \in Nat /\ DOMAIN queue = 1..Len(queue)
          /\ \A i \in DOMAIN queue : queue[i] \in Requests
      BY DEF SendTypeOK
    <3>2. \A i \in DOMAIN queue : Callback("deliver", queue[i]) \in Callbacks
      BY <1>0, <3>1
    <3> QED BY <3>1, <3>2
  <2>2. soon' \in Seq(Callbacks)
    BY <1>25, <2>1 DEF Start, SendTypeOK, Callbacks
  <2> QED BY <1>25, <2>2 DEF Start, SendTypeOK, Callbacks
<1>26. CASE OtherDraw
  BY <1>26, CounterKept DEF OtherDraw, SendTypeOK
<1>27. CASE UNCHANGED sendVars
  BY <1>27 DEF sendVars, SendTypeOK
<1>28. ASSUME NEW r \in Requests,
              \/ NoLightpushPeer(r) \/ PublishRaises(r)
              \/ PublishOverMix(r) \/ PublishPlain(r)
              \/ NotPublished(r) \/ PublishRefused(r)
       PROVE  SendTypeOK'
  <2>1. CASE NoLightpushPeer(r) \/ PublishRaises(r)
    BY <2>1, <1>14 DEF NoLightpushPeer, PublishRaises
  <2>2. CASE PublishOverMix(r) \/ PublishPlain(r)
    BY <2>2, <1>13 DEF PublishOverMix, PublishPlain
  <2>3. CASE NotPublished(r) \/ PublishRefused(r)
    BY <2>3, <1>17 DEF NotPublished, PublishRefused, States
  <2> QED BY <1>28, <2>1, <2>2, <2>3
<1> QED
  BY <1>1, <1>2, <1>3, <1>4, <1>5, <1>6, <1>7, <1>8, <1>9, <1>10, <1>11, <1>12,
     <1>15, <1>16, <1>18, <1>19, <1>20, <1>21, <1>22, <1>23, <1>24, <1>25, <1>26,
     <1>27, <1>28
     DEF SendNext

============================================================================
