-------------------------- MODULE SendEventsProofs --------------------------
(* SendInv is inductive, and every step of the send service reports what   *)
(* the API promises, or nothing.                                           *)
EXTENDS SendServiceProofs

----------------------------------------------------------------------------
(* Event sequences.                                                        *)

\* Sequences with the same entries are the same.
LEMMA SameEvents ==
    ASSUME NEW s \in Seq(Events), NEW t \in Seq(Events), Len(s) = Len(t),
           \A i \in 1..Len(s) : s[i] = t[i]
    PROVE  s = t
<1>1. /\ DOMAIN s = 1..Len(s) /\ DOMAIN t = 1..Len(s)
      /\ s = [i \in DOMAIN s |-> s[i]] /\ t = [i \in DOMAIN t |-> t[i]]
  OBVIOUS
<1> QED BY <1>1, Zenon

\* Concatenations of short sequences.
LEMMA ShortConcats ==
    ASSUME NEW a \in Events, NEW b \in Events, NEW c \in Events
    PROVE  /\ <<a>> \o <<b>> = <<a, b>>
           /\ <<a, b>> \o <<c>> = <<a, b, c>>
           /\ <<a>> \o <<b, c>> = <<a, b, c>>
<1>0. /\ <<a>> \in Seq(Events) /\ <<b>> \in Seq(Events) /\ <<a, b>> \in Seq(Events) /\ <<c>> \in Seq(Events)
      /\ <<b, c>> \in Seq(Events) /\ <<a, b, c>> \in Seq(Events)
  OBVIOUS
<1>1. <<a>> \o <<b>> = <<a, b>>
  <2> DEFINE s == <<a>> \o <<b>>
             u == <<a, b>>
  <2>1. s \in Seq(Events) /\ u \in Seq(Events) /\ Len(s) = Len(u) /\ Len(u) = 2
    BY <1>0
  <2>2. s[1] = u[1] /\ s[2] = u[2]
    BY <1>0
  <2>3. \A i \in 1..Len(s) : s[i] = u[i]
    BY <2>1, <2>2
  <2> HIDE DEF s, u
  <2>4. s = u
    BY <2>1, <2>3, SameEvents, Zenon
  <2> QED BY <2>4, Zenon DEF s, u
<1>2. <<a, b>> \o <<c>> = <<a, b, c>>
  <2> DEFINE s == <<a, b>> \o <<c>>
             u == <<a, b, c>>
  <2>1. s \in Seq(Events) /\ u \in Seq(Events) /\ Len(s) = Len(u) /\ Len(u) = 3
    BY <1>0
  <2>2. s[1] = u[1] /\ s[2] = u[2] /\ s[3] = u[3]
    BY <1>0
  <2>3. \A i \in 1..Len(s) : s[i] = u[i]
    BY <2>1, <2>2
  <2> HIDE DEF s, u
  <2>4. s = u
    BY <2>1, <2>3, SameEvents, Zenon
  <2> QED BY <2>4, Zenon DEF s, u
<1>3. <<a>> \o <<b, c>> = <<a, b, c>>
  <2> DEFINE s == <<a>> \o <<b, c>>
             u == <<a, b, c>>
  <2>1. s \in Seq(Events) /\ u \in Seq(Events) /\ Len(s) = Len(u) /\ Len(u) = 3
    BY <1>0
  <2>2. s[1] = u[1] /\ s[2] = u[2] /\ s[3] = u[3]
    BY <1>0
  <2>3. \A i \in 1..Len(s) : s[i] = u[i]
    BY <2>1, <2>2
  <2> HIDE DEF s, u
  <2>4. s = u
    BY <2>1, <2>3, SameEvents
  <2> QED BY <2>4, Zenon DEF s, u
<1> QED BY <1>1, <1>2, <1>3, Zenon

\* The empty sequence adds nothing.
LEMMA EmptyConcats ==
    ASSUME NEW s \in Seq(Events)
    PROVE  s \o <<>> = s /\ <<>> \o s = s
  OBVIOUS

\* Reports add up.
LEMMA EventsAddUp ==
    ASSUME NEW s \in Seq(Events), NEW t \in Seq(Events), NEW u \in Seq(Events)
    PROVE  (s \o t) \o u = s \o (t \o u)
  OBVIOUS

\* Sequences of at most three events, and how they begin and end.
LEMMA ShortEvents ==
    ASSUME NEW a \in Events, NEW b \in Events, NEW c \in Events
    PROVE  /\ <<>> \in Seq(Events) /\ <<a>> \in Seq(Events)
           /\ <<a, b>> \in Seq(Events) /\ <<a, b, c>> \in Seq(Events)
           /\ Promise!Extends(<<>>, <<a>>) /\ Promise!Extends(<<>>, <<a, b>>)
           /\ Promise!Extends(<<>>, <<a, b, c>>)
           /\ Promise!Extends(<<a>>, <<a, b>>)
           /\ Promise!Extends(<<a>>, <<a, b, c>>)
           /\ Promise!Extends(<<a, b>>, <<a, b, c>>)
<1>1. /\ <<>> \in Seq(Events) /\ <<a>> \in Seq(Events)
      /\ <<a, b>> \in Seq(Events) /\ <<a, b, c>> \in Seq(Events)
  OBVIOUS
<1>2. /\ Promise!Extends(<<>>, <<a>>) /\ Promise!Extends(<<>>, <<a, b>>)
      /\ Promise!Extends(<<>>, <<a, b, c>>)
  BY DEF Promise!Extends
<1>3. /\ Promise!Extends(<<a>>, <<a, b>>)
      /\ Promise!Extends(<<a>>, <<a, b, c>>)
      /\ Promise!Extends(<<a, b>>, <<a, b, c>>)
  BY DEF Promise!Extends
<1> QED BY <1>1, <1>2, <1>3, Zenon

\* The event is the last of its request.
LastEvent(r, x) ==
    x \in {"sent", "error"} \/ (x = "propagated" /\ r \notin Confirmed)

\* When a sequence of at most three events is over.
LEMMA OverForms ==
    ASSUME NEW r, NEW a \in Events, NEW b \in Events, NEW c \in Events
    PROVE  /\ ~Promise!Over(r, <<>>)
           /\ Promise!Over(r, <<a>>) <=> LastEvent(r, a)
           /\ Promise!Over(r, <<a, b>>) <=> LastEvent(r, b)
           /\ Promise!Over(r, <<a, b, c>>) <=> LastEvent(r, c)
<1>1. ~Promise!Over(r, <<>>)
  BY Zenon DEF Promise!Over
<1>2. Promise!Over(r, <<a>>) <=> LastEvent(r, a)
  <2>1. <<a>> # <<>> /\ <<a>>[Len(<<a>>)] = a
    BY Zenon
  <2> QED BY <2>1, Zenon DEF Promise!Over, LastEvent
<1>3. Promise!Over(r, <<a, b>>) <=> LastEvent(r, b)
  <2>1. <<a, b>> # <<>> /\ <<a, b>>[Len(<<a, b>>)] = b
    BY Zenon
  <2> QED BY <2>1, Zenon DEF Promise!Over, LastEvent
<1>4. Promise!Over(r, <<a, b, c>>) <=> LastEvent(r, c)
  <2>1. <<a, b, c>> # <<>> /\ <<a, b, c>>[Len(<<a, b, c>>)] = c
    BY Zenon
  <2> QED BY <2>1, Zenon DEF Promise!Over, LastEvent
<1> QED BY <1>1, <1>2, <1>3, <1>4, Zenon

\* A queued task was told one of four sequences.
LEMMA ToldForms ==
    ASSUME NEW t \in Task
    PROVE  Told(t) = IF t.queuedEventEmitted
                       THEN IF t.propagatedEventEmitted
                              THEN <<"queued", "propagated">> ELSE <<"queued">>
                       ELSE IF t.propagatedEventEmitted
                              THEN <<"propagated">> ELSE <<>>
<1>1. /\ <<"queued">> \o <<"propagated">> = <<"queued", "propagated">>
      /\ <<"queued">> \o <<>> = <<"queued">> /\ <<>> \o <<>> = <<>>
      /\ <<>> \o <<"propagated">> = <<"propagated">>
  BY ShortEvents, ShortConcats, EmptyConcats, Zenon DEF Events
<1> QED BY <1>1, Zenon DEF Told

\* The legal sequences of a request.
LEMMA LegalForms ==
    ASSUME NEW r \in Requests
    PROVE  /\ {<<"queued">>, <<"error">>, <<"propagated">>, <<"queued", "error">>,
               <<"queued", "propagated">>} \subseteq Promise!Legal(r)
           /\ r \in Confirmed =>
                {<<"propagated", "sent">>, <<"propagated", "error">>,
                 <<"queued", "propagated", "sent">>,
                 <<"queued", "propagated", "error">>} \subseteq Promise!Legal(r)
<1>1. /\ <<>> \in Promise!Outcomes(r) /\ <<"error">> \in Promise!Outcomes(r)
      /\ <<"propagated">> \in Promise!Outcomes(r)
      /\ r \in Confirmed => /\ <<"propagated", "sent">> \in Promise!Outcomes(r)
                            /\ <<"propagated", "error">> \in Promise!Outcomes(r)
  BY Zenon DEF Promise!Outcomes
<1>2. /\ <<"queued">> \o <<>> = <<"queued">>
      /\ <<"queued">> \o <<"error">> = <<"queued", "error">>
      /\ <<"queued">> \o <<"propagated">> = <<"queued", "propagated">>
      /\ <<"queued">> \o <<"propagated", "sent">> = <<"queued", "propagated", "sent">>
      /\ <<"queued">> \o <<"propagated", "error">>
           = <<"queued", "propagated", "error">>
  <2>1. <<"queued">> \o <<>> = <<"queued">>
    BY ShortEvents, EmptyConcats, Zenon DEF Events
  <2> QED BY <2>1, ShortConcats, Zenon DEF Events
<1>3. /\ Promise!Outcomes(r) \subseteq Promise!Legal(r)
      /\ \A s \in Promise!Outcomes(r) : <<"queued">> \o s \in Promise!Legal(r)
  BY Zenon DEF Promise!Legal
<1> QED BY <1>1, <1>2, <1>3, Zenon

\* From `e` to `f` the promise to `r` is kept.
Tells(r, e, f) ==
    \/ f = e
    \/ ~Promise!Over(r, e) /\ Promise!Extends(e, f) /\ f \in Promise!Legal(r)

\* The promise over the sequences that the code can produce.
LEMMA PromiseForms ==
    ASSUME NEW r \in Requests
    PROVE  /\ ~Promise!Over(r, <<>>) /\ ~Promise!Over(r, <<"queued">>)
           /\ Promise!Over(r, <<"error">>) /\ Promise!Over(r, <<"queued", "error">>)
           /\ Promise!Over(r, <<"propagated">>) <=> r \notin Confirmed
           /\ Promise!Over(r, <<"queued", "propagated">>) <=> r \notin Confirmed
           /\ \A x \in {"sent", "error"} :
                /\ Promise!Over(r, <<"propagated", x>>)
                /\ Promise!Over(r, <<"queued", "propagated", x>>)
           /\ \A e \in {<<>>} : \A f \in {<<"queued">>, <<"error">>, <<"propagated">>,
                                        <<"queued", "error">>,
                                        <<"queued", "propagated">>} : Tells(r, e, f)
           /\ Tells(r, <<"queued">>, <<"queued", "error">>)
           /\ Tells(r, <<"queued">>, <<"queued", "propagated">>)
           /\ r \in Confirmed => \A x \in {"sent", "error"} :
                /\ Tells(r, <<>>, <<"propagated", x>>)
                /\ Tells(r, <<>>, <<"queued", "propagated", x>>)
                /\ Tells(r, <<"queued">>, <<"queued", "propagated", x>>)
                /\ Tells(r, <<"propagated">>, <<"propagated", x>>)
                /\ Tells(r, <<"queued", "propagated">>, <<"queued", "propagated", x>>)
<1>1. /\ ~Promise!Over(r, <<>>) /\ ~Promise!Over(r, <<"queued">>)
      /\ Promise!Over(r, <<"error">>) /\ Promise!Over(r, <<"queued", "error">>)
      /\ Promise!Over(r, <<"propagated">>) <=> r \notin Confirmed
      /\ Promise!Over(r, <<"queued", "propagated">>) <=> r \notin Confirmed
  BY OverForms DEF Events, LastEvent
<1>2. \A x \in {"sent", "error"} :
        /\ Promise!Over(r, <<"propagated", x>>)
        /\ Promise!Over(r, <<"queued", "propagated", x>>)
  BY OverForms, Zenon DEF Events, LastEvent
<1>3. /\ Promise!Extends(<<>>, <<"queued">>) /\ Promise!Extends(<<>>, <<"error">>)
      /\ Promise!Extends(<<>>, <<"propagated">>)
      /\ Promise!Extends(<<>>, <<"queued", "error">>)
      /\ Promise!Extends(<<>>, <<"queued", "propagated">>)
      /\ Promise!Extends(<<"queued">>, <<"queued", "error">>)
      /\ Promise!Extends(<<"queued">>, <<"queued", "propagated">>)
  BY ShortEvents, Zenon DEF Events
<1>4. \A x \in {"sent", "error"} :
        /\ Promise!Extends(<<>>, <<"propagated", x>>)
        /\ Promise!Extends(<<>>, <<"queued", "propagated", x>>)
        /\ Promise!Extends(<<"queued">>, <<"queued", "propagated", x>>)
        /\ Promise!Extends(<<"propagated">>, <<"propagated", x>>)
        /\ Promise!Extends(<<"queued", "propagated">>, <<"queued", "propagated", x>>)
  BY ShortEvents, Zenon DEF Events
<1>5. /\ \A e \in {<<>>} : \A f \in {<<"queued">>, <<"error">>, <<"propagated">>,
                                   <<"queued", "error">>,
                                   <<"queued", "propagated">>} : Tells(r, e, f)
      /\ Tells(r, <<"queued">>, <<"queued", "error">>)
      /\ Tells(r, <<"queued">>, <<"queued", "propagated">>)
  BY <1>1, <1>3, LegalForms, Zenon DEF Tells
<1>6. ASSUME r \in Confirmed, NEW x \in {"sent", "error"}
      PROVE  /\ Tells(r, <<>>, <<"propagated", x>>)
             /\ Tells(r, <<>>, <<"queued", "propagated", x>>)
             /\ Tells(r, <<"queued">>, <<"queued", "propagated", x>>)
             /\ Tells(r, <<"propagated">>, <<"propagated", x>>)
             /\ Tells(r, <<"queued", "propagated">>, <<"queued", "propagated", x>>)
  <2>1. /\ <<"propagated", x>> \in Promise!Legal(r)
        /\ <<"queued", "propagated", x>> \in Promise!Legal(r)
    BY <1>6, LegalForms, Zenon
  <2> QED BY <1>1, <1>4, <1>6, <2>1, Zenon DEF Tells
<1> QED BY <1>1, <1>2, <1>5, <1>6, Zenon

\* What may follow <<>> and <<"queued">>.
LEMMA FirstReports ==
    ASSUME NEW r \in Requests, NEW q \in {<<>>, <<"queued">>}, NEW e \in {<<>>, q}
    PROVE  /\ ~Promise!Over(r, q) /\ Tells(r, e, q)
           /\ Promise!Over(r, q \o <<"error">>) /\ Tells(r, e, q \o <<"error">>)
           /\ Tells(r, e, q \o <<"propagated">>)
           /\ Promise!Over(r, q \o <<"propagated">>) <=> r \notin Confirmed
           /\ r \in Confirmed => \A x \in {"sent", "error"} :
                /\ Promise!Over(r, q \o <<"propagated", x>>)
                /\ Tells(r, e, q \o <<"propagated", x>>)
<1>0. Tells(r, q, q)
  BY Zenon DEF Tells
<1>1. CASE q = <<>>
  <2>1. /\ <<>> \o <<"error">> = <<"error">>
        /\ <<>> \o <<"propagated">> = <<"propagated">>
        /\ \A x \in {"sent", "error"} : <<>> \o <<"propagated", x>> = <<"propagated", x>>
    BY ShortEvents, EmptyConcats DEF Events
  <2> QED BY <1>0, <1>1, <2>1, PromiseForms, Zenon
<1>2. CASE q = <<"queued">>
  <2>1. /\ <<"queued">> \o <<"error">> = <<"queued", "error">>
        /\ <<"queued">> \o <<"propagated">> = <<"queued", "propagated">>
        /\ \A x \in {"sent", "error"} :
             <<"queued">> \o <<"propagated", x>> = <<"queued", "propagated", x>>
    BY ShortConcats DEF Events
  <2> QED BY <1>0, <1>2, <2>1, PromiseForms, Zenon
<1> QED BY <1>1, <1>2, Zenon

\* What may follow the propagation of a request that a store is to confirm.
LEMMA LastReports ==
    ASSUME NEW r \in Confirmed, NEW e \in {<<"propagated">>, <<"queued", "propagated">>},
           NEW x \in {"sent", "error"}
    PROVE  ~Promise!Over(r, e) /\ Promise!Over(r, e \o <<x>>) /\ Tells(r, e, e \o <<x>>)
<1>0. r \in Requests
  BY Zenon DEF Confirmed
<1>1. /\ <<"propagated">> \o <<x>> = <<"propagated", x>>
      /\ <<"queued", "propagated">> \o <<x>> = <<"queued", "propagated", x>>
  BY ShortConcats DEF Events
<1> QED BY <1>0, <1>1, PromiseForms, Zenon

----------------------------------------------------------------------------
(* How a step changes one request.                                         *)

\* A message that leaves the queue is out of it, and the others stay.
LEMMA LeavesQueue ==
    ASSUME SendTypeOK, OneEntryPerMessage, NEW r, queue' = Without(queue, r)
    PROVE  /\ OneEntryPerMessage'
           /\ \A q : InSeq(q, queue') <=> InSeq(q, queue) /\ q # r
<1>1. Distinct(queue)
  BY Zenon DEF OneEntryPerMessage, Distinct
<1>2. /\ Distinct(queue')
      /\ \A q : InSeq(q, queue') <=> InSeq(q, queue) /\ q # r
  BY <1>1, WithoutMembers, Zenon DEF SendTypeOK
<1>3. ASSUME NEW i \in DOMAIN queue', NEW j \in DOMAIN queue',
             HashOf[queue'[i]] = HashOf[queue'[j]]
      PROVE  i = j
  <2>1. InSeq(queue'[i], queue) /\ InSeq(queue'[j], queue)
    BY <1>2, Zenon DEF InSeq
  <2>2. queue'[i] = queue'[j]
    BY <1>3, <2>1, Zenon DEF InSeq, OneEntryPerMessage
  <2> QED BY <1>2, <2>2, Zenon DEF Distinct
<1> QED BY <1>2, <1>3, Zenon DEF OneEntryPerMessage

\* A step that changes one request leaves the others as they were.
LEMMA OneChanged ==
    ASSUME SendTypeOK, AllConsistent, NEW r \in Requests, NEW t, NEW ev, NEW where,
           Becomes(r, t, ev, where), answer' = answer,
           \A q \in Requests : q # r => (InSeq(q, queue') <=> InSeq(q, queue)),
           Consistent(r, InSeq(r, queue'), t, events[r] \o ev, where, answer[r])
    PROVE  AllConsistent'
<1>1. /\ task'[r] = t /\ events'[r] = events[r] \o ev /\ phase'[r] = where
      /\ \A q \in Requests : q # r => /\ task'[q] = task[q] /\ events'[q] = events[q]
                                      /\ phase'[q] = phase[q]
  BY Zenon DEF Becomes, SendTypeOK
<1>2. ASSUME NEW q \in Requests
      PROVE  Consistent(q, InSeq(q, queue'), task'[q], events'[q], phase'[q], answer'[q])
  <2>1. CASE q = r
    BY <1>1, <2>1, Zenon
  <2>2. CASE q # r
    <3>1. Consistent(q, InSeq(q, queue), task[q], events[q], phase[q], answer[q])
      BY Zenon DEF AllConsistent
    <3>2. InSeq(q, queue') <=> InSeq(q, queue)
      BY <2>2, Zenon
    <3> HIDE DEF InSeq
    <3> QED BY <1>1, <2>2, <3>1, <3>2, Zenon DEF Consistent
  <2> QED BY <2>1, <2>2, Zenon
<1> QED BY <1>2, Zenon DEF AllConsistent

\* The events of one request change as promised.
LEMMA ToldAsPromised ==
    ASSUME SendTypeOK, NEW r \in Requests, NEW f,
           events' = [events EXCEPT ![r] = f], Tells(r, events[r], f)
    PROVE  [Promise!RENext]_events
<1>1. CASE f = events[r]
  BY <1>1, Zenon DEF SendTypeOK
<1>2. CASE f # events[r]
  BY <1>2, Zenon DEF Tells, Promise!RENext, Promise!Report
<1> QED BY <1>1, <1>2, Zenon

\* The end of a task.
LEMMA FinishStep ==
    ASSUME SendTypeOK, AllConsistent, OneEntryPerMessage, NEW r \in Requests,
           InSeq(r, queue), NEW ev, Finish(r, ev), answer' = answer,
           Promise!Over(r, events[r] \o ev), Tells(r, events[r], events[r] \o ev)
    PROVE  AllConsistent' /\ OneEntryPerMessage' /\ [Promise!RENext]_events
<1>1. /\ OneEntryPerMessage' /\ ~InSeq(r, queue')
      /\ \A q \in Requests : q # r => (InSeq(q, queue') <=> InSeq(q, queue))
  BY LeavesQueue, Zenon DEF Finish
<1>2. answer[r] = "ok"
  BY Zenon DEF AllConsistent, Consistent
<1>3. /\ NewTask(1).propagatedEventEmitted = FALSE /\ NewTask(1).admitted = FALSE
      /\ NewTask(1).proof = FALSE /\ NewTask(1).owed = 0
  BY Zenon DEF NewTask
<1>4. Consistent(r, InSeq(r, queue'), NewTask(1), events[r] \o ev, "none", answer[r])
  BY <1>1, <1>2, <1>3, Zenon DEF Consistent, OwesRight
<1>5. Becomes(r, NewTask(1), ev, "none")
  BY Zenon DEF Finish
<1>6. AllConsistent'
  BY <1>1, <1>4, <1>5, OneChanged, Zenon
<1>7. [Promise!RENext]_events
  BY <1>5, ToldAsPromised, Zenon DEF Becomes
<1> QED BY <1>1, <1>6, <1>7, Zenon

\* The end of a task with an error, after the events `e`.
LEMMA FailStep ==
    ASSUME SendTypeOK, AllConsistent, OneEntryPerMessage, NEW r \in Requests,
           InSeq(r, queue), NEW ev \in Seq(Events), Fail(r, ev), answer' = answer,
           NEW e, events[r] \o ev = e, Promise!Over(r, e \o <<"error">>),
           Tells(r, events[r], e \o <<"error">>)
    PROVE  AllConsistent' /\ OneEntryPerMessage' /\ [Promise!RENext]_events
<1>1. events[r] \in Seq(Events) /\ <<"error">> \in Seq(Events)
  BY ShortEvents, Zenon DEF SendTypeOK, Events
<1>2. Append(ev, "error") = ev \o <<"error">>
  BY DEF Events
<1>3. (events[r] \o ev) \o <<"error">> = events[r] \o (ev \o <<"error">>)
  BY <1>1, EventsAddUp, Zenon
<1>4. events[r] \o Append(ev, "error") = e \o <<"error">>
  BY <1>2, <1>3, Zenon
<1> QED BY <1>4, FinishStep, Zenon DEF Fail

\* The way on from a propagation that was reported.
LEMMA AfterPropagationStep ==
    ASSUME SendTypeOK, AllConsistent, OneEntryPerMessage, NEW r \in Requests,
           InSeq(r, queue), NEW t \in Task, NEW ev \in Seq(Events),
           AfterPropagation(r, t, ev), answer' = answer,
           t.propagatedEventEmitted, OwesRight(t), ~Refused(r),
           Tells(r, events[r], events[r] \o ev),
           ~AwaitsStoreValidation(r, t) => Promise!Over(r, events[r] \o ev),
           AwaitsStoreValidation(r, t) =>
             /\ events[r] \o ev = Told(t)
             /\ Promise!Over(r, Told(t) \o <<"error">>)
             /\ Tells(r, events[r], Told(t) \o <<"error">>)
    PROVE  AllConsistent' /\ OneEntryPerMessage' /\ [Promise!RENext]_events
<1>1. CASE ~AwaitsStoreValidation(r, t)
  BY <1>1, FinishStep, Zenon DEF AfterPropagation
<1>2. CASE AwaitsStoreValidation(r, t) /\ t.storeSpent
  <2>1. Fail(r, ev) /\ events[r] \o ev = Told(t)
    BY <1>2, Zenon DEF AfterPropagation
  <2> QED BY <1>2, <2>1, FailStep, Zenon
<1>3. CASE AwaitsStoreValidation(r, t) /\ ~t.storeSpent
  <2>1. Becomes(r, t, ev, "store") /\ queue' = queue
    BY <1>3, Zenon DEF AfterPropagation
  <2>2. answer[r] = "ok"
    BY Zenon DEF AllConsistent, Consistent
  <2>3. Consistent(r, InSeq(r, queue'), t, events[r] \o ev, "store", answer[r])
    BY <1>3, <2>1, <2>2, Zenon DEF Consistent
  <2>4. AllConsistent'
    BY <2>1, <2>3, OneChanged, Zenon
  <2>5. [Promise!RENext]_events
    BY <2>1, ToldAsPromised, Zenon DEF Becomes
  <2> QED BY <2>1, <2>4, <2>5, Zenon DEF OneEntryPerMessage
<1> QED BY <1>1, <1>2, <1>3, Zenon

\* The end of an attempt. `t` is the task that the attempt leaves, `ev` what the
\* attempt has reported of it.
LEMMA EndAttemptStep ==
    ASSUME SendTypeOK, AllConsistent, OneEntryPerMessage, NEW r \in Requests,
           InSeq(r, queue), NEW t \in Task, NEW ev \in Seq(Events),
           EndAttempt(r, t, ev), answer' = answer,
           ~task[r].propagatedEventEmitted, ~t.propagatedEventEmitted,
           Told(t) = events[r] \o ev, ev \in {<<>>, <<"queued">>},
           OwesRight(t) \/ t.state = "FailedToDeliver",
           Refused(r) => t.state = "FailedToDeliver"
    PROVE  AllConsistent' /\ OneEntryPerMessage' /\ [Promise!RENext]_events
<1> DEFINE done == [t EXCEPT !.propagatedEventEmitted = TRUE]
           retry == [t EXCEPT !.state = "NextRoundRetry"]
           q == Told(t)
<1>0. events[r] \in Seq(Events) /\ answer[r] = "ok" /\ events[r] = Told(task[r])
  BY Zenon DEF AllConsistent, Consistent, SendTypeOK
<1>1. q \in {<<>>, <<"queued">>} /\ events[r] \in {<<>>, q}
  <2>1. Told(t) \in {<<>>, <<"queued">>}
    BY ToldForms, Zenon
  <2>2. events[r] \in {<<>>, <<"queued">>}
    <3>1. task[r] \in Task
      BY Zenon DEF SendTypeOK
    <3> QED BY <1>0, <3>1, ToldForms, Zenon
  <2>3. CASE ev = <<>>
    BY <1>0, <2>1, <2>3, EmptyConcats, Zenon
  <2>4. CASE ev = <<"queued">> /\ events[r] = <<"queued">>
    <3>1. Told(t) = <<"queued", "queued">>
      BY <2>4, ShortConcats DEF Events
    <3>2. <<"queued", "queued">> \notin {<<>>, <<"queued">>}
      BY Zenon
    <3> QED BY <2>1, <3>1, <3>2, Zenon
  <2>5. CASE events[r] = <<>>
    BY <2>1, <2>5, Zenon
  <2> QED BY <2>2, <2>3, <2>4, <2>5, Zenon
<1>2. /\ Promise!Over(r, q \o <<"error">>) /\ Tells(r, events[r], q \o <<"error">>)
      /\ Tells(r, events[r], q)
  BY <1>1, FirstReports, Zenon
<1>3. CASE Fail(r, ev)
  BY <1>2, <1>3, FailStep, Zenon
<1>4. CASE /\ t.state \notin {"SuccessfullyPropagated", "FailedToDeliver"}
           /\ Becomes(r, retry, ev, "tick") /\ UNCHANGED queue
  <2>1. /\ Told(retry) = Told(t) /\ OwesRight(retry)
        /\ retry.propagatedEventEmitted = FALSE
    BY <1>4, Zenon DEF Told, OwesRight, Task
  <2>2. ~Refused(r)
    BY <1>4, Zenon
  <2> HIDE DEF retry
  <2>3. Consistent(r, InSeq(r, queue'), retry, events[r] \o ev, "tick", answer[r])
    BY <1>0, <1>4, <2>1, <2>2, Zenon DEF Consistent
  <2>4. AllConsistent'
    BY <1>4, <2>3, OneChanged, Zenon
  <2>5. [Promise!RENext]_events
    BY <1>2, <1>4, ToldAsPromised, Zenon DEF Becomes
  <2> QED BY <1>4, <2>4, <2>5, Zenon DEF OneEntryPerMessage
<1>5. CASE /\ t.state = "SuccessfullyPropagated"
           /\ AfterPropagation(r, done, ev \o PropagatedEvents(r, t))
  <2>1. /\ done \in Task /\ done.propagatedEventEmitted = TRUE
        /\ done.state = t.state /\ OwesRight(done)
        /\ done.propagatedAnonymously = t.propagatedAnonymously
        /\ done.queuedEventEmitted = t.queuedEventEmitted
    BY <1>5, Zenon DEF OwesRight, Task
  <2>2. ~Refused(r)
    BY <1>5, Zenon
  <2>3. Told(done) = q \o <<"propagated">>
    <3> HIDE DEF done
    <3>1. /\ <<"queued">> \o <<"propagated">> = <<"queued", "propagated">>
          /\ <<>> \o <<"propagated">> = <<"propagated">>
      BY ShortEvents, ShortConcats, EmptyConcats, Zenon DEF Events
    <3> QED BY <2>1, <3>1, ToldForms, Zenon
  <2>4. /\ PropagatedEvents(r, t) \in Seq(Events)
        /\ events[r] \o (ev \o PropagatedEvents(r, t)) = q \o PropagatedEvents(r, t)
    <3>1. PropagatedEvents(r, t) \in Seq(Events)
      BY ShortEvents, Zenon DEF PropagatedEvents, Events
    <3>2. (events[r] \o ev) \o PropagatedEvents(r, t)
            = events[r] \o (ev \o PropagatedEvents(r, t))
      BY <1>0, <3>1, EventsAddUp, Zenon
    <3> QED BY <3>1, <3>2, Zenon
  <2>5. r \in Confirmed <=> StoreConfirmationExpected(r)
    BY Zenon DEF Confirmed
  <2>6. /\ Tells(r, events[r], q \o PropagatedEvents(r, t))
        /\ ~AwaitsStoreValidation(r, done)
             => Promise!Over(r, q \o PropagatedEvents(r, t))
        /\ AwaitsStoreValidation(r, done) => PropagatedEvents(r, t) = <<"propagated">>
    <3> HIDE DEF done, q
    <3> QED BY <1>1, <1>5, <2>1, <2>5, FirstReports, Zenon
            DEF PropagatedEvents, AwaitsStoreValidation
  <2>7. AwaitsStoreValidation(r, done) =>
          /\ Promise!Over(r, (q \o <<"propagated">>) \o <<"error">>)
          /\ Tells(r, events[r], (q \o <<"propagated">>) \o <<"error">>)
    <3>1. (q \o <<"propagated">>) \o <<"error">> = q \o <<"propagated", "error">>
      <4>1. /\ q \in Seq(Events) /\ <<"propagated">> \in Seq(Events)
            /\ <<"error">> \in Seq(Events)
        BY <1>1, ShortEvents, Zenon DEF Events
      <4>2. <<"propagated">> \o <<"error">> = <<"propagated", "error">>
        BY ShortConcats, Zenon DEF Events
      <4> HIDE DEF q
      <4>3. (q \o <<"propagated">>) \o <<"error">> = q \o (<<"propagated">> \o <<"error">>)
        BY <4>1, EventsAddUp
      <4> QED BY <4>2, <4>3, Zenon
    <3> HIDE DEF done, q
    <3> QED BY <1>1, <2>5, <3>1, FirstReports, Zenon DEF AwaitsStoreValidation
  <2>8. ev \o PropagatedEvents(r, t) \in Seq(Events)
    BY <2>4
  <2> HIDE DEF done, q
  <2> QED BY <1>5, <2>1, <2>2, <2>3, <2>4, <2>6, <2>7, <2>8, AfterPropagationStep, Zenon
<1> QED BY <1>3, <1>4, <1>5, Zenon DEF EndAttempt

\* A step that reports nothing and keeps the queue.
LEMMA QuietStep ==
    ASSUME SendTypeOK, AllConsistent, OneEntryPerMessage, NEW r \in Requests,
           NEW t, NEW where,
           task' = [task EXCEPT ![r] = t], phase' = [phase EXCEPT ![r] = where],
           UNCHANGED <<events, answer, queue>>,
           Consistent(r, InSeq(r, queue), t, events[r], where, answer[r])
    PROVE  AllConsistent' /\ OneEntryPerMessage' /\ [Promise!RENext]_events
<1>1. events[r] \o <<>> = events[r]
  BY EmptyConcats, Zenon DEF SendTypeOK
<1>2. Becomes(r, t, <<>>, where)
  BY <1>1, Zenon DEF Becomes, SendTypeOK
<1>3. queue' = queue /\ answer' = answer
  BY Zenon
<1>4. Consistent(r, InSeq(r, queue'), t, events[r] \o <<>>, where, answer[r])
  BY <1>1, <1>3, Zenon
<1>5. AllConsistent'
  BY <1>2, <1>3, <1>4, OneChanged, Zenon
<1> QED BY <1>3, <1>5, Zenon DEF OneEntryPerMessage

\* The callbacks that the event loop still has to run.
LEMMA SoonTypes ==
    ASSUME SendTypeOK
    PROVE  /\ soon \in Seq(Callbacks)
           /\ \A c \in Callbacks : c.of \in Requests /\ c = Callback(c.call, c.of)
           /\ \A i \in DOMAIN soon : soon[i] \in Callbacks
           /\ \A x, y, q, r : Callback(x, q) = Callback(y, r) => x = y /\ q = r
<1>1. soon \in Seq(Callbacks)
  BY Zenon DEF SendTypeOK, Callbacks
<1>2. \A c \in Callbacks : c.of \in Requests /\ c = Callback(c.call, c.of)
  BY DEF Callbacks, Callback
<1>3. \A i \in DOMAIN soon : soon[i] \in Callbacks
  BY <1>1
<1>4. \A x, y, q, r : Callback(x, q) = Callback(y, r) => x = y /\ q = r
  <2> SUFFICES ASSUME NEW x, NEW y, NEW q, NEW r, Callback(x, q) = Callback(y, r)
               PROVE  x = y /\ q = r
    BY Zenon
  <2>1. /\ Callback(x, q).call = x /\ Callback(x, q).of = q
        /\ Callback(y, r).call = y /\ Callback(y, r).of = r
    BY Zenon DEF Callback
  <2> QED BY <2>1, Zenon
<1> QED BY <1>1, <1>2, <1>3, <1>4, Zenon

\* Only a deliver that waits for retryTick, or was woken, has to do with tickQ
\* and the wake-ups.
LEMMA MoveWakes ==
    ASSUME SendTypeOK, WakesExact, NEW r \in Requests, NEW where,
           phase[r] \notin {"tick", "woken"},
           phase' = [phase EXCEPT ![r] = where], soon' = soon,
           tickQ' = tickQ \/ (tickQ' = Append(tickQ, r) /\ where = "tick")
    PROVE  WakesExact'
<1>1. /\ phase'[r] = where
      /\ \A q \in Requests : q # r => phase'[q] = phase[q]
  BY Zenon DEF SendTypeOK
<1>2. ~InSeq(r, tickQ)
  BY Zenon DEF WakesExact
<1>3. Distinct(tickQ') /\ \A q \in Requests : InSeq(q, tickQ') => phase'[q] = "tick"
  <2>1. CASE tickQ' = tickQ
    BY <1>1, <1>2, <2>1 DEF WakesExact
  <2>2. CASE tickQ' = Append(tickQ, r) /\ where = "tick"
    BY <1>1, <1>2, <2>2, AppendMembers DEF WakesExact, SendTypeOK
  <2> QED BY <2>1, <2>2, Zenon
<1>4. ASSUME NEW i \in DOMAIN soon, soon[i].call = "wake"
      PROVE  /\ phase'[soon[i].of] = "woken"
             /\ \A j \in DOMAIN soon : soon[j] = soon[i] => i = j
  <2>1. /\ phase[soon[i].of] = "woken"
        /\ \A j \in DOMAIN soon : soon[j] = soon[i] => i = j
    BY <1>4, Zenon DEF WakesExact
  <2>2. soon[i].of \in Requests
    BY SoonTypes, Zenon
  <2> QED BY <1>1, <2>1, <2>2, Zenon
<1> QED BY <1>3, <1>4 DEF WakesExact

\* A deliver that goes on, or ends with its task, leaves no task behind.
LEMMA MoveDriven ==
    ASSUME SendTypeOK, OneEntryPerMessage, Driven, NEW r \in Requests, NEW where,
           phase' = [phase EXCEPT ![r] = where], soon' = soon, client' = client,
           (queue' = queue /\ where # "none") \/ queue' = Without(queue, r)
    PROVE  Driven'
<1>1. /\ phase'[r] = where
      /\ \A q \in Requests : q # r => phase'[q] = phase[q]
  BY Zenon DEF SendTypeOK
<1>2. ASSUME client = "started", NEW i \in DOMAIN queue'
      PROVE  phase'[queue'[i]] # "none" \/ InSeq(Callback("deliver", queue'[i]), soon)
  <2>1. InSeq(queue'[i], queue) /\ (queue'[i] = r => where # "none")
    BY LeavesQueue, Zenon DEF InSeq
  <2>2. queue'[i] \in Requests
    BY <2>1 DEF InSeq, SendTypeOK
  <2>3. phase[queue'[i]] # "none" \/ InSeq(Callback("deliver", queue'[i]), soon)
    BY <1>2, <2>1, Zenon DEF Driven, Running, InSeq
  <2> QED BY <1>1, <2>1, <2>2, <2>3, Zenon
<1> QED BY <1>2, Zenon DEF Driven, Running

\* Where the end of a task, a propagation and an attempt leave the deliver.
LEMMA EndMoves ==
    ASSUME NEW r \in Requests, NEW t, NEW ev
    PROVE  /\ Finish(r, ev) => /\ phase' = [phase EXCEPT ![r] = "none"]
                               /\ queue' = Without(queue, r)
           /\ AfterPropagation(r, t, ev) =>
                \E where \in {"none", "store"} :
                  /\ phase' = [phase EXCEPT ![r] = where]
                  /\ (queue' = queue /\ where # "none") \/ queue' = Without(queue, r)
           /\ EndAttempt(r, t, ev) =>
                \E where \in {"none", "store", "tick"} :
                  /\ phase' = [phase EXCEPT ![r] = where]
                  /\ (queue' = queue /\ where # "none") \/ queue' = Without(queue, r)
                  /\ \/ (tickQ' = tickQ /\ where # "tick")
                     \/ (tickQ' = Append(tickQ, r) /\ where = "tick")
<1>1. ASSUME NEW x, Finish(r, x) PROVE /\ phase' = [phase EXCEPT ![r] = "none"]
                                       /\ queue' = Without(queue, r)
  BY <1>1, Zenon DEF Finish, Becomes
<1>2. ASSUME NEW x, Fail(r, x) PROVE /\ phase' = [phase EXCEPT ![r] = "none"]
                                     /\ queue' = Without(queue, r)
  BY <1>1, <1>2, Zenon DEF Fail
<1>3. ASSUME NEW u, NEW x, AfterPropagation(r, u, x)
      PROVE  \E where \in {"none", "store"} :
               /\ phase' = [phase EXCEPT ![r] = where]
               /\ (queue' = queue /\ where # "none") \/ queue' = Without(queue, r)
  <2>1. CASE Finish(r, x) \/ Fail(r, x)
    BY <1>1, <1>2, <2>1, Zenon
  <2>2. CASE Becomes(r, u, x, "store") /\ UNCHANGED queue
    BY <2>2, Zenon DEF Becomes
  <2> QED BY <1>3, <2>1, <2>2, Zenon DEF AfterPropagation
<1>4. ASSUME EndAttempt(r, t, ev)
      PROVE  \E where \in {"none", "store", "tick"} :
               /\ phase' = [phase EXCEPT ![r] = where]
               /\ (queue' = queue /\ where # "none") \/ queue' = Without(queue, r)
               /\ \/ (tickQ' = tickQ /\ where # "tick")
                  \/ (tickQ' = Append(tickQ, r) /\ where = "tick")
  <2>1. CASE \E u, x : AfterPropagation(r, u, x) /\ UNCHANGED tickQ
    BY <1>3, <2>1, Zenon
  <2>2. CASE Fail(r, ev) /\ UNCHANGED tickQ
    BY <1>2, <2>2, Zenon
  <2>3. CASE /\ \E u : Becomes(r, u, ev, "tick")
             /\ tickQ' = Append(tickQ, r) /\ UNCHANGED queue
    BY <2>3, Zenon DEF Becomes
  <2> QED BY <1>4, <2>1, <2>2, <2>3, Zenon DEF EndAttempt
<1> QED BY <1>1, <1>3, <1>4, Zenon

----------------------------------------------------------------------------
(* The steps of SendNext.                                                  *)

\* What SendInv says about a deliver that is running.
LEMMA RunningFacts ==
    ASSUME SendInv, NEW r \in Requests, phase[r] # "none"
    PROVE  /\ InSeq(r, queue) /\ answer[r] = "ok" /\ events[r] = Told(task[r])
           /\ OwesRight(task[r]) /\ task[r] \in Task
           /\ phase[r] \notin {"store", "answered"} => ~task[r].propagatedEventEmitted
           /\ phase[r] \in {"store", "answered"} =>
                task[r].propagatedEventEmitted /\ AwaitsStoreValidation(r, task[r])
           /\ phase[r] \in {"quota", "admit"} => ~task[r].admitted
           /\ phase[r] = "prove" => task[r].admitted
           /\ phase[r] \in {"slot", "wire"} => ~NeedsAdmission(task[r])
           /\ phase[r] # "lock" => ~Refused(r)
<1>1. Consistent(r, InSeq(r, queue), task[r], events[r], phase[r], answer[r])
  BY Zenon DEF SendInv, AllConsistent
<1>2. task[r] \in Task
  BY Zenon DEF SendInv, SendTypeOK
<1> QED BY <1>1, <1>2, Zenon DEF Consistent

\* An attempt that ends.
LEMMA AttemptEnds ==
    ASSUME SendInv, SendTypeOK', NEW r \in Requests,
           phase[r] \notin {"none", "store", "answered", "tick", "woken"},
           NEW t \in Task, NEW ev \in {<<>>, <<"queued">>}, EndAttempt(r, t, ev),
           UNCHANGED <<answer, soon, client>>,
           ~t.propagatedEventEmitted, Told(t) = events[r] \o ev,
           OwesRight(t) \/ t.state = "FailedToDeliver",
           Refused(r) => t.state = "FailedToDeliver"
    PROVE  SendInv' /\ [Promise!RENext]_events
<1>1. /\ InSeq(r, queue) /\ ~task[r].propagatedEventEmitted
      /\ SendTypeOK /\ AllConsistent /\ OneEntryPerMessage /\ WakesExact /\ Driven
  BY RunningFacts, Zenon DEF SendInv
<1>2. ev \in Seq(Events)
  BY ShortEvents, Zenon DEF Events
<1>3. AllConsistent' /\ OneEntryPerMessage' /\ [Promise!RENext]_events
  BY <1>1, <1>2, EndAttemptStep, Zenon
<1>4. PICK where :
        /\ phase' = [phase EXCEPT ![r] = where]
        /\ (queue' = queue /\ where # "none") \/ queue' = Without(queue, r)
        /\ tickQ' = tickQ \/ (tickQ' = Append(tickQ, r) /\ where = "tick")
  BY EndMoves, Zenon
<1>5. WakesExact'
  BY <1>1, <1>4, MoveWakes, Zenon
<1>6. Driven'
  BY <1>1, <1>4, MoveDriven, Zenon
<1> QED BY <1>3, <1>5, <1>6, Zenon DEF SendInv

\* A new state of the task changes neither what it was told nor what it owes.
LEMMA StateAlone ==
    ASSUME NEW t \in Task, NEW x \in States
    PROVE  LET u == [t EXCEPT !.state = x] IN
           /\ u \in Task /\ u.state = x /\ Told(u) = Told(t)
           /\ OwesRight(u) <=> OwesRight(t)
           /\ NeedsAdmission(u) <=> NeedsAdmission(t)
           /\ u.propagatedEventEmitted <=> t.propagatedEventEmitted
<1> DEFINE u == [t EXCEPT !.state = x]
<1>1. /\ u.state = x /\ u.queuedEventEmitted = t.queuedEventEmitted
      /\ u.propagatedEventEmitted = t.propagatedEventEmitted
      /\ u.admitted = t.admitted /\ u.proof = t.proof /\ u.owed = t.owed
  BY Zenon DEF Task
<1>2. u \in Task
  BY TaskUpdates, Zenon
<1> HIDE DEF u
<1>3. /\ Told(u) = Told(t) /\ (OwesRight(u) <=> OwesRight(t))
      /\ (NeedsAdmission(u) <=> NeedsAdmission(t))
  BY <1>1, Zenon DEF Told, OwesRight, NeedsAdmission, NeedsRlnProof
<1> QED BY <1>1, <1>2, <1>3, Zenon DEF u

\* A processor that returns.
LEMMA AdvanceStep ==
    ASSUME SendInv, SendTypeOK', NEW r \in Requests, phase[r] \in {"slot", "wire"},
           NEW t \in Task, Advance(r, t), UNCHANGED <<answer, soon, client>>,
           ~t.propagatedEventEmitted, Told(t) = Told(task[r]), OwesRight(t),
           t.state = "FallbackRetry" => ~NeedsAdmission(t)
    PROVE  SendInv' /\ [Promise!RENext]_events
<1>1. /\ events[r] = Told(task[r]) /\ InSeq(r, queue) /\ answer[r] = "ok" /\ ~Refused(r)
      /\ SendTypeOK /\ AllConsistent /\ OneEntryPerMessage /\ WakesExact /\ Driven
  BY RunningFacts, Zenon DEF SendInv
<1>2. events[r] \o <<>> = events[r] /\ events[r] \o <<>> = Told(t)
  BY <1>1, EmptyConcats, Zenon DEF SendTypeOK
<1>3. CASE EndAttempt(r, t, <<>>)
  BY <1>1, <1>2, <1>3, AttemptEnds, Zenon
<1>4. CASE t.state = "FallbackRetry" /\ via[r] < Len(Chain)
  <2>1. /\ Becomes(r, t, <<>>, "slot") /\ UNCHANGED <<slotQ, queue, tickQ>>
    BY <1>4, Zenon DEF Advance
  <2>2. /\ task' = [task EXCEPT ![r] = t] /\ phase' = [phase EXCEPT ![r] = "slot"]
        /\ events' = events
    BY <1>1, <1>2, <2>1, Zenon DEF Becomes, SendTypeOK
  <2>3. Consistent(r, InSeq(r, queue), t, events[r], "slot", answer[r])
    BY <1>1, <1>2, <1>4, Zenon DEF Consistent
  <2>4. AllConsistent' /\ OneEntryPerMessage' /\ [Promise!RENext]_events
    BY <1>1, <2>1, <2>2, <2>3, QuietStep, Zenon
  <2>5. WakesExact'
    BY <1>1, <2>1, <2>2, MoveWakes, Zenon
  <2>6. Driven'
    BY <1>1, <2>1, <2>2, MoveDriven, Zenon
  <2> QED BY <2>4, <2>5, <2>6, Zenon DEF SendInv
<1> QED BY <1>3, <1>4, Zenon DEF Advance

\* The event loop runs its next callback, of `r`, and moves that deliver.
LEMMA RunsHead ==
    ASSUME SendInv, NEW r \in Requests, NEW x, NEW where,
           soon # <<>>, Head(soon) = Callback(x, r), soon' = Tail(soon),
           phase' = [phase EXCEPT ![r] = where], tickQ' = tickQ, client' = client,
           x = "wake" \/ phase[r] \notin {"tick", "woken"},
           queue' = queue \/ queue' = Without(queue, r),
           client = "started" /\ InSeq(r, queue') => where # "none"
    PROVE  WakesExact' /\ Driven'
<1>0. SendTypeOK /\ WakesExact /\ Driven /\ OneEntryPerMessage
  BY Zenon DEF SendInv
<1>1. /\ phase'[r] = where
      /\ \A q \in Requests : q # r => phase'[q] = phase[q]
  BY <1>0, Zenon DEF SendTypeOK
<1>2. /\ Len(soon) \in Nat \ {0} /\ DOMAIN soon = 1..Len(soon) /\ soon[1] = Callback(x, r)
      /\ DOMAIN soon' = 1..(Len(soon) - 1)
      /\ \A i \in 1..(Len(soon) - 1) : soon'[i] = soon[i + 1]
  BY <1>0, SoonTypes
<1>3. x = "wake" => phase[r] = "woken"
  <2>1. soon[1].call = x /\ soon[1].of = r
    BY <1>2 DEF Callback
  <2> QED BY <1>0, <1>2, <2>1 DEF WakesExact
<1>4. ~InSeq(r, tickQ)
  BY <1>0, <1>3, Zenon DEF WakesExact
<1>5. ASSUME NEW i \in DOMAIN soon', soon'[i].call = "wake"
      PROVE  /\ phase'[soon'[i].of] = "woken"
             /\ \A j \in DOMAIN soon' : soon'[j] = soon'[i] => i = j
  <2>1. i + 1 \in DOMAIN soon /\ soon'[i] = soon[i + 1] /\ i \in Nat
    BY <1>2
  <2>2. /\ phase[soon[i + 1].of] = "woken"
        /\ \A j \in DOMAIN soon : soon[j] = soon[i + 1] => i + 1 = j
    BY <1>0, <1>5, <2>1, Zenon DEF WakesExact
  <2>3. /\ soon[i + 1].of \in Requests
        /\ soon[i + 1] = Callback("wake", soon[i + 1].of)
    BY <1>0, <1>5, <2>1, SoonTypes, Zenon
  <2>4. soon[i + 1].of # r
    <3>1. SUFFICES ASSUME soon[i + 1].of = r PROVE FALSE
      BY Zenon
    <3>2. x = "wake"
      BY <2>2, <3>1, Zenon
    <3>3. soon[1] = soon[i + 1]
      BY <1>2, <2>3, <3>1, <3>2, Zenon
    <3> QED BY <1>2, <2>1, <2>2, <3>3
  <2>5. ASSUME NEW j \in DOMAIN soon', soon'[j] = soon'[i] PROVE i = j
    <3>1. j + 1 \in DOMAIN soon /\ soon'[j] = soon[j + 1] /\ j \in Nat
      BY <1>2
    <3> QED BY <2>1, <2>2, <2>5, <3>1
  <2> QED BY <1>1, <2>1, <2>2, <2>3, <2>4, <2>5, Zenon
<1>6. Distinct(tickQ') /\ \A q \in Requests : InSeq(q, tickQ') => phase'[q] = "tick"
  BY <1>0, <1>1, <1>4, Zenon DEF WakesExact
<1>7. WakesExact'
  BY <1>5, <1>6, Zenon DEF WakesExact
<1>8. ASSUME client = "started", NEW i \in DOMAIN queue'
      PROVE  phase'[queue'[i]] # "none" \/ InSeq(Callback("deliver", queue'[i]), soon')
  <2>1. InSeq(queue'[i], queue) /\ InSeq(queue'[i], queue')
    BY <1>0, LeavesQueue, Zenon DEF InSeq
  <2>2. queue'[i] \in Requests
    BY <1>0, <2>1 DEF InSeq, SendTypeOK
  <2>3. phase[queue'[i]] # "none" \/ InSeq(Callback("deliver", queue'[i]), soon)
    BY <1>0, <1>8, <2>1, Zenon DEF Driven, Running, InSeq
  <2>4. CASE queue'[i] = r
    BY <1>1, <1>8, <2>1, <2>4, Zenon
  <2>5. CASE queue'[i] # r
    <3>1. Callback("deliver", queue'[i]) # Head(soon)
      BY <1>0, <2>5, SoonTypes
    <3>2. InSeq(Callback("deliver", queue'[i]), soon)
            => InSeq(Callback("deliver", queue'[i]), soon')
      BY <1>0, <3>1, SoonTypes, TailMembers, Zenon
    <3> QED BY <1>1, <2>2, <2>3, <2>5, <3>2, Zenon
  <2> QED BY <2>4, <2>5, Zenon
<1>9. Driven'
  BY <1>8, Zenon DEF Driven, Running
<1> QED BY <1>7, <1>9, Zenon

\* A callback that has nothing to do.
LEMMA RunsHeadOnly ==
    ASSUME SendInv, NEW r \in Requests,
           soon # <<>>, Head(soon) = Callback("deliver", r), soon' = Tail(soon),
           UNCHANGED <<phase, tickQ, client, queue>>,
           ~(client = "started" /\ phase[r] = "none" /\ InSeq(r, queue))
    PROVE  WakesExact' /\ Driven'
<1>0. SendTypeOK /\ WakesExact /\ Driven
  BY Zenon DEF SendInv
<1>1. /\ Len(soon) \in Nat \ {0} /\ DOMAIN soon = 1..Len(soon)
      /\ DOMAIN soon' = 1..(Len(soon) - 1)
      /\ \A i \in 1..(Len(soon) - 1) : soon'[i] = soon[i + 1]
  BY <1>0, SoonTypes
<1>2. ASSUME NEW i \in DOMAIN soon', soon'[i].call = "wake"
      PROVE  /\ phase[soon'[i].of] = "woken"
             /\ \A j \in DOMAIN soon' : soon'[j] = soon'[i] => i = j
  <2>1. i + 1 \in DOMAIN soon /\ soon'[i] = soon[i + 1] /\ i \in Nat
    BY <1>1
  <2>2. /\ phase[soon[i + 1].of] = "woken"
        /\ \A j \in DOMAIN soon : soon[j] = soon[i + 1] => i + 1 = j
    BY <1>0, <1>2, <2>1, Zenon DEF WakesExact
  <2>3. ASSUME NEW j \in DOMAIN soon', soon'[j] = soon'[i] PROVE i = j
    <3>1. j + 1 \in DOMAIN soon /\ soon'[j] = soon[j + 1] /\ j \in Nat
      BY <1>1
    <3> QED BY <2>1, <2>2, <2>3, <3>1
  <2> QED BY <2>1, <2>2, <2>3, Zenon
<1>3. WakesExact'
  BY <1>0, <1>2, Zenon DEF WakesExact
<1>4. ASSUME client = "started", NEW i \in DOMAIN queue
      PROVE  phase[queue[i]] # "none" \/ InSeq(Callback("deliver", queue[i]), soon')
  <2>1. phase[queue[i]] # "none" \/ InSeq(Callback("deliver", queue[i]), soon)
    BY <1>0, <1>4, Zenon DEF Driven, Running
  <2>2. CASE queue[i] = r
    BY <1>4, <2>2, Zenon DEF InSeq
  <2>3. CASE queue[i] # r
    <3>1. Callback("deliver", queue[i]) # Head(soon)
      BY <1>0, <2>3, SoonTypes
    <3> QED BY <1>0, <2>1, <3>1, SoonTypes, TailMembers, Zenon
  <2> QED BY <2>2, <2>3, Zenon
<1>5. Driven'
  BY <1>4, Zenon DEF Driven, Running
<1> QED BY <1>3, <1>5, Zenon

\* An attempt that begins.
LEMMA BeginAttemptStep ==
    ASSUME SendInv, NEW r \in Requests, InSeq(r, queue),
           ~task[r].propagatedEventEmitted, BeginAttempt(r),
           UNCHANGED <<events, answer, queue, task>>
    PROVE  /\ AllConsistent' /\ OneEntryPerMessage' /\ [Promise!RENext]_events
           /\ \E where \in {"lock", "slot"} : phase' = [phase EXCEPT ![r] = where]
<1>0. SendTypeOK /\ AllConsistent /\ OneEntryPerMessage
  BY Zenon DEF SendInv
<1>1. Consistent(r, InSeq(r, queue), task[r], events[r], phase[r], answer[r])
  BY <1>0, Zenon DEF AllConsistent
<1>2. task' = [task EXCEPT ![r] = task[r]]
  BY <1>0, Zenon DEF SendTypeOK
<1>3. CASE NeedsAdmission(task[r])
  <2>1. phase' = [phase EXCEPT ![r] = "lock"]
    BY <1>3, Zenon DEF BeginAttempt
  <2>2. Consistent(r, InSeq(r, queue), task[r], events[r], "lock", answer[r])
    BY <1>1, Zenon DEF Consistent
  <2> QED BY <1>0, <1>2, <2>1, <2>2, QuietStep, Zenon
<1>4. CASE ~NeedsAdmission(task[r])
  <2>1. phase' = [phase EXCEPT ![r] = "slot"]
    BY <1>4, Zenon DEF BeginAttempt
  <2>2. ~Refused(r)
    BY <1>1, <1>4, Zenon DEF Consistent, NeedsAdmission
  <2>3. Consistent(r, InSeq(r, queue), task[r], events[r], "slot", answer[r])
    BY <1>1, <1>4, <2>2, Zenon DEF Consistent
  <2> QED BY <1>0, <1>2, <2>1, <2>3, QuietStep, Zenon
<1> QED BY <1>3, <1>4, Zenon

\* `send`: a request is queued, folded or refused.
LEMMA SendStep ==
    ASSUME SendInv, SendTypeOK', NEW r \in Requests, Send(r)
    PROVE  SendInv' /\ [Promise!RENext]_events
<1>0. /\ SendTypeOK /\ AllConsistent /\ OneEntryPerMessage /\ WakesExact /\ Driven
      /\ answer[r] = "none" /\ UNCHANGED <<client, phase, tickQ, events>>
  BY Zenon DEF SendInv, Send
<1>1. Consistent(r, InSeq(r, queue), task[r], events[r], phase[r], answer[r])
  BY <1>0, Zenon DEF AllConsistent
<1>2. ~InSeq(r, queue) /\ events[r] = <<>> /\ phase[r] = "none" /\ task[r] = NewTask(1)
  BY <1>0, <1>1, Zenon DEF Consistent
<1>3. PICK a \in {"folded", "full", "ok"} :
        /\ answer' = [answer EXCEPT ![r] = a]
        /\ a # "ok" => UNCHANGED <<queue, soon, task>>
        /\ a = "ok" => /\ \A i \in DOMAIN queue : HashOf[queue[i]] # HashOf[r]
                       /\ queue' = Append(queue, r)
                       /\ soon' = Append(soon, Callback("deliver", r))
                       /\ task' = [task EXCEPT ![r] = NewTask(epoch)]
  <2>1. CASE \E i \in DOMAIN queue : HashOf[queue[i]] = HashOf[r]
    BY <2>1, Zenon DEF Send
  <2>2. CASE /\ ~\E i \in DOMAIN queue : HashOf[queue[i]] = HashOf[r]
             /\ Len(queue) >= SendQueueCapacity
    BY <2>2, Zenon DEF Send
  <2>3. CASE /\ ~\E i \in DOMAIN queue : HashOf[queue[i]] = HashOf[r]
             /\ ~(Len(queue) >= SendQueueCapacity)
    BY <2>3, Zenon DEF Send
  <2> QED BY <2>1, <2>2, <2>3, Zenon
<1>4. answer'[r] = a /\ \A q \in Requests : q # r => answer'[q] = answer[q]
  BY <1>0, <1>3, Zenon DEF SendTypeOK
<1>5. CASE a # "ok"
  <2>1. UNCHANGED <<client, queue, soon, phase, tickQ, task, events>>
    BY <1>0, <1>3, <1>5, Zenon
  <2>2. Consistent(r, InSeq(r, queue), task[r], events[r], phase[r], a)
    BY <1>1, <1>2, <1>5, Zenon DEF Consistent
  <2>3. AllConsistent'
    BY <1>0, <1>4, <2>1, <2>2, Zenon DEF AllConsistent
  <2> QED BY <1>0, <2>1, <2>3, Zenon
          DEF SendInv, OneEntryPerMessage, WakesExact, Driven, Running
<1>6. CASE a = "ok"
  <2>1. /\ \A i \in DOMAIN queue : HashOf[queue[i]] # HashOf[r]
        /\ queue' = Append(queue, r)
        /\ soon' = Append(soon, Callback("deliver", r))
        /\ task' = [task EXCEPT ![r] = NewTask(epoch)]
    BY <1>3, <1>6, Zenon
  <2>2. \A q : InSeq(q, queue') <=> InSeq(q, queue) \/ q = r
    <3>1. queue \in Seq(Requests)
      BY <1>0, Zenon DEF SendTypeOK
    <3> QED BY <2>1, <3>1, AppendMembers, ZenonT(40)
  <2>3. Callback("deliver", r) \in Callbacks
    BY Zenon DEF Callback, Callbacks
  <2>4. \A c : InSeq(c, soon') <=> InSeq(c, soon) \/ c = Callback("deliver", r)
    <3>1. soon \in Seq(Callbacks)
      BY <1>0, SoonTypes, Zenon
    <3>2. \A c : InSeq(c, Append(soon, Callback("deliver", r)))
                 <=> InSeq(c, soon) \/ c = Callback("deliver", r)
      BY <2>3, <3>1, AppendMembers, ZenonT(40)
    <3> QED BY <2>1, <3>2, Zenon
  <2>5. /\ task'[r] = NewTask(epoch)
        /\ \A q \in Requests : q # r => task'[q] = task[q]
    BY <1>0, <2>1, Zenon DEF SendTypeOK
  <2>6. AllConsistent'
    <3>1. Consistent(r, TRUE, NewTask(epoch), <<>>, "none", "ok")
      <4>1. NewTask(epoch) \in Task
        BY <1>0, NewTaskType, Zenon DEF SendTypeOK
      <4>2. /\ NewTask(epoch).propagatedEventEmitted = FALSE
            /\ NewTask(epoch).queuedEventEmitted = FALSE
            /\ NewTask(epoch).admitted = FALSE /\ NewTask(epoch).proof = FALSE
            /\ NewTask(epoch).owed = 0
        BY Zenon DEF NewTask
      <4>3. Told(NewTask(epoch)) = <<>>
        BY <4>1, <4>2, ToldForms, Zenon
      <4> QED BY <4>2, <4>3, Zenon DEF Consistent, OwesRight
    <3>2. InSeq(r, queue')
      BY <2>2, Zenon
    <3>3. Consistent(r, InSeq(r, queue'), task'[r], events'[r], phase'[r], answer'[r])
      BY <1>0, <1>2, <1>4, <1>6, <2>5, <3>1, <3>2, Zenon DEF Consistent
    <3>4. ASSUME NEW q \in Requests, q # r
          PROVE  Consistent(q, InSeq(q, queue'), task'[q], events'[q], phase'[q],
                            answer'[q])
      <4>1. Consistent(q, InSeq(q, queue), task[q], events[q], phase[q], answer[q])
        BY <1>0, Zenon DEF AllConsistent
      <4> QED BY <1>0, <1>4, <2>2, <2>5, <3>4, <4>1, Zenon DEF Consistent
    <3> QED BY <3>3, <3>4, Zenon DEF AllConsistent
  <2>7. OneEntryPerMessage'
    <3>1. /\ Len(queue) \in Nat /\ DOMAIN queue = 1..Len(queue)
          /\ DOMAIN queue' = 1..(Len(queue) + 1)
          /\ \A i \in 1..Len(queue) : queue'[i] = queue[i]
          /\ queue'[Len(queue) + 1] = r
      <4>1. queue \in Seq(Requests)
        BY <1>0, Zenon DEF SendTypeOK
      <4> QED BY <2>1, <4>1
    <3> QED BY <1>0, <2>1, <3>1 DEF OneEntryPerMessage
  <2>8. WakesExact'
    <3>1. /\ Len(soon) \in Nat /\ DOMAIN soon = 1..Len(soon)
          /\ DOMAIN soon' = 1..(Len(soon) + 1)
          /\ \A i \in 1..Len(soon) : soon'[i] = soon[i]
          /\ soon'[Len(soon) + 1] = Callback("deliver", r)
      <4>1. soon \in Seq(Callbacks)
        BY <1>0, SoonTypes, Zenon
      <4> HIDE DEF Callback, Callbacks
      <4> QED BY <2>1, <2>3, <4>1
    <3>2. Callback("deliver", r).call = "deliver"
      BY Zenon DEF Callback
    <3>3. ASSUME NEW i \in DOMAIN soon', soon'[i].call = "wake"
          PROVE  /\ phase[soon'[i].of] = "woken"
                 /\ \A j \in DOMAIN soon' : soon'[j] = soon'[i] => i = j
      <4>1. i \in DOMAIN soon /\ soon'[i] = soon[i]
        BY <3>1, <3>2, <3>3
      <4>2. \A j \in DOMAIN soon' : soon'[j] = soon'[i] =>
               j \in DOMAIN soon /\ soon[j] = soon[i]
        BY <3>1, <3>2, <3>3, <4>1
      <4> QED BY <1>0, <3>3, <4>1, <4>2, Zenon DEF WakesExact
    <3> QED BY <1>0, <3>3, Zenon DEF WakesExact
  <2>9. Driven'
    <3>1. ASSUME client = "started", NEW i \in DOMAIN queue'
          PROVE  phase[queue'[i]] # "none" \/ InSeq(Callback("deliver", queue'[i]), soon')
      <4>1. InSeq(queue'[i], queue) \/ queue'[i] = r
        BY <2>2, Zenon DEF InSeq
      <4>2. InSeq(queue'[i], queue) =>
              phase[queue'[i]] # "none" \/ InSeq(Callback("deliver", queue'[i]), soon)
        BY <1>0, <3>1, Zenon DEF Driven, Running, InSeq
      <4> QED BY <2>4, <4>1, <4>2, Zenon
    <3> QED BY <1>0, <3>1, Zenon DEF Driven, Running
  <2> QED BY <1>0, <2>6, <2>7, <2>8, <2>9, Zenon DEF SendInv
<1> QED BY <1>5, <1>6, Zenon

\* The callback of startDeliverSoon.
LEMMA StartDeliverStep ==
    ASSUME SendInv, SendTypeOK', NEW r \in Requests, StartDeliver(r)
    PROVE  SendInv' /\ [Promise!RENext]_events
<1>0. /\ SendTypeOK /\ AllConsistent /\ OneEntryPerMessage /\ WakesExact /\ Driven
      /\ soon # <<>> /\ Head(soon) = Callback("deliver", r) /\ soon' = Tail(soon)
      /\ UNCHANGED <<client, tickQ, answer>>
  BY Zenon DEF SendInv, StartDeliver
<1>1. Consistent(r, InSeq(r, queue), task[r], events[r], phase[r], answer[r])
  BY <1>0, Zenon DEF AllConsistent
<1>t. task[r] \in Task /\ events[r] \in Seq(Events) /\ <<>> \in Seq(Events)
  BY <1>0 DEF SendTypeOK
<1>2. CASE /\ client = "started" /\ phase[r] = "none" /\ InSeq(r, queue)
           /\ task[r].propagatedEventEmitted
  <2>1. AfterPropagation(r, task[r], <<>>)
    BY <1>2, Zenon DEF StartDeliver
  <2>2. /\ AwaitsStoreValidation(r, task[r]) /\ events[r] = Told(task[r])
        /\ OwesRight(task[r]) /\ r \in Confirmed
    BY <1>1, <1>2, Zenon DEF Consistent, Confirmed, AwaitsStoreValidation
  <2>3. ~Refused(r)
    BY <1>1, <1>2, Zenon DEF Consistent
  <2>4. events[r] \o <<>> = events[r]
    BY <1>t, EmptyConcats, Zenon
  <2>5. events[r] \in {<<"propagated">>, <<"queued", "propagated">>}
    BY <1>2, <1>t, <2>2, ToldForms, Zenon
  <2>6. /\ Promise!Over(r, Told(task[r]) \o <<"error">>)
        /\ Tells(r, events[r], Told(task[r]) \o <<"error">>)
    BY <2>2, <2>5, LastReports, Zenon
  <2>7. Tells(r, events[r], events[r] \o <<>>)
    BY <2>4, Zenon DEF Tells
  <2>8. AllConsistent' /\ OneEntryPerMessage' /\ [Promise!RENext]_events
    BY <1>0, <1>2, <1>t, <2>1, <2>2, <2>3, <2>4, <2>6, <2>7, AfterPropagationStep, Zenon
  <2>9. PICK where \in {"none", "store"} :
          /\ phase' = [phase EXCEPT ![r] = where]
          /\ (queue' = queue /\ where # "none") \/ queue' = Without(queue, r)
    BY <2>1, EndMoves, Zenon
  <2>10. InSeq(r, queue') => where # "none"
    BY <1>0, <2>9, LeavesQueue, Zenon
  <2>11. WakesExact' /\ Driven'
    BY <1>0, <1>2, <2>9, <2>10, RunsHead, Zenon
  <2> QED BY <2>8, <2>11, Zenon DEF SendInv
<1>3. CASE /\ client = "started" /\ phase[r] = "none" /\ InSeq(r, queue)
           /\ ~task[r].propagatedEventEmitted
  <2>1. BeginAttempt(r) /\ UNCHANGED <<task, events, queue>>
    BY <1>3, Zenon DEF StartDeliver
  <2>2. AllConsistent' /\ OneEntryPerMessage' /\ [Promise!RENext]_events
    BY <1>0, <1>3, <2>1, BeginAttemptStep, Zenon
  <2>3. PICK where \in {"lock", "slot"} : phase' = [phase EXCEPT ![r] = where]
    BY <1>0, <1>3, <2>1, BeginAttemptStep, Zenon
  <2>4. WakesExact' /\ Driven'
    BY <1>0, <1>3, <2>1, <2>3, RunsHead, Zenon
  <2> QED BY <2>2, <2>4, Zenon DEF SendInv
<1>4. CASE ~(client = "started" /\ phase[r] = "none" /\ InSeq(r, queue))
  <2>1. UNCHANGED <<phase, task, events, queue>>
    BY <1>4, Zenon DEF StartDeliver
  <2>2. AllConsistent' /\ OneEntryPerMessage' /\ [Promise!RENext]_events
    BY <1>0, <2>1, Zenon DEF AllConsistent, OneEntryPerMessage
  <2>3. WakesExact' /\ Driven'
    BY <1>0, <1>4, <2>1, RunsHeadOnly, Zenon
  <2> QED BY <2>2, <2>3, Zenon DEF SendInv
<1> QED BY <1>2, <1>3, <1>4, Zenon

\* A deliver that retryNow woke.
LEMMA WakeStep ==
    ASSUME SendInv, SendTypeOK', NEW r \in Requests, Wake(r)
    PROVE  SendInv' /\ [Promise!RENext]_events
<1>0. /\ SendTypeOK /\ WakesExact
      /\ soon # <<>> /\ Head(soon) = Callback("wake", r) /\ soon' = Tail(soon)
      /\ BeginAttempt(r) /\ UNCHANGED <<client, tickQ, answer, queue, task, events>>
  BY Zenon DEF SendInv, Wake
<1>1. phase[r] = "woken"
  <2>1. 1 \in DOMAIN soon /\ soon[1] = Callback("wake", r)
    BY <1>0, SoonTypes
  <2>2. soon[1].call = "wake" /\ soon[1].of = r
    BY <2>1 DEF Callback
  <2> QED BY <1>0, <2>1, <2>2, Zenon DEF WakesExact
<1>2. InSeq(r, queue) /\ ~task[r].propagatedEventEmitted
  BY <1>1, RunningFacts, Zenon
<1>3. AllConsistent' /\ OneEntryPerMessage' /\ [Promise!RENext]_events
  BY <1>0, <1>2, BeginAttemptStep, Zenon
<1>4. PICK where \in {"lock", "slot"} : phase' = [phase EXCEPT ![r] = where]
  BY <1>0, <1>2, BeginAttemptStep, Zenon
<1>5. WakesExact' /\ Driven'
  BY <1>0, <1>4, RunsHead, Zenon
<1> QED BY <1>3, <1>5 DEF SendInv

\* One round of retryLoop.
LEMMA RetryNowStep ==
    ASSUME SendInv, SendTypeOK', RetryNow
    PROVE  SendInv' /\ [Promise!RENext]_events
<1> DEFINE wakes == [i \in DOMAIN tickQ |-> Callback("wake", tickQ[i])]
<1>0. /\ SendTypeOK /\ AllConsistent /\ OneEntryPerMessage /\ WakesExact /\ Driven
      /\ soon' = soon \o wakes /\ tickQ' = <<>>
      /\ UNCHANGED <<client, queue, task, events, answer>>
  BY Zenon DEF SendInv, RetryNow
<1>1. \A q \in Requests : phase'[q] = IF InSeq(q, tickQ) THEN "woken" ELSE phase[q]
  BY Zenon DEF RetryNow
<1>2. /\ Len(tickQ) \in Nat /\ DOMAIN tickQ = 1..Len(tickQ)
      /\ \A i \in DOMAIN tickQ : tickQ[i] \in Requests
  BY <1>0 DEF SendTypeOK
<1>3. /\ Len(soon) \in Nat /\ DOMAIN soon = 1..Len(soon)
      /\ DOMAIN soon' = 1..(Len(soon) + Len(tickQ))
      /\ \A i \in 1..Len(soon) : soon'[i] = soon[i]
      /\ \A i \in 1..Len(tickQ) : soon'[Len(soon) + i] = Callback("wake", tickQ[i])
  <2>1. \A i \in DOMAIN tickQ : Callback("wake", tickQ[i]) \in Callbacks
    BY <1>2, Zenon DEF Callback, Callbacks
  <2>2. wakes \in Seq(Callbacks) /\ Len(wakes) = Len(tickQ)
        /\ \A i \in 1..Len(tickQ) : wakes[i] = Callback("wake", tickQ[i])
    BY <1>2, <2>1
  <2>3. soon \in Seq(Callbacks)
    BY <1>0, SoonTypes, Zenon
  <2> HIDE DEF wakes
  <2> QED BY <1>0, <1>2, <2>2, <2>3
<1>4. AllConsistent'
  <2>1. ASSUME NEW q \in Requests
        PROVE  Consistent(q, InSeq(q, queue), task[q], events[q], phase'[q], answer[q])
    <3>1. Consistent(q, InSeq(q, queue), task[q], events[q], phase[q], answer[q])
      BY <1>0, Zenon DEF AllConsistent
    <3>2. CASE InSeq(q, tickQ)
      <4>1. phase[q] = "tick" /\ phase'[q] = "woken"
        BY <1>0, <1>1, <3>2, Zenon DEF WakesExact
      <4> QED BY <3>1, <4>1, Zenon DEF Consistent
    <3>3. CASE ~InSeq(q, tickQ)
      BY <1>1, <3>1, <3>3, Zenon
    <3> QED BY <3>2, <3>3, Zenon
  <2> QED BY <1>0, <2>1, Zenon DEF AllConsistent
<1>5. \A i \in 1..Len(tickQ) : phase[tickQ[i]] = "tick" /\ phase'[tickQ[i]] = "woken"
  BY <1>0, <1>1, <1>2, Zenon DEF WakesExact, InSeq
<1>6. ASSUME NEW i \in DOMAIN soon', soon'[i].call = "wake"
      PROVE  /\ phase'[soon'[i].of] = "woken"
             /\ \A j \in DOMAIN soon' : soon'[j] = soon'[i] => i = j
  <2>0. \A q : Callback("wake", q).of = q
    BY Zenon DEF Callback
  <2>1. CASE i \in DOMAIN soon
    <3>1. /\ soon'[i] = soon[i] /\ phase[soon[i].of] = "woken"
          /\ \A j \in DOMAIN soon : soon[j] = soon[i] => i = j
      BY <1>0, <1>3, <1>6, <2>1, Zenon DEF WakesExact
    <3>2. soon[i].of \in Requests
      BY <1>0, <2>1, SoonTypes, Zenon
    <3>3. ~InSeq(soon[i].of, tickQ)
      BY <1>0, <3>1, <3>2, Zenon DEF WakesExact
    <3>4. \A j \in 1..Len(tickQ) : soon'[Len(soon) + j] # soon[i]
      BY <1>2, <1>3, <2>0, <3>3 DEF InSeq
    <3>5. ASSUME NEW j \in DOMAIN soon', soon'[j] = soon'[i] PROVE i = j
      <4>1. CASE j \in DOMAIN soon
        BY <1>3, <3>1, <3>5, <4>1, Zenon
      <4>2. CASE j \notin DOMAIN soon
        <5>1. j - Len(soon) \in 1..Len(tickQ) /\ j = Len(soon) + (j - Len(soon))
          BY <1>2, <1>3, <4>2
        <5> QED BY <3>1, <3>4, <3>5, <5>1, Zenon
      <4> QED BY <4>1, <4>2, Zenon
    <3> QED BY <1>1, <3>1, <3>2, <3>3, <3>5, Zenon
  <2>2. CASE i \notin DOMAIN soon
    <3> DEFINE a == i - Len(soon)
    <3>1. a \in 1..Len(tickQ) /\ i = Len(soon) + a /\ a \in Nat
      BY <1>2, <1>3, <2>2
    <3>2. soon'[i] = Callback("wake", tickQ[a]) /\ soon'[i].of = tickQ[a]
      BY <1>3, <2>0, <3>1, Zenon
    <3>3. ASSUME NEW j \in DOMAIN soon', soon'[j] = soon'[i] PROVE i = j
      <4>1. CASE j \in DOMAIN soon
        <5>1. soon[j] = Callback("wake", tickQ[a]) /\ soon[j].call = "wake"
          BY <1>3, <1>6, <3>2, <3>3, <4>1, Zenon
        <5>2. soon[j].of = tickQ[a] /\ phase[soon[j].of] = "woken"
          BY <1>0, <2>0, <4>1, <5>1 DEF WakesExact
        <5> QED BY <1>5, <3>1, <5>2, Zenon
      <4>2. CASE j \notin DOMAIN soon
        <5> DEFINE b == j - Len(soon)
        <5>1. b \in 1..Len(tickQ) /\ j = Len(soon) + b
          BY <1>2, <1>3, <4>2
        <5>2. tickQ[b] = tickQ[a]
          BY <1>3, <2>0, <3>2, <3>3, <5>1
        <5>3. a = b
          BY <1>0, <1>2, <3>1, <5>1, <5>2, Zenon DEF WakesExact, Distinct
        <5> QED BY <3>1, <5>1, <5>3, Zenon
      <4> QED BY <4>1, <4>2
    <3> QED BY <1>5, <3>1, <3>2, <3>3, Zenon
  <2> QED BY <2>1, <2>2, Zenon
<1>7. WakesExact'
  <2>1. Distinct(tickQ') /\ \A q : ~InSeq(q, tickQ')
    BY <1>0 DEF Distinct, InSeq
  <2> QED BY <1>6, <2>1, Zenon DEF WakesExact
<1>8. Driven'
  <2>1. ASSUME client = "started", NEW i \in DOMAIN queue
        PROVE  phase'[queue[i]] # "none" \/ InSeq(Callback("deliver", queue[i]), soon')
    <3>1. phase[queue[i]] # "none" \/ InSeq(Callback("deliver", queue[i]), soon)
      BY <1>0, <2>1, Zenon DEF Driven, Running
    <3>2. queue[i] \in Requests
      BY <1>0 DEF SendTypeOK
    <3>3. \A c : InSeq(c, soon) => InSeq(c, soon')
      BY <1>2, <1>3 DEF InSeq
    <3> QED BY <1>1, <3>1, <3>2, <3>3, Zenon
  <2> QED BY <1>0, <2>1, Zenon DEF Driven, Running
<1> QED BY <1>0, <1>4, <1>7, <1>8, Zenon DEF SendInv, OneEntryPerMessage

\* A deliver that goes on to another await, its task as it was.
LEMMA GoesOn ==
    ASSUME SendInv, SendTypeOK', NEW r \in Requests, NEW t, NEW where,
           phase[r] \notin {"none", "tick", "woken"}, where # "none",
           task' = [task EXCEPT ![r] = t], phase' = [phase EXCEPT ![r] = where],
           UNCHANGED <<client, queue, soon, tickQ, events, answer>>,
           Consistent(r, TRUE, t, events[r], where, "ok")
    PROVE  SendInv' /\ [Promise!RENext]_events
<1>0. /\ SendTypeOK /\ AllConsistent /\ OneEntryPerMessage /\ WakesExact /\ Driven
      /\ InSeq(r, queue) /\ answer[r] = "ok"
  BY RunningFacts, Zenon DEF SendInv
<1>1. Consistent(r, InSeq(r, queue), t, events[r], where, answer[r])
  BY <1>0, Zenon DEF Consistent
<1>2. AllConsistent' /\ OneEntryPerMessage' /\ [Promise!RENext]_events
  BY <1>0, <1>1, QuietStep, Zenon
<1>3. WakesExact'
  BY <1>0, MoveWakes, Zenon
<1>4. Driven'
  BY <1>0, MoveDriven, Zenon
<1> QED BY <1>2, <1>3, <1>4, Zenon DEF SendInv

\* An attempt that ends with another state of the task, and no report.
LEMMA AttemptEndsIn ==
    ASSUME SendInv, SendTypeOK', NEW r \in Requests,
           phase[r] \notin {"none", "store", "answered", "tick", "woken"},
           NEW x \in States, EndAttempt(r, [task[r] EXCEPT !.state = x], <<>>),
           UNCHANGED <<answer, soon, client>>,
           x = "FailedToDeliver" \/ phase[r] # "lock"
    PROVE  SendInv' /\ [Promise!RENext]_events
<1> DEFINE t == [task[r] EXCEPT !.state = x]
<1>1. /\ task[r] \in Task /\ ~task[r].propagatedEventEmitted
      /\ events[r] = Told(task[r]) /\ OwesRight(task[r])
      /\ phase[r] # "lock" => ~Refused(r)
  BY RunningFacts, Zenon
<1>2. /\ t \in Task /\ t.state = x /\ Told(t) = Told(task[r]) /\ OwesRight(t)
      /\ ~t.propagatedEventEmitted
  BY <1>1, StateAlone
<1>3. events[r] \o <<>> = events[r]
  BY EmptyConcats, Zenon DEF SendInv, SendTypeOK
<1> HIDE DEF t
<1>4. EndAttempt(r, t, <<>>)
  BY Zenon DEF t
<1> QED BY <1>1, <1>2, <1>3, <1>4, AttemptEnds, Zenon

\* An attempt that ends with the task as it was.
LEMMA AttemptEndsSame ==
    ASSUME SendInv, SendTypeOK', NEW r \in Requests,
           phase[r] \notin {"none", "lock", "store", "answered", "tick", "woken"},
           EndAttempt(r, task[r], <<>>), UNCHANGED <<answer, soon, client>>
    PROVE  SendInv' /\ [Promise!RENext]_events
<1>1. /\ task[r] \in Task /\ ~task[r].propagatedEventEmitted
      /\ events[r] = Told(task[r]) /\ OwesRight(task[r]) /\ ~Refused(r)
  BY RunningFacts, Zenon
<1>2. events[r] \o <<>> = events[r]
  BY EmptyConcats, Zenon DEF SendInv, SendTypeOK
<1> QED BY <1>1, <1>2, AttemptEnds, Zenon

\* The steps of admitAndProve, and of the processors that only wait.
LEMMA AdmissionSteps ==
    ASSUME SendInv, SendTypeOK', NEW r \in Requests,
           \/ CheckFails(r) \/ BeginAdmission(r) \/ QuotaAnswers(r)
           \/ ProofRefused(r) \/ ProofFails(r)
           \/ NoLightpushPeer(r) \/ PublishRaises(r)
    PROVE  SendInv' /\ [Promise!RENext]_events
<1>f. "FailedToDeliver" \in States
  BY Zenon DEF States
<1>t. task = [task EXCEPT ![r] = task[r]] /\ task[r] \in Task
  BY Zenon DEF SendInv, SendTypeOK
<1>1. CASE CheckFails(r) \/ ProofRefused(r)
  BY <1>1, <1>f, AttemptEndsIn, Zenon DEF CheckFails, ProofRefused, NotAdmitted
<1>2. CASE ProofFails(r) \/ NoLightpushPeer(r) \/ PublishRaises(r)
  BY <1>2, AttemptEndsSame, Zenon
     DEF ProofFails, NotAdmitted, NoLightpushPeer, PublishRaises, Trying
<1>3. CASE BeginAdmission(r)
  <2> DEFINE where == IF task[r].admitted THEN "prove"
                      ELSE IF r \in Ephemeral THEN "quota" ELSE "admit"
  <2>1. /\ phase[r] = "lock" /\ ~Refused(r) /\ phase' = [phase EXCEPT ![r] = where]
        /\ UNCHANGED <<client, queue, soon, tickQ, task, events, answer>>
    BY <1>3, Zenon DEF BeginAdmission, Refused
  <2>2. Consistent(r, TRUE, task[r], events[r], where, "ok")
    <3>1. /\ events[r] = Told(task[r]) /\ OwesRight(task[r])
          /\ ~task[r].propagatedEventEmitted
      BY <2>1, RunningFacts, Zenon
    <3>2. task[r].admitted \in BOOLEAN
      BY <1>t, Zenon DEF Task
    <3> QED BY <2>1, <3>1, <3>2, Zenon DEF Consistent
  <2>3. where # "none"
    BY Zenon
  <2> HIDE DEF where
  <2> QED BY <1>t, <2>1, <2>2, <2>3, GoesOn, Zenon
<1>4. CASE QuotaAnswers(r)
  <2>0. phase[r] = "quota" /\ UNCHANGED <<client, soon, answer>>
    BY <1>4, Zenon DEF QuotaAnswers
  <2>1. \/ /\ phase' = [phase EXCEPT ![r] = "admit"]
           /\ UNCHANGED <<task, events, queue, tickQ>>
        \/ EndAttempt(r, [task[r] EXCEPT !.state = "FailedToDeliver"], <<>>)
    BY <1>4, Zenon DEF QuotaAnswers, NotAdmitted
  <2>2. CASE EndAttempt(r, [task[r] EXCEPT !.state = "FailedToDeliver"], <<>>)
    BY <1>f, <2>0, <2>2, AttemptEndsIn
  <2>3. CASE /\ phase' = [phase EXCEPT ![r] = "admit"]
             /\ UNCHANGED <<task, events, queue, tickQ>>
    <3>1. Consistent(r, TRUE, task[r], events[r], "admit", "ok")
      <4>1. /\ events[r] = Told(task[r]) /\ OwesRight(task[r]) /\ ~Refused(r)
            /\ ~task[r].propagatedEventEmitted /\ ~task[r].admitted
        BY <2>0, RunningFacts, Zenon
      <4> QED BY <4>1, Zenon DEF Consistent
    <3> QED BY <1>t, <2>0, <2>3, <3>1, GoesOn, Zenon
  <2> QED BY <2>1, <2>2, <2>3, Zenon
<1> QED BY <1>1, <1>2, <1>3, <1>4, Zenon

\* A charge, or a park.
LEMMA AdmitStep ==
    ASSUME SendInv, SendTypeOK', NEW r \in Requests, AdmitAnswers(r)
    PROVE  SendInv' /\ [Promise!RENext]_events
<1>0. /\ phase[r] = "admit" /\ UNCHANGED <<client, soon, answer>>
      /\ events[r] = Told(task[r]) /\ OwesRight(task[r]) /\ ~Refused(r)
      /\ ~task[r].propagatedEventEmitted /\ ~task[r].admitted /\ task[r] \in Task
      /\ SendTypeOK
  BY RunningFacts, Zenon DEF AdmitAnswers, SendInv
<1> DEFINE charged == [task[r] EXCEPT !.admitted = TRUE, !.age = 0, !.owed = @ + 1]
           parked == [task[r] EXCEPT !.queuedEventEmitted = TRUE]
<1>1. \/ /\ task' = [task EXCEPT ![r] = charged]
         /\ phase' = [phase EXCEPT ![r] = "prove"]
         /\ UNCHANGED <<events, queue, tickQ>>
      \/ EndAttempt(r, parked, QueuedEvents(task[r]))
  BY <1>0, Zenon DEF AdmitAnswers, NotAdmitted, SendTypeOK
<1>2. CASE /\ task' = [task EXCEPT ![r] = charged]
           /\ phase' = [phase EXCEPT ![r] = "prove"]
           /\ UNCHANGED <<events, queue, tickQ>>
  <2>1. /\ charged.admitted = TRUE /\ charged.proof = task[r].proof
        /\ charged.owed = task[r].owed + 1
        /\ charged.queuedEventEmitted = task[r].queuedEventEmitted
        /\ charged.propagatedEventEmitted = task[r].propagatedEventEmitted
    BY <1>0, Zenon DEF Task
  <2> HIDE DEF charged
  <2>2. OwesRight(charged)
    <3>1. ~task[r].proof /\ (Rln => task[r].owed = 0)
      BY <1>0, Zenon DEF OwesRight
    <3> QED BY <2>1, <3>1 DEF OwesRight
  <2>3. Consistent(r, TRUE, charged, events[r], "prove", "ok")
    <3>1. Told(charged) = Told(task[r])
      BY <2>1, Zenon DEF Told
    <3> QED BY <1>0, <2>1, <2>2, <3>1, Zenon DEF Consistent
  <2> QED BY <1>0, <1>2, <2>3, GoesOn, Zenon
<1>3. CASE EndAttempt(r, parked, QueuedEvents(task[r]))
  <2>1. /\ parked.admitted = task[r].admitted /\ parked.proof = task[r].proof
        /\ parked.owed = task[r].owed /\ parked.queuedEventEmitted = TRUE
        /\ parked.propagatedEventEmitted = task[r].propagatedEventEmitted
    BY <1>0, Zenon DEF Task
  <2>2. parked \in Task
    BY <1>0, TaskUpdates, Zenon
  <2> HIDE DEF parked
  <2>3. Told(parked) = events[r] \o QueuedEvents(task[r])
    <3>1. Told(parked) = <<"queued">>
      BY <1>0, <2>1, <2>2, ToldForms, Zenon
    <3>2. /\ <<"queued">> \o <<>> = <<"queued">> /\ <<>> \o <<"queued">> = <<"queued">>
      BY ShortEvents, EmptyConcats, Zenon DEF Events
    <3> QED BY <1>0, <3>1, <3>2, ToldForms, Zenon DEF QueuedEvents
  <2>4. OwesRight(parked) /\ QueuedEvents(task[r]) \in {<<>>, <<"queued">>}
    BY <1>0, <2>1, Zenon DEF OwesRight, QueuedEvents
  <2> QED BY <1>0, <1>3, <2>1, <2>2, <2>3, <2>4, AttemptEnds, Zenon
<1> QED BY <1>1, <1>2, <1>3, Zenon

\* A proof, and with it a place in the queue of the slots.
LEMMA AttachProofStep ==
    ASSUME SendInv, SendTypeOK', NEW r \in Requests, AttachProof(r)
    PROVE  SendInv' /\ [Promise!RENext]_events
<1>0. /\ phase[r] = "prove" /\ phase' = [phase EXCEPT ![r] = "slot"]
      /\ UNCHANGED <<client, soon, answer, queue, tickQ, events>>
      /\ events[r] = Told(task[r]) /\ OwesRight(task[r]) /\ ~Refused(r)
      /\ ~task[r].propagatedEventEmitted /\ task[r].admitted /\ task[r] \in Task
      /\ SendTypeOK
  BY RunningFacts, Zenon DEF AttachProof, Admitted, SendInv
<1> DEFINE proved == [task[r] EXCEPT !.proof = TRUE, !.owed = @ - 1]
<1>1. CASE NeedsRlnProof(task[r])
  <2>1. task' = [task EXCEPT ![r] = proved]
    BY <1>0, <1>1, Zenon DEF AttachProof, SendTypeOK
  <2>2. /\ proved.admitted = task[r].admitted /\ proved.proof = TRUE
        /\ proved.owed = task[r].owed - 1
        /\ proved.queuedEventEmitted = task[r].queuedEventEmitted
        /\ proved.propagatedEventEmitted = task[r].propagatedEventEmitted
    BY <1>0, Zenon DEF Task
  <2> HIDE DEF proved
  <2>3. Told(proved) = Told(task[r]) /\ ~NeedsAdmission(proved) /\ OwesRight(proved)
    <3>1. Told(proved) = Told(task[r])
      BY <2>2, Zenon DEF Told
    <3>2. task[r].admitted /\ Rln /\ ~task[r].proof
      BY <1>0, <1>1, Zenon DEF NeedsRlnProof
    <3>3. task[r].owed = 1
      BY <1>0, <3>2, Zenon DEF OwesRight
    <3>4. ~NeedsAdmission(proved)
      BY <2>2, <3>2, Zenon DEF NeedsAdmission, NeedsRlnProof
    <3>5. OwesRight(proved)
      BY <2>2, <3>2, <3>3 DEF OwesRight
    <3> QED BY <3>1, <3>4, <3>5
  <2>4. Consistent(r, TRUE, proved, events[r], "slot", "ok")
    BY <1>0, <2>2, <2>3, Zenon DEF Consistent
  <2> QED BY <1>0, <2>1, <2>4, GoesOn, Zenon
<1>2. CASE ~NeedsRlnProof(task[r])
  <2>1. task' = [task EXCEPT ![r] = task[r]]
    BY <1>0, <1>2 DEF AttachProof, SendTypeOK
  <2>2. ~NeedsAdmission(task[r])
    BY <1>0, <1>2, Zenon DEF NeedsAdmission
  <2>3. Consistent(r, TRUE, task[r], events[r], "slot", "ok")
    BY <1>0, <2>2, Zenon DEF Consistent
  <2> QED BY <1>0, <2>1, <2>3, GoesOn, Zenon
<1> QED BY <1>1, <1>2, Zenon

\* A processor that returns with another state of the task.
LEMMA AdvanceIn ==
    ASSUME SendInv, SendTypeOK', NEW r \in Requests, phase[r] \in {"slot", "wire"},
           NEW x \in States, Advance(r, WithState(r, x)),
           UNCHANGED <<answer, soon, client>>
    PROVE  SendInv' /\ [Promise!RENext]_events
<1>1. /\ task[r] \in Task /\ OwesRight(task[r]) /\ ~NeedsAdmission(task[r])
      /\ ~task[r].propagatedEventEmitted
  BY RunningFacts, Zenon
<1>2. /\ WithState(r, x) \in Task /\ Told(WithState(r, x)) = Told(task[r])
      /\ OwesRight(WithState(r, x)) /\ ~NeedsAdmission(WithState(r, x))
      /\ ~WithState(r, x).propagatedEventEmitted
  BY <1>1, StateAlone, Zenon DEF WithState
<1> QED BY <1>2, AdvanceStep, Zenon

\* The steps of the processors.
LEMMA ProcessSteps ==
    ASSUME SendInv, SendTypeOK', NEW r \in Requests,
           \/ SkipMix(r) \/ PublishOverMix(r) \/ PublishPlain(r)
           \/ Published(r) \/ ProofRejected(r) \/ NotPublished(r) \/ PublishRefused(r)
    PROVE  SendInv' /\ [Promise!RENext]_events
<1>t. task = [task EXCEPT ![r] = task[r]] /\ task[r] \in Task
  BY Zenon DEF SendInv, SendTypeOK
<1>1. CASE SkipMix(r)
  <2>1. PICK x \in States : Advance(r, WithState(r, x))
    BY <1>1, Zenon DEF SkipMix, GiveUpMix, States
  <2>2. phase[r] \in {"slot", "wire"} /\ UNCHANGED <<answer, soon, client>>
    BY <1>1, Zenon DEF SkipMix, Trying
  <2> QED BY <2>1, <2>2, AdvanceIn, Zenon
<1>2. CASE PublishOverMix(r) \/ PublishPlain(r)
  <2>1. phase[r] = "slot" /\ phase' = [phase EXCEPT ![r] = "wire"]
        /\ UNCHANGED <<client, queue, soon, tickQ, task, events, answer>>
    BY <1>2, Zenon DEF PublishOverMix, PublishPlain, Publish, Trying
  <2>2. Consistent(r, TRUE, task[r], events[r], "wire", "ok")
    <3>1. /\ events[r] = Told(task[r]) /\ OwesRight(task[r]) /\ ~Refused(r)
          /\ ~task[r].propagatedEventEmitted /\ ~NeedsAdmission(task[r])
      BY <2>1, RunningFacts, Zenon
    <3> QED BY <3>1, Zenon DEF Consistent
  <2> QED BY <1>t, <2>1, <2>2, GoesOn, Zenon
<1>3. CASE NotPublished(r) \/ PublishRefused(r)
  <2>1. \E x \in States : PublishEnds(r, WithState(r, x))
    BY <1>3, Zenon DEF NotPublished, PublishRefused, States
  <2> QED BY <2>1, AdvanceIn, Zenon DEF PublishEnds
<1>4. CASE Published(r)
  <2> DEFINE t == [task[r] EXCEPT
                     !.state = "SuccessfullyPropagated",
                     !.propagated = TRUE,
                     !.propagatedAnonymously = @ \/ Chain[via[r]] = "mix"]
  <2>1. /\ phase[r] = "wire" /\ Advance(r, t) /\ UNCHANGED <<answer, soon, client>>
    BY <1>4, Zenon DEF Published, PublishEnds
  <2>2. /\ t.state = "SuccessfullyPropagated"
        /\ t.queuedEventEmitted = task[r].queuedEventEmitted
        /\ t.propagatedEventEmitted = task[r].propagatedEventEmitted
        /\ t.admitted = task[r].admitted /\ t.proof = task[r].proof
        /\ t.owed = task[r].owed
    BY <1>t, Zenon DEF Task
  <2>3. t \in Task
    BY <1>t, PublishedTask, Zenon
  <2> HIDE DEF t
  <2>4. /\ OwesRight(task[r]) /\ ~task[r].propagatedEventEmitted
    BY <2>1, RunningFacts, Zenon
  <2>5. OwesRight(t) /\ Told(t) = Told(task[r])
    BY <2>2, <2>4, Zenon DEF OwesRight, Told
  <2> QED BY <2>1, <2>2, <2>3, <2>4, <2>5, AdvanceStep, Zenon
<1>5. CASE ProofRejected(r) /\ Rln /\ ProofRefresh
  <2> DEFINE t == [task[r] EXCEPT !.state = "NextRoundRetry", !.proof = FALSE,
                                  !.admitted = FALSE, !.age = 0]
  <2>1. /\ phase[r] = "wire" /\ Advance(r, t) /\ UNCHANGED <<answer, soon, client>>
    BY <1>5, Zenon DEF ProofRejected, PublishEnds
  <2>2. /\ t.state = "NextRoundRetry"
        /\ t.queuedEventEmitted = task[r].queuedEventEmitted
        /\ t.propagatedEventEmitted = task[r].propagatedEventEmitted
        /\ t.admitted = FALSE /\ t.proof = FALSE /\ t.owed = task[r].owed
    BY <1>t, Zenon DEF Task
  <2>3. t \in Task
    BY <1>t, TaskUpdates, Zenon
  <2> HIDE DEF t
  <2>4. /\ OwesRight(task[r]) /\ ~task[r].propagatedEventEmitted
        /\ ~NeedsAdmission(task[r])
    BY <2>1, RunningFacts, Zenon
  <2>5. OwesRight(t) /\ Told(t) = Told(task[r])
    BY <1>5, <2>2, <2>4, Zenon DEF OwesRight, Told, NeedsAdmission, NeedsRlnProof
  <2> QED BY <2>1, <2>2, <2>3, <2>4, <2>5, AdvanceStep, Zenon
<1>6. CASE ProofRejected(r) /\ ~(Rln /\ ProofRefresh)
  <2>1. PublishEnds(r, WithState(r, "FailedToDeliver")) /\ "FailedToDeliver" \in States
    BY <1>6, Zenon DEF ProofRejected, States
  <2> QED BY <2>1, AdvanceIn, Zenon DEF PublishEnds
<1> QED BY <1>1, <1>2, <1>3, <1>4, <1>5, <1>6

\* The end of the wait for the Store.
LEMMA StoreSteps ==
    ASSUME SendInv, SendTypeOK', NEW r \in Requests,
           StoreReports(r) \/ StoreConfirms(r) \/ StoreTimesOut(r)
    PROVE  SendInv' /\ [Promise!RENext]_events
<1>0. /\ phase[r] \in {"store", "answered"} /\ UNCHANGED <<client, soon, tickQ, answer>>
      /\ SendTypeOK /\ AllConsistent /\ OneEntryPerMessage /\ WakesExact /\ Driven
  BY Zenon DEF StoreReports, StoreConfirms, StoreTimesOut, SendInv
<1>t. /\ task = [task EXCEPT ![r] = task[r]] /\ task[r] \in Task
      /\ events[r] \in Seq(Events)
  BY <1>0, Zenon DEF SendTypeOK
<1>1. /\ InSeq(r, queue) /\ events[r] = Told(task[r]) /\ task[r].propagatedEventEmitted
      /\ AwaitsStoreValidation(r, task[r]) /\ ~Refused(r) /\ OwesRight(task[r])
  BY <1>0, RunningFacts, Zenon
<1>2. r \in Confirmed
  BY <1>1, Zenon DEF Confirmed, AwaitsStoreValidation
<1>3. events[r] \in {<<"propagated">>, <<"queued", "propagated">>}
  BY <1>1, <1>t, ToldForms
<1>4. CASE StoreReports(r)
  <2>1. /\ phase' = [phase EXCEPT ![r] = "answered"]
        /\ UNCHANGED <<queue, task, events>>
    BY <1>4, Zenon DEF StoreReports
  <2>2. Consistent(r, TRUE, task[r], events[r], "answered", "ok")
    BY <1>1, Zenon DEF Consistent
  <2> QED BY <1>0, <1>t, <2>1, <2>2, GoesOn, Zenon
<1>5. CASE StoreConfirms(r)
  <2>1. Finish(r, <<"sent">>)
    BY <1>5, Zenon DEF StoreConfirms
  <2>2. /\ Promise!Over(r, events[r] \o <<"sent">>)
        /\ Tells(r, events[r], events[r] \o <<"sent">>)
    BY <1>2, <1>3, LastReports, Zenon
  <2>3. AllConsistent' /\ OneEntryPerMessage' /\ [Promise!RENext]_events
    BY <1>0, <1>1, <2>1, <2>2, FinishStep, Zenon
  <2>4. phase' = [phase EXCEPT ![r] = "none"] /\ queue' = Without(queue, r)
    BY <2>1, Zenon DEF Finish, Becomes
  <2>5. WakesExact'
    BY <1>0, <2>4, MoveWakes, Zenon
  <2>6. Driven'
    BY <1>0, <2>4, MoveDriven, Zenon
  <2> QED BY <2>3, <2>5, <2>6 DEF SendInv
<1>6. CASE StoreTimesOut(r)
  <2>1. Fail(r, <<>>) /\ <<>> \in Seq(Events)
    BY <1>6 DEF StoreTimesOut
  <2>2. events[r] \o <<>> = events[r]
    BY <1>t, EmptyConcats, Zenon
  <2>3. /\ Promise!Over(r, events[r] \o <<"error">>)
        /\ Tells(r, events[r], events[r] \o <<"error">>)
    BY <1>2, <1>3, LastReports, Zenon
  <2>4. AllConsistent' /\ OneEntryPerMessage' /\ [Promise!RENext]_events
    BY <1>0, <1>1, <2>1, <2>2, <2>3, FailStep, Zenon
  <2>5. phase' = [phase EXCEPT ![r] = "none"] /\ queue' = Without(queue, r)
    BY <2>1 DEF Fail, Finish, Becomes
  <2>6. WakesExact'
    BY <1>0, <2>5, MoveWakes, Zenon
  <2>7. Driven'
    BY <1>0, <2>5, MoveDriven, Zenon
  <2> QED BY <2>4, <2>6, <2>7 DEF SendInv
<1> QED BY <1>4, <1>5, <1>6

\* A task with other clocks or another kind of retry is as consistent as before.
LEMMA SameTask ==
    ASSUME NEW r, NEW e, NEW p, NEW a, NEW t, NEW u,
           Consistent(r, TRUE, t, e, p, a),
           u.queuedEventEmitted = t.queuedEventEmitted,
           u.propagatedEventEmitted = t.propagatedEventEmitted,
           u.admitted = t.admitted, u.proof = t.proof, u.owed = t.owed,
           AwaitsStoreValidation(r, t) => AwaitsStoreValidation(r, u)
    PROVE  Consistent(r, TRUE, u, e, p, a)
<1>1. /\ Told(u) = Told(t) /\ (OwesRight(u) <=> OwesRight(t))
      /\ (NeedsAdmission(u) <=> NeedsAdmission(t))
  BY Zenon DEF Told, OwesRight, NeedsAdmission, NeedsRlnProof
<1> QED BY <1>1, Zenon DEF Consistent

\* Time that passes for a queued task.
LEMMA TimeSteps ==
    ASSUME SendInv, SendTypeOK', NEW r \in Requests, DeadlinePasses(r) \/ GetsOld(r)
    PROVE  SendInv' /\ [Promise!RENext]_events
<1>0. /\ InSeq(r, queue)
      /\ UNCHANGED <<client, queue, soon, phase, tickQ, events, answer>>
      /\ SendTypeOK /\ AllConsistent /\ OneEntryPerMessage /\ WakesExact /\ Driven
  BY Zenon DEF DeadlinePasses, GetsOld, SendInv
<1>t. task[r] \in Task /\ phase = [phase EXCEPT ![r] = phase[r]]
  BY <1>0, Zenon DEF SendTypeOK
<1>1. PICK u : /\ task' = [task EXCEPT ![r] = u]
               /\ u.queuedEventEmitted = task[r].queuedEventEmitted
               /\ u.propagatedEventEmitted = task[r].propagatedEventEmitted
               /\ u.admitted = task[r].admitted /\ u.proof = task[r].proof
               /\ u.owed = task[r].owed /\ u.state = task[r].state
               /\ u.propagatedAnonymously = task[r].propagatedAnonymously
  <2>1. CASE DeadlinePasses(r)
    <3> DEFINE u == [task[r] EXCEPT !.age = @ + 1]
    <3>1. task' = [task EXCEPT ![r] = u]
      BY <1>0, <2>1 DEF DeadlinePasses, SendTypeOK
    <3>2. /\ u.queuedEventEmitted = task[r].queuedEventEmitted
          /\ u.propagatedEventEmitted = task[r].propagatedEventEmitted
          /\ u.admitted = task[r].admitted /\ u.proof = task[r].proof
          /\ u.owed = task[r].owed /\ u.state = task[r].state
          /\ u.propagatedAnonymously = task[r].propagatedAnonymously
      BY <1>t DEF Task
    <3> HIDE DEF u
    <3> QED BY <3>1, <3>2, Zenon
  <2>2. CASE GetsOld(r)
    <3> DEFINE u == [task[r] EXCEPT !.old = TRUE]
    <3>1. task' = [task EXCEPT ![r] = u]
      BY <1>0, <2>2 DEF GetsOld, SendTypeOK
    <3>2. /\ u.queuedEventEmitted = task[r].queuedEventEmitted
          /\ u.propagatedEventEmitted = task[r].propagatedEventEmitted
          /\ u.admitted = task[r].admitted /\ u.proof = task[r].proof
          /\ u.owed = task[r].owed /\ u.state = task[r].state
          /\ u.propagatedAnonymously = task[r].propagatedAnonymously
      BY <1>t, Zenon DEF Task
    <3> HIDE DEF u
    <3> QED BY <3>1, <3>2, Zenon
  <2> QED BY <2>1, <2>2, Zenon
<1>2. AwaitsStoreValidation(r, task[r]) => AwaitsStoreValidation(r, u)
  BY <1>1, Zenon DEF AwaitsStoreValidation
<1>3. Consistent(r, InSeq(r, queue), task[r], events[r], phase[r], answer[r])
  BY <1>0, Zenon DEF AllConsistent
<1>4. Consistent(r, TRUE, task[r], events[r], phase[r], answer[r])
  BY <1>0, <1>3, Zenon DEF Consistent
<1>5. Consistent(r, TRUE, u, events[r], phase[r], answer[r])
  BY <1>1, <1>2, <1>4, SameTask, Zenon
<1>6. Consistent(r, InSeq(r, queue), u, events[r], phase[r], answer[r])
  BY <1>0, <1>5, Zenon DEF Consistent
<1>7. AllConsistent' /\ OneEntryPerMessage' /\ [Promise!RENext]_events
  BY <1>0, <1>1, <1>6, <1>t, QuietStep, Zenon
<1> QED BY <1>0, <1>7, Zenon DEF SendInv, WakesExact, Driven, Running

\* A cancelled deliver.
LEMMA CancelStep ==
    ASSUME SendInv, SendTypeOK', NEW r \in Requests, Cancel(r)
    PROVE  SendInv' /\ [Promise!RENext]_events
<1>0. /\ client = "stopping" /\ phase[r] \notin {"none", "woken"}
      /\ phase' = [phase EXCEPT ![r] = "none"] /\ tickQ' = Without(tickQ, r)
      /\ UNCHANGED <<client, queue, soon, events, answer>>
      /\ SendTypeOK /\ AllConsistent /\ OneEntryPerMessage /\ WakesExact
  BY Zenon DEF Cancel, Cancellable, SendInv
<1>t. task[r] \in Task /\ InSeq(r, queue)
  BY <1>0, RunningFacts, Zenon
<1>1. PICK spent \in BOOLEAN :
        task' = [task EXCEPT
          ![r].state = IF @ \in {"Entry", "FallbackRetry"} THEN "NextRoundRetry"
                                                          ELSE @,
          ![r].storeSpent = @ \/ spent]
  BY Zenon DEF Cancel
<1> DEFINE y == IF task[r].state \in {"Entry", "FallbackRetry"}
                  THEN "NextRoundRetry" ELSE task[r].state
           x == task[r].storeSpent \/ spent
           u == [task[r] EXCEPT !.state = y, !.storeSpent = x]
<1>2. task' = [task EXCEPT ![r] = u]
  BY <1>0, <1>1, Zenon DEF SendTypeOK
<1>3. /\ u.queuedEventEmitted = task[r].queuedEventEmitted
      /\ u.propagatedEventEmitted = task[r].propagatedEventEmitted
      /\ u.admitted = task[r].admitted /\ u.proof = task[r].proof
      /\ u.owed = task[r].owed /\ u.state = y
      /\ u.propagatedAnonymously = task[r].propagatedAnonymously
  <2> HIDE DEF x, y
  <2> QED BY <1>t, Zenon DEF Task
<1>4. AwaitsStoreValidation(r, task[r]) => AwaitsStoreValidation(r, u)
  <2> HIDE DEF u
  <2> QED BY <1>3, Zenon DEF AwaitsStoreValidation
<1> HIDE DEF u, x, y
<1>5. Consistent(r, InSeq(r, queue), task[r], events[r], phase[r], answer[r])
  BY <1>0, Zenon DEF AllConsistent
<1>6. Consistent(r, TRUE, task[r], events[r], "none", answer[r])
  BY <1>t, <1>5, Zenon DEF Consistent
<1>7. Consistent(r, TRUE, u, events[r], "none", answer[r])
  BY <1>3, <1>4, <1>6, SameTask, Zenon
<1>8. Consistent(r, InSeq(r, queue), u, events[r], "none", answer[r])
  BY <1>t, <1>7, Zenon DEF Consistent
<1>9. AllConsistent' /\ OneEntryPerMessage' /\ [Promise!RENext]_events
  BY <1>0, <1>2, <1>8, QuietStep, Zenon
<1>10. WakesExact'
  <2>1. /\ Distinct(tickQ') /\ ~InSeq(r, tickQ')
        /\ \A q : InSeq(q, tickQ') => InSeq(q, tickQ)
    BY <1>0, WithoutMembers, Zenon DEF WakesExact, SendTypeOK
  <2>2. phase'[r] = "none" /\ \A q \in Requests : q # r => phase'[q] = phase[q]
    BY <1>0, Zenon DEF SendTypeOK
  <2>3. ASSUME NEW i \in DOMAIN soon, soon[i].call = "wake"
        PROVE  /\ phase'[soon[i].of] = "woken"
               /\ \A j \in DOMAIN soon : soon[j] = soon[i] => i = j
    <3>1. soon[i].of \in Requests
      BY <1>0, SoonTypes, Zenon
    <3> QED BY <1>0, <2>2, <2>3, <3>1, Zenon DEF WakesExact
  <2>4. \A q \in Requests : InSeq(q, tickQ') => phase'[q] = "tick"
    BY <1>0, <2>1, <2>2, ZenonT(60) DEF WakesExact
  <2> QED BY <1>0, <2>1, <2>3, <2>4, ZenonT(60) DEF WakesExact
<1>11. Driven'
  BY <1>0, Zenon DEF Driven
<1> QED BY <1>9, <1>10, <1>11 DEF SendInv

\* A restart starts a deliver for every queued task.
LEMMA StartStep ==
    ASSUME SendInv, SendTypeOK', Start
    PROVE  SendInv' /\ [Promise!RENext]_events
<1> DEFINE delivers == [i \in DOMAIN queue |-> Callback("deliver", queue[i])]
<1>0. /\ SendTypeOK /\ AllConsistent /\ OneEntryPerMessage /\ WakesExact
      /\ soon' = soon \o delivers
      /\ UNCHANGED <<queue, phase, tickQ, task, events, answer>>
  BY Zenon DEF SendInv, Start
<1>1. /\ Len(queue) \in Nat /\ DOMAIN queue = 1..Len(queue)
      /\ \A i \in DOMAIN queue : queue[i] \in Requests
  BY <1>0 DEF SendTypeOK
<1>2. /\ Len(soon) \in Nat /\ DOMAIN soon = 1..Len(soon)
      /\ DOMAIN soon' = 1..(Len(soon) + Len(queue))
      /\ \A i \in 1..Len(soon) : soon'[i] = soon[i]
      /\ \A i \in 1..Len(queue) : soon'[Len(soon) + i] = Callback("deliver", queue[i])
  <2>1. \A i \in DOMAIN queue : Callback("deliver", queue[i]) \in Callbacks
    BY <1>1, Zenon DEF Callback, Callbacks
  <2>2. /\ delivers \in Seq(Callbacks) /\ Len(delivers) = Len(queue)
        /\ \A i \in 1..Len(queue) : delivers[i] = Callback("deliver", queue[i])
    BY <1>1, <2>1
  <2>3. soon \in Seq(Callbacks)
    BY <1>0, SoonTypes, Zenon
  <2>4. soon' = soon \o delivers
    BY <1>0, Zenon
  <2> HIDE DEF delivers
  <2>5. /\ Len(soon) \in Nat /\ DOMAIN soon = 1..Len(soon)
        /\ DOMAIN soon' = 1..(Len(soon) + Len(queue))
        /\ \A i \in 1..Len(soon) : soon'[i] = soon[i]
    <3>1. /\ Len(soon) \in Nat /\ DOMAIN soon = 1..Len(soon)
          /\ Len(queue) \in Nat
      BY <1>1, <2>3
    <3>2. soon' \in Seq(Callbacks) /\ Len(soon') = Len(soon) + Len(queue)
      <4>1. /\ soon \o delivers \in Seq(Callbacks)
            /\ Len(soon \o delivers) = Len(soon) + Len(delivers)
        BY <2>2, <2>3
      <4> QED BY <2>2, <2>4, <4>1, Zenon
    <3>3. DOMAIN soon' = 1..(Len(soon) + Len(queue))
      BY <3>2
    <3>4. \A i \in 1..Len(soon) : soon'[i] = soon[i]
      BY <2>2, <2>3, <2>4
    <3> QED BY <3>1, <3>3, <3>4, Zenon
  <2>6. ASSUME NEW i \in 1..Len(queue)
        PROVE  soon'[Len(soon) + i] = Callback("deliver", queue[i])
    <3>1. soon'[Len(soon) + i] = delivers[i]
      BY <1>1, <2>2, <2>3, <2>4
    <3> QED BY <2>2, <3>1, Zenon
  <2> QED BY <2>5, <2>6, Zenon
<1>3. \A i \in 1..Len(queue) : soon'[Len(soon) + i].call = "deliver"
  <2>1. \A q : Callback("deliver", q).call = "deliver"
    BY Zenon DEF Callback
  <2> QED BY <1>2, <2>1, Zenon
<1>4. ASSUME NEW i \in DOMAIN soon', soon'[i].call = "wake"
      PROVE  i \in DOMAIN soon
  <2>1. SUFFICES ASSUME i \notin DOMAIN soon PROVE FALSE
    BY Zenon
  <2>2. i - Len(soon) \in 1..Len(queue) /\ i = Len(soon) + (i - Len(soon))
    BY <1>1, <1>2, <2>1
  <2> QED BY <1>3, <1>4, <2>2, Zenon
<1>5. ASSUME NEW i \in DOMAIN soon', soon'[i].call = "wake"
      PROVE  /\ phase[soon'[i].of] = "woken"
             /\ \A j \in DOMAIN soon' : soon'[j] = soon'[i] => i = j
  <2>1. i \in DOMAIN soon /\ soon'[i] = soon[i]
    BY <1>2, <1>4, <1>5, Zenon
  <2>2. \A j \in DOMAIN soon' : soon'[j] = soon'[i] => j \in DOMAIN soon /\ soon[j] = soon[i]
    BY <1>2, <1>4, <1>5, <2>1
  <2> QED BY <1>0, <1>5, <2>1, <2>2, Zenon DEF WakesExact
<1>6. WakesExact'
  BY <1>0, <1>5, Zenon DEF WakesExact
<1>7. \A i \in DOMAIN queue : InSeq(Callback("deliver", queue[i]), soon')
  <2> SUFFICES ASSUME NEW i \in DOMAIN queue
               PROVE  InSeq(Callback("deliver", queue[i]), soon')
    BY Zenon
  <2>0. Len(soon) \in Nat /\ Len(queue) \in Nat /\ i \in 1..Len(queue)
    BY <1>1, <1>2, Zenon
  <2>1. Len(soon) + i \in DOMAIN soon'
    BY <1>2, <2>0
  <2>2. soon'[Len(soon) + i] = Callback("deliver", queue[i])
    BY <1>2, <2>0, Zenon
  <2> QED BY <2>1, <2>2, Zenon DEF InSeq
<1>8. Driven'
  BY <1>0, <1>7, Zenon DEF Driven
<1>9. AllConsistent' /\ OneEntryPerMessage'
  BY <1>0, Zenon DEF AllConsistent, OneEntryPerMessage
<1> QED BY <1>0, <1>6, <1>8, <1>9, Zenon DEF SendInv

\* Every step of the send service keeps SendInv and reports as promised.
THEOREM SendInvStep ==
    SendInv /\ [SendNext]_sendVars => SendInv' /\ [Promise!RENext]_events
<1> SUFFICES ASSUME SendInv, [SendNext]_sendVars
             PROVE  SendInv' /\ [Promise!RENext]_events
  BY Zenon
<1>0. SendTypeOK'
  BY SendTypeStep, Zenon DEF SendInv
<1>1. CASE UNCHANGED <<queue, soon, phase, tickQ, task, events, answer>>
           /\ (client' = client \/ client' # "started")
  <2>1. /\ AllConsistent' /\ OneEntryPerMessage' /\ WakesExact'
    BY <1>1, Zenon DEF SendInv, AllConsistent, OneEntryPerMessage, WakesExact
  <2>2. Driven'
    BY <1>1, Zenon DEF SendInv, Driven, Running
  <2> QED BY <1>0, <1>1, <2>1, <2>2, Zenon DEF SendInv
<1>2. CASE Stop \/ StopEnds \/ EpochRolls \/ OtherDraw \/ UNCHANGED sendVars
  <2>1. /\ UNCHANGED <<queue, soon, phase, tickQ, task, events, answer>>
        /\ client' = client \/ client' # "started"
    BY <1>2, Zenon DEF Stop, StopEnds, EpochRolls, OtherDraw, sendVars
  <2> QED BY <1>1, <2>1, Zenon
<1>3. CASE RetryNow
  BY <1>0, <1>3, RetryNowStep
<1>4. CASE Start
  BY <1>0, <1>4, StartStep, Zenon
<1>5. ASSUME NEW r \in Requests, Send(r) \/ StartDeliver(r) \/ Wake(r)
      PROVE  SendInv' /\ [Promise!RENext]_events
  BY <1>0, <1>5, SendStep, StartDeliverStep, WakeStep
<1>6. ASSUME NEW r \in Requests,
             \/ CheckFails(r) \/ BeginAdmission(r) \/ QuotaAnswers(r) \/ AdmitAnswers(r)
             \/ AttachProof(r) \/ ProofRefused(r) \/ ProofFails(r)
             \/ NoLightpushPeer(r) \/ PublishRaises(r)
      PROVE  SendInv' /\ [Promise!RENext]_events
  BY <1>0, <1>6, AdmissionSteps, AdmitStep, AttachProofStep
<1>7. ASSUME NEW r \in Requests,
             \/ SkipMix(r) \/ PublishOverMix(r) \/ PublishPlain(r) \/ Published(r)
             \/ ProofRejected(r) \/ NotPublished(r) \/ PublishRefused(r)
      PROVE  SendInv' /\ [Promise!RENext]_events
  BY <1>0, <1>7, ProcessSteps, Zenon
<1>8. ASSUME NEW r \in Requests,
             \/ StoreReports(r) \/ StoreConfirms(r) \/ StoreTimesOut(r)
             \/ Cancel(r) \/ DeadlinePasses(r) \/ GetsOld(r)
      PROVE  SendInv' /\ [Promise!RENext]_events
  BY <1>0, <1>8, StoreSteps, CancelStep, TimeSteps
<1> QED BY <1>2, <1>3, <1>4, <1>5, <1>6, <1>7, <1>8, Zenon DEF SendNext

----------------------------------------------------------------------------
(* The theorems.                                                           *)

\* A service that was just created satisfies SendInv, and told no one anything.
LEMMA SendInitInv == SendInit => SendInv /\ Promise!REInit
<1> SUFFICES ASSUME SendInit PROVE SendInv /\ Promise!REInit
  BY Zenon
<1>0. NewTask(1) \in Task
  BY NewTaskType, Zenon
<1>1. SendTypeOK
  <2>1. 1 \in 1..Len(Chain)
    BY ChainFacts
  <2>2. FreshManager \in Manager /\ FreshCounter \in Counter
    BY Zenon DEF FreshManager, Manager, FreshCounter, Counter
  <2>3. /\ task \in [Requests -> Task] /\ events \in [Requests -> Seq(Events)]
        /\ via \in [Requests -> 1..Len(Chain)] /\ phase \in [Requests -> Phases]
    BY <1>0, <2>1 DEF SendInit, Phases
  <2>4. /\ queue \in Seq(Requests) /\ soon \in Seq(Callbacks)
        /\ lockQ \in Seq(Requests) /\ slotQ \in Seq(Requests) /\ tickQ \in Seq(Requests)
    BY DEF SendInit
  <2> QED BY <2>2, <2>3, <2>4 DEF SendInit, SendTypeOK, Callbacks
<1>2. /\ NewTask(1).propagatedEventEmitted = FALSE /\ NewTask(1).admitted = FALSE
      /\ NewTask(1).proof = FALSE /\ NewTask(1).owed = 0
  BY Zenon DEF NewTask
<1>3. \A q : ~InSeq(q, queue) /\ ~InSeq(q, tickQ)
  BY DEF SendInit, InSeq
<1>4. AllConsistent
  BY <1>2, <1>3, Zenon DEF SendInit, AllConsistent, Consistent, OwesRight
<1>5. WakesExact /\ OneEntryPerMessage /\ Driven
  BY <1>3 DEF SendInit, WakesExact, OneEntryPerMessage, Driven, Distinct
<1>6. Promise!REInit
  BY Zenon DEF SendInit, Promise!REInit
<1> QED BY <1>1, <1>4, <1>5, <1>6 DEF SendInv

\* SendInv always holds: the queue, the tasks, their phases, their events and
\* the callbacks of the event loop agree.
THEOREM SendInvHolds == SendSpec => []SendInv
<1>1. SendInv /\ [SendNext]_sendVars => SendInv'
  BY SendInvStep, Zenon
<1> QED BY SendInitInv, <1>1, PTL DEF SendSpec

\* Types are kept.
THEOREM SendTypeCorrect == SendSpec => []SendTypeOK
<1>1. SendInv => SendTypeOK
  BY Zenon DEF SendInv
<1> QED BY SendInvHolds, <1>1, PTL

\* No task is forgotten, over all retries, stops and restarts.
THEOREM NoTaskForgotten == SendSpec => []Driven
<1>1. SendInv => Driven
  BY Zenon DEF SendInv
<1> QED BY SendInvHolds, <1>1, PTL

\* Every request gets the events that the API promises: the send service
\* implements RequestEvents.
THEOREM PromiseKept == SendSpec => EventsAsPromised
<1>1. SendInv /\ [SendNext]_sendVars => [Promise!RENext]_events
  BY SendInvStep, Zenon
<1> QED BY SendInitInv, SendInvHolds, <1>1, PTL
        DEF SendSpec, EventsAsPromised, Promise!RESpec

\* The queue holds exactly the accepted requests without a last event.
THEOREM QueueAlwaysExact == SendSpec => []QueueExact
<1>1. SendInv => QueueExact
  <2> SUFFICES ASSUME SendInv PROVE QueueExact
    BY Zenon
  <2>1. ASSUME NEW r \in Requests
        PROVE  InSeq(r, queue) <=> answer[r] = "ok" /\ ~Promise!Over(r, events[r])
    <3>1. Consistent(r, InSeq(r, queue), task[r], events[r], phase[r], answer[r])
      BY Zenon DEF SendInv, AllConsistent
    <3>2. ASSUME InSeq(r, queue) PROVE answer[r] = "ok" /\ ~Promise!Over(r, events[r])
      <4>1. answer[r] = "ok" /\ events[r] = Told(task[r]) /\ task[r] \in Task
        BY <3>1, <3>2, Zenon DEF Consistent, SendInv, SendTypeOK
      <4>2. task[r].propagatedEventEmitted => r \in Confirmed
        BY <3>1, Zenon DEF Consistent, AwaitsStoreValidation, Confirmed
      <4>3. \/ events[r] \in {<<>>, <<"queued">>}
            \/ /\ events[r] \in {<<"propagated">>, <<"queued", "propagated">>}
               /\ r \in Confirmed
        BY <4>1, <4>2, ToldForms, Zenon
      <4> QED BY <4>1, <4>3, PromiseForms, Zenon
    <3>3. ASSUME ~InSeq(r, queue), answer[r] = "ok" PROVE Promise!Over(r, events[r])
      BY <3>1, <3>3, Zenon DEF Consistent
    <3> QED BY <3>2, <3>3, Zenon
  <2> QED BY <2>1, Zenon DEF SendInv, OneEntryPerMessage, QueueExact
<1> QED BY SendInvHolds, <1>1, PTL

\* A message whose propagation was reported is never sent again.
THEOREM NeverSentAgain == SendSpec => []NotSentAgain
<1>1. SendInv => NotSentAgain
  BY Zenon DEF SendInv, AllConsistent, Consistent, NotSentAgain
<1> QED BY SendInvHolds, <1>1, PTL

\* A task pays once for each proof, and nothing is sent unpaid.
THEOREM AlwaysPaidPerProof == SendSpec => []PaidPerProof
<1>1. SendInv => PaidPerProof
  BY Zenon DEF SendInv, AllConsistent, Consistent, PaidPerProof, OwesRight,
         NeedsAdmission, NeedsRlnProof
<1> QED BY SendInvHolds, <1>1, PTL

\* No Store query names a message that went out over mix.
THEOREM MixStaysPrivate == SendSpec => []MixNeverAsksStore
<1>1. SendInv => MixNeverAsksStore
  BY Zenon DEF SendInv, AllConsistent, Consistent, MixNeverAsksStore, AwaitsStoreValidation
<1> QED BY SendInvHolds, <1>1, PTL

\* What is too large for mix costs nothing at the Required level.
THEOREM TooLargeIsFree == SendSpec => []TooLargeCostsNothing
<1>1. SendInv => TooLargeCostsNothing
  <2> SUFFICES ASSUME SendInv, AnonymityLevel = "Required", NEW r \in TooLarge
               PROVE  ~task[r].admitted /\ ~task[r].proof
    BY Zenon DEF TooLargeCostsNothing
  <2>1. r \in Requests
    BY SendAssumption, Zenon
  <2> QED BY <2>1, Zenon DEF SendInv, AllConsistent, Consistent, Refused
<1> QED BY SendInvHolds, <1>1, PTL

----------------------------------------------------------------------------
(* The permits: admissionLock, sendSlots and retryTick.                    *)

InLock == {"lock", "quota", "admit", "prove"}
Locked == {"quota", "admit", "prove"}
InSlot == {"slot", "wire"}

\* The queue `q` holds the deliver calls in the phases of S, each once.
Inside(q, ph, S) ==
    Distinct(q) /\ \A r \in Requests : InSeq(r, q) <=> ph[r] \in S

\* What happens to a queue when `r` goes from one phase to another: it stays in
\* or out, leaves, or joins.
Passes(q, after, r, from, to, S) ==
    \/ after = q /\ (from \in S <=> to \in S)
    \/ after = Without(q, r) /\ to \notin S
    \/ after = Append(q, r) /\ from \notin S /\ to \in S

\* Going from q to `after`, nobody but `r` loses the head or moves back.
KeepsOthers(q, after, r) ==
    \A p \in Requests \ {r} :
      /\ q # <<>> /\ Head(q) = p => after # <<>> /\ Head(after) = p
      /\ \A i \in DOMAIN q : q[i] = p => \E j \in DOMAIN after : j <= i /\ after[j] = p

\* A deliver that stays, leaves or joins keeps the queue exact.
LEMMA PassesExact ==
    ASSUME NEW q \in Seq(Requests), NEW after, NEW S, NEW r \in Requests, NEW x,
           phase \in [Requests -> Phases], phase' = [phase EXCEPT ![r] = x],
           Inside(q, phase, S), Passes(q, after, r, phase[r], x, S)
    PROVE  Inside(after, phase', S)
<1>1. /\ phase'[r] = x /\ \A p \in Requests : p # r => phase'[p] = phase[p]
  BY Zenon
<1>2. CASE after = q /\ (phase[r] \in S <=> x \in S)
  BY <1>1, <1>2, Zenon DEF Inside
<1>3. CASE after = Without(q, r) /\ x \notin S
  <2>1. Distinct(after) /\ \A p : InSeq(p, after) <=> InSeq(p, q) /\ p # r
    BY <1>3, WithoutMembers, Zenon DEF Inside
  <2> QED BY <1>1, <1>3, <2>1, Zenon DEF Inside
<1>4. CASE after = Append(q, r) /\ phase[r] \notin S /\ x \in S
  <2>1. ~InSeq(r, q) /\ Distinct(q)
    BY <1>4, Zenon DEF Inside
  <2>2. Distinct(after) /\ \A p : InSeq(p, after) <=> InSeq(p, q) \/ p = r
    BY <1>4, <2>1, AppendMembers, Zenon
  <2> QED BY <1>1, <1>4, <2>2, Zenon DEF Inside
<1> QED BY <1>2, <1>3, <1>4, Zenon DEF Passes

\* Nobody else's lock or slot is lost when `r` stays, leaves or joins.
LEMMA PassesHolders ==
    ASSUME NEW q \in Seq(Requests), NEW r \in Requests, NEW after,
           after = q \/ after = Without(q, r) \/ after = Append(q, r)
    PROVE  KeepsOthers(q, after, r)
<1> SUFFICES ASSUME NEW p \in Requests \ {r}
             PROVE  /\ q # <<>> /\ Head(q) = p => after # <<>> /\ Head(after) = p
                    /\ \A i \in DOMAIN q :
                         q[i] = p => \E j \in DOMAIN after : j <= i /\ after[j] = p
  BY Zenon DEF KeepsOthers
<1>0. \A i \in DOMAIN q : i <= i
  OBVIOUS
<1>1. CASE after = q
  BY <1>0, <1>1, Zenon
<1>2. CASE after = Without(q, r)
  <2>1. ASSUME q # <<>>, Head(q) = p PROVE after # <<>> /\ Head(after) = p
    <3>1. Head(q) # r
      BY <2>1, Zenon
    <3> QED BY <1>2, <2>1, <3>1, WithoutHead, Zenon
  <2>2. ASSUME NEW i \in DOMAIN q, q[i] = p
        PROVE  \E j \in DOMAIN after : j <= i /\ after[j] = p
    <3>1. q[i] # r
      BY <2>2, Zenon
    <3> QED BY <1>2, <2>2, <3>1, WithoutPlace, Zenon
  <2> QED BY <2>1, <2>2, Zenon
<1>3. CASE after = Append(q, r)
  <2>1. /\ \A i \in DOMAIN q : i \in DOMAIN after /\ after[i] = q[i]
        /\ q # <<>> => after # <<>> /\ Head(after) = Head(q)
    <3>1. /\ \A i \in DOMAIN q : i \in DOMAIN Append(q, r) /\ Append(q, r)[i] = q[i]
          /\ q # <<>> => Append(q, r) # <<>> /\ Head(Append(q, r)) = Head(q)
      BY AppendPlaces
    <3> QED BY <1>3, <3>1, Zenon
  <2> QED BY <1>0, <2>1, Zenon
<1> QED BY <1>1, <1>2, <1>3, Zenon

\* PermitsExact, queue by queue.
LEMMA PermitsParts ==
    /\ PermitsExact <=>
         /\ Inside(lockQ, phase, InLock) /\ Inside(slotQ, phase, InSlot)
         /\ Inside(tickQ, phase, {"tick"})
         /\ \A r \in Requests :
              /\ InSeq(Callback("wake", r), soon) <=> phase[r] = "woken"
              /\ phase[r] \in Locked => HoldsLock(r)
              /\ phase[r] = "wire" => HoldsSlot(r)
    /\ PermitsExact' <=>
         /\ Inside(lockQ', phase', InLock) /\ Inside(slotQ', phase', InSlot)
         /\ Inside(tickQ', phase', {"tick"})
         /\ \A r \in Requests :
              /\ InSeq(Callback("wake", r), soon') <=> phase'[r] = "woken"
              /\ phase'[r] \in Locked => lockQ' # <<>> /\ Head(lockQ') = r
              /\ phase'[r] = "wire" =>
                   \E i \in DOMAIN slotQ' : i <= MaxSendsInFlight /\ slotQ'[i] = r
<1>1. \A ph, r : ph[r] \in {"tick"} <=> ph[r] = "tick"
  BY Zenon
<1> QED BY <1>1, Zenon DEF PermitsExact, Inside, InLock, InSlot, Locked, HoldsLock, HoldsSlot

\* A step that moves the deliver of `r` keeps the permits.
LEMMA PermitsMove ==
    ASSUME SendTypeOK, PermitsExact, NEW r \in Requests, NEW x,
           phase' = [phase EXCEPT ![r] = x],
           Passes(lockQ, lockQ', r, phase[r], x, InLock),
           Passes(slotQ, slotQ', r, phase[r], x, InSlot),
           Passes(tickQ, tickQ', r, phase[r], x, {"tick"}),
           x \in Locked => HoldsLock(r) /\ lockQ' = lockQ,
           x = "wire" => HoldsSlot(r) /\ slotQ' = slotQ,
           InSeq(Callback("wake", r), soon') <=> x = "woken",
           \A p \in Requests : p # r =>
             (InSeq(Callback("wake", p), soon') <=> InSeq(Callback("wake", p), soon))
    PROVE  PermitsExact'
<1>0. /\ phase \in [Requests -> Phases] /\ lockQ \in Seq(Requests)
      /\ slotQ \in Seq(Requests) /\ tickQ \in Seq(Requests)
  BY Zenon DEF SendTypeOK
<1>1. /\ phase'[r] = x /\ \A p \in Requests : p # r => phase'[p] = phase[p]
  BY <1>0, Zenon
<1>2. /\ Inside(lockQ, phase, InLock) /\ Inside(slotQ, phase, InSlot)
      /\ Inside(tickQ, phase, {"tick"})
      /\ \A p \in Requests :
           /\ InSeq(Callback("wake", p), soon) <=> phase[p] = "woken"
           /\ phase[p] \in Locked => HoldsLock(p)
           /\ phase[p] = "wire" => HoldsSlot(p)
  BY PermitsParts, Zenon
<1>3. /\ Inside(lockQ', phase', InLock) /\ Inside(slotQ', phase', InSlot)
      /\ Inside(tickQ', phase', {"tick"})
  BY <1>0, <1>2, PassesExact, Zenon
<1>4. ASSUME NEW p \in Requests
      PROVE  InSeq(Callback("wake", p), soon') <=> phase'[p] = "woken"
  BY <1>1, <1>2, Zenon
<1>5. ASSUME NEW p \in Requests, phase'[p] \in Locked
      PROVE  lockQ' # <<>> /\ Head(lockQ') = p
  <2>1. CASE p = r
    BY <1>1, <1>5, <2>1, Zenon DEF HoldsLock
  <2>2. CASE p # r
    <3>1. lockQ # <<>> /\ Head(lockQ) = p
      BY <1>1, <1>2, <1>5, <2>2, Zenon DEF HoldsLock
    <3>2. lockQ' = lockQ \/ lockQ' = Without(lockQ, r) \/ lockQ' = Append(lockQ, r)
      BY Zenon DEF Passes
    <3>3. KeepsOthers(lockQ, lockQ', r)
      BY <1>0, <3>2, PassesHolders, Zenon
    <3> QED BY <2>2, <3>1, <3>3, Zenon DEF KeepsOthers
  <2> QED BY <2>1, <2>2, Zenon
<1>6. ASSUME NEW p \in Requests, phase'[p] = "wire"
      PROVE  \E i \in DOMAIN slotQ' : i <= MaxSendsInFlight /\ slotQ'[i] = p
  <2>1. CASE p = r
    BY <1>1, <1>6, <2>1, Zenon DEF HoldsSlot
  <2>2. CASE p # r
    <3>1. PICK i \in DOMAIN slotQ : i <= MaxSendsInFlight /\ slotQ[i] = p
      BY <1>1, <1>2, <1>6, <2>2, Zenon DEF HoldsSlot
    <3>p. slotQ' = slotQ \/ slotQ' = Without(slotQ, r) \/ slotQ' = Append(slotQ, r)
      BY Zenon DEF Passes
    <3>k. KeepsOthers(slotQ, slotQ', r)
      BY <1>0, <3>p, PassesHolders, Zenon
    <3>2. PICK j \in DOMAIN slotQ' : j <= i /\ slotQ'[j] = p
      BY <2>2, <3>1, <3>k, Zenon DEF KeepsOthers
    <3>3. slotQ' \in Seq(Requests)
      <4>1. Without(slotQ, r) \in Seq(Requests) /\ Append(slotQ, r) \in Seq(Requests)
        BY <1>0, WithoutType, AppendMembers, Zenon
      <4> QED BY <1>0, <3>p, <4>1, Zenon
    <3>4. j <= MaxSendsInFlight
      <4>1. j \in Nat /\ i \in Nat
        BY <1>0, <3>3
      <4> QED BY <3>1, <3>2, <4>1, SendAssumption
    <3> QED BY <3>2, <3>4, Zenon
  <2> QED BY <2>1, <2>2, Zenon
<1> QED BY <1>3, <1>4, <1>5, <1>6, PermitsParts, Zenon

\* So does a step that moves no deliver and wakes none.
LEMMA PermitsStay ==
    ASSUME PermitsExact, UNCHANGED <<phase, lockQ, slotQ, tickQ>>,
           \A p \in Requests :
             InSeq(Callback("wake", p), soon') <=> InSeq(Callback("wake", p), soon)
    PROVE  PermitsExact'
  BY PermitsParts, Zenon DEF HoldsLock, HoldsSlot

\* A deliver that goes on without a wake-up.
LEMMA PermitsGo ==
    ASSUME SendTypeOK, PermitsExact, NEW r \in Requests, NEW x,
           phase[r] # "woken", x # "woken",
           phase' = [phase EXCEPT ![r] = x], soon' = soon,
           Passes(lockQ, lockQ', r, phase[r], x, InLock),
           Passes(slotQ, slotQ', r, phase[r], x, InSlot),
           Passes(tickQ, tickQ', r, phase[r], x, {"tick"}),
           x \in Locked => HoldsLock(r) /\ lockQ' = lockQ,
           x = "wire" => HoldsSlot(r) /\ slotQ' = slotQ
    PROVE  PermitsExact'
<1>1. InSeq(Callback("wake", r), soon') <=> x = "woken"
  BY PermitsParts, Zenon
<1>2. \A p \in Requests : p # r =>
        (InSeq(Callback("wake", p), soon') <=> InSeq(Callback("wake", p), soon))
  BY Zenon
<1> QED BY <1>1, <1>2, PermitsMove, Zenon

\* An attempt that ends gives back the lock or the slot that it had.
LEMMA AttemptLeaves ==
    ASSUME SendTypeOK, PermitsExact, NEW r \in Requests, NEW t, NEW ev,
           EndAttempt(r, t, ev), soon' = soon,
           \/ (phase[r] \in InLock /\ LeaveLock(r) /\ slotQ' = slotQ)
           \/ (phase[r] \in InSlot /\ LeaveSlot(r) /\ lockQ' = lockQ)
    PROVE  PermitsExact'
<1>1. PICK x \in {"none", "store", "tick"} :
        /\ phase' = [phase EXCEPT ![r] = x]
        /\ \/ (tickQ' = tickQ /\ x # "tick")
           \/ (tickQ' = Append(tickQ, r) /\ x = "tick")
  BY EndMoves, Zenon
<1>2. /\ x \notin InLock /\ x \notin InSlot /\ x \notin Locked /\ x # "wire" /\ x # "woken"
      /\ phase[r] # "tick" /\ phase[r] # "woken"
      /\ ~(phase[r] \in InLock /\ phase[r] \in InSlot)
  BY Zenon DEF InLock, InSlot, Locked
<1>3. /\ Passes(lockQ, lockQ', r, phase[r], x, InLock)
      /\ Passes(slotQ, slotQ', r, phase[r], x, InSlot)
  BY <1>2, Zenon DEF Passes, LeaveLock, LeaveSlot
<1>4. Passes(tickQ, tickQ', r, phase[r], x, {"tick"})
  BY <1>1, <1>2, Zenon DEF Passes
<1> QED BY <1>1, <1>2, <1>3, <1>4, PermitsGo, Zenon

\* A processor that returns keeps the slot for the next one, or gives it back.
LEMMA AdvanceLeaves ==
    ASSUME SendTypeOK, PermitsExact, NEW r \in Requests, NEW t,
           phase[r] \in InSlot, Advance(r, t), soon' = soon, lockQ' = lockQ
    PROVE  PermitsExact'
<1>1. CASE LeaveSlot(r) /\ EndAttempt(r, t, <<>>)
  BY <1>1, AttemptLeaves, Zenon
<1>2. CASE Becomes(r, t, <<>>, "slot") /\ UNCHANGED <<slotQ, queue, tickQ>>
  <2>1. phase' = [phase EXCEPT ![r] = "slot"] /\ slotQ' = slotQ /\ tickQ' = tickQ
    BY <1>2, Zenon DEF Becomes
  <2>2. /\ Passes(lockQ, lockQ', r, phase[r], "slot", InLock)
        /\ Passes(slotQ, slotQ', r, phase[r], "slot", InSlot)
        /\ Passes(tickQ, tickQ', r, phase[r], "slot", {"tick"})
        /\ phase[r] # "woken" /\ "slot" \notin Locked
    BY <2>1, Zenon DEF Passes, InLock, InSlot, Locked
  <2> QED BY <2>1, <2>2, PermitsGo, Zenon
<1> QED BY <1>1, <1>2, Zenon DEF Advance

\* An attempt that begins joins the queue of the lock or of the slots.
LEMMA AttemptJoins ==
    ASSUME NEW r \in Requests, phase[r] \in {"none", "woken"},
           BeginAttempt(r), tickQ' = tickQ
    PROVE  \E x \in {"lock", "slot"} :
             /\ phase' = [phase EXCEPT ![r] = x]
             /\ Passes(lockQ, lockQ', r, phase[r], x, InLock)
             /\ Passes(slotQ, slotQ', r, phase[r], x, InSlot)
             /\ Passes(tickQ, tickQ', r, phase[r], x, {"tick"})
<1>1. CASE NeedsAdmission(task[r])
  <2>1. /\ phase' = [phase EXCEPT ![r] = "lock"]
        /\ lockQ' = Append(lockQ, r) /\ slotQ' = slotQ
    BY <1>1, Zenon DEF BeginAttempt
  <2>2. /\ Passes(lockQ, lockQ', r, phase[r], "lock", InLock)
        /\ Passes(slotQ, slotQ', r, phase[r], "lock", InSlot)
        /\ Passes(tickQ, tickQ', r, phase[r], "lock", {"tick"})
    BY <2>1, Zenon DEF Passes, InLock, InSlot
  <2> QED BY <2>1, <2>2, Zenon
<1>2. CASE ~NeedsAdmission(task[r])
  <2>1. /\ phase' = [phase EXCEPT ![r] = "slot"]
        /\ slotQ' = Append(slotQ, r) /\ lockQ' = lockQ
    BY <1>2, Zenon DEF BeginAttempt
  <2>2. /\ Passes(lockQ, lockQ', r, phase[r], "slot", InLock)
        /\ Passes(slotQ, slotQ', r, phase[r], "slot", InSlot)
        /\ Passes(tickQ, tickQ', r, phase[r], "slot", {"tick"})
    BY <2>1, Zenon DEF Passes, InLock, InSlot
  <2> QED BY <2>1, <2>2, Zenon
<1> QED BY <1>1, <1>2, Zenon

\* A wake-up in the next state is that of a woken deliver.
LEMMA WakesWoken ==
    ASSUME WakesExact', NEW r \in Requests, InSeq(Callback("wake", r), soon')
    PROVE  phase'[r] = "woken"
<1>1. PICK i \in DOMAIN soon' : soon'[i] = Callback("wake", r)
  BY Zenon DEF InSeq
<1>2. Callback("wake", r).call = "wake" /\ Callback("wake", r).of = r
  BY Zenon DEF Callback
<1>3. soon'[i].call = "wake" /\ soon'[i].of = r
  BY <1>1, <1>2, Zenon
<1> QED BY <1>1, <1>3, Zenon DEF WakesExact

\* What is left when the event loop has run its next callback.
LEMMA OthersWait ==
    ASSUME SendTypeOK, soon # <<>>, NEW x, NEW r, Head(soon) = Callback(x, r),
           soon' = Tail(soon), NEW p, x = "deliver" \/ p # r
    PROVE  InSeq(Callback("wake", p), soon') <=> InSeq(Callback("wake", p), soon)
<1>1. Callback("wake", p) # Head(soon)
  <2>1. Callback("wake", p) = Callback(x, r) => "wake" = x /\ p = r
    BY SoonTypes
  <2> QED BY <2>1, Zenon
<1>2. \A y : InSeq(y, soon) <=> InSeq(y, Tail(soon)) \/ y = Head(soon)
  BY SoonTypes, TailMembers, Zenon
<1> QED BY <1>1, <1>2, Zenon

\* The callback of startDeliverSoon.
LEMMA StartDeliverPermits ==
    ASSUME SendInv, PermitsExact, NEW r \in Requests, StartDeliver(r)
    PROVE  PermitsExact'
<1>0. /\ SendTypeOK /\ tickQ' = tickQ
      /\ soon # <<>> /\ Head(soon) = Callback("deliver", r) /\ soon' = Tail(soon)
  BY Zenon DEF SendInv, StartDeliver
<1>1. \A p \in Requests :
        InSeq(Callback("wake", p), soon') <=> InSeq(Callback("wake", p), soon)
  BY <1>0, OthersWait, Zenon
<1>2. CASE phase[r] = "none" /\ AfterPropagation(r, task[r], <<>>)
             /\ UNCHANGED <<lockQ, slotQ>>
  <2>1. PICK x \in {"none", "store"} : phase' = [phase EXCEPT ![r] = x]
    BY <1>2, EndMoves, Zenon
  <2>2. /\ Passes(lockQ, lockQ', r, phase[r], x, InLock)
        /\ Passes(slotQ, slotQ', r, phase[r], x, InSlot)
        /\ Passes(tickQ, tickQ', r, phase[r], x, {"tick"})
        /\ x \notin Locked /\ x # "wire" /\ x # "woken"
    BY <1>0, <1>2, Zenon DEF Passes, InLock, InSlot, Locked
  <2>3. InSeq(Callback("wake", r), soon') <=> x = "woken"
    BY <1>1, <1>2, <2>2, PermitsParts, Zenon
  <2> QED BY <1>0, <1>1, <2>1, <2>2, <2>3, PermitsMove, Zenon
<1>3. CASE phase[r] = "none" /\ BeginAttempt(r)
  <2>1. PICK x \in {"lock", "slot"} :
          /\ phase' = [phase EXCEPT ![r] = x]
          /\ Passes(lockQ, lockQ', r, phase[r], x, InLock)
          /\ Passes(slotQ, slotQ', r, phase[r], x, InSlot)
          /\ Passes(tickQ, tickQ', r, phase[r], x, {"tick"})
    BY <1>0, <1>3, AttemptJoins, Zenon
  <2>2. x \notin Locked /\ x # "wire" /\ x # "woken"
    BY Zenon DEF Locked
  <2>3. InSeq(Callback("wake", r), soon') <=> x = "woken"
    BY <1>1, <1>3, <2>2, PermitsParts, Zenon
  <2> QED BY <1>0, <1>1, <2>1, <2>2, <2>3, PermitsMove, Zenon
<1>4. CASE UNCHANGED <<phase, lockQ, slotQ>>
  BY <1>0, <1>1, <1>4, PermitsStay, Zenon
<1> QED BY <1>2, <1>3, <1>4, Zenon DEF StartDeliver

\* A deliver that retryNow woke.
LEMMA WakePermits ==
    ASSUME SendInv, SendInv', PermitsExact, NEW r \in Requests, Wake(r)
    PROVE  PermitsExact'
<1>0. /\ SendTypeOK /\ WakesExact' /\ tickQ' = tickQ /\ BeginAttempt(r)
      /\ soon # <<>> /\ Head(soon) = Callback("wake", r) /\ soon' = Tail(soon)
  BY Zenon DEF SendInv, Wake
<1>1. \A p \in Requests : p # r =>
        (InSeq(Callback("wake", p), soon') <=> InSeq(Callback("wake", p), soon))
  BY <1>0, OthersWait, Zenon
<1>2. phase[r] = "woken"
  <2>1. InSeq(Callback("wake", r), soon)
    BY <1>0, SoonTypes, TailMembers, Zenon
  <2> QED BY <2>1, PermitsParts, Zenon
<1>3. PICK x \in {"lock", "slot"} :
        /\ phase' = [phase EXCEPT ![r] = x]
        /\ Passes(lockQ, lockQ', r, phase[r], x, InLock)
        /\ Passes(slotQ, slotQ', r, phase[r], x, InSlot)
        /\ Passes(tickQ, tickQ', r, phase[r], x, {"tick"})
  BY <1>0, <1>2, AttemptJoins, Zenon
<1>4. x \notin Locked /\ x # "wire" /\ x # "woken" /\ phase'[r] = x
  BY <1>0, <1>3, Zenon DEF Locked, SendTypeOK
<1>5. InSeq(Callback("wake", r), soon') <=> x = "woken"
  BY <1>0, <1>4, WakesWoken, Zenon
<1> QED BY <1>0, <1>1, <1>3, <1>4, <1>5, PermitsMove, Zenon

\* Callbacks of the requests of a queue, scheduled together.
LEMMA Scheduled ==
    ASSUME SendTypeOK, NEW x \in {"deliver", "wake"}, NEW q \in Seq(Requests),
           soon' = soon \o [i \in DOMAIN q |-> Callback(x, q[i])]
    PROVE  \A y, p : InSeq(Callback(y, p), soon') <=>
                       InSeq(Callback(y, p), soon) \/ (y = x /\ InSeq(p, q))
<1> DEFINE s == [i \in DOMAIN q |-> Callback(x, q[i])]
<1>1. /\ Len(q) \in Nat /\ DOMAIN q = 1..Len(q) /\ DOMAIN s = DOMAIN q
      /\ \A i \in DOMAIN q : q[i] \in Requests /\ s[i] = Callback(x, q[i])
  OBVIOUS
<1>2. \A i \in DOMAIN q : Callback(x, q[i]) \in Callbacks
  BY <1>1 DEF Callback, Callbacks
<1>3. s \in Seq(Callbacks)
  BY <1>1, <1>2
<1>4. soon' = soon \o s
  BY Zenon
<1> HIDE DEF s
<1>5. soon \in Seq(Callbacks)
  BY SoonTypes, Zenon
<1>6. \A c : InSeq(c, soon') <=> InSeq(c, soon) \/ InSeq(c, s)
  <2>1. \A c : InSeq(c, soon \o s) <=> InSeq(c, soon) \/ InSeq(c, s)
    BY <1>3, <1>5, ConcatMembers, Zenon
  <2> QED BY <1>4, <2>1, Zenon
<1>7. ASSUME NEW y, NEW p PROVE InSeq(Callback(y, p), s) <=> y = x /\ InSeq(p, q)
  <2>1. ASSUME InSeq(Callback(y, p), s) PROVE y = x /\ InSeq(p, q)
    <3>1. PICK i \in DOMAIN q : Callback(x, q[i]) = Callback(y, p)
      BY <1>1, <2>1, Zenon DEF InSeq
    <3>2. x = y /\ q[i] = p
      BY <3>1, SoonTypes
    <3> QED BY <3>2, Zenon DEF InSeq
  <2>2. ASSUME y = x, InSeq(p, q) PROVE InSeq(Callback(y, p), s)
    BY <1>1, <2>2, Zenon DEF InSeq
  <2> QED BY <2>1, <2>2, Zenon
<1> QED BY <1>6, <1>7, Zenon

\* `send` and start schedule deliver calls, and wake nobody.
LEMMA SchedulePermits ==
    ASSUME SendTypeOK, PermitsExact, Start \/ \E r \in Requests : Send(r)
    PROVE  PermitsExact'
<1>1. UNCHANGED <<phase, lockQ, slotQ, tickQ>>
  BY Zenon DEF Start, Send
<1>2. CASE Start
  <2>1. queue \in Seq(Requests)
    BY Zenon DEF SendTypeOK
  <2>2. \A y, p : InSeq(Callback(y, p), soon') <=>
                    InSeq(Callback(y, p), soon) \/ (y = "deliver" /\ InSeq(p, queue))
    BY <1>2, <2>1, Scheduled, Zenon DEF Start
  <2>3. ASSUME NEW p \in Requests
        PROVE  InSeq(Callback("wake", p), soon') <=> InSeq(Callback("wake", p), soon)
    BY <2>2
  <2> QED BY <1>1, <2>3, PermitsStay, Zenon
<1>3. ASSUME NEW r \in Requests, Send(r) PROVE PermitsExact'
  <2>1. CASE soon' = soon
    BY <1>1, <2>1, PermitsStay, Zenon
  <2>2. CASE soon' = Append(soon, Callback("deliver", r))
    <3>1. Callback("deliver", r) \in Callbacks /\ soon \in Seq(Callbacks)
      BY SoonTypes, Zenon DEF Callback, Callbacks
    <3>2. \A c : InSeq(c, soon') <=> InSeq(c, soon) \/ c = Callback("deliver", r)
      BY <2>2, <3>1, AppendMembers, Zenon
    <3>3. \A p : Callback("wake", p) # Callback("deliver", r)
      BY SoonTypes
    <3> QED BY <1>1, <3>2, <3>3, PermitsStay, Zenon
  <2> QED BY <1>3, <2>1, <2>2, Zenon DEF Send
<1> QED BY <1>2, <1>3, Zenon

\* One round of retryLoop: every deliver in the queue of retryTick is woken.
LEMMA RetryNowPermits ==
    ASSUME SendTypeOK, PermitsExact, RetryNow
    PROVE  PermitsExact'
<1>0. /\ tickQ \in Seq(Requests) /\ tickQ' = <<>> /\ lockQ' = lockQ /\ slotQ' = slotQ
      /\ soon' = soon \o [i \in DOMAIN tickQ |-> Callback("wake", tickQ[i])]
  BY Zenon DEF RetryNow, SendTypeOK
<1>1. /\ Inside(lockQ, phase, InLock) /\ Inside(slotQ, phase, InSlot)
      /\ Inside(tickQ, phase, {"tick"})
      /\ \A r \in Requests :
           /\ InSeq(Callback("wake", r), soon) <=> phase[r] = "woken"
           /\ phase[r] \in Locked => HoldsLock(r)
           /\ phase[r] = "wire" => HoldsSlot(r)
  BY PermitsParts, Zenon
<1>2. ASSUME NEW r \in Requests
      PROVE  \/ phase[r] = "tick" /\ InSeq(r, tickQ) /\ phase'[r] = "woken"
             \/ phase[r] # "tick" /\ ~InSeq(r, tickQ) /\ phase'[r] = phase[r]
  <2>1. phase'[r] = IF InSeq(r, tickQ) THEN "woken" ELSE phase[r]
    BY Zenon DEF RetryNow
  <2>2. InSeq(r, tickQ) <=> phase[r] = "tick"
    BY <1>1, Zenon DEF Inside
  <2> QED BY <2>1, <2>2, Zenon
<1>3. Inside(lockQ', phase', InLock) /\ Inside(slotQ', phase', InSlot)
  BY <1>0, <1>1, <1>2, Zenon DEF Inside, InLock, InSlot
<1>4. Inside(tickQ', phase', {"tick"})
  <2>1. Distinct(<<>>) /\ \A r : ~InSeq(r, <<>>)
    BY DEF Distinct, InSeq
  <2>2. \A r \in Requests : phase'[r] # "tick"
    BY <1>2, Zenon
  <2> QED BY <1>0, <2>1, <2>2, Zenon DEF Inside
<1>5. ASSUME NEW r \in Requests
      PROVE  /\ InSeq(Callback("wake", r), soon') <=> phase'[r] = "woken"
             /\ phase'[r] \in Locked => lockQ' # <<>> /\ Head(lockQ') = r
             /\ phase'[r] = "wire" =>
                  \E i \in DOMAIN slotQ' : i <= MaxSendsInFlight /\ slotQ'[i] = r
  <2>1. \A y, p : InSeq(Callback(y, p), soon') <=>
                    InSeq(Callback(y, p), soon) \/ (y = "wake" /\ InSeq(p, tickQ))
    BY <1>0, Scheduled, Zenon
  <2>2. InSeq(Callback("wake", r), soon') <=>
          InSeq(Callback("wake", r), soon) \/ InSeq(r, tickQ)
    BY <2>1, Zenon
  <2>3. InSeq(Callback("wake", r), soon') <=> phase'[r] = "woken"
    BY <1>1, <1>2, <2>2, Zenon
  <2>4. phase'[r] \in Locked => lockQ' # <<>> /\ Head(lockQ') = r
    BY <1>0, <1>1, <1>2, Zenon DEF HoldsLock, Locked
  <2>5. phase'[r] = "wire" =>
          \E i \in DOMAIN slotQ' : i <= MaxSendsInFlight /\ slotQ'[i] = r
    BY <1>0, <1>1, <1>2, Zenon DEF HoldsSlot
  <2> QED BY <2>3, <2>4, <2>5, Zenon
<1> QED BY <1>3, <1>4, <1>5, PermitsParts, Zenon

\* A deliver that goes on from one await to the next, in the same queues.
LEMMA SameQueues ==
    ASSUME SendTypeOK, PermitsExact, NEW r \in Requests, NEW x,
           phase' = [phase EXCEPT ![r] = x],
           UNCHANGED <<soon, lockQ, slotQ, tickQ>>,
           \/ phase[r] \in InLock /\ HoldsLock(r) /\ x \in InLock
           \/ phase[r] \in InSlot /\ HoldsSlot(r) /\ x \in InSlot
           \/ phase[r] \in {"store", "answered"} /\ x \in {"none", "answered"}
    PROVE  PermitsExact'
<1>1. /\ Passes(lockQ, lockQ', r, phase[r], x, InLock)
      /\ Passes(slotQ, slotQ', r, phase[r], x, InSlot)
      /\ Passes(tickQ, tickQ', r, phase[r], x, {"tick"})
      /\ phase[r] # "woken" /\ x # "woken"
  BY Zenon DEF Passes, InLock, InSlot
<1>2. /\ x \in Locked => HoldsLock(r) /\ lockQ' = lockQ
      /\ x = "wire" => HoldsSlot(r) /\ slotQ' = slotQ
  BY Zenon DEF InLock, InSlot, Locked
<1> QED BY <1>1, <1>2, PermitsGo, Zenon

\* The steps of admitAndProve.
LEMMA AdmissionPermits ==
    ASSUME SendTypeOK, PermitsExact, NEW r \in Requests,
           \/ CheckFails(r) \/ BeginAdmission(r) \/ QuotaAnswers(r) \/ AdmitAnswers(r)
           \/ AttachProof(r) \/ ProofRefused(r) \/ ProofFails(r)
    PROVE  PermitsExact'
<1>0. phase[r] \in Locked => phase[r] \in InLock /\ HoldsLock(r)
  BY PermitsParts, Zenon DEF InLock, Locked
<1>1. CASE CheckFails(r) \/ ProofRefused(r) \/ ProofFails(r)
  <2>1. phase[r] \in InLock /\ slotQ' = slotQ /\ soon' = soon /\ LeaveLock(r)
    BY <1>1, Zenon DEF CheckFails, ProofRefused, ProofFails, NotAdmitted, InLock
  <2>2. PICK t : EndAttempt(r, t, <<>>)
    BY <1>1, Zenon DEF CheckFails, ProofRefused, ProofFails, NotAdmitted
  <2> QED BY <2>1, <2>2, AttemptLeaves, Zenon
<1>2. CASE BeginAdmission(r)
  <2>1. PICK x \in Locked : phase' = [phase EXCEPT ![r] = x]
    BY <1>2, Zenon DEF BeginAdmission, Locked
  <2>2. x \in InLock /\ phase[r] \in InLock /\ HoldsLock(r)
    BY <1>2, Zenon DEF BeginAdmission, Locked, InLock
  <2>3. UNCHANGED <<soon, lockQ, slotQ, tickQ>>
    BY <1>2, Zenon DEF BeginAdmission
  <2> QED BY <2>1, <2>2, <2>3, SameQueues, Zenon
<1>3. CASE QuotaAnswers(r) \/ AdmitAnswers(r)
  <2>1. /\ phase[r] \in InLock /\ HoldsLock(r) /\ soon' = soon /\ slotQ' = slotQ
    BY <1>0, <1>3, Zenon DEF QuotaAnswers, AdmitAnswers, Locked
  <2>2. \/ \E t, ev : LeaveLock(r) /\ EndAttempt(r, t, ev)
        \/ \E x \in {"admit", "prove"} :
             phase' = [phase EXCEPT ![r] = x] /\ UNCHANGED <<lockQ, tickQ>>
    BY <1>3, Zenon DEF QuotaAnswers, AdmitAnswers, NotAdmitted
  <2>3. CASE \E t, ev : LeaveLock(r) /\ EndAttempt(r, t, ev)
    BY <2>1, <2>3, AttemptLeaves, Zenon
  <2>4. CASE \E x \in {"admit", "prove"} :
               phase' = [phase EXCEPT ![r] = x] /\ UNCHANGED <<lockQ, tickQ>>
    <3>1. PICK x \in {"admit", "prove"} :
            phase' = [phase EXCEPT ![r] = x] /\ UNCHANGED <<lockQ, tickQ>>
      BY <2>4, Zenon
    <3>2. x \in InLock
      BY Zenon DEF InLock
    <3> QED BY <2>1, <3>1, <3>2, SameQueues, Zenon
  <2> QED BY <2>2, <2>3, <2>4, Zenon
<1>4. CASE AttachProof(r)
  <2>1. /\ phase[r] = "prove" /\ lockQ' = Without(lockQ, r) /\ slotQ' = Append(slotQ, r)
        /\ phase' = [phase EXCEPT ![r] = "slot"] /\ tickQ' = tickQ /\ soon' = soon
    BY <1>4, Zenon DEF AttachProof, Admitted, LeaveLock
  <2>2. /\ Passes(lockQ, lockQ', r, phase[r], "slot", InLock)
        /\ Passes(slotQ, slotQ', r, phase[r], "slot", InSlot)
        /\ Passes(tickQ, tickQ', r, phase[r], "slot", {"tick"})
        /\ "slot" \notin Locked
    BY <2>1, Zenon DEF Passes, InLock, InSlot, Locked
  <2> QED BY <2>1, <2>2, PermitsGo, Zenon
<1> QED BY <1>1, <1>2, <1>3, <1>4, Zenon

\* The steps of the processors.
LEMMA ProcessPermits ==
    ASSUME SendTypeOK, PermitsExact, NEW r \in Requests,
           \/ SkipMix(r) \/ PublishOverMix(r) \/ PublishPlain(r) \/ NoLightpushPeer(r)
           \/ Published(r) \/ ProofRejected(r) \/ NotPublished(r)
           \/ PublishRefused(r) \/ PublishRaises(r)
    PROVE  PermitsExact'
<1>1. CASE PublishOverMix(r) \/ PublishPlain(r)
  <2>1. /\ phase[r] = "slot" /\ HoldsSlot(r) /\ phase' = [phase EXCEPT ![r] = "wire"]
        /\ UNCHANGED <<soon, lockQ, slotQ, tickQ>>
    BY <1>1, Zenon DEF PublishOverMix, PublishPlain, Trying, Publish
  <2>2. phase[r] \in InSlot /\ "wire" \in InSlot
    BY <2>1, Zenon DEF InSlot
  <2> QED BY <2>1, <2>2, SameQueues, Zenon
<1>2. CASE NoLightpushPeer(r) \/ PublishRaises(r)
  <2>1. /\ phase[r] \in InSlot /\ LeaveSlot(r) /\ lockQ' = lockQ /\ soon' = soon
        /\ EndAttempt(r, task[r], <<>>)
    BY <1>2, Zenon DEF NoLightpushPeer, PublishRaises, Trying, InSlot
  <2> QED BY <2>1, AttemptLeaves, Zenon
<1>3. CASE \/ SkipMix(r) \/ Published(r) \/ ProofRejected(r) \/ NotPublished(r)
           \/ PublishRefused(r)
  <2>1. phase[r] \in InSlot /\ lockQ' = lockQ /\ soon' = soon
    BY <1>3, Zenon DEF SkipMix, Trying, Published, ProofRejected, NotPublished,
                       PublishRefused, PublishEnds, InSlot
  <2>2. PICK t : Advance(r, t)
    BY <1>3, Zenon DEF SkipMix, GiveUpMix, Published, ProofRejected, NotPublished,
                       PublishRefused, PublishEnds
  <2> QED BY <2>1, <2>2, AdvanceLeaves, Zenon
<1> QED BY <1>1, <1>2, <1>3, Zenon

\* The steps of waitForStoreValidation.
LEMMA StorePermits ==
    ASSUME SendTypeOK, PermitsExact, NEW r \in Requests,
           StoreReports(r) \/ StoreConfirms(r) \/ StoreTimesOut(r)
    PROVE  PermitsExact'
<1>1. phase[r] \in {"store", "answered"} /\ UNCHANGED <<soon, lockQ, slotQ, tickQ>>
  BY Zenon DEF StoreReports, StoreConfirms, StoreTimesOut
<1>2. PICK x \in {"none", "answered"} : phase' = [phase EXCEPT ![r] = x]
  BY Zenon DEF StoreReports, StoreConfirms, StoreTimesOut, Fail, Finish, Becomes
<1> QED BY <1>1, <1>2, SameQueues, Zenon

\* A cancelled deliver frees whatever it held or waited for.
LEMMA CancelPermits ==
    ASSUME SendTypeOK, PermitsExact, NEW r \in Requests, Cancel(r)
    PROVE  PermitsExact'
<1>1. /\ phase' = [phase EXCEPT ![r] = "none"] /\ soon' = soon
      /\ lockQ' = Without(lockQ, r) /\ slotQ' = Without(slotQ, r)
      /\ tickQ' = Without(tickQ, r)
  BY Zenon DEF Cancel, LeaveLock, LeaveSlot
<1>2. phase[r] # "woken"
  BY Zenon DEF Cancel, Cancellable
<1>3. /\ Passes(lockQ, lockQ', r, phase[r], "none", InLock)
      /\ Passes(slotQ, slotQ', r, phase[r], "none", InSlot)
      /\ Passes(tickQ, tickQ', r, phase[r], "none", {"tick"})
      /\ "none" \notin Locked
  BY <1>1, Zenon DEF Passes, InLock, InSlot, Locked
<1> QED BY <1>1, <1>2, <1>3, PermitsGo, Zenon

\* Every step of the send service keeps the permits exact.
LEMMA PermitsStep ==
    SendInv /\ SendInv' /\ PermitsExact /\ [SendNext]_sendVars => PermitsExact'
<1> SUFFICES ASSUME SendInv, SendInv', PermitsExact, [SendNext]_sendVars
             PROVE  PermitsExact'
  BY Zenon
<1>0. SendTypeOK
  BY Zenon DEF SendInv
<1>1. CASE UNCHANGED <<soon, phase, lockQ, slotQ, tickQ>>
  BY <1>1, PermitsStay, Zenon
<1>2. CASE \/ Stop \/ StopEnds \/ EpochRolls \/ OtherDraw \/ UNCHANGED sendVars
           \/ \E r \in Requests : DeadlinePasses(r) \/ GetsOld(r)
  <2>1. UNCHANGED <<soon, phase, lockQ, slotQ, tickQ>>
    BY <1>2, Zenon DEF Stop, StopEnds, EpochRolls, OtherDraw, sendVars, DeadlinePasses,
                       GetsOld
  <2> QED BY <1>1, <2>1, Zenon
<1>3. CASE RetryNow
  BY <1>0, <1>3, RetryNowPermits, Zenon
<1>4. CASE Start \/ \E r \in Requests : Send(r)
  BY <1>0, <1>4, SchedulePermits, Zenon
<1>5. ASSUME NEW r \in Requests, StartDeliver(r) \/ Wake(r) PROVE PermitsExact'
  BY <1>5, StartDeliverPermits, WakePermits, Zenon
<1>6. ASSUME NEW r \in Requests,
             \/ CheckFails(r) \/ BeginAdmission(r) \/ QuotaAnswers(r) \/ AdmitAnswers(r)
             \/ AttachProof(r) \/ ProofRefused(r) \/ ProofFails(r)
      PROVE  PermitsExact'
  BY <1>0, <1>6, AdmissionPermits, Zenon
<1>7. ASSUME NEW r \in Requests,
             \/ SkipMix(r) \/ PublishOverMix(r) \/ PublishPlain(r) \/ NoLightpushPeer(r)
             \/ Published(r) \/ ProofRejected(r) \/ NotPublished(r)
             \/ PublishRefused(r) \/ PublishRaises(r)
      PROVE  PermitsExact'
  BY <1>0, <1>7, ProcessPermits, Zenon
<1>8. ASSUME NEW r \in Requests,
             StoreReports(r) \/ StoreConfirms(r) \/ StoreTimesOut(r) \/ Cancel(r)
      PROVE  PermitsExact'
  BY <1>0, <1>8, StorePermits, CancelPermits, Zenon
<1> QED BY <1>2, <1>3, <1>4, <1>5, <1>6, <1>7, <1>8, Zenon DEF SendNext

\* A service that was just created holds no permit.
LEMMA PermitsInit == SendInit => PermitsExact
<1> SUFFICES ASSUME SendInit PROVE PermitsExact
  BY Zenon
<1>1. \A x : ~InSeq(x, <<>>)
  BY DEF InSeq
<1>2. Distinct(<<>>)
  BY DEF Distinct
<1>3. /\ lockQ = <<>> /\ slotQ = <<>> /\ tickQ = <<>> /\ soon = <<>>
      /\ \A r \in Requests : phase[r] = "none"
  BY Zenon DEF SendInit
<1> QED BY <1>1, <1>2, <1>3, Zenon DEF PermitsExact

\* The admission lock, the send slots and the retry tick hold exactly the calls
\* that are inside them, each once, whatever is cancelled, fails or ends: no
\* permit leaks, and none is used without being held.
THEOREM PermitsAlwaysExact == SendSpec => []PermitsExact
  BY PermitsInit, PermitsStep, SendInvHolds, PTL DEF SendSpec

============================================================================
