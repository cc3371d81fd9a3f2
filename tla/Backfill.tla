------------------------------ MODULE Backfill ------------------------------
(* The backfill of one subscribed topic (recv_service.nim, backfill.nim):  *)
(* the record that says from when on the app lacks messages, the outages   *)
(* and recoveries of live delivery, the Store queries of the worker, and   *)
(* the records on disk over a crash and a restart.                         *)
(*                                                                         *)
(* The topics of a node have separate records, so one topic is enough, and *)
(* the fate of one message of it, published at any time, stands for all.   *)
EXTENDS Integers, Sequences

CONSTANTS
    Variance,       \* how far a timestamp is from the publication
    DelayExtra,     \* live delivery works this long after it is ready
    ArchiveTime,    \* the archive has a message this long after it came
    OutageWindow,   \* how far back a detected outage may have started
    Lag,            \* how late the health signal is
    QueryRange,     \* MaxQueryTimeRange of the Store protocol
    StartTime,      \* bound: the clock of a run, first
    EndTime,        \* bound: and last
    MaxWrites,      \* bound: writes that wait for the storage thread
    MaxChanges      \* bound: subscription changes, receipts, outages, recoveries
                    \* and crashes in a run

ASSUME TimesAssumption ==
    /\ Variance \in Nat /\ ArchiveTime \in Nat /\ Lag \in Nat
    /\ DelayExtra \in Nat \ {0} /\ QueryRange \in Nat \ {0}
    /\ OutageWindow \in Nat /\ OutageWindow >= Lag + Variance
    /\ StartTime \in Nat /\ EndTime \in Nat
    /\ MaxWrites \in Nat /\ MaxChanges \in Nat

VARIABLES
    now,          \* the clock
    service,      \* "down"; "reading" and then "read" as the worker gets the
                  \* records from disk; "started"
    live,         \* live and liveSince of BackfillState
    liveSince,
    record,       \* the record of the topic; state "none" when it has none
    subscribed,   \* isContentSubscribed
    since,        \* subscribedSince of the topic, while it has a record
    pending,      \* pendingSubscriptionChanges
    query,        \* the pending Store query of the worker
    images,       \* the disk, then the disk after each write that waits
    changes,      \* subscription changes, receipts and so on so far
    reach,        \* whether messages of the topic reach the node: "up",
                  \* "warming" after a subscribe or recovery, or "down"
    reachAt,      \* since when it warms up or is down
    promised,     \* ghost: from when on the app may count on the topic
    msg           \* the message: whether and when published, and its fate

nodeVars == <<service, live, liveSince, record, subscribed, since, pending, query,
              images, changes>>
bfVars == <<now, nodeVars, reach, reachAt, promised, msg>>

----------------------------------------------------------------------------
(* The transitions of backfill.nim.                                        *)

Record(timestamp, state) == [timestamp |-> timestamp, state |-> state]
NoRecord == Record(0, "none")
Records == [timestamp : Int, state : {"none", "Online", "Offline"}]

Latest(a, b) == IF a >= b THEN a ELSE b
Earliest(a, b) == IF a <= b THEN a ELSE b

NewRecord(at, isLive, isLiveSince) ==
    Record(at - Variance, IF isLive /\ isLiveSince <= at THEN "Online" ELSE "Offline")

InOutage(r, detectedAt) ==
    IF r.state # "Online" THEN r
    ELSE Record(Latest(r.timestamp, detectedAt - OutageWindow), "Offline")

\* A disk image: the record, and the last received time once it is written.
Image(r, hasLast, last) == [record |-> r, hasLast |-> hasLast, last |-> last]
EmptyDisk == Image(NoRecord, FALSE, 0)
Images == [record : Records, hasLast : BOOLEAN, last : Int]

AtStart(image) ==
    IF image.record.state # "Online" THEN image.record
    ELSE IF ~image.hasLast THEN Record(image.record.timestamp, "Offline")
    ELSE InOutage(image.record, image.last)

CoveredFrom(isLiveSince, subscribedSince) ==
    Latest(isLiveSince, subscribedSince) + DelayExtra + Variance

ArchivedBefore(t) == t - Variance - ArchiveTime

----------------------------------------------------------------------------

NoQuery == [record |-> NoRecord, stop |-> 0, fetchStop |-> 0, windowStop |-> 0]
Queries == [record : Records, stop : Int, fetchStop : Int, windowStop : Int]
NoPromise == [made |-> FALSE, from |-> 0]
NoMsg == [fate |-> "none", at |-> 0, timestamp |-> 0]
Settled(fate) == [fate |-> fate, at |-> 0, timestamp |-> 0]
Fates == {"none", "missed", "delivered", "passed"}

BfTypeOK ==
    /\ now \in Nat
    /\ service \in {"down", "reading", "read", "started"}
    /\ live \in BOOLEAN /\ liveSince \in Int
    /\ record \in Records
    /\ subscribed \in BOOLEAN /\ since \in Int
    /\ pending \in Seq([subscribed : BOOLEAN, at : Int])
    /\ query \in Queries
    /\ images \in Seq(Images) /\ Len(images) \in 1..(MaxWrites + 1)
    /\ changes \in Nat
    /\ reach \in {"up", "warming", "down"} /\ reachAt \in Int
    /\ promised \in [made : BOOLEAN, from : Int]
    /\ msg \in [fate : Fates, at : Int, timestamp : Int]

\* startRecvService on a new disk.
BfInit ==
    /\ now = StartTime
    /\ service = "reading"
    /\ live \in BOOLEAN /\ liveSince = now
    /\ subscribed \in BOOLEAN
    /\ pending = IF subscribed THEN <<[subscribed |-> TRUE, at |-> now]>> ELSE <<>>
    /\ reach = (IF live THEN "warming" ELSE "down")
    /\ reachAt = IF live THEN now ELSE 0
    /\ record = NoRecord /\ since = 0 /\ query = NoQuery
    /\ images = <<EmptyDisk>> /\ changes = 0
    /\ promised = NoPromise /\ msg = NoMsg

LastImage == images[Len(images)]

\* persist and persistPut: the storage thread applies the writes in order, and
\* at most MaxWrites of them wait.
Write(r, hasLast, last) ==
    images' = Append(IF Len(images) > MaxWrites THEN Tail(images) ELSE images,
                     Image(r, hasLast, last))
WriteRecord(r) == Write(r, LastImage.hasLast, LastImage.last)

\* One of the things that happen to the service at most MaxChanges times.
Happens == changes < MaxChanges /\ changes' = changes + 1

----------------------------------------------------------------------------
(* Time, publishers and live delivery: outside the service.                *)

\* Live delivery works DelayExtra after a subscribe or a recovery, and an outage
\* is detected within Lag.
Tick ==
    /\ now < EndTime
    /\ service # "down" /\ live =>
         /\ reach = "warming" => now + 1 < reachAt + DelayExtra
         /\ reach = "down" => now < reachAt + Lag
    /\ now' = now + 1
    /\ UNCHANGED <<nodeVars, reach, reachAt, promised, msg>>

WarmsUp ==
    /\ service # "down" /\ live /\ reach = "warming"
    /\ reach' = "up" /\ reachAt' = 0
    /\ UNCHANGED <<now, nodeVars, promised, msg>>

\* An outage starts. It lasts until the node has seen it.
ReachLost ==
    /\ service # "down" /\ live /\ reach # "down"
    /\ reach' = "down" /\ reachAt' = now
    /\ UNCHANGED <<now, nodeVars, promised, msg>>

\* The message is published and does not get to the app at once: the app did not
\* subscribe the topic, or live delivery does not work for it. (A message that
\* processIncomingMessage gives the app live is of no further interest.)
Publish ==
    /\ msg.fate = "none"
    /\ ~(service # "down" /\ subscribed /\ live /\ reach = "up")
    /\ \E timestamp \in (now - Variance)..(now + Variance) :
         msg' = [fate |-> "missed", at |-> now, timestamp |-> timestamp]
    /\ UNCHANGED <<now, nodeVars, reach, reachAt, promised>>

----------------------------------------------------------------------------
(* The disk.                                                               *)

\* backfillOnReceipt, when the last write is activityWriteInterval old: any
\* message of any topic came from the network.
BackfillOnReceipt ==
    /\ Happens
    /\ service = "started"
    /\ Write(LastImage.record, TRUE, now)
    /\ UNCHANGED <<now, service, live, liveSince, record, subscribed, since, pending,
                   query, reach, reachAt, promised, msg>>

\* The service ends at any point. Writes that the storage thread did not apply
\* may be lost: a stop loses none, a crash the last ones.
Crash ==
    /\ Happens
    /\ service # "down"
    /\ service' = "down"
    /\ \E i \in 1..Len(images) :
         /\ images' = <<images[i]>>
         /\ promised' = IF images[i].record.state = "none" THEN NoPromise ELSE promised
    /\ live' = FALSE /\ liveSince' = 0
    /\ record' = NoRecord /\ since' = 0 /\ subscribed' = FALSE
    /\ pending' = <<>> /\ query' = NoQuery
    /\ reach' = "down" /\ reachAt' = 0
    /\ UNCHANGED <<now, msg>>

\* startRecvService, up to the first read of the worker.
StartRecvService ==
    /\ service = "down" /\ Len(images) = 1
    /\ service' = "reading"
    /\ live' \in BOOLEAN /\ liveSince' = now
    /\ subscribed' \in BOOLEAN
    /\ pending' = IF subscribed' THEN <<[subscribed |-> TRUE, at |-> now]>> ELSE <<>>
    /\ reach' = (IF live' THEN "warming" ELSE "down")
    /\ reachAt' = IF live' THEN now ELSE 0
    /\ UNCHANGED <<now, record, since, query, images, changes, promised, msg>>

----------------------------------------------------------------------------
(* Subscriptions and the health of live delivery.                          *)

\* The record, the subscribe time, the promise and the writes after one change.
Applied(change, st) ==
    IF ~change.subscribed
      THEN [record |-> NoRecord, since |-> 0, promised |-> NoPromise]
    ELSE IF st.record.state # "none"
      THEN [st EXCEPT !.since = change.at,
                      !.promised = IF st.promised.made THEN st.promised
                                   ELSE [made |-> TRUE, from |-> change.at]]
    ELSE LET new == NewRecord(change.at, live, liveSince) IN
         [record |-> new, since |-> change.at,
          promised |-> [made |-> TRUE,
                        from |-> IF new.state = "Online" THEN change.at + DelayExtra
                                                         ELSE change.at]]

Topic == [record |-> record, since |-> since, promised |-> promised]
NoTopic == [record |-> NoRecord, since |-> 0, promised |-> NoPromise]

\* The changes of `pending` in their order. Subscribes and unsubscribes take
\* turns, so the last change decides, and any unsubscribe deletes the record.
AppliedPending ==
    IF pending = <<>> THEN Topic
    ELSE Applied(pending[Len(pending)],
                 IF \E i \in DOMAIN pending : ~pending[i].subscribed THEN NoTopic
                                                                     ELSE Topic)

Become(st) ==
    /\ record' = st.record /\ since' = st.since /\ promised' = st.promised
    /\ IF st.record = record THEN UNCHANGED images ELSE WriteRecord(st.record)

\* backfillSubscriptionChanged of onSubscribed and onUnsubscribed.
SubscriptionChanged ==
    /\ Happens
    /\ service # "down"
    /\ subscribed' = ~subscribed
    /\ LET change == [subscribed |-> subscribed', at |-> now] IN
       IF service = "started"
         THEN Become(Applied(change, Topic)) /\ UNCHANGED pending
         ELSE /\ pending' = Append(pending, change)
              /\ UNCHANGED <<record, since, promised, images>>
    /\ IF subscribed' /\ reach # "down" THEN reach' = "warming" /\ reachAt' = now
                                         ELSE UNCHANGED <<reach, reachAt>>
    /\ UNCHANGED <<now, service, live, liveSince, query, msg>>

\* backfillReadRecordsAtStart: the records of the last run, and their write.
ReadRecords ==
    /\ service = "reading"
    /\ service' = "read"
    /\ record' = AtStart(LastImage)
    /\ IF record' = LastImage.record THEN UNCHANGED images ELSE WriteRecord(record')
    /\ UNCHANGED <<now, live, liveSince, subscribed, since, pending, query, changes,
                   reach, reachAt, promised, msg>>

\* backfillWorker from `started` up to its loop.
WorkerStarts ==
    /\ service = "read"
    /\ service' = "started"
    /\ Become(AppliedPending) /\ pending' = <<>>
    /\ UNCHANGED <<now, live, liveSince, subscribed, query, changes, reach, reachAt, msg>>

\* backfillLiveChanged: a recovery.
LiveAgain ==
    /\ Happens
    /\ service # "down" /\ ~live
    /\ live' = TRUE /\ liveSince' = now
    /\ reach' = "warming" /\ reachAt' = now
    /\ UNCHANGED <<now, service, record, subscribed, since, pending, query, images, promised, msg>>

\* backfillLiveChanged: an outage, or a health signal that sees one.
LiveLost ==
    /\ Happens
    /\ service # "down" /\ live
    /\ live' = FALSE /\ liveSince' = now
    /\ record' = InOutage(record, now)
    /\ IF record' = record THEN UNCHANGED images ELSE WriteRecord(record')
    /\ reach' = "down" /\ reachAt' = 0
    /\ UNCHANGED <<now, service, subscribed, since, pending, query, promised,
                   msg>>

----------------------------------------------------------------------------
(* The worker: backfillFetchTopic.                                         *)

IsCandidate == service = "started" /\ live /\ record.state = "Offline" /\ subscribed

\* Faulty: does not wait for the archive.
BeginFetchEarly ==
    /\ IsCandidate /\ query = NoQuery
    /\ LET stop == CoveredFrom(liveSince, since)
           fetchStop == Earliest(stop, ArchivedBefore(now))
       IN  query' = [record |-> record, stop |-> stop, fetchStop |-> fetchStop,
                     windowStop |-> Earliest(fetchStop, record.timestamp + QueryRange)]
    /\ UNCHANGED <<now, service, live, liveSince, record, subscribed, since, pending,
                   images, changes, reach, reachAt, promised, msg>>

\* Up to the query. Without a query the worker waits for the archive.
BeginFetch ==
    /\ IsCandidate /\ query = NoQuery
    /\ LET stop == CoveredFrom(liveSince, since)
           archived == ArchivedBefore(now)
           fetchStop == Earliest(stop, archived)
       IN  /\ ~(stop > archived /\ record.timestamp >= archived)
           /\ query' = [record |-> record, stop |-> stop, fetchStop |-> fetchStop,
                        windowStop |-> Earliest(fetchStop, record.timestamp + QueryRange)]
    /\ UNCHANGED <<now, service, live, liveSince, record, subscribed, since, pending,
                   images, changes, reach, reachAt, promised, msg>>

\* The message is in the archive, and in the range of the query up to `bound`.
InPage(bound) ==
    /\ msg.fate = "missed"
    /\ msg.at + ArchiveTime <= now
    /\ query.record.timestamp <= msg.timestamp /\ msg.timestamp < bound

\* The query times out or fails, or a row of its page does: the app does not
\* subscribe the topic any more, say. Rows before it stay delivered.
FetchFails ==
    /\ query # NoQuery
    /\ query' = NoQuery
    /\ \/ UNCHANGED msg
       \/ /\ subscribed /\ InPage(query.windowStop)
          /\ msg' = Settled("delivered")
    /\ UNCHANGED <<now, service, live, liveSince, record, subscribed, since, pending,
                   images, changes, reach, reachAt, promised>>

\* Faulty: does not look whether live delivery changed during the query.
AfterFetchStale(next) ==
    IF query.fetchStop = query.stop /\ next >= query.stop
      THEN Record(query.stop, "Online")
      ELSE Record(next, "Offline")

\* The record after a page that ends at `next`.
AfterFetch(next) ==
    LET stopNow == CoveredFrom(liveSince, since) IN
    IF live /\ query.fetchStop = query.stop /\ next >= stopNow
      THEN Record(stopNow, "Online")
      ELSE Record(next, "Offline")

\* Faulty: takes the record as it was before the query.
FetchedAnyway(next) ==
    /\ record' = AfterFetch(next)
    /\ WriteRecord(record')

\* From the page on: a change of the topic during the query counts more.
Fetched(next) ==
    IF record # query.record
      THEN UNCHANGED <<record, images>>
      ELSE record' = AfterFetch(next) /\ WriteRecord(record')

\* acceptPage of the last page of the range.
LastPage ==
    /\ query # NoQuery /\ subscribed
    /\ msg' = IF InPage(query.windowStop) THEN Settled("delivered") ELSE msg
    /\ Fetched(query.windowStop)
    /\ query' = NoQuery
    /\ UNCHANGED <<now, service, live, liveSince, subscribed, since, pending, changes,
                   reach, reachAt, promised>>

\* acceptPage of a page with more to come, whose last row has timestamp `last`.
\* A page full of rows of its first timestamp passes over the other rows there.
FullPage(last) ==
    /\ query # NoQuery /\ subscribed
    /\ query.record.timestamp <= last /\ last < query.windowStop
    /\ LET stuck == last = query.record.timestamp
           next == IF stuck THEN last + 1 ELSE last
       IN  /\ \/ msg' = IF InPage(last) THEN Settled("delivered")
                        ELSE IF stuck /\ InPage(next)
                          THEN Settled("passed")
                        ELSE msg
              \/ InPage(last + 1) /\ msg' = Settled("delivered")
           /\ Fetched(next)
    /\ query' = NoQuery
    /\ UNCHANGED <<now, service, live, liveSince, subscribed, since, pending, changes,
                   reach, reachAt, promised>>

BfNext ==
    \/ Tick \/ WarmsUp \/ ReachLost \/ Publish
    \/ BackfillOnReceipt \/ Crash \/ StartRecvService
    \/ SubscriptionChanged \/ ReadRecords \/ WorkerStarts \/ LiveAgain \/ LiveLost
    \/ BeginFetch \/ FetchFails \/ LastPage
    \/ \E last \in StartTime - Variance - OutageWindow .. EndTime : FullPage(last)

BfSpec == BfInit /\ [][BfNext]_bfVars

----------------------------------------------------------------------------
(* Properties.                                                             *)

\* From when on the next start of the service, on this disk, fetches.
GapFrom(image) == AtStart(image).timestamp

\* No message is lost: one that the app was promised and did not get is in the
\* gap of its topic's record, or live delivery is in an outage that the node has
\* yet to see and that will put it there; and after a crash at any point the disk
\* holds a record whose gap has it (backfill.nim).
NothingLost ==
    promised.made /\ msg.fate = "missed" /\ msg.at >= promised.from =>
        /\ service = "started" =>
             \/ record.state = "Offline" /\ record.timestamp <= msg.timestamp
             \/ /\ record.state = "Online" /\ live /\ reach = "down"
                /\ InOutage(record, reachAt + Lag).timestamp <= msg.timestamp
        /\ \A i \in DOMAIN images :
             images[i].record.state # "none" => GapFrom(images[i]) <= msg.timestamp

\* The bound of a topic never moves back while the app stays subscribed, whatever
\* happens during a query: no time is fetched again, and a topic that the app
\* subscribes anew gets no history.
BoundNeverBack ==
    [][promised' = promised /\ record.state # "none" /\ record'.state # "none"
         => record'.timestamp >= record.timestamp]_bfVars

\* The types; and a Store query has a range, which ends where the code says: never past
\* the point where live delivery covers the topic, or that the archive has reached.
BfInv ==
    /\ BfTypeOK
    /\ query # NoQuery =>
        /\ query.record.timestamp < query.windowStop
        /\ query.windowStop <= Earliest(query.stop, ArchivedBefore(now))

----------------------------------------------------------------------------
(* The inductive invariant.                                                *)

\* When the app last subscribed the topic, as far as the worker will know.
SubscribedAt ==
    IF service = "started" THEN since
    ELSE IF pending = <<>> THEN 0
    ELSE pending[Len(pending)].at

\* No time is in the future, and the timestamp of the message is near its
\* publication.
TimesPast ==
    /\ liveSince <= now /\ since <= now /\ reachAt <= now
    /\ \A i \in DOMAIN pending : pending[i].at <= now
    /\ msg.fate = "missed" =>
         /\ msg.at <= now
         /\ msg.at - Variance <= msg.timestamp /\ msg.timestamp <= msg.at + Variance

\* What the service has in each phase: the record is the one written last, the
\* pending changes end in the subscription of now, a promise has a record.
Phases ==
    /\ service \in {"down", "reading"} => record = NoRecord /\ Len(images) = 1
    /\ service \in {"read", "started"} => record = LastImage.record
    /\ service # "started" => query = NoQuery /\ since = 0
    /\ service = "down" => ~live
    /\ service \in {"reading", "read"} =>
         /\ subscribed => pending # <<>>
         /\ pending # <<>> => pending[Len(pending)].subscribed = subscribed
    /\ service = "started" /\ subscribed => record.state # "none"
    /\ record.state = "Online" => service = "started" /\ live /\ subscribed
    /\ promised.made => LastImage.record.state # "none"

\* An image was written by time t: no gap starts within Variance of t.
WrittenBy(image, t) ==
    /\ image.record.state # "none" => image.record.timestamp <= t - Variance
    /\ image.hasLast => image.last <= t

ImagesPast ==
    /\ \A i \in DOMAIN images : WrittenBy(images[i], now)
    /\ service \in {"reading", "read"} =>
         \A i \in DOMAIN images :
            /\ WrittenBy(images[i], liveSince)
            /\ \A p \in DOMAIN pending : WrittenBy(images[i], pending[p].at)

\* A gap starts before the time that live delivery covers, and a query asks for
\* no time past it.
GapOpen ==
    /\ live /\ record.state = "Offline" =>
         record.timestamp < CoveredFrom(liveSince, since)
    /\ query # NoQuery =>
         /\ query.record.state = "Offline"
         /\ query.stop <= now + DelayExtra + Variance
         /\ record.state # "none" => query.stop <= CoveredFrom(liveSince, since)
         /\ query.fetchStop # query.stop => query.windowStop < query.stop

\* Live delivery: how long it warms up, how long an outage stays unseen, and that
\* what it misses once it covers the topic was published in such an outage.
Delivery ==
    /\ ~live => reach = "down"
    /\ live /\ reach = "warming" =>
         /\ now < reachAt + DelayExtra
         /\ service # "started" \/ record.state # "none" =>
              reachAt <= Latest(liveSince, SubscribedAt)
    /\ live /\ reach = "down" => now <= reachAt + Lag
    /\ /\ msg.fate = "missed" /\ live /\ subscribed
       /\ msg.at >= Latest(liveSince, SubscribedAt) + DelayExtra
       => reach = "down" /\ reachAt <= msg.at
    /\ record.state = "Online" /\ reach = "warming" /\ promised.made =>
         reachAt + DelayExtra <= promised.from

BackfillInv ==
    /\ BfInv /\ NothingLost
    /\ TimesPast /\ Phases /\ ImagesPast /\ GapOpen /\ Delivery

============================================================================
