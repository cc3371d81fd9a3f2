-------------------------- MODULE BackfillProofs --------------------------
(* No message of a subscribed topic is lost over outages, crashes and      *)
(* restarts, for every setting of the times (backfill.nim).                *)
EXTENDS Backfill, TLAPS

----------------------------------------------------------------------------
(* Facts about the writes.                                                 *)

\* A write adds its image at the end; the images before it were there before.
LEMMA WriteAdds ==
    ASSUME BfTypeOK, NEW r \in Records, NEW hasLast \in BOOLEAN, NEW last \in Int,
           Write(r, hasLast, last)
    PROVE  /\ images' \in Seq(Images) /\ Len(images') \in 1..(MaxWrites + 1)
           /\ LastImage' = Image(r, hasLast, last)
           /\ \A i \in DOMAIN images' :
                \/ images'[i] = Image(r, hasLast, last)
                \/ \E j \in DOMAIN images : images'[i] = images[j]
<1> DEFINE kept == IF Len(images) > MaxWrites THEN Tail(images) ELSE images
           image == Image(r, hasLast, last)
<1>1. image \in Images
  BY Zenon DEF Image, Images
<1>2. images \in Seq(Images) /\ Len(images) \in 1..(MaxWrites + 1) /\ MaxWrites \in Nat
  BY TimesAssumption, Zenon DEF BfTypeOK
<1>3. images # <<>>
  BY <1>2
<1>4. /\ Tail(images) \in Seq(Images) /\ Len(Tail(images)) = Len(images) - 1
      /\ \A i \in 1..Len(Tail(images)) : Tail(images)[i] = images[i + 1]
  BY <1>2, <1>3
<1>5. kept \in Seq(Images) /\ Len(kept) \in 0..MaxWrites
  BY <1>2, <1>4
<1>6. \A i \in 1..Len(kept) : \E j \in DOMAIN images : kept[i] = images[j]
  <2>1. CASE Len(images) > MaxWrites
    <3>1. ASSUME NEW i \in 1..Len(Tail(images))
          PROVE  \E j \in DOMAIN images : Tail(images)[i] = images[j]
      <4>1. i + 1 \in DOMAIN images
        BY <1>2, <1>4
      <4> QED
        BY <1>4, <4>1, Zenon
    <3>2. kept = Tail(images)
      BY <2>1, Zenon
    <3> QED
      BY <3>1, <3>2, Zenon
  <2>2. CASE ~(Len(images) > MaxWrites)
    BY <1>2, <2>2
  <2> QED
    BY <2>1, <2>2, Zenon
<1>7. images' = Append(kept, image)
  BY Zenon DEF Write
<1> HIDE DEF kept, image
<1>8. /\ images' \in Seq(Images) /\ Len(images') = Len(kept) + 1
      /\ images'[Len(kept) + 1] = image
      /\ \A i \in 1..Len(kept) : images'[i] = kept[i]
  BY <1>1, <1>5, <1>7
<1>9. Len(images') \in 1..(MaxWrites + 1)
  BY <1>2, <1>5, <1>8
<1>10. LastImage' = image
  BY <1>8, Zenon DEF LastImage
<1>11. ASSUME NEW i \in DOMAIN images'
       PROVE  images'[i] = image \/ \E j \in DOMAIN images : images'[i] = images[j]
  <2>1. i \in 1..Len(kept) \/ i = Len(kept) + 1
    BY <1>5, <1>8
  <2> QED
    BY <1>6, <1>8, <2>1, Zenon
<1> QED
  BY <1>8, <1>9, <1>10, <1>11, Zenon DEF image

\* The last image is one of the images.
LEMMA LastImageIn ==
    ASSUME BfTypeOK
    PROVE  /\ Len(images) \in DOMAIN images /\ LastImage = images[Len(images)]
           /\ LastImage \in Images
           /\ LastImage.record \in Records /\ LastImage.hasLast \in BOOLEAN
           /\ LastImage.last \in Int
<1>1. images \in Seq(Images) /\ Len(images) \in 1..(MaxWrites + 1) /\ MaxWrites \in Nat
  BY TimesAssumption, Zenon DEF BfTypeOK
<1>2. Len(images) \in DOMAIN images
  BY <1>1
<1>3. images[Len(images)] \in Images
  BY <1>1, <1>2
<1> QED
  BY <1>2, <1>3, Zenon DEF LastImage, Images
\* A new record is written unless it is on disk already.
LEMMA RecordWritten ==
    ASSUME BfTypeOK, NEW r \in Records,
           (LastImage.record = r /\ images' = images) \/ WriteRecord(r)
    PROVE  /\ images' \in Seq(Images) /\ Len(images') \in 1..(MaxWrites + 1)
           /\ LastImage'.record = r
           /\ \A i \in DOMAIN images' :
                \/ images'[i] = Image(r, LastImage.hasLast, LastImage.last)
                \/ \E j \in DOMAIN images : images'[i] = images[j]
<1>1. CASE WriteRecord(r)
  <2>1. LastImage.hasLast \in BOOLEAN /\ LastImage.last \in Int
    BY LastImageIn, Zenon
  <2>2. Write(r, LastImage.hasLast, LastImage.last)
    BY <1>1, Zenon DEF WriteRecord
  <2>3. Image(r, LastImage.hasLast, LastImage.last).record = r
    BY Zenon DEF Image
  <2> QED
    BY <2>1, <2>2, <2>3, WriteAdds
<1>2. CASE LastImage.record = r /\ images' = images
  BY <1>2, Zenon DEF LastImage, BfTypeOK
<1> QED
  BY <1>1, <1>2, Zenon

\* The types of the parts of the state.
Typed ==
    /\ now \in Nat /\ liveSince \in Int /\ since \in Int /\ reachAt \in Int
    /\ record.timestamp \in Int /\ record.state \in {"none", "Online", "Offline"}
    /\ query.record.timestamp \in Int /\ query.stop \in Int
    /\ query.fetchStop \in Int /\ query.windowStop \in Int
    /\ msg.at \in Int /\ msg.timestamp \in Int /\ promised.from \in Int
    /\ \A i \in DOMAIN pending : pending[i].at \in Int
    /\ pending # <<>> => Len(pending) \in DOMAIN pending
    /\ \A i \in DOMAIN images :
         /\ images[i].record.timestamp \in Int /\ images[i].last \in Int
         /\ images[i].record.state \in {"none", "Online", "Offline"}

\* They follow from the type invariant.
LEMMA TypedParts == ASSUME BfTypeOK PROVE Typed
<1>1. record \in Records /\ query \in Queries /\ now \in Nat /\ liveSince \in Int
      /\ since \in Int /\ reachAt \in Int
  BY Zenon DEF BfTypeOK
<1>2. msg \in [fate : Fates, at : Int, timestamp : Int]
      /\ promised \in [made : BOOLEAN, from : Int]
  BY Zenon DEF BfTypeOK
<1>3. ASSUME NEW i \in DOMAIN pending PROVE pending[i].at \in Int
  <2> DEFINE Changes == [subscribed : BOOLEAN, at : Int]
  <2>1. pending \in Seq(Changes)
    BY Zenon DEF BfTypeOK
  <2> HIDE DEF Changes
  <2>2. pending[i] \in Changes
    BY <2>1
  <2> QED
    BY <2>2, Zenon DEF Changes
<1>4. pending # <<>> => Len(pending) \in DOMAIN pending
  <2>1. pending \in Seq([subscribed : BOOLEAN, at : Int])
    BY Zenon DEF BfTypeOK
  <2> QED
    BY <2>1
<1>5. ASSUME NEW i \in DOMAIN images
      PROVE  /\ images[i].record.timestamp \in Int /\ images[i].last \in Int
             /\ images[i].record.state \in {"none", "Online", "Offline"}
  <2>1. images \in Seq(Images)
    BY Zenon DEF BfTypeOK
  <2>2. images[i] \in Images
    BY <2>1
  <2> QED
    BY <2>2, Zenon DEF Images, Records
<1> QED
  BY <1>1, <1>2, <1>3, <1>4, <1>5, Zenon DEF Typed, Queries, Records

\* The later of two times.
LEMMA LatestBounds ==
    ASSUME NEW a \in Int, NEW b \in Int
    PROVE  /\ Latest(a, b) \in Int /\ a <= Latest(a, b) /\ b <= Latest(a, b)
           /\ \A t \in Int : a <= t /\ b <= t => Latest(a, b) <= t
BY DEF Latest

\* Live delivery covers a topic from DelayExtra and Variance after it is ready.
LEMMA CoveredBounds ==
    ASSUME NEW a \in Int, NEW b \in Int
    PROVE  /\ CoveredFrom(a, b) \in Int
           /\ a + DelayExtra + Variance <= CoveredFrom(a, b)
           /\ b + DelayExtra + Variance <= CoveredFrom(a, b)
           /\ \A t \in Int : a <= t /\ b <= t =>
                CoveredFrom(a, b) <= t + DelayExtra + Variance
<1>1. DelayExtra \in Nat /\ Variance \in Nat
  BY TimesAssumption, Zenon
<1> QED
  BY <1>1 DEF CoveredFrom, Latest

\* It covers no earlier time when it is ready later.
LEMMA CoveredLater ==
    ASSUME NEW a \in Int, NEW b \in Int, NEW c \in Int, NEW d \in Int, a <= c, b <= d
    PROVE  CoveredFrom(a, b) <= CoveredFrom(c, d)
<1>1. DelayExtra \in Nat /\ Variance \in Nat
  BY TimesAssumption, Zenon
<1> QED
  BY <1>1 DEF CoveredFrom, Latest

\* An outage that is detected later moves the bound no less.
LEMMA OutageLater ==
    ASSUME NEW r \in Records, NEW a \in Int, NEW b \in Int, a <= b
    PROVE  /\ InOutage(r, a) \in Records /\ InOutage(r, a).timestamp \in Int
           /\ InOutage(r, a).state # "Online"
           /\ InOutage(r, a).state = "none" <=> r.state = "none"
           /\ InOutage(r, a).timestamp <= InOutage(r, b).timestamp
           /\ r.timestamp <= InOutage(r, a).timestamp
<1>1. OutageWindow \in Int /\ r.timestamp \in Int
      /\ r.state \in {"none", "Online", "Offline"}
  BY TimesAssumption DEF Records
<1> QED
  BY <1>1 DEF InOutage, Record, Records, Latest

\* An outage is taken to start at least Variance before it is detected.
LEMMA OutagePast ==
    ASSUME NEW r \in Records, NEW a \in Int, r.timestamp <= a - Variance
    PROVE  InOutage(r, a).timestamp <= a - Variance
<1>1. OutageWindow \in Int /\ Variance \in Int /\ OutageWindow >= Variance
      /\ r.timestamp \in Int
  BY TimesAssumption DEF Records
<1> QED
  BY <1>1 DEF InOutage, Record, Latest

----------------------------------------------------------------------------
(* The steps.                                                              *)

\* A step keeps the invariant.
Keeps(A) == BackfillInv /\ A => BackfillInv'

\* Time passes: an outage of live delivery is seen before Lag is over.
LEMMA TickKeeps == Keeps(Tick)
<1> SUFFICES ASSUME BackfillInv, Tick PROVE BackfillInv'
  BY Zenon DEF Keeps
<1>t. Typed
  BY TypedParts, Zenon DEF BfInv, BackfillInv
<1>u. UNCHANGED <<service, live, liveSince, record, subscribed, since, pending, query,
                  images, changes, reach, reachAt, promised, msg>>
  BY Zenon DEF Tick, nodeVars
<1>n. /\ now \in Nat /\ now' = now + 1
      /\ service # "down" /\ live =>
           /\ reach = "warming" => now' < reachAt + DelayExtra
           /\ reach = "down" => now' <= reachAt + Lag
  BY <1>t, TimesAssumption DEF Tick, Typed
<1>1. BfInv'
  <2>1. BfTypeOK'
    BY <1>n, <1>u DEF BfInv, BfTypeOK, BackfillInv
  <2>2. Earliest(query.stop, ArchivedBefore(now)) <= Earliest(query.stop, ArchivedBefore(now'))
        /\ Earliest(query.stop, ArchivedBefore(now)) \in Int
        /\ Earliest(query.stop, ArchivedBefore(now')) \in Int
    BY <1>t, <1>n, TimesAssumption DEF Earliest, ArchivedBefore, Typed
  <2>3. query # NoQuery => query.windowStop <= Earliest(query.stop, ArchivedBefore(now'))
    BY <1>t, <2>2 DEF BfInv, Typed, BackfillInv
  <2> QED
    BY <1>u, <2>1, <2>3, Zenon DEF BfInv, ArchivedBefore, BackfillInv
<1>2. NothingLost'
  BY <1>u, Zenon DEF NothingLost, GapFrom, BackfillInv
<1>3. TimesPast'
  <2>1. liveSince <= now' /\ since <= now' /\ reachAt <= now'
        /\ (msg.fate = "missed" => msg.at <= now')
    BY <1>t, <1>n DEF TimesPast, Typed, BackfillInv
  <2>2. \A i \in DOMAIN pending : pending[i].at <= now'
    BY <1>t, <1>n DEF TimesPast, Typed, BackfillInv
  <2> QED
    BY <1>u, <2>1, <2>2, Zenon DEF TimesPast, BackfillInv
<1>4. Phases'
  BY <1>u, Zenon DEF Phases, LastImage, BackfillInv
<1>5. ImagesPast'
  <2>1. ASSUME NEW i \in DOMAIN images PROVE WrittenBy(images[i], now')
    <3>1. WrittenBy(images[i], now)
      BY Zenon DEF ImagesPast, BackfillInv
    <3>2. images[i].record.timestamp \in Int /\ images[i].last \in Int
      BY <1>t, Zenon DEF Typed
    <3> QED
      BY <1>n, <3>1, <3>2, TimesAssumption DEF WrittenBy
  <2> QED
    BY <1>u, <2>1, Zenon DEF ImagesPast, WrittenBy, BackfillInv
<1>6. GapOpen'
  <2>1. query # NoQuery => query.stop <= now' + DelayExtra + Variance
    BY <1>t, <1>n, TimesAssumption DEF GapOpen, Typed, BackfillInv
  <2> QED
    BY <1>u, <2>1, Zenon DEF GapOpen, BackfillInv
<1>7. Delivery'
  <2>1. SubscribedAt' = SubscribedAt
    BY <1>u, Zenon DEF SubscribedAt
  <2>2. service = "down" => ~live
    BY Zenon DEF Phases, BackfillInv
  <2> QED
    BY <1>n, <1>u, <2>1, <2>2, Zenon DEF Delivery, BackfillInv
<1> QED
  BY <1>1, <1>2, <1>3, <1>4, <1>5, <1>6, <1>7, Zenon DEF BackfillInv

\* Live delivery works again: it does so only while no message is owed live.
LEMMA WarmsUpKeeps == Keeps(WarmsUp)
<1> SUFFICES ASSUME BackfillInv, WarmsUp PROVE BackfillInv'
  BY DEF Keeps
<1>t. Typed
  BY TypedParts DEF BfInv, BackfillInv
<1>u. UNCHANGED <<now, service, live, liveSince, record, subscribed, since, pending,
                  query, images, changes, promised, msg>>
  BY Zenon DEF WarmsUp, nodeVars
<1>r. live /\ reach = "warming" /\ reach' = "up" /\ reachAt' = 0
  BY Zenon DEF WarmsUp
<1>1. BfInv'
  BY <1>r, <1>u DEF BfInv, BfTypeOK, BackfillInv
<1>2. NothingLost'
  BY <1>r, <1>u, Zenon DEF NothingLost, GapFrom, BackfillInv
<1>3. TimesPast'
  BY <1>r, <1>t, <1>u DEF TimesPast, Typed, BackfillInv
<1>4. Phases' /\ ImagesPast' /\ GapOpen'
  BY <1>u DEF Phases, LastImage, ImagesPast, GapOpen, BackfillInv
<1>5. Delivery'
  <2>1. SubscribedAt' = SubscribedAt
    BY <1>u, Zenon DEF SubscribedAt
  <2> QED
    BY <1>r, <1>u, <2>1, Zenon DEF Delivery, BackfillInv
<1> QED
  BY <1>1, <1>2, <1>3, <1>4, <1>5, Zenon DEF BackfillInv

\* An outage starts: none was running, so no message is owed to one.
LEMMA ReachLostKeeps == Keeps(ReachLost)
<1> SUFFICES ASSUME BackfillInv, ReachLost PROVE BackfillInv'
  BY DEF Keeps
<1>t. Typed
  BY TypedParts DEF BfInv, BackfillInv
<1>u. UNCHANGED <<now, service, live, liveSince, record, subscribed, since, pending,
                  query, images, changes, promised, msg>>
  BY Zenon DEF ReachLost, nodeVars
<1>r. live /\ reach # "down" /\ reach' = "down" /\ reachAt' = now /\ now \in Nat
  BY <1>t, Zenon DEF ReachLost, Typed
<1>1. BfInv'
  BY <1>r, <1>u DEF BfInv, BfTypeOK, BackfillInv
<1>2. NothingLost'
  BY <1>r, <1>u, Zenon DEF NothingLost, GapFrom, BackfillInv
<1>3. TimesPast'
  BY <1>r, <1>u DEF TimesPast, BackfillInv
<1>4. Phases' /\ ImagesPast' /\ GapOpen'
  BY <1>u DEF Phases, LastImage, ImagesPast, GapOpen, BackfillInv
<1>5. Delivery'
  <2>1. SubscribedAt' = SubscribedAt
    BY <1>u DEF SubscribedAt
  <2>2. now <= now + Lag
    BY <1>r, TimesAssumption
  <2> QED
    BY <1>r, <1>u, <2>1, <2>2, Zenon DEF Delivery, BackfillInv
<1> QED
  BY <1>1, <1>2, <1>3, <1>4, <1>5 DEF BackfillInv

\* The gap of an image that was written by time t starts before a message that
\* was published from t on.
LEMMA GapBefore ==
    ASSUME NEW image \in Images, NEW t \in Int, WrittenBy(image, t),
           image.record.state # "none"
    PROVE  GapFrom(image) <= t - Variance /\ GapFrom(image) \in Int
<1>1. /\ image.record.timestamp \in Int /\ image.last \in Int
      /\ image.hasLast \in BOOLEAN
  BY Zenon DEF Images, Records
<1>2. OutageWindow \in Nat /\ Variance \in Nat /\ OutageWindow >= Variance
  BY TimesAssumption
<1> QED
  BY <1>1, <1>2 DEF WrittenBy, GapFrom, AtStart, InOutage, Record, Latest

\* A message is published and missed: each gap starts early enough for it, and an
\* Online record means an outage that is yet to be seen.
LEMMA PublishKeeps == Keeps(Publish)
<1> SUFFICES ASSUME BackfillInv, Publish PROVE BackfillInv'
  BY DEF Keeps
<1>t. Typed
  BY TypedParts DEF BfInv, BackfillInv
<1>p. PICK timestamp \in (now - Variance)..(now + Variance) :
         msg' = [fate |-> "missed", at |-> now, timestamp |-> timestamp]
  BY Zenon DEF Publish
<1>u. UNCHANGED <<now, nodeVars, reach, reachAt, promised>>
  BY Zenon DEF Publish
<1>m. /\ timestamp \in Int /\ now - Variance <= timestamp
      /\ timestamp <= now + Variance
  BY <1>t DEF Typed
<1>f. msg'.fate = "missed" /\ msg'.at = now /\ msg'.timestamp = timestamp
  BY <1>p, Zenon
<1>1. BfInv'
  <2>1. msg' \in [fate : Fates, at : Int, timestamp : Int]
    BY <1>p, <1>m, <1>t DEF Fates, Typed
  <2> QED
    BY <1>u, <2>1, Zenon DEF BfInv, BfTypeOK, nodeVars, BackfillInv
<1>2. ASSUME NEW i \in DOMAIN images, images[i].record.state # "none"
      PROVE  GapFrom(images[i]) <= timestamp
  <2>1. images[i] \in Images
    BY DEF BfInv, BfTypeOK, BackfillInv
  <2>2. WrittenBy(images[i], now)
    BY Zenon DEF ImagesPast, BackfillInv
  <2>3. GapFrom(images[i]) <= now - Variance /\ GapFrom(images[i]) \in Int
    BY <1>t, <1>2, <2>1, <2>2, GapBefore DEF Typed
  <2> QED
    BY <1>m, <1>t, <2>3, TimesAssumption DEF Typed
<1>3. ASSUME promised.made, now >= promised.from, service = "started"
      PROVE  \/ record.state = "Offline" /\ record.timestamp <= timestamp
             \/ /\ record.state = "Online" /\ live /\ reach = "down"
                /\ InOutage(record, reachAt + Lag).timestamp <= timestamp
  <2>1. record.state # "none" /\ record.timestamp <= now - Variance
    <3>1. WrittenBy(LastImage, now)
      BY LastImageIn, Zenon DEF BfInv, ImagesPast, BackfillInv
    <3> QED
      BY <1>3, <3>1, Zenon DEF Phases, WrittenBy, BackfillInv
  <2>2. CASE record.state = "Online"
    <3>1. live /\ subscribed
      BY <2>2, Zenon DEF Phases, BackfillInv
    <3>2. reach # "up"
      BY <1>3, <3>1, Zenon DEF Publish
    <3>3. reach # "warming"
      BY <1>3, <1>t, <2>2, <3>1, TimesAssumption DEF Delivery, Typed, BackfillInv
    <3>4. reach = "down" /\ reachAt <= now
      BY <3>2, <3>3, Zenon DEF BfInv, BfTypeOK, TimesPast, BackfillInv
    <3>5. InOutage(record, reachAt + Lag).timestamp
             = Latest(record.timestamp, reachAt + Lag - OutageWindow)
      BY <1>t, <2>2, TimesAssumption DEF InOutage, Record, Typed
    <3>6. reachAt + Lag - OutageWindow <= now - Variance
      BY <1>t, <3>4, TimesAssumption DEF Typed
    <3>7. InOutage(record, reachAt + Lag).timestamp <= timestamp
      BY <1>m, <1>t, <2>1, <3>5, <3>6, TimesAssumption DEF Latest, Typed
    <3> QED
      BY <2>2, <3>1, <3>4, <3>7, Zenon
  <2>3. CASE record.state = "Offline"
    BY <1>m, <1>t, <2>1, <2>3, TimesAssumption DEF Typed
  <2> QED
    BY <1>t, <2>1, <2>2, <2>3, Zenon DEF Typed
<1>4. NothingLost'
  BY <1>f, <1>u, <1>2, <1>3, Zenon DEF NothingLost, nodeVars, GapFrom, AtStart, InOutage, BackfillInv
<1>5. TimesPast'
  BY <1>f, <1>u, <1>m, <1>t DEF TimesPast, nodeVars, Typed, BackfillInv
<1>6. Phases' /\ ImagesPast' /\ GapOpen'
  BY <1>u DEF Phases, LastImage, ImagesPast, GapOpen, nodeVars, BackfillInv
<1>7. Delivery'
  <2>1. ASSUME live, subscribed, now >= Latest(liveSince, SubscribedAt) + DelayExtra
        PROVE  reach = "down" /\ reachAt <= now
    <3>1. service # "down" /\ reach # "up"
      BY <2>1, Zenon DEF Publish, Phases, BackfillInv
    <3>2. service # "started" \/ record.state # "none"
      BY <2>1, Zenon DEF Phases, BackfillInv
    <3>3. SubscribedAt \in Int
      BY <1>t DEF SubscribedAt, Typed
    <3>4. reach # "warming"
      BY <1>t, <2>1, <3>2, <3>3, TimesAssumption DEF Delivery, Latest, Typed, BackfillInv
    <3> QED
      BY <3>1, <3>4, Zenon DEF BfInv, BfTypeOK, TimesPast, BackfillInv
  <2>2. SubscribedAt' = SubscribedAt
    BY <1>u, Zenon DEF SubscribedAt, nodeVars
  <2> QED
    BY <1>f, <1>u, <2>1, <2>2, Zenon DEF Delivery, nodeVars, BackfillInv
<1> QED
  BY <1>1, <1>4, <1>5, <1>6, <1>7, Zenon DEF BackfillInv

\* A recovery: the record is not Online, and covers what came before it.
LEMMA LiveAgainKeeps == Keeps(LiveAgain)
<1> SUFFICES ASSUME BackfillInv, LiveAgain PROVE BackfillInv'
  BY DEF Keeps
<1> USE TimesAssumption DEF BackfillInv, LiveAgain
<1>t. Typed
  BY TypedParts, Zenon DEF BfInv
<1>1. BfInv'
  BY DEF BfInv, BfTypeOK, Happens
<1>2. NothingLost'
  BY Zenon DEF NothingLost, GapFrom, Phases
<1>3. TimesPast'
  BY <1>t DEF TimesPast, Typed
<1>4. Phases'
  BY Zenon DEF Phases, LastImage
<1>5. ImagesPast'
  BY Zenon DEF ImagesPast
<1>n. now \in Int /\ liveSince \in Int /\ since \in Int
  BY <1>t DEF Typed
<1>6. GapOpen'
  <2>1. ASSUME record.state = "Offline"
        PROVE  record.timestamp < CoveredFrom(now, since)
    <3>1. service \in {"read", "started"}
      BY <2>1 DEF Phases, NoRecord, Record, BfInv, BfTypeOK
    <3>2. record.timestamp <= now - Variance
      BY <2>1, <3>1, LastImageIn, Zenon DEF Phases, BfInv, ImagesPast, WrittenBy
    <3>3. now + DelayExtra + Variance <= CoveredFrom(now, since)
          /\ CoveredFrom(now, since) \in Int
      BY <1>n, CoveredBounds, Zenon
    <3> QED
      BY <1>t, <3>2, <3>3 DEF Typed
  <2>2. CoveredFrom(liveSince, since) <= CoveredFrom(now, since)
    BY <1>n, CoveredLater DEF TimesPast
  <2>3. CoveredFrom(now, since) \in Int /\ CoveredFrom(liveSince, since) \in Int
    BY <1>n, CoveredBounds, Zenon
  <2>4. query # NoQuery /\ record.state # "none" =>
           query.stop <= CoveredFrom(liveSince', since)
    BY <1>t, <2>2, <2>3 DEF GapOpen, Typed
  <2> QED
    BY <2>1, <2>4, Zenon DEF GapOpen
<1>7. Delivery'
  <2>1. SubscribedAt' = SubscribedAt /\ SubscribedAt \in Int
    BY <1>t DEF SubscribedAt, Typed
  <2>2. now <= Latest(now, SubscribedAt) /\ Latest(now, SubscribedAt) \in Int
    BY <1>t, <2>1 DEF Latest, Typed
  <2>3. msg.fate = "missed" => ~(msg.at >= Latest(now, SubscribedAt) + DelayExtra)
    BY <1>t, <2>2 DEF TimesPast, Typed
  <2>4. record.state # "Online"
    BY Zenon DEF Phases
  <2> QED
    BY <1>t, <2>1, <2>2, <2>3, <2>4 DEF Delivery, Typed
<1> QED
  BY <1>1, <1>2, <1>3, <1>4, <1>5, <1>6, <1>7, Zenon

\* A fetch starts: it has a range, since the gap is open.
LEMMA BeginFetchKeeps == Keeps(BeginFetch)
<1> SUFFICES ASSUME BackfillInv, BeginFetch PROVE BackfillInv'
  BY DEF Keeps
<1>t. Typed
  BY TypedParts DEF BfInv, BackfillInv
<1> DEFINE stop == CoveredFrom(liveSince, since)
           archived == ArchivedBefore(now)
           fetchStop == Earliest(stop, archived)
           windowStop == Earliest(fetchStop, record.timestamp + QueryRange)
<1>q. query' = [record |-> record, stop |-> stop, fetchStop |-> fetchStop,
                windowStop |-> windowStop]
  BY Zenon DEF BeginFetch
<1>g. /\ live /\ record.state = "Offline"
      /\ ~(stop > archived /\ record.timestamp >= archived)
  BY Zenon DEF BeginFetch, IsCandidate
<1>u. UNCHANGED <<now, service, live, liveSince, record, subscribed, since, pending,
                   images, changes, reach, reachAt, promised, msg>>
  BY Zenon DEF BeginFetch
<1>n. now \in Int /\ liveSince \in Int /\ since \in Int /\ liveSince <= now /\ since <= now
  BY <1>t DEF Typed, TimesPast, BackfillInv
<1>s. stop \in Int /\ archived \in Int /\ stop <= now + DelayExtra + Variance
  <2>1. stop \in Int /\ stop <= now + DelayExtra + Variance
    BY <1>n, CoveredBounds, Zenon
  <2>2. archived \in Int
    BY <1>n, TimesAssumption DEF ArchivedBefore
  <2> QED
    BY <2>1, <2>2, Zenon
<1>o. record.timestamp < stop
  BY <1>g, Zenon DEF GapOpen, BackfillInv
<1> HIDE DEF stop, archived
<1>e. /\ fetchStop \in Int /\ record.timestamp < fetchStop
      /\ fetchStop <= stop /\ fetchStop <= archived
  BY <1>t, <1>s, <1>g, <1>o DEF Earliest, Typed
<1>d. fetchStop = Earliest(stop, archived)
  BY Zenon
<1> HIDE DEF fetchStop
<1>w. /\ windowStop \in Int /\ record.timestamp < windowStop
      /\ windowStop <= fetchStop
  BY <1>t, <1>e, TimesAssumption DEF Earliest, Typed
<1> HIDE DEF windowStop
<1>f. /\ query'.record = record /\ query'.stop = stop /\ query'.fetchStop = fetchStop
      /\ query'.windowStop = windowStop
  BY <1>q, Zenon
<1>1. BfInv'
  <2>1. query' \in Queries
    BY <1>q, <1>s, <1>e, <1>w, Zenon DEF Queries, BfInv, BfTypeOK, BackfillInv
  <2>2. BfTypeOK'
    BY <2>1, <1>u, Zenon DEF BfInv, BfTypeOK, BackfillInv
  <2>3. query'.record.timestamp < query'.windowStop
    BY <1>f, <1>w, Zenon
  <2>4. query'.windowStop <= Earliest(query'.stop, ArchivedBefore(now'))
    BY <1>f, <1>d, <1>w, <1>u, Zenon DEF archived
  <2> QED
    BY <2>2, <2>3, <2>4, Zenon DEF BfInv, BackfillInv
<1>2. NothingLost' /\ TimesPast' /\ ImagesPast'
  BY <1>u, Zenon DEF NothingLost, GapFrom, TimesPast, ImagesPast, BackfillInv
<1>3. Phases'
  BY <1>u, Zenon DEF Phases, LastImage, BeginFetch, IsCandidate, BackfillInv
<1>4. GapOpen'
  <2>1. fetchStop # stop => windowStop < stop
    BY <1>s, <1>e, <1>w
  <2> QED
    BY <1>f, <1>g, <1>u, <1>s, <1>o, <2>1 DEF GapOpen, stop, BackfillInv
<1>5. Delivery'
  BY <1>u, Zenon DEF Delivery, SubscribedAt, BackfillInv
<1> QED
  BY <1>1, <1>2, <1>3, <1>4, <1>5, Zenon DEF BackfillInv

\* A fetch fails: the record stays, and rows that came are delivered.
LEMMA FetchFailsKeeps == Keeps(FetchFails)
<1> SUFFICES ASSUME BackfillInv, FetchFails PROVE BackfillInv'
  BY DEF Keeps
<1> USE DEF BackfillInv, FetchFails
<1>1. msg' = msg \/ msg' = Settled("delivered")
  BY Zenon
<1>2. msg' = msg \/ msg'.fate # "missed"
  BY <1>1 DEF Settled
<1>3. BfInv'
  <2>1. msg' \in [fate : Fates, at : Int, timestamp : Int]
    BY <1>1 DEF Settled, Fates, BfInv, BfTypeOK
  <2>2. query' \in Queries
    BY DEF Queries, NoQuery, NoRecord, Record, Records
  <2> QED
    BY <2>1, <2>2, Zenon DEF BfInv, BfTypeOK
<1>4. NothingLost' /\ TimesPast' /\ ImagesPast'
  BY <1>2, Zenon DEF NothingLost, GapFrom, TimesPast, ImagesPast
<1>5. Phases' /\ GapOpen'
  BY Zenon DEF Phases, LastImage, GapOpen
<1>6. Delivery'
  BY <1>2, Zenon DEF Delivery, SubscribedAt
<1> QED
  BY <1>3, <1>4, <1>5, <1>6, Zenon

\* A receipt is noted on disk: an outage that is unseen began at most Lag before.
LEMMA BackfillOnReceiptKeeps == Keeps(BackfillOnReceipt)
<1> SUFFICES ASSUME BackfillInv, BackfillOnReceipt PROVE BackfillInv'
  BY DEF Keeps
<1>t. Typed
  BY TypedParts DEF BfInv, BackfillInv
<1>u. /\ service = "started" /\ changes' = changes + 1
      /\ UNCHANGED <<now, service, live, liveSince, record, subscribed, since, pending,
                     query, reach, reachAt, promised, msg>>
  BY Zenon DEF BackfillOnReceipt, Happens
<1> DEFINE image == Image(LastImage.record, TRUE, now)
<1>l. LastImage.record \in Records /\ record = LastImage.record
  BY <1>u, LastImageIn, Zenon DEF BfInv, Phases, BackfillInv
<1>n. now \in Int /\ now \in Nat
  BY <1>t DEF Typed
<1>w. /\ images' \in Seq(Images) /\ Len(images') \in 1..(MaxWrites + 1)
      /\ LastImage' = image
      /\ \A i \in DOMAIN images' :
           images'[i] = image \/ \E j \in DOMAIN images : images'[i] = images[j]
  BY <1>l, <1>n, WriteAdds, Zenon DEF BfInv, BackfillOnReceipt, BackfillInv
<1>i. image.record = record /\ image.hasLast = TRUE /\ image.last = now
  BY <1>l, Zenon DEF Image
<1> HIDE DEF image
<1>1. BfInv'
  BY <1>u, <1>w DEF BfInv, BfTypeOK, BackfillInv
<1>2. ASSUME promised.made, msg.fate = "missed", msg.at >= promised.from,
             record.state # "none"
      PROVE  GapFrom(image) <= msg.timestamp
  <2>1. CASE record.state = "Offline"
    BY <1>i, <1>2, <1>u, <2>1, Zenon DEF NothingLost, GapFrom, AtStart, BackfillInv
  <2>2. CASE record.state = "Online"
    <3>1. GapFrom(image) = InOutage(record, now).timestamp
      BY <1>i, <2>2, Zenon DEF GapFrom, AtStart
    <3>2. /\ live /\ reach = "down"
          /\ InOutage(record, reachAt + Lag).timestamp <= msg.timestamp
      BY <1>2, <1>u, <2>2, Zenon DEF NothingLost, BackfillInv
    <3>3. now <= reachAt + Lag
      BY <3>2, Zenon DEF Delivery, BackfillInv
    <3>4. reachAt + Lag \in Int /\ msg.timestamp \in Int /\ record \in Records
      BY <1>t, TimesAssumption DEF Typed, BfInv, BfTypeOK, BackfillInv
    <3>5. InOutage(record, now).timestamp <= InOutage(record, reachAt + Lag).timestamp
      BY <1>n, <3>3, <3>4, OutageLater, Zenon
    <3>6. InOutage(record, now).timestamp \in Int
      BY <1>n, <3>3, <3>4, OutageLater, Zenon
    <3>7. InOutage(record, reachAt + Lag).timestamp \in Int
      <4>1. reachAt + Lag <= reachAt + Lag
        BY <3>4
      <4> QED
        BY <3>4, <4>1, OutageLater, Zenon
    <3> QED
      BY <3>1, <3>2, <3>4, <3>5, <3>6, <3>7 DEF BackfillInv
  <2> QED
    BY <1>2, <1>t, <2>1, <2>2, Zenon DEF Typed
<1>3. NothingLost'
  <2> SUFFICES ASSUME promised.made, msg.fate = "missed", msg.at >= promised.from,
                      NEW i \in DOMAIN images', images'[i].record.state # "none"
               PROVE  GapFrom(images'[i]) <= msg.timestamp
    BY <1>u, Zenon DEF NothingLost, GapFrom, BackfillInv
  <2> QED
    BY <1>2, <1>i, <1>w, Zenon DEF NothingLost, BackfillInv
<1>4. TimesPast' /\ GapOpen'
  BY <1>u, Zenon DEF TimesPast, GapOpen, BackfillInv
<1>5. Phases'
  BY <1>u, <1>w, <1>i, <1>l, Zenon DEF Phases, BackfillInv
<1>6. ImagesPast'
  <2>1. WrittenBy(image, now)
    <3>1. WrittenBy(LastImage, now)
      BY LastImageIn, Zenon DEF BfInv, ImagesPast, BackfillInv
    <3> QED
      BY <1>i, <1>l, <1>n, <3>1 DEF WrittenBy
  <2> QED
    BY <1>u, <1>w, <2>1, Zenon DEF ImagesPast, BackfillInv
<1>7. Delivery'
  BY <1>u, Zenon DEF Delivery, SubscribedAt, BackfillInv
<1> QED
  BY <1>1, <1>3, <1>4, <1>5, <1>6, <1>7, Zenon DEF BackfillInv

\* A crash leaves one of the images on disk, and its gap has what is owed.
LEMMA CrashKeeps == Keeps(Crash)
<1> SUFFICES ASSUME BackfillInv, Crash PROVE BackfillInv'
  BY DEF Keeps
<1>t. Typed
  BY TypedParts DEF BfInv, BackfillInv
<1>u. /\ service' = "down" /\ changes' = changes + 1
      /\ live' = FALSE /\ liveSince' = 0
      /\ record' = NoRecord /\ since' = 0 /\ subscribed' = FALSE
      /\ pending' = <<>> /\ query' = NoQuery
      /\ reach' = "down" /\ reachAt' = 0
      /\ now' = now /\ msg' = msg
  BY Zenon DEF Crash, Happens
<1>p. PICK i \in 1..Len(images) :
         /\ images' = <<images[i]>>
         /\ promised' = IF images[i].record.state = "none" THEN NoPromise ELSE promised
  BY Zenon DEF Crash
<1>d. i \in DOMAIN images /\ images[i] \in Images
  <2>1. images \in Seq(Images)
    BY Zenon DEF BfInv, BfTypeOK, BackfillInv
  <2> QED
    BY <2>1
<1>s. /\ images' \in Seq(Images) /\ Len(images') = 1
      /\ \A j \in DOMAIN images' : j = 1 /\ images'[j] = images[i]
  BY <1>p, <1>d
<1>l. LastImage' = images[i]
  BY <1>s DEF LastImage
<1>1. BfInv'
  <2>1. record' \in Records /\ query' \in Queries
    BY <1>u DEF Records, Queries, NoRecord, NoQuery, Record
  <2>2. promised' \in [made : BOOLEAN, from : Int]
    BY <1>p DEF BfInv, BfTypeOK, NoPromise, BackfillInv
  <2>3. pending' \in Seq([subscribed : BOOLEAN, at : Int])
    BY <1>u
  <2>4. Len(images') \in 1..(MaxWrites + 1)
    BY <1>s, TimesAssumption
  <2>5. live' \in BOOLEAN /\ subscribed' \in BOOLEAN
    BY <1>u, Zenon
  <2>6. /\ now' \in Nat /\ liveSince' \in Int /\ since' \in Int /\ changes' \in Nat
        /\ reachAt' \in Int
    BY <1>u DEF BfInv, BfTypeOK, BackfillInv
  <2>7. /\ service' \in {"down", "reading", "read", "started"}
        /\ reach' \in {"up", "warming", "down"}
        /\ msg' \in [fate : Fates, at : Int, timestamp : Int]
    BY <1>u, Zenon DEF BfInv, BfTypeOK, BackfillInv
  <2>8. BfTypeOK'
    BY <1>s, <2>1, <2>2, <2>3, <2>4, <2>5, <2>6, <2>7, Zenon DEF BfTypeOK
  <2> QED
    BY <1>u, <2>8, Zenon DEF BfInv, BackfillInv
<1>2. NothingLost'
  <2>1. CASE images[i].record.state = "none"
    <3>1. promised' = NoPromise
      BY <1>p, <2>1, Zenon
    <3>2. ~promised'.made
      BY <3>1, Zenon DEF NoPromise
    <3> QED
      BY <3>2, Zenon DEF NothingLost, BackfillInv
  <2>2. CASE images[i].record.state # "none"
    <3>1. promised' = promised
      BY <1>p, <2>2, Zenon
    <3> QED
      BY <1>u, <1>s, <1>d, <3>1, Zenon DEF NothingLost, GapFrom, BackfillInv
  <2> QED
    BY <2>1, <2>2, Zenon
<1>3. TimesPast'
  BY <1>u, <1>t DEF TimesPast, Typed, BackfillInv
<1>4. Phases'
  <2>1. promised'.made => images[i].record.state # "none"
    <3>1. CASE images[i].record.state = "none"
      <4>1. promised' = NoPromise
        BY <1>p, <3>1
      <4> QED
        BY <4>1, Zenon DEF NoPromise
    <3> QED
      BY <3>1, Zenon
  <2> QED
    BY <1>u, <1>s, <1>l, <2>1, Zenon DEF Phases, NoRecord, Record, BackfillInv
<1>5. ImagesPast'
  BY <1>u, <1>s, <1>d, Zenon DEF ImagesPast, BackfillInv
<1>6. GapOpen' /\ Delivery'
  BY <1>u, Zenon DEF GapOpen, Delivery, NoRecord, Record, BackfillInv
<1> QED
  BY <1>1, <1>2, <1>3, <1>4, <1>5, <1>6, Zenon DEF BackfillInv

\* A start of the service on the disk of the last run.
LEMMA StartRecvServiceKeeps == Keeps(StartRecvService)
<1> SUFFICES ASSUME BackfillInv, StartRecvService PROVE BackfillInv'
  BY DEF Keeps
<1>t. Typed
  BY TypedParts DEF BfInv, BackfillInv
<1>u. /\ service = "down" /\ service' = "reading"
      /\ live' \in BOOLEAN /\ liveSince' = now /\ subscribed' \in BOOLEAN
      /\ pending' = IF subscribed' THEN <<[subscribed |-> TRUE, at |-> now]>> ELSE <<>>
      /\ reach' = (IF live' THEN "warming" ELSE "down")
      /\ reachAt' = IF live' THEN now ELSE 0
      /\ UNCHANGED <<now, record, since, query, images, changes, promised, msg>>
  BY Zenon DEF StartRecvService
<1>n. now \in Nat /\ now \in Int
  BY <1>t DEF Typed
<1>p. /\ pending' \in Seq([subscribed : BOOLEAN, at : Int])
      /\ pending' # <<>> <=> subscribed'
      /\ \A i \in DOMAIN pending' : pending'[i].at = now /\ pending'[i].subscribed = TRUE
      /\ subscribed' => Len(pending') \in DOMAIN pending'
  <2>1. CASE subscribed' = TRUE
    <3>1. pending' = <<[subscribed |-> TRUE, at |-> now]>>
      BY <1>u, <2>1, Zenon
    <3> QED
      BY <3>1, <2>1, <1>n
  <2>2. CASE subscribed' = FALSE
    <3>1. pending' = <<>>
      BY <1>u, <2>2, Zenon
    <3> QED
      BY <3>1, <2>2
  <2> QED
    BY <1>u, <2>1, <2>2, Zenon
<1>1. BfInv'
  <2>1. reach' \in {"up", "warming", "down"} /\ reachAt' \in Int /\ liveSince' \in Int
    BY <1>u, <1>n
  <2> QED
    BY <1>u, <1>p, <2>1, Zenon DEF BfInv, BfTypeOK, BackfillInv
<1>2. NothingLost'
  BY <1>u, Zenon DEF NothingLost, GapFrom, BackfillInv
<1>3. TimesPast'
  BY <1>u, <1>p, <1>t DEF TimesPast, Typed, BackfillInv
<1>4. Phases'
  BY <1>u, <1>p, Zenon DEF Phases, LastImage, NoRecord, Record, BackfillInv
<1>5. ImagesPast'
  BY <1>u, <1>p, Zenon DEF ImagesPast, BackfillInv
<1>6. GapOpen'
  BY <1>u DEF GapOpen, Phases, NoRecord, Record, BackfillInv
<1>7. Delivery'
  <2>1. SubscribedAt' \in Int
    BY <1>u, <1>n, <1>p DEF SubscribedAt
  <2>2. Latest(now, SubscribedAt') \in Int /\ now <= Latest(now, SubscribedAt')
    BY <1>n, <2>1, LatestBounds, Zenon
  <2>3. msg.fate = "missed" => ~(msg.at >= Latest(now, SubscribedAt') + DelayExtra)
    BY <1>t, <2>2, TimesAssumption DEF Typed, TimesPast, BackfillInv
  <2>4. record.state # "Online"
    BY <1>u, Zenon DEF Phases, BackfillInv
  <2>5. CASE live' = TRUE
    BY <1>u, <1>n, <2>2, <2>3, <2>4, <2>5, TimesAssumption DEF Delivery, BackfillInv
  <2>6. CASE live' = FALSE
    BY <1>u, <2>4, <2>6, Zenon DEF Delivery, BackfillInv
  <2> QED
    BY <1>u, <2>5, <2>6, Zenon
<1> QED
  BY <1>1, <1>2, <1>3, <1>4, <1>5, <1>6, <1>7 DEF BackfillInv

\* The outage is seen: the gap of the topic starts early enough for what it missed.
LEMMA LiveLostKeeps == Keeps(LiveLost)
<1> SUFFICES ASSUME BackfillInv, LiveLost PROVE BackfillInv'
  BY DEF Keeps
<1>t. Typed
  BY TypedParts DEF BfInv, BackfillInv
<1>u. /\ live /\ service # "down" /\ changes' = changes + 1
      /\ live' = FALSE /\ liveSince' = now
      /\ record' = InOutage(record, now)
      /\ reach' = "down" /\ reachAt' = 0
      /\ UNCHANGED <<now, service, subscribed, since, pending, query, promised, msg>>
  BY Zenon DEF LiveLost, Happens
<1>n. /\ now \in Nat /\ now \in Int /\ liveSince \in Int /\ since \in Int
      /\ record \in Records
  BY <1>t DEF Typed, BfInv, BfTypeOK, BackfillInv
<1>o. /\ record' \in Records /\ record'.timestamp \in Int /\ record'.state # "Online"
      /\ record'.state = "none" <=> record.state = "none"
  <2>1. now <= now
    BY <1>n
  <2> QED
    BY <1>n, <1>u, <2>1, OutageLater, Zenon
<1> DEFINE image == Image(record', LastImage.hasLast, LastImage.last)
<1>w. /\ images' \in Seq(Images) /\ Len(images') \in 1..(MaxWrites + 1)
      /\ service \in {"reading", "read"} => images' = images
      /\ service \in {"read", "started"} => LastImage'.record = record'
      /\ \A i \in DOMAIN images' :
           \/ service = "started" /\ images'[i] = image
           \/ \E j \in DOMAIN images : images'[i] = images[j]
  <2>1. CASE service = "started"
    <3>1. (LastImage.record = record' /\ images' = images) \/ WriteRecord(record')
      BY <2>1, Zenon DEF Phases, LiveLost, BackfillInv
    <3> QED
      BY <1>o, <2>1, <3>1, RecordWritten, Zenon DEF BfInv, BackfillInv
  <2>2. CASE service # "started"
    <3>1. record.state # "Online"
      BY <2>2, Zenon DEF Phases, BackfillInv
    <3>2. record' = record
      BY <1>u, <3>1, Zenon DEF InOutage
    <3>3. images' = images
      BY <3>2, Zenon DEF LiveLost
    <3> QED
      BY <2>2, <3>2, <3>3, Zenon DEF Phases, BfInv, BfTypeOK, LastImage, BackfillInv
  <2> QED
    BY <2>1, <2>2, Zenon
<1>i. /\ image.record = record' /\ image.hasLast = LastImage.hasLast
      /\ image.last = LastImage.last
  BY Zenon DEF Image
<1> HIDE DEF image
<1>1. BfInv'
  <2>1. live' \in BOOLEAN
    BY <1>u, Zenon
  <2>2. liveSince' \in Int /\ reachAt' \in Int /\ changes' \in Nat
        /\ reach' \in {"up", "warming", "down"}
    BY <1>u, <1>n DEF BfInv, BfTypeOK, BackfillInv
  <2>3. BfTypeOK'
    BY <1>u, <1>o, <1>w, <2>1, <2>2, Zenon DEF BfInv, BfTypeOK, BackfillInv
  <2> QED
    BY <1>u, <2>3, Zenon DEF BfInv, BackfillInv
<1>2. ASSUME promised.made, msg.fate = "missed", msg.at >= promised.from,
             service = "started"
      PROVE  record'.state = "Offline" /\ record'.timestamp <= msg.timestamp
  <2>1. record.state # "none"
    BY <1>2, Zenon DEF NothingLost, BackfillInv
  <2>2. record'.state = "Offline"
    BY <1>o, <2>1, Zenon DEF Records
  <2>3. CASE record.state = "Offline"
    <3>1. record' = record
      BY <1>u, <2>3, Zenon DEF InOutage
    <3> QED
      BY <1>2, <2>2, <2>3, <3>1, Zenon DEF NothingLost, BackfillInv
  <2>4. CASE record.state = "Online"
    <3>2. /\ reach = "down"
          /\ InOutage(record, reachAt + Lag).timestamp <= msg.timestamp
      BY <1>2, <2>4, Zenon DEF NothingLost, BackfillInv
    <3>3. now <= reachAt + Lag
      BY <1>u, <3>2, Zenon DEF Delivery, BackfillInv
    <3>4. reachAt + Lag \in Int /\ msg.timestamp \in Int
      BY <1>t, TimesAssumption DEF Typed
    <3>5. record'.timestamp <= InOutage(record, reachAt + Lag).timestamp
      BY <1>n, <1>u, <3>3, <3>4, OutageLater, Zenon
    <3>6. InOutage(record, reachAt + Lag).timestamp \in Int
      <4>1. reachAt + Lag <= reachAt + Lag
        BY <3>4
      <4> QED
        BY <1>n, <3>4, <4>1, OutageLater, Zenon
    <3> QED
      BY <1>o, <2>2, <3>2, <3>4, <3>5, <3>6 DEF BackfillInv
  <2> QED
    BY <1>t, <2>1, <2>3, <2>4, Zenon DEF Typed
<1>3. NothingLost'
  <2> SUFFICES ASSUME promised.made, msg.fate = "missed", msg.at >= promised.from,
                      NEW i \in DOMAIN images', images'[i].record.state # "none"
               PROVE  GapFrom(images'[i]) <= msg.timestamp
    BY <1>u, <1>2, Zenon DEF NothingLost, GapFrom, BackfillInv
  <2>1. CASE service = "started" /\ images'[i] = image
    BY <1>2, <1>i, <2>1, Zenon DEF GapFrom, AtStart
  <2>2. CASE \E j \in DOMAIN images : images'[i] = images[j]
    BY <2>2, Zenon DEF NothingLost, BackfillInv
  <2> QED
    BY <1>w, <2>1, <2>2, Zenon
<1>4. TimesPast'
  BY <1>u, <1>t DEF TimesPast, Typed, BackfillInv
<1>5. Phases'
  <2>1. service \in {"down", "reading"} => record' = NoRecord /\ Len(images') = 1
    BY <1>u, <1>w, Zenon DEF Phases, InOutage, NoRecord, Record, BackfillInv
  <2>2. promised.made => LastImage'.record.state # "none"
    <3>1. CASE service = "reading"
      BY <1>w, <3>1, Zenon DEF Phases, LastImage, BackfillInv
    <3>2. CASE service \in {"read", "started"}
      BY <1>o, <1>w, <3>2, Zenon DEF Phases, BackfillInv
    <3> QED
      BY <1>u, <3>1, <3>2, Zenon DEF BfInv, BfTypeOK, BackfillInv
  <2> QED
    BY <1>u, <1>o, <1>w, <2>1, <2>2, Zenon DEF Phases, BackfillInv
<1>6. ImagesPast'
  <2>1. service = "started" => WrittenBy(image, now)
    <3>1. WrittenBy(LastImage, now)
      BY LastImageIn DEF BfInv, ImagesPast, BackfillInv
    <3>2. service = "started" /\ record.state # "none" =>
            record.timestamp <= now - Variance
      BY <3>1, Zenon DEF WrittenBy, Phases, BackfillInv
    <3>3. service = "started" /\ record.state # "none" =>
            record'.timestamp <= now - Variance
      BY <1>n, <1>u, <3>2, OutagePast, Zenon
    <3> QED
      BY <1>i, <1>o, <3>1, <3>3, Zenon DEF WrittenBy
  <2> QED
    BY <1>u, <1>w, <2>1, Zenon DEF ImagesPast, BackfillInv
<1>7. GapOpen'
  <2>1. CoveredFrom(liveSince, since) <= CoveredFrom(now, since)
    BY <1>n, CoveredLater DEF TimesPast, BackfillInv
  <2>2. CoveredFrom(now, since) \in Int /\ CoveredFrom(liveSince, since) \in Int
    BY <1>n, CoveredBounds, Zenon
  <2>3. query # NoQuery /\ record.state # "none" =>
           query.stop <= CoveredFrom(now, since)
    BY <1>t, <2>1, <2>2 DEF GapOpen, Typed, BackfillInv
  <2> QED
    BY <1>u, <1>o, <2>3, Zenon DEF GapOpen, BackfillInv
<1>8. Delivery'
  BY <1>u, <1>o, Zenon DEF Delivery, BackfillInv
<1> QED
  BY <1>1, <1>3, <1>4, <1>5, <1>6, <1>7, <1>8 DEF BackfillInv

\* The records of the last run are read: the gap is the one the disk promised.
LEMMA ReadRecordsKeeps == Keeps(ReadRecords)
<1> SUFFICES ASSUME BackfillInv, ReadRecords PROVE BackfillInv'
  BY DEF Keeps
<1>t. Typed
  BY TypedParts DEF BfInv, BackfillInv
<1>u. /\ service = "reading" /\ service' = "read"
      /\ record' = AtStart(LastImage)
      /\ UNCHANGED <<now, live, liveSince, subscribed, since, pending, query, changes,
                     reach, reachAt, promised, msg>>
  BY Zenon DEF ReadRecords
<1>l. /\ LastImage.record \in Records /\ LastImage.last \in Int
      /\ LastImage.record.timestamp \in Int /\ LastImage.hasLast \in BOOLEAN
  BY LastImageIn, Zenon DEF BfInv, Records, BackfillInv
<1>o. /\ record' \in Records /\ record'.timestamp = GapFrom(LastImage)
      /\ record'.state # "Online"
      /\ record'.state = "none" <=> LastImage.record.state = "none"
  BY <1>l, <1>u, TimesAssumption DEF AtStart, GapFrom, InOutage, Record, Records, Latest
<1> DEFINE image == Image(record', LastImage.hasLast, LastImage.last)
<1>w. /\ images' \in Seq(Images) /\ Len(images') \in 1..(MaxWrites + 1)
      /\ LastImage'.record = record'
      /\ \A i \in DOMAIN images' :
           images'[i] = image \/ \E j \in DOMAIN images : images'[i] = images[j]
  <2>1. (LastImage.record = record' /\ images' = images) \/ WriteRecord(record')
    BY Zenon DEF ReadRecords
  <2> QED
    BY <1>o, <2>1, RecordWritten, Zenon DEF BfInv, BackfillInv
<1>i. /\ image.record = record' /\ image.hasLast = LastImage.hasLast
      /\ image.last = LastImage.last
  BY DEF Image
<1> HIDE DEF image
<1>g. record'.state # "none" => GapFrom(image) = GapFrom(LastImage)
  BY <1>i, <1>o, Zenon DEF GapFrom, AtStart
<1>1. BfInv'
  BY <1>u, <1>o, <1>w, Zenon DEF BfInv, BfTypeOK, BackfillInv
<1>2. NothingLost'
  <2> SUFFICES ASSUME promised.made, msg.fate = "missed", msg.at >= promised.from,
                      NEW i \in DOMAIN images', images'[i].record.state # "none"
               PROVE  GapFrom(images'[i]) <= msg.timestamp
    BY <1>u, Zenon DEF NothingLost, GapFrom, BackfillInv
  <2>1. CASE images'[i] = image
    <3>1. LastImage.record.state # "none"
      BY <1>i, <1>o, <2>1, Zenon
    <3>2. GapFrom(LastImage) <= msg.timestamp
      BY <3>1, LastImageIn, Zenon DEF NothingLost, BfInv, BackfillInv
    <3> QED
      BY <1>g, <1>i, <2>1, <3>2, Zenon
  <2>2. CASE \E j \in DOMAIN images : images'[i] = images[j]
    BY <2>2 DEF NothingLost, BackfillInv
  <2> QED
    BY <1>w, <2>1, <2>2, Zenon
<1>3. TimesPast'
  BY <1>u, Zenon DEF TimesPast, BackfillInv
<1>4. Phases'
  BY <1>u, <1>o, <1>w, Zenon DEF Phases, BackfillInv
<1>5. ASSUME NEW t \in Int, WrittenBy(LastImage, t)
      PROVE  WrittenBy(image, t)
  <2>1. LastImage \in Images
    BY LastImageIn, Zenon DEF BfInv, BackfillInv
  <2>2. record'.state # "none" => record'.timestamp <= t - Variance
    BY <1>5, <1>o, <2>1, GapBefore, Zenon
  <2> QED
    BY <1>5, <1>i, <2>2, Zenon DEF WrittenBy
<1>6. ImagesPast'
  <2>1. Len(images) \in DOMAIN images /\ LastImage = images[Len(images)]
    BY LastImageIn, Zenon DEF BfInv, BackfillInv
  <2>2. WrittenBy(image, now) /\ WrittenBy(image, liveSince)
    BY <1>5, <1>t, <1>u, <2>1 DEF ImagesPast, Typed, BackfillInv
  <2>3. \A p \in DOMAIN pending : WrittenBy(image, pending[p].at)
    BY <1>5, <1>t, <1>u, <2>1, Zenon DEF ImagesPast, Typed, BackfillInv
  <2> QED
    BY <1>u, <1>w, <2>2, <2>3, Zenon DEF ImagesPast, BackfillInv
<1>7. GapOpen'
  <2>1. ASSUME record'.state = "Offline"
        PROVE  record'.timestamp < CoveredFrom(liveSince, since)
    <3>1. WrittenBy(LastImage, liveSince)
      BY <1>u, LastImageIn, Zenon DEF BfInv, ImagesPast, BackfillInv
    <3>2. record'.timestamp <= liveSince - Variance
      BY <1>5, <1>i, <1>t, <2>1, <3>1, Zenon DEF WrittenBy, Typed
    <3>3. liveSince \in Int /\ since \in Int /\ record'.timestamp \in Int
      BY <1>t, <1>o, Zenon DEF Typed, Records
    <3>4. liveSince + DelayExtra + Variance <= CoveredFrom(liveSince, since)
          /\ CoveredFrom(liveSince, since) \in Int
      BY <3>3, CoveredBounds, Zenon
    <3> QED
      BY <3>2, <3>3, <3>4, TimesAssumption
  <2>2. query = NoQuery
    BY <1>u, Zenon DEF Phases, BackfillInv
  <2> QED
    BY <1>u, <2>1, <2>2, Zenon DEF GapOpen, BackfillInv
<1>8. Delivery'
  BY <1>u, <1>o, Zenon DEF Delivery, SubscribedAt, BackfillInv
<1> QED
  BY <1>1, <1>2, <1>3, <1>4, <1>6, <1>7, <1>8 DEF BackfillInv

\* The record after a page: its bound moved forward, no further than the page.
LEMMA PageRecord ==
    ASSUME BackfillInv, query # NoQuery, record = query.record, NEW next \in Int,
           query.record.timestamp < next, next <= query.windowStop,
           record' = AfterFetch(next)
    PROVE  /\ record' \in Records /\ record.timestamp <= record'.timestamp
           /\ record'.timestamp <= next /\ next <= now - Variance
           /\ \/ /\ record'.state = "Offline" /\ record'.timestamp = next
                 /\ live => next < CoveredFrom(liveSince, since)
              \/ /\ record'.state = "Online" /\ live
                 /\ record'.timestamp = CoveredFrom(liveSince, since)
<1>t. Typed
  BY TypedParts, Zenon DEF BfInv, BackfillInv
<1> DEFINE stopNow == CoveredFrom(liveSince, since)
<1>1. liveSince \in Int /\ since \in Int /\ now \in Int
  BY <1>t DEF Typed
<1>2. stopNow \in Int
  BY <1>1, CoveredBounds, Zenon
<1>3. record.state = "Offline" /\ query.stop <= stopNow
  BY Zenon DEF GapOpen, BackfillInv
<1>4. record' = IF live /\ query.fetchStop = query.stop /\ next >= stopNow
                  THEN Record(stopNow, "Online") ELSE Record(next, "Offline")
  BY Zenon DEF AfterFetch
<1>5. query.windowStop <= query.stop /\ query.windowStop <= now - Variance
  <2>1. query.windowStop <= Earliest(query.stop, ArchivedBefore(now))
    BY Zenon DEF BfInv, BackfillInv
  <2> QED
    BY <1>t, <2>1, TimesAssumption DEF Earliest, ArchivedBefore, Typed
<1> HIDE DEF stopNow
<1>6. record.timestamp < next /\ next <= query.stop /\ next <= now - Variance
      /\ record.timestamp <= stopNow
  BY <1>t, <1>2, <1>3, <1>5, TimesAssumption DEF Typed
<1>7. CASE live /\ query.fetchStop = query.stop /\ next >= stopNow
  <2>1. record' = Record(stopNow, "Online")
    BY <1>4, <1>7, Zenon
  <2>2. record' \in Records /\ record'.state = "Online" /\ record'.timestamp = stopNow
    BY <1>2, <2>1 DEF Record, Records
  <2> QED
    BY <1>2, <1>6, <1>7, <2>2, Zenon DEF stopNow
<1>8. CASE ~(live /\ query.fetchStop = query.stop /\ next >= stopNow)
  <2>1. record' = Record(next, "Offline")
    BY <1>4, <1>8, Zenon
  <2>2. record' \in Records /\ record'.state = "Offline" /\ record'.timestamp = next
    BY <2>1 DEF Record, Records
  <2>3. live => next < stopNow
    <3>1. CASE query.fetchStop # query.stop
      BY <1>t, <1>2, <1>3, <3>1 DEF GapOpen, Typed, BackfillInv
    <3>2. CASE query.fetchStop = query.stop
      BY <1>2, <1>8, <3>2
    <3> QED
      BY <3>1, <3>2, Zenon
  <2>4. record.timestamp <= next
    BY <1>t, <1>6 DEF Typed
  <2> QED
    BY <1>6, <2>2, <2>3, <2>4 DEF stopNow
<1> QED
  BY <1>7, <1>8, Zenon

\* A page up to `next` was delivered, and what it had of the message.
PageDone(next) ==
    /\ query # NoQuery /\ subscribed /\ query' = NoQuery
    /\ query.record.timestamp < next /\ next <= query.windowStop
    /\ \/ /\ msg' = msg
          /\ msg.fate = "missed" /\ query.record.timestamp <= msg.timestamp =>
               next <= msg.timestamp
       \/ \E fate \in {"delivered", "passed"} : msg' = Settled(fate)
    /\ Fetched(next)
    /\ UNCHANGED <<now, service, live, liveSince, subscribed, since, pending, changes,
                   reach, reachAt, promised>>

\* A page was delivered: what is owed and was not in it lies in the rest of the
\* gap, or came in an outage since live delivery covers the topic.
LEMMA PageKeeps == \A next \in Int : Keeps(PageDone(next))
<1> SUFFICES ASSUME NEW next \in Int, BackfillInv, PageDone(next) PROVE BackfillInv'
  BY Zenon DEF Keeps
<1>t. Typed
  BY TypedParts, Zenon DEF BfInv, BackfillInv
<1>u. UNCHANGED <<now, service, live, liveSince, subscribed, since, pending, changes,
                  reach, reachAt, promised>>
  BY Zenon DEF PageDone
<1>d. /\ query # NoQuery /\ subscribed /\ query' = NoQuery /\ Fetched(next)
      /\ query.record.timestamp < next /\ next <= query.windowStop
  BY Zenon DEF PageDone
<1>m. /\ msg' \in [fate : Fates, at : Int, timestamp : Int]
      /\ msg'.fate = "missed" =>
           /\ msg' = msg
           /\ query.record.timestamp <= msg.timestamp => next <= msg.timestamp
  BY DEF PageDone, Settled, Fates, BfInv, BfTypeOK, BackfillInv
<1>q. query' \in Queries
  BY <1>d DEF Queries, NoQuery, NoRecord, Record, Records
<1>s. service = "started"
  BY <1>d, Zenon DEF Phases, BackfillInv
<1>n. liveSince \in Int /\ since \in Int /\ now \in Int
  BY <1>t DEF Typed
<1>1. CASE record # query.record
  <2>1. record' = record /\ images' = images
    BY <1>1, <1>d, Zenon DEF Fetched
  <2>2. BfInv'
    BY <1>u, <1>d, <1>m, <1>q, <2>1, Zenon DEF BfInv, BfTypeOK, BackfillInv
  <2>3. NothingLost' /\ TimesPast' /\ ImagesPast'
    BY <1>u, <1>m, <2>1, Zenon DEF NothingLost, GapFrom, TimesPast, ImagesPast, BackfillInv
  <2>4. Phases'
    <3>1. LastImage' = LastImage
      BY <2>1, Zenon DEF LastImage
    <3> QED
      BY <1>u, <1>d, <1>s, <2>1, <3>1, Zenon DEF Phases, BackfillInv
  <2>5. GapOpen'
    BY <1>u, <1>d, <2>1, Zenon DEF GapOpen, BackfillInv
  <2>6. Delivery'
    BY <1>u, <1>m, <2>1, Zenon DEF Delivery, SubscribedAt, BackfillInv
  <2> QED
    BY <2>2, <2>3, <2>4, <2>5, <2>6, Zenon DEF BackfillInv
<1>2. CASE record = query.record
  <2>1. record' = AfterFetch(next) /\ WriteRecord(record')
    BY <1>2, <1>d, Zenon DEF Fetched
  <2>2. /\ record' \in Records /\ record.timestamp <= record'.timestamp
        /\ record'.timestamp <= next /\ next <= now - Variance
        /\ \/ /\ record'.state = "Offline" /\ record'.timestamp = next
              /\ live => next < CoveredFrom(liveSince, since)
           \/ /\ record'.state = "Online" /\ live
              /\ record'.timestamp = CoveredFrom(liveSince, since)
    BY <1>2, <1>d, <2>1, PageRecord, Zenon
  <2>3. record'.timestamp \in Int /\ record'.timestamp <= now - Variance
    BY <1>n, <2>2, TimesAssumption DEF Records
  <2> DEFINE image == Image(record', LastImage.hasLast, LastImage.last)
  <2>w. /\ images' \in Seq(Images) /\ Len(images') \in 1..(MaxWrites + 1)
        /\ LastImage'.record = record'
        /\ \A i \in DOMAIN images' :
             images'[i] = image \/ \E j \in DOMAIN images : images'[i] = images[j]
    BY <2>1, <2>2, RecordWritten, Zenon DEF BfInv, BackfillInv
  <2>i. /\ image.record = record' /\ image.hasLast = LastImage.hasLast
        /\ image.last = LastImage.last
    BY Zenon DEF Image
  <2>l. LastImage.hasLast \in BOOLEAN /\ LastImage.last \in Int
        /\ (LastImage.hasLast => LastImage.last <= now)
    BY LastImageIn, Zenon DEF BfInv, ImagesPast, WrittenBy, BackfillInv
  <2> HIDE DEF image
  <2>4. BfInv'
    BY <1>u, <1>d, <1>m, <1>q, <2>2, <2>w, Zenon DEF BfInv, BfTypeOK, BackfillInv
  <2>5. ASSUME promised.made, msg'.fate = "missed", msg.at >= promised.from
        PROVE  /\ \/ record'.state = "Offline" /\ record'.timestamp <= msg.timestamp
                  \/ /\ record'.state = "Online" /\ live /\ reach = "down"
                     /\ InOutage(record', reachAt + Lag).timestamp <= msg.timestamp
               /\ GapFrom(image) <= msg.timestamp
    <3>1. msg' = msg /\ msg.fate = "missed"
      BY <1>m, <2>5, Zenon
    <3>2. record.state = "Offline"
      BY <1>2, <1>d, Zenon DEF GapOpen, BackfillInv
    <3>3. record.timestamp <= msg.timestamp
      BY <1>s, <2>5, <3>1, <3>2, Zenon DEF NothingLost, BackfillInv
    <3>4. next <= msg.timestamp
      BY <1>2, <1>m, <2>5, <3>3, Zenon
    <3>5. record'.timestamp <= msg.timestamp /\ msg.timestamp \in Int
      BY <1>t, <2>2, <2>3, <3>4 DEF Typed
    <3>8. /\ msg.at \in Int /\ msg.timestamp \in Int /\ reachAt \in Int
          /\ msg.at - Variance <= msg.timestamp /\ msg.timestamp <= msg.at + Variance
      BY <1>t, <3>1, Zenon DEF TimesPast, Typed, BackfillInv
    <3>6. CASE record'.state = "Offline"
      <4>1. GapFrom(image) = record'.timestamp
        BY <2>i, <3>6, Zenon DEF GapFrom, AtStart
      <4> QED
        BY <3>5, <3>6, <4>1, Zenon
    <3>7. CASE record'.state = "Online" /\ live
               /\ record'.timestamp = CoveredFrom(liveSince, since)
      <4>1. SubscribedAt = since
        BY <1>s, Zenon DEF SubscribedAt
      <4>2. Latest(liveSince, since) \in Int
        BY <1>n, LatestBounds, Zenon
      <4>3. Latest(liveSince, since) + DelayExtra + Variance <= msg.timestamp
        BY <3>5, <3>7, Zenon DEF CoveredFrom
      <4>4. msg.at >= Latest(liveSince, since) + DelayExtra
        BY <3>8, <4>2, <4>3, TimesAssumption
      <4>5. reach = "down" /\ reachAt <= msg.at
        BY <1>d, <3>1, <3>7, <4>1, <4>4, Zenon DEF Delivery, BackfillInv
      <4>6. now <= reachAt + Lag /\ reachAt + Lag \in Int
        BY <1>t, <3>7, <4>5, TimesAssumption DEF Delivery, Typed, BackfillInv
      <4>7. reachAt + Lag - OutageWindow <= msg.timestamp
        BY <3>8, <4>5, TimesAssumption
      <4>8. InOutage(record', reachAt + Lag).timestamp <= msg.timestamp
        <5>1. InOutage(record', reachAt + Lag).timestamp
                 = Latest(record'.timestamp, (reachAt + Lag) - OutageWindow)
          BY <3>7, Zenon DEF InOutage, Record
        <5>2. (reachAt + Lag) - OutageWindow \in Int
              /\ (reachAt + Lag) - OutageWindow <= msg.timestamp
          BY <3>8, <4>7, TimesAssumption
        <5> QED
          BY <2>3, <3>5, <5>1, <5>2, LatestBounds, Zenon
      <4>9. GapFrom(image) <= msg.timestamp
        <5>1. CASE ~LastImage.hasLast
          BY <2>i, <3>5, <3>7, <5>1, Zenon DEF GapFrom, AtStart, Record
        <5>2. CASE LastImage.hasLast
          <6>1. GapFrom(image) = InOutage(record', LastImage.last).timestamp
            BY <2>i, <3>7, <5>2, Zenon DEF GapFrom, AtStart
          <6>2. LastImage.last <= reachAt + Lag
            BY <1>n, <2>l, <4>6, <5>2
          <6>3. /\ InOutage(record', LastImage.last).timestamp
                     <= InOutage(record', reachAt + Lag).timestamp
                /\ InOutage(record', LastImage.last).timestamp \in Int
            BY <2>l, <2>2, <4>6, <6>2, OutageLater, Zenon
          <6>4. InOutage(record', reachAt + Lag).timestamp \in Int
            <7>1. reachAt + Lag <= reachAt + Lag
              BY <4>6
            <7> QED
              BY <2>2, <4>6, <7>1, OutageLater, Zenon
          <6> QED
            BY <3>5, <4>8, <6>1, <6>3, <6>4 DEF BackfillInv
        <5> QED
          BY <2>l, <5>1, <5>2, Zenon
      <4> QED
        BY <3>7, <4>5, <4>8, <4>9, Zenon
    <3> QED
      BY <2>2, <3>6, <3>7, Zenon
  <2>6. NothingLost'
    <3> SUFFICES ASSUME promised.made, msg'.fate = "missed", msg'.at >= promised.from
                 PROVE  /\ \/ record'.state = "Offline" /\ record'.timestamp <= msg.timestamp
                           \/ /\ record'.state = "Online" /\ live /\ reach = "down"
                              /\ InOutage(record', reachAt + Lag).timestamp <= msg.timestamp
                        /\ \A i \in DOMAIN images' : images'[i].record.state # "none" =>
                             GapFrom(images'[i]) <= msg.timestamp
      BY <1>u, <1>m, Zenon DEF NothingLost, GapFrom, InOutage, AtStart, BackfillInv
    <3>1. msg' = msg
      BY <1>m, Zenon
    <3>2. \A j \in DOMAIN images : images[j].record.state # "none" =>
             GapFrom(images[j]) <= msg.timestamp
      BY <3>1, Zenon DEF NothingLost, BackfillInv
    <3> QED
      BY <2>5, <2>w, <3>1, <3>2, Zenon
  <2>7. TimesPast'
    BY <1>u, <1>m, Zenon DEF TimesPast, BackfillInv
  <2>8. Phases'
    BY <1>u, <1>d, <1>s, <2>2, <2>w, Zenon DEF Phases, BackfillInv
  <2>9. ImagesPast'
    <3>1. WrittenBy(image, now)
      BY <2>3, <2>i, <2>l, Zenon DEF WrittenBy
    <3> QED
      BY <1>u, <1>s, <2>w, <3>1, Zenon DEF ImagesPast, BackfillInv
  <2>10. GapOpen'
    BY <1>u, <1>d, <2>2, Zenon DEF GapOpen, BackfillInv
  <2>11. Delivery'
    <3>1. SubscribedAt' = SubscribedAt /\ SubscribedAt = since
      BY <1>s, <1>u, Zenon DEF SubscribedAt
    <3>2. record.state = "Offline"
      BY <1>2, <1>d DEF GapOpen, BackfillInv
    <3>3. ASSUME record'.state = "Online" PROVE reach # "warming"
      <4>1. live /\ record'.timestamp = Latest(liveSince, since) + DelayExtra + Variance
        BY <2>2, <3>3, Zenon DEF CoveredFrom
      <4>2. Latest(liveSince, since) \in Int
        BY <1>n, LatestBounds
      <4>3. Latest(liveSince, since) + DelayExtra <= now
        BY <1>n, <2>3, <4>1, <4>2, TimesAssumption
      <4>4. live /\ reach = "warming" =>
              now < reachAt + DelayExtra /\ reachAt <= Latest(liveSince, since)
        BY <3>1, <3>2, Zenon DEF Delivery, BackfillInv
      <4> QED
        BY <1>t, <4>1, <4>2, <4>3, <4>4, TimesAssumption DEF Typed
    <3> QED
      BY <1>u, <1>m, <3>1, <3>2, <3>3, Zenon DEF Delivery, BackfillInv
  <2> QED
    BY <2>4, <2>6, <2>7, <2>8, <2>9, <2>10, <2>11, Zenon DEF BackfillInv
<1> QED
  BY <1>1, <1>2, Zenon

\* What is owed and lies in the range of a page is in the archive by then.
LEMMA ArchivedInPage ==
    ASSUME BackfillInv, query # NoQuery, NEW next \in Int, next <= query.windowStop,
           msg.fate = "missed", query.record.timestamp <= msg.timestamp,
           ~InPage(next)
    PROVE  next <= msg.timestamp
<1>t. Typed
  BY TypedParts, Zenon DEF BfInv, BackfillInv
<1>1. query.windowStop <= now - Variance - ArchiveTime
  <2>1. query.windowStop <= Earliest(query.stop, ArchivedBefore(now))
    BY Zenon DEF BfInv, BackfillInv
  <2> QED
    BY <1>t, <2>1, TimesAssumption DEF Earliest, ArchivedBefore, Typed
<1>2. msg.at - Variance <= msg.timestamp
  BY Zenon DEF TimesPast, BackfillInv
<1>3. ~(msg.at + ArchiveTime <= now) \/ ~(msg.timestamp < next)
  BY Zenon DEF InPage
<1> QED
  BY <1>t, <1>1, <1>2, <1>3, TimesAssumption DEF Typed

\* The last page of a range.
LEMMA LastPageKeeps == Keeps(LastPage)
<1> SUFFICES ASSUME BackfillInv, LastPage PROVE BackfillInv'
  BY DEF Keeps
<1>1. query # NoQuery /\ subscribed /\ query' = NoQuery /\ Fetched(query.windowStop)
      /\ UNCHANGED <<now, service, live, liveSince, subscribed, since, pending, changes,
                     reach, reachAt, promised>>
  BY Zenon DEF LastPage
<1>2. query.windowStop \in Int /\ query.record.timestamp < query.windowStop
      /\ query.windowStop <= query.windowStop
  BY <1>1, TypedParts DEF BackfillInv, BfInv, Typed
<1>3. CASE InPage(query.windowStop)
  <2>1. msg' = Settled("delivered")
    BY <1>3, Zenon DEF LastPage
  <2> QED
    <3>1. PageDone(query.windowStop)
      BY <1>1, <1>2, <2>1, Zenon DEF PageDone
    <3> QED
      BY <1>2, <3>1, PageKeeps, Zenon DEF Keeps
<1>4. CASE ~InPage(query.windowStop)
  <2>1. msg' = msg
    BY <1>4, Zenon DEF LastPage
  <2>2. msg.fate = "missed" /\ query.record.timestamp <= msg.timestamp =>
          query.windowStop <= msg.timestamp
    BY <1>1, <1>2, <1>4, ArchivedInPage, Zenon
  <2> QED
    <3>1. PageDone(query.windowStop)
      BY <1>1, <1>2, <2>1, <2>2, Zenon DEF PageDone
    <3> QED
      BY <1>2, <3>1, PageKeeps DEF Keeps
<1> QED
  BY <1>3, <1>4, Zenon

\* A page with more to come.
LEMMA FullPageKeeps == \A last \in Int : Keeps(FullPage(last))
<1> SUFFICES ASSUME NEW last \in Int, BackfillInv, FullPage(last) PROVE BackfillInv'
  BY Zenon DEF Keeps
<1> DEFINE stuck == last = query.record.timestamp
           next == IF stuck THEN last + 1 ELSE last
<1>1. query # NoQuery /\ subscribed /\ query' = NoQuery /\ Fetched(next)
      /\ UNCHANGED <<now, service, live, liveSince, subscribed, since, pending, changes,
                     reach, reachAt, promised>>
  BY Zenon DEF FullPage
<1>2. query.record.timestamp <= last /\ last < query.windowStop
  BY Zenon DEF FullPage
<1>3. query.record.timestamp \in Int /\ query.windowStop \in Int
  BY TypedParts, Zenon DEF BackfillInv, BfInv, Typed
<1>4. next \in Int /\ query.record.timestamp < next /\ next <= query.windowStop
  BY <1>2, <1>3
<1>5. \/ \E fate \in {"delivered", "passed"} : msg' = Settled(fate)
      \/ msg' = msg /\ ~InPage(next)
  BY Zenon DEF FullPage
<1> HIDE DEF next
<1>6. CASE \E fate \in {"delivered", "passed"} : msg' = Settled(fate)
  <2>1. PageDone(next)
    BY <1>1, <1>4, <1>6, Zenon DEF PageDone
  <2> QED
    BY <1>4, <2>1, PageKeeps, Zenon DEF Keeps
<1>7. CASE msg' = msg /\ ~InPage(next)
  <2>1. msg.fate = "missed" /\ query.record.timestamp <= msg.timestamp =>
          next <= msg.timestamp
    BY <1>1, <1>4, <1>7, ArchivedInPage, Zenon
  <2> QED
    <3>1. PageDone(next)
      BY <1>1, <1>4, <1>7, <2>1, Zenon DEF PageDone
    <3> QED
      BY <1>4, <3>1, PageKeeps DEF Keeps
<1> QED
  BY <1>5, <1>6, <1>7, Zenon

\* An unsubscribe that the worker or the service applies.
Unsubscribes ==
    /\ service \in {"read", "started"} /\ service' = "started"
    /\ BfTypeOK' /\ subscribed' = FALSE
    /\ record' = NoRecord /\ since' = 0 /\ promised' = NoPromise
    /\ (LastImage.record = NoRecord /\ images' = images) \/ WriteRecord(NoRecord)
    /\ \A i \in DOMAIN pending' : pending'[i].at <= now
    /\ UNCHANGED <<now, live, liveSince, query, reach, reachAt, msg>>

\* An unsubscribe deletes the record, and with it the promise.
LEMMA UnsubscribeKeeps == Keeps(Unsubscribes)
<1> SUFFICES ASSUME BackfillInv, Unsubscribes PROVE BackfillInv'
  BY Zenon DEF Keeps
<1>t. Typed
  BY TypedParts, Zenon DEF BfInv, BackfillInv
<1>u. /\ service \in {"read", "started"} /\ service' = "started" /\ subscribed' = FALSE
      /\ record' = NoRecord /\ since' = 0 /\ promised' = NoPromise
      /\ UNCHANGED <<now, live, liveSince, query, reach, reachAt, msg>>
  BY Zenon DEF Unsubscribes
<1>1. NoRecord \in Records /\ NoRecord.state = "none"
  BY DEF NoRecord, Record, Records
<1>2. ~promised'.made
  BY <1>u, Zenon DEF NoPromise
<1> DEFINE image == Image(NoRecord, LastImage.hasLast, LastImage.last)
<1>w. /\ LastImage'.record = NoRecord
      /\ \A i \in DOMAIN images' :
           images'[i] = image \/ \E j \in DOMAIN images : images'[i] = images[j]
  BY <1>1, RecordWritten, Zenon DEF Unsubscribes, BfInv, BackfillInv
<1> HIDE DEF image
<1>3. BfInv'
  BY <1>u, Zenon DEF Unsubscribes, BfInv, BackfillInv
<1>4. NothingLost'
  BY <1>2, Zenon DEF NothingLost
<1>5. TimesPast'
  <2>1. \A i \in DOMAIN pending' : pending'[i].at <= now
    BY Zenon DEF Unsubscribes
  <2>2. 0 <= now
    BY <1>t DEF Typed
  <2> QED
    BY <1>u, <2>1, <2>2, Zenon DEF TimesPast, BackfillInv
<1>6. Phases'
  BY <1>u, <1>1, <1>2, <1>w, Zenon DEF Phases, BackfillInv
<1>7. ImagesPast'
  <2>1. WrittenBy(LastImage, now)
    BY LastImageIn, Zenon DEF BfInv, ImagesPast, BackfillInv
  <2>2. WrittenBy(image, now)
    BY <1>1, <2>1, Zenon DEF WrittenBy, Image, image
  <2>3. \A j \in DOMAIN images : WrittenBy(images[j], now)
    BY Zenon DEF ImagesPast, BackfillInv
  <2>4. \A i \in DOMAIN images' : WrittenBy(images'[i], now)
    BY <1>w, <2>2, <2>3, Zenon
  <2> QED
    BY <1>u, <2>4, Zenon DEF ImagesPast, WrittenBy
<1>8. GapOpen'
  BY <1>u, <1>1, Zenon DEF GapOpen, BackfillInv
<1>9. Delivery'
  BY <1>u, <1>1, Zenon DEF Delivery, BackfillInv
<1> QED
  BY <1>3, <1>4, <1>5, <1>6, <1>7, <1>8, <1>9, Zenon DEF BackfillInv

\* A subscribe at `at`, which the worker or the service applies.
Subscribes(at) ==
    /\ service \in {"read", "started"} /\ record.state # "Online"
    /\ at <= now /\ (query # NoQuery => at = now)
    /\ BfTypeOK' /\ service' = "started" /\ subscribed' = TRUE /\ since' = at
    /\ \A i \in DOMAIN images : WrittenBy(images[i], at)
    /\ \A i \in DOMAIN pending' : pending'[i].at <= now
    /\ UNCHANGED <<now, live, liveSince, query, msg>>

\* The topic has a record, which stays.
KeepsRecord(at) ==
    /\ record.state # "none" /\ record' = record /\ images' = images
    /\ promised' = IF promised.made THEN promised ELSE [made |-> TRUE, from |-> at]

\* The topic gets a new record.
StartsRecord(at) ==
    /\ record' = NewRecord(at, live, liveSince)
    /\ (LastImage.record = record' /\ images' = images) \/ WriteRecord(record')
    /\ promised' = [made |-> TRUE,
                    from |-> IF record'.state = "Online" THEN at + DelayExtra ELSE at]

\* Live delivery after the subscribe: it warms up anew, or an outage goes on.
ReachAfter(at) ==
    /\ reachAt' <= now /\ (~live => reach' = "down")
    /\ live /\ reach' = "warming" =>
         now < reachAt' + DelayExtra /\ reachAt' <= Latest(liveSince, at)
    /\ live /\ reach' = "down" => now <= reachAt' + Lag
    /\ msg.fate = "missed" /\ live /\ msg.at >= Latest(liveSince, at) + DelayExtra
         => reach' = "down" /\ reachAt' <= msg.at

\* A subscribe at `at`: the gap of the topic has what the app misses from then on.
LEMMA SubscribeKeeps ==
    \A at \in Int :
       Keeps(/\ Subscribes(at) /\ ReachAfter(at)
             /\ KeepsRecord(at) \/ StartsRecord(at))
<1> SUFFICES ASSUME NEW at \in Int, BackfillInv, Subscribes(at), ReachAfter(at),
                    KeepsRecord(at) \/ StartsRecord(at)
             PROVE  BackfillInv'
  BY Zenon DEF Keeps
<1>t. Typed
  BY TypedParts, Zenon DEF BfInv, BackfillInv
<1>u. /\ service \in {"read", "started"} /\ service' = "started"
      /\ subscribed' = TRUE /\ since' = at
      /\ UNCHANGED <<now, live, liveSince, query, msg>>
  BY Zenon DEF Subscribes
<1>o. record.state # "Online" /\ at <= now /\ (query # NoQuery => at = now)
  BY Zenon DEF Subscribes
<1>n. /\ now \in Int /\ liveSince \in Int /\ since \in Int /\ msg.at \in Int
      /\ msg.timestamp \in Int /\ reachAt' \in Int
  BY <1>t DEF Typed, Subscribes, BfTypeOK
<1>k. Variance \in Nat /\ DelayExtra \in Nat \ {0} /\ Lag \in Nat
      /\ OutageWindow \in Nat /\ OutageWindow >= Lag + Variance
  BY TimesAssumption, Zenon
<1>m. msg.fate = "missed" =>
         /\ msg.at <= now
         /\ msg.at - Variance <= msg.timestamp /\ msg.timestamp <= msg.at + Variance
  BY Zenon DEF TimesPast, BackfillInv
<1>r. record = LastImage.record
  BY <1>u, Zenon DEF Phases, BackfillInv
<1>l. /\ LastImage \in Images /\ WrittenBy(LastImage, at)
      /\ LastImage.hasLast \in BOOLEAN /\ LastImage.last \in Int
  BY LastImageIn, Zenon DEF Subscribes, BfInv, BackfillInv
<1>g. ASSUME NEW i \in DOMAIN images, images[i].record.state # "none",
             msg.fate = "missed", msg.at >= at
      PROVE  GapFrom(images[i]) <= msg.timestamp
  <2>1. images[i] \in Images
    BY DEF BfInv, BfTypeOK, BackfillInv
  <2>2. WrittenBy(images[i], at)
    BY Zenon DEF Subscribes
  <2>3. GapFrom(images[i]) <= at - Variance /\ GapFrom(images[i]) \in Int
    BY <1>g, <2>1, <2>2, GapBefore, Zenon
  <2> QED
    BY <1>g, <1>k, <1>m, <1>n, <2>3
<1>c. /\ CoveredFrom(liveSince, at) \in Int /\ CoveredFrom(liveSince, since) \in Int
      /\ at + DelayExtra + Variance <= CoveredFrom(liveSince, at)
  BY <1>n, CoveredBounds, Zenon
<1>a. Latest(liveSince, at) \in Int /\ SubscribedAt' = at
  BY <1>n, <1>u, LatestBounds, Zenon DEF SubscribedAt
<1>q. query # NoQuery => query.stop <= CoveredFrom(liveSince, at)
  <2>1. query # NoQuery => query.stop <= now + DelayExtra + Variance /\ query.stop \in Int
    BY <1>t, Zenon DEF GapOpen, Typed, BackfillInv
  <2> QED
    BY <1>c, <1>k, <1>n, <1>o, <2>1
<1>1. BfInv'
  BY <1>u, Zenon DEF Subscribes, BfInv, BackfillInv
<1>2. TimesPast'
  BY <1>m, <1>o, <1>u, Zenon DEF Subscribes, ReachAfter, TimesPast, BackfillInv
<1>3. CASE KeepsRecord(at)
  <2>0. /\ record.state # "none" /\ record' = record /\ images' = images
        /\ promised' = IF promised.made THEN promised ELSE [made |-> TRUE, from |-> at]
    BY <1>3, Zenon DEF KeepsRecord
  <2>1. record.state = "Offline" /\ record.timestamp \in Int
    BY <1>o, <1>t, <2>0, Zenon DEF Typed
  <2>2. record.timestamp <= at - Variance
    BY <2>0, <1>l, <1>r, Zenon DEF WrittenBy
  <2>3. ASSUME promised'.made, msg.fate = "missed", msg.at >= promised'.from
        PROVE  /\ record.timestamp <= msg.timestamp
               /\ \A i \in DOMAIN images : images[i].record.state # "none" =>
                    GapFrom(images[i]) <= msg.timestamp
    <3>1. CASE promised.made
      <4>1. promised' = promised
        BY <2>0, <3>1, Zenon
      <4>2. \A i \in DOMAIN images : images[i].record.state # "none" =>
               GapFrom(images[i]) <= msg.timestamp
        BY <2>3, <3>1, <4>1, Zenon DEF NothingLost, BackfillInv
      <4>3. GapFrom(LastImage) <= msg.timestamp
        BY <2>0, <1>r, <4>2, LastImageIn, Zenon DEF BfInv, BackfillInv
      <4>4. GapFrom(LastImage) = record.timestamp
        BY <1>r, <2>1, Zenon DEF GapFrom, AtStart
      <4> QED
        BY <4>2, <4>3, <4>4, Zenon
    <3>2. CASE ~promised.made
      <4>1. promised' = [made |-> TRUE, from |-> at]
        BY <2>0, <3>2, Zenon
      <4>2. msg.at >= at
        BY <2>3, <4>1, Zenon
      <4>3. record.timestamp <= msg.timestamp
        BY <1>k, <1>m, <1>n, <2>1, <2>2, <2>3, <4>2
      <4> QED
        BY <1>g, <2>3, <4>2, <4>3, Zenon
    <3> QED
      BY <3>1, <3>2, Zenon
  <2>4. NothingLost'
    BY <1>u, <2>0, <2>1, <2>3, Zenon DEF NothingLost, GapFrom
  <2>5. Phases'
    <3>1. LastImage' = LastImage
      BY <2>0, Zenon DEF LastImage
    <3> QED
      BY <2>0, <1>r, <1>u, <2>1, <3>1, Zenon DEF Phases, BackfillInv
  <2>6. ImagesPast'
    BY <1>u, <2>0, Zenon DEF ImagesPast, BackfillInv
  <2>7. GapOpen'
    <3>1. record.timestamp < CoveredFrom(liveSince, at)
      BY <1>k, <1>n, <1>c, <2>1, <2>2
    <3> QED
      BY <2>0, <1>q, <1>u, <3>1, Zenon DEF GapOpen, BackfillInv
  <2>8. Delivery'
    BY <2>0, <1>a, <1>u, <2>1, Zenon DEF ReachAfter, Delivery, BackfillInv
  <2> QED
    BY <1>1, <1>2, <2>4, <2>5, <2>6, <2>7, <2>8, Zenon DEF BackfillInv
<1>4. CASE StartsRecord(at)
  <2>1. /\ record' \in Records /\ record'.timestamp = at - Variance
        /\ record'.state \in {"Online", "Offline"}
        /\ record'.state = "Online" => live /\ liveSince <= at
    BY <1>4, <1>k, <1>n DEF StartsRecord, NewRecord, Record, Records
  <2>2. /\ promised'.from = IF record'.state = "Online" THEN at + DelayExtra ELSE at
        /\ promised'.made = TRUE
    BY <1>4, Zenon DEF StartsRecord
  <2> DEFINE image == Image(record', LastImage.hasLast, LastImage.last)
  <2>w. /\ LastImage'.record = record'
        /\ \A i \in DOMAIN images' :
             images'[i] = image \/ \E j \in DOMAIN images : images'[i] = images[j]
    BY <1>4, <2>1, RecordWritten, Zenon DEF StartsRecord, BfInv, BackfillInv
  <2>i. /\ image.record = record' /\ image.hasLast = LastImage.hasLast
        /\ image.last = LastImage.last
    BY Zenon DEF Image
  <2> HIDE DEF image
  <2>b. WrittenBy(image, at) /\ WrittenBy(image, now)
    BY <1>k, <1>l, <1>n, <1>o, <2>1, <2>i DEF WrittenBy
  <2>3. ASSUME msg.fate = "missed", msg.at >= promised'.from
        PROVE  /\ msg.at >= at
               /\ at - Variance <= msg.timestamp
               /\ record'.state = "Online" =>
                    /\ live /\ reach' = "down"
                    /\ InOutage(record', reachAt' + Lag).timestamp <= msg.timestamp
               /\ GapFrom(image) <= msg.timestamp
    <3>1. msg.at >= at
      BY <1>k, <1>n, <2>2, <2>3
    <3>2. at - Variance <= msg.timestamp
      BY <1>k, <1>m, <1>n, <2>3, <3>1
    <3>3. ASSUME record'.state = "Online"
          PROVE  /\ live /\ reach' = "down"
                 /\ InOutage(record', reachAt' + Lag).timestamp <= msg.timestamp
      <4>1. live /\ Latest(liveSince, at) = at
        BY <1>n, <2>1, <3>3 DEF Latest
      <4>2. msg.at >= Latest(liveSince, at) + DelayExtra
        BY <1>k, <2>2, <2>3, <3>3, <4>1, Zenon
      <4>3. reach' = "down" /\ reachAt' <= msg.at
        BY <2>3, <4>1, <4>2, Zenon DEF ReachAfter
      <4>4. (reachAt' + Lag) - OutageWindow \in Int
            /\ (reachAt' + Lag) - OutageWindow <= msg.timestamp
        BY <1>k, <1>m, <1>n, <2>3, <4>3
      <4>5. InOutage(record', reachAt' + Lag).timestamp
               = Latest(record'.timestamp, (reachAt' + Lag) - OutageWindow)
        BY <3>3, Zenon DEF InOutage, Record
      <4>6. record'.timestamp \in Int /\ record'.timestamp <= msg.timestamp
        BY <1>k, <2>1, <3>2
      <4>7. InOutage(record', reachAt' + Lag).timestamp <= msg.timestamp
        BY <1>n, <4>4, <4>5, <4>6, LatestBounds, Zenon
      <4> QED
        BY <4>1, <4>3, <4>7, Zenon
    <3>4. GapFrom(image) <= msg.timestamp
      <4>1. image \in Images
        BY <1>l, <2>1, Zenon DEF image, Image, Images
      <4>2. GapFrom(image) <= at - Variance /\ GapFrom(image) \in Int
        BY <2>1, <2>b, <2>i, <4>1, GapBefore, Zenon
      <4> QED
        BY <1>k, <1>n, <3>2, <4>2
    <3> QED
      BY <3>1, <3>2, <3>3, <3>4, Zenon
  <2>4. NothingLost'
    <3> SUFFICES ASSUME msg.fate = "missed", msg.at >= promised'.from
                 PROVE  /\ \/ record'.state = "Offline" /\ record'.timestamp <= msg.timestamp
                           \/ /\ record'.state = "Online" /\ live /\ reach' = "down"
                              /\ InOutage(record', reachAt' + Lag).timestamp <= msg.timestamp
                        /\ \A i \in DOMAIN images' : images'[i].record.state # "none" =>
                             GapFrom(images'[i]) <= msg.timestamp
      BY <1>u, Zenon DEF NothingLost, GapFrom, InOutage, AtStart
    <3>1. \A j \in DOMAIN images : images[j].record.state # "none" =>
             GapFrom(images[j]) <= msg.timestamp
      BY <1>g, <2>3, Zenon
    <3> QED
      BY <2>1, <2>3, <2>w, <3>1, Zenon
  <2>5. Phases'
    BY <1>u, <2>1, <2>w, Zenon DEF Phases, BackfillInv
  <2>6. ImagesPast'
    BY <1>u, <2>b, <2>w, Zenon DEF ImagesPast, BackfillInv
  <2>7. GapOpen'
    <3>1. record'.timestamp < CoveredFrom(liveSince, at)
      BY <1>k, <1>c, <2>1
    <3> QED
      BY <1>q, <1>u, <3>1, Zenon DEF GapOpen, BackfillInv
  <2>8. Delivery'
    <3>1. record'.state = "Online" /\ reach' = "warming" =>
            reachAt' + DelayExtra <= promised'.from
      <4>1. record'.state = "Online" => Latest(liveSince, at) = at
        BY <1>n, <2>1 DEF Latest
      <4>2. record'.state = "Online" => promised'.from = at + DelayExtra
        BY <2>2, Zenon
      <4> QED
        BY <1>k, <1>n, <2>1, <4>1, <4>2 DEF ReachAfter
    <3> QED
      BY <1>a, <1>u, <3>1, Zenon DEF ReachAfter, Delivery, BackfillInv
  <2> QED
    BY <1>1, <1>2, <2>4, <2>5, <2>6, <2>7, <2>8 DEF BackfillInv
<1> QED
  BY <1>3, <1>4, Zenon

\* What a change does to the topic, by the change and the record.
LEMMA AppliedCases ==
    ASSUME NEW change, NEW st
    PROVE  /\ ~change.subscribed =>
                Applied(change, st)
                  = [record |-> NoRecord, since |-> 0, promised |-> NoPromise]
           /\ change.subscribed /\ st.record.state # "none" =>
                Applied(change, st)
                  = [st EXCEPT !.since = change.at,
                               !.promised = IF st.promised.made THEN st.promised
                                            ELSE [made |-> TRUE, from |-> change.at]]
           /\ change.subscribed /\ st.record.state = "none" =>
                /\ Applied(change, st).record = NewRecord(change.at, live, liveSince)
                /\ Applied(change, st).since = change.at
                /\ Applied(change, st).promised =
                     [made |-> TRUE,
                      from |-> IF NewRecord(change.at, live, liveSince).state = "Online"
                                 THEN change.at + DelayExtra ELSE change.at]
BY Zenon DEF Applied

\* A subscription change: applied at once, or kept for the worker to apply.
LEMMA SubscriptionChangedKeeps == Keeps(SubscriptionChanged)
<1> SUFFICES ASSUME BackfillInv, SubscriptionChanged PROVE BackfillInv'
  BY DEF Keeps
<1>t. Typed
  BY TypedParts DEF BfInv, BackfillInv
<1> DEFINE change == [subscribed |-> subscribed', at |-> now]
<1>u. /\ service # "down" /\ changes' = changes + 1 /\ subscribed' = ~subscribed
      /\ UNCHANGED <<now, service, live, liveSince, query, msg>>
  BY Zenon DEF SubscriptionChanged, Happens
<1>n. /\ now \in Nat /\ now \in Int /\ liveSince \in Int /\ reachAt \in Int
      /\ msg.at \in Int /\ (msg.fate = "missed" => msg.at <= now)
  BY <1>t DEF Typed, TimesPast, BackfillInv
<1>r. IF subscribed' /\ reach # "down" THEN reach' = "warming" /\ reachAt' = now
                                        ELSE reach' = reach /\ reachAt' = reachAt
  BY Zenon DEF SubscriptionChanged
<1>l. Latest(liveSince, now) \in Int /\ now <= Latest(liveSince, now)
  BY <1>n, LatestBounds, Zenon
<1>d. /\ ~live => reach' = "down"
      /\ reachAt' \in Int /\ reachAt' <= now /\ reach' \in {"up", "warming", "down"}
      /\ live /\ reach' = "warming" =>
           now < reachAt' + DelayExtra /\ reachAt' <= Latest(liveSince, now)
      /\ live /\ reach' = "down" => now <= reachAt' + Lag
      /\ ~(msg.fate = "missed" /\ msg.at >= Latest(liveSince, now) + DelayExtra)
  <2>1. ~(msg.fate = "missed" /\ msg.at >= Latest(liveSince, now) + DelayExtra)
    BY <1>n, <1>l, TimesAssumption
  <2>2. reachAt <= now /\ reach \in {"up", "warming", "down"}
    BY Zenon DEF TimesPast, BfInv, BfTypeOK, BackfillInv
  <2>3. CASE subscribed' /\ reach # "down"
    <3>1. reach' = "warming" /\ reachAt' = now
      BY <1>r, <2>3, Zenon
    <3> QED
      BY <1>n, <1>l, <2>1, <2>3, <3>1, TimesAssumption DEF Delivery, BackfillInv
  <2>4. CASE ~(subscribed' /\ reach # "down")
    <3>1. reach' = reach /\ reachAt' = reachAt
      BY <1>r, <2>4, Zenon
    <3>2. reachAt <= Latest(liveSince, now)
      BY <1>n, <1>l, <2>2
    <3> QED
      BY <1>n, <2>1, <2>2, <3>1, <3>2, Zenon DEF Delivery, BackfillInv
  <2> QED
    BY <2>3, <2>4, Zenon
<1>1. CASE service = "started"
  <2>1. Become(Applied(change, Topic)) /\ pending' = pending
    BY <1>1, Zenon DEF SubscriptionChanged
  <2>2. Topic.record = record /\ Topic.promised = promised
    BY Zenon DEF Topic
  <2>3. change.subscribed = subscribed' /\ change.at = now
    BY Zenon
  <2> HIDE DEF change
  <2>4. record = LastImage.record
    BY <1>1, Zenon DEF Phases, BackfillInv
  <2>p. \A i \in DOMAIN pending' : pending'[i].at <= now
    BY <2>1, Zenon DEF TimesPast, BackfillInv
  <2>r. ReachAfter(now)
    BY <1>d, Zenon DEF ReachAfter
  <2>5. ASSUME NEW r \in Records, record' = r, since' \in Int,
               promised' \in [made : BOOLEAN, from : Int],
               (LastImage.record = r /\ images' = images) \/ WriteRecord(r)
        PROVE  BfTypeOK'
    <3>1. images' \in Seq(Images) /\ Len(images') \in 1..(MaxWrites + 1)
      BY <2>5, RecordWritten, Zenon DEF BfInv, BackfillInv
    <3>2. subscribed' \in BOOLEAN
      BY <1>u, Zenon
    <3> QED
      BY <1>u, <1>d, <2>1, <2>5, <3>1, <3>2 DEF BfInv, BfTypeOK, BackfillInv
  <2>6. CASE ~subscribed'
    <3>1. Applied(change, Topic) = [record |-> NoRecord, since |-> 0, promised |-> NoPromise]
      BY <2>3, <2>6, AppliedCases, Zenon
    <3>2. record' = NoRecord /\ since' = 0 /\ promised' = NoPromise
          /\ ((NoRecord = record /\ images' = images) \/ WriteRecord(NoRecord))
      BY <2>1, <3>1 DEF Become
    <3>3. reach' = reach /\ reachAt' = reachAt
      BY <1>r, <2>6, Zenon
    <3>4. NoRecord \in Records /\ NoPromise \in [made : BOOLEAN, from : Int]
      BY DEF NoRecord, Record, Records, NoPromise
    <3>5. BfTypeOK'
      BY <2>4, <2>5, <3>2, <3>4
    <3>6. subscribed' = FALSE
      BY <1>u, <2>6, Zenon
    <3>7. Unsubscribes
      BY <1>1, <1>u, <2>4, <2>p, <3>2, <3>3, <3>5, <3>6, Zenon DEF Unsubscribes
    <3> QED
      BY <3>7, UnsubscribeKeeps, Zenon DEF Keeps
  <2>7. CASE subscribed'
    <3>1. subscribed' = TRUE /\ ~subscribed
      BY <1>u, <2>7, Zenon
    <3>2. record.state # "Online"
      BY <3>1, Zenon DEF Phases, BackfillInv
    <3>3. \A i \in DOMAIN images : WrittenBy(images[i], now)
      BY Zenon DEF ImagesPast, BackfillInv
    <3>4. CASE record.state # "none"
      <4>1. Applied(change, Topic)
              = [Topic EXCEPT !.since = now,
                              !.promised = IF promised.made THEN promised
                                           ELSE [made |-> TRUE, from |-> now]]
        BY <2>2, <2>3, <2>7, <3>4, AppliedCases, Zenon
      <4>2. /\ record' = record /\ since' = now /\ images' = images
            /\ promised' = IF promised.made THEN promised
                           ELSE [made |-> TRUE, from |-> now]
        BY <2>1, <4>1, Zenon DEF Become, Topic
      <4>3. promised' \in [made : BOOLEAN, from : Int]
        BY <1>n, <4>2, Zenon DEF BfInv, BfTypeOK, BackfillInv
      <4>4. BfTypeOK'
        BY <1>n, <2>4, <2>5, <4>2, <4>3, Zenon DEF BfInv, BfTypeOK, BackfillInv
      <4>5. now <= now
        BY <1>n
      <4>6. Subscribes(now) /\ KeepsRecord(now)
        BY <1>1, <1>u, <2>p, <3>1, <3>2, <3>3, <3>4, <4>2, <4>4, <4>5, Zenon
           DEF Subscribes, KeepsRecord
      <4> QED
        BY <1>n, <2>r, <4>6, SubscribeKeeps, Zenon DEF Keeps
    <3>5. CASE record.state = "none"
      <4> DEFINE new == NewRecord(now, live, liveSince)
      <4>1. /\ Applied(change, Topic).record = new /\ Applied(change, Topic).since = now
            /\ Applied(change, Topic).promised =
                 [made |-> TRUE, from |-> IF new.state = "Online" THEN now + DelayExtra
                                                                  ELSE now]
        BY <2>2, <2>3, <2>7, <3>5, AppliedCases, Zenon
      <4>2. /\ record' = new /\ since' = now
            /\ promised' = [made |-> TRUE,
                            from |-> IF record'.state = "Online" THEN now + DelayExtra
                                                                 ELSE now]
            /\ ((LastImage.record = record' /\ images' = images) \/ WriteRecord(record'))
        BY <2>1, <2>4, <4>1, Zenon DEF Become
      <4>3. promised' \in [made : BOOLEAN, from : Int]
        BY <1>n, <4>2, TimesAssumption
      <4>4. new \in Records
        BY <1>n, TimesAssumption DEF NewRecord, Record, Records
      <4> HIDE DEF new
      <4>5. BfTypeOK'
        BY <1>n, <2>5, <4>2, <4>3, <4>4, Zenon
      <4>6. now <= now
        BY <1>n
      <4>7. Subscribes(now)
        BY <1>1, <1>u, <2>p, <3>1, <3>2, <3>3, <4>2, <4>5, <4>6, Zenon DEF Subscribes
      <4>8. StartsRecord(now)
        BY <4>2, Zenon DEF StartsRecord, new
      <4> QED
        BY <1>n, <2>r, <4>7, <4>8, SubscribeKeeps, Zenon DEF Keeps
    <3> QED
      BY <3>4, <3>5, Zenon
  <2> QED
    BY <2>6, <2>7, Zenon
<1>2. CASE service # "started"
  <2>1. /\ pending' = Append(pending, change)
        /\ UNCHANGED <<record, since, promised, images>>
    BY <1>2, Zenon DEF SubscriptionChanged
  <2> DEFINE Changes == [subscribed : BOOLEAN, at : Int]
  <2>2. change \in Changes /\ pending \in Seq(Changes) /\ subscribed' \in BOOLEAN
    <3>1. subscribed' \in BOOLEAN
      BY <1>u, Zenon
    <3> QED
      BY <1>n, <3>1, Zenon DEF BfInv, BfTypeOK, BackfillInv
  <2>c. change.subscribed = subscribed' /\ change.at = now
    OBVIOUS
  <2> HIDE DEF Changes, change
  <2>3. /\ pending' \in Seq(Changes) /\ Len(pending') = Len(pending) + 1
        /\ pending'[Len(pending')] = change
        /\ \A i \in 1..Len(pending) : pending'[i] = pending[i]
    BY <2>1, <2>2
  <2>4. /\ pending' # <<>> /\ Len(pending) \in Nat
        /\ DOMAIN pending' = 1..(Len(pending) + 1) /\ DOMAIN pending = 1..Len(pending)
    BY <2>2, <2>3
  <2>5. \A i \in DOMAIN pending' :
           (i \in DOMAIN pending /\ pending'[i] = pending[i]) \/ pending'[i] = change
    BY <2>3, <2>4
  <2>6. BfInv'
    BY <1>u, <1>d, <2>1, <2>2, <2>3 DEF BfInv, BfTypeOK, Changes, BackfillInv
  <2>7. NothingLost'
    BY <1>u, <1>2, <2>1, Zenon DEF NothingLost, GapFrom, BackfillInv
  <2>8. TimesPast'
    <3>1. \A i \in DOMAIN pending' : pending'[i].at <= now
      BY <1>n, <2>5, <2>c DEF TimesPast, BackfillInv
    <3> QED
      BY <1>u, <1>d, <2>1, <3>1, Zenon DEF TimesPast, BackfillInv
  <2>9. Phases'
    <3>1. LastImage' = LastImage
      BY <2>1, Zenon DEF LastImage
    <3> QED
      BY <1>u, <1>2, <2>1, <2>3, <2>4, <2>c, <3>1, Zenon DEF Phases, BackfillInv
  <2>10. ImagesPast'
    BY <1>u, <2>1, <2>5, <2>c, Zenon DEF ImagesPast, BackfillInv
  <2>11. GapOpen'
    BY <1>u, <2>1, Zenon DEF GapOpen, BackfillInv
  <2>12. Delivery'
    <3>1. SubscribedAt' = now
      BY <1>u, <1>2, <2>3, <2>4, <2>c, Zenon DEF SubscribedAt
    <3>2. record'.state # "Online"
      BY <1>2, <2>1, Zenon DEF Phases, BackfillInv
    <3> QED
      BY <1>u, <1>d, <3>1, <3>2, Zenon DEF Delivery, BackfillInv
  <2> QED
    BY <2>6, <2>7, <2>8, <2>9, <2>10, <2>11, <2>12 DEF BackfillInv
<1> QED
  BY <1>1, <1>2, Zenon

\* The worker starts: it applies the changes that came while it read the records.
LEMMA WorkerStartsKeeps == Keeps(WorkerStarts)
<1> SUFFICES ASSUME BackfillInv, WorkerStarts PROVE BackfillInv'
  BY DEF Keeps
<1>t. Typed
  BY TypedParts DEF BfInv, BackfillInv
<1>u. /\ service = "read" /\ service' = "started" /\ pending' = <<>>
      /\ Become(AppliedPending)
      /\ UNCHANGED <<now, live, liveSince, subscribed, query, changes, reach, reachAt, msg>>
  BY Zenon DEF WorkerStarts
<1>n. /\ now \in Int /\ liveSince \in Int /\ reachAt \in Int
  BY <1>t DEF Typed
<1>r. record = LastImage.record /\ record.state # "Online" /\ query = NoQuery /\ since = 0
  BY <1>u, Zenon DEF Phases, BackfillInv
<1>p. \A i \in DOMAIN pending' : pending'[i].at <= now
  BY <1>u
<1>b. ASSUME NEW r \in Records, record' = r, since' \in Int,
             promised' \in [made : BOOLEAN, from : Int],
             (LastImage.record = r /\ images' = images) \/ WriteRecord(r)
      PROVE  BfTypeOK'
  <2>1. images' \in Seq(Images) /\ Len(images') \in 1..(MaxWrites + 1)
    BY <1>b, RecordWritten DEF BfInv, BackfillInv
  <2>2. pending' \in Seq([subscribed : BOOLEAN, at : Int])
    BY <1>u
  <2> QED
    BY <1>u, <1>b, <2>1, <2>2, Zenon DEF BfInv, BfTypeOK, BackfillInv
<1>1. CASE pending = <<>>
  <2>1. AppliedPending = Topic
    BY <1>1, Zenon DEF AppliedPending
  <2>2. UNCHANGED <<record, since, promised, images>>
    BY <1>u, <2>1, Zenon DEF Become, Topic
  <2>3. ~subscribed
    BY <1>u, <1>1, Zenon DEF Phases, BackfillInv
  <2>4. BfInv'
    BY <1>u, <2>2 DEF BfInv, BfTypeOK, BackfillInv
  <2>5. NothingLost'
    <3>1. ASSUME promised.made, msg.fate = "missed", msg.at >= promised.from
          PROVE  record.state = "Offline" /\ record.timestamp <= msg.timestamp
      <4>1. record.state = "Offline"
        BY <1>r, <1>t, <3>1, Zenon DEF Phases, Typed, BackfillInv
      <4>2. GapFrom(LastImage) <= msg.timestamp
        BY <1>r, <3>1, <4>1, LastImageIn, Zenon DEF NothingLost, BfInv, BackfillInv
      <4>3. GapFrom(LastImage) = record.timestamp
        BY <1>r, <4>1, Zenon DEF GapFrom, AtStart
      <4> QED
        BY <4>1, <4>2, <4>3, Zenon
    <3> QED
      BY <1>u, <2>2, <3>1, Zenon DEF NothingLost, GapFrom, BackfillInv
  <2>6. TimesPast'
    BY <1>u, <1>p, <2>2, Zenon DEF TimesPast, BackfillInv
  <2>7. Phases'
    <3>1. LastImage' = LastImage
      BY <2>2, Zenon DEF LastImage
    <3> QED
      BY <1>u, <1>r, <2>2, <2>3, <3>1, Zenon DEF Phases, BackfillInv
  <2>8. ImagesPast'
    BY <1>u, <2>2, Zenon DEF ImagesPast, BackfillInv
  <2>9. GapOpen'
    BY <1>u, <2>2, Zenon DEF GapOpen, BackfillInv
  <2>10. Delivery'
    <3>1. SubscribedAt' = SubscribedAt
      BY <1>u, <1>r, <1>1, <2>2, Zenon DEF SubscribedAt
    <3> QED
      BY <1>u, <1>r, <2>2, <2>3, <3>1, Zenon DEF Delivery, BackfillInv
  <2> QED
    BY <2>4, <2>5, <2>6, <2>7, <2>8, <2>9, <2>10 DEF BackfillInv
<1>2. CASE pending # <<>>
  <2> DEFINE change == pending[Len(pending)]
             st == IF \E i \in DOMAIN pending : ~pending[i].subscribed THEN NoTopic
                                                                       ELSE Topic
  <2>1. AppliedPending = Applied(change, st)
    BY <1>2, Zenon DEF AppliedPending
  <2>2. /\ Len(pending) \in DOMAIN pending /\ change.at \in Int /\ change.at <= now
        /\ change.subscribed = subscribed
    BY <1>2, <1>t, <1>u, Zenon DEF Typed, TimesPast, Phases, BackfillInv
  <2>3. st = Topic \/ st = NoTopic
    BY Zenon
  <2>4. /\ Topic.record = record /\ Topic.promised = promised
        /\ NoTopic.record = NoRecord /\ NoRecord.state = "none"
    BY Zenon DEF Topic, NoTopic, NoRecord, Record
  <2>a. SubscribedAt = change.at
    BY <1>2, <1>u, Zenon DEF SubscribedAt
  <2>w. \A i \in DOMAIN images : WrittenBy(images[i], change.at)
    BY <1>u, <2>2, Zenon DEF ImagesPast, BackfillInv
  <2> HIDE DEF change, st
  <2>5. CASE ~subscribed
    <3>1. Applied(change, st) = [record |-> NoRecord, since |-> 0, promised |-> NoPromise]
      BY <2>2, <2>5, AppliedCases, Zenon
    <3>2. record' = NoRecord /\ since' = 0 /\ promised' = NoPromise
          /\ ((NoRecord = record /\ images' = images) \/ WriteRecord(NoRecord))
      BY <1>u, <2>1, <3>1 DEF Become
    <3>4. NoRecord \in Records /\ NoPromise \in [made : BOOLEAN, from : Int]
      BY DEF NoRecord, Record, Records, NoPromise
    <3>5. BfTypeOK'
      BY <1>b, <1>r, <3>2, <3>4
    <3>6. subscribed' = FALSE
      BY <1>u, <2>5, Zenon DEF BfInv, BfTypeOK, BackfillInv
    <3>7. Unsubscribes
      BY <1>u, <1>r, <1>p, <3>2, <3>5, <3>6, Zenon DEF Unsubscribes
    <3> QED
      BY <3>7, UnsubscribeKeeps DEF Keeps
  <2>6. CASE subscribed
    <3>1. subscribed' = TRUE
      BY <1>u, <2>6, Zenon DEF BfInv, BfTypeOK, BackfillInv
    <3>2. ReachAfter(change.at)
      BY <1>u, <2>6, <2>a, Zenon DEF ReachAfter, Delivery, TimesPast, BackfillInv
    <3>3. CASE st = Topic /\ record.state # "none"
      <4>1. Applied(change, st)
              = [st EXCEPT !.since = change.at,
                           !.promised = IF promised.made THEN promised
                                        ELSE [made |-> TRUE, from |-> change.at]]
        BY <2>2, <2>4, <2>6, <3>3, AppliedCases, Zenon
      <4>2. /\ record' = record /\ since' = change.at /\ images' = images
            /\ promised' = IF promised.made THEN promised
                           ELSE [made |-> TRUE, from |-> change.at]
        BY <1>u, <2>1, <3>3, <4>1, Zenon DEF Become, Topic
      <4>3. promised' \in [made : BOOLEAN, from : Int]
        BY <2>2, <4>2, Zenon DEF BfInv, BfTypeOK, BackfillInv
      <4>4. BfTypeOK'
        BY <1>b, <1>r, <2>2, <4>2, <4>3, Zenon DEF BfInv, BfTypeOK, BackfillInv
      <4>5. Subscribes(change.at) /\ KeepsRecord(change.at)
        BY <1>u, <1>r, <1>p, <2>2, <2>w, <3>1, <3>3, <4>2, <4>4, Zenon
           DEF Subscribes, KeepsRecord
      <4> QED
        BY <2>2, <3>2, <4>5, SubscribeKeeps, Zenon DEF Keeps
    <3>4. CASE st = NoTopic \/ record.state = "none"
      <4> DEFINE new == NewRecord(change.at, live, liveSince)
      <4>1. st.record.state = "none"
        BY <2>3, <2>4, <3>4, Zenon
      <4>2. /\ Applied(change, st).record = new /\ Applied(change, st).since = change.at
            /\ Applied(change, st).promised =
                 [made |-> TRUE,
                  from |-> IF new.state = "Online" THEN change.at + DelayExtra
                                                   ELSE change.at]
        BY <2>2, <2>6, <4>1, AppliedCases, Zenon
      <4>3. /\ record' = new /\ since' = change.at
            /\ promised' = [made |-> TRUE,
                            from |-> IF record'.state = "Online" THEN change.at + DelayExtra
                                                                 ELSE change.at]
            /\ ((LastImage.record = record' /\ images' = images) \/ WriteRecord(record'))
        BY <1>u, <1>r, <2>1, <4>2, Zenon DEF Become
      <4>4. promised' \in [made : BOOLEAN, from : Int]
        BY <2>2, <4>3, TimesAssumption
      <4>5. new \in Records
        BY <2>2, TimesAssumption DEF NewRecord, Record, Records
      <4> HIDE DEF new
      <4>6. BfTypeOK'
        BY <1>b, <2>2, <4>3, <4>4, <4>5, Zenon
      <4>7. Subscribes(change.at)
        BY <1>u, <1>r, <1>p, <2>2, <2>w, <3>1, <4>3, <4>6, Zenon DEF Subscribes
      <4>8. StartsRecord(change.at)
        BY <4>3, Zenon DEF StartsRecord, new
      <4> QED
        BY <2>2, <3>2, <4>7, <4>8, SubscribeKeeps, Zenon DEF Keeps
    <3> QED
      BY <2>3, <3>3, <3>4, Zenon
  <2> QED
    BY <2>5, <2>6, Zenon
<1> QED
  BY <1>1, <1>2, Zenon

\* The invariant holds at the first start, on a new disk.
LEMMA BackfillInvInit ==
    ASSUME BfInit
    PROVE  BackfillInv
<1> USE TimesAssumption DEF BfInit
<1>1. /\ NoRecord \in Records /\ NoQuery \in Queries /\ NoRecord.state = "none"
      /\ EmptyDisk \in Images /\ EmptyDisk.record = NoRecord /\ ~EmptyDisk.hasLast
  BY DEF NoRecord, Record, Records, NoQuery, Queries, EmptyDisk, Image, Images
<1>2. /\ images \in Seq(Images) /\ Len(images) = 1 /\ LastImage = EmptyDisk
      /\ \A i \in DOMAIN images : images[i] = EmptyDisk
  BY <1>1 DEF LastImage
<1>3. /\ pending \in Seq([subscribed : BOOLEAN, at : Int])
      /\ pending # <<>> <=> subscribed
      /\ \A i \in DOMAIN pending : pending[i].at = now /\ pending[i].subscribed = TRUE
      /\ subscribed => Len(pending) \in DOMAIN pending
  <2>1. CASE subscribed = TRUE
    <3>1. pending = <<[subscribed |-> TRUE, at |-> now]>>
      BY <2>1, Zenon
    <3> QED
      BY <3>1, <2>1
  <2>2. CASE subscribed = FALSE
    <3>1. pending = <<>>
      BY <2>2, Zenon
    <3> QED
      BY <3>1, <2>2
  <2> QED
    BY <2>1, <2>2, Zenon
<1>4. ~promised.made /\ msg.fate = "none"
  BY Zenon DEF NoPromise, NoMsg
<1>5. BfTypeOK
  <2>1. promised \in [made : BOOLEAN, from : Int]
        /\ msg \in [fate : Fates, at : Int, timestamp : Int]
    BY DEF NoPromise, NoMsg, Fates
  <2>2. reach \in {"up", "warming", "down"} /\ reachAt \in Int
    OBVIOUS
  <2>3. Len(images) \in 1..(MaxWrites + 1)
    BY <1>2
  <2> QED
    BY <1>1, <1>2, <1>3, <2>1, <2>2, <2>3 DEF BfTypeOK
<1>6. BfInv /\ NothingLost
  BY <1>4, <1>5, Zenon DEF BfInv, NothingLost
<1>7. TimesPast
  BY <1>3, <1>4 DEF TimesPast
<1>8. Phases
  BY <1>1, <1>2, <1>3, <1>4, Zenon DEF Phases
<1>9. ImagesPast
  BY <1>1, <1>2, Zenon DEF ImagesPast, WrittenBy
<1>10. GapOpen
  BY <1>1, Zenon DEF GapOpen
<1>11. Delivery
  <2>1. SubscribedAt \in Int
    BY <1>3 DEF SubscribedAt
  <2>2. now <= Latest(now, SubscribedAt)
    BY <2>1 DEF Latest
  <2>3. live => now < reachAt + DelayExtra /\ reachAt <= Latest(liveSince, SubscribedAt)
    BY <2>2
  <2> QED
    BY <1>1, <1>4, <2>3, Zenon DEF Delivery
<1> QED
  BY <1>6, <1>7, <1>8, <1>9, <1>10, <1>11, Zenon DEF BackfillInv

\* Every step keeps the invariant.
LEMMA BackfillInvStep ==
    ASSUME BackfillInv, [BfNext]_bfVars
    PROVE  BackfillInv'
<1>1. CASE Tick \/ WarmsUp \/ ReachLost \/ Publish
  BY <1>1, TickKeeps, WarmsUpKeeps, ReachLostKeeps, PublishKeeps, Zenon DEF Keeps
<1>2. CASE BackfillOnReceipt \/ Crash \/ StartRecvService
  BY <1>2, BackfillOnReceiptKeeps, CrashKeeps, StartRecvServiceKeeps, Zenon DEF Keeps
<1>3. CASE SubscriptionChanged \/ ReadRecords \/ WorkerStarts \/ LiveAgain \/ LiveLost
  BY <1>3, SubscriptionChangedKeeps, ReadRecordsKeeps, WorkerStartsKeeps,
     LiveAgainKeeps, LiveLostKeeps, Zenon DEF Keeps
<1>4. CASE BeginFetch \/ FetchFails \/ LastPage
  BY <1>4, BeginFetchKeeps, FetchFailsKeeps, LastPageKeeps DEF Keeps
<1>5. ASSUME NEW last \in StartTime - Variance - OutageWindow .. EndTime, FullPage(last)
      PROVE  BackfillInv'
  <2>1. last \in Int
    BY TimesAssumption
  <2> QED
    BY <1>5, <2>1, FullPageKeeps, Zenon DEF Keeps
<1>6. CASE UNCHANGED bfVars
  <2>u. UNCHANGED <<now, service, live, liveSince, record, subscribed, since, pending,
                    query, images, changes, reach, reachAt, promised, msg>>
    BY <1>6, Zenon DEF bfVars, nodeVars
  <2>1. BfInv'
    BY <2>u, Zenon DEF BackfillInv, BfInv, BfTypeOK
  <2>2. NothingLost' /\ TimesPast'
    BY <2>u, Zenon DEF BackfillInv, NothingLost, GapFrom, TimesPast
  <2>3. Phases' /\ ImagesPast'
    BY <2>u, Zenon DEF BackfillInv, Phases, LastImage, ImagesPast
  <2>4. GapOpen' /\ Delivery'
    BY <2>u, Zenon DEF BackfillInv, GapOpen, Delivery, SubscribedAt
  <2> QED
    BY <2>1, <2>2, <2>3, <2>4, Zenon DEF BackfillInv
<1> QED
  BY <1>1, <1>2, <1>3, <1>4, <1>5, <1>6, Zenon DEF BfNext

\* The invariant holds in every behaviour of the service and its network.
THEOREM BackfillInvariant == BfSpec => []BackfillInv
<1>1. BfInit => BackfillInv
  BY BackfillInvInit, Zenon
<1>2. BackfillInv /\ [BfNext]_bfVars => BackfillInv'
  BY BackfillInvStep, Zenon
<1> QED
  BY <1>1, <1>2, PTL DEF BfSpec

\* No message that the app was promised and did not get is lost: it is in the gap
\* of the record, or in an outage that will be seen, and on every disk that a
\* crash may leave (backfill.nim).
THEOREM NoMessageLost == BfSpec => []NothingLost
<1>1. BackfillInv => NothingLost
  BY Zenon DEF BackfillInv
<1> QED
  BY <1>1, BackfillInvariant, PTL

\* A Store query has a range that ends where live delivery or the archive does
\* (backfill.nim, the fetch of a topic).
THEOREM QueriesHaveRange == BfSpec => []BfInv
<1>1. BackfillInv => BfInv
  BY Zenon DEF BackfillInv
<1> QED
  BY <1>1, BackfillInvariant, PTL

\* A page moves the bound of its topic forward, or leaves it.
LEMMA PageForward ==
    ASSUME BackfillInv, query # NoQuery, NEW next \in Int,
           query.record.timestamp < next, next <= query.windowStop, Fetched(next)
    PROVE  record.timestamp <= record'.timestamp
<1>1. CASE record # query.record
  <2>1. record' = record
    BY <1>1, Zenon DEF Fetched
  <2>2. record.timestamp \in Int
    BY TypedParts, Zenon DEF BackfillInv, BfInv, Typed
  <2> QED
    BY <2>1, <2>2
<1>2. CASE record = query.record
  <2>1. record' = AfterFetch(next)
    BY <1>2, Zenon DEF Fetched
  <2> QED
    BY <1>2, <2>1, PageRecord, Zenon
<1> QED
  BY <1>1, <1>2, Zenon

\* No step moves the bound of a topic back that had a record before and after it.
LEMMA BoundForward ==
    ASSUME BackfillInv, [BfNext]_bfVars, record.state # "none", record'.state # "none"
    PROVE  record'.timestamp >= record.timestamp
<1>t. Typed
  BY TypedParts, Zenon DEF BackfillInv, BfInv
<1>r. record \in Records /\ record.timestamp \in Int /\ now \in Int
  BY <1>t DEF Typed, BackfillInv, BfInv, BfTypeOK
<1>n. NoRecord.state = "none"
  BY Zenon DEF NoRecord, Record
<1>s. record' = record => record'.timestamp >= record.timestamp
  BY <1>r
<1>1. CASE UNCHANGED bfVars
  BY <1>1, <1>s, Zenon DEF bfVars, nodeVars
<1>2. CASE Tick \/ WarmsUp \/ ReachLost \/ Publish \/ BackfillOnReceipt
           \/ StartRecvService \/ LiveAgain \/ BeginFetch \/ FetchFails
  BY <1>2, <1>s, Zenon DEF Tick, WarmsUp, ReachLost, Publish, BackfillOnReceipt,
       StartRecvService, LiveAgain, BeginFetch, FetchFails, nodeVars
<1>3. CASE Crash
  BY <1>3, <1>n, Zenon DEF Crash
<1>4. CASE ReadRecords
  BY <1>4, <1>n, Zenon DEF ReadRecords, BackfillInv, Phases
<1>5. CASE LiveLost
  <2>1. record' = InOutage(record, now) /\ now <= now
    BY <1>5, <1>r DEF LiveLost
  <2>2. record.timestamp <= record'.timestamp /\ record'.timestamp \in Int
    BY <1>r, <2>1, OutageLater, Zenon
  <2> QED
    BY <1>r, <2>2, Zenon
<1>6. CASE SubscriptionChanged
  <2>1. CASE service # "started"
    BY <1>6, <1>s, <2>1, Zenon DEF SubscriptionChanged
  <2>2. CASE service = "started"
    <3> DEFINE change == [subscribed |-> subscribed', at |-> now]
    <3>1. record' = Applied(change, Topic).record
      BY <1>6, <2>2, Zenon DEF SubscriptionChanged, Become
    <3>2. Topic.record = record
      BY Zenon DEF Topic
    <3> HIDE DEF change
    <3>3. CASE ~change.subscribed
      <4>1. Applied(change, Topic)
              = [record |-> NoRecord, since |-> 0, promised |-> NoPromise]
        BY <3>3, AppliedCases, Zenon
      <4>2. record' = NoRecord
        BY <3>1, <4>1
      <4> QED
        BY <1>n, <4>2, Zenon
    <3>4. CASE change.subscribed
      <4>1. Applied(change, Topic)
              = [Topic EXCEPT !.since = change.at,
                              !.promised = IF Topic.promised.made THEN Topic.promised
                                           ELSE [made |-> TRUE, from |-> change.at]]
        BY <3>2, <3>4, AppliedCases, Zenon
      <4>2. record' = record
        BY <3>1, <4>1, Zenon DEF Topic
      <4> QED
        BY <1>s, <4>2, Zenon
    <3> QED
      BY <3>3, <3>4, Zenon
  <2> QED
    BY <2>1, <2>2, Zenon
<1>7. CASE WorkerStarts
  <2>u. service = "read" /\ record' = AppliedPending.record /\ record = LastImage.record
    BY <1>7, Zenon DEF WorkerStarts, Become, BackfillInv, Phases
  <2>1. CASE pending = <<>>
    BY <1>s, <2>u, <2>1, Zenon DEF AppliedPending, Topic
  <2>2. CASE pending # <<>>
    <3> DEFINE change == pending[Len(pending)]
               st == IF \E i \in DOMAIN pending : ~pending[i].subscribed THEN NoTopic
                                                                         ELSE Topic
    <3>1. record' = Applied(change, st).record
      BY <2>u, <2>2, Zenon DEF AppliedPending
    <3>2. Len(pending) \in DOMAIN pending /\ change.at \in Int
      BY <1>t, <2>2, Zenon DEF Typed
    <3>3. st = Topic \/ st = NoTopic
      BY Zenon
    <3>4. WrittenBy(LastImage, change.at)
      BY <2>u, <3>2, LastImageIn, Zenon DEF BackfillInv, BfInv, ImagesPast
    <3>5. record.timestamp <= change.at - Variance
      BY <2>u, <3>4, Zenon DEF WrittenBy
    <3>6. Topic.record = record /\ NoTopic.record.state = "none"
      BY <1>n, Zenon DEF Topic, NoTopic
    <3> HIDE DEF change, st
    <3>7. CASE ~change.subscribed
      <4>1. Applied(change, st)
              = [record |-> NoRecord, since |-> 0, promised |-> NoPromise]
        BY <3>7, AppliedCases, Zenon
      <4>2. record' = NoRecord
        BY <3>1, <4>1
      <4> QED
        BY <1>n, <4>2
    <3>8. CASE change.subscribed /\ st = Topic
      <4>1. Applied(change, Topic)
              = [Topic EXCEPT !.since = change.at,
                              !.promised = IF Topic.promised.made THEN Topic.promised
                                           ELSE [made |-> TRUE, from |-> change.at]]
        BY <3>6, <3>8, AppliedCases, Zenon
      <4>2. record' = record
        BY <3>1, <3>8, <4>1, Zenon DEF Topic
      <4> QED
        BY <1>s, <4>2
    <3>9. CASE change.subscribed /\ st = NoTopic
      <4>1. record' = NewRecord(change.at, live, liveSince)
        BY <3>1, <3>6, <3>9, AppliedCases, Zenon
      <4>2. record'.timestamp = change.at - Variance
        BY <4>1, Zenon DEF NewRecord, Record
      <4> QED
        BY <1>r, <3>2, <3>5, <4>2, TimesAssumption, Zenon
    <3> QED
      BY <3>3, <3>7, <3>8, <3>9, Zenon
  <2> QED
    BY <2>1, <2>2, Zenon
<1>8. CASE LastPage
  <2>1. query # NoQuery /\ Fetched(query.windowStop)
    BY <1>8, Zenon DEF LastPage
  <2>2. query.windowStop \in Int /\ query.record.timestamp < query.windowStop
        /\ query.windowStop <= query.windowStop
    BY <1>t, <2>1 DEF Typed, BackfillInv, BfInv
  <2>3. record.timestamp <= record'.timestamp
    BY <2>1, <2>2, PageForward, Zenon
  <2>4. record'.timestamp \in Int
    BY <1>8, LastPageKeeps, Zenon DEF Keeps, BackfillInv, BfInv, BfTypeOK, Records
  <2> QED
    BY <1>r, <2>3, <2>4, Zenon
<1>9. ASSUME NEW last \in StartTime - Variance - OutageWindow .. EndTime, FullPage(last)
      PROVE  record'.timestamp >= record.timestamp
  <2> DEFINE next == IF last = query.record.timestamp THEN last + 1 ELSE last
  <2>1. query # NoQuery /\ Fetched(next)
        /\ query.record.timestamp <= last /\ last < query.windowStop
    BY <1>9, Zenon DEF FullPage
  <2>2. last \in Int /\ query.record.timestamp \in Int /\ query.windowStop \in Int
    BY <1>t, TimesAssumption DEF Typed
  <2>3. next \in Int /\ query.record.timestamp < next /\ next <= query.windowStop
    BY <2>1, <2>2
  <2> HIDE DEF next
  <2>4. record.timestamp <= record'.timestamp
    BY <2>1, <2>3, PageForward, Zenon
  <2>5. record'.timestamp \in Int
    BY <1>9, <2>2, FullPageKeeps, Zenon DEF Keeps, BackfillInv, BfInv, BfTypeOK, Records
  <2> QED
    BY <1>r, <2>4, <2>5, Zenon
<1> QED
  BY <1>1, <1>2, <1>3, <1>4, <1>5, <1>6, <1>7, <1>8, <1>9, Zenon DEF BfNext

\* The bound of a topic never moves back while it has a record: no time is fetched
\* twice, and a new subscription brings no history (backfill.nim).
THEOREM BoundNeverMovesBack == BfSpec => BoundNeverBack
<1>1. BackfillInv /\ [BfNext]_bfVars =>
        [promised' = promised /\ record.state # "none" /\ record'.state # "none"
           => record'.timestamp >= record.timestamp]_bfVars
  BY BoundForward, Zenon
<1> QED
  BY <1>1, BackfillInvariant, PTL DEF BfSpec, BoundNeverBack

============================================================================
