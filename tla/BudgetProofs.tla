---------------------------- MODULE BudgetProofs ----------------------------
(* The two budgets of an epoch, for every value of the constants. The cap  *)
(* of the rate limit manager gives way only to calls that fall back to a   *)
(* clock which disagrees with RLN, and by a bounded amount for each, and   *)
(* only a spent epoch refuses. No RLN message id is in the proofs of two   *)
(* messages, through restarts, failed and late saves and cancelled calls.  *)
EXTENDS RateLimit, RlnMessageIds, WaitQueuesProofs, TLAPS

-----------------------------------------------------------------------------
(* The rate limit manager: CountInv is inductive.                          *)

\* The epoch that an admission of a moment counts for.
EpochAt(t) == IF Provider = "none" THEN WallEpoch(t) ELSE RlnEpoch(t)

\* The earliest epoch that may still be charged.
FirstEpoch == EpochAt(IF calling = "idle" THEN time ELSE asked)

\* The admissions of the first epoch that the manager's window counts.
Counted == IF FirstEpoch = mgr.currentEpochIndex THEN mgr.sentInCurrentEpoch ELSE 0

\* The inductive invariant: no epoch after the first that may be charged has
\* admissions; that one has no more than its clashes and the window account for;
\* and a window that did not drift is never ahead of it, and counts only
\* admissions of its own epoch.
CountInv ==
    /\ RLTypeOK
    /\ asked <= time
    /\ CapBounded
    /\ RateLimitEnabled =>
         /\ mgr.sentInCurrentEpoch <= MessagesPerEpoch
         /\ \A e \in 0..MaxTime : e > FirstEpoch => charged[e] = 0
         /\ charged[FirstEpoch] <= Excess(FirstEpoch) + Counted
         /\ ~drifted => /\ mgr.currentEpochIndex <= FirstEpoch
                        /\ Counted <= charged[FirstEpoch]

-----------------------------------------------------------------------------

\* Division by a period brackets a time: what `div` computes.
LEMMA DivFacts ==
    ASSUME NEW p \in Nat \ {0}, NEW t \in Nat
    PROVE  /\ t \div p \in Nat
           /\ p * (t \div p) <= t
           /\ t < p * (t \div p) + p
           /\ t \div p <= t
  <1>1. /\ t \div p \in Int
        /\ t = p * (t \div p) + (t % p)
        /\ t % p \in 0..(p - 1)
    OBVIOUS
  <1>2. t \div p >= 0
    OBVIOUS
  <1>3. p * (t \div p) >= t \div p
    BY <1>1, <1>2
  <1> QED BY <1>1, <1>2, <1>3

\* A later moment is never in an earlier epoch.
LEMMA DivMonotonic ==
    ASSUME NEW p \in Nat \ {0}, NEW s \in Nat, NEW t \in Nat, s <= t
    PROVE  s \div p <= t \div p
  <1> DEFINE a == s \div p
             b == t \div p
  <1>1. /\ a \in Nat /\ b \in Nat
        /\ p * a <= s /\ t < p * b + p
    BY DivFacts, Zenon
  <1> HIDE DEF a, b
  <1>2. SUFFICES ASSUME a >= b + 1 PROVE FALSE
    BY <1>1 DEF a, b
  <1>3. p * a >= p * (b + 1)
    BY <1>1, <1>2
  <1>4. p * (b + 1) = p * b + p
    BY <1>1
  <1> QED BY <1>1, <1>3, <1>4

\* approachedAt computes ceil(limit * percent / 100) exactly: the smallest
\* count that is at least that share of the limit.
THEOREM ApproachedIsCeiling ==
    ASSUME NEW percent \in 0..100, NEW limit \in Nat
    PROVE  /\ ApproachedAtOf(percent, limit) \in Nat
           /\ 100 * ApproachedAtOf(percent, limit) >= limit * percent
           /\ 100 * ApproachedAtOf(percent, limit) < limit * percent + 100
  <1> DEFINE q == limit \div 100
             r == limit % 100
             x == r * percent
             c == (x + 99) \div 100
             y == q * percent
  <1>1. q \in Nat /\ r \in 0..99 /\ limit = 100 * q + r
    OBVIOUS
  <1>2. x \in Nat /\ y \in Nat
    BY <1>1
  <1>3. limit * percent = 100 * y + x
    <2> HIDE DEF q, r
    <2>1. (100 * q + r) * percent = 100 * (q * percent) + r * percent
      BY <1>1
    <2> QED BY <1>1, <2>1, Zenon
  <1>4. c \in Nat /\ 100 * c >= x /\ 100 * c < x + 100
    <2> HIDE DEF x
    <2> QED BY <1>2
  <1>5. ApproachedAtOf(percent, limit) = y + c
    BY Zenon DEF ApproachedAtOf
  <1> HIDE DEF c, y, x, q, r
  <1> QED BY <1>2, <1>3, <1>4, <1>5

\* A threshold of 100 percent is the limit itself, so `Approached` is never
\* reported before `Exhausted` (rate_limit_config.nim, "100 never reports
\* approached, only exhausted"); and no threshold exceeds the limit, so the
\* sum of approachedAt stays within the width of the limit.
THEOREM ApproachedWithinLimit ==
    ASSUME NEW limit \in Nat
    PROVE  /\ ApproachedAtOf(100, limit) = limit
           /\ \A percent \in 0..100 : ApproachedAtOf(percent, limit) <= limit
  <1>1. ASSUME NEW percent \in 0..100
        PROVE  ApproachedAtOf(percent, limit) <= limit
    <2> DEFINE a == ApproachedAtOf(percent, limit)
               x == limit * percent
    <2>1. a \in Nat /\ 100 * a < limit * percent + 100
      BY ApproachedIsCeiling, Zenon
    <2>4. percent \in Nat /\ x \in Nat /\ 100 * a < x + 100
      BY <2>1
    <2>2. x <= limit * 100
      OBVIOUS
    <2> HIDE DEF a, x
    <2>3. a <= limit
      BY <2>1, <2>2, <2>4
    <2> QED BY <2>3, Zenon DEF a
  <1>2. ApproachedAtOf(100, limit) = limit
    <2> DEFINE a == ApproachedAtOf(100, limit)
    <2>1. a \in Nat /\ 100 * a >= limit * 100 /\ 100 * a < limit * 100 + 100
      BY ApproachedIsCeiling
    <2> HIDE DEF a
    <2>2. a = limit
      BY <2>1
    <2> QED BY <2>2, Zenon DEF a
  <1> QED BY <1>1, <1>2, Zenon

-----------------------------------------------------------------------------

\* The epochs of a run lie within the table of admissions, and time never goes
\* to an earlier one.
LEMMA EpochFacts ==
    ASSUME NEW s \in 0..MaxTime, NEW t \in 0..MaxTime, s <= t
    PROVE  /\ WallEpoch(s) \in 0..MaxTime /\ RlnEpoch(s) \in 0..MaxTime
           /\ EpochAt(s) \in 0..MaxTime
           /\ EpochAt(s) <= EpochAt(t)
  <1> USE PeriodsAssumption
  <1>1. s \in Nat /\ t \in Nat
    OBVIOUS
  <1>2. /\ s \div EpochPeriodSec \in Nat /\ s \div EpochPeriodSec <= s
        /\ s \div RlnPeriodSec \in Nat /\ s \div RlnPeriodSec <= s
    BY <1>1, DivFacts, Zenon
  <1>3. /\ s \div EpochPeriodSec <= t \div EpochPeriodSec
        /\ s \div RlnPeriodSec <= t \div RlnPeriodSec
    BY <1>1, DivMonotonic, Zenon
  <1> QED BY <1>2, <1>3 DEF WallEpoch, RlnEpoch, EpochAt

\* What a call learns: the epoch that it charges is between the first that may be
\* charged and the one of this moment; without a clash the window rolls to it, and
\* a clash charges the epoch of this moment.
LEMMA AnswerFacts ==
    ASSUME CountInv, calling # "idle", NEW quota \in Answers
    PROVE  /\ FirstEpoch = EpochAt(asked) /\ FirstEpoch \in Nat
           /\ EpochAt(time) \in 0..MaxTime /\ ChargedEpoch(quota) \in 0..MaxTime
           /\ FirstEpoch <= ChargedEpoch(quota) /\ ChargedEpoch(quota) <= EpochAt(time)
           /\ WallEpoch(time) \in Nat /\ RlnEpoch(time) \in 0..MaxTime
           /\ quota.some => quota.epochIndex \in Nat /\ quota.rateLimit \in Nat
           /\ ~Clash(quota) => ChargedEpoch(quota) =
                                 IF quota.some THEN quota.epochIndex ELSE WallEpoch(time)
           /\ Clash(quota) => /\ ChargedEpoch(quota) = EpochAt(time)
                              /\ RlnEpoch(time) = EpochAt(time)
  <1> USE PeriodsAssumption
  <1>1. /\ time \in 0..MaxTime /\ asked \in 0..MaxTime /\ asked <= time
        /\ FirstEpoch = EpochAt(asked)
    BY Zenon DEF CountInv, RLTypeOK, FirstEpoch
  <1>2. /\ WallEpoch(time) \in 0..MaxTime /\ RlnEpoch(time) \in 0..MaxTime
        /\ RlnEpoch(asked) \in 0..MaxTime
        /\ EpochAt(asked) \in 0..MaxTime /\ EpochAt(time) \in 0..MaxTime
        /\ EpochAt(asked) <= EpochAt(time)
    BY <1>1, EpochFacts
  <1>3. CASE quota = NoQuota
    <2>1. ~quota.some
      BY <1>3, Zenon DEF NoQuota
    <2>2. ChargedEpoch(quota) = EpochAt(time)
      BY <2>1, Zenon DEF ChargedEpoch, EpochAt
    <2>3. /\ Clash(quota) => RlnEpoch(time) = EpochAt(time)
          /\ ~Clash(quota) => WallEpoch(time) = EpochAt(time)
      BY <2>1, Zenon DEF Clash, EpochAt
    <2> QED BY <1>1, <1>2, <2>1, <2>2, <2>3
  <1>4. CASE quota # NoQuota
    <2>1. /\ Provider # "none" /\ quota.some = TRUE
          /\ quota.epochIndex = RlnEpoch(asked) /\ quota.rateLimit \in Nat
      BY <1>4 DEF Answers, SomeQuota
    <2>2. ChargedEpoch(quota) = EpochAt(asked) /\ EpochAt(asked) = RlnEpoch(asked)
      BY <2>1, Zenon DEF ChargedEpoch, EpochAt
    <2>3. ~Clash(quota)
      BY <2>1, Zenon DEF Clash
    <2> QED BY <1>1, <1>2, <2>1, <2>2, <2>3
  <1> QED BY <1>3, <1>4, Zenon

\* The window that refreshEpoch rolls to. Without a clash its count accounts for
\* the admissions of the epoch that is charged, and, if it did not drift, counts
\* no others.
LEMMA RolledWindow ==
    ASSUME CountInv, calling # "idle", NEW quota \in Answers,
           NEW rolled, rolled = RefreshEpoch(mgr, quota, WallEpoch(time))
    PROVE  /\ rolled \in Manager
           /\ RateLimitEnabled =>
                /\ rolled.sentInCurrentEpoch <= MessagesPerEpoch
                /\ ~Clash(quota) =>
                     /\ rolled.currentEpochIndex = ChargedEpoch(quota)
                     /\ charged[ChargedEpoch(quota)] <=
                          Excess(ChargedEpoch(quota)) + rolled.sentInCurrentEpoch
                     /\ ~(drifted /\ rolled = mgr) =>
                          rolled.sentInCurrentEpoch <= charged[ChargedEpoch(quota)]
  <1> DEFINE c == ChargedEpoch(quota)
             i == IF quota.some THEN quota.epochIndex ELSE WallEpoch(time)
  <1>1. /\ FirstEpoch \in Nat /\ c \in 0..MaxTime /\ FirstEpoch <= c
        /\ i \in Nat /\ (~Clash(quota) => i = c)
    BY AnswerFacts, Zenon
  <1>2. /\ mgr \in Manager /\ charged \in [0..MaxTime -> Nat]
        /\ clashes \in [0..MaxTime -> Nat] /\ MessagesPerEpoch \in Nat
    BY RateLimitAssumption, Zenon DEF CountInv, RLTypeOK
  <1>3. rolled = IF RateLimitEnabled /\ i # mgr.currentEpochIndex
                   THEN [currentEpochIndex |-> i, sentInCurrentEpoch |-> 0]
                   ELSE mgr
    BY Zenon DEF RefreshEpoch
  <1> HIDE DEF i
  <1>4. /\ mgr.currentEpochIndex \in Nat /\ mgr.sentInCurrentEpoch \in Nat
        /\ rolled \in Manager
    BY <1>1, <1>2, <1>3 DEF Manager
  <1>5. charged[c] \in Nat /\ Excess(c) \in Nat
    <2>1. charged[c] \in Nat /\ clashes[c] \in Nat
      BY <1>1, <1>2, Zenon
    <2> QED BY <1>2, <2>1 DEF Excess
  <1> HIDE DEF c
  <1>6. ASSUME RateLimitEnabled PROVE rolled.sentInCurrentEpoch <= MessagesPerEpoch
    <2>1. mgr.sentInCurrentEpoch <= MessagesPerEpoch
      BY <1>6, Zenon DEF CountInv
    <2> QED BY <1>2, <1>3, <2>1
  <1>7. ASSUME RateLimitEnabled, ~Clash(quota), c = mgr.currentEpochIndex
        PROVE  /\ rolled.currentEpochIndex = c
               /\ charged[c] <= Excess(c) + rolled.sentInCurrentEpoch
               /\ ~(drifted /\ rolled = mgr) => rolled.sentInCurrentEpoch <= charged[c]
    <2>1. rolled = mgr
      BY <1>1, <1>3, <1>7, Zenon
    <2>2. CASE c = FirstEpoch
      <3>1. Counted = mgr.sentInCurrentEpoch
        BY <1>7, <2>2, Zenon DEF Counted
      <3> QED BY <1>7, <2>1, <2>2, <3>1, Zenon DEF CountInv
    <2>3. CASE c # FirstEpoch
      <3>1. c > FirstEpoch
        BY <1>1, <2>3
      <3>2. charged[c] = 0
        BY <1>1, <1>7, <3>1, Zenon DEF CountInv
      <3>3. drifted
        <4>1. ~(mgr.currentEpochIndex <= FirstEpoch)
          BY <1>1, <1>7, <3>1
        <4> QED BY <1>7, <4>1, Zenon DEF CountInv
      <3> QED BY <1>4, <1>5, <1>7, <2>1, <3>2, <3>3
    <2> QED BY <2>2, <2>3, Zenon
  <1>8. ASSUME RateLimitEnabled, ~Clash(quota), c # mgr.currentEpochIndex
        PROVE  /\ rolled.currentEpochIndex = c
               /\ charged[c] <= Excess(c) + rolled.sentInCurrentEpoch
               /\ rolled.sentInCurrentEpoch <= charged[c]
    <2>1. rolled = [currentEpochIndex |-> c, sentInCurrentEpoch |-> 0]
      BY <1>1, <1>3, <1>8, Zenon
    <2>2. charged[c] <= Excess(c)
      <3>1. CASE c = FirstEpoch
        <4>1. Counted = 0
          BY <1>8, <3>1, Zenon DEF Counted
        <4>2. charged[c] <= Excess(c) + Counted
          BY <1>8, <3>1, Zenon DEF CountInv
        <4> QED BY <1>5, <4>1, <4>2
      <3>2. CASE c # FirstEpoch
        <4>1. c > FirstEpoch
          BY <1>1, <3>2
        <4>2. charged[c] = 0
          BY <1>1, <1>8, <4>1, Zenon DEF CountInv
        <4> QED BY <1>5, <4>2
      <3> QED BY <3>1, <3>2, Zenon
    <2> QED BY <1>5, <2>1, <2>2
  <1> QED BY <1>4, <1>6, <1>7, <1>8, Zenon DEF c

\* How a call ends that charges n messages: quotaState none, admit none or one.
Ends(quota, n) ==
    LET rolled == RefreshEpoch(mgr, quota, WallEpoch(time))
    IN  /\ calling' = "idle" /\ UNCHANGED <<time, asked>>
        /\ mgr' \in Manager
        /\ charged' = [charged EXCEPT ![ChargedEpoch(quota)] = @ + n]
        /\ RateLimitEnabled =>
             /\ mgr'.currentEpochIndex = rolled.currentEpochIndex
             /\ mgr'.sentInCurrentEpoch = rolled.sentInCurrentEpoch + n
             /\ mgr'.sentInCurrentEpoch <= MessagesPerEpoch
        /\ Watch(quota, rolled)

\* The end of a call keeps the count. It charges the epoch whose count it compared
\* with the limit, or the clash that it ran into makes up for it.
LEMMA EndStep ==
    ASSUME CountInv, calling # "idle", NEW quota \in Answers, NEW n \in {0, 1},
           Ends(quota, n)
    PROVE  CountInv'
  <1> DEFINE c == ChargedEpoch(quota)
             now2 == EpochAt(time)
             rolled == RefreshEpoch(mgr, quota, WallEpoch(time))
             after(e) == clashes'[e] * (MessagesPerEpoch + 1)
  <1>1. /\ calling' = "idle" /\ UNCHANGED <<time, asked>> /\ mgr' \in Manager
        /\ charged' = [charged EXCEPT ![c] = charged[c] + n]
        /\ Watch(quota, rolled)
        /\ RateLimitEnabled =>
             /\ mgr'.currentEpochIndex = rolled.currentEpochIndex
             /\ mgr'.sentInCurrentEpoch = rolled.sentInCurrentEpoch + n
             /\ mgr'.sentInCurrentEpoch <= MessagesPerEpoch
    BY Zenon DEF Ends
  <1>2. /\ now2 \in 0..MaxTime /\ c \in 0..MaxTime /\ FirstEpoch <= c /\ c <= now2
        /\ FirstEpoch \in Nat /\ RlnEpoch(time) \in 0..MaxTime
        /\ Clash(quota) => c = now2 /\ RlnEpoch(time) = now2
    BY AnswerFacts, Zenon
  <1>3. /\ rolled \in Manager
        /\ RateLimitEnabled /\ ~Clash(quota) =>
             /\ rolled.currentEpochIndex = c
             /\ charged[c] <= Excess(c) + rolled.sentInCurrentEpoch
             /\ ~(drifted /\ rolled = mgr) => rolled.sentInCurrentEpoch <= charged[c]
    BY RolledWindow, Zenon
  <1>4. /\ FirstEpoch' = now2
        /\ Counted' = IF now2 = mgr'.currentEpochIndex
                        THEN mgr'.sentInCurrentEpoch ELSE 0
    BY <1>1, Zenon DEF FirstEpoch, Counted, EpochAt, WallEpoch, RlnEpoch
  <1>5. /\ charged \in [0..MaxTime -> Nat] /\ clashes \in [0..MaxTime -> Nat]
        /\ time \in 0..MaxTime /\ asked \in 0..MaxTime /\ asked <= time
        /\ drifted \in BOOLEAN /\ MessagesPerEpoch \in Nat
    BY RateLimitAssumption, Zenon DEF CountInv, RLTypeOK
  <1>6. /\ drifted' = (Clash(quota) \/ (drifted /\ rolled = mgr))
        /\ clashes' = IF Clash(quota)
                        THEN [clashes EXCEPT ![now2] = clashes[now2] + 1] ELSE clashes
    BY <1>1, <1>2, Zenon DEF Watch
  <1> HIDE DEF c, now2, rolled
  <1>7. RLTypeOK' /\ asked' <= time'
    <2>1. charged' \in [0..MaxTime -> Nat]
      <3>1. charged[c] + n \in Nat
        BY <1>2, <1>5
      <3> QED BY <1>1, <1>5, <3>1, Zenon
    <2>2. clashes' \in [0..MaxTime -> Nat]
      <3>1. clashes[now2] + 1 \in Nat
        BY <1>2, <1>5
      <3> QED BY <1>5, <1>6, <3>1, Zenon
    <2>3. drifted' \in BOOLEAN
      BY <1>6, Zenon
    <2> QED BY <1>1, <1>5, <2>1, <2>2, <2>3, Zenon DEF RLTypeOK
  <1>8. ASSUME NEW e \in 0..MaxTime
        PROVE  /\ charged[e] \in Nat /\ Excess(e) \in Nat
               /\ charged'[e] = IF e = c THEN charged[e] + n ELSE charged[e]
               /\ after(e) = IF Clash(quota) /\ e = now2
                               THEN Excess(e) + MessagesPerEpoch + 1 ELSE Excess(e)
    <2>1. charged[e] \in Nat /\ clashes[e] \in Nat
      BY <1>5, Zenon
    <2>2. charged'[e] = IF e = c THEN charged[e] + n ELSE charged[e]
      BY <1>1, <1>5, Zenon
    <2>3. clashes'[e] = IF Clash(quota) /\ e = now2 THEN clashes[e] + 1 ELSE clashes[e]
      BY <1>5, <1>6, Zenon
    <2>4. (clashes[e] + 1) * (MessagesPerEpoch + 1)
            = clashes[e] * (MessagesPerEpoch + 1) + MessagesPerEpoch + 1
      BY <1>5, <2>1
    <2>5. Excess(e) \in Nat
      BY <1>5, <2>1 DEF Excess
    <2>6. after(e) = IF Clash(quota) /\ e = now2
                       THEN Excess(e) + MessagesPerEpoch + 1 ELSE Excess(e)
      BY <2>3, <2>4, Zenon DEF Excess
    <2> QED BY <2>1, <2>2, <2>5, <2>6, Zenon
  <1> HIDE DEF after
  <1>9. /\ mgr'.currentEpochIndex \in Nat /\ mgr'.sentInCurrentEpoch \in Nat
        /\ rolled.sentInCurrentEpoch \in Nat
    BY <1>1, <1>3, Zenon DEF Manager
  <1>10. ASSUME RateLimitEnabled, NEW e \in 0..MaxTime
         PROVE  charged'[e] <= after(e) + MessagesPerEpoch
    <2>1. charged[e] <= Excess(e) + MessagesPerEpoch
      BY <1>10, Zenon DEF CountInv, CapBounded
    <2>2. CASE Clash(quota)
      <3>1. e = c <=> e = now2
        BY <1>2, <2>2, Zenon
      <3>2. CASE e = c
        <4>1. /\ charged'[e] = charged[e] + n /\ charged[e] \in Nat /\ Excess(e) \in Nat
              /\ after(e) = Excess(e) + MessagesPerEpoch + 1
          BY <1>8, <2>2, <3>1, <3>2, Zenon
        <4> QED BY <1>5, <2>1, <4>1
      <3>3. CASE e # c
        BY <1>8, <2>1, <3>1, <3>3, Zenon
      <3> QED BY <3>2, <3>3, Zenon
    <2>3. CASE ~Clash(quota) /\ e = c
      BY <1>1, <1>3, <1>5, <1>8, <1>9, <1>10, <2>3
    <2>4. CASE ~Clash(quota) /\ e # c
      BY <1>8, <2>1, <2>4, Zenon
    <2> QED BY <2>2, <2>3, <2>4, Zenon
  <1>11. ASSUME RateLimitEnabled, NEW e \in 0..MaxTime, e > now2
         PROVE  charged'[e] = 0
    <2>1. e > FirstEpoch /\ e # c
      BY <1>2, <1>11
    <2> QED BY <1>8, <1>11, <2>1, Zenon DEF CountInv
  <1>12. ASSUME RateLimitEnabled
         PROVE  charged'[now2] <= after(now2) + Counted'
    <2>1. CASE Clash(quota)
      <3>1. charged[now2] <= Excess(now2) + MessagesPerEpoch
        BY <1>2, <1>12, Zenon DEF CountInv, CapBounded
      <3>2. Counted' \in Nat
        BY <1>4, <1>9, Zenon
      <3>3. /\ charged'[now2] = charged[now2] + n /\ charged[now2] \in Nat
            /\ Excess(now2) \in Nat
            /\ after(now2) = Excess(now2) + MessagesPerEpoch + 1
        BY <1>2, <1>8, <2>1, Zenon
      <3> QED BY <1>5, <3>1, <3>2, <3>3
    <2>2. CASE ~Clash(quota) /\ now2 = c
      <3>1. /\ charged'[now2] = charged[now2] + n /\ charged[now2] \in Nat
            /\ Excess(now2) \in Nat /\ after(now2) = Excess(now2)
        BY <1>2, <1>8, <2>2, Zenon
      <3>2. /\ Counted' = rolled.sentInCurrentEpoch + n
            /\ charged[now2] <= Excess(now2) + rolled.sentInCurrentEpoch
        BY <1>1, <1>3, <1>4, <1>12, <2>2, Zenon
      <3> QED BY <1>9, <3>1, <3>2
    <2>3. CASE ~Clash(quota) /\ now2 # c
      <3>1. now2 > FirstEpoch
        BY <1>2, <2>3
      <3>2. charged[now2] = 0
        BY <1>2, <1>12, <3>1, Zenon DEF CountInv
      <3>3. Counted' \in Nat
        BY <1>4, <1>9, Zenon
      <3>4. /\ charged'[now2] = charged[now2]
            /\ Excess(now2) \in Nat /\ after(now2) = Excess(now2)
        BY <1>2, <1>8, <2>3, Zenon
      <3> QED BY <3>2, <3>3, <3>4
    <2> QED BY <2>1, <2>2, <2>3, Zenon
  <1>13. ASSUME RateLimitEnabled, ~drifted'
         PROVE  mgr'.currentEpochIndex <= now2 /\ Counted' <= charged'[now2]
    <2>1. ~Clash(quota) /\ ~(drifted /\ rolled = mgr)
      BY <1>6, <1>13, Zenon
    <2>2. mgr'.currentEpochIndex = c /\ rolled.sentInCurrentEpoch <= charged[c]
      BY <1>1, <1>3, <1>13, <2>1, Zenon
    <2> QED BY <1>1, <1>2, <1>4, <1>8, <1>9, <1>13, <2>2
  <1>14. CapBounded'
    BY <1>10, Zenon DEF CapBounded, Excess, after
  <1>15. Excess(FirstEpoch)' = after(now2)
    BY <1>4, Zenon DEF Excess, after
  <1> QED BY <1>1, <1>4, <1>7, <1>11, <1>12, <1>13, <1>14, <1>15, Zenon DEF CountInv

\* quotaState and admit end as EndStep has it.
LEMMA CallsEndSo ==
    ASSUME CountInv, NEW quota \in Answers, FinishQuotaState(quota) \/ FinishAdmit(quota)
    PROVE  calling # "idle" /\ \E n \in {0, 1} : Ends(quota, n)
  <1> DEFINE rolled == RefreshEpoch(mgr, quota, WallEpoch(time))
             c == ChargedEpoch(quota)
  <1>1. /\ calling # "idle" /\ calling' = "idle" /\ UNCHANGED <<time, asked>>
        /\ Watch(quota, rolled)
        /\ \/ mgr' = rolled /\ charged' = charged
           \/ /\ Admits(rolled, quota) /\ mgr' = Charge(rolled)
              /\ charged' = [charged EXCEPT ![c] = charged[c] + 1]
    BY Zenon DEF FinishQuotaState, FinishAdmit
  <1>2. /\ rolled \in Manager /\ c \in 0..MaxTime /\ charged \in [0..MaxTime -> Nat]
        /\ RateLimitEnabled => rolled.sentInCurrentEpoch <= MessagesPerEpoch
        /\ quota.some => quota.rateLimit \in Nat
    BY <1>1, AnswerFacts, RolledWindow, Zenon DEF CountInv, RLTypeOK
  <1>3. CASE mgr' = rolled /\ charged' = charged
    <2>1. charged' = [charged EXCEPT ![c] = charged[c] + 0]
      BY <1>2, <1>3
    <2>2. rolled.sentInCurrentEpoch + 0 = rolled.sentInCurrentEpoch
      BY <1>2 DEF Manager
    <2>3. Ends(quota, 0)
      BY <1>1, <1>2, <1>3, <2>1, <2>2, Zenon DEF Ends
    <2> QED BY <1>1, <2>3, Zenon
  <1>4. CASE /\ Admits(rolled, quota) /\ mgr' = Charge(rolled)
             /\ charged' = [charged EXCEPT ![c] = charged[c] + 1]
    <2> HIDE DEF rolled
    <2>1. mgr' \in Manager
      BY <1>2, <1>4 DEF Charge, Manager
    <2>2. ASSUME RateLimitEnabled
          PROVE  /\ mgr'.currentEpochIndex = rolled.currentEpochIndex
                 /\ mgr'.sentInCurrentEpoch = rolled.sentInCurrentEpoch + 1
                 /\ mgr'.sentInCurrentEpoch <= MessagesPerEpoch
      <3>1. /\ mgr'.currentEpochIndex = rolled.currentEpochIndex
            /\ mgr'.sentInCurrentEpoch = rolled.sentInCurrentEpoch + 1
        BY <1>2, <1>4, <2>2, Zenon DEF Charge, Manager
      <3>2. rolled.sentInCurrentEpoch < EpochLimit(quota)
        BY <1>4, <2>2, Zenon DEF Admits
      <3>3. EpochLimit(quota) <= MessagesPerEpoch /\ EpochLimit(quota) \in Nat
        BY <1>2, RateLimitAssumption DEF EpochLimit, Lesser
      <3>4. rolled.sentInCurrentEpoch \in Nat
        BY <1>2, Zenon DEF Manager
      <3> QED BY <3>1, <3>2, <3>3, <3>4, RateLimitAssumption
    <2>3. Ends(quota, 1)
      BY <1>1, <1>4, <2>1, <2>2, Zenon DEF Ends, rolled
    <2> QED BY <1>1, <2>3, Zenon
  <1> QED BY <1>1, <1>3, <1>4, Zenon

\* Every step keeps the inductive invariant.
LEMMA CountStep == CountInv /\ [RLNext]_rlVars => CountInv'
  <1> SUFFICES ASSUME CountInv, [RLNext]_rlVars PROVE CountInv'
    BY Zenon
  <1>1. CASE TimePasses
    <2>1. /\ time \in 0..MaxTime /\ time' = time + 1 /\ time' \in 0..MaxTime
          /\ asked \in 0..MaxTime /\ asked <= time
          /\ UNCHANGED <<asked, calling, mgr, charged, clashes, drifted>>
      BY <1>1, PeriodsAssumption DEF TimePasses, CountInv, RLTypeOK
    <2>2. /\ EpochAt(time) <= EpochAt(time') /\ EpochAt(time) \in 0..MaxTime
          /\ EpochAt(time') \in 0..MaxTime
      <3>1. time <= time' /\ time' <= time'
        BY <2>1
      <3> QED BY <2>1, <3>1, EpochFacts, Zenon
    <2>3. /\ FirstEpoch' = IF calling = "idle" THEN EpochAt(time') ELSE FirstEpoch
          /\ calling = "idle" => FirstEpoch = EpochAt(time)
          /\ Counted' = IF FirstEpoch' = mgr.currentEpochIndex
                          THEN mgr.sentInCurrentEpoch ELSE 0
          /\ CapBounded' = CapBounded
          /\ \A e : Excess(e)' = Excess(e)
      BY <2>1, Zenon DEF FirstEpoch, Counted, EpochAt, WallEpoch, RlnEpoch,
                         CapBounded, Excess
    <2>4. RLTypeOK' /\ asked' <= time' /\ CapBounded'
      BY <2>1, <2>3 DEF CountInv, RLTypeOK
    <2>5. CASE FirstEpoch' = FirstEpoch
      <3>1. Counted' = Counted
        BY <2>3, <2>5, Zenon DEF Counted
      <3> QED BY <2>1, <2>3, <2>4, <2>5, <3>1, Zenon DEF CountInv
    <2>6. CASE FirstEpoch' # FirstEpoch
      <3>1. /\ FirstEpoch' \in 0..MaxTime /\ FirstEpoch \in 0..MaxTime
            /\ FirstEpoch' > FirstEpoch
        BY <2>2, <2>3, <2>6
      <3>2. /\ mgr.currentEpochIndex \in Nat /\ mgr.sentInCurrentEpoch \in Nat
            /\ charged \in [0..MaxTime -> Nat] /\ clashes \in [0..MaxTime -> Nat]
        BY Zenon DEF CountInv, RLTypeOK, Manager
      <3>3. Excess(FirstEpoch') \in Nat /\ Counted' \in Nat
        <4>1. clashes[FirstEpoch'] \in Nat
          BY <3>1, <3>2, Zenon
        <4>2. Excess(FirstEpoch') \in Nat
          BY <4>1, RateLimitAssumption DEF Excess
        <4> QED BY <2>3, <3>2, <4>2, Zenon
      <3>4. ASSUME RateLimitEnabled
            PROVE  \A e \in 0..MaxTime : e > FirstEpoch' => charged[e] = 0
        <4>1. \A e \in 0..MaxTime : e > FirstEpoch' => e > FirstEpoch
          BY <3>1
        <4> QED BY <3>4, <4>1, Zenon DEF CountInv
      <3>5. ASSUME RateLimitEnabled PROVE charged[FirstEpoch'] = 0
        BY <3>1, <3>5, Zenon DEF CountInv
      <3>6. ASSUME RateLimitEnabled
            PROVE  charged[FirstEpoch'] <= Excess(FirstEpoch') + Counted'
        BY <3>3, <3>5, <3>6
      <3>7. ASSUME RateLimitEnabled, ~drifted
            PROVE  mgr.currentEpochIndex <= FirstEpoch' /\ Counted' <= charged[FirstEpoch']
        <4>1. mgr.currentEpochIndex <= FirstEpoch
          BY <3>7, Zenon DEF CountInv
        <4>2. mgr.currentEpochIndex <= FirstEpoch' /\ mgr.currentEpochIndex # FirstEpoch'
          BY <3>1, <3>2, <4>1
        <4> QED BY <2>3, <3>5, <3>7, <4>2
      <3>8. Excess(FirstEpoch)' = Excess(FirstEpoch')
        BY <2>1, Zenon DEF Excess
      <3> QED BY <2>1, <2>4, <3>4, <3>6, <3>7, <3>8, Zenon DEF CountInv
    <2> QED BY <2>5, <2>6, Zenon
  <1>2. ASSUME NEW call \in {"quotaState", "admit"}, Ask(call)
        PROVE  CountInv'
    <2>1. /\ calling = "idle" /\ calling' # "idle" /\ asked' = time
          /\ UNCHANGED <<time, mgr, charged, clashes, drifted>>
          /\ calling' \in {"idle", "quotaState", "admit"}
      BY <1>2, Zenon DEF Ask
    <2>2. FirstEpoch' = FirstEpoch
      BY <2>1, Zenon DEF FirstEpoch, EpochAt, WallEpoch, RlnEpoch
    <2>3. /\ Counted' = Counted /\ Excess(FirstEpoch)' = Excess(FirstEpoch)
          /\ CapBounded' = CapBounded
      BY <2>1, <2>2, Zenon DEF Counted, Excess, CapBounded
    <2>4. RLTypeOK' /\ asked' <= time'
      BY <2>1 DEF CountInv, RLTypeOK
    <2> QED BY <2>1, <2>2, <2>3, <2>4, Zenon DEF CountInv
  <1>3. CASE UNCHANGED rlVars
    <2>1. FirstEpoch' = FirstEpoch
      BY <1>3, Zenon DEF rlVars, FirstEpoch, EpochAt, WallEpoch, RlnEpoch
    <2>2. /\ Counted' = Counted /\ Excess(FirstEpoch)' = Excess(FirstEpoch)
          /\ CapBounded' = CapBounded
      BY <1>3, <2>1, Zenon DEF rlVars, Counted, Excess, CapBounded
    <2> QED BY <1>3, <2>1, <2>2, Zenon DEF rlVars, CountInv, RLTypeOK
  <1>4. ASSUME NEW quota \in Answers, FinishQuotaState(quota) \/ FinishAdmit(quota)
        PROVE  CountInv'
    BY <1>4, CallsEndSo, EndStep, Zenon
  <1> QED BY <1>1, <1>2, <1>3, <1>4, Zenon DEF RLNext

\* The initial manager counts nothing.
LEMMA CountInit == RLInit => CountInv
  <1> SUFFICES ASSUME RLInit PROVE CountInv
    BY Zenon
  <1>1. 0 \in 0..MaxTime /\ MessagesPerEpoch \in Nat
    BY PeriodsAssumption, RateLimitAssumption
  <1>2. FirstEpoch = EpochAt(0) /\ EpochAt(0) \in 0..MaxTime
    BY <1>1, EpochFacts DEF RLInit, FirstEpoch
  <1>3. \A e \in 0..MaxTime : charged[e] = 0 /\ Excess(e) = 0
    BY <1>1 DEF RLInit, Excess
  <1>4. RLTypeOK /\ mgr.sentInCurrentEpoch = 0 /\ mgr.currentEpochIndex = 0
    BY <1>1 DEF RLInit, RLTypeOK, FreshManager, Manager
  <1>5. Counted = 0
    BY <1>4, Zenon DEF Counted
  <1>6. CapBounded
    BY <1>1, <1>3 DEF CapBounded
  <1> QED BY <1>1, <1>2, <1>3, <1>4, <1>5, <1>6 DEF RLInit, CountInv

\* How far the cap gives way, for every pair of periods, limit, cap and provider,
\* however often it fails: an epoch of which no call fell back to a wall clock
\* that counts another epoch keeps the cap of messagesPerEpoch, and each such call
\* lets in at most itself and one more budget (refreshEpoch, admit).
THEOREM CapGivesWayOnlyToClashes == RLSpec => []CapBounded
  <1>1. CountInv => CapBounded
    BY Zenon DEF CountInv
  <1> QED BY <1>1, CountStep, CountInit, PTL DEF RLSpec

\* A refused admission meets a spent epoch, or spent RLN, or a window that the
\* wall clock opened while RLN counted another epoch (refreshEpoch, admit), again
\* for all periods and failures of the provider.
THEOREM RefusalsJustified == RLSpec => RefusedOnlyWhenSpent
  <1>1. ASSUME CountInv, NEW quota \in Answers, FinishAdmit(quota), charged' = charged
        PROVE  \/ quota.some /\ quota.remaining = 0
               \/ charged[ChargedEpoch(quota)] >= EpochLimit(quota)
               \/ drifted'
    <2> DEFINE rolled == RefreshEpoch(mgr, quota, WallEpoch(time))
               c == ChargedEpoch(quota)
    <2>1. /\ calling # "idle" /\ Watch(quota, rolled)
          /\ Admits(rolled, quota) => charged' = [charged EXCEPT ![c] = charged[c] + 1]
      BY <1>1, Zenon DEF FinishAdmit
    <2>2. /\ c \in 0..MaxTime /\ charged \in [0..MaxTime -> Nat]
          /\ quota.some => quota.rateLimit \in Nat
      BY <1>1, <2>1, AnswerFacts, Zenon DEF CountInv, RLTypeOK
    <2>3. ~Admits(rolled, quota)
      <3>1. [charged EXCEPT ![c] = charged[c] + 1] # charged
        BY <2>2
      <3> QED BY <1>1, <2>1, <3>1, Zenon
    <2>4. RateLimitEnabled
      BY <2>3, RateLimitAssumption, Zenon DEF Admits
    <2>5. /\ rolled \in Manager
          /\ ~Clash(quota) /\ ~(drifted /\ rolled = mgr) =>
               rolled.sentInCurrentEpoch <= charged[c]
      BY <1>1, <2>1, <2>4, RolledWindow, Zenon
    <2>6. drifted' = (Clash(quota) \/ (drifted /\ rolled = mgr))
      BY <2>1, Zenon DEF Watch
    <2>7. EpochLimit(quota) \in Nat
      BY <2>2, RateLimitAssumption, Zenon DEF EpochLimit, Lesser
    <2>8. \/ quota.some /\ quota.remaining = 0
          \/ ~(rolled.sentInCurrentEpoch < EpochLimit(quota))
      BY <2>3, Zenon DEF Admits
    <2> HIDE DEF rolled, c
    <2>9. ASSUME ~drifted', ~(rolled.sentInCurrentEpoch < EpochLimit(quota))
          PROVE  charged[c] >= EpochLimit(quota)
      <3>1. rolled.sentInCurrentEpoch <= charged[c]
        BY <2>5, <2>6, <2>9, Zenon
      <3>2. rolled.sentInCurrentEpoch \in Nat /\ charged[c] \in Nat
        BY <2>2, <2>5, Zenon DEF Manager
      <3> QED BY <2>7, <2>9, <3>1, <3>2
    <2> QED BY <2>8, <2>9, Zenon DEF c
  <1>2. CountInv /\ [RLNext]_rlVars =>
          [\A quota \in Answers :
             FinishAdmit(quota) /\ charged' = charged =>
               \/ quota.some /\ quota.remaining = 0
               \/ charged[ChargedEpoch(quota)] >= EpochLimit(quota)
               \/ drifted']_rlVars
    BY <1>1, Zenon
  <1> QED BY <1>2, CountStep, CountInit, PTL DEF RLSpec, RefusedOnlyWhenSpent

-----------------------------------------------------------------------------
(* The RLN message ids: IdsInv is inductive.                               *)

-----------------------------------------------------------------------------
(* Operators.                                                              *)

\* The counter operations return counters.
LEMMA CounterTypes ==
    ASSUME NEW n \in Counter, NEW r \in Counter, NEW e \in Nat, NEW id \in Nat
    PROVE  /\ Restore(n, r) \in Counter
           /\ Rolled(n, e) \in Counter
           /\ Reserve(n, e) \in Counter
           /\ Release(n, e, id) \in Counter
<1>1. Rolled(n, e) \in Counter
  BY Zenon DEF Rolled, Counter
<1>2. Restore(n, r) \in Counter
  BY NonceLimitAssumption, Zenon DEF Restore, Counter
<1>3. Reserve(n, e) \in Counter
  BY <1>1 DEF Reserve, ReserveAnswer, Counter
<1>4. Release(n, e, id) \in Counter
  BY Zenon DEF Release, Counter
<1> QED
  BY <1>1, <1>2, <1>3, <1>4, Zenon

\* A draw answers an unused id of the epoch and steps past it.
LEMMA ReserveFacts ==
    ASSUME NEW n \in Counter, NEW e \in Nat, ReserveAnswer(n, e) = "ok"
    PROVE  /\ Reserve(n, e) = [epochIndex |-> e, nextId |-> Rolled(n, e).nextId + 1]
           /\ Rolled(n, e).nextId \in Nat
           /\ Rolled(n, e).nextId < NonceLimit
           /\ ~Past(n, e, Rolled(n, e).nextId)
           /\ \A f, id \in Nat : Past(n, f, id) => Past(Reserve(n, e), f, id)
BY NonceLimitAssumption
   DEF ReserveAnswer, Reserve, Rolled, Counter, Past

\* A refused draw loses nothing.
LEMMA RefusedFacts ==
    ASSUME NEW n \in Counter, NEW e \in Nat, ReserveAnswer(n, e) # "ok"
    PROVE  \A f, id \in Nat : Past(n, f, id) => Past(Reserve(n, e), f, id)
BY NonceLimitAssumption
   DEF ReserveAnswer, Reserve, Rolled, Counter, Past

\* Giving back an id leaves the counter past every other id.
LEMMA ReleaseFacts ==
    ASSUME NEW n \in Counter, NEW e \in Nat, NEW id \in Nat,
           NEW f \in Nat, NEW k \in Nat, Past(n, f, k), f # e \/ k # id
    PROVE  Past(Release(n, e, id), f, k)
BY DEF Release, Counter, Past

\* Loading a row into a fresh counter keeps it past what the row is past.
LEMMA RestoreFacts ==
    ASSUME NEW r \in Counter, NEW f \in Nat, NEW k \in Nat,
           Past(r, f, k), k < NonceLimit
    PROVE  Past(Restore(FreshCounter, r), f, k)
BY NonceLimitAssumption DEF Restore, FreshCounter, Counter, Past

-----------------------------------------------------------------------------
(* The lock and the write queue.                                           *)

\* A save of the counter that is on its way to the disk.
Write == [owner : Msgs \cup {NoOne}, to : Counter]

\* The owner of a write.
LEMMA OwnerOf == ASSUME NEW k, NEW c PROVE [owner |-> k, to |-> c].owner = k
  OBVIOUS

\* Abandoning a write changes nothing but its owner.
LEMMA AbandonedFacts ==
    ASSUME TypeOK, NEW m
    PROVE  /\ Abandoned(m) \in Seq(Write)
           /\ Len(Abandoned(m)) = Len(writes)
           /\ DOMAIN Abandoned(m) = DOMAIN writes
           /\ \A i \in DOMAIN writes :
                /\ Abandoned(m)[i].to = writes[i].to
                /\ Abandoned(m)[i].owner =
                     IF writes[i].owner = m THEN NoOne ELSE writes[i].owner
<1> DEFINE W == Abandoned(m)
<1>1. writes \in Seq(Write) /\ DOMAIN writes = 1..Len(writes) /\ Len(writes) \in Nat
  BY DEF TypeOK, Write
<1>2. \A i \in 1..Len(writes) : writes[i] \in Write
  BY <1>1
<1>3. DOMAIN W = 1..Len(writes)
  BY <1>1, Zenon DEF Abandoned
<1>4. \A i \in 1..Len(writes) :
        /\ W[i] \in Write
        /\ W[i].to = writes[i].to
        /\ W[i].owner = IF writes[i].owner = m THEN NoOne ELSE writes[i].owner
  BY <1>1, <1>2, Zenon DEF Abandoned, Write
<1>5. W \in [1..Len(writes) -> Write]
  BY <1>1, <1>4, Zenon DEF Abandoned
<1> HIDE DEF W
<1>6. W \in Seq(Write) /\ Len(W) = Len(writes)
  BY <1>1, <1>3, <1>5
<1> QED
  BY <1>1, <1>3, <1>4, <1>6, Zenon DEF W

\* A write belongs to a message until it is abandoned.
LEMMA WriteTypes ==
    ASSUME TypeOK
    PROVE  /\ writes \in Seq(Write)
           /\ DOMAIN writes = 1..Len(writes) /\ Len(writes) \in Nat
           /\ \A i \in DOMAIN writes : /\ writes[i].owner \in Msgs \cup {NoOne}
                                       /\ writes[i].to \in Counter
<1>1. writes \in Seq(Write) /\ DOMAIN writes = 1..Len(writes) /\ Len(writes) \in Nat
  BY DEF TypeOK, Write
<1>2. \A i \in 1..Len(writes) : writes[i] \in Write
  BY <1>1
<1> QED
  BY <1>1, <1>2, Zenon DEF Write

\* The holder keeps the lock while another caller leaves or joins the queue.
LEMMA HolderKept ==
    ASSUME TypeOK, NEW c \in Callers, NEW d \in Callers, Holds(d),
           \/ Acquire(c)
           \/ d # c /\ Leave(c)
    PROVE  Holds(d)'
<1>1. lock \in Seq(Callers) /\ lock # <<>> /\ Head(lock) = d
  BY Zenon DEF TypeOK, Holds
<1>2. CASE Acquire(c)
  BY <1>1, <1>2 DEF Acquire, Holds
<1>3. CASE d # c /\ Leave(c)
  BY <1>1, <1>3, WithoutHead, Zenon DEF Leave, Holds
<1> QED
  BY <1>2, <1>3, Zenon

\* Every step keeps the types.
THEOREM TypeStep == TypeOK /\ [Next]_vars => TypeOK'
<1> SUFFICES ASSUME TypeOK, [Next]_vars PROVE TypeOK'
  BY Zenon
<1> USE MsgsAssumption
<1>w. writes \in Seq(Write)
  BY Zenon DEF TypeOK, Write
<1>l. \A c : Without(lock, c) \in Seq(Callers)
  BY WithoutType, Zenon DEF TypeOK
<1>a. \A c \in Callers : Append(lock, c) \in Seq(Callers)
  BY DEF TypeOK
<1>e. \A m \in Msgs : EpochOf[m] \in Nat
  BY Zenon
<1>s. ASSUME NEW m \in Msgs, NEW n \in Counter, AskToSave(m, n)
      PROVE  writes' \in Seq(Write)
  <2>1. [owner |-> m, to |-> n] \in Write
    BY <1>s, Zenon DEF Write
  <2> QED
    BY <1>w, <1>s, <2>1 DEF AskToSave
<1>1. ASSUME NEW m \in Msgs, Generate(m) PROVE TypeOK'
  BY <1>1, <1>a, Zenon DEF Generate, TypeOK, Acquire, GoTo, Callers, Phases
<1>2. ASSUME NEW m \in Msgs, Draw(m) PROVE TypeOK'
  <2>1. nonces' \in Counter /\ Rolled(nonces, EpochOf[m]).nextId \in Nat
    BY <1>2, <1>e, CounterTypes, ReserveFacts, Zenon DEF Draw, TypeOK
  <2>2. writes' \in Seq(Write)
    BY <1>2, <1>s, <2>1, Zenon DEF Draw
  <2> QED
    BY <1>2, <2>1, <2>2, Zenon DEF Draw, TypeOK, GoTo, Callers, Phases, Write
<1>3. ASSUME NEW m \in Msgs, DrawRefused(m) PROVE TypeOK'
  <2>1. nonces' \in Counter
    BY <1>3, <1>e, CounterTypes, Zenon DEF DrawRefused, TypeOK
  <2> QED
    BY <1>3, <1>l, <2>1, Zenon DEF DrawRefused, TypeOK, GoTo, Leave, Callers, Phases
<1>4. ASSUME NEW m \in Msgs, SaveFails(m) PROVE TypeOK'
  <2>1. nonces' \in Counter
    BY <1>4, <1>e, CounterTypes, Zenon DEF SaveFails, TypeOK
  <2>2. writes' \in Seq(Write)
    BY <1>4, AbandonedFacts, Zenon DEF SaveFails
  <2> QED
    BY <1>4, <1>l, <2>1, <2>2, Zenon
       DEF SaveFails, TypeOK, GoTo, Leave, Callers, Phases, Write
<1>5. ASSUME NEW m \in Msgs, Prove(m) PROVE TypeOK'
  BY <1>5, <1>e DEF Prove, TypeOK, GoTo, Callers, Phases
<1>6. ASSUME NEW m \in Msgs, ProveFails(m) PROVE TypeOK'
  BY <1>6, <1>a, Zenon DEF ProveFails, TypeOK, Acquire, GoTo, Callers, Phases
<1>7. ASSUME NEW m \in Msgs, ReleaseDurably(m) PROVE TypeOK'
  <2>1. nonces' \in Counter
    BY <1>7, <1>e, CounterTypes, Zenon DEF ReleaseDurably, TypeOK
  <2>2. writes' \in Seq(Write)
    BY <1>7, <1>s, <1>w, <2>1, Zenon DEF ReleaseDurably
  <2>3. /\ lock' \in Seq(Callers)
        /\ pc' \in [Callers -> Phases] /\ pc'[Reader] \in {"idle", "quota"}
    BY <1>7, <1>l, ZenonT(40) DEF ReleaseDurably, TypeOK, GoTo, Leave, Callers, Phases
  <2> QED
    BY <1>7, <2>1, <2>2, <2>3, Zenon DEF ReleaseDurably, TypeOK, Write
<1>8. ASSUME NEW m \in Msgs, LowerFails(m) PROVE TypeOK'
  <2>1. writes' \in Seq(Write)
    BY <1>8, AbandonedFacts, Zenon DEF LowerFails
  <2> QED
    BY <1>8, <1>l, <2>1, Zenon
       DEF LowerFails, TypeOK, GoTo, Leave, Callers, Phases, Write
<1>9. ASSUME NEW c \in Callers, EnsureMessageIdsLoaded(c) PROVE TypeOK'
  <2>1. nonces' \in Counter
    BY <1>9, CounterTypes, Zenon DEF EnsureMessageIdsLoaded, TypeOK
  <2>2. refusedUntil' \in Nat
    BY <1>9, Zenon DEF EnsureMessageIdsLoaded, TypeOK, Counter
  <2> QED
    BY <1>9, <2>1, <2>2, Zenon DEF EnsureMessageIdsLoaded, TypeOK
<1>10. ASSUME NEW c \in Callers, LoadFails(c) PROVE TypeOK'
  BY <1>10, <1>l, Zenon DEF LoadFails, TypeOK, GoTo, Leave, Phases, Callers
<1>11. ASSUME NEW c \in Callers, Cancel(c) PROVE TypeOK'
  <2>1. writes' \in Seq(Write)
    BY <1>11, AbandonedFacts, Zenon DEF Cancel
  <2> QED
    BY <1>11, <1>l, <2>1, Zenon DEF Cancel, TypeOK, GoTo, Leave, Phases, Write, Callers
<1>12. CASE Commit
  <2>1. Head(writes) \in Write /\ Tail(writes) \in Seq(Write)
    BY <1>12, <1>w DEF Commit
  <2>2. row' \in Counter /\ writes' \in Seq(Write)
    BY <1>12, <2>1, Zenon DEF Commit, Write
  <2>3. lock' \in Seq(Callers)
    BY <1>12, <1>l, Zenon DEF Commit, TypeOK, Leave
  <2>4. pc' \in [Callers -> Phases] /\ pc'[Reader] \in {"idle", "quota"}
    BY <1>12, <2>1, Zenon DEF Commit, TypeOK, GoTo, Phases, Write, Callers
  <2> QED
    BY <1>12, <2>2, <2>3, <2>4, Zenon DEF Commit, TypeOK, Write
<1>13. CASE WriteLost
  <2>1. writes' \in Seq(Write)
    BY <1>13, <1>w DEF WriteLost
  <2> QED
    BY <1>13, <2>1, Zenon DEF WriteLost, TypeOK, Write
<1>14. CASE AskQuota
  BY <1>14, <1>a, Zenon DEF AskQuota, TypeOK, Acquire, GoTo, Callers, Phases
<1>15. CASE ReadQuota
  BY <1>15, <1>l, Zenon DEF ReadQuota, TypeOK, Leave, GoTo, Callers, Phases
<1>16. CASE ClockMoves
  BY <1>16, Zenon DEF ClockMoves, TypeOK
<1>17. CASE Restart
  <2>1. nonces' \in Counter
    BY <1>17, Zenon DEF Restart, FreshCounter, Counter
  <2>2. writes' \in Seq(Write) /\ lock' \in Seq(Callers)
    BY <1>17 DEF Restart
  <2>3. pc' \in [Callers -> Phases] /\ pc'[Reader] = "idle"
    BY <1>17, Zenon DEF Restart, Phases, Callers
  <2> QED
    BY <1>17, <2>1, <2>2, <2>3, Zenon DEF Restart, TypeOK, Write
<1>18. CASE UNCHANGED vars
  BY <1>18, Zenon DEF vars, TypeOK
<1> QED
  BY <1>1, <1>2, <1>3, <1>4, <1>5, <1>6, <1>7, <1>8, <1>9, <1>10, <1>11, <1>12,
     <1>13, <1>14, <1>15, <1>16, <1>17, <1>18, Zenon DEF Next

-----------------------------------------------------------------------------
(* The invariant is inductive. Most steps only move a call that has no     *)
(* write pending; they come first.                                         *)

\* A step that touches neither the counter nor the row nor the writes, and ends
\* or queues one call that has no write pending.
LEMMA QuietStep ==
    ASSUME IdsInv, TypeOK', NEW c \in Callers,
           NEW phase \in {"idle", "reserve", "quota", "release"},
           phase = "release" => pc[c] = "prove",
           pc[c] \notin {"save", "lower"},
           GoTo(c, phase),
           Acquire(c) \/ Leave(c),
           UNCHANGED <<nonces, loaded, row, writes, ids, proofs>>
    PROVE  IdsInv'
<1> USE MsgsAssumption
<1>0. TypeOK /\ Msgs \subseteq Callers
  BY Zenon DEF IdsInv, Callers
<1>1. pc' = [pc EXCEPT ![c] = phase] /\ pc \in [Callers -> Phases]
  BY <1>0, Zenon DEF GoTo, TypeOK
<1>2. \A m \in Msgs : /\ Saving(m)' <=> Saving(m)
                      /\ pc'[m] = "save" <=> pc[m] = "save"
                      /\ Claiming(m)' => Claiming(m)
  BY <1>0, <1>1, Zenon DEF Saving, Claiming
<1>3. \A m \in Msgs : Saving(m) => Holds(m)'
  <2> SUFFICES ASSUME NEW m \in Msgs, Saving(m) PROVE Holds(m)'
    BY Zenon
  <2>1. m # c /\ Holds(m)
    BY Zenon DEF Saving, IdsInv, SavesInOrder
  <2> QED
    BY <1>0, <2>1, HolderKept, Zenon
<1>4. SavesInOrder'
  <2>1. \A i \in DOMAIN writes : writes[i].owner # NoOne =>
          i = Len(writes) /\ Saving(writes[i].owner)'
    BY <1>0, <1>2, WriteTypes, Zenon DEF IdsInv, SavesInOrder
  <2> QED
    BY <1>2, <1>3, <2>1, Zenon DEF IdsInv, SavesInOrder, Saving
<1>5. NothingBeforeLoad'
  BY <1>1, Zenon DEF IdsInv, NothingBeforeLoad
<1>6. IdsSafe'
  BY <1>2, Zenon DEF IdsInv, IdsSafe, Safe
<1>7. DrawnOnce' /\ IdsUsedOnce'
  BY <1>2, Zenon DEF IdsInv, DrawnOnce, IdsUsedOnce
<1> QED
  BY <1>4, <1>5, <1>6, <1>7, Zenon DEF IdsInv

\* A call gives up its pending write; an id it drew may go back.
LEMMA GiveUpStep ==
    ASSUME IdsInv, TypeOK', NEW c \in Msgs, Saving(c),
           \/ nonces' = nonces
           \/ pc[c] = "save" /\ nonces' = Release(nonces, EpochOf[c], ids[c]),
           writes' = Abandoned(c),
           Leave(c), GoTo(c, "idle"),
           UNCHANGED <<loaded, row, ids, proofs>>
    PROVE  IdsInv'
<1> USE MsgsAssumption
<1>0. /\ TypeOK /\ Msgs \subseteq Callers
      /\ nonces \in Counter
      /\ \A m \in Msgs : ids[m] \in Nat /\ EpochOf[m] \in Nat
      /\ \A p \in proofs : p.id \in Nat /\ p.epoch \in Nat
  BY Zenon DEF IdsInv, Callers, TypeOK
<1>1. pc' = [pc EXCEPT ![c] = "idle"] /\ pc \in [Callers -> Phases]
  BY <1>0, Zenon DEF GoTo, TypeOK
<1>2. Holds(c) /\ loaded /\ \A m \in Msgs : Saving(m) => m = c
  BY ZenonT(40) DEF IdsInv, SavesInOrder, Holds
<1>3. \A m \in Msgs : ~Saving(m)'
  BY <1>0, <1>1, <1>2, Zenon DEF Saving
<1>4. \A i \in DOMAIN writes :
        writes[i].owner = NoOne \/ writes[i].owner = c
  BY <1>0, <1>2, WriteTypes, Zenon DEF IdsInv, SavesInOrder
<1>5. /\ DOMAIN writes' = DOMAIN writes
      /\ \A i \in DOMAIN writes :
           writes'[i].owner = NoOne /\ writes'[i].to = writes[i].to
  BY <1>0, <1>4, AbandonedFacts
<1>6. SavesInOrder'
  BY <1>3, <1>5, Zenon DEF SavesInOrder, Saving
<1>7. NothingBeforeLoad'
  BY <1>2, Zenon DEF NothingBeforeLoad
<1>8. \A m \in Msgs : /\ Claiming(m)' => Claiming(m) /\ m # c
                      /\ pc'[m] # "save"
  BY <1>0, <1>1, <1>3, Zenon DEF Claiming, Saving
<1>9. ASSUME NEW e \in Nat, NEW id \in Nat, Safe(e, id),
             pc[c] = "save" => e # EpochOf[c] \/ id # ids[c]
      PROVE  Safe(e, id)'
  <2>1. Past(nonces', e, id)
    BY <1>0, <1>2, <1>9, ReleaseFacts DEF Safe
  <2> QED
    BY <1>5, <1>9, <2>1, Zenon DEF Safe, Past
<1>10. IdsSafe'
  <2>1. \A p \in proofs : Safe(p.epoch, p.id)'
    BY <1>0, <1>9, Zenon DEF IdsInv, IdsSafe, DrawnOnce
  <2>2. ASSUME NEW m \in Msgs, Claiming(m)' PROVE Safe(EpochOf[m], ids[m])'
    <3>1. Claiming(m) /\ m # c /\ Safe(EpochOf[m], ids[m])
      BY <1>8, <2>2, Zenon DEF IdsInv, IdsSafe
    <3>2. pc[c] = "save" => EpochOf[m] # EpochOf[c] \/ ids[m] # ids[c]
      BY <3>1, Zenon DEF IdsInv, DrawnOnce
    <3>3. Safe(EpochOf[m], ids[m])'
      BY <1>0, <1>9, <3>1, <3>2, Zenon
    <3> QED
      BY <3>3, Zenon DEF Safe
  <2> QED
    BY <2>1, <2>2, Zenon DEF IdsSafe, Safe
<1>11. DrawnOnce' /\ IdsUsedOnce'
  BY <1>8, Zenon DEF IdsInv, DrawnOnce, IdsUsedOnce
<1> QED
  BY <1>6, <1>7, <1>10, <1>11, Zenon DEF IdsInv

\* The calls that hold the lock with no write pending: nothing is waited for.
LEMMA HolderIdle ==
    ASSUME IdsInv, NEW c \in Callers, Holds(c), pc[c] \notin {"save", "lower"}
    PROVE  /\ \A m \in Msgs : ~Saving(m) /\ pc[m] # "save"
           /\ \A i \in DOMAIN writes : writes[i].owner = NoOne
<1>1. \A m \in Msgs : ~Saving(m)
  BY ZenonT(40) DEF IdsInv, SavesInOrder, Saving, Holds
<1>2. TypeOK
  BY Zenon DEF IdsInv
<1>3. \A i \in DOMAIN writes : writes[i].owner = NoOne
  BY <1>1, <1>2, WriteTypes, Zenon DEF IdsInv, SavesInOrder
<1> QED
  BY <1>1, <1>3, Zenon DEF Saving

\* What asking for a save adds to the queue.
LEMMA AskFacts ==
    ASSUME TypeOK, NEW m \in Msgs, NEW n \in Counter, AskToSave(m, n)
    PROVE  /\ Len(writes') = Len(writes) + 1
           /\ DOMAIN writes' = 1..(Len(writes) + 1)
           /\ writes'[Len(writes) + 1] = [owner |-> m, to |-> n]
           /\ \A i \in 1..Len(writes) : writes'[i] = writes[i]
<1>1. writes \in Seq(Write) /\ [owner |-> m, to |-> n] \in Write
  BY WriteTypes, Zenon DEF Write
<1> QED
  BY <1>1 DEF AskToSave

\* reserveDurably draws: the new id is in no proof and drawn by no other call.
LEMMA DrawStep ==
    ASSUME IdsInv, TypeOK', NEW m \in Msgs, Draw(m)
    PROVE  IdsInv'
<1> USE MsgsAssumption
<1> DEFINE e == EpochOf[m]
           id == Rolled(nonces, e).nextId
<1>0. /\ TypeOK /\ Msgs \subseteq Callers
      /\ nonces \in Counter /\ nonces' \in Counter
      /\ \A k \in Msgs : ids[k] \in Nat /\ EpochOf[k] \in Nat
      /\ \A p \in proofs : p.id \in Nat /\ p.epoch \in Nat
      /\ Len(writes) \in Nat /\ DOMAIN writes = 1..Len(writes)
  BY WriteTypes, Zenon DEF IdsInv, Callers, TypeOK
<1>1. pc' = [pc EXCEPT ![m] = "save"] /\ pc \in [Callers -> Phases]
  BY <1>0, Zenon DEF Draw, GoTo, TypeOK
<1>2. ids' = [ids EXCEPT ![m] = id] /\ ids \in [Msgs -> Nat]
  BY <1>0, Zenon DEF Draw, TypeOK
<1>3. /\ \A k \in Msgs : ~Saving(k) /\ pc[k] # "save"
      /\ \A i \in DOMAIN writes : writes[i].owner = NoOne
  BY <1>0, HolderIdle, Zenon DEF Draw
<1>4. /\ nonces' = [epochIndex |-> e, nextId |-> id + 1]
      /\ id \in Nat /\ id < NonceLimit
      /\ ~Past(nonces, e, id)
      /\ \A f, k \in Nat : Past(nonces, f, k) => Past(nonces', f, k)
  BY <1>0, ReserveFacts, Zenon DEF Draw
<1> HIDE DEF id
<1>5. /\ Len(writes') = Len(writes) + 1
      /\ DOMAIN writes' = 1..(Len(writes) + 1)
      /\ writes'[Len(writes) + 1] = [owner |-> m, to |-> nonces']
      /\ \A i \in 1..Len(writes) : writes'[i] = writes[i]
  BY <1>0, AskFacts, Zenon DEF Draw
<1>6. \A k \in Msgs : /\ Saving(k)' <=> k = m
                      /\ pc'[k] = "save" <=> k = m
                      /\ Claiming(k)' <=> Claiming(k) /\ k # m
                      /\ k # m => ids'[k] = ids[k]
  BY <1>0, <1>1, <1>2, <1>3, Zenon DEF Saving, Claiming, Draw
<1>7. Holds(m)' /\ loaded' /\ loaded
  BY Zenon DEF Draw, Holds
<1>8. SavesInOrder'
  <2>1. writes' # <<>>
    BY <1>0, <1>5
  <2>2. \A i \in DOMAIN writes' : writes'[i].owner # NoOne =>
          i = Len(writes') /\ writes'[i].owner = m
    BY <1>0, <1>3, <1>5
  <2> QED
    BY <1>0, <1>2, <1>4, <1>5, <1>6, <1>7, <2>1, <2>2 DEF SavesInOrder
<1>9. NothingBeforeLoad'
  BY <1>7, Zenon DEF NothingBeforeLoad
<1>10. ASSUME NEW f \in Nat, NEW k \in Nat, Safe(f, k)
       PROVE  Safe(f, k)' /\ (f # e \/ k # id)
  <2>1. Past(nonces, f, k) /\ Past(nonces', f, k)
    BY <1>4, <1>7, <1>10, Zenon DEF Safe
  <2>2. f # e \/ k # id
    BY <1>4, <2>1, Zenon
  <2>3. \A i \in DOMAIN writes' : Past(writes'[i].to, f, k)
    BY <1>0, <1>5, <1>10, <2>1 DEF Safe
  <2> QED
    BY <1>10, <2>1, <2>2, <2>3, Zenon DEF Safe, Draw, Past
<1>11. IdsSafe'
  BY <1>0, <1>6, <1>10, Zenon DEF IdsInv, IdsSafe, Draw, Safe
<1>12. DrawnOnce'
  <2>1. \A p \in proofs : p.epoch # e \/ p.id # id
    BY <1>0, <1>10, Zenon DEF IdsInv, IdsSafe
  <2>2. \A k \in Msgs : Claiming(k) => EpochOf[k] # e \/ ids[k] # id
    BY <1>0, <1>10, Zenon DEF IdsInv, IdsSafe
  <2>3. ids'[m] = id /\ proofs' = proofs
    BY <1>2, Zenon DEF Draw
  <2>4. \A k \in Msgs : pc'[k] = "save" \/ Claiming(k)' =>
          \A p \in proofs' : ~(p.epoch = EpochOf[k] /\ p.id = ids'[k])
    BY <1>6, <2>1, <2>3, Zenon DEF IdsInv, DrawnOnce
  <2>5. \A k, l \in Msgs :
          /\ k # l /\ EpochOf[k] = EpochOf[l]
          /\ pc'[k] = "save" \/ Claiming(k)'
          /\ pc'[l] = "save" \/ Claiming(l)'
          => ids'[k] # ids'[l]
    BY <1>6, <2>2, <2>3 DEF IdsInv, DrawnOnce
  <2> QED
    BY <2>4, <2>5, Zenon DEF DrawnOnce
<1>13. IdsUsedOnce'
  BY Zenon DEF IdsInv, IdsUsedOnce, Draw
<1> QED
  BY <1>8, <1>9, <1>11, <1>12, <1>13, Zenon DEF IdsInv

\* A refused draw may roll the counter to a later epoch, and never back.
LEMMA DrawRefusedStep ==
    ASSUME IdsInv, TypeOK', NEW m \in Msgs, DrawRefused(m)
    PROVE  IdsInv'
<1> USE MsgsAssumption
<1>0. /\ TypeOK /\ Msgs \subseteq Callers /\ nonces \in Counter
      /\ \A k \in Msgs : ids[k] \in Nat /\ EpochOf[k] \in Nat
      /\ \A p \in proofs : p.id \in Nat /\ p.epoch \in Nat
  BY Zenon DEF IdsInv, Callers, TypeOK
<1>1. pc' = [pc EXCEPT ![m] = "idle"] /\ pc \in [Callers -> Phases]
  BY <1>0, Zenon DEF DrawRefused, GoTo, TypeOK
<1>2. /\ \A k \in Msgs : ~Saving(k) /\ pc[k] # "save"
      /\ \A i \in DOMAIN writes : writes[i].owner = NoOne
  BY <1>0, HolderIdle, Zenon DEF DrawRefused
<1>3. \A k \in Msgs : /\ ~Saving(k)' /\ pc'[k] # "save"
                      /\ Claiming(k)' => Claiming(k)
  BY <1>0, <1>1, <1>2, Zenon DEF Saving, Claiming
<1>4. \A f, k \in Nat : Past(nonces, f, k) => Past(nonces', f, k)
  BY <1>0, RefusedFacts, Zenon DEF DrawRefused
<1>5. SavesInOrder'
  BY <1>2, <1>3, Zenon DEF SavesInOrder, DrawRefused
<1>6. NothingBeforeLoad'
  BY Zenon DEF NothingBeforeLoad, DrawRefused
<1>7. \A f, k \in Nat : Safe(f, k) => Safe(f, k)'
  BY <1>4, Zenon DEF Safe, Past, DrawRefused
<1>8. IdsSafe'
  BY <1>0, <1>3, <1>7, Zenon DEF IdsInv, IdsSafe, DrawRefused, Safe
<1>9. DrawnOnce' /\ IdsUsedOnce'
  BY <1>3, Zenon DEF IdsInv, DrawnOnce, IdsUsedOnce, DrawRefused
<1> QED
  BY <1>5, <1>6, <1>8, <1>9, Zenon DEF IdsInv

\* A finished proof moves its id from the claimed to the proved ones.
LEMMA ProveStep ==
    ASSUME IdsInv, TypeOK', NEW m \in Msgs, Prove(m)
    PROVE  IdsInv'
<1> USE MsgsAssumption
<1>0. TypeOK /\ Msgs \subseteq Callers
  BY Zenon DEF IdsInv, Callers
<1>1. pc' = [pc EXCEPT ![m] = "idle"] /\ pc \in [Callers -> Phases] /\ pc[m] = "prove"
  BY <1>0, Zenon DEF Prove, GoTo, TypeOK
<1>2. \A k \in Msgs : /\ Saving(k)' <=> Saving(k)
                      /\ pc'[k] = "save" <=> pc[k] = "save"
                      /\ Claiming(k)' => Claiming(k) /\ k # m
                      /\ pc'[k] = "save" => k # m
  BY <1>0, <1>1, Zenon DEF Saving, Claiming
<1>3. Claiming(m)
  BY <1>1, Zenon DEF Claiming
<1>4. SavesInOrder'
  <2>1. \A i \in DOMAIN writes : writes[i].owner # NoOne =>
          i = Len(writes) /\ Saving(writes[i].owner)'
    BY <1>0, <1>2, WriteTypes, Zenon DEF IdsInv, SavesInOrder, Prove
  <2> QED
    BY <1>2, <2>1, Zenon DEF IdsInv, SavesInOrder, Saving, Prove, Holds
<1>5. NothingBeforeLoad'
  BY <1>0, <1>1, Zenon DEF IdsInv, NothingBeforeLoad, Prove
<1>6. IdsSafe'
  <2>1. \A f, k : Safe(f, k)' <=> Safe(f, k)
    BY Zenon DEF Prove, Safe, Past
  <2>2. \A p \in proofs' : Safe(p.epoch, p.id)
    BY <1>3 DEF IdsInv, IdsSafe, Prove
  <2> QED
    BY <1>2, <2>1, <2>2, Zenon DEF IdsInv, IdsSafe, Prove
<1>7. DrawnOnce'
  BY <1>2, <1>3 DEF IdsInv, DrawnOnce, Prove
<1>8. IdsUsedOnce'
  BY <1>3 DEF IdsInv, DrawnOnce, IdsUsedOnce, Prove
<1> QED
  BY <1>4, <1>5, <1>6, <1>7, <1>8 DEF IdsInv

\* releaseDurably lowers the count only when no later draw can see the id.
LEMMA ReleaseStep ==
    ASSUME IdsInv, TypeOK', NEW m \in Msgs, ReleaseDurably(m)
    PROVE  IdsInv'
<1> USE MsgsAssumption
<1>0. /\ TypeOK /\ Msgs \subseteq Callers
      /\ nonces \in Counter /\ nonces' \in Counter
      /\ \A k \in Msgs : ids[k] \in Nat /\ EpochOf[k] \in Nat
      /\ \A p \in proofs : p.id \in Nat /\ p.epoch \in Nat
      /\ Len(writes) \in Nat /\ DOMAIN writes = 1..Len(writes)
  BY WriteTypes, Zenon DEF IdsInv, Callers, TypeOK
<1>1. /\ \A k \in Msgs : ~Saving(k) /\ pc[k] # "save"
      /\ \A i \in DOMAIN writes : writes[i].owner = NoOne
  BY <1>0, HolderIdle, Zenon DEF ReleaseDurably
<1>2. Claiming(m) /\ loaded /\ loaded' /\ pc \in [Callers -> Phases]
  BY <1>0, ZenonT(40) DEF IdsInv, NothingBeforeLoad, ReleaseDurably, Claiming, TypeOK
<1>3. /\ \A p \in proofs : p.epoch # EpochOf[m] \/ p.id # ids[m]
      /\ \A k \in Msgs : k # m /\ Claiming(k) =>
           EpochOf[k] # EpochOf[m] \/ ids[k] # ids[m]
  BY <1>2, Zenon DEF IdsInv, DrawnOnce
<1>4. ASSUME NEW f \in Nat, NEW k \in Nat, Safe(f, k),
             f # EpochOf[m] \/ k # ids[m]
      PROVE  Past(nonces', f, k)
  BY <1>0, <1>2, <1>4, ReleaseFacts, Zenon DEF ReleaseDurably, Safe
<1>5. CASE nonces'.nextId = nonces.nextId
  <2>1. pc' = [pc EXCEPT ![m] = "idle"] /\ Leave(m) /\ writes' = writes
    BY <1>5, Zenon DEF ReleaseDurably, GoTo
  <2>2. \A k \in Msgs : /\ ~Saving(k)' /\ pc'[k] # "save"
                        /\ Claiming(k)' => Claiming(k) /\ k # m
    BY <1>0, <1>1, <1>2, <2>1, Zenon DEF Saving, Claiming
  <2>3. SavesInOrder'
    BY <1>1, <2>1, <2>2, Zenon DEF SavesInOrder
  <2>4. NothingBeforeLoad'
    BY <1>2, Zenon DEF NothingBeforeLoad
  <2>5. ASSUME NEW f \in Nat, NEW k \in Nat, Safe(f, k),
               f # EpochOf[m] \/ k # ids[m]
        PROVE  Safe(f, k)'
    BY <1>4, <2>1, <2>5, Zenon DEF Safe, ReleaseDurably, Past
  <2>6. IdsSafe'
    BY <1>0, <1>3, <2>2, <2>5, ZenonT(40) DEF IdsInv, IdsSafe, ReleaseDurably, Safe
  <2>7. DrawnOnce' /\ IdsUsedOnce'
    BY <2>2, Zenon DEF IdsInv, DrawnOnce, IdsUsedOnce, ReleaseDurably
  <2> QED
    BY <2>3, <2>4, <2>6, <2>7 DEF IdsInv
<1>6. CASE nonces'.nextId # nonces.nextId
  <2>1. pc' = [pc EXCEPT ![m] = "lower"] /\ lock' = lock
    BY <1>6, Zenon DEF ReleaseDurably, GoTo
  <2>2. \A k \in Msgs : /\ Saving(k)' <=> k = m
                        /\ pc'[k] # "save"
                        /\ Claiming(k)' => Claiming(k) /\ k # m
    BY <1>0, <1>1, <1>2, <2>1, Zenon DEF Saving, Claiming
  <2>3. /\ Len(writes') = Len(writes) + 1
        /\ DOMAIN writes' = 1..(Len(writes) + 1)
        /\ writes'[Len(writes) + 1] = [owner |-> m, to |-> nonces']
        /\ \A i \in 1..Len(writes) : writes'[i] = writes[i]
    BY <1>0, <1>6, AskFacts, Zenon DEF ReleaseDurably
  <2>4. SavesInOrder'
    <3>1. writes' # <<>>
      BY <1>0, <2>3
    <3>2. \A i \in DOMAIN writes' : writes'[i].owner # NoOne =>
            i = Len(writes') /\ writes'[i].owner = m
      BY <1>0, <1>1, <2>3
    <3>3. Holds(m)'
      BY <2>1, Zenon DEF ReleaseDurably, Holds
    <3> QED
      BY <1>0, <1>2, <2>2, <2>3, <3>1, <3>2, <3>3, ZenonT(40) DEF SavesInOrder
  <2>5. NothingBeforeLoad'
    BY <1>2 DEF NothingBeforeLoad
  <2>6. ASSUME NEW f \in Nat, NEW k \in Nat, Safe(f, k),
               f # EpochOf[m] \/ k # ids[m]
        PROVE  Safe(f, k)'
    <3>1. \A i \in DOMAIN writes' : Past(writes'[i].to, f, k)
      BY <1>0, <1>4, <2>3, <2>6 DEF Safe
    <3> QED
      BY <1>4, <2>6, <3>1, Zenon DEF Safe, ReleaseDurably, Past
  <2>7. IdsSafe'
    BY <1>0, <1>3, <2>2, <2>6, ZenonT(40) DEF IdsInv, IdsSafe, ReleaseDurably, Safe
  <2>8. DrawnOnce' /\ IdsUsedOnce'
    BY <2>2, Zenon DEF IdsInv, DrawnOnce, IdsUsedOnce, ReleaseDurably
  <2> QED
    BY <2>4, <2>5, <2>7, <2>8 DEF IdsInv
<1> QED
  BY <1>5, <1>6, Zenon

\* ensureMessageIdsLoaded resumes above every id in a proof.
LEMMA LoadStep ==
    ASSUME IdsInv, TypeOK', NEW c \in Callers, EnsureMessageIdsLoaded(c)
    PROVE  IdsInv'
<1>0. /\ TypeOK /\ row \in Counter
      /\ \A p \in proofs : p.id \in Nat /\ p.epoch \in Nat
  BY Zenon DEF IdsInv, TypeOK
<1>1. /\ nonces = FreshCounter /\ writes = <<>> /\ loaded'
      /\ \A m \in Msgs : pc[m] \in {"idle", "reserve", "quota"}
  BY Zenon DEF IdsInv, NothingBeforeLoad, EnsureMessageIdsLoaded, Callers
<1>2. /\ \A m \in Msgs : ~Saving(m)' /\ ~Claiming(m)' /\ pc'[m] # "save"
      /\ writes' = <<>>
  BY <1>1, Zenon DEF Saving, Claiming, EnsureMessageIdsLoaded
<1>3. SavesInOrder'
  BY <1>2 DEF SavesInOrder
<1>4. NothingBeforeLoad'
  BY <1>1, Zenon DEF NothingBeforeLoad
<1>5. \A p \in proofs : Safe(p.epoch, p.id)'
  BY <1>0, <1>1, <1>2, RestoreFacts
     DEF IdsInv, IdsSafe, Safe, EnsureMessageIdsLoaded, Past
<1>6. IdsSafe'
  BY <1>2, <1>5, Zenon DEF IdsSafe, EnsureMessageIdsLoaded, Safe
<1>7. DrawnOnce' /\ IdsUsedOnce'
  BY <1>2, ZenonT(40) DEF IdsInv, DrawnOnce, IdsUsedOnce, EnsureMessageIdsLoaded
<1> QED
  BY <1>3, <1>4, <1>6, <1>7, Zenon DEF IdsInv

\* The oldest write leaves the queue, committed or lost.
LEMMA TailFacts ==
    ASSUME TypeOK, writes # <<>>, writes' = Tail(writes)
    PROVE  /\ Head(writes) = writes[1] /\ 1 \in DOMAIN writes
           /\ Len(writes') = Len(writes) - 1 /\ Len(writes) \in Nat \ {0}
           /\ DOMAIN writes = 1..Len(writes)
           /\ DOMAIN writes' = 1..(Len(writes) - 1)
           /\ \A i \in DOMAIN writes' : writes'[i] = writes[i + 1]
<1>1. writes \in Seq(Write)
  BY WriteTypes, Zenon
<1> QED
  BY <1>1

\* The storage thread commits the oldest write and wakes its owner.
LEMMA CommitStep ==
    ASSUME IdsInv, TypeOK', Commit
    PROVE  IdsInv'
<1> USE MsgsAssumption
<1> PICK m : m = writes[1].owner
  BY Zenon
<1>0. /\ TypeOK /\ Msgs \subseteq Callers /\ nonces \in Counter
      /\ \A k \in Msgs : ids[k] \in Nat /\ EpochOf[k] \in Nat
      /\ \A p \in proofs : p.id \in Nat /\ p.epoch \in Nat
      /\ pc \in [Callers -> Phases]
  BY Zenon DEF IdsInv, Callers, TypeOK
<1>1. /\ Head(writes) = writes[1] /\ 1 \in DOMAIN writes
      /\ Len(writes') = Len(writes) - 1 /\ Len(writes) \in Nat \ {0}
      /\ DOMAIN writes = 1..Len(writes)
      /\ DOMAIN writes' = 1..(Len(writes) - 1)
      /\ \A i \in DOMAIN writes' : writes'[i] = writes[i + 1]
  BY <1>0, TailFacts, Zenon DEF Commit
<1>2. row' = writes[1].to /\ m \in Msgs \cup {NoOne}
  BY <1>0, <1>1, WriteTypes, Zenon DEF Commit
<1>3. ASSUME NEW f \in Nat, NEW k \in Nat, Safe(f, k) PROVE Safe(f, k)'
  <2>1. /\ k < NonceLimit /\ (loaded => Past(nonces, f, k))
        /\ \A i \in DOMAIN writes : Past(writes[i].to, f, k)
    BY <1>3, Zenon DEF Safe
  <2>2. loaded' = loaded /\ nonces' = nonces
    BY Zenon DEF Commit
  <2>3. \A i \in DOMAIN writes' : i + 1 \in DOMAIN writes
    BY <1>1
  <2>4. \A i \in DOMAIN writes' : Past(writes'[i].to, f, k)
    BY <1>1, <2>1, <2>3, Zenon
  <2>5. (loaded => Past(nonces, f, k))'
    BY <2>1, <2>2, Zenon DEF Past
  <2>6. Past(row', f, k)
    BY <1>1, <1>2, <2>1, Zenon
  <2> QED BY <2>1, <2>4, <2>5, <2>6, Zenon DEF Safe, Past
<1>4. loaded
  <2>1. writes # <<>>
    BY Zenon DEF Commit
  <2> QED
    BY <2>1, Zenon DEF IdsInv, NothingBeforeLoad
<1>5. NothingBeforeLoad' /\ IdsUsedOnce'
  BY <1>4, Zenon DEF IdsInv, NothingBeforeLoad, IdsUsedOnce, Commit
<1>6. CASE m = NoOne
  <2>1. pc' = pc /\ lock' = lock
    BY <1>1, <1>6, Zenon DEF Commit
  <2>2. \A k \in Msgs : /\ Saving(k)' <=> Saving(k)
                        /\ Claiming(k)' <=> Claiming(k)
    BY <2>1, Zenon DEF Saving, Claiming
  <2>3. \A k \in Msgs : Saving(k) => Len(writes) > 1
    <3> SUFFICES ASSUME NEW k \in Msgs, Saving(k), Len(writes) = 1 PROVE FALSE
      BY <1>1
    <3>1. writes[1] = [owner |-> k, to |-> nonces]
      BY Zenon DEF IdsInv, SavesInOrder
    <3>2. writes[1].owner = k
      BY <3>1, OwnerOf, Zenon
    <3> QED
      BY <1>6, <3>2, ZenonT(40)
  <2>4. SavesInOrder'
    <3>1. \A k \in Msgs : Saving(k)' =>
            /\ Holds(k)' /\ loaded' /\ writes' # <<>>
            /\ writes'[Len(writes')] = [owner |-> k, to |-> nonces']
      <4> SUFFICES ASSUME NEW k \in Msgs, Saving(k)'
                   PROVE  /\ Holds(k)' /\ loaded' /\ writes' # <<>>
                          /\ writes'[Len(writes')] = [owner |-> k, to |-> nonces']
        BY Zenon
      <4>1. Saving(k) /\ Len(writes) > 1
        BY <2>2, <2>3, Zenon
      <4>2. Holds(k) /\ writes[Len(writes)] = [owner |-> k, to |-> nonces]
        BY <4>1, Zenon DEF IdsInv, SavesInOrder
      <4>3. Holds(k)'
        BY <4>2, <2>1, Zenon DEF Holds
      <4>4. nonces' = nonces /\ loaded' = loaded
        BY Zenon DEF Commit
      <4>5. Len(writes') \in DOMAIN writes'
        BY <1>1, <4>1
      <4>6. writes'[Len(writes')] = writes[Len(writes)]
        BY <1>1, <4>1, <4>5
      <4>7. writes' # <<>>
        BY <4>5
      <4> QED
        BY <1>4, <4>2, <4>3, <4>4, <4>6, <4>7, Zenon
    <3>2. \A i \in DOMAIN writes' : writes'[i].owner # NoOne =>
            i = Len(writes') /\ pc'[writes'[i].owner] \in {"save", "lower"}
      BY <1>1, <2>1 DEF IdsInv, SavesInOrder, Saving
    <3> QED
      BY <2>1, <3>1, <3>2, Zenon DEF IdsInv, SavesInOrder, Commit, Saving
  <2>5. IdsSafe'
    BY <1>0, <1>3, <2>2, ZenonT(40) DEF IdsInv, IdsSafe, Commit, Safe
  <2>6. DrawnOnce'
    BY <2>1, <2>2, Zenon DEF IdsInv, DrawnOnce, Commit
  <2> QED
    BY <1>5, <2>4, <2>5, <2>6, Zenon DEF IdsInv
<1>7. CASE m \in Msgs
  <2>1. Len(writes) = 1 /\ Saving(m) /\ writes[1].to = nonces
    <3>1. m # NoOne
      BY <1>7, Zenon
    <3>2. Len(writes) = 1 /\ Saving(m)
      BY <1>1, <3>1, Zenon DEF IdsInv, SavesInOrder
    <3>3. writes[1] = [owner |-> m, to |-> nonces]
      BY <1>7, <3>2, Zenon DEF IdsInv, SavesInOrder
    <3> QED
      BY <3>2, <3>3
  <2>2. /\ Leave(m)
        /\ pc' = [pc EXCEPT ![m] = IF pc[m] = "save" THEN "prove" ELSE "idle"]
    BY <1>1, <1>7, Zenon DEF Commit, GoTo
  <2>3. writes' = <<>> /\ DOMAIN writes' = {}
    BY <1>1, <2>1, <1>0, WriteTypes DEF Commit
  <2>4. \A k \in Msgs : Saving(k) => k = m
    BY <2>1 DEF IdsInv, SavesInOrder, Holds
  <2>5. \A k \in Msgs : /\ ~Saving(k)' /\ pc'[k] # "save"
                        /\ Claiming(k)' =>
                             \/ Claiming(k)
                             \/ k = m /\ pc[m] = "save"
    BY <1>0, <1>7, <2>2, <2>4, Zenon DEF Saving, Claiming
  <2>6. SavesInOrder'
    BY <2>3, <2>5, Zenon DEF SavesInOrder
  <2>7. pc[m] = "save" => Safe(EpochOf[m], ids[m])'
    <3> SUFFICES ASSUME pc[m] = "save" PROVE Safe(EpochOf[m], ids[m])'
      BY Zenon
    <3>1. /\ nonces = [epochIndex |-> EpochOf[m], nextId |-> ids[m] + 1]
          /\ ids[m] < NonceLimit
      BY <1>7, Zenon DEF IdsInv, SavesInOrder
    <3>2. row' = nonces /\ nonces' = nonces /\ ids' = ids
      BY <1>2, <2>1, Zenon DEF Commit
    <3>3. Past(nonces, EpochOf[m], ids[m])
      BY <1>0, <1>7, <3>1 DEF Past
    <3> QED
      BY <2>3, <3>1, <3>2, <3>3, Zenon DEF Safe, Past
  <2>8. IdsSafe'
    BY <1>0, <1>3, <2>5, <2>7, ZenonT(40) DEF IdsInv, IdsSafe, Commit, Safe
  <2>9. DrawnOnce'
    BY <2>5, ZenonT(40) DEF IdsInv, DrawnOnce, Commit
  <2> QED
    BY <1>5, <2>6, <2>8, <2>9 DEF IdsInv
<1> QED
  BY <1>2, <1>6, <1>7, Zenon

\* A lost write that nobody waits for covers no id that is in use.
LEMMA WriteLostStep ==
    ASSUME IdsInv, TypeOK', WriteLost
    PROVE  IdsInv'
<1>0. /\ TypeOK
      /\ \A k \in Msgs : ids[k] \in Nat /\ EpochOf[k] \in Nat
      /\ \A p \in proofs : p.id \in Nat /\ p.epoch \in Nat
  BY MsgsAssumption, Zenon DEF IdsInv, TypeOK
<1>1. /\ Head(writes) = writes[1] /\ 1 \in DOMAIN writes
      /\ Len(writes') = Len(writes) - 1 /\ Len(writes) \in Nat \ {0}
      /\ DOMAIN writes = 1..Len(writes)
      /\ DOMAIN writes' = 1..(Len(writes) - 1)
      /\ \A i \in DOMAIN writes' : writes'[i] = writes[i + 1]
  BY <1>0, TailFacts, Zenon DEF WriteLost
<1>2. \A k \in Msgs : Saving(k) => Len(writes) > 1
  BY <1>1, MsgsAssumption DEF IdsInv, SavesInOrder, WriteLost
<1>3. SavesInOrder'
  <2>1. \A k \in Msgs : Saving(k)' =>
          /\ Holds(k)' /\ loaded' /\ writes' # <<>>
          /\ writes'[Len(writes')] = [owner |-> k, to |-> nonces']
    BY <1>1, <1>2 DEF IdsInv, SavesInOrder, WriteLost, Holds, Saving
  <2>2. \A i \in DOMAIN writes' : writes'[i].owner # NoOne =>
          i = Len(writes') /\ pc'[writes'[i].owner] \in {"save", "lower"}
    BY <1>1 DEF IdsInv, SavesInOrder, Saving, WriteLost
  <2> QED
    BY <2>1, <2>2, Zenon DEF IdsInv, SavesInOrder, WriteLost, Saving
<1>4. \A f, k \in Nat : Safe(f, k) => Safe(f, k)'
  BY <1>1 DEF Safe, WriteLost, Past
<1>5. IdsSafe'
  BY <1>0, <1>4, Zenon DEF IdsInv, IdsSafe, WriteLost, Safe, Claiming
<1>6. NothingBeforeLoad' /\ DrawnOnce' /\ IdsUsedOnce'
  BY Zenon DEF IdsInv, NothingBeforeLoad, DrawnOnce, IdsUsedOnce, Claiming, WriteLost
<1> QED
  BY <1>3, <1>5, <1>6, Zenon DEF IdsInv

\* A restart keeps the committed row, which covers every proof.
LEMMA RestartStep ==
    ASSUME IdsInv, TypeOK', Restart
    PROVE  IdsInv'
<1>1. \A m \in Msgs : ~Saving(m)' /\ ~Claiming(m)' /\ pc'[m] # "save"
  BY Zenon DEF Saving, Claiming, Restart, Callers
<1>2. SavesInOrder'
  BY <1>1 DEF SavesInOrder, Restart
<1>3. NothingBeforeLoad'
  BY Zenon DEF NothingBeforeLoad, Restart
<1>4. IdsSafe'
  BY <1>1 DEF IdsInv, IdsSafe, Safe, Restart, Past
<1>5. DrawnOnce' /\ IdsUsedOnce'
  BY <1>1, ZenonT(40) DEF IdsInv, DrawnOnce, IdsUsedOnce, Restart
<1> QED
  BY <1>2, <1>3, <1>4, <1>5, Zenon DEF IdsInv

-----------------------------------------------------------------------------
(* The theorems.                                                           *)

\* A cancelled call ends wherever it is suspended.
LEMMA CancelStep ==
    ASSUME IdsInv, TypeOK', NEW c \in Callers, Cancel(c)
    PROVE  IdsInv'
<1> USE MsgsAssumption
<1>0. TypeOK /\ DOMAIN writes = 1..Len(writes)
  BY WriteTypes, Zenon DEF IdsInv
<1>1. CASE pc[c] \in {"save", "lower"}
  <2>1. c \in Msgs /\ Saving(c)
    BY <1>0, <1>1, Zenon DEF TypeOK, Callers, Saving
  <2> QED
    BY <2>1, GiveUpStep, Zenon DEF Cancel
<1>2. CASE pc[c] \notin {"save", "lower"}
  <2>1. \A i \in DOMAIN writes : writes[i].owner # c
    <3> SUFFICES ASSUME NEW i \in DOMAIN writes, writes[i].owner = c PROVE FALSE
      BY Zenon
    <3>1. c # NoOne
      BY Zenon DEF Callers
    <3>2. Saving(c)
      BY <3>1, Zenon DEF IdsInv, SavesInOrder
    <3> QED
      BY <1>2, <3>2, Zenon DEF Saving
  <2>2. Abandoned(c) = [i \in DOMAIN writes |-> writes[i]]
    BY <2>1, Zenon DEF Abandoned
  <2>3. writes' = writes
    <3>1. writes = [i \in DOMAIN writes |-> writes[i]]
      BY <1>0, WriteTypes
    <3> QED
      BY <2>2, <3>1, Zenon DEF Cancel
  <2> QED
    BY <1>2, <2>3, QuietStep, Zenon DEF Cancel
<1> QED
  BY <1>1, <1>2, Zenon

\* IdsInv holds initially and after every step.
THEOREM IdsInvariant == Spec => []IdsInv
<1>1. Init => IdsInv
  <2> SUFFICES ASSUME Init PROVE IdsInv
    BY Zenon
  <2>1. TypeOK
    <3>1. nonces \in Counter /\ row \in Counter
      BY Zenon DEF Init, FreshCounter, Counter
    <3>2. writes \in Seq(Write) /\ lock \in Seq(Callers)
      BY DEF Init
    <3>3. pc \in [Callers -> Phases] /\ pc[Reader] = "idle"
      BY Zenon DEF Init, Phases, Callers
    <3> QED
      BY <3>1, <3>2, <3>3, ZenonT(40) DEF Init, TypeOK, Write
  <2>2. \A m \in Msgs : ~Saving(m) /\ ~Claiming(m) /\ pc[m] # "save"
    BY Zenon DEF Init, Saving, Claiming, Callers
  <2>3. SavesInOrder
    <3>1. DOMAIN writes = {}
      BY DEF Init
    <3> QED
      BY <2>2, <3>1, Zenon DEF SavesInOrder
  <2>4. NothingBeforeLoad
    <3>1. \A c \in Callers : pc[c] = "idle"
      BY Zenon DEF Init
    <3> QED
      BY <3>1, Zenon DEF Init, NothingBeforeLoad
  <2>5. IdsSafe /\ DrawnOnce /\ IdsUsedOnce
    BY <2>2, Zenon DEF Init, IdsSafe, DrawnOnce, IdsUsedOnce
  <2> QED
    BY <2>1, <2>3, <2>4, <2>5, Zenon DEF IdsInv
<1>2. IdsInv /\ [Next]_vars => IdsInv'
  <2> SUFFICES ASSUME IdsInv, [Next]_vars PROVE IdsInv'
    BY Zenon
  <2>t. TypeOK'
    BY TypeStep, Zenon DEF IdsInv
  <2>m. Msgs \subseteq Callers /\ Reader \in Callers
    BY Zenon DEF Callers
  <2>1. ASSUME NEW m \in Msgs, Generate(m) PROVE IdsInv'
    BY <2>1, <2>t, <2>m, QuietStep, ZenonT(40) DEF Generate
  <2>2. ASSUME NEW m \in Msgs, Draw(m) PROVE IdsInv'
    BY <2>2, <2>t, DrawStep, Zenon
  <2>3. ASSUME NEW m \in Msgs, DrawRefused(m) PROVE IdsInv'
    BY <2>3, <2>t, DrawRefusedStep, Zenon
  <2>4. ASSUME NEW m \in Msgs, SaveFails(m) PROVE IdsInv'
    BY <2>4, <2>t, GiveUpStep, Zenon DEF SaveFails, Saving
  <2>5. ASSUME NEW m \in Msgs, Prove(m) PROVE IdsInv'
    BY <2>5, <2>t, ProveStep
  <2>6. ASSUME NEW m \in Msgs, ProveFails(m) PROVE IdsInv'
    BY <2>6, <2>t, <2>m, QuietStep, Zenon DEF ProveFails
  <2>7. ASSUME NEW m \in Msgs, ReleaseDurably(m) PROVE IdsInv'
    BY <2>7, <2>t, ReleaseStep
  <2>8. ASSUME NEW m \in Msgs, LowerFails(m) PROVE IdsInv'
    BY <2>8, <2>t, GiveUpStep, Zenon DEF LowerFails, Saving
  <2>9. ASSUME NEW c \in Callers, EnsureMessageIdsLoaded(c) PROVE IdsInv'
    BY <2>9, <2>t, LoadStep, Zenon
  <2>10. ASSUME NEW c \in Callers, LoadFails(c) PROVE IdsInv'
    BY <2>10, <2>t, QuietStep, Zenon DEF LoadFails
  <2>11. ASSUME NEW c \in Callers, Cancel(c) PROVE IdsInv'
    BY <2>11, <2>t, CancelStep
  <2>12. CASE Commit
    BY <2>12, <2>t, CommitStep, Zenon
  <2>13. CASE WriteLost
    BY <2>13, <2>t, WriteLostStep, Zenon
  <2>14. CASE AskQuota
    BY <2>14, <2>t, <2>m, QuietStep, Zenon DEF AskQuota
  <2>15. CASE ReadQuota
    <3>1. pc[Reader] \notin {"save", "lower"}
      BY Zenon DEF IdsInv, TypeOK
    <3> QED
      BY <2>15, <2>t, <2>m, <3>1, QuietStep, Zenon DEF ReadQuota
  <2>16. CASE ClockMoves \/ UNCHANGED vars
    <3>1. UNCHANGED <<nonces, loaded, row, writes, lock, pc, ids, proofs>>
      BY <2>16, Zenon DEF ClockMoves, vars
    <3>2. SavesInOrder' /\ NothingBeforeLoad'
      BY <3>1, Zenon DEF IdsInv, SavesInOrder, NothingBeforeLoad, Saving, Holds
    <3>3. IdsSafe'
      BY <3>1, ZenonT(40) DEF IdsInv, IdsSafe, Safe, Claiming, Past
    <3>4. DrawnOnce' /\ IdsUsedOnce'
      BY <3>1, ZenonT(40) DEF IdsInv, DrawnOnce, IdsUsedOnce, Claiming
    <3> QED
      BY <2>t, <3>2, <3>3, <3>4, Zenon DEF IdsInv
  <2>17. CASE Restart
    BY <2>17, <2>t, RestartStep
  <2> QED
    BY <2>1, <2>2, <2>3, <2>4, <2>5, <2>6, <2>7, <2>8, <2>9, <2>10, <2>11,
       <2>12, <2>13, <2>14, <2>15, <2>16, <2>17, Zenon DEF Next
<1> QED
  BY <1>1, <1>2, PTL DEF Spec

\* Every variable of the RLN backend keeps its type.
THEOREM TypeCorrect == Spec => []TypeOK
<1>1. IdsInv => TypeOK
  BY Zenon DEF IdsInv
<1> QED
  BY <1>1, IdsInvariant, PTL

\* No message id is ever in the proofs of two messages of one epoch.
THEOREM IdsNeverReused == Spec => []IdsUsedOnce
<1>1. IdsInv => IdsUsedOnce
  BY Zenon DEF IdsInv
<1> QED
  BY <1>1, IdsInvariant, PTL

\* The committed row is past every id in a proof, at every moment.
THEOREM RowAlwaysCovers == Spec => []RowCoversProofs
<1>1. IdsInv => RowCoversProofs
  BY Zenon DEF IdsInv, IdsSafe, Safe, RowCoversProofs
<1> QED
  BY <1>1, IdsInvariant, PTL

\* The epoch of a stored row that was ahead of the clock is one that the counter
\* has reached: it never moves back (nonce_manager.nim, restore and reserve).
RefusedReached == refusedUntil <= nonces.epochIndex

\* The counter never goes back to an earlier epoch.
LEMMA EpochForward ==
    ASSUME NEW n \in Counter, NEW epoch \in Nat, NEW id \in Nat, NEW stored \in Counter
    PROVE  /\ n.epochIndex <= Reserve(n, epoch).epochIndex
           /\ Release(n, epoch, id).epochIndex = n.epochIndex
           /\ n.epochIndex <= Restore(n, stored).epochIndex
           /\ stored.epochIndex <= Restore(n, stored).epochIndex
<1>1. n.epochIndex \in Nat /\ stored.epochIndex \in Nat
  BY Zenon DEF Counter
<1>2. n.epochIndex <= Rolled(n, epoch).epochIndex
  BY <1>1 DEF Rolled
<1>3. n.epochIndex <= Reserve(n, epoch).epochIndex
  <2>1. Rolled(n, epoch) \in Counter
    BY Zenon DEF Rolled, Counter
  <2>2. [Rolled(n, epoch) EXCEPT !.nextId = @ + 1].epochIndex = Rolled(n, epoch).epochIndex
    BY <2>1, Zenon DEF Counter
  <2> QED
    BY <1>1, <1>2, <2>2 DEF Reserve
<1>4. Release(n, epoch, id).epochIndex = n.epochIndex
  BY Zenon DEF Release, Counter
<1>5. /\ n.epochIndex <= Restore(n, stored).epochIndex
      /\ stored.epochIndex <= Restore(n, stored).epochIndex
  BY <1>1 DEF Restore
<1> QED
  BY <1>3, <1>4, <1>5, Zenon

\* Every step keeps it.
LEMMA RefusedReachedStep ==
    ASSUME TypeOK, TypeOK', RefusedReached, [Next]_vars
    PROVE  RefusedReached'
<1>t. /\ nonces \in Counter /\ nonces' \in Counter /\ row \in Counter
      /\ refusedUntil \in Nat /\ nonces.epochIndex \in Nat /\ nonces'.epochIndex \in Nat
  BY Zenon DEF TypeOK, Counter
<1>e. \A m \in Msgs : EpochOf[m] \in Nat /\ ids[m] \in Nat
  BY MsgsAssumption, Zenon DEF TypeOK
<1>k. refusedUntil' = refusedUntil /\ nonces.epochIndex <= nonces'.epochIndex =>
        RefusedReached'
  BY <1>t DEF RefusedReached
<1>1. ASSUME NEW m \in Msgs, Draw(m) \/ DrawRefused(m) PROVE RefusedReached'
  <2>1. nonces' = Reserve(nonces, EpochOf[m]) /\ refusedUntil' = refusedUntil
    BY <1>1, Zenon DEF Draw, DrawRefused
  <2>2. nonces.epochIndex <= nonces'.epochIndex
    BY <1>t, <1>e, <2>1, EpochForward, Zenon
  <2> QED
    BY <1>k, <2>1, <2>2, Zenon
<1>2. ASSUME NEW m \in Msgs, SaveFails(m) \/ ReleaseDurably(m) PROVE RefusedReached'
  <2>1. nonces' = Release(nonces, EpochOf[m], ids[m]) /\ refusedUntil' = refusedUntil
    BY <1>2, Zenon DEF SaveFails, ReleaseDurably
  <2>2. nonces'.epochIndex = nonces.epochIndex
    BY <1>t, <1>e, <2>1, EpochForward, Zenon
  <2> QED
    BY <1>k, <1>t, <2>1, <2>2
<1>3. ASSUME NEW c \in Callers, EnsureMessageIdsLoaded(c) PROVE RefusedReached'
  <2>1. /\ nonces' = Restore(nonces, row)
        /\ refusedUntil' = row.epochIndex \/ refusedUntil' = refusedUntil
    BY <1>3, Zenon DEF EnsureMessageIdsLoaded
  <2>2. nonces.epochIndex <= nonces'.epochIndex /\ row.epochIndex <= nonces'.epochIndex
    BY <1>t, <2>1, EpochForward, Zenon
  <2> QED
    BY <1>k, <2>1, <2>2, Zenon DEF RefusedReached
<1>4. CASE Restart
  BY <1>4, <1>t DEF Restart, RefusedReached
<1>5. CASE \/ \E m \in Msgs : Generate(m) \/ Prove(m) \/ ProveFails(m) \/ LowerFails(m)
           \/ \E c \in Callers : LoadFails(c) \/ Cancel(c)
           \/ Commit \/ WriteLost \/ AskQuota \/ ReadQuota \/ ClockMoves
           \/ UNCHANGED vars
  <2>1. nonces' = nonces /\ refusedUntil' = refusedUntil
    BY <1>5, Zenon DEF Generate, Prove, ProveFails, LowerFails, LoadFails, Cancel, Commit,
         WriteLost, AskQuota, ReadQuota, ClockMoves, vars
  <2> QED
    BY <2>1, Zenon DEF RefusedReached
<1> QED
  BY <1>1, <1>2, <1>3, <1>4, <1>5, Zenon DEF Next

\* A quota that reads zero is no guess: a draw for the epoch of the clock would be
\* refused (rln_evm.nim, quota; nonce_manager.nim, reserve).
THEOREM SpentAlwaysRefused == Spec => []SpentMeansRefused
<1>1. TypeOK /\ RefusedReached => SpentMeansRefused
  <2> SUFFICES ASSUME TypeOK, RefusedReached, Remaining(now) = 0
               PROVE  ReserveAnswer(nonces, now) # "ok"
    BY Zenon DEF SpentMeansRefused
  <2>t. /\ now \in Nat /\ refusedUntil \in Nat /\ NonceLimit \in Nat
        /\ nonces.epochIndex \in Nat /\ nonces.nextId \in Nat
    BY MsgsAssumption, NonceLimitAssumption, Zenon DEF TypeOK, Counter
  <2>1. CASE now < nonces.epochIndex
    BY <2>1, Zenon DEF ReserveAnswer
  <2>2. CASE now = nonces.epochIndex
    <3>1. ~(now < refusedUntil)
      BY <2>t, <2>2 DEF RefusedReached
    <3>2. nonces.nextId >= NonceLimit
      BY <2>t, <2>2, <3>1 DEF Remaining, SpentBudget, Spent
    <3> QED
      BY <2>t, <2>2, <3>2, Zenon DEF ReserveAnswer, Rolled
  <2>3. CASE now > nonces.epochIndex
    <3>1. ~(now < refusedUntil)
      BY <2>t, <2>3 DEF RefusedReached
    <3>2. NonceLimit = 0
      BY <2>t, <2>3, <3>1 DEF Remaining, SpentBudget, Spent
    <3> QED
      BY <2>t, <2>3, <3>2 DEF ReserveAnswer, Rolled
  <2> QED
    BY <2>t, <2>1, <2>2, <2>3
<1>2. Init => RefusedReached
  BY DEF Init, RefusedReached, FreshCounter
<1>3. TypeOK /\ RefusedReached /\ [Next]_vars /\ TypeOK' => RefusedReached'
  BY RefusedReachedStep, Zenon
<1> QED
  BY <1>1, <1>2, <1>3, TypeCorrect, PTL DEF Spec

=============================================================================
