------------------------- MODULE RateLimitManager -------------------------
(* The admission rules of messaging/rate_limit_manager. A manager is the   *)
(* pair of fields that its calls change; each call first rolls the window  *)
(* with what the quota provider answered and, failing that, the wall clock.*)
EXTENDS Integers

CONSTANTS
    RateLimitEnabled,             \* config.enabled
    MessagesPerEpoch,             \* config.messagesPerEpoch
    ApproachedThresholdPercent    \* config.approachedThresholdPercent

ASSUME RateLimitAssumption ==
    /\ RateLimitEnabled \in BOOLEAN
    /\ MessagesPerEpoch \in Nat
    /\ ApproachedThresholdPercent \in 0..100        \* else `new` refuses it

Manager == [currentEpochIndex : Nat, sentInCurrentEpoch : Nat]

FreshManager == [currentEpochIndex |-> 0, sentInCurrentEpoch |-> 0]

\* An EpochQuota, or none: RLN is not mounted, not ready, or the read failed.
NoQuota == [some |-> FALSE, epochIndex |-> 0, rateLimit |-> 0, remaining |-> 0]

SomeQuota(epoch, limit, left) ==
    [some |-> TRUE, epochIndex |-> epoch, rateLimit |-> limit, remaining |-> left]

Lesser(a, b) == IF a < b THEN a ELSE b

\* Faulty: the count of the old epoch is kept.
RefreshEpochKeepsCount(mgr, quota, wallEpoch) ==
    [mgr EXCEPT !.currentEpochIndex =
        IF quota.some THEN quota.epochIndex ELSE wallEpoch]

\* refreshEpoch: any change of the epoch index starts a new count. The calls of
\* a disabled manager return before it.
RefreshEpoch(mgr, quota, wallEpoch) ==
    LET epochIndex == IF quota.some THEN quota.epochIndex ELSE wallEpoch
    IN  IF RateLimitEnabled /\ epochIndex # mgr.currentEpochIndex
          THEN [currentEpochIndex |-> epochIndex, sentInCurrentEpoch |-> 0]
          ELSE mgr

\* The limit that refreshEpoch returns.
EpochLimit(quota) ==
    IF quota.some THEN Lesser(MessagesPerEpoch, quota.rateLimit)
                  ELSE MessagesPerEpoch

DefaultApproachedThresholdPercent == 80

\* approachedAt, in the split form of the code.
ApproachedAtOf(percent, limit) ==
    (limit \div 100) * percent + ((limit % 100) * percent + 99) \div 100

ApproachedAt(limit) ==
    ApproachedAtOf(IF ApproachedThresholdPercent = 0
                     THEN DefaultApproachedThresholdPercent
                     ELSE ApproachedThresholdPercent, limit)

\* QuotaState, ordered as `max` compares it.
Normal == 0
Approached == 1
Exhausted == 2

StateOf(used, limit) ==
    IF used >= limit THEN Exhausted
    ELSE IF used >= ApproachedAt(limit) THEN Approached
    ELSE Normal

\* quotaState, for a manager whose window was just rolled.
QuotaState(mgr, quota) ==
    LET local == StateOf(mgr.sentInCurrentEpoch, EpochLimit(quota))
        rln   == StateOf(quota.rateLimit - Lesser(quota.remaining, quota.rateLimit),
                         quota.rateLimit)
    IN  IF ~RateLimitEnabled THEN Normal
        ELSE IF quota.some /\ rln > local THEN rln
        ELSE local

\* Faulty: charges one message more than the limit.
AdmitsOneMore(mgr, quota) ==
    \/ ~RateLimitEnabled
    \/ /\ mgr.sentInCurrentEpoch <= EpochLimit(quota)
       /\ quota.some => quota.remaining # 0

\* The test of admit, for a manager whose window was just rolled.
Admits(mgr, quota) ==
    \/ ~RateLimitEnabled
    \/ /\ mgr.sentInCurrentEpoch < EpochLimit(quota)
       /\ quota.some => quota.remaining # 0

\* The charge of admit.
Charge(mgr) ==
    IF RateLimitEnabled THEN [mgr EXCEPT !.sentInCurrentEpoch = @ + 1] ELSE mgr

============================================================================
