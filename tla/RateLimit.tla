----------------------------- MODULE RateLimit -----------------------------
(* The rate limit manager over time: admissions one at a time (the send    *)
(* service's admissionLock), a quota provider that may answer late or not  *)
(* at all, and a clock. What RLN has left is up to RLN, so any remaining   *)
(* budget may be reported.                                                 *)
EXTENDS RateLimitManager

CONSTANTS
    EpochPeriodSec,   \* period of the wall-clock window
    RlnPeriodSec,     \* period of the RLN epochs
    RlnRateLimit,     \* EpochQuota.rateLimit
    Provider,         \* "none": nil; "rln": always answers; "flaps": may fail
    MaxTime,          \* bound on the clock
    MaxClashes        \* bound on clashes[e]

ASSUME PeriodsAssumption ==
    /\ EpochPeriodSec \in Nat \ {0}                  \* else `new` refuses it
    /\ RlnPeriodSec \in Nat \ {0}
    /\ RlnRateLimit \in Nat
    /\ Provider \in {"none", "rln", "flaps"}
    /\ MaxTime \in Nat /\ MaxClashes \in Nat

VARIABLES
    time,             \* seconds
    asked,            \* the time that a suspended call asked the provider with
    calling,          \* the suspended call: "idle", "quotaState" or "admit"
    mgr,              \* the RateLimitManager
    charged,          \* admissions of each RLN epoch, or of each wall-clock
                      \* epoch where there is no provider
    clashes,          \* ghost: the calls of each RLN epoch that fell back to the
                      \* wall clock while it counted another epoch
    drifted           \* ghost: the manager's window is of such a call

rlVars == <<time, asked, calling, mgr, charged, clashes, drifted>>

WallEpoch(t) == t \div EpochPeriodSec
RlnEpoch(t) == t \div RlnPeriodSec

RLTypeOK ==
    /\ time \in 0..MaxTime
    /\ asked \in 0..MaxTime
    /\ calling \in {"idle", "quotaState", "admit"}
    /\ mgr \in Manager
    /\ charged \in [0..MaxTime -> Nat]
    /\ clashes \in [0..MaxTime -> Nat]
    /\ drifted \in BOOLEAN

RLInit ==
    /\ time = 0
    /\ asked = 0
    /\ calling = "idle"
    /\ mgr = FreshManager
    /\ charged = [e \in 0..MaxTime |-> 0]
    /\ clashes = [e \in 0..MaxTime |-> 0]
    /\ drifted = FALSE

TimePasses ==
    /\ time < MaxTime
    /\ time' = time + 1
    /\ UNCHANGED <<asked, calling, mgr, charged, clashes, drifted>>

\* currentQuota asks the provider for the epoch of this moment.
Ask(call) ==
    /\ calling = "idle"
    /\ calling' = call
    /\ asked' = time
    /\ UNCHANGED <<time, mgr, charged, clashes, drifted>>

\* What the provider answers to the suspended call.
Answers ==
    {SomeQuota(RlnEpoch(asked), RlnRateLimit, left) :
        left \in IF Provider = "none" THEN {} ELSE 0..RlnRateLimit}
    \cup (IF Provider = "rln" THEN {} ELSE {NoQuota})

\* The epoch that an admission counts for.
ChargedEpoch(quota) ==
    IF Provider = "none" THEN WallEpoch(time)
    ELSE IF quota.some THEN quota.epochIndex
    ELSE RlnEpoch(time)

\* The call falls back to a wall clock that counts another epoch than RLN.
Clash(quota) ==
    Provider # "none" /\ ~quota.some /\ WallEpoch(time) # RlnEpoch(time)

\* Ghost: a window that rolls is right again, unless it rolls to a clash.
Watch(quota, rolled) ==
    /\ Clash(quota) => clashes[RlnEpoch(time)] < MaxClashes
    /\ clashes' = IF Clash(quota)
                    THEN [clashes EXCEPT ![RlnEpoch(time)] = @ + 1] ELSE clashes
    /\ drifted' = (Clash(quota) \/ (drifted /\ rolled = mgr))

\* quotaState rolls the window and reports.
FinishQuotaState(quota) ==
    LET rolled == RefreshEpoch(mgr, quota, WallEpoch(time))
    IN  /\ calling = "quotaState"
        /\ calling' = "idle"
        /\ mgr' = rolled
        /\ Watch(quota, rolled)
        /\ UNCHANGED <<time, asked, charged>>

\* admit rolls the window, then charges or answers OverBudget.
FinishAdmit(quota) ==
    LET rolled == RefreshEpoch(mgr, quota, WallEpoch(time))
    IN  /\ calling = "admit"
        /\ calling' = "idle"
        /\ IF Admits(rolled, quota)
             THEN /\ mgr' = Charge(rolled)
                  /\ charged' = [charged EXCEPT ![ChargedEpoch(quota)] = @ + 1]
             ELSE /\ mgr' = rolled
                  /\ UNCHANGED charged
        /\ Watch(quota, rolled)
        /\ UNCHANGED <<time, asked>>

RLNext ==
    \/ TimePasses
    \/ Ask("quotaState")
    \/ Ask("admit")
    \/ \E quota \in Answers : FinishQuotaState(quota) \/ FinishAdmit(quota)

RLSpec == RLInit /\ [][RLNext]_rlVars

----------------------------------------------------------------------------

\* "Local cap on messages admitted per epoch" (rate_limit_config.nim): no epoch
\* admits more, whatever answers fail or come late.
CapKept == RateLimitEnabled => \A e \in 0..MaxTime : charged[e] <= MessagesPerEpoch

\* What the clashes of an epoch may let in beyond the cap.
Excess(e) == clashes[e] * (MessagesPerEpoch + 1)

\* How far the cap gives way, whatever the two periods are and however the
\* provider fails: each call of an epoch that falls back to a wall clock which
\* counts another epoch lets in itself and one more budget at most, and an epoch
\* without such a call keeps the cap (refreshEpoch starts a new count at each
\* change of the index, whichever clock it is of).
CapBounded ==
    RateLimitEnabled =>
        \A e \in 0..MaxTime : charged[e] <= Excess(e) + MessagesPerEpoch

\* An epoch that rolls over refills the budget (rate_limit_manager.nim, module
\* comment): admit answers OverBudget only for an epoch whose own admissions
\* reached the limit, or when RLN has nothing left, or in a window that the wall
\* clock opened while RLN counted another epoch; no count of an earlier epoch is
\* held against it.
RefusedOnlyWhenSpent ==
    [][\A quota \in Answers :
         FinishAdmit(quota) /\ charged' = charged =>
           \/ quota.some /\ quota.remaining = 0
           \/ charged[ChargedEpoch(quota)] >= EpochLimit(quota)
           \/ drifted']_rlVars

============================================================================
