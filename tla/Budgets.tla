------------------------------ MODULE Budgets ------------------------------
(* The two budgets of an epoch, one at a time: the admissions of the rate  *)
(* limit manager, or the message ids of RLN. They share no state here, as  *)
(* RateLimit lets RLN report any remaining budget; the one that does not   *)
(* run stays in its initial state.                                         *)
EXTENDS RateLimit, RlnMessageIds

VARIABLE budget    \* "admissions" or "ids"

budgetVars == <<budget, rlVars, vars>>

BudgetsInit ==
    /\ budget \in {"admissions", "ids"}
    /\ RLInit
    /\ Init /\ (budget # "ids" => now = CHOOSE t \in Clock : TRUE)

BudgetsNext ==
    \/ budget = "admissions" /\ RLNext /\ UNCHANGED <<budget, vars>>
    \/ budget = "ids" /\ Next /\ UNCHANGED <<budget, rlVars>>

\* Nothing is promised of the calls of the manager.
BudgetsSpec == BudgetsInit /\ [][BudgetsNext]_budgetVars /\ Fairness
============================================================================
