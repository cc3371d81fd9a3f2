--------------------------- MODULE MCSendBudget ---------------------------
(* Only mix, with RLN and a rate limit: a durable message and an ephemeral  *)
(* one share the budget of two epochs, and a third does not fit into mix.  *)
EXTENDS SendService, TLC

CONSTANTS a, e, large, m, n, o

MCHashOf == (a :> m) @@ (e :> n) @@ (large :> o)
============================================================================
