----------------------------- MODULE MCSendMix -----------------------------
(* Mix before the plain path: one message fits into mix, one is too large. *)
EXTENDS SendService, TLC

CONSTANTS small, large, m, n

MCHashOf == (small :> m) @@ (large :> n)
============================================================================
