---------------------------- MODULE MCSendPlain ----------------------------
(* Relay with a lightpush fallback, no rate limit and no RLN. Two requests *)
(* carry the same message, one slot is shared, and the client stops once.  *)
EXTENDS SendService, TLC

CONSTANTS first, again, other, m, n

MCHashOf == (first :> m) @@ (again :> m) @@ (other :> n)
============================================================================
