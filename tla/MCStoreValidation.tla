------------------------- MODULE MCStoreValidation -------------------------
(* Two requests carry the same message, a Store page holds one hash, and   *)
(* the client stops once.                                                  *)
EXTENDS StoreValidation

CONSTANTS first, again, other

MCHashOf == [r \in Requests |-> IF r = again THEN first ELSE r]
============================================================================
