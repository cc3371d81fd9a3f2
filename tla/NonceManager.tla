--------------------------- MODULE NonceManager ---------------------------
(* The message id counter of the RLN backend, rln_evm/nonce_manager.nim.   *)
(* A counter is the pair of fields that the object changes; the operators  *)
(* return the counter after the call, and what the call answered.          *)
EXTENDS Naturals

CONSTANT NonceLimit                \* nonceLimit: message ids of one epoch

ASSUME NonceLimitAssumption == NonceLimit \in Nat

\* A NonceManager, and equally a row of the message id store.
Counter == [epochIndex : Nat, nextId : Nat]

\* NonceManager.init
FreshCounter == [epochIndex |-> 0, nextId |-> 0]

\* restore: takes a stored row, never moving the counter back; a count above
\* the limit reads as a spent epoch.
Restore(n, row) ==
    IF \/ row.epochIndex > n.epochIndex
       \/ row.epochIndex = n.epochIndex /\ row.nextId > n.nextId
      THEN [epochIndex |-> row.epochIndex,
            nextId |-> IF row.nextId < NonceLimit THEN row.nextId ELSE NonceLimit]
      ELSE n

\* The counter once a draw for `epoch` rolled it forward.
Rolled(n, epoch) ==
    IF epoch > n.epochIndex THEN [epochIndex |-> epoch, nextId |-> 0] ELSE n

\* What reserve answers: the id, or the kind of its error.
ReserveAnswer(n, epoch) ==
    IF epoch < n.epochIndex THEN "Permanent"
    ELSE IF Rolled(n, epoch).nextId >= NonceLimit THEN "BudgetExhausted"
    ELSE "ok"

\* The counter after reserve. A draw that fails for budget has rolled the epoch.
Reserve(n, epoch) ==
    CASE ReserveAnswer(n, epoch) = "Permanent"       -> n
      [] ReserveAnswer(n, epoch) = "BudgetExhausted" -> Rolled(n, epoch)
      [] OTHER -> [Rolled(n, epoch) EXCEPT !.nextId = @ + 1]

\* Faulty: takes back any id of the current epoch, not only the latest.
ReleaseAnyId(n, epoch, id) ==
    IF epoch = n.epochIndex THEN [n EXCEPT !.nextId = id] ELSE n

\* release: only the latest drawn id of the current epoch can come back.
Release(n, epoch, id) ==
    IF epoch = n.epochIndex /\ id + 1 = n.nextId
      THEN [n EXCEPT !.nextId = id]
      ELSE n

\* spent: ids drawn in `epoch`, zero for any epoch but the current one.
Spent(n, epoch) == IF epoch # n.epochIndex THEN 0 ELSE n.nextId

============================================================================
