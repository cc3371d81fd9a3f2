---------------------------- MODULE WaitQueues ----------------------------
(* The wait queues of chronos' AsyncLock and AsyncSemaphore: first come,   *)
(* first served. A queue holds the holders, then the waiters.              *)
EXTENDS Naturals, Sequences

InSeq(x, q) == \E i \in DOMAIN q : q[i] = x

\* No one is in the queue twice.
Distinct(q) == \A i, j \in DOMAIN q : q[i] = q[j] => i = j

\* The queue once `x`, who is in it at most once, has left: it freed what it
\* held, or its wait was cancelled.
Without(q, x) ==
    IF InSeq(x, q)
      THEN LET k == CHOOSE i \in DOMAIN q : q[i] = x
           IN  [i \in 1..(Len(q) - 1) |-> IF i < k THEN q[i] ELSE q[i + 1]]
      ELSE q

============================================================================
