--------------------------- MODULE RlnMessageIds ---------------------------
(* How the on-chain RLN backend draws message ids for its proofs           *)
(* (rln_evm/proof.nim), saves the count (rln_evm/message_id_store.nim),    *)
(* reports the epoch budget (rln_evm/rln_evm.nim, `quota`) and resumes the *)
(* count after a restart.                                                  *)
(*                                                                         *)
(* The backend runs on one event loop. A call is suspended only where the  *)
(* code awaits, so an action is the code from one await to the next. The   *)
(* rows are written by the storage thread of the persistency job, which    *)
(* serves its requests in the order they were made; a request whose caller *)
(* gave up (timeout or cancel) is still served.                            *)
EXTENDS NonceManager, WaitQueues

CONSTANTS
    Msgs,            \* messages that proofs are generated for
    EpochOf,         \* the epoch of the timestamp of each message
    Clock,           \* epochs the wall clock can show
    MaxEpochGap,     \* epochs that rlnMaxTimestampGap reaches across
    Reader,          \* the caller of getEpochQuota
    MaxWrites,       \* bound: requests that wait for the storage thread
    NoOne            \* owner of a write that nobody waits for any more

ASSUME MsgsAssumption ==
    /\ EpochOf \in [Msgs -> Nat]
    /\ Clock \subseteq Nat /\ Clock # {}
    /\ MaxEpochGap \in Nat /\ MaxWrites \in Nat
    /\ Reader \notin Msgs /\ NoOne \notin Msgs /\ NoOne # Reader

VARIABLES
    now,             \* the epoch of the wall clock
    nonces,          \* rlnEvm.nonceManager
    loaded,          \* messageIdStore is not nil
    refusedUntil,    \* rlnEvm.refusedUntil
    row,             \* the committed row; FreshCounter while there is none
    writes,          \* requests that the storage thread has not served yet
    lock,            \* reserveLock: its holder, then its waiters in order
    pc,              \* where each call is suspended
    ids,             \* the id that each generate call has drawn
    proofs           \* every proof handed out, over all restarts

vars == <<now, nonces, loaded, refusedUntil, row, writes, lock, pc, ids,
          proofs>>

Callers == Msgs \cup {Reader}

\* "reserve", "release" and "quota" are calls in the queue of reserveLock, its
\* holder included; "save" and "lower" hold it while the row is written.
Phases == {"idle", "reserve", "save", "prove", "release", "lower", "quota"}

TypeOK ==
    /\ now \in Clock
    /\ nonces \in Counter
    /\ loaded \in BOOLEAN
    /\ refusedUntil \in Nat
    /\ row \in Counter
    /\ writes \in Seq([owner : Msgs \cup {NoOne}, to : Counter])
    /\ lock \in Seq(Callers)
    /\ pc \in [Callers -> Phases] /\ pc[Reader] \in {"idle", "quota"}
    /\ ids \in [Msgs -> Nat]
    /\ proofs \subseteq [msg : Msgs, epoch : Nat, id : Nat]

Init ==
    /\ now \in Clock
    /\ nonces = FreshCounter
    /\ loaded = FALSE
    /\ refusedUntil = 0
    /\ row = FreshCounter
    /\ writes = <<>>
    /\ lock = <<>>
    /\ pc = [c \in Callers |-> "idle"]
    /\ ids = [m \in Msgs |-> 0]
    /\ proofs = {}

----------------------------------------------------------------------------
(* reserveLock is handed to its waiters in the order that they came.       *)

Holds(c) == lock # <<>> /\ Head(lock) = c

Acquire(c) == lock' = Append(lock, c)

\* The holder lets go (the deferred release2), or a waiter is cancelled.
Leave(c) == lock' = Without(lock, c)

GoTo(c, phase) == pc' = [pc EXCEPT ![c] = phase]

\* The owner of a pending write stops to wait for it; the write stays queued.
Abandoned(m) ==
    [i \in DOMAIN writes |->
        IF writes[i].owner = m THEN [writes[i] EXCEPT !.owner = NoOne]
                               ELSE writes[i]]

\* saveMessageIds: the storage thread is asked to write the row.
AskToSave(m, counter) ==
    /\ Len(writes) < MaxWrites
    /\ writes' = Append(writes, [owner |-> m, to |-> counter])

----------------------------------------------------------------------------
(* generateRLNProof and generateRLNProofWithRootRefresh.                   *)

\* checkTimestampBounds: a timestamp further away is refused before any draw.
InBounds(epoch) == epoch <= now + MaxEpochGap /\ now <= epoch + MaxEpochGap

Generate(m) ==
    /\ pc[m] = "idle"
    /\ InBounds(EpochOf[m])
    /\ Acquire(m)
    /\ GoTo(m, "reserve")
    /\ UNCHANGED <<now, nonces, loaded, refusedUntil, row, writes, ids, proofs>>

\* ensureMessageIdsLoaded reads the row of an earlier run. An epoch ahead of
\* the clock is remembered in refusedUntil.
EnsureMessageIdsLoaded(c) ==
    /\ Holds(c) /\ pc[c] \in {"reserve", "quota"}
    /\ ~loaded
    /\ loaded' = TRUE
    /\ nonces' = Restore(nonces, row)
    /\ refusedUntil' = IF row.epochIndex > now THEN row.epochIndex
                                               ELSE refusedUntil
    /\ UNCHANGED <<now, row, writes, lock, pc, ids, proofs>>

\* Faulty: returns without freeing the lock.
LoadFailsHolding(c) ==
    /\ Holds(c) /\ pc[c] \in {"reserve", "quota"}
    /\ ~loaded
    /\ GoTo(c, "idle")
    /\ UNCHANGED <<now, nonces, loaded, refusedUntil, row, writes, lock, ids,
                   proofs>>

\* No credential, no store, or a row that cannot be read: NotReady.
LoadFails(c) ==
    /\ Holds(c) /\ pc[c] \in {"reserve", "quota"}
    /\ ~loaded
    /\ Leave(c)
    /\ GoTo(c, "idle")
    /\ UNCHANGED <<now, nonces, loaded, refusedUntil, row, writes, ids, proofs>>

\* Faulty: the id goes into a proof while its save is pending.
DrawWithoutWaiting(m) ==
    /\ Holds(m) /\ pc[m] = "reserve" /\ loaded
    /\ ReserveAnswer(nonces, EpochOf[m]) = "ok"
    /\ nonces' = Reserve(nonces, EpochOf[m])
    /\ ids' = [ids EXCEPT ![m] = Rolled(nonces, EpochOf[m]).nextId]
    /\ AskToSave(NoOne, nonces')
    /\ Leave(m)
    /\ GoTo(m, "prove")
    /\ UNCHANGED <<now, loaded, refusedUntil, row, proofs>>

\* reserveDurably draws an id and asks for the new count to be saved.
Draw(m) ==
    /\ Holds(m) /\ pc[m] = "reserve" /\ loaded
    /\ ReserveAnswer(nonces, EpochOf[m]) = "ok"
    /\ nonces' = Reserve(nonces, EpochOf[m])
    /\ ids' = [ids EXCEPT ![m] = Rolled(nonces, EpochOf[m]).nextId]
    /\ AskToSave(m, nonces')
    /\ GoTo(m, "save")
    /\ UNCHANGED <<now, loaded, refusedUntil, row, lock, proofs>>

DrawRefused(m) ==
    /\ Holds(m) /\ pc[m] = "reserve" /\ loaded
    /\ ReserveAnswer(nonces, EpochOf[m]) # "ok"
    /\ nonces' = Reserve(nonces, EpochOf[m])
    /\ Leave(m)
    /\ GoTo(m, "idle")
    /\ UNCHANGED <<now, loaded, refusedUntil, row, writes, ids, proofs>>

\* A save that failed gives the id back: Transient.
SaveFails(m) ==
    /\ pc[m] = "save"
    /\ nonces' = Release(nonces, EpochOf[m], ids[m])
    /\ writes' = Abandoned(m)
    /\ Leave(m)
    /\ GoTo(m, "idle")
    /\ UNCHANGED <<now, loaded, refusedUntil, row, ids, proofs>>

\* proveWithRootRefresh returned a proof, from its first or its second try.
Prove(m) ==
    /\ pc[m] = "prove"
    /\ proofs' = proofs \cup {[msg |-> m, epoch |-> EpochOf[m], id |-> ids[m]]}
    /\ GoTo(m, "idle")
    /\ UNCHANGED <<now, nonces, loaded, refusedUntil, row, writes, lock, ids>>

\* The generation failed: the id goes back through releaseDurably.
ProveFails(m) ==
    /\ pc[m] = "prove"
    /\ Acquire(m)
    /\ GoTo(m, "release")
    /\ UNCHANGED <<now, nonces, loaded, refusedUntil, row, writes, ids, proofs>>

\* releaseDurably: nothing to save when another draw followed.
ReleaseDurably(m) ==
    /\ Holds(m) /\ pc[m] = "release"
    /\ nonces' = Release(nonces, EpochOf[m], ids[m])
    /\ IF nonces'.nextId = nonces.nextId
         THEN /\ Leave(m)
              /\ GoTo(m, "idle")
              /\ UNCHANGED writes
         ELSE /\ AskToSave(m, nonces')
              /\ GoTo(m, "lower")
              /\ UNCHANGED lock
    /\ UNCHANGED <<now, loaded, refusedUntil, row, ids, proofs>>

\* The lowered count was not saved: only logged.
LowerFails(m) ==
    /\ pc[m] = "lower"
    /\ writes' = Abandoned(m)
    /\ Leave(m)
    /\ GoTo(m, "idle")
    /\ UNCHANGED <<now, nonces, loaded, refusedUntil, row, ids, proofs>>

\* The caller cancels: the call ends where it is suspended and frees the lock.
\* An id it had drawn stays drawn.
Cancel(c) ==
    /\ pc[c] # "idle"
    /\ Leave(c)
    /\ writes' = Abandoned(c)
    /\ GoTo(c, "idle")
    /\ UNCHANGED <<now, nonces, loaded, refusedUntil, row, ids, proofs>>

----------------------------------------------------------------------------
(* The storage thread, external: it commits the oldest request and wakes   *)
(* the call that waits for it.                                             *)

Commit ==
    /\ writes # <<>>
    /\ row' = Head(writes).to
    /\ writes' = Tail(writes)
    /\ LET m == Head(writes).owner IN
         IF m = NoOne
           THEN UNCHANGED <<lock, pc>>
           ELSE /\ Leave(m)
                /\ GoTo(m, IF pc[m] = "save" THEN "prove" ELSE "idle")
    /\ UNCHANGED <<now, nonces, loaded, refusedUntil, ids, proofs>>

\* The database refuses the oldest write, which nobody waits for any more.
WriteLost ==
    /\ writes # <<>> /\ Head(writes).owner = NoOne
    /\ writes' = Tail(writes)
    /\ UNCHANGED <<now, nonces, loaded, refusedUntil, row, lock, pc, ids,
                   proofs>>

----------------------------------------------------------------------------
(* getEpochQuota for the epoch of the wall clock.                          *)

AskQuota ==
    /\ pc[Reader] = "idle"
    /\ Acquire(Reader)
    /\ GoTo(Reader, "quota")
    /\ UNCHANGED <<now, nonces, loaded, refusedUntil, row, writes, ids, proofs>>

\* Faulty: the stored epoch itself also counts as refused.
SpentBudgetTooLong(epoch) ==
    IF epoch <= refusedUntil \/ Spent(nonces, epoch) > NonceLimit
      THEN NonceLimit
      ELSE Spent(nonces, epoch)

SpentBudget(epoch) ==
    IF epoch < refusedUntil \/ Spent(nonces, epoch) > NonceLimit
      THEN NonceLimit
      ELSE Spent(nonces, epoch)

Remaining(epoch) == NonceLimit - SpentBudget(epoch)

\* The call answers Remaining(now) and frees the lock.
ReadQuota ==
    /\ Holds(Reader) /\ loaded
    /\ Leave(Reader)
    /\ GoTo(Reader, "idle")
    /\ UNCHANGED <<now, nonces, loaded, refusedUntil, row, writes, ids, proofs>>

----------------------------------------------------------------------------
(* The environment.                                                        *)

\* The wall clock advances or is set.
ClockMoves ==
    /\ now' \in Clock
    /\ UNCHANGED <<nonces, loaded, refusedUntil, row, writes, lock, pc, ids,
                   proofs>>

\* The process dies and starts again: only the committed row survives.
Restart ==
    /\ nonces' = FreshCounter
    /\ loaded' = FALSE
    /\ refusedUntil' = 0
    /\ writes' = <<>>
    /\ lock' = <<>>
    /\ pc' = [c \in Callers |-> "idle"]
    /\ UNCHANGED <<now, row, ids, proofs>>

Next ==
    \/ \E m \in Msgs :
         \/ Generate(m) \/ Draw(m) \/ DrawRefused(m) \/ SaveFails(m)
         \/ Prove(m) \/ ProveFails(m) \/ ReleaseDurably(m) \/ LowerFails(m)
    \/ \E c \in Callers : EnsureMessageIdsLoaded(c) \/ LoadFails(c) \/ Cancel(c)
    \/ Commit \/ WriteLost \/ AskQuota \/ ReadQuota \/ ClockMoves \/ Restart

Spec == Init /\ [][Next]_vars

\* A generate call whose await completed runs on.
Proceed(m) ==
    \/ pc[m] = "reserve" /\ ~loaded /\ (EnsureMessageIdsLoaded(m) \/ LoadFails(m))
    \/ pc[m] = "reserve" /\ loaded /\ (Draw(m) \/ DrawRefused(m))
    \/ pc[m] = "prove" /\ (Prove(m) \/ ProveFails(m))
    \/ pc[m] = "release" /\ ReleaseDurably(m)

\* Scheduling: the event loop resumes every call whose await completed, reads
\* of the store and proof generations end one way or the other, and the
\* storage thread serves its requests. Nothing is promised of the callers, the
\* clock or restarts.
Fairness ==
    /\ \A m \in Msgs : WF_vars(Proceed(m))
    /\ WF_vars(EnsureMessageIdsLoaded(Reader) \/ LoadFails(Reader) \/ ReadQuota)
    /\ WF_vars(Commit)

----------------------------------------------------------------------------
(* Properties.                                                             *)

\* Two proofs of one epoch never carry the same message id, whatever fails,
\* is cancelled or restarts in between: proof.nim, "a restart never reissues
\* an id already in a proof". A reused id reveals the identity secret.
IdsUsedOnce ==
    \A p, q \in proofs : p.epoch = q.epoch /\ p.id = q.id => p.msg = q.msg

\* The counter is above the id.
Past(counter, epoch, id) ==
    \/ counter.epochIndex > epoch
    \/ counter.epochIndex = epoch /\ counter.nextId > id

\* A restart at any moment resumes above every id in a proof: the committed
\* row is past each of them (message_id_store.nim, "A proof may carry an id
\* only after the saved nextId is above it").
RowCoversProofs == \A p \in proofs : Past(row, p.epoch, p.id)

\* A quota that reports a spent budget tells the truth: whenever it reads zero
\* for the epoch of the clock, a draw for that epoch is refused. Holds across
\* restarts and a clock that is set back, where refusedUntil decides.
SpentMeansRefused ==
    loaded /\ Remaining(now) = 0 => ReserveAnswer(nonces, now) # "ok"

\* Every call ends, so reserveLock is never left held: whatever fails or is
\* cancelled, its `defer` frees the lock for the callers behind it.
CallsEnd == \A c \in Callers : []<>(pc[c] = "idle")

----------------------------------------------------------------------------
(* The inductive invariant behind RowCoversProofs and IdsUsedOnce.         *)

\* Calls that hold the lock while their write is pending.
Saving(m) == pc[m] \in {"save", "lower"}

\* Calls whose drawn id is saved and not in a proof yet.
Claiming(m) == pc[m] \in {"prove", "release"}

\* A pending write that is waited for is the last one, its owner holds the lock,
\* and it asks for the count in memory.
SavesInOrder ==
    /\ \A m \in Msgs : Saving(m) =>
         /\ Holds(m) /\ loaded
         /\ writes # <<>>
         /\ writes[Len(writes)] = [owner |-> m, to |-> nonces]
    /\ \A i \in DOMAIN writes : writes[i].owner # NoOne =>
         i = Len(writes) /\ Saving(writes[i].owner)
    /\ \A m \in Msgs : pc[m] = "save" =>
         nonces = [epochIndex |-> EpochOf[m], nextId |-> ids[m] + 1]
    /\ \A m \in Msgs : pc[m] = "save" => ids[m] < NonceLimit

\* Nothing is drawn before the stored count is loaded.
NothingBeforeLoad ==
    ~loaded => /\ nonces = FreshCounter
               /\ writes = <<>>
               /\ \A c \in Callers : pc[c] \in {"idle", "reserve", "quota"}

\* Every place that a draw can resume from is past the id.
Safe(epoch, id) ==
    /\ id < NonceLimit
    /\ Past(row, epoch, id)
    /\ \A i \in DOMAIN writes : Past(writes[i].to, epoch, id)
    /\ loaded => Past(nonces, epoch, id)

IdsSafe ==
    /\ \A p \in proofs : Safe(p.epoch, p.id)
    /\ \A m \in Msgs : Claiming(m) => Safe(EpochOf[m], ids[m])

\* A drawn id is in no proof and drawn by no other call.
DrawnOnce ==
    /\ \A m \in Msgs : pc[m] = "save" \/ Claiming(m) =>
         \A p \in proofs : ~(p.epoch = EpochOf[m] /\ p.id = ids[m])
    /\ \A m, k \in Msgs :
         /\ m # k /\ EpochOf[m] = EpochOf[k]
         /\ pc[m] = "save" \/ Claiming(m)
         /\ pc[k] = "save" \/ Claiming(k)
         => ids[m] # ids[k]

\* At every step, every committed or pending row and the count in memory are
\* past each saved id, and the one write that is waited for is the newest:
\* what lets a late, abandoned or failed save do no harm.
IdsInv ==
    /\ TypeOK
    /\ SavesInOrder
    /\ NothingBeforeLoad
    /\ IdsSafe
    /\ DrawnOnce
    /\ IdsUsedOnce

============================================================================
