------------------------- MODULE RelayInboundProofs -------------------------
(***************************************************************************)
(* Safety of the inbound relay for any number of replicas, deliveries and  *)
(* jobs, any concurrency, retry budget and number of faults.               *)
(***************************************************************************)
EXTENDS RelayInbound, TLAPS

\* What is queued or in a replica's hands came with an acknowledged delivery
\* (the due set is only ever filled from jobs that acceptInboundScript stored).
Known ==
    \A j \in Jobs : Queued(j) \/ Held(j) => \E d \in accepted : j \in JobsOf[d]

\* A replica that will record a job as completed has ReReply's answer
\* (processJob), or found the job settled or lapsed (ClaimInbound).
Rightful ==
    \A r \in Replicas, j \in Jobs :
       /\ hand[r][j] = "complete" => j \in took
       /\ hand[r][j] = "drop" => j \in took \cup dead \cup lapsed

\* The inductive invariant.
Inv ==
    /\ TypeOK
    /\ QueuedWhileStored
    /\ Known
    /\ Rightful
    /\ AcknowledgedKept
    /\ CompletedRightly
    /\ FreshBudget


\* A delivery is stored as a whole, and only then acknowledged.
LEMMA KeptByAccept ==
  ASSUME Inv, NEW d \in Deliveries, Accept(d)
  PROVE  Inv'

<1>1. TypeOK'
  BY InboundAssumption DEF Inv, TypeOK, Accept, Store, Payloads
<1>2. QueuedWhileStored'
  BY DEF Inv, Accept, Store, QueuedWhileStored, Stored, Queued
<1>3. Known'
  BY DEF Inv, Accept, Store, Known, Queued, Held
<1>4. Rightful'
  BY DEF Inv, Accept, Rightful
<1>5. AcknowledgedKept'
  BY InboundAssumption
  DEF Inv, TypeOK, Accept, Store, AcknowledgedKept, Stored
<1>6. CompletedRightly'
  BY DEF Inv, Accept, CompletedRightly
<1>7. FreshBudget'
  BY DEF Inv, Accept, Store, FreshBudget, Stored
<1>. QED
  BY <1>1, <1>2, <1>3, <1>4, <1>5, <1>6, <1>7 DEF Inv

\* An expired job moves from one queue to the other.
LEMMA KeptByRequeue ==
  ASSUME Inv, NEW r \in Replicas, Requeue(r)
  PROVE  Inv'

<1>1. TypeOK'
  BY InboundAssumption DEF Inv, TypeOK, Requeue, Requeued
<1>2. QueuedWhileStored'
  BY DEF Inv, Requeue, Requeued, QueuedWhileStored, Stored, Queued
<1>3. Known'
  BY DEF Inv, Requeue, Requeued, Held, Known, Queued
<1>4. Rightful'
  BY DEF Inv, Requeue, Rightful
<1>5. AcknowledgedKept'
  BY DEF Inv, Requeue, AcknowledgedKept, Stored
<1>6. CompletedRightly'
  BY DEF Inv, Requeue, CompletedRightly
<1>7. FreshBudget'
  BY DEF Inv, Requeue, FreshBudget, Stored
<1>. QED
  BY <1>1, <1>2, <1>3, <1>4, <1>5, <1>6, <1>7 DEF Inv

\* So does a claimed one, into the hands of one replica.
LEMMA KeptByClaim ==
  ASSUME Inv, NEW r \in Replicas, Claim(r)
  PROVE  Inv'

<1>1. TypeOK'
  BY DEF Inv, TypeOK, Claim, Hands
<1>2. QueuedWhileStored'
  BY DEF Inv, Claim, QueuedWhileStored, Stored, Queued
<1>3. Known'
  BY DEF Inv, Claim, Known, Queued, Held
<1>4. Rightful'
  BY DEF Inv, Claim, Rightful
<1>5. AcknowledgedKept'
  BY DEF Inv, Claim, AcknowledgedKept, Stored
<1>6. CompletedRightly'
  BY DEF Inv, Claim, CompletedRightly
<1>7. FreshBudget'
  BY DEF Inv, Claim, FreshBudget, Stored
<1>. QED
  BY <1>1, <1>2, <1>3, <1>4, <1>5, <1>6, <1>7 DEF Inv

\* What a failed cycle claimed stays in the processing set.
LEMMA KeptByLoadFails ==
  ASSUME Inv, NEW r \in Replicas, LoadFails(r)
  PROVE  Inv'

<1>1. TypeOK'
  BY InboundAssumption DEF Inv, TypeOK, LoadFails, Drop, store, Hands,
      Payloads
<1>2. QueuedWhileStored'
  BY DEF Inv, LoadFails, store, QueuedWhileStored, Stored, Queued
<1>3. Known'
  BY DEF Inv, LoadFails, Drop, store, Known, Queued, Held
<1>4. Rightful'
  BY DEF Inv, LoadFails, Drop, store, Rightful
<1>5. AcknowledgedKept'
  BY DEF Inv, LoadFails, store, AcknowledgedKept, Stored
<1>6. CompletedRightly'
  BY DEF Inv, LoadFails, store, CompletedRightly
<1>7. FreshBudget'
  BY DEF Inv, LoadFails, store, FreshBudget, Stored
<1>. QED
  BY <1>1, <1>2, <1>3, <1>4, <1>5, <1>6, <1>7 DEF Inv

\* So does what a dead replica held.
LEMMA KeptByCrash ==
  ASSUME Inv, NEW r \in Replicas, Crash(r)
  PROVE  Inv'

<1>1. TypeOK'
  BY InboundAssumption DEF Inv, TypeOK, Crash, Drop, store, Hands, Payloads
<1>2. QueuedWhileStored'
  BY DEF Inv, Crash, store, QueuedWhileStored, Stored, Queued
<1>3. Known'
  BY DEF Inv, Crash, Drop, store, Known, Queued, Held
<1>4. Rightful'
  BY DEF Inv, Crash, Drop, store, Rightful
<1>5. AcknowledgedKept'
  BY DEF Inv, Crash, store, AcknowledgedKept, Stored
<1>6. CompletedRightly'
  BY DEF Inv, Crash, store, CompletedRightly
<1>7. FreshBudget'
  BY DEF Inv, Crash, store, FreshBudget, Stored
<1>. QED
  BY <1>1, <1>2, <1>3, <1>4, <1>5, <1>6, <1>7 DEF Inv

\* A payload that is gone after a claim was settled or lapsed: the job is known,
\* and what is known is stored or accounted for.
LEMMA KeptByLoad ==
  ASSUME Inv, NEW r \in Replicas, NEW j \in Jobs, Load(r, j)
  PROVE  Inv'

<1>1. TypeOK'
  BY DEF Inv, TypeOK, Load, Hold, store, Hands, Settling
<1>2. QueuedWhileStored'
  BY DEF Inv, Load, store, QueuedWhileStored, Stored, Queued
<1>3. Known'
  BY DEF Inv, Load, Hold, store, Known, Queued, Held
<1>4. Rightful'
  <2>1. Held(j)
    BY DEF Load, Held
  <2>2. ~Stored(j) => j \in took \cup dead \cup lapsed
    BY <2>1 DEF Inv, Known, AcknowledgedKept
  <2>. QED
    BY <2>2 DEF Inv, TypeOK, Load, Hold, store, Stored, Rightful
<1>5. AcknowledgedKept'
  BY DEF Inv, Load, store, AcknowledgedKept, Stored
<1>6. CompletedRightly'
  BY DEF Inv, Load, store, CompletedRightly
<1>7. FreshBudget'
  BY DEF Inv, Load, store, FreshBudget, Stored
<1>. QED
  BY <1>1, <1>2, <1>3, <1>4, <1>5, <1>6, <1>7 DEF Inv

\* The registry only decides what the replica does next.
LEMMA KeptByResolve ==
  ASSUME Inv, NEW r \in Replicas, NEW j \in Jobs, Resolve(r, j)
  PROVE  Inv'

<1>1. TypeOK'
  BY DEF Inv, TypeOK, Resolve, Hold, store, Hands, Settling, Payloads
<1>2. QueuedWhileStored'
  BY DEF Inv, Resolve, store, QueuedWhileStored, Stored, Queued
<1>3. Known'
  BY DEF Inv, Resolve, Hold, store, Known, Queued, Held
<1>4. Rightful'
  BY DEF Inv, Resolve, Hold, store, Rightful
<1>5. AcknowledgedKept'
  BY DEF Inv, Resolve, store, AcknowledgedKept, Stored
<1>6. CompletedRightly'
  BY DEF Inv, Resolve, store, CompletedRightly
<1>7. FreshBudget'
  BY DEF Inv, Resolve, store, FreshBudget, Stored
<1>. QED
  BY <1>1, <1>2, <1>3, <1>4, <1>5, <1>6, <1>7 DEF Inv

\* The replica completes a job only with an acceptance in hand.
LEMMA KeptByForward ==
  ASSUME Inv, NEW r \in Replicas, NEW j \in Jobs, Forward(r, j)
  PROVE  Inv'

<1>1. TypeOK'
  <2>1. PICK step \in {"complete", "retry", "dead"} : Hold(r, j, step)
    BY DEF Forward
  <2>2. hand' \in [Replicas -> [Jobs -> Hands]]
    BY <2>1 DEF Inv, TypeOK, Hold, Hands, Settling
  <2>3. took' \subseteq Jobs
    BY DEF Inv, TypeOK, Forward
  <2>. QED
    BY <2>2, <2>3 DEF Inv, TypeOK, Forward, store
<1>2. QueuedWhileStored'
  BY DEF Inv, Forward, store, QueuedWhileStored, Stored, Queued
<1>3. Known'
  <2>1. PICK step \in {"complete", "retry", "dead"} : Hold(r, j, step)
    BY DEF Forward
  <2>2. \A i \in Jobs : Held(i)' => Held(i)
    BY <2>1 DEF Inv, TypeOK, Forward, Hold, Held
  <2>. QED
    BY <2>2 DEF Inv, Forward, store, Known, Queued
<1>4. Rightful'
  BY DEF Inv, TypeOK, Forward, Hold, store, Rightful
<1>5. AcknowledgedKept'
  BY DEF Inv, Forward, store, AcknowledgedKept, Stored
<1>6. CompletedRightly'
  BY DEF Inv, Forward, store, CompletedRightly
<1>7. FreshBudget'
  BY DEF Inv, Forward, store, FreshBudget, Stored
<1>. QED
  BY <1>1, <1>2, <1>3, <1>4, <1>5, <1>6, <1>7 DEF Inv

\* What is deleted here was taken, dead-lettered or lapsed.
LEMMA KeptByComplete ==
  ASSUME Inv, NEW r \in Replicas, NEW j \in Jobs, Complete(r, j)
  PROVE  Inv'

<1>1. TypeOK'
  BY InboundAssumption DEF Inv, TypeOK, Complete, Delete, Unqueue, Forget,
      Hold, Hands, Payloads
<1>2. QueuedWhileStored'
  BY DEF Inv, TypeOK, Complete, Delete, Unqueue, QueuedWhileStored, Stored,
      Queued
<1>3. Known'
  BY DEF Inv, Complete, Delete, Unqueue, Hold, Known, Queued, Held
<1>4. Rightful'
  BY DEF Inv, Complete, Hold, Rightful
<1>5. AcknowledgedKept'
  <2>1. j \in took \cup dead \cup lapsed
    BY DEF Inv, Complete, Rightful
  <2>. QED
    BY <2>1, InboundAssumption
    DEF Inv, TypeOK, Complete, Delete, AcknowledgedKept, Stored
<1>6. CompletedRightly'
  BY DEF Inv, Complete, Rightful, CompletedRightly
<1>7. FreshBudget'
  BY DEF Inv, TypeOK, Complete, Delete, Forget, FreshBudget, Stored
<1>. QED
  BY <1>1, <1>2, <1>3, <1>4, <1>5, <1>6, <1>7 DEF Inv

\* What is deleted here is recorded as dead.
LEMMA KeptByDead ==
  ASSUME Inv, NEW r \in Replicas, NEW j \in Jobs, Dead(r, j)
  PROVE  Inv'

<1>1. TypeOK'
  BY InboundAssumption DEF Inv, TypeOK, Dead, Delete, Unqueue, Forget, Hold,
      Hands, Payloads
<1>2. QueuedWhileStored'
  BY DEF Inv, TypeOK, Dead, Delete, Unqueue, QueuedWhileStored, Stored,
      Queued
<1>3. Known'
  BY DEF Inv, Dead, Delete, Unqueue, Hold, Known, Queued, Held
<1>4. Rightful'
  BY DEF Inv, Dead, Hold, Rightful
<1>5. AcknowledgedKept'
  BY DEF Inv, Dead, Delete, AcknowledgedKept, Stored
<1>6. CompletedRightly'
  BY DEF Inv, Dead, CompletedRightly
<1>7. FreshBudget'
  BY DEF Inv, TypeOK, Dead, Delete, Forget, FreshBudget, Stored
<1>. QED
  BY <1>1, <1>2, <1>3, <1>4, <1>5, <1>6, <1>7 DEF Inv

\* A job that is gone is not queued again; one whose budget is spent is dead.
LEMMA KeptByRetry ==
  ASSUME Inv, NEW r \in Replicas, NEW j \in Jobs, Retry(r, j)
  PROVE  Inv'

<1>1. TypeOK'
  <2>1. hand' \in [Replicas -> [Jobs -> Hands]]
    BY DEF Inv, TypeOK, Retry, Hold, Hands, Settling
  <2>2. attempts' \in [Jobs -> 0..(MaxAttempts - 1)]
    BY InboundAssumption
    DEF Inv, TypeOK, Retry, RetryGone, RetryExhausted, RetryLater, Delete,
        Forget
  <2>3. /\ payload' \in [Jobs -> Payloads]
        /\ due' \subseteq Jobs /\ processing' \subseteq Jobs
        /\ dead' \subseteq Jobs
    BY DEF Inv, TypeOK, Retry, RetryGone, RetryExhausted, RetryLater, Delete,
           Unqueue, Defer, Payloads
  <2>. QED
    BY <2>1, <2>2, <2>3 DEF Inv, TypeOK, Retry
<1>2. QueuedWhileStored'
  BY DEF Inv, TypeOK, Retry, RetryGone, RetryExhausted, RetryLater, Delete,
      Unqueue, Defer, QueuedWhileStored, Stored, Queued
<1>3. Known'
  BY DEF Inv, Retry, RetryGone, RetryExhausted, RetryLater, Delete, Unqueue,
      Defer, Hold, Known, Queued, Held
<1>4. Rightful'
  BY DEF Inv, Retry, RetryGone, RetryExhausted, RetryLater, Hold, Rightful
<1>5. AcknowledgedKept'
  <2>1. \A i \in Jobs : Stored(i) => Stored(i)' \/ i \in dead'
    BY DEF Inv, TypeOK, Retry, RetryGone, RetryExhausted, RetryLater, Delete,
           Stored
  <2>2. dead \subseteq dead'
    BY DEF Retry, RetryGone, RetryExhausted, RetryLater
  <2>. QED
    BY <2>1, <2>2, InboundAssumption
    DEF Inv, TypeOK, Retry, AcknowledgedKept
<1>6. CompletedRightly'
  BY DEF Inv, Retry, RetryGone, RetryExhausted, RetryLater, CompletedRightly
<1>7. FreshBudget'
  BY DEF Inv, TypeOK, Retry, RetryGone, RetryExhausted, RetryLater, Delete,
      Forget, FreshBudget, Stored
<1>. QED
  BY <1>1, <1>2, <1>3, <1>4, <1>5, <1>6, <1>7 DEF Inv

\* A job that is gone is not queued again.
LEMMA KeptByPark ==
  ASSUME Inv, NEW r \in Replicas, NEW j \in Jobs, Park(r, j)
  PROVE  Inv'

<1>1. TypeOK'
  BY DEF Inv, TypeOK, Park, ParkGone, ParkLater, Unqueue, Defer, Hold, Hands
<1>2. QueuedWhileStored'
  BY DEF Inv, Park, ParkGone, ParkLater, Unqueue, Defer, QueuedWhileStored,
      Stored, Queued
<1>3. Known'
  BY DEF Inv, Park, ParkGone, ParkLater, Unqueue, Defer, Hold, Known, Queued,
      Held
<1>4. Rightful'
  BY DEF Inv, Park, Hold, Rightful
<1>5. AcknowledgedKept'
  BY DEF Inv, Park, AcknowledgedKept, Stored
<1>6. CompletedRightly'
  BY DEF Inv, Park, CompletedRightly
<1>7. FreshBudget'
  BY DEF Inv, Park, FreshBudget, Stored
<1>. QED
  BY <1>1, <1>2, <1>3, <1>4, <1>5, <1>6, <1>7 DEF Inv

\* A settlement that is lost leaves the store as it was.
LEMMA KeptBySettleFails ==
  ASSUME Inv, NEW r \in Replicas, NEW j \in Jobs, SettleFails(r, j)
  PROVE  Inv'

<1>1. TypeOK'
  BY InboundAssumption DEF Inv, TypeOK, SettleFails, Hold, store, Hands
<1>2. QueuedWhileStored'
  BY DEF Inv, SettleFails, store, QueuedWhileStored, Stored, Queued
<1>3. Known'
  BY DEF Inv, SettleFails, Hold, store, Known, Queued, Held
<1>4. Rightful'
  BY DEF Inv, SettleFails, Hold, store, Rightful
<1>5. AcknowledgedKept'
  BY DEF Inv, SettleFails, store, AcknowledgedKept, Stored
<1>6. CompletedRightly'
  BY DEF Inv, SettleFails, store, CompletedRightly
<1>7. FreshBudget'
  BY DEF Inv, SettleFails, store, FreshBudget, Stored
<1>. QED
  BY <1>1, <1>2, <1>3, <1>4, <1>5, <1>6, <1>7 DEF Inv

\* A lapsed payload may stay queued.
LEMMA KeptByLapse ==
  ASSUME Inv, NEW j \in Jobs, Lapse(j)
  PROVE  Inv'

<1>1. TypeOK'
  BY InboundAssumption DEF Inv, TypeOK, Lapse, Payloads
<1>2. QueuedWhileStored'
  BY DEF Inv, Lapse, QueuedWhileStored, Stored, Queued
<1>3. Known'
  BY DEF Inv, Lapse, Known, Queued, Held
<1>4. Rightful'
  BY DEF Inv, Lapse, Rightful
<1>5. AcknowledgedKept'
  BY DEF Inv, Lapse, AcknowledgedKept, Stored
<1>6. CompletedRightly'
  BY DEF Inv, Lapse, CompletedRightly
<1>7. FreshBudget'
  BY DEF Inv, Lapse, FreshBudget, Stored
<1>. QED
  BY <1>1, <1>2, <1>3, <1>4, <1>5, <1>6, <1>7 DEF Inv

\* Rotated credentials change neither queues nor what is stored.
LEMMA KeptByRebind ==
  ASSUME Inv, Rebind
  PROVE  Inv'

<1>1. TypeOK'
  BY DEF Inv, TypeOK, Rebind, Payloads
<1>2. QueuedWhileStored'
  BY DEF Inv, Rebind, QueuedWhileStored, Stored, Queued
<1>3. Known'
  BY DEF Inv, Rebind, Known, Queued, Held
<1>4. Rightful'
  BY DEF Inv, Rebind, Rightful
<1>5. AcknowledgedKept'
  BY InboundAssumption
  DEF Inv, TypeOK, Rebind, AcknowledgedKept, Stored
<1>6. CompletedRightly'
  BY DEF Inv, Rebind, CompletedRightly
<1>7. FreshBudget'
  BY DEF Inv, Rebind, FreshBudget, Stored
<1>. QED
  BY <1>1, <1>2, <1>3, <1>4, <1>5, <1>6, <1>7 DEF Inv

LEMMA KeptByStutter ==
  ASSUME Inv, UNCHANGED vars
  PROVE  Inv'

<1>1. TypeOK'
  BY DEF Inv, TypeOK, vars, store
<1>2. QueuedWhileStored'
  BY DEF Inv, vars, store, QueuedWhileStored, Stored, Queued
<1>3. Known'
  BY DEF Inv, vars, store, Known, Queued, Held
<1>4. Rightful'
  BY DEF Inv, vars, store, Rightful
<1>5. AcknowledgedKept'
  BY DEF Inv, vars, store, AcknowledgedKept, Stored
<1>6. CompletedRightly'
  BY DEF Inv, vars, store, CompletedRightly
<1>7. FreshBudget'
  BY DEF Inv, vars, store, FreshBudget, Stored
<1>. QED
  BY <1>1, <1>2, <1>3, <1>4, <1>5, <1>6, <1>7 DEF Inv

LEMMA InvInit ==
  Init => Inv

<1>. SUFFICES ASSUME Init PROVE Inv
  OBVIOUS
<1>1. TypeOK
  BY InboundAssumption DEF Init, TypeOK, Hands, Payloads
<1>2. QueuedWhileStored /\ FreshBudget
  BY DEF Init, QueuedWhileStored, FreshBudget, Queued, Stored
<1>3. Known /\ Rightful
  BY DEF Init, Known, Rightful, Queued, Held
<1>4. AcknowledgedKept /\ CompletedRightly
  BY DEF Init, AcknowledgedKept, CompletedRightly
<1>. QED
  BY <1>1, <1>2, <1>3, <1>4 DEF Inv

LEMMA InvNext ==
  Inv /\ [Next]_vars => Inv'

<1>. SUFFICES ASSUME Inv, [Next]_vars PROVE Inv'
  OBVIOUS
<1>1. CASE \E d \in Deliveries : Accept(d)
  BY <1>1, KeptByAccept
<1>2. ASSUME NEW r \in Replicas, Requeue(r) \/ Claim(r) \/ LoadFails(r) \/ Crash(r)
      PROVE  Inv'
  BY <1>2, KeptByRequeue, KeptByClaim, KeptByLoadFails, KeptByCrash
<1>3. ASSUME NEW r \in Replicas, NEW j \in Jobs, Process(r, j)
      PROVE  Inv'
  <2>1. CASE Load(r, j) \/ Resolve(r, j) \/ Forward(r, j)
    BY <2>1, KeptByLoad, KeptByResolve, KeptByForward
  <2>2. CASE Settle(r, j)
    BY <2>2, KeptByComplete, KeptByDead, KeptByRetry, KeptByPark DEF Settle
  <2>. QED
    BY <1>3, <2>1, <2>2 DEF Process
<1>4. ASSUME NEW r \in Replicas, NEW j \in Jobs, SettleFails(r, j)
      PROVE  Inv'
  BY <1>4, KeptBySettleFails
<1>5. CASE \E j \in Jobs : Lapse(j)
  BY <1>5, KeptByLapse
<1>6. CASE Rebind
  BY <1>6, KeptByRebind
<1>7. CASE UNCHANGED vars
  BY <1>7, KeptByStutter
<1>. QED
  BY <1>1, <1>2, <1>3, <1>4, <1>5, <1>6, <1>7 DEF Next

\* The invariant holds in every state.
THEOREM InboundInvariant == Spec => []Inv

<1>. QED
  BY InvInit, InvNext, PTL DEF Spec

\* Redis and the replicas' batches stay well formed, and no job is retried
\* more often than MaxAttempts allows.
THEOREM InboundTypeCorrect == Spec => []TypeOK

<1>1. Inv => TypeOK
  BY DEF Inv
<1>. QED
  BY <1>1, InboundInvariant, PTL

\* No script, in whatever order replicas run them on one job, strands a
\* payload outside the queues or queues a job that was settled.
THEOREM QueuedWhileStoredHolds == Spec => []QueuedWhileStored

<1>1. Inv => QueuedWhileStored
  BY DEF Inv
<1>. QED
  BY <1>1, InboundInvariant, PTL

\* What Meta was told is received is stored, taken, dead-lettered or lapsed.
THEOREM AcknowledgedKeptHolds == Spec => []AcknowledgedKept

<1>1. Inv => AcknowledgedKept
  BY DEF Inv
<1>. QED
  BY <1>1, InboundInvariant, PTL

\* A completion is recorded only of what was taken, dead-lettered or lapsed.
THEOREM CompletedRightlyHolds == Spec => []CompletedRightly

<1>1. Inv => CompletedRightly
  BY DEF Inv
<1>. QED
  BY <1>1, InboundInvariant, PTL

\* A job accepted anew has its whole retry budget unless it had lapsed.
THEOREM FreshBudgetHolds == Spec => []FreshBudget

<1>1. Inv => FreshBudget
  BY DEF Inv
<1>. QED
  BY <1>1, InboundInvariant, PTL
-----------------------------------------------------------------------------
(* The relay implements DurableInbox                                       *)

\* What a replica handles, and what is stored, came with a delivery that was
\* acknowledged: nothing is forwarded that Meta did not send.
LEMMA HandledDelivered ==
  ASSUME Inv, NEW j \in Jobs, Queued(j) \/ Held(j)
  PROVE  j \in Inbox!Delivered
BY DEF Inv, Known, Inbox!Delivered

\* Acceptance owes every job of the delivery at once.
LEMMA AcceptAcknowledges ==
  ASSUME Inv, NEW d \in Deliveries, Accept(d)
  PROVE  Inbox!Acknowledge(d)
<1>1. Owed' = Owed \cup JobsOf[d]
  BY InboundAssumption DEF Inv, TypeOK, Accept, Store, Owed, Stored
<1>. QED
  BY <1>1 DEF Accept, Inbox!Acknowledge

\* ReReply takes a job that is owed, or one that another replica settled
\* meanwhile; or it does not take it.
LEMMA ForwardTakes ==
  ASSUME Inv, NEW r \in Replicas, NEW j \in Jobs, Forward(r, j)
  PROVE  Inbox!Take(j) \/ UNCHANGED Inbox!vars
<1>1. Owed' = Owed BY DEF Forward, store, Owed, Stored
<1>2. j \in Inbox!Delivered
  <2>1. Held(j) BY DEF Forward, Held
  <2>. QED BY <2>1, HandledDelivered
<1>3. UNCHANGED <<accepted, dead, lapsed, completed>> BY DEF Forward, store
<1>4. took' = took \cup {j} \/ took' = took BY DEF Forward
<1>. QED BY <1>1, <1>2, <1>3, <1>4 DEF Inbox!Take, Inbox!vars

\* A deleted job is owed no longer, and no other is touched.
LEMMA DeletedNotOwed ==
  ASSUME Inv, NEW j \in Jobs, payload' = [payload EXCEPT ![j] = "gone"]
  PROVE  Owed' = Owed \ {j}
BY DEF Inv, TypeOK, Owed, Stored

LEMMA CompleteCloses ==
  ASSUME Inv, NEW r \in Replicas, NEW j \in Jobs, Complete(r, j)
  PROVE  Inbox!Close(j)
<1>1. Owed' = Owed \ {j} BY DeletedNotOwed DEF Complete, Delete
<1>2. j \in Inbox!Discharged
  BY DEF Inv, Rightful, Complete, Inbox!Discharged
<1>. QED BY <1>1, <1>2 DEF Complete, Inbox!Close

LEMMA DeadBuries ==
  ASSUME Inv, NEW r \in Replicas, NEW j \in Jobs, Dead(r, j)
  PROVE  Inbox!Bury(j)
<1>1. Owed' = Owed \ {j} BY DeletedNotOwed DEF Dead, Delete
<1>2. j \in Inbox!Delivered
  <2>1. Held(j) BY DEF Dead, Held
  <2>. QED BY <2>1, HandledDelivered
<1>. QED BY <1>1, <1>2 DEF Dead, Inbox!Bury

\* A retry keeps the job owed until its budget is spent, and then buries it.
LEMMA RetryBuries ==
  ASSUME Inv, NEW r \in Replicas, NEW j \in Jobs, Retry(r, j)
  PROVE  Inbox!Bury(j) \/ UNCHANGED Inbox!vars
<1>1. CASE RetryGone(j) \/ RetryLater(j)
  BY <1>1 DEF Retry, RetryGone, RetryLater, Owed, Stored, Inbox!vars
<1>2. CASE RetryExhausted(j)
  <2>1. Owed' = Owed \ {j} BY <1>2, DeletedNotOwed DEF RetryExhausted, Delete
  <2>2. j \in Inbox!Delivered
    <3>1. Held(j) BY DEF Retry, Held
    <3>. QED BY <3>1, HandledDelivered
  <2>. QED BY <1>2, <2>1, <2>2 DEF Retry, RetryExhausted, Inbox!Bury
<1>. QED BY <1>1, <1>2 DEF Retry

LEMMA LapseLapses ==
  ASSUME Inv, NEW j \in Jobs, Lapse(j)
  PROVE  Inbox!Lapse(j)
<1>1. Owed' = Owed \ {j} BY DeletedNotOwed DEF Lapse
<1>2. j \in Owed BY DEF Lapse, Owed, Stored
<1>. QED BY <1>1, <1>2 DEF Lapse, Inbox!Lapse

\* Rotated credentials make a payload stale, which is still owed.
LEMMA RebindOwes ==
  ASSUME Inv, Rebind
  PROVE  UNCHANGED Inbox!vars
<1>1. \A j \in Jobs : payload'[j] # "gone" <=> payload[j] # "gone"
  BY DEF Inv, TypeOK, Rebind
<1>2. Owed' = Owed BY <1>1 DEF Owed, Stored
<1>. QED BY <1>2 DEF Rebind, Inbox!vars

\* What replicas do among themselves is no step of the inbox.
LEMMA OthersOwe ==
  ASSUME Inv,
         \/ \E r \in Replicas : Requeue(r) \/ Claim(r) \/ LoadFails(r) \/ Crash(r)
         \/ \E r \in Replicas, j \in Jobs :
              Load(r, j) \/ Resolve(r, j) \/ Park(r, j) \/ SettleFails(r, j)
         \/ UNCHANGED vars
  PROVE  UNCHANGED Inbox!vars
<1>1. UNCHANGED <<accepted, payload, completed, dead, took, lapsed>>
  BY DEF Requeue, Claim, LoadFails, Crash, Load, Resolve, Park, SettleFails, store, vars
<1>. QED BY <1>1 DEF Owed, Stored, Inbox!vars

LEMMA InboxInit == Init => Inbox!Init
BY DEF Init, Inbox!Init, Owed, Stored

LEMMA InboxStep == Inv /\ [Next]_vars => [Inbox!Next]_(Inbox!vars)
<1>. SUFFICES ASSUME Inv, [Next]_vars PROVE [Inbox!Next]_(Inbox!vars)
  OBVIOUS
<1>1. ASSUME NEW d \in Deliveries, Accept(d) PROVE Inbox!Next
  BY <1>1, AcceptAcknowledges DEF Inbox!Next
<1>2. ASSUME NEW r \in Replicas, Requeue(r) \/ Claim(r) \/ LoadFails(r) \/ Crash(r)
      PROVE  UNCHANGED Inbox!vars
  BY <1>2, OthersOwe
<1>3. ASSUME NEW r \in Replicas, NEW j \in Jobs, Process(r, j) \/ SettleFails(r, j)
      PROVE  Inbox!Next \/ UNCHANGED Inbox!vars
  <2>1. CASE Load(r, j) \/ Resolve(r, j) \/ Park(r, j) \/ SettleFails(r, j)
    BY <2>1, OthersOwe
  <2>2. CASE Forward(r, j) BY <2>2, ForwardTakes DEF Inbox!Next
  <2>3. CASE Complete(r, j) BY <2>3, CompleteCloses DEF Inbox!Next
  <2>4. CASE Dead(r, j) BY <2>4, DeadBuries DEF Inbox!Next
  <2>5. CASE Retry(r, j) BY <2>5, RetryBuries DEF Inbox!Next
  <2>. QED BY <1>3, <2>1, <2>2, <2>3, <2>4, <2>5 DEF Process, Settle
<1>4. ASSUME NEW j \in Jobs, Lapse(j) PROVE Inbox!Next
  BY <1>4, LapseLapses DEF Inbox!Next
<1>5. CASE Rebind BY <1>5, RebindOwes
<1>6. CASE UNCHANGED vars BY <1>6, OthersOwe
<1>. QED BY <1>1, <1>2, <1>3, <1>4, <1>5, <1>6 DEF Next

\* Whatever replicas do to copies of one job, and whenever they crash, Meta
\* sees a durable inbox (handleMetaWebhook, store.go, worker.go): what it was
\* told is received stays owed until it was taken, dead-lettered or lapsed.
THEOREM ImplementsInboxHolds == Spec => ImplementsInbox
<1>. QED
  BY InboxInit, InboxStep, InboundInvariant, PTL DEF Spec, ImplementsInbox, Inbox!Spec
=============================================================================
