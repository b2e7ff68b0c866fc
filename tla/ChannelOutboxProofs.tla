------------------------ MODULE ChannelOutboxProofs ------------------------
(* Theorems about ChannelOutbox, for every number of workers, jobs and      *)
(* accounts and every assignment of kinds and bounds.                       *)
EXTENDS ChannelOutbox, TLAPS

-----------------------------------------------------------------------------
(* What the shared updates do to each group of variables                    *)

\* Moving on changes a worker's step and nothing it remembers.
LEMMA GotoOK ==
  ASSUME MemoryOK, NEW w \in Workers, NEW label \in Labels, Goto(w, label)
  PROVE  /\ pc' \in [Workers -> Labels]
         /\ pc'[w] = label
         /\ \A v \in Workers : v # w => pc'[v] = pc[v]
BY DEF MemoryOK, Goto

\* What a worker loads of the account is a well-formed memory.
LEMMA SnapshotOK ==
  ASSUME MemoryOK, NEW w \in Workers
  PROVE  /\ \A o \in {"none", "refused", "retry", "proceed", "accepted"} :
              [mem EXCEPT ![w].outcome = o] \in [Workers -> Snapshot]
         /\ \A g \in 0..MaxGen : [mem EXCEPT ![w].gen = g] \in [Workers -> Snapshot]
         /\ mem[w].gen \in 0..MaxGen
         /\ mem[w].attempts \in Nat
BY DEF MemoryOK, Snapshot

\* A worker that lets its job go is free and remembers nothing of it.
LEMMA ForgetOK ==
  ASSUME MemoryOK, NEW w \in Workers, Forget(w)
  PROVE  MemoryOK'
<1>1. Blank \in Snapshot
  BY OutboxAssumption DEF Blank, Snapshot
<1> QED
  BY <1>1 DEF MemoryOK, Forget, Labels

\* A worker moves on with its job and a well-formed memory.
LEMMA MoveOK ==
  ASSUME MemoryOK, NEW w \in Workers, pc[w] # "idle",
         NEW label \in Labels, Goto(w, label),
         mem' \in [Workers -> Snapshot], fenced' \in [Workers -> BOOLEAN],
         guard' \in [Workers -> {"none", "held", "lost"}], UNCHANGED cur
  PROVE  MemoryOK'
BY GotoOK DEF MemoryOK

\* A delivery that is decided, for or against, keeps the worker's job.
LEMMA DecideOK ==
  ASSUME MemoryOK, NEW w \in Workers, pc[w] # "idle",
         NEW verdict \in {"none", "refused", "retry", "proceed", "accepted"},
         Decide(w, verdict, "settle"), UNCHANGED <<cur, fenced, guard>>
  PROVE  MemoryOK'
<1>1. mem' \in [Workers -> Snapshot]
  BY SnapshotOK DEF Decide
<1>2. "settle" \in Labels /\ Goto(w, "settle")
  BY DEF Labels, Decide
<1> QED
  BY <1>1, <1>2, MoveOK DEF MemoryOK

\* Cancelling queued rows and adding one keeps rows and history in type.
LEMMA CancelAndInsertOK ==
  ASSUME RowsOK, AccountOK, HistoryOK, NEW S, NEW New, CancelAndInsert(S, New)
  PROVE  RowsOK' /\ HistoryOK'
<1>1. \A j \in Jobs : gen[AccountOf[j]] \in 0..MaxGen
  BY OutboxAssumption DEF AccountOK
<1>2. born' \in [Jobs -> 0..MaxGen]
  BY <1>1 DEF CancelAndInsert, HistoryOK
<1> QED
  BY <1>2 DEF CancelAndInsert, RowsOK, HistoryOK, FailPending, Statuses, Queued, Terminal

\* A settlement, applied or too late, keeps rows and history in type.
LEMMA SettleRowOK ==
  ASSUME RowsOK, MemoryOK, NEW w \in Workers, pc[w] # "idle", SettleRow(w)
  PROVE  RowsOK'
<1> DEFINE j == cur[w]
<1>1. mem[w].attempts \in Nat
  BY SnapshotOK
<1>2. mem[w].attempts + 1 \in Nat
  BY <1>1
<1>3. j \in Jobs /\ attempts[j] + 1 \in Nat
  BY DEF MemoryOK, RowsOK
<1>4. CASE UNCHANGED rows
  BY <1>4 DEF rows, RowsOK
<1>5. CASE /\ Release(j, "sent")
           /\ attempts' = [attempts EXCEPT ![j] = @ + 1]
           /\ message'  = [message EXCEPT ![j] = "sent"]
           /\ UNCHANGED <<due, prepared>>
  BY <1>3, <1>5 DEF Release, RowsOK, Statuses, Terminal
<1>6. CASE /\ Release(j, IF DeadLetter(w) THEN "failed" ELSE "retrying")
           /\ attempts' = [attempts EXCEPT ![j] = mem[w].attempts + 1]
           /\ message'  = [message EXCEPT ![j] = IF DeadLetter(w) THEN "failed" ELSE @]
           /\ due'      = [due EXCEPT ![j] = DeadLetter(w)]
           /\ UNCHANGED prepared
  <2>1. DeadLetter(w) \in BOOLEAN
    BY DEF DeadLetter, Ambiguous
  <2>2. due' \in [Jobs -> BOOLEAN]
    BY <1>6, <2>1 DEF RowsOK
  <2> QED
    BY <1>2, <1>3, <1>6, <2>2 DEF Release, RowsOK, Statuses, Queued, Terminal
<1> QED
  BY <1>4, <1>5, <1>6 DEF SettleRow

\* Crossing the fence keeps rows and history in type.
LEMMA CrossFenceOK ==
  ASSUME RowsOK, MemoryOK, NEW w \in Workers, pc[w] # "idle", CrossFence(w)
  PROVE  RowsOK' /\ (mem' \in [Workers -> Snapshot] => MemoryOK')
BY DEF CrossFence, Goto, RowsOK, MemoryOK, Statuses, Queued, Terminal, Labels

-----------------------------------------------------------------------------
(* Types                                                                    *)

\* Every step of the specification keeps every variable in its type.
LEMMA TypeStep == TypeOK /\ [Next]_vars => TypeOK'
<1> SUFFICES ASSUME TypeOK, [Next]_vars PROVE TypeOK'
  OBVIOUS
<1> USE OutboxAssumption
<1>0. RowsOK /\ AccountOK /\ MemoryOK /\ HistoryOK /\ faults \in 0..MaxFaults
  BY DEF TypeOK
<1>a. /\ UNCHANGED rows => RowsOK'
      /\ UNCHANGED account => AccountOK'
      /\ UNCHANGED memory => MemoryOK'
      /\ UNCHANGED history => HistoryOK'
  BY <1>0 DEF rows, account, memory, history, RowsOK, AccountOK, MemoryOK, HistoryOK
<1>1. ASSUME NEW w \in Workers, Claim(w) PROVE TypeOK'
  <2>1. RowsOK'
    BY <1>0, <1>1 DEF Claim, RowsOK, Statuses, Queued, Terminal
  <2>2. MemoryOK'
    BY <1>0, <1>1 DEF Claim, MemoryOK, Goto, Labels
  <2> QED
    BY <2>1, <2>2, <1>0, <1>1, <1>a DEF Claim, TypeOK
<1>2. ASSUME NEW w \in Workers, RecoverAbandoned(w) PROVE TypeOK'
  <2>1. RowsOK'
    BY <1>0, <1>2 DEF RecoverAbandoned, Release, FailPending, RowsOK, Statuses, Queued, Terminal
  <2> QED
    BY <2>1, <1>0, <1>2, <1>a DEF RecoverAbandoned, TypeOK
<1>3. ASSUME NEW w \in Workers, Load(w) PROVE TypeOK'
  <2> DEFINE seen(verdict) == [gen |-> gen[AccountOf[cur[w]]], attempts |-> attempts[cur[w]],
                               outcome |-> verdict]
  <2>1. cur[w] \in Jobs /\ pc[w] # "idle"
    BY <1>0, <1>3 DEF Load, MemoryOK
  <2>2. \A verdict \in {"refused", "retry", "proceed"} : seen(verdict) \in Snapshot
    BY <2>1, <1>0 DEF Snapshot, RowsOK, AccountOK
  <2>3. FirstStep(cur[w]) \in Labels
    BY DEF FirstStep, Labels
  <2>4. ASSUME Holds(w, "processing") PROVE MemoryOK'
    <3>1. PICK verdict \in {"refused", "retry", "proceed"} :
            /\ mem' = [mem EXCEPT ![w] = seen(verdict)]
            /\ Goto(w, IF verdict = "proceed" THEN FirstStep(cur[w]) ELSE "settle")
            /\ UNCHANGED <<cur, fenced, guard>>
      BY <1>3, <2>4 DEF Load
    <3>2. mem' \in [Workers -> Snapshot]
      BY <3>1, <2>2, <1>0 DEF MemoryOK
    <3>3. (IF verdict = "proceed" THEN FirstStep(cur[w]) ELSE "settle") \in Labels
      BY <2>3 DEF Labels
    <3> QED
      BY <3>1, <3>2, <3>3, <2>1, <1>0, MoveOK DEF MemoryOK
  <2>5. MemoryOK'
    BY <2>4, <1>0, <1>3, ForgetOK DEF Load
  <2> QED
    BY <2>5, <1>0, <1>3, <1>a DEF Load, TypeOK
<1>4. ASSUME NEW w \in Workers, Prepare(w) PROVE TypeOK'
  <2>1. RowsOK'
    <3>1. CASE UNCHANGED rows
      BY <3>1, <1>a
    <3>2. CASE /\ prepared' = [prepared EXCEPT ![cur[w]] = TRUE]
               /\ lease' = [lease EXCEPT ![cur[w]] = "fresh"]
               /\ UNCHANGED <<status, lockedBy, due, attempts, message>>
      BY <3>2, <1>0 DEF RowsOK
    <3> QED
      BY <3>1, <3>2, <1>4 DEF Prepare
  <2>2. MemoryOK'
    <3>1. CASE /\ \E verdict \in {"refused", "retry"} : Decide(w, verdict, "settle")
               /\ UNCHANGED <<cur, fenced, guard>>
      BY <3>1, <1>0, <1>4, DecideOK DEF Prepare
    <3>2. CASE Goto(w, "fence") /\ UNCHANGED <<cur, fenced, mem, guard>>
      BY <3>2, <1>0, <1>4, MoveOK DEF Prepare, Labels, MemoryOK
    <3>3. CASE Forget(w)
      BY <3>3, <1>0, ForgetOK
    <3> QED
      BY <3>1, <3>2, <3>3, <1>4 DEF Prepare
  <2> QED
    BY <2>1, <2>2, <1>0, <1>4, <1>a DEF Prepare, TypeOK
<1>5. ASSUME NEW w \in Workers, FenceManaged(w) PROVE TypeOK'
  <2>1. CASE CrossFence(w) /\ UNCHANGED mem
    BY <2>1, <1>0, <1>5, <1>a, CrossFenceOK DEF FenceManaged, TypeOK, MemoryOK
  <2>2. CASE Decide(w, "refused", "settle") /\ UNCHANGED <<rows, cur, fenced, guard>>
    BY <2>2, <1>0, <1>5, <1>a, DecideOK DEF FenceManaged, TypeOK
  <2> QED
    BY <2>1, <2>2, <1>5 DEF FenceManaged
<1>6. ASSUME NEW w \in Workers, FenceThreads(w) PROVE TypeOK'
  <2>1. CASE CrossFence(w) /\ mem' = [mem EXCEPT ![w].gen = gen[AccountOf[cur[w]]]]
    <3>1. gen[AccountOf[cur[w]]] \in 0..MaxGen
      BY <1>0, <1>6 DEF FenceThreads, MemoryOK, AccountOK
    <3> QED
      BY <3>1, <2>1, <1>0, <1>6, <1>a, SnapshotOK, CrossFenceOK DEF FenceThreads, TypeOK
  <2>2. CASE Forget(w) /\ UNCHANGED rows
    BY <2>2, <1>0, <1>6, <1>a, ForgetOK DEF FenceThreads, TypeOK
  <2> QED
    BY <2>1, <2>2, <1>6 DEF FenceThreads
<1>7. ASSUME NEW w \in Workers, BeginAttempt(w) PROVE TypeOK'
  <2>1. MemoryOK'
    BY <1>0, <1>7 DEF BeginAttempt, Goto, MemoryOK, Labels
  <2> QED
    BY <2>1, <1>0, <1>7, <1>a DEF BeginAttempt, TypeOK
<1>8. ASSUME NEW w \in Workers, RecheckAI(w) PROVE TypeOK'
  <2>1. CASE CrossFence(w) /\ UNCHANGED mem
    BY <2>1, <1>0, <1>8, <1>a, CrossFenceOK DEF RecheckAI, TypeOK, MemoryOK
  <2>2. CASE Goto(w, "cancel") /\ guard' = [guard EXCEPT ![w] = "none"]
               /\ UNCHANGED <<rows, cur, fenced, mem>>
    <3>1. MemoryOK'
      BY <2>2, <1>0, <1>8 DEF RecheckAI, Goto, MemoryOK, Labels
    <3> QED
      BY <3>1, <2>2, <1>0, <1>8, <1>a DEF RecheckAI, TypeOK
  <2> QED
    BY <2>1, <2>2, <1>8 DEF RecheckAI
<1>9. ASSUME NEW w \in Workers, Send(w) PROVE TypeOK'
  <2>1. cur[w] \in Jobs /\ mem[w].gen \in 0..MaxGen
    BY <1>0, <1>9, SnapshotOK DEF Send, MemoryOK
  <2>2. HistoryOK'
    BY <2>1, <1>0, <1>9 DEF Send, HistoryOK
  <2>3. MemoryOK'
    BY <1>0, <1>9, DecideOK DEF Send
  <2> QED
    BY <2>2, <2>3, <1>0, <1>9, <1>a DEF Send, TypeOK
<1>10. ASSUME NEW w \in Workers, Settle(w) PROVE TypeOK'
  <2>1. RowsOK'
    BY <1>0, <1>10, SettleRowOK DEF Settle
  <2>2. MemoryOK'
    BY <1>0, <1>10, ForgetOK, MoveOK DEF Settle, AfterSettle, Labels, MemoryOK
  <2> QED
    BY <2>1, <2>2, <1>0, <1>10, <1>a DEF Settle, TypeOK
<1>11. ASSUME NEW w \in Workers, CancelAI(w) PROVE TypeOK'
  <2>1. RowsOK'
    BY <1>0, <1>11, <1>a DEF CancelAI, Release, FailPending, RowsOK, MemoryOK, Statuses, Terminal
  <2>2. MemoryOK'
    BY <1>0, <1>11, ForgetOK DEF CancelAI
  <2> QED
    BY <2>1, <2>2, <1>0, <1>11, <1>a DEF CancelAI, TypeOK
<1>12. ASSUME NEW w \in Workers, FaultStep(w) PROVE TypeOK'
  <2>1. MemoryOK'
    BY <1>0, <1>12, ForgetOK
       DEF FaultStep, Crash, SettleFails, GuardLost, Goto, Labels, MemoryOK
  <2>2. faults' \in 0..MaxFaults
    BY <1>0, <1>12 DEF FaultStep, Crash, SettleFails, GuardLost, Fault, OutboxAssumption
  <2> QED
    BY <2>1, <2>2, <1>0, <1>12, <1>a DEF FaultStep, Crash, SettleFails, GuardLost, TypeOK
<1>13. ASSUME NEW j \in Jobs, JobStep(j) PROVE TypeOK'
  <2>1. ASSUME EnqueueHuman(j) \/ EnqueueAI(j) PROVE TypeOK'
    <3>1. RowsOK' /\ HistoryOK'
      BY <2>1, <1>0, CancelAndInsertOK DEF EnqueueHuman, EnqueueAI
    <3>2. AccountOK'
      BY <2>1, <1>0, <1>a DEF EnqueueHuman, EnqueueAI, AccountOK
    <3> QED
      BY <3>1, <3>2, <2>1, <1>0, <1>a DEF EnqueueHuman, EnqueueAI, TypeOK
  <2>2. ASSUME LeaseExpires(j) \/ BecomesDue(j) PROVE TypeOK'
    <3>1. RowsOK'
      BY <2>2, <1>0 DEF LeaseExpires, BecomesDue, RowsOK
    <3>2. faults' \in 0..MaxFaults
      BY <2>2, <1>0 DEF LeaseExpires, BecomesDue, Fault, OutboxAssumption
    <3> QED
      BY <3>1, <3>2, <2>2, <1>0, <1>a DEF LeaseExpires, BecomesDue, TypeOK
  <2> QED
    BY <2>1, <2>2, <1>13 DEF JobStep
<1>14. ASSUME NEW a \in Accounts, ControlPlane(a) PROVE TypeOK'
  <2>1. (\E S, New : CancelAndInsert(S, New)) \/ UNCHANGED <<rows, history>>
    BY <1>14 DEF ControlPlane, PauseAI, ResumeAI, CloseAccount, DowngradeMessenger,
                 RotateInstagram, RotateMessenger, RotateStatic, ReconnectThreads, Activate,
                 EnableAI, DisableAI
  <2>2. RowsOK' /\ HistoryOK'
    BY <2>1, <1>0, <1>a, CancelAndInsertOK
  <2>3. AccountOK'
    <3>1. /\ \/ UNCHANGED mode
             \/ \E m \in {"closed", "open", "openAI"} : mode' = [mode EXCEPT ![a] = m]
          /\ UNCHANGED gen \/ NextGeneration(a)
          /\ \/ UNCHANGED paused
             \/ \E p \in BOOLEAN : paused' = [paused EXCEPT ![a] = p]
      BY <1>14 DEF ControlPlane, PauseAI, ResumeAI, CloseAccount, DowngradeMessenger,
                   RotateInstagram, RotateMessenger, RotateStatic, ReconnectThreads,
                   Activate, EnableAI, DisableAI
    <3>2. gen' \in [Accounts -> 0..MaxGen]
      BY <3>1, <1>0 DEF NextGeneration, AccountOK, OutboxAssumption
    <3> QED
      BY <3>1, <3>2, <1>0 DEF AccountOK
  <2>4. UNCHANGED <<memory, faults>>
    BY <1>14 DEF ControlPlane, PauseAI, ResumeAI, CloseAccount, DowngradeMessenger,
                 RotateInstagram, RotateMessenger, RotateStatic, ReconnectThreads, Activate,
                 EnableAI, DisableAI
  <2> QED
    BY <2>2, <2>3, <2>4, <1>0, <1>a DEF TypeOK
<1>15. CASE UNCHANGED vars
  BY <1>15, <1>0, <1>a DEF vars, TypeOK
<1> QED
  BY <1>1, <1>2, <1>3, <1>4, <1>5, <1>6, <1>7, <1>8, <1>9, <1>10, <1>11, <1>12, <1>13, <1>14,
     <1>15 DEF Next, WorkerStep, Deliver

\* In every reachable state the tables and the workers' memory are well
\* formed, and a worker between claim and settlement has a job.
THEOREM TypeCorrect == Spec => []TypeOK
<1>1. Init => TypeOK
  <2> SUFFICES ASSUME Init PROVE TypeOK
    OBVIOUS
  <2>1. RowsOK
    BY DEF Init, RowsOK, Statuses
  <2>2. AccountOK /\ HistoryOK
    BY OutboxAssumption DEF Init, AccountOK, HistoryOK
  <2>3. Blank \in Snapshot
    BY OutboxAssumption DEF Blank, Snapshot
  <2>4. MemoryOK
    BY <2>3 DEF Init, MemoryOK, Labels
  <2> QED
    BY <2>1, <2>2, <2>4, OutboxAssumption DEF Init, TypeOK
<1> QED
  BY <1>1, TypeStep, PTL DEF Spec

-----------------------------------------------------------------------------
(* The inductive invariant of the dispatch fence                            *)

Before == {"none"} \cup Queued

\* Past the fence a worker only sends, settles or cancels, and its row has
\* left the queue for good; an agent's message behind the fence is not
\* cancelled either.
FencedStage ==
    \A w \in Workers : fenced[w] =>
        /\ pc[w] \in {"send", "settle", "cancel"}
        /\ status[cur[w]] \notin Before
        /\ status[cur[w]] = "cancelled" => cur[w] \in AIJobs

\* The stages of an automatic reply are reached by automatic replies only.
AIStage ==
    \A w \in Workers :
        /\ pc[w] \in {"attempt", "recheck", "cancel"} => cur[w] \in AIJobs
        /\ guard[w] # "none" => pc[w] # "idle" /\ cur[w] \in AIJobs

\* A job that may still reach the fence was never sent.
UnsentBefore == \A j \in OnceJobs : status[j] \in Before => calls[j] = 0

\* A worker about to send such a job is past the fence, and is the first.
UnsentAtSend ==
    \A w \in Workers :
        pc[w] = "send" /\ cur[w] \in OnceJobs => fenced[w] /\ calls[cur[w]] = 0

\* Behind the fence a Threads outcome is final.
ThreadsFinal ==
    \A w \in Workers :
        fenced[w] /\ pc[w] = "settle" /\ KindOf(cur[w]) = "threads"
        => mem[w].outcome \in {"accepted", "refused"}

DispatchInv == FencedStage /\ AIStage /\ OneDispatcher /\ UnsentBefore /\ UnsentAtSend
               /\ ThreadsFinal /\ SingleAttempt /\ CancelledUnsent

InstagramJobs == {j \in Jobs : KindOf(j) = "instagram"}

GenerationInv ==
    /\ \A j \in InstagramJobs :
         /\ status[j] \in Queued => born[j] = gen[AccountOf[j]]
         /\ status[j] = "none" => used[j] = {}
         /\ used[j] \subseteq {born[j]}
    /\ \A w \in Workers :
         fenced[w] /\ cur[w] \in InstagramJobs => mem[w].gen = born[cur[w]]

\* The part of the type invariant these proofs need.
FenceTypes ==
    /\ status \in [Jobs -> Statuses]
    /\ HistoryOK /\ AccountOK /\ MemoryOK

\* The types that the invariant of the fence rests on.
LEMMA TypesForFence == TypeOK => FenceTypes
BY DEF TypeOK, RowsOK, FenceTypes

\* Cancelling and inserting rows never takes a row from behind the fence.
LEMMA DispatchCancelAndInsert ==
  ASSUME TypeOK, DispatchInv, UNCHANGED memory, NEW S, NEW New,
         \A j \in Jobs : j \in New => status[j] = "none", CancelAndInsert(S, New)
  PROVE  DispatchInv'
<1>0. FenceTypes
  BY TypesForFence
<1> QED
  BY <1>0, OutboxAssumption
   DEF FenceTypes, HistoryOK, MemoryOK, DispatchInv, FencedStage, AIStage, OneDispatcher, UnsentBefore, UnsentAtSend,
       ThreadsFinal, SingleAttempt, CancelledUnsent, OnceJobs, Before, Queued, KindOf, memory,
       CancelAndInsert

\* Every step keeps the invariant of the fence.  Only CrossFence, Send and
\* the settlements touch what it is about.
LEMMA DispatchStep == TypeOK /\ DispatchInv /\ [Next]_vars => DispatchInv'
<1> SUFFICES ASSUME TypeOK, DispatchInv, [Next]_vars PROVE DispatchInv'
  OBVIOUS
<1>0. FenceTypes
  BY TypesForFence
<1> USE OutboxAssumption, <1>0
    DEF FenceTypes, HistoryOK, MemoryOK, DispatchInv, FencedStage, AIStage, OneDispatcher, UnsentBefore, UnsentAtSend,
        ThreadsFinal, SingleAttempt, CancelledUnsent, OnceJobs, OutboxAssumption, Before, Queued,
        KindOf, rows, account, memory, history
<1>1. ASSUME NEW w \in Workers, Claim(w) PROVE DispatchInv'
  BY <1>1 DEF Claim, Eligible, Goto
<1>2. ASSUME NEW w \in Workers, RecoverAbandoned(w) PROVE DispatchInv'
  BY <1>2 DEF RecoverAbandoned, Release
<1>3. ASSUME NEW w \in Workers, Load(w) PROVE DispatchInv'
  <2>1. FencedStage'
    BY <1>3 DEF Load, Forget, Goto, FirstStep, Holds
  <2>2. AIStage'
    BY <1>3 DEF Load, Forget, Goto, FirstStep, Holds
  <2>3. OneDispatcher' /\ UnsentBefore' /\ SingleAttempt' /\ CancelledUnsent'
    BY <1>3 DEF Load, Forget, Goto, FirstStep, Holds
  <2>4. UnsentAtSend'
    BY <1>3 DEF Load, Forget, Goto, FirstStep, Holds
  <2>5. ThreadsFinal'
    BY <1>3 DEF Load, Forget, Goto, FirstStep, Holds
  <2> QED
    BY <2>1, <2>2, <2>3, <2>4, <2>5
<1>4. ASSUME NEW w \in Workers, Prepare(w) PROVE DispatchInv'
  <2>1. FencedStage'
    BY <1>4 DEF Prepare, Decide, Goto, Forget
  <2>2. AIStage'
    BY <1>4 DEF Prepare, Decide, Goto, Forget
  <2>3. OneDispatcher' /\ UnsentBefore' /\ SingleAttempt' /\ CancelledUnsent'
    BY <1>4 DEF Prepare, Decide, Goto, Forget
  <2>4. UnsentAtSend'
    BY <1>4 DEF Prepare, Decide, Goto, Forget
  <2>5. ThreadsFinal'
    BY <1>4 DEF Prepare, Decide, Goto, Forget
  <2> QED
    BY <2>1, <2>2, <2>3, <2>4, <2>5
<1>5. ASSUME NEW w \in Workers, FenceManaged(w) PROVE DispatchInv'
  <2>1. CASE Decide(w, "refused", "settle") /\ UNCHANGED <<rows, cur, fenced, guard, history>>
    BY <1>5, <2>1 DEF FenceManaged, Decide, Goto, Managed
  <2>2. CASE Holds(w, "processing") /\ CrossFence(w) /\ UNCHANGED <<mem, history>>
    <3>1. pc[w] = "fence" /\ KindOf(cur[w]) # "threads" /\ cur[w] \in Jobs
      BY <1>5 DEF FenceManaged, Managed
    <3>2. FencedStage' /\ AIStage'
      BY <2>2, <3>1 DEF CrossFence, Goto, Holds
    <3>3. OneDispatcher' /\ UnsentBefore' /\ SingleAttempt' /\ CancelledUnsent'
      BY <2>2, <3>1 DEF CrossFence, Goto, Holds
    <3>4. UnsentAtSend' /\ ThreadsFinal'
      BY <2>2, <3>1 DEF CrossFence, Goto, Holds
    <3> QED
      BY <3>2, <3>3, <3>4
  <2> QED
    BY <1>5, <2>1, <2>2 DEF FenceManaged
<1>6. ASSUME NEW w \in Workers, FenceThreads(w) PROVE DispatchInv'
  <2>1. CASE CrossFence(w) /\ Holds(w, "processing") /\ cur[w] \in Jobs /\ UNCHANGED history
             /\ mem' = [mem EXCEPT ![w].gen = gen[AccountOf[cur[w]]]] /\ pc[w] = "fence"
    <3>1. \A v \in Workers : v # w => mem'[v] = mem[v]
      BY <2>1
    <3>2. pc'[w] = "send" /\ \A v \in Workers : v # w => pc'[v] = pc[v]
      BY <2>1 DEF CrossFence, Goto
    <3>3. \A v \in Workers : ~(fenced[v] /\ cur[v] = cur[w])
      BY <2>1 DEF Holds
    <3> QED
      BY <2>1, <3>1, <3>2, <3>3 DEF CrossFence, Holds
  <2>2. CASE Forget(w) /\ UNCHANGED <<rows, history>>
    BY <2>2 DEF Forget
  <2> QED
    BY <1>6, <2>1, <2>2 DEF FenceThreads
<1>7. ASSUME NEW w \in Workers, BeginAttempt(w) PROVE DispatchInv'
  BY <1>7 DEF BeginAttempt, Goto
<1>8. ASSUME NEW w \in Workers, RecheckAI(w) PROVE DispatchInv'
  <2>1. FencedStage'
    BY <1>8 DEF RecheckAI, CrossFence, Goto, Holds
  <2>2. AIStage'
    BY <1>8 DEF RecheckAI, CrossFence, Goto, Holds
  <2>3. OneDispatcher' /\ UnsentBefore' /\ SingleAttempt' /\ CancelledUnsent'
    BY <1>8 DEF RecheckAI, CrossFence, Goto, Holds
  <2>4. UnsentAtSend'
    BY <1>8 DEF RecheckAI, CrossFence, Goto, Holds
  <2>5. ThreadsFinal'
    BY <1>8 DEF RecheckAI, CrossFence, Goto, Holds
  <2> QED
    BY <2>1, <2>2, <2>3, <2>4, <2>5
<1>9. ASSUME NEW w \in Workers, Send(w) PROVE DispatchInv'
  BY <1>9 DEF Send, Decide, Goto
<1>10. ASSUME NEW w \in Workers, Settle(w) PROVE DispatchInv'
  <2>1. FencedStage'
    BY <1>10 DEF Settle, SettleRow, AfterSettle, Release, Forget, Goto, Holds,
             LeaseStatus, DeadLetter, Ambiguous
  <2>2. AIStage'
    BY <1>10 DEF Settle, SettleRow, AfterSettle, Release, Forget, Goto, Holds,
             LeaseStatus, DeadLetter, Ambiguous
  <2>3. OneDispatcher' /\ UnsentBefore' /\ SingleAttempt' /\ CancelledUnsent'
    BY <1>10 DEF Settle, SettleRow, AfterSettle, Release, Forget, Goto, Holds,
             LeaseStatus, DeadLetter, Ambiguous
  <2>4. UnsentAtSend'
    BY <1>10 DEF Settle, SettleRow, AfterSettle, Release, Forget, Goto, Holds,
             LeaseStatus, DeadLetter, Ambiguous
  <2>5. ThreadsFinal'
    BY <1>10 DEF Settle, SettleRow, AfterSettle, Release, Forget, Goto, Holds,
             LeaseStatus, DeadLetter, Ambiguous
  <2> QED
    BY <2>1, <2>2, <2>3, <2>4, <2>5
<1>11. ASSUME NEW w \in Workers, CancelAI(w) PROVE DispatchInv'
  BY <1>11 DEF CancelAI, Release, Forget, Holds, LeaseStatus
<1>12. ASSUME NEW w \in Workers, FaultStep(w) PROVE DispatchInv'
  <2>1. CASE Crash(w)
    BY <2>1 DEF Crash, Forget
  <2>2. CASE SettleFails(w)
    BY <2>2 DEF SettleFails, Goto
  <2>3. CASE GuardLost(w)
    BY <2>3 DEF GuardLost
  <2> QED
    BY <1>12, <2>1, <2>2, <2>3 DEF FaultStep
<1>13. ASSUME NEW j \in Jobs, JobStep(j) PROVE DispatchInv'
  <2>1. CASE EnqueueHuman(j) \/ EnqueueAI(j)
    BY <2>1, DispatchCancelAndInsert DEF EnqueueHuman, EnqueueAI
  <2>2. CASE LeaseExpires(j) \/ BecomesDue(j)
    BY <2>2 DEF LeaseExpires, BecomesDue
  <2> QED
    BY <1>13, <2>1, <2>2 DEF JobStep
<1>14. ASSUME NEW a \in Accounts, ControlPlane(a) PROVE DispatchInv'
  <2>1. UNCHANGED memory
        /\ ((\E S : CancelAndInsert(S, {})) \/ UNCHANGED <<rows, history>>)
    BY <1>14 DEF ControlPlane, PauseAI, ResumeAI, CloseAccount, DowngradeMessenger,
                 RotateInstagram, RotateMessenger, RotateStatic, ReconnectThreads, Activate,
                 EnableAI, DisableAI
  <2>2. CASE \E S : CancelAndInsert(S, {})
    BY <2>1, <2>2, DispatchCancelAndInsert
  <2>3. CASE UNCHANGED <<rows, history>>
    BY <2>1, <2>3
  <2> QED
    BY <2>1, <2>2, <2>3
<1>15. CASE UNCHANGED vars
  BY <1>15 DEF vars
<1> QED
  BY <1>1, <1>2, <1>3, <1>4, <1>5, <1>6, <1>7, <1>8, <1>9, <1>10, <1>11, <1>12, <1>13, <1>14,
     <1>15 DEF Next, WorkerStep, Deliver

\* No job is behind the fence at first.
LEMMA DispatchInit == Init => DispatchInv
BY OutboxAssumption
   DEF Init, DispatchInv, FencedStage, AIStage, OneDispatcher, UnsentBefore, UnsentAtSend,
       ThreadsFinal, SingleAttempt, CancelledUnsent, OnceJobs, OutboxAssumption

\* The invariant of the fence holds throughout.
LEMMA DispatchInvariant == Spec => [](TypeOK /\ DispatchInv)
BY DispatchInit, DispatchStep, TypeCorrect, PTL DEF Spec

\* An AI reply, a managed Instagram message and a Threads reply are handed to
\* the provider at most once, whatever crashes and overrun leases happen.
THEOREM SingleAttemptHolds == Spec => []SingleAttempt
BY DispatchInvariant, PTL DEF DispatchInv

\* A message of a fenced account that was cancelled was never sent.
THEOREM CancelledUnsentHolds == Spec => []CancelledUnsent
BY DispatchInvariant, PTL DEF DispatchInv

\* Two workers are never past the fence of the same job.
THEOREM OneDispatcherHolds == Spec => []OneDispatcher
BY DispatchInvariant, PTL DEF DispatchInv

-----------------------------------------------------------------------------
(* Credential generations of managed Instagram                              *)

\* Every step keeps the invariant of credential generations: a rotation
\* cancels what was queued before it changes the generation.
LEMMA GenerationStep == TypeOK /\ DispatchInv /\ GenerationInv /\ [Next]_vars => GenerationInv'
<1> SUFFICES ASSUME TypeOK, DispatchInv, GenerationInv, [Next]_vars PROVE GenerationInv'
  OBVIOUS
<1>0. FenceTypes
  BY TypesForFence
<1> USE OutboxAssumption, <1>0
    DEF FenceTypes, HistoryOK, MemoryOK, DispatchInv, GenerationInv, FencedStage, AIStage,
        OneDispatcher, UnsentAtSend, InstagramJobs, OnceJobs, OutboxAssumption, Before, Queued,
        KindOf, rows, account, memory, history
<1>1. ASSUME NEW w \in Workers, Claim(w) PROVE GenerationInv'
  BY <1>1 DEF Claim, Eligible, Goto
<1>2. ASSUME NEW w \in Workers, RecoverAbandoned(w) PROVE GenerationInv'
  BY <1>2 DEF RecoverAbandoned, Release
<1>3. ASSUME NEW w \in Workers, Load(w) PROVE GenerationInv'
  BY <1>3 DEF Load, Forget, Goto, Holds
<1>4. ASSUME NEW w \in Workers, Prepare(w) PROVE GenerationInv'
  BY <1>4 DEF Prepare, Decide, Goto, Forget
<1>5. ASSUME NEW w \in Workers, FenceManaged(w) PROVE GenerationInv'
  BY <1>5 DEF FenceManaged, CrossFence, Decide, Goto, Holds, Managed
<1>6. ASSUME NEW w \in Workers, FenceThreads(w) PROVE GenerationInv'
  BY <1>6 DEF FenceThreads, CrossFence, Forget, Goto, Holds
<1>7. ASSUME NEW w \in Workers, BeginAttempt(w) PROVE GenerationInv'
  BY <1>7 DEF BeginAttempt, Goto
<1>8. ASSUME NEW w \in Workers, RecheckAI(w) PROVE GenerationInv'
  BY <1>8 DEF RecheckAI, CrossFence, Goto, Holds, Managed
<1>9. ASSUME NEW w \in Workers, Send(w) PROVE GenerationInv'
  BY <1>9 DEF Send, Decide, Goto
<1>10. ASSUME NEW w \in Workers, Settle(w) PROVE GenerationInv'
  BY <1>10 DEF Settle, SettleRow, AfterSettle, Release, Forget, Goto, Holds, LeaseStatus,
               DeadLetter, Ambiguous
<1>11. ASSUME NEW w \in Workers, CancelAI(w) PROVE GenerationInv'
  BY <1>11 DEF CancelAI, Release, Forget, Holds, LeaseStatus
<1>12. ASSUME NEW w \in Workers, FaultStep(w) PROVE GenerationInv'
  <2>1. CASE Crash(w)
    BY <2>1 DEF Crash, Forget
  <2>2. CASE SettleFails(w) \/ GuardLost(w)
    BY <2>2 DEF SettleFails, GuardLost
  <2> QED
    BY <1>12, <2>1, <2>2 DEF FaultStep
<1>13. ASSUME NEW S, NEW New, CancelAndInsert(S, New), UNCHANGED <<memory, gen>>,
              \A j \in Jobs : j \in New => status[j] = "none"
       PROVE  GenerationInv'
  BY <1>13 DEF CancelAndInsert
<1>14. ASSUME NEW j \in Jobs, JobStep(j) PROVE GenerationInv'
  <2>1. CASE EnqueueHuman(j) \/ EnqueueAI(j)
    BY <2>1, <1>13 DEF EnqueueHuman, EnqueueAI
  <2>2. CASE LeaseExpires(j) \/ BecomesDue(j)
    BY <2>2 DEF LeaseExpires, BecomesDue
  <2> QED
    BY <1>14, <2>1, <2>2 DEF JobStep
<1>15. ASSUME NEW a \in Accounts, ControlPlane(a) PROVE GenerationInv'
  <2>1. CASE RotateInstagram(a)
    BY <2>1 DEF RotateInstagram, NextGeneration, CancelAndInsert, JobsOf
  <2>2. CASE RotateMessenger(a) \/ ReconnectThreads(a) \/ RotateStatic(a)
    <3>1. \A j \in InstagramJobs : gen'[AccountOf[j]] = gen[AccountOf[j]]
      BY <2>2 DEF RotateMessenger, ReconnectThreads, RotateStatic, NextGeneration, AccountOK
    <3>2. UNCHANGED memory
          /\ ((\E S : CancelAndInsert(S, {})) \/ UNCHANGED <<rows, history>>)
      BY <2>2 DEF RotateMessenger, ReconnectThreads, RotateStatic
    <3> QED
      BY <3>1, <3>2 DEF CancelAndInsert
  <2>3. CASE UNCHANGED <<memory, gen>>
             /\ ((\E S : CancelAndInsert(S, {})) \/ UNCHANGED <<rows, history>>)
    BY <2>3, <1>13
  <2> QED
    BY <1>15, <2>1, <2>2, <2>3
       DEF ControlPlane, PauseAI, ResumeAI, CloseAccount, DowngradeMessenger, Activate, EnableAI,
           DisableAI
<1>16. CASE UNCHANGED vars
  BY <1>16 DEF vars
<1> QED
  BY <1>1, <1>2, <1>3, <1>4, <1>5, <1>6, <1>7, <1>8, <1>9, <1>10, <1>11, <1>12, <1>14, <1>15,
     <1>16 DEF Next, WorkerStep, Deliver

\* A managed Instagram job is only ever sent with the credential generation
\* under which it was queued, through any number of reconnections.
THEOREM InstagramGenerationHolds == Spec => []InstagramGeneration
<1>1. Init => GenerationInv
  BY OutboxAssumption DEF Init, GenerationInv, InstagramJobs, Queued
<1>2. GenerationInv => InstagramGeneration
  BY DEF GenerationInv, InstagramGeneration, InstagramJobs
<1> QED
  BY <1>1, <1>2, GenerationStep, DispatchInvariant, PTL DEF Spec

-----------------------------------------------------------------------------
(* Settled rows                                                             *)

\* No step of any actor rewrites the status of a settled job.
LEMMA SettledStep ==
  TypeOK /\ [Next]_vars => \A j \in Jobs : status[j] \in Terminal => status'[j] = status[j]
<1> SUFFICES ASSUME TypeOK, [Next]_vars, NEW j \in Jobs, status[j] \in Terminal
             PROVE  status'[j] = status[j]
  OBVIOUS
<1>0. FenceTypes
  BY TypesForFence
<1> USE <1>0 DEF FenceTypes, MemoryOK, Terminal, rows
<1>1. ASSUME NEW w \in Workers, WorkerStep(w) PROVE status'[j] = status[j]
  <2>1. CASE Claim(w) \/ RecoverAbandoned(w)
    BY <2>1 DEF Claim, RecoverAbandoned, Eligible, Release
  <2>2. CASE FenceManaged(w) \/ FenceThreads(w) \/ RecheckAI(w)
    BY <2>2 DEF FenceManaged, FenceThreads, RecheckAI, CrossFence, Holds
  <2>3. CASE Settle(w) \/ CancelAI(w)
    BY <2>3 DEF Settle, SettleRow, CancelAI, Release, Holds, LeaseStatus
  <2>4. CASE Load(w) \/ Prepare(w) \/ BeginAttempt(w) \/ Send(w)
    BY <2>4 DEF Load, Prepare, BeginAttempt, Send
  <2> QED
    BY <1>1, <2>1, <2>2, <2>3, <2>4 DEF WorkerStep, Deliver
<1>2. ASSUME NEW w \in Workers, FaultStep(w) PROVE status'[j] = status[j]
  BY <1>2 DEF FaultStep, Crash, SettleFails, GuardLost
<1>3. ASSUME NEW S, NEW New, CancelAndInsert(S, New), status[j] = "none" \/ j \notin New
      PROVE  status'[j] = status[j]
  BY <1>3 DEF CancelAndInsert, Queued
<1>4. ASSUME NEW i \in Jobs, JobStep(i) PROVE status'[j] = status[j]
  BY <1>3, <1>4 DEF JobStep, EnqueueHuman, EnqueueAI, LeaseExpires, BecomesDue
<1>5. ASSUME NEW a \in Accounts, ControlPlane(a) PROVE status'[j] = status[j]
  <2>1. (\E S : CancelAndInsert(S, {})) \/ UNCHANGED rows
    BY <1>5 DEF ControlPlane, PauseAI, ResumeAI, CloseAccount, DowngradeMessenger,
                RotateInstagram, RotateMessenger, RotateStatic, ReconnectThreads, Activate,
                EnableAI, DisableAI
  <2> QED
    BY <2>1, <1>3
<1> QED
  BY <1>1, <1>2, <1>3, <1>4, <1>5 DEF Next, vars

\* Sent, dead-lettered and cancelled jobs are never resurrected or rewritten.
THEOREM SettledForGoodHolds == Spec => SettledForGood
<1>1. TypeOK /\ [Next]_vars => [\A j \in Jobs : status[j] \in Terminal => status'[j] = status[j]]_vars
  BY SettledStep
<1> QED
  BY <1>1, TypeCorrect, PTL DEF Spec, SettledForGood

-----------------------------------------------------------------------------
(* What the inbox shows                                                     *)

\* Cancelling queued rows and adding new ones keeps the inbox in agreement.
LEMMA AgreesCancelAndInsert ==
  ASSUME TypeOK, MessageAgrees, NEW S, NEW New, CancelAndInsert(S, New)
  PROVE  MessageAgrees'
BY DEF TypeOK, RowsOK, MessageAgrees, CancelAndInsert, Queued, FailPending

\* Every step that moves a job moves what the inbox shows of its message.
LEMMA AgreesStep == TypeOK /\ MessageAgrees /\ [Next]_vars => MessageAgrees'
<1> SUFFICES ASSUME TypeOK, MessageAgrees, [Next]_vars PROVE MessageAgrees'
  OBVIOUS
<1>0. FenceTypes /\ MemoryOK
  BY TypesForFence DEF TypeOK
<1>a. UNCHANGED rows => MessageAgrees'
  BY DEF rows, MessageAgrees
<1>1. ASSUME NEW w \in Workers, Claim(w) \/ RecoverAbandoned(w) PROVE MessageAgrees'
  BY <1>0, <1>1 DEF TypeOK, RowsOK, MessageAgrees, Claim, RecoverAbandoned, Eligible, Release,
                    FailPending
<1>2. ASSUME NEW w \in Workers, CrossFence(w), Holds(w, "processing"), cur[w] \in Jobs
      PROVE  MessageAgrees'
  BY <1>2 DEF TypeOK, RowsOK, MessageAgrees, CrossFence, Holds
<1>3. ASSUME NEW w \in Workers, FenceManaged(w) \/ FenceThreads(w) \/ RecheckAI(w)
      PROVE  MessageAgrees'
  BY <1>0, <1>2, <1>3, <1>a DEF FenceManaged, FenceThreads, RecheckAI, MemoryOK
<1>4. ASSUME NEW w \in Workers, Prepare(w) PROVE MessageAgrees'
  <2>1. UNCHANGED <<status, message>>
    BY <1>4 DEF Prepare, rows
  <2> QED
    BY <2>1 DEF MessageAgrees
<1>5. ASSUME NEW w \in Workers, Settle(w) \/ CancelAI(w) PROVE MessageAgrees'
  <2>1. cur[w] \in Jobs
    BY <1>0, <1>5 DEF Settle, CancelAI, MemoryOK
  <2>2. CASE Settle(w)
    BY <2>1, <2>2, <1>a DEF TypeOK, RowsOK, MessageAgrees, Settle, SettleRow, Release, Holds,
                            LeaseStatus
  <2>3. CASE CancelAI(w)
    BY <2>1, <2>3, <1>a DEF TypeOK, RowsOK, MessageAgrees, CancelAI, Release, Holds, LeaseStatus,
                            FailPending
  <2> QED
    BY <1>5, <2>2, <2>3
<1>6. ASSUME NEW w \in Workers,
             Load(w) \/ BeginAttempt(w) \/ Send(w) \/ FaultStep(w)
      PROVE  MessageAgrees'
  BY <1>6, <1>a DEF Load, BeginAttempt, Send, FaultStep, Crash, SettleFails, GuardLost
<1>7. ASSUME NEW j \in Jobs, JobStep(j) PROVE MessageAgrees'
  <2>1. CASE EnqueueHuman(j) \/ EnqueueAI(j)
    BY <2>1, AgreesCancelAndInsert DEF EnqueueHuman, EnqueueAI
  <2>2. CASE LeaseExpires(j) \/ BecomesDue(j)
    BY <2>2 DEF LeaseExpires, BecomesDue, MessageAgrees
  <2> QED
    BY <1>7, <2>1, <2>2 DEF JobStep
<1>8. ASSUME NEW a \in Accounts, ControlPlane(a) PROVE MessageAgrees'
  <2>1. (\E S : CancelAndInsert(S, {})) \/ UNCHANGED rows
    BY <1>8 DEF ControlPlane, PauseAI, ResumeAI, CloseAccount, DowngradeMessenger,
                RotateInstagram, RotateMessenger, RotateStatic, ReconnectThreads, Activate,
                EnableAI, DisableAI
  <2> QED
    BY <2>1, <1>a, AgreesCancelAndInsert
<1>9. CASE UNCHANGED vars
  BY <1>9, <1>a DEF vars
<1> QED
  BY <1>1, <1>3, <1>4, <1>5, <1>6, <1>7, <1>8, <1>9 DEF Next, WorkerStep, Deliver

\* The inbox never shows a message as anything but what became of its job.
THEOREM MessageAgreesHolds == Spec => []MessageAgrees
<1>1. Init => MessageAgrees
  BY DEF Init, MessageAgrees
<1> QED
  BY <1>1, AgreesStep, TypeCorrect, PTL DEF Spec

-----------------------------------------------------------------------------
(* The handover of a conversation                                           *)

\* No Threads account is open to AI.  A worker that holds the organization row
\* is between its recheck and its settlement; when it is about to send, what
\* it has rechecked is still so, and the credential it carries is no later
\* than the account's.
HandoverInv ==
    /\ \A a \in Accounts : Kind[a] = "threads" => mode[a] # "openAI"
    /\ \A w \in Workers : guard[w] # "none" =>
          /\ pc[w] \in {"recheck", "send", "settle", "cancel"}
          /\ guard[w] = "held" /\ pc[w] = "send" =>
                /\ StillAllowed(w)
                /\ Managed(cur[w]) => gen[AccountOf[cur[w]]] >= mem[w].gen

\* Whoever pauses a conversation or closes an account waits for the
\* organization row, whoever reconnects a Messenger account apart.
LEMMA HandoverStep == TypeOK /\ HandoverInv /\ [Next]_vars => HandoverInv'
<1> SUFFICES ASSUME TypeOK, HandoverInv, [Next]_vars PROVE HandoverInv'
  OBVIOUS
<1>0. MemoryOK /\ AccountOK
  BY DEF TypeOK
<1> USE <1>0, OutboxAssumption DEF HandoverInv, MemoryOK, StillAllowed, Managed, KindOf
<1>1. ASSUME NEW w \in Workers, Forget(w), UNCHANGED account PROVE HandoverInv'
  BY <1>1 DEF Forget, account
<1>2. ASSUME NEW w \in Workers, Claim(w) \/ RecoverAbandoned(w) PROVE HandoverInv'
  BY <1>2 DEF Claim, RecoverAbandoned, Goto, account, memory
<1>3. ASSUME NEW w \in Workers, Load(w) \/ Prepare(w) PROVE HandoverInv'
  BY <1>1, <1>3 DEF Load, Prepare, Decide, Goto, account
<1>4. ASSUME NEW w \in Workers, FenceManaged(w) \/ FenceThreads(w) PROVE HandoverInv'
  BY <1>1, <1>4 DEF FenceManaged, FenceThreads, CrossFence, Decide, Goto, account
<1>5. ASSUME NEW w \in Workers, BeginAttempt(w) \/ RecheckAI(w) PROVE HandoverInv'
  <2>1. mem[w].gen \in Nat /\ \A b \in Accounts : gen[b] \in Nat
    BY DEF Snapshot, AccountOK
  <2> QED
    BY <1>5, <2>1 DEF BeginAttempt, RecheckAI, CrossFence, Goto, account
<1>6. ASSUME NEW w \in Workers, Send(w) PROVE HandoverInv'
  BY <1>6 DEF Send, Decide, Goto, account
<1>7. ASSUME NEW w \in Workers, Settle(w) \/ CancelAI(w) PROVE HandoverInv'
  BY <1>1, <1>7 DEF Settle, CancelAI, AfterSettle, Goto, account
<1>8. ASSUME NEW w \in Workers, FaultStep(w) PROVE HandoverInv'
  BY <1>1, <1>8 DEF FaultStep, Crash, SettleFails, GuardLost, Goto, account
<1>9. ASSUME UNCHANGED memory, UNCHANGED <<mode, gen>>, UNCHANGED paused \/ OrgFree
      PROVE  HandoverInv'
  BY <1>9 DEF memory, OrgFree
<1>10. ASSUME NEW j \in Jobs, JobStep(j) PROVE HandoverInv'
  BY <1>9, <1>10 DEF JobStep, EnqueueHuman, EnqueueAI, LeaseExpires, BecomesDue, account
<1>11. ASSUME NEW a \in Accounts, ControlPlane(a) PROVE HandoverInv'
  <2>1. UNCHANGED memory
    BY <1>11 DEF ControlPlane, PauseAI, ResumeAI, CloseAccount, DowngradeMessenger,
                 RotateInstagram, RotateMessenger, RotateStatic, ReconnectThreads, Activate,
                 EnableAI, DisableAI
  <2>2. \A b \in Accounts : Kind[b] = "threads" => mode'[b] # "openAI"
    BY <1>11 DEF ControlPlane, PauseAI, ResumeAI, CloseAccount, DowngradeMessenger,
                 RotateInstagram, RotateMessenger, RotateStatic, ReconnectThreads, Activate,
                 EnableAI, DisableAI, AccountOK
  <2>3. CASE OrgFree
    BY <2>1, <2>2, <2>3 DEF OrgFree, memory
  <2>4. CASE ~OrgFree
    <3>1. UNCHANGED paused
      BY <1>11, <2>4 DEF ControlPlane, PauseAI, ResumeAI, CloseAccount, DowngradeMessenger,
                         RotateInstagram, RotateMessenger, RotateStatic, ReconnectThreads,
                         Activate, EnableAI, DisableAI
    <3>2. \A b \in Accounts : Kind[b] # "threads" /\ mode[b] = "openAI" =>
             mode'[b] = "openAI" \/ (Kind[b] = "messenger" /\ gen'[b] = gen[b] + 1)
      BY <1>11, <2>4 DEF ControlPlane, PauseAI, ResumeAI, CloseAccount, DowngradeMessenger,
                         RotateInstagram, RotateMessenger, RotateStatic, ReconnectThreads,
                         Activate, EnableAI, DisableAI, NextGeneration, AccountOK
    <3>3. \A b \in Accounts : gen'[b] \in Nat /\ gen'[b] >= gen[b]
      BY <1>11 DEF ControlPlane, PauseAI, ResumeAI, CloseAccount, DowngradeMessenger,
                   RotateInstagram, RotateMessenger, RotateStatic, ReconnectThreads,
                   Activate, EnableAI, DisableAI, NextGeneration, AccountOK
    <3>4. ASSUME NEW w \in Workers, guard[w] = "held", pc[w] = "send"
          PROVE  StillAllowed(w)' /\ (Managed(cur[w]) => gen[AccountOf[cur[w]]] >= mem[w].gen)'
      <4>1. UNCHANGED <<cur, mem>> /\ cur[w] \in Jobs /\ AccountOf[cur[w]] \in Accounts
        BY <2>1, <3>4 DEF memory
      <4>2. mem[w].gen \in Nat /\ \A b \in Accounts : gen[b] \in Nat
        BY DEF Snapshot, AccountOK
      <4> DEFINE mine == AccountOf[cur[w]]
      <4>3. /\ ~paused[mine]
            /\ mode[mine] = "openAI" \/ (Kind[mine] = "messenger" /\ gen[mine] > mem[w].gen)
            /\ Kind[mine] \in {"instagram", "messenger"} => gen[mine] >= mem[w].gen
        BY <3>4
      <4>4. mode'[mine] = "openAI" \/ (Kind[mine] = "messenger" /\ gen'[mine] > mem[w].gen)
        BY <3>2, <3>3, <4>1, <4>2, <4>3
      <4>5. Kind[mine] \in {"instagram", "messenger"} => gen'[mine] >= mem[w].gen
        BY <3>3, <4>1, <4>2, <4>3
      <4> QED
        BY <3>1, <4>1, <4>3, <4>4, <4>5
    <3> QED
      BY <2>1, <2>2, <3>4 DEF memory
  <2> QED
    BY <2>3, <2>4
<1>12. CASE UNCHANGED vars
  BY <1>9, <1>12 DEF vars, account
<1> QED
  BY <1>2, <1>3, <1>4, <1>5, <1>6, <1>7, <1>8, <1>10, <1>11, <1>12 DEF Next, WorkerStep, Deliver

\* No automatic reply is sent, under its guard, into a conversation that an
\* agent has taken over or for an account that has disabled AI; only a
\* Messenger account that is reconnected meanwhile is not waited for.
THEOREM NoReplyAfterHandoverHolds == Spec => NoReplyAfterHandover
<1>1. Init => HandoverInv
  BY DEF Init, HandoverInv
<1>2. HandoverInv /\ [Next]_vars =>
        [\A w \in Workers :
            guard[w] = "held" /\ pc[w] = "send" /\ pc'[w] = "settle" => StillAllowed(w)]_vars
  BY DEF HandoverInv
<1> QED
  BY <1>1, <1>2, HandoverStep, TypeCorrect, PTL DEF Spec, NoReplyAfterHandover

-----------------------------------------------------------------------------
(* Provider calls behind a fence                                            *)

\* A job that is not of a static account is sent behind a fence only.
FencedJobs == {j \in Jobs : KindOf(j) # "static"}

\* A worker past the load that still holds its row remembers its attempts.
Recalled ==
    \A w \in Workers :
        pc[w] \notin {"idle", "load"} /\ Holds(w, LeaseStatus(w))
        => mem[w].attempts = attempts[cur[w]]

\* Each call of a job that may still be sent is one of its attempts, and one
\* more is left.
Unspent ==
    \A j \in FencedJobs : status[j] \in Before =>
        calls[j] <= attempts[j] /\ attempts[j] < MaxAttempts

\* A worker that sends has an attempt left for it, and settles it as one.
Spending ==
    \A w \in Workers :
        /\ pc[w] = "send" /\ cur[w] \in FencedJobs =>
              /\ fenced[w]
              /\ calls[cur[w]] <= mem[w].attempts /\ mem[w].attempts < MaxAttempts
        /\ pc[w] = "settle" /\ fenced[w] /\ cur[w] \in FencedJobs =>
              calls[cur[w]] <= mem[w].attempts + 1

BudgetInv == Recalled /\ Unspent /\ Spending /\ FencedBudget

\* The types that the invariant of the budget rests on.
LEMMA TypesForBudget ==
  TypeOK => /\ status \in [Jobs -> Statuses]
            /\ lockedBy \in [Jobs -> Workers \cup {None}]
            /\ attempts \in [Jobs -> Nat]
            /\ calls \in [Jobs -> Nat]
            /\ MemoryOK
            /\ \A w \in Workers : mem[w].attempts \in Nat
BY SnapshotOK DEF TypeOK, RowsOK, HistoryOK

\* Cancelling queued rows and adding new ones spends nothing.
LEMMA BudgetCancelAndInsert ==
  ASSUME TypeOK, DispatchInv, BudgetInv, UNCHANGED memory, NEW S, NEW New,
         \A j \in Jobs : j \in New => status[j] = "none", CancelAndInsert(S, New)
  PROVE  BudgetInv'
<1>0. MemoryOK /\ lockedBy \in [Jobs -> Workers \cup {None}] /\ status \in [Jobs -> Statuses]
  BY TypesForBudget
<1>1. \A j \in Jobs : status'[j] \in Before => status[j] \in Before
  BY <1>0 DEF CancelAndInsert, Before, Queued
<1>2. ASSUME NEW w \in Workers, pc[w] # "idle", Holds(w, LeaseStatus(w))'
      PROVE  Holds(w, LeaseStatus(w))
  BY <1>0, <1>2 DEF memory, CancelAndInsert, Holds, LeaseStatus, MemoryOK, Queued
<1>3. UNCHANGED <<attempts, calls>>
  BY DEF CancelAndInsert
<1> QED
  BY <1>1, <1>2, <1>3
     DEF memory, BudgetInv, Recalled, Unspent, Spending, FencedBudget, FencedJobs, KindOf

\* A worker that lets its job go, or only changes how far it got with its
\* memory intact, spends nothing.
LEMMA BudgetForget ==
  ASSUME TypeOK, BudgetInv, NEW w \in Workers, Forget(w), UNCHANGED <<rows, calls>>
  PROVE  BudgetInv'
<1>0. MemoryOK
  BY DEF TypeOK
<1>1. \A v \in Workers : v # w => /\ pc'[v] = pc[v] /\ cur'[v] = cur[v]
                                  /\ fenced'[v] = fenced[v] /\ mem'[v] = mem[v]
  BY <1>0 DEF Forget, MemoryOK
<1>2. pc'[w] = "idle"
  BY <1>0 DEF Forget, MemoryOK
<1> QED
  BY <1>1, <1>2
     DEF rows, BudgetInv, Recalled, Unspent, Spending, FencedBudget, FencedJobs, KindOf, Holds,
         LeaseStatus

\* A worker at the fence that holds its row has an attempt left.
LEMMA BudgetCross ==
  ASSUME TypeOK, DispatchInv, BudgetInv, NEW w \in Workers,
         pc[w] \in {"fence", "recheck"}, Holds(w, "processing"), ~fenced[w],
         CrossFence(w), UNCHANGED calls,
         mem' = mem \/ \E g : mem' = [mem EXCEPT ![w].gen = g]
  PROVE  BudgetInv'
<1> DEFINE j == cur[w]
<1>0. /\ MemoryOK /\ status \in [Jobs -> Statuses] /\ lockedBy \in [Jobs -> Workers \cup {None}]
      /\ j \in Jobs
  BY TypesForBudget DEF MemoryOK
<1>1. \A v \in Workers : mem'[v].attempts = mem[v].attempts
  BY <1>0 DEF MemoryOK, Snapshot
<1>2. /\ \A v \in Workers : v # w => pc'[v] = pc[v] /\ fenced'[v] = fenced[v]
      /\ pc'[w] = "send" /\ fenced'[w]
      /\ \A i \in Jobs : i # j => status'[i] = status[i]
      /\ status'[j] = "dispatching" /\ status[j] = "processing" /\ lockedBy[j] = w
      /\ UNCHANGED <<cur, lockedBy, attempts>>
  BY <1>0 DEF CrossFence, Goto, Holds, MemoryOK
<1>3. mem[w].attempts = attempts[j]
  BY DEF BudgetInv, Recalled, LeaseStatus
<1>4. Recalled'
  <2>1. ASSUME NEW v \in Workers, v # w, pc[v] \notin {"idle", "load"}, Holds(v, LeaseStatus(v))'
        PROVE  mem[v].attempts = attempts[cur[v]]
    <3>1. cur[v] # j /\ cur[v] \in Jobs
      BY <1>0, <1>2, <2>1 DEF Holds, MemoryOK
    <3> QED
      BY <1>2, <2>1, <3>1 DEF BudgetInv, Recalled, Holds, LeaseStatus
  <2> QED
    BY <1>1, <1>2, <1>3, <2>1 DEF Recalled
<1>5. Unspent'
  BY <1>2 DEF BudgetInv, Unspent, FencedJobs, KindOf, Before, Queued
<1>6. Spending'
  BY <1>1, <1>2, <1>3 DEF BudgetInv, Unspent, Spending, FencedJobs, KindOf, Before, Queued
<1> QED
  BY <1>4, <1>5, <1>6 DEF BudgetInv, FencedBudget

\* Every step keeps the invariant of the budget: a failure that is retried is
\* counted in the row before another worker may take it.
LEMMA BudgetStep == TypeOK /\ DispatchInv /\ BudgetInv /\ [Next]_vars => BudgetInv'
<1> SUFFICES ASSUME TypeOK, DispatchInv, BudgetInv, [Next]_vars PROVE BudgetInv'
  OBVIOUS
<1>0. /\ MemoryOK /\ status \in [Jobs -> Statuses] /\ lockedBy \in [Jobs -> Workers \cup {None}]
      /\ attempts \in [Jobs -> Nat] /\ calls \in [Jobs -> Nat]
      /\ \A w \in Workers : mem[w].attempts \in Nat
  BY TypesForBudget
<1> USE <1>0 DEF MemoryOK
<1>a. ASSUME UNCHANGED <<status, lockedBy, attempts, calls, pc, cur, fenced, mem>>
      PROVE  BudgetInv'
  BY <1>a DEF BudgetInv, Recalled, Unspent, Spending, FencedBudget, FencedJobs, KindOf, Holds,
              LeaseStatus
<1>b. ASSUME NEW w \in Workers, pc[w] # "idle",
             NEW label \in {"prepare", "fence", "attempt", "recheck", "settle", "cancel"},
             Goto(w, label), ~fenced[w] \/ label = "cancel",
             \A v \in Workers : mem'[v].attempts = mem[v].attempts, pc[w] # "load",
             UNCHANGED <<status, lockedBy, attempts, calls, cur, fenced>>
      PROVE  BudgetInv'
  <2>1. /\ pc'[w] = label
        /\ \A v \in Workers : v # w => pc'[v] = pc[v]
    BY <1>b DEF Goto
  <2> QED
    BY <1>b, <2>1 DEF BudgetInv, Recalled, Unspent, Spending, FencedBudget, FencedJobs, KindOf,
                      Holds, LeaseStatus
<1>1. ASSUME NEW w \in Workers, Claim(w) PROVE BudgetInv'
  <2>1. PICK j \in Jobs :
          /\ status[j] \in Queued
          /\ status'   = [status EXCEPT ![j] = "processing"]
          /\ lockedBy' = [lockedBy EXCEPT ![j] = w]
          /\ cur'      = [cur EXCEPT ![w] = j]
    BY <1>1 DEF Claim, Eligible, Queued
  <2>2. /\ pc[w] = "idle" /\ pc' = [pc EXCEPT ![w] = "load"]
        /\ UNCHANGED <<attempts, calls, fenced, mem>>
    BY <1>1 DEF Claim, Goto, history
  <2>3. Recalled'
    BY <2>1, <2>2 DEF BudgetInv, Recalled, Holds, LeaseStatus
  <2>4. Unspent' /\ Spending' /\ FencedBudget'
    BY <2>1, <2>2 DEF BudgetInv, Unspent, Spending, FencedBudget, FencedJobs, KindOf, Before, Queued
  <2> QED
    BY <2>3, <2>4 DEF BudgetInv
<1>2. ASSUME NEW w \in Workers, RecoverAbandoned(w) PROVE BudgetInv'
  <2>1. PICK j \in Jobs : Release(j, "failed")
    BY <1>2 DEF RecoverAbandoned
  <2>2. UNCHANGED <<attempts, calls, pc, cur, fenced, mem>>
    BY <1>2 DEF RecoverAbandoned, memory, history
  <2> QED
    BY <2>1, <2>2 DEF BudgetInv, Recalled, Unspent, Spending, FencedBudget, FencedJobs, KindOf,
                      Holds, LeaseStatus, Release, Before, Queued
<1>3. ASSUME NEW w \in Workers, Load(w) PROVE BudgetInv'
  <2>1. CASE Forget(w)
    BY <1>3, <2>1, BudgetForget DEF Load, history
  <2>2. CASE Holds(w, "processing") /\ ~Forget(w)
    <3> DEFINE j == cur[w]
    <3>1. PICK verdict \in {"refused", "retry", "proceed"} :
            /\ mem' = [mem EXCEPT ![w] = [gen |-> gen[AccountOf[j]], attempts |-> attempts[j],
                                          outcome |-> verdict]]
            /\ Goto(w, IF verdict = "proceed" THEN FirstStep(j) ELSE "settle")
            /\ UNCHANGED <<cur, fenced, guard>>
      BY <1>3, <2>2 DEF Load
    <3>2. /\ mem'[w].attempts = attempts[j]
          /\ \A v \in Workers : v # w => mem'[v] = mem[v]
          /\ \A v \in Workers : v # w => pc'[v] = pc[v]
          /\ pc'[w] = "send" => j \notin FencedJobs
      BY <3>1 DEF Goto, FirstStep, FencedJobs
    <3>3. pc[w] = "load" /\ ~fenced[w] /\ UNCHANGED <<rows, calls>>
      BY <1>3 DEF Load, history, DispatchInv, FencedStage
    <3>4. UNCHANGED <<status, lockedBy, attempts>>
      BY <3>3 DEF rows
    <3> QED
      BY <3>1, <3>2, <3>3, <3>4 DEF BudgetInv, Recalled, Unspent, Spending, FencedBudget,
                                    FencedJobs, KindOf, Holds, LeaseStatus
  <2> QED
    BY <1>3, <2>1, <2>2 DEF Load
<1>4. ASSUME NEW w \in Workers, Prepare(w) PROVE BudgetInv'
  <2>1. pc[w] = "prepare" /\ ~fenced[w] /\ UNCHANGED calls
    BY <1>4 DEF Prepare, history, DispatchInv, FencedStage
  <2>2. CASE Forget(w) /\ UNCHANGED rows
    BY <2>1, <2>2, BudgetForget
  <2>3. ASSUME NEW verdict \in {"refused", "retry"}, Decide(w, verdict, "settle"),
               UNCHANGED <<rows, cur, fenced>>
        PROVE  BudgetInv'
    BY <1>b, <2>1, <2>3 DEF Decide, rows, Snapshot
  <2>4. CASE Goto(w, "fence") /\ UNCHANGED <<status, lockedBy, attempts, cur, fenced, mem>>
    BY <1>b, <2>1, <2>4
  <2> QED
    BY <1>4, <2>2, <2>3, <2>4 DEF Prepare
<1>5. ASSUME NEW w \in Workers, FenceManaged(w) \/ FenceThreads(w) \/ RecheckAI(w)
      PROVE  BudgetInv'
  <2>1. pc[w] \in {"fence", "recheck"} /\ ~fenced[w] /\ UNCHANGED calls
    BY <1>5 DEF FenceManaged, FenceThreads, RecheckAI, history, DispatchInv, FencedStage
  <2>2. CASE /\ Holds(w, "processing") /\ CrossFence(w)
             /\ mem' = mem \/ \E g : mem' = [mem EXCEPT ![w].gen = g]
    BY <2>1, <2>2, BudgetCross
  <2>3. CASE Forget(w) /\ UNCHANGED rows
    BY <2>1, <2>3, BudgetForget
  <2>4. CASE Decide(w, "refused", "settle") /\ UNCHANGED <<rows, cur, fenced>>
    BY <1>b, <2>1, <2>4 DEF Decide, rows, Snapshot
  <2>5. CASE Goto(w, "cancel") /\ UNCHANGED <<rows, cur, fenced, mem>>
    BY <1>b, <2>1, <2>5 DEF rows
  <2> QED
    BY <1>5, <2>2, <2>3, <2>4, <2>5 DEF FenceManaged, FenceThreads, RecheckAI
<1>6. ASSUME NEW w \in Workers, BeginAttempt(w) PROVE BudgetInv'
  <2>1. pc[w] = "attempt" /\ ~fenced[w]
    BY <1>6 DEF BeginAttempt, DispatchInv, FencedStage
  <2> QED
    BY <1>6, <1>b, <2>1 DEF BeginAttempt, rows, history
<1>7. ASSUME NEW w \in Workers, Send(w) PROVE BudgetInv'
  <2> DEFINE j == cur[w]
  <2>1. /\ pc[w] = "send" /\ j \in Jobs
        /\ pc' = [pc EXCEPT ![w] = "settle"]
        /\ calls' = [calls EXCEPT ![j] = calls[j] + 1]
        /\ UNCHANGED <<status, lockedBy, attempts, cur, fenced>>
    BY <1>7 DEF Send, Decide, Goto, rows
  <2>2. \A v \in Workers : mem'[v].attempts = mem[v].attempts
    BY <1>7 DEF Send, Decide, Snapshot
  <2>3. Recalled'
    BY <2>1, <2>2 DEF BudgetInv, Recalled, Holds, LeaseStatus
  <2>4. Unspent'
    BY <2>1 DEF BudgetInv, Unspent, Spending, FencedJobs, KindOf, DispatchInv, FencedStage
  <2>5. \A v \in Workers : v # w /\ fenced[v] /\ j \in FencedJobs => cur[v] # j
    BY <2>1 DEF BudgetInv, Spending, DispatchInv, OneDispatcher
  <2>6. Spending'
    BY <2>1, <2>2, <2>5 DEF BudgetInv, Spending, FencedJobs, KindOf
  <2>7. FencedBudget'
    BY <2>1, OutboxAssumption DEF BudgetInv, Spending, FencedBudget, FencedJobs, KindOf
  <2> QED
    BY <2>3, <2>4, <2>6, <2>7 DEF BudgetInv
<1>8. ASSUME NEW w \in Workers, Settle(w) PROVE BudgetInv'
  <2> DEFINE j == cur[w]
  <2>1. /\ pc[w] = "settle" /\ j \in Jobs
        /\ SettleRow(w) /\ AfterSettle(w) /\ UNCHANGED calls
    BY <1>8 DEF Settle, history
  <2>2. /\ pc'[w] \in {"idle", "cancel"}
        /\ \A v \in Workers : v # w => /\ pc'[v] = pc[v] /\ cur'[v] = cur[v]
                                       /\ fenced'[v] = fenced[v] /\ mem'[v] = mem[v]
        /\ pc'[w] = "cancel" => UNCHANGED <<cur, fenced, mem>>
    BY <2>1 DEF AfterSettle, Forget, Goto
  <2>3. CASE UNCHANGED rows
    BY <2>1, <2>2, <2>3 DEF rows, BudgetInv, Recalled, Unspent, Spending, FencedBudget,
                            FencedJobs, KindOf, Holds, LeaseStatus
  <2>4. CASE Holds(w, LeaseStatus(w)) /\ ~UNCHANGED rows
    <3>1. PICK st \in Terminal \cup {"retrying"}, n \in Nat :
            /\ status' = [status EXCEPT ![j] = st]
            /\ lockedBy' = [lockedBy EXCEPT ![j] = None]
            /\ attempts' = [attempts EXCEPT ![j] = n]
            /\ st = "retrying" => n = mem[w].attempts + 1 /\ n < MaxAttempts
      BY <2>1, <2>4, OutboxAssumption DEF SettleRow, Release, DeadLetter, Terminal
    <3>2. mem[w].attempts = attempts[j] /\ lockedBy[j] = w
      BY <2>1, <2>4 DEF BudgetInv, Recalled, Holds
    <3>3. Recalled'
      BY <2>1, <2>2, <3>1, <3>2, OutboxAssumption DEF BudgetInv, Recalled, Holds, LeaseStatus
    <3>4. j \in FencedJobs => calls[j] <= mem[w].attempts + 1
      BY <2>1, <2>4, <3>2 DEF BudgetInv, Unspent, Spending, Holds, LeaseStatus, Before, Queued
    <3>5. Unspent'
      BY <2>1, <3>1, <3>4 DEF BudgetInv, Unspent, FencedJobs, KindOf, Before, Queued, Terminal
    <3>6. Spending' /\ FencedBudget'
      BY <2>1, <2>2 DEF BudgetInv, Spending, FencedBudget, FencedJobs, KindOf
    <3> QED
      BY <3>3, <3>5, <3>6 DEF BudgetInv
  <2> QED
    BY <2>1, <2>3, <2>4 DEF SettleRow
<1>9. ASSUME NEW w \in Workers, CancelAI(w) PROVE BudgetInv'
  <2> DEFINE j == cur[w]
  <2>1. pc[w] = "cancel" /\ j \in Jobs /\ Forget(w) /\ UNCHANGED calls
    BY <1>9 DEF CancelAI, history
  <2>2. CASE UNCHANGED rows
    BY <2>1, <2>2, BudgetForget
  <2>3. CASE Release(j, "cancelled") /\ UNCHANGED attempts
    <3>1. pc'[w] = "idle" /\ \A v \in Workers : v # w =>
            /\ pc'[v] = pc[v] /\ cur'[v] = cur[v] /\ fenced'[v] = fenced[v] /\ mem'[v] = mem[v]
      BY <2>1 DEF Forget
    <3>2. Recalled'
      BY <2>1, <2>3, <3>1, OutboxAssumption DEF BudgetInv, Recalled, Release, Holds, LeaseStatus
    <3>3. Unspent' /\ Spending' /\ FencedBudget'
      BY <2>1, <2>3, <3>1 DEF BudgetInv, Unspent, Spending, FencedBudget, FencedJobs, KindOf,
                              Release, Before, Queued
    <3> QED
      BY <3>2, <3>3 DEF BudgetInv
  <2> QED
    BY <1>9, <2>2, <2>3 DEF CancelAI
<1>10. ASSUME NEW w \in Workers, FaultStep(w) PROVE BudgetInv'
  <2>1. CASE Crash(w)
    BY <2>1, BudgetForget DEF Crash, history
  <2>2. CASE SettleFails(w)
    BY <2>2, <1>b DEF SettleFails, rows, history
  <2>3. CASE GuardLost(w)
    BY <2>3, <1>a DEF GuardLost, rows, history
  <2> QED
    BY <1>10, <2>1, <2>2, <2>3 DEF FaultStep
<1>11. ASSUME NEW j \in Jobs, JobStep(j) PROVE BudgetInv'
  <2>1. CASE EnqueueHuman(j) \/ EnqueueAI(j)
    BY <2>1, BudgetCancelAndInsert DEF EnqueueHuman, EnqueueAI
  <2>2. CASE LeaseExpires(j) \/ BecomesDue(j)
    BY <2>2, <1>a DEF LeaseExpires, BecomesDue, memory, history
  <2> QED
    BY <1>11, <2>1, <2>2 DEF JobStep
<1>12. ASSUME NEW a \in Accounts, ControlPlane(a) PROVE BudgetInv'
  <2>1. UNCHANGED memory
        /\ ((\E S : CancelAndInsert(S, {})) \/ UNCHANGED <<rows, history>>)
    BY <1>12 DEF ControlPlane, PauseAI, ResumeAI, CloseAccount, DowngradeMessenger,
                 RotateInstagram, RotateMessenger, RotateStatic, ReconnectThreads, Activate,
                 EnableAI, DisableAI
  <2> QED
    BY <2>1, <1>a, BudgetCancelAndInsert DEF memory, rows, history
<1>13. CASE UNCHANGED vars
  BY <1>13, <1>a DEF vars, rows, memory, history
<1> QED
  BY <1>1, <1>2, <1>3, <1>4, <1>5, <1>6, <1>7, <1>8, <1>9, <1>10, <1>11, <1>12, <1>13
     DEF Next, WorkerStep, Deliver

\* Behind a fence the provider is called no more often than the job has
\* attempts, whatever crashes and overrun leases happen.
THEOREM FencedBudgetHolds == Spec => []FencedBudget
<1>1. Init => BudgetInv
  BY OutboxAssumption
     DEF Init, BudgetInv, Recalled, Unspent, Spending, FencedBudget, FencedJobs, KindOf
<1>2. BudgetInv => FencedBudget
  BY DEF BudgetInv
<1> QED
  BY <1>1, <1>2, BudgetStep, DispatchInvariant, PTL DEF Spec
-----------------------------------------------------------------------------
(* The outbox implements OutboxPromise                                      *)

\* An agent's message on a static account is sent without a fence, and is
\* never cancelled; every other message is sent from behind one.
Unfenced(j) == KindOf(j) = "static" /\ j \notin AIJobs

\* A worker has a row that was written; one that sends is past the fence, or
\* needs none, and its row was not cancelled; one that settles an acceptance
\* has called the provider.
HandlingInv ==
    /\ \A w \in Workers : pc[w] # "idle" => status[cur[w]] # "none"
    /\ \A w \in Workers : pc[w] = "send" =>
          /\ fenced[w] \/ Unfenced(cur[w])
          /\ status[cur[w]] # "cancelled"
    /\ \A w \in Workers : pc[w] = "settle" /\ mem[w].outcome = "accepted" => calls[cur[w]] > 0

\* A sent message was handed to the provider, and what is cancelled had a
\* fence before it.
OutcomeInv ==
    \A j \in Jobs : /\ status[j] = "sent" => calls[j] > 0
                    /\ status[j] = "cancelled" => ~Unfenced(j)

SendInv == HandlingInv /\ OutcomeInv

\* A transaction of the control plane, or of an enqueue, is one update of the
\* queued rows that an agent's message on a static account is not part of.
LEMMA ChangesAre ==
  ASSUME \/ \E j \in Jobs : EnqueueHuman(j) \/ EnqueueAI(j)
         \/ \E a \in Accounts : ControlPlane(a)
  PROVE  /\ UNCHANGED memory
         /\ \/ \E S \in SUBSET Jobs, New \in SUBSET Jobs :
                 /\ \A j \in New : status[j] = "none"
                 /\ \A j \in S : ~Unfenced(j)
                 /\ CancelAndInsert(S, New)
            \/ UNCHANGED <<rows, history>>
<1>1. ASSUME NEW j \in Jobs, EnqueueHuman(j) \/ EnqueueAI(j)
      PROVE  /\ UNCHANGED memory
             /\ \E S \in SUBSET Jobs : /\ \A i \in S : ~Unfenced(i)
                                       /\ CancelAndInsert(S, {j}) /\ status[j] = "none"
  <2>1. CASE EnqueueHuman(j)
    <3>1. /\ JobsOf(AccountOf[j]) \cap AIJobs \in SUBSET Jobs
          /\ \A i \in JobsOf(AccountOf[j]) \cap AIJobs : ~Unfenced(i)
      BY DEF JobsOf, Unfenced
    <3>. QED BY <2>1, <3>1 DEF EnqueueHuman
  <2>2. CASE EnqueueAI(j)
    BY <2>2 DEF EnqueueAI
  <2>. QED BY <1>1, <2>1, <2>2
<1>2. ASSUME NEW a \in Accounts, ControlPlane(a)
      PROVE  /\ UNCHANGED memory
             /\ \/ \E S \in SUBSET Jobs : (\A j \in S : ~Unfenced(j)) /\ CancelAndInsert(S, {})
                \/ UNCHANGED <<rows, history>>
  <2>1. /\ JobsOf(a) \cap AIJobs \in SUBSET Jobs /\ JobsOf(a) \in SUBSET Jobs
        /\ \A j \in JobsOf(a) \cap AIJobs : ~Unfenced(j)
        /\ Kind[a] # "static" => \A j \in JobsOf(a) : ~Unfenced(j)
    BY DEF JobsOf, Unfenced, KindOf
  <2>2. CASE PauseAI(a) \/ DisableAI(a) \/ RotateStatic(a)
    BY <2>1, <2>2 DEF PauseAI, DisableAI, RotateStatic
  <2>3. CASE CloseAccount(a)
    BY <2>1, <2>3 DEF CloseAccount
  <2>4. CASE RotateInstagram(a)
    BY <2>1, <2>4 DEF RotateInstagram
  <2>5. CASE Activate(a)
    BY <2>1, <2>5 DEF Activate
  <2>6. CASE \/ ResumeAI(a) \/ DowngradeMessenger(a) \/ RotateMessenger(a)
             \/ ReconnectThreads(a) \/ EnableAI(a)
    BY <2>6 DEF ResumeAI, DowngradeMessenger, RotateMessenger, ReconnectThreads, EnableAI
  <2>. QED BY <1>2, <2>2, <2>3, <2>4, <2>5, <2>6 DEF ControlPlane
<1>3. ASSUME NEW j \in Jobs, EnqueueHuman(j) \/ EnqueueAI(j)
      PROVE  \E S \in SUBSET Jobs, New \in SUBSET Jobs :
                /\ \A i \in New : status[i] = "none"
                /\ \A i \in S : ~Unfenced(i)
                /\ CancelAndInsert(S, New)
  <2>1. {j} \in SUBSET Jobs OBVIOUS
  <2>2. PICK S \in SUBSET Jobs : /\ \A i \in S : ~Unfenced(i)
                                 /\ CancelAndInsert(S, {j}) /\ status[j] = "none"
    BY <1>1, <1>3
  <2>. QED BY <2>1, <2>2
<1>4. {} \in SUBSET Jobs OBVIOUS
<1>. QED BY <1>1, <1>2, <1>3, <1>4

\* Only queued rows are cancelled there: none that a worker is sending.
LEMMA SendCancelAndInsert ==
  ASSUME TypeOK, DispatchInv, SendInv, UNCHANGED memory,
         NEW S \in SUBSET Jobs, NEW New \in SUBSET Jobs,
         \A j \in New : status[j] = "none", \A j \in S : ~Unfenced(j),
         CancelAndInsert(S, New)
  PROVE  SendInv'
<1>0. FenceTypes
  BY TypesForFence
<1>1. \A j \in Jobs : /\ status'[j] = "cancelled" =>
                            status[j] = "cancelled" \/ (status[j] \in Queued /\ ~Unfenced(j))
                      /\ status'[j] = "sent" => status[j] = "sent"
                      /\ status'[j] = "none" => status[j] = "none"
  BY DEF CancelAndInsert
<1>2. UNCHANGED calls
  BY DEF CancelAndInsert
<1>3. OutcomeInv'
  BY <1>1, <1>2 DEF SendInv, OutcomeInv, Unfenced, KindOf
<1>4. \A w \in Workers : fenced[w] => status[cur[w]] \notin Queued
  BY DEF DispatchInv, FencedStage, Before
<1>5. \A w \in Workers : pc[w] # "idle" => cur[w] \in Jobs
  BY <1>0 DEF FenceTypes, MemoryOK
<1>6. HandlingInv'
  BY <1>1, <1>2, <1>4, <1>5 DEF SendInv, HandlingInv, memory, Unfenced, KindOf
<1>. QED BY <1>3, <1>6 DEF SendInv

\* A row is settled otherwise only by the one worker behind its fence, or
\* while no worker is.
LEMMA SendStep == TypeOK /\ DispatchInv /\ SendInv /\ [Next]_vars => SendInv'
<1> SUFFICES ASSUME TypeOK, DispatchInv, SendInv, [Next]_vars PROVE SendInv'
  OBVIOUS
<1>0. FenceTypes
  BY TypesForFence
<1> USE OutboxAssumption, <1>0
    DEF FenceTypes, HistoryOK, MemoryOK, SendInv, HandlingInv, OutcomeInv, Unfenced, KindOf,
        rows, account, memory, history
<1>1. ASSUME NEW w \in Workers, Claim(w) PROVE SendInv'
  <2>1. PICK j \in Jobs : /\ Eligible(j) /\ status[j] # "dispatching"
                          /\ status' = [status EXCEPT ![j] = "processing"]
                          /\ cur' = [cur EXCEPT ![w] = j]
    BY <1>1 DEF Claim
  <2>2. pc' = [pc EXCEPT ![w] = "load"] /\ UNCHANGED <<fenced, mem, calls>>
    BY <1>1 DEF Claim, Goto
  <2>. QED BY <2>1, <2>2
<1>2. ASSUME NEW w \in Workers, RecoverAbandoned(w) PROVE SendInv'
  BY <1>2 DEF RecoverAbandoned, Release
<1>3. ASSUME NEW w \in Workers, Forget(w), UNCHANGED <<status, calls>> PROVE SendInv'
  BY <1>3 DEF Forget
<1>4. ASSUME NEW w \in Workers, Load(w) PROVE SendInv'
  <2>1. CASE ~Holds(w, "processing")
    BY <1>3, <1>4, <2>1 DEF Load
  <2>2. CASE Holds(w, "processing")
    <3>1. PICK verdict \in {"refused", "retry", "proceed"} :
            /\ mem' = [mem EXCEPT ![w] = [gen      |-> gen[AccountOf[cur[w]]],
                                          attempts |-> attempts[cur[w]],
                                          outcome  |-> verdict]]
            /\ Goto(w, IF verdict = "proceed" THEN FirstStep(cur[w]) ELSE "settle")
            /\ UNCHANGED <<cur, fenced, guard>>
      BY <1>4, <2>2 DEF Load
    <3>2. mem'[w].outcome # "accepted" /\ \A v \in Workers : v # w => mem'[v] = mem[v]
      BY <3>1
    <3>3. pc'[w] = "send" => Unfenced(cur[w])
      BY <3>1 DEF Goto, FirstStep
    <3>4. status[cur[w]] = "processing" BY <2>2 DEF Holds
    <3>5. UNCHANGED <<status, calls>> /\ \A v \in Workers : v # w => pc'[v] = pc[v]
      BY <1>4, <3>1 DEF Load, Goto
    <3>. QED BY <3>1, <3>2, <3>3, <3>4, <3>5
  <2>. QED BY <2>1, <2>2
<1>5. ASSUME NEW w \in Workers, NEW verdict \in {"refused", "retry"}, pc[w] # "idle",
             Decide(w, verdict, "settle"), UNCHANGED <<status, calls, cur, fenced>>
      PROVE  SendInv'
  BY <1>5 DEF Decide, Goto
<1>6. ASSUME NEW w \in Workers, NEW label \in Labels \ {"send", "settle"}, pc[w] # "idle",
             Goto(w, label), UNCHANGED <<status, calls, cur, fenced, mem>>
      PROVE  SendInv'
  BY <1>6 DEF Goto
<1>7. ASSUME NEW w \in Workers, Prepare(w) PROVE SendInv'
  <2>1. CASE \E verdict \in {"refused", "retry"} : Decide(w, verdict, "settle") /\ UNCHANGED <<cur, fenced>>
    BY <1>5, <1>7, <2>1 DEF Prepare
  <2>2. CASE Goto(w, "fence") /\ UNCHANGED <<cur, fenced, mem>>
    <3>1. UNCHANGED <<status, calls>> BY <1>7 DEF Prepare
    <3>2. "fence" \in Labels \ {"send", "settle"} /\ pc[w] # "idle" BY <1>7 DEF Labels, Prepare
    <3>. QED BY <1>6, <2>2, <3>1, <3>2
  <2>3. CASE Forget(w)
    BY <1>3, <1>7, <2>3 DEF Prepare
  <2>. QED BY <1>7, <2>1, <2>2, <2>3 DEF Prepare
<1>8. ASSUME NEW w \in Workers, pc[w] # "idle", CrossFence(w), Holds(w, "processing"),
             UNCHANGED calls,
             UNCHANGED mem \/ \E g : mem' = [mem EXCEPT ![w].gen = g]
      PROVE  SendInv'
  <2>1. \A v \in Workers : mem'[v].outcome = mem[v].outcome
    BY <1>8 DEF Snapshot
  <2>2. /\ pc'[w] = "send" /\ fenced'[w] /\ status'[cur[w]] = "dispatching" /\ cur[w] \in Jobs
        /\ \A v \in Workers : v # w => pc'[v] = pc[v] /\ fenced'[v] = fenced[v]
        /\ \A i \in Jobs : i # cur[w] => status'[i] = status[i]
        /\ cur' = cur
    BY <1>8 DEF CrossFence, Goto
  <2>. QED BY <1>8, <2>1, <2>2
<1>9. ASSUME NEW w \in Workers, FenceManaged(w) PROVE SendInv'
  BY <1>5, <1>8, <1>9 DEF FenceManaged
<1>10. ASSUME NEW w \in Workers, FenceThreads(w) PROVE SendInv'
  <2>1. CASE Forget(w) /\ UNCHANGED rows
    BY <1>3, <1>10, <2>1 DEF FenceThreads
  <2>2. CASE Holds(w, "processing") /\ CrossFence(w)
             /\ mem' = [mem EXCEPT ![w].gen = gen[AccountOf[cur[w]]]]
    BY <1>8, <1>10, <2>2 DEF FenceThreads
  <2>. QED BY <1>10, <2>1, <2>2 DEF FenceThreads
<1>11. ASSUME NEW w \in Workers, BeginAttempt(w) PROVE SendInv'
  <2>1. "recheck" \in Labels \ {"send", "settle"} /\ "cancel" \in Labels \ {"send", "settle"}
    BY DEF Labels
  <2>. QED BY <1>6, <1>11, <2>1 DEF BeginAttempt
<1>12. ASSUME NEW w \in Workers, RecheckAI(w) PROVE SendInv'
  <2>1. CASE Holds(w, "processing") /\ CrossFence(w) /\ UNCHANGED mem
    BY <1>8, <1>12, <2>1 DEF RecheckAI
  <2>2. CASE Goto(w, "cancel") /\ UNCHANGED <<rows, cur, fenced, mem>>
    <3>1. "cancel" \in Labels \ {"send", "settle"} BY DEF Labels
    <3>. QED BY <1>6, <1>12, <2>2, <3>1 DEF RecheckAI
  <2>. QED BY <1>12, <2>1, <2>2 DEF RecheckAI
<1>13. ASSUME NEW w \in Workers, Send(w) PROVE SendInv'
  <2>1. cur[w] \in Jobs /\ calls' = [calls EXCEPT ![cur[w]] = @ + 1] BY <1>13 DEF Send
  <2>2. \A j \in Jobs : calls[j] > 0 => calls'[j] > 0 BY <2>1
  <2>3. calls'[cur[w]] > 0 BY <2>1
  <2>4. UNCHANGED <<status, cur, fenced>> BY <1>13 DEF Send
  <2>5. /\ pc'[w] = "settle"
        /\ \A v \in Workers : v # w => pc'[v] = pc[v] /\ mem'[v] = mem[v]
    BY <1>13 DEF Send, Decide, Goto
  <2>6. OutcomeInv' BY <2>2, <2>4
  <2>7. pc[w] = "send" BY <1>13 DEF Send
  <2>8. ASSUME NEW v \in Workers, pc'[v] = "settle", mem'[v].outcome = "accepted"
        PROVE  calls'[cur[v]] > 0
    <3>1. CASE v = w BY <2>3, <3>1
    <3>2. CASE v # w
      <4>1. pc[v] = "settle" /\ mem[v].outcome = "accepted" /\ cur[v] \in Jobs
        BY <2>5, <2>8, <3>2
      <4>. QED BY <2>2, <4>1
    <3>. QED BY <3>1, <3>2
  <2>9. HandlingInv' BY <2>4, <2>5, <2>7, <2>8
  <2>. QED BY <2>6, <2>9
<1>14. ASSUME NEW w \in Workers, Settle(w) PROVE SendInv'
  <2>1. cur[w] \in Jobs /\ pc[w] = "settle" /\ UNCHANGED calls BY <1>14 DEF Settle
  <2>2. /\ \A v \in Workers : v # w => pc'[v] = pc[v] /\ fenced'[v] = fenced[v]
                                       /\ mem'[v] = mem[v] /\ cur'[v] = cur[v]
        /\ pc'[w] \in {"idle", "cancel"}
        /\ pc'[w] # "idle" => cur'[w] = cur[w]
    BY <1>14 DEF Settle, AfterSettle, Forget, Goto
  <2>3. \/ UNCHANGED status
        \/ status' = [status EXCEPT ![cur[w]] = "sent"] /\ mem[w].outcome = "accepted"
        \/ \E st \in {"failed", "retrying"} : status' = [status EXCEPT ![cur[w]] = st]
    BY <1>14 DEF Settle, SettleRow, Release
  <2>4. \A j \in Jobs : /\ status'[j] = "cancelled" => status[j] = "cancelled"
                        /\ status'[j] = "none" => status[j] = "none"
    BY <2>3
  <2>5. OutcomeInv' BY <2>1, <2>3, <2>4
  <2>6. HandlingInv' BY <2>1, <2>2, <2>4
  <2>. QED BY <2>5, <2>6
<1>15. ASSUME NEW w \in Workers, CancelAI(w) PROVE SendInv'
  <2>1. cur[w] \in AIJobs /\ cur[w] \in Jobs /\ UNCHANGED calls
    BY <1>15 DEF CancelAI, DispatchInv, AIStage
  <2>2. CASE UNCHANGED rows
    BY <1>3, <1>15, <2>2 DEF CancelAI
  <2>3. CASE Holds(w, LeaseStatus(w)) /\ Release(cur[w], "cancelled")
    <3>1. status' = [status EXCEPT ![cur[w]] = "cancelled"] BY <2>3 DEF Release
    <3>2. ASSUME NEW v \in Workers, v # w, pc[v] = "send" PROVE cur[v] # cur[w]
      <4>1. ASSUME cur[v] = cur[w] PROVE FALSE
        <5>1. fenced[v] BY <2>1, <3>2, <4>1
        <5>2. status[cur[w]] \notin Queued BY <4>1, <5>1 DEF DispatchInv, FencedStage, Before
        <5>3. ~fenced[w] BY <3>2, <4>1, <5>1 DEF DispatchInv, OneDispatcher
        <5>4. status[cur[w]] = "processing" BY <2>3, <5>3 DEF Holds, LeaseStatus
        <5>. QED BY <5>2, <5>4 DEF Queued
      <4>. QED BY <4>1
    <3>3. /\ pc'[w] = "idle"
          /\ \A v \in Workers : v # w => pc'[v] = pc[v] /\ fenced'[v] = fenced[v]
                                       /\ mem'[v] = mem[v] /\ cur'[v] = cur[v]
      BY <1>15 DEF CancelAI, Forget
    <3>. QED BY <2>1, <3>1, <3>2, <3>3
  <2>. QED BY <1>15, <2>2, <2>3 DEF CancelAI
<1>16. ASSUME NEW w \in Workers, FaultStep(w) PROVE SendInv'
  <2>1. CASE Crash(w) BY <1>3, <2>1 DEF Crash
  <2>2. CASE SettleFails(w)
    <3>1. "cancel" \in Labels \ {"send", "settle"} BY DEF Labels
    <3>. QED BY <1>6, <2>2, <3>1 DEF SettleFails
  <2>3. CASE GuardLost(w) BY <2>3 DEF GuardLost
  <2>. QED BY <1>16, <2>1, <2>2, <2>3 DEF FaultStep
<1>17. ASSUME \/ \E j \in Jobs : EnqueueHuman(j) \/ EnqueueAI(j)
              \/ \E a \in Accounts : ControlPlane(a)
       PROVE  SendInv'
  <2>1. CASE UNCHANGED memory /\ UNCHANGED <<rows, history>>
    BY <2>1
  <2>. QED BY <1>17, <2>1, ChangesAre, SendCancelAndInsert
<1>18. ASSUME NEW j \in Jobs, LeaseExpires(j) \/ BecomesDue(j) PROVE SendInv'
  BY <1>18 DEF LeaseExpires, BecomesDue
<1>19. CASE UNCHANGED vars
  BY <1>19 DEF vars
<1>. QED
  BY <1>1, <1>2, <1>4, <1>7, <1>9, <1>10, <1>11, <1>12, <1>13, <1>14, <1>15, <1>16, <1>17,
     <1>18, <1>19 DEF Next, WorkerStep, Deliver, JobStep

\* No worker has a row at first, and none is settled.
LEMMA SendInit == Init => SendInv
BY OutboxAssumption DEF Init, SendInv, HandlingInv, OutcomeInv

LEMMA SendInvariant == Spec => []SendInv
BY SendInit, SendStep, DispatchInvariant, PTL DEF Spec

\* A job that leaves the queue for good has an outcome; no other step has one.
LEMMA OutcomeSettles ==
  ASSUME TypeOK, NEW j \in Jobs, NEW st \in Terminal, status' = [status EXCEPT ![j] = st]
  PROVE  Outcome' = [Outcome EXCEPT ![j] = st]
BY DEF TypeOK, RowsOK, Outcome, Terminal, Queued

\* Claims, fences and retries are within what counts as pending.
LEMMA OutcomeStays ==
  ASSUME \A j \in Jobs : \/ status'[j] = status[j]
                         \/ {status[j], status'[j]} \subseteq Queued \cup {"dispatching"}
  PROVE  Outcome' = Outcome
BY DEF Outcome

\* What is pending shows as pending.
LEMMA PendingShown ==
  ASSUME MessageAgrees, NEW j \in Jobs, status[j] \in Queued \cup {"dispatching"}
  PROVE  Outcome[j] = "pending" /\ message[j] = "pending"
BY DEF MessageAgrees, Outcome, Queued

\* One transaction queues and cancels: none of the cancelled messages that is
\* sent once was sent.
LEMMA ChangeImplements ==
  ASSUME TypeOK, DispatchInv, MessageAgrees, NEW S \in SUBSET Jobs, NEW New \in SUBSET Jobs,
         \A j \in New : status[j] = "none", CancelAndInsert(S, New)
  PROVE  Promise!Next
<1> DEFINE gone == {j \in S : status[j] \in Queued}
<1>1. gone \in SUBSET Jobs OBVIOUS
<1>2. \A j \in New : Outcome[j] = "none"
  BY DEF Outcome, Queued
<1>3. \A j \in gone : Outcome[j] = "pending" /\ message[j] = "pending"
  BY PendingShown
<1>4. \A j \in gone : j \in OnceJobs => calls[j] = 0
  BY DEF DispatchInv, UnsentBefore, Before
<1>5. Outcome' = [j \in Jobs |-> IF j \in New THEN "pending"
                                 ELSE IF j \in gone THEN "cancelled" ELSE Outcome[j]]
  <2>1. ASSUME NEW j \in Jobs
        PROVE  Outcome'[j] = IF j \in New THEN "pending"
                             ELSE IF j \in gone THEN "cancelled" ELSE Outcome[j]
    <3>1. status'[j] = IF j \in New THEN "pending"
                       ELSE IF j \in gone THEN "cancelled" ELSE status[j]
      BY DEF CancelAndInsert
    <3>. QED BY <3>1 DEF Outcome, Queued
  <2>. QED BY <2>1 DEF Outcome
<1>6. message' = [j \in Jobs |-> IF j \in New THEN "pending"
                                 ELSE IF j \in gone THEN "failed" ELSE message[j]]
  BY <1>3 DEF CancelAndInsert, FailPending
<1>7. UNCHANGED calls BY DEF CancelAndInsert
<1>8. Promise!Change(New, gone)
  BY <1>2, <1>3, <1>4, <1>5, <1>6, <1>7 DEF Promise!Change
<1>. QED BY <1>1, <1>8 DEF Promise!Next

\* The provider is called for a message that is not cancelled, and for one
\* that is sent once only if it was not called before.
LEMMA SendImplements ==
  ASSUME TypeOK, DispatchInv, SendInv, NEW w \in Workers, Send(w)
  PROVE  Promise!Next
<1> DEFINE j == cur[w]
<1>1. j \in Jobs /\ status[j] \in Statuses BY DEF Send, TypeOK, MemoryOK, RowsOK
<1>2. status[j] \notin {"none", "cancelled"}
  BY DEF Send, SendInv, HandlingInv
<1>3. Outcome[j] \in {"pending", "sent", "failed"}
  BY <1>1, <1>2 DEF Outcome, Statuses, Terminal
<1>4. j \in OnceJobs => calls[j] = 0
  BY DEF Send, DispatchInv, UnsentAtSend
<1>5. Outcome' = Outcome /\ message' = message BY DEF Send, rows, Outcome
<1>6. calls' = [calls EXCEPT ![j] = @ + 1] BY DEF Send
<1>7. Promise!Try(j) BY <1>3, <1>4, <1>5, <1>6 DEF Promise!Try
<1>. QED BY <1>1, <1>7 DEF Promise!Next

\* An outcome is recorded and shown together; a retry changes neither.
LEMMA SettleImplements ==
  ASSUME TypeOK, SendInv, MessageAgrees, NEW w \in Workers, Settle(w)
  PROVE  Promise!Next \/ UNCHANGED Promise!vars
<1> DEFINE j == cur[w]
<1>1. j \in Jobs /\ UNCHANGED calls BY DEF Settle, TypeOK, MemoryOK, history
<1>2. CASE UNCHANGED rows
  BY <1>1, <1>2 DEF rows, Outcome, Promise!vars
<1>3. CASE /\ Holds(w, LeaseStatus(w)) /\ mem[w].outcome = "accepted"
           /\ Release(j, "sent") /\ message' = [message EXCEPT ![j] = "sent"]
  <2>1. Outcome' = [Outcome EXCEPT ![j] = "sent"]
    BY <1>1, <1>3, OutcomeSettles DEF Release, Terminal
  <2>2. Outcome[j] = "pending"
    BY <1>1, <1>3, PendingShown DEF Holds, LeaseStatus, Queued
  <2>3. calls[j] > 0 BY <1>3 DEF Settle, SendInv, HandlingInv
  <2>4. Promise!Sent(j) BY <1>1, <1>3, <2>1, <2>2, <2>3 DEF Promise!Sent
  <2>. QED BY <1>1, <2>4 DEF Promise!Next
<1>4. CASE /\ Holds(w, LeaseStatus(w)) /\ DeadLetter(w)
           /\ Release(j, "failed") /\ message' = [message EXCEPT ![j] = "failed"]
  <2>1. Outcome' = [Outcome EXCEPT ![j] = "failed"]
    BY <1>1, <1>4, OutcomeSettles DEF Release, Terminal
  <2>2. Outcome[j] = "pending"
    BY <1>1, <1>4, PendingShown DEF Holds, LeaseStatus, Queued
  <2>3. Promise!Failed(j) BY <1>1, <1>4, <2>1, <2>2 DEF Promise!Failed
  <2>. QED BY <1>1, <2>3 DEF Promise!Next
<1>5. CASE /\ Holds(w, LeaseStatus(w)) /\ ~DeadLetter(w)
           /\ Release(j, "retrying") /\ message' = [message EXCEPT ![j] = message[j]]
  <2>1. message' = message BY <1>1, <1>5 DEF TypeOK, RowsOK
  <2>2. Outcome' = Outcome
    BY <1>1, <1>5, OutcomeStays DEF Release, Holds, LeaseStatus, Queued, TypeOK, RowsOK
  <2>. QED BY <1>1, <2>1, <2>2 DEF Promise!vars
<1>. QED BY <1>2, <1>3, <1>4, <1>5 DEF Settle, SettleRow

LEMMA CancelImplements ==
  ASSUME TypeOK, DispatchInv, MessageAgrees, NEW w \in Workers, CancelAI(w)
  PROVE  Promise!Next \/ UNCHANGED Promise!vars
<1> DEFINE j == cur[w]
<1>1. /\ j \in Jobs /\ j \in AIJobs /\ UNCHANGED calls
  BY DEF CancelAI, DispatchInv, AIStage, TypeOK, MemoryOK, history
<1>2. CASE UNCHANGED rows
  BY <1>1, <1>2 DEF rows, Outcome, Promise!vars
<1>3. CASE /\ Holds(w, LeaseStatus(w)) /\ Release(j, "cancelled")
           /\ message' = [message EXCEPT ![j] = FailPending(@)]
  <2>1. Outcome' = [Outcome EXCEPT ![j] = "cancelled"]
    BY <1>1, <1>3, OutcomeSettles DEF Release, Terminal
  <2>2. Outcome[j] = "pending" /\ message[j] = "pending"
    BY <1>1, <1>3, PendingShown DEF Holds, LeaseStatus, Queued
  <2>3. message' = [message EXCEPT ![j] = "failed"] BY <1>3, <2>2 DEF FailPending
  <2>4. /\ Outcome' = [i \in Jobs |-> IF i \in {} THEN "pending"
                                      ELSE IF i \in {j} THEN "cancelled" ELSE Outcome[i]]
        /\ message' = [i \in Jobs |-> IF i \in {} THEN "pending"
                                      ELSE IF i \in {j} THEN "failed" ELSE message[i]]
    BY <2>1, <2>3 DEF Outcome, TypeOK, RowsOK
  <2>5. Promise!Change({}, {j}) BY <1>1, <2>2, <2>4 DEF Promise!Change
  <2>6. {} \in SUBSET Jobs /\ {j} \in SUBSET Jobs BY <1>1
  <2>. QED BY <2>5, <2>6 DEF Promise!Next
<1>. QED BY <1>2, <1>3 DEF CancelAI

\* An abandoned dispatch is given up for good, in the inbox as well.
LEMMA RecoverImplements ==
  ASSUME TypeOK, MessageAgrees, NEW w \in Workers, RecoverAbandoned(w)
  PROVE  Promise!Next
<1>1. PICK j \in Jobs : /\ status[j] = "dispatching" /\ Release(j, "failed")
                        /\ message' = [message EXCEPT ![j] = FailPending(@)]
  BY DEF RecoverAbandoned
<1>2. Outcome' = [Outcome EXCEPT ![j] = "failed"]
  BY <1>1, OutcomeSettles DEF Release, Terminal
<1>3. Outcome[j] = "pending" /\ message[j] = "pending" BY <1>1, PendingShown
<1>4. message' = [message EXCEPT ![j] = "failed"] BY <1>1, <1>3 DEF FailPending
<1>5. UNCHANGED calls BY DEF RecoverAbandoned, history
<1>6. Promise!Failed(j) BY <1>2, <1>3, <1>4, <1>5 DEF Promise!Failed
<1>. QED BY <1>6 DEF Promise!Next

\* A claim and the fences move a row within what counts as pending.
LEMMA MovesPending ==
  ASSUME TypeOK, NEW w \in Workers,
         \/ Claim(w) \/ FenceManaged(w) \/ FenceThreads(w) \/ RecheckAI(w)
         \/ Load(w) \/ Prepare(w) \/ BeginAttempt(w) \/ FaultStep(w)
  PROVE  UNCHANGED Promise!vars
<1>1. UNCHANGED <<message, calls>>
  BY DEF Claim, FenceManaged, FenceThreads, RecheckAI, Load, Prepare, BeginAttempt, FaultStep,
         Crash, SettleFails, GuardLost, CrossFence, rows, history
<1>2. CASE Claim(w)
  <2>1. PICK j \in Jobs : Eligible(j) /\ status[j] # "dispatching"
                          /\ status' = [status EXCEPT ![j] = "processing"]
    BY <1>2 DEF Claim
  <2>. QED BY <1>1, <2>1, OutcomeStays DEF Eligible, Queued, TypeOK, RowsOK, Promise!vars
<1>3. CASE Holds(w, "processing") /\ CrossFence(w)
  BY <1>1, <1>3, OutcomeStays
     DEF CrossFence, Holds, Queued, TypeOK, RowsOK, Promise!vars
<1>4. CASE UNCHANGED status
  BY <1>1, <1>4 DEF Outcome, Promise!vars
<1>. QED
  BY <1>2, <1>3, <1>4
     DEF FenceManaged, FenceThreads, RecheckAI, Load, Prepare, BeginAttempt, FaultStep, Crash,
         SettleFails, GuardLost, rows

LEMMA PromiseInit == Init => Promise!Init
BY DEF Init, Outcome, Queued, Promise!Init

LEMMA PromiseStep ==
  TypeOK /\ DispatchInv /\ SendInv /\ MessageAgrees /\ [Next]_vars
    => [Promise!Next]_(Promise!vars)
<1> SUFFICES ASSUME TypeOK, DispatchInv, SendInv, MessageAgrees, [Next]_vars
             PROVE  [Promise!Next]_(Promise!vars)
  OBVIOUS
<1>1. ASSUME NEW w \in Workers, WorkerStep(w) \/ FaultStep(w)
      PROVE  Promise!Next \/ UNCHANGED Promise!vars
  <2>1. CASE RecoverAbandoned(w) BY <2>1, RecoverImplements
  <2>2. CASE Send(w) BY <2>2, SendImplements
  <2>3. CASE Settle(w) BY <2>3, SettleImplements
  <2>4. CASE CancelAI(w) BY <2>4, CancelImplements
  <2>. QED BY <1>1, <2>1, <2>2, <2>3, <2>4, MovesPending DEF WorkerStep, Deliver
<1>2. ASSUME \/ \E j \in Jobs : EnqueueHuman(j) \/ EnqueueAI(j)
             \/ \E a \in Accounts : ControlPlane(a)
      PROVE  Promise!Next \/ UNCHANGED Promise!vars
  <2>1. CASE UNCHANGED <<rows, history>>
    BY <2>1 DEF rows, history, Outcome, Promise!vars
  <2>. QED BY <1>2, <2>1, ChangesAre, ChangeImplements
<1>3. ASSUME NEW j \in Jobs, LeaseExpires(j) \/ BecomesDue(j)
      PROVE  UNCHANGED Promise!vars
  BY <1>3 DEF LeaseExpires, BecomesDue, history, Outcome, Promise!vars
<1>4. CASE UNCHANGED vars
  BY <1>4 DEF vars, rows, history, Outcome, Promise!vars
<1>. QED BY <1>1, <1>2, <1>3, <1>4 DEF Next, JobStep

\* The outbox keeps its promise for any workers, jobs and kinds of account
\* (internal/worker/channel_outbox.go with the transactions of
\* internal/handlers): one outcome, shown as it is, no call after a
\* cancellation, and one call where one is promised.
THEOREM ImplementsOutboxHolds == Spec => ImplementsOutbox
BY PromiseInit, PromiseStep, DispatchInvariant, SendInvariant, MessageAgreesHolds, PTL
   DEF Spec, ImplementsOutbox, Promise!Spec
=============================================================================
