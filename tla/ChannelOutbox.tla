--------------------------- MODULE ChannelOutbox ---------------------------
(***************************************************************************)
(* The provider-neutral delivery loop of one tenant                        *)
(* (internal/worker/channel_outbox.go) with the control-plane transactions *)
(* that race it (internal/handlers).                                       *)
(*                                                                         *)
(* One action is one database transaction or one provider call.  A         *)
(* transaction is atomic: each takes the row locks, or the compare-and-swap*)
(* on (status, locked_by), that serialise it with the others.  What a      *)
(* worker carries from one transaction to the next is in its memory and    *)
(* may be out of date when it is used.                                     *)
(*                                                                         *)
(* The four kinds of account take four delivery paths:                     *)
(*   static     a relay account: Send straight from processing             *)
(*   instagram  managed Meta account: generation fence, terminal outcome   *)
(*   messenger  managed Meta account: generation fence, retryable outcome  *)
(*   threads    prepared sender: PrepareSend, durable state, fence, publish*)
(* and automatic AI replies of the first three take a path of their own.   *)
(***************************************************************************)
EXTENDS Naturals

CONSTANTS
    Workers,      \* channel outbox workers
    Jobs,         \* rows of outbox_jobs, each with its message
    Accounts,     \* channel accounts of the tenant, one conversation each
    AccountOf,    \* the account a job delivers through
    Kind,         \* the delivery path of an account
    AIJobs,       \* jobs created by the AI reply finaliser
    None,         \* no worker, no job
    MaxAttempts,  \* max_attempts of a job
    MaxGen,       \* bound on credential rotations of an account
    MaxFaults     \* bound on crashes, lost connections and overrun leases

Kinds == {"static", "instagram", "messenger", "threads"}

KindOf(j) == Kind[AccountOf[j]]

ASSUME OutboxAssumption ==
    /\ AccountOf \in [Jobs -> Accounts]
    /\ Kind \in [Accounts -> Kinds]
    /\ AIJobs \subseteq {j \in Jobs : KindOf(j) # "threads"}
    /\ None \notin Workers \cup Jobs
    /\ MaxAttempts \in Nat \ {0}
    /\ MaxGen \in Nat
    /\ MaxFaults \in Nat

VARIABLES
    \* outbox_jobs and the message of each job
    status, lockedBy, lease, due, attempts, prepared, message,
    \* channel_accounts, their credential generation, their conversation
    mode, gen, paused,
    \* the memory of each worker
    pc, cur, fenced, mem, guard,
    \* faults so far; generation at creation, provider calls and the
    \* credential generations they carried
    faults, born, calls, used

rows    == <<status, lockedBy, lease, due, attempts, prepared, message>>
account == <<mode, gen, paused>>
memory  == <<pc, cur, fenced, mem, guard>>
history == <<born, calls, used>>
vars    == <<rows, account, memory, faults, history>>

\* Mutant of Queued: cancellation also takes a job behind the fence.
QueuedOrDispatching == {"pending", "retrying", "processing", "dispatching"}

Queued   == {"pending", "retrying", "processing"}
Terminal == {"sent", "failed", "cancelled"}
Statuses == {"none", "dispatching"} \cup Queued \cup Terminal

JobsOf(a)  == {j \in Jobs : AccountOf[j] = a}
Managed(j) == KindOf(j) \in {"instagram", "messenger"}

\* Jobs whose provider attempt, once made, is never repeated.
OnceJobs == AIJobs \cup {j \in Jobs : KindOf(j) \in {"instagram", "threads"}}

Blank == [gen |-> 0, attempts |-> 0, outcome |-> "none"]

Init ==
    /\ status   = [j \in Jobs |-> "none"]
    /\ lockedBy = [j \in Jobs |-> None]
    /\ lease    = [j \in Jobs |-> "none"]
    /\ due      = [j \in Jobs |-> TRUE]
    /\ attempts = [j \in Jobs |-> 0]
    /\ prepared = [j \in Jobs |-> FALSE]
    /\ message  = [j \in Jobs |-> "none"]
    /\ mode     \in [Accounts -> {"open", "openAI"}]
    /\ \A a \in Accounts : Kind[a] = "threads" => mode[a] = "open"
    /\ gen      = [a \in Accounts |-> 0]
    /\ paused   = [a \in Accounts |-> FALSE]
    /\ pc       = [w \in Workers |-> "idle"]
    /\ cur      = [w \in Workers |-> None]
    /\ fenced   = [w \in Workers |-> FALSE]
    /\ mem      = [w \in Workers |-> Blank]
    /\ guard    = [w \in Workers |-> "none"]
    /\ faults   = 0
    /\ born     = [j \in Jobs |-> 0]
    /\ calls    = [j \in Jobs |-> 0]
    /\ used     = [j \in Jobs |-> {}]

-----------------------------------------------------------------------------
(* Locks, leases and shared updates                                        *)

\* Mutant of OrgFree: policy changes do not wait for an AI attempt.
OrgNotLocked == TRUE

\* LockOrganizationPolicyScope takes the organization row FOR UPDATE, which
\* waits while an AI attempt holds it FOR KEY SHARE.
OrgFree == \A w \in Workers : guard[w] # "held"

\* The compare-and-swap predicate: the row still has this status and lease.
Holds(w, st) == status[cur[w]] = st /\ lockedBy[cur[w]] = w

LeaseStatus(w) == IF fenced[w] THEN "dispatching" ELSE "processing"

\* Mutant of Eligible: processing rows of a dead worker are not taken over.
EligibleUnclaimed(j) ==
    /\ due[j]
    /\ \/ status[j] \in {"pending", "retrying"}
       \/ status[j] = "dispatching" /\ lease[j] = "stale"

\* Rows a claim may take: due, and queued or left behind under an old lease.
Eligible(j) ==
    /\ due[j]
    /\ \/ status[j] \in {"pending", "retrying"}
       \/ status[j] \in {"processing", "dispatching"} /\ lease[j] = "stale"

FailPending(m) == IF m = "pending" THEN "failed" ELSE m

\* Cancel the queued jobs of S with their pending messages, and insert New.
CancelAndInsert(S, New) ==
    LET gone == {j \in S : status[j] \in Queued} IN
    /\ status'   = [j \in Jobs |-> IF j \in New THEN "pending"
                                   ELSE IF j \in gone THEN "cancelled" ELSE status[j]]
    /\ message'  = [j \in Jobs |-> IF j \in New THEN "pending"
                                   ELSE IF j \in gone THEN FailPending(message[j])
                                   ELSE message[j]]
    /\ lockedBy' = [j \in Jobs |-> IF j \in gone THEN None ELSE lockedBy[j]]
    /\ lease'    = [j \in Jobs |-> IF j \in gone THEN "none" ELSE lease[j]]
    /\ born'     = [j \in Jobs |-> IF j \in New THEN gen[AccountOf[j]] ELSE born[j]]
    /\ UNCHANGED <<due, attempts, prepared, calls, used>>

\* The job leaves the worker's hands in a terminal or retryable status.
Release(j, st) ==
    /\ status'   = [status EXCEPT ![j] = st]
    /\ lockedBy' = [lockedBy EXCEPT ![j] = None]
    /\ lease'    = [lease EXCEPT ![j] = "none"]

\* The worker forgets its job; nothing of it survives in memory.
Forget(w) ==
    /\ pc'     = [pc EXCEPT ![w] = "idle"]
    /\ cur'    = [cur EXCEPT ![w] = None]
    /\ fenced' = [fenced EXCEPT ![w] = FALSE]
    /\ mem'    = [mem EXCEPT ![w] = Blank]
    /\ guard'  = [guard EXCEPT ![w] = "none"]

Goto(w, label) == pc' = [pc EXCEPT ![w] = label]

Decide(w, verdict, label) ==
    /\ mem' = [mem EXCEPT ![w].outcome = verdict]
    /\ Goto(w, label)

\* The dispatch fence: processing becomes dispatching under the same lease.
CrossFence(w) ==
    /\ status' = [status EXCEPT ![cur[w]] = "dispatching"]
    /\ lease'  = [lease EXCEPT ![cur[w]] = "fresh"]
    /\ fenced' = [fenced EXCEPT ![w] = TRUE]
    /\ Goto(w, "send")
    /\ UNCHANGED <<lockedBy, due, attempts, prepared, message, cur, guard>>

-----------------------------------------------------------------------------
(* Enqueue                                                                 *)

\* An agent sends a message: the conversation's AI is paused and its queued
\* AI replies are cancelled in the transaction that inserts the job.
EnqueueHuman(j) ==
    LET a == AccountOf[j] IN
    /\ status[j] = "none" /\ j \notin AIJobs
    /\ OrgFree /\ mode[a] # "closed"
    /\ CancelAndInsert(JobsOf(a) \cap AIJobs, {j})
    /\ paused' = [paused EXCEPT ![a] = TRUE]
    /\ UNCHANGED <<mode, gen, memory, faults>>

\* The AI reply finaliser inserts its message and job.
EnqueueAI(j) ==
    /\ status[j] = "none" /\ j \in AIJobs
    /\ OrgFree /\ mode[AccountOf[j]] = "openAI" /\ ~paused[AccountOf[j]]
    /\ CancelAndInsert({}, {j})
    /\ UNCHANGED <<account, memory, faults>>

-----------------------------------------------------------------------------
(* The delivery worker                                                     *)

Claim(w) ==
    /\ pc[w] = "idle"
    /\ \E j \in Jobs :
        /\ Eligible(j) /\ status[j] # "dispatching"
        /\ status'   = [status EXCEPT ![j] = "processing"]
        /\ lockedBy' = [lockedBy EXCEPT ![j] = w]
        /\ lease'    = [lease EXCEPT ![j] = "fresh"]
        /\ cur'      = [cur EXCEPT ![w] = j]
    /\ Goto(w, "load")
    /\ UNCHANGED <<due, attempts, prepared, message, fenced, mem, guard,
                   account, faults, history>>

\* Mutant of RecoverAbandoned: the message is left pending.
RecoverJobOnly(w) ==
    /\ pc[w] = "idle"
    /\ \E j \in Jobs :
        /\ Eligible(j) /\ status[j] = "dispatching"
        /\ Release(j, "failed")
    /\ UNCHANGED <<due, attempts, prepared, message, account, memory, faults, history>>

\* Mutant of RecoverAbandoned: the abandoned dispatch is retried.
RetryAbandoned(w) ==
    /\ pc[w] = "idle"
    /\ \E j \in Jobs :
        /\ Eligible(j) /\ status[j] = "dispatching"
        /\ Release(j, "retrying")
    /\ UNCHANGED <<due, attempts, prepared, message, account, memory, faults, history>>

\* A claim that finds an abandoned dispatch settles it as ambiguous.
RecoverAbandoned(w) ==
    /\ pc[w] = "idle"
    /\ \E j \in Jobs :
        /\ Eligible(j) /\ status[j] = "dispatching"
        /\ Release(j, "failed")
        /\ message' = [message EXCEPT ![j] = FailPending(@)]
    /\ UNCHANGED <<due, attempts, prepared, account, memory, faults, history>>

FirstStep(j) ==
    IF j \in AIJobs THEN "attempt"
    ELSE IF KindOf(j) = "threads" /\ ~prepared[j] THEN "prepare"
    ELSE IF KindOf(j) = "static" THEN "send" ELSE "fence"

\* The load transaction.  A licence, consent, binding or service-window
\* refusal is possible at any time; a closed account is always refused.
Load(w) ==
    LET j == cur[w] IN
    /\ pc[w] = "load"
    /\ IF Holds(w, "processing")
       THEN \E verdict \in {"refused", "retry", "proceed"} :
              /\ verdict # "refused" => mode[AccountOf[j]] # "closed"
              /\ mem' = [mem EXCEPT ![w] = [gen      |-> gen[AccountOf[j]],
                                            attempts |-> attempts[j],
                                            outcome  |-> verdict]]
              /\ Goto(w, IF verdict = "proceed" THEN FirstStep(j) ELSE "settle")
              /\ UNCHANGED <<cur, fenced, guard>>
       ELSE Forget(w)
    /\ UNCHANGED <<rows, account, faults, history>>

\* Threads: the reply container is created and its identity made durable.
Prepare(w) ==
    LET j == cur[w] IN
    /\ pc[w] = "prepare"
    /\ \/ /\ \E verdict \in {"refused", "retry"} : Decide(w, verdict, "settle")
          /\ UNCHANGED <<rows, cur, fenced, guard>>
       \/ /\ Holds(w, "processing")
          /\ prepared' = [prepared EXCEPT ![j] = TRUE]
          /\ lease'    = [lease EXCEPT ![j] = "fresh"]
          /\ Goto(w, "fence")
          /\ UNCHANGED <<status, lockedBy, due, attempts, message,
                         cur, fenced, mem, guard>>
       \/ /\ ~Holds(w, "processing")
          /\ Forget(w)
          /\ UNCHANGED rows
    /\ UNCHANGED <<account, faults, history>>

\* Managed Meta: the credential generation loaded earlier must still be the
\* current one.  A failed fence is settled without a retry.
FenceManaged(w) ==
    LET j == cur[w] a == AccountOf[cur[w]] IN
    /\ pc[w] = "fence" /\ Managed(j)
    /\ OrgFree
    /\ \/ /\ Holds(w, "processing")
          /\ mode[a] # "closed" /\ gen[a] = mem[w].gen
          /\ CrossFence(w)
          /\ UNCHANGED mem
       \/ /\ Decide(w, "refused", "settle")
          /\ UNCHANGED <<rows, cur, fenced, guard>>
    /\ UNCHANGED <<account, faults, history>>

\* Mutant of FenceThreads: the lease is not compared at the fence.
FenceThreadsUnleased(w) ==
    LET j == cur[w] a == AccountOf[cur[w]] IN
    /\ pc[w] = "fence" /\ KindOf(j) = "threads"
    /\ IF mode[a] # "closed" /\ prepared[j]
       THEN CrossFence(w) /\ mem' = [mem EXCEPT ![w].gen = gen[a]]
       ELSE Forget(w) /\ UNCHANGED rows
    /\ UNCHANGED <<account, faults, history>>

\* Threads: the fence reloads the credentials under the account row lock.  A
\* failed fence leaves the lease to expire.
FenceThreads(w) ==
    LET j == cur[w] a == AccountOf[cur[w]] IN
    /\ pc[w] = "fence" /\ KindOf(j) = "threads"
    /\ IF Holds(w, "processing") /\ mode[a] # "closed" /\ prepared[j]
       THEN CrossFence(w) /\ mem' = [mem EXCEPT ![w].gen = gen[a]]
       ELSE Forget(w) /\ UNCHANGED rows
    /\ UNCHANGED <<account, faults, history>>

\* AI: the attempt holds the organization row until the outcome is settled.
BeginAttempt(w) ==
    /\ pc[w] = "attempt"
    /\ \/ guard' = [guard EXCEPT ![w] = "held"] /\ Goto(w, "recheck")
       \/ UNCHANGED guard /\ Goto(w, "cancel")
    /\ UNCHANGED <<rows, account, cur, fenced, mem, faults, history>>

\* AI: every policy is read again, then the fence is crossed.
RecheckAI(w) ==
    LET j == cur[w] a == AccountOf[cur[w]] IN
    /\ pc[w] = "recheck"
    /\ \/ /\ Holds(w, "processing")
          /\ mode[a] = "openAI" /\ ~paused[a]
          /\ Managed(j) => gen[a] = mem[w].gen
          /\ CrossFence(w)
          /\ UNCHANGED mem
       \/ /\ Goto(w, "cancel")
          /\ guard' = [guard EXCEPT ![w] = "none"]
          /\ UNCHANGED <<rows, cur, fenced, mem>>
    /\ UNCHANGED <<account, faults, history>>

\* The provider call.  "retry" stands for a retryable error, a lost response
\* or an acceptance without a message ID: the provider may have acted.
\* PublishPrepared reports every error as final.
Send(w) ==
    LET j == cur[w] IN
    /\ pc[w] = "send"
    /\ \E verdict \in {"accepted", "retry", "refused"} :
        /\ verdict = "retry" => KindOf(j) # "threads"
        /\ Decide(w, verdict, "settle")
    /\ calls' = [calls EXCEPT ![j] = @ + 1]
    /\ used'  = [used EXCEPT ![j] = @ \cup {mem[w].gen}]
    /\ UNCHANGED <<rows, account, cur, fenced, guard, faults, born>>

\* An attempt behind the fence whose failure is ambiguous, hence final.
Ambiguous(w) ==
    /\ fenced[w]
    /\ cur[w] \in AIJobs \/ KindOf(cur[w]) = "instagram"

\* Mutant of DeadLetter: one attempt too many.
DeadLetterLate(w) ==
    \/ mem[w].outcome = "refused"
    \/ Ambiguous(w)
    \/ mem[w].attempts >= MaxAttempts

DeadLetter(w) ==
    \/ mem[w].outcome = "refused"
    \/ Ambiguous(w)
    \/ mem[w].attempts + 1 >= MaxAttempts

\* completeChannelOutboxJob and the two failure settlements; nothing is
\* written when the lease was lost.
SettleRow(w) ==
    LET j == cur[w] IN
    IF ~Holds(w, LeaseStatus(w)) THEN UNCHANGED rows
    ELSE IF mem[w].outcome = "accepted"
    THEN /\ Release(j, "sent")
         /\ attempts' = [attempts EXCEPT ![j] = @ + 1]
         /\ message'  = [message EXCEPT ![j] = "sent"]
         /\ UNCHANGED <<due, prepared>>
    ELSE /\ Release(j, IF DeadLetter(w) THEN "failed" ELSE "retrying")
         /\ attempts' = [attempts EXCEPT ![j] = mem[w].attempts + 1]
         /\ message'  = [message EXCEPT ![j] = IF DeadLetter(w) THEN "failed" ELSE @]
         /\ due'      = [due EXCEPT ![j] = DeadLetter(w)]
         /\ UNCHANGED prepared

\* The attempt's own transaction failed to commit: it is treated as a fence
\* error although the provider was called.
AfterSettle(w) ==
    IF guard[w] = "lost"
    THEN Goto(w, "cancel") /\ UNCHANGED <<cur, fenced, mem, guard>>
    ELSE Forget(w)

Settle(w) ==
    /\ pc[w] = "settle"
    /\ Ambiguous(w) /\ cur[w] \notin AIJobs /\ mem[w].outcome # "accepted" => OrgFree
    /\ SettleRow(w)
    /\ AfterSettle(w)
    /\ UNCHANGED <<account, faults, history>>

\* cancelChannelAIOutboxJob.
CancelAI(w) ==
    LET j == cur[w] IN
    /\ pc[w] = "cancel"
    /\ IF Holds(w, LeaseStatus(w))
       THEN /\ Release(j, "cancelled")
            /\ message' = [message EXCEPT ![j] = FailPending(@)]
            /\ UNCHANGED <<due, attempts, prepared>>
       ELSE UNCHANGED rows
    /\ Forget(w)
    /\ UNCHANGED <<account, faults, history>>

-----------------------------------------------------------------------------
(* Time and faults                                                         *)

Fault == faults < MaxFaults /\ faults' = faults + 1

\* The process dies, or a database error ends the delivery with its lease.
Crash(w) ==
    /\ pc[w] # "idle" /\ Fault
    /\ Forget(w)
    /\ UNCHANGED <<rows, account, history>>

\* The settlement of an AI attempt fails together with its transaction.
SettleFails(w) ==
    /\ pc[w] = "settle" /\ guard[w] = "lost"
    /\ Goto(w, "cancel")
    /\ UNCHANGED <<rows, account, cur, fenced, mem, guard, faults, history>>

\* The connection holding the organization row for an AI attempt is lost.
GuardLost(w) ==
    /\ guard[w] = "held" /\ Fault
    /\ guard' = [guard EXCEPT ![w] = "lost"]
    /\ UNCHANGED <<rows, account, pc, cur, fenced, mem, history>>

\* Two minutes pass since locked_at.  Under a worker still busy with the job
\* that is a fault (a stalled process); otherwise the lease just runs out.
LeaseExpires(j) ==
    /\ lease[j] = "fresh"
    /\ IF \E w \in Workers : cur[w] = j /\ lockedBy[j] = w
       THEN Fault ELSE UNCHANGED faults
    /\ lease' = [lease EXCEPT ![j] = "stale"]
    /\ UNCHANGED <<status, lockedBy, due, attempts, prepared, message,
                   account, memory, history>>

\* The retry backoff elapses.
BecomesDue(j) ==
    /\ ~due[j]
    /\ due' = [due EXCEPT ![j] = TRUE]
    /\ UNCHANGED <<status, lockedBy, lease, attempts, prepared, message,
                   account, memory, faults, history>>

-----------------------------------------------------------------------------
(* The control plane                                                       *)

PauseAI(a) ==
    /\ ~paused[a] /\ OrgFree
    /\ paused' = [paused EXCEPT ![a] = TRUE]
    /\ CancelAndInsert(JobsOf(a) \cap AIJobs, {})
    /\ UNCHANGED <<mode, gen, memory, faults>>

ResumeAI(a) ==
    /\ paused[a] /\ OrgFree
    /\ paused' = [paused EXCEPT ![a] = FALSE]
    /\ UNCHANGED <<rows, mode, gen, memory, faults, history>>

\* Outbound delivery is disabled, the account disconnected or quarantined.  A
\* static account loses its AI replies, any other all its queued work.
CloseAccount(a) ==
    /\ mode[a] # "closed"
    /\ Kind[a] # "threads" => OrgFree
    /\ mode' = [mode EXCEPT ![a] = "closed"]
    /\ CancelAndInsert(IF Kind[a] = "static" THEN JobsOf(a) \cap AIJobs ELSE JobsOf(a), {})
    /\ UNCHANGED <<gen, paused, memory, faults>>

\* The registry reports stale ownership of a Messenger account: it is closed,
\* and its queued work left as it is.
DowngradeMessenger(a) ==
    /\ Kind[a] = "messenger" /\ mode[a] # "closed" /\ OrgFree
    /\ mode' = [mode EXCEPT ![a] = "closed"]
    /\ UNCHANGED <<rows, gen, paused, memory, faults, history>>

NextGeneration(a) ==
    /\ gen[a] < MaxGen
    /\ gen' = [gen EXCEPT ![a] = @ + 1]

\* Mutant of RotateInstagram: the queued work is left to the next generation.
RotateInstagramOnly(a) ==
    /\ Kind[a] = "instagram" /\ OrgFree
    /\ NextGeneration(a)
    /\ mode' = [mode EXCEPT ![a] = "closed"]
    /\ UNCHANGED <<rows, paused, memory, faults, history>>

\* rotateMetaInstagramBinding: reconnecting cancels the queued work.
RotateInstagram(a) ==
    /\ Kind[a] = "instagram" /\ OrgFree
    /\ NextGeneration(a)
    /\ mode' = [mode EXCEPT ![a] = "closed"]
    /\ CancelAndInsert(JobsOf(a), {})
    /\ UNCHANGED <<paused, memory, faults>>

\* rotateMetaMessengerBinding: the account row is locked, the organization
\* row is not, and no queued work is cancelled.
RotateMessenger(a) ==
    /\ Kind[a] = "messenger"
    /\ NextGeneration(a)
    /\ mode' = [mode EXCEPT ![a] = "closed"]
    /\ UNCHANGED <<rows, paused, memory, faults, history>>

\* A new outbound secret of a static account: closed until it is retested.
RotateStatic(a) ==
    /\ Kind[a] = "static" /\ OrgFree
    /\ NextGeneration(a)
    /\ mode' = [mode EXCEPT ![a] = "closed"]
    /\ CancelAndInsert(JobsOf(a) \cap AIJobs, {})
    /\ UNCHANGED <<paused, memory, faults>>

\* The Threads OAuth callback replaces the credential and activates at once.
ReconnectThreads(a) ==
    /\ Kind[a] = "threads"
    /\ NextGeneration(a)
    /\ mode' = [mode EXCEPT ![a] = "open"]
    /\ UNCHANGED <<rows, paused, memory, faults, history>>

\* Approval of a managed account, or retest and enabling of a static one.
Activate(a) ==
    /\ Kind[a] # "threads" /\ mode[a] = "closed"
    /\ Kind[a] # "messenger" => OrgFree
    /\ mode' = [mode EXCEPT ![a] = "open"]
    /\ CancelAndInsert(IF Kind[a] = "static" THEN JobsOf(a) \cap AIJobs ELSE {}, {})
    /\ UNCHANGED <<gen, paused, memory, faults>>

EnableAI(a) ==
    /\ Kind[a] # "threads" /\ mode[a] = "open" /\ OrgFree
    /\ mode' = [mode EXCEPT ![a] = "openAI"]
    /\ UNCHANGED <<rows, gen, paused, memory, faults, history>>

DisableAI(a) ==
    /\ mode[a] = "openAI" /\ OrgFree
    /\ mode' = [mode EXCEPT ![a] = "open"]
    /\ CancelAndInsert(JobsOf(a) \cap AIJobs, {})
    /\ UNCHANGED <<gen, paused, memory, faults>>

-----------------------------------------------------------------------------

Deliver(w) ==
    \/ Load(w) \/ Prepare(w) \/ FenceManaged(w) \/ FenceThreads(w)
    \/ BeginAttempt(w) \/ RecheckAI(w) \/ Send(w) \/ Settle(w) \/ CancelAI(w)

WorkerStep(w) == Claim(w) \/ RecoverAbandoned(w) \/ Deliver(w)

FaultStep(w) == Crash(w) \/ SettleFails(w) \/ GuardLost(w)

JobStep(j) == EnqueueHuman(j) \/ EnqueueAI(j) \/ LeaseExpires(j) \/ BecomesDue(j)

ControlPlane(a) ==
    \/ PauseAI(a) \/ ResumeAI(a) \/ CloseAccount(a) \/ DowngradeMessenger(a)
    \/ RotateInstagram(a) \/ RotateMessenger(a) \/ RotateStatic(a)
    \/ ReconnectThreads(a) \/ Activate(a) \/ EnableAI(a) \/ DisableAI(a)

Next ==
    \/ \E w \in Workers : WorkerStep(w) \/ FaultStep(w)
    \/ \E j \in Jobs : JobStep(j)
    \/ \E a \in Accounts : ControlPlane(a)

Spec == Init /\ [][Next]_vars

\* RunChannelOutbox polls forever and finishes what it claimed; leases and
\* backoffs run out with time.
Fairness ==
    /\ \A w \in Workers : WF_vars(Claim(w) \/ RecoverAbandoned(w)) /\ WF_vars(Deliver(w))
    /\ \A j \in Jobs : WF_vars(LeaseExpires(j)) /\ WF_vars(BecomesDue(j))

LiveSpec == Spec /\ Fairness

-----------------------------------------------------------------------------
(* Properties                                                              *)

RowsOK ==
    /\ status   \in [Jobs -> Statuses]
    /\ lockedBy \in [Jobs -> Workers \cup {None}]
    /\ lease    \in [Jobs -> {"none", "fresh", "stale"}]
    /\ due      \in [Jobs -> BOOLEAN]
    /\ attempts \in [Jobs -> Nat]
    /\ prepared \in [Jobs -> BOOLEAN]
    /\ message  \in [Jobs -> {"none", "pending", "sent", "failed"}]

AccountOK ==
    /\ mode     \in [Accounts -> {"closed", "open", "openAI"}]
    /\ gen      \in [Accounts -> 0..MaxGen]
    /\ paused   \in [Accounts -> BOOLEAN]

Labels == {"idle", "load", "prepare", "fence", "attempt", "recheck", "send",
           "settle", "cancel"}

Snapshot == [gen : 0..MaxGen, attempts : Nat,
             outcome : {"none", "refused", "retry", "proceed", "accepted"}]

MemoryOK ==
    /\ pc     \in [Workers -> Labels]
    /\ cur    \in [Workers -> Jobs \cup {None}]
    /\ fenced \in [Workers -> BOOLEAN]
    /\ mem    \in [Workers -> Snapshot]
    /\ guard  \in [Workers -> {"none", "held", "lost"}]
    /\ \A w \in Workers : pc[w] # "idle" => cur[w] \in Jobs

HistoryOK ==
    /\ born  \in [Jobs -> 0..MaxGen]
    /\ calls \in [Jobs -> Nat]
    /\ used  \in [Jobs -> SUBSET (0..MaxGen)]

\* The state of the tables, of the workers' memory and of the history; a
\* worker that is not idle has a job.
TypeOK == RowsOK /\ AccountOK /\ MemoryOK /\ HistoryOK /\ faults \in 0..MaxFaults

\* A job that reached the dispatch fence of an AI reply, of a managed
\* Instagram account or of Threads makes a single provider attempt, through
\* crashes, overrun leases and second claims of the row.
SingleAttempt == \A j \in OnceJobs : calls[j] <= 1

\* Work queued under credential generation N of a managed Instagram account
\* is never delivered with the authority of another generation.
InstagramGeneration ==
    \A j \in Jobs : KindOf(j) = "instagram" => used[j] \subseteq {born[j]}

\* The same promise for every managed Meta account, as docs/meta-relay.md
\* states it.
ManagedGeneration == \A j \in Jobs : Managed(j) => used[j] \subseteq {born[j]}

\* A cancelled agent message of a fenced account was never sent: whichever of
\* cancellation and dispatch commits first decides for good.
CancelledUnsent ==
    \A j \in OnceJobs \ AIJobs : status[j] = "cancelled" => calls[j] = 0

\* What the inbox shows of a message agrees with its job: pending while the
\* job can still be delivered, sent exactly when the job is sent.
MessageAgrees ==
    \A j \in Jobs : message[j] = CASE status[j] = "none" -> "none"
                                   [] status[j] = "sent" -> "sent"
                                   [] status[j] \in {"failed", "cancelled"} -> "failed"
                                   [] OTHER -> "pending"

\* At most one worker at a time is past the fence of a job: an overrun lease
\* never lets a second worker dispatch beside the first.
OneDispatcher ==
    \A v, w \in Workers :
        fenced[v] /\ fenced[w] /\ cur[v] = cur[w] => v = w

\* Behind a fence the provider is called at most max_attempts times, crashes
\* included.  (A static account has no such bound: a claim does not count as
\* an attempt.)
FencedBudget ==
    \A j \in Jobs : KindOf(j) # "static" => calls[j] <= MaxAttempts

\* Settled jobs stay settled: no late worker revives or rewrites a row that
\* was sent, dead-lettered or cancelled ("policy-cancelled jobs are never
\* resurrected").
SettledForGood ==
    [][\A j \in Jobs : status[j] \in Terminal => status'[j] = status[j]]_vars

\* What an AI reply was rechecked against is so while it is sent: the
\* conversation is not paused, and the account is open to AI.  A Messenger
\* account may have been reconnected since, which takes no organization row.
StillAllowed(w) ==
    LET a == AccountOf[cur[w]] IN
    /\ ~paused[a]
    /\ mode[a] = "openAI" \/ (Kind[a] = "messenger" /\ gen[a] > mem[w].gen)

\* While its attempt holds the organization row, an AI reply is not sent into
\* a conversation that an agent has paused, nor for an account that was closed
\* or has disabled AI, a reconnected Messenger account excepted.
NoReplyAfterHandover ==
    [][\A w \in Workers :
          guard[w] = "held" /\ pc[w] = "send" /\ pc'[w] = "settle" => StillAllowed(w)]_vars

Outcome ==
    [j \in Jobs |-> IF status[j] \in Queued \cup {"dispatching"} THEN "pending" ELSE status[j]]

Promise == INSTANCE OutboxPromise
    WITH Once <- OnceJobs, Revocable <- AIJobs,
         outcome <- Outcome, shown <- message, tried <- calls

\* The delivery loop and the transactions that race it keep the promise of
\* OutboxPromise: whatever is claimed twice, abandoned behind a fence or
\* cancelled meanwhile, each of their steps is a step of it or none at all.
ImplementsOutbox == Promise!Spec

\* Every queued message is eventually sent, dead-lettered or cancelled.
EventuallySettled ==
    \A j \in Jobs : status[j] = "pending" ~> status[j] \in Terminal
=============================================================================
