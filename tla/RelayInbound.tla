---------------------------- MODULE RelayInbound ----------------------------
(***************************************************************************)
(* The inbound side of the Meta relay: a webhook delivery is acknowledged  *)
(* once its jobs are in Redis (internal/metarelay/server.go, store.go) and *)
(* replicas of the worker (worker.go) forward the jobs to ReReply.         *)
(*                                                                         *)
(* A script of the store is atomic; everything else a replica does         *)
(* interleaves.  A claim is a lease without a token: whoever settles a job *)
(* settles it for every replica that holds a copy of it.  A job is named   *)
(* by a digest of its account and events, so deliveries whose bytes differ *)
(* may carry the same job, and its credential fence is no part of its name.*)
(***************************************************************************)
EXTENDS Naturals, FiniteSets

CONSTANTS
    Replicas,     \* worker processes
    Deliveries,   \* webhook deliveries, told apart by their raw bytes
    Jobs,         \* canonical jobs
    JobsOf,       \* the jobs a delivery is normalised into
    Concurrency,  \* WorkerConcurrency: the jobs a replica claims at once
    MaxAttempts,  \* config.MaxAttempts
    MaxFaults     \* bound on crashes, lost calls, overrun leases and lapses

ASSUME InboundAssumption ==
    /\ JobsOf \in [Deliveries -> SUBSET Jobs]
    /\ Concurrency \in Nat \ {0}
    /\ MaxAttempts \in Nat \ {0}
    /\ MaxFaults \in Nat

VARIABLES
    accepted,    \* deliveries whose acceptance marker is set
    payload,     \* each job's payload: gone, or stored under the credential
                 \* fence in force now ("current") or before ("stale")
    due,         \* the due set, of jobs whose turn has come or will come
    processing,  \* the processing set, of jobs under a lease
    attempts,    \* the attempts hash
    completed,   \* jobs with a completion marker
    dead,        \* jobs with a dead-letter marker
    hand,        \* what each replica is doing with each job
    copy,        \* the payload a replica has read and not resolved yet
    took,        \* history: jobs whose events ReReply has accepted
    lapsed,      \* history: jobs whose payload outlived its retention
    faults

store == <<accepted, payload, due, processing, attempts, completed, dead>>
vars  == <<store, hand, copy, took, lapsed, faults>>

Payloads == {"gone", "current", "stale"}

Settling == {"drop", "complete", "retry", "park", "dead"}

Hands == {"free", "load", "ready", "forward"} \cup Settling

Init ==
    /\ accepted = {}
    /\ payload = [j \in Jobs |-> "gone"]
    /\ due = {} /\ processing = {}
    /\ attempts = [j \in Jobs |-> 0]
    /\ completed = {} /\ dead = {}
    /\ hand = [r \in Replicas |-> [j \in Jobs |-> "free"]]
    /\ copy = [r \in Replicas |-> [j \in Jobs |-> "gone"]]
    /\ took = {} /\ lapsed = {}
    /\ faults = 0

-----------------------------------------------------------------------------
(* Acceptance                                                              *)

Store(js, fence) ==
    /\ payload' = [j \in Jobs |-> IF j \in js THEN fence ELSE payload[j]]
    /\ due' = due \cup js

\* A delivery is acknowledged once its marker and all its jobs are stored, a
\* repeated one at once.  A job that is due keeps its turn and gets the new
\* payload, one being processed becomes due besides.  The fence is the one
\* that ingress resolved, perhaps from its cache.
Accept(d) ==
    /\ d \notin accepted
    /\ accepted' = accepted \cup {d}
    /\ \E fence \in {"current", "stale"} : Store(JobsOf[d], fence)
    /\ UNCHANGED <<processing, attempts, completed, dead, hand, copy, took,
                   lapsed, faults>>

-----------------------------------------------------------------------------
(* A cycle of the worker                                                   *)

Idle(r) == \A j \in Jobs : hand[r][j] = "free"

Hold(r, j, step) == hand' = [hand EXCEPT ![r][j] = step]

Drop(r) == /\ hand' = [hand EXCEPT ![r] = [j \in Jobs |-> "free"]]
           /\ copy' = [copy EXCEPT ![r] = [j \in Jobs |-> "gone"]]

Held(j) == \E r \in Replicas : hand[r][j] # "free"

\* Mutant of Requeued: an expired job is only taken off the processing set.
RequeuedLost(js) == due' = due

Requeued(js) == due' = due \cup js

\* Jobs whose lease ran out are due again.  The lease covers a forward and its
\* settlement (NewWorker checks it), so it runs out in the hands of a live
\* replica only if that stalls or their clocks differ.
Requeue(r) ==
    /\ Idle(r)
    /\ \E js \in SUBSET processing :
         /\ js # {}
         /\ \/ (\A j \in js : ~Held(j)) /\ UNCHANGED faults
            \/ /\ \E j \in js : Held(j)
               /\ faults < MaxFaults
               /\ faults' = faults + 1
         /\ Requeued(js)
         /\ processing' = processing \ js
    /\ UNCHANGED <<accepted, payload, attempts, completed, dead, hand, copy,
                   took, lapsed>>

\* The jobs whose turn has come, up to the limit.
Claim(r) ==
    /\ Idle(r)
    /\ \E ids \in SUBSET due :
         /\ ids # {}
         /\ Cardinality(ids) <= Concurrency
         /\ due' = due \ ids
         /\ processing' = processing \cup ids
         /\ hand' = [hand EXCEPT ![r] = [j \in Jobs |-> IF j \in ids THEN "load" ELSE "free"]]
    /\ UNCHANGED <<accepted, payload, attempts, completed, dead, copy, took,
                   lapsed, faults>>

\* Mutant of Load: a failed read counts as a payload that is gone.
LoadHasty(r, j) ==
    /\ hand[r][j] = "load"
    /\ \E step \in {"drop", "ready"} : Hold(r, j, step)
    /\ copy' = [copy EXCEPT ![r][j] = payload[j]]
    /\ UNCHANGED <<store, took, lapsed, faults>>

\* The payload is read after the claim.  One that is gone was settled by
\* another replica meanwhile, or lapsed; its claim is recorded as completed.
Load(r, j) ==
    /\ hand[r][j] = "load"
    /\ Hold(r, j, IF payload[j] = "gone" THEN "drop" ELSE "ready")
    /\ copy' = [copy EXCEPT ![r][j] = payload[j]]
    /\ UNCHANGED <<store, took, lapsed, faults>>

Loaded(r) == \A j \in Jobs : hand[r][j] \notin {"load", "drop"}

\* A call failed: the cycle ends, and what it claimed waits for its lease.
LoadFails(r) ==
    /\ faults < MaxFaults
    /\ ~Loaded(r)
    /\ Drop(r)
    /\ faults' = faults + 1
    /\ UNCHANGED <<store, took, lapsed>>

\* The registry is asked for the account's credentials.  They are those the
\* job was accepted under, others or none ("dead"), quarantined ("park") or
\* out of reach ("retry").  A job of a later schema is parked, too.
Resolve(r, j) ==
    /\ hand[r][j] = "ready"
    /\ Loaded(r)
    /\ \E step \in {"forward", "dead", "park", "retry"} :
         /\ step = "forward" => copy[r][j] = "current"
         /\ Hold(r, j, step)
    /\ copy' = [copy EXCEPT ![r][j] = "gone"]
    /\ UNCHANGED <<store, took, lapsed, faults>>

\* Mutant of Forward: a job whose answer is lost counts as accepted.
ForwardHopeful(r, j) ==
    /\ hand[r][j] = "forward"
    /\ took' \in {took, took \cup {j}}
    /\ \E step \in {"complete", "dead"} : Hold(r, j, step)
    /\ UNCHANGED <<store, copy, lapsed, faults>>

\* ReReply takes the events, and its answer may be lost; or it does not take
\* them, and says so, says that it never will, or is not heard.
Forward(r, j) ==
    /\ hand[r][j] = "forward"
    /\ \/ /\ took' = took \cup {j}
          /\ \E step \in {"complete", "retry"} : Hold(r, j, step)
       \/ /\ UNCHANGED took
          /\ \E step \in {"dead", "retry"} : Hold(r, j, step)
    /\ UNCHANGED <<store, copy, lapsed, faults>>

-----------------------------------------------------------------------------
(* Settlement                                                              *)

Unqueue(j) ==
    /\ due' = due \ {j}
    /\ processing' = processing \ {j}

\* Mutant of Forget: the attempts of a settled job stay.
ForgetNot(j) == attempts' = attempts

Forget(j) == attempts' = [attempts EXCEPT ![j] = 0]

Delete(j) ==
    /\ Unqueue(j)
    /\ Forget(j)
    /\ payload' = [payload EXCEPT ![j] = "gone"]

\* The job waits for its next turn.
Defer(j) ==
    /\ processing' = processing \ {j}
    /\ due' = due \cup {j}

Complete(r, j) ==
    /\ hand[r][j] \in {"complete", "drop"}
    /\ Delete(j)
    /\ completed' = completed \cup {j}
    /\ Hold(r, j, "free")
    /\ UNCHANGED <<accepted, dead, copy, took, lapsed, faults>>

Dead(r, j) ==
    /\ hand[r][j] = "dead"
    /\ Delete(j)
    /\ dead' = dead \cup {j}
    /\ Hold(r, j, "free")
    /\ UNCHANGED <<accepted, completed, copy, took, lapsed, faults>>

\* Another replica has settled the job meanwhile, or its payload lapsed.
RetryGone(j) ==
    /\ payload[j] = "gone"
    /\ Unqueue(j)
    /\ Forget(j)
    /\ UNCHANGED <<payload, dead>>

RetryExhausted(j) ==
    /\ payload[j] # "gone"
    /\ attempts[j] + 1 >= MaxAttempts
    /\ Delete(j)
    /\ dead' = dead \cup {j}

RetryLater(j) ==
    /\ payload[j] # "gone"
    /\ attempts[j] + 1 < MaxAttempts
    /\ Defer(j)
    /\ attempts' = [attempts EXCEPT ![j] = @ + 1]
    /\ UNCHANGED <<payload, dead>>

Retry(r, j) ==
    /\ hand[r][j] = "retry"
    /\ RetryGone(j) \/ RetryExhausted(j) \/ RetryLater(j)
    /\ Hold(r, j, "free")
    /\ UNCHANGED <<accepted, completed, copy, took, lapsed, faults>>

ParkGone(j) == payload[j] = "gone" /\ Unqueue(j)

\* Mutant of ParkLater: the job is parked whether it is stored or not.
ParkUnchecked(j) == Defer(j)

ParkLater(j) == payload[j] # "gone" /\ Defer(j)

Park(r, j) ==
    /\ hand[r][j] = "park"
    /\ ParkGone(j) \/ ParkLater(j)
    /\ Hold(r, j, "free")
    /\ UNCHANGED <<accepted, payload, attempts, completed, dead, copy, took,
                   lapsed, faults>>

\* The settlement did not reach the store.
SettleFails(r, j) ==
    /\ faults < MaxFaults
    /\ hand[r][j] \in Settling
    /\ Hold(r, j, "free")
    /\ faults' = faults + 1
    /\ UNCHANGED <<store, copy, took, lapsed>>

-----------------------------------------------------------------------------
(* Time and faults                                                         *)

Crash(r) ==
    /\ faults < MaxFaults
    /\ ~Idle(r)
    /\ Drop(r)
    /\ faults' = faults + 1
    /\ UNCHANGED <<store, took, lapsed>>

\* The payload expires inboundRetention after its last acceptance; no retry
\* and no quarantine extends it.
Lapse(j) ==
    /\ faults < MaxFaults
    /\ payload[j] # "gone"
    /\ payload' = [payload EXCEPT ![j] = "gone"]
    /\ lapsed' = lapsed \cup {j}
    /\ faults' = faults + 1
    /\ UNCHANGED <<accepted, due, processing, attempts, completed, dead, hand,
                   copy, took>>

\* The account's credentials are rotated: no fence is in force any longer.
Rebind ==
    /\ payload' = [j \in Jobs |-> IF payload[j] = "current" THEN "stale" ELSE payload[j]]
    /\ copy' = [r \in Replicas |-> [j \in Jobs |->
                   IF copy[r][j] = "current" THEN "stale" ELSE copy[r][j]]]
    /\ UNCHANGED <<accepted, due, processing, attempts, completed, dead, hand,
                   took, lapsed, faults>>

-----------------------------------------------------------------------------
Settle(r, j) == Complete(r, j) \/ Dead(r, j) \/ Retry(r, j) \/ Park(r, j)

Process(r, j) == Load(r, j) \/ Resolve(r, j) \/ Forward(r, j) \/ Settle(r, j)

Next ==
    \/ \E d \in Deliveries : Accept(d)
    \/ \E r \in Replicas : Requeue(r) \/ Claim(r) \/ LoadFails(r) \/ Crash(r)
    \/ \E r \in Replicas, j \in Jobs : Process(r, j) \/ SettleFails(r, j)
    \/ \E j \in Jobs : Lapse(j)
    \/ Rebind

Spec == Init /\ [][Next]_vars

Cycle(r) == Requeue(r) \/ Claim(r) \/ \E j \in Jobs : Process(r, j)

Answered(r, j) == Resolve(r, j) /\ hand'[r][j] # "park"

\* Every replica polls for ever (Run), backoffs and leases elapse, and no
\* quarantine lasts for ever.
Fairness ==
    /\ \A r \in Replicas : WF_vars(Cycle(r))
    /\ SF_vars(\E r \in Replicas, j \in Jobs : Answered(r, j))

LiveSpec == Spec /\ Fairness

-----------------------------------------------------------------------------
(* Properties                                                              *)

\* The variables have their types: the shape of the Redis keys of store.go
\* and of a replica's batch in worker.go.
TypeOK ==
    /\ accepted \subseteq Deliveries
    /\ payload \in [Jobs -> Payloads]
    /\ due \subseteq Jobs /\ processing \subseteq Jobs
    /\ attempts \in [Jobs -> 0..(MaxAttempts - 1)]
    /\ completed \subseteq Jobs /\ dead \subseteq Jobs
    /\ hand \in [Replicas -> [Jobs -> Hands]]
    /\ copy \in [Replicas -> [Jobs -> Payloads]]
    /\ took \subseteq Jobs /\ lapsed \subseteq Jobs
    /\ faults \in 0..MaxFaults

Stored(j) == payload[j] # "gone"

Queued(j) == j \in due \cup processing

\* What is stored is in the due set or in the processing set, so that some
\* replica will come to it, and a queue holds nothing that is not stored
\* unless it lapsed: the scripts of store.go, run by replicas that hold
\* copies of one job, never leave a payload outside both sets.
QueuedWhileStored ==
    \A j \in Jobs : /\ Stored(j) => Queued(j)
                    /\ Queued(j) => Stored(j) \/ j \in lapsed

\* Meta is told EVENT_RECEIVED (handleMetaWebhook) and will not send again:
\* every job of an acknowledged delivery is stored, or ReReply took it, or it
\* was dead-lettered, or it lapsed.
AcknowledgedKept ==
    \A d \in accepted : \A j \in JobsOf[d] : Stored(j) \/ j \in took \cup dead \cup lapsed

\* A job is recorded as completed only if ReReply took it, or there was
\* nothing left of it to forward: another replica dead-lettered it between a
\* claim and its read (ClaimInbound), or it lapsed.
CompletedRightly == completed \subseteq took \cup dead \cup lapsed

\* A job that is neither stored nor lapsed has no attempts on record: one
\* accepted anew starts with the whole retry budget, whichever replica
\* settled it the last time.
FreshBudget == \A j \in Jobs : ~Stored(j) /\ j \notin lapsed => attempts[j] = 0

Owed == {j \in Jobs : Stored(j)}

Inbox == INSTANCE DurableInbox
    WITH acknowledged <- accepted, owed <- Owed, taken <- took, buried <- dead,
         closed <- completed

\* The relay is a durable inbox: every script and every answer of ReReply,
\* seen from Meta's side, is a step of DurableInbox or none of its business.
ImplementsInbox == Inbox!Spec

\* What is stored is settled in the end, whatever crashed or was parked:
\* expired leases are requeued and the retry budget runs out (worker.go).
EventuallySettled == \A j \in Jobs : Stored(j) ~> ~Stored(j)
=============================================================================
