------------------------------ MODULE AIReply -------------------------------
(***************************************************************************)
(* Automatic replies on the omnichannel inbox.  An inbound message         *)
(* schedules a job; workers (internal/worker/channel_ai_reply.go) claim    *)
(* it, ask Qwen for an answer and queue the reply for the outbox.  The     *)
(* control plane (internal/handlers, internal/contacthandoff) pauses,      *)
(* disables, rotates and hands over meanwhile.                             *)
(*                                                                         *)
(* Every transaction of the control plane, and the first and the last of a *)
(* worker, locks the organization row FOR UPDATE; a worker holds it FOR    *)
(* KEY SHARE from the authorization of a question to the record of its     *)
(* answer. A transaction is one step.  One conversation of one account.    *)
(***************************************************************************)
EXTENDS Naturals, FiniteSets

CONSTANTS
    Workers,
    Messages,   \* inbound messages, each with its job
    Nobody,     \* no worker, or no message
    MaxGen,     \* bound on the credential generations of a managed account
    MaxFaults   \* bound on crashes, lost answers and overrun leases

ASSUME AIReplyAssumption ==
    /\ Nobody \notin Workers /\ Nobody \notin Messages
    /\ MaxGen \in Nat /\ MaxFaults \in Nat

VARIABLES
    status,     \* status of each message's job
    holder,     \* locked_by
    record,     \* provider_attempt_state
    marker,     \* the managed generation in the job's payload, 0 for none
    reply,      \* the outbox row of the reply
    enabled,    \* the account and the tenant's settings allow AI replies
    paused,     \* the conversation is paused
    transfer,   \* the contact has an active agent transfer
    cut,        \* messages at or before the latest pause or handoff
    lapsed,     \* messages whose service window or consent has ended
    gen,        \* the account's managed generation, 0 for an ordinary account
    pc, cur,    \* the step each worker is at, and its message
    mem,        \* the managed generation a worker remembers
    got,        \* what the model's answer, or the authorization, came to
    asked,      \* history: questions sent to the model
    faults

job    == <<status, holder, record, marker, reply>>
policy == <<enabled, paused, transfer, cut, lapsed, gen>>
mind   == <<pc, cur, mem, got>>
vars   == <<job, policy, mind, asked, faults>>

\* "ignored": the message got no job.  "lost": cancelled as ambiguous.
Open     == {"pending", "processing", "generating"}
Settled  == {"completed", "cancelled", "lost", "failed"}
Statuses == Open \cup Settled \cup {"absent", "ignored"}

Init ==
    /\ status = [m \in Messages |-> "absent"]
    /\ holder = [m \in Messages |-> Nobody]
    /\ record = [m \in Messages |-> "none"]
    /\ marker = [m \in Messages |-> 0]
    /\ reply = [m \in Messages |-> "none"]
    /\ enabled = TRUE /\ paused = FALSE /\ transfer = FALSE
    /\ cut = {} /\ lapsed = {}
    /\ gen \in 0..MaxGen
    /\ pc = [w \in Workers |-> "idle"]
    /\ cur = [w \in Workers |-> Nobody]
    /\ mem = [w \in Workers |-> 0]
    /\ got = [w \in Workers |-> "nothing"]
    /\ asked = [m \in Messages |-> 0]
    /\ faults = 0

-----------------------------------------------------------------------------
(* Locks, and what the policy says of a message                            *)

\* A worker holds the organization row for its question.
Fenced == \E w \in Workers : pc[w] \in {"ask", "asking", "record"}

Arrived == {m \in Messages : status[m] # "absent"}

Allowed(m) == enabled /\ ~paused /\ ~transfer /\ m \notin lapsed

\* Mutant of Verdict: a handoff that was resumed counts for nothing.
VerdictForgetful(m) ==
    IF ~Allowed(m) THEN "cancelled"
    ELSE IF reply[m] # "none" THEN "completed" ELSE "go"

\* The eligibility check, in its order.
Verdict(m) ==
    IF ~Allowed(m) THEN "cancelled"
    ELSE IF reply[m] # "none" THEN "completed"
    ELSE IF m \in cut THEN "cancelled" ELSE "go"

-----------------------------------------------------------------------------
(* The control plane                                                       *)

\* Jobs that wait or were only claimed are cancelled, and replies that the
\* outbox has not started to dispatch; a job that is generating is not.
CancelQueued ==
    /\ status' = [m \in Messages |->
                    IF status[m] \in {"pending", "processing"} THEN "cancelled" ELSE status[m]]
    /\ holder' = [m \in Messages |->
                    IF status[m] \in {"pending", "processing"} THEN Nobody ELSE holder[m]]
    /\ reply' = [m \in Messages |-> IF reply[m] = "queued" THEN "cancelled" ELSE reply[m]]

Aside == UNCHANGED <<record, marker, mind, asked, faults>>

\* An inbound message is persisted, with a job unless it may not be answered.
Arrive(m) ==
    /\ ~Fenced
    /\ status[m] = "absent"
    /\ status' = [status EXCEPT ![m] = IF Allowed(m) THEN "pending" ELSE "ignored"]
    /\ UNCHANGED <<holder, reply, policy>> /\ Aside

\* Mutant of Pause: it does not wait for a question under way.
PauseUnfenced ==
    /\ CancelQueued
    /\ paused' = TRUE
    /\ cut' = Arrived
    /\ UNCHANGED <<enabled, transfer, lapsed, gen>> /\ Aside

\* A person pauses the conversation, or answers in it, which pauses it too.
Pause ==
    /\ ~Fenced
    /\ CancelQueued
    /\ paused' = TRUE
    /\ cut' = Arrived
    /\ UNCHANGED <<enabled, transfer, lapsed, gen>> /\ Aside

Unpause ==
    /\ ~Fenced
    /\ paused
    /\ paused' = FALSE
    /\ UNCHANGED <<job, enabled, transfer, cut, lapsed, gen>> /\ Aside

Disable ==
    /\ ~Fenced
    /\ enabled
    /\ CancelQueued
    /\ enabled' = FALSE
    /\ UNCHANGED <<paused, transfer, cut, lapsed, gen>> /\ Aside

Enable ==
    /\ ~Fenced
    /\ ~enabled
    /\ enabled' = TRUE
    /\ UNCHANGED <<job, paused, transfer, cut, lapsed, gen>> /\ Aside

\* The contact is handed to staff.  The jobs stay: what they find is a cutoff
\* that outlives the transfer.
Handoff ==
    /\ ~Fenced
    /\ ~transfer
    /\ transfer' = TRUE
    /\ cut' = Arrived
    /\ UNCHANGED <<job, enabled, paused, lapsed, gen>> /\ Aside

ResumeFromTransfer ==
    /\ ~Fenced
    /\ transfer
    /\ transfer' = FALSE
    /\ UNCHANGED <<job, enabled, paused, cut, lapsed, gen>> /\ Aside

\* A lifecycle change of the managed account: its credentials become those of
\* another generation, or cease to be managed.
Rebind ==
    /\ ~Fenced
    /\ gen > 0
    /\ gen' \in {g \in 0..MaxGen : g = 0 \/ g = gen + 1}
    /\ CancelQueued
    /\ UNCHANGED <<enabled, paused, transfer, cut, lapsed>> /\ Aside

\* Time passes, or a preference changes, without the organization's lock.
Lapse(m) ==
    /\ m \in Arrived \ lapsed
    /\ lapsed' = lapsed \cup {m}
    /\ UNCHANGED <<job, enabled, paused, transfer, cut, gen>> /\ Aside

\* The outbox worker starts to dispatch the reply.
Dispatch(m) ==
    /\ reply[m] = "queued"
    /\ reply' = [reply EXCEPT ![m] = "dispatched"]
    /\ UNCHANGED <<status, holder, policy>> /\ Aside

-----------------------------------------------------------------------------
(* The claim                                                               *)

Goto(w, step) == pc' = [pc EXCEPT ![w] = step]

Idle(w) ==
    /\ Goto(w, "idle")
    /\ cur' = [cur EXCEPT ![w] = Nobody]
    /\ mem' = [mem EXCEPT ![w] = 0]
    /\ got' = [got EXCEPT ![w] = "nothing"]

Held(m) == \E w \in Workers : cur[w] = m /\ holder[m] = w

\* Mutant of Stale: only a job without a lease is taken over.
StaleNever(m) == holder[m] = Nobody /\ UNCHANGED faults

\* A lease runs out if its worker is gone, or waits too long for the lock.
Stale(m) ==
    /\ holder[m] # Nobody
    /\ \/ ~Held(m) /\ UNCHANGED faults
       \/ Held(m) /\ faults < MaxFaults /\ faults' = faults + 1

Take(w, m) ==
    /\ holder' = [holder EXCEPT ![m] = w]
    /\ cur' = [cur EXCEPT ![w] = m]
    /\ Goto(w, "load")
    /\ UNCHANGED <<record, marker, reply, policy, mem, got, asked>>

ClaimPending(w, m) ==
    /\ status[m] = "pending"
    /\ status' = [status EXCEPT ![m] = "processing"]
    /\ Take(w, m)
    /\ UNCHANGED faults

\* The worker that had it did not get to ask.
ClaimStale(w, m) ==
    /\ status[m] = "processing"
    /\ Stale(m)
    /\ Take(w, m)
    /\ UNCHANGED status

\* Mutant of ClaimResolved: any generating job counts as answered.
ClaimUnresolved(w, m) ==
    /\ status[m] = "generating"
    /\ Stale(m)
    /\ Take(w, m)
    /\ UNCHANGED status

\* An answer is on record: it can be finalized without another question.
ClaimResolved(w, m) ==
    /\ status[m] = "generating" /\ record[m] = "resolved"
    /\ Stale(m)
    /\ Take(w, m)
    /\ UNCHANGED status

\* Mutant of ClaimAmbiguous: a question without an answer is asked again.
ClaimAgain(w, m) ==
    /\ status[m] = "generating" /\ record[m] # "resolved"
    /\ Stale(m)
    /\ Take(w, m)
    /\ status' = [status EXCEPT ![m] = "processing"]

\* Whether the question was sent is not known: it is never asked again.
ClaimAmbiguous(w, m) ==
    /\ status[m] = "generating" /\ record[m] # "resolved"
    /\ Stale(m)
    /\ status' = [status EXCEPT ![m] = "lost"]
    /\ holder' = [holder EXCEPT ![m] = Nobody]
    /\ UNCHANGED <<record, marker, reply, policy, mind, asked>>

Claim(w) ==
    /\ pc[w] = "idle"
    /\ \E m \in Messages :
         \/ ClaimPending(w, m) \/ ClaimStale(w, m)
         \/ ClaimResolved(w, m) \/ ClaimAmbiguous(w, m)

-----------------------------------------------------------------------------
(* A claimed job                                                           *)

Owns(w, statuses) == status[cur[w]] \in statuses /\ holder[cur[w]] = w

\* Mutant of Settle: whoever holds the job by now, it is settled.
SettleAnyway(m, w, to) ==
    /\ status' = [status EXCEPT ![m] = to]
    /\ holder' = [holder EXCEPT ![m] = Nobody]

Settle(m, w, to) ==
    IF status[m] \in {"processing", "generating"} /\ holder[m] = w
    THEN /\ status' = [status EXCEPT ![m] = to]
         /\ holder' = [holder EXCEPT ![m] = Nobody]
    ELSE UNCHANGED <<status, holder>>

\* Under the organization's lock: is there an answer on record, and was it
\* given for the account as it is now?
Load(w) ==
    /\ pc[w] = "load"
    /\ ~Fenced
    /\ \/ /\ ~Owns(w, {"generating"})
          /\ Goto(w, "authorize")
          /\ UNCHANGED <<status, holder, cur, mem, got>>
       \/ /\ Owns(w, {"generating"})
          /\ gen # 0 /\ marker[cur[w]] # gen
          /\ Settle(cur[w], w, "cancelled")
          /\ Idle(w)
       \/ /\ Owns(w, {"generating"})
          /\ gen = 0 \/ marker[cur[w]] = gen
          /\ Goto(w, "finalize")
          /\ mem' = [mem EXCEPT ![w] = gen]
          /\ UNCHANGED <<status, holder, cur, got>>
    /\ UNCHANGED <<record, marker, reply, policy, asked, faults>>

\* The job was settled, or taken, by another.
AuthorizeLate(w) ==
    /\ ~Owns(w, {"processing"})
    /\ Idle(w)
    /\ UNCHANGED job

\* A managed job is settled in the authorization, another after it.
AuthorizeRefused(w) ==
    /\ Owns(w, {"processing"})
    /\ Verdict(cur[w]) # "go"
    /\ \/ /\ gen # 0
          /\ Settle(cur[w], w, Verdict(cur[w]))
          /\ Idle(w)
       \/ /\ gen = 0
          /\ Goto(w, "settle")
          /\ got' = [got EXCEPT ![w] = Verdict(cur[w])]
          /\ UNCHANGED <<status, holder, cur, mem>>
    /\ UNCHANGED <<record, marker, reply>>

\* The question crosses its durable boundary before it is sent.
AuthorizeGo(w) ==
    /\ Owns(w, {"processing"})
    /\ Verdict(cur[w]) = "go"
    /\ status' = [status EXCEPT ![cur[w]] = "generating"]
    /\ record' = [record EXCEPT ![cur[w]] = "started"]
    /\ marker' = [marker EXCEPT ![cur[w]] = gen]
    /\ mem' = [mem EXCEPT ![w] = gen]
    /\ Goto(w, "ask")
    /\ UNCHANGED <<holder, reply, cur, got>>

Authorize(w) ==
    /\ pc[w] = "authorize"
    /\ AuthorizeLate(w) \/ AuthorizeRefused(w) \/ AuthorizeGo(w)
    /\ UNCHANGED <<policy, asked, faults>>

Ask(w) ==
    /\ pc[w] = "ask"
    /\ Goto(w, "asking")
    /\ asked' = [asked EXCEPT ![cur[w]] = @ + 1]
    /\ UNCHANGED <<job, policy, cur, mem, got, faults>>

Answer(w) ==
    /\ pc[w] = "asking"
    /\ Goto(w, "record")
    /\ \E what \in {"text", "error"} : got' = [got EXCEPT ![w] = what]
    /\ UNCHANGED <<job, policy, cur, mem, asked, faults>>

\* Mutant of Recorded: the job may be another's by now.
RecordedAnyway(w) ==
    record' = [record EXCEPT ![cur[w]] = IF got[w] = "text" THEN "resolved" ELSE "uncertain"]

Recorded(w) ==
    record' = IF Owns(w, {"generating"})
              THEN [record EXCEPT ![cur[w]] = IF got[w] = "text" THEN "resolved" ELSE "uncertain"]
              ELSE record

\* What came of the question is committed, and the fence released.
Record(w) ==
    /\ pc[w] = "record"
    /\ Recorded(w)
    /\ Goto(w, IF got[w] = "text" /\ Owns(w, {"generating"}) THEN "finalize" ELSE "fail")
    /\ UNCHANGED <<status, holder, marker, reply, policy, cur, mem, got, asked, faults>>

\* The record failed, or seems to have failed.
RecordFails(w) ==
    /\ faults < MaxFaults
    /\ pc[w] = "record"
    /\ Recorded(w) \/ UNCHANGED record
    /\ Goto(w, "fail")
    /\ faults' = faults + 1
    /\ UNCHANGED <<status, holder, marker, reply, policy, cur, mem, got, asked>>

\* A question that was sent is not retried (failChannelAIReplyJob).
Fail(w) ==
    /\ pc[w] = "fail"
    /\ Settle(cur[w], w, "failed")
    /\ Idle(w)
    /\ UNCHANGED <<record, marker, reply, policy, asked, faults>>

SettleRefused(w) ==
    /\ pc[w] = "settle"
    /\ Settle(cur[w], w, got[w])
    /\ Idle(w)
    /\ UNCHANGED <<record, marker, reply, policy, asked, faults>>

FinalizeLate(w) ==
    /\ ~Owns(w, {"processing", "generating"})
    /\ UNCHANGED <<job, transfer, cut>>

\* Mutant of SameBinding: only the policy of the moment is looked at.
AnyBinding(w) == TRUE

\* The account is what it was when the question was authorized.
SameBinding(w) ==
    marker[cur[w]] # 0 \/ gen # 0 =>
        marker[cur[w]] # 0 /\ gen # 0 /\ mem[w] = gen

FinalizeRefused(w) ==
    /\ Owns(w, {"processing", "generating"})
    /\ Verdict(cur[w]) # "go" \/ ~SameBinding(w)
    /\ Settle(cur[w], w, IF Verdict(cur[w]) = "completed" THEN "completed" ELSE "cancelled")
    /\ UNCHANGED <<record, marker, reply, transfer, cut>>

\* Message, outbox row and settlement are one transaction.
FinalizeReply(w) ==
    /\ Owns(w, {"processing", "generating"})
    /\ Verdict(cur[w]) = "go" /\ SameBinding(w)
    /\ reply' = [reply EXCEPT ![cur[w]] = "queued"]
    /\ Settle(cur[w], w, "completed")
    /\ UNCHANGED <<record, marker, transfer, cut>>

\* The answer calls for staff: the contact is handed over instead.
FinalizeHandoff(w) ==
    /\ Owns(w, {"processing", "generating"})
    /\ Verdict(cur[w]) = "go" /\ SameBinding(w)
    /\ Settle(cur[w], w, "completed")
    /\ transfer' = TRUE
    /\ cut' = Arrived
    /\ UNCHANGED <<record, marker, reply>>

Finalize(w) ==
    /\ pc[w] = "finalize"
    /\ ~Fenced
    /\ \/ FinalizeLate(w) \/ FinalizeRefused(w)
       \/ FinalizeReply(w) \/ FinalizeHandoff(w)
    /\ Idle(w)
    /\ UNCHANGED <<enabled, paused, lapsed, gen, asked, faults>>

\* A worker dies, or gives the job up because a call failed.
Crash(w) ==
    /\ faults < MaxFaults
    /\ pc[w] # "idle"
    /\ Idle(w)
    /\ faults' = faults + 1
    /\ UNCHANGED <<job, policy, asked>>

-----------------------------------------------------------------------------
Step(w) ==
    \/ Load(w) \/ Authorize(w) \/ Ask(w) \/ Answer(w) \/ Record(w)
    \/ Fail(w) \/ SettleRefused(w) \/ Finalize(w)

Next ==
    \/ \E m \in Messages : Arrive(m) \/ Lapse(m) \/ Dispatch(m)
    \/ Pause \/ Unpause \/ Disable \/ Enable \/ Handoff \/ ResumeFromTransfer
    \/ Rebind
    \/ \E w \in Workers : Claim(w) \/ Step(w) \/ RecordFails(w) \/ Crash(w)

Spec == Init /\ [][Next]_vars

\* Workers poll for ever, each question ends within its timeout, and a lock
\* that stays free is granted.
Fairness == \A w \in Workers : WF_vars(Claim(w) \/ Step(w))

LiveSpec == Spec /\ Fairness

-----------------------------------------------------------------------------
(* Properties                                                              *)

\* The variables have their types: the columns and payload keys of
\* scheduled_jobs and the local state of processChannelAIReplyJob.
TypeOK ==
    /\ status \in [Messages -> Statuses]
    /\ holder \in [Messages -> Workers \cup {Nobody}]
    /\ record \in [Messages -> {"none", "started", "resolved", "uncertain"}]
    /\ marker \in [Messages -> 0..MaxGen]
    /\ reply \in [Messages -> {"none", "queued", "dispatched", "cancelled"}]
    /\ enabled \in BOOLEAN /\ paused \in BOOLEAN /\ transfer \in BOOLEAN
    /\ cut \subseteq Messages /\ lapsed \subseteq Messages
    /\ gen \in 0..MaxGen
    /\ pc \in [Workers -> {"idle", "load", "authorize", "ask", "asking", "record",
                           "fail", "settle", "finalize"}]
    /\ cur \in [Workers -> Messages \cup {Nobody}]
    /\ \A w \in Workers : cur[w] = Nobody <=> pc[w] = "idle"
    /\ mem \in [Workers -> 0..MaxGen]
    /\ got \in [Workers -> {"nothing", "text", "error", "completed", "cancelled"}]
    /\ \A w \in Workers : pc[w] = "settle" => got[w] \in {"completed", "cancelled"}
    /\ asked \in [Messages -> Nat]
    /\ faults \in 0..MaxFaults

\* The customer's text goes to the model once, whatever crashed or was taken
\* over: a stale question is never asked again (claimChannelAIReplyJob).
AskedOnce == \A m \in Messages : asked[m] <= 1

\* While the text is with the model the conversation is not paused, disabled,
\* handed over or rebound: every such change waits for the fence of
\* withChannelAIPhysicalAttempt.
FenceHolds ==
    \A w \in Workers : pc[w] = "asking" =>
        /\ enabled /\ ~paused /\ ~transfer
        /\ cur[w] \notin cut
        /\ mem[w] = gen

\* A reply exists only beside a completed job whose one question has its
\* answer on record: no worker whose job was taken over or settled leaves one
\* behind (finalizeChannelAIReply, persistChannelAIReplyProviderAttemptResult).
RepliedRightly ==
    \A m \in Messages : reply[m] # "none" =>
        status[m] = "completed" /\ record[m] = "resolved" /\ asked[m] = 1

\* An answer on record is never given up as ambiguous: recovery finalizes it
\* (claimChannelAIReplyJob).
LostUnanswered == \A m \in Messages : status[m] = "lost" => record[m] # "resolved"

KeepsSettled ==
    \A m \in Messages : status[m] \in Settled =>
        status'[m] = status[m] /\ record'[m] = record[m]

KeepsCutoff == \A m \in cut : reply'[m] = "queued" => reply[m] = "queued"

KeepsGeneration ==
    \A m \in Messages : reply[m] = "none" /\ reply'[m] = "queued" => marker[m] = gen

\* A settled job stays as it was settled, whatever stragglers do.
SettledStays == [][KeepsSettled]_vars

\* After a pause or a handoff no message of before gets a reply, even if the
\* answer was on record and the conversation was resumed since (CutoffTx).
CutoffFinal == [][KeepsCutoff]_vars

\* A reply is queued only while the account is bound as it was when its
\* question was authorized, also when another worker recovers the answer.
SameGeneration == [][KeepsGeneration]_vars

StageOf(was) == CASE was = "absent" -> "new" [] was \in Open -> "open" [] OTHER -> "closed"

Stage == [m \in Messages |-> StageOf(status[m])]

Mode == IF enabled /\ ~paused /\ ~transfer THEN "active" ELSE "quiet"

Read == {m \in Messages : asked[m] > 0}

Reading == {cur[w] : w \in {v \in Workers : pc[v] = "asking"}}

Assistant == INSTANCE StandIn WITH
    Terms <- 0..MaxGen,
    stage <- Stage, read <- Read, reading <- Reading, under <- marker,
    mode <- Mode, taken <- cut, expired <- lapsed, terms <- gen

\* Whatever staff do, and whichever workers claim, die, overrun their leases or
\* recover an answer, together they behave as one stand-in: a text is read
\* once and undisturbed, and its reply, if any, is the only one, and is queued
\* while the conversation, the window and the account's binding allow it
\* (authorizeChannelAIReplyGenerationWithFence, withChannelAIPhysicalAttempt,
\* finalizeChannelAIReply, CutoffTx).
ImplementsStandIn == Assistant!Spec

\* Every job is settled in the end: leases run out and are taken over.
EventuallySettled == \A m \in Messages : status[m] \in Open ~> status[m] \in Settled
=============================================================================
