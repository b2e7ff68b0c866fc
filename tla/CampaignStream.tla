--------------------------- MODULE CampaignStream ---------------------------
(***************************************************************************)
(* A bulk campaign.  The control plane (internal/handlers/campaigns.go)    *)
(* starts, pauses, cancels and retries it, and enqueues a job for each     *)
(* recipient on a Redis stream; consumers (internal/queue/redis.go) read   *)
(* the jobs, and reclaim what others left, and workers                     *)
(* (internal/worker/worker.go) claim a recipient, mirror its message to    *)
(* the inbox and make the one request to the provider.                     *)
(*                                                                         *)
(* A database transaction is one step, except the one around the request,  *)
(* which holds the campaign's and the recipient's rows until the provider  *)
(* answers.  Transactions read committed data statement by statement.      *)
(***************************************************************************)
EXTENDS Naturals, FiniteSets

CONSTANTS
    Workers,
    Recipients,
    Nobody,     \* no worker
    MaxGen,     \* bound on the starts and retries of the campaign
    MaxFaults   \* bound on crashes, failed calls and overrun claims

ASSUME CampaignAssumption ==
    /\ IsFiniteSet(Recipients) /\ Recipients # {}
    /\ Nobody \notin Workers /\ Nobody \notin Recipients \X (1..MaxGen)
    /\ MaxGen \in Nat /\ MaxFaults \in Nat

VARIABLES
    campaign,   \* status
    gen,        \* started_at, as the number of the generation
    sent, delivered, read, failed,  \* the campaign's counters
    recipient,  \* status of each recipient
    message,    \* status of the last message to it
    claim,      \* its message_id: the worker whose message it is
    linked,     \* that message is mirrored to the inbox
    launch,     \* how far the handler of each generation got
    batch,      \* the recipients it enqueues
    prior,      \* what its handler puts back if it cannot enqueue them
    entry,      \* the stream's entries
    pc, at,     \* the step each worker is at, and its job
    ans,        \* what the provider told it
    recovering, \* consumers that look for abandoned entries
    requests,   \* history: requests made for a recipient since it was reset
    drift,      \* history: how counters and recipients came apart
    faults

counters == <<sent, delivered, read, failed>>
results  == <<message, counters>>
rows     == <<recipient, claim, linked>>
handlers == <<launch, batch, prior>>
minds    == <<pc, at, ans, recovering>>
history  == <<requests, drift>>
vars     == <<campaign, gen, results, rows, handlers, entry, minds, history, faults>>

Gens == 1..MaxGen
Jobs == Recipients \X Gens

With(status) == {r \in Recipients : recipient[r] \in status}

\* What a handler has in its variables before and after.
NoPrior == <<"none", 0, 0, 0, 0>>

Init ==
    /\ campaign = "draft" /\ gen = 0
    /\ sent = 0 /\ delivered = 0 /\ read = 0 /\ failed = 0
    /\ recipient = [r \in Recipients |-> "pending"]
    /\ message = [r \in Recipients |-> "pending"]
    /\ claim = [r \in Recipients |-> Nobody]
    /\ linked = [r \in Recipients |-> FALSE]
    /\ launch = [g \in Gens |-> "none"]
    /\ batch = [g \in Gens |-> {}]
    /\ prior = [g \in Gens |-> NoPrior]
    /\ entry = [j \in Jobs |-> "none"]
    /\ pc = [w \in Workers |-> "idle"]
    /\ at = [w \in Workers |-> Nobody]
    /\ ans = [w \in Workers |-> "none"]
    /\ recovering = Workers
    /\ requests = [r \in Recipients |-> 0]
    /\ drift = {}
    /\ faults = 0

-----------------------------------------------------------------------------
(* Rows                                                                    *)

\* The request's transaction holds the row of the campaign.
CampaignFree == \A w \in Workers : pc[w] # "sending"

\* It holds the row of the recipient as well.
RecipientFree(r) == \A w \in Workers : pc[w] = "sending" => at[w][1] # r

\* campaignJobHasCurrentGeneration
Current(job) == campaign = "processing" /\ job[2] >= gen

\* The message, the recipient and the counter of the outcome are one
\* transaction.
Settle(r, to) ==
    /\ recipient' = [recipient EXCEPT ![r] = to]
    /\ message' = [message EXCEPT ![r] = to]
    /\ sent' = IF to = "sent" THEN sent + 1 ELSE sent
    /\ failed' = IF to = "failed" THEN failed + 1 ELSE failed
    /\ UNCHANGED <<delivered, read>>

-----------------------------------------------------------------------------
(* The control plane                                                       *)

Aside == UNCHANGED <<minds, requests>>

\* A new generation begins; its jobs are enqueued after the commit.
Begin(step, to) ==
    /\ gen < MaxGen
    /\ campaign' = "processing"
    /\ gen' = gen + 1
    /\ launch' = [launch EXCEPT ![gen + 1] = step]
    /\ batch' = [batch EXCEPT ![gen + 1] = to]
    /\ prior' = [prior EXCEPT ![gen + 1] = <<campaign, sent, delivered, read, failed>>]
    /\ UNCHANGED <<entry, drift, faults>>

StartCampaign ==
    /\ CampaignFree
    /\ campaign \in {"draft", "paused"}
    /\ With({"pending"}) # {}
    /\ Begin("starting", With({"pending"}))
    /\ UNCHANGED <<results, rows>> /\ Aside

\* Failed recipients are pending again, without their messages.
RetryFailed ==
    /\ CampaignFree
    /\ campaign \in {"completed", "paused"}
    /\ LET again == With({"failed"}) IN
       /\ again # {}
       /\ Begin("retrying", again)
       /\ recipient' = [r \in Recipients |-> IF r \in again THEN "pending" ELSE recipient[r]]
       /\ message' = [r \in Recipients |-> IF r \in again THEN "pending" ELSE message[r]]
       /\ claim' = [r \in Recipients |-> IF r \in again THEN Nobody ELSE claim[r]]
       /\ requests' = [r \in Recipients |-> IF r \in again THEN 0 ELSE requests[r]]
       /\ failed' = IF failed > Cardinality(again) THEN failed - Cardinality(again) ELSE 0
    /\ UNCHANGED <<linked, sent, delivered, read, minds>>

Enqueued(g, to) ==
    entry' = [j \in Jobs |-> IF j[2] = g /\ j[1] \in to THEN "new" ELSE entry[j]]

\* The handler returns.
Return(g) ==
    /\ launch' = [launch EXCEPT ![g] = "done"]
    /\ batch' = [batch EXCEPT ![g] = {}]
    /\ prior' = [prior EXCEPT ![g] = NoPrior]

Enqueue(g) ==
    /\ launch[g] \in {"starting", "retrying"}
    /\ Enqueued(g, batch[g])
    /\ Return(g)
    /\ UNCHANGED <<campaign, gen, results, rows, drift, faults>> /\ Aside

\* The pipeline fails, or its answer is lost: some jobs may be on the stream.
EnqueueFails(g) ==
    /\ faults < MaxFaults
    /\ launch[g] \in {"starting", "retrying"}
    /\ \E some \in SUBSET batch[g] : Enqueued(g, some)
    /\ launch' = [launch EXCEPT ![g] = IF @ = "starting" THEN "unstarting" ELSE "unretrying"]
    /\ faults' = faults + 1
    /\ UNCHANGED <<campaign, gen, results, rows, batch, prior, drift>> /\ Aside

\* Mutant of Latest: the handler does not see whether another came after it.
LatestOrLater(g) == TRUE

\* The campaign still runs the generation of this handler.
Latest(g) == campaign = "processing" /\ gen = g

Unstart(g) ==
    /\ CampaignFree
    /\ launch[g] = "unstarting"
    /\ campaign' = IF Latest(g) THEN prior[g][1] ELSE campaign
    /\ Return(g)
    /\ UNCHANGED <<gen, results, rows, entry, drift, faults>> /\ Aside

\* Nothing happened to the recipients since they were reset.
Pristine(g) == \A r \in batch[g] : recipient[r] = "pending" /\ claim[r] = Nobody

Put(g, what) ==
    /\ recipient' = [r \in Recipients |-> IF r \in batch[g] THEN what ELSE recipient[r]]
    /\ message'   = [r \in Recipients |-> IF r \in batch[g] THEN what ELSE message[r]]

\* The counters are still what the retry made of them.
Unmoved(g) ==
    /\ sent = prior[g][2] /\ delivered = prior[g][3] /\ read = prior[g][4]
    /\ failed + Cardinality(batch[g]) = prior[g][5]

\* Everything is put back, the counters as they were before the retry.  (So is
\* message_id, which the next retry clears before anything reads it.)
Unretry(g) ==
    /\ CampaignFree
    /\ launch[g] = "unretrying"
    /\ Return(g)
    /\ \/ /\ Latest(g) /\ Pristine(g)
          /\ campaign' = prior[g][1]
          /\ Put(g, "failed")
          /\ sent' = prior[g][2] /\ delivered' = prior[g][3]
          /\ read' = prior[g][4] /\ failed' = prior[g][5]
          /\ drift' = IF Unmoved(g) THEN drift ELSE drift \cup {"restored"}
       \/ /\ ~(Latest(g) /\ Pristine(g))
          /\ UNCHANGED <<campaign, recipient, results, drift>>
    /\ UNCHANGED <<gen, claim, linked, entry, faults>> /\ Aside

Turn(from, to) ==
    /\ CampaignFree
    /\ campaign \in from
    /\ campaign' = to
    /\ UNCHANGED <<gen, results, rows, handlers, entry, drift, faults>> /\ Aside

\* Mutant of PauseCampaign: it does not wait for the request under way.
PauseAtOnce ==
    /\ campaign = "processing"
    /\ campaign' = "paused"
    /\ UNCHANGED <<gen, results, rows, handlers, entry, drift, faults>> /\ Aside

PauseCampaign == Turn({"processing"}, "paused")

CancelCampaign == Turn({"draft", "processing", "paused"}, "cancelled")

\* statusPriority
Rank == [pending |-> 0, sent |-> 1, delivered |-> 2, read |-> 3, failed |-> 4]

\* campaignStatusCounterMembership: the statuses a counter counts.
Counts == [sent |-> {"sent", "delivered", "read"}, delivered |-> {"delivered", "read"},
           read |-> {"read"}, failed |-> {"failed"}]

\* A counter after a message went from one status to another, not below zero.
Moved(count, status, from, to) ==
    CASE to \in Counts[status] /\ from \notin Counts[status] -> count + 1
      [] to \notin Counts[status] /\ from \in Counts[status] /\ count > 0 -> count - 1
      [] OTHER -> count

\* updateCampaignStatusProjection: the recipient gets the new status, and the
\* counters the difference to the status the message had.
Projected(r, to) ==
    /\ CampaignFree
    /\ recipient' = [recipient EXCEPT ![r] = to]
    /\ sent'      = Moved(sent, "sent", message[r], to)
    /\ delivered' = Moved(delivered, "delivered", message[r], to)
    /\ read'      = Moved(read, "read", message[r], to)
    /\ failed'    = Moved(failed, "failed", message[r], to)
    /\ drift' = IF recipient[r] = message[r] THEN drift ELSE drift \cup {"skipped"}
    /\ UNCHANGED faults

\* The projection is rolled back to its savepoint, and that is all.
Unprojected ==
    /\ faults < MaxFaults
    /\ faults' = faults + 1
    /\ UNCHANGED <<recipient, counters, drift>>

\* A receipt of the provider for a message whose identifier is known: strictly
\* a progression of the message, whatever becomes of the campaign's part.
Receipt(r) ==
    /\ message[r] # "pending"
    /\ \E to \in {"delivered", "read", "failed"} :
         /\ Rank[message[r]] < Rank[to]
         /\ message' = [message EXCEPT ![r] = to]
         /\ Projected(r, to) \/ Unprojected
    /\ UNCHANGED <<campaign, gen, claim, linked, handlers, entry>> /\ Aside

-----------------------------------------------------------------------------
(* The stream                                                              *)

Goto(w, step) == pc' = [pc EXCEPT ![w] = step]

Leave(w) ==
    /\ Goto(w, "idle")
    /\ at' = [at EXCEPT ![w] = Nobody]
    /\ ans' = [ans EXCEPT ![w] = "none"]

Stream == UNCHANGED <<campaign, gen, results, rows, handlers, ans, history>>

Take(w, job) ==
    /\ pc[w] = "idle"
    /\ entry' = [entry EXCEPT ![job] = "taken"]
    /\ at' = [at EXCEPT ![w] = job]
    /\ Goto(w, "admit")
    /\ Stream

\* A consumer reads one new entry at a time.
Read(w) ==
    /\ \E job \in Jobs : entry[job] = "new" /\ Take(w, job)
    /\ recovering' = recovering \ {w}
    /\ UNCHANGED faults

\* Only when it starts does it look for entries that nobody acknowledged in
\* ClaimMinIdleTime; one may still be in the hands of a slow worker.
Reclaim(w) ==
    /\ w \in recovering
    /\ \E job \in Jobs :
         /\ entry[job] = "taken"
         /\ IF \E v \in Workers : at[v] = job
            THEN faults < MaxFaults /\ faults' = faults + 1
            ELSE UNCHANGED faults
         /\ Take(w, job)
    /\ UNCHANGED recovering

Ack(w) ==
    /\ pc[w] = "ack"
    /\ entry' = [entry EXCEPT ![at[w]] = "done"]
    /\ Leave(w)
    /\ UNCHANGED <<campaign, gen, results, rows, handlers, recovering, history, faults>>

Restart(w) ==
    /\ pc[w] = "idle" /\ w \notin recovering
    /\ recovering' = recovering \cup {w}
    /\ UNCHANGED <<pc, at, entry, faults>> /\ Stream

-----------------------------------------------------------------------------
(* A job                                                                   *)

Apart == UNCHANGED <<campaign, gen, handlers, entry, at, recovering, drift, faults>>

Mine(w) == recipient[at[w][1]] = "pending" /\ claim[at[w][1]] = w

AdmitLate(w) ==
    /\ ~Current(at[w])
    /\ Goto(w, "ack")
    /\ UNCHANGED <<rows, results>>

AdmitGo(w) ==
    /\ Current(at[w])
    /\ Goto(w, "prepare")
    /\ UNCHANGED <<rows, results>>

\* The account or the contact is of no use: a recipient without a claim fails.
AdmitRefused(w) ==
    /\ Current(at[w])
    /\ CampaignFree
    /\ Goto(w, "ack")
    /\ IF recipient[at[w][1]] = "pending" /\ claim[at[w][1]] = Nobody
       THEN Settle(at[w][1], "failed") ELSE UNCHANGED <<recipient, results>>
    /\ UNCHANGED <<claim, linked>>

Admit(w) ==
    /\ pc[w] = "admit"
    /\ AdmitLate(w) \/ AdmitGo(w) \/ AdmitRefused(w)
    /\ UNCHANGED <<ans, requests>> /\ Apart

PrepareLate(w) ==
    /\ recipient[at[w][1]] # "pending"
    /\ Goto(w, "check")
    /\ UNCHANGED <<rows, results>>

\* Mutant of PrepareClaimed: an unresolved claim is taken for one's own.
PrepareResend(w) ==
    /\ recipient[at[w][1]] = "pending" /\ claim[at[w][1]] # Nobody
    /\ Goto(w, "mirror")
    /\ claim' = [claim EXCEPT ![at[w][1]] = w]
    /\ UNCHANGED <<recipient, linked, results>>

\* A claim that was left unresolved is never sent again.
PrepareClaimed(w) ==
    /\ recipient[at[w][1]] = "pending" /\ claim[at[w][1]] # Nobody
    /\ CampaignFree
    /\ Goto(w, "check")
    /\ Settle(at[w][1], "failed")
    /\ UNCHANGED <<claim, linked>>

\* The contact takes no marketing.
PrepareRefused(w) ==
    /\ recipient[at[w][1]] = "pending" /\ claim[at[w][1]] = Nobody
    /\ CampaignFree
    /\ Goto(w, "check")
    /\ Settle(at[w][1], "failed")
    /\ UNCHANGED <<claim, linked>>

PrepareClaim(w) ==
    /\ recipient[at[w][1]] = "pending" /\ claim[at[w][1]] = Nobody
    /\ Goto(w, "mirror")
    /\ claim' = [claim EXCEPT ![at[w][1]] = w]
    /\ linked' = [linked EXCEPT ![at[w][1]] = FALSE]
    /\ UNCHANGED <<recipient, results>>

Prepare(w) ==
    /\ pc[w] = "prepare"
    /\ RecipientFree(at[w][1])
    /\ PrepareLate(w) \/ PrepareClaimed(w) \/ PrepareRefused(w) \/ PrepareClaim(w)
    /\ UNCHANGED <<ans, requests>> /\ Apart

\* The message is linked to the inbox before anything is sent.
Mirror(w) ==
    /\ pc[w] = "mirror"
    /\ RecipientFree(at[w][1])
    /\ \/ /\ Mine(w)
          /\ linked' = [linked EXCEPT ![at[w][1]] = TRUE]
          /\ Goto(w, "attempt")
       \/ /\ ~Mine(w)
          /\ Goto(w, "release")
          /\ UNCHANGED linked
    /\ UNCHANGED <<recipient, claim, results, ans, requests>> /\ Apart

\* The mirror failed, or seems to have failed.
MirrorFails(w) ==
    /\ faults < MaxFaults
    /\ pc[w] = "mirror"
    /\ RecipientFree(at[w][1])
    /\ \/ Mine(w) /\ linked' = [linked EXCEPT ![at[w][1]] = TRUE]
       \/ UNCHANGED linked
    /\ Goto(w, "release")
    /\ faults' = faults + 1
    /\ UNCHANGED <<campaign, gen, results, recipient, claim, handlers, entry, at, ans,
                   recovering, history>>

\* A claim that provably was not attempted is given back; the entry stays.
Release(w) ==
    /\ pc[w] = "release"
    /\ RecipientFree(at[w][1])
    /\ claim' = IF Mine(w) /\ ~linked[at[w][1]] THEN [claim EXCEPT ![at[w][1]] = Nobody] ELSE claim
    /\ Leave(w)
    /\ UNCHANGED <<campaign, gen, results, recipient, linked, handlers, entry, recovering,
                   history, faults>>

\* The claim changed, or the campaign, the account or the contact.
AttemptRefused(w) ==
    /\ Goto(w, "check")
    /\ IF Mine(w) THEN Settle(at[w][1], "failed") ELSE UNCHANGED <<recipient, results>>
    /\ UNCHANGED requests

AttemptSend(w) ==
    /\ Mine(w) /\ Current(at[w])
    /\ Goto(w, "sending")
    /\ requests' = [requests EXCEPT ![at[w][1]] = @ + 1]
    /\ UNCHANGED <<recipient, results>>

\* Under the rows of the campaign and of the recipient.
Attempt(w) ==
    /\ pc[w] = "attempt"
    /\ CampaignFree
    /\ AttemptRefused(w) \/ AttemptSend(w)
    /\ UNCHANGED <<claim, linked, ans>> /\ Apart

\* The provider answers and the outcome is committed with the locks held, or
\* the transaction fails, or seems to have failed, and is made up for.  An
\* answer without an identifier is a failure.
Answer(w) ==
    /\ pc[w] = "sending"
    /\ \E what \in {"sent", "failed"} :
         \/ /\ Settle(at[w][1], what)
            /\ Goto(w, "check")
            /\ UNCHANGED <<ans, faults>>
         \/ /\ faults < MaxFaults
            /\ Settle(at[w][1], what) \/ UNCHANGED <<recipient, results>>
            /\ Goto(w, "recover")
            /\ ans' = [ans EXCEPT ![w] = what]
            /\ faults' = faults + 1
    /\ UNCHANGED <<campaign, gen, claim, linked, handlers, entry, at, recovering, history>>

RecoverLate(w) ==
    /\ recipient[at[w][1]] # "pending"
    /\ Goto(w, "check")
    /\ UNCHANGED <<recipient, results, at, ans>>

\* The claim is another's: an error, and the entry stays.
RecoverLost(w) ==
    /\ recipient[at[w][1]] = "pending" /\ ~Mine(w)
    /\ Leave(w)
    /\ UNCHANGED <<recipient, results>>

\* Mutant of Recovered: whoever has the recipient by now, it is settled.
RecoveredAnyway(w) ==
    /\ CampaignFree
    /\ Settle(at[w][1], ans[w])
    /\ Goto(w, "check")
    /\ UNCHANGED <<at, ans>>

Recovered(w) ==
    /\ Mine(w)
    /\ CampaignFree
    /\ Settle(at[w][1], ans[w])
    /\ Goto(w, "check")
    /\ UNCHANGED <<at, ans>>

Recover(w) ==
    /\ pc[w] = "recover"
    /\ RecipientFree(at[w][1])
    /\ RecoverLate(w) \/ RecoverLost(w) \/ Recovered(w)
    /\ UNCHANGED <<campaign, gen, claim, linked, handlers, entry, recovering, history, faults>>

\* checkCampaignCompletion counts, and then reads and updates the campaign.
Count(w) ==
    /\ pc[w] = "check"
    /\ Goto(w, IF With({"pending"}) = {} THEN "complete" ELSE "ack")
    /\ UNCHANGED <<rows, results, ans, requests>> /\ Apart

Complete(w) ==
    /\ pc[w] = "complete"
    /\ CampaignFree
    /\ campaign' = IF campaign = "processing" THEN "completed" ELSE campaign
    /\ Goto(w, "ack")
    /\ UNCHANGED <<gen, results, rows, handlers, entry, at, ans, recovering, history, faults>>

\* A database or stream call fails, and the entry is left to a later consumer.
GiveUp(w) ==
    /\ faults < MaxFaults
    /\ pc[w] \in {"admit", "prepare", "attempt", "recover", "check", "complete", "ack"}
    /\ Leave(w)
    /\ faults' = faults + 1
    /\ UNCHANGED <<campaign, gen, results, rows, handlers, entry, recovering, history>>

Crash(w) ==
    /\ faults < MaxFaults
    /\ pc[w] # "idle"
    /\ Leave(w)
    /\ recovering' = recovering \cup {w}
    /\ faults' = faults + 1
    /\ UNCHANGED <<campaign, gen, results, rows, handlers, entry, history>>

-----------------------------------------------------------------------------
Handle(w) ==
    \/ Admit(w) \/ Prepare(w) \/ Mirror(w) \/ Release(w) \/ Attempt(w)
    \/ Answer(w) \/ Recover(w) \/ Count(w) \/ Complete(w) \/ Ack(w)

Next ==
    \/ StartCampaign \/ RetryFailed \/ PauseCampaign \/ CancelCampaign
    \/ \E g \in Gens : Enqueue(g) \/ EnqueueFails(g) \/ Unstart(g) \/ Unretry(g)
    \/ \E r \in Recipients : Receipt(r)
    \/ \E w \in Workers :
         \/ Read(w) \/ Reclaim(w) \/ Restart(w) \/ Handle(w)
         \/ MirrorFails(w) \/ GiveUp(w) \/ Crash(w)

Spec == Init /\ [][Next]_vars

-----------------------------------------------------------------------------
(* Properties                                                              *)

Statuses == {"pending", "sent", "delivered", "read", "failed"}

\* The variables have their types: the rows of the campaign and of its
\* recipients, the stream's pending list and the workers' local state.
TypeOK ==
    /\ campaign \in {"draft", "processing", "paused", "completed", "cancelled"}
    /\ gen \in 0..MaxGen
    /\ sent \in Nat /\ delivered \in Nat /\ read \in Nat /\ failed \in Nat
    /\ recipient \in [Recipients -> Statuses]
    /\ message \in [Recipients -> Statuses]
    /\ claim \in [Recipients -> Workers \cup {Nobody}]
    /\ linked \in [Recipients -> BOOLEAN]
    /\ launch \in [Gens -> {"none", "starting", "retrying", "unstarting", "unretrying", "done"}]
    /\ batch \in [Gens -> SUBSET Recipients]
    /\ prior \in [Gens -> {"none", "draft", "paused", "completed"} \X Nat \X Nat \X Nat \X Nat]
    /\ entry \in [Jobs -> {"none", "new", "taken", "done"}]
    /\ pc \in [Workers -> {"idle", "admit", "prepare", "mirror", "release", "attempt",
                           "sending", "recover", "check", "complete", "ack"}]
    /\ at \in [Workers -> Jobs \cup {Nobody}]
    /\ \A w \in Workers : at[w] = Nobody <=> pc[w] = "idle"
    /\ ans \in [Workers -> {"none", "sent", "failed"}]
    /\ recovering \subseteq Workers
    /\ requests \in [Recipients -> Nat]
    /\ drift \subseteq {"restored", "skipped"}
    /\ faults \in 0..MaxFaults

\* A recipient is written to once, unless a person retries it after it failed,
\* whoever crashed, was slow, or reclaimed its entry; and what is recorded as
\* sent was sent since then (deliverCampaignRecipient).
SentOnce ==
    \A r \in Recipients :
        /\ requests[r] <= 1
        /\ recipient[r] \in Counts["sent"] => requests[r] = 1

\* Nothing is sent for a campaign that is paused or cancelled, nor for an
\* older generation: both wait for, or are seen by, the request's transaction
\* (attemptPreparedCampaignDelivery).
SentWhileRunning ==
    \A w \in Workers : pc[w] = "sending" =>
        /\ campaign = "processing" /\ at[w][2] = gen
        /\ Mine(w) /\ linked[at[w][1]]

Counted(status) == Cardinality(With(Counts[status]))

\* The counters are those of the recipients, whatever is handled twice, as long
\* as no failed retry put back counters that had moved meanwhile: sent and
\* failed always; delivered and read unless a receipt's part of the campaign
\* was rolled back and a later receipt of the same message counted on from it,
\* and then they are too low, never too high (updateResolvedMessageStatus,
\* updateCampaignStatusProjection).
CountersAgree ==
    "restored" \in drift
    \/ /\ sent = Counted("sent")
       /\ failed = Counted("failed")
       /\ delivered <= Counted("delivered")
       /\ read <= Counted("read")
       /\ drift = {} => delivered = Counted("delivered") /\ read = Counted("read")

KeepsCancelled == campaign = "cancelled" => campaign' = "cancelled"

\* A cancelled campaign stays cancelled: no handler that could not enqueue,
\* and no worker that finds nothing pending, revives or completes it
\* (StartCampaign, RetryFailed, checkCampaignCompletion).
CancelFinal == [][KeepsCancelled]_vars

\* What the campaign is to the person who sends it.
State == CASE campaign = "processing" -> "running"
           [] campaign = "cancelled"  -> "cancelled"
           [] OTHER                   -> "idle"

Reached == {r \in Recipients : requests[r] > 0}

Trying == {at[w][1] : w \in {v \in Workers : pc[v] = "sending"}}

Round == INSTANCE Mailing WITH
    state <- State, outcome <- recipient, reached <- Reached, trying <- Trying

\* The control plane, the stream and the workers together implement a
\* mailing: a recipient is written to once in a round and its outcome decided
\* once, whoever retries, crashes or is slow, and a retry that could not be
\* enqueued is taken back only from a campaign that nobody cancelled and for
\* recipients that nobody wrote to (RetryFailed, attemptPreparedCampaignDelivery).
ImplementsMailing == Round!Spec

\* "completed: All messages have been processed" (campaigns.mdx:271).
CompletedIsProcessed == campaign = "completed" => With({"pending"}) = {}
=============================================================================
