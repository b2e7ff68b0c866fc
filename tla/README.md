# A verification project for Whatomate / ReReply

Whatomate (product name ReReply) is a multi-tenant messaging platform: an HTTP
API and background workers in Go over PostgreSQL (row-level security per
tenant) and Redis, two edge services (`cmd/meta-relay`, `cmd/gmail-relay`), a
Vue front end and release tooling. An agent or an AI answers customers over
WhatsApp, Instagram, Messenger, Threads and e-mail; campaigns send to many.

What makes the system hard is delivery. Several workers, two services and the
administrators' control plane act on the same rows and keys; a process may die
between a provider call and the write that records it; a provider call cannot
be rolled back. The project models the parts where that matters:

- `ChannelOutbox`: the outbox that every reply leaves the platform by;
- `RelayOutbound`: the idempotency key under which a relay hands it to Meta or
  Gmail;
- `RelayInbound`: the queue by which a customer's message enters;
- `AIReply`: the job that has a model answer it;
- `Booking` and `AIBooking`: places and package credits, and the customer who
  books them in a conversation;
- `CampaignStream`: bulk campaigns and their Redis stream;
- `AgentTransfer`: handovers to human agents and the SLA processor.

Contents: [inventory](#inventory), [modules](#modules), the parts in turn
([outbox](#channeloutbox), [outbound](#relayoutbound-and-oncedelivery),
[inbound](#relayinbound), [AI replies](#aireply),
[booking](#booking-and-aibooking), [campaigns](#campaignstream),
[handovers](#agenttransfer)), [promises](#promises), [runs](#runs), [proofs](#proofs),
[findings](#findings), [observations](#observations),
[what is not modelled](#what-is-not-modelled), [plan](#plan).

## Inventory

State, operations and correctness of each component. `PROJECT.json` lists the
same components with their files, and the hazards at their lines.

**Channel outbox worker** (`internal/worker/channel_outbox.go`). State: the
rows of `outbox_jobs` (status, locked_by, locked_at, available_at,
attempt_count, provider_state), the status of each message, and the copy of
job, account and credential a worker carries from its load transaction to its
settlement. Operations: claim, recover an abandoned dispatch, load, prepare
(Threads), cross the dispatch fence, call the provider, settle, cancel. Hard:
leases overrun by a live worker, crashes past the fence, lost responses, every
transaction of the control plane in between. Correct when: where the outcome
is ambiguous there is no second provider attempt; one of cancellation and
dispatch wins for good; a settled row stays settled; whatever is queued
settles; the inbox agrees with the outbox.

**Channel control plane** (`internal/handlers/channel_accounts.go`,
`channel_ai_control.go`, `meta_*`, `threads_oauth.go`, ...). State:
`channel_accounts` (status, configuration), versions of
`channel_credentials`, AI state of `inbox_conversations`. Operations: enqueue,
enable, disable, close, rotate, reconnect, activate, pause, resume. Correct
when work queued under old authority is not delivered with new, and no AI
reply follows a handover to an agent.

**Meta and Gmail relays, outbound** (`internal/metarelay/server.go`,
`store.go`; `internal/gmailrelay/server.go`, `outbound.go`). State: one Redis
record per idempotency key. Operations: claim, send, complete, release, mark
ambiguous, reconcile, resolve. Hard: a store reply or a provider answer is
lost, a claim goes stale, a script runs late or twice. Correct when a key
yields at most one message and every caller is told the truth about it.

**Meta relay, inbound** (`internal/metarelay/worker.go`, `store.go`,
`registry_client.go`). State: acceptance, completion and dead-letter markers,
payloads with a retention, the due and processing sets, the attempts hash, a
replica's batch. Operations: accept, claim, load, resolve, forward, complete,
retry, park, dead-letter, requeue. Hard: leases without a token, the same job
in two deliveries, crashes with a batch in hand. Correct when nothing that was
acknowledged disappears, nothing stored is stranded, everything is settled.

**AI reply worker** (`internal/worker/channel_ai_reply.go`). State: the rows of
`scheduled_jobs` (status, lease, durable record of the question and its answer,
managed generation), the conversation's pause, the contact's transfer and
cutoff. Operations: schedule, claim, load, authorize, ask, record, finalise
(which inserts the outbox row), settle, fail. Hard: a question that is paid for
and lost, an overrun lease, a handover or a rotation while the text is with the
model, a handover that is resumed before the answer comes. Correct when a text
goes to the model once, nobody is answered after a person took over, and every
job settles.

**Booking** (`internal/booking`, `product_booking_commerce.go`,
`internal/worker/channel_ai_booking.go`). State: events with a capacity and a
version, bookings with a quantity, the credit ledger and the balances of a
package, the offer in a conversation's metadata. Operations: book, confirm,
check in, complete, cancel, promote, change or close an event, pay; offer,
confirm by code, expire, announce. Hard: two reservations of the last place,
credits moved by repeated transitions, codes of old offers, staff who change
the event while its offer is on its way. Correct when no event is oversold,
credits balance, and what a customer is told is true.

**Campaigns** (`internal/queue/redis.go`, `internal/worker/worker.go`,
`internal/handlers/campaigns.go`). State: a Redis stream with a consumer group,
`bulk_message_recipients` with the claiming message, the campaign's status,
generation and counters. Operations: start, retry, enqueue, undo a failed
enqueue, pause, cancel, read, reclaim, claim, mirror, send, recover, count,
complete, acknowledge. Hard: an entry that failed is left unacknowledged and
reclaimed only when a consumer starts, also from a worker that is only slow;
the control plane moves on while entries of older generations are on the
stream. Correct when each recipient is written to once, under the running
generation, and the counters add up.

**Agent transfers, assignment, SLA** (`internal/handlers/agent_transfers.go`,
`sla_processor.go`, `internal/contacthandoff`, `internal/assignment`). State:
`agent_transfers` (status, agent, deadlines, escalation level), agents'
availability and load. Operations: transfer, pick, assign, return, resume;
extend, close, escalate, tell the customer. Hard: every instance runs the
processor, and requests act on the rows it selected. Correct when a contact
has at most one active transfer, nothing done to one is undone, the customer is
told once, and a transfer whose time is up is acted on.

**Inbound webhooks, continuation, chatbot** (`internal/handlers/webhook.go`,
`channel_webhook.go`, `inbound_continuation*.go`, `chatbot_*.go`). State:
contacts, sessions, message rows with unique provider identifiers, a bounded
set of continuations. Correct when a repeated event is absorbed, and
continuations stay within capacity and are drained at shutdown.

**Automation** (`automation_processor.go`), **outgoing webhooks**
(`webhook_dispatch.go`): leased rows and bounded retries as in the outbox,
without a fence.

**Gmail relay, inbound** (`internal/gmailrelay/sync.go`, `sync_store.go`,
`forward_worker.go`, `oauth.go`). State: a history cursor under a lease, a
forward queue, OAuth tokens. Correct when no message between two cursors is
skipped and a refreshed token never overwrites a newer one.

**Meta registry lifecycle** (`internal/metaregistry`, `meta_registry_*.go`):
leases of credentials with version fences; what it does to queued work is part
of `ChannelOutbox` and `RelayInbound`.

**Websocket hub**, **calling** (`internal/calling`): in-memory maps under
mutexes, WebRTC callbacks. **Legacy WhatsApp sending**:
a synchronous call in a request.

**Identity review, media retirement, storage probe**: operator tools run once
under a plan. **Consent, contact policy, handoff, entitlements**: predicates
that other transactions evaluate; `ChannelOutbox` uses their lock order.
**Database, catalogue, migrations; HTTP shell, authentication, configuration;
CRM, analytics, templates, widgets, resellers; helpers; front end; release
tooling**: no concurrent state of their own.

The parts interact through rows and keys, hardly through calls. An inbound
message travels from Meta to the relay's queue (`RelayInbound`), to a signed
webhook of the API, to a conversation, to an AI reply job (`AIReply`, with
`AIBooking` for its booking turns) or an agent (`AgentTransfer`), whose answer
is a row of the outbox (`ChannelOutbox`); the worker posts it, for a
relay account, to a relay with the job's identifier as idempotency key
(`RelayOutbound`), which calls the provider.

## Modules

| module | about |
|---|---|
| `ChannelOutbox` | the outbox of one tenant, its workers, its control plane, crashes and time |
| `MCChannelOutbox` | instances: kinds of account, symmetry of workers, the constraints of two runs |
| `ChannelOutboxProofs` | theorems about `ChannelOutbox` |
| `OnceDelivery` | abstract: what a relay promises about one idempotency key |
| `RelayOutbound` | one key of the Meta or the Gmail relay, and the refinement of `OnceDelivery` |
| `MCRelayOutbound` | symmetry of requests |
| `RelayOutboundProofs` | theorems about `RelayOutbound`, the refinement among them |
| `RelayInbound` | the inbound queue of the Meta relay and the replicas that drain it, and the refinement of `DurableInbox` |
| `MCRelayInbound` | two deliveries that share a job |
| `RelayInboundProofs` | theorems about `RelayInbound` |
| `AIReply`, `MCAIReply` | the AI reply jobs of one conversation, its workers and its policy |
| `AIReplyProofs` | theorems about `AIReply` |
| `Booking` | bookings, events and package credits, as staff move them |
| `AIBooking`, `MCAIBooking` | `Booking` composed with the offers and codes of a conversation |
| `AIBookingProofs` | theorems about `Booking` and `AIBooking` |
| `CampaignStream`, `MCCampaignStream` | one campaign, its stream, its workers and its control plane |
| `CampaignStreamProofs` | theorems about `CampaignStream` |
| `AgentTransfer`, `MCAgentTransfer` | the handovers of one contact and the SLA processors |
| `AgentTransferProofs` | theorems about `AgentTransfer` |
| `OutboxPromise`, `DurableInbox`, `StandIn`, `BoxOffice`, `Mailing`, `Handover` | abstract: what the outbox, the inbound queue, the AI replies, the offers of a conversation, a campaign and a contact's handovers promise ([promises](#promises)) |

An operator whose comment begins "Mutant of X" is a plausible wrong version of
`X`. No specification uses it; replacing `X` by it must violate the property
that `PROJECT.json` pairs with it.

## ChannelOutbox

**State.** `status`, `lockedBy`, `lease`, `due`, `attempts`, `prepared` are the
columns of an `outbox_jobs` row (`lease` is the age of `locked_at` against the
two-minute lease, `due` is `available_at`, `prepared` the durable Threads
container); `message` is the inbox's status of the message. `mode`, `gen`,
`paused` are the account (closed, open, open for AI), the generation of its
credential and the conversation's handover to an agent. `pc`, `cur`, `fenced`,
`mem`, `guard` are a worker's memory: where it is in `deliverChannelOutboxJob`,
its job, whether it crossed the fence, what it loaded and decided, and whether
the transaction of an AI attempt still holds the organization row. `born`,
`calls`, `used` are history.

**Atomicity.** One action is one database transaction or one provider call.
Transactions are serialised by row locks or by the compare-and-swap on
`(status, locked_by)`, which is `Holds`; a policy change takes the organization
row `FOR UPDATE` and so waits for an AI attempt that holds it `FOR KEY SHARE`,
which is `OrgFree`. Two code paths do not take that lock (`rotateMetaMessengerBinding`
and the activation of a Messenger account), nor do the actions for them.

| action | code |
|---|---|
| `Claim`, `RecoverAbandoned` | the two statements of `claimChannelOutboxJobs` |
| `Load` | the load transaction; a licence, consent, binding or window refusal is a nondeterministic verdict |
| `Prepare`, `FenceThreads` | `PrepareSend`, the durable state, the fence that reloads the credential |
| `FenceManaged` | the fence of a managed Meta account, with the generation check |
| `BeginAttempt`, `RecheckAI` | the physical attempt of an AI reply and its second look at every policy |
| `Send`, `Settle`, `CancelAI` | the provider call; success, failure, cancellation |
| `Crash`, `SettleFails`, `GuardLost`, `LeaseExpires`, `BecomesDue` | faults and time |
| `EnqueueHuman`, `EnqueueAI` | an agent's message, the AI finaliser's |
| `PauseAI` ... `DisableAI` | the control plane's transactions |

A claim takes any eligible row: the order by `available_at` and
`FOR UPDATE SKIP LOCKED` only choose among them. A profile rename also cancels
work, through the same statement as `CloseAccount`, and has no action of its
own. A Threads account is never disabled by `UpdateChannelAccount`, which
refuses it; `CloseAccount` is its disconnection.

**Properties.** `SingleAttempt`, `CancelledUnsent`, `InstagramGeneration`,
`OneDispatcher`, `FencedBudget`, and as action properties `SettledForGood` and
`NoReplyAfterHandover`; `ImplementsOutbox`; `EventuallySettled` for liveness.
`MessageAgrees`, that inbox and outbox say the same, is part of `ImplementsOutbox`.
`NoReplyAfterHandover` is about the conversation and the account: at the provider call
of an AI reply neither is the conversation paused nor the account closed or its AI
disabled, unless the guard was lost or a Messenger account was reconnected, which does
not wait for the attempt.
Each takes two actors, or an actor and a fault, to break.

**Fairness.** `RunChannelOutbox` polls until the process is stopped and a
worker finishes what it claimed, so each worker's claim and delivery are
weakly fair; leases and backoffs are times that pass. The control plane and
faults are not fair.

## RelayOutbound and OnceDelivery

**State.** `record` is the Redis value under one idempotency key: state, digest
of the body, cached outcome, and whether a claim is older than its two-minute
deadline. `request` holds the handlers: step, body, outcome in memory, answer.
`call` is the provider's side of each request: it may take a message long after
the handler stopped waiting. `stray` holds store calls whose reply was lost;
they run later or never (`RunStray`). Keys do not interact, so one suffices.

**Actions.** `Claim`, `Expire`, `Complete`, `Mark`, `Release`, `Resolve` run
the scripts of `store.go` (`Ran` is what a script makes of the record); each
has a `Lose...` twin for a call without a reply. `Send`, `NotSent`,
`LookupFails`, `FindSent`, `HearSuccess`, `HearNothing`, `HearRateLimit`,
`HearRefusal` are the branches around the provider call, `Accept` the provider.
`Reconciles` selects the Gmail relay, which searches the sent folder before a
send and when it meets an ambiguous key. `Age` makes a claim stale, also while
its handler lives: clocks differ and `GMAIL_RELAY_HTTP_TIMEOUT` is configured
independently. `Crash` kills a handler; one is not cancelled when its caller
hangs up. `TurnAway` is every refusal before the key is looked at. A refusal of
the Gmail relay's own authorization is treated like a rate limit, as in the
code; "broken" is the Meta relay's own 500 for a request it could not build.

`Resends` is the Redis client's default of repeating a command whose reply was lost.
All three runs have it: a script may then run twice. The scripts compare body and state
of a record and cannot tell one claim of a body from the next, so a release that runs
twice may delete the claim of another request. `forgotten` is history: it becomes true
when a release deletes the record while another request of the same body is at work
(`AtWork`: about to call, calling, or with an outcome to record), which is `Forgets`.

**Properties.** `AtMostOnce`, `RejectedUndelivered` and `KeepsPromise` hold for as long
as nothing was forgotten; `OnlyOnce`, without that exception, is violated
([findings](#findings)). `SettledForGood` holds without exception. So does
`RepliesAgree`, that a success names a message the provider took with the caller's
body, but for the Gmail relay, whose search by message identifier compares no bodies:
after a claim was deleted it may find another's. `NothingForgotten`, which is proved,
says that the exception does not arise without repeated calls.

**OnceDelivery** is the promise: requests ask for bodies, the provider holds at
most one message (`held`), callers are told of it or told that it was rejected,
and what they were told stays true. It may become `void`, and what is given up then is
that one message is held, that a rejection is final and that the body is the caller's
own; a success still names a message that is held. `KeepsPromise` is the refinement:
`asked` is the body of each request, `held` the requests whose calls were accepted,
`told` the answers, with "retry", "ambiguous" and the rest as `Unknown`, `void` is
`forgotten`.

**Deadlock.** A run has finitely many requests, each of which ends; the system
then stops, so deadlock is not checked.

## RelayInbound

**State.** `accepted`, `payload`, `due`, `processing`, `attempts`, `completed`,
`dead` are the Redis keys of `store.go`. A payload is told apart only by its
credential fence: in force ("current") or not ("stale"), so that `Rebind`, a
rotation, needs no counter. `hand` is what a replica's batch is at for each
job, `copy` the fence it read with a job and has not resolved yet. `took` and
`lapsed` are history: what ReReply accepted, what outlived its retention.

**Time.** The scores of the sorted sets are not modelled: a due job's turn may
have come, a lease may have run out, whenever a replica looks. A lease that
runs out under a live replica is a fault, because `NewWorker` refuses a lease
that does not cover a forward and its settlement. `Lapse` is the payload's
`EX`, which no retry or park renews.

| action | code |
|---|---|
| `Accept` | `handleMetaWebhook` and `acceptInboundScript`; the jobs of a delivery are a constant, `JobsOf` |
| `Requeue`, `Claim` | the scripts at the head of `ProcessOnce`; a replica starts a cycle when its last batch is done |
| `Load`, `LoadFails` | the reads after the claim; a failed one abandons the batch |
| `Resolve`, `Forward` | the registry's answer and ReReply's |
| `Complete`, `Dead`, `Retry`, `Park`, `SettleFails` | the settlement scripts, and one that did not arrive |
| `Crash`, `Lapse`, `Rebind` | a dead replica, an expired payload, rotated credentials |

A script whose reply was lost but which ran leaves the same state as one whose
reply arrived. A script that arrives late is one run by a replica that stalled
past its lease. A job that cannot be decoded is not modelled: the relay wrote
it. A job of a later schema is parked, as the code does, through `Resolve`.

**Properties.** `QueuedWhileStored`: no payload outside both sets, no settled
job in one. `AcknowledgedKept`: a job of an acknowledged delivery is stored,
taken, dead-lettered or lapsed. `ImplementsInbox`: the queue is a `DurableInbox`;
`CompletedRightly` is its part about completion records, and what such a record does
not imply is as telling as what it does: a claim whose payload is gone is recorded as
completed even when another replica dead-lettered it or it lapsed.
`FreshBudget`: a job accepted anew has its whole retry budget.
`EventuallySettled`: under fairness everything stored leaves the store.

**Fairness.** `Run` polls until it is stopped, so a replica's cycle is weakly
fair; backoffs and leases elapse. A quarantined binding parks a job without
consuming its budget, for ever if it lasts for ever, so it is assumed that jobs
are not always answered by a park (strong fairness of `Answered`). The lapse of
a payload is not relied on.

**Deadlock** is not checked: with its deliveries settled the queue is empty.

## AIReply

**State.** `status`, `holder`, `record`, `marker` are what `scheduled_jobs` keeps
of a message's job: its status and lease, the durable record of the question
("started", "resolved" with the answer, "uncertain") and the managed generation it
was authorized under; `reply` is the outbox row. `enabled`, `paused`, `transfer`,
`cut`, `lapsed`, `gen` are the policy: account and settings, the conversation's
pause, the contact's handover, the messages at or before the durable cutoff, the
messages whose window or consent has ended, the credential generation. `pc`, `cur`,
`mem`, `got` are a worker's memory, `asked` is history.

**Atomicity.** Every transaction of the control plane, and a worker's first and
last, takes the organization row `FOR UPDATE`; from the authorization of a question
to the record of its answer a worker holds it `FOR KEY SHARE`. That is `Fenced`,
a guard of each of those actions. `Lapse` and `Dispatch` (the outbox) wait for
nobody.

| action | code |
|---|---|
| `Arrive` | the webhook's transaction that persists a message and schedules its job |
| `Pause` ... `Rebind` | pause, resume, disable, enable, handoff, the lifecycle of a managed account, each with the cancellations it makes |
| `Claim` | the branches of `claimChannelAIReplyJob`: pending, stale, stale with an answer, stale without one |
| `Load`, `Authorize` | the load transaction and the eligibility check, under the fence |
| `Ask`, `Answer`, `Record`, `RecordFails`, `Fail` | the question, its answer or error, the durable record of it |
| `SettleRefused`, `Finalize` | the settlement: refusal, reply, or a handoff the answer calls for |
| `Crash` | a worker dies, or gives up because a call failed |

A lease has no clock: it has run out when its worker is gone, and when it runs out
under a live worker (which waits for the organization row) that is a fault.

**Properties.** `AskedOnce`, `FenceHolds` (nothing that forbids a reply happens
while the text is with the model), `RepliedRightly` (no straggler leaves a reply
beside a job that did not complete with its one answer), `LostUnanswered`;
`SettledStays`, `CutoffFinal` as action properties; `ImplementsStandIn`, of which
`SameGeneration` is the part about rotated credentials;
`EventuallySettled` under the fairness of polling workers, whose questions end by a
timeout.

## Booking and AIBooking

**State.** `Booking` keeps of each event whether it is scheduled, its capacity,
service and whether its version moved since the last offer; of each booking its
status, event, quantity and whether a package pays; the keys of the credit ledger,
the open amount of the invoice and the three balances of the package. `AIBooking`
EXTENDS it with the session in a conversation's metadata (the offer, its places, the
epoch it is bound to, the receipt), the epoch itself and what became of the message
of each offer and of each confirmation. `origin` is history.

**Atomicity.** Each operation locks the event, or the booking and then its event, or
the invoice, before it reads what it decides on, and is one step. A turn of the
customer is the transaction that settles its AI reply: it holds the organization row,
as does a dispatch until the provider answered (`Sending`). Staff wait for neither.

| action | code |
|---|---|
| `CreateBooking`, `TransitionBooking` | `ReserveTx` and the transitions, with promotion from the waiting list and the credit movement of each |
| `UpdateBookingEvent`, `Closes` | a change of an event; it is cancelled, ends or begins |
| `RecordManualInvoicePayment` | the payment that activates the package |
| `Ask`, `Expire`, `Confirm`, `ConfirmLate` | an offer, its expiry, the code of a place, a code that came too late and gets a new offer |
| `Pause`, `Handoff`, `Resume` | staff take the conversation over: the epoch moves |
| `DispatchOffer`, `DispatchConfirmation`, `...Answered` | the check when the outbox begins to send, and the provider's answer |

**Properties.** `NoOversell`, `CreditsAccounted` (ledger, balances and bookings tell
one story), `BookingsTold` (an offer leads to one booking, announced),
`SentTruthfully` (when a confirmation begins to be sent its booking is reserved; when an
offer does, it can be taken up: it is the last one and the session's, unexpired and in
force, nobody took the conversation over, and no booking was made on it), and
`ImplementsBoxOffice` (with `BookedAsOffered`, that a booking is
made on the offer that was sent last, of an event as it was offered).

## CampaignStream

**State.** `campaign`, `gen` (of `started_at`), the counters (`sent`, `delivered`,
`read`, `failed`); of each recipient its status and that of its message (`message`), who
claims it and whether the claim is mirrored in the inbox; of each generation
how far its handler got and what it would put back; `entry`, the stream with its
pending list; each worker's step, job and answer, and which consumers are looking for
abandoned entries. `requests` and `drift` are history: `drift` is how counters and
recipients came apart, "restored" by the compensation of a retry that put back counters
which had moved, "skipped" by a receipt that counted on from one whose projection was
rolled back.

**Atomicity.** A transaction is one step, except the one around the provider call,
which holds campaign and recipient (`CampaignFree`, `RecipientFree`) from `Attempt`
to `Answer`. The check for completion is two statements of read-committed data and
two steps, `Count` and `Complete`.

| action | code |
|---|---|
| `StartCampaign`, `RetryFailed`, `PauseCampaign`, `CancelCampaign` | the control plane's transactions |
| `Enqueue`, `EnqueueFails`, `Unstart`, `Unretry` | the pipeline after the commit, some or all of it lost, and the compensations |
| `Read`, `Reclaim`, `Ack`, `Restart` | the consumer group; entries are reclaimed when a consumer starts |
| `Admit`, `Prepare`, `Mirror`, `Release`, `Attempt`, `Answer`, `Recover` | `HandleRecipientJob`: the claim, the inbox copy, the one request, the recovery of a lost commit |
| `Count`, `Complete` | `checkCampaignCompletion` |
| `Receipt` | `updateResolvedMessageStatus`: the message advances; then its projection moves recipient and counters by the difference from the message's former status (`Projected`), or is rolled back to its savepoint and only marked on the message (`Unprojected`) |
| `GiveUp`, `Crash`, `MirrorFails` | failed calls and dead workers |

**Properties.** `SentOnce`, `SentWhileRunning`, `ImplementsMailing` (with `CancelFinal`,
that a cancelled campaign stays cancelled), and `CountersAgree`: unless counters were
restored, "sent" and "failed" count the recipients exactly; "delivered" and "read" do
unless a projection was skipped, and then they are too low.
**Deadlock** is not checked: a campaign ends. No liveness is claimed: what is left
unacknowledged waits for a consumer to start, and [observations](#observations) lists
ways a campaign remains "processing".

## AgentTransfer

**State.** `status`, `agent`, `level` are columns of `agent_transfers`; `past` the
deadlines (escalation, expiry) that have passed; `deleted` the contact's deletion;
`returning` what an agent's return has loaded. Of each processor: the step of its
pass, the candidate it selected with the level it had, what its transaction has
written, whether it holds the organization's and the contact's rows, and the notice
for after the commit. `told` is history.

**Atomicity.** A request is one transaction and one step, except the return of an
agent's transfers, which loads and then writes. A processor's pass over an
organization runs in one transaction (row-level security is on) of several
statements: each reads committed rows and its own writes, and keeps the row locks
(`Locked`) and the policy fence (`FenceFree`) of what it wrote until `Commit`. The
notice is two further steps: a second look, in a transaction of its own that ends before
anything is sent, and a send that may take until its timeout. Requests and other
processors may come between.

| action | code |
|---|---|
| `Create`, `Resume`, `AssignAgentTransfer`, `PickNextTransfer` | the requests of the same names |
| `LoadReturn`, `Return` | `ReturnAgentTransfersToQueue` |
| `DeleteContact` | which leaves an active transfer as it is |
| `CloseOrphans`, `JudgeExpired`, `CloseExpired` | `autoCloseExpiredTransfers`: transfers of deleted contacts, extension or expiry of the others |
| `JudgeWaiting`, `Escalate` | `escalateTransfers` |
| `Commit` | the end of the pass |
| `Look`, `Tell` | `sendSLAText`: whether the notice is still current, and the send |
| `RowFails` | `withSLARowSavepoint`: one row fails and is rolled back, the pass goes on |
| `Fails` | the pass fails and is rolled back, a notice is not delivered, the instance dies |
| `Passes` | a deadline passes |

Whether the agent has replied is read from messages that are not modelled: the
verdict is either. An expiry is judged on the row as selected and written if it is
still active; the model keeps that an extension by another processor in between
does not stop it.

**Properties.** `ToldOnce`, `ImplementsHandover` (with `OnlyAdvances`, that no request
and no processor undoes what another did; of a notice it says that it was true at the
second look, not that it is when it arrives), `ExpiryActedOn` under fair processors:
a transfer whose time is up is closed or extended, also one whose contact was deleted.

## Promises

What each component promises those who rely on it is a small specification without
workers, leases, locks, retries or faults; the detailed module INSTANCEs it under a
mapping, a run checks `Implements...`, and TLAPS proves it. `OnceDelivery` is described
with [RelayOutbound](#relayoutbound-and-oncedelivery); the others are:

| promise | of | mapping |
|---|---|---|
| `DurableInbox` | `RelayInbound` | `acknowledged` the accepted deliveries, `owed` the stored jobs, `taken`, `buried`, `closed` what ReReply took, the dead letters and the completion records |
| `OutboxPromise` | `ChannelOutbox` | `outcome` the status of a row, all that is queued or dispatching being "pending"; `shown` the inbox's status of the message; `tried` the provider calls |
| `StandIn` | `AIReply` | `stage` open or closed as the job is; `reply` the outbox row; `read` the messages that were sent to the model, `reading` those that are with it now; `under` and `terms` the generation of the authorization and the account's; `mode` active when account, pause and transfer allow replies; `taken` the durable cutoff |
| `BoxOffice` | `AIBooking` | `stands` "open" while the session's offer binds, has not expired and led to nothing, "taken" once it has a receipt, else "no"; `choice` its places whose version has not moved; `made` the bookings of each offer with their events, from `origin`; `standing` the bookings that are reserved; `letter` and `notice` the outbox rows |
| `Mailing` | `CampaignStream` | `state` running while the campaign is "processing"; `outcome` the recipients' statuses; `reached` those with a request in this round, `trying` the one whose request is under way |
| `Handover` | `AgentTransfer` | the columns themselves, and `told`; `telling` the notices that processors have looked up and are sending (`Telling`); `MaxLevel` is the second escalation |

What they say that the other properties do not:

- `DurableInbox`: from the acknowledgement on a job is owed, and it leaves that state
  for a reason that is on record. A repeated delivery may make it owed again, and the
  receiver may get a job twice; neither loses one.
- `OutboxPromise`: a message is "sent" only after a provider call and has one outcome,
  which the inbox shows in the same step. A call may come late, from a worker whose row
  was settled by another, but never for a cancelled message, nor a second time behind a
  fence. The late cancellation of an AI reply ([observations](#observations)) is the
  constant `Revocable`.
- `StandIn`: staff may take over, change its terms or close what is open, but not while
  a text is with the model; a text is read once, under the terms of its authorization;
  the one reply to it is queued when nobody is reading, from a text that was read, under
  the same terms, not after a takeover and not after the window ended.
- `BoxOffice`: an offer is taken up once, for a place that was not touched since, on the
  last offer and after its message is known to have been sent; an offer that was
  withdrawn does not stand again; its message leaves only while it stands, the
  confirmation only while the booking made on it is reserved. The counter may do
  anything beside it but give a place back its old version or change what was booked.
- `Mailing`: the state moves and outcomes are recorded only while nobody else is written
  to; a new round reopens recipients that failed; and a compensation takes a round back
  only while the campaign still runs it, from recipients that nobody wrote to.
- `Handover`: one is open at a time; agent and level change only while it is open; each
  thing is told once, a closing only if no handover was open when somebody looked, a
  warning only if it was open itself then. What is told may be late: a handover may be
  closed or opened between the look and the letter.

None of them has fairness: that something happens in the end is a property of the
detailed modules.

## Runs

| run | what it shows |
|---|---|
| `outbox_fenced` | an AI reply of a managed Instagram account and an agent's reply of a Threads account, two workers, the whole control plane, one fault: one dispatcher and one provider attempt each, with the credential they were queued under, no reply after a handover, no cancelled message sent, nothing settled comes back, and the refinement of `OutboxPromise` |
| `outbox_live` | a managed Messenger account or a static one, each with an AI reply and an agent's message that is retried: with a fair worker and time everything queued is settled, after a fault at any point, and a fenced job calls the provider at most `MaxAttempts` times |
| `outbox_messenger_generation` | violation: a Messenger message outlives a reconnection |
| `relay_meta` | three concurrent requests with one key and two bodies at the Meta relay, store calls executed twice: one message at most and final rejections unless a repeated release deleted a claim, a success that names its message in any case, and the refinement of `OnceDelivery` |
| `relay_gmail_resend` | the same at the Gmail relay, which searches the sent folder: a success names a message that the provider took, with the caller's body unless a claim was deleted |
| `relay_double_release` | violation: a repeated release forgets the next request's claim, and two messages are sent |
| `relay_inbound` | two replicas, two deliveries that share a job: nothing lost, nothing stranded, everything settled, and the refinement of `DurableInbox` |
| `ai_reply` | two workers, two messages, every policy change, a fault: a text goes to the model once, nobody is answered after a person took over, every job settles, and the refinement of `StandIn` |
| `ai_booking` | a customer who books in a conversation beside staff: no oversale, credits balance, what is told is true, and the refinement of `BoxOffice` |
| `campaign` | two workers, two recipients, start, pause, cancel, retry, a fault: each is written to once, under the running generation, the counters agree but for what two named failures do to them, and the refinement of `Mailing` |
| `campaign_completed` | violation: a campaign is "completed" with recipients still pending |
| `agent_transfer` | a handover and a second one after it, two agents, two SLA processors, one failed row or pass: told once, nothing undone, acted on in time, and the refinement of `Handover` |

**Bounds.** Every bound is a constant or a named constraint of a configuration.

- *Outbox*: two workers on two jobs of two accounts, or one worker on two jobs of
  one. A hazard of the outbox is a race between two workers on one row, or between a
  worker and the control plane; jobs of different accounts share nothing but workers
  and the organization lock. `MaxAttempts` = 2 lets a retry happen and run out.
  `MaxGen` = 1 lets one reconnection overtake a queued job; the constraint
  `OneReconnected` of `outbox_fenced` has one account of the two reconnected, since a
  generation concerns its own account only. `MaxFaults` = 1 is enough for a second
  owner of a row. `outbox_live` has one worker: liveness is about what nobody else
  does, and safety with two is the other run's. It holds two instances in one state
  space, one for each kind of account, by the constraint `OneAccountUsed`; no step of
  a worker, a lease or a backoff leaves it, so no fair step is hidden.
- *Relay outbound*: three requests and two bodies, with repeated store calls: one that
  acts, one that takes over, and one that meets the outcome or has the wrong body; a
  claim that is deleted takes a third to be noticed. The constraint `FewStrays` has at
  most three store calls without a reply outstanding at once; a forgotten claim needs
  one. The violation needs one body and no constraint. Requests end, and each is one
  handler.
- *Relay inbound*: two replicas, two jobs, two retries, one fault, one call of
  ReReply at a time per replica, so that a batch has one job (`Concurrency` = 1): two
  jobs of one batch are not exercised. They interact only at the two barriers of a
  cycle; the theorems hold for any concurrency.
- *AI reply*: two workers and two messages: one that is answered and one that comes
  after a cutoff. `MaxGen` = 1 has a managed account that loses its management and,
  as an initial state, an ordinary one; `MaxFaults` = 1 is a crash, a lost record or
  an overrun lease.
- *Booking*: two bookings of up to two places of one event with one or two, two
  services, two offers, one takeover. A second event would only double what one
  shows: bookings of different events meet in the package, as those of different
  services do. The constraint `OneOfferWithPackage` makes the second offer only while
  the package is not paid: the bookings made on offers are paid otherwise.
- *Campaign*: two generations are a start or retry that overtakes the one before.
- *Handover*: `MaxTransfers` = 2. A unique index allows one active transfer of a
  contact, and a later one shares nothing with a closed one but the look `StillCurrent`
  takes at it before a notice. The constraint `SecondIsQuiet` keeps the second in the
  queue with its deadlines ahead and its contact undeleted; it may be opened and resumed whenever the code
  allows, also between a look and a send. It cuts steps of users and of time but none
  of a processor, so no fair step is hidden. `MaxFaults` = 1 is a failed row, a failed
  pass, a lost notice or a dead instance.

Workers, replicas, requests, bookings and recipients are symmetric where the
properties are safety properties. The refinements are: no promise has fairness. `outbox_live`,
`relay_inbound`, `ai_reply` and `agent_transfer` check liveness and use no symmetry.

**Fairness** is stated with each module: pollers and tickers run until their process
is stopped, a lock that stays free is granted, leases and backoffs are times that
pass. Users, the control plane, providers that may refuse and faults are never fair.
Deadlock is checked in the outbox, AI reply, booking and handover runs.

## Proofs

TLAPS checks the following for every value of the constants: any number of
workers, jobs, accounts, requests, bodies, replicas and deliveries, and no bound
on faults or attempts other than the constant itself.

**`ChannelOutboxProofs`**, from `OutboxAssumption` (the constants' types).
`TypeCorrect` is inductive with nothing added. `SingleAttempt`, `OneDispatcher`
and `CancelledUnsent` are not: a worker past the fence acts on a row it read
earlier, so the invariant must say that the row has not moved. `DispatchInv` does:

- `FencedStage`: past the fence a worker only sends, settles or cancels, and its
  row has left the queue for good; `AIStage`: the stages of an AI attempt, and the
  guard, belong to AI jobs;
- `OneDispatcher`: two workers are never past the fence of one job;
- `UnsentBefore`, `UnsentAtSend`: a job that is sent only once was never sent
  while it is queued, nor when a worker is about to send it;
- `ThreadsFinal`: behind the fence a Threads outcome is accepted or refused;
  then `SingleAttempt` and `CancelledUnsent` themselves.

`InstagramGenerationHolds` adds `GenerationInv`: a queued Instagram job was born
under the credential in force, because every change of it cancels what is queued,
and the copy of a fenced worker names the job's generation. `SettledForGoodHolds`
is proved per action from the types and the compare-and-swap alone, and
`MessageAgreesHolds` by showing that each step that moves a job moves its message.
`NoReplyAfterHandoverHolds` needs `HandoverInv`: a worker that holds the
organization row is between its recheck and its settlement; a Threads account is never
open to AI; and what was rechecked is still so at the send (`StillAllowed`), because
whoever pauses a conversation, closes an account or disables its AI waits for the row,
and whoever does not wait, a reconnection of a Messenger account, moves its generation.
`FencedBudgetHolds` needs
`BudgetInv` on top of `DispatchInv`:

- `Recalled`: a worker that still holds its row remembers the row's attempts;
- `Unspent`: each call of a job that may still be sent is one of its attempts, and
  one more is left;
- `Spending`: a worker that sends has an attempt left, and settles the call as one.

`ImplementsOutboxHolds`, the refinement of `OutboxPromise`, needs `SendInv` beside
`DispatchInv`, because a promise without workers has to hold at their last step:

- `HandlingInv`: a worker that sends is past the fence or needs none, its row is not
  cancelled, and one that settles an acceptance has called the provider;
- `OutcomeInv`: a sent message was handed over, and what is cancelled had a fence.

`ChangesAre` brings all transactions of the control plane to one form,
`CancelAndInsert(S, New)`, which is one `Change` of the promise. A settlement moves job
and message together if its worker still owns the row and is a stutter if not.

**`RelayOutboundProofs`**, from `RelayAssumption`, with or without repeated store calls.
`RelayTypeCorrect` and `SettledForGoodHolds` need the scripts only. The rest follow from
`Inv`, which has two layers. `Base` holds whatever was deleted:

- `StageOK`, `TakenOK`: at each step of a handler, what its call may have done, and that
  whatever a request names as delivered was accepted;
- `RecordNamed`: so was whatever the record names.

`AnswersRecorded`, that a definite answer is one the record gives for good, holds beside
it. `Keyed` holds unless something was forgotten:

- `OneHolder`, `HolderRecorded`: a request that may still act on the key or cause
  an effect holds it, at most one does, and the record has its body;
- `RejectedOver`: what the record calls rejected is not on its way.

The argument: whoever made the record holds the key until it can no longer act,
and every script either leaves a holder's record or takes it knowing the outcome; the
one script that may take another's is a release run twice, which is `Forgets`.
The proof goes through one relation, that a step moves one request from stage to
stage and the record with it, so that each action is compared with the relation
once and the invariant is proved of the relation. `RepliesAgreeHolds` rests on `Base`,
the body for the Meta relay included. `KeepsPromiseHolds` is the
refinement: each such move is a step of `OnceDelivery` or a stutter.
`NothingForgotten` is the conjunct `forgotten => Resends`: it bounds the exception that
the others make.

**`RelayInboundProofs`**, from `InboundAssumption`. The four safety properties
are conjuncts of one invariant with two more: `Known`, a job in a set or in a
replica's batch came with an acknowledged delivery, and `Rightful`, a replica that is
about to record a completion has ReReply's acceptance, or found the job settled
or lapsed. One lemma per
action. `ImplementsInboxHolds` needs nothing more: an acceptance acknowledges, whatever
was stored before; of the settlements `Complete` closes what `Rightful` says was
discharged, and a retry whose budget is spent buries; and what a replica knows or
holds is nobody's business.

**`AIReplyProofs`**, from `AIReplyAssumption`. Every property but liveness, one
`KeptBy` lemma per action. `Inv` is `TypeOK` and

- `Unsent`: a job before its authorization was not asked about, has no record and no
  reply;
- `Crossing`: a worker between authorization and record is the only one there for its
  job, whose record says "started" and whose generation is the worker's;
- `Answered`: an outcome is on record only after the question;
- `Recovering`, `Finalizing`: a generating job is claimed only with an answer on
  record, and a reply is queued only from one;
- `Undisturbed`: from the authorization to the answer the policy is the one checked;
- then `AskedOnce`, `RepliedRightly` and `LostUnanswered` themselves.

`AskedOnce` needs the first three, since a second worker decides by the record whether
to ask; `FenceHolds` is `Undisturbed`, which holds because whatever would change the
policy waits.

`ImplementsStandInHolds` rests on the same `Inv`. A text is being read exactly by the
workers that are asking (`ReadingBegins`, `ReadingEnds`: `Crossing` says that no two ask
for one job), so nobody reads when the fence is free (`UnfencedReadsNothing`), and then
staff may step in: `QueueCancelled` shows that their cancellations close what waits and
withdraw what is queued. `AskSimulates` takes the policy from `Undisturbed`;
`FinalizationOwns`, the heart of it, shows of a worker whose settlement goes through that
its job is open, unanswered and read, and that the generation it was read under is the
account's, also when the worker recovered another's answer.

**`CampaignStreamProofs`**, from `CampaignAssumption`. `Inv` is the types, in the parts
`RowsOK`, `HandlersOK`, `StepsOK`, `OthersOK`, and

- `Begun`: jobs and handlers are of generations that have begun;
- `Unclaimed`: nothing went to a pending recipient that nobody has claimed;
- `Approaching`: a worker on its way to the request that still has the claim made it
  itself and has sent nothing since; it attempts only what is mirrored to the inbox;
- `Sending`: a worker that makes its request, or makes up for a lost commit with its
  claim intact, is the one that sent;
- `Behind`: a recipient whose status is not its message's lags behind it, and is not
  pending;
- then `SentOnce` and `SentWhileRunning`.

A claim is a message identifier nobody else has, so a second worker with a copy of the
job is either before the claim, where the row refuses it, or is the one that holds it.
`CountersAgree` is proved on top of it: a counter is the number of recipients whose
status it counts, the lemmas `CountIsNat`, `CountsMove` and `CountedMoves` say what one
move does to those numbers, and one lemma each treats the actions that move them
(`Settle`, `Receipt`, `RetryFailed`, `Unretry`). A receipt moves the counters by the
difference from the message's status, and the recipient from its own: by `Behind` the
first is the smaller move, so a skipped projection leaves "delivered" and "read" low
and cannot touch "sent" and "failed". `CancelFinal` is proved per action.
`ImplementsMailingHolds` adds `OneSends`: one worker at a time holds the campaign for its
request, so `trying` has one recipient at most and the state does not move meanwhile.
`Approaching` then gives a request its pending, unreached recipient, `Sending` a recorded
success its request, and `Unclaimed` the compensation of a retry its unreached ones.

**`AgentTransferProofs`**, from `TransferAssumption`, for any number of transfers,
agents and processors. `Inv` is `TypeOK` and

- `Written`: what a pass has written and not committed concerns active transfers;
- `Raising`: a level it has raised is the one it selected, and below the last;
- `Apart`: no two passes have written the same row;
- `Selected`: a pass about to write has selected what, and one that has committed and is
  not done (`Committed`) has a notice;
- `Noticed`: a notice is held by one processor, its customer was not told of it yet, and
  its level or closing is in the row or in the same commit;
- `Untold`: nobody is told of what has not happened;
- then `ToldOnce`.

Two processors may select the same candidate, so `ToldOnce` rests on `Apart`: the
second waits for the row and then finds its condition false. `OnlyAdvances` follows from
`Written`: a row that a pass has changed is locked until it commits.
`ImplementsHandoverHolds` adds `OneOpen`, that one transfer is active and that they are
opened in order, and `Exclusive`, that a pass does not escalate what it closes: so a
commit, which may write several rows, is one step of `Handover`, on the one row that is
open, and a stutter if it wrote none. A look that finds the notice current adds it to
`Telling` (`LookSimulates`), a send or a fault takes it out (`TellSimulates`,
`FailsSimulates`): by `Noticed` it is nobody else's, so the set is rid of it
(`TellingEnds`).

**`AIBookingProofs`**, from `BookingAssumption` and `AIBookingAssumption`. `Inv` is
the types and

- `Balanced`, `Unbooked`, `LedgerOf`: the two parts of `CreditsAccounted`, and that the
  ledger of a booking that is absent, or paid otherwise, is empty;
- `Unmade`, `LastOffer`: the session's offer is the last one, without a confirmation
  until it has a receipt, whose booking was made on it;
- `OneEach`: a booking made on an offer is the only one, and has its confirmation.

`NoOversell` is inductive beside the types. What it needs is counting: `PlacesAdded`
and `PlacesChange` bound, with the library's theorems about cardinalities, what one
booking adds to the places of its event. `BookedAsOffered` and `SentTruthfully` are
proved per action from `LastOffer` and `OneEach`.

`ImplementsBoxOfficeHolds` rests on the same `Inv`. By `LastOffer` what stands is the
last offer, so a confirmation books on it; by `OneEach` it has no booking before, and
its booking is not absent, so that no later insertion of the staff changes the event of
a booking in `made`. A pause and a handoff move the epoch beyond every `bound`
(`ConversationOK`), which is why an offer once withdrawn is never open again. What staff
do is one step, `Counter`: versions only move on, so `choice` only shrinks.

**Only model-checked.** Liveness (`EventuallySettled` of `ChannelOutbox`,
`RelayInbound` and `AIReply`, `ExpiryActedOn`), which rests on fairness. Every
safety property that a passing run checks, refinements included, is also proved. Six
properties that go with the refinements are proved as well and have no run of their own:
`MessageAgrees`, `CompletedRightly`, `SameGeneration`, `BookedAsOffered`, `CancelFinal`,
`OnlyAdvances`.
`NothingForgotten` is proved only, since every relay run repeats calls.

## Findings

1. *A Messenger reconnection leaves queued work in place.* `docs/meta-relay.md`
   says every generation change of a managed credential cancels all outbox work.
   The Instagram path does (`meta_instagram_operations.go:342`); neither
   `rotateMetaMessengerBinding` nor the activation of a Messenger account does. A
   message queued before is sent with the new credential
   (`outbox_messenger_generation`, `ManagedGeneration`).
2. *A repeated release forgets the next claim.* `releaseOutboundScript` compares
   the body and the state of a record, not whose claim it is. The Redis client
   repeats a command whose reply was lost; the repetition may delete the claim of
   the next request, and a third sends again, against "the same key is never
   blindly sent again" (`relay_double_release`, `OnlyOnce`). What still holds is
   in `AtMostOnce` and `RepliesAgree`.
3. *A campaign is completed with recipients pending.* The documentation of campaigns
   says of the status "completed" that all messages have been processed
   (`campaigns.mdx:271`). `checkCampaignCompletion` counts the pending recipients and
   then, in later statements without a lock, completes a campaign that is "processing"
   (`worker.go:1191`); nothing compares the generation. A worker that counted none
   before a retry of the failed recipients began completes the retry
   (`campaign_completed`, `CompletedIsProcessed`).

## Observations

What the models show beside the properties, without a document to contradict.

*Outbox*

- If the transaction that guards an AI attempt is lost after the call, the job is
  cancelled by a compare-and-swap that accepts a dispatching row
  (`channel_outbox.go:586`): the message reads "Automatic AI reply cancelled before
  delivery" where an interrupted dispatch otherwise reads "Provider delivery state is
  unknown". `CancelledUnsent` excepts it.
- A static relay account has no bound on provider calls but its retries; the fenced
  ones have.

*Relay*

- The inbound settlement scripts name a job and not the lease under which it was
  claimed. A replica that stalls with a payload of old credentials may dead-letter a
  job that was meanwhile accepted anew; `AcknowledgedKept` therefore counts "dead" as
  accounted for.
- The theorems of the outbound relay cover both relays, with or without repeated store
  calls; TLC checks the answers of both and the rest of the Meta relay, with them.

*Booking*

- `UpdateBookingEvent` may change an event's service while bookings are paid by a
  package; the later release or redemption is then of another balance.
- A waiting booking may be promoted after its event was closed.
- A booking of an expired package can be neither cancelled nor completed, since both
  move its credit.
- A cancellation by staff does not wait for the organization row, so a confirmation
  that was checked a moment before may be sent after it.
- A new offer after a booking replaces the session, and the confirmation that is
  still queued is refused.

*Campaign*

- A job that fails before its claim is acknowledged without the check for completion; if
  the last recipients fail that way the campaign stays "processing".
- A retry of failed recipients of a paused campaign enqueues those only; the pending
  ones have no job of the new generation.
- The compensation of a retry puts back counters it read before, and loses a receipt
  that came in between ("restored" in `drift`).
- A receipt whose projection fails keeps the message's new status, and a marker on the
  message (`webhook.go:1425`). Nothing repairs the campaign from the marker, and the next
  receipt of the message clears it and counts on from the message's status: "delivered" and "read" stay
  too low ("skipped" in `drift`). A comment calls the two parts atomically consistent
  (`webhook.go:904`), another says that the failure is isolated (`webhook.go:1424`). A
  receipt locks recipient and then campaign, a retry the other way round, so a deadlock
  is one way for a projection to fail.
- If only some of the jobs were enqueued, the compensation leaves the campaign as it
  is where a worker has begun, and the other recipients have no job.
- An unacknowledged entry is reclaimed only when a consumer starts.
- Preparation locks the recipient and then the campaign, the attempt the campaign and
  then the recipient. Postgres aborts one of two that meet, and the job is retried.

*Handover*

- `ReturnAgentTransfersToQueue` and `PickNextTransfer` write the contact's assignee by
  its identifier after reading it earlier, so a relationship manager set in between is
  overwritten; `AssignAgentTransfer` compares.
- Whether an agent is available is checked before the transaction that assigns.
- A pass that has extended a row takes the organization fence while a resume holds the
  fence and waits for the row; Postgres aborts one. So may an assignment (contact,
  row) and a pick (row, contact).
- The second escalation level follows on the next tick, because the deadline of the
  first stays in place.
- A handoff by the AI sets no deadlines, so it neither escalates nor expires.
- The second look before a notice ends its transaction before the send, which may take
  30 seconds (`sla_processor.go:887`, `:925`). A resume or a new handover may come
  between, and the customer then reads a notice that is no longer true.

## What is not modelled

- *Of the outbox*: the texts of errors, media preparation, the ordering of claims,
  licence, consent and the service window except as verdicts of `Load` and
  `RecheckAI`.
  *Of its control plane*: the OAuth graphs before an account is connected, edits
  of profiles, the discovery of assets.
- *Of the outbound relays*: authentication and decoding (one `TurnAway`), and the
  expiry of a record after 168 hours, after which a key is a new key.
- *Of the inbound relay*: signature checks and the normalisation of webhooks (a
  delivery is its set of jobs), the registry client's cache, the reconciliation
  webhook of the registry, the metrics.
- *Of AI replies*: the scan for messages without a job, the retries of one question
  inside the model client, how a text is rendered.
- *Of bookings*: the rendering of offers, reminders, the other resources than events.
- *Of campaigns*: drafting, imports, `DeleteCampaign`, media and templates.
- *Of handovers*: the columns about breaches and pick-up times, the manager pointer, the
  choice of the least loaded agent, the rotation of pages, the chatbot's reminders, and
  the mode without row-level security, in which every statement commits by itself.
- *The other components* of the inventory, for the reason `PROJECT.json` gives
  with each: planned next, or without concurrent state, or pure I/O.

## Plan

In order of what depends on it most:

1. `GmailSync`: the history cursor under its lease, the forward queue, token
   refresh.
2. `RelayedJob`: an outbox job with its adapter's retry, composed with
   `RelayOutbound`; the abstract promise that one job yields at most one message.
3. `AutomationProcessor`: flows that wait, resume and are cancelled.
4. The continuation of inbound webhooks and its capacity.

Theorems: every modelled component now implements a promise that is proved; what is left
is the at most one message of 2.
