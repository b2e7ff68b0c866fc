--------------------------- MODULE RelayOutbound ---------------------------
(***************************************************************************)
(* One idempotency key of an outbound relay: the requests that carry it,   *)
(* the record the relay keeps for it in Redis                              *)
(* (internal/metarelay/store.go) and the provider's side of it.  The       *)
(* handler is the Meta relay's (internal/metarelay/server.go) or, when     *)
(* Reconciles, the Gmail relay's (internal/gmailrelay/server.go), which    *)
(* share the store.                                                        *)
(*                                                                         *)
(* A store script is atomic.  A call of one may fail to answer: the        *)
(* handler then goes on without knowing whether the script ran, and the    *)
(* script may yet run (stray).  A provider call may take effect after the  *)
(* handler stopped waiting for it, or after its process died.              *)
(***************************************************************************)
EXTENDS FiniteSets

CONSTANTS
    Requests,    \* calls of the relay with this key
    Digests,     \* bodies those calls may carry
    Nobody,      \* no request
    Reconciles,  \* the Gmail relay, which looks for the message it sent
    Resends      \* the store client sends a call again when its reply is lost

ASSUME RelayAssumption ==
    /\ Nobody \notin Requests \cup Digests
    /\ Requests \cap {"refused", "broken", "nothing", "rejected", "unknown"} = {}
    /\ Nobody \notin {"refused", "broken", "nothing", "rejected", "unknown"}
    /\ Reconciles \in BOOLEAN
    /\ Resends \in BOOLEAN

VARIABLES
    record,      \* the outbound record of the key
    request,     \* each request: its step, its body, its outcome, its answer
    call,        \* each request's provider call
    stray,       \* store calls each request gave up, which may yet run
    forgotten    \* history: a release deleted the claim of a request at work

vars == <<record, request, call, stray, forgotten>>

States  == {"none", "processing", "completed", "rejected", "ambiguous"}
Steps   == {"idle", "claim", "expire", "send", "wait", "complete", "mark",
            "release", "reconcile", "resolve", "done"}
StoreOps == {"claim", "expire", "complete", "mark", "release", "resolve"}
Answers == {"none", "delivered", "rejected", "retry", "ambiguous", "collision",
            "turned_away"}

\* A settled outcome: the request whose call the provider took, a refusal by
\* the provider, or a request this relay could not build.
Outcomes == Requests \cup {Nobody, "refused", "broken"}

NoRecord == [state |-> "none", digest |-> Nobody, outcome |-> Nobody, stale |-> FALSE]

NewRequest == [at |-> "idle", digest |-> Nobody, outcome |-> Nobody, answer |-> "none"]

Init ==
    /\ record   = NoRecord
    /\ request  = [r \in Requests |-> NewRequest]
    /\ call     = [r \in Requests |-> "none"]
    /\ stray    = [r \in Requests |-> {}]
    /\ forgotten = FALSE

-----------------------------------------------------------------------------
(* The scripts                                                             *)

Made(state, r, outcome) ==
    [state |-> state, digest |-> request[r].digest, outcome |-> outcome, stale |-> FALSE]

\* Mutant of Mine: a settlement does not compare the record's state.
MineByDigest(r) == record.state # "none" /\ record.digest = request[r].digest

\* The record is a claim in progress of this request's body.
Mine(r) == record.state = "processing" /\ record.digest = request[r].digest

Ambiguous(r) == record.state = "ambiguous" /\ record.digest = request[r].digest

\* "broken" is cached like any other rejection, with its 500.
Verdict(outcome) == IF outcome \in Requests THEN "completed" ELSE "rejected"

\* The record after script op has run for r.
Ran(op, r) ==
    CASE op = "claim" /\ record.state = "none"   -> Made("processing", r, Nobody)
      [] op = "complete" /\ Mine(r)              -> Made(Verdict(request[r].outcome), r, request[r].outcome)
      [] op \in {"expire", "mark"} /\ Mine(r)    -> Made("ambiguous", r, Nobody)
      [] op = "release" /\ Mine(r)               -> NoRecord
      [] op = "resolve" /\ Ambiguous(r)          -> Made("completed", r, request[r].outcome)
      [] OTHER                                   -> record

Live(r) == call[r] \in {"pending", "accepted"}

\* What r does under the key may still count: it is about to send, it sent,
\* or it has an outcome to record.
AtWork(r) ==
    \/ request[r].at \in {"send", "wait", "complete", "mark"}
    \/ "complete" \in stray[r] \/ "mark" \in stray[r]
    \/ Live(r)

\* The scripts compare digest and state, and nothing tells one claim of a body
\* from the next: a release that runs twice deletes a claim that is not r's.
Forgets(op, r) == op = "release" /\ Mine(r) /\ \E q \in Requests \ {r} : AtWork(q)

Runs(op, r) ==
    /\ record' = Ran(op, r)
    /\ forgotten' = (forgotten \/ Forgets(op, r))

\* The call of op got no reply: whether it runs, and when, is unknown.
Lost(op, r) ==
    /\ stray' = [stray EXCEPT ![r] = @ \cup {op}]
    /\ UNCHANGED <<record, call, forgotten>>

-----------------------------------------------------------------------------
(* The handler                                                             *)

Goto(r, step)   == request' = [request EXCEPT ![r].at = step]

Settle(r, outcome, step) ==
    request' = [request EXCEPT ![r].at = step, ![r].outcome = outcome]

Answer(r, answer) ==
    request' = [request EXCEPT ![r].at = "done", ![r].answer = answer]

\* What a settled outcome is to the caller: a cached 500 is worth a retry.
AnswerOf(outcome) ==
    CASE outcome \in Requests -> "delivered"
      [] outcome = "refused"  -> "rejected"
      [] OTHER                -> "retry"

AnswerWith(r, outcome) ==
    request' = [request EXCEPT ![r].at = "done", ![r].outcome = outcome,
                               ![r].answer = AnswerOf(outcome)]

\* An outcome nobody knows: 409 from the Meta relay, 503 from the Gmail relay.
Undecided == IF Reconciles THEN "retry" ELSE "ambiguous"

\* What a claim that found an ambiguous record does.
OnAmbiguous(r) ==
    IF Reconciles THEN Goto(r, "reconcile") ELSE Answer(r, "ambiguous")

Arrive(r) ==
    /\ request[r].at = "idle"
    /\ \E d \in Digests :
         request' = [request EXCEPT ![r].at = "claim", ![r].digest = d]
    /\ UNCHANGED <<record, call, stray, forgotten>>

\* The account, its registry fence, the signature or the body is refused, or
\* the registry is unavailable, before the key is looked at.
TurnAway(r) ==
    /\ request[r].at = "idle"
    /\ \E a \in {"turned_away", "retry"} : Answer(r, a)
    /\ UNCHANGED <<record, call, stray, forgotten>>

\* Mutant of Replayed: a stale claim is acquired by the next caller.
ReplayedStale(r) ==
    \/ record.state \in {"completed", "rejected"} /\ AnswerWith(r, record.outcome)
    \/ record.state = "ambiguous" /\ OnAmbiguous(r)
    \/ record.state = "processing" /\ record.stale  /\ Goto(r, "send")
    \/ record.state = "processing" /\ ~record.stale /\ Answer(r, "retry")

\* What a record of the same body makes of the request.
Replayed(r) ==
    \/ record.state \in {"completed", "rejected"} /\ AnswerWith(r, record.outcome)
    \/ record.state = "ambiguous" /\ OnAmbiguous(r)
    \/ record.state = "processing" /\ record.stale  /\ Goto(r, "expire")
    \/ record.state = "processing" /\ ~record.stale /\ Answer(r, "retry")

SameBody(r) == record.digest = request[r].digest

\* Mutant of Claimed: the body is not compared with the recorded one.
ClaimedAnyBody(r) ==
    \/ record.state = "none" /\ Goto(r, "send")
    \/ record.state # "none" /\ Replayed(r)

\* What the claim's reply, the record as it was, makes of the request.
Claimed(r) ==
    \/ record.state = "none" /\ Goto(r, "send")
    \/ record.state # "none" /\ SameBody(r)  /\ Replayed(r)
    \/ record.state # "none" /\ ~SameBody(r) /\ Answer(r, "collision")

Claim(r) ==
    /\ request[r].at = "claim"
    /\ Runs("claim", r)
    /\ Claimed(r)
    /\ UNCHANGED <<call, stray>>

\* A claim older than two minutes is moved to ambiguous, never acquired.
Expire(r) ==
    /\ request[r].at = "expire"
    /\ Runs("expire", r)
    /\ IF Mine(r) THEN OnAmbiguous(r) ELSE Answer(r, "retry")
    /\ UNCHANGED <<call, stray>>

LoseClaim(r) ==
    /\ request[r].at \in {"claim", "expire"}
    /\ Answer(r, "retry")
    /\ Lost(request[r].at, r)

-----------------------------------------------------------------------------
(* The provider call                                                       *)

\* The request leaves the relay; the provider may take it from now on.
Send(r) ==
    /\ request[r].at = "send"
    /\ Goto(r, "wait")
    /\ call' = [call EXCEPT ![r] = "pending"]
    /\ UNCHANGED <<record, stray, forgotten>>

\* No call is made: the Meta relay could not build it, or the Gmail relay
\* found the thread, the recipient or its own authorization unusable.
NotSent(r) ==
    /\ request[r].at = "send"
    /\ Settle(r, IF Reconciles THEN "refused" ELSE "broken", "complete")
    /\ UNCHANGED <<record, call, stray, forgotten>>

\* The Gmail relay's look-ups before the send failed in a way worth retrying.
LookupFails(r) ==
    /\ Reconciles
    /\ request[r].at = "send"
    /\ Goto(r, "release")
    /\ UNCHANGED <<record, call, stray, forgotten>>

\* The Gmail relay found that the message is already in the sent folder.
FindSent(r) ==
    /\ Reconciles
    /\ request[r].at = "send"
    /\ \E q \in Requests : call[q] = "accepted" /\ Settle(r, q, "complete")
    /\ UNCHANGED <<record, call, stray, forgotten>>

\* The provider takes the message, whether or not anyone still waits.
Accept(r) ==
    /\ call[r] = "pending"
    /\ call' = [call EXCEPT ![r] = "accepted"]
    /\ UNCHANGED <<record, request, stray, forgotten>>

HearSuccess(r) ==
    /\ request[r].at = "wait"
    /\ call[r] = "accepted"
    /\ Settle(r, r, "complete")
    /\ UNCHANGED <<record, call, stray, forgotten>>

\* Mutant of HearNothing: a lost answer is taken for a refusal.
HearNothingRefused(r) ==
    /\ request[r].at = "wait"
    /\ Settle(r, "refused", "complete")
    /\ UNCHANGED <<record, call, stray, forgotten>>

\* Mutant of HearNothing: a lost answer is taken for a rate limit.
HearNothingReleased(r) ==
    /\ request[r].at = "wait"
    /\ Goto(r, "release")
    /\ UNCHANGED <<record, call, stray, forgotten>>

\* A transport error, a timeout, a 5xx or an unreadable success.
HearNothing(r) ==
    /\ request[r].at = "wait"
    /\ Goto(r, "mark")
    /\ UNCHANGED <<record, call, stray, forgotten>>

HearRateLimit(r) ==
    /\ request[r].at = "wait"
    /\ call[r] = "pending"
    /\ Goto(r, "release")
    /\ call' = [call EXCEPT ![r] = "refused"]
    /\ UNCHANGED <<record, stray, forgotten>>

HearRefusal(r) ==
    /\ request[r].at = "wait"
    /\ call[r] = "pending"
    /\ Settle(r, "refused", "complete")
    /\ call' = [call EXCEPT ![r] = "refused"]
    /\ UNCHANGED <<record, stray, forgotten>>

-----------------------------------------------------------------------------
(* The settlement                                                          *)

\* The outcome could not be recorded.  The Gmail relay leaves a rejection it
\* could not record as the claim it was.
Unrecorded(r) ==
    IF Reconciles /\ request[r].outcome \notin Requests
    THEN Answer(r, "retry") ELSE Goto(r, "mark")

Complete(r) ==
    /\ request[r].at = "complete"
    /\ Runs("complete", r)
    /\ IF Mine(r) THEN Answer(r, AnswerOf(request[r].outcome)) ELSE Unrecorded(r)
    /\ UNCHANGED <<call, stray>>

LoseComplete(r) ==
    /\ request[r].at = "complete"
    /\ Unrecorded(r)
    /\ Lost("complete", r)

\* The caller hears the same whether or not the ambiguity was recorded.
Mark(r) ==
    /\ request[r].at = "mark"
    /\ Runs("mark", r)
    /\ Answer(r, Undecided)
    /\ UNCHANGED <<call, stray>>

LoseMark(r) ==
    /\ request[r].at = "mark"
    /\ Answer(r, Undecided)
    /\ Lost("mark", r)

Release(r) ==
    /\ request[r].at = "release"
    /\ Runs("release", r)
    /\ Answer(r, "retry")
    /\ UNCHANGED <<call, stray>>

LoseRelease(r) ==
    /\ request[r].at = "release"
    /\ Answer(r, "retry")
    /\ Lost("release", r)

\* Mutant of Reconcile: any attempted message counts as found.
ReconcileAttempted(r) ==
    /\ request[r].at = "reconcile"
    /\ \/ \E q \in Requests : call[q] # "none" /\ Settle(r, q, "resolve")
       \/ Answer(r, "retry")
    /\ UNCHANGED <<record, call, stray, forgotten>>

\* The Gmail relay looks for the message in the sent folder; the search may
\* fail, or not show yet a message that is there.
Reconcile(r) ==
    /\ request[r].at = "reconcile"
    /\ \/ \E q \in Requests : call[q] = "accepted" /\ Settle(r, q, "resolve")
       \/ Answer(r, "retry")
    /\ UNCHANGED <<record, call, stray, forgotten>>

Resolve(r) ==
    /\ request[r].at = "resolve"
    /\ Runs("resolve", r)
    /\ Answer(r, IF Ambiguous(r) THEN "delivered" ELSE "retry")
    /\ UNCHANGED <<call, stray>>

LoseResolve(r) ==
    /\ request[r].at = "resolve"
    /\ Answer(r, "retry")
    /\ Lost("resolve", r)

-----------------------------------------------------------------------------
(* Time and faults                                                         *)

\* Two minutes pass since the claim.  Its handler may still be at work: the
\* clocks of two replicas need not agree, and the Gmail timeout is a setting.
Age ==
    /\ record.state = "processing"
    /\ ~record.stale
    /\ record' = [record EXCEPT !.stale = TRUE]
    /\ UNCHANGED <<request, call, stray, forgotten>>

\* The relay process dies; a store call it had made may still run.
Crash(r) ==
    /\ request[r].at \notin {"idle", "done"}
    /\ Goto(r, "done")
    /\ stray' = IF request[r].at \in StoreOps
                THEN [stray EXCEPT ![r] = @ \cup {request[r].at}] ELSE stray
    /\ UNCHANGED <<record, call, forgotten>>

\* The store client lost the reply of a call and makes the call once more.
Resend(r) ==
    /\ Resends
    /\ request[r].at \in StoreOps
    /\ Lost(request[r].at, r)
    /\ UNCHANGED request

RunStray(r) ==
    \E op \in stray[r] :
        /\ Runs(op, r)
        /\ stray' = [stray EXCEPT ![r] = @ \ {op}]
        /\ UNCHANGED <<request, call>>

-----------------------------------------------------------------------------
Handle(r) ==
    \/ Arrive(r)      \/ TurnAway(r)     \/ Claim(r)        \/ Expire(r)
    \/ LoseClaim(r)   \/ Send(r)         \/ NotSent(r)      \/ LookupFails(r)
    \/ FindSent(r)    \/ HearSuccess(r)  \/ HearNothing(r)  \/ HearRateLimit(r)
    \/ HearRefusal(r) \/ Complete(r)     \/ LoseComplete(r) \/ Mark(r)
    \/ LoseMark(r)    \/ Release(r)      \/ LoseRelease(r)  \/ Reconcile(r)
    \/ Resolve(r)     \/ LoseResolve(r)

Next ==
    \/ \E r \in Requests :
          Handle(r) \/ Accept(r) \/ Crash(r) \/ Resend(r) \/ RunStray(r)
    \/ Age

Spec == Init /\ [][Next]_vars

-----------------------------------------------------------------------------
(* Properties                                                              *)

RecordOK ==
    /\ record.state \in States
    /\ record = [state |-> record.state, digest |-> record.digest,
                 outcome |-> record.outcome, stale |-> record.stale]
    /\ record.digest \in Digests \cup {Nobody}
    /\ record.outcome \in Outcomes
    /\ record.stale \in BOOLEAN

RequestOK ==
    request \in [Requests -> [at: Steps, digest: Digests \cup {Nobody},
                              outcome: Outcomes, answer: Answers]]

\* The types of the state; a request past its arrival has a body.
TypeOK ==
    /\ RecordOK
    /\ RequestOK
    /\ call \in [Requests -> {"none", "pending", "accepted", "refused"}]
    /\ stray \in [Requests -> SUBSET StoreOps]
    /\ forgotten \in BOOLEAN

\* At most one provider call made under a key has, or may yet have, an
\* effect (docs/meta-relay.md: the same key is never blindly sent again).
OnlyOnce == \A q, r \in Requests : Live(q) /\ Live(r) => q = r

\* That holds, whatever crashes, lost replies, repeated store calls and
\* overtaken claims came between, for as long as no release that ran a second
\* time deleted the claim of a request at work (releaseOutboundScript).
AtMostOnce == forgotten \/ OnlyOnce

\* A request answered with success was told of a message that the provider
\* did take and that carried the request's body: a replay and a reconciliation
\* repeat the identifiers of the one delivery.  Only the Gmail relay's search
\* can find another body, and only after a claim was deleted.
RepliesAgree ==
    \A r \in Requests : request[r].answer = "delivered" =>
        \E q \in Requests :
            /\ request[r].outcome = q
            /\ call[q] = "accepted"
            /\ request[r].digest = request[q].digest \/ (Reconciles /\ forgotten)

\* Once any caller was told that the message is rejected, it is neither at
\* the provider nor on its way there: not from an earlier call that timed
\* out, and not from a later one, with the same exception.
RejectedUndelivered ==
    forgotten \/ \A r \in Requests :
        request[r].answer = "rejected" => \A q \in Requests : ~Live(q)

\* A settled record is never settled otherwise, and an ambiguous one can only
\* become the success that a reconciliation found: no late script of another
\* request reopens the key.
SettledForGood ==
    [][/\ record.state \in {"completed", "rejected"} => UNCHANGED record
       /\ record.state = "ambiguous" => record'.state \in {"ambiguous", "completed"}]_vars

Asked == [r \in Requests |-> request[r].digest]

Held == {q \in Requests : call[q] = "accepted"}

Word(answer) ==
    CASE answer = "none"     -> "nothing"
      [] answer = "rejected" -> "rejected"
      [] OTHER               -> "unknown"

Told ==
    [r \in Requests |->
        IF request[r].answer = "delivered"
        THEN request[r].outcome ELSE Word(request[r].answer)]

Promise == INSTANCE OnceDelivery WITH
    asked <- Asked, held <- Held, told <- Told, void <- forgotten

\* The relay keeps the promise of OnceDelivery: every step of it is a step
\* of the promise or none of its business.
KeepsPromise == Promise!Spec
=============================================================================
