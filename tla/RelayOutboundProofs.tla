------------------------ MODULE RelayOutboundProofs ------------------------
(***************************************************************************)
(* Proofs about RelayOutbound, for any requests and any bodies.            *)
(*                                                                         *)
(* The types and the permanence of a settled record need no more than the  *)
(* scripts.  That at most one provider call counts needs an invariant over *)
(* the requests: whoever made the record holds the key until it can no     *)
(* longer act on it, and there is one holder, unless a release that ran    *)
(* twice deleted a claim (forgotten).                                      *)
(***************************************************************************)
EXTENDS RelayOutbound, TLAPS

CallOK  == call \in [Requests -> {"none", "pending", "accepted", "refused"}]
StrayOK == stray \in [Requests -> SUBSET StoreOps]

-----------------------------------------------------------------------------
(* Types                                                                   *)

\* A record a script writes is a record of the store.
LEMMA MadeOK ==
    ASSUME TypeOK, NEW r \in Requests, NEW o \in Outcomes,
           NEW s \in States
    PROVE  LET m == Made(s, r, o) IN
           /\ m.state \in States
           /\ m = [state |-> m.state, digest |-> m.digest, outcome |-> m.outcome, stale |-> m.stale]
           /\ m.digest \in Digests \cup {Nobody}
           /\ m.outcome \in Outcomes
           /\ m.stale \in BOOLEAN
BY DEF TypeOK, RequestOK, Made

\* Each script, spelled out: what it writes when it applies, and that it
\* leaves the record alone when it does not.
LEMMA RanEffect ==
    ASSUME NEW r \in Requests
    PROVE  /\ record.state = "none" => Ran("claim", r) = Made("processing", r, Nobody)
           /\ record.state # "none" => Ran("claim", r) = record
           /\ Mine(r) => 
                Ran("complete", r) = Made(Verdict(request[r].outcome), r, request[r].outcome)
           /\ ~Mine(r) => Ran("complete", r) = record
           /\ Mine(r) => Ran("expire", r) = Made("ambiguous", r, Nobody)
           /\ ~Mine(r) => Ran("expire", r) = record
           /\ Mine(r) => Ran("mark", r) = Made("ambiguous", r, Nobody)
           /\ ~Mine(r) => Ran("mark", r) = record
           /\ Mine(r) => Ran("release", r) = NoRecord
           /\ ~Mine(r) => Ran("release", r) = record
           /\ Ambiguous(r) => Ran("resolve", r) = Made("completed", r, request[r].outcome)
           /\ ~Ambiguous(r) => Ran("resolve", r) = record
BY DEF Ran

\* A script leaves a record of the store.
LEMMA RanOK ==
    ASSUME TypeOK, NEW r \in Requests, NEW op \in StoreOps, Runs(op, r)
    PROVE  RecordOK' /\ forgotten' \in BOOLEAN
<1>0. forgotten' \in BOOLEAN BY Zenon DEF Runs
<1>1. Verdict(request[r].outcome) \in States BY DEF Verdict, States
<1>2. request[r].outcome \in Outcomes BY DEF TypeOK, RequestOK
<1>3. {"processing", "ambiguous", "completed"} \subseteq States BY DEF States
<1>4. Nobody \in Outcomes BY DEF Outcomes
<1>5. /\ NoRecord.state \in States
      /\ NoRecord.digest = Nobody
      /\ NoRecord.outcome = Nobody
      /\ NoRecord.stale = FALSE
      /\ NoRecord =
           [state |-> NoRecord.state, digest |-> NoRecord.digest,
            outcome |-> NoRecord.outcome, stale |-> NoRecord.stale]
  BY DEF NoRecord, States
<1>6. RecordOK BY DEF TypeOK
<1>7. CASE record' = record BY <1>0, <1>6, <1>7 DEF RecordOK
<1>8. CASE record' = NoRecord BY <1>0, <1>5, <1>4, <1>8 DEF RecordOK
<1>9. CASE \E s \in States, o \in Outcomes : record' = Made(s, r, o)
  BY <1>0, <1>9, MadeOK DEF RecordOK
<1>10. record' = Ran(op, r) BY DEF Runs
<1>11. RecordOK'
  BY RanEffect, <1>1, <1>2, <1>3, <1>4, <1>7, <1>8, <1>9, <1>10 DEF StoreOps
<1>. QED BY <1>0, <1>11

\* A step of the handler leaves well-typed requests.
LEMMA RequestStep ==
    ASSUME TypeOK, NEW r \in Requests, NEW s \in Steps, NEW o \in Outcomes, NEW a \in Answers
    PROVE  /\ Goto(r, s) => RequestOK'
           /\ Settle(r, o, s) => RequestOK'
           /\ Answer(r, a) => RequestOK'
           /\ AnswerWith(r, o) => RequestOK'
BY DEF TypeOK, RequestOK, Goto, Settle, Answer, AnswerWith, AnswerOf, Answers, Steps

\* A call whose reply was lost changes the strays alone.
LEMMA LostOK ==
    ASSUME TypeOK, NEW r \in Requests, NEW op \in StoreOps, Lost(op, r)
    PROVE /\ RecordOK'
          /\ CallOK'
          /\ StrayOK'
          /\ forgotten' \in BOOLEAN
BY DEF CallOK, StrayOK, TypeOK, RecordOK, Lost

\* Each step of the handler keeps the types.
LEMMA HandleTypes ==
    ASSUME TypeOK, NEW r \in Requests, Handle(r)
    PROVE  TypeOK'
<1>1. CASE Arrive(r)
  <2>1. PICK d \in Digests :
           request' = [request EXCEPT ![r].at = "claim", ![r].digest = d]
    BY <1>1 DEF Arrive
  <2>2. "claim" \in Steps BY DEF Steps
  <2>3. RequestOK' BY <2>1, <2>2 DEF TypeOK, RequestOK
  <2>. QED BY <2>3, <1>1 DEF Arrive, TypeOK, RecordOK
<1>2. CASE TurnAway(r)
  BY RelayAssumption, RequestStep, RanOK, LostOK, <1>2 DEF TurnAway, CallOK,
     StrayOK, Undecided, OnAmbiguous, Unrecorded, TypeOK, RecordOK, Steps, Answers,
     Outcomes, StoreOps, States
<1>3. CASE Claim(r)
  BY RelayAssumption, RequestStep, RanOK, LostOK, <1>3 DEF Claim, Claimed, Replayed,
     CallOK, StrayOK, Undecided, OnAmbiguous, Unrecorded, TypeOK, RecordOK, Steps,
     Answers, Outcomes, StoreOps, States
<1>4. CASE Expire(r)
  BY RelayAssumption, RequestStep, RanOK, LostOK, <1>4 DEF Expire, CallOK, StrayOK,
     Undecided, OnAmbiguous, Unrecorded, TypeOK, RecordOK, Steps, Answers, Outcomes,
     StoreOps, States
<1>5. CASE LoseClaim(r)
  BY RelayAssumption, RequestStep, RanOK, LostOK, <1>5 DEF LoseClaim, CallOK,
     StrayOK, Undecided, OnAmbiguous, Unrecorded, TypeOK, RecordOK, Steps, Answers,
     Outcomes, StoreOps, States
<1>6. CASE Send(r)
  BY RelayAssumption, RequestStep, RanOK, LostOK, <1>6 DEF Send, CallOK, StrayOK,
     Undecided, OnAmbiguous, Unrecorded, TypeOK, RecordOK, Steps, Answers, Outcomes,
     StoreOps, States
<1>7. CASE NotSent(r)
  BY RelayAssumption, RequestStep, RanOK, LostOK, <1>7 DEF NotSent, CallOK, StrayOK,
     Undecided, OnAmbiguous, Unrecorded, TypeOK, RecordOK, Steps, Answers, Outcomes,
     StoreOps, States
<1>8. CASE LookupFails(r)
  BY RelayAssumption, RequestStep, RanOK, LostOK, <1>8 DEF LookupFails, CallOK,
     StrayOK, Undecided, OnAmbiguous, Unrecorded, TypeOK, RecordOK, Steps, Answers,
     Outcomes, StoreOps, States
<1>9. CASE FindSent(r)
  BY RelayAssumption, RequestStep, RanOK, LostOK, <1>9 DEF FindSent, CallOK,
     StrayOK, Undecided, OnAmbiguous, Unrecorded, TypeOK, RecordOK, Steps, Answers,
     Outcomes, StoreOps, States
<1>10. CASE HearSuccess(r)
  BY RelayAssumption, RequestStep, RanOK, LostOK, <1>10 DEF HearSuccess, CallOK,
     StrayOK, Undecided, OnAmbiguous, Unrecorded, TypeOK, RecordOK, Steps, Answers,
     Outcomes, StoreOps, States
<1>11. CASE HearNothing(r)
  BY RelayAssumption, RequestStep, RanOK, LostOK, <1>11 DEF HearNothing, CallOK,
     StrayOK, Undecided, OnAmbiguous, Unrecorded, TypeOK, RecordOK, Steps, Answers,
     Outcomes, StoreOps, States
<1>12. CASE HearRateLimit(r)
  BY RelayAssumption, RequestStep, RanOK, LostOK, <1>12 DEF HearRateLimit, CallOK,
     StrayOK, Undecided, OnAmbiguous, Unrecorded, TypeOK, RecordOK, Steps, Answers,
     Outcomes, StoreOps, States
<1>13. CASE HearRefusal(r)
  BY RelayAssumption, RequestStep, RanOK, LostOK, <1>13 DEF HearRefusal, CallOK,
     StrayOK, Undecided, OnAmbiguous, Unrecorded, TypeOK, RecordOK, Steps, Answers,
     Outcomes, StoreOps, States
<1>14. CASE Complete(r)
  <2>1. RecordOK' /\ forgotten' \in BOOLEAN BY RanOK, <1>14 DEF Complete, StoreOps
  <2>2. request[r].outcome \in Outcomes BY DEF TypeOK, RequestOK
  <2>3. AnswerOf(request[r].outcome) \in Answers BY DEF AnswerOf, Answers
  <2>4. {"retry"} \subseteq Answers /\ {"mark", "done"} \subseteq Steps
    BY DEF Answers, Steps
  <2>5. RequestOK' BY RequestStep, <2>2, <2>3, <2>4, <1>14 DEF Complete, Unrecorded
  <2>. QED BY <2>1, <2>5, <1>14 DEF Complete, TypeOK
<1>15. CASE LoseComplete(r)
  BY RelayAssumption, RequestStep, RanOK, LostOK, <1>15 DEF LoseComplete, CallOK,
     StrayOK, Undecided, OnAmbiguous, Unrecorded, TypeOK, RecordOK, Steps, Answers,
     Outcomes, StoreOps, States
<1>16. CASE Mark(r)
  BY RelayAssumption, RequestStep, RanOK, LostOK, <1>16 DEF Mark, CallOK, StrayOK,
     Undecided, OnAmbiguous, Unrecorded, TypeOK, RecordOK, Steps, Answers, Outcomes,
     StoreOps, States
<1>17. CASE LoseMark(r)
  BY RelayAssumption, RequestStep, RanOK, LostOK, <1>17 DEF LoseMark, CallOK,
     StrayOK, Undecided, OnAmbiguous, Unrecorded, TypeOK, RecordOK, Steps, Answers,
     Outcomes, StoreOps, States
<1>18. CASE Release(r)
  BY RelayAssumption, RequestStep, RanOK, LostOK, <1>18 DEF Release, CallOK,
     StrayOK, Undecided, OnAmbiguous, Unrecorded, TypeOK, RecordOK, Steps, Answers,
     Outcomes, StoreOps, States
<1>19. CASE LoseRelease(r)
  BY RelayAssumption, RequestStep, RanOK, LostOK, <1>19 DEF LoseRelease, CallOK,
     StrayOK, Undecided, OnAmbiguous, Unrecorded, TypeOK, RecordOK, Steps, Answers,
     Outcomes, StoreOps, States
<1>20. CASE Reconcile(r)
  BY RelayAssumption, RequestStep, RanOK, LostOK, <1>20 DEF Reconcile, CallOK,
     StrayOK, Undecided, OnAmbiguous, Unrecorded, TypeOK, RecordOK, Steps, Answers,
     Outcomes, StoreOps, States
<1>21. CASE Resolve(r)
  BY RelayAssumption, RequestStep, RanOK, LostOK, <1>21 DEF Resolve, CallOK,
     StrayOK, Undecided, OnAmbiguous, Unrecorded, TypeOK, RecordOK, Steps, Answers,
     Outcomes, StoreOps, States
<1>22. CASE LoseResolve(r)
  BY RelayAssumption, RequestStep, RanOK, LostOK, <1>22 DEF LoseResolve, CallOK,
     StrayOK, Undecided, OnAmbiguous, Unrecorded, TypeOK, RecordOK, Steps, Answers,
     Outcomes, StoreOps, States
<1>. QED
  BY <1>1, <1>2, <1>3, <1>4, <1>5, <1>6, <1>7, <1>8, <1>9, <1>10, <1>11, <1>12,
     <1>13, <1>14, <1>15, <1>16, <1>17, <1>18, <1>19, <1>20, <1>21, <1>22 DEF Handle

\* The types are kept by every step.
LEMMA TypesStep ==
    ASSUME TypeOK, [Next]_vars
    PROVE  TypeOK'
<1>1. ASSUME NEW r \in Requests, Handle(r) PROVE TypeOK' BY <1>1, HandleTypes
<1>2. ASSUME NEW r \in Requests, Accept(r) PROVE TypeOK'
  BY <1>2 DEF Accept, TypeOK, RecordOK, RequestOK
<1>3. ASSUME NEW r \in Requests, Crash(r) PROVE TypeOK'
  <2>1. RequestOK'
    BY <1>3, RequestStep DEF Crash, Steps, TypeOK, RequestOK, Outcomes, Answers
  <2>2. StrayOK' BY <1>3 DEF Crash, TypeOK, StrayOK
  <2>. QED BY <2>1, <2>2, <1>3 DEF Crash, TypeOK, RecordOK, StrayOK
<1>4. ASSUME NEW r \in Requests, Resend(r) PROVE TypeOK'
  BY <1>4, LostOK DEF Resend, CallOK, StrayOK, TypeOK, RequestOK
<1>5. ASSUME NEW r \in Requests, RunStray(r) PROVE TypeOK'
  <2>1. PICK op \in stray[r] : Runs(op, r) /\ stray' = [stray EXCEPT ![r] = @ \ {op}]
    BY <1>5 DEF RunStray
  <2>2. op \in StoreOps BY DEF TypeOK
  <2>3. RecordOK' /\ forgotten' \in BOOLEAN BY <2>1, <2>2, RanOK
  <2>4. StrayOK' BY <2>1 DEF TypeOK, StrayOK
  <2>. QED BY <2>3, <2>4, <1>5 DEF RunStray, TypeOK, RequestOK, StrayOK
<1>6. CASE Age
  BY <1>6 DEF Age, TypeOK, RecordOK, RequestOK
<1>7. CASE UNCHANGED vars
  BY <1>7 DEF vars, TypeOK, RecordOK, RequestOK
<1>. QED BY <1>1, <1>2, <1>3, <1>4, <1>5, <1>6, <1>7 DEF Next

\* The types hold at first.
LEMMA TypesInit == Init => TypeOK
<1>1. Init => RecordOK /\ RequestOK
  BY DEF Init, RecordOK, RequestOK, NoRecord, NewRequest, States, Steps, Outcomes, Answers
<1>2. Init => CallOK /\ StrayOK /\ forgotten \in BOOLEAN
  BY DEF Init, CallOK, StrayOK, StoreOps
<1>. QED BY <1>1, <1>2 DEF TypeOK, CallOK, StrayOK

\* The relay's state has its types, whatever fails and whatever is resent.
THEOREM RelayTypeCorrect == Spec => []TypeOK
<1>1. TypeOK /\ [Next]_vars => TypeOK' BY TypesStep
<1>. QED BY <1>1, TypesInit, PTL DEF Spec

-----------------------------------------------------------------------------
(* A settled record                                                        *)

Settles ==
    /\ record.state \in {"completed", "rejected"} => UNCHANGED record
    /\ record.state = "ambiguous" => record'.state \in {"ambiguous", "completed"}

\* No script reopens a settled record, whoever runs it and however late.
LEMMA ScriptSettles ==
    ASSUME NEW r \in Requests, NEW op \in StoreOps, Runs(op, r)
    PROVE  Settles
<1>0. record' = Ran(op, r) BY DEF Runs
<1>1. CASE op = "claim" BY RanEffect, <1>0, <1>1 DEF Settles
<1>2. CASE op = "complete" BY RanEffect, <1>0, <1>2 DEF Settles, Mine
<1>3. CASE op = "expire" BY RanEffect, <1>0, <1>3 DEF Settles, Mine
<1>4. CASE op = "mark" BY RanEffect, <1>0, <1>4 DEF Settles, Mine
<1>5. CASE op = "release" BY RanEffect, <1>0, <1>5 DEF Settles, Mine
<1>6. CASE op = "resolve" BY RanEffect, <1>0, <1>6 DEF Settles, Ambiguous, Made
<1>. QED BY <1>1, <1>2, <1>3, <1>4, <1>5, <1>6 DEF StoreOps

\* A settled outcome is never replaced: no late, lost or repeated script of
\* another request reopens the key (the state guards of store.go's scripts).
THEOREM SettledForGoodHolds == Spec => SettledForGood
<1>1. ASSUME TypeOK, [Next]_vars PROVE Settles
  <2>1. CASE UNCHANGED record BY <2>1 DEF Settles
  <2>2. ASSUME NEW r \in Requests, NEW op \in StoreOps, Runs(op, r) PROVE Settles
    BY <2>2, ScriptSettles
  <2>3. ASSUME NEW r \in Requests, Handle(r) PROVE Settles
    BY <2>1, <2>2, <2>3 DEF Handle, Arrive, TurnAway, Claim, Expire, LoseClaim, Send,
       NotSent, LookupFails, FindSent, HearSuccess, HearNothing, HearRateLimit,
       HearRefusal, Complete, LoseComplete, Mark, LoseMark, Release, LoseRelease,
       Reconcile, Resolve, LoseResolve, Lost, StoreOps
  <2>4. ASSUME NEW r \in Requests, RunStray(r) PROVE Settles
    BY <1>1, <2>2, <2>4 DEF RunStray, TypeOK
  <2>5. CASE Age BY <2>5 DEF Age, Settles
  <2>. QED BY <1>1, <2>1, <2>3, <2>4, <2>5 DEF Next, Accept, Crash, Resend, Lost, vars
<1>2. TypeOK /\ [Next]_vars => [Settles]_vars BY <1>1
<1>. QED BY <1>2, RelayTypeCorrect, PTL DEF Spec, SettledForGood, Settles

-----------------------------------------------------------------------------
(* Who holds the key                                                       *)

Completes(r) == request[r].at = "complete" \/ "complete" \in stray[r]
Marks(r)     == request[r].at = "mark" \/ "mark" \in stray[r]
Releases(r)  == request[r].at = "release" \/ "release" \in stray[r]
Resolves(r)  == request[r].at = "resolve" \/ "resolve" \in stray[r]

\* The request that made the record, while it can still act on the key.  A
\* release holds the key too when it cannot run a second time.
Holder(r) == AtWork(r) \/ (~Resends /\ Releases(r))

\* What a request's step says of its call and of the scripts it gave up.
Stage(r) ==
    /\ request[r].at \in {"idle", "claim", "expire", "send"} => call[r] = "none"
    /\ request[r].at = "wait" => Live(r)
    /\ ~Resends /\ request[r].at \notin {"mark", "done"} => stray[r] = {}
    /\ Completes(r) => request[r].at \in {"complete", "mark", "done"}
    /\ Marks(r) => request[r].at \in {"mark", "done"}
    /\ Releases(r) => /\ request[r].at \in {"release", "done"}
                      /\ ~Live(r) /\ ~Completes(r) /\ ~Marks(r)
    /\ Completes(r) => /\ request[r].outcome # Nobody
                       /\ request[r].outcome \in Requests \/ ~Live(r)
    /\ Resolves(r) => /\ request[r].at \in {"resolve", "done"}
                      /\ request[r].outcome \in Requests
    /\ request[r].at = "reconcile" => Reconciles
    /\ request[r].answer # "none" => request[r].at = "done"
    /\ request[r].at = "idle" => request[r].digest = Nobody /\ request[r].outcome = Nobody
    /\ request[r].at \notin {"idle", "done"} \/ Live(r) => request[r].digest \in Digests

\* A success that a request knows of did happen, with the body given; the
\* Gmail relay's search need not compare bodies.
Happened(q, digest) ==
    call[q] = "accepted" /\ (Reconciles \/ request[q].digest = digest)

Taken(r) ==
    request[r].outcome \in Requests => Happened(request[r].outcome, request[r].digest)

StageOK == \A r \in Requests : Stage(r)
TakenOK == \A r \in Requests : Taken(r)

\* A recorded success was delivered.
RecordNamed ==
    /\ record.state \in {"none", "processing", "ambiguous"} => record.outcome = Nobody
    /\ record.state = "completed" =>
         record.outcome \in Requests /\ Happened(record.outcome, record.digest)
    /\ record.state = "rejected" => record.outcome \in {"refused", "broken"}

Definite == {"delivered", "rejected"}

\* A definite answer is the recorded outcome.
AnswersRecorded ==
    \A r \in Requests : request[r].answer \in Definite =>
        /\ record.state \in {"completed", "rejected"}
        /\ record.outcome = request[r].outcome
        /\ record.digest = request[r].digest
        /\ AnswerOf(record.outcome) = request[r].answer

OneHolder == \A q, r \in Requests : Holder(q) /\ Holder(r) => q = r

\* The holder's body is the recorded one.
HolderRecorded ==
    \A r \in Requests : Holder(r) =>
        record.state # "none" /\ record.digest = request[r].digest

\* A recorded refusal will never be delivered.
RejectedOver ==
    record.state = "rejected" =>
        \A q \in Requests : ~Live(q) /\ request[q].at # "send"

\* What holds whatever was deleted.
Base ==
    /\ TypeOK
    /\ StageOK
    /\ TakenOK
    /\ RecordNamed

Keyed == OneHolder /\ HolderRecorded /\ RejectedOver

Inv ==
    /\ Base
    /\ AnswersRecorded
    /\ forgotten => Resends
    /\ forgotten \/ Keyed

-----------------------------------------------------------------------------
(* What a step of request r may do: the same list for every action.        *)

Becomes(r, step, digest, outcome, answer) ==
    /\ request'[r].at = step
    /\ request'[r].digest = digest
    /\ request'[r].outcome = outcome
    /\ request'[r].answer = answer
    /\ \A q \in Requests : q # r => request'[q] = request[q]

Remembers == forgotten' = forgotten

MakesClaim(r)   ==
    record.state = "none" /\ record' = Made("processing", r, Nobody) /\ Remembers
MakesOutcome(r) ==
    Mine(r) /\ record' = Made(Verdict(request[r].outcome), r, request[r].outcome) /\ Remembers
MakesAmbiguous(r) == Mine(r) /\ record' = Made("ambiguous", r, Nobody) /\ Remembers
MakesFound(r)   ==
    Ambiguous(r) /\ record' = Made("completed", r, request[r].outcome) /\ Remembers
MakesNone(r)    ==
    /\ Mine(r)
    /\ record' = NoRecord
    /\ forgotten' <=> (forgotten \/ \E q \in Requests \ {r} : AtWork(q))
MakesNothing == record' = record /\ Remembers

OthersKept(r) == \A q \in Requests : q # r =>
    request'[q] = request[q] /\ call'[q] = call[q] /\ stray'[q] = stray[q]

RecordMoves(r) ==
    \/ MakesNothing
    \/ MakesClaim(r)
    \/ Completes(r) /\ MakesOutcome(r)
    \/ MakesAmbiguous(r)
    \/ Releases(r) /\ ~Holder(r)' /\ MakesNone(r)
    \/ Resolves(r) /\ MakesFound(r)

HolderMoves(r) ==
    /\ Holder(r)' => Holder(r) \/ MakesClaim(r)
    /\ Live(r)' => Live(r) \/ request[r].at = "send"
    /\ request'[r].at = "send" => request[r].at = "send" \/ MakesClaim(r)
    /\ call[r] = "accepted" => call'[r] = "accepted"
    /\ request[r].at # "idle" => request'[r].digest = request[r].digest
    /\ MakesClaim(r) => request'[r].digest = request[r].digest

AnswerMoves(r) ==
    /\ request[r].answer # "none" =>
         /\ request'[r].answer = request[r].answer
         /\ request'[r].outcome = request[r].outcome
    /\ request'[r].answer \in Definite /\ request[r].answer = "none" =>
         /\ record'.state \in {"completed", "rejected"}
         /\ record'.outcome = request'[r].outcome
         /\ record'.digest = request'[r].digest
         /\ AnswerOf(record'.outcome) = request'[r].answer

\* What the step is to OnceDelivery.
Asks(r) ==
    /\ request[r].digest = Nobody /\ request'[r].digest \in Digests
    /\ request[r].answer = "none" /\ request'[r].answer = "none"
    /\ call'[r] = "accepted" <=> call[r] = "accepted"
    /\ Remembers

Delivers(r) ==
    call[r] = "pending" /\ call'[r] = "accepted" /\ request'[r] = request[r] /\ Remembers

Tells(r) ==
    /\ request[r].answer = "none" /\ request'[r].answer # "none"
    /\ request'[r].digest = request[r].digest
    /\ call'[r] = "accepted" <=> call[r] = "accepted"

Rests(r) ==
    /\ request'[r].answer = request[r].answer
    /\ request[r].answer # "none" => request'[r].outcome = request[r].outcome
    /\ request'[r].digest = request[r].digest
    /\ call'[r] = "accepted" <=> call[r] = "accepted"

PromiseMoves(r) == Asks(r) \/ Delivers(r) \/ Tells(r) \/ Rests(r)

Moves(r) ==
    /\ OthersKept(r)
    /\ Stage(r)'
    /\ Taken(r)'
    /\ RecordMoves(r)
    /\ HolderMoves(r)
    /\ AnswerMoves(r)
    /\ PromiseMoves(r)

\* The words for a refusal are not requests.
LEMMA Distinct ==
    /\ Nobody # "refused" /\ Nobody # "broken" /\ Nobody \notin Requests
    /\ "refused" \notin Requests /\ "broken" \notin Requests
BY RelayAssumption

\* Each script, by what it makes of the record and of what is remembered.
LEMMA RunsEffect ==
    ASSUME TypeOK, NEW r \in Requests
    PROVE  /\ Runs("claim", r) =>
                IF record.state = "none" THEN MakesClaim(r) ELSE MakesNothing
           /\ Runs("complete", r) => IF Mine(r) THEN MakesOutcome(r) ELSE MakesNothing
           /\ Runs("expire", r) => IF Mine(r) THEN MakesAmbiguous(r) ELSE MakesNothing
           /\ Runs("mark", r) => IF Mine(r) THEN MakesAmbiguous(r) ELSE MakesNothing
           /\ Runs("release", r) => IF Mine(r) THEN MakesNone(r) ELSE MakesNothing
           /\ Runs("resolve", r) => IF Ambiguous(r) THEN MakesFound(r) ELSE MakesNothing
<1>1. ASSUME NEW op \in StoreOps, Runs(op, r) PROVE record' = Ran(op, r)
  BY <1>1 DEF Runs
<1>2. ASSUME NEW op, Runs(op, r), op # "release" \/ ~Mine(r) PROVE Remembers
  <2>1. ~Forgets(op, r) BY <1>2 DEF Forgets
  <2>2. forgotten' <=> forgotten BY <1>2, <2>1, Zenon DEF Runs
  <2>3. forgotten \in BOOLEAN BY DEF TypeOK
  <2>4. forgotten' \in BOOLEAN BY <1>2, Zenon DEF Runs
  <2>. QED BY <2>2, <2>3, <2>4 DEF Remembers
<1>3. ASSUME Runs("release", r), Mine(r) PROVE MakesNone(r)
  <2>1. forgotten' <=> (forgotten \/ Forgets("release", r)) BY <1>3, Zenon DEF Runs
  <2>2. Forgets("release", r) <=> \E q \in Requests \ {r} : AtWork(q)
    BY <1>3, Zenon DEF Forgets
  <2>3. record' = NoRecord BY <1>1, <1>3, RanEffect DEF StoreOps
  <2>. QED BY <1>3, <2>1, <2>2, <2>3, Zenon DEF MakesNone
<1>4. {"claim", "complete", "expire", "mark", "release", "resolve"} \subseteq StoreOps
  BY DEF StoreOps
<1>5. Runs("claim", r) => IF record.state = "none" THEN MakesClaim(r) ELSE MakesNothing
  BY <1>1, <1>2, <1>4, RanEffect DEF MakesClaim, MakesNothing
<1>6. Runs("complete", r) => IF Mine(r) THEN MakesOutcome(r) ELSE MakesNothing
  BY <1>1, <1>2, <1>4, RanEffect DEF MakesOutcome, MakesNothing
<1>7. Runs("expire", r) => IF Mine(r) THEN MakesAmbiguous(r) ELSE MakesNothing
  BY <1>1, <1>2, <1>4, RanEffect DEF MakesAmbiguous, MakesNothing
<1>8. Runs("mark", r) => IF Mine(r) THEN MakesAmbiguous(r) ELSE MakesNothing
  BY <1>1, <1>2, <1>4, RanEffect DEF MakesAmbiguous, MakesNothing
<1>9. Runs("release", r) => IF Mine(r) THEN MakesNone(r) ELSE MakesNothing
  BY <1>1, <1>2, <1>3, <1>4, RanEffect DEF MakesNothing
<1>10. Runs("resolve", r) => IF Ambiguous(r) THEN MakesFound(r) ELSE MakesNothing
  BY <1>1, <1>2, <1>4, RanEffect DEF MakesFound, MakesNothing
<1>. QED BY <1>5, <1>6, <1>7, <1>8, <1>9, <1>10

\* The four ways a handler moves on, field by field.
LEMMA RequestEffect ==
    ASSUME TypeOK, NEW r \in Requests, NEW s, NEW o, NEW a
    PROVE  /\ Goto(r, s) => Becomes(r, s, request[r].digest, request[r].outcome, request[r].answer)
           /\ Settle(r, o, s) => Becomes(r, s, request[r].digest, o, request[r].answer)
           /\ Answer(r, a) => Becomes(r, "done", request[r].digest, request[r].outcome, a)
           /\ AnswerWith(r, o) => Becomes(r, "done", request[r].digest, o, AnswerOf(o))
BY DEF TypeOK, RequestOK, Goto, Settle, Answer, AnswerWith, Becomes

\* A success that happened is one after the step too, under the same body.
LEMMA HappenedKept ==
    ASSUME NEW r \in Requests, StageOK, OthersKept(r), HolderMoves(r),
           NEW q \in Requests, NEW d, Happened(q, d)
    PROVE  Happened(q, d)'
<1>1. CASE q # r BY <1>1 DEF OthersKept, Happened
<1>2. CASE q = r
  <2>1. request[r].at # "idle" BY <1>2 DEF Happened, StageOK, Stage
  <2>. QED BY <1>2, <2>1 DEF HolderMoves, Happened
<1>. QED BY <1>1, <1>2

\* A request knows of no success but those it knew of or learned of.
LEMMA TakenKept ==
    ASSUME NEW r \in Requests, Base, OthersKept(r), HolderMoves(r),
           NEW s, NEW o, NEW a, Becomes(r, s, request[r].digest, o, a),
           o \in {request[r].outcome, Nobody, "refused", "broken"}
             \/ (o \in Requests /\ Happened(o, request[r].digest))
    PROVE  Taken(r)'
<1>1. o \in Requests => Happened(o, request[r].digest)
  BY Distinct DEF Base, TakenOK, Taken
<1>2. o \in Requests => Happened(o, request[r].digest)'
  <2>1. SUFFICES ASSUME o \in Requests PROVE Happened(o, request[r].digest)'
    OBVIOUS
  <2>2. o \in Requests => \A d : Happened(o, d) => Happened(o, d)'
    BY HappenedKept DEF Base
  <2>. QED BY <1>1, <2>1, <2>2 DEF Becomes, Happened
<1>. QED BY <1>2 DEF Taken, Becomes, Happened

\* Arrive makes no other move.
LEMMA ArriveMoves ==
    ASSUME Base, NEW r \in Requests, Arrive(r)
    PROVE  Moves(r)
<1>1. \E d \in Digests : Becomes(r, "claim", d, request[r].outcome, request[r].answer)
  BY DEF Base, Arrive, Becomes, TypeOK, RequestOK
<1>2. /\ request[r].at = "idle"
       /\ MakesNothing
       /\ call' = call
       /\ stray' = stray
  BY DEF Base, MakesNothing, Remembers, Lost, Arrive, TypeOK
<1>3. Stage(r) BY DEF Base, StageOK
<1>4. OthersKept(r) BY <1>1, <1>2 DEF Base, Lost, OthersKept, Becomes, Arrive, TypeOK
<1>5. Stage(r)'
  BY Distinct, <1>1, <1>2, <1>3 DEF Becomes, Stage, Releases, Completes, Resolves,
     Marks, Live
<1>6. HolderMoves(r)
  BY <1>1, <1>2, <1>3 DEF Becomes, Stage, HolderMoves, Holder, AtWork, Releases, Completes,
     Resolves, Marks, Live, MakesClaim, Made, MakesNothing
<1>7. RecordMoves(r) BY <1>2 DEF RecordMoves
<1>8. AnswerMoves(r) BY <1>1, <1>2, <1>3 DEF Becomes, AnswerMoves, Stage, Definite
<1>9. Taken(r)' BY Distinct, <1>1, <1>2, <1>3 DEF Becomes, Taken, Stage
<1>10. PromiseMoves(r)
  BY RelayAssumption, <1>1, <1>2, <1>3 DEF Becomes, PromiseMoves, Asks, Delivers,
     Tells, Rests, Stage, Live, MakesNothing
<1>. QED BY <1>4, <1>5, <1>6, <1>7, <1>8, <1>9, <1>10 DEF Moves

\* TurnAway makes no other move.
LEMMA TurnAwayMoves ==
    ASSUME Base, NEW r \in Requests, TurnAway(r)
    PROVE  Moves(r)
<1>1. \/ Becomes(r, "done", request[r].digest, request[r].outcome, "turned_away")
      \/ Becomes(r, "done", request[r].digest, request[r].outcome, "retry")
  BY RequestEffect DEF Base, TurnAway, Undecided
<1>2. /\ request[r].at = "idle"
       /\ MakesNothing
       /\ call' = call
       /\ stray' = stray
  BY DEF Base, MakesNothing, Remembers, Lost, TurnAway, TypeOK
<1>3. Stage(r) BY DEF Base, StageOK
<1>4. OthersKept(r) BY <1>1, <1>2 DEF Base, Lost, OthersKept, Becomes, TurnAway, TypeOK
<1>5. Stage(r)'
  BY Distinct, <1>1, <1>2, <1>3 DEF Becomes, Stage, Releases, Completes, Resolves,
     Marks, Live
<1>6. HolderMoves(r)
  BY <1>1, <1>2, <1>3 DEF Becomes, Stage, HolderMoves, Holder, AtWork, Releases, Completes,
     Resolves, Marks, Live
<1>7. RecordMoves(r) BY <1>2 DEF RecordMoves
<1>8. AnswerMoves(r) BY <1>1, <1>2, <1>3 DEF Becomes, AnswerMoves, Stage, Definite
<1>9. Taken(r)' BY <1>1, <1>4, <1>6, TakenKept
<1>10. PromiseMoves(r)
  BY <1>1, <1>2, <1>3 DEF Becomes, PromiseMoves, Asks, Delivers, Tells, Rests, Stage, Live
<1>. QED BY <1>4, <1>5, <1>6, <1>7, <1>8, <1>9, <1>10 DEF Moves

\* Claim makes no other move.
LEMMA ClaimMoves ==
    ASSUME Base, NEW r \in Requests, Claim(r)
    PROVE  Moves(r)
<1>1. request[r].at = "claim" /\ Runs("claim", r) /\ call' = call /\ stray' = stray
  BY DEF Claim
<1>2. Stage(r) BY DEF Base, StageOK
<1>3. Claimed(r) /\ TypeOK BY DEF Claim, Base
<1>4. CASE record.state = "none"
  <2>1. Becomes(r, "send", request[r].digest, request[r].outcome, request[r].answer)
    BY <1>3, <1>4, RequestEffect DEF Claimed
  <2>2. MakesClaim(r) BY <1>1, <1>3, <1>4, RunsEffect
  <2>3. OthersKept(r) BY <2>1, <1>1 DEF OthersKept, Becomes
  <2>4. Stage(r)'
    BY <2>1, <1>1, <1>2 DEF Becomes, Stage, Releases, Completes, Resolves, Marks, Live
  <2>5. HolderMoves(r) BY <2>1, <2>2, <1>1, <1>2 DEF Becomes, HolderMoves, Live
  <2>6. RecordMoves(r) BY <2>2 DEF RecordMoves
  <2>7. AnswerMoves(r) BY <2>1, <1>1, <1>2 DEF Becomes, AnswerMoves, Stage, Definite
  <2>8. Taken(r)' BY <2>1, <2>3, <2>5, TakenKept
  <2>9. PromiseMoves(r)
    BY <2>1, <1>1, <1>2 DEF Becomes, PromiseMoves, Tells, Rests, Stage
  <2>. QED BY <2>3, <2>4, <2>5, <2>6, <2>7, <2>8, <2>9 DEF Moves
<1>5. CASE record.state # "none"
  <2>1. \/ /\ record.state \in {"completed", "rejected"}
           /\ record.digest = request[r].digest
           /\ Becomes(r, "done", request[r].digest, record.outcome, AnswerOf(record.outcome))
        \/ Becomes(r, "expire", request[r].digest, request[r].outcome, request[r].answer)
        \/ /\ Reconciles
           /\ Becomes(r, "reconcile", request[r].digest, request[r].outcome, request[r].answer)
        \/ \E a \in {"collision", "ambiguous", "retry"} :
             Becomes(r, "done", request[r].digest, request[r].outcome, a)
    BY <1>3, <1>5, RequestEffect DEF Claimed, Replayed, SameBody, OnAmbiguous
  <2>2. MakesNothing BY <1>1, <1>3, <1>5, RunsEffect
  <2>3. OthersKept(r) BY <2>1, <1>1 DEF OthersKept, Becomes
  <2>4. Stage(r)'
    BY <2>1, <1>1, <1>2 DEF Becomes, Stage, Releases, Completes, Resolves, Marks, Live
  <2>5. HolderMoves(r)
    BY <2>1, <1>1, <1>2 DEF Becomes, Stage, HolderMoves, Holder, AtWork, Releases,
       Completes, Resolves, Marks, Live
  <2>6. RecordMoves(r) BY <2>2 DEF RecordMoves
  <2>7. AnswerMoves(r)
    BY <2>1, <2>2, <1>1, <1>2 DEF Becomes, AnswerMoves, Stage, Definite, MakesNothing
  <2>8. Taken(r)'
    <3>1. CASE \E s, a : Becomes(r, s, request[r].digest, request[r].outcome, a)
      BY <3>1, <2>3, <2>5, TakenKept
    <3>2. CASE /\ record.state \in {"completed", "rejected"}
               /\ record.digest = request[r].digest
               /\ Becomes(r, "done", request[r].digest, record.outcome, AnswerOf(record.outcome))
      <4>1. \/ record.outcome \in {"refused", "broken"}
            \/ record.outcome \in Requests /\ Happened(record.outcome, request[r].digest)
        BY <3>2 DEF Base, RecordNamed
      <4>. QED BY <3>2, <4>1, <2>3, <2>5, TakenKept
    <3>. QED BY <2>1, <3>1, <3>2
  <2>9. PromiseMoves(r)
    BY <2>1, <1>1, <1>2 DEF Becomes, PromiseMoves, Tells, Rests, Stage
  <2>. QED BY <2>3, <2>4, <2>5, <2>6, <2>7, <2>8, <2>9 DEF Moves
<1>. QED BY <1>4, <1>5

\* Expire makes no other move.
LEMMA ExpireMoves ==
    ASSUME Base, NEW r \in Requests, Expire(r)
    PROVE  Moves(r)
<1>1. \/ /\ Reconciles
         /\ Becomes(r, "reconcile", request[r].digest, request[r].outcome, request[r].answer)
      \/ Becomes(r, "done", request[r].digest, request[r].outcome, "ambiguous")
      \/ Becomes(r, "done", request[r].digest, request[r].outcome, "retry")
  BY RequestEffect DEF Base, Expire, OnAmbiguous, Undecided
<1>2. /\ request[r].at = "expire"
       /\ call' = call
       /\ stray' = stray
  BY DEF Base, MakesNothing, Remembers, Lost, Expire, TypeOK, OnAmbiguous
<1>r. Runs("expire", r) BY DEF Expire
<1>3. Stage(r) BY DEF Base, StageOK
<1>4. OthersKept(r) BY <1>1, <1>2 DEF Base, Lost, OthersKept, Becomes, Expire, TypeOK, OnAmbiguous
<1>5. Stage(r)'
  BY Distinct, <1>1, <1>2, <1>3 DEF Becomes, Stage, Releases, Completes, Resolves,
     Marks, Live
<1>6. HolderMoves(r)
  BY <1>1, <1>2, <1>3 DEF Becomes, Stage, HolderMoves, Holder, AtWork, Releases, Completes,
     Resolves, Marks, Live
<1>7. RecordMoves(r)
  BY RunsEffect, <1>2, <1>r DEF Base, RecordMoves, Completes, Resolves
<1>8. AnswerMoves(r) BY <1>1, <1>2, <1>3 DEF Becomes, AnswerMoves, Stage, Definite
<1>9. Taken(r)' BY <1>1, <1>4, <1>6, TakenKept
<1>10. PromiseMoves(r)
  BY <1>1, <1>2, <1>3 DEF Becomes, PromiseMoves, Asks, Delivers, Tells, Rests, Stage, Live
<1>. QED BY <1>4, <1>5, <1>6, <1>7, <1>8, <1>9, <1>10 DEF Moves

\* LoseClaim makes no other move.
LEMMA LoseClaimMoves ==
    ASSUME Base, NEW r \in Requests, LoseClaim(r)
    PROVE  Moves(r)
<1>1. Becomes(r, "done", request[r].digest, request[r].outcome, "retry")
  BY RequestEffect DEF Base, LoseClaim, Lost, Undecided
<1>2. /\ request[r].at \in {"claim", "expire"}
       /\ MakesNothing
       /\ call' = call
       /\ stray'[r] = stray[r] \cup {request[r].at}
  BY DEF Base, MakesNothing, Remembers, Lost, LoseClaim, TypeOK
<1>3. Stage(r) BY DEF Base, StageOK
<1>4. OthersKept(r) BY <1>1, <1>2 DEF Base, Lost, OthersKept, Becomes, LoseClaim, TypeOK
<1>5. Stage(r)'
  BY Distinct, <1>1, <1>2, <1>3 DEF Becomes, Stage, Releases, Completes, Resolves,
     Marks, Live
<1>6. HolderMoves(r)
  BY <1>1, <1>2, <1>3 DEF Becomes, Stage, HolderMoves, Holder, AtWork, Releases, Completes,
     Resolves, Marks, Live
<1>7. RecordMoves(r) BY <1>2 DEF RecordMoves
<1>8. AnswerMoves(r) BY <1>1, <1>2, <1>3 DEF Becomes, AnswerMoves, Stage, Definite
<1>9. Taken(r)' BY <1>1, <1>4, <1>6, TakenKept
<1>10. PromiseMoves(r)
  BY <1>1, <1>2, <1>3 DEF Becomes, PromiseMoves, Asks, Delivers, Tells, Rests, Stage, Live
<1>. QED BY <1>4, <1>5, <1>6, <1>7, <1>8, <1>9, <1>10 DEF Moves

\* Send makes no other move.
LEMMA SendMoves ==
    ASSUME Base, NEW r \in Requests, Send(r)
    PROVE  Moves(r)
<1>1. Becomes(r, "wait", request[r].digest, request[r].outcome, request[r].answer)
  BY RequestEffect DEF Base, Send, Undecided
<1>2. /\ request[r].at = "send"
       /\ MakesNothing
       /\ call'[r] = "pending"
       /\ stray' = stray
  BY DEF Base, MakesNothing, Remembers, Lost, Send, TypeOK
<1>3. Stage(r) BY DEF Base, StageOK
<1>4. OthersKept(r) BY <1>1, <1>2 DEF Base, Lost, OthersKept, Becomes, Send, TypeOK
<1>5. Stage(r)'
  BY Distinct, <1>1, <1>2, <1>3 DEF Becomes, Stage, Releases, Completes, Resolves,
     Marks, Live
<1>6. HolderMoves(r)
  BY <1>1, <1>2, <1>3 DEF Becomes, Stage, HolderMoves, Holder, AtWork, Releases, Completes,
     Resolves, Marks, Live
<1>7. RecordMoves(r) BY <1>2 DEF RecordMoves
<1>8. AnswerMoves(r) BY <1>1, <1>2, <1>3 DEF Becomes, AnswerMoves, Stage, Definite
<1>9. Taken(r)' BY <1>1, <1>4, <1>6, TakenKept
<1>10. PromiseMoves(r)
  BY <1>1, <1>2, <1>3 DEF Becomes, PromiseMoves, Asks, Delivers, Tells, Rests, Stage, Live
<1>. QED BY <1>4, <1>5, <1>6, <1>7, <1>8, <1>9, <1>10 DEF Moves

\* NotSent makes no other move.
LEMMA NotSentMoves ==
    ASSUME Base, NEW r \in Requests, NotSent(r)
    PROVE  Moves(r)
<1>1. \/ Becomes(r, "complete", request[r].digest, "refused", request[r].answer)
      \/ Becomes(r, "complete", request[r].digest, "broken", request[r].answer)
  BY RequestEffect DEF Base, NotSent, Undecided
<1>2. /\ request[r].at = "send"
       /\ MakesNothing
       /\ call' = call
       /\ stray' = stray
  BY DEF Base, MakesNothing, Remembers, Lost, NotSent, TypeOK
<1>3. Stage(r) BY DEF Base, StageOK
<1>4. OthersKept(r) BY <1>1, <1>2 DEF Base, Lost, OthersKept, Becomes, NotSent, TypeOK
<1>5. Stage(r)'
  BY Distinct, <1>1, <1>2, <1>3 DEF Becomes, Stage, Releases, Completes, Resolves,
     Marks, Live
<1>6. HolderMoves(r)
  BY <1>1, <1>2, <1>3 DEF Becomes, Stage, HolderMoves, Holder, AtWork, Releases, Completes,
     Resolves, Marks, Live
<1>7. RecordMoves(r) BY <1>2 DEF RecordMoves
<1>8. AnswerMoves(r) BY <1>1, <1>2, <1>3 DEF Becomes, AnswerMoves, Stage, Definite
<1>9. Taken(r)' BY <1>1, <1>4, <1>6, TakenKept
<1>10. PromiseMoves(r)
  BY <1>1, <1>2, <1>3 DEF Becomes, PromiseMoves, Asks, Delivers, Tells, Rests, Stage, Live
<1>. QED BY <1>4, <1>5, <1>6, <1>7, <1>8, <1>9, <1>10 DEF Moves

\* LookupFails makes no other move.
LEMMA LookupFailsMoves ==
    ASSUME Base, NEW r \in Requests, LookupFails(r)
    PROVE  Moves(r)
<1>1. Becomes(r, "release", request[r].digest, request[r].outcome, request[r].answer)
  BY RequestEffect DEF Base, LookupFails, Undecided
<1>2. /\ request[r].at = "send"
       /\ MakesNothing
       /\ call' = call
       /\ stray' = stray
  BY DEF Base, MakesNothing, Remembers, Lost, LookupFails, TypeOK
<1>3. Stage(r) BY DEF Base, StageOK
<1>4. OthersKept(r) BY <1>1, <1>2 DEF Base, Lost, OthersKept, Becomes, LookupFails, TypeOK
<1>5. Stage(r)'
  BY Distinct, <1>1, <1>2, <1>3 DEF Becomes, Stage, Releases, Completes, Resolves,
     Marks, Live
<1>6. HolderMoves(r)
  BY <1>1, <1>2, <1>3 DEF Becomes, Stage, HolderMoves, Holder, AtWork, Releases, Completes,
     Resolves, Marks, Live
<1>7. RecordMoves(r) BY <1>2 DEF RecordMoves
<1>8. AnswerMoves(r) BY <1>1, <1>2, <1>3 DEF Becomes, AnswerMoves, Stage, Definite
<1>9. Taken(r)' BY <1>1, <1>4, <1>6, TakenKept
<1>10. PromiseMoves(r)
  BY <1>1, <1>2, <1>3 DEF Becomes, PromiseMoves, Asks, Delivers, Tells, Rests, Stage, Live
<1>. QED BY <1>4, <1>5, <1>6, <1>7, <1>8, <1>9, <1>10 DEF Moves

\* FindSent makes no other move.
LEMMA FindSentMoves ==
    ASSUME Base, NEW r \in Requests, FindSent(r)
    PROVE  Moves(r)
<1>1. \E q \in Requests :
        /\ Happened(q, request[r].digest)
        /\ Becomes(r, "complete", request[r].digest, q, request[r].answer)
  BY RequestEffect DEF Base, FindSent, Happened
<1>2. /\ request[r].at = "send"
       /\ MakesNothing
       /\ call' = call
       /\ stray' = stray
  BY DEF Base, MakesNothing, Remembers, Lost, FindSent, TypeOK
<1>3. Stage(r) BY DEF Base, StageOK
<1>4. OthersKept(r) BY <1>1, <1>2 DEF Base, Lost, OthersKept, Becomes, FindSent, TypeOK
<1>5. Stage(r)'
  BY Distinct, <1>1, <1>2, <1>3 DEF Becomes, Stage, Releases, Completes, Resolves,
     Marks, Live
<1>6. HolderMoves(r)
  BY <1>1, <1>2, <1>3 DEF Becomes, Stage, HolderMoves, Holder, AtWork, Releases, Completes,
     Resolves, Marks, Live
<1>7. RecordMoves(r) BY <1>2 DEF RecordMoves
<1>8. AnswerMoves(r) BY <1>1, <1>2, <1>3 DEF Becomes, AnswerMoves, Stage, Definite
<1>9. Taken(r)' BY <1>1, <1>4, <1>6, TakenKept
<1>10. PromiseMoves(r)
  BY <1>1, <1>2, <1>3 DEF Becomes, PromiseMoves, Asks, Delivers, Tells, Rests, Stage, Live
<1>. QED BY <1>4, <1>5, <1>6, <1>7, <1>8, <1>9, <1>10 DEF Moves

\* HearSuccess makes no other move.
LEMMA HearSuccessMoves ==
    ASSUME Base, NEW r \in Requests, HearSuccess(r)
    PROVE  Moves(r)
<1>1. Becomes(r, "complete", request[r].digest, r, request[r].answer)
  BY RequestEffect DEF Base, HearSuccess, Undecided
<1>2. /\ request[r].at = "wait"
       /\ MakesNothing
       /\ call' = call
       /\ stray' = stray
       /\ call[r] = "accepted"
  BY DEF Base, MakesNothing, Remembers, Lost, HearSuccess, TypeOK
<1>3. Stage(r) BY DEF Base, StageOK
<1>4. OthersKept(r) BY <1>1, <1>2 DEF Base, Lost, OthersKept, Becomes, HearSuccess, TypeOK
<1>5. Stage(r)'
  BY Distinct, <1>1, <1>2, <1>3 DEF Becomes, Stage, Releases, Completes, Resolves,
     Marks, Live
<1>6. HolderMoves(r)
  BY <1>1, <1>2, <1>3 DEF Becomes, Stage, HolderMoves, Holder, AtWork, Releases, Completes,
     Resolves, Marks, Live
<1>7. RecordMoves(r) BY <1>2 DEF RecordMoves
<1>8. AnswerMoves(r) BY <1>1, <1>2, <1>3 DEF Becomes, AnswerMoves, Stage, Definite
<1>9. Taken(r)'
  <2>1. Happened(r, request[r].digest) BY DEF HearSuccess, Happened
  <2>. QED BY <2>1, <1>1, <1>4, <1>6, TakenKept
<1>10. PromiseMoves(r)
  BY <1>1, <1>2, <1>3 DEF Becomes, PromiseMoves, Asks, Delivers, Tells, Rests, Stage, Live
<1>. QED BY <1>4, <1>5, <1>6, <1>7, <1>8, <1>9, <1>10 DEF Moves

\* HearNothing makes no other move.
LEMMA HearNothingMoves ==
    ASSUME Base, NEW r \in Requests, HearNothing(r)
    PROVE  Moves(r)
<1>1. Becomes(r, "mark", request[r].digest, request[r].outcome, request[r].answer)
  BY RequestEffect DEF Base, HearNothing, Undecided
<1>2. /\ request[r].at = "wait"
       /\ MakesNothing
       /\ call' = call
       /\ stray' = stray
  BY DEF Base, MakesNothing, Remembers, Lost, HearNothing, TypeOK
<1>3. Stage(r) BY DEF Base, StageOK
<1>4. OthersKept(r) BY <1>1, <1>2 DEF Base, Lost, OthersKept, Becomes, HearNothing, TypeOK
<1>5. Stage(r)'
  BY Distinct, <1>1, <1>2, <1>3 DEF Becomes, Stage, Releases, Completes, Resolves,
     Marks, Live
<1>6. HolderMoves(r)
  BY <1>1, <1>2, <1>3 DEF Becomes, Stage, HolderMoves, Holder, AtWork, Releases, Completes,
     Resolves, Marks, Live
<1>7. RecordMoves(r) BY <1>2 DEF RecordMoves
<1>8. AnswerMoves(r) BY <1>1, <1>2, <1>3 DEF Becomes, AnswerMoves, Stage, Definite
<1>9. Taken(r)' BY <1>1, <1>4, <1>6, TakenKept
<1>10. PromiseMoves(r)
  BY <1>1, <1>2, <1>3 DEF Becomes, PromiseMoves, Asks, Delivers, Tells, Rests, Stage, Live
<1>. QED BY <1>4, <1>5, <1>6, <1>7, <1>8, <1>9, <1>10 DEF Moves

\* HearRateLimit makes no other move.
LEMMA HearRateLimitMoves ==
    ASSUME Base, NEW r \in Requests, HearRateLimit(r)
    PROVE  Moves(r)
<1>1. Becomes(r, "release", request[r].digest, request[r].outcome, request[r].answer)
  BY RequestEffect DEF Base, HearRateLimit, Undecided
<1>2. /\ request[r].at = "wait"
       /\ MakesNothing
       /\ call'[r] = "refused"
       /\ call[r] = "pending"
       /\ stray' = stray
  BY DEF Base, MakesNothing, Remembers, Lost, HearRateLimit, TypeOK
<1>3. Stage(r) BY DEF Base, StageOK
<1>4. OthersKept(r) BY <1>1, <1>2 DEF Base, Lost, OthersKept, Becomes, HearRateLimit, TypeOK
<1>5. Stage(r)'
  BY Distinct, <1>1, <1>2, <1>3 DEF Becomes, Stage, Releases, Completes, Resolves,
     Marks, Live
<1>6. HolderMoves(r)
  BY <1>1, <1>2, <1>3 DEF Becomes, Stage, HolderMoves, Holder, AtWork, Releases, Completes,
     Resolves, Marks, Live
<1>7. RecordMoves(r) BY <1>2 DEF RecordMoves
<1>8. AnswerMoves(r) BY <1>1, <1>2, <1>3 DEF Becomes, AnswerMoves, Stage, Definite
<1>9. Taken(r)' BY <1>1, <1>4, <1>6, TakenKept
<1>10. PromiseMoves(r)
  BY <1>1, <1>2, <1>3 DEF Becomes, PromiseMoves, Asks, Delivers, Tells, Rests, Stage, Live
<1>. QED BY <1>4, <1>5, <1>6, <1>7, <1>8, <1>9, <1>10 DEF Moves

\* HearRefusal makes no other move.
LEMMA HearRefusalMoves ==
    ASSUME Base, NEW r \in Requests, HearRefusal(r)
    PROVE  Moves(r)
<1>1. Becomes(r, "complete", request[r].digest, "refused", request[r].answer)
  BY RequestEffect DEF Base, HearRefusal, Undecided
<1>2. /\ request[r].at = "wait"
       /\ MakesNothing
       /\ call'[r] = "refused"
       /\ call[r] = "pending"
       /\ stray' = stray
  BY DEF Base, MakesNothing, Remembers, Lost, HearRefusal, TypeOK
<1>3. Stage(r) BY DEF Base, StageOK
<1>4. OthersKept(r) BY <1>1, <1>2 DEF Base, Lost, OthersKept, Becomes, HearRefusal, TypeOK
<1>5. Stage(r)'
  BY Distinct, <1>1, <1>2, <1>3 DEF Becomes, Stage, Releases, Completes, Resolves,
     Marks, Live
<1>6. HolderMoves(r)
  BY <1>1, <1>2, <1>3 DEF Becomes, Stage, HolderMoves, Holder, AtWork, Releases, Completes,
     Resolves, Marks, Live
<1>7. RecordMoves(r) BY <1>2 DEF RecordMoves
<1>8. AnswerMoves(r) BY <1>1, <1>2, <1>3 DEF Becomes, AnswerMoves, Stage, Definite
<1>9. Taken(r)' BY <1>1, <1>4, <1>6, TakenKept
<1>10. PromiseMoves(r)
  BY <1>1, <1>2, <1>3 DEF Becomes, PromiseMoves, Asks, Delivers, Tells, Rests, Stage, Live
<1>. QED BY <1>4, <1>5, <1>6, <1>7, <1>8, <1>9, <1>10 DEF Moves

\* Complete makes no other move.
LEMMA CompleteMoves ==
    ASSUME Base, NEW r \in Requests, Complete(r)
    PROVE  Moves(r)
<1>1. \/ /\ Mine(r)
         /\ Becomes(r, "done", request[r].digest, request[r].outcome,
                    AnswerOf(request[r].outcome))
      \/ /\ ~Mine(r)
         /\ \/ Becomes(r, "done", request[r].digest, request[r].outcome, "retry")
            \/ Becomes(r, "mark", request[r].digest, request[r].outcome, request[r].answer)
  BY RequestEffect DEF Base, Complete, Unrecorded, Undecided
<1>2. /\ request[r].at = "complete"
       /\ call' = call
       /\ stray' = stray
  BY DEF Base, MakesNothing, Remembers, Lost, Complete, TypeOK, Unrecorded
<1>r. Runs("complete", r) BY DEF Complete
<1>3. Stage(r) BY DEF Base, StageOK
<1>4. OthersKept(r) BY <1>1, <1>2 DEF Base, Lost, OthersKept, Becomes, Complete, TypeOK, Unrecorded
<1>5. Stage(r)'
  BY Distinct, <1>1, <1>2, <1>3 DEF Becomes, Stage, Releases, Completes, Resolves,
     Marks, Live
<1>6. HolderMoves(r)
  BY <1>1, <1>2, <1>3 DEF Becomes, Stage, HolderMoves, Holder, AtWork, Releases, Completes,
     Resolves, Marks, Live
<1>7. RecordMoves(r)
  BY RunsEffect, <1>2, <1>r DEF Base, RecordMoves, Completes, Resolves
<1>8. AnswerMoves(r)
  <2>1. CASE Mine(r)
    <3>1. record' = Made(Verdict(request[r].outcome), r, request[r].outcome)
      BY <2>1, <1>r, RunsEffect DEF Base, MakesOutcome
    <3>2. record'.state \in {"completed", "rejected"} BY <3>1 DEF Made, Verdict
    <3>3. record'.outcome = request[r].outcome /\ record'.digest = request[r].digest
      BY <3>1 DEF Made
    <3>. QED BY <3>2, <3>3, <2>1, <1>1, <1>2, <1>3 DEF Becomes, AnswerMoves, Stage
  <2>2. CASE ~Mine(r) BY <2>2, <1>1, <1>2, <1>3 DEF Becomes, AnswerMoves, Stage, Definite
  <2>. QED BY <2>1, <2>2
<1>9. Taken(r)' BY <1>1, <1>4, <1>6, TakenKept
<1>10. PromiseMoves(r)
  BY <1>1, <1>2, <1>3 DEF Becomes, PromiseMoves, Asks, Delivers, Tells, Rests, Stage, Live
<1>. QED BY <1>4, <1>5, <1>6, <1>7, <1>8, <1>9, <1>10 DEF Moves

\* LoseComplete makes no other move.
LEMMA LoseCompleteMoves ==
    ASSUME Base, NEW r \in Requests, LoseComplete(r)
    PROVE  Moves(r)
<1>1. \/ Becomes(r, "done", request[r].digest, request[r].outcome, "retry")
      \/ Becomes(r, "mark", request[r].digest, request[r].outcome, request[r].answer)
  BY RequestEffect DEF Base, LoseComplete, Unrecorded, Lost, Undecided
<1>2. /\ request[r].at = "complete"
       /\ MakesNothing
       /\ call' = call
       /\ stray'[r] = stray[r] \cup {"complete"}
  BY DEF Base, MakesNothing, Remembers, Lost, LoseComplete, TypeOK, Unrecorded, Lost
<1>3. Stage(r) BY DEF Base, StageOK
<1>4. OthersKept(r)
  BY <1>1, <1>2 DEF Base, Lost, OthersKept, Becomes, LoseComplete, TypeOK, Unrecorded, Lost
<1>5. Stage(r)'
  BY Distinct, <1>1, <1>2, <1>3 DEF Becomes, Stage, Releases, Completes, Resolves,
     Marks, Live
<1>6. HolderMoves(r)
  BY <1>1, <1>2, <1>3 DEF Becomes, Stage, HolderMoves, Holder, AtWork, Releases, Completes,
     Resolves, Marks, Live
<1>7. RecordMoves(r) BY <1>2 DEF RecordMoves
<1>8. AnswerMoves(r) BY <1>1, <1>2, <1>3 DEF Becomes, AnswerMoves, Stage, Definite
<1>9. Taken(r)' BY <1>1, <1>4, <1>6, TakenKept
<1>10. PromiseMoves(r)
  BY <1>1, <1>2, <1>3 DEF Becomes, PromiseMoves, Asks, Delivers, Tells, Rests, Stage, Live
<1>. QED BY <1>4, <1>5, <1>6, <1>7, <1>8, <1>9, <1>10 DEF Moves

\* Mark makes no other move.
LEMMA MarkMoves ==
    ASSUME Base, NEW r \in Requests, Mark(r)
    PROVE  Moves(r)
<1>1. \/ Becomes(r, "done", request[r].digest, request[r].outcome, "retry")
      \/ Becomes(r, "done", request[r].digest, request[r].outcome, "ambiguous")
  BY RequestEffect DEF Base, Mark, Undecided
<1>2. /\ request[r].at = "mark"
       /\ call' = call
       /\ stray' = stray
  BY DEF Base, MakesNothing, Remembers, Lost, Mark, TypeOK
<1>r. Runs("mark", r) BY DEF Mark
<1>3. Stage(r) BY DEF Base, StageOK
<1>4. OthersKept(r) BY <1>1, <1>2 DEF Base, Lost, OthersKept, Becomes, Mark, TypeOK
<1>5. Stage(r)'
  BY Distinct, <1>1, <1>2, <1>3 DEF Becomes, Stage, Releases, Completes, Resolves,
     Marks, Live
<1>6. HolderMoves(r)
  BY <1>1, <1>2, <1>3 DEF Becomes, Stage, HolderMoves, Holder, AtWork, Releases, Completes,
     Resolves, Marks, Live
<1>7. RecordMoves(r)
  BY RunsEffect, <1>2, <1>r DEF Base, RecordMoves, Completes, Resolves
<1>8. AnswerMoves(r) BY <1>1, <1>2, <1>3 DEF Becomes, AnswerMoves, Stage, Definite
<1>9. Taken(r)' BY <1>1, <1>4, <1>6, TakenKept
<1>10. PromiseMoves(r)
  BY <1>1, <1>2, <1>3 DEF Becomes, PromiseMoves, Asks, Delivers, Tells, Rests, Stage, Live
<1>. QED BY <1>4, <1>5, <1>6, <1>7, <1>8, <1>9, <1>10 DEF Moves

\* LoseMark makes no other move.
LEMMA LoseMarkMoves ==
    ASSUME Base, NEW r \in Requests, LoseMark(r)
    PROVE  Moves(r)
<1>1. \/ Becomes(r, "done", request[r].digest, request[r].outcome, "retry")
      \/ Becomes(r, "done", request[r].digest, request[r].outcome, "ambiguous")
  BY RequestEffect DEF Base, LoseMark, Lost, Undecided
<1>2. /\ request[r].at = "mark"
       /\ MakesNothing
       /\ call' = call
       /\ stray'[r] = stray[r] \cup {"mark"}
  BY DEF Base, MakesNothing, Remembers, Lost, LoseMark, TypeOK
<1>3. Stage(r) BY DEF Base, StageOK
<1>4. OthersKept(r) BY <1>1, <1>2 DEF Base, Lost, OthersKept, Becomes, LoseMark, TypeOK
<1>5. Stage(r)'
  BY Distinct, <1>1, <1>2, <1>3 DEF Becomes, Stage, Releases, Completes, Resolves,
     Marks, Live
<1>6. HolderMoves(r)
  BY <1>1, <1>2, <1>3 DEF Becomes, Stage, HolderMoves, Holder, AtWork, Releases, Completes,
     Resolves, Marks, Live
<1>7. RecordMoves(r) BY <1>2 DEF RecordMoves
<1>8. AnswerMoves(r) BY <1>1, <1>2, <1>3 DEF Becomes, AnswerMoves, Stage, Definite
<1>9. Taken(r)' BY <1>1, <1>4, <1>6, TakenKept
<1>10. PromiseMoves(r)
  BY <1>1, <1>2, <1>3 DEF Becomes, PromiseMoves, Asks, Delivers, Tells, Rests, Stage, Live
<1>. QED BY <1>4, <1>5, <1>6, <1>7, <1>8, <1>9, <1>10 DEF Moves

\* Release makes no other move.
LEMMA ReleaseMoves ==
    ASSUME Base, NEW r \in Requests, Release(r)
    PROVE  Moves(r)
<1>1. Becomes(r, "done", request[r].digest, request[r].outcome, "retry")
  BY RequestEffect DEF Base, Release, Undecided
<1>2. /\ request[r].at = "release"
       /\ call' = call
       /\ stray' = stray
  BY DEF Base, MakesNothing, Remembers, Lost, Release, TypeOK
<1>r. Runs("release", r) BY DEF Release
<1>3. Stage(r) BY DEF Base, StageOK
<1>4. OthersKept(r) BY <1>1, <1>2 DEF Base, Lost, OthersKept, Becomes, Release, TypeOK
<1>5. Stage(r)'
  BY Distinct, <1>1, <1>2, <1>3 DEF Becomes, Stage, Releases, Completes, Resolves,
     Marks, Live
<1>6. HolderMoves(r)
  BY <1>1, <1>2, <1>3 DEF Becomes, Stage, HolderMoves, Holder, AtWork, Releases, Completes,
     Resolves, Marks, Live
<1>7. RecordMoves(r)
  <2>1. ~Holder(r)'
    BY <1>1, <1>2, <1>3 DEF Becomes, Stage, Holder, AtWork, Releases, Completes, Resolves,
       Marks, Live
  <2>. QED BY RunsEffect, <2>1, <1>2, <1>r DEF Base, RecordMoves, Releases
<1>8. AnswerMoves(r) BY <1>1, <1>2, <1>3 DEF Becomes, AnswerMoves, Stage, Definite
<1>9. Taken(r)' BY <1>1, <1>4, <1>6, TakenKept
<1>10. PromiseMoves(r)
  BY <1>1, <1>2, <1>3 DEF Becomes, PromiseMoves, Asks, Delivers, Tells, Rests, Stage, Live
<1>. QED BY <1>4, <1>5, <1>6, <1>7, <1>8, <1>9, <1>10 DEF Moves

\* LoseRelease makes no other move.
LEMMA LoseReleaseMoves ==
    ASSUME Base, NEW r \in Requests, LoseRelease(r)
    PROVE  Moves(r)
<1>1. Becomes(r, "done", request[r].digest, request[r].outcome, "retry")
  BY RequestEffect DEF Base, LoseRelease, Lost, Undecided
<1>2. /\ request[r].at = "release"
       /\ MakesNothing
       /\ call' = call
       /\ stray'[r] = stray[r] \cup {"release"}
  BY DEF Base, MakesNothing, Remembers, Lost, LoseRelease, TypeOK
<1>3. Stage(r) BY DEF Base, StageOK
<1>4. OthersKept(r) BY <1>1, <1>2 DEF Base, Lost, OthersKept, Becomes, LoseRelease, TypeOK
<1>5. Stage(r)'
  BY Distinct, <1>1, <1>2, <1>3 DEF Becomes, Stage, Releases, Completes, Resolves,
     Marks, Live
<1>6. HolderMoves(r)
  BY <1>1, <1>2, <1>3 DEF Becomes, Stage, HolderMoves, Holder, AtWork, Releases, Completes,
     Resolves, Marks, Live
<1>7. RecordMoves(r) BY <1>2 DEF RecordMoves
<1>8. AnswerMoves(r) BY <1>1, <1>2, <1>3 DEF Becomes, AnswerMoves, Stage, Definite
<1>9. Taken(r)' BY <1>1, <1>4, <1>6, TakenKept
<1>10. PromiseMoves(r)
  BY <1>1, <1>2, <1>3 DEF Becomes, PromiseMoves, Asks, Delivers, Tells, Rests, Stage, Live
<1>. QED BY <1>4, <1>5, <1>6, <1>7, <1>8, <1>9, <1>10 DEF Moves

\* Reconcile makes no other move.
LEMMA ReconcileMoves ==
    ASSUME Base, NEW r \in Requests, Reconcile(r)
    PROVE  Moves(r)
<1>1. \/ \E q \in Requests :
           /\ Happened(q, request[r].digest)
           /\ Becomes(r, "resolve", request[r].digest, q, request[r].answer)
      \/ Becomes(r, "done", request[r].digest, request[r].outcome, "retry")
  BY RequestEffect DEF Base, Reconcile, Happened, StageOK, Stage
<1>2. /\ request[r].at = "reconcile"
       /\ MakesNothing
       /\ call' = call
       /\ stray' = stray
  BY DEF Base, MakesNothing, Remembers, Lost, Reconcile, TypeOK
<1>3. Stage(r) BY DEF Base, StageOK
<1>4. OthersKept(r) BY <1>1, <1>2 DEF Base, Lost, OthersKept, Becomes, Reconcile, TypeOK
<1>5. Stage(r)'
  BY Distinct, <1>1, <1>2, <1>3 DEF Becomes, Stage, Releases, Completes, Resolves,
     Marks, Live
<1>6. HolderMoves(r)
  BY <1>1, <1>2, <1>3 DEF Becomes, Stage, HolderMoves, Holder, AtWork, Releases, Completes,
     Resolves, Marks, Live
<1>7. RecordMoves(r) BY <1>2 DEF RecordMoves
<1>8. AnswerMoves(r) BY <1>1, <1>2, <1>3 DEF Becomes, AnswerMoves, Stage, Definite
<1>9. Taken(r)' BY <1>1, <1>4, <1>6, TakenKept
<1>10. PromiseMoves(r)
  BY <1>1, <1>2, <1>3 DEF Becomes, PromiseMoves, Asks, Delivers, Tells, Rests, Stage, Live
<1>. QED BY <1>4, <1>5, <1>6, <1>7, <1>8, <1>9, <1>10 DEF Moves

\* Resolve makes no other move.
LEMMA ResolveMoves ==
    ASSUME Base, NEW r \in Requests, Resolve(r)
    PROVE  Moves(r)
<1>1. \/ /\ Ambiguous(r)
         /\ Becomes(r, "done", request[r].digest, request[r].outcome, "delivered")
      \/ /\ ~Ambiguous(r)
         /\ Becomes(r, "done", request[r].digest, request[r].outcome, "retry")
  BY RequestEffect DEF Base, Resolve, Undecided
<1>2. /\ request[r].at = "resolve"
       /\ call' = call
       /\ stray' = stray
  BY DEF Base, MakesNothing, Remembers, Lost, Resolve, TypeOK
<1>r. Runs("resolve", r) BY DEF Resolve
<1>3. Stage(r) BY DEF Base, StageOK
<1>4. OthersKept(r) BY <1>1, <1>2 DEF Base, Lost, OthersKept, Becomes, Resolve, TypeOK
<1>5. Stage(r)'
  BY Distinct, <1>1, <1>2, <1>3 DEF Becomes, Stage, Releases, Completes, Resolves,
     Marks, Live
<1>6. HolderMoves(r)
  BY <1>1, <1>2, <1>3 DEF Becomes, Stage, HolderMoves, Holder, AtWork, Releases, Completes,
     Resolves, Marks, Live
<1>7. RecordMoves(r)
  BY RunsEffect, <1>2, <1>r DEF Base, RecordMoves, Completes, Resolves
<1>8. AnswerMoves(r)
  <2>1. CASE Ambiguous(r)
    <3>1. record' = Made("completed", r, request[r].outcome) BY <2>1, <1>r, RunsEffect DEF Base, MakesFound
    <3>2. request[r].outcome \in Requests BY <1>2, <1>3 DEF Stage, Resolves
    <3>3. AnswerOf(request[r].outcome) = "delivered" BY <3>2, Distinct DEF AnswerOf
    <3>. QED BY <3>1, <3>3, <2>1, <1>1, <1>2, <1>3 DEF Becomes, AnswerMoves, Stage, Made
  <2>2. CASE ~Ambiguous(r)
    BY <2>2, <1>1, <1>2, <1>3 DEF Becomes, AnswerMoves, Stage, Definite
  <2>. QED BY <2>1, <2>2
<1>9. Taken(r)' BY <1>1, <1>4, <1>6, TakenKept
<1>10. PromiseMoves(r)
  BY <1>1, <1>2, <1>3 DEF Becomes, PromiseMoves, Asks, Delivers, Tells, Rests, Stage, Live
<1>. QED BY <1>4, <1>5, <1>6, <1>7, <1>8, <1>9, <1>10 DEF Moves

\* LoseResolve makes no other move.
LEMMA LoseResolveMoves ==
    ASSUME Base, NEW r \in Requests, LoseResolve(r)
    PROVE  Moves(r)
<1>1. Becomes(r, "done", request[r].digest, request[r].outcome, "retry")
  BY RequestEffect DEF Base, LoseResolve, Lost, Undecided
<1>2. /\ request[r].at = "resolve"
       /\ MakesNothing
       /\ call' = call
       /\ stray'[r] = stray[r] \cup {"resolve"}
  BY DEF Base, MakesNothing, Remembers, Lost, LoseResolve, TypeOK
<1>3. Stage(r) BY DEF Base, StageOK
<1>4. OthersKept(r) BY <1>1, <1>2 DEF Base, Lost, OthersKept, Becomes, LoseResolve, TypeOK
<1>5. Stage(r)'
  BY Distinct, <1>1, <1>2, <1>3 DEF Becomes, Stage, Releases, Completes, Resolves,
     Marks, Live
<1>6. HolderMoves(r)
  BY <1>1, <1>2, <1>3 DEF Becomes, Stage, HolderMoves, Holder, AtWork, Releases, Completes,
     Resolves, Marks, Live
<1>7. RecordMoves(r) BY <1>2 DEF RecordMoves
<1>8. AnswerMoves(r) BY <1>1, <1>2, <1>3 DEF Becomes, AnswerMoves, Stage, Definite
<1>9. Taken(r)' BY <1>1, <1>4, <1>6, TakenKept
<1>10. PromiseMoves(r)
  BY <1>1, <1>2, <1>3 DEF Becomes, PromiseMoves, Asks, Delivers, Tells, Rests, Stage, Live
<1>. QED BY <1>4, <1>5, <1>6, <1>7, <1>8, <1>9, <1>10 DEF Moves

\* Accept makes no other move.
LEMMA AcceptMoves ==
    ASSUME Base, NEW r \in Requests, Accept(r)
    PROVE  Moves(r)
<1>1. request' = request
  BY RequestEffect DEF Base, Accept, Undecided
<1>2. /\ call[r] = "pending"
       /\ call'[r] = "accepted"
       /\ MakesNothing
       /\ stray' = stray
  BY DEF Base, MakesNothing, Remembers, Lost, Accept, TypeOK
<1>3. Stage(r) BY DEF Base, StageOK
<1>4. OthersKept(r) BY <1>1, <1>2 DEF Base, Lost, OthersKept, Becomes, Accept, TypeOK
<1>5. Stage(r)'
  BY Distinct, <1>1, <1>2, <1>3 DEF Becomes, Stage, Releases, Completes, Resolves,
     Marks, Live
<1>6. HolderMoves(r)
  BY <1>1, <1>2, <1>3 DEF Becomes, Stage, HolderMoves, Holder, AtWork, Releases, Completes,
     Resolves, Marks, Live
<1>7. RecordMoves(r) BY <1>2 DEF RecordMoves
<1>8. AnswerMoves(r) BY <1>1, <1>2, <1>3 DEF Becomes, AnswerMoves, Stage, Definite
<1>9. Taken(r)'
  <2>1. \A q \in Requests : call[q] = "accepted" => call'[q] = "accepted"
    BY DEF Base, MakesNothing, Remembers, Lost, Accept, TypeOK
  <2>. QED BY <2>1, <1>1 DEF Base, TakenOK, Taken, Happened
<1>10. PromiseMoves(r)
  BY <1>1, <1>2, <1>3 DEF Becomes, PromiseMoves, Asks, Delivers, Tells, Rests, Stage,
     Live, MakesNothing
<1>. QED BY <1>4, <1>5, <1>6, <1>7, <1>8, <1>9, <1>10 DEF Moves

\* Crash makes no other move.
LEMMA CrashMoves ==
    ASSUME Base, NEW r \in Requests, Crash(r)
    PROVE  Moves(r)
<1>1. Becomes(r, "done", request[r].digest, request[r].outcome, request[r].answer)
  BY RequestEffect DEF Base, Crash, Undecided
<1>2. /\ request[r].at \notin {"idle", "done"}
       /\ MakesNothing
       /\ call' = call
       /\ (stray'[r] = stray[r] \/ stray'[r] = stray[r] \cup {request[r].at})
  BY DEF Base, MakesNothing, Remembers, Lost, Crash, TypeOK
<1>3. Stage(r) BY DEF Base, StageOK
<1>4. OthersKept(r) BY <1>1, <1>2 DEF Base, Lost, OthersKept, Becomes, Crash, TypeOK
<1>5. Stage(r)'
  BY Distinct, <1>1, <1>2, <1>3 DEF Becomes, Stage, Releases, Completes, Resolves,
     Marks, Live
<1>6. HolderMoves(r)
  BY <1>1, <1>2, <1>3 DEF Becomes, Stage, HolderMoves, Holder, AtWork, Releases, Completes,
     Resolves, Marks, Live
<1>7. RecordMoves(r) BY <1>2 DEF RecordMoves
<1>8. AnswerMoves(r) BY <1>1, <1>2, <1>3 DEF Becomes, AnswerMoves, Stage, Definite
<1>9. Taken(r)' BY <1>1, <1>4, <1>6, TakenKept
<1>10. PromiseMoves(r)
  BY <1>1, <1>2, <1>3 DEF Becomes, PromiseMoves, Asks, Delivers, Tells, Rests, Stage, Live
<1>. QED BY <1>4, <1>5, <1>6, <1>7, <1>8, <1>9, <1>10 DEF Moves

\* Resend makes no other move: the call it leaves behind is one of its step.
LEMMA ResendMoves ==
    ASSUME Base, NEW r \in Requests, Resend(r)
    PROVE  Moves(r)
<1>1. request' = request BY DEF Resend
<1>2. /\ request[r].at \in StoreOps
      /\ MakesNothing
      /\ call' = call
      /\ stray'[r] = stray[r] \cup {request[r].at}
      /\ Resends
  BY DEF Base, Resend, MakesNothing, Remembers, Lost, TypeOK
<1>3. Stage(r) BY DEF Base, StageOK
<1>4. OthersKept(r) BY <1>1, <1>2 DEF Base, Resend, Lost, OthersKept, TypeOK
<1>5. /\ Completes(r)' <=> Completes(r)
      /\ Marks(r)' <=> Marks(r)
      /\ Releases(r)' <=> Releases(r)
      /\ Resolves(r)' <=> Resolves(r)
      /\ Live(r)' <=> Live(r)
  BY <1>1, <1>2 DEF Completes, Marks, Releases, Resolves, Live
<1>6. Stage(r)' BY <1>1, <1>2, <1>3, <1>5 DEF Stage, StoreOps
<1>7. HolderMoves(r)
  <2>1. AtWork(r)' <=> AtWork(r) BY <1>1, <1>2, <1>5 DEF AtWork
  <2>. QED BY <2>1, <1>1, <1>2, <1>5 DEF HolderMoves, Holder
<1>8. RecordMoves(r) BY <1>2 DEF RecordMoves
<1>9. AnswerMoves(r) BY <1>1, <1>2 DEF AnswerMoves, Definite
<1>10. Taken(r)' BY <1>1, <1>2 DEF Base, TakenOK, Taken, Happened
<1>11. PromiseMoves(r) BY <1>1, <1>2 DEF PromiseMoves, Rests
<1>. QED BY <1>4, <1>6, <1>7, <1>8, <1>9, <1>10, <1>11 DEF Moves

\* RunStray makes no other move.
LEMMA RunStrayMoves ==
    ASSUME Base, NEW r \in Requests, RunStray(r)
    PROVE  Moves(r)
<1>1. PICK op \in stray[r] : Runs(op, r) /\ stray' = [stray EXCEPT ![r] = @ \ {op}]
  BY DEF RunStray
<1>2. request' = request /\ call' = call BY DEF RunStray
<1>3. Stage(r) /\ TypeOK BY DEF Base, StageOK
<1>4. stray'[r] = stray[r] \ {op} BY <1>1, <1>3 DEF TypeOK
<1>5. OthersKept(r) BY <1>1, <1>2, <1>3 DEF OthersKept, TypeOK
<1>6. /\ Completes(r)' => Completes(r)
      /\ Marks(r)' => Marks(r)
      /\ Releases(r)' => Releases(r)
      /\ Resolves(r)' => Resolves(r)
      /\ Live(r)' <=> Live(r)
  BY <1>2, <1>4 DEF Completes, Marks, Releases, Resolves, Live
<1>7. Stage(r)' BY <1>2, <1>3, <1>4, <1>6 DEF Stage
<1>8. HolderMoves(r)
  <2>1. AtWork(r)' => AtWork(r) BY <1>2, <1>4, <1>6 DEF AtWork
  <2>. QED BY <2>1, <1>2, <1>6 DEF HolderMoves, Holder
<1>9. AnswerMoves(r) BY <1>2 DEF AnswerMoves, Definite
<1>10. Taken(r)' BY <1>2 DEF Base, TakenOK, Taken, Happened
<1>11. RecordMoves(r)
  <2>1. op \in StoreOps BY <1>3 DEF TypeOK
  <2>2. CASE op = "claim" BY <2>2, <1>1, <1>3, RunsEffect DEF RecordMoves
  <2>3. CASE op = "complete"
    BY <2>3, <1>1, <1>3, RunsEffect DEF RecordMoves, Completes
  <2>4. CASE op \in {"expire", "mark"} BY <2>4, <1>1, <1>3, RunsEffect DEF RecordMoves
  <2>5. CASE op = "release"
    <3>1. Releases(r) BY <2>5 DEF Releases
    <3>2. ~AtWork(r)
      BY <3>1, <1>3 DEF Stage, AtWork, Completes, Marks
    <3>3. ~AtWork(r)' BY <3>2, <1>2, <1>4, <1>6 DEF AtWork
    <3>4. ~Resends => ~Releases(r)'
      BY <3>1, <2>5, <1>2, <1>3, <1>4 DEF Stage, Releases
    <3>. QED BY <3>1, <3>3, <3>4, <2>5, <1>1, <1>3, RunsEffect DEF RecordMoves, Holder
  <2>6. CASE op = "resolve" BY <2>6, <1>1, <1>3, RunsEffect DEF RecordMoves, Resolves
  <2>. QED BY <2>1, <2>2, <2>3, <2>4, <2>5, <2>6 DEF StoreOps
<1>12. PromiseMoves(r) BY <1>2 DEF PromiseMoves, Rests
<1>. QED BY <1>5, <1>7, <1>8, <1>9, <1>10, <1>11, <1>12 DEF Moves

-----------------------------------------------------------------------------
(* The invariant                                                           *)

\* A step changes nothing of the other requests that the invariant reads.
LEMMA MovesOthers ==
    ASSUME NEW r \in Requests, OthersKept(r), NEW q \in Requests, q # r
    PROVE  /\ Stage(q)' <=> Stage(q)
           /\ Holder(q)' <=> Holder(q)
           /\ AtWork(q)' <=> AtWork(q)
           /\ Live(q)' <=> Live(q)
<1>1. request'[q] = request[q] /\ call'[q] = call[q] /\ stray'[q] = stray[q]
  BY DEF OthersKept
<1>2. /\ Live(q)' <=> Live(q)
      /\ Completes(q)' <=> Completes(q)
      /\ Marks(q)' <=> Marks(q)
      /\ Releases(q)' <=> Releases(q)
      /\ Resolves(q)' <=> Resolves(q)
  BY <1>1 DEF Live, Completes, Marks, Releases, Resolves
<1>3. AtWork(q)' <=> AtWork(q) BY <1>1, <1>2 DEF AtWork
<1>. QED BY <1>1, <1>2, <1>3 DEF Stage, Holder

\* What holds whatever was deleted: the record names a success that happened.
LEMMA MovesBase ==
    ASSUME Base, TypeOK', NEW r \in Requests, Moves(r)
    PROVE  Base'
<1>0. OthersKept(r) /\ HolderMoves(r) /\ StageOK /\ Stage(r) /\ Taken(r) /\ RecordNamed
  BY DEF Moves, Base, StageOK, TakenOK
<1>1. ASSUME NEW q \in Requests PROVE Stage(q)'
  BY <1>0, <1>1, MovesOthers DEF Moves, StageOK
<1>2. ASSUME NEW q \in Requests PROVE Taken(q)'
  <2>1. CASE q = r BY <2>1 DEF Moves
  <2>2. CASE q # r
    <3>1. request'[q] = request[q] BY <2>2 DEF Moves, OthersKept
    <3>2. Taken(q) BY DEF Base, TakenOK
    <3>3. SUFFICES ASSUME request[q].outcome \in Requests
                   PROVE  Happened(request[q].outcome, request[q].digest)'
      BY <3>1 DEF Taken
    <3>4. Happened(request[q].outcome, request[q].digest) BY <3>2, <3>3 DEF Taken
    <3>5. PICK o \in Requests : o = request[q].outcome BY <3>3
    <3>6. PICK d : d = request[q].digest OBVIOUS
    <3>7. Happened(o, d)' BY <3>4, <3>5, <3>6, <1>0, HappenedKept
    <3>. QED BY <3>1, <3>5, <3>6, <3>7 DEF Happened
  <2>. QED BY <2>1, <2>2
<1>3. RecordNamed'
  <2>1. ASSUME NEW o \in Requests, Happened(o, record.digest)
        PROVE  call'[o] = "accepted" /\ (Reconciles \/ request'[o].digest = record.digest)
    <3>1. PICK d : d = record.digest OBVIOUS
    <3>2. Happened(o, d)' BY <2>1, <3>1, <1>0, HappenedKept
    <3>. QED BY <3>1, <3>2 DEF Happened
  <2>2. ASSUME NEW o \in Requests, o = request[r].outcome
        PROVE  /\ call'[o] = "accepted"
               /\ Reconciles \/ request'[o].digest = request[r].digest
    <3>1. PICK d : d = request[r].digest OBVIOUS
    <3>2. Happened(o, d) BY <2>2, <3>1, <1>0 DEF Taken
    <3>3. Happened(o, d)' BY <3>2, <1>0, HappenedKept
    <3>. QED BY <3>1, <3>3 DEF Happened
  <2>3. CASE record' = record
    BY <1>0, <2>1, <2>3 DEF RecordNamed, Happened
  <2>4. CASE MakesClaim(r) BY <2>4 DEF MakesClaim, Made, RecordNamed
  <2>5. CASE Completes(r) /\ MakesOutcome(r)
    <3>1. request[r].outcome \in Requests \cup {"refused", "broken"}
      BY <1>0, <2>5 DEF Base, TypeOK, RequestOK, Outcomes, Stage
    <3>2. record' = Made(Verdict(request[r].outcome), r, request[r].outcome)
      BY <2>5 DEF MakesOutcome
    <3>3. CASE request[r].outcome \in Requests
      BY <2>2, <3>2, <3>3 DEF Made, Verdict, RecordNamed, Happened
    <3>4. CASE request[r].outcome \notin Requests
      BY <3>1, <3>2, <3>4 DEF Made, Verdict, RecordNamed
    <3>. QED BY <3>3, <3>4
  <2>6. CASE MakesAmbiguous(r) BY <2>6 DEF MakesAmbiguous, Made, RecordNamed
  <2>7. CASE MakesNone(r) BY <2>7 DEF MakesNone, NoRecord, RecordNamed
  <2>8. CASE Resolves(r) /\ MakesFound(r)
    <3>1. request[r].outcome \in Requests BY <1>0, <2>8 DEF Stage
    <3>. QED BY <2>2, <2>8, <3>1 DEF MakesFound, Made, RecordNamed, Happened
  <2>. QED BY <2>3, <2>4, <2>5, <2>6, <2>7, <2>8 DEF Moves, RecordMoves, MakesNothing
<1>. QED BY <1>1, <1>2, <1>3 DEF Base, StageOK, TakenOK

\* Only a release can make the key forgotten, and it stays so.
LEMMA MovesMemory ==
    ASSUME TypeOK, NEW r \in Requests, Moves(r)
    PROVE  /\ forgotten => forgotten'
           /\ forgotten' /\ ~forgotten =>
                /\ Releases(r) /\ ~Holder(r)' /\ MakesNone(r)
                /\ \E q \in Requests \ {r} : AtWork(q)
BY DEF TypeOK, Moves, RecordMoves, MakesNothing, MakesClaim, MakesOutcome, MakesAmbiguous,
       MakesFound, MakesNone, Remembers

\* A release that runs once belongs to the holder, so it deletes no claim of
\* another request: nothing is forgotten unless the store client resends.
LEMMA MovesForgets ==
    ASSUME Inv, NEW r \in Requests, Moves(r), forgotten', ~Resends
    PROVE  FALSE
<1>1. ~forgotten /\ TypeOK /\ OneHolder BY DEF Inv, Base, Keyed
<1>2. Releases(r) /\ \E q \in Requests \ {r} : AtWork(q) BY <1>1, MovesMemory
<1>3. PICK q \in Requests \ {r} : Holder(q) /\ Holder(r) BY <1>2 DEF Holder
<1>. QED BY <1>1, <1>3 DEF OneHolder

\* The holder can only change when there was none: the claim is taken when no
\* record exists, and then nobody holds the key.
LEMMA MovesHolder ==
    ASSUME Keyed, NEW r \in Requests, Moves(r)
    PROVE  OneHolder'
<1>1. OthersKept(r) /\ HolderMoves(r) BY DEF Moves
<1>2. ASSUME NEW q \in Requests, q # r PROVE Holder(q)' <=> Holder(q)
  BY <1>1, <1>2, MovesOthers
<1>3. ASSUME NEW q \in Requests, q # r, Holder(q)', Holder(r)' PROVE FALSE
  <2>1. Holder(q) BY <1>2, <1>3
  <2>2. ~Holder(r) BY <2>1, <1>3 DEF Keyed, OneHolder
  <2>3. record.state = "none" BY <1>1, <1>3, <2>2 DEF HolderMoves, MakesClaim
  <2>. QED BY <2>1, <2>3 DEF Keyed, HolderRecorded
<1>. QED BY <1>2, <1>3 DEF OneHolder, Keyed

\* The record stays the holder's: what is settled keeps the body, and only
\* the holder's own release deletes it, or the key is forgotten.
LEMMA MovesHolderRecorded ==
    ASSUME Base, Keyed, ~forgotten', NEW r \in Requests, Moves(r)
    PROVE  HolderRecorded'
<1>1. OthersKept(r) /\ HolderMoves(r) /\ TypeOK BY DEF Moves, Base
<1>2. ASSUME NEW q \in Requests, q # r PROVE Holder(q)' <=> Holder(q)
  BY <1>1, <1>2, MovesOthers
<1>3. SUFFICES ASSUME NEW q \in Requests, Holder(q)'
               PROVE  record'.state # "none" /\ record'.digest = request'[q].digest
  BY DEF HolderRecorded
<1>4. CASE MakesClaim(r)
  <2>1. ~Holder(q) BY <1>4 DEF MakesClaim, Keyed, HolderRecorded
  <2>2. q = r BY <2>1, <1>2, <1>3
  <2>3. request'[r].digest = request[r].digest BY <1>1, <1>4 DEF HolderMoves
  <2>4. record' = Made("processing", r, Nobody) BY <1>4 DEF MakesClaim
  <2>. QED BY <2>2, <2>3, <2>4 DEF Made
<1>5. CASE ~MakesClaim(r)
  <2>1. Holder(q) BY <1>1, <1>2, <1>3, <1>5 DEF HolderMoves
  <2>2. record.state # "none" /\ record.digest = request[q].digest
    BY <2>1 DEF Keyed, HolderRecorded
  <2>3. request'[q].digest = request[q].digest
    <3>1. CASE q # r BY <3>1, <1>1 DEF OthersKept
    <3>2. CASE q = r
      <4>1. Stage(r) BY DEF Base, StageOK
      <4>2. request[r].at # "idle"
        BY <4>1, <3>2, <2>1 DEF Stage, Holder, AtWork, Completes, Marks, Releases, Live
      <4>. QED BY <4>2, <3>2, <1>1 DEF HolderMoves
    <3>. QED BY <3>1, <3>2
  <2>4. CASE record' = record BY <2>2, <2>3, <2>4
  <2>5. CASE MakesOutcome(r)
    BY <2>2, <2>3, <2>5 DEF MakesOutcome, Mine, Made, Verdict
  <2>6. CASE MakesAmbiguous(r) BY <2>2, <2>3, <2>6 DEF MakesAmbiguous, Mine, Made
  <2>7. CASE Releases(r) /\ ~Holder(r)' /\ MakesNone(r)
    <3>1. q # r BY <1>3, <2>7
    <3>2. ~AtWork(q) BY <2>7, <3>1 DEF MakesNone
    <3>3. ~Resends /\ Releases(q) BY <2>1, <3>2 DEF Holder
    <3>4. Holder(r) BY <2>7, <3>3 DEF Holder
    <3>. QED BY <3>1, <3>4, <2>1 DEF Keyed, OneHolder
  <2>8. CASE MakesFound(r) BY <2>2, <2>3, <2>8 DEF MakesFound, Ambiguous, Made
  <2>. QED BY <1>5, <2>4, <2>5, <2>6, <2>7, <2>8 DEF Moves, RecordMoves, MakesNothing
<1>. QED BY <1>4, <1>5

\* A recorded refusal is the holder's, whose own call has then ended, and
\* nobody else has one.
LEMMA MovesRejectedOver ==
    ASSUME Base, Keyed, NEW r \in Requests, Moves(r)
    PROVE  RejectedOver'
<1>1. OthersKept(r) /\ HolderMoves(r) /\ Stage(r) BY DEF Moves, Base, StageOK
<1>2. ASSUME NEW q \in Requests, q # r, ~Live(q), request[q].at # "send"
      PROVE  ~Live(q)' /\ request'[q].at # "send"
  BY <1>1, <1>2, MovesOthers DEF OthersKept
<1>3. ASSUME ~Live(r), request[r].at # "send", ~MakesClaim(r)
      PROVE  ~Live(r)' /\ request'[r].at # "send"
  BY <1>1, <1>3 DEF HolderMoves
<1>4. CASE record' = record
  <2>1. SUFFICES ASSUME record.state = "rejected", NEW q \in Requests
                 PROVE  ~Live(q)' /\ request'[q].at # "send"
    BY <1>4 DEF RejectedOver
  <2>2. ~Live(q) /\ request[q].at # "send" BY <2>1 DEF Keyed, RejectedOver
  <2>3. ~MakesClaim(r) BY <2>1 DEF MakesClaim
  <2>. QED BY <1>2, <1>3, <2>2, <2>3
<1>5. CASE MakesClaim(r) BY <1>5 DEF MakesClaim, Made, RejectedOver
<1>6. CASE Completes(r) /\ MakesOutcome(r)
  <2>1. Holder(r) BY <1>6 DEF Holder, AtWork, Completes
  <2>2. CASE request[r].outcome \in Requests
    <3>1. record'.state = "completed" BY <1>6, <2>2 DEF MakesOutcome, Made, Verdict
    <3>. QED BY <3>1 DEF RejectedOver
  <2>3. CASE request[r].outcome \notin Requests
    <3>1. ~Live(r) /\ request[r].at # "send"
      BY <1>1, <1>6, <2>3 DEF Stage, Completes
    <3>2. ~MakesClaim(r) BY <1>6 DEF MakesClaim, MakesOutcome, Mine
    <3>3. ASSUME NEW q \in Requests, q # r PROVE ~Live(q) /\ request[q].at # "send"
      <4>1. ~Holder(q) BY <3>3, <2>1 DEF Keyed, OneHolder
      <4>. QED BY <4>1 DEF Holder, AtWork
    <3>. QED BY <1>2, <1>3, <3>1, <3>2, <3>3 DEF RejectedOver
  <2>. QED BY <2>2, <2>3
<1>7. CASE MakesAmbiguous(r) BY <1>7 DEF MakesAmbiguous, Made, RejectedOver
<1>8. CASE MakesNone(r) BY <1>8 DEF MakesNone, NoRecord, RejectedOver
<1>9. CASE MakesFound(r) BY <1>9 DEF MakesFound, Made, RejectedOver
<1>. QED BY <1>4, <1>5, <1>6, <1>7, <1>8, <1>9 DEF Moves, RecordMoves, MakesNothing

\* A definite answer is given from the record, which is then settled for good.
LEMMA MovesAnswersRecorded ==
    ASSUME Inv, NEW r \in Requests, Moves(r)
    PROVE  AnswersRecorded'
<1>1. SUFFICES ASSUME NEW q \in Requests, request'[q].answer \in Definite
      PROVE /\ record'.state \in {"completed", "rejected"}
            /\ record'.outcome = request'[q].outcome
            /\ record'.digest = request'[q].digest
            /\ AnswerOf(record'.outcome) = request'[q].answer
  BY DEF AnswersRecorded, AnswerOf
<1>2. CASE request[q].answer \in Definite
  <2>1. /\ request'[q].answer = request[q].answer
        /\ request'[q].outcome = request[q].outcome
        /\ request'[q].digest = request[q].digest
    BY <1>2 DEF Inv, Base, StageOK, Stage, Moves, OthersKept, AnswerMoves, HolderMoves,
       Definite
  <2>2. record.state \in {"completed", "rejected"} BY <1>2 DEF Inv, AnswersRecorded
  <2>3. record' = record
    BY <2>2 DEF Moves, RecordMoves, MakesNothing, MakesClaim, MakesOutcome,
       MakesAmbiguous, MakesNone, MakesFound, Mine, Ambiguous
  <2>. QED BY <2>1, <2>2, <2>3, <1>2 DEF Inv, AnswersRecorded
<1>3. CASE request[q].answer \notin Definite
  <2>1. q = r BY <1>1, <1>3 DEF Moves, OthersKept
  <2>2. request[r].answer = "none" BY <1>1, <1>3, <2>1 DEF Moves, AnswerMoves
  <2>. QED BY <1>1, <2>1, <2>2 DEF Moves, AnswerMoves
<1>. QED BY <1>2, <1>3

\* A step that makes only the moves above keeps the invariant.
LEMMA MovesInvariant ==
    ASSUME Inv, TypeOK', NEW r \in Requests, Moves(r)
    PROVE  Inv'
<1>1. Base' BY MovesBase DEF Inv
<1>2. AnswersRecorded' BY MovesAnswersRecorded
<1>3. forgotten' => Resends BY MovesForgets
<1>4. ASSUME ~forgotten' PROVE Keyed'
  <2>1. Base /\ Keyed BY <1>4, MovesMemory DEF Inv, Base
  <2>. QED BY <2>1, <1>4, MovesHolder, MovesHolderRecorded, MovesRejectedOver DEF Keyed
<1>. QED BY <1>1, <1>2, <1>3, <1>4 DEF Inv

\* Every step of a request makes only those moves.
LEMMA StepMoves ==
    ASSUME Inv, NEW r \in Requests,
           Handle(r) \/ Accept(r) \/ Crash(r) \/ Resend(r) \/ RunStray(r)
    PROVE  Moves(r)
<1>1. Base BY DEF Inv
<1>. QED BY <1>1, ArriveMoves, TurnAwayMoves, ClaimMoves, ExpireMoves,
   LoseClaimMoves, SendMoves, NotSentMoves, LookupFailsMoves, FindSentMoves,
   HearSuccessMoves, HearNothingMoves, HearRateLimitMoves, HearRefusalMoves,
   CompleteMoves, LoseCompleteMoves, MarkMoves, LoseMarkMoves, ReleaseMoves,
   LoseReleaseMoves, ReconcileMoves, ResolveMoves, LoseResolveMoves, AcceptMoves,
   CrashMoves, ResendMoves, RunStrayMoves DEF Handle

\* What the invariant reads of the requests is as it was.
LEMMA Untouched ==
    ASSUME UNCHANGED <<request, call, stray>>, NEW r \in Requests
    PROVE  /\ Stage(r)' <=> Stage(r)
           /\ Taken(r)' <=> Taken(r)
           /\ Holder(r)' <=> Holder(r)
           /\ Live(r)' <=> Live(r)
<1>1. /\ Live(r)' <=> Live(r)
      /\ Completes(r)' <=> Completes(r)
      /\ Marks(r)' <=> Marks(r)
      /\ Releases(r)' <=> Releases(r)
      /\ Resolves(r)' <=> Resolves(r)
  BY DEF Live, Completes, Marks, Releases, Resolves
<1>2. AtWork(r)' <=> AtWork(r) BY <1>1 DEF AtWork
<1>. QED BY <1>1, <1>2 DEF Stage, Taken, Happened, Holder

\* A step that changes no more than the age of the record keeps the invariant.
LEMMA AgeInvariant ==
    ASSUME Inv, TypeOK', Age \/ UNCHANGED vars
    PROVE  Inv'
<1>1. /\ record'.state = record.state
      /\ record'.digest = record.digest
      /\ record'.outcome = record.outcome
      /\ UNCHANGED <<request, call, stray, forgotten>>
  BY DEF Age, Inv, Base, TypeOK, RecordOK, vars
<1>2. StageOK' /\ TakenOK' /\ (OneHolder => OneHolder')
  BY <1>1, Untouched DEF Inv, Base, StageOK, TakenOK, OneHolder
<1>3. HolderRecorded => HolderRecorded'
  BY <1>1, Untouched DEF HolderRecorded
<1>4. RecordNamed' /\ AnswersRecorded'
  BY <1>1 DEF Inv, Base, RecordNamed, AnswersRecorded, Happened, AnswerOf
<1>5. RejectedOver => RejectedOver' BY <1>1, Untouched DEF RejectedOver
<1>. QED BY <1>1, <1>2, <1>3, <1>4, <1>5 DEF Inv, Base, Keyed

\* The invariant is inductive.
LEMMA InvStep ==
    ASSUME Inv, [Next]_vars
    PROVE  Inv'
<1>1. TypeOK' BY TypesStep DEF Inv, Base
<1>2. ASSUME NEW r \in Requests,
             Handle(r) \/ Accept(r) \/ Crash(r) \/ Resend(r) \/ RunStray(r)
      PROVE  Inv'
  BY <1>1, <1>2, StepMoves, MovesInvariant
<1>3. CASE Age \/ UNCHANGED vars BY <1>1, <1>3, AgeInvariant
<1>. QED BY <1>2, <1>3 DEF Next

\* The invariant holds at first: there is no record and no request.
LEMMA InvInit == Init => Inv
<1>1. SUFFICES ASSUME Init PROVE Inv OBVIOUS
<1>2. \A r \in Requests : /\ request[r] = NewRequest
                          /\ call[r] = "none"
                          /\ stray[r] = {}
  BY <1>1 DEF Init
<1>3. \A r \in Requests :
        /\ ~Live(r) /\ ~Completes(r) /\ ~Resolves(r) /\ ~Releases(r) /\ ~Marks(r)
        /\ ~Holder(r)
  BY <1>2 DEF Holder, AtWork, Completes, Marks, Releases, Resolves, Live, NewRequest
<1>4. StageOK BY <1>2, <1>3 DEF StageOK, Stage, NewRequest
<1>5. record.state = "none" /\ record.outcome = Nobody BY <1>1 DEF Init, NoRecord
<1>6. TakenOK BY <1>2, Distinct DEF TakenOK, Taken, NewRequest
<1>7. Base BY <1>1, <1>4, <1>5, <1>6, TypesInit DEF Base, RecordNamed
<1>8. AnswersRecorded BY <1>2 DEF AnswersRecorded, Definite, NewRequest
<1>9. Keyed BY <1>3, <1>5 DEF Keyed, OneHolder, HolderRecorded, RejectedOver
<1>10. ~forgotten BY <1>1 DEF Init
<1>. QED BY <1>7, <1>8, <1>9, <1>10 DEF Inv

\* The invariant holds throughout.
LEMMA RelayInvariant == Spec => []Inv
<1>1. Inv /\ [Next]_vars => Inv' BY InvStep
<1>. QED BY <1>1, InvInit, PTL DEF Spec

-----------------------------------------------------------------------------
(* What the invariant gives                                                *)

\* A claim is only ever deleted under a request at work by a release that the
\* store client sent twice: without repeated calls nothing below has an
\* exception.
THEOREM NothingForgotten == Spec => [](forgotten => Resends)
<1>1. Inv => (forgotten => Resends) BY DEF Inv
<1>. QED BY <1>1, RelayInvariant, PTL

\* At most one provider call under a key counts, unless a repeated release
\* deleted a claim: the claim is exclusive, and a stale one is never acquired
\* (ClaimOutbound, store.go).
THEOREM AtMostOnceHolds == Spec => []AtMostOnce
<1>1. Inv => AtMostOnce
  BY DEF Inv, Keyed, OneHolder, Holder, AtWork, AtMostOnce, OnlyOnce
<1>. QED BY <1>1, RelayInvariant, PTL

\* Every success names a message the provider took, with the body that the
\* caller asked for; the Gmail relay can fail the body only once a claim was
\* deleted.
THEOREM RepliesAgreeHolds == Spec => []RepliesAgree
<1>1. ASSUME Inv PROVE RepliesAgree
  <2>1. SUFFICES ASSUME NEW r \in Requests, request[r].answer = "delivered"
        PROVE \E q \in Requests :
                 /\ request[r].outcome = q
                 /\ call[q] = "accepted"
                 /\ request[r].digest = request[q].digest \/ (Reconciles /\ forgotten)
    BY DEF RepliesAgree
  <2>2. /\ record.state \in {"completed", "rejected"}
        /\ record.outcome = request[r].outcome
        /\ record.digest = request[r].digest
        /\ AnswerOf(record.outcome) = "delivered"
    BY <1>1, <2>1 DEF Inv, AnswersRecorded, Definite
  <2>3. record.state = "completed"
    BY <1>1, <2>2, Distinct DEF Inv, Base, RecordNamed, AnswerOf
  <2>4. record.outcome \in Requests /\ Happened(record.outcome, record.digest)
    BY <1>1, <2>3 DEF Inv, Base, RecordNamed
  <2>5. ~forgotten => record.digest = request[record.outcome].digest
    BY <1>1, <2>4 DEF Inv, Keyed, HolderRecorded, Holder, AtWork, Live, Happened
  <2>. QED BY <2>2, <2>4, <2>5 DEF Happened
<1>. QED BY <1>1, RelayInvariant, PTL

\* A caller told that the message is rejected will never see it delivered,
\* unless a repeated release deleted a claim.
THEOREM RejectedUndeliveredHolds == Spec => []RejectedUndelivered
<1>1. ASSUME Inv PROVE RejectedUndelivered
  <2>1. SUFFICES ASSUME ~forgotten, NEW r \in Requests, request[r].answer = "rejected"
                 PROVE  \A q \in Requests : ~Live(q)
    BY DEF RejectedUndelivered
  <2>2. /\ record.state \in {"completed", "rejected"}
        /\ AnswerOf(record.outcome) = "rejected"
    BY <1>1, <2>1 DEF Inv, AnswersRecorded, Definite
  <2>3. record.outcome \notin Requests BY <2>2, Distinct DEF AnswerOf
  <2>4. record.state = "rejected" BY <1>1, <2>2, <2>3 DEF Inv, Base, RecordNamed
  <2>. QED BY <1>1, <2>1, <2>4 DEF Inv, Keyed, RejectedOver
<1>. QED BY <1>1, RelayInvariant, PTL

-----------------------------------------------------------------------------
(* The relay implements OnceDelivery                                       *)

\* A step that takes nothing new leaves the provider with what it held.
LEMMA HeldSame ==
    ASSUME \A q \in Requests : call'[q] = "accepted" <=> call[q] = "accepted"
    PROVE  Held' = Held
BY DEF Held

\* What each request was told, one answer at a time.
LEMMA ToldIs ==
    ASSUME NEW r \in Requests
    PROVE  /\ request[r].answer = "none" => Told[r] = "nothing"
           /\ request[r].answer = "delivered" => Told[r] = request[r].outcome
           /\ request[r].answer = "rejected" => Told[r] = "rejected"
           /\ request[r].answer \notin {"none", "delivered", "rejected"} => Told[r] = "unknown"
BY DEF Told, Word

\* A step in which r is told nothing new and takes no part leaves the promise's
\* state as it was.
LEMMA TellsOthers ==
    ASSUME NEW r \in Requests, OthersKept(r)
    PROVE  /\ \A q \in Requests : q # r => Told'[q] = Told[q] /\ Asked'[q] = Asked[q]
           /\ Told = [q \in Requests |-> Told[q]] /\ Told' = [q \in Requests |-> Told'[q]]
           /\ Asked = [q \in Requests |-> Asked[q]] /\ Asked' = [q \in Requests |-> Asked'[q]]
           /\ Asked[r] = request[r].digest /\ Asked'[r] = request'[r].digest
BY DEF OthersKept, Told, Asked, Word

\* A step of the relay is a step of the promise, or changes nothing of it.
LEMMA MovesPromise ==
    ASSUME Inv, Inv', AtMostOnce, AtMostOnce', RepliesAgree, RepliesAgree',
           RejectedUndelivered, RejectedUndelivered', NEW r \in Requests, Moves(r)
    PROVE  Promise!Next \/ UNCHANGED Promise!vars
<1>1. OthersKept(r) BY DEF Moves
<1>0. TypeOK /\ StageOK /\ TypeOK' BY DEF Inv, Base
<1>2. CASE Asks(r)
  <2>1. Held' = Held BY <1>1, <1>2, HeldSame DEF OthersKept, Asks
  <2>2. Told'[r] = Told[r] BY <1>2, ToldIs DEF Asks, Told, Word
  <2>3. Told' = Told BY <1>1, <2>2, TellsOthers
  <2>4. Asked[r] = Nobody /\ Asked'[r] \in Digests BY <1>1, <1>2, TellsOthers DEF Asks
  <2>5. Asked' = [Asked EXCEPT ![r] = Asked'[r]] BY <1>1, TellsOthers
  <2>6. forgotten' = forgotten BY <1>2 DEF Asks, Remembers
  <2>7. Promise!Ask(r) BY <2>1, <2>3, <2>4, <2>5, <2>6 DEF Promise!Ask
  <2>. QED BY <2>7 DEF Promise!Next
<1>3. CASE Delivers(r)
  <2>1. request' = request
    BY <1>0, <1>1, <1>3 DEF OthersKept, Delivers, TypeOK, RequestOK
  <2>2. Told' = Told /\ Asked' = Asked BY <2>1 DEF Told, Asked, Word
  <2>3. Asked[r] \in Digests
    BY <1>0, <1>1, <1>3, TellsOthers DEF StageOK, Stage, Live, Delivers
  <2>4. Held' = Held \cup {r} BY <1>1, <1>3 DEF Held, OthersKept, Delivers
  <2>5. ~forgotten => Held = {}
    BY <1>3 DEF AtMostOnce, OnlyOnce, Live, Delivers, Held
  <2>6. ASSUME ~forgotten, NEW q \in Requests PROVE Told[q] # "rejected"
    <3>1. request[q].answer # "rejected"
      BY <1>3, <2>6 DEF RejectedUndelivered, Live, Delivers
    <3>2. request[q].answer # "delivered"
      BY <2>5, <2>6 DEF RepliesAgree, Held
    <3>. QED BY <3>1, <3>2, ToldIs
  <2>7. forgotten' = forgotten BY <1>3 DEF Delivers, Remembers
  <2>8. Promise!Deliver(r)
    BY <2>2, <2>3, <2>4, <2>5, <2>6, <2>7, RelayAssumption
       DEF Promise!Deliver, Promise!Rejected
  <2>. QED BY <2>8 DEF Promise!Next
<1>4. CASE Tells(r)
  <2>1. Held' = Held BY <1>1, <1>4, HeldSame DEF OthersKept, Tells
  <2>2. Asked' = Asked BY <1>1, <1>4, TellsOthers DEF Tells
  <2>3. Told[r] = "nothing" BY <1>4, ToldIs DEF Tells
  <2>4. Told' = [Told EXCEPT ![r] = Told'[r]] BY <1>1, TellsOthers
  <2>5. ASSUME request'[r].answer \in Definite PROVE forgotten' = forgotten
    <3>1. record'.state # "none" BY <1>4, <2>5 DEF Moves, AnswerMoves, Tells
    <3>. QED
      BY <3>1 DEF Moves, RecordMoves, MakesNothing, MakesClaim, MakesOutcome,
         MakesAmbiguous, MakesFound, MakesNone, NoRecord, Remembers
  <2>6. CASE request'[r].answer = "delivered"
    <3>1. PICK q \in Requests :
             /\ request'[r].outcome = q
             /\ call'[q] = "accepted"
             /\ request'[r].digest = request'[q].digest \/ forgotten'
      BY <2>6 DEF RepliesAgree
    <3>2. q \in Held BY <3>1, <1>1, <1>4 DEF Held, OthersKept, Tells
    <3>3. Told'[r] = q BY <2>6, <3>1 DEF Told
    <3>4. forgotten' = forgotten BY <2>5, <2>6 DEF Definite
    <3>5. forgotten \/ Asked[r] = Asked[q] BY <2>2, <3>1, <3>4 DEF Asked
    <3>6. Promise!Tell(r, q) BY <2>3, <2>4, <3>3 DEF Promise!Tell, Promise!Nothing
    <3>7. Promise!TellDelivered(r)
      BY <2>1, <2>2, <3>2, <3>4, <3>5, <3>6 DEF Promise!TellDelivered
    <3>. QED BY <3>7 DEF Promise!Next
  <2>7. CASE request'[r].answer = "rejected"
    <3>1. forgotten' = forgotten BY <2>5, <2>7 DEF Definite
    <3>2. forgotten \/ Held = {}
      BY <2>1, <2>7, <3>1 DEF RejectedUndelivered, Live, Held
    <3>3. Told'[r] = "rejected" BY <2>7 DEF Told, Word
    <3>4. Promise!TellRejected(r)
      BY <2>1, <2>2, <2>3, <2>4, <3>1, <3>2, <3>3
         DEF Promise!TellRejected, Promise!Tell, Promise!Nothing, Promise!Rejected
    <3>. QED BY <3>4 DEF Promise!Next
  <2>8. CASE request'[r].answer \notin {"none", "delivered", "rejected"}
    <3>1. Told'[r] = "unknown" BY <2>8 DEF Told, Word
    <3>2. forgotten' \in {forgotten, TRUE}
      BY <1>0, MovesMemory DEF TypeOK
    <3>3. Promise!TellUnknown(r)
      BY <2>1, <2>2, <2>3, <2>4, <3>1, <3>2
         DEF Promise!TellUnknown, Promise!Tell, Promise!Nothing, Promise!Unknown
    <3>. QED BY <3>3 DEF Promise!Next
  <2>. QED BY <1>4, <2>6, <2>7, <2>8 DEF Tells
<1>5. CASE Rests(r)
  <2>1. Held' = Held BY <1>1, <1>5, HeldSame DEF OthersKept, Rests
  <2>2. Asked' = Asked BY <1>1, <1>5, TellsOthers DEF Rests
  <2>3. Told'[r] = Told[r] BY <1>5 DEF Rests, Told, Word
  <2>4. Told' = Told BY <1>1, <2>3, TellsOthers
  <2>5. CASE forgotten' = forgotten BY <2>1, <2>2, <2>4, <2>5 DEF Promise!vars
  <2>6. CASE forgotten' # forgotten
    <3>1. forgotten' = TRUE BY <1>0, <2>6, MovesMemory DEF TypeOK
    <3>2. Promise!Void BY <2>1, <2>2, <2>4, <3>1 DEF Promise!Void
    <3>. QED BY <3>2 DEF Promise!Next
  <2>. QED BY <2>5, <2>6
<1>. QED BY <1>2, <1>3, <1>4, <1>5 DEF Moves, PromiseMoves

\* At first nobody has asked and the provider holds nothing.
LEMMA PromiseInit == Init => Promise!Init
BY DEF Init, NewRequest, Promise!Init, Promise!Nothing, Asked, Held, Told, Word

\* The relay keeps its promise: seen through what callers asked, what the
\* provider holds and what callers were told, it delivers once and tells the
\* truth (docs/meta-relay.md, the paragraph on outbound idempotency), and only
\* a release that ran twice voids the promise.
THEOREM KeepsPromiseHolds == Spec => KeepsPromise
<1>1. ASSUME Inv, Inv', AtMostOnce, AtMostOnce', RepliesAgree, RepliesAgree',
             RejectedUndelivered, RejectedUndelivered', [Next]_vars
      PROVE  [Promise!Next]_(Promise!vars)
  <2>1. ASSUME NEW r \in Requests,
               Handle(r) \/ Accept(r) \/ Crash(r) \/ Resend(r) \/ RunStray(r)
        PROVE  Promise!Next \/ UNCHANGED Promise!vars
    BY <1>1, <2>1, StepMoves, MovesPromise
  <2>2. CASE Age BY <2>2 DEF Age, Promise!vars, Asked, Held, Told, Word
  <2>3. CASE UNCHANGED vars BY <2>3 DEF vars, Promise!vars, Asked, Held, Told, Word
  <2>. QED BY <1>1, <2>1, <2>2, <2>3 DEF Next
<1>. QED
  BY <1>1, PromiseInit, RelayInvariant, AtMostOnceHolds, RepliesAgreeHolds,
     RejectedUndeliveredHolds, PTL DEF Spec, KeepsPromise, Promise!Spec
=============================================================================
