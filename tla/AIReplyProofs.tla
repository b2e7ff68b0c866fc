---------------------------- MODULE AIReplyProofs ----------------------------
(***************************************************************************)
(* Safety of the automatic replies for any number of workers, messages,    *)
(* credential generations and faults.                                      *)
(***************************************************************************)
EXTENDS AIReply, TLAPS

\* Before its question is authorized a job has no trace of one.
Unsent ==
    \A m \in Messages : status[m] \in {"absent", "ignored", "pending", "processing"} =>
        asked[m] = 0 /\ record[m] = "none" /\ reply[m] = "none"

Crossed == {"generating"} \cup Settled

InFence == {"ask", "asking", "record"}

\* A worker between authorization and record is the only one that is there
\* for its job, and the job's question is its own.
Crossing ==
    \A w \in Workers : pc[w] \in InFence =>
        /\ status[cur[w]] \in Crossed
        /\ record[cur[w]] = "started"
        /\ marker[cur[w]] = mem[w]
        /\ asked[cur[w]] = IF pc[w] = "ask" THEN 0 ELSE 1
        /\ \A v \in Workers : pc[v] \in InFence /\ cur[v] = cur[w] => v = w

\* What came of a question is on record only after the question.
Answered ==
    \A m \in Messages : /\ asked[m] \in {0, 1}
                        /\ record[m] \in {"resolved", "uncertain"} => asked[m] = 1

\* A worker that has claimed a generating job has claimed an answer.
Recovering ==
    \A w \in Workers :
        pc[w] = "load" /\ holder[cur[w]] = w /\ status[cur[w]] = "generating" =>
            record[cur[w]] = "resolved"

\* A worker that will queue a reply has its answer on record, and remembers
\* no generation but the one the question was authorized under.
Finalizing ==
    \A w \in Workers : pc[w] = "finalize" =>
        /\ status[cur[w]] \in Crossed
        /\ record[cur[w]] = "resolved"
        /\ mem[w] # 0 => marker[cur[w]] = mem[w]

\* From the authorization on the policy is the one that was checked.
Undisturbed ==
    \A w \in Workers : pc[w] \in {"ask", "asking"} =>
        /\ enabled /\ ~paused /\ ~transfer
        /\ cur[w] \notin cut
        /\ mem[w] = gen

\* The inductive invariant.
Inv ==
    /\ TypeOK
    /\ Unsent
    /\ Crossing
    /\ Answered
    /\ Recovering
    /\ Finalizing
    /\ Undisturbed
    /\ RepliedRightly
    /\ LostUnanswered

\* A message that arrives has no trace of a question.
LEMMA KeptByArrive ==
  ASSUME Inv, NEW m \in Messages, Arrive(m)
  PROVE  Inv'

<1>1. TypeOK'
  BY DEF Inv, TypeOK, Arrive, Aside, policy, mind, Allowed, Statuses, Open,
      Settled
<1>2. Unsent'
  BY DEF Inv, Arrive, Aside, policy, mind, Allowed, Unsent
<1>3. Crossing'
  BY DEF Inv, Arrive, Aside, policy, mind, Allowed, Crossing, Crossed,
      InFence, Settled
<1>4. Answered'
  BY DEF Inv, Arrive, Aside, policy, mind, Allowed, Answered
<1>5. Recovering'
  BY DEF Inv, Arrive, Aside, policy, mind, Allowed, Recovering
<1>6. Finalizing'
  BY DEF Inv, Arrive, Aside, policy, mind, Allowed, Finalizing, Crossed,
      Settled
<1>7. Undisturbed'
  BY DEF Inv, Arrive, Aside, policy, mind, Allowed, Undisturbed
<1>8. RepliedRightly'
  BY DEF Inv, Arrive, Aside, policy, mind, Allowed, RepliedRightly
<1>9. LostUnanswered'
  BY DEF Inv, Arrive, Aside, policy, mind, Allowed, LostUnanswered
<1>. QED
  BY <1>1, <1>2, <1>3, <1>4, <1>5, <1>6, <1>7, <1>8, <1>9 DEF Inv

\* What lapses is not part of the invariant.
LEMMA KeptByLapse ==
  ASSUME Inv, NEW m \in Messages, Lapse(m)
  PROVE  Inv'

<1>1. TypeOK'
  BY DEF Inv, TypeOK, Lapse, Aside, job, mind, Arrived, Statuses, Open,
      Settled
<1>2. Unsent'
  BY DEF Inv, Lapse, Aside, job, mind, Arrived, Unsent
<1>3. Crossing'
  BY DEF Inv, Lapse, Aside, job, mind, Arrived, Crossing, Crossed, InFence,
      Settled
<1>4. Answered'
  BY DEF Inv, Lapse, Aside, job, mind, Arrived, Answered
<1>5. Recovering'
  BY DEF Inv, Lapse, Aside, job, mind, Arrived, Recovering
<1>6. Finalizing'
  BY DEF Inv, Lapse, Aside, job, mind, Arrived, Finalizing, Crossed, Settled
<1>7. Undisturbed'
  BY DEF Inv, Lapse, Aside, job, mind, Arrived, Undisturbed
<1>8. RepliedRightly'
  BY DEF Inv, Lapse, Aside, job, mind, Arrived, RepliedRightly
<1>9. LostUnanswered'
  BY DEF Inv, Lapse, job, mind, Arrived, LostUnanswered
<1>. QED
  BY <1>1, <1>2, <1>3, <1>4, <1>5, <1>6, <1>7, <1>8, <1>9 DEF Inv

\* The outbox dispatches what was queued.
LEMMA KeptByDispatch ==
  ASSUME Inv, NEW m \in Messages, Dispatch(m)
  PROVE  Inv'

<1>1. TypeOK'
  BY DEF Inv, TypeOK, Dispatch, Aside, policy, mind, Statuses, Open, Settled
<1>2. Unsent'
  BY DEF Inv, Dispatch, Aside, policy, mind, Unsent
<1>3. Crossing'
  BY DEF Inv, Dispatch, Aside, policy, mind, Crossing, Crossed, InFence,
      Settled
<1>4. Answered'
  BY DEF Inv, Dispatch, Aside, policy, mind, Answered
<1>5. Recovering'
  BY DEF Inv, Dispatch, Aside, policy, mind, Recovering
<1>6. Finalizing'
  BY DEF Inv, Dispatch, Aside, policy, mind, Finalizing, Crossed, Settled
<1>7. Undisturbed'
  BY DEF Inv, Dispatch, Aside, policy, mind, Undisturbed
<1>8. RepliedRightly'
  BY DEF Inv, Dispatch, Aside, policy, mind, RepliedRightly
<1>9. LostUnanswered'
  BY DEF Inv, Dispatch, Aside, policy, mind, LostUnanswered
<1>. QED
  BY <1>1, <1>2, <1>3, <1>4, <1>5, <1>6, <1>7, <1>8, <1>9 DEF Inv

\* A pause waits for the fence, and cancels only what was not authorized.
LEMMA KeptByPause ==
  ASSUME Inv, Pause
  PROVE  Inv'

<1>1. TypeOK'
  BY DEF Inv, TypeOK, Pause, CancelQueued, Aside, mind, Fenced, Arrived,
      Statuses, Open, Settled
<1>2. Unsent'
  BY DEF Inv, Pause, CancelQueued, Aside, mind, Fenced, Arrived, Unsent
<1>3. Crossing'
  BY DEF Inv, Pause, Aside, mind, Fenced, Arrived, Crossing, Crossed,
      InFence, Settled
<1>4. Answered'
  BY DEF Inv, Pause, Aside, mind, Fenced, Arrived, Answered
<1>5. Recovering'
  BY DEF Inv, TypeOK, Pause, CancelQueued, Aside, mind, Fenced, Arrived,
      Recovering
<1>6. Finalizing'
  BY DEF Inv, TypeOK, Pause, CancelQueued, Aside, mind, Fenced, Arrived,
      Finalizing, Crossed, Settled
<1>7. Undisturbed'
  BY DEF Inv, Pause, Aside, mind, Fenced, Arrived, Undisturbed
<1>8. RepliedRightly'
  BY DEF Inv, Pause, CancelQueued, Aside, mind, Fenced, Arrived,
      RepliedRightly
<1>9. LostUnanswered'
  BY DEF Inv, Pause, CancelQueued, Aside, mind, Fenced, Arrived,
      LostUnanswered
<1>. QED
  BY <1>1, <1>2, <1>3, <1>4, <1>5, <1>6, <1>7, <1>8, <1>9 DEF Inv

LEMMA KeptByUnpause ==
  ASSUME Inv, Unpause
  PROVE  Inv'

<1>1. TypeOK'
  BY DEF Inv, TypeOK, Unpause, Aside, job, mind, Fenced, Statuses, Open,
      Settled
<1>2. Unsent'
  BY DEF Inv, Unpause, Aside, job, mind, Fenced, Unsent
<1>3. Crossing'
  BY DEF Inv, Unpause, Aside, job, mind, Fenced, Crossing, Crossed, InFence,
      Settled
<1>4. Answered'
  BY DEF Inv, Unpause, Aside, job, mind, Fenced, Answered
<1>5. Recovering'
  BY DEF Inv, Unpause, Aside, job, mind, Fenced, Recovering
<1>6. Finalizing'
  BY DEF Inv, Unpause, Aside, job, mind, Fenced, Finalizing, Crossed, Settled
<1>7. Undisturbed'
  BY DEF Inv, Unpause, Aside, job, mind, Fenced, Undisturbed
<1>8. RepliedRightly'
  BY DEF Inv, Unpause, Aside, job, mind, Fenced, RepliedRightly
<1>9. LostUnanswered'
  BY DEF Inv, Unpause, job, mind, Fenced, LostUnanswered
<1>. QED
  BY <1>1, <1>2, <1>3, <1>4, <1>5, <1>6, <1>7, <1>8, <1>9 DEF Inv

\* So does a disabled account.
LEMMA KeptByDisable ==
  ASSUME Inv, Disable
  PROVE  Inv'

<1>1. TypeOK'
  BY DEF Inv, TypeOK, Disable, CancelQueued, Aside, mind, Fenced, Statuses,
      Open, Settled
<1>2. Unsent'
  BY DEF Inv, Disable, CancelQueued, Aside, mind, Fenced, Unsent
<1>3. Crossing'
  BY DEF Inv, Disable, Aside, mind, Fenced, Crossing, Crossed, InFence,
      Settled
<1>4. Answered'
  BY DEF Inv, Disable, Aside, mind, Fenced, Answered
<1>5. Recovering'
  BY DEF Inv, TypeOK, Disable, CancelQueued, Aside, mind, Fenced, Recovering
<1>6. Finalizing'
  BY DEF Inv, TypeOK, Disable, CancelQueued, Aside, mind, Fenced, Finalizing,
      Crossed, Settled
<1>7. Undisturbed'
  BY DEF Inv, Disable, Aside, mind, Fenced, Undisturbed
<1>8. RepliedRightly'
  BY DEF Inv, Disable, CancelQueued, Aside, mind, Fenced, RepliedRightly
<1>9. LostUnanswered'
  BY DEF Inv, Disable, CancelQueued, Aside, mind, Fenced, LostUnanswered
<1>. QED
  BY <1>1, <1>2, <1>3, <1>4, <1>5, <1>6, <1>7, <1>8, <1>9 DEF Inv

LEMMA KeptByEnable ==
  ASSUME Inv, Enable
  PROVE  Inv'

<1>1. TypeOK'
  BY DEF Inv, TypeOK, Enable, Aside, job, mind, Fenced, Statuses, Open,
      Settled
<1>2. Unsent'
  BY DEF Inv, Enable, Aside, job, mind, Fenced, Unsent
<1>3. Crossing'
  BY DEF Inv, Enable, Aside, job, mind, Fenced, Crossing, Crossed, InFence,
      Settled
<1>4. Answered'
  BY DEF Inv, Enable, Aside, job, mind, Fenced, Answered
<1>5. Recovering'
  BY DEF Inv, Enable, Aside, job, mind, Fenced, Recovering
<1>6. Finalizing'
  BY DEF Inv, Enable, Aside, job, mind, Fenced, Finalizing, Crossed, Settled
<1>7. Undisturbed'
  BY DEF Inv, Enable, Aside, job, mind, Fenced, Undisturbed
<1>8. RepliedRightly'
  BY DEF Inv, Enable, Aside, job, mind, Fenced, RepliedRightly
<1>9. LostUnanswered'
  BY DEF Inv, Enable, job, mind, Fenced, LostUnanswered
<1>. QED
  BY <1>1, <1>2, <1>3, <1>4, <1>5, <1>6, <1>7, <1>8, <1>9 DEF Inv

\* A handoff waits for the fence.
LEMMA KeptByHandoff ==
  ASSUME Inv, Handoff
  PROVE  Inv'

<1>1. TypeOK'
  BY DEF Inv, TypeOK, Handoff, Aside, job, mind, Fenced, Arrived, Statuses,
      Open, Settled
<1>2. Unsent'
  BY DEF Inv, Handoff, Aside, job, mind, Fenced, Arrived, Unsent
<1>3. Crossing'
  BY DEF Inv, Handoff, Aside, job, mind, Fenced, Arrived, Crossing, Crossed,
      InFence, Settled
<1>4. Answered'
  BY DEF Inv, Handoff, Aside, job, mind, Fenced, Arrived, Answered
<1>5. Recovering'
  BY DEF Inv, Handoff, Aside, job, mind, Fenced, Arrived, Recovering
<1>6. Finalizing'
  BY DEF Inv, Handoff, Aside, job, mind, Fenced, Arrived, Finalizing,
      Crossed, Settled
<1>7. Undisturbed'
  BY DEF Inv, Handoff, Aside, job, mind, Fenced, Arrived, Undisturbed
<1>8. RepliedRightly'
  BY DEF Inv, Handoff, Aside, job, mind, Fenced, Arrived, RepliedRightly
<1>9. LostUnanswered'
  BY DEF Inv, Handoff, job, mind, Fenced, Arrived, LostUnanswered
<1>. QED
  BY <1>1, <1>2, <1>3, <1>4, <1>5, <1>6, <1>7, <1>8, <1>9 DEF Inv

LEMMA KeptByResumeFromTransfer ==
  ASSUME Inv, ResumeFromTransfer
  PROVE  Inv'

<1>1. TypeOK'
  BY DEF Inv, TypeOK, ResumeFromTransfer, Aside, job, mind, Fenced, Statuses,
      Open, Settled
<1>2. Unsent'
  BY DEF Inv, ResumeFromTransfer, Aside, job, mind, Fenced, Unsent
<1>3. Crossing'
  BY DEF Inv, ResumeFromTransfer, Aside, job, mind, Fenced, Crossing,
      Crossed, InFence, Settled
<1>4. Answered'
  BY DEF Inv, ResumeFromTransfer, Aside, job, mind, Fenced, Answered
<1>5. Recovering'
  BY DEF Inv, ResumeFromTransfer, Aside, job, mind, Fenced, Recovering
<1>6. Finalizing'
  BY DEF Inv, ResumeFromTransfer, Aside, job, mind, Fenced, Finalizing,
      Crossed, Settled
<1>7. Undisturbed'
  BY DEF Inv, ResumeFromTransfer, Aside, job, mind, Fenced, Undisturbed
<1>8. RepliedRightly'
  BY DEF Inv, ResumeFromTransfer, Aside, job, mind, Fenced, RepliedRightly
<1>9. LostUnanswered'
  BY DEF Inv, ResumeFromTransfer, job, mind, Fenced, LostUnanswered
<1>. QED
  BY <1>1, <1>2, <1>3, <1>4, <1>5, <1>6, <1>7, <1>8, <1>9 DEF Inv

\* So does a change of credentials.
LEMMA KeptByRebind ==
  ASSUME Inv, Rebind
  PROVE  Inv'

<1>1. TypeOK'
  BY DEF Inv, TypeOK, Rebind, CancelQueued, Aside, mind, Fenced, Statuses,
      Open, Settled
<1>2. Unsent'
  BY DEF Inv, Rebind, CancelQueued, Aside, mind, Fenced, Unsent
<1>3. Crossing'
  BY DEF Inv, Rebind, Aside, mind, Fenced, Crossing, Crossed, InFence,
      Settled
<1>4. Answered'
  BY DEF Inv, Rebind, Aside, mind, Fenced, Answered
<1>5. Recovering'
  BY DEF Inv, TypeOK, Rebind, CancelQueued, Aside, mind, Fenced, Recovering
<1>6. Finalizing'
  BY DEF Inv, TypeOK, Rebind, CancelQueued, Aside, mind, Fenced, Finalizing,
      Crossed, Settled
<1>7. Undisturbed'
  BY DEF Inv, Rebind, Aside, mind, Fenced, Undisturbed
<1>8. RepliedRightly'
  BY DEF Inv, Rebind, CancelQueued, Aside, mind, Fenced, RepliedRightly
<1>9. LostUnanswered'
  BY DEF Inv, Rebind, CancelQueued, Aside, mind, Fenced, LostUnanswered
<1>. QED
  BY <1>1, <1>2, <1>3, <1>4, <1>5, <1>6, <1>7, <1>8, <1>9 DEF Inv

\* A generating job is claimed only with its answer on record.
LEMMA KeptByClaim ==
  ASSUME Inv, NEW w \in Workers, Claim(w)
  PROVE  Inv'

<1>1. TypeOK'
  BY AIReplyAssumption DEF Inv, TypeOK, Claim, ClaimPending, ClaimStale,
      ClaimResolved, ClaimAmbiguous, Stale, Take, Goto, policy, mind,
      Statuses, Open, Settled
<1>2. Unsent'
  BY DEF Inv, TypeOK, Claim, ClaimPending, ClaimStale, ClaimResolved,
      ClaimAmbiguous, Stale, Take, Goto, policy, mind, Unsent
<1>3. Crossing'
  BY DEF Inv, TypeOK, Claim, ClaimPending, ClaimStale, ClaimResolved,
      ClaimAmbiguous, Stale, Take, Goto, policy, mind, Crossing, Crossed,
      InFence, Settled
<1>4. Answered'
  BY DEF Inv, Claim, ClaimPending, ClaimStale, ClaimResolved, ClaimAmbiguous,
      Stale, Take, Goto, policy, mind, Answered
<1>5. Recovering'
  BY DEF Inv, TypeOK, Claim, ClaimPending, ClaimStale, ClaimResolved,
      ClaimAmbiguous, Stale, Take, Goto, policy, mind, Recovering
<1>6. Finalizing'
  BY DEF Inv, TypeOK, Claim, ClaimPending, ClaimStale, ClaimResolved,
      ClaimAmbiguous, Stale, Take, Goto, policy, mind, Finalizing, Crossed,
      Settled
<1>7. Undisturbed'
  BY DEF Inv, TypeOK, Claim, ClaimPending, ClaimStale, ClaimResolved,
      ClaimAmbiguous, Stale, Take, Goto, policy, mind, Undisturbed
<1>8. RepliedRightly'
  BY DEF Inv, TypeOK, Claim, ClaimPending, ClaimStale, ClaimResolved,
      ClaimAmbiguous, Stale, Take, Goto, policy, mind, RepliedRightly
<1>9. LostUnanswered'
  BY DEF Inv, TypeOK, Claim, ClaimPending, ClaimStale, ClaimResolved,
      ClaimAmbiguous, Stale, Take, Goto, policy, mind, LostUnanswered
<1>. QED
  BY <1>1, <1>2, <1>3, <1>4, <1>5, <1>6, <1>7, <1>8, <1>9 DEF Inv

\* What is loaded was claimed with its answer.
LEMMA KeptByLoad ==
  ASSUME Inv, NEW w \in Workers, Load(w)
  PROVE  Inv'

<1>1. TypeOK'
  BY AIReplyAssumption DEF Inv, TypeOK, Load, Owns, Settle, Goto, Idle,
      Fenced, policy, Statuses, Open, Settled
<1>2. Unsent'
  BY DEF Inv, TypeOK, Load, Settle, Goto, Idle, Fenced, policy, Unsent
<1>3. Crossing'
  BY DEF Inv, TypeOK, Load, Settle, Goto, Idle, Fenced, policy, Crossing,
      Crossed, InFence, Settled
<1>4. Answered'
  BY DEF Inv, Load, Settle, Goto, Idle, Fenced, policy, Answered
<1>5. Recovering'
  BY DEF Inv, TypeOK, Load, Settle, Goto, Idle, Fenced, policy, Recovering
<1>6. Finalizing'
  BY DEF Inv, TypeOK, Load, Owns, Settle, Goto, Idle, Recovering, Finalizing,
         Crossed, Settled
<1>7. Undisturbed'
  BY DEF Inv, TypeOK, Load, Settle, Goto, Idle, Fenced, policy, Undisturbed
<1>8. RepliedRightly'
  BY DEF Inv, TypeOK, Load, Settle, Goto, Idle, Fenced, policy,
      RepliedRightly
<1>9. LostUnanswered'
  BY DEF Inv, TypeOK, Load, Settle, Goto, Idle, Fenced, policy,
      LostUnanswered
<1>. QED
  BY <1>1, <1>2, <1>3, <1>4, <1>5, <1>6, <1>7, <1>8, <1>9 DEF Inv

\* The one step by which a worker enters the fence: the job was processing, so
\* that nobody was in it for that job, and it has no question yet.
LEMMA KeptByAuthorize ==
  ASSUME Inv, NEW w \in Workers, Authorize(w)
  PROVE  Inv'

<1>1. TypeOK'
  BY AIReplyAssumption DEF Inv, TypeOK, Authorize, AuthorizeLate,
      AuthorizeRefused, AuthorizeGo, Owns, Verdict, Allowed, Settle, Goto,
      Idle, job, policy, Statuses, Open, Settled
<1>2. Unsent'
  BY DEF Inv, TypeOK, Authorize, AuthorizeLate, AuthorizeRefused,
      AuthorizeGo, Owns, Verdict, Allowed, Settle, Goto, Idle, job, policy,
      Unsent
<1>3. Crossing'
  <2>. USE DEF Inv, TypeOK, Authorize, Crossing, Crossed, InFence, Settled, Goto, Idle, job
  <2>1. CASE AuthorizeLate(w)
    BY <2>1 DEF AuthorizeLate
  <2>2. CASE AuthorizeRefused(w)
    BY <2>2 DEF AuthorizeRefused, Settle, Owns, Verdict
  <2>3. CASE AuthorizeGo(w)
    <3>1. asked[cur[w]] = 0 /\ status[cur[w]] = "processing"
      BY <2>3 DEF AuthorizeGo, Owns, Unsent
    <3>2. \A v \in Workers : pc[v] \in InFence => cur[v] # cur[w]
      BY <3>1
    <3>. QED
      BY <2>3, <3>1, <3>2 DEF AuthorizeGo
  <2>. QED
    BY <2>1, <2>2, <2>3
<1>4. Answered'
  BY DEF Inv, TypeOK, Authorize, AuthorizeLate, AuthorizeRefused,
      AuthorizeGo, Owns, Verdict, Allowed, Settle, Goto, Idle, job, policy,
      Answered
<1>5. Recovering'
  BY DEF Inv, TypeOK, Authorize, AuthorizeLate, AuthorizeRefused,
      AuthorizeGo, Owns, Verdict, Allowed, Settle, Goto, Idle, job, policy,
      Recovering
<1>6. Finalizing'
  BY DEF Inv, TypeOK, Authorize, AuthorizeLate, AuthorizeRefused,
      AuthorizeGo, Owns, Verdict, Allowed, Settle, Goto, Idle, job, policy,
      Finalizing, Crossed, Settled
<1>7. Undisturbed'
  BY DEF Inv, TypeOK, Authorize, AuthorizeLate, AuthorizeRefused,
      AuthorizeGo, Owns, Verdict, Allowed, Settle, Goto, Idle, job, policy,
      Undisturbed
<1>8. RepliedRightly'
  BY DEF Inv, TypeOK, Authorize, AuthorizeLate, AuthorizeRefused,
      AuthorizeGo, Owns, Verdict, Allowed, Settle, Goto, Idle, job, policy,
      RepliedRightly
<1>9. LostUnanswered'
  BY DEF Inv, TypeOK, Authorize, AuthorizeLate, AuthorizeRefused,
      AuthorizeGo, Owns, Verdict, Allowed, Settle, Goto, Idle, job, policy,
      LostUnanswered
<1>. QED
  BY <1>1, <1>2, <1>3, <1>4, <1>5, <1>6, <1>7, <1>8, <1>9 DEF Inv

\* The question is the first.
LEMMA KeptByAsk ==
  ASSUME Inv, NEW w \in Workers, Ask(w)
  PROVE  Inv'

<1>1. TypeOK'
  BY DEF Inv, TypeOK, Ask, Goto, job, policy, Statuses, Open, Settled
<1>2. Unsent'
  BY DEF Inv, TypeOK, Ask, Goto, job, Unsent, Crossing, Crossed, InFence, Settled
<1>3. Crossing'
  BY DEF Inv, TypeOK, Ask, Goto, job, policy, Crossing, Crossed, InFence,
      Settled
<1>4. Answered'
  BY DEF Inv, TypeOK, Ask, Goto, job, Answered, Crossing, InFence
<1>5. Recovering'
  BY DEF Inv, Ask, Goto, job, policy, Recovering
<1>6. Finalizing'
  BY DEF Inv, Ask, Goto, job, policy, Finalizing, Crossed, Settled
<1>7. Undisturbed'
  BY DEF Inv, Ask, Goto, job, policy, Undisturbed
<1>8. RepliedRightly'
  BY DEF Inv, TypeOK, Ask, Goto, job, RepliedRightly, Crossing, InFence
<1>9. LostUnanswered'
  BY DEF Inv, Ask, job, policy, LostUnanswered
<1>. QED
  BY <1>1, <1>2, <1>3, <1>4, <1>5, <1>6, <1>7, <1>8, <1>9 DEF Inv

LEMMA KeptByAnswer ==
  ASSUME Inv, NEW w \in Workers, Answer(w)
  PROVE  Inv'

<1>1. TypeOK'
  BY DEF Inv, TypeOK, Answer, Goto, job, policy, Statuses, Open, Settled
<1>2. Unsent'
  BY DEF Inv, Answer, job, policy, Unsent
<1>3. Crossing'
  BY DEF Inv, Answer, Goto, job, policy, Crossing, Crossed, InFence, Settled
<1>4. Answered'
  BY DEF Inv, Answer, job, policy, Answered
<1>5. Recovering'
  BY DEF Inv, Answer, Goto, job, policy, Recovering
<1>6. Finalizing'
  BY DEF Inv, Answer, Goto, job, policy, Finalizing, Crossed, Settled
<1>7. Undisturbed'
  BY DEF Inv, Answer, Goto, job, policy, Undisturbed
<1>8. RepliedRightly'
  BY DEF Inv, Answer, job, policy, RepliedRightly
<1>9. LostUnanswered'
  BY DEF Inv, Answer, job, policy, LostUnanswered
<1>. QED
  BY <1>1, <1>2, <1>3, <1>4, <1>5, <1>6, <1>7, <1>8, <1>9 DEF Inv

\* The worker is the only one in the fence for its job: nobody finalizes it.
LEMMA KeptByRecord ==
  ASSUME Inv, NEW w \in Workers, Record(w)
  PROVE  Inv'

<1>1. TypeOK'
  BY DEF Inv, TypeOK, Record, Recorded, Owns, Goto, policy, Statuses, Open,
      Settled
<1>2. Unsent'
  BY DEF Inv, Record, Recorded, Owns, Goto, policy, Unsent
<1>3. Crossing'
  BY DEF Inv, TypeOK, Record, Recorded, Owns, Goto, policy, Crossing,
      Crossed, InFence, Settled
<1>4. Answered'
  BY DEF Inv, TypeOK, Record, Recorded, Owns, Goto, Answered, Crossing, InFence
<1>5. Recovering'
  BY DEF Inv, Record, Recorded, Owns, Goto, policy, Recovering
<1>6. Finalizing'
  <2>1. record[cur[w]] = "started" /\ marker[cur[w]] = mem[w]
        /\ status[cur[w]] \in Crossed
    BY DEF Inv, Record, Crossing, InFence
  <2>2. \A v \in Workers : pc[v] = "finalize" => cur[v] # cur[w]
    BY <2>1 DEF Inv, Finalizing
  <2>. QED
    BY <2>1, <2>2 DEF Inv, TypeOK, Record, Recorded, Owns, Goto, Finalizing, Crossed, Settled
<1>7. Undisturbed'
  BY DEF Inv, Record, Owns, Goto, policy, Undisturbed
<1>8. RepliedRightly'
  BY DEF Inv, Record, Recorded, Owns, Goto, policy, RepliedRightly
<1>9. LostUnanswered'
  BY DEF Inv, Record, Recorded, Owns, Goto, policy, LostUnanswered
<1>. QED
  BY <1>1, <1>2, <1>3, <1>4, <1>5, <1>6, <1>7, <1>8, <1>9 DEF Inv

\* So it is if the record fails.
LEMMA KeptByRecordFails ==
  ASSUME Inv, NEW w \in Workers, RecordFails(w)
  PROVE  Inv'

<1>1. TypeOK'
  BY AIReplyAssumption DEF Inv, TypeOK, RecordFails, Recorded, Owns, Goto,
      policy, Statuses, Open, Settled
<1>2. Unsent'
  BY DEF Inv, TypeOK, RecordFails, Recorded, Owns, Goto, policy, Unsent
<1>3. Crossing'
  BY DEF Inv, TypeOK, RecordFails, Recorded, Owns, Goto, policy, Crossing,
      Crossed, InFence, Settled
<1>4. Answered'
  BY DEF Inv, TypeOK, RecordFails, Recorded, Owns, Goto, Answered, Crossing, InFence
<1>5. Recovering'
  BY DEF Inv, TypeOK, RecordFails, Recorded, Owns, Goto, policy, Recovering
<1>6. Finalizing'
  <2>1. record[cur[w]] = "started" /\ marker[cur[w]] = mem[w]
        /\ status[cur[w]] \in Crossed
    BY DEF Inv, RecordFails, Crossing, InFence
  <2>2. \A v \in Workers : pc[v] = "finalize" => cur[v] # cur[w]
    BY <2>1 DEF Inv, Finalizing
  <2>. QED
    BY <2>1, <2>2 DEF Inv, TypeOK, RecordFails, Recorded, Owns, Goto, Finalizing, Crossed, Settled
<1>7. Undisturbed'
  BY DEF Inv, RecordFails, Owns, Goto, policy, Undisturbed
<1>8. RepliedRightly'
  BY DEF Inv, TypeOK, RecordFails, Recorded, Owns, Goto, policy,
      RepliedRightly
<1>9. LostUnanswered'
  BY DEF Inv, TypeOK, RecordFails, Recorded, Owns, Goto, policy,
      LostUnanswered
<1>. QED
  BY <1>1, <1>2, <1>3, <1>4, <1>5, <1>6, <1>7, <1>8, <1>9 DEF Inv

LEMMA KeptByFail ==
  ASSUME Inv, NEW w \in Workers, Fail(w)
  PROVE  Inv'

<1>1. TypeOK'
  BY AIReplyAssumption DEF Inv, TypeOK, Fail, Settle, Idle, Goto, policy,
      Statuses, Open, Settled
<1>2. Unsent'
  BY DEF Inv, TypeOK, Fail, Settle, Idle, Goto, policy, Unsent
<1>3. Crossing'
  BY DEF Inv, TypeOK, Fail, Settle, Idle, Goto, policy, Crossing, Crossed,
      InFence, Settled
<1>4. Answered'
  BY DEF Inv, Fail, Idle, Goto, policy, Answered
<1>5. Recovering'
  BY DEF Inv, TypeOK, Fail, Settle, Idle, Goto, policy, Recovering
<1>6. Finalizing'
  BY DEF Inv, TypeOK, Fail, Settle, Idle, Goto, policy, Finalizing, Crossed,
      Settled
<1>7. Undisturbed'
  BY DEF Inv, Fail, Idle, Goto, policy, Undisturbed
<1>8. RepliedRightly'
  BY DEF Inv, TypeOK, Fail, Settle, Idle, Goto, policy, RepliedRightly
<1>9. LostUnanswered'
  BY DEF Inv, TypeOK, Fail, Settle, Idle, Goto, policy, LostUnanswered
<1>. QED
  BY <1>1, <1>2, <1>3, <1>4, <1>5, <1>6, <1>7, <1>8, <1>9 DEF Inv

LEMMA KeptBySettleRefused ==
  ASSUME Inv, NEW w \in Workers, SettleRefused(w)
  PROVE  Inv'

<1>1. TypeOK'
  BY AIReplyAssumption DEF Inv, TypeOK, SettleRefused, Settle, Idle, Goto,
      policy, Statuses, Open, Settled
<1>2. Unsent'
  BY DEF Inv, TypeOK, SettleRefused, Settle, Idle, Goto, policy, Unsent
<1>3. Crossing'
  BY DEF Inv, TypeOK, SettleRefused, Settle, Idle, Goto, policy, Crossing,
      Crossed, InFence, Settled
<1>4. Answered'
  BY DEF Inv, SettleRefused, Idle, Goto, policy, Answered
<1>5. Recovering'
  BY DEF Inv, TypeOK, SettleRefused, Settle, Idle, Goto, policy, Recovering
<1>6. Finalizing'
  BY DEF Inv, TypeOK, SettleRefused, Settle, Idle, Goto, policy, Finalizing,
      Crossed, Settled
<1>7. Undisturbed'
  BY DEF Inv, SettleRefused, Idle, Goto, policy, Undisturbed
<1>8. RepliedRightly'
  BY DEF Inv, TypeOK, SettleRefused, Settle, Idle, Goto, policy,
      RepliedRightly
<1>9. LostUnanswered'
  BY DEF Inv, TypeOK, SettleRefused, Settle, Idle, Goto, policy,
      LostUnanswered
<1>. QED
  BY <1>1, <1>2, <1>3, <1>4, <1>5, <1>6, <1>7, <1>8, <1>9 DEF Inv

\* A reply is queued from an answer on record.
LEMMA KeptByFinalize ==
  ASSUME Inv, NEW w \in Workers, Finalize(w)
  PROVE  Inv'

<1>1. TypeOK'
  <2>1. cur[w] \in Messages
    BY DEF Inv, TypeOK, Finalize
  <2>2. status' \in [Messages -> Statuses] /\ holder' \in [Messages -> Workers \cup {Nobody}]
    BY <2>1 DEF Inv, TypeOK, Finalize, FinalizeLate, FinalizeRefused, FinalizeReply,
                FinalizeHandoff, Settle, job, Statuses, Open, Settled
  <2>3. /\ reply' \in [Messages -> {"none", "queued", "dispatched", "cancelled"}]
        /\ record' = record /\ marker' = marker
        /\ transfer' \in BOOLEAN /\ cut' \subseteq Messages
    BY <2>1 DEF Inv, TypeOK, Finalize, FinalizeLate, FinalizeRefused, FinalizeReply,
                FinalizeHandoff, Arrived, job
  <2>4. /\ pc' = [pc EXCEPT ![w] = "idle"]
        /\ cur' = [cur EXCEPT ![w] = Nobody]
        /\ mem' = [mem EXCEPT ![w] = 0]
        /\ got' = [got EXCEPT ![w] = "nothing"]
        /\ UNCHANGED <<enabled, paused, lapsed, gen, asked, faults>>
    BY DEF Finalize, Idle, Goto
  <2>. QED
    BY <2>2, <2>3, <2>4, AIReplyAssumption DEF Inv, TypeOK
<1>2. Unsent'
  BY DEF Inv, TypeOK, Finalize, FinalizeLate, FinalizeRefused, FinalizeReply,
      FinalizeHandoff, SameBinding, Owns, Verdict, Allowed, Settle, Idle,
      Goto, Fenced, Arrived, job, Unsent
<1>3. Crossing'
  BY DEF Inv, Finalize, FinalizeRefused, FinalizeReply, FinalizeHandoff,
      SameBinding, Owns, Verdict, Allowed, Settle, Idle, Goto, Fenced,
      Arrived, job, Crossing, Crossed, InFence, Settled
<1>4. Answered'
  BY DEF Inv, Finalize, FinalizeLate, FinalizeRefused, FinalizeReply,
      FinalizeHandoff, SameBinding, Owns, Verdict, Allowed, Settle, Idle,
      Goto, Fenced, Arrived, job, Answered
<1>5. Recovering'
  BY DEF Inv, TypeOK, Finalize, FinalizeLate, FinalizeRefused, FinalizeReply,
      FinalizeHandoff, SameBinding, Owns, Verdict, Allowed, Settle, Idle,
      Goto, Fenced, Arrived, job, Recovering
<1>6. Finalizing'
  BY DEF Inv, TypeOK, Finalize, FinalizeLate, FinalizeRefused, FinalizeReply,
      FinalizeHandoff, SameBinding, Owns, Verdict, Allowed, Settle, Idle,
      Goto, Fenced, Arrived, job, Finalizing, Crossed, Settled
<1>7. Undisturbed'
  BY DEF Inv, Finalize, FinalizeRefused, FinalizeReply, FinalizeHandoff,
      SameBinding, Owns, Verdict, Allowed, Settle, Idle, Goto, Fenced,
      Arrived, job, Undisturbed
<1>8. RepliedRightly'
  <2>1. record[cur[w]] = "resolved" /\ asked[cur[w]] = 1
    BY DEF Inv, TypeOK, Finalize, Finalizing, Answered
  <2>. QED
    BY <2>1 DEF Inv, TypeOK, Finalize, FinalizeLate, FinalizeRefused, FinalizeReply,
                FinalizeHandoff, Owns, Settle, job, RepliedRightly
<1>9. LostUnanswered'
  BY DEF Inv, TypeOK, Finalize, FinalizeLate, FinalizeRefused, FinalizeReply,
      FinalizeHandoff, SameBinding, Owns, Verdict, Allowed, Settle, Idle,
      Goto, Fenced, Arrived, job, LostUnanswered
<1>. QED
  BY <1>1, <1>2, <1>3, <1>4, <1>5, <1>6, <1>7, <1>8, <1>9 DEF Inv

\* A crash leaves everything to the next claim.
LEMMA KeptByCrash ==
  ASSUME Inv, NEW w \in Workers, Crash(w)
  PROVE  Inv'

<1>1. TypeOK'
  BY AIReplyAssumption DEF Inv, TypeOK, Crash, Idle, Goto, job, policy,
      Statuses, Open, Settled
<1>2. Unsent'
  BY DEF Inv, Crash, Goto, job, policy, Unsent
<1>3. Crossing'
  BY DEF Inv, TypeOK, Crash, Idle, Goto, job, policy, Crossing, Crossed,
      InFence, Settled
<1>4. Answered'
  BY DEF Inv, Crash, Goto, job, policy, Answered
<1>5. Recovering'
  BY DEF Inv, TypeOK, Crash, Idle, Goto, job, policy, Recovering
<1>6. Finalizing'
  BY DEF Inv, TypeOK, Crash, Idle, Goto, job, policy, Finalizing, Crossed,
      Settled
<1>7. Undisturbed'
  BY DEF Inv, TypeOK, Crash, Idle, Goto, job, policy, Undisturbed
<1>8. RepliedRightly'
  BY DEF Inv, Crash, Goto, job, policy, RepliedRightly
<1>9. LostUnanswered'
  BY DEF Inv, Crash, Goto, job, policy, LostUnanswered
<1>. QED
  BY <1>1, <1>2, <1>3, <1>4, <1>5, <1>6, <1>7, <1>8, <1>9 DEF Inv

LEMMA KeptByStutter ==
  ASSUME Inv, UNCHANGED vars
  PROVE  Inv'

<1>1. TypeOK'
  BY DEF Inv, TypeOK, vars, job, policy, mind, Statuses, Open, Settled
<1>2. Unsent'
  BY DEF Inv, vars, job, policy, mind, Unsent
<1>3. Crossing'
  BY DEF Inv, vars, job, policy, mind, Crossing, Crossed, InFence, Settled
<1>4. Answered'
  BY DEF Inv, vars, job, policy, mind, Answered
<1>5. Recovering'
  BY DEF Inv, vars, job, policy, mind, Recovering
<1>6. Finalizing'
  BY DEF Inv, vars, job, policy, mind, Finalizing, Crossed, Settled
<1>7. Undisturbed'
  BY DEF Inv, vars, policy, mind, Undisturbed
<1>8. RepliedRightly'
  BY DEF Inv, vars, job, policy, mind, RepliedRightly
<1>9. LostUnanswered'
  BY DEF Inv, vars, job, policy, mind, LostUnanswered
<1>. QED
  BY <1>1, <1>2, <1>3, <1>4, <1>5, <1>6, <1>7, <1>8, <1>9 DEF Inv

LEMMA InvInit == Init => Inv

<1>. SUFFICES ASSUME Init PROVE Inv
  OBVIOUS
<1>1. TypeOK
  <2>1. /\ \A w \in Workers : pc[w] = "idle" /\ cur[w] = Nobody /\ got[w] = "nothing"
        /\ mem \in [Workers -> 0..MaxGen]
        /\ cur \in [Workers -> Messages \cup {Nobody}]
        /\ got \in [Workers -> {"nothing", "text", "error", "completed", "cancelled"}]
    BY AIReplyAssumption DEF Init
  <2>2. pc \in [Workers -> {"idle", "load", "authorize", "ask", "asking", "record",
                            "fail", "settle", "finalize"}]
    BY DEF Init
  <2>3. /\ status \in [Messages -> Statuses]
        /\ holder \in [Messages -> Workers \cup {Nobody}]
        /\ marker \in [Messages -> 0..MaxGen] /\ asked \in [Messages -> Nat]
    BY AIReplyAssumption DEF Init, Statuses
  <2>4. /\ record \in [Messages -> {"none", "started", "resolved", "uncertain"}]
        /\ reply \in [Messages -> {"none", "queued", "dispatched", "cancelled"}]
    BY DEF Init
  <2>5. enabled \in BOOLEAN /\ paused \in BOOLEAN /\ transfer \in BOOLEAN
    BY Zenon DEF Init
  <2>6. /\ cut \subseteq Messages /\ lapsed \subseteq Messages
        /\ gen \in 0..MaxGen /\ faults \in 0..MaxFaults
    BY AIReplyAssumption DEF Init
  <2>. QED
    BY <2>1, <2>2, <2>3, <2>4, <2>5, <2>6, AIReplyAssumption DEF TypeOK
<1>2. Unsent /\ Answered /\ RepliedRightly /\ LostUnanswered
  BY DEF Init, Unsent, Answered, RepliedRightly, LostUnanswered
<1>3. Crossing /\ Recovering /\ Finalizing /\ Undisturbed
  BY DEF Init, Crossing, InFence, Recovering, Finalizing, Undisturbed
<1>. QED
  BY <1>1, <1>2, <1>3 DEF Inv

LEMMA InvNext == Inv /\ [Next]_vars => Inv'

<1>. SUFFICES ASSUME Inv, [Next]_vars PROVE Inv'
  OBVIOUS
<1>1. CASE \E m \in Messages : Arrive(m) \/ Lapse(m) \/ Dispatch(m)
  BY <1>1, KeptByArrive, KeptByLapse, KeptByDispatch
<1>2. CASE Pause \/ Unpause \/ Disable \/ Enable
  BY <1>2, KeptByPause, KeptByUnpause, KeptByDisable, KeptByEnable
<1>3. CASE Handoff \/ ResumeFromTransfer \/ Rebind
  BY <1>3, KeptByHandoff, KeptByResumeFromTransfer, KeptByRebind
<1>4. ASSUME NEW w \in Workers, Claim(w) \/ RecordFails(w) \/ Crash(w)
      PROVE  Inv'
  BY <1>4, KeptByClaim, KeptByRecordFails, KeptByCrash
<1>5. ASSUME NEW w \in Workers, Step(w)
      PROVE  Inv'
  <2>1. CASE Load(w) \/ Authorize(w) \/ Ask(w) \/ Answer(w)
    BY <2>1, KeptByLoad, KeptByAuthorize, KeptByAsk, KeptByAnswer
  <2>2. CASE Record(w) \/ Fail(w) \/ SettleRefused(w) \/ Finalize(w)
    BY <2>2, KeptByRecord, KeptByFail, KeptBySettleRefused, KeptByFinalize
  <2>. QED
    BY <1>5, <2>1, <2>2 DEF Step
<1>6. CASE UNCHANGED vars
  BY <1>6, KeptByStutter
<1>. QED
  BY <1>1, <1>2, <1>3, <1>4, <1>5, <1>6 DEF Next

\* The invariant holds in every state.
THEOREM AIReplyInvariant == Spec => []Inv

<1>. QED
  BY InvInit, InvNext, PTL DEF Spec

\* The job rows and the workers' state stay well formed.
THEOREM AIReplyTypeCorrect == Spec => []TypeOK

<1>1. Inv => TypeOK
  BY DEF Inv
<1>. QED
  BY <1>1, AIReplyInvariant, PTL

\* No crash, takeover or lost answer makes a worker ask the model twice.
THEOREM AskedOnceHolds == Spec => []AskedOnce

<1>1. Inv => AskedOnce
  BY DEF Inv, Answered, AskedOnce
<1>. QED
  BY <1>1, AIReplyInvariant, PTL

\* No policy change commits while a customer's text is with the model.
THEOREM FenceHoldsHolds == Spec => []FenceHolds

<1>1. Inv => FenceHolds
  BY DEF Inv, Undisturbed, FenceHolds
<1>. QED
  BY <1>1, AIReplyInvariant, PTL

\* Every reply comes from the one recorded answer to the one question.
THEOREM RepliedRightlyHolds == Spec => []RepliedRightly

<1>1. Inv => RepliedRightly
  BY DEF Inv
<1>. QED
  BY <1>1, AIReplyInvariant, PTL

\* Only a job without an answer on record is given up as ambiguous.
THEOREM LostUnansweredHolds == Spec => []LostUnanswered

<1>1. Inv => LostUnanswered
  BY DEF Inv
<1>. QED
  BY <1>1, AIReplyInvariant, PTL

\* A worker whose job was settled by another changes neither its status nor
\* its record.
THEOREM SettledStaysHolds == Spec => SettledStays

<1>1. ASSUME Inv, Next PROVE KeepsSettled
  <2>. USE <1>1 DEF Inv, TypeOK, KeepsSettled, Settled
  <2>1. ASSUME NEW m \in Messages, Arrive(m) \/ Lapse(m) \/ Dispatch(m)
        PROVE  KeepsSettled
    BY <2>1 DEF Arrive, Lapse, Dispatch, Aside, job
  <2>2. CASE Pause \/ Disable \/ Rebind
    BY <2>2 DEF Pause, Disable, Rebind, CancelQueued, Aside
  <2>3. CASE Unpause \/ Enable \/ Handoff \/ ResumeFromTransfer
    BY <2>3 DEF Unpause, Enable, Handoff, ResumeFromTransfer, Aside, job
  <2>4. ASSUME NEW w \in Workers, Claim(w) PROVE KeepsSettled
    <3>1. PICK n \in Messages : \/ ClaimPending(w, n) \/ ClaimStale(w, n)
                                \/ ClaimResolved(w, n) \/ ClaimAmbiguous(w, n)
      BY <2>4 DEF Claim
    <3>. QED
      BY <3>1 DEF ClaimPending, ClaimStale, ClaimResolved, ClaimAmbiguous, Take
  <2>5. ASSUME NEW w \in Workers, Load(w) \/ Fail(w) \/ SettleRefused(w)
        PROVE  KeepsSettled
    BY <2>5 DEF Load, Fail, SettleRefused, Settle
  <2>6. ASSUME NEW w \in Workers, Authorize(w) PROVE KeepsSettled
    BY <2>6 DEF Authorize, AuthorizeLate, AuthorizeRefused, AuthorizeGo, Owns, Settle, job
  <2>7. ASSUME NEW w \in Workers, Ask(w) \/ Answer(w) \/ Crash(w)
        PROVE  KeepsSettled
    BY <2>7 DEF Ask, Answer, Crash, job
  <2>8. ASSUME NEW w \in Workers, Record(w) \/ RecordFails(w) PROVE KeepsSettled
    BY <2>8 DEF Record, RecordFails, Recorded, Owns
  <2>9. ASSUME NEW w \in Workers, Finalize(w) PROVE KeepsSettled
    BY <2>9 DEF Finalize, FinalizeLate, FinalizeRefused, FinalizeReply, FinalizeHandoff,
                Settle, job
  <2>. QED
    BY <1>1, <2>1, <2>2, <2>3, <2>4, <2>5, <2>6, <2>7, <2>8, <2>9 DEF Next, Step
<1>2. Inv /\ [Next]_vars => [KeepsSettled]_vars
  BY <1>1
<1>. QED
  BY <1>2, AIReplyInvariant, PTL DEF Spec, SettledStays

\* Only a finalization queues a reply.
LEMMA QueuedByFinalize ==
  ASSUME Inv, Next, NEW m \in Messages, reply[m] # "queued", reply'[m] = "queued"
  PROVE  \E w \in Workers : /\ pc[w] = "finalize" /\ FinalizeReply(w) /\ m = cur[w]

<1>. USE DEF Inv, TypeOK
<1>1. CASE \E n \in Messages : Arrive(n) \/ Lapse(n) \/ Dispatch(n)
  BY <1>1 DEF Arrive, Lapse, Dispatch, Aside, job
<1>2. CASE Pause \/ Disable \/ Rebind
  BY <1>2 DEF Pause, Disable, Rebind, CancelQueued, Aside
<1>3. CASE Unpause \/ Enable \/ Handoff \/ ResumeFromTransfer
  BY <1>3 DEF Unpause, Enable, Handoff, ResumeFromTransfer, Aside, job
<1>4. ASSUME NEW w \in Workers, Claim(w) PROVE FALSE
  BY <1>4 DEF Claim, ClaimPending, ClaimStale, ClaimResolved, ClaimAmbiguous, Take
<1>5. ASSUME NEW w \in Workers, \/ Load(w) \/ Fail(w) \/ SettleRefused(w)
                                \/ Record(w) \/ RecordFails(w)
      PROVE  FALSE
  BY <1>5 DEF Load, Fail, SettleRefused, Record, RecordFails
<1>6. ASSUME NEW w \in Workers, Authorize(w) \/ Ask(w) \/ Answer(w) \/ Crash(w)
      PROVE  FALSE
  BY <1>6 DEF Authorize, AuthorizeLate, AuthorizeRefused, AuthorizeGo, Ask, Answer, Crash, job
<1>7. ASSUME NEW w \in Workers, Finalize(w)
      PROVE  pc[w] = "finalize" /\ FinalizeReply(w) /\ m = cur[w]
  BY <1>7 DEF Finalize, FinalizeLate, FinalizeRefused, FinalizeReply, FinalizeHandoff, job
<1>. QED
  BY <1>1, <1>2, <1>3, <1>4, <1>5, <1>6, <1>7 DEF Next, Step

\* No reply is queued for a message from before a pause or a handoff.
THEOREM CutoffFinalHolds == Spec => CutoffFinal

<1>1. ASSUME Inv, Next PROVE KeepsCutoff
  <2>1. SUFFICES ASSUME NEW m \in cut, reply'[m] = "queued", reply[m] # "queued"
                 PROVE  FALSE
    BY DEF KeepsCutoff
  <2>2. m \in Messages
    BY <1>1 DEF Inv, TypeOK
  <2>3. PICK w \in Workers : FinalizeReply(w) /\ m = cur[w]
    BY <1>1, <2>1, <2>2, QueuedByFinalize
  <2>. QED
    BY <2>1, <2>3 DEF FinalizeReply, Verdict
<1>2. Inv /\ [Next]_vars => [KeepsCutoff]_vars
  BY <1>1
<1>. QED
  BY <1>2, AIReplyInvariant, PTL DEF Spec, CutoffFinal

\* A reply is queued only under the generation its question was asked under.
THEOREM SameGenerationHolds == Spec => SameGeneration

<1>1. ASSUME Inv, Next PROVE KeepsGeneration
  <2>1. SUFFICES ASSUME NEW m \in Messages, reply[m] = "none", reply'[m] = "queued"
                 PROVE  marker[m] = gen
    BY DEF KeepsGeneration
  <2>2. PICK w \in Workers : pc[w] = "finalize" /\ FinalizeReply(w) /\ m = cur[w]
    BY <1>1, <2>1, QueuedByFinalize
  <2>3. mem[w] # 0 => marker[m] = mem[w]
    BY <1>1, <2>2 DEF Inv, Finalizing
  <2>. QED
    BY <2>2, <2>3 DEF FinalizeReply, SameBinding
<1>2. Inv /\ [Next]_vars => [KeepsGeneration]_vars
  BY <1>1
<1>. QED
  BY <1>2, AIReplyInvariant, PTL DEF Spec, SameGeneration
-----------------------------------------------------------------------------
(* The stand-in                                                            *)

\* A step of staff or of the workers is a step of the stand-in, or none.
Simulates == Assistant!Next \/ UNCHANGED Assistant!vars

LEMMA Stages ==
  /\ StageOf("absent") = "new"
  /\ \A s \in Open : StageOf(s) = "open"
  /\ \A s \in Settled \cup {"ignored"} : StageOf(s) = "closed"
  BY DEF StageOf, Open, Settled

LEMMA StageIs ==
  ASSUME TypeOK
  PROVE  /\ \A m \in Messages : Stage[m] = StageOf(status[m])
         /\ \A m \in Messages : Stage[m] = "open" <=> status[m] \in Open
         /\ \A m \in Messages : Stage[m] = "new" <=> status[m] = "absent"
         /\ Assistant!Arrived = Arrived
<1>1. \A m \in Messages : Stage[m] = StageOf(status[m]) BY DEF Stage
<1>2. \A m \in Messages : Stage[m] = "open" <=> status[m] \in Open
  BY <1>1 DEF StageOf, Open
<1>3. \A m \in Messages : Stage[m] = "new" <=> status[m] = "absent"
  BY <1>1 DEF StageOf, Open
<1>. QED BY <1>1, <1>2, <1>3 DEF Assistant!Arrived, Arrived

\* The job of one message comes to another status.
LEMMA StageMoves ==
  ASSUME TypeOK, NEW m \in Messages, NEW to, status' = [status EXCEPT ![m] = to]
  PROVE  Stage' = [Stage EXCEPT ![m] = StageOf(to)]
<1>1. \A n \in Messages : status'[n] = IF n = m THEN to ELSE status[n] BY DEF TypeOK
<1>2. Stage' = [n \in Messages |-> StageOf(IF n = m THEN to ELSE status[n])]
  BY <1>1 DEF Stage
<1>. QED BY <1>2 DEF Stage

LEMMA UnfencedReadsNothing == ~Fenced => Reading = {}
  BY DEF Fenced, Reading

\* Only this worker moves, and not to or from its question.
LEMMA ReadingStays ==
  ASSUME TypeOK, NEW w \in Workers, pc[w] # "asking",
         \/ UNCHANGED <<pc, cur>>
         \/ \E to, m : /\ to # "asking" /\ pc' = [pc EXCEPT ![w] = to]
                       /\ cur' = [cur EXCEPT ![w] = m] \/ UNCHANGED cur
  PROVE  Reading' = Reading
<1>1. \A v \in Workers : pc'[v] = "asking" <=> pc[v] = "asking" BY DEF TypeOK
<1>2. \A v \in Workers : pc[v] = "asking" => cur'[v] = cur[v] BY DEF TypeOK
<1>3. {v \in Workers : pc'[v] = "asking"} = {v \in Workers : pc[v] = "asking"} BY <1>1
<1>. QED BY <1>2, <1>3 DEF Reading

LEMMA ReadingBegins ==
  ASSUME TypeOK, NEW w \in Workers, pc' = [pc EXCEPT ![w] = "asking"], UNCHANGED cur
  PROVE  Reading' = Reading \cup {cur[w]}
<1>1. {v \in Workers : pc'[v] = "asking"} = {v \in Workers : pc[v] = "asking"} \cup {w}
  BY DEF TypeOK
<1>. QED BY <1>1 DEF Reading

LEMMA ReadingEnds ==
  ASSUME Inv, NEW w \in Workers, pc[w] = "asking", NEW to, to # "asking",
         pc' = [pc EXCEPT ![w] = to], \/ UNCHANGED cur
                                      \/ \E m : cur' = [cur EXCEPT ![w] = m]
  PROVE  Reading' = Reading \ {cur[w]}
<1>1. {v \in Workers : pc'[v] = "asking"} = {v \in Workers : pc[v] = "asking"} \ {w}
  BY DEF Inv, TypeOK
<1>2. \A v \in Workers \ {w} : cur'[v] = cur[v] BY DEF Inv, TypeOK
<1>3. \A v \in Workers \ {w} : pc[v] = "asking" => cur[v] # cur[w]
  BY DEF Inv, Crossing, InFence
<1>. QED BY <1>1, <1>2, <1>3 DEF Reading

\* Nothing a stand-in is about changes.
LEMMA NothingChanges ==
  ASSUME UNCHANGED <<status, reply, marker, enabled, paused, transfer, cut, lapsed, gen, asked>>,
         Reading' = Reading
  PROVE  Simulates
<1>1. Stage' = Stage /\ Read' = Read /\ Mode' = Mode BY DEF Stage, Read, Mode
<1>. QED BY <1>1 DEF Simulates, Assistant!vars

\* A job is settled without a reply.
LEMMA SettlingCloses ==
  ASSUME Inv, NEW m \in Messages, NEW to \in Settled, status[m] \in Open,
         status' = [status EXCEPT ![m] = to], Reading' = Reading,
         UNCHANGED <<reply, marker, policy, asked>>
  PROVE  Simulates
<1>1. Stage' = [Stage EXCEPT ![m] = "closed"] BY StageMoves, Stages DEF Inv
<1>2. Stage[m] = "open" BY StageIs DEF Inv
<1>3. Read' = Read /\ Mode' = Mode BY DEF Read, Mode, policy
<1>4. Assistant!Close(m) BY <1>1, <1>2, <1>3 DEF Assistant!Close, policy
<1>. QED BY <1>4 DEF Simulates, Assistant!Next

\* A worker settles its job, or finds that it lost it.
LEMMA SettleSimulates ==
  ASSUME Inv, NEW w \in Workers, pc[w] \notin {"idle", "asking"}, NEW to \in Settled,
         Settle(cur[w], w, to), Idle(w), UNCHANGED <<reply, marker, policy, asked>>
  PROVE  Simulates
<1>1. cur[w] \in Messages BY DEF Inv, TypeOK
<1>2. Reading' = Reading BY ReadingStays DEF Inv, Idle, Goto
<1>3. CASE status[cur[w]] \in {"processing", "generating"} /\ holder[cur[w]] = w
  <2>1. status' = [status EXCEPT ![cur[w]] = to] BY <1>3 DEF Settle
  <2>. QED BY <1>1, <1>2, <1>3, <2>1, SettlingCloses DEF Open
<1>4. CASE ~(status[cur[w]] \in {"processing", "generating"} /\ holder[cur[w]] = w)
  <2>1. UNCHANGED status BY <1>4 DEF Settle
  <2>. QED BY <1>2, <2>1, NothingChanges DEF policy
<1>. QED BY <1>3, <1>4

LEMMA MindsKeepReading == UNCHANGED mind => Reading' = Reading
  BY DEF mind, Reading

Queueing == {m \in Messages : status[m] \in {"pending", "processing"}}
Replying == {m \in Messages : reply[m] = "queued"}

\* Staff close the jobs without a question and withdraw the waiting replies.
LEMMA QueueCancelled ==
  ASSUME Inv, ~Fenced, CancelQueued, Aside, UNCHANGED lapsed
  PROVE  Assistant!StepIn(Queueing, Replying)
<1>1. Reading = {} /\ Reading' = {} BY UnfencedReadsNothing, MindsKeepReading DEF Aside
<1>2. \A m \in Queueing : Stage[m] = "open" BY StageIs DEF Inv, Queueing, Open
<1>3. \A m \in Messages :
        StageOf(status'[m]) = IF m \in Queueing THEN "closed" ELSE StageOf(status[m])
  <2>. SUFFICES ASSUME NEW m \in Messages
                PROVE  StageOf(status'[m]) =
                         IF m \in Queueing THEN "closed" ELSE StageOf(status[m])
    OBVIOUS
  <2>1. CASE m \in Queueing
    <3>1. status'[m] = "cancelled" BY <2>1 DEF CancelQueued, Queueing
    <3>. QED BY <2>1, <3>1, Stages DEF Settled
  <2>2. CASE m \notin Queueing
    <3>1. status'[m] = status[m] BY <2>2 DEF CancelQueued, Queueing
    <3>. QED BY <2>2, <3>1
  <2>. QED BY <2>1, <2>2
<1>4. Stage' = [m \in Messages |-> IF m \in Queueing THEN "closed" ELSE Stage[m]]
  BY <1>3 DEF Stage
<1>5. reply' = [m \in Messages |-> IF m \in Replying THEN "cancelled" ELSE reply[m]]
  BY DEF CancelQueued, Replying
<1>6. Read' = Read /\ marker' = marker BY DEF Aside, Read
<1>. QED BY <1>1, <1>2, <1>4, <1>5, <1>6 DEF Assistant!StepIn, Replying

\* Staff step in without closing anything.
LEMMA NothingCancelled ==
  ASSUME Inv, ~Fenced, UNCHANGED job, Aside, UNCHANGED lapsed
  PROVE  Assistant!StepIn({}, {})
<1>1. Reading = {} /\ Reading' = {} BY UnfencedReadsNothing, MindsKeepReading DEF Aside
<1>2. Stage' = Stage /\ Stage = [m \in Messages |-> IF m \in {} THEN "closed" ELSE Stage[m]]
  BY DEF Stage, job
<1>3. reply' = reply /\ reply = [m \in Messages |-> IF m \in {} THEN "cancelled" ELSE reply[m]]
  BY DEF Inv, TypeOK, job
<1>4. Read' = Read /\ marker' = marker BY DEF Aside, Read
<1>. QED BY <1>1, <1>2, <1>3, <1>4 DEF Assistant!StepIn

LEMMA ModeIs == Mode \in {"active", "quiet"} /\ Mode' \in {"active", "quiet"}
  BY DEF Mode

\* A message arrives, and its job may be closed at once.
LEMMA ArriveSimulates ==
  ASSUME Inv, NEW m \in Messages, Arrive(m)
  PROVE  Simulates
<1>1. Reading = {} /\ Reading' = {}
  BY UnfencedReadsNothing, MindsKeepReading DEF Arrive, Aside
<1>2. Stage[m] = "new" BY StageIs DEF Inv, Arrive
<1>3. \E to \in {"open", "closed"} : Stage' = [Stage EXCEPT ![m] = to]
  <2>1. status' = [status EXCEPT ![m] = IF Allowed(m) THEN "pending" ELSE "ignored"]
    BY DEF Arrive
  <2>2. CASE Allowed(m)
    <3>1. status' = [status EXCEPT ![m] = "pending"] BY <2>1, <2>2
    <3>2. Stage' = [Stage EXCEPT ![m] = StageOf("pending")] BY <3>1, StageMoves DEF Inv
    <3>. QED BY <3>2, Stages DEF Open
  <2>3. CASE ~Allowed(m)
    <3>1. status' = [status EXCEPT ![m] = "ignored"] BY <2>1, <2>3
    <3>2. Stage' = [Stage EXCEPT ![m] = StageOf("ignored")] BY <3>1, StageMoves DEF Inv
    <3>. QED BY <3>2, Stages
  <2>. QED BY <2>2, <2>3
<1>4. /\ UNCHANGED <<reply, marker, cut, lapsed, gen>>
      /\ Read' = Read /\ Mode' = Mode
  BY DEF Arrive, Aside, policy, Read, Mode
<1>5. Assistant!Arrive(m) BY <1>1, <1>2, <1>3, <1>4 DEF Assistant!Arrive
<1>. QED BY <1>5 DEF Simulates, Assistant!Next

\* Staff take the conversation over: they pause it, or the contact is handed on.
LEMMA TakeOverSimulates ==
  ASSUME Inv, Pause \/ Handoff
  PROVE  Simulates
<1>1. cut' = Assistant!Arrived BY StageIs DEF Inv, Pause, Handoff
<1>2. CASE Pause
  <2>1. Assistant!StepIn(Queueing, Replying) BY <1>2, QueueCancelled DEF Pause
  <2>2. paused' = TRUE BY <1>2 DEF Pause
  <2>3. Mode' = "quiet" BY <2>2, Zenon DEF Mode
  <2>4. Assistant!TakeOver(Queueing, Replying)
    BY <1>1, <1>2, <2>1, <2>3 DEF Pause, Assistant!TakeOver
  <2>5. Queueing \in SUBSET Messages /\ Replying \in SUBSET Messages
    BY DEF Queueing, Replying
  <2>. QED BY <2>4, <2>5 DEF Simulates, Assistant!Next
<1>3. CASE Handoff
  <2>1. Assistant!StepIn({}, {}) BY <1>3, NothingCancelled DEF Handoff
  <2>2. transfer' = TRUE BY <1>3 DEF Handoff
  <2>3. Mode' = "quiet" BY <2>2, Zenon DEF Mode
  <2>4. Assistant!TakeOver({}, {})
    BY <1>1, <1>3, <2>1, <2>3 DEF Handoff, Assistant!TakeOver
  <2>. QED BY <2>4 DEF Simulates, Assistant!Next
<1>. QED BY <1>2, <1>3

\* Staff change what the assistant may do, or on which terms.
LEMMA ChangeSimulates ==
  ASSUME Inv, Unpause \/ Disable \/ Enable \/ ResumeFromTransfer \/ Rebind
  PROVE  Simulates
<1>1. gen' \in 0..MaxGen /\ UNCHANGED cut
  BY DEF Inv, TypeOK, Unpause, Disable, Enable, ResumeFromTransfer, Rebind
<1>2. CASE Disable \/ Rebind
  <2>1. Assistant!StepIn(Queueing, Replying) BY <1>2, QueueCancelled DEF Disable, Rebind
  <2>2. Assistant!Change(Queueing, Replying)
    BY <1>1, <2>1, ModeIs DEF Assistant!Change
  <2>3. Queueing \in SUBSET Messages /\ Replying \in SUBSET Messages
    BY DEF Queueing, Replying
  <2>. QED BY <2>2, <2>3 DEF Simulates, Assistant!Next
<1>3. CASE Unpause \/ Enable \/ ResumeFromTransfer
  <2>1. Assistant!StepIn({}, {})
    BY <1>3, NothingCancelled DEF Unpause, Enable, ResumeFromTransfer
  <2>2. Assistant!Change({}, {}) BY <1>1, <2>1, ModeIs DEF Assistant!Change
  <2>. QED BY <2>2 DEF Simulates, Assistant!Next
<1>. QED BY <1>2, <1>3

\* A window closes, or the outbox starts to send a reply.
LEMMA OutsideSimulates ==
  ASSUME Inv, NEW m \in Messages, Lapse(m) \/ Dispatch(m)
  PROVE  Simulates
<1>1. Reading' = Reading BY MindsKeepReading DEF Lapse, Dispatch, Aside
<1>2. Read' = Read BY DEF Lapse, Dispatch, Aside, Read
<1>3. CASE Lapse(m)
  <2>1. Stage' = Stage /\ Mode' = Mode BY <1>3 DEF Lapse, Stage, Mode, job
  <2>2. Assistant!Expire(m)
    BY <1>1, <1>2, <1>3, <2>1 DEF Lapse, Aside, job, Assistant!Expire
  <2>. QED BY <2>2 DEF Simulates, Assistant!Next
<1>4. CASE Dispatch(m)
  <2>1. Stage' = Stage /\ Mode' = Mode BY <1>4 DEF Dispatch, Stage, Mode, policy
  <2>2. Assistant!Dispatch(m)
    BY <1>1, <1>2, <1>4, <2>1 DEF Dispatch, Aside, policy, Assistant!Dispatch
  <2>. QED BY <2>2 DEF Simulates, Assistant!Next
<1>. QED BY <1>3, <1>4

\* A job that stays open is the same job to the stand-in, whoever has it.
LEMMA StaysOpen ==
  ASSUME TypeOK, NEW m \in Messages, NEW to \in Open, status[m] \in Open,
         status' = [status EXCEPT ![m] = to]
  PROVE  Stage' = Stage
<1>1. Stage' = [Stage EXCEPT ![m] = "open"] BY StageMoves, Stages
<1>2. Stage[m] = "open" BY StageIs
<1>. QED BY <1>1, <1>2 DEF Stage

\* A claim moves a job between workers, or gives up a question as ambiguous.
LEMMA ClaimSimulates ==
  ASSUME Inv, NEW w \in Workers, Claim(w)
  PROVE  Simulates
<1>. PICK m \in Messages : \/ ClaimPending(w, m) \/ ClaimStale(w, m)
                           \/ ClaimResolved(w, m) \/ ClaimAmbiguous(w, m)
  BY DEF Claim
<1>1. pc[w] = "idle" BY DEF Claim
<1>2. CASE ClaimAmbiguous(w, m)
  <2>1. /\ status[m] \in Open /\ "lost" \in Settled
        /\ status' = [status EXCEPT ![m] = "lost"]
        /\ UNCHANGED <<reply, marker, policy, mind, asked>>
    BY <1>2 DEF ClaimAmbiguous, Open, Settled
  <2>. QED BY <2>1, SettlingCloses, MindsKeepReading
<1>3. CASE ~ClaimAmbiguous(w, m)
  <2>1. Take(w, m) BY <1>3 DEF ClaimPending, ClaimStale, ClaimResolved
  <2>2. Reading' = Reading
    <3>1. pc' = [pc EXCEPT ![w] = "load"] /\ cur' = [cur EXCEPT ![w] = m]
      BY <2>1 DEF Take, Goto
    <3>. QED BY <1>1, <3>1, ReadingStays DEF Inv
  <2>3. Stage' = Stage
    <3>1. CASE ClaimPending(w, m)
      <4>1. /\ status[m] \in Open /\ "processing" \in Open
            /\ status' = [status EXCEPT ![m] = "processing"]
        BY <3>1 DEF ClaimPending, Open
      <4>. QED BY <4>1, StaysOpen DEF Inv
    <3>2. CASE UNCHANGED status BY <3>2 DEF Stage
    <3>. QED BY <1>3, <3>1, <3>2 DEF ClaimStale, ClaimResolved
  <2>4. Read' = Read /\ Mode' = Mode BY <2>1 DEF Take, Read, Mode, policy
  <2>. QED BY <2>1, <2>2, <2>3, <2>4 DEF Take, policy, Simulates, Assistant!vars
<1>. QED BY <1>2, <1>3

\* A worker loads its job, fails it or settles what was refused: a job is
\* closed, or nothing changes.
LEMMA LoadSimulates ==
  ASSUME Inv, NEW w \in Workers, Load(w)
  PROVE  Simulates
<1>1. /\ pc[w] = "load"
      /\ UNCHANGED <<reply, marker, policy, asked>>
  BY DEF Load
<1>2. CASE Settle(cur[w], w, "cancelled") /\ Idle(w)
  BY <1>1, <1>2, SettleSimulates DEF Settled
<1>3. CASE /\ Goto(w, "authorize") \/ Goto(w, "finalize")
           /\ UNCHANGED <<status, cur>>
  <2>1. Reading' = Reading BY <1>1, <1>3, ReadingStays DEF Inv, Goto
  <2>. QED BY <1>1, <1>3, <2>1, NothingChanges DEF policy
<1>. QED BY <1>2, <1>3 DEF Load

LEMMA FailSimulates ==
  ASSUME Inv, NEW w \in Workers, Fail(w) \/ SettleRefused(w)
  PROVE  Simulates
<1>1. CASE Fail(w)
  <2>1. /\ pc[w] \notin {"idle", "asking"} /\ "failed" \in Settled
        /\ Settle(cur[w], w, "failed") /\ Idle(w)
        /\ UNCHANGED <<reply, marker, policy, asked>>
    BY <1>1 DEF Fail, Settled
  <2>. QED BY <2>1, SettleSimulates
<1>2. CASE SettleRefused(w)
  <2>1. got[w] \in Settled BY <1>2 DEF Inv, TypeOK, SettleRefused, Settled
  <2>2. /\ pc[w] \notin {"idle", "asking"}
        /\ Settle(cur[w], w, got[w]) /\ Idle(w)
        /\ UNCHANGED <<reply, marker, policy, asked>>
    BY <1>2 DEF SettleRefused
  <2>. QED BY <2>1, <2>2, SettleSimulates
<1>. QED BY <1>1, <1>2

\* The authorization fixes the terms of a question that was not asked yet.
LEMMA AuthorizeSimulates ==
  ASSUME Inv, NEW w \in Workers, Authorize(w)
  PROVE  Simulates
<1>1. /\ pc[w] = "authorize" /\ cur[w] \in Messages
      /\ UNCHANGED <<policy, asked>>
  BY DEF Authorize, Inv, TypeOK
<1>2. CASE AuthorizeLate(w)
  <2>1. Reading' = Reading BY <1>1, <1>2, ReadingStays DEF Inv, AuthorizeLate, Idle, Goto
  <2>. QED BY <1>1, <1>2, <2>1, NothingChanges DEF AuthorizeLate, job, policy
<1>3. CASE AuthorizeRefused(w)
  <2>1. UNCHANGED <<reply, marker>> BY <1>3 DEF AuthorizeRefused
  <2>2. CASE Settle(cur[w], w, Verdict(cur[w])) /\ Idle(w)
    <3>1. Verdict(cur[w]) \in Settled
      BY <1>3 DEF AuthorizeRefused, Verdict, Settled
    <3>. QED BY <1>1, <2>1, <2>2, <3>1, SettleSimulates
  <2>3. CASE Goto(w, "settle") /\ UNCHANGED <<status, cur>>
    <3>1. Reading' = Reading BY <1>1, <2>3, ReadingStays DEF Inv, Goto
    <3>. QED BY <1>1, <2>1, <2>3, <3>1, NothingChanges DEF policy
  <2>. QED BY <1>3, <2>2, <2>3 DEF AuthorizeRefused
<1>4. CASE AuthorizeGo(w)
  <2>1. Reading' = Reading BY <1>1, <1>4, ReadingStays DEF Inv, AuthorizeGo, Goto
  <2>2. /\ status[cur[w]] \in Open /\ "generating" \in Open
        /\ status' = [status EXCEPT ![cur[w]] = "generating"]
    BY <1>4 DEF AuthorizeGo, Owns, Open
  <2>3. Stage' = Stage BY <1>1, <2>2, StaysOpen DEF Inv
  <2>4. cur[w] \notin Read BY <1>1, <1>4 DEF Inv, Unsent, AuthorizeGo, Owns, Read
  <2>5. Read' = Read /\ Mode' = Mode BY <1>1 DEF Read, Mode, policy
  <2>6. Assistant!Prepare(cur[w])
    BY <1>1, <1>4, <2>1, <2>3, <2>4, <2>5 DEF AuthorizeGo, policy, Assistant!Prepare
  <2>. QED BY <1>1, <2>6 DEF Simulates, Assistant!Next
<1>. QED BY <1>2, <1>3, <1>4 DEF Authorize

\* The model is shown a text for the first time, under the policy and the
\* terms it was authorized under.
LEMMA AskSimulates ==
  ASSUME Inv, NEW w \in Workers, Ask(w)
  PROVE  Simulates
<1>1. /\ pc[w] = "ask" /\ cur[w] \in Messages
      /\ asked' = [asked EXCEPT ![cur[w]] = @ + 1]
      /\ UNCHANGED <<status, reply, marker, policy>>
  BY DEF Ask, Inv, TypeOK, job
<1>2. /\ status[cur[w]] \in Crossed /\ asked[cur[w]] = 0
      /\ marker[cur[w]] = mem[w] /\ mem[w] = gen
      /\ enabled /\ ~paused /\ ~transfer /\ cur[w] \notin cut
  BY <1>1 DEF Inv, Crossing, Undisturbed, InFence
<1>3. Reading' = Reading \cup {cur[w]} BY ReadingBegins DEF Inv, Ask, Goto
<1>4. Stage[cur[w]] # "new" BY <1>1, <1>2, StageIs DEF Inv, Crossed, Settled
<1>5. cur[w] \notin Read /\ Read' = Read \cup {cur[w]}
  <2>1. \A m \in Messages : asked'[m] = IF m = cur[w] THEN 1 ELSE asked[m]
    BY <1>1, <1>2 DEF Inv, TypeOK
  <2>. QED BY <1>1, <1>2, <2>1 DEF Read
<1>6. Stage' = Stage /\ Mode' = Mode BY <1>1 DEF Stage, Mode, policy
<1>7. Mode = "active" BY <1>2 DEF Mode
<1>8. Assistant!Read(cur[w])
  BY <1>1, <1>2, <1>3, <1>4, <1>5, <1>6, <1>7 DEF policy, Assistant!Read
<1>. QED BY <1>1, <1>8 DEF Simulates, Assistant!Next

\* A reading ends with the answer, or with its worker.
LEMMA ReadingStops ==
  ASSUME Inv, NEW w \in Workers, pc[w] = "asking", Reading' = Reading \ {cur[w]},
         UNCHANGED <<status, reply, marker, policy, asked>>
  PROVE  Simulates
<1>1. cur[w] \in Messages BY DEF Inv, TypeOK
<1>2. Stage' = Stage /\ Read' = Read /\ Mode' = Mode BY DEF Stage, Read, Mode, policy
<1>3. Assistant!EndReading(cur[w]) BY <1>2 DEF policy, Assistant!EndReading
<1>. QED BY <1>1, <1>3 DEF Simulates, Assistant!Next

LEMMA AnswerSimulates ==
  ASSUME Inv, NEW w \in Workers, Answer(w)
  PROVE  Simulates
<1>1. /\ pc[w] = "asking"
      /\ pc' = [pc EXCEPT ![w] = "record"] /\ UNCHANGED cur
      /\ UNCHANGED <<status, reply, marker, policy, asked>>
  BY DEF Answer, Goto, job
<1>2. Reading' = Reading \ {cur[w]} BY <1>1, ReadingEnds
<1>. QED BY <1>1, <1>2, ReadingStops

LEMMA RecordSimulates ==
  ASSUME Inv, NEW w \in Workers, Record(w) \/ RecordFails(w)
  PROVE  Simulates
<1>1. /\ pc[w] = "record"
      /\ Goto(w, "finalize") \/ Goto(w, "fail")
      /\ UNCHANGED <<status, reply, marker, policy, asked, cur>>
  BY DEF Record, RecordFails
<1>2. Reading' = Reading BY <1>1, ReadingStays DEF Inv, Goto
<1>. QED BY <1>1, <1>2, NothingChanges DEF policy

LEMMA CrashSimulates ==
  ASSUME Inv, NEW w \in Workers, Crash(w)
  PROVE  Simulates
<1>1. /\ pc' = [pc EXCEPT ![w] = "idle"] /\ cur' = [cur EXCEPT ![w] = Nobody]
      /\ UNCHANGED <<status, reply, marker, policy, asked>>
  BY DEF Crash, Idle, Goto, job
<1>2. CASE pc[w] = "asking"
  <2>1. Reading' = Reading \ {cur[w]} BY <1>1, <1>2, ReadingEnds
  <2>. QED BY <1>1, <1>2, <2>1, ReadingStops
<1>3. CASE pc[w] # "asking"
  <2>1. Reading' = Reading BY <1>1, <1>3, ReadingStays DEF Inv
  <2>. QED BY <1>1, <2>1, NothingChanges DEF policy
<1>. QED BY <1>2, <1>3

\* A finalization that goes through owns its job, unanswered so far, and its
\* question was read under the terms that still hold.
LEMMA FinalizationOwns ==
  ASSUME Inv, NEW w \in Workers, pc[w] = "finalize", ~Fenced,
         Owns(w, {"processing", "generating"}), Verdict(cur[w]) = "go", SameBinding(w)
  PROVE  /\ cur[w] \in Messages /\ status[cur[w]] \in Open
         /\ reply[cur[w]] = "none" /\ cur[w] \in Read /\ Reading = {}
         /\ marker[cur[w]] = gen
         /\ Mode = "active" /\ cur[w] \notin cut \cup lapsed
<1>1. cur[w] \in Messages /\ status[cur[w]] \in Open BY DEF Inv, TypeOK, Owns, Open
<1>2. /\ enabled /\ ~paused /\ ~transfer /\ cur[w] \notin lapsed
      /\ reply[cur[w]] = "none" /\ cur[w] \notin cut
  BY DEF Verdict, Allowed
<1>3. asked[cur[w]] = 1 BY <1>1 DEF Inv, Finalizing, Answered
<1>4. marker[cur[w]] = gen
  <2>1. mem[w] # 0 => marker[cur[w]] = mem[w] BY DEF Inv, Finalizing
  <2>. QED BY <2>1 DEF SameBinding
<1>5. Mode = "active" BY <1>2 DEF Mode
<1>6. cur[w] \in Read BY <1>1, <1>3 DEF Read
<1>. QED BY <1>1, <1>2, <1>4, <1>5, <1>6, UnfencedReadsNothing

LEMMA FinalizeSimulates ==
  ASSUME Inv, NEW w \in Workers, Finalize(w)
  PROVE  Simulates
<1>1. /\ pc[w] = "finalize" /\ ~Fenced /\ Idle(w)
      /\ UNCHANGED <<enabled, paused, lapsed, gen, asked>>
  BY DEF Finalize
<1>2. Reading' = Reading BY <1>1, ReadingStays DEF Inv, Idle, Goto
<1>3. Read' = Read BY <1>1 DEF Read
<1>4. CASE FinalizeLate(w)
  BY <1>1, <1>2, <1>4, NothingChanges DEF FinalizeLate, job
<1>5. CASE FinalizeRefused(w)
  <2>1. /\ (IF Verdict(cur[w]) = "completed" THEN "completed" ELSE "cancelled") \in Settled
        /\ UNCHANGED <<reply, marker, policy, asked>>
    BY <1>1, <1>5 DEF FinalizeRefused, policy, Settled
  <2>. QED BY <1>1, <1>5, <2>1, SettleSimulates DEF FinalizeRefused
<1>6. ASSUME FinalizeReply(w) \/ FinalizeHandoff(w)
      PROVE  /\ cur[w] \in Messages /\ status[cur[w]] \in Open
             /\ reply[cur[w]] = "none" /\ cur[w] \in Read /\ Reading = {}
             /\ marker[cur[w]] = gen
             /\ Mode = "active" /\ cur[w] \notin cut \cup lapsed
             /\ Stage[cur[w]] = "open" /\ Stage' = [Stage EXCEPT ![cur[w]] = "closed"]
  <2>1. /\ Owns(w, {"processing", "generating"})
        /\ Verdict(cur[w]) = "go" /\ SameBinding(w) /\ Settle(cur[w], w, "completed")
    BY <1>6 DEF FinalizeReply, FinalizeHandoff
  <2>2. /\ cur[w] \in Messages /\ status[cur[w]] \in Open
        /\ reply[cur[w]] = "none" /\ cur[w] \in Read /\ Reading = {}
        /\ marker[cur[w]] = gen
        /\ Mode = "active" /\ cur[w] \notin cut \cup lapsed
    BY <1>1, <2>1, FinalizationOwns
  <2>3. status' = [status EXCEPT ![cur[w]] = "completed"] BY <2>1 DEF Settle, Owns
  <2>4. Stage' = [Stage EXCEPT ![cur[w]] = StageOf("completed")]
    BY <2>2, <2>3, StageMoves DEF Inv
  <2>5. Stage' = [Stage EXCEPT ![cur[w]] = "closed"] BY <2>4, Stages DEF Settled
  <2>6. Stage[cur[w]] = "open" BY <2>2, StageIs DEF Inv
  <2>. QED BY <2>2, <2>5, <2>6
<1>7. CASE FinalizeReply(w)
  <2>1. /\ reply' = [reply EXCEPT ![cur[w]] = "queued"]
        /\ UNCHANGED <<marker, transfer, cut>>
    BY <1>7 DEF FinalizeReply
  <2>2. Mode' = Mode BY <1>1, <2>1 DEF Mode
  <2>3. Assistant!Reply(cur[w])
    BY <1>1, <1>2, <1>3, <1>6, <1>7, <2>1, <2>2 DEF Assistant!Reply
  <2>. QED BY <1>6, <1>7, <2>3 DEF Simulates, Assistant!Next
<1>8. CASE FinalizeHandoff(w)
  <2>1. transfer' = TRUE /\ cut' = Arrived /\ UNCHANGED <<marker, reply>>
    BY <1>8 DEF FinalizeHandoff
  <2>2. Mode' = "quiet" BY <2>1, Zenon DEF Mode
  <2>3. cut' = Assistant!Arrived BY <2>1, StageIs DEF Inv
  <2>4. Stage' = [m \in Messages |-> IF m \in {cur[w]} THEN "closed" ELSE Stage[m]]
    BY <1>6, <1>8 DEF Stage
  <2>5. reply' = [m \in Messages |-> IF m \in {} THEN "cancelled" ELSE reply[m]]
    BY <2>1 DEF Inv, TypeOK
  <2>6. Assistant!StepIn({cur[w]}, {})
    BY <1>1, <1>2, <1>3, <1>6, <1>8, <2>1, <2>4, <2>5 DEF Assistant!StepIn
  <2>7. Assistant!TakeOver({cur[w]}, {})
    BY <1>1, <2>2, <2>3, <2>6 DEF Assistant!TakeOver
  <2>8. {cur[w]} \in SUBSET Messages /\ {} \in SUBSET Messages BY <1>6, <1>8
  <2>. QED BY <2>7, <2>8 DEF Simulates, Assistant!Next
<1>. QED BY <1>4, <1>5, <1>7, <1>8 DEF Finalize

LEMMA StandInInit == Init => Assistant!Init
<1>. SUFFICES ASSUME Init PROVE Assistant!Init
  OBVIOUS
<1>1. Stage = [m \in Messages |-> "new"] BY Stages DEF Init, Stage
<1>2. Read = {} /\ Reading = {} BY DEF Init, Read, Reading
<1>3. Mode = "active" BY DEF Init, Mode
<1>4. marker \in [Messages -> 0..MaxGen] BY AIReplyAssumption DEF Init
<1>. QED BY <1>1, <1>2, <1>3, <1>4 DEF Init, Assistant!Init

LEMMA StandInStep == ASSUME Inv, [Next]_vars PROVE Simulates
<1>1. ASSUME NEW m \in Messages, Arrive(m) \/ Lapse(m) \/ Dispatch(m) PROVE Simulates
  BY <1>1, ArriveSimulates, OutsideSimulates
<1>2. CASE \/ Pause \/ Unpause \/ Disable \/ Enable \/ Handoff \/ ResumeFromTransfer
           \/ Rebind
  BY <1>2, TakeOverSimulates, ChangeSimulates
<1>3. ASSUME NEW w \in Workers, Claim(w) \/ RecordFails(w) \/ Crash(w)
      PROVE  Simulates
  BY <1>3, ClaimSimulates, RecordSimulates, CrashSimulates
<1>4. ASSUME NEW w \in Workers, Step(w) PROVE Simulates
  <2>1. CASE Load(w) \/ Authorize(w) \/ Ask(w) \/ Answer(w)
    BY <2>1, LoadSimulates, AuthorizeSimulates, AskSimulates, AnswerSimulates
  <2>2. CASE Record(w) \/ Fail(w) \/ SettleRefused(w) \/ Finalize(w)
    BY <2>2, RecordSimulates, FailSimulates, FinalizeSimulates
  <2>. QED BY <1>4, <2>1, <2>2 DEF Step
<1>5. CASE UNCHANGED vars
  BY <1>5, NothingChanges, MindsKeepReading DEF vars, job, policy
<1>. QED BY <1>1, <1>2, <1>3, <1>4, <1>5 DEF Next

\* The workers and the control plane implement a stand-in, for any number of
\* workers, messages, generations and faults: whoever dies, overruns its lease
\* or recovers another's answer, a text is shown to the model once and
\* undisturbed, never after staff took over, and its one reply is queued only
\* while it is wanted, allowed and under the terms it was read under
\* (authorizeChannelAIReplyGenerationWithFence, finalizeChannelAIReply).
THEOREM ImplementsStandInHolds == Spec => ImplementsStandIn
<1>1. Init => Inv /\ Assistant!Init BY InvInit, StandInInit
<1>2. Inv /\ [Next]_vars => Inv' /\ [Assistant!Next]_(Assistant!vars)
  BY InvNext, StandInStep DEF Simulates
<1>. QED BY <1>1, <1>2, PTL DEF Spec, ImplementsStandIn, Assistant!Spec

=============================================================================
