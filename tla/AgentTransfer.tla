---------------------------- MODULE AgentTransfer ----------------------------
(***************************************************************************)
(* The handovers of one contact to human agents                            *)
(* (internal/handlers/agent_transfers.go, internal/contacthandoff), and    *)
(* the processors that every server instance runs beside them to extend,   *)
(* close, escalate and mark them (internal/handlers/sla_processor.go).     *)
(*                                                                         *)
(* A request is one step, except the return of an agent's transfers, which *)
(* loads before it writes.  A processor's pass over the organization is    *)
(* one transaction of several statements, which read committed rows and    *)
(* keep the locks of what they wrote; its writes appear when it commits,   *)
(* and only then the customer is told.  Deadlines pass when they like.     *)
(***************************************************************************)
EXTENDS Naturals, FiniteSets

CONSTANTS
    Agents,
    Processors,
    Nobody,         \* no agent, no transfer, no notice
    MaxTransfers,   \* bound on the handovers of the contact
    MaxFaults       \* bound on crashes and failed passes

ASSUME TransferAssumption ==
    /\ Nobody \notin Agents
    /\ Nobody \notin Nat
    /\ MaxTransfers \in Nat /\ MaxFaults \in Nat

VARIABLES
    status, agent, level,   \* columns of each transfer
    past,                   \* its deadlines that have passed
    deleted,                \* the contact is deleted
    returning,              \* the transfer an agent's return has loaded
    step,                   \* of each processor
    seen,                   \* the candidate it selected, and the level it had
    writes,                 \* what its transaction has written
    fence,                  \* it holds the organization's and the contact's rows
    notice,                 \* what it will tell the customer
    told,                   \* history: notices sent about each transfer
    faults

rows    == <<status, agent, level, past>>
pass    == <<step, seen, writes, fence, notice>>
vars    == <<rows, deleted, returning, pass, told, faults>>

Transfers == 1..MaxTransfers
Deadlines == {"escalation", "expiry"}
Changes   == {"expire", "extend expiry", "extend escalation", "raise"}

Active == {t \in Transfers : status[t] = "active"}

Init ==
    /\ status = [t \in Transfers |-> "absent"]
    /\ agent = [t \in Transfers |-> Nobody]
    /\ level = [t \in Transfers |-> 0]
    /\ past = [t \in Transfers |-> {}]
    /\ deleted = FALSE
    /\ returning = [a \in Agents |-> Nobody]
    /\ step = [p \in Processors |-> "idle"]
    /\ seen = [p \in Processors |-> <<Nobody, 0>>]
    /\ writes = [p \in Processors |-> {}]
    /\ fence = [p \in Processors |-> FALSE]
    /\ notice = [p \in Processors |-> <<Nobody, "none">>]
    /\ told = [t \in Transfers |-> [kind \in {"closed", "warned"} |-> 0]]
    /\ faults = 0

-----------------------------------------------------------------------------
(* Locks                                                                   *)

\* LockOrganizationPolicyScope and LockContactPolicyScope
FenceFree == \A p \in Processors : ~fence[p]

\* What a processor writes to a row it keeps locked until its commit.
Wrote(p, t) == \E change \in Changes : <<t, change>> \in writes[p]

Locked(p) == {t \in Transfers : \E q \in Processors \ {p} : Wrote(q, t)}

RowFree(t) == \A p \in Processors : ~Wrote(p, t)

-----------------------------------------------------------------------------
(* Requests                                                                *)

Request == UNCHANGED <<pass, told, faults>>

\* saveAndFinalizeTransferWithArbiter, for a person, a keyword or a flow; to an
\* agent or to the queue.  (The agent's availability was looked up before; a
\* handover by the AI, HandoffTx, goes to the queue without deadlines: they
\* never pass.)
Create(t, a) ==
    /\ FenceFree /\ ~deleted
    /\ status[t] = "absent" /\ \A u \in Transfers : u < t => status[u] # "absent"
    /\ Active = {}
    /\ status' = [status EXCEPT ![t] = "active"]
    /\ agent' = [agent EXCEPT ![t] = a]
    /\ UNCHANGED <<level, past, deleted, returning>> /\ Request

\* ResumeFromTransfer
Resume(t) ==
    /\ FenceFree /\ RowFree(t)
    /\ t \in Active
    /\ status' = [status EXCEPT ![t] = "resumed"]
    /\ UNCHANGED <<agent, level, past, deleted, returning>> /\ Request

\* A manager gives it to an agent, or back to the queue.
AssignAgentTransfer(t, a) ==
    /\ FenceFree /\ ~deleted /\ RowFree(t)
    /\ t \in Active
    /\ agent' = [agent EXCEPT ![t] = a]
    /\ UNCHANGED <<status, level, past, deleted, returning>> /\ Request

\* An agent takes what waits in the queue and is not locked.
PickNextTransfer(t, a) ==
    /\ RowFree(t)
    /\ t \in Active /\ agent[t] = Nobody
    /\ agent' = [agent EXCEPT ![t] = a]
    /\ UNCHANGED <<status, level, past, deleted, returning>> /\ Request

\* An agent goes away: ReturnAgentTransfersToQueue loads what is active ...
LoadReturn(t, a) ==
    /\ returning[a] = Nobody
    /\ t \in Active /\ agent[t] = a
    /\ returning' = [returning EXCEPT ![a] = t]
    /\ UNCHANGED <<rows, deleted>> /\ Request

\* Mutant of Return: the row is saved as it was loaded.
ReturnSave(t, a) ==
    /\ returning[a] = t /\ RowFree(t)
    /\ returning' = [returning EXCEPT ![a] = Nobody]
    /\ agent' = [agent EXCEPT ![t] = Nobody]
    /\ status' = [status EXCEPT ![t] = "active"]
    /\ UNCHANGED <<level, past, deleted>> /\ Request

\* ... and gives back what still is, and is still the agent's.
Return(t, a) ==
    /\ returning[a] = t /\ RowFree(t)
    /\ returning' = [returning EXCEPT ![a] = Nobody]
    /\ agent' = IF t \in Active /\ agent[t] = a THEN [agent EXCEPT ![t] = Nobody] ELSE agent
    /\ UNCHANGED <<status, level, past, deleted>> /\ Request

\* DeleteContact leaves an active transfer as it is.
DeleteContact ==
    /\ FenceFree
    /\ ~deleted /\ deleted' = TRUE
    /\ UNCHANGED <<rows, returning>> /\ Request

-----------------------------------------------------------------------------
(* Time                                                                    *)

Passes(t, deadline) ==
    /\ t \in Active
    /\ past' = [past EXCEPT ![t] = @ \cup {deadline}]
    /\ UNCHANGED <<status, agent, level, deleted, returning>> /\ Request

-----------------------------------------------------------------------------
(* A pass of a processor                                                   *)

Goto(p, to) == step' = [step EXCEPT ![p] = to]

Uncommitted == UNCHANGED <<rows, deleted, returning, told, faults>>

Write(p, written) == writes' = [writes EXCEPT ![p] = @ \cup written]

\* What its own transaction sees as active.
Open(p) == {t \in Active : <<t, "expire">> \notin writes[p]}

\* Mutant of Orphans: the transfers of a deleted contact are not closed.
OrphansNone == {}

\* closeExpiredTransfersOfDeletedContacts
Orphans == {t \in Active : deleted /\ "expiry" \in past[t]}

CloseOrphans(p) ==
    /\ Orphans # {}
    /\ FenceFree /\ Orphans \cap Locked(p) = {}
    /\ Write(p, {<<t, "expire">> : t \in Orphans})
    /\ fence' = [fence EXCEPT ![p] = TRUE]
    /\ Goto(p, "escalate")
    /\ UNCHANGED seen

\* agentRespondedSince: whether the transfer's agent has a confirmed reply to
\* the customer within the window.  The messages are not modelled, so the
\* verdict is either.
Replied(t) == IF agent[t] = Nobody THEN {FALSE} ELSE BOOLEAN

\* autoCloseExpiredTransfers: if the agent has replied the expiry moves on.
JudgeExpired(p) ==
    /\ \E t \in Active : "expiry" \in past[t] /\ ~deleted /\ \E replied \in Replied(t) :
         IF replied
         THEN /\ t \notin Locked(p)
              /\ Write(p, {<<t, "extend expiry">>})
              /\ Goto(p, "escalate")
              /\ UNCHANGED seen
         ELSE /\ seen' = [seen EXCEPT ![p] = <<t, level[t]>>]
              /\ Goto(p, "close")
              /\ UNCHANGED writes
    /\ UNCHANGED fence

NoneExpired(p) ==
    /\ \A t \in Active : "expiry" \notin past[t]
    /\ Goto(p, "escalate")
    /\ UNCHANGED <<writes, seen, fence>>

Begin(p) ==
    /\ step[p] = "idle"
    /\ CloseOrphans(p) \/ JudgeExpired(p) \/ NoneExpired(p)
    /\ UNCHANGED notice /\ Uncommitted

\* Under the fence, if it is still active and the contact is still there.
CloseExpired(p) ==
    /\ step[p] = "close"
    /\ FenceFree
    /\ LET t == seen[p][1] IN
       /\ t \notin Locked(p)
       /\ IF t \in Active /\ ~deleted
          THEN /\ Write(p, {<<t, "expire">>})
               /\ fence' = [fence EXCEPT ![p] = TRUE]
               /\ notice' = [notice EXCEPT ![p] = <<t, "closed">>]
          ELSE UNCHANGED <<writes, fence, notice>>
    /\ Goto(p, "escalate")
    /\ UNCHANGED seen /\ Uncommitted

\* escalateTransfers: if the agent has replied to the customer's last message,
\* the escalation moves on.
JudgeWaiting(p) ==
    /\ step[p] = "escalate"
    /\ LET waiting == {t \in Open(p) : "escalation" \in past[t] /\ level[t] < 2 /\ ~deleted} IN
       \/ /\ waiting = {}
          /\ Goto(p, "commit")
          /\ UNCHANGED <<writes, seen>>
       \/ \E t \in waiting, replied \in BOOLEAN : replied \in Replied(t) /\
            IF replied
            THEN /\ t \notin Locked(p)
                 /\ Write(p, {<<t, "extend escalation">>})
                 /\ Goto(p, "commit")
                 /\ UNCHANGED seen
            ELSE /\ seen' = [seen EXCEPT ![p] = <<t, level[t]>>]
                 /\ Goto(p, "raise")
                 /\ UNCHANGED writes
    /\ UNCHANGED <<fence, notice>> /\ Uncommitted

\* Mutant of Unraised: the level is not compared.
UnraisedAnyLevel(t, was) == t \in Active

\* Still active, and at the level that was selected.
Unraised(t, was) == t \in Active /\ level[t] = was

Escalate(p) ==
    /\ step[p] = "raise"
    /\ LET t   == seen[p][1]
           was == seen[p][2]
       IN
       /\ t \notin Locked(p)
       /\ IF Unraised(t, was)
          THEN /\ Write(p, {<<t, "raise">>})
               /\ notice' = IF was = 0 THEN [notice EXCEPT ![p] = <<t, "warned">>] ELSE notice
          ELSE UNCHANGED <<writes, notice>>
    /\ Goto(p, "commit")
    /\ UNCHANGED <<seen, fence>> /\ Uncommitted

Commit(p) ==
    /\ step[p] = "commit"
    /\ LET Did(t, what) == <<t, what>> \in writes[p] IN
       /\ status' = [t \in Transfers |-> IF Did(t, "expire") THEN "expired" ELSE status[t]]
       /\ level' = [t \in Transfers |-> IF Did(t, "raise") THEN seen[p][2] + 1 ELSE level[t]]
       /\ past' = [t \in Transfers |->
                     past[t] \ ((IF Did(t, "extend expiry") THEN {"expiry"} ELSE {})
                                \cup (IF Did(t, "extend escalation") THEN {"escalation"} ELSE {}))]
    /\ writes' = [writes EXCEPT ![p] = {}]
    /\ fence' = [fence EXCEPT ![p] = FALSE]
    /\ seen' = [seen EXCEPT ![p] = <<Nobody, 0>>]
    /\ Goto(p, IF notice[p][2] = "none" THEN "idle" ELSE "notify")
    /\ UNCHANGED <<agent, deleted, returning, notice, told, faults>>

\* slaAutoCloseNoticeStillCurrent, slaWarningNoticeStillCurrent
StillCurrent(t, kind) ==
    IF kind = "closed" THEN status[t] = "expired" /\ Active = {}
    ELSE t \in Active /\ level[t] > 0

Rest(p) ==
    /\ Goto(p, "idle")
    /\ writes' = [writes EXCEPT ![p] = {}]
    /\ fence' = [fence EXCEPT ![p] = FALSE]
    /\ seen' = [seen EXCEPT ![p] = <<Nobody, 0>>]
    /\ notice' = [notice EXCEPT ![p] = <<Nobody, "none">>]

\* sendSLAText looks once more, in a transaction of its own; a warning is also
\* skipped if somebody has replied since ...
Look(p) ==
    /\ step[p] = "notify"
    /\ LET t    == notice[p][1]
           kind == notice[p][2]
       IN \/ /\ StillCurrent(t, kind)
             /\ Goto(p, "send")
             /\ UNCHANGED <<seen, writes, fence, notice>>
          \/ /\ ~StillCurrent(t, kind) \/ kind = "warned"
             /\ Rest(p)
    /\ UNCHANGED <<rows, deleted, returning, told, faults>>

\* ... and then sends, which may take until its timeout.
Tell(p) ==
    /\ step[p] = "send"
    /\ told' = [told EXCEPT ![notice[p][1]][notice[p][2]] = @ + 1]
    /\ Rest(p)
    /\ UNCHANGED <<rows, deleted, returning, faults>>

\* withSLARowSavepoint: a query or a write for one transfer fails, what it
\* wrote and locked is rolled back, and the pass goes on without it.
RowFails(p) ==
    /\ faults < MaxFaults /\ faults' = faults + 1
    /\ \/ step[p] = "idle" /\ (\E t \in Active : "expiry" \in past[t]) /\ Goto(p, "escalate")
       \/ step[p] = "close" /\ Goto(p, "escalate")
       \/ step[p] \in {"escalate", "raise"} /\ Goto(p, "commit")
    /\ UNCHANGED <<rows, deleted, returning, seen, writes, fence, notice, told>>

\* The pass fails and is rolled back, a notice is not delivered, or the
\* instance dies.
Fails(p) ==
    /\ faults < MaxFaults /\ faults' = faults + 1
    /\ step[p] # "idle"
    /\ Rest(p)
    /\ UNCHANGED <<rows, deleted, returning, told>>

-----------------------------------------------------------------------------
Tick(p) ==
    \/ Begin(p) \/ CloseExpired(p) \/ JudgeWaiting(p) \/ Escalate(p) \/ Commit(p)
    \/ Look(p) \/ Tell(p)

Next ==
    \/ \E t \in Transfers :
         \/ Resume(t)
         \/ \E a \in Agents \cup {Nobody} : Create(t, a) \/ AssignAgentTransfer(t, a)
         \/ \E a \in Agents : PickNextTransfer(t, a) \/ LoadReturn(t, a) \/ Return(t, a)
         \/ \E deadline \in Deadlines : Passes(t, deadline)
    \/ DeleteContact
    \/ \E p \in Processors : Tick(p) \/ RowFails(p) \/ Fails(p)

Spec == Init /\ [][Next]_vars

\* Every instance runs its processor by a ticker until it is stopped.
LiveSpec == Spec /\ \A p \in Processors : WF_vars(Tick(p))

-----------------------------------------------------------------------------
(* Properties                                                              *)

\* The variables have their types: the rows of the transfers, and what a
\* processor keeps of its pass.
TypeOK ==
    /\ status \in [Transfers -> {"absent", "active", "resumed", "expired"}]
    /\ agent \in [Transfers -> Agents \cup {Nobody}]
    /\ level \in [Transfers -> 0..2]
    /\ past \in [Transfers -> SUBSET Deadlines]
    /\ deleted \in BOOLEAN
    /\ returning \in [Agents -> Transfers \cup {Nobody}]
    /\ step \in [Processors -> {"idle", "close", "escalate", "raise", "commit", "notify",
                               "send"}]
    /\ seen \in [Processors -> (Transfers \cup {Nobody}) \X (0..2)]
    /\ writes \in [Processors -> SUBSET (Transfers \X Changes)]
    /\ fence \in [Processors -> BOOLEAN]
    /\ notice \in [Processors -> (Transfers \cup {Nobody}) \X {"none", "closed", "warned"}]
    /\ told \in [Transfers -> [{"closed", "warned"} -> Nat]]
    /\ faults \in 0..MaxFaults

\* The customer is told at most once that nobody could answer and at most once
\* that the handover is closed, however many instances look at the transfer
\* and whatever requests do in between (escalateTransfers,
\* autoCloseExpiredTransfers).
ToldOnce == \A t \in Transfers : \A kind \in {"closed", "warned"} : told[t][kind] <= 1

Advances(t) ==
    /\ status[t] \in {"resumed", "expired"} =>
          status'[t] = status[t] /\ agent'[t] = agent[t]
    /\ level'[t] \in {level[t], level[t] + 1}

\* No request and no processor undoes what another did to a transfer: it stays
\* closed once it is, with the agent it had, and is escalated level by level
\* (Return, AssignAgentTransfer, PickNextTransfer, the processor's updates).
OnlyAdvances == [][\A t \in Transfers : Advances(t)]_vars

\* What a processor looked up and is sending.
Telling == {notice[p] : p \in {q \in Processors : step[q] = "send"}}

Promise == INSTANCE Handover WITH MaxLevel <- 2, telling <- Telling

\* However requests, and the passes of any number of instances, interleave,
\* the contact's handovers do what a handover promises: one is open at a time,
\* nobody undoes what another did to it, its levels are not skipped, and the
\* customer is told once, and only what was so when somebody looked after the
\* commit (saveAndFinalizeTransferWithArbiter, autoCloseExpiredTransfers,
\* escalateTransfers, slaAutoCloseNoticeStillCurrent).
ImplementsHandover == Promise!Spec

\* A handover whose time is up is closed or, if its agent is at work, extended,
\* also when the contact is deleted meanwhile and when passes fail
\* (autoCloseExpiredTransfers, closeExpiredTransfersOfDeletedContacts).
ExpiryActedOn ==
    \A t \in Transfers : []<>(t \notin Active \/ "expiry" \notin past[t])
=============================================================================
