---------------------------- MODULE OutboxPromise ----------------------------
(***************************************************************************)
(* What an outbox promises those who write into it, whatever becomes of the*)
(* workers that empty it: each message has one outcome, which is what the  *)
(* inbox shows of it; a message is sent only if the provider was called for*)
(* it, and is never handed to the provider once it was cancelled; and some *)
(* messages are handed over once at most.                                  *)
(***************************************************************************)
EXTENDS Naturals

CONSTANTS
    Jobs,
    Once,           \* handed to the provider at most once
    Revocable       \* of those, the ones that may be cancelled after that

VARIABLES
    outcome,        \* of each job
    shown,          \* what the inbox shows of its message
    tried           \* how often it was handed to the provider

vars == <<outcome, shown, tried>>

Init ==
    /\ outcome = [j \in Jobs |-> "none"]
    /\ shown = [j \in Jobs |-> "none"]
    /\ tried = [j \in Jobs |-> 0]

\* Messages are queued and cancelled, in one transaction if need be: people
\* who write themselves take back what was to be said for them.
Change(new, gone) ==
    /\ \A j \in new : outcome[j] = "none"
    /\ \A j \in gone : /\ outcome[j] = "pending"
                       /\ j \in Once \ Revocable => tried[j] = 0
    /\ outcome' = [j \in Jobs |-> IF j \in new THEN "pending"
                                  ELSE IF j \in gone THEN "cancelled" ELSE outcome[j]]
    /\ shown' = [j \in Jobs |-> IF j \in new THEN "pending"
                                ELSE IF j \in gone THEN "failed" ELSE shown[j]]
    /\ UNCHANGED tried

\* A worker that was given up may call the provider late, though never for a
\* cancelled message.
Try(j) ==
    /\ outcome[j] \in {"pending", "sent", "failed"}
    /\ j \in Once => tried[j] = 0
    /\ tried' = [tried EXCEPT ![j] = @ + 1]
    /\ UNCHANGED <<outcome, shown>>

Sent(j) ==
    /\ outcome[j] = "pending" /\ tried[j] > 0
    /\ outcome' = [outcome EXCEPT ![j] = "sent"]
    /\ shown' = [shown EXCEPT ![j] = "sent"]
    /\ UNCHANGED tried

Failed(j) ==
    /\ outcome[j] = "pending"
    /\ outcome' = [outcome EXCEPT ![j] = "failed"]
    /\ shown' = [shown EXCEPT ![j] = "failed"]
    /\ UNCHANGED tried

Next ==
    \/ \E new, gone \in SUBSET Jobs : Change(new, gone)
    \/ \E j \in Jobs : Try(j) \/ Sent(j) \/ Failed(j)

Spec == Init /\ [][Next]_vars
=============================================================================
