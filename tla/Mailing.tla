------------------------------ MODULE Mailing -------------------------------
(***************************************************************************)
(* What a mailing promises the person who sends it: in each round every    *)
(* recipient is written to once at most, and only while the mailing runs;  *)
(* what becomes of a recipient is decided once; a new round is for those   *)
(* who failed, and is taken back only for those it did not reach; and a    *)
(* mailing is not stopped while somebody is written to, and stays          *)
(* cancelled.                                                              *)
(***************************************************************************)
CONSTANT Recipients

VARIABLES
    state,      \* idle, running or cancelled
    outcome,    \* of each recipient in this round
    reached,    \* the recipients that were written to in it
    trying      \* the recipients that are being written to

vars == <<state, outcome, reached, trying>>

Init ==
    /\ state = "idle"
    /\ outcome = [r \in Recipients |-> "pending"]
    /\ reached = {} /\ trying = {}

\* The outcomes of some recipients.
Becomes(some, what) ==
    outcome' = [r \in Recipients |-> IF r \in some THEN what ELSE outcome[r]]

Turn ==
    /\ trying = {} /\ state # "cancelled"
    /\ state' \in {"idle", "running", "cancelled"}
    /\ UNCHANGED <<outcome, reached, trying>>

Try(r) ==
    /\ trying = {} /\ state = "running"
    /\ outcome[r] = "pending" /\ r \notin reached
    /\ trying' = {r} /\ reached' = reached \cup {r}
    /\ UNCHANGED <<state, outcome>>

\* A recipient may be refused without having been written to.
Record(r, what) ==
    /\ trying \subseteq {r}
    /\ outcome[r] = "pending"
    /\ what \in {"sent", "failed"} /\ (what = "sent" => r \in reached)
    /\ Becomes({r}, what)
    /\ trying' = {}
    /\ UNCHANGED <<state, reached>>

\* Nobody knows what became of it; it may be recorded later.
Lose ==
    /\ trying' = {}
    /\ UNCHANGED <<state, outcome, reached>>

\* What a recipient who was sent the letter may be known to have done later.
Later == [sent |-> {"delivered", "read", "failed"}, delivered |-> {"read", "failed"},
          read |-> {"failed"}]

Receipt(r) ==
    /\ trying = {}
    /\ outcome[r] \in DOMAIN Later
    /\ \E what \in Later[outcome[r]] : Becomes({r}, what)
    /\ UNCHANGED <<state, reached, trying>>

Retry(again) ==
    /\ trying = {} /\ state = "idle"
    /\ again # {} /\ \A r \in again : outcome[r] = "failed"
    /\ state' = "running"
    /\ Becomes(again, "pending")
    /\ reached' = reached \ again
    /\ UNCHANGED trying

Withdraw(again) ==
    /\ trying = {} /\ state = "running"
    /\ \A r \in again : outcome[r] = "pending" /\ r \notin reached
    /\ state' = "idle"
    /\ Becomes(again, "failed")
    /\ UNCHANGED <<reached, trying>>

Next ==
    \/ Turn \/ Lose
    \/ \E r \in Recipients : Try(r) \/ Receipt(r) \/ \E what \in {"sent", "failed"} : Record(r, what)
    \/ \E again \in SUBSET Recipients : Retry(again) \/ Withdraw(again)

Spec == Init /\ [][Next]_vars
=============================================================================
