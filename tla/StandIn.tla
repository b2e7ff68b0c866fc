------------------------------ MODULE StandIn -------------------------------
(***************************************************************************)
(* What an automatic stand-in promises the staff and the customers of a    *)
(* conversation: nobody's text is shown to it twice, nor after staff took  *)
(* the conversation over, and staff change nothing while it reads; it      *)
(* writes at most one reply to a message, of its reading of it, while it   *)
(* is still wanted, allowed and employed as it was when it read; and what  *)
(* it is done with it does not take up again.                              *)
(***************************************************************************)
CONSTANTS
    Messages,
    Terms           \* the terms it is employed under

VARIABLES
    stage,          \* of each message: new, open or closed
    reply,          \* to each message: none, queued, dispatched or cancelled
    read,           \* the messages it was shown
    reading,        \* the ones it is reading
    under,          \* the terms it read them under
    mode,           \* active, or quiet: it is not to say anything
    taken,          \* the messages staff took over
    expired,        \* the messages that may not be answered any more
    terms           \* its terms at present

vars == <<stage, reply, read, reading, under, mode, taken, expired, terms>>

Init ==
    /\ stage = [m \in Messages |-> "new"]
    /\ reply = [m \in Messages |-> "none"]
    /\ read = {} /\ reading = {}
    /\ under \in [Messages -> Terms]
    /\ mode = "active" /\ taken = {} /\ expired = {}
    /\ terms \in Terms

Arrived == {m \in Messages : stage[m] # "new"}

Arrive(m) ==
    /\ stage[m] = "new" /\ reading = {}
    /\ \E to \in {"open", "closed"} : stage' = [stage EXCEPT ![m] = to]
    /\ UNCHANGED <<reply, read, reading, under, mode, taken, expired, terms>>

\* Staff step in: open messages may be closed and queued replies withdrawn.
StepIn(closed, withdrawn) ==
    /\ reading = {}
    /\ \A m \in closed : stage[m] = "open"
    /\ \A m \in withdrawn : reply[m] = "queued"
    /\ stage' = [m \in Messages |-> IF m \in closed THEN "closed" ELSE stage[m]]
    /\ reply' = [m \in Messages |-> IF m \in withdrawn THEN "cancelled" ELSE reply[m]]
    /\ UNCHANGED <<read, reading, under, expired>>

TakeOver(closed, withdrawn) ==
    /\ StepIn(closed, withdrawn)
    /\ mode' = "quiet" /\ taken' = Arrived
    /\ UNCHANGED terms

Change(closed, withdrawn) ==
    /\ StepIn(closed, withdrawn)
    /\ mode' \in {"active", "quiet"} /\ terms' \in Terms
    /\ UNCHANGED taken

Expire(m) ==
    /\ expired' = expired \cup {m}
    /\ UNCHANGED <<stage, reply, read, reading, under, mode, taken, terms>>

Read(m) ==
    /\ stage[m] # "new" /\ m \notin read
    /\ mode = "active" /\ m \notin taken /\ under[m] = terms
    /\ read' = read \cup {m} /\ reading' = reading \cup {m}
    /\ UNCHANGED <<stage, reply, under, mode, taken, expired, terms>>

EndReading(m) ==
    /\ reading' = reading \ {m}
    /\ UNCHANGED <<stage, reply, read, under, mode, taken, expired, terms>>

\* The terms of a reading are settled before it.
Prepare(m) ==
    /\ m \notin read
    /\ under' = [under EXCEPT ![m] = terms]
    /\ UNCHANGED <<stage, reply, read, reading, mode, taken, expired, terms>>

Close(m) ==
    /\ stage[m] = "open"
    /\ stage' = [stage EXCEPT ![m] = "closed"]
    /\ UNCHANGED <<reply, read, reading, under, mode, taken, expired, terms>>

Reply(m) ==
    /\ stage[m] = "open" /\ reply[m] = "none"
    /\ reading = {} /\ m \in read /\ under[m] = terms
    /\ mode = "active" /\ m \notin taken \cup expired
    /\ stage' = [stage EXCEPT ![m] = "closed"]
    /\ reply' = [reply EXCEPT ![m] = "queued"]
    /\ UNCHANGED <<read, reading, under, mode, taken, expired, terms>>

Dispatch(m) ==
    /\ reply[m] = "queued"
    /\ reply' = [reply EXCEPT ![m] = "dispatched"]
    /\ UNCHANGED <<stage, read, reading, under, mode, taken, expired, terms>>

Next ==
    \/ \E m \in Messages :
         \/ Arrive(m) \/ Expire(m) \/ Prepare(m) \/ Read(m) \/ EndReading(m)
         \/ Close(m) \/ Reply(m) \/ Dispatch(m)
    \/ \E closed, withdrawn \in SUBSET Messages :
         TakeOver(closed, withdrawn) \/ Change(closed, withdrawn)

Spec == Init /\ [][Next]_vars
=============================================================================
