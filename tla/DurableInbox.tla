---------------------------- MODULE DurableInbox -----------------------------
(***************************************************************************)
(* What a store-and-forward inbox promises the platform that delivers to   *)
(* it: from the moment a delivery is acknowledged each of its jobs is owed *)
(* until the receiver took it, it was buried for somebody to look at, or it*)
(* lapsed; and nothing is forwarded that was not delivered.  A job may be  *)
(* forwarded more than once.                                               *)
(***************************************************************************)
CONSTANTS
    Deliveries,
    Jobs,
    JobsOf          \* the jobs a delivery carries

VARIABLES
    acknowledged,   \* deliveries the platform need not repeat
    owed,           \* jobs still to be forwarded
    taken,          \* jobs the receiver has accepted
    buried,         \* jobs given up, and kept apart
    lapsed,         \* jobs held for as long as they are kept
    closed          \* jobs recorded as done

vars == <<acknowledged, owed, taken, buried, lapsed, closed>>

Init ==
    /\ acknowledged = {} /\ owed = {}
    /\ taken = {} /\ buried = {} /\ lapsed = {} /\ closed = {}

Delivered == UNION {JobsOf[d] : d \in acknowledged}

Discharged == taken \cup buried \cup lapsed

\* What was discharged before need not be owed again, but may be.
Acknowledge(d) ==
    /\ acknowledged' = acknowledged \cup {d}
    /\ owed \subseteq owed' /\ owed' \subseteq owed \cup JobsOf[d]
    /\ JobsOf[d] \subseteq owed' \cup Discharged
    /\ UNCHANGED <<taken, buried, lapsed, closed>>

\* The receiver may get a job again that is not owed any longer.
Take(j) ==
    /\ j \in Delivered
    /\ taken' = taken \cup {j}
    /\ UNCHANGED <<acknowledged, owed, buried, lapsed, closed>>

Close(j) ==
    /\ j \in Discharged
    /\ owed' = owed \ {j}
    /\ closed' = closed \cup {j}
    /\ UNCHANGED <<acknowledged, taken, buried, lapsed>>

Bury(j) ==
    /\ j \in Delivered
    /\ owed' = owed \ {j}
    /\ buried' = buried \cup {j}
    /\ UNCHANGED <<acknowledged, taken, lapsed, closed>>

Lapse(j) ==
    /\ j \in owed
    /\ owed' = owed \ {j}
    /\ lapsed' = lapsed \cup {j}
    /\ UNCHANGED <<acknowledged, taken, buried, closed>>

Next ==
    \/ \E d \in Deliveries : Acknowledge(d)
    \/ \E j \in Jobs : Take(j) \/ Close(j) \/ Bury(j) \/ Lapse(j)

Spec == Init /\ [][Next]_vars
=============================================================================
