------------------------------ MODULE Handover ------------------------------
(***************************************************************************)
(* What the handovers of a contact promise the customer and the agents:    *)
(* one is open at a time; its agent changes, and its level rises by one,   *)
(* only while it is open; once closed it stays as it is; and the customer  *)
(* is told once at most that nobody could answer, if the handover was open *)
(* when somebody looked, and once at most that it was closed, if no other  *)
(* was open then.  What is told may be late: a handover may be closed, or  *)
(* another opened, between the look and the letter.                        *)
(***************************************************************************)
EXTENDS Naturals

CONSTANTS
    Transfers,      \* numbered as they are opened
    Agents,
    Nobody,
    MaxLevel

VARIABLES
    status,         \* absent, active, resumed or expired
    agent,
    level,
    telling,        \* what somebody looked up and is about to tell of which
    told            \* how often the customer was told what of each

vars == <<status, agent, level, telling, told>>

Active == {t \in Transfers : status[t] = "active"}

Init ==
    /\ status = [t \in Transfers |-> "absent"]
    /\ agent = [t \in Transfers |-> Nobody]
    /\ level = [t \in Transfers |-> 0]
    /\ telling = {}
    /\ told = [t \in Transfers |-> [kind \in {"closed", "warned"} |-> 0]]

Open(t, a) ==
    /\ Active = {}
    /\ \A u \in Transfers : status[u] = "absent" <=> u >= t
    /\ status' = [status EXCEPT ![t] = "active"]
    /\ agent' = [agent EXCEPT ![t] = a]
    /\ UNCHANGED <<level, telling, told>>

Assign(t, a) ==
    /\ t \in Active
    /\ agent' = [agent EXCEPT ![t] = a]
    /\ UNCHANGED <<status, level, telling, told>>

Raise(t) ==
    /\ t \in Active /\ level[t] < MaxLevel
    /\ level' = [level EXCEPT ![t] = @ + 1]
    /\ UNCHANGED <<status, agent, telling, told>>

Close(t, how) ==
    /\ t \in Active /\ how \in {"resumed", "expired"}
    /\ status' = [status EXCEPT ![t] = how]
    /\ UNCHANGED <<agent, level, telling, told>>

\* It is so, and was not told.
So(t, kind) ==
    /\ told[t][kind] = 0
    /\ kind = "warned" => t \in Active /\ level[t] > 0
    /\ kind = "closed" => status[t] = "expired" /\ Active = {}

Look(t, kind) ==
    /\ So(t, kind) /\ <<t, kind>> \notin telling
    /\ telling' = telling \cup {<<t, kind>>}
    /\ UNCHANGED <<status, agent, level, told>>

Tell(t, kind) ==
    /\ <<t, kind>> \in telling
    /\ telling' = telling \ {<<t, kind>>}
    /\ told' = [told EXCEPT ![t][kind] = 1]
    /\ UNCHANGED <<status, agent, level>>

Drop(t, kind) ==
    /\ <<t, kind>> \in telling
    /\ telling' = telling \ {<<t, kind>>}
    /\ UNCHANGED <<status, agent, level, told>>

Next ==
    \E t \in Transfers :
        \/ \E a \in Agents \cup {Nobody} : Open(t, a) \/ Assign(t, a)
        \/ \E how \in {"resumed", "expired"} : Close(t, how)
        \/ \E kind \in {"closed", "warned"} : Look(t, kind) \/ Tell(t, kind) \/ Drop(t, kind)
        \/ Raise(t)

Spec == Init /\ [][Next]_vars
=============================================================================
