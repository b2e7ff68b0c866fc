--------------------------- MODULE MCAgentTransfer ---------------------------
(* Instances of AgentTransfer for TLC. *)
EXTENDS AgentTransfer, TLC

\* No deadline of a second handover passes, it stays in the queue, and the
\* contact is not deleted beside it: it is there for what processors still do
\* about the first.
SecondIsQuiet ==
    \A t \in Transfers : t > 1 /\ status[t] # "absent" =>
        past[t] = {} /\ agent[t] = Nobody /\ ~deleted
=============================================================================
