-------------------------- MODULE MCChannelOutbox --------------------------
(* Instances of ChannelOutbox for TLC, on one account or on two. *)
EXTENDS ChannelOutbox, TLC

CONSTANTS acct, acct2, ai, ai2, h1

OneAccount  == [j \in Jobs |-> acct]
TwoAccounts == [j \in Jobs |-> IF j \in {ai, h1} THEN acct ELSE acct2]
Apart       == [j \in Jobs |-> IF j = ai THEN acct ELSE acct2]

Messenger        == [a \in Accounts |-> "messenger"]
MessengerStatic  == [a \in Accounts |-> IF a = acct THEN "messenger" ELSE "static"]
InstagramThreads == [a \in Accounts |-> IF a = acct THEN "instagram" ELSE "threads"]

WorkerSymmetry == Permutations(Workers)

\* Only one account is ever used: two instances in one run.  No step of a
\* worker, a lease or a backoff leaves it, so it hides no fair step.
Untouched(a) ==
    /\ mode[a] = "open" /\ gen[a] = 0 /\ ~paused[a]
    /\ \A j \in JobsOf(a) : status[j] = "none"

OneAccountUsed == \E a \in Accounts : \A b \in Accounts \ {a} : Untouched(b)

\* At most one account is ever reconnected.
OneReconnected == \A a, b \in Accounts : gen[a] > 0 /\ gen[b] > 0 => a = b
=============================================================================
