---------------------------- MODULE OnceDelivery ----------------------------
(***************************************************************************)
(* What a relay promises about one idempotency key: the provider holds at  *)
(* most one message for it, and what callers are told of that message is   *)
(* true and stays true.  A caller that is told nothing definite            *)
(* ("unknown") may ask again.  The promise may be voided; what is then     *)
(* left of it is that a success names a message the provider holds.        *)
(***************************************************************************)
CONSTANTS
    Requests,   \* calls that name the key
    Digests,    \* bodies those calls may carry
    Nobody      \* no body

VARIABLES
    asked,      \* the body each request carried, or Nobody
    held,       \* the requests whose messages the provider holds
    told,       \* what each request was told
    void        \* the key no longer stands for one message

vars == <<asked, held, told, void>>

Rejected == "rejected"
Unknown  == "unknown"
Nothing  == "nothing"

Init ==
    /\ asked = [r \in Requests |-> Nobody]
    /\ held = {}
    /\ told = [r \in Requests |-> Nothing]
    /\ void = FALSE

Ask(r) ==
    /\ asked[r] = Nobody
    /\ \E d \in Digests : asked' = [asked EXCEPT ![r] = d]
    /\ UNCHANGED <<held, told, void>>

\* The provider takes the message once, and never after a rejection.
Deliver(r) ==
    /\ asked[r] # Nobody
    /\ held' = held \cup {r}
    /\ void \/ (held = {} /\ \A q \in Requests : told[q] # Rejected)
    /\ UNCHANGED <<asked, told, void>>

Tell(r, answer) ==
    /\ told'[r] = answer
    /\ told[r] = Nothing
    /\ told' = [told EXCEPT ![r] = answer]

\* Success names a message the provider holds, and one the caller asked for.
TellDelivered(r) ==
    /\ \E q \in held : Tell(r, q) /\ (void \/ asked[r] = asked[q])
    /\ UNCHANGED <<asked, held, void>>

TellRejected(r) ==
    /\ Tell(r, Rejected)
    /\ void \/ held = {}
    /\ UNCHANGED <<asked, held, void>>

\* The caller may be left uncertain by the very step that voids the promise.
TellUnknown(r) ==
    /\ Tell(r, Unknown)
    /\ void' \in {void, TRUE}
    /\ UNCHANGED <<asked, held>>

Void ==
    /\ void' = TRUE
    /\ UNCHANGED <<asked, held, told>>

Next ==
    \/ \E r \in Requests :
          Ask(r) \/ Deliver(r) \/ TellDelivered(r) \/ TellRejected(r) \/ TellUnknown(r)
    \/ Void

Spec == Init /\ [][Next]_vars
=============================================================================
