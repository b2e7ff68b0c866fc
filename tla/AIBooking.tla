----------------------------- MODULE AIBooking ------------------------------
(***************************************************************************)
(* Bookings a customer makes in an Instagram or Messenger conversation     *)
(* (internal/worker/channel_ai_booking.go), beside the staff of Booking.   *)
(*                                                                         *)
(* A turn of the customer is decided in the transaction that settles its   *)
(* automatic reply (module AIReply); it holds the organization row, and a  *)
(* turn admitted under an older binding is refused.  The reply goes to the *)
(* outbox, is checked once more when its one dispatch begins, under the    *)
(* fence that turns and handoffs wait for, and is then with the provider.  *)
(* Staff who change bookings and events wait for neither.                  *)
(***************************************************************************)
EXTENDS Booking

CONSTANTS
    Nothing,    \* no booking
    MaxOffers,  \* bound on the offers made
    MaxEpochs   \* bound on pauses, handoffs and changes of authority

ASSUME AIBookingAssumption ==
    /\ Nothing \notin Bookings
    /\ MaxOffers \in Nat /\ MaxEpochs \in Nat

VARIABLES
    offers,         \* offers made so far; an offer is its number
    current,        \* the offer of the conversation's session, 0 for none
    slots,          \* the events it offers
    bound,          \* the epoch of its binding
    fresh,          \* it has not expired
    receipt,        \* the booking it led to
    invalidated,    \* ai_booking_handoff_invalidated
    epoch,          \* pauses, handoffs and authority changes so far
    away,           \* paused, handed over, or without authority
    offerMessage,   \* what became of the message of each offer
    confirmation,   \* and of the confirmation of its booking
    origin          \* history: the offer a booking was made on, 0 for staff

session == <<current, slots, bound, fresh, receipt, invalidated>>
policy  == <<epoch, away>>
replies == <<offerMessage, confirmation>>
vars    == <<rows, offers, session, policy, replies, origin>>

Offers == 1..MaxOffers

Init ==
    /\ BookingInit
    /\ offers = 0 /\ current = 0 /\ slots = {} /\ bound = 0
    /\ fresh = FALSE /\ receipt = Nothing /\ invalidated = FALSE
    /\ epoch = 0 /\ away = FALSE
    /\ offerMessage = [k \in Offers |-> "none"]
    /\ confirmation = [k \in Offers |-> "none"]
    /\ origin = [b \in Bookings |-> 0]

\* A dispatch holds the organization row until the provider has answered.
Sending == \E k \in Offers : "sending" \in {offerMessage[k], confirmation[k]}

-----------------------------------------------------------------------------
(* Turns of the customer                                                   *)

Turn == ~Sending /\ ~away

Bookable(e) == open[e] /\ Occupied(e) < capacity[e]

\* No place is left for what was asked: the session is cleared.
OfferNothing ==
    /\ current' = 0 /\ slots' = {} /\ bound' = 0
    /\ fresh' = FALSE /\ receipt' = Nothing
    /\ UNCHANGED <<invalidated, moved, offers, offerMessage>>

\* Up to three places that match the service and the date.
OfferSlots ==
    /\ offers < MaxOffers
    /\ slots' \in SUBSET {e \in Events : Bookable(e)}
    /\ slots' # {}
    /\ current' = offers + 1 /\ bound' = epoch /\ offers' = offers + 1
    /\ fresh' = TRUE /\ receipt' = Nothing /\ invalidated' = FALSE
    /\ moved' = {}
    /\ offerMessage' = [offerMessage EXCEPT ![offers + 1] = "queued"]

Offered ==
    /\ OfferNothing \/ OfferSlots
    /\ UNCHANGED <<open, capacity, service, booking, credit, policy,
                   confirmation, origin>>

\* The customer asks for a place.
Ask == Turn /\ Offered

\* Mutant of Confirmable: an offer outlives a pause or a handoff.
ConfirmableForEver ==
    current # 0 /\ receipt = Nothing /\ offerMessage[current] = "sent"

\* A code counts while its offer is the session's, still binds, has not led
\* to a booking, and its message is known to have been sent.
Confirmable ==
    /\ current # 0 /\ bound = epoch
    /\ ~invalidated
    /\ receipt = Nothing
    /\ offerMessage[current] = "sent"

\* ReserveTx for the offered place, as it was offered.
Available(e) ==
    open[e] /\ e \notin moved /\ ~Full(e, 1)

\* The key of the reservation is the offer and the code: it was not used.
KeyUnused(e) == \A b \in Bookings : origin[b] = current => of[b] # e

\* Mutant of Confirm: the confirmation is left to a later transaction.
ConfirmUntold(e) ==
    /\ Turn
    /\ Confirmable /\ fresh /\ e \in slots /\ Available(e) /\ KeyUnused(e)
    /\ \E b \in Bookings :
         /\ Insert(b, e, 1, "reserved", FALSE)
         /\ origin' = [origin EXCEPT ![b] = current]
         /\ receipt' = b
    /\ UNCHANGED <<credit, offers, current, slots, bound, fresh, invalidated,
                   policy, offerMessage, confirmation>>

\* The exact code of a place: the booking, its receipt and the confirmation
\* are one transaction.
Confirm(e) ==
    /\ Turn
    /\ Confirmable /\ fresh /\ e \in slots /\ Available(e) /\ KeyUnused(e)
    /\ \E b \in Bookings :
         /\ Insert(b, e, 1, "reserved", FALSE)
         /\ origin' = [origin EXCEPT ![b] = current]
         /\ receipt' = b
    /\ confirmation' = [confirmation EXCEPT ![current] = "queued"]
    /\ UNCHANGED <<credit, offers, current, slots, bound, fresh, invalidated,
                   policy, offerMessage>>

\* A code of an expired offer, or of a place that is not what it was: another
\* offer is made at once.
ConfirmLate(e) ==
    /\ Turn
    /\ Confirmable
    /\ fresh => e \in slots /\ ~Available(e)
    /\ Offered

Unchanged == UNCHANGED <<rows, offers, origin>>

Expire ==
    /\ fresh
    /\ fresh' = FALSE
    /\ Unchanged /\ UNCHANGED <<current, slots, bound, receipt, invalidated, policy, replies>>

-----------------------------------------------------------------------------
(* People take over, and give back                                         *)

Unqueued(m) == [k \in Offers |-> IF m[k] = "queued" THEN "cancelled" ELSE m[k]]

\* A pause, or a change of the booking authority, ends the binding and takes
\* back what the outbox has not started to dispatch.
Pause ==
    /\ ~Sending /\ epoch < MaxEpochs
    /\ epoch' = epoch + 1 /\ away' = TRUE
    /\ offerMessage' = Unqueued(offerMessage)
    /\ confirmation' = Unqueued(confirmation)
    /\ Unchanged /\ UNCHANGED session

\* A handoff ends the binding and invalidates the offer; queued replies are
\* left for the check at their dispatch.
Handoff ==
    /\ ~Sending /\ epoch < MaxEpochs
    /\ epoch' = epoch + 1 /\ away' = TRUE
    /\ invalidated' = TRUE
    /\ Unchanged /\ UNCHANGED <<current, slots, bound, fresh, receipt, replies>>

Resume ==
    /\ ~Sending
    /\ away
    /\ away' = FALSE
    /\ Unchanged /\ UNCHANGED <<session, epoch, replies>>

-----------------------------------------------------------------------------
(* Dispatch                                                                *)

\* verifyChannelAIBookingDispatchTx
Binds(k) == ~away /\ current = k /\ bound = epoch /\ ~invalidated

\* Mutant of OfferStands: an offer may expire while it is queued.
OfferBinds(k) == Binds(k) /\ receipt = Nothing

OfferStands(k) == Binds(k) /\ receipt = Nothing /\ fresh

BookingStands(k) == Binds(k) /\ receipt # Nothing /\ status[receipt] = "reserved"

DispatchOffer(k) ==
    /\ ~Sending
    /\ offerMessage[k] = "queued"
    /\ offerMessage' = [offerMessage EXCEPT ![k] = IF OfferStands(k) THEN "sending" ELSE "cancelled"]
    /\ Unchanged /\ UNCHANGED <<session, policy, confirmation>>

DispatchConfirmation(k) ==
    /\ ~Sending
    /\ confirmation[k] = "queued"
    /\ confirmation' = [confirmation EXCEPT ![k] = IF BookingStands(k) THEN "sending" ELSE "cancelled"]
    /\ Unchanged /\ UNCHANGED <<session, policy, offerMessage>>

\* The provider has the message, or it is not known whether it has.
OfferAnswered(k) ==
    /\ offerMessage[k] = "sending"
    /\ \E what \in {"sent", "failed"} : offerMessage' = [offerMessage EXCEPT ![k] = what]
    /\ Unchanged /\ UNCHANGED <<session, policy, confirmation>>

ConfirmationAnswered(k) ==
    /\ confirmation[k] = "sending"
    /\ \E what \in {"sent", "failed"} : confirmation' = [confirmation EXCEPT ![k] = what]
    /\ Unchanged /\ UNCHANGED <<session, policy, offerMessage>>

-----------------------------------------------------------------------------
Staff == StaffStep /\ UNCHANGED <<offers, session, policy, replies, origin>>

Next ==
    \/ Staff
    \/ Ask \/ Expire
    \/ \E e \in Events : Confirm(e) \/ ConfirmLate(e)
    \/ Pause \/ Handoff \/ Resume
    \/ \E k \in Offers :
         \/ DispatchOffer(k) \/ OfferAnswered(k)
         \/ DispatchConfirmation(k) \/ ConfirmationAnswered(k)

Spec == Init /\ [][Next]_vars

-----------------------------------------------------------------------------
(* Properties                                                              *)

Fates == {"none", "queued", "cancelled", "sending", "sent", "failed"}

\* The tables of Booking, the session in the conversation's metadata and the
\* replies have their types.
TypeOK ==
    /\ RowsOK
    /\ offers \in 0..MaxOffers /\ current \in 0..offers
    /\ slots \subseteq Events /\ bound \in 0..epoch
    /\ fresh \in BOOLEAN /\ invalidated \in BOOLEAN /\ away \in BOOLEAN
    /\ receipt \in Bookings \cup {Nothing}
    /\ epoch \in 0..MaxEpochs
    /\ offerMessage \in [Offers -> Fates] /\ confirmation \in [Offers -> Fates]
    /\ origin \in [Bookings -> 0..MaxOffers]

\* However often the customer sends a code, and whatever staff did to the
\* booking since, an offer leads to one booking, and that is announced:
\* booking, receipt and confirmation are one transaction
\* (confirmChannelAIBookingTx).
BookingsTold ==
    \A k \in Offers : Cardinality({b \in Bookings : origin[b] = k})
                        = IF confirmation[k] = "none" THEN 0 ELSE 1

\* A booking is made on an offer that was sent, for an event that is as it was
\* when it was offered, with nobody having taken over since.
Honest ==
    \A b \in Bookings : origin[b] = 0 /\ origin'[b] # 0 =>
        /\ offerMessage[origin'[b]] = "sent"
        /\ origin'[b] = offers
        /\ of'[b] \in slots \ moved
        /\ bound = epoch /\ ~away

BookedAsOffered == [][Honest]_vars

\* The session's offer, in force: nobody took over since it was made.
InForce == current # 0 /\ bound = epoch /\ ~invalidated

\* What the outbox begins to send is true when it begins
\* (verifyChannelAIBookingDispatchTx).  A confirmation tells of a reserved
\* booking made on its offer; an offer can be taken up: it is the last one
\* made and the session's, it has not expired, nobody took over since, and no
\* booking was made on it.
Truthful ==
    \A k \in Offers :
        /\ confirmation[k] # "sending" /\ confirmation'[k] = "sending" =>
              \E b \in Bookings : origin[b] = k /\ status[b] = "reserved"
        /\ offerMessage[k] # "sending" /\ offerMessage'[k] = "sending" =>
              /\ k = offers /\ k = current
              /\ InForce /\ fresh /\ ~away
              /\ \A b \in Bookings : origin[b] # k

SentTruthfully == [][Truthful]_vars

Stands ==
    IF InForce /\ receipt # Nothing THEN "taken"
    ELSE IF InForce /\ fresh THEN "open" ELSE "no"

Choice == slots \ moved

Made == [k \in Offers |-> {<<b, of[b]>> : b \in {c \in Bookings : origin[c] = k}}]

Standing == {b \in Bookings : status[b] = "reserved"}

Office == INSTANCE BoxOffice WITH
    Seats <- Events, last <- offers, stands <- Stands, choice <- Choice,
    made <- Made, standing <- Standing, letter <- offerMessage, notice <- confirmation

\* Whatever staff do beside the conversation, whenever they take it over, and
\* however often a code is sent, the offers, the bookings and the messages are
\* those of a box office (offerChannelAIBookingTx, confirmChannelAIBookingTx,
\* verifyChannelAIBookingDispatchTx).
ImplementsBoxOffice == Office!Spec
=============================================================================
