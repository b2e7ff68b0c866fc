------------------------------ MODULE Booking -------------------------------
(***************************************************************************)
(* Scheduled places and the package credits that pay for them              *)
(* (internal/booking, internal/handlers/product_booking_commerce.go).      *)
(*                                                                         *)
(* Every operation is one transaction that locks the event, or the booking *)
(* and then its event, or the invoice, before it reads what it decides on: *)
(* each is one step.  A request with a version that is out of date, or     *)
(* that a rule refuses, changes nothing.                                   *)
(***************************************************************************)
EXTENDS Naturals, FiniteSets

CONSTANTS
    Bookings,     \* idempotency keys of reservations, each with its booking
    Events,
    Services,     \* what an event can be an appointment for
    MaxCapacity,  \* bound on an event's capacity
    MaxQuantity,  \* bound on the places of one booking
    Credits,      \* what the contact's package grants for each service
    Price         \* total of the package's invoice

ASSUME BookingAssumption ==
    /\ IsFiniteSet(Bookings)
    /\ MaxCapacity \in Nat \ {0} /\ MaxQuantity \in Nat \ {0}
    /\ Credits \in Nat /\ Price \in Nat \ {0}

VARIABLES
    open, capacity, service,         \* of each event; open: scheduled and ahead
    moved,                           \* events whose version moved since the last offer
    status, of, quantity, packaged,  \* of each booking
    ledger,                          \* keys of the credit ledger, by booking
    due,                             \* of the invoice; 0 once its package is active
    available, reserved, consumed    \* the package's balance for each service

event   == <<open, capacity, service, moved>>
booking == <<status, of, quantity, packaged>>
credit  == <<ledger, due, available, reserved, consumed>>
rows    == <<event, booking, credit>>

Active    == {"reserved", "confirmed", "checked_in"}
Occupying == Active \cup {"completed", "no_show"}
Statuses  == Occupying \cup {"absent", "waitlisted", "cancelled"}

Places(e) == {p \in Bookings \X (1..MaxQuantity) :
                 /\ of[p[1]] = e /\ status[p[1]] \in Occupying
                 /\ p[2] <= quantity[p[1]]}

Occupied(e) == Cardinality(Places(e))

BookingInit ==
    /\ open = [e \in Events |-> TRUE]
    /\ capacity \in [Events -> 1..MaxCapacity]
    /\ \E s \in Services : service = [e \in Events |-> s]
    /\ moved = Events
    /\ status = [b \in Bookings |-> "absent"]
    /\ \E e \in Events : of = [b \in Bookings |-> e]
    /\ quantity = [b \in Bookings |-> 1]
    /\ packaged = [b \in Bookings |-> FALSE]
    /\ ledger = [b \in Bookings |-> {}]
    /\ due = Price
    /\ available = [s \in Services |-> 0]
    /\ reserved = [s \in Services |-> 0]
    /\ consumed = [s \in Services |-> 0]

-----------------------------------------------------------------------------
(* Package credits                                                         *)

\* A balance of the package can be reached while the package is active; the
\* service is the one the event is for now.  (A package that has expired
\* refuses everything, which changes nothing.)
Reserve(b, s, q) ==
    IF "reserve" \in ledger[b] THEN UNCHANGED credit
    ELSE /\ due = 0 /\ available[s] >= q
         /\ available' = [available EXCEPT ![s] = @ - q]
         /\ reserved' = [reserved EXCEPT ![s] = @ + q]
         /\ ledger' = [ledger EXCEPT ![b] = @ \cup {"reserve"}]
         /\ UNCHANGED <<consumed, due>>

\* Mutant of Release: the credits stay reserved as well.
ReleaseTwice(b, s, q) ==
    IF "release" \in ledger[b] THEN UNCHANGED credit
    ELSE /\ due = 0 /\ reserved[s] >= q
         /\ available' = [available EXCEPT ![s] = @ + q]
         /\ ledger' = [ledger EXCEPT ![b] = @ \cup {"release"}]
         /\ UNCHANGED <<reserved, consumed, due>>

Release(b, s, q) ==
    IF "release" \in ledger[b] THEN UNCHANGED credit
    ELSE /\ due = 0 /\ reserved[s] >= q
         /\ reserved' = [reserved EXCEPT ![s] = @ - q]
         /\ available' = [available EXCEPT ![s] = @ + q]
         /\ ledger' = [ledger EXCEPT ![b] = @ \cup {"release"}]
         /\ UNCHANGED <<consumed, due>>

Redeem(b, s, q) ==
    IF "redeem" \in ledger[b] THEN UNCHANGED credit
    ELSE /\ due = 0 /\ reserved[s] >= q
         /\ reserved' = [reserved EXCEPT ![s] = @ - q]
         /\ consumed' = [consumed EXCEPT ![s] = @ + q]
         /\ ledger' = [ledger EXCEPT ![b] = @ \cup {"redeem"}]
         /\ UNCHANGED <<available, due>>

\* A part of the invoice is paid; the payment that settles it activates the
\* package and grants its credits.
RecordManualInvoicePayment ==
    \E amount \in 1..due :
        /\ due' = due - amount
        /\ available' = IF amount = due THEN [s \in Services |-> Credits] ELSE available
        /\ UNCHANGED <<event, booking, ledger, reserved, consumed>>

-----------------------------------------------------------------------------
(* Bookings                                                                *)

\* Mutant of Full: the places asked for are not counted.
FullIfFull(e, q) == Occupied(e) >= capacity[e]

Full(e, q) == Occupied(e) + q > capacity[e]

Insert(b, e, q, to, paid) ==
    /\ status[b] = "absent"
    /\ status' = [status EXCEPT ![b] = to]
    /\ of' = [of EXCEPT ![b] = e]
    /\ quantity' = [quantity EXCEPT ![b] = q]
    /\ packaged' = [packaged EXCEPT ![b] = paid]
    /\ moved' = IF to \in Occupying THEN moved \cup {e} ELSE moved
    /\ UNCHANGED <<open, capacity, service>>

\* Staff book places, or a place on the waiting list if the event is full.
CreateBooking(b) ==
    \E e \in Events, q \in 1..MaxQuantity, paid \in BOOLEAN,
       to \in {"reserved", "confirmed", "waitlisted"} :
        /\ open[e]
        /\ to = "waitlisted" \/ ~Full(e, q)
        /\ Insert(b, e, q, to, paid)
        /\ IF ~paid THEN UNCHANGED credit
           ELSE IF to = "waitlisted" THEN due = 0 /\ UNCHANGED credit
           ELSE Reserve(b, service[e], q)

Transitions ==
    {"reserved"} \X {"confirmed", "cancelled"}
    \cup {"confirmed"} \X {"checked_in", "no_show", "cancelled"}
    \cup {"waitlisted"} \X {"reserved", "confirmed", "cancelled"}
    \cup {"checked_in"} \X {"completed", "no_show"}

\* A place is taken from the waiting list only while there is one.
Promoted(b) == ~Full(of[b], quantity[b])

TransitionBooking(b) ==
    \E to \in Statuses :
        LET old == status[b]
            s   == service[of[b]]
        IN
        /\ <<old, to>> \in Transitions
        /\ old \notin Occupying /\ to \in Occupying => Promoted(b)
        /\ status' = [status EXCEPT ![b] = to]
        /\ moved' = IF (old \in Occupying) # (to \in Occupying) THEN moved \cup {of[b]} ELSE moved
        /\ IF ~packaged[b] THEN UNCHANGED credit
           ELSE IF old \notin Occupying /\ to \in Occupying THEN Reserve(b, s, quantity[b])
           ELSE IF old \in Occupying /\ to = "cancelled" THEN Release(b, s, quantity[b])
           ELSE IF to \in {"completed", "no_show"} THEN Redeem(b, s, quantity[b])
           ELSE UNCHANGED credit
        /\ UNCHANGED <<open, capacity, service, of, quantity, packaged>>

-----------------------------------------------------------------------------
(* Events                                                                  *)

Fits(e, c) == c >= Occupied(e)

\* Staff close an event only without active bookings.
UpdateBookingEvent(e) ==
    \E on \in BOOLEAN, c \in 1..MaxCapacity, s \in Services :
        /\ Fits(e, c)
        /\ ~on => \A b \in Bookings : of[b] = e => status[b] \notin Active
        /\ open' = [open EXCEPT ![e] = on]
        /\ capacity' = [capacity EXCEPT ![e] = c]
        /\ service' = [service EXCEPT ![e] = s]
        /\ moved' = moved \cup {e}
        /\ UNCHANGED <<booking, credit>>

\* Its time comes, or its service or resource is deactivated.
Closes(e) ==
    /\ open[e]
    /\ open' = [open EXCEPT ![e] = FALSE]
    /\ UNCHANGED <<capacity, service, moved, booking, credit>>

StaffStep ==
    \/ \E b \in Bookings : CreateBooking(b) \/ TransitionBooking(b)
    \/ \E e \in Events : UpdateBookingEvent(e) \/ Closes(e)
    \/ RecordManualInvoicePayment

-----------------------------------------------------------------------------
(* Properties                                                              *)

RowsOK ==
    /\ open \in [Events -> BOOLEAN]
    /\ capacity \in [Events -> 1..MaxCapacity]
    /\ service \in [Events -> Services]
    /\ moved \subseteq Events
    /\ status \in [Bookings -> Statuses]
    /\ of \in [Bookings -> Events]
    /\ quantity \in [Bookings -> 1..MaxQuantity]
    /\ packaged \in [Bookings -> BOOLEAN]
    /\ ledger \in [Bookings -> SUBSET {"reserve", "release", "redeem"}]
    /\ due \in 0..Price
    /\ available \in [Services -> Nat]
    /\ reserved \in [Services -> Nat]
    /\ consumed \in [Services -> Nat]

\* No event has more occupied places than its capacity, whoever books,
\* promotes from the waiting list, or lowers the capacity (ReserveTx,
\* TransitionBooking, UpdateBookingEvent).
NoOversell == \A e \in Events : Occupied(e) <= capacity[e]

\* The ledger and the balances tell one story: credits come only from a paid
\* invoice and are never lost or made, and a booking that was paid for with
\* credits holds them while it is active, has used them when it is over and
\* has given them back when it is cancelled.
CreditsAccounted ==
    /\ \A s \in Services :
          available[s] + reserved[s] + consumed[s] = IF due = 0 THEN Credits ELSE 0
    /\ \A b \in Bookings : packaged[b] =>
          CASE status[b] = "waitlisted" -> ledger[b] = {}
            [] status[b] \in Active -> ledger[b] = {"reserve"}
            [] status[b] \in {"completed", "no_show"} -> ledger[b] = {"reserve", "redeem"}
            [] status[b] = "cancelled" -> ledger[b] \in {{}, {"reserve", "release"}}
=============================================================================
