-------------------------- MODULE AIBookingProofs ---------------------------
(***************************************************************************)
(* Proofs about AIBooking, for any bookings, events, services, capacities, *)
(* grants and prices, and any number of offers and handovers.              *)
(***************************************************************************)
EXTENDS AIBooking, FiniteSetTheorems, TLAPS

EventsOK ==
    /\ open \in [Events -> BOOLEAN]
    /\ capacity \in [Events -> 1..MaxCapacity]
    /\ service \in [Events -> Services]
    /\ moved \subseteq Events

BookingsOK ==
    /\ status \in [Bookings -> Statuses]
    /\ of \in [Bookings -> Events]
    /\ quantity \in [Bookings -> 1..MaxQuantity]
    /\ packaged \in [Bookings -> BOOLEAN]

CreditOK ==
    /\ ledger \in [Bookings -> SUBSET {"reserve", "release", "redeem"}]
    /\ due \in 0..Price
    /\ available \in [Services -> Nat]
    /\ reserved \in [Services -> Nat]
    /\ consumed \in [Services -> Nat]

FlagsOK == fresh \in BOOLEAN /\ invalidated \in BOOLEAN /\ away \in BOOLEAN

ConversationOK ==
    /\ offers \in 0..MaxOffers /\ current \in 0..offers
    /\ slots \subseteq Events /\ bound \in 0..epoch
    /\ receipt \in Bookings \cup {Nothing}
    /\ epoch \in 0..MaxEpochs
    /\ offerMessage \in [Offers -> Fates] /\ confirmation \in [Offers -> Fates]
    /\ origin \in [Bookings -> 0..MaxOffers]

-----------------------------------------------------------------------------
(* The balance                                                             *)

\* Credits come from the paid invoice; those that nobody holds are available.
Balanced ==
    \A s \in Services :
        available[s] + reserved[s] + consumed[s] = IF due = 0 THEN Credits ELSE 0

\* Nothing was booked on the credit of a booking that uses none.
Unbooked ==
    \A b \in Bookings : status[b] = "absent" \/ ~packaged[b] => ledger[b] = {}

\* The ledger of a booking that is paid for with credits.
LedgerOf(b) ==
    packaged[b] =>
        CASE status[b] = "waitlisted" -> ledger[b] = {}
          [] status[b] \in Active -> ledger[b] = {"reserve"}
          [] status[b] \in {"completed", "no_show"} -> ledger[b] = {"reserve", "redeem"}
          [] status[b] = "cancelled" -> ledger[b] \in {{}, {"reserve", "release"}}

CreditInv == Balanced /\ Unbooked /\ \A b \in Bookings : LedgerOf(b)

\* One entry of the ledger moves credits from one balance to another.
LEMMA CreditMoved ==
    ASSUME CreditOK, Balanced, NEW b \in Bookings, NEW s \in Services, NEW q \in Nat,
           Reserve(b, s, q) \/ Release(b, s, q) \/ Redeem(b, s, q) \/ UNCHANGED credit
    PROVE  /\ CreditOK' /\ Balanced'
           /\ \A c \in Bookings : c # b => ledger'[c] = ledger[c]
<1>0. Credits \in Nat
  BY AIBookingAssumption, BookingAssumption
<1>1. CASE UNCHANGED credit
  BY <1>1 DEF credit, CreditOK, Balanced
<1>2. CASE Reserve(b, s, q) /\ "reserve" \notin ledger[b]
  BY <1>0, <1>2 DEF Reserve, CreditOK, Balanced
<1>3. CASE Release(b, s, q) /\ "release" \notin ledger[b]
  BY <1>0, <1>3 DEF Release, CreditOK, Balanced
<1>4. CASE Redeem(b, s, q) /\ "redeem" \notin ledger[b]
  BY <1>0, <1>4 DEF Redeem, CreditOK, Balanced
<1>. QED
  BY <1>1, <1>2, <1>3, <1>4 DEF Reserve, Release, Redeem

\* What each operation enters.
LEMMA Entered ==
    ASSUME CreditOK, NEW b \in Bookings, NEW s \in Services, NEW q \in Nat
    PROVE  /\ Reserve(b, s, q) /\ ledger[b] = {} => ledger'[b] = {"reserve"}
           /\ Release(b, s, q) /\ ledger[b] = {"reserve"} => ledger'[b] = {"reserve", "release"}
           /\ Redeem(b, s, q) /\ ledger[b] = {"reserve"} => ledger'[b] = {"reserve", "redeem"}
BY DEF CreditOK, Reserve, Release, Redeem

\* A new booking, and what it leaves alone.
LEMMA Inserted ==
    ASSUME EventsOK, BookingsOK, NEW b \in Bookings, NEW e \in Events,
           NEW q \in 1..MaxQuantity, NEW to \in Occupying \cup {"waitlisted"},
           NEW paid \in BOOLEAN, Insert(b, e, q, to, paid)
    PROVE  /\ EventsOK' /\ BookingsOK'
           /\ capacity' = capacity
           /\ status[b] = "absent" /\ status'[b] = to /\ packaged'[b] = paid
           /\ of'[b] = e /\ quantity'[b] = q
           /\ \A c \in Bookings : c # b =>
                /\ status'[c] = status[c] /\ packaged'[c] = packaged[c]
                /\ of'[c] = of[c] /\ quantity'[c] = quantity[c]
BY DEF EventsOK, BookingsOK, Insert, Statuses, Occupying, Active

\* Other bookings keep their ledger.
LEMMA OthersLedger ==
    ASSUME CreditInv, NEW b \in Bookings,
           \A c \in Bookings : c # b =>
                /\ status'[c] = status[c] /\ packaged'[c] = packaged[c]
                /\ ledger'[c] = ledger[c],
           status'[b] # "absent", ~packaged'[b] => ledger'[b] = {},
           Balanced', LedgerOf(b)'
    PROVE  CreditInv'
<1>1. \A c \in Bookings : LedgerOf(c)'
  <2>. SUFFICES ASSUME NEW c \in Bookings, c # b PROVE LedgerOf(c)'
    OBVIOUS
  <2>1. LedgerOf(c)
    BY DEF CreditInv
  <2>. QED
    BY <2>1 DEF LedgerOf
<1>2. Unbooked'
  BY DEF CreditInv, Unbooked
<1>. QED
  BY <1>1, <1>2 DEF CreditInv

\* Staff who book on a package reserve its credits with the booking.
LEMMA CreateAccounted ==
    ASSUME RowsOK, CreditInv, NEW b \in Bookings, CreateBooking(b)
    PROVE  RowsOK' /\ CreditInv'
<1>0. EventsOK /\ BookingsOK /\ CreditOK
  BY DEF RowsOK, EventsOK, BookingsOK, CreditOK
<1>1. PICK e \in Events, q \in 1..MaxQuantity, paid \in BOOLEAN,
          to \in {"reserved", "confirmed", "waitlisted"} :
        /\ Insert(b, e, q, to, paid)
        /\ IF ~paid THEN UNCHANGED credit
           ELSE IF to = "waitlisted" THEN due = 0 /\ UNCHANGED credit
           ELSE Reserve(b, service[e], q)
  BY DEF CreateBooking
<1>2. to \in Occupying \cup {"waitlisted"} /\ q \in Nat /\ service[e] \in Services
  BY <1>0, BookingAssumption DEF Occupying, Active, EventsOK
<1>3. /\ EventsOK' /\ BookingsOK'
      /\ status[b] = "absent" /\ status'[b] = to /\ packaged'[b] = paid
      /\ \A c \in Bookings : c # b =>
           status'[c] = status[c] /\ packaged'[c] = packaged[c]
  BY <1>0, <1>1, <1>2, Inserted
<1>4. ledger[b] = {}
  BY <1>3 DEF CreditInv, Unbooked
<1>5. Reserve(b, service[e], q) \/ UNCHANGED credit
  BY <1>1
<1>6. /\ CreditOK' /\ Balanced'
      /\ \A c \in Bookings : c # b => ledger'[c] = ledger[c]
  BY <1>0, <1>2, <1>5, CreditMoved DEF CreditInv
<1>7. LedgerOf(b)' /\ (~packaged'[b] => ledger'[b] = {})
  <2>1. CASE ~paid \/ to = "waitlisted"
    <3>1. ledger'[b] = {}
      BY <1>1, <1>4, <2>1 DEF credit
    <3>2. CASE ~paid
      BY <1>3, <3>1, <3>2, Zenon DEF LedgerOf
    <3>3. CASE to = "waitlisted"
      BY <1>3, <3>1, <3>3 DEF LedgerOf, Active
    <3>. QED
      BY <2>1, <3>2, <3>3
  <2>2. CASE paid /\ to # "waitlisted"
    <3>1. ledger'[b] = {"reserve"}
      BY <1>0, <1>1, <1>2, <1>4, <2>2, Entered
    <3>. QED
      BY <1>3, <2>2, <3>1 DEF LedgerOf, Active
  <2>. QED
    BY <2>1, <2>2
<1>8. status'[b] # "absent"
  BY <1>3
<1>9. CreditInv'
  BY <1>3, <1>6, <1>7, <1>8, OthersLedger
<1>. QED
  BY <1>3, <1>6, <1>9 DEF RowsOK, EventsOK, BookingsOK, CreditOK

\* A transition enters what its booking's ledger still lacks.
LEMMA TransitionAccounted ==
    ASSUME RowsOK, CreditInv, NEW b \in Bookings, TransitionBooking(b)
    PROVE  RowsOK' /\ CreditInv'
<1>0. EventsOK /\ BookingsOK /\ CreditOK
  BY DEF RowsOK, EventsOK, BookingsOK, CreditOK
<1>. DEFINE s == service[of[b]]
            q == quantity[b]
            old == status[b]
<1>1. PICK to \in Statuses :
        /\ <<old, to>> \in Transitions
        /\ status' = [status EXCEPT ![b] = to]
        /\ moved' = IF (old \in Occupying) # (to \in Occupying) THEN moved \cup {of[b]} ELSE moved
        /\ IF ~packaged[b] THEN UNCHANGED credit
           ELSE IF old \notin Occupying /\ to \in Occupying THEN Reserve(b, s, q)
           ELSE IF old \in Occupying /\ to = "cancelled" THEN Release(b, s, q)
           ELSE IF to \in {"completed", "no_show"} THEN Redeem(b, s, q)
           ELSE UNCHANGED credit
        /\ UNCHANGED <<open, capacity, service, of, quantity, packaged>>
  BY DEF TransitionBooking
<1>2. s \in Services /\ q \in Nat
  BY <1>0, BookingAssumption DEF EventsOK, BookingsOK
<1>3. EventsOK' /\ BookingsOK'
  BY <1>0, <1>1 DEF EventsOK, BookingsOK
<1>4. /\ status'[b] = to /\ packaged' = packaged
      /\ \A c \in Bookings : c # b => status'[c] = status[c]
  BY <1>0, <1>1 DEF BookingsOK
<1>5. \/ Reserve(b, s, q) \/ Release(b, s, q) \/ Redeem(b, s, q)
      \/ UNCHANGED credit
  BY <1>1
<1>6. /\ CreditOK' /\ Balanced'
      /\ \A c \in Bookings : c # b => ledger'[c] = ledger[c]
  <2>. HIDE DEF s, q
  <2>. QED
    BY <1>0, <1>2, <1>5, CreditMoved DEF CreditInv
<1>7. LedgerOf(b) /\ (~packaged[b] => ledger[b] = {})
  BY DEF CreditInv, Unbooked
<1>8. LedgerOf(b)' /\ (~packaged'[b] => ledger'[b] = {}) /\ to # "absent"
  <2>0. old \in {"reserved", "confirmed", "checked_in", "waitlisted"} /\ to # "absent"
    BY <1>1 DEF Transitions
  <2>1. CASE ~packaged[b]
    BY <1>1, <1>4, <1>7, <2>0, <2>1 DEF LedgerOf, credit
  <2>2. CASE packaged[b] /\ old = "waitlisted" /\ to \in {"reserved", "confirmed"}
    <3>1. ledger[b] = {} /\ Reserve(b, s, q)
      BY <1>1, <1>7, <2>2 DEF LedgerOf, Occupying, Active
    <3>2. ledger'[b] = {"reserve"}
      BY <1>0, <1>2, <3>1, Entered
    <3>. QED
      BY <1>4, <2>0, <2>2, <3>2 DEF LedgerOf, Active
  <2>3. CASE packaged[b] /\ old = "waitlisted" /\ to = "cancelled"
    BY <1>1, <1>4, <1>7, <2>0, <2>3 DEF LedgerOf, Occupying, Active, credit
  <2>4. CASE packaged[b] /\ old # "waitlisted" /\ to = "cancelled"
    <3>1. ledger[b] = {"reserve"} /\ Release(b, s, q)
      BY <1>1, <1>7, <2>0, <2>4 DEF LedgerOf, Occupying, Active
    <3>2. ledger'[b] = {"reserve", "release"}
      BY <1>0, <1>2, <3>1, Entered
    <3>. QED
      BY <1>4, <2>0, <2>4, <3>2 DEF LedgerOf, Active
  <2>5. CASE packaged[b] /\ to \in {"completed", "no_show"}
    <3>0. old \in {"confirmed", "checked_in"}
      BY <1>1, <2>5 DEF Transitions
    <3>1. ledger[b] = {"reserve"} /\ Redeem(b, s, q)
      BY <1>1, <1>7, <3>0, <2>5 DEF LedgerOf, Occupying, Active
    <3>2. ledger'[b] = {"reserve", "redeem"}
      BY <1>0, <1>2, <3>1, Entered
    <3>. QED
      BY <1>4, <2>0, <2>5, <3>2 DEF LedgerOf, Active
  <2>6. CASE packaged[b] /\ old # "waitlisted" /\ to \in {"confirmed", "checked_in"}
    BY <1>1, <1>4, <1>7, <2>0, <2>6 DEF LedgerOf, Occupying, Active, credit
  <2>7. to \in {"reserved", "confirmed", "checked_in", "completed", "no_show", "cancelled"}
        /\ (to = "reserved" => old = "waitlisted")
        /\ (to = "checked_in" => old # "waitlisted")
    BY <1>1 DEF Transitions
  <2>. QED
    BY <2>1, <2>2, <2>3, <2>4, <2>5, <2>6, <2>7
<1>9. CreditInv'
  BY <1>4, <1>6, <1>8, OthersLedger
<1>. QED
  BY <1>3, <1>6, <1>9 DEF RowsOK, EventsOK, BookingsOK, CreditOK

\* Events have no credits; a payment grants them once, with the last part.
LEMMA EventsAccounted ==
    ASSUME RowsOK, CreditInv,
           \/ \E e \in Events : UpdateBookingEvent(e) \/ Closes(e)
           \/ RecordManualInvoicePayment
    PROVE  RowsOK' /\ CreditInv'
<1>1. CASE \E e \in Events : UpdateBookingEvent(e) \/ Closes(e)
  <2>1. /\ UNCHANGED <<booking, credit>>
        /\ open' \in [Events -> BOOLEAN] /\ capacity' \in [Events -> 1..MaxCapacity]
        /\ service' \in [Events -> Services] /\ moved' \subseteq Events
    <3>1. PICK e \in Events : UpdateBookingEvent(e) \/ Closes(e)
      BY <1>1
    <3>2. CASE UpdateBookingEvent(e)
      BY <3>2 DEF UpdateBookingEvent, RowsOK
    <3>3. CASE Closes(e)
      BY <3>3 DEF Closes, RowsOK, booking, credit
    <3>. QED
      BY <3>1, <3>2, <3>3
  <2>. QED
    BY <2>1 DEF RowsOK, CreditInv, Balanced, Unbooked, LedgerOf, booking, credit
<1>2. CASE RecordManualInvoicePayment
  <2>1. PICK amount \in 1..due :
          /\ due' = due - amount
          /\ available' = IF amount = due THEN [s \in Services |-> Credits] ELSE available
          /\ UNCHANGED <<event, booking, ledger, reserved, consumed>>
    BY <1>2 DEF RecordManualInvoicePayment
  <2>2. due \in Nat /\ due # 0 /\ due' \in 0..Price /\ (due' = 0 <=> amount = due)
    BY <2>1, BookingAssumption DEF RowsOK
  <2>3. \A s \in Services : available[s] = 0 /\ reserved[s] = 0 /\ consumed[s] = 0
    <3>. SUFFICES ASSUME NEW s \in Services
                  PROVE  available[s] = 0 /\ reserved[s] = 0 /\ consumed[s] = 0
      OBVIOUS
    <3>1. available[s] \in Nat /\ reserved[s] \in Nat /\ consumed[s] \in Nat
      BY DEF RowsOK
    <3>2. available[s] + reserved[s] + consumed[s] = 0
      BY <2>2 DEF CreditInv, Balanced
    <3>3. \A x, y, z \in Nat : x + y + z = 0 => x = 0 /\ y = 0 /\ z = 0
      OBVIOUS
    <3>. QED
      BY <3>1, <3>2, <3>3
  <2>4. available' \in [Services -> Nat] /\ Balanced'
    BY <2>1, <2>2, <2>3, BookingAssumption DEF Balanced, RowsOK
  <2>. QED
    BY <2>1, <2>2, <2>4 DEF RowsOK, CreditInv, Unbooked, LedgerOf, event, booking
<1>. QED
  BY <1>1, <1>2

\* A confirmation reserves a place without credits.
LEMMA ConfirmAccounted ==
    ASSUME RowsOK, CreditInv, NEW e \in Events, Confirm(e)
    PROVE  RowsOK' /\ CreditInv'
<1>0. EventsOK /\ BookingsOK /\ CreditOK
  BY DEF RowsOK, EventsOK, BookingsOK, CreditOK
<1>1. PICK b \in Bookings : Insert(b, e, 1, "reserved", FALSE) /\ UNCHANGED credit
  BY DEF Confirm
<1>2. 1 \in 1..MaxQuantity /\ "reserved" \in Occupying \cup {"waitlisted"}
  BY BookingAssumption DEF Occupying, Active
<1>3. /\ EventsOK' /\ BookingsOK'
      /\ status[b] = "absent" /\ status'[b] = "reserved" /\ packaged'[b] = FALSE
      /\ \A c \in Bookings : c # b =>
           status'[c] = status[c] /\ packaged'[c] = packaged[c]
  BY <1>0, <1>1, <1>2, Inserted
<1>4. CreditOK' /\ Balanced' /\ ledger' = ledger /\ ledger[b] = {}
  BY <1>0, <1>1, <1>3 DEF CreditOK, CreditInv, Balanced, Unbooked, credit
<1>5. LedgerOf(b)' /\ ledger'[b] = {} /\ status'[b] # "absent"
  BY <1>3, <1>4, Zenon DEF LedgerOf
<1>6. CreditInv'
  BY <1>3, <1>4, <1>5, OthersLedger
<1>. QED
  BY <1>3, <1>4, <1>6 DEF RowsOK, EventsOK, BookingsOK, CreditOK

-----------------------------------------------------------------------------
(* The conversation                                                        *)

\* A step that neither books nor comes from the staff.
Talk ==
    \/ Ask \/ Expire
    \/ \E e \in Events : ConfirmLate(e)
    \/ Pause \/ Handoff \/ Resume
    \/ \E k \in Offers :
         \/ DispatchOffer(k) \/ OfferAnswered(k)
         \/ DispatchConfirmation(k) \/ ConfirmationAnswered(k)

\* Every step is the staff's, a confirmation or a talk.
LEMMA NextCases == Next => Staff \/ (\E e \in Events : Confirm(e)) \/ Talk
BY DEF Next, Talk

\* It changes no table of the bookings.
LEMMA TalkQuiet ==
    ASSUME Talk
    PROVE  /\ UNCHANGED <<open, capacity, service, booking, credit, origin>>
           /\ moved' = moved \/ moved' = {}
BY DEF Talk, Ask, Expire, ConfirmLate, Offered, OfferNothing, OfferSlots, Pause, Handoff,
       Resume, DispatchOffer, OfferAnswered, DispatchConfirmation, ConfirmationAnswered,
       Unchanged, rows, event

\* Tables and credits through every step.
LEMMA AccountedStep ==
    ASSUME RowsOK, CreditInv, [Next]_vars
    PROVE  RowsOK' /\ CreditInv'
<1>1. CASE Staff
  BY <1>1, CreateAccounted, TransitionAccounted, EventsAccounted DEF Staff, StaffStep
<1>2. CASE \E e \in Events : Confirm(e)
  BY <1>2, ConfirmAccounted
<1>3. CASE Talk
  BY <1>3, TalkQuiet DEF RowsOK, CreditInv, Balanced, Unbooked, LedgerOf, booking, credit
<1>4. CASE UNCHANGED vars
  BY <1>4 DEF vars, rows, event, booking, credit, RowsOK, CreditInv, Balanced, Unbooked, LedgerOf
<1>. QED
  BY <1>1, <1>2, <1>3, <1>4, NextCases

\* At first nothing is booked and no credit is granted.
LEMMA AccountedInit == Init => RowsOK /\ CreditInv
<1>. SUFFICES ASSUME Init PROVE RowsOK /\ CreditInv
  OBVIOUS
<1>1. RowsOK
  BY BookingAssumption DEF Init, BookingInit, RowsOK, Statuses
<1>2. CreditInv
  BY BookingAssumption DEF Init, BookingInit, CreditInv, Balanced, Unbooked, LedgerOf
<1>. QED
  BY <1>1, <1>2

\* The ledger and the balances tell one story, for any bookings and grants.
THEOREM CreditsAccountedHolds == Spec => []CreditsAccounted
<1>1. CreditInv => CreditsAccounted
  BY DEF CreditInv, Balanced, LedgerOf, CreditsAccounted
<1>. QED
  BY <1>1, AccountedInit, AccountedStep, PTL DEF Spec

-----------------------------------------------------------------------------
(* Places                                                                  *)

\* The places of an event are finitely many, so they can be counted.
LEMMA Countable ==
    ASSUME NEW S \in SUBSET (Bookings \X (1..MaxQuantity))
    PROVE  IsFiniteSet(S) /\ Cardinality(S) \in Nat
<1>1. IsFiniteSet(1..MaxQuantity)
  BY BookingAssumption, FS_Interval
<1>2. IsFiniteSet(Bookings \X (1..MaxQuantity))
  BY <1>1, BookingAssumption, FS_Product
<1>. QED
  BY <1>2, FS_Subset, FS_CardinalityType

\* Before and after a step.
LEMMA PlacesCountable ==
    \A e \in Events : /\ Places(e) \in SUBSET (Bookings \X (1..MaxQuantity))
                      /\ Places(e)' \in SUBSET (Bookings \X (1..MaxQuantity))
BY DEF Places

\* What a booking adds to the places of its event.
LEMMA PlacesAdded ==
    ASSUME NEW S \in SUBSET (Bookings \X (1..MaxQuantity)), NEW b \in Bookings,
           NEW q \in 1..MaxQuantity
    PROVE  Cardinality(S \cup ({b} \X (1..q))) <= Cardinality(S) + q
<1>1. q \in Nat /\ 1..q \subseteq 1..MaxQuantity
  BY BookingAssumption
<1>2. IsFiniteSet(1..q) /\ Cardinality(1..q) = q
  BY <1>1, BookingAssumption, FS_Interval
<1>3. IsFiniteSet({b}) /\ Cardinality({b}) = 1
  BY FS_Singleton
<1>4. IsFiniteSet({b} \X (1..q)) /\ Cardinality({b} \X (1..q)) = 1 * q
  BY <1>2, <1>3, FS_Product
<1>5. IsFiniteSet(S) /\ Cardinality(S) \in Nat
  BY Countable
<1>6. S \cap ({b} \X (1..q)) \in SUBSET (Bookings \X (1..MaxQuantity))
  OBVIOUS
<1>7. Cardinality(S \cap ({b} \X (1..q))) \in Nat
  BY <1>6, Countable
<1>8. Cardinality(S \cup ({b} \X (1..q)))
        = Cardinality(S) + Cardinality({b} \X (1..q)) - Cardinality(S \cap ({b} \X (1..q)))
  BY <1>4, <1>5, FS_Union
<1>. QED
  BY <1>1, <1>4, <1>5, <1>7, <1>8

\* Whatever becomes of one booking, the places of other events stay, and those
\* of its own event are at most its places more.
LEMMA PlacesChange ==
    ASSUME RowsOK, NEW b \in Bookings, NEW q \in 1..MaxQuantity, NEW f \in Events,
           quantity'[b] = q,
           of'[b] = of[b] \/ status[b] \notin Occupying,
           quantity'[b] = quantity[b] \/ status[b] \notin Occupying,
           \A c \in Bookings : c # b =>
                /\ status'[c] = status[c] /\ of'[c] = of[c] /\ quantity'[c] = quantity[c]
    PROVE  /\ f # of'[b] => Occupied(f)' = Occupied(f)
           /\ status'[b] \notin Occupying => Occupied(f)' <= Occupied(f)
           /\ status[b] \in Occupying => Occupied(f)' <= Occupied(f)
           /\ Occupied(f)' <= Occupied(f) + q
<1>0. /\ Places(f) \in SUBSET (Bookings \X (1..MaxQuantity))
      /\ Places(f)' \in SUBSET (Bookings \X (1..MaxQuantity))
  BY PlacesCountable
<1>1. \A c \in Bookings, i \in 1..MaxQuantity :
        /\ <<c, i>> \in Places(f) <=>
             of[c] = f /\ status[c] \in Occupying /\ i <= quantity[c]
        /\ <<c, i>> \in Places(f)' <=>
             of'[c] = f /\ status'[c] \in Occupying /\ i <= quantity'[c]
  BY DEF Places
<1>2. /\ f # of'[b] => Places(f)' \subseteq Places(f) /\ Places(f) \subseteq Places(f)'
      /\ status'[b] \notin Occupying \/ status[b] \in Occupying => Places(f)' \subseteq Places(f)
      /\ Places(f)' \subseteq Places(f) \cup ({b} \X (1..q))
  <2>1. SUFFICES ASSUME NEW c \in Bookings, NEW i \in 1..MaxQuantity
                 PROVE  /\ f # of'[b] => (<<c, i>> \in Places(f)' <=> <<c, i>> \in Places(f))
                        /\ status'[b] \notin Occupying \/ status[b] \in Occupying =>
                             (<<c, i>> \in Places(f)' => <<c, i>> \in Places(f))
                        /\ <<c, i>> \in Places(f)' =>
                             <<c, i>> \in Places(f) \/ (c = b /\ i \in 1..q)
    BY <1>0
  <2>. QED
    BY <1>1
<1>3. /\ Cardinality(Places(f)) \in Nat /\ IsFiniteSet(Places(f))
      /\ Cardinality(Places(f)') \in Nat /\ IsFiniteSet(Places(f)')
  BY <1>0, Countable
<1>4. /\ f # of'[b] => Places(f)' = Places(f)
      /\ Places(f)' \subseteq Places(f) => Cardinality(Places(f)') <= Cardinality(Places(f))
  BY <1>2, <1>3, FS_Subset
<1>5. Cardinality(Places(f)') <= Cardinality(Places(f)) + q
  <2>1. Places(f) \cup ({b} \X (1..q)) \in SUBSET (Bookings \X (1..MaxQuantity))
    BY <1>0, BookingAssumption
  <2>2. Cardinality(Places(f)') <= Cardinality(Places(f) \cup ({b} \X (1..q)))
    BY <1>2, <2>1, Countable, FS_Subset
  <2>3. Cardinality(Places(f) \cup ({b} \X (1..q))) <= Cardinality(Places(f)) + q
    BY <1>0, PlacesAdded
  <2>4. Cardinality(Places(f) \cup ({b} \X (1..q))) \in Nat /\ q \in Nat
    BY <2>1, Countable, BookingAssumption
  <2>. QED
    BY <1>3, <2>2, <2>3, <2>4
<1>. QED
  BY <1>2, <1>3, <1>4, <1>5 DEF Occupied

\* A step that changes neither bookings nor capacities changes no occupation.
LEMMA SameOccupation ==
    ASSUME UNCHANGED booking
    PROVE  \A f \in Events : Occupied(f)' = Occupied(f)
BY DEF Occupied, Places, booking

\* A new booking takes no more places than there are.
LEMMA InsertOversell ==
    ASSUME RowsOK, NoOversell, NEW b \in Bookings, NEW e \in Events,
           NEW q \in 1..MaxQuantity, NEW to \in Occupying \cup {"waitlisted"},
           NEW paid \in BOOLEAN, to = "waitlisted" \/ ~Full(e, q),
           Insert(b, e, q, to, paid)
    PROVE  NoOversell'
<1>0. EventsOK /\ BookingsOK
  BY DEF RowsOK, EventsOK, BookingsOK
<1>1. /\ capacity' = capacity
      /\ status[b] = "absent" /\ status'[b] = to /\ of'[b] = e /\ quantity'[b] = q
      /\ \A c \in Bookings : c # b =>
           status'[c] = status[c] /\ of'[c] = of[c] /\ quantity'[c] = quantity[c]
  BY <1>0, Inserted
<1>2. status[b] \notin Occupying /\ "waitlisted" \notin Occupying
  BY <1>1 DEF Occupying, Active
<1>. SUFFICES ASSUME NEW f \in Events PROVE Occupied(f)' <= capacity'[f]
  BY DEF NoOversell
<1>3. /\ f # e => Occupied(f)' = Occupied(f)
      /\ to = "waitlisted" => Occupied(f)' <= Occupied(f)
      /\ Occupied(f)' <= Occupied(f) + q
  BY <1>1, <1>2, PlacesChange
<1>4. Occupied(f) <= capacity[f] /\ Occupied(f) \in Nat /\ Occupied(f)' \in Nat
  BY PlacesCountable, Countable DEF NoOversell, Occupied
<1>5. capacity[f] \in Nat /\ q \in Nat
  BY BookingAssumption DEF RowsOK
<1>6. f = e /\ to # "waitlisted" => Occupied(f) + q <= capacity[f]
  BY <1>4, <1>5 DEF Full
<1>. QED
  BY <1>1, <1>3, <1>4, <1>5, <1>6

\* A transition takes places only from the waiting list, and as many as there are.
LEMMA TransitionOversell ==
    ASSUME RowsOK, NoOversell, NEW b \in Bookings, TransitionBooking(b)
    PROVE  NoOversell'
<1>1. PICK to \in Statuses :
        /\ <<status[b], to>> \in Transitions
        /\ status[b] \notin Occupying /\ to \in Occupying => Promoted(b)
        /\ status' = [status EXCEPT ![b] = to]
        /\ UNCHANGED <<open, capacity, service, of, quantity, packaged>>
  BY DEF TransitionBooking
<1>2. /\ status'[b] = to /\ quantity[b] \in 1..MaxQuantity /\ of[b] \in Events
      /\ \A c \in Bookings : c # b => status'[c] = status[c]
  BY <1>1 DEF RowsOK
<1>. SUFFICES ASSUME NEW f \in Events PROVE Occupied(f)' <= capacity'[f]
  BY DEF NoOversell
<1>3. /\ f # of[b] => Occupied(f)' = Occupied(f)
      /\ status[b] \in Occupying \/ to \notin Occupying => Occupied(f)' <= Occupied(f)
      /\ Occupied(f)' <= Occupied(f) + quantity[b]
  BY <1>1, <1>2, PlacesChange
<1>4. Occupied(f) <= capacity[f] /\ Occupied(f) \in Nat /\ Occupied(f)' \in Nat
  BY PlacesCountable, Countable DEF NoOversell, Occupied
<1>5. capacity[f] \in Nat /\ quantity[b] \in Nat
  BY <1>2, BookingAssumption DEF RowsOK
<1>6. f = of[b] /\ status[b] \notin Occupying /\ to \in Occupying =>
        Occupied(f) + quantity[b] <= capacity[f]
  BY <1>1, <1>4, <1>5 DEF Promoted, Full
<1>. QED
  BY <1>1, <1>3, <1>4, <1>5, <1>6

\* No step oversells an event.
LEMMA OversellStep ==
    ASSUME RowsOK, NoOversell, [Next]_vars
    PROVE  NoOversell'
<1>1. ASSUME NEW b \in Bookings, CreateBooking(b) PROVE NoOversell'
  <2>1. PICK e \in Events, q \in 1..MaxQuantity, paid \in BOOLEAN,
             to \in {"reserved", "confirmed", "waitlisted"} :
          (to = "waitlisted" \/ ~Full(e, q)) /\ Insert(b, e, q, to, paid)
    BY <1>1 DEF CreateBooking
  <2>2. to \in Occupying \cup {"waitlisted"}
    BY DEF Occupying, Active
  <2>. QED
    BY <2>1, <2>2, InsertOversell
<1>2. ASSUME NEW b \in Bookings, TransitionBooking(b) PROVE NoOversell'
  BY <1>2, TransitionOversell
<1>3. ASSUME NEW e \in Events, UpdateBookingEvent(e) PROVE NoOversell'
  <2>1. PICK c \in 1..MaxCapacity :
          Occupied(e) <= c /\ capacity' = [capacity EXCEPT ![e] = c] /\ UNCHANGED booking
    BY <1>3, PlacesCountable, Countable, BookingAssumption DEF UpdateBookingEvent, Fits, Occupied
  <2>. SUFFICES ASSUME NEW f \in Events PROVE Occupied(f)' <= capacity'[f]
    BY DEF NoOversell
  <2>. QED
    BY <2>1, SameOccupation DEF NoOversell, RowsOK
<1>4. CASE RecordManualInvoicePayment \/ \E e \in Events : Closes(e)
  <2>1. UNCHANGED booking /\ capacity' = capacity
    BY <1>4 DEF RecordManualInvoicePayment, Closes, event
  <2>. QED
    BY <2>1, SameOccupation DEF NoOversell
<1>5. ASSUME NEW e \in Events, Confirm(e) PROVE NoOversell'
  <2>1. PICK b \in Bookings : Insert(b, e, 1, "reserved", FALSE) /\ ~Full(e, 1)
    BY <1>5 DEF Confirm, Available
  <2>2. 1 \in 1..MaxQuantity /\ "reserved" \in Occupying \cup {"waitlisted"}
    BY BookingAssumption DEF Occupying, Active
  <2>. QED
    BY <2>1, <2>2, InsertOversell
<1>6. CASE Talk \/ UNCHANGED vars
  <2>1. UNCHANGED booking /\ capacity' = capacity
    BY <1>6, TalkQuiet DEF vars, rows, event
  <2>. QED
    BY <2>1, SameOccupation DEF NoOversell
<1>. QED
  BY <1>1, <1>2, <1>3, <1>4, <1>5, <1>6, NextCases DEF Staff, StaffStep

\* Nothing is booked at first.
LEMMA OversellInit == Init => NoOversell
<1>. SUFFICES ASSUME Init, NEW e \in Events PROVE Occupied(e) <= capacity[e]
  BY DEF NoOversell
<1>1. Places(e) = {}
  BY DEF Init, BookingInit, Places, Occupying, Active
<1>. QED
  BY <1>1, FS_EmptySet, BookingAssumption DEF Occupied, Init, BookingInit

\* No event has more occupied places than its capacity, for any number of
\* bookings, whoever books, promotes from the waiting list or cuts the
\* capacity.
THEOREM NoOversellHolds == Spec => []NoOversell
<1>1. RowsOK /\ CreditInv /\ NoOversell /\ [Next]_vars => (RowsOK /\ CreditInv /\ NoOversell)'
  BY AccountedStep, OversellStep
<1>. QED
  BY <1>1, AccountedInit, OversellInit, PTL DEF Spec

-----------------------------------------------------------------------------
(* Offers and what came of them                                            *)

\* An offer that was not made was not told of.
Unmade == \A k \in Offers : k > offers =>
              offerMessage[k] = "none" /\ confirmation[k] = "none"

\* The session's offer is the last one; while it led to no booking there is no
\* confirmation, and its receipt is of a booking made on it.
LastOffer ==
    /\ current # 0 => current = offers
    /\ current # 0 /\ receipt = Nothing => confirmation[current] = "none"
    /\ receipt # Nothing => current # 0 /\ origin[receipt] = current

\* A booking made on an offer is the only one, and its confirmation was queued
\* with it; without a confirmation there is none.
OneEach ==
    /\ \A b \in Bookings : origin[b] # 0 =>
          status[b] # "absent" /\ confirmation[origin[b]] # "none"
    /\ \A k \in Offers : confirmation[k] # "none" => \E b \in Bookings : origin[b] = k
    /\ \A b, c \in Bookings : origin[b] # 0 /\ origin[b] = origin[c] => b = c

OfferInv == RowsOK /\ FlagsOK /\ ConversationOK /\ Unmade /\ LastOffer /\ OneEach

\* Staff never make a booking absent.
LEMMA StaffKeeps ==
    ASSUME RowsOK, Staff
    PROVE  \A b \in Bookings : status[b] # "absent" => status'[b] # "absent"
<1>1. ASSUME NEW b \in Bookings, CreateBooking(b)
      PROVE  \A c \in Bookings : status[c] # "absent" => status'[c] # "absent"
  BY <1>1 DEF CreateBooking, Insert, RowsOK
<1>2. ASSUME NEW b \in Bookings, TransitionBooking(b)
      PROVE  \A c \in Bookings : status[c] # "absent" => status'[c] # "absent"
  <2>1. PICK to \in Statuses : <<status[b], to>> \in Transitions
                               /\ status' = [status EXCEPT ![b] = to]
    BY <1>2 DEF TransitionBooking
  <2>2. to # "absent"
    BY <2>1 DEF Transitions
  <2>. QED
    BY <2>1, <2>2 DEF RowsOK
<1>3. CASE \/ \E e \in Events : UpdateBookingEvent(e) \/ Closes(e)
           \/ RecordManualInvoicePayment
  BY <1>3 DEF UpdateBookingEvent, Closes, RecordManualInvoicePayment, booking
<1>. QED
  BY <1>1, <1>2, <1>3 DEF Staff, StaffStep

\* A turn that offers anew.
LEMMA OfferedKeeps ==
    ASSUME OfferInv, RowsOK', Offered
    PROVE  OfferInv'
<1>0. UNCHANGED <<status, origin, confirmation, epoch, away>>
  BY DEF Offered, booking, policy
<1>1. CASE OfferNothing
  <2>1. ConversationOK'
    BY <1>0, <1>1 DEF OfferNothing, OfferInv, ConversationOK
  <2>2. FlagsOK'
    BY <1>0, <1>1, Zenon DEF OfferNothing, OfferInv, FlagsOK
  <2>. QED
    BY <1>0, <1>1, <2>1, <2>2 DEF OfferNothing, OfferInv, Unmade, LastOffer, OneEach
<1>2. CASE OfferSlots
  <2>0. /\ offers \in Nat /\ offers + 1 \in Offers /\ offers' = offers + 1
        /\ current' = offers + 1 /\ receipt' = Nothing /\ MaxOffers \in Nat
        /\ confirmation[offers + 1] = "none"
        /\ offerMessage' = [offerMessage EXCEPT ![offers + 1] = "queued"]
    BY <1>2, AIBookingAssumption
       DEF OfferSlots, OfferInv, ConversationOK, Unmade, Offers
  <2>1. ConversationOK'
    BY <1>0, <1>2, <2>0 DEF OfferSlots, OfferInv, ConversationOK, Fates, Offers
  <2>2. FlagsOK'
    BY <1>0, <1>2, Zenon DEF OfferSlots, OfferInv, FlagsOK
  <2>3. Unmade'
    BY <1>0, <2>0 DEF OfferInv, ConversationOK, Unmade, Offers
  <2>4. LastOffer' /\ OneEach'
    BY <1>0, <2>0 DEF OfferInv, LastOffer, OneEach
  <2>. QED
    BY <2>1, <2>2, <2>3, <2>4 DEF OfferInv
<1>. QED
  BY <1>1, <1>2 DEF Offered

\* A confirmation makes the one booking of its offer.
LEMMA ConfirmKeeps ==
    ASSUME OfferInv, RowsOK', NEW e \in Events, Confirm(e)
    PROVE  OfferInv'
<1>1. PICK b \in Bookings :
        /\ Insert(b, e, 1, "reserved", FALSE)
        /\ origin' = [origin EXCEPT ![b] = current]
        /\ receipt' = b
  BY DEF Confirm
<1>2. /\ confirmation' = [confirmation EXCEPT ![current] = "queued"]
      /\ current # 0 /\ receipt = Nothing
      /\ UNCHANGED <<offers, current, slots, bound, fresh, invalidated, policy, offerMessage>>
  BY DEF Confirm, Confirmable
<1>3. /\ current \in Offers /\ current = offers /\ confirmation[current] = "none"
      /\ b # Nothing
  BY <1>2, AIBookingAssumption DEF OfferInv, ConversationOK, LastOffer, Offers
<1>4. /\ status[b] = "absent" /\ status'[b] = "reserved"
      /\ \A c \in Bookings : c # b => status'[c] = status[c]
  BY <1>1 DEF Insert, OfferInv, RowsOK
<1>5. \A c \in Bookings : origin[c] # current
  BY <1>2, <1>3 DEF OfferInv, OneEach
<1>6. FlagsOK'
  BY <1>2, Zenon DEF OfferInv, FlagsOK, policy
<1>7. ConversationOK'
  BY <1>1, <1>2, <1>3 DEF OfferInv, ConversationOK, policy, Fates, Offers
<1>8. /\ origin'[b] = current /\ confirmation'[current] = "queued"
      /\ \A c \in Bookings : c # b => origin'[c] = origin[c]
      /\ \A k \in Offers : k # current => confirmation'[k] = confirmation[k]
      /\ \A c \in Bookings : origin[c] \in 0..MaxOffers
  BY <1>1, <1>2, <1>3 DEF OfferInv, ConversationOK
<1>9. Unmade'
  BY <1>2, <1>3, <1>8 DEF OfferInv, ConversationOK, Unmade, Offers
<1>10. LastOffer'
  BY <1>1, <1>2, <1>3, <1>8 DEF LastOffer
<1>11. OneEach'
  <2>1. \A c \in Bookings : origin'[c] # 0 => status'[c] # "absent"
    BY <1>4, <1>8 DEF OfferInv, OneEach
  <2>2. \A c \in Bookings : origin'[c] # 0 => confirmation'[origin'[c]] # "none"
    BY <1>5, <1>8, AIBookingAssumption DEF OfferInv, OneEach, Offers
  <2>3. \A k \in Offers : confirmation'[k] # "none" => \E c \in Bookings : origin'[c] = k
    <3>. SUFFICES ASSUME NEW k \in Offers, k # current, confirmation'[k] # "none"
                  PROVE  \E c \in Bookings : origin'[c] = k
      BY <1>8
    <3>1. PICK c \in Bookings : origin[c] = k
      BY <1>8 DEF OfferInv, OneEach
    <3>2. c # b
      BY <1>4, <3>1, AIBookingAssumption DEF OfferInv, OneEach, Offers
    <3>. QED
      BY <1>8, <3>1, <3>2
  <2>4. \A c, d \in Bookings : origin'[c] # 0 /\ origin'[c] = origin'[d] => c = d
    BY <1>5, <1>8 DEF OfferInv, OneEach
  <2>. QED
    BY <2>1, <2>2, <2>3, <2>4 DEF OneEach
<1>. QED
  BY <1>6, <1>7, <1>9, <1>10, <1>11 DEF OfferInv

\* A step that makes no offer and no booking, and changes what became of
\* messages that there are.
LEMMA FatesKeep ==
    ASSUME OfferInv, RowsOK', FlagsOK', ConversationOK',
           UNCHANGED <<offers, current, receipt, origin>>,
           \A b \in Bookings : status[b] # "absent" => status'[b] # "absent",
           \A k \in Offers : /\ confirmation'[k] = "none" <=> confirmation[k] = "none"
                             /\ offerMessage'[k] = "none" <=> offerMessage[k] = "none"
    PROVE  OfferInv'
<1>1. Unmade'
  BY DEF OfferInv, Unmade
<1>2. LastOffer'
  <2>1. current # 0 => current \in Offers
    BY AIBookingAssumption DEF OfferInv, ConversationOK, Offers
  <2>. QED
    BY <2>1 DEF OfferInv, LastOffer
<1>3. OneEach'
  <2>1. \A b \in Bookings : origin[b] # 0 => origin[b] \in Offers
    BY AIBookingAssumption DEF OfferInv, ConversationOK, Offers
  <2>. QED
    BY <2>1 DEF OfferInv, OneEach
<1>. QED
  BY <1>1, <1>2, <1>3 DEF OfferInv

\* What a talk that makes no offer does to the conversation.
LEMMA TalkFates ==
    ASSUME OfferInv,
           \/ Expire \/ Pause \/ Handoff \/ Resume
           \/ \E k \in Offers :
                \/ DispatchOffer(k) \/ OfferAnswered(k)
                \/ DispatchConfirmation(k) \/ ConfirmationAnswered(k)
    PROVE  /\ FlagsOK' /\ ConversationOK'
           /\ UNCHANGED <<offers, current, receipt, origin>>
           /\ \A k \in Offers :
                /\ confirmation'[k] = "none" <=> confirmation[k] = "none"
                /\ offerMessage'[k] = "none" <=> offerMessage[k] = "none"
<1>0. FlagsOK /\ ConversationOK
  BY DEF OfferInv
<1>1. CASE Expire
  BY <1>0, <1>1 DEF Expire, Unchanged, policy, replies, FlagsOK, ConversationOK
<1>2. CASE Pause
  <2>1. /\ epoch' = epoch + 1 /\ away' = TRUE /\ epoch < MaxEpochs
        /\ offerMessage' = Unqueued(offerMessage) /\ confirmation' = Unqueued(confirmation)
        /\ UNCHANGED <<offers, current, slots, bound, fresh, receipt, invalidated, origin>>
    BY <1>2 DEF Pause, Unchanged, session
  <2>2. FlagsOK'
    BY <1>0, <2>1, Zenon DEF FlagsOK
  <2>3. /\ offerMessage' \in [Offers -> Fates] /\ confirmation' \in [Offers -> Fates]
        /\ \A k \in Offers :
             /\ confirmation'[k] = "none" <=> confirmation[k] = "none"
             /\ offerMessage'[k] = "none" <=> offerMessage[k] = "none"
    BY <1>0, <2>1 DEF Unqueued, ConversationOK, Fates
  <2>4. ConversationOK'
    BY <1>0, <2>1, <2>3, AIBookingAssumption DEF ConversationOK
  <2>. QED
    BY <2>1, <2>2, <2>3, <2>4
<1>3. CASE Handoff
  <2>1. /\ epoch' = epoch + 1 /\ away' = TRUE /\ epoch < MaxEpochs /\ invalidated' = TRUE
        /\ UNCHANGED <<offers, current, slots, bound, fresh, receipt, replies, origin>>
    BY <1>3 DEF Handoff, Unchanged
  <2>2. FlagsOK'
    BY <1>0, <2>1, Zenon DEF FlagsOK
  <2>3. ConversationOK'
    BY <1>0, <2>1, AIBookingAssumption DEF ConversationOK, replies
  <2>. QED
    BY <2>1, <2>2, <2>3 DEF replies
<1>4. CASE Resume
  <2>1. /\ away' = FALSE
        /\ UNCHANGED <<session, replies, offers, origin, epoch>>
    BY <1>4 DEF Resume, Unchanged
  <2>2. FlagsOK'
    BY <1>0, <2>1, Zenon DEF FlagsOK, session
  <2>. QED
    BY <1>0, <2>1, <2>2 DEF ConversationOK, session, replies
<1>5. ASSUME NEW k \in Offers,
             \/ DispatchOffer(k) \/ OfferAnswered(k)
             \/ DispatchConfirmation(k) \/ ConfirmationAnswered(k)
      PROVE  /\ FlagsOK' /\ ConversationOK'
             /\ UNCHANGED <<offers, current, receipt, origin>>
             /\ \A i \in Offers :
                  /\ confirmation'[i] = "none" <=> confirmation[i] = "none"
                  /\ offerMessage'[i] = "none" <=> offerMessage[i] = "none"
  <2>1. UNCHANGED <<session, policy, offers, origin>>
    BY <1>5 DEF DispatchOffer, OfferAnswered, DispatchConfirmation, ConfirmationAnswered, Unchanged
  <2>2. \/ /\ UNCHANGED confirmation /\ offerMessage[k] # "none"
           /\ \E what \in Fates \ {"none"} : offerMessage' = [offerMessage EXCEPT ![k] = what]
        \/ /\ UNCHANGED offerMessage /\ confirmation[k] # "none"
           /\ \E what \in Fates \ {"none"} : confirmation' = [confirmation EXCEPT ![k] = what]
    BY <1>5 DEF DispatchOffer, OfferAnswered, DispatchConfirmation, ConfirmationAnswered, Fates
  <2>3. /\ offerMessage' \in [Offers -> Fates] /\ confirmation' \in [Offers -> Fates]
        /\ \A i \in Offers :
             /\ confirmation'[i] = "none" <=> confirmation[i] = "none"
             /\ offerMessage'[i] = "none" <=> offerMessage[i] = "none"
    BY <1>0, <2>2 DEF ConversationOK, Fates
  <2>4. FlagsOK'
    BY <1>0, <2>1, Zenon DEF FlagsOK, session, policy
  <2>. QED
    BY <1>0, <2>1, <2>3, <2>4 DEF ConversationOK, session, policy
<1>. QED
  BY <1>1, <1>2, <1>3, <1>4, <1>5

\* The invariant is inductive.
LEMMA OfferStep == OfferInv /\ CreditInv /\ [Next]_vars => OfferInv' /\ CreditInv'
<1>. SUFFICES ASSUME OfferInv, CreditInv, [Next]_vars PROVE OfferInv' /\ CreditInv'
  OBVIOUS
<1>0. RowsOK /\ RowsOK' /\ CreditInv' /\ FlagsOK /\ ConversationOK
  BY AccountedStep DEF OfferInv
<1>1. CASE Staff
  <2>1. UNCHANGED <<offers, session, policy, replies, origin>>
    BY <1>1 DEF Staff
  <2>2. FlagsOK' /\ ConversationOK'
    BY <1>0, <2>1 DEF FlagsOK, ConversationOK, session, policy, replies
  <2>. QED
    BY <1>0, <1>1, <2>1, <2>2, StaffKeeps, FatesKeep DEF session, replies
<1>2. CASE \E e \in Events : Confirm(e)
  BY <1>0, <1>2, ConfirmKeeps
<1>3. CASE Offered
  BY <1>0, <1>3, OfferedKeeps
<1>4. CASE Talk /\ ~Offered
  <2>1. status' = status
    BY <1>4, TalkQuiet DEF booking
  <2>. QED
    BY <1>0, <1>4, <2>1, TalkFates, FatesKeep DEF Talk, Ask, ConfirmLate
<1>5. CASE UNCHANGED vars
  <2>1. FlagsOK' /\ ConversationOK'
    BY <1>0, <1>5 DEF FlagsOK, ConversationOK, vars, session, policy, replies
  <2>. QED
    BY <1>0, <1>5, <2>1, FatesKeep DEF vars, session, replies, rows, booking
<1>. QED
  BY <1>1, <1>2, <1>3, <1>4, <1>5, NextCases

\* It holds at first.
LEMMA OfferInit == Init => OfferInv
<1>. SUFFICES ASSUME Init PROVE OfferInv
  OBVIOUS
<1>1. RowsOK
  BY AccountedInit
<1>2. FlagsOK
  BY Zenon DEF Init, FlagsOK
<1>3. ConversationOK
  BY AIBookingAssumption DEF Init, ConversationOK, Fates
<1>4. Unmade /\ LastOffer /\ OneEach
  BY AIBookingAssumption DEF Init, Unmade, LastOffer, OneEach
<1>. QED
  BY <1>1, <1>2, <1>3, <1>4 DEF OfferInv

\* The invariant of the module.
Inv == OfferInv /\ CreditInv

\* It holds throughout.
LEMMA Invariant == Spec => []Inv
<1>1. Init => Inv
  BY AccountedInit, OfferInit DEF Inv
<1>2. Inv /\ [Next]_vars => Inv'
  BY OfferStep DEF Inv
<1>. QED
  BY <1>1, <1>2, PTL DEF Spec

\* The tables, the session and the replies have their types, for any bookings,
\* events and services.
THEOREM BookingTypeCorrect == Spec => []TypeOK
<1>1. Inv => TypeOK
  BY DEF Inv, OfferInv, FlagsOK, ConversationOK, TypeOK
<1>. QED
  BY <1>1, Invariant, PTL

\* An offer leads to at most one booking, and to one exactly when its
\* confirmation was queued (confirmChannelAIBookingTx).
THEOREM BookingsToldHolds == Spec => []BookingsTold
<1>1. Inv => BookingsTold
  <2>. SUFFICES ASSUME Inv, NEW k \in Offers
                PROVE  Cardinality({b \in Bookings : origin[b] = k})
                         = IF confirmation[k] = "none" THEN 0 ELSE 1
    BY DEF BookingsTold
  <2>0. OneEach /\ k # 0
    BY AIBookingAssumption DEF Inv, OfferInv, Offers
  <2>1. CASE confirmation[k] = "none"
    <3>1. {b \in Bookings : origin[b] = k} = {}
      BY <2>0, <2>1 DEF OneEach
    <3>. QED
      BY <2>1, <3>1, FS_EmptySet
  <2>2. CASE confirmation[k] # "none"
    <3>1. PICK b \in Bookings : origin[b] = k
      BY <2>0, <2>2 DEF OneEach
    <3>2. {c \in Bookings : origin[c] = k} = {b}
      BY <2>0, <3>1 DEF OneEach
    <3>. QED
      BY <2>2, <3>2, FS_Singleton
  <2>. QED
    BY <2>1, <2>2
<1>. QED
  BY <1>1, Invariant, PTL

\* A booking is made on the offer that was sent last, of an event as it was
\* offered, with nobody having taken over since.
THEOREM BookedAsOfferedHolds == Spec => BookedAsOffered
<1>1. Inv /\ [Next]_vars => [Honest]_vars
  <2>. SUFFICES ASSUME Inv, Next PROVE Honest
    BY DEF Honest, vars
  <2>1. CASE Staff \/ Talk
    BY <2>1, TalkQuiet DEF Staff, Honest
  <2>2. ASSUME NEW e \in Events, Confirm(e) PROVE Honest
    <3>1. PICK b \in Bookings :
            Insert(b, e, 1, "reserved", FALSE) /\ origin' = [origin EXCEPT ![b] = current]
      BY <2>2 DEF Confirm
    <3>2. /\ current # 0 /\ offerMessage[current] = "sent" /\ bound = epoch /\ ~away
          /\ e \in slots \ moved
      BY <2>2 DEF Confirm, Turn, Confirmable, Available
    <3>3. current = offers
      BY <3>2 DEF Inv, OfferInv, LastOffer
    <3>4. of'[b] = e /\ origin'[b] = current
          /\ \A c \in Bookings : c # b => origin'[c] = origin[c]
      BY <3>1 DEF Insert, Inv, OfferInv, RowsOK, ConversationOK
    <3>. QED
      BY <3>2, <3>3, <3>4 DEF Honest
  <2>. QED
    BY <2>1, <2>2, NextCases
<1>. QED
  BY <1>1, Invariant, PTL DEF Spec, BookedAsOffered

\* What the outbox begins to send is true when it begins
\* (verifyChannelAIBookingDispatchTx).
THEOREM SentTruthfullyHolds == Spec => SentTruthfully
<1>1. Inv /\ [Next]_vars => [Truthful]_vars
  <2>. SUFFICES ASSUME Inv, Next PROVE Truthful
    BY DEF Truthful, vars
  <2>1. ASSUME NEW k \in Offers, DispatchConfirmation(k) PROVE Truthful
    <3>1. /\ offerMessage' = offerMessage
          /\ \A i \in Offers : i # k => confirmation'[i] = confirmation[i]
          /\ confirmation'[k] = "sending" => BookingStands(k)
      BY <2>1 DEF DispatchConfirmation, Inv, OfferInv, ConversationOK
    <3>2. BookingStands(k) => \E b \in Bookings : origin[b] = k /\ status[b] = "reserved"
      BY DEF BookingStands, Binds, Inv, OfferInv, ConversationOK, LastOffer
    <3>. QED
      BY <3>1, <3>2 DEF Truthful
  <2>2. ASSUME NEW k \in Offers, DispatchOffer(k) PROVE Truthful
    <3>1. /\ confirmation' = confirmation
          /\ \A i \in Offers : i # k => offerMessage'[i] = offerMessage[i]
          /\ offerMessage'[k] = "sending" => OfferStands(k)
      BY <2>2 DEF DispatchOffer, Inv, OfferInv, ConversationOK
    <3>2. OfferStands(k) => /\ k = offers /\ k = current
                            /\ InForce /\ fresh /\ ~away
                            /\ \A b \in Bookings : origin[b] # k
      <4>1. k # 0
        BY AIBookingAssumption DEF Offers
      <4>. QED
        BY <4>1 DEF OfferStands, Binds, InForce, Inv, OfferInv, LastOffer, OneEach
    <3>. QED
      BY <3>1, <3>2 DEF Truthful
  <2>3. ASSUME \/ UNCHANGED confirmation \/ \E k \in Offers, what \in Fates \ {"sending"} :
                                               confirmation' = [confirmation EXCEPT ![k] = what]
               \/ confirmation' = Unqueued(confirmation),
               \/ UNCHANGED offerMessage \/ \E k \in Offers, what \in Fates \ {"sending"} :
                                               offerMessage' = [offerMessage EXCEPT ![k] = what]
               \/ offerMessage' = Unqueued(offerMessage)
        PROVE  Truthful
    <3>1. /\ confirmation \in [Offers -> Fates]
          /\ offerMessage \in [Offers -> Fates]
      BY DEF Inv, OfferInv, ConversationOK
    <3>2. \A k \in Offers : confirmation'[k] = "sending" => confirmation[k] = "sending"
      BY <2>3, <3>1 DEF Unqueued
    <3>3. \A k \in Offers : offerMessage'[k] = "sending" => offerMessage[k] = "sending"
      BY <2>3, <3>1 DEF Unqueued
    <3>. QED
      BY <3>2, <3>3 DEF Truthful
  <2>4. CASE Staff
    BY <2>3, <2>4 DEF Staff, replies
  <2>5. ASSUME NEW e \in Events, Confirm(e) PROVE Truthful
    <3>1. current \in Offers
      BY <2>5, AIBookingAssumption DEF Confirm, Confirmable, Inv, OfferInv, ConversationOK, Offers
    <3>. QED
      BY <2>3, <2>5, <3>1 DEF Confirm, Fates
  <2>6. CASE Offered
    <3>1. offers < MaxOffers => offers + 1 \in Offers
      BY AIBookingAssumption DEF Inv, OfferInv, ConversationOK, Offers
    <3>. QED
      BY <2>3, <2>6, <3>1 DEF Offered, OfferNothing, OfferSlots, Fates
  <2>7. CASE Expire \/ Pause \/ Handoff \/ Resume
    BY <2>3, <2>7 DEF Expire, Pause, Handoff, Resume, replies
  <2>8. ASSUME NEW k \in Offers, OfferAnswered(k) \/ ConfirmationAnswered(k) PROVE Truthful
    BY <2>3, <2>8 DEF OfferAnswered, ConfirmationAnswered, Fates
  <2>. QED
    BY <2>1, <2>2, <2>4, <2>5, <2>6, <2>7, <2>8, NextCases DEF Talk, Ask, ConfirmLate
<1>. QED
  BY <1>1, Invariant, PTL DEF Spec, SentTruthfully

-----------------------------------------------------------------------------
(* The booking conversation is a box office                                *)

Simulates == [Office!Next]_(Office!vars)

\* What the mapping reads.
Read == <<offers, session, epoch, moved, of, status, origin, offerMessage, confirmation>>

LEMMA NothingChanges == ASSUME UNCHANGED Read PROVE Simulates
<1>1. Stands' = Stands BY DEF Read, session, Stands, InForce
<1>2. Choice' = Choice BY DEF Read, session, Choice
<1>3. Made' = Made BY DEF Read, Made
<1>4. Standing' = Standing BY DEF Read, Standing
<1>. QED BY <1>1, <1>2, <1>3, <1>4 DEF Read, Simulates, Office!vars

\* A step that makes no booking and changes none.
LEMMA BookingsStay ==
    ASSUME UNCHANGED <<of, status, origin>>
    PROVE  Made' = Made /\ Standing' = Standing
BY DEF Made, Standing

\* The offer that stands is the last.
LEMMA Standings ==
    ASSUME OfferInv
    PROVE  /\ Stands \in {"open", "taken", "no"}
           /\ Stands = "open" <=> InForce /\ receipt = Nothing /\ fresh
           /\ Stands = "taken" <=> InForce /\ receipt # Nothing
           /\ InForce => current = offers /\ current \in Offers
<1>1. InForce => current = offers /\ current \in Offers
  BY AIBookingAssumption DEF InForce, OfferInv, LastOffer, ConversationOK, Offers
<1>. QED BY <1>1 DEF Stands

\* What staff do at the counter.
LEMMA StaffSimulates == ASSUME OfferInv, Staff PROVE Simulates
<1>1. UNCHANGED <<offers, session, policy, replies, origin>> BY DEF Staff
<1>2. Stands' = Stands BY <1>1 DEF session, policy, Stands, InForce
<1>3. moved \subseteq moved'
  BY DEF Staff, StaffStep, CreateBooking, TransitionBooking, UpdateBookingEvent, Closes,
         RecordManualInvoicePayment, Insert, event
<1>4. Choice' \subseteq Choice BY <1>1, <1>3 DEF Choice, session
<1>5. \A b \in Bookings : origin[b] # 0 => of'[b] = of[b]
  <2>1. ASSUME NEW c \in Bookings, CreateBooking(c)
        PROVE  \A b \in Bookings : origin[b] # 0 => of'[b] = of[b]
    BY <2>1 DEF CreateBooking, Insert, OfferInv, OneEach, RowsOK
  <2>2. CASE ~\E c \in Bookings : CreateBooking(c)
    <3>1. of' = of
      BY <2>2 DEF Staff, StaffStep, TransitionBooking, UpdateBookingEvent, Closes,
                  RecordManualInvoicePayment, booking
    <3>. QED BY <3>1
  <2>. QED BY <2>1, <2>2
<1>6. ASSUME NEW k \in Offers
      PROVE  {<<b, of'[b]>> : b \in {c \in Bookings : origin[c] = k}}
               = {<<b, of[b]>> : b \in {c \in Bookings : origin[c] = k}}
  <2>1. \A b \in {c \in Bookings : origin[c] = k} : of'[b] = of[b]
    BY <1>5, AIBookingAssumption DEF Offers
  <2>. QED BY <2>1
<1>7. Made' = Made BY <1>1, <1>6 DEF Made
<1>8. Standing' \subseteq Bookings BY DEF Standing
<1>9. Office!Counter
  BY <1>1, <1>2, <1>4, <1>7, <1>8 DEF Office!Counter, replies
<1>. QED BY <1>9 DEF Simulates, Office!Next

\* A turn that offers anew.
LEMMA OfferedSimulates == ASSUME OfferInv, ~Sending, Offered PROVE Simulates
<1>1. UNCHANGED <<of, status, origin, confirmation, epoch>>
  BY DEF Offered, booking, policy
<1>2. Made' = Made /\ Standing' = Standing BY <1>1, BookingsStay
<1>3. ~Office!Posting BY DEF Sending, Office!Posting
<1>4. /\ confirmation = [k \in Offers |-> confirmation[k]]
      /\ offerMessage = [k \in Offers |-> offerMessage[k]]
  BY DEF OfferInv, ConversationOK
<1>5. CASE OfferNothing
  <2>1. Stands' = "no" BY <1>5 DEF OfferNothing, Stands, InForce
  <2>2. Choice' \in SUBSET Choice BY <1>5 DEF OfferNothing, Choice
  <2>3. UNCHANGED <<offers, offerMessage>> BY <1>5 DEF OfferNothing
  <2>4. Office!Withdraw({}, {})
    BY <1>1, <1>2, <1>3, <1>4, <2>1, <2>2, <2>3 DEF Office!Withdraw, Office!Kept
  <2>. QED BY <2>4 DEF Simulates, Office!Next
<1>6. CASE OfferSlots
  <2>1. offers + 1 \in Offers /\ offers + 1 # 0
    BY <1>6, AIBookingAssumption DEF OfferSlots, OfferInv, ConversationOK, Offers
  <2>2. /\ offers' = offers + 1
        /\ offerMessage' = [offerMessage EXCEPT ![offers + 1] = "queued"]
    BY <1>6 DEF OfferSlots
  <2>3. InForce' BY <1>1, <1>6, <2>1 DEF OfferSlots, InForce
  <2>4. Stands' = "open"
    <3>1. fresh' /\ ~(receipt' # Nothing) BY <1>6 DEF OfferSlots
    <3>. QED BY <2>3, <3>1, Zenon DEF Stands
  <2>5. Choice' \in (SUBSET Events) \ {{}}
    <3>1. slots' \subseteq Events /\ slots' # {} /\ moved' = {} BY <1>6 DEF OfferSlots
    <3>2. Choice' = slots' BY <3>1 DEF Choice
    <3>. QED BY <3>1, <3>2
  <2>6. Office!Offer
    BY <1>1, <1>2, <1>3, <2>1, <2>2, <2>4, <2>5 DEF Office!Offer
  <2>. QED BY <2>6 DEF Simulates, Office!Next
<1>. QED BY <1>5, <1>6 DEF Offered

\* A confirmation books a place that the offer has, as it has it.
LEMMA ConfirmSimulates ==
    ASSUME OfferInv, NEW e \in Events, Confirm(e)
    PROVE  Simulates
<1>1. PICK b \in Bookings :
        /\ Insert(b, e, 1, "reserved", FALSE)
        /\ origin' = [origin EXCEPT ![b] = current]
        /\ receipt' = b
  BY DEF Confirm
<1>2. /\ confirmation' = [confirmation EXCEPT ![current] = "queued"]
      /\ UNCHANGED <<offers, current, slots, bound, fresh, invalidated, epoch, offerMessage>>
      /\ offerMessage[current] = "sent" /\ receipt = Nothing /\ ~Sending
      /\ InForce /\ fresh /\ e \in slots \ moved
  BY DEF Confirm, Confirmable, InForce, policy, Turn, Available
<1>3. Stands = "open" /\ current = offers /\ current \in Offers /\ current # 0
  BY <1>2, Standings DEF InForce
<1>4. Stands' = "taken"
  BY <1>1, <1>2, AIBookingAssumption DEF Stands, InForce
<1>5. moved' = moved \cup {e} BY <1>1 DEF Insert, Occupying, Active
<1>6. Choice' = Choice \ {e} BY <1>2, <1>5 DEF Choice
<1>7. /\ status[b] = "absent" /\ status' = [status EXCEPT ![b] = "reserved"]
      /\ of' = [of EXCEPT ![b] = e]
      /\ status \in [Bookings -> Statuses] /\ of \in [Bookings -> Events]
      /\ origin \in [Bookings -> 0..MaxOffers]
  BY <1>1 DEF Insert, OfferInv, RowsOK, ConversationOK
<1>8. Standing' = Standing \cup {b} /\ b \notin Standing BY <1>7 DEF Standing
<1>9. \A c \in Bookings : origin[c] # current
  BY <1>2, <1>3 DEF OfferInv, OneEach, LastOffer
<1>10. Made[offers] = {} BY <1>3, <1>9 DEF Made
<1>11. origin[b] = 0 BY <1>7 DEF OfferInv, OneEach
<1>12. Made' = [Made EXCEPT ![offers] = {<<b, e>>}]
  <2>1. ASSUME NEW k \in Offers
        PROVE  {<<c, of'[c]>> : c \in {d \in Bookings : origin'[d] = k}}
                 = IF k = offers THEN {<<b, e>>} ELSE Made[k]
    <3>1. CASE k = offers
      <4>1. {d \in Bookings : origin'[d] = k} = {b} BY <1>1, <1>3, <1>7, <1>9, <3>1
      <4>2. of'[b] = e BY <1>7
      <4>. QED BY <3>1, <4>1, <4>2
    <3>2. CASE k # offers
      <4>1. k # 0 BY AIBookingAssumption DEF Offers
      <4>2. {d \in Bookings : origin'[d] = k} = {d \in Bookings : origin[d] = k}
        BY <1>1, <1>3, <1>7, <1>11, <3>2, <4>1
      <4>3. \A d \in {d \in Bookings : origin[d] = k} : of'[d] = of[d]
        BY <1>7, <1>11, <4>1
      <4>4. {<<c, of'[c]>> : c \in {d \in Bookings : origin[d] = k}}
              = {<<c, of[c]>> : c \in {d \in Bookings : origin[d] = k}}
        BY <4>3
      <4>. QED BY <3>2, <4>2, <4>4 DEF Made
    <3>. QED BY <3>1, <3>2
  <2>2. Made' = [k \in Offers |-> IF k = offers THEN {<<b, e>>} ELSE Made[k]]
    BY <2>1 DEF Made
  <2>. QED BY <1>3, <2>2 DEF Made
<1>13. ~Office!Posting BY <1>2 DEF Sending, Office!Posting
<1>14. Office!Book(b, e)
  <2>1. e \in Choice BY <1>2 DEF Choice
  <2>. QED
    BY <1>2, <1>3, <1>4, <1>6, <1>8, <1>10, <1>12, <1>13, <2>1 DEF Office!Book
<1>. QED BY <1>14 DEF Simulates, Office!Next

\* Time, and those who take over and give back.
LEMMA AwaySimulates ==
    ASSUME OfferInv, Expire \/ Pause \/ Handoff \/ Resume
    PROVE  Simulates
<1>1. UNCHANGED <<moved, of, status, origin, offers, current, slots, bound, receipt>>
  BY DEF Expire, Pause, Handoff, Resume, Unchanged, rows, event, booking, session
<1>2. Made' = Made /\ Standing' = Standing BY <1>1, BookingsStay
<1>3. Choice' = Choice BY <1>1 DEF Choice
<1>4. /\ confirmation = [k \in Offers |-> confirmation[k]]
      /\ offerMessage = [k \in Offers |-> offerMessage[k]]
      /\ bound \in 0..epoch /\ epoch \in Nat
  BY AIBookingAssumption DEF OfferInv, ConversationOK
<1>5. CASE Expire
  <2>1. fresh' = FALSE /\ UNCHANGED <<invalidated, epoch, replies>>
    BY <1>5 DEF Expire, policy
  <2>2. CASE Stands = "open"
    <3>1. Stands' = "no"
      BY <1>1, <2>1, <2>2, Standings DEF Stands, InForce
    <3>2. Office!Expire
      BY <1>1, <1>2, <1>3, <2>1, <2>2, <3>1 DEF Office!Expire, replies
    <3>. QED BY <3>2 DEF Simulates, Office!Next
  <2>3. CASE Stands # "open"
    <3>1. Stands' = Stands
      BY <1>1, <2>1, <2>3 DEF Stands, InForce
    <3>. QED
      BY <1>1, <1>2, <1>3, <2>1, <3>1 DEF Simulates, Office!vars, replies
  <2>. QED BY <2>2, <2>3
<1>6. CASE Pause
  <2>1. /\ ~Sending /\ epoch' = epoch + 1
        /\ offerMessage' = Unqueued(offerMessage) /\ confirmation' = Unqueued(confirmation)
    BY <1>6 DEF Pause
  <2>2. Stands' = "no" BY <1>1, <1>4, <2>1 DEF Stands, InForce
  <2>3. ~Office!Posting BY <2>1 DEF Sending, Office!Posting
  <2> DEFINE letters == {k \in Offers : offerMessage[k] = "queued"}
             notices == {k \in Offers : confirmation[k] = "queued"}
  <2>4. /\ offerMessage' = Office!Kept(offerMessage, letters)
        /\ confirmation' = Office!Kept(confirmation, notices)
    BY <2>1 DEF Unqueued, Office!Kept
  <2>5. Office!Withdraw(letters, notices)
    BY <1>1, <1>2, <1>3, <2>2, <2>3, <2>4 DEF Office!Withdraw
  <2>6. letters \in SUBSET Offers /\ notices \in SUBSET Offers
    OBVIOUS
  <2>. QED BY <2>5, <2>6 DEF Simulates, Office!Next
<1>7. CASE Handoff
  <2>1. ~Sending /\ epoch' = epoch + 1 /\ UNCHANGED replies BY <1>7 DEF Handoff
  <2>2. Stands' = "no" BY <1>1, <1>4, <2>1 DEF Stands, InForce
  <2>3. ~Office!Posting BY <2>1 DEF Sending, Office!Posting
  <2>4. Office!Withdraw({}, {})
    BY <1>1, <1>2, <1>3, <1>4, <2>1, <2>2, <2>3
       DEF Office!Withdraw, Office!Kept, replies
  <2>. QED BY <2>4 DEF Simulates, Office!Next
<1>8. CASE Resume
  BY <1>1, <1>8, NothingChanges DEF Resume, Read, session, replies
<1>. QED BY <1>5, <1>6, <1>7, <1>8

\* A message is posted, or taken back, and answered.
LEMMA DispatchSimulates ==
    ASSUME OfferInv, NEW k \in Offers,
           \/ DispatchOffer(k) \/ DispatchConfirmation(k)
           \/ OfferAnswered(k) \/ ConfirmationAnswered(k)
    PROVE  Simulates
<1>1. UNCHANGED <<moved, of, status, origin, offers, session, epoch>>
  BY DEF DispatchOffer, DispatchConfirmation, OfferAnswered, ConfirmationAnswered,
         Unchanged, rows, event, booking, policy
<1>2. Made' = Made /\ Standing' = Standing BY <1>1, BookingsStay
<1>3. Choice' = Choice /\ Stands' = Stands
  BY <1>1 DEF Choice, Stands, InForce, session
<1>4. offerMessage \in [Offers -> Fates] /\ confirmation \in [Offers -> Fates]
  BY DEF OfferInv, ConversationOK
<1>5. CASE DispatchOffer(k)
  <2>1. /\ ~Office!Posting /\ offerMessage[k] = "queued" /\ UNCHANGED confirmation
    BY <1>5 DEF DispatchOffer, Sending, Office!Posting
  <2>2. CASE OfferStands(k)
    <3>1. Stands = "open" /\ k = offers
      BY <2>2, Standings DEF OfferStands, Binds, InForce, Offers
    <3>2. offerMessage' = [offerMessage EXCEPT ![k] = "sending"]
      BY <1>5, <2>2 DEF DispatchOffer
    <3>3. Office!PostLetter
      BY <1>1, <1>2, <1>3, <2>1, <3>1, <3>2 DEF Office!PostLetter
    <3>. QED BY <3>3 DEF Simulates, Office!Next
  <2>3. CASE ~OfferStands(k)
    <3>1. offerMessage' = [offerMessage EXCEPT ![k] = "cancelled"]
      BY <1>5, <2>3 DEF DispatchOffer
    <3>2. /\ offerMessage' = Office!Kept(offerMessage, {k})
          /\ confirmation' = Office!Kept(confirmation, {})
      BY <1>4, <2>1, <3>1 DEF Office!Kept
    <3>3. Office!Withdraw({k}, {})
      BY <1>1, <1>2, <1>3, <2>1, <3>2 DEF Office!Withdraw
    <3>. QED BY <3>3 DEF Simulates, Office!Next
  <2>. QED BY <2>2, <2>3
<1>6. CASE DispatchConfirmation(k)
  <2>1. /\ ~Office!Posting /\ confirmation[k] = "queued" /\ UNCHANGED offerMessage
    BY <1>6 DEF DispatchConfirmation, Sending, Office!Posting
  <2>2. CASE BookingStands(k)
    <3>1. /\ Stands = "taken" /\ k = offers
          /\ receipt \in Bookings /\ origin[receipt] = k /\ status[receipt] = "reserved"
      BY <2>2, Standings
         DEF BookingStands, Binds, InForce, OfferInv, LastOffer, ConversationOK, Offers
    <3>2. confirmation' = [confirmation EXCEPT ![k] = "sending"]
      BY <1>6, <2>2 DEF DispatchConfirmation
    <3>3. <<receipt, of[receipt]>> \in Made[offers] /\ receipt \in Standing
      BY <3>1 DEF Made, Standing
    <3>4. \E booked \in Made[offers] : booked[1] \in Standing BY <3>3
    <3>5. Office!PostNotice
      BY <1>1, <1>2, <1>3, <2>1, <3>1, <3>2, <3>4 DEF Office!PostNotice
    <3>. QED BY <3>5 DEF Simulates, Office!Next
  <2>3. CASE ~BookingStands(k)
    <3>1. confirmation' = [confirmation EXCEPT ![k] = "cancelled"]
      BY <1>6, <2>3 DEF DispatchConfirmation
    <3>2. /\ confirmation' = Office!Kept(confirmation, {k})
          /\ offerMessage' = Office!Kept(offerMessage, {})
      BY <1>4, <2>1, <3>1 DEF Office!Kept
    <3>3. Office!Withdraw({}, {k})
      BY <1>1, <1>2, <1>3, <2>1, <3>2 DEF Office!Withdraw
    <3>. QED BY <3>3 DEF Simulates, Office!Next
  <2>. QED BY <2>2, <2>3
<1>7. CASE OfferAnswered(k) \/ ConfirmationAnswered(k)
  <2>1. Office!Posted(k)
    BY <1>1, <1>2, <1>3, <1>7 DEF OfferAnswered, ConfirmationAnswered, Office!Posted
  <2>. QED BY <2>1 DEF Simulates, Office!Next
<1>. QED BY <1>5, <1>6, <1>7

LEMMA BoxOfficeInit == Init => Office!Init
<1>. SUFFICES ASSUME Init PROVE Office!Init
  OBVIOUS
<1>1. Stands = "no" BY DEF Init, Stands, InForce
<1>2. Choice = {} BY DEF Init, Choice
<1>3. Standing = {} BY DEF Init, BookingInit, Standing
<1>4. ASSUME NEW k \in Offers
      PROVE  {<<b, of[b]>> : b \in {c \in Bookings : origin[c] = k}} = {}
  <2>1. {c \in Bookings : origin[c] = k} = {} BY AIBookingAssumption DEF Init, Offers
  <2>. QED BY <2>1
<1>5. Made = [k \in Offers |-> {}] BY <1>4 DEF Made
<1>. QED BY <1>1, <1>2, <1>3, <1>5 DEF Init, Office!Init

LEMMA BoxOfficeStep == ASSUME OfferInv, [Next]_vars PROVE Simulates
<1>1. CASE Staff
  BY <1>1, StaffSimulates
<1>2. ASSUME NEW e \in Events, Confirm(e) PROVE Simulates
  BY <1>2, ConfirmSimulates
<1>3. ASSUME NEW e \in Events, ConfirmLate(e) PROVE Simulates
  BY <1>3, OfferedSimulates DEF ConfirmLate, Turn
<1>4. CASE Ask
  BY <1>4, OfferedSimulates DEF Ask, Turn
<1>5. CASE Expire \/ Pause \/ Handoff \/ Resume
  BY <1>5, AwaySimulates
<1>6. ASSUME NEW k \in Offers,
             \/ DispatchOffer(k) \/ OfferAnswered(k)
             \/ DispatchConfirmation(k) \/ ConfirmationAnswered(k)
      PROVE  Simulates
  BY <1>6, DispatchSimulates
<1>7. CASE UNCHANGED vars
  BY <1>7, NothingChanges DEF vars, Read, rows, event, booking, policy, replies
<1>. QED BY <1>1, <1>2, <1>3, <1>4, <1>5, <1>6, <1>7 DEF Next

\* The conversation and the staff beside it implement a box office, for any
\* events, bookings, capacities, offers and handovers: one booking at most is
\* made on an offer, of a place as it was offered, on the last offer, once the
\* customer has it and while it stands; and no message is sent that is not
\* true (confirmChannelAIBookingTx, verifyChannelAIBookingDispatchTx).
THEOREM ImplementsBoxOfficeHolds == Spec => ImplementsBoxOffice
<1>1. Init => Office!Init BY BoxOfficeInit
<1>2. Inv /\ [Next]_vars => [Office!Next]_(Office!vars)
  BY BoxOfficeStep DEF Inv, Simulates
<1>. QED BY <1>1, <1>2, Invariant, PTL DEF Spec, ImplementsBoxOffice, Office!Spec
=============================================================================
