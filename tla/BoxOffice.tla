----------------------------- MODULE BoxOffice ------------------------------
(***************************************************************************)
(* What a box office that writes to its customer promises: one booking at  *)
(* most is made on an offer, of a place that is still as it was offered,   *)
(* on the last offer only, after the customer has it and while nobody      *)
(* withdrew it; and the customer is told of a booking that was made on the *)
(* offer, and is not sent an offer or a confirmation that does not stand.  *)
(***************************************************************************)
EXTENDS Naturals

CONSTANTS
    Offers,         \* numbered as they are made
    Seats,
    Bookings

VARIABLES
    last,           \* the offer made last, 0 before the first
    stands,         \* it: open, taken, or no
    choice,         \* the places that are as it offers them
    made,           \* on each offer: bookings, with their places
    standing,       \* the bookings that are reserved
    letter,         \* what became of the message of each offer
    notice          \* and of the confirmation of its booking

vars == <<last, stands, choice, made, standing, letter, notice>>

Init ==
    /\ last = 0 /\ stands = "no" /\ choice = {}
    /\ made = [k \in Offers |-> {}]
    /\ standing = {}
    /\ letter = [k \in Offers |-> "none"]
    /\ notice = [k \in Offers |-> "none"]

Posting == \E k \in Offers : "sending" \in {letter[k], notice[k]}

Offer ==
    /\ ~Posting /\ last + 1 \in Offers
    /\ last' = last + 1
    /\ stands' = "open"
    /\ choice' \in (SUBSET Seats) \ {{}}
    /\ letter' = [letter EXCEPT ![last + 1] = "queued"]
    /\ UNCHANGED <<made, standing, notice>>

Book(b, p) ==
    /\ ~Posting
    /\ stands = "open" /\ letter[last] = "sent" /\ made[last] = {}
    /\ p \in choice /\ b \notin standing
    /\ stands' = "taken"
    /\ choice' = choice \ {p}
    /\ made' = [made EXCEPT ![last] = {<<b, p>>}]
    /\ standing' = standing \cup {b}
    /\ notice' = [notice EXCEPT ![last] = "queued"]
    /\ UNCHANGED <<last, letter>>

\* An offer ends with its time.
Expire ==
    /\ stands = "open"
    /\ stands' = "no"
    /\ UNCHANGED <<last, choice, made, standing, letter, notice>>

Kept(messages, which) ==
    [k \in Offers |-> IF k \in which THEN "cancelled" ELSE messages[k]]

\* An offer, and messages that nobody posts yet, are taken back.
Withdraw(letters, notices) ==
    /\ ~Posting
    /\ \A k \in letters : letter[k] = "queued"
    /\ \A k \in notices : notice[k] = "queued"
    /\ stands' \in {stands, "no"}
    /\ choice' \in SUBSET choice
    /\ letter' = Kept(letter, letters)
    /\ notice' = Kept(notice, notices)
    /\ UNCHANGED <<last, made, standing>>

\* What goes on at the counter, at any time.
Counter ==
    /\ UNCHANGED <<last, letter, notice, stands, made>>
    /\ choice' \subseteq choice /\ standing' \subseteq Bookings

PostLetter ==
    /\ ~Posting
    /\ stands = "open" /\ letter[last] = "queued"
    /\ letter' = [letter EXCEPT ![last] = "sending"]
    /\ UNCHANGED <<last, stands, choice, made, standing, notice>>

PostNotice ==
    /\ ~Posting
    /\ stands = "taken" /\ notice[last] = "queued"
    /\ \E booked \in made[last] : booked[1] \in standing
    /\ notice' = [notice EXCEPT ![last] = "sending"]
    /\ UNCHANGED <<last, stands, choice, made, standing, letter>>

Posted(k) ==
    /\ \E how \in {"sent", "failed"} :
         \/ letter[k] = "sending" /\ letter' = [letter EXCEPT ![k] = how] /\ UNCHANGED notice
         \/ notice[k] = "sending" /\ notice' = [notice EXCEPT ![k] = how] /\ UNCHANGED letter
    /\ UNCHANGED <<last, stands, choice, made, standing>>

Next ==
    \/ Counter \/ Offer \/ Expire \/ PostLetter \/ PostNotice
    \/ \E b \in Bookings, p \in Seats : Book(b, p)
    \/ \E letters, notices \in SUBSET Offers : Withdraw(letters, notices)
    \/ \E k \in Offers : Posted(k)

Spec == Init /\ [][Next]_vars
=============================================================================
