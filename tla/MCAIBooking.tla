---------------------------- MODULE MCAIBooking -----------------------------
(* Instances of AIBooking for TLC. *)
EXTENDS AIBooking, TLC

\* A second offer is made only while the package is not paid: an offer leads
\* to bookings that no package pays.
OneOfferWithPackage == offers < MaxOffers \/ due > 0

Symmetry == Permutations(Bookings) \cup Permutations(Services) \cup Permutations(Events)
=============================================================================
