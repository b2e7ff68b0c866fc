CONSTANTS
    Bookings = {b1, b2}
    Events = {e1}
    Services = {s1, s2}
    Nothing = Nothing
    MaxCapacity = 2
    MaxQuantity = 2
    Credits = 2
    Price = 1
    MaxOffers = 2
    MaxEpochs = 1
SPECIFICATION Spec
CONSTRAINT OneOfferWithPackage
SYMMETRY Symmetry
INVARIANTS NoOversell CreditsAccounted BookingsTold
PROPERTIES SentTruthfully ImplementsBoxOffice
