CONSTANTS
    Booking = {b1, b2}
    Venue = {hall}
    Club = {c1}
    Office = office
    Txn = {r1, r2}
    Batches = {}
    FixedAsks <- MCTwoSlots
    ManualAsks = {}
    Rules <- MCRules
    VenueFlags <- MCVenueFlags
    Windows <- MCWindows
    NoWindow = none
    Suspensions = {1}
    NextSemester <- MCNextSemester
    MaxDay = 3
    Periods = 1
    DaysPerWeek = 2
    MaxFixedSlots = 2
    NoBooking = none
    NoTerms = none
    c1 = c1
    office = office
    hall = hall
    b1 = b1
    b2 = b2
    r1 = r1
    r2 = r2
    none = none
SPECIFICATION Spec
INVARIANT NextRoundCanBeSet
