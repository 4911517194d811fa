CONSTANTS
    Booking = {b1, b2}
    Venue = {hall}
    Club = {c1}
    Office = office
    Txn = {r1, r2}
    Batches <- MCBatches
    FixedAsks <- MCFixedAsks
    ManualAsks <- MCManualAsks
    Rules <- MCRules
    VenueFlags <- MCVenueFlags
    Windows <- MCFirstWindow
    NoWindow = none
    Suspensions = {1}
    NextSemester <- MCNextSemester
    MaxDay = 3
    Periods = 1
    DaysPerWeek = 2
    MaxFixedSlots = 1
    NoBooking = none
    NoTerms = none
    c1 = c1
    office = office
    hall = hall
    b1 = b1
    b2 = b2
    r1 = r1
    r2 = r2
    none = none
SPECIFICATION Spec
SYMMETRY Symmetry
INVARIANTS NoDoubleUse ClubLimits RecordsInv
PROPERTIES SettledForGood CalendarSpec
