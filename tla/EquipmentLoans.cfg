CONSTANTS
    Loan = {1, 2}
    Item = {tent}
    Club = {c1}
    Office = office
    Txn = {r1, r2}
    Asks <- MCAsks
    Settings <- MCSettings
    Suspensions = {1}
    MaxDay = 2
    MaxLoanDays = 2
    NoTerms = none
    c1 = c1
    office = office
    tent = tent
    r1 = r1
    r2 = r2
    none = none
SPECIFICATION Spec
SYMMETRY Symmetry
INVARIANTS NoOverbooking RecordsInv
PROPERTIES SettledForGood LedgerSpec
