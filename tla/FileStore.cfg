CONSTANTS
    File = {f1, f2, f3}
    Club = {c1}
    Document = {d1, d2}
    OwnerOf <- MCOwnerOf
    Rubric = {item}
    Content = {x, y}
    Size <- MCSize
    Asks <- MCAsks
    Txn = {r1, r2}
    Quota = 2
    Cap = 1
    NoRow = none
    NoFile = none
    NoSubject = none
    c1 = c1
    d1 = d1
    d2 = d2
    item = item
    x = x
    y = y
    f1 = f1
    f2 = f2
    f3 = f3
    r1 = r1
    r2 = r2
    none = none
SPECIFICATION Spec
SYMMETRY Symmetry
CHECK_DEADLOCK FALSE
INVARIANTS RowsMatchFiles LimitsKept RecordsInv
PROPERTY ShelfSpec
