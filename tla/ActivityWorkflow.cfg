CONSTANTS
    Staff = {ann, bob}
    Keys <- MCKeys
    Txn = {r1, r2}
    Bodies <- MCBodies
    MaxAmount = 1
    MinPhotos = 1
    MaxPhotos = 1
    LockDays = 1
    MaxDay = 4
    MaxSaves = 2
    MaxRecords = 4
    NoLoad = none
    ann = ann
    bob = bob
    none = none
SPECIFICATION Spec
SYMMETRY Symmetry
CHECK_DEADLOCK FALSE
INVARIANTS SignaturesBackStatus GrantsAreCovered StatusIsBacked
PROPERTIES HandedInStays SignOffSpec
