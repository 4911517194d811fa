SPECIFICATION Spec
CONSTANTS
    None = None
    Asked = Asked
    MaxVersion = 3
INVARIANTS
    ReadYourWrites
    CacheInv
CHECK_DEADLOCK FALSE
