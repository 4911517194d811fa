CONSTANTS
  Accounts = {"club", "admin"}
  Clubs = {"club"}
  MaxLogins = 2
  MaxOut = 2
  None = None
SPECIFICATION Spec
INVARIANTS
  SessionInv
  CacheIsOwn
PROPERTIES
  LeavingIsClean
