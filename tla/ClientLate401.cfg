CONSTANTS
  Accounts = {"club", "admin"}
  Clubs = {"club"}
  MaxLogins = 2
  MaxOut = 2
  None = None
SPECIFICATION Spec
PROPERTIES
  LateVerifyKeepsUser
CHECK_DEADLOCK FALSE
