--------------------------- MODULE MCClientSession ---------------------------
\* A club's account and an administrator's, in one tab.
EXTENDS ClientSession
=============================================================================
