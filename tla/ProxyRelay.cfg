\* Three connections of the one client, which may be sent to two addresses.
CONSTANTS
  Addresses = {"a1", "a2"}
  MaxConns = 3
SPECIFICATION Spec
 
INVARIANT NobodyInFreed
PROPERTY LeavingEnds
CHECK_DEADLOCK FALSE
