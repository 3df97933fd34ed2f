\* Three servers; the char server takes a login in each of its runs, dies and comes back; one hub worker; a build whose uninitialised iscid is no number the hub gives out.
CONSTANTS
  Servers = {"login", "char", "game"}
  MaxConns = 3
  Workers = {"w1"}
  Garbage = {52685}
  Type <- MCType
  Id <- MCId
  Owner <- MCOwner
  MaxUsers <- MCMaxUsers
  Mortal = {"char"}
  MaxLogins = 1
SPECIFICATION Spec
INVARIANT NumbersUnique
INVARIANT HubListsLive
INVARIANT CopiesAgree
CHECK_DEADLOCK FALSE
