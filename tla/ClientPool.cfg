\* Five clients, up to four workers of two clients each, one operation at a time.
CONSTANTS
  MaxClients = 5
  MaxThreads = 4
  ClientsPerThread = 2
  Overlaps = {}
SPECIFICATION FairSpec
INVARIANT CountsExact
 
CHECK_DEADLOCK FALSE
PROPERTY EveryClientServed
