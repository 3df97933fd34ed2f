\* Two workers, one of which moves a client that the other polls.
CONSTANTS
  MaxClients = 3
  MaxThreads = 3
  ClientsPerThread = 1
  Overlaps = {"disconnect"}
SPECIFICATION Spec
INVARIANT OneWorkerPerClient
CHECK_DEADLOCK FALSE
