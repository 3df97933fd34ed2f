---------------------------- MODULE MCClientPool ----------------------------
(* The client pool with a handful of clients and threads.                   *)
EXTENDS ClientPool
=============================================================================
