-------------------------- MODULE MCReadWriteMutex --------------------------
(* The lock on small sets of threads.                                       *)
EXTENDS ReadWriteMutex, TLC

Symmetry == Permutations(Threads)
=============================================================================
