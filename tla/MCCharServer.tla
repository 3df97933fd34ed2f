---------------------------- MODULE MCCharServer ----------------------------
(* Values of the constants that a configuration cannot write.               *)
EXTENDS CharServer, TLC

MCSymmetry == Permutations(Workers) \cup Permutations(Users \ Banned) \cup Permutations(Sessions) \cup Permutations(Names)
              \cup Permutations(Tokens)
=============================================================================
