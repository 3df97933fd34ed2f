------------------------------ MODULE MCSignIn ------------------------------
(* Values of the constants that a configuration cannot write: login ids that *)
(* differ in their first word.                                               *)
EXTENDS SignIn, TLC

MCFirstWord == [t \in Tokens \cup {Zero} |-> t]
MCSymmetry == Permutations(Tokens) \cup Permutations(Users \ Banned) \cup Permutations(Players)

=============================================================================
