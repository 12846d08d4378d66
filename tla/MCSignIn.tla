------------------------------ MODULE MCSignIn ------------------------------
(* A small instance of SignIn.                                             *)
EXTENDS SignIn, TLC

CONSTANTS r1, r2, w1, w2, c1, c2

Symmetry == Permutations({r1, r2}) \cup Permutations({w1, w2}) \cup Permutations({c1, c2})
=============================================================================
