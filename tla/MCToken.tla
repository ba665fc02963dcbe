------------------------------- MODULE MCToken -------------------------------
(* Two definitions of any kind over four accounts, amounts up to 3.         *)
EXTENDS Token, TLC

Symmetry == Permutations(Accounts) \cup Permutations(Definitions)
=============================================================================
