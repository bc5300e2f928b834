------------------------------ MODULE MCUsers ------------------------------
EXTENDS Users, TLC

Symmetry == Permutations(Workers) \cup Permutations(Names) \cup Permutations(Passwords)
=============================================================================
