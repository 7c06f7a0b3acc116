------------------------------ MODULE MCSpaces ------------------------------
EXTENDS Spaces, TLC

\* Ids are only ever compared with each other.
Symmetry == Permutations(Person) \cup Permutations(Code)
=============================================================================
