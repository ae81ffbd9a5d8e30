------------------------------- MODULE MCHub -------------------------------
EXTENDS Hub, TLC

\* Connections are interchangeable.
Symmetry == Permutations(Clients)

=============================================================================
