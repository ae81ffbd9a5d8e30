------------------------------ MODULE MCUpload ------------------------------
EXTENDS Upload, TLC

\* Requests are interchangeable.
Symmetry == Permutations(Uploads)

=============================================================================
