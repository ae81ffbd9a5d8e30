----------------------------- MODULE MCJobQueue -----------------------------
EXTENDS JobQueue, TLC

\* Jobs and workers are interchangeable: no action picks one by name.
Symmetry == Permutations(Jobs) \cup Permutations(Workers)

=============================================================================
