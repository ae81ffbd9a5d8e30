---------------------------- MODULE MCWorkerLoop ----------------------------
EXTENDS WorkerLoop, TLC

\* Requests are interchangeable.
Symmetry == Permutations(Uploads)

=============================================================================
