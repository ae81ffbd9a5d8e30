-------------------------- MODULE MCCancelRouting --------------------------
EXTENDS CancelRouting, FiniteSets, TLC

\* No action picks a job, a worker or a request by name.
Symmetry == Permutations(Jobs) \cup Permutations(Workers) \cup Permutations(Requests)

Busiest(n, S) == Cardinality(S) <= n

\* How much of the instance a state uses.
Uses(workers, requests, attempts, streams) ==
    /\ Busiest(workers, {w \in Workers : pc[w] # "drain" \/ sessions[w] # 0})
    /\ Busiest(requests, {r \in Requests : req[r].at # "idle"})
    /\ \A j \in Jobs : jobs[j].attempt <= attempts
    /\ \A w \in Workers : sessions[w] <= streams

OneJob == Busiest(1, {j \in Jobs : jobs[j].status # "absent"})

\* The union of small worlds: one worker that reconnects, with one job and a
\* cancel or with two jobs; two workers that take one job from each other; two
\* cancels of one job at once; and a cancel that arrives when its worker is at
\* another job.
SmallWorlds ==
    \/ Uses(1, 1, 1, 2) /\ OneJob
    \/ Uses(1, 0, 1, 2) /\ \A w \in Workers : Len(out[w]) <= 1
    \/ Uses(2, 0, 2, 1) /\ OneJob
    \/ Uses(1, 2, 1, 1) /\ OneJob
    \/ Uses(1, 1, 1, 1) /\ \A w \in Workers : Len(out[w]) <= 1

=============================================================================
