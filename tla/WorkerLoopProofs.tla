-------------------------- MODULE WorkerLoopProofs --------------------------
(***************************************************************************)
(* Proofs about WorkerLoop, for any set of requests, any poll interval and *)
(* any backoff.  Its steps are steps of Upload or leave it alone, so       *)
(* UploadInv holds; LoopInv adds how long the loop has waited and what it  *)
(* was told.                                                               *)
(***************************************************************************)
EXTENDS WorkerLoop, UploadProofs

\* Every step of the worker is a step of the requests, or none of theirs.
LEMMA StepIsUpload == [WorkerNext]_workerVars => [Next]_vars
BY DEF WorkerNext, workerVars, vars, loopVars, queueVars, ApiStep, OtherClaims,
       Claimed, Requeued, LeaseExpires, OutOfQueue, ReadyNotifying, LoopStep, ClaimNext, Wake, JobDone, DrainEnds, Listen,
       ConnectFails, WaitAgain, Tick, Timeout, ConnLost, Deafen, WorkerRestarts, Next

\* The worker's loop adds nothing to what a request may do.
THEOREM WorkerIsUpload == WorkerSpec => Spec
<1>1. WorkerInit => Init
  BY DEF WorkerInit
<1> QED
  BY <1>1, StepIsUpload, PTL DEF WorkerSpec, Spec

LEMMA WorkerUploadInv == WorkerSpec => []UploadInv
BY WorkerIsUpload, UploadInvariant, PTL

LEMMA LongestType ==
    Longest \in Nat /\ Poll \in Nat /\ Backoff \in Nat /\ Poll <= Longest /\ Backoff <= Longest
BY TimeAssumption DEF Longest

LEMMA LoopInit == WorkerInit => LoopInv
BY LongestType DEF WorkerInit, LoopInv, LoopTypeOK, Waited, NoLostWakeup

LEMMA LoopNext ==
    LoopInv /\ UploadInv /\ UploadInv' /\ [WorkerNext]_workerVars => LoopInv'
<1> SUFFICES ASSUME LoopInv, UploadInv, UploadInv', [WorkerNext]_workerVars PROVE LoopInv'
  OBVIOUS
<1> USE LongestType
<1>0. /\ loop \in {"drain", "busy", "enter", "wait", "sleep"}
      /\ conn \in {"none", "listening", "deaf"}
      /\ pending \in SUBSET Uploads /\ left \in 0..Longest
      /\ ready \in SUBSET Uploads /\ age \in [Uploads -> Nat] /\ heard \in SUBSET Uploads
      /\ loop = "wait" => left <= Poll
      /\ loop = "sleep" => left <= Backoff
      /\ conn = "none" => pending = {}
      /\ \A u \in ready : age[u] <= Waited
      /\ loop \in {"enter", "wait", "sleep"} => heard \subseteq pending
  BY DEF LoopInv, LoopTypeOK, NoLostWakeup
<1>w. Waited \in 0..Longest
  BY <1>0 DEF Waited
<1>1. ASSUME NEW new \in SUBSET Uploads, ReadyNotifying(new) PROVE LoopInv'
  <2>1. /\ ready' = ready \cup new
        /\ age' = [u \in Uploads |-> IF u \in new THEN 0 ELSE age[u]]
        /\ \/ conn = "listening" /\ pending' = pending \cup new /\ heard' = heard \cup new
           \/ conn # "listening" /\ pending' = pending /\ heard' = heard
        /\ loop' = loop /\ conn' = conn /\ left' = left
    BY <1>1 DEF ReadyNotifying
  <2>2. Waited' = Waited
    BY <2>1 DEF Waited
  <2>3. LoopTypeOK'
    BY <1>0, <2>1 DEF LoopTypeOK
  <2>4. \A u \in ready' : age'[u] <= Waited'
    BY <1>0, <1>w, <2>1, <2>2
  <2>5. NoLostWakeup'
    BY <1>0, <2>1 DEF NoLostWakeup
  <2> QED
    BY <1>0, <2>1, <2>3, <2>4, <2>5 DEF LoopInv
<1>10. CASE ApiStep
  <2>1. signaled' \ signaled \in SUBSET Uploads
    BY DEF UploadInv, TypeOK
  <2>2. PICK new \in SUBSET Uploads : new = signaled' \ signaled
    BY <2>1
  <2>3. ReadyNotifying(new)
    BY <1>10, <2>2 DEF ApiStep, ReadyNotifying
  <2> QED
    BY <1>1, <2>3
<1>11. ASSUME NEW u \in Uploads, Requeued(u) PROVE LoopInv'
  BY <1>1, <1>11 DEF Requeued
<1>2. ASSUME NEW u \in Uploads, OtherClaims(u) \/ ClaimNext(u) PROVE LoopInv'
  <2>1. /\ ready' = ready \ {u} /\ heard' = heard \ {u}
        /\ age' = age /\ conn' = conn /\ pending' = pending /\ left' = left
        /\ loop' = loop \/ (loop = "drain" /\ loop' = "busy")
    BY <1>2 DEF OtherClaims, ClaimNext, Claimed, loopVars
  <2>2. Waited' = Waited
    BY <1>0, <2>1 DEF Waited
  <2>3. LoopTypeOK'
    BY <1>0, <2>1 DEF LoopTypeOK
  <2>4. NoLostWakeup'
    BY <1>0, <2>1 DEF NoLostWakeup
  <2> QED
    BY <1>0, <2>1, <2>2, <2>3, <2>4 DEF LoopInv
<1>3. ASSUME NEW u \in Uploads, LeaseExpires(u) PROVE LoopInv'
  <2>1. /\ ready' = ready \cup {u} /\ age' = [age EXCEPT ![u] = 0]
        /\ heard' = heard /\ conn' = conn /\ pending' = pending
        /\ left' = left /\ loop' = loop
    BY <1>3 DEF LeaseExpires, loopVars
  <2>2. Waited' = Waited
    BY <2>1 DEF Waited
  <2>3. LoopTypeOK'
    BY <1>0, <2>1 DEF LoopTypeOK
  <2>4. \A v \in ready' : age'[v] <= Waited'
    BY <1>0, <1>w, <2>1, <2>2
  <2> QED
    BY <1>0, <2>1, <2>3, <2>4 DEF LoopInv, NoLostWakeup
<1>4. CASE \/ \E u \in Uploads : Wake(u)
           \/ JobDone \/ Timeout \/ ConnLost \/ WorkerRestarts
  <2>1. /\ loop' = "drain" /\ ready' = ready /\ age' = age /\ heard' = heard
        /\ pending' \in SUBSET pending /\ left' \in {0, left}
        /\ conn' = conn \/ (conn' = "none" /\ pending' = {})
    BY <1>4 DEF Wake, JobDone, Timeout, ConnLost, WorkerRestarts, queueVars
  <2>2. Waited' = Longest
    BY <2>1 DEF Waited
  <2>3. LoopTypeOK'
    BY <1>0, <2>1 DEF LoopTypeOK
  <2>4. \A u \in ready' : age'[u] <= Waited'
    BY <1>0, <1>w, <2>1, <2>2
  <2> QED
    BY <1>0, <2>1, <2>3, <2>4 DEF LoopInv, NoLostWakeup
<1>5. CASE DrainEnds
  <2>1. /\ loop' = "enter" /\ heard' = {} /\ age' = [u \in Uploads |-> 0]
        /\ conn' = conn /\ pending' = pending /\ left' = left /\ ready' = ready
    BY <1>5 DEF DrainEnds
  <2>2. Waited' = 0
    BY <2>1 DEF Waited
  <2> QED
    BY <1>0, <2>1, <2>2 DEF LoopInv, LoopTypeOK, NoLostWakeup
<1>6. CASE Listen \/ ConnectFails \/ WaitAgain
  <2>1. /\ loop = "enter" /\ pending' = pending
        /\ ready' = ready /\ age' = age /\ heard' = heard
        /\ conn' \in {conn, "listening"} /\ (conn' = "none" => conn = "none")
        /\ \/ loop' = "wait" /\ left' = Poll
           \/ loop' = "sleep" /\ left' = Backoff
    BY <1>0, <1>6 DEF Listen, ConnectFails, WaitAgain, queueVars
  <2>2. Waited = 0 /\ Waited' = 0
    BY <2>1 DEF Waited
  <2>3. LoopTypeOK'
    BY <1>0, <2>1 DEF LoopTypeOK
  <2> QED
    BY <1>0, <2>1, <2>2, <2>3 DEF LoopInv, NoLostWakeup
<1>7. CASE Tick
  <2>1. /\ loop \in {"wait", "sleep"} /\ left > 0 /\ left' = left - 1
        /\ age' = [u \in Uploads |-> IF u \in ready THEN age[u] + 1 ELSE age[u]]
        /\ loop' = loop /\ conn' = conn /\ pending' = pending
        /\ ready' = ready /\ heard' = heard
    BY <1>7 DEF Tick
  <2>2. Waited' = Waited + 1
    BY <1>0, <2>1 DEF Waited
  <2>3. LoopTypeOK'
    BY <1>0, <2>1 DEF LoopTypeOK
  <2>4. \A u \in ready' : age'[u] <= Waited'
    BY <1>0, <1>w, <2>1, <2>2
  <2> QED
    BY <1>0, <2>1, <2>3, <2>4 DEF LoopInv, NoLostWakeup
<1>8. CASE Deafen
  BY <1>0, <1>8 DEF Deafen, queueVars, LoopInv, LoopTypeOK, Waited, NoLostWakeup
<1>9. CASE UNCHANGED workerVars
  BY <1>0, <1>9 DEF workerVars, loopVars, queueVars, LoopInv, LoopTypeOK, Waited, NoLostWakeup
<1> QED
  BY <1>10, <1>11, <1>2, <1>3, <1>4, <1>5, <1>6, <1>7, <1>8, <1>9 DEF WorkerNext, LoopStep

\* What the loop was told, and how long it has waited, in every reachable state.
THEOREM LoopInductive == WorkerSpec => []LoopInv
BY LoopInit, LoopNext, WorkerUploadInv, PTL DEF WorkerSpec

\* "Losing every notification costs up to 5 seconds of latency and never costs a
\* job": a loop with nothing else to do leaves no ready job for longer than the
\* poll interval or the backoff, whatever happens to its connection.
THEOREM PolledInTime == WorkerSpec => []TriedInTime
<1>1. LoopInv => TriedInTime
  BY LongestType DEF LoopInv, LoopTypeOK, Waited, TriedInTime
<1> QED
  BY <1>1, LoopInductive, PTL

\* No notification is thrown away between two drains.
THEOREM WakeupsKept == WorkerSpec => []NoLostWakeup
<1>1. LoopInv => NoLostWakeup
  BY DEF LoopInv
<1> QED
  BY <1>1, LoopInductive, PTL

=============================================================================
