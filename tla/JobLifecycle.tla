---------------------------- MODULE JobLifecycle ----------------------------
(***************************************************************************)
(* What the queue promises a reader of the jobs table, and nothing of how: *)
(*                                                                         *)
(*     queued -> processing -> done | failed                               *)
(*     (transient failure: -> queued, bounded by attempts)                 *)
(*                                                                         *)
(* A job is started at most MaxAttempts times, is never sent back to the   *)
(* queue without an attempt left, and a finished job stays as it is.       *)
(* JobQueue, which has the leases, tokens, crashes and lost replies, is    *)
(* shown to implement this module.                                         *)
(***************************************************************************)
EXTENDS Naturals

CONSTANTS Jobs,         \* job ids
          MaxAttempts   \* config.MaxRetries: how often a job may be started

VARIABLES status,       \* the status column
          attempt       \* the attempt column

vars == <<status, attempt>>

Live     == {"queued", "processing"}
Terminal == {"done", "failed"}
Status   == {"absent"} \cup Live \cup Terminal

Init ==
    /\ status  = [j \in Jobs |-> "absent"]
    /\ attempt = [j \in Jobs |-> 0]

Submit(j) ==
    /\ status[j] = "absent"
    /\ status' = [status EXCEPT ![j] = "queued"]
    /\ UNCHANGED attempt

\* A first start, a retry, or a takeover of a job whose runner went silent.
Start(j) ==
    /\ status[j] \in Live
    /\ attempt[j] < MaxAttempts
    /\ status'  = [status EXCEPT ![j] = "processing"]
    /\ attempt' = [attempt EXCEPT ![j] = @ + 1]

Succeed(j) ==
    /\ status[j] = "processing"
    /\ status' = [status EXCEPT ![j] = "done"]
    /\ UNCHANGED attempt

Retry(j) ==
    /\ status[j] = "processing"
    /\ attempt[j] < MaxAttempts
    /\ status' = [status EXCEPT ![j] = "queued"]
    /\ UNCHANGED attempt

\* One statement may give up on several jobs at once (the janitor's does).
Fail(S) ==
    /\ \A j \in S : status[j] \in Live
    /\ status' = [j \in Jobs |-> IF j \in S THEN "failed" ELSE status[j]]
    /\ UNCHANGED attempt

Next ==
    \/ \E j \in Jobs : Submit(j) \/ Start(j) \/ Succeed(j) \/ Retry(j)
    \/ \E S \in SUBSET Jobs : Fail(S)

Spec == Init /\ [][Next]_vars

=============================================================================
