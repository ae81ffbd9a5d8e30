------------------------------ MODULE JobQueue ------------------------------
(***************************************************************************)
(* The jobs table as a work queue, and the workers that drain it.          *)
(*                                                                         *)
(* A row is queued by the api, leased by the claim query of a worker,      *)
(* processed, and finished by an UPDATE fenced on the lease token.  The    *)
(* module has every statement that writes the table (both store packages), *)
(* the run of one claim through Processor.ProcessJob, the janitor, crashes *)
(* and restarts of workers, statements that fail, and statements whose     *)
(* reply is lost after they committed.                                     *)
(*                                                                         *)
(* Time is a flag: lease_expires_at is either in the future ("live") or in *)
(* the past ("expired"), and a lease may expire at any moment, however     *)
(* far its holder is.  So a stalled or partitioned worker is one whose     *)
(* lease expires before its next step.                                     *)
(***************************************************************************)
EXTENDS Naturals

CONSTANTS Jobs,         \* job ids
          Workers,      \* worker processes, each with one drain loop
          MaxAttempts   \* config.MaxRetries, given to the store and the processor

ASSUME MaxAttemptsAssumption == MaxAttempts \in Nat \ {0}

VARIABLES jobs,      \* the jobs table
          csv,       \* ids whose jobs/{id}/result.csv is in the bucket
          pc,        \* where each worker's drain loop is
          held,      \* the claim ProcessJob is running, per worker
          run,       \* the worker's p.running entry of that job
          outcome    \* what ProcessJob has decided to record

vars == <<jobs, csv, pc, held, run, outcome>>

-----------------------------------------------------------------------------
(* Rows and claims *)

\* gen_random_uuid() gives every claim a token of its own.  Tokens are only
\* compared for one job (WHERE id = $1 AND lease_token = $2), so the token of
\* the n-th claim of a job is written n.
NoToken == 0
Token   == 1..MaxAttempts

Status    == {"absent", "queued", "processing", "done", "failed"}
Lease     == {"null", "live", "expired"}
CsvKey    == {"null", "result"}
ErrorText == {"null", "error", "canceled", "abandoned"}

Row == [status: Status, attempt: 0..MaxAttempts, token: Token \cup {NoToken},
        lease: Lease, csvKey: CsvKey, error: ErrorText]

AbsentRow == [status |-> "absent", attempt |-> 0, token |-> NoToken,
              lease |-> "null", csvKey |-> "null", error |-> "null"]

Claim == [job: Jobs, attempt: 1..MaxAttempts, token: Token]

\* The end of every statement that takes a row out of a worker's hands.
Released(r) == [r EXCEPT !.token = NoToken, !.lease = "null"]

Failed(r, why) == [Released(r) EXCEPT !.status = "failed", !.error = why]

NoClaim == [job |-> "none", attempt |-> 0, token |-> NoToken]

PC      == {"down", "drain", "claimed", "fetch", "put", "record", "notify"}
Run     == {"none", "running", "canceled"}
Outcome == {"none", "done", "canceled", "failed", "requeue"}

Terminal(j) == jobs[j].status \in {"done", "failed"}

TypeOK ==
    /\ jobs    \in [Jobs -> Row]
    /\ csv     \in SUBSET Jobs
    /\ pc      \in [Workers -> PC]
    /\ held    \in [Workers -> Claim \cup {NoClaim}]
    /\ run     \in [Workers -> Run]
    /\ outcome \in [Workers -> Outcome]

Init ==
    /\ jobs    = [j \in Jobs |-> AbsentRow]
    /\ csv     = {}
    /\ pc      = [w \in Workers |-> "drain"]
    /\ held    = [w \in Workers |-> NoClaim]
    /\ run     = [w \in Workers |-> "none"]
    /\ outcome = [w \in Workers |-> "none"]

workerVars == <<pc, held, run, outcome>>

-----------------------------------------------------------------------------
(* The api's statements *)

\* Store.Enqueue, once its transaction commits.
Enqueue(j) ==
    /\ jobs[j].status = "absent"
    /\ jobs' = [jobs EXCEPT ![j].status = "queued"]
    /\ UNCHANGED <<csv, workerVars>>

\* Store.CancelQueued: the WHERE clause on status is the only guard.
CancelQueued(j) ==
    /\ jobs[j].status = "queued"
    /\ jobs' = [jobs EXCEPT ![j] = Failed(@, "canceled")]
    /\ UNCHANGED <<csv, workerVars>>

-----------------------------------------------------------------------------
(* Claiming *)

\* Wrong variants, kept to show what the properties catch: a claim that looks
\* at the status and not at the lease, one that does not count attempts, and
\* one that takes over a lease without a new token.
ReadyWithoutExpiry(j) ==
    /\ jobs[j].status \in {"queued", "processing"}
    /\ jobs[j].attempt < MaxAttempts

ReadyWithoutBound(j) ==
    \/ jobs[j].status = "queued"
    \/ jobs[j].status = "processing" /\ jobs[j].lease = "expired"

LeasedKeepingToken(r) ==
    [r EXCEPT !.status = "processing", !.attempt = @ + 1,
              !.token = IF @ = NoToken THEN r.attempt + 1 ELSE @, !.lease = "live"]

\* The WHERE clause of the claim query.
Ready(j) ==
    /\ \/ jobs[j].status = "queued"
       \/ jobs[j].status = "processing" /\ jobs[j].lease = "expired"
    /\ jobs[j].attempt < MaxAttempts

\* Wrong variant: an attempt is counted when the job comes from the queue, and
\* not when it is taken over.
LeasedCountingStarts(r) ==
    [r EXCEPT !.status = "processing", !.attempt = IF r.status = "queued" THEN @ + 1 ELSE @,
              !.token = r.attempt + 1, !.lease = "live"]

\* The SET list of the claim query.
Leased(r) ==
    [r EXCEPT !.status = "processing", !.attempt = @ + 1,
              !.token = r.attempt + 1, !.lease = "live"]

\* Store.Claim.  The query asks for the oldest ready row, but SKIP LOCKED
\* passes over any older one that another session's statement has locked at
\* that instant, so which ready row it returns is left open.
ClaimJob(w, j) ==
    /\ pc[w] = "drain"
    /\ Ready(j)
    /\ jobs' = [jobs EXCEPT ![j] = Leased(@)]
    /\ pc'   = [pc EXCEPT ![w] = "claimed"]
    /\ held' = [held EXCEPT ![w] = [job     |-> j,
                                    attempt |-> jobs'[j].attempt,
                                    token   |-> jobs'[j].token]]
    /\ UNCHANGED <<csv, run, outcome>>

\* The claim commits but the worker sees an error and leaves drain: the row is
\* leased to nobody until the lease expires.
ClaimReplyLost(w, j) ==
    /\ pc[w] = "drain"
    /\ Ready(j)
    /\ jobs' = [jobs EXCEPT ![j] = Leased(@)]
    /\ UNCHANGED <<csv, workerVars>>

-----------------------------------------------------------------------------
(* Processing *)

\* begin() files the cancel handle; then PROCESSING is sent up the stream.
Begin(w) ==
    /\ pc[w] = "claimed"
    /\ pc'  = [pc EXCEPT ![w] = "fetch"]
    /\ run' = [run EXCEPT ![w] = "running"]
    /\ UNCHANGED <<jobs, csv, held, outcome>>

\* A cancel command for the job this worker holds.  The flag is set under the
\* mutex and the context canceled after it, so a step of process() may still
\* succeed once the flag is up.
CancelRunning(w) ==
    /\ run[w] = "running"
    /\ run' = [run EXCEPT ![w] = "canceled"]
    /\ UNCHANGED <<jobs, csv, pc, held, outcome>>

\* The pdf was read, parsed and rendered.
FetchOk(w) ==
    /\ pc[w] = "fetch"
    /\ pc' = [pc EXCEPT ![w] = "put"]
    /\ UNCHANGED <<jobs, csv, held, run, outcome>>

\* Wrong variant: one more requeue than the claim query will ever serve.
MayRetryOffByOne(n) == n <= MaxAttempts

\* c.Attempt >= p.maxRetries is the last attempt.
MayRetry(n) == n < MaxAttempts

\* What ProcessJob does with an error of process().
Verdict(w) ==
    IF run[w] = "canceled" THEN "canceled"
    ELSE IF MayRetry(held[w].attempt) THEN "requeue" ELSE "failed"

\* The delay is interrupted, or the pdf cannot be read, parsed or rendered.
FetchFails(w) ==
    /\ pc[w] = "fetch"
    /\ pc'      = [pc EXCEPT ![w] = "record"]
    /\ outcome' = [outcome EXCEPT ![w] = Verdict(w)]
    /\ UNCHANGED <<jobs, csv, held, run>>

\* Wrong variant: the result is announced whether or not it was stored.
PutOkWithoutBlob(w) ==
    /\ pc[w] = "put"
    /\ pc'      = [pc EXCEPT ![w] = "record"]
    /\ outcome' = [outcome EXCEPT ![w] = "done"]
    /\ UNCHANGED <<jobs, csv, held, run>>

\* PutObject of result.csv.  The key is derived from the job id: a second
\* upload overwrites the first.
PutOk(w) ==
    /\ pc[w] = "put"
    /\ csv'     = csv \cup {held[w].job}
    /\ pc'      = [pc EXCEPT ![w] = "record"]
    /\ outcome' = [outcome EXCEPT ![w] = "done"]
    /\ UNCHANGED <<jobs, held, run>>

\* PutObject fails; the object may be there all the same.
PutFails(w) ==
    /\ pc[w] = "put"
    /\ csv'     \in {csv, csv \cup {held[w].job}}
    /\ pc'      = [pc EXCEPT ![w] = "record"]
    /\ outcome' = [outcome EXCEPT ![w] = Verdict(w)]
    /\ UNCHANGED <<jobs, held, run>>

-----------------------------------------------------------------------------
(* Recording the outcome *)

\* Wrong variants: a fence on the row still being processed instead of on the
\* token, and no fence at all.
FencedByStatus(w) == jobs[held[w].job].status = "processing"
Unfenced(w) == jobs[held[w].job].status # "absent"

\* WHERE id = $1 AND lease_token = $2
Fenced(w) == jobs[held[w].job].token = held[w].token

\* SetDone, SetFailed or Requeue, by the decided outcome.  The notification of a
\* requeue is in WorkerLoop; a claim here needs none.
Recorded(r, o) ==
    CASE o = "done"     -> [Released(r) EXCEPT !.status = "done", !.csvKey = "result",
                                               !.error = "null"]
      [] o = "failed"   -> Failed(r, "error")
      [] o = "canceled" -> Failed(r, "canceled")
      [] OTHER          -> [Released(r) EXCEPT !.status = "queued", !.error = "error"]

\* ProcessJob returns to drain; the deferred end() drops the cancel handle.
EndRun(w) ==
    /\ pc'      = [pc EXCEPT ![w] = "drain"]
    /\ held'    = [held EXCEPT ![w] = NoClaim]
    /\ run'     = [run EXCEPT ![w] = "none"]
    /\ outcome' = [outcome EXCEPT ![w] = "none"]

\* The write finds its row, and the worker goes on to announce it.
RecordOk(w) ==
    /\ pc[w] = "record"
    /\ Fenced(w)
    /\ jobs' = [jobs EXCEPT ![held[w].job] = Recorded(@, outcome[w])]
    /\ pc'   = [pc EXCEPT ![w] = "notify"]
    /\ UNCHANGED <<csv, held, run, outcome>>

\* The write finds its row, but the worker is told of an error.
RecordReplyLost(w) ==
    /\ pc[w] = "record"
    /\ Fenced(w)
    /\ jobs' = [jobs EXCEPT ![held[w].job] = Recorded(@, outcome[w])]
    /\ EndRun(w)
    /\ UNCHANGED csv

\* Wrong variant: the outcome is announced whether or not it was recorded.
RecordLostAnnounced(w) ==
    /\ pc[w] = "record"
    /\ pc' = [pc EXCEPT ![w] = "notify"]
    /\ UNCHANGED <<jobs, csv, held, run, outcome>>

\* The write matches no row, or never reaches the database.
RecordLost(w) ==
    /\ pc[w] = "record"
    /\ EndRun(w)
    /\ UNCHANGED <<jobs, csv>>

\* The status event of the recorded outcome is sent up the stream.
Notify(w) ==
    /\ pc[w] = "notify"
    /\ EndRun(w)
    /\ UNCHANGED <<jobs, csv>>

-----------------------------------------------------------------------------
(* Time, the janitor, crashes *)

Expire(j) ==
    /\ jobs[j].lease = "live"
    /\ jobs' = [jobs EXCEPT ![j].lease = "expired"]
    /\ UNCHANGED <<csv, workerVars>>

\* Wrong variant: a sweep one attempt short of what the claim query leaves.
ExhaustedOffByOne(j) ==
    /\ jobs[j].status = "processing"
    /\ jobs[j].lease = "expired"
    /\ jobs[j].attempt > MaxAttempts

\* The WHERE clause of FailExhausted.
Exhausted(j) ==
    /\ jobs[j].status = "processing"
    /\ jobs[j].lease = "expired"
    /\ jobs[j].attempt >= MaxAttempts

\* One UPDATE on a ticker in every worker; it takes all matching rows at once.
FailExhausted ==
    /\ \E w \in Workers : pc[w] # "down"
    /\ \E j \in Jobs : Exhausted(j)
    /\ jobs' = [j \in Jobs |->
                  IF Exhausted(j)
                  THEN Failed(jobs[j], "abandoned")
                  ELSE jobs[j]]
    /\ UNCHANGED <<csv, workerVars>>

\* A kill, or a SIGTERM: with the parent context canceled neither the requeue
\* nor the terminal write is sent, so a shutdown leaves the row as a kill does.
Crash(w) ==
    /\ pc[w] # "down"
    /\ pc'      = [pc EXCEPT ![w] = "down"]
    /\ held'    = [held EXCEPT ![w] = NoClaim]
    /\ run'     = [run EXCEPT ![w] = "none"]
    /\ outcome' = [outcome EXCEPT ![w] = "none"]
    /\ UNCHANGED <<jobs, csv>>

\* restart: unless-stopped
Restart(w) ==
    /\ pc[w] = "down"
    /\ pc' = [pc EXCEPT ![w] = "drain"]
    /\ UNCHANGED <<jobs, csv, held, run, outcome>>

-----------------------------------------------------------------------------
(* Specification *)

\* The steps of process() and of the writes after it.
Work(w) ==
    \/ Begin(w)
    \/ FetchOk(w) \/ FetchFails(w)
    \/ PutOk(w) \/ PutFails(w)
    \/ RecordOk(w) \/ RecordReplyLost(w) \/ RecordLost(w)
    \/ Notify(w)

Next ==
    \/ \E j \in Jobs : Enqueue(j) \/ CancelQueued(j) \/ Expire(j)
    \/ \E w \in Workers, j \in Jobs : ClaimJob(w, j) \/ ClaimReplyLost(w, j)
    \/ \E w \in Workers : Work(w) \/ CancelRunning(w) \/ Crash(w) \/ Restart(w)
    \/ FailExhausted

Spec == Init /\ [][Next]_vars

\* Time passes; no step of a run hangs for ever; a dead worker is restarted;
\* and workers stay up for long enough, again and again, to poll the queue and
\* to reach a janitor tick.  Nothing is assumed of users, or of crashes ending.
Fairness ==
    /\ \A j \in Jobs : WF_vars(Expire(j))
    /\ \A w \in Workers : WF_vars(Work(w)) /\ WF_vars(Restart(w))
    /\ SF_vars(\E w \in Workers, j \in Jobs : ClaimJob(w, j))
    /\ SF_vars(FailExhausted)

FairSpec == Spec /\ Fairness

-----------------------------------------------------------------------------
(* Safety *)

HasLease(w, j) ==
    /\ pc[w] \notin {"down", "drain", "notify"}
    /\ held[w].job = j
    /\ held[w].token = jobs[j].token

\* Several workers may run one job at once, but at most one of them can still
\* write its outcome: no two workers hold the token the row carries.
OneLeaseHolder ==
    \A j \in Jobs, v, w \in Workers :
        HasLease(v, j) /\ HasLease(w, j) => v = w

\* A row that is not finished always has something that will move it: the
\* claim query can see it, or the janitor can, or it is leased and the lease
\* has yet to expire.  A job sent back to the queue with no attempt left would
\* be invisible to both.
NoRowStranded ==
    \A j \in Jobs :
        jobs[j].status \in {"queued", "processing"} =>
            Ready(j) \/ Exhausted(j) \/ jobs[j].lease = "live"

\* GET /jobs shows a download link for a csv_key, and the download handler
\* asks for status 'done' too: the two agree, and the object they lead to is
\* in the bucket.
DownloadLinkWorks ==
    \A j \in Jobs :
        /\ jobs[j].csvKey = "result" <=> jobs[j].status = "done"
        /\ jobs[j].csvKey = "result" => j \in csv

\* Once a row is done or failed no later statement of a stale worker, of the
\* janitor or of a user changes any of its columns.
TerminalIsFinal ==
    [][\A j \in Jobs : Terminal(j) => jobs'[j] = jobs[j]]_vars

\* As long as a lease runs, the row is changed by its holder's own write and
\* by nothing else (other than time): no claim, janitor sweep or cancel of a
\* queued job takes it away.
LiveLeaseRespected ==
    [][\A j \in Jobs :
          jobs[j].lease = "live" /\ jobs'[j] # [jobs[j] EXCEPT !.lease = "expired"]
                                 /\ jobs'[j] # jobs[j]
             => \E w \in Workers : pc[w] = "record" /\ HasLease(w, j)]_vars

\* 'done' is stamped on a row only for its latest attempt: a worker that lost
\* its lease never stamps it over an attempt that is still going on.
DoneByLatestAttempt ==
    [][\A j \in Jobs :
          ~Terminal(j) /\ jobs'[j].status = "done"
             => \E w \in Workers : /\ outcome[w] = "done"
                                   /\ held[w].job = j
                                   /\ held[w].attempt = jobs[j].attempt]_vars

\* How far a row has come.  Each attempt takes it three steps on: it is leased,
\* it may expire, it may go back to the queue.
Progress(r) ==
    CASE r.status = "absent"     -> 0
      [] r.status = "queued"     -> 3 * r.attempt + 2
      [] r.status = "processing" -> 3 * r.attempt + (IF r.lease = "live" THEN 0 ELSE 1)
      [] OTHER                   -> 3 * MaxAttempts + 2

\* No job goes in circles: every statement that changes a row, from whichever
\* worker, janitor or user, takes it further, and there is an end to that.  With
\* NoRowStranded this is all that EveryJobFinishes asks of the code; the rest is
\* fairness.
RowsMoveForward ==
    [][\A j \in Jobs : jobs'[j] # jobs[j] =>
          /\ Progress(jobs[j]) < Progress(jobs'[j])
          /\ Progress(jobs'[j]) <= 3 * MaxAttempts + 2]_vars

\* "A canceled job is terminal on the spot": a run whose cancel flag is up when
\* its outcome is recorded does not go back to the queue.
CancelIsTerminal ==
    [][\A w \in Workers :
          pc[w] = "record" /\ pc'[w] = "notify" /\ run[w] = "canceled"
             => Terminal(held[w].job)']_vars

-----------------------------------------------------------------------------
(* The inductive invariant *)

\* The columns of one row agree: a token and a lease exactly while it is being
\* processed, the token being the latest one; an attempt left while it is
\* queued; a csv_key exactly when it is done.
RowShape(r) ==
    /\ r.status = "absent"     => r.attempt = 0
    /\ r.status = "queued"     => r.attempt < MaxAttempts
    /\ r.status = "processing" => r.token = r.attempt /\ r.lease # "null"
    /\ r.status # "processing" => r.token = NoToken /\ r.lease = "null"
    /\ r.csvKey = "result" <=> r.status = "done"

Busy(w) == pc[w] \notin {"down", "drain"}

\* What a worker knows about its claim is true of the row, or was until the
\* row moved on to a later attempt.
ClaimShape(w) ==
    /\ Busy(w) => /\ held[w] \in Claim
                  /\ held[w].token = held[w].attempt
                  /\ held[w].attempt <= jobs[held[w].job].attempt
    /\ ~Busy(w) => held[w] = NoClaim
    /\ pc[w] = "record" => /\ outcome[w] # "none"
                           /\ outcome[w] = "requeue" => held[w].attempt < MaxAttempts
                           /\ outcome[w] = "done" => held[w].job \in csv

TableInv ==
    \A j \in Jobs : RowShape(jobs[j]) /\ (jobs[j].csvKey = "result" => j \in csv)

WorkersInv == \A w \in Workers : ClaimShape(w)

\* No two running claims are the same claim.
ClaimsDistinct ==
    \A v, w \in Workers :
        Busy(v) /\ Busy(w) /\ held[v].job = held[w].job
                /\ held[v].token = held[w].token => v = w

\* Inductive: it implies the three invariants above, and every step keeps it.
IInv == TypeOK /\ TableInv /\ WorkersInv /\ ClaimsDistinct

-----------------------------------------------------------------------------
(* Liveness and refinement *)

\* Every job accepted reaches done or failed, whatever crashes, replies lost
\* and leases expired on the way.
EveryJobFinishes ==
    \A j \in Jobs : jobs[j].status \in {"queued", "processing"} ~> Terminal(j)

Lifecycle == INSTANCE JobLifecycle
                WITH status  <- [j \in Jobs |-> jobs[j].status],
                     attempt <- [j \in Jobs |-> jobs[j].attempt]

\* The table, read through its status and attempt columns, does what
\* JobLifecycle promises.
ImplementsLifecycle == Lifecycle!Spec

=============================================================================
