--------------------------- MODULE JobQueueProofs ---------------------------
(***************************************************************************)
(* Proofs about JobQueue, for any set of jobs, any set of workers and any  *)
(* bound on the attempts.                                                  *)
(*                                                                         *)
(* Everything rests on IInv: RowShape ties the columns of a row together,  *)
(* ClaimShape ties what a worker remembers of its claim to the row, and    *)
(* the last conjunct says that no two running claims are the same one.     *)
(***************************************************************************)
EXTENDS JobQueue, TLAPS

USE MaxAttemptsAssumption

-----------------------------------------------------------------------------
(* The row operators keep a row's type and shape. *)

\* The values the statements write are values of their columns.
LEMMA ColumnValues ==
    /\ {"queued", "processing", "done", "failed"} \subseteq Status
    /\ {"null", "live", "expired"} \subseteq Lease
    /\ {"null", "result"} \subseteq CsvKey
    /\ {"null", "error", "canceled", "abandoned"} \subseteq ErrorText
    /\ NoToken \in Token \cup {NoToken}
    /\ \A n \in 0..MaxAttempts : n < MaxAttempts => /\ n + 1 \in Token
                                                   /\ n + 1 \in 1..MaxAttempts
    /\ NoToken \notin Token
BY DEF Status, Lease, CsvKey, ErrorText, Token, NoToken

\* Leasing a ready row makes its token the new attempt number.
LEMMA LeasedRow ==
    ASSUME NEW r \in Row, r.attempt < MaxAttempts,
           r.status \in {"queued", "processing"}, RowShape(r)
    PROVE  /\ Leased(r) \in Row
           /\ RowShape(Leased(r))
           /\ Leased(r).attempt = r.attempt + 1
           /\ Leased(r).token = r.attempt + 1
           /\ Leased(r).csvKey = "null"
<1>1. r.attempt + 1 \in 0..MaxAttempts /\ r.attempt + 1 \in Token
  BY ColumnValues DEF Row
<1>2. Leased(r) \in Row
  BY <1>1, ColumnValues DEF Row, Leased
<1>3. /\ Leased(r).attempt = r.attempt + 1
      /\ Leased(r).token = r.attempt + 1
      /\ Leased(r).status = "processing"
      /\ Leased(r).lease = "live"
      /\ Leased(r).csvKey = r.csvKey
  BY DEF Row, Leased
<1>4. r.csvKey = "null"
  BY DEF Row, CsvKey, RowShape
<1>5. RowShape(Leased(r))
  BY <1>3, <1>4 DEF RowShape
<1> QED
  BY <1>2, <1>3, <1>4, <1>5

\* Giving a row up drops its token and lease and nothing else.
LEMMA ReleasedRow ==
    ASSUME NEW r \in Row
    PROVE  /\ Released(r) \in Row
           /\ Released(r).token = NoToken
           /\ Released(r).lease = "null"
           /\ Released(r).status = r.status
           /\ Released(r).attempt = r.attempt
           /\ Released(r).csvKey = r.csvKey
BY ColumnValues DEF Row, Released

\* Failing a live row gives the row up and keeps its attempt.
LEMMA FailedRow ==
    ASSUME NEW r \in Row, NEW why \in ErrorText,
           r.status \in {"queued", "processing"}, RowShape(r)
    PROVE  /\ Failed(r, why) \in Row
           /\ RowShape(Failed(r, why))
           /\ Failed(r, why).status = "failed"
           /\ Failed(r, why).attempt = r.attempt
           /\ Failed(r, why).token = NoToken
           /\ Failed(r, why).csvKey = "null"
<1>1. Failed(r, why) \in Row
  BY ReleasedRow, ColumnValues DEF Row, Failed
<1>2. /\ Failed(r, why).status = "failed"
      /\ Failed(r, why).attempt = r.attempt
      /\ Failed(r, why).token = NoToken
      /\ Failed(r, why).lease = "null"
      /\ Failed(r, why).csvKey = r.csvKey
  BY ReleasedRow DEF Row, Failed
<1>3. r.csvKey = "null"
  BY DEF Row, CsvKey, RowShape
<1> QED
  BY <1>1, <1>2, <1>3 DEF RowShape

\* Recording an outcome gives the row up, keeps its attempt, and sets csv_key
\* for a result only.
LEMMA RecordedRow ==
    ASSUME NEW r \in Row, NEW o \in Outcome, o # "none",
           r.status = "processing", RowShape(r),
           o = "requeue" => r.attempt < MaxAttempts
    PROVE  /\ Recorded(r, o) \in Row
           /\ RowShape(Recorded(r, o))
           /\ Recorded(r, o).attempt = r.attempt
           /\ Recorded(r, o).token = NoToken
           /\ Recorded(r, o).csvKey = "result" => o = "done"
           /\ Recorded(r, o).status = "queued" => o = "requeue"
           /\ Recorded(r, o).status \in {"queued", "done", "failed"}
<1>1. CASE o = "done"
  <2>1. Recorded(r, o) = [Released(r) EXCEPT !.status = "done", !.csvKey = "result",
                                             !.error = "null"]
    BY <1>1 DEF Recorded
  <2>2. Recorded(r, o) \in Row
    BY <2>1, ReleasedRow, ColumnValues DEF Row
  <2>3. /\ Recorded(r, o).status = "done"
        /\ Recorded(r, o).attempt = r.attempt
        /\ Recorded(r, o).token = NoToken
        /\ Recorded(r, o).lease = "null"
        /\ Recorded(r, o).csvKey = "result"
    BY <2>1, ReleasedRow DEF Row
  <2> QED
    BY <1>1, <2>2, <2>3 DEF RowShape
<1>2. CASE o \in {"failed", "canceled"}
  <2>1. PICK why \in ErrorText : Recorded(r, o) = Failed(r, why)
    BY <1>2, ColumnValues DEF Recorded
  <2> QED
    BY <1>2, <2>1, FailedRow
<1>3. CASE o = "requeue"
  <2>1. Recorded(r, o) = [Released(r) EXCEPT !.status = "queued", !.error = "error"]
    BY <1>3 DEF Recorded
  <2>2. Recorded(r, o) \in Row
    BY <2>1, ReleasedRow, ColumnValues DEF Row
  <2>3. /\ Recorded(r, o).status = "queued"
        /\ Recorded(r, o).attempt = r.attempt
        /\ Recorded(r, o).token = NoToken
        /\ Recorded(r, o).lease = "null"
        /\ Recorded(r, o).csvKey = r.csvKey
    BY <2>1, ReleasedRow DEF Row
  <2>4. r.csvKey = "null"
    BY DEF Row, CsvKey, RowShape
  <2> QED
    BY <1>3, <2>2, <2>3, <2>4 DEF RowShape
<1> QED
  BY <1>1, <1>2, <1>3 DEF Outcome

\* A row whose token is a claim's token is being processed, at that attempt.
LEMMA FencedRow ==
    ASSUME IInv, NEW w \in Workers, Busy(w), Fenced(w)
    PROVE  /\ held[w] \in Claim
           /\ jobs[held[w].job] \in Row
           /\ jobs[held[w].job].status = "processing"
           /\ jobs[held[w].job].attempt = held[w].attempt
<1>1. held[w] \in Claim /\ held[w].token = held[w].attempt
  BY DEF IInv, WorkersInv, ClaimShape
<1>2. held[w].job \in Jobs /\ held[w].token \in Token
  BY <1>1 DEF Claim
<1>3. jobs[held[w].job] \in Row /\ RowShape(jobs[held[w].job])
  BY <1>2 DEF IInv, TypeOK, TableInv
<1>4. jobs[held[w].job].token # NoToken
  BY <1>2, ColumnValues DEF Fenced
<1> QED
  BY <1>1, <1>3, <1>4 DEF RowShape, Fenced

-----------------------------------------------------------------------------
(* What a step may do to the table, and to one worker *)

\* Replacing one row by one of good shape that does not go back an attempt.
LEMMA RowStep ==
    ASSUME IInv, NEW j \in Jobs, NEW r \in Row, RowShape(r),
           r.attempt >= jobs[j].attempt,
           r.csvKey = "result" => j \in csv,
           jobs' = [jobs EXCEPT ![j] = r], UNCHANGED csv
    PROVE  /\ jobs' \in [Jobs -> Row] /\ csv' \in SUBSET Jobs
           /\ TableInv'
           /\ \A k \in Jobs : jobs'[k].attempt >= jobs[k].attempt
<1>1. \A k \in Jobs : jobs'[k] = IF k = j THEN r ELSE jobs[k]
  BY DEF IInv, TypeOK
<1>2. jobs' \in [Jobs -> Row] /\ csv' \in SUBSET Jobs
  BY DEF IInv, TypeOK
<1>3. TableInv'
  BY <1>1 DEF IInv, TableInv, RowShape
<1>4. \A k \in Jobs : jobs'[k].attempt >= jobs[k].attempt
  BY <1>1 DEF IInv, TypeOK, Row
<1> QED
  BY <1>2, <1>3, <1>4

\* A claim shape survives any step that leaves its worker alone, lets attempts
\* and the bucket only grow.
LEMMA ClaimShapeFrame ==
    ASSUME IInv, NEW w \in Workers,
           \A k \in Jobs : jobs'[k].attempt >= jobs[k].attempt,
           jobs' \in [Jobs -> Row], csv \subseteq csv',
           pc'[w] = pc[w], held'[w] = held[w], outcome'[w] = outcome[w]
    PROVE  ClaimShape(w)'
<1>1. CASE Busy(w)
  <2>1. held[w] \in Claim /\ held[w].job \in Jobs /\ held[w].attempt \in Nat
    BY <1>1 DEF IInv, WorkersInv, ClaimShape, Claim
  <2>2. /\ jobs[held[w].job].attempt \in Nat
        /\ jobs'[held[w].job].attempt \in Nat
    BY <2>1 DEF IInv, TypeOK, Row
  <2>3. held[w].attempt <= jobs'[held[w].job].attempt
    BY <1>1, <2>1, <2>2 DEF IInv, WorkersInv, ClaimShape
  <2> QED
    BY <1>1, <2>1, <2>3 DEF IInv, WorkersInv, ClaimShape, Busy
<1>2. CASE ~Busy(w)
  BY <1>2 DEF IInv, WorkersInv, ClaimShape, Busy
<1> QED
  BY <1>1, <1>2

\* A step of the table alone keeps the invariant.
LEMMA TableStep ==
    ASSUME IInv, jobs' \in [Jobs -> Row], csv' \in SUBSET Jobs, csv \subseteq csv',
           TableInv', \A k \in Jobs : jobs'[k].attempt >= jobs[k].attempt,
           UNCHANGED workerVars
    PROVE  IInv'
<1>1. TypeOK'
  BY DEF IInv, TypeOK, workerVars
<1>2. WorkersInv'
  BY ClaimShapeFrame DEF WorkersInv, workerVars
<1>3. ClaimsDistinct'
  BY DEF IInv, ClaimsDistinct, Busy, workerVars
<1> QED
  BY <1>1, <1>2, <1>3 DEF IInv

\* A step of one worker that keeps its claim, or gives it up.
LEMMA WorkerStep ==
    ASSUME IInv, NEW w \in Workers, TypeOK', TableInv',
           \A k \in Jobs : jobs'[k].attempt >= jobs[k].attempt, csv \subseteq csv',
           \A v \in Workers \ {w} : /\ pc'[v] = pc[v]
                                    /\ held'[v] = held[v]
                                    /\ outcome'[v] = outcome[v],
           Busy(w)' => Busy(w) /\ held'[w] = held[w],
           ClaimShape(w)'
    PROVE  IInv'
<1>1. WorkersInv'
  BY ClaimShapeFrame DEF WorkersInv, TypeOK
<1>2. ClaimsDistinct'
  BY DEF IInv, ClaimsDistinct, Busy
<1> QED
  BY <1>1, <1>2 DEF IInv

-----------------------------------------------------------------------------
(* The invariant is inductive *)

LEMMA InitInv == Init => IInv
<1> SUFFICES ASSUME Init PROVE IInv
  OBVIOUS
<1>1. AbsentRow \in Row /\ RowShape(AbsentRow) /\ AbsentRow.csvKey = "null"
  <2>1. "absent" \in Status /\ 0 \in 0..MaxAttempts
    BY DEF Status
  <2>2. AbsentRow \in Row
    BY <2>1, ColumnValues DEF AbsentRow, Row
  <2> QED
    BY <2>2 DEF AbsentRow, RowShape
<1>2. TypeOK
  BY <1>1 DEF Init, TypeOK, PC, Run, Outcome
<1>3. TableInv
  BY <1>1 DEF Init, TableInv
<1>4. WorkersInv /\ ClaimsDistinct
  BY DEF Init, WorkersInv, ClaimShape, ClaimsDistinct, Busy
<1> QED
  BY <1>2, <1>3, <1>4 DEF IInv

\* Every statement of the api, the clock and the janitor keeps the invariant.
LEMMA TableActions ==
    ASSUME IInv,
           \/ \E j \in Jobs : Enqueue(j) \/ CancelQueued(j) \/ Expire(j)
           \/ \E w \in Workers, j \in Jobs : ClaimReplyLost(w, j)
           \/ FailExhausted
    PROVE  IInv'
<1>1. ASSUME NEW j \in Jobs, Enqueue(j) PROVE IInv'
  <2> DEFINE r == [jobs[j] EXCEPT !.status = "queued"]
  <2>1. jobs[j] \in Row /\ RowShape(jobs[j]) /\ jobs[j].status = "absent"
    BY <1>1 DEF IInv, TypeOK, TableInv, Enqueue
  <2>2. r \in Row
    BY <2>1, ColumnValues DEF Row
  <2>3. /\ r.status = "queued" /\ r.attempt = jobs[j].attempt
        /\ r.token = jobs[j].token /\ r.lease = jobs[j].lease
        /\ r.csvKey = jobs[j].csvKey
    BY <2>1 DEF Row
  <2>4. RowShape(r) /\ r.attempt >= jobs[j].attempt /\ r.csvKey # "result"
    BY <2>1, <2>3 DEF RowShape, Row
  <2>5. jobs' = [jobs EXCEPT ![j] = r] /\ UNCHANGED <<csv, workerVars>>
    BY <1>1 DEF Enqueue
  <2> HIDE DEF r
  <2>6. /\ jobs' \in [Jobs -> Row] /\ csv' \in SUBSET Jobs /\ TableInv'
        /\ \A k \in Jobs : jobs'[k].attempt >= jobs[k].attempt
    BY <2>2, <2>4, <2>5, RowStep
  <2> QED
    BY <2>5, <2>6, TableStep
<1>2. ASSUME NEW j \in Jobs, CancelQueued(j) PROVE IInv'
  <2> DEFINE r == Failed(jobs[j], "canceled")
  <2>1. jobs[j] \in Row /\ RowShape(jobs[j]) /\ jobs[j].status = "queued"
    BY <1>2 DEF IInv, TypeOK, TableInv, CancelQueued
  <2>2. r \in Row /\ RowShape(r) /\ r.attempt = jobs[j].attempt /\ r.csvKey = "null"
    BY <2>1, FailedRow, ColumnValues
  <2>3. r.attempt >= jobs[j].attempt
    BY <2>1, <2>2 DEF Row
  <2>4. jobs' = [jobs EXCEPT ![j] = r] /\ UNCHANGED <<csv, workerVars>>
    BY <1>2 DEF CancelQueued
  <2> HIDE DEF r
  <2>5. /\ jobs' \in [Jobs -> Row] /\ csv' \in SUBSET Jobs /\ TableInv'
        /\ \A k \in Jobs : jobs'[k].attempt >= jobs[k].attempt
    BY <2>2, <2>3, <2>4, RowStep
  <2> QED
    BY <2>4, <2>5, TableStep
<1>3. ASSUME NEW j \in Jobs, Expire(j) PROVE IInv'
  <2> DEFINE r == [jobs[j] EXCEPT !.lease = "expired"]
  <2>1. jobs[j] \in Row /\ RowShape(jobs[j]) /\ jobs[j].lease = "live"
    BY <1>3 DEF IInv, TypeOK, TableInv, Expire
  <2>2. r \in Row
    BY <2>1, ColumnValues DEF Row
  <2>3. /\ r.status = jobs[j].status /\ r.attempt = jobs[j].attempt
        /\ r.token = jobs[j].token /\ r.lease = "expired"
        /\ r.csvKey = jobs[j].csvKey
    BY <2>1 DEF Row
  <2>4. RowShape(r) /\ r.csvKey # "result" /\ r.attempt >= jobs[j].attempt
    BY <2>1, <2>3 DEF RowShape, Row
  <2>5. jobs' = [jobs EXCEPT ![j] = r] /\ UNCHANGED <<csv, workerVars>>
    BY <1>3 DEF Expire
  <2> HIDE DEF r
  <2>6. /\ jobs' \in [Jobs -> Row] /\ csv' \in SUBSET Jobs /\ TableInv'
        /\ \A k \in Jobs : jobs'[k].attempt >= jobs[k].attempt
    BY <2>2, <2>4, <2>5, RowStep
  <2> QED
    BY <2>5, <2>6, TableStep
<1>4. ASSUME NEW w \in Workers, NEW j \in Jobs, ClaimReplyLost(w, j) PROVE IInv'
  <2> DEFINE r == Leased(jobs[j])
  <2>1. /\ jobs[j] \in Row /\ RowShape(jobs[j]) /\ jobs[j].attempt < MaxAttempts
        /\ jobs[j].status \in {"queued", "processing"}
    BY <1>4 DEF IInv, TypeOK, TableInv, ClaimReplyLost, Ready
  <2>2. /\ r \in Row /\ RowShape(r) /\ r.csvKey = "null"
        /\ r.attempt = jobs[j].attempt + 1
    BY <2>1, LeasedRow
  <2>3. r.attempt >= jobs[j].attempt
    BY <2>1, <2>2 DEF Row
  <2>4. jobs' = [jobs EXCEPT ![j] = r] /\ UNCHANGED <<csv, workerVars>>
    BY <1>4 DEF ClaimReplyLost
  <2> HIDE DEF r
  <2>5. /\ jobs' \in [Jobs -> Row] /\ csv' \in SUBSET Jobs /\ TableInv'
        /\ \A k \in Jobs : jobs'[k].attempt >= jobs[k].attempt
    BY <2>2, <2>3, <2>4, RowStep
  <2> QED
    BY <2>4, <2>5, TableStep
<1>5. ASSUME FailExhausted PROVE IInv'
  <2>1. /\ UNCHANGED <<csv, workerVars>>
        /\ jobs' = [j \in Jobs |-> IF Exhausted(j) THEN Failed(jobs[j], "abandoned")
                                                   ELSE jobs[j]]
    BY <1>5 DEF FailExhausted
  <2>2. ASSUME NEW k \in Jobs
        PROVE  /\ jobs'[k] \in Row /\ RowShape(jobs'[k])
               /\ jobs'[k].attempt >= jobs[k].attempt
               /\ jobs'[k].csvKey = "result" => k \in csv'
    <3>1. jobs[k] \in Row /\ RowShape(jobs[k]) /\ (jobs[k].csvKey = "result" => k \in csv)
      BY DEF IInv, TypeOK, TableInv
    <3>2. jobs[k].attempt \in Nat
      BY <3>1 DEF Row
    <3>3. CASE Exhausted(k)
      <4>1. jobs'[k] = Failed(jobs[k], "abandoned")
        BY <2>1, <3>3
      <4>2. jobs[k].status \in {"queued", "processing"}
        BY <3>3 DEF Exhausted
      <4> QED
        BY <3>1, <3>2, <4>1, <4>2, FailedRow, ColumnValues
    <3>4. CASE ~Exhausted(k)
      BY <2>1, <3>1, <3>2, <3>4
    <3> QED
      BY <3>3, <3>4
  <2>3. jobs' \in [Jobs -> Row]
    BY <2>1, <2>2
  <2>4. TableInv'
    BY <2>2 DEF TableInv, RowShape
  <2>5. csv' \in SUBSET Jobs /\ csv \subseteq csv'
    BY <2>1 DEF IInv, TypeOK
  <2> QED
    BY <2>1, <2>2, <2>3, <2>4, <2>5, TableStep
<1> QED
  BY <1>1, <1>2, <1>3, <1>4, <1>5

\* Steps that write no row keep the table's part of the invariant.
LEMMA TableFrame ==
    ASSUME IInv, UNCHANGED jobs, csv' \in SUBSET Jobs, csv \subseteq csv'
    PROVE  /\ jobs' \in [Jobs -> Row]
           /\ TableInv'
           /\ \A k \in Jobs : jobs'[k].attempt >= jobs[k].attempt
<1>1. \A k \in Jobs : jobs[k].attempt \in Nat
  BY DEF IInv, TypeOK, Row
<1> QED
  BY <1>1 DEF IInv, TypeOK, TableInv, RowShape

\* What the invariant says of a worker in the middle of a run.
LEMMA RunningWorker ==
    ASSUME IInv, NEW w \in Workers, Busy(w)
    PROVE  /\ held[w] \in Claim /\ held[w].job \in Jobs
           /\ held[w].attempt \in Nat
           /\ held[w].token = held[w].attempt
           /\ held[w].attempt <= jobs[held[w].job].attempt
           /\ jobs[held[w].job].attempt \in Nat
<1>1. held[w] \in Claim /\ held[w].token = held[w].attempt
      /\ held[w].attempt <= jobs[held[w].job].attempt
  BY DEF IInv, WorkersInv, ClaimShape
<1>2. held[w].job \in Jobs /\ held[w].attempt \in Nat
  BY <1>1 DEF Claim
<1>3. jobs[held[w].job].attempt \in Nat
  BY <1>2 DEF IInv, TypeOK, Row
<1> QED
  BY <1>1, <1>2, <1>3

\* The decision for a failed run fits the attempt it was made for.
LEMMA VerdictFits ==
    ASSUME NEW w \in Workers
    PROVE  /\ Verdict(w) \in Outcome \ {"none"}
           /\ Verdict(w) # "done"
           /\ Verdict(w) = "requeue" => held[w].attempt < MaxAttempts
BY DEF Verdict, MayRetry, Outcome

\* The worker is idle after the step: it holds no claim.
LEMMA IdleStep ==
    ASSUME IInv, NEW w \in Workers, TypeOK', TableInv',
           \A k \in Jobs : jobs'[k].attempt >= jobs[k].attempt, csv \subseteq csv',
           \A v \in Workers \ {w} : /\ pc'[v] = pc[v]
                                    /\ held'[v] = held[v]
                                    /\ outcome'[v] = outcome[v],
           pc'[w] \in {"down", "drain"}, held'[w] = NoClaim
    PROVE  IInv'
<1>1. ~Busy(w)' /\ ClaimShape(w)'
  BY DEF Busy, ClaimShape
<1> QED
  BY <1>1, WorkerStep

\* The worker keeps its claim and moves on inside its run.
LEMMA RunStep ==
    ASSUME IInv, NEW w \in Workers, Busy(w),
           UNCHANGED jobs, csv' \in SUBSET Jobs, csv \subseteq csv',
           NEW p \in PC \ {"down", "drain"}, pc' = [pc EXCEPT ![w] = p],
           UNCHANGED held, run' \in [Workers -> Run],
           NEW o \in Outcome, outcome' = [outcome EXCEPT ![w] = o],
           p = "record" => /\ o # "none"
                           /\ o = "requeue" => held[w].attempt < MaxAttempts
                           /\ o = "done" => held[w].job \in csv'
    PROVE  IInv'
<1>1. /\ jobs' \in [Jobs -> Row] /\ TableInv'
      /\ \A k \in Jobs : jobs'[k].attempt >= jobs[k].attempt
  BY TableFrame
<1>2. /\ pc' \in [Workers -> PC] /\ outcome' \in [Workers -> Outcome]
      /\ held' \in [Workers -> Claim \cup {NoClaim}]
  BY DEF IInv, TypeOK
<1>3. TypeOK'
  BY <1>1, <1>2 DEF TypeOK
<1>4. \A v \in Workers \ {w} : /\ pc'[v] = pc[v]
                               /\ held'[v] = held[v]
                               /\ outcome'[v] = outcome[v]
  BY DEF IInv, TypeOK
<1>5. pc'[w] = p /\ held'[w] = held[w] /\ outcome'[w] = o
  BY DEF IInv, TypeOK
<1>6. ClaimShape(w)'
  BY <1>5, RunningWorker DEF ClaimShape, Busy
<1> QED
  BY <1>1, <1>3, <1>4, <1>5, <1>6, WorkerStep

\* The steps of process(), of a cancel, and of a worker dying and returning.
LEMMA ProcessActions ==
    ASSUME IInv, NEW w \in Workers,
           \/ Begin(w) \/ CancelRunning(w) \/ FetchOk(w) \/ FetchFails(w)
           \/ PutOk(w) \/ PutFails(w)
    PROVE  IInv'
<1> USE DEF Busy
<1>0. /\ csv \in SUBSET Jobs /\ run \in [Workers -> Run]
      /\ pc \in [Workers -> PC] /\ outcome \in [Workers -> Outcome]
      /\ {"none", "running", "canceled"} \subseteq Run
      /\ {"claimed", "fetch", "put", "record", "notify"} \subseteq PC \ {"down", "drain"}
      /\ {"none", "done"} \subseteq Outcome
  BY DEF IInv, TypeOK, Run, PC, Outcome
<1>1. CASE Begin(w)
  <2>1. /\ Busy(w) /\ pc' = [pc EXCEPT ![w] = "fetch"] /\ UNCHANGED <<jobs, csv, held>>
        /\ run' \in [Workers -> Run]
        /\ outcome' = [outcome EXCEPT ![w] = outcome[w]]
    BY <1>0, <1>1 DEF Begin
  <2> QED
    BY <1>0, <2>1, RunStep
<1>2. CASE CancelRunning(w)
  <2>1. /\ UNCHANGED <<jobs, csv, pc, held, outcome>> /\ run' \in [Workers -> Run]
    BY <1>0, <1>2 DEF CancelRunning
  <2>2. TypeOK'
    BY <2>1 DEF IInv, TypeOK
  <2> QED
    BY <2>1, <2>2 DEF IInv, TableInv, WorkersInv, ClaimsDistinct, ClaimShape, RowShape
<1>3. CASE FetchOk(w)
  <2>1. /\ Busy(w) /\ pc' = [pc EXCEPT ![w] = "put"] /\ UNCHANGED <<jobs, csv, held, run>>
        /\ outcome' = [outcome EXCEPT ![w] = outcome[w]]
    BY <1>0, <1>3 DEF FetchOk
  <2> QED
    BY <1>0, <2>1, RunStep
<1>4. CASE FetchFails(w)
  <2>1. /\ Busy(w) /\ pc' = [pc EXCEPT ![w] = "record"] /\ UNCHANGED <<jobs, csv, held, run>>
        /\ outcome' = [outcome EXCEPT ![w] = Verdict(w)]
    BY <1>0, <1>4 DEF FetchFails
  <2> QED
    BY <1>0, <2>1, RunStep, VerdictFits
<1>5. CASE PutOk(w)
  <2>1. /\ Busy(w) /\ pc' = [pc EXCEPT ![w] = "record"] /\ UNCHANGED <<jobs, held, run>>
        /\ outcome' = [outcome EXCEPT ![w] = "done"] /\ csv' = csv \cup {held[w].job}
    BY <1>0, <1>5 DEF PutOk
  <2>2. csv' \in SUBSET Jobs /\ csv \subseteq csv' /\ held[w].job \in csv'
    BY <1>0, <2>1, RunningWorker
  <2> QED
    BY <1>0, <2>1, <2>2, RunStep
<1>6. CASE PutFails(w)
  <2>1. /\ Busy(w) /\ pc' = [pc EXCEPT ![w] = "record"] /\ UNCHANGED <<jobs, held, run>>
        /\ outcome' = [outcome EXCEPT ![w] = Verdict(w)]
        /\ csv' \in {csv, csv \cup {held[w].job}}
    BY <1>0, <1>6 DEF PutFails
  <2>2. csv' \in SUBSET Jobs /\ csv \subseteq csv'
    BY <1>0, <2>1, RunningWorker
  <2> QED
    BY <1>0, <2>1, <2>2, RunStep, VerdictFits
<1> QED
  BY <1>1, <1>2, <1>3, <1>4, <1>5, <1>6

\* The fenced write: the row it finds is the one the claim leased.
LEMMA FencedWrite ==
    ASSUME IInv, NEW w \in Workers, pc[w] = "record", Fenced(w),
           jobs' = [jobs EXCEPT ![held[w].job] = Recorded(@, outcome[w])],
           UNCHANGED csv
    PROVE  /\ jobs' \in [Jobs -> Row] /\ csv' \in SUBSET Jobs /\ csv \subseteq csv'
           /\ TableInv'
           /\ \A k \in Jobs : jobs'[k].attempt >= jobs[k].attempt
<1> DEFINE j == held[w].job
           r == Recorded(jobs[j], outcome[w])
<1>1. Busy(w) /\ j \in Jobs
  BY RunningWorker DEF Busy
<1>2. /\ jobs[j] \in Row /\ jobs[j].status = "processing"
      /\ jobs[j].attempt = held[w].attempt /\ jobs[j].attempt \in Nat
  BY <1>1, FencedRow, RunningWorker
<1>3. RowShape(jobs[j])
  BY <1>1 DEF IInv, TableInv
<1>4. /\ outcome[w] \in Outcome /\ outcome[w] # "none"
      /\ outcome[w] = "requeue" => jobs[j].attempt < MaxAttempts
      /\ outcome[w] = "done" => j \in csv
  BY <1>2 DEF IInv, TypeOK, WorkersInv, ClaimShape
<1>5. /\ r \in Row /\ RowShape(r) /\ r.attempt >= jobs[j].attempt
      /\ r.csvKey = "result" => j \in csv
  BY <1>2, <1>3, <1>4, RecordedRow
<1>6. jobs' = [jobs EXCEPT ![j] = r]
  OBVIOUS
<1> HIDE DEF j, r
<1> QED
  BY <1>1, <1>5, <1>6, RowStep

LEMMA RecordActions ==
    ASSUME IInv, NEW w \in Workers,
           \/ RecordOk(w) \/ RecordReplyLost(w) \/ RecordLost(w) \/ Notify(w)
           \/ Crash(w) \/ Restart(w)
    PROVE  IInv'
<1>0. /\ csv \in SUBSET Jobs /\ jobs \in [Jobs -> Row] /\ run \in [Workers -> Run]
      /\ pc \in [Workers -> PC] /\ outcome \in [Workers -> Outcome]
      /\ held \in [Workers -> Claim \cup {NoClaim}]
      /\ "none" \in Run /\ "none" \in Outcome /\ {"down", "drain", "notify"} \subseteq PC
  BY DEF IInv, TypeOK, Run, PC, Outcome
<1>1. CASE RecordOk(w)
  <2>1. /\ pc[w] = "record" /\ pc' = [pc EXCEPT ![w] = "notify"]
        /\ UNCHANGED <<held, run, outcome>>
    BY <1>1 DEF RecordOk
  <2>2. /\ jobs' \in [Jobs -> Row] /\ csv' \in SUBSET Jobs /\ csv \subseteq csv'
        /\ TableInv' /\ \A k \in Jobs : jobs'[k].attempt >= jobs[k].attempt
    BY <1>1, FencedWrite DEF RecordOk
  <2>3. TypeOK'
    BY <1>0, <2>1, <2>2 DEF TypeOK
  <2>4. Busy(w) /\ Busy(w)' /\ pc'[w] = "notify"
    BY <1>0, <2>1 DEF Busy
  <2>5. held[w].attempt <= jobs'[held[w].job].attempt
    <3>1. /\ held[w].job \in Jobs /\ held[w].attempt \in Nat
          /\ held[w].attempt <= jobs[held[w].job].attempt
          /\ jobs[held[w].job].attempt \in Nat
      BY <2>4, RunningWorker
    <3>2. jobs'[held[w].job].attempt \in Nat
      BY <2>2, <3>1 DEF Row
    <3> QED
      BY <2>2, <3>1, <3>2
  <2>6. ClaimShape(w)'
    BY <2>1, <2>4, <2>5, RunningWorker DEF ClaimShape
  <2> QED
    BY <1>0, <2>1, <2>2, <2>3, <2>4, <2>6, WorkerStep
<1>2. ASSUME EndRun(w), UNCHANGED csv,
             jobs' \in [Jobs -> Row], TableInv',
             \A k \in Jobs : jobs'[k].attempt >= jobs[k].attempt
      PROVE  IInv'
  <2>1. TypeOK'
    BY <1>0, <1>2 DEF EndRun, TypeOK
  <2>2. /\ pc'[w] = "drain" /\ held'[w] = NoClaim /\ csv \subseteq csv'
        /\ \A v \in Workers \ {w} : /\ pc'[v] = pc[v]
                                    /\ held'[v] = held[v]
                                    /\ outcome'[v] = outcome[v]
    BY <1>0, <1>2 DEF EndRun
  <2> QED
    BY <1>2, <2>1, <2>2, IdleStep
<1>3. CASE RecordReplyLost(w)
  <2>1. /\ jobs' \in [Jobs -> Row] /\ TableInv'
        /\ \A k \in Jobs : jobs'[k].attempt >= jobs[k].attempt
    BY <1>3, FencedWrite DEF RecordReplyLost
  <2> QED
    BY <1>2, <1>3, <2>1 DEF RecordReplyLost
<1>4. CASE RecordLost(w) \/ Notify(w)
  <2>1. EndRun(w) /\ UNCHANGED <<jobs, csv>>
    BY <1>4 DEF RecordLost, Notify
  <2> QED
    BY <1>0, <1>2, <2>1, TableFrame
<1>5. CASE Crash(w)
  <2>1. UNCHANGED <<jobs, csv>>
    BY <1>5 DEF Crash
  <2>2. TypeOK'
    BY <1>0, <1>5 DEF Crash, TypeOK
  <2>3. /\ pc'[w] = "down" /\ held'[w] = NoClaim
        /\ \A v \in Workers \ {w} : /\ pc'[v] = pc[v]
                                    /\ held'[v] = held[v]
                                    /\ outcome'[v] = outcome[v]
    BY <1>0, <1>5 DEF Crash
  <2> QED
    BY <1>0, <2>1, <2>2, <2>3, TableFrame, IdleStep
<1>6. CASE Restart(w)
  <2>1. UNCHANGED <<jobs, csv, held, run, outcome>>
    BY <1>6 DEF Restart
  <2>2. TypeOK'
    BY <1>0, <1>6 DEF Restart, TypeOK
  <2>3. held[w] = NoClaim
    BY <1>6 DEF Restart, IInv, WorkersInv, ClaimShape, Busy
  <2>4. /\ pc'[w] = "drain" /\ held'[w] = NoClaim
        /\ \A v \in Workers \ {w} : /\ pc'[v] = pc[v]
                                    /\ held'[v] = held[v]
                                    /\ outcome'[v] = outcome[v]
    BY <1>0, <1>6, <2>1, <2>3 DEF Restart
  <2> QED
    BY <1>0, <2>1, <2>2, <2>4, TableFrame, IdleStep
<1> QED
  BY <1>1, <1>3, <1>4, <1>5, <1>6

\* A claim: the new token is one no running claim of that job carries, since
\* each of those is at most the row's attempt.
LEMMA ClaimAction ==
    ASSUME IInv, NEW w \in Workers, NEW j \in Jobs, ClaimJob(w, j)
    PROVE  IInv'
<1> DEFINE r == Leased(jobs[j])
           c == [job |-> j, attempt |-> jobs[j].attempt + 1, token |-> jobs[j].attempt + 1]
<1>1. /\ jobs[j] \in Row /\ RowShape(jobs[j]) /\ jobs[j].attempt < MaxAttempts
      /\ jobs[j].status \in {"queued", "processing"}
  BY DEF IInv, TypeOK, TableInv, ClaimJob, Ready
<1>2. /\ r \in Row /\ RowShape(r) /\ r.csvKey = "null"
      /\ r.attempt = jobs[j].attempt + 1 /\ r.token = jobs[j].attempt + 1
  BY <1>1, LeasedRow
<1>3. jobs[j].attempt \in 0..MaxAttempts
  BY <1>1 DEF Row
<1>4. /\ jobs' = [jobs EXCEPT ![j] = r] /\ jobs'[j] = r
      /\ UNCHANGED <<csv, run, outcome>> /\ ~Busy(w)
      /\ pc' = [pc EXCEPT ![w] = "claimed"]
  BY DEF ClaimJob, IInv, TypeOK, Busy
<1>5. held' = [held EXCEPT ![w] = c]
  BY <1>2, <1>4 DEF ClaimJob
<1>6. c \in Claim
  BY <1>1, <1>3, ColumnValues DEF Claim
<1>7. c.job = j /\ c.attempt = jobs[j].attempt + 1 /\ c.token = jobs[j].attempt + 1
  OBVIOUS
<1>8. r.attempt >= jobs[j].attempt
  BY <1>2, <1>3
<1> HIDE DEF r, c
<1>9. /\ jobs' \in [Jobs -> Row] /\ csv' \in SUBSET Jobs /\ csv \subseteq csv' /\ TableInv'
      /\ \A k \in Jobs : jobs'[k].attempt >= jobs[k].attempt
  BY <1>2, <1>4, <1>8, RowStep
<1>10. TypeOK'
  BY <1>4, <1>5, <1>6, <1>9 DEF IInv, TypeOK, PC
<1>11. /\ pc'[w] = "claimed" /\ held'[w] = c
       /\ \A v \in Workers \ {w} : /\ pc'[v] = pc[v]
                                   /\ held'[v] = held[v]
                                   /\ outcome'[v] = outcome[v]
  BY <1>4, <1>5 DEF IInv, TypeOK
<1>12. WorkersInv'
  <2>1. ClaimShape(w)'
    BY <1>2, <1>3, <1>4, <1>6, <1>7, <1>11 DEF ClaimShape, Busy
  <2>2. \A v \in Workers \ {w} : ClaimShape(v)'
    BY <1>9, <1>11, ClaimShapeFrame
  <2> QED
    BY <2>1, <2>2 DEF WorkersInv
<1>13. ClaimsDistinct'
  <2>1. ASSUME NEW v \in Workers \ {w}, Busy(v)', held'[v].job = j
        PROVE  held'[v].token # c.token
    <3>1. Busy(v) /\ held'[v] = held[v]
      BY <1>11, <2>1 DEF Busy
    <3>2. /\ held[v].attempt \in Nat /\ held[v].token = held[v].attempt
          /\ held[v].attempt <= jobs[j].attempt
      BY <2>1, <3>1, RunningWorker
    <3> QED
      BY <1>3, <1>7, <3>1, <3>2
  <2>2. \A u, v \in Workers \ {w} :
           Busy(u)' /\ Busy(v)' /\ held'[u].job = held'[v].job
             /\ held'[u].token = held'[v].token => u = v
    BY <1>11 DEF IInv, ClaimsDistinct, Busy
  <2> QED
    BY <1>7, <1>11, <2>1, <2>2 DEF ClaimsDistinct
<1> QED
  BY <1>9, <1>10, <1>12, <1>13 DEF IInv

LEMMA StutterStep == ASSUME IInv, UNCHANGED vars PROVE IInv'
BY DEF IInv, TypeOK, TableInv, RowShape, WorkersInv, ClaimShape, ClaimsDistinct, Busy, vars

\* Every step of the specification keeps the invariant.
LEMMA NextInv == IInv /\ [Next]_vars => IInv'
<1> SUFFICES ASSUME IInv, [Next]_vars PROVE IInv'
  OBVIOUS
<1>1. CASE \/ \E j \in Jobs : Enqueue(j) \/ CancelQueued(j) \/ Expire(j)
           \/ \E w \in Workers, j \in Jobs : ClaimReplyLost(w, j)
           \/ FailExhausted
  BY <1>1, TableActions
<1>2. CASE \E w \in Workers, j \in Jobs : ClaimJob(w, j)
  BY <1>2, ClaimAction
<1>3. CASE \E w \in Workers : Work(w) \/ CancelRunning(w) \/ Crash(w) \/ Restart(w)
  BY <1>3, ProcessActions, RecordActions DEF Work
<1>4. CASE UNCHANGED vars
  BY <1>4, StutterStep
<1> QED
  BY <1>1, <1>2, <1>3, <1>4 DEF Next

-----------------------------------------------------------------------------
(* The invariants *)

\* In every reachable state the rows, the bucket and the running claims agree,
\* for any number of jobs, workers and attempts.
THEOREM InductiveInvariant == Spec => []IInv
<1>1. Init => IInv
  BY InitInv
<1>2. IInv /\ [Next]_vars => IInv'
  BY NextInv
<1> QED
  BY <1>1, <1>2, PTL DEF Spec

\* Every column and every worker variable keeps its type; with attempt in
\* 0..MaxAttempts this bounds how often a job is started.
THEOREM TypeCorrect == Spec => []TypeOK
<1>1. IInv => TypeOK
  BY DEF IInv
<1> QED
  BY <1>1, InductiveInvariant, PTL

\* At most one of the workers that run a job can still write its outcome,
\* however many leases expired under stalled workers.
THEOREM LeaseExclusive == Spec => []OneLeaseHolder
<1>1. IInv => OneLeaseHolder
  <2> SUFFICES ASSUME IInv, NEW j \in Jobs, NEW v \in Workers, NEW w \in Workers,
                      HasLease(v, j), HasLease(w, j)
               PROVE  v = w
    BY DEF OneLeaseHolder
  <2>1. /\ Busy(v) /\ Busy(w) /\ held[v].job = held[w].job
        /\ held[v].token = held[w].token
    BY DEF HasLease, Busy
  <2> QED
    BY <2>1 DEF IInv, ClaimsDistinct
<1> QED
  BY <1>1, InductiveInvariant, PTL

\* No row is ever out of reach of the claim query, the janitor and the clock.
THEOREM NothingStranded == Spec => []NoRowStranded
<1>1. IInv => NoRowStranded
  <2> SUFFICES ASSUME IInv, NEW j \in Jobs, jobs[j].status \in {"queued", "processing"}
               PROVE  Ready(j) \/ Exhausted(j) \/ jobs[j].lease = "live"
    BY DEF NoRowStranded
  <2>1. RowShape(jobs[j]) /\ jobs[j].attempt \in Nat /\ jobs[j].lease \in Lease
    BY DEF IInv, TypeOK, TableInv, Row
  <2>2. CASE jobs[j].status = "queued"
    BY <2>1, <2>2 DEF RowShape, Ready
  <2>3. CASE jobs[j].status = "processing"
    BY <2>1, <2>3 DEF RowShape, Ready, Exhausted, Lease
  <2> QED
    BY <2>2, <2>3
<1> QED
  BY <1>1, InductiveInvariant, PTL

\* A download link is shown exactly for done jobs, and its object is there.
THEOREM LinksWork == Spec => []DownloadLinkWorks
<1>1. IInv => DownloadLinkWorks
  BY DEF IInv, TableInv, RowShape, DownloadLinkWorks
<1> QED
  BY <1>1, InductiveInvariant, PTL

-----------------------------------------------------------------------------
(* What a step may do to one row *)

\* The only ways a row changes, each with the guard of its statement.
RowChange(j) ==
    \/ jobs'[j] = jobs[j]
    \/ jobs[j].status = "absent" /\ jobs'[j] = [jobs[j] EXCEPT !.status = "queued"]
    \/ jobs[j].status = "queued" /\ jobs'[j] = Failed(jobs[j], "canceled")
    \/ Ready(j) /\ jobs'[j] = Leased(jobs[j])
    \/ jobs[j].lease = "live" /\ jobs'[j] = [jobs[j] EXCEPT !.lease = "expired"]
    \/ Exhausted(j) /\ jobs'[j] = Failed(jobs[j], "abandoned")
    \/ \E w \in Workers : /\ pc[w] = "record" /\ held[w].job = j /\ Fenced(w)
                          /\ jobs'[j] = Recorded(jobs[j], outcome[w])

LEMMA StepChangesRow ==
    ASSUME IInv, [Next]_vars, NEW j \in Jobs PROVE RowChange(j)
<1>0. jobs \in [Jobs -> Row]
  BY DEF IInv, TypeOK
<1>1. ASSUME NEW k \in Jobs, Enqueue(k) \/ CancelQueued(k) \/ Expire(k)
      PROVE  RowChange(j)
  <2>1. CASE j # k
    BY <1>0, <1>1, <2>1 DEF Enqueue, CancelQueued, Expire, RowChange
  <2>2. CASE j = k /\ Enqueue(k)
    BY <1>0, <2>2 DEF Enqueue, RowChange
  <2>3. CASE j = k /\ CancelQueued(k)
    BY <1>0, <2>3 DEF CancelQueued, RowChange
  <2>4. CASE j = k /\ Expire(k)
    BY <1>0, <2>4 DEF Expire, RowChange
  <2> QED
    BY <1>1, <2>1, <2>2, <2>3, <2>4
<1>2. ASSUME NEW w \in Workers, NEW k \in Jobs, ClaimJob(w, k) \/ ClaimReplyLost(w, k)
      PROVE  RowChange(j)
  <2>1. Ready(k) /\ jobs' = [jobs EXCEPT ![k] = Leased(jobs[k])]
    BY <1>2 DEF ClaimJob, ClaimReplyLost
  <2> QED
    BY <1>0, <2>1 DEF RowChange
<1>3. ASSUME NEW w \in Workers, RecordOk(w) \/ RecordReplyLost(w) PROVE RowChange(j)
  <2>1. /\ pc[w] = "record" /\ Fenced(w)
        /\ jobs' = [jobs EXCEPT ![held[w].job] = Recorded(jobs[held[w].job], outcome[w])]
    BY <1>3 DEF RecordOk, RecordReplyLost
  <2> QED
    BY <1>0, <2>1 DEF RowChange
<1>4. ASSUME NEW w \in Workers,
             \/ Begin(w) \/ CancelRunning(w) \/ FetchOk(w) \/ FetchFails(w)
             \/ PutOk(w) \/ PutFails(w) \/ RecordLost(w) \/ Notify(w)
             \/ Crash(w) \/ Restart(w)
      PROVE  RowChange(j)
  <2>1. UNCHANGED jobs
    BY <1>4 DEF Begin, CancelRunning, FetchOk, FetchFails, PutOk, PutFails, RecordLost,
                Notify, Crash, Restart
  <2> QED
    BY <2>1 DEF RowChange
<1>5. CASE FailExhausted
  BY <1>0, <1>5 DEF FailExhausted, RowChange
<1>6. CASE UNCHANGED vars
  BY <1>6 DEF vars, RowChange
<1> QED
  BY <1>1, <1>2, <1>3, <1>4, <1>5, <1>6 DEF Next, Work

\* A worker that can still write a row holds its lease, at its attempt.
LEMMA WriterHoldsLease ==
    ASSUME IInv, NEW w \in Workers, pc[w] = "record", Fenced(w)
    PROVE  /\ HasLease(w, held[w].job)
           /\ jobs[held[w].job].status = "processing"
           /\ jobs[held[w].job].attempt = held[w].attempt
BY FencedRow DEF Busy, HasLease, Fenced

\* No statement finds a finished row: it is neither ready nor exhausted, and it
\* has no token left to match.
LEMMA FinishedRowKept ==
    ASSUME IInv, [Next]_vars, NEW j \in Jobs, Terminal(j)
    PROVE  jobs'[j] = jobs[j]
<1>1. RowChange(j)
  BY StepChangesRow
<1>2. jobs[j].status \notin {"absent", "queued", "processing"}
  BY DEF Terminal
<1>3. jobs[j].lease = "null"
  BY <1>2 DEF IInv, TableInv, RowShape
<1>4. ~ \E w \in Workers : pc[w] = "record" /\ held[w].job = j /\ Fenced(w)
  BY <1>2, WriterHoldsLease
<1> QED
  BY <1>1, <1>2, <1>3, <1>4 DEF RowChange, Ready, Exhausted

\* A finished row keeps every column, whatever stale workers, janitors and
\* users still do.
THEOREM FinishedRowsFrozen == Spec => TerminalIsFinal
<1>1. ASSUME IInv, [Next]_vars, NEW j \in Jobs, Terminal(j)
      PROVE  jobs'[j] = jobs[j]
  BY <1>1, FinishedRowKept
<1>2. IInv /\ [Next]_vars => [\A j \in Jobs : Terminal(j) => jobs'[j] = jobs[j]]_vars
  BY <1>1
<1> QED
  BY <1>2, InductiveInvariant, PTL DEF Spec, TerminalIsFinal

\* While a lease runs only its holder's write, or time, changes the row.
THEOREM LeaseRespected == Spec => LiveLeaseRespected
<1>1. ASSUME IInv, [Next]_vars, NEW j \in Jobs, jobs[j].lease = "live",
             jobs'[j] # [jobs[j] EXCEPT !.lease = "expired"], jobs'[j] # jobs[j]
      PROVE  \E w \in Workers : pc[w] = "record" /\ HasLease(w, j)
  <2>1. RowChange(j)
    BY <1>1, StepChangesRow
  <2>2. jobs[j].status = "processing"
    BY <1>1 DEF IInv, TableInv, RowShape
  <2>3. PICK w \in Workers : pc[w] = "record" /\ held[w].job = j /\ Fenced(w)
    BY <1>1, <2>1, <2>2 DEF RowChange, Ready, Exhausted
  <2> QED
    BY <1>1, <2>3, WriterHoldsLease
<1>2. IInv /\ [Next]_vars =>
        [\A j \in Jobs :
            jobs[j].lease = "live" /\ jobs'[j] # [jobs[j] EXCEPT !.lease = "expired"]
                                   /\ jobs'[j] # jobs[j]
               => \E w \in Workers : pc[w] = "record" /\ HasLease(w, j)]_vars
  BY <1>1
<1> QED
  BY <1>2, InductiveInvariant, PTL DEF Spec, LiveLeaseRespected

\* 'done' is never stamped over an attempt that is still going on.
THEOREM DoneIsLatest == Spec => DoneByLatestAttempt
<1>1. ASSUME IInv, [Next]_vars, NEW j \in Jobs, ~Terminal(j), jobs'[j].status = "done"
      PROVE  \E w \in Workers : /\ outcome[w] = "done"
                                /\ held[w].job = j
                                /\ held[w].attempt = jobs[j].attempt
  <2>1. RowChange(j)
    BY <1>1, StepChangesRow
  <2>2. jobs[j] \in Row /\ RowShape(jobs[j])
    BY <1>1 DEF IInv, TypeOK, TableInv
  <2>3. /\ [jobs[j] EXCEPT !.status = "queued"].status = "queued"
        /\ [jobs[j] EXCEPT !.lease = "expired"].status = jobs[j].status
        /\ Failed(jobs[j], "canceled").status = "failed"
        /\ Failed(jobs[j], "abandoned").status = "failed"
        /\ Failed(jobs[j], "error").status = "failed"
        /\ Leased(jobs[j]).status = "processing"
    BY <2>2 DEF Row, Failed, Released, Leased
  <2>4. PICK w \in Workers : /\ pc[w] = "record" /\ held[w].job = j /\ Fenced(w)
                             /\ jobs'[j] = Recorded(jobs[j], outcome[w])
    BY <1>1, <2>1, <2>3 DEF RowChange, Terminal
  <2>5. outcome[w] = "done"
    BY <1>1, <2>2, <2>3, <2>4 DEF Recorded, Released, Row
  <2> QED
    BY <1>1, <2>4, <2>5, WriterHoldsLease
<1>2. IInv /\ [Next]_vars =>
        [\A j \in Jobs :
            ~Terminal(j) /\ jobs'[j].status = "done"
               => \E w \in Workers : /\ outcome[w] = "done"
                                     /\ held[w].job = j
                                     /\ held[w].attempt = jobs[j].attempt]_vars
  BY <1>1
<1> QED
  BY <1>2, InductiveInvariant, PTL DEF Spec, DoneByLatestAttempt

\* The statements that write a row, one by one.
LEMMA ProgressOfWrites ==
    ASSUME NEW r \in Row, RowShape(r)
    PROVE  /\ Progress(r) \in Nat /\ Progress(r) <= 3 * MaxAttempts + 2
           /\ r.status \in {"absent", "queued", "processing"} => Progress(r) < 3 * MaxAttempts + 2
           /\ r.status = "absent" => Progress([r EXCEPT !.status = "queued"]) = 2 /\ Progress(r) = 0
           /\ \A why \in ErrorText : Progress(Failed(r, why)) = 3 * MaxAttempts + 2
           /\ r.lease = "live" => /\ Progress(r) < Progress([r EXCEPT !.lease = "expired"])
                                  /\ Progress([r EXCEPT !.lease = "expired"]) <= 3 * MaxAttempts + 2
           /\ r.status \in {"queued", "processing"} /\ r.lease # "live" /\ r.attempt < MaxAttempts =>
                 /\ Progress(r) < Progress(Leased(r))
                 /\ Progress(Leased(r)) <= 3 * MaxAttempts + 2
<1>1. /\ r.attempt \in Nat /\ r.attempt <= MaxAttempts /\ MaxAttempts \in Nat
      /\ r.status \in Status /\ r.lease \in Lease
  BY DEF Row
<1>2. r.status = "absent" => r.attempt = 0
  BY DEF RowShape
<1>3. r.status = "queued" => r.attempt < MaxAttempts
  BY DEF RowShape
<1>4. Progress(r) \in Nat /\ Progress(r) <= 3 * MaxAttempts + 2
  BY <1>1, <1>3 DEF Progress
<1>5. r.status \in {"absent", "queued", "processing"} => Progress(r) < 3 * MaxAttempts + 2
  BY <1>1, <1>3 DEF Progress
<1>6. ASSUME r.status = "absent"
      PROVE  Progress([r EXCEPT !.status = "queued"]) = 2 /\ Progress(r) = 0
  <2>1. /\ [r EXCEPT !.status = "queued"].status = "queued"
        /\ [r EXCEPT !.status = "queued"].attempt = 0
    BY <1>2, <1>6 DEF Row
  <2> QED
    BY <1>6, <2>1 DEF Progress
<1>7. ASSUME NEW why \in ErrorText PROVE Progress(Failed(r, why)) = 3 * MaxAttempts + 2
  <2>1. Failed(r, why).status = "failed"
    BY DEF Failed, Released, Row
  <2> QED
    BY <2>1 DEF Progress
<1>8. ASSUME r.lease = "live"
      PROVE  /\ Progress(r) < Progress([r EXCEPT !.lease = "expired"])
             /\ Progress([r EXCEPT !.lease = "expired"]) <= 3 * MaxAttempts + 2
  <2>1. PICK e : e = [r EXCEPT !.lease = "expired"]
    OBVIOUS
  <2>2. e.status = r.status /\ e.attempt = r.attempt /\ e.lease = "expired"
    BY <2>1 DEF Row
  <2>3. r.status = "processing"
    BY <1>8 DEF RowShape
  <2>4. Progress(e) = 3 * r.attempt + 1
    BY <2>2, <2>3 DEF Progress
  <2>5. Progress(r) = 3 * r.attempt
    BY <1>1, <1>8, <2>3 DEF Progress
  <2> QED
    BY <1>1, <2>1, <2>4, <2>5
<1>9. ASSUME r.status \in {"queued", "processing"}, r.lease # "live", r.attempt < MaxAttempts
      PROVE  Progress(r) < Progress(Leased(r)) /\ Progress(Leased(r)) <= 3 * MaxAttempts + 2
  <2>1. PICK e : e = Leased(r)
    OBVIOUS
  <2>2. e.status = "processing" /\ e.attempt = r.attempt + 1 /\ e.lease = "live"
    BY <2>1 DEF Leased, Row
  <2>3. Progress(e) = 3 * (r.attempt + 1)
    BY <1>1, <2>2 DEF Progress
  <2>4. Progress(r) <= 3 * r.attempt + 2
    BY <1>1, <1>9 DEF Progress
  <2> QED
    BY <1>1, <1>4, <1>9, <2>1, <2>3, <2>4
<1> QED
  BY <1>4, <1>5, <1>6, <1>7, <1>8, <1>9

LEMMA ProgressOfOutcomes ==
    ASSUME NEW r \in Row, RowShape(r), r.status = "processing", NEW o,
           o = "requeue" => r.attempt < MaxAttempts, o \in Outcome, o # "none"
    PROVE  /\ Progress(r) < Progress(Recorded(r, o))
           /\ Progress(Recorded(r, o)) <= 3 * MaxAttempts + 2
<1>1. r.attempt \in Nat /\ r.attempt <= MaxAttempts /\ MaxAttempts \in Nat
  BY DEF Row
<1>2. Progress(r) <= 3 * r.attempt + 1 /\ Progress(r) \in Nat
  BY <1>1 DEF Progress
<1>3. PICK e : e = Recorded(r, o)
  OBVIOUS
<1>4. CASE o = "requeue"
  <2>1. e.status = "queued" /\ e.attempt = r.attempt
    BY <1>3, <1>4 DEF Recorded, Released, Row
  <2>2. Progress(e) = 3 * r.attempt + 2
    BY <2>1 DEF Progress
  <2> QED
    BY <1>1, <1>2, <1>3, <1>4, <2>2
<1>5. CASE o # "requeue"
  <2>1. e.status \in {"done", "failed"}
    BY <1>3, <1>5 DEF Recorded, Failed, Released, Row, Outcome
  <2>2. Progress(e) = 3 * MaxAttempts + 2
    BY <2>1 DEF Progress
  <2> QED
    BY <1>1, <1>2, <1>3, <2>2
<1> QED
  BY <1>4, <1>5

\* No job goes in circles: each statement takes its row further, and no row
\* changes more than 3 * MaxAttempts + 2 times.
THEOREM RowsProgress == Spec => RowsMoveForward
<1> DEFINE Forward(j) ==
             jobs'[j] # jobs[j] =>
                /\ Progress(jobs[j]) < Progress(jobs'[j])
                /\ Progress(jobs'[j]) <= 3 * MaxAttempts + 2
<1>1. ASSUME IInv, [Next]_vars, NEW j \in Jobs PROVE Forward(j)
  <2>1. jobs[j] \in Row /\ RowShape(jobs[j])
    BY <1>1 DEF IInv, TypeOK, TableInv
  <2>2. PICK r \in Row : r = jobs[j] /\ RowShape(r)
    BY <2>1
  <2>3. MaxAttempts \in Nat
    OBVIOUS
  <2>4. /\ r.status \in {"absent", "queued", "processing"} => Progress(r) < 3 * MaxAttempts + 2
        /\ r.status = "absent" => Progress([r EXCEPT !.status = "queued"]) = 2 /\ Progress(r) = 0
        /\ \A why \in ErrorText : Progress(Failed(r, why)) = 3 * MaxAttempts + 2
        /\ r.lease = "live" => /\ Progress(r) < Progress([r EXCEPT !.lease = "expired"])
                               /\ Progress([r EXCEPT !.lease = "expired"]) <= 3 * MaxAttempts + 2
        /\ r.status \in {"queued", "processing"} /\ r.lease # "live" /\ r.attempt < MaxAttempts =>
              /\ Progress(r) < Progress(Leased(r))
              /\ Progress(Leased(r)) <= 3 * MaxAttempts + 2
    BY <2>2, ProgressOfWrites
  <2>5. ASSUME NEW w \in Workers, pc[w] = "record", held[w].job = j, Fenced(w),
               jobs'[j] = Recorded(jobs[j], outcome[w])
        PROVE  Forward(j)
    <3>1. r.status = "processing" /\ held[w].attempt = r.attempt
      BY <1>1, <2>2, <2>5, FencedRow DEF Busy
    <3>2. /\ outcome[w] \in Outcome /\ outcome[w] # "none"
          /\ outcome[w] = "requeue" => r.attempt < MaxAttempts
      BY <1>1, <2>5, <3>1 DEF IInv, TypeOK, WorkersInv, ClaimShape
    <3> QED
      BY <2>2, <2>5, <3>1, <3>2, ProgressOfOutcomes
  <2>6. RowChange(j)
    BY <1>1, StepChangesRow
  <2>7. CASE jobs'[j] = r \/ (r.status = "absent" /\ jobs'[j] = [r EXCEPT !.status = "queued"])
    BY <2>2, <2>3, <2>4, <2>7
  <2>8. CASE \/ r.status = "queued" /\ jobs'[j] = Failed(r, "canceled")
             \/ Exhausted(j) /\ jobs'[j] = Failed(r, "abandoned")
    BY <2>2, <2>3, <2>4, <2>8, ColumnValues DEF Exhausted
  <2>9. CASE Ready(j) /\ jobs'[j] = Leased(r)
    <3>1. r.status \in {"queued", "processing"} /\ r.lease # "live" /\ r.attempt < MaxAttempts
      BY <2>2, <2>9 DEF Ready, RowShape
    <3> QED
      BY <2>2, <2>4, <2>9, <3>1
  <2>10. CASE r.lease = "live" /\ jobs'[j] = [r EXCEPT !.lease = "expired"]
    BY <2>2, <2>4, <2>10
  <2> QED
    BY <2>2, <2>5, <2>6, <2>7, <2>8, <2>9, <2>10 DEF RowChange
<1>2. IInv /\ [Next]_vars => [\A j \in Jobs : Forward(j)]_vars
  BY <1>1
<1> QED
  BY <1>2, InductiveInvariant, PTL DEF Spec, RowsMoveForward

-----------------------------------------------------------------------------
(* JobQueue implements JobLifecycle *)

\* The refinement mapping, by name.
StatusOf  == [j \in Jobs |-> jobs[j].status]
AttemptOf == [j \in Jobs |-> jobs[j].attempt]

\* A write of one row, seen through the mapping.
LEMMA MappedWrite ==
    ASSUME IInv, NEW j \in Jobs, NEW r, jobs' = [jobs EXCEPT ![j] = r]
    PROVE  /\ StatusOf'  = [StatusOf EXCEPT ![j] = r.status]
           /\ AttemptOf' = [AttemptOf EXCEPT ![j] = r.attempt]
<1>1. \A k \in Jobs : /\ jobs'[k].status  = (IF k = j THEN r.status ELSE jobs[k].status)
                       /\ jobs'[k].attempt = (IF k = j THEN r.attempt ELSE jobs[k].attempt)
  BY DEF IInv, TypeOK
<1>2. StatusOf' = [StatusOf EXCEPT ![j] = r.status]
  BY <1>1 DEF StatusOf
<1>3. AttemptOf' = [AttemptOf EXCEPT ![j] = r.attempt]
  BY <1>1 DEF AttemptOf
<1> QED
  BY <1>2, <1>3

LEMMA SameAttempt ==
    ASSUME NEW j \in Jobs
    PROVE  /\ AttemptOf[j] = jobs[j].attempt
           /\ [AttemptOf EXCEPT ![j] = jobs[j].attempt] = AttemptOf
BY DEF AttemptOf

\* Every step of the queue is a step of the lifecycle, or changes nothing a
\* reader of status and attempt can see.
LEMMA StepSimulated ==
    ASSUME IInv, [Next]_vars
    PROVE  [Lifecycle!Next]_(Lifecycle!vars)
<1> DEFINE Same == UNCHANGED <<StatusOf, AttemptOf>>
<1>0. Same => [Lifecycle!Next]_(Lifecycle!vars)
  BY DEF StatusOf, AttemptOf, Lifecycle!vars
<1>10. ASSUME NEW j \in Jobs PROVE {j} \in SUBSET Jobs
  OBVIOUS
<1>1. ASSUME NEW j \in Jobs, Enqueue(j) PROVE Lifecycle!Submit(j)
  <2> DEFINE r == [jobs[j] EXCEPT !.status = "queued"]
  <2>1. jobs[j] \in Row /\ jobs[j].status = "absent" /\ jobs' = [jobs EXCEPT ![j] = r]
    BY <1>1 DEF Enqueue, IInv, TypeOK
  <2>2. r.status = "queued" /\ r.attempt = jobs[j].attempt
    BY <2>1 DEF Row
  <2> HIDE DEF r
  <2>mapped. /\ StatusOf' = [StatusOf EXCEPT ![j] = r.status]
        /\ AttemptOf' = [AttemptOf EXCEPT ![j] = r.attempt]
    BY <2>1, MappedWrite
  <2>3. StatusOf' = [StatusOf EXCEPT ![j] = "queued"] /\ AttemptOf' = AttemptOf
    BY <2>2, <2>mapped, SameAttempt
  <2> QED
    BY <2>1, <2>3 DEF Lifecycle!Submit, StatusOf, AttemptOf
<1>2. ASSUME NEW j \in Jobs, CancelQueued(j) PROVE Lifecycle!Fail({j})
  <2> DEFINE r == Failed(jobs[j], "canceled")
  <2>1. /\ jobs[j] \in Row /\ RowShape(jobs[j])
        /\ jobs[j].status = "queued" /\ jobs' = [jobs EXCEPT ![j] = r]
    BY <1>2 DEF CancelQueued, IInv, TypeOK, TableInv
  <2>2. r.status = "failed" /\ r.attempt = jobs[j].attempt
    BY <2>1, FailedRow, ColumnValues
  <2> HIDE DEF r
  <2>mapped. /\ StatusOf' = [StatusOf EXCEPT ![j] = r.status]
        /\ AttemptOf' = [AttemptOf EXCEPT ![j] = r.attempt]
    BY <2>1, MappedWrite
  <2>3. StatusOf' = [StatusOf EXCEPT ![j] = "failed"] /\ AttemptOf' = AttemptOf
    BY <2>2, <2>mapped, SameAttempt
  <2> QED
    BY <2>1, <2>3 DEF Lifecycle!Fail, Lifecycle!Live, StatusOf, AttemptOf
<1>3. ASSUME NEW j \in Jobs, Expire(j) PROVE Same
  <2> DEFINE r == [jobs[j] EXCEPT !.lease = "expired"]
  <2>1. jobs[j] \in Row /\ jobs' = [jobs EXCEPT ![j] = r]
    BY <1>3 DEF Expire, IInv, TypeOK
  <2>2. r.status = jobs[j].status /\ r.attempt = jobs[j].attempt
    BY <2>1 DEF Row
  <2> HIDE DEF r
  <2> QED
    BY <2>1, <2>2, MappedWrite DEF StatusOf, AttemptOf
<1>4. ASSUME NEW w \in Workers, NEW j \in Jobs, ClaimJob(w, j) \/ ClaimReplyLost(w, j)
      PROVE  Lifecycle!Start(j)
  <2> DEFINE r == Leased(jobs[j])
  <2>1. /\ jobs[j] \in Row /\ RowShape(jobs[j]) /\ jobs[j].attempt < MaxAttempts
        /\ jobs[j].status \in {"queued", "processing"} /\ jobs' = [jobs EXCEPT ![j] = r]
    BY <1>4 DEF ClaimJob, ClaimReplyLost, Ready, IInv, TypeOK, TableInv
  <2>2. r.status = "processing" /\ r.attempt = jobs[j].attempt + 1
    BY <2>1 DEF Row, Leased
  <2> HIDE DEF r
  <2>mapped. /\ StatusOf' = [StatusOf EXCEPT ![j] = r.status]
        /\ AttemptOf' = [AttemptOf EXCEPT ![j] = r.attempt]
    BY <2>1, MappedWrite
  <2>3. /\ StatusOf' = [StatusOf EXCEPT ![j] = "processing"]
        /\ AttemptOf' = [AttemptOf EXCEPT ![j] = AttemptOf[j] + 1]
    BY <2>2, <2>mapped, SameAttempt
  <2> QED
    BY <2>1, <2>3 DEF Lifecycle!Start, Lifecycle!Live, StatusOf, AttemptOf
<1>5. ASSUME NEW w \in Workers, RecordOk(w) \/ RecordReplyLost(w)
      PROVE  Lifecycle!Next
  <2>0. PICK j \in Jobs : held[w].job = j
    BY <1>5, RunningWorker DEF RecordOk, RecordReplyLost, Busy
  <2> DEFINE o == outcome[w]
             r == Recorded(jobs[j], o)
  <2>1. pc[w] = "record" /\ Fenced(w) /\ jobs' = [jobs EXCEPT ![j] = r]
    BY <1>5, <2>0 DEF RecordOk, RecordReplyLost
  <2>2. /\ jobs[j] \in Row /\ jobs[j].status = "processing"
        /\ jobs[j].attempt = held[w].attempt
    BY <2>0, <2>1, FencedRow DEF Busy
  <2>3. RowShape(jobs[j])
    BY <2>2 DEF IInv, TableInv
  <2>4. o \in Outcome /\ o # "none" /\ (o = "requeue" => jobs[j].attempt < MaxAttempts)
    BY <2>1, <2>2 DEF IInv, TypeOK, WorkersInv, ClaimShape
  <2>5. /\ r.attempt = jobs[j].attempt
        /\ r.status \in {"queued", "done", "failed"}
        /\ r.status = "queued" => jobs[j].attempt < MaxAttempts
    BY <2>2, <2>3, <2>4, RecordedRow
  <2> HIDE DEF o, r
  <2>mapped. /\ StatusOf' = [StatusOf EXCEPT ![j] = r.status]
        /\ AttemptOf' = [AttemptOf EXCEPT ![j] = r.attempt]
    BY <2>1, MappedWrite
  <2>6. StatusOf' = [StatusOf EXCEPT ![j] = r.status] /\ AttemptOf' = AttemptOf
    BY <2>2, <2>5, <2>mapped, SameAttempt
  <2>7. CASE r.status = "queued"
    <3>1. Lifecycle!Retry(j)
      BY <2>2, <2>5, <2>6, <2>7 DEF Lifecycle!Retry, StatusOf, AttemptOf
    <3> QED
      BY <1>10, <3>1 DEF Lifecycle!Next
  <2>8. CASE r.status = "done"
    <3>1. Lifecycle!Succeed(j)
      BY <2>2, <2>6, <2>8 DEF Lifecycle!Succeed, StatusOf, AttemptOf
    <3> QED
      BY <1>10, <3>1 DEF Lifecycle!Next
  <2>9. CASE r.status = "failed"
    <3>1. Lifecycle!Fail({j})
      BY <2>2, <2>6, <2>9 DEF Lifecycle!Fail, Lifecycle!Live, StatusOf, AttemptOf
    <3> QED
      BY <1>10, <3>1 DEF Lifecycle!Next
  <2> QED
    BY <2>5, <2>7, <2>8, <2>9
<1>6. ASSUME FailExhausted PROVE Lifecycle!Next
  <2>0. PICK S \in SUBSET Jobs : S = {j \in Jobs : Exhausted(j)}
    OBVIOUS
  <2>1. ASSUME NEW j \in Jobs
        PROVE  /\ jobs'[j].status = IF j \in S THEN "failed" ELSE jobs[j].status
               /\ jobs'[j].attempt = jobs[j].attempt
    <3>1. jobs[j] \in Row
      BY DEF IInv, TypeOK
    <3>2. jobs'[j] = IF Exhausted(j) THEN Failed(jobs[j], "abandoned") ELSE jobs[j]
      BY <1>6 DEF FailExhausted
    <3> QED
      BY <2>0, <3>1, <3>2 DEF Failed, Released, Row
  <2>2. \A j \in S : jobs[j].status = "processing"
    BY <2>0 DEF Exhausted
  <2>3. Lifecycle!Fail(S)
    BY <2>1, <2>2 DEF Lifecycle!Fail, Lifecycle!Live
  <2> QED
    BY <2>3 DEF Lifecycle!Next
<1>7. ASSUME UNCHANGED jobs PROVE Same
  BY <1>7 DEF StatusOf, AttemptOf
<1>8. ASSUME NEW w \in Workers,
             \/ Begin(w) \/ CancelRunning(w) \/ FetchOk(w) \/ FetchFails(w)
             \/ PutOk(w) \/ PutFails(w) \/ RecordLost(w) \/ Notify(w)
             \/ Crash(w) \/ Restart(w)
      PROVE  UNCHANGED jobs
  BY <1>8 DEF Begin, CancelRunning, FetchOk, FetchFails, PutOk, PutFails, RecordLost,
              Notify, Crash, Restart
<1>9. UNCHANGED vars => UNCHANGED jobs
  BY DEF vars
<1> HIDE DEF Same
<1>11. CASE \E j \in Jobs : Enqueue(j) \/ CancelQueued(j) \/ Expire(j)
  BY <1>0, <1>1, <1>2, <1>3, <1>10, <1>11 DEF Lifecycle!Next
<1>12. CASE \E w \in Workers, j \in Jobs : ClaimJob(w, j) \/ ClaimReplyLost(w, j)
  BY <1>4, <1>12 DEF Lifecycle!Next
<1>13. CASE \E w \in Workers : Work(w) \/ CancelRunning(w) \/ Crash(w) \/ Restart(w)
  BY <1>0, <1>5, <1>7, <1>8, <1>13 DEF Work
<1> QED
  BY <1>0, <1>6, <1>7, <1>9, <1>11, <1>12, <1>13 DEF Next

\* The queue implements the lifecycle: whatever the leases, crashes and lost
\* replies do, a reader of the table sees a job started at most MaxAttempts
\* times, never requeued without an attempt left, and finished once.
THEOREM LifecycleImplemented == Spec => ImplementsLifecycle
<1>1. Init => Lifecycle!Init
  BY DEF Init, Lifecycle!Init, AbsentRow
<1>2. IInv /\ [Next]_vars => [Lifecycle!Next]_(Lifecycle!vars)
  BY StepSimulated
<1> QED
  BY <1>1, <1>2, InductiveInvariant, PTL DEF Spec, ImplementsLifecycle, Lifecycle!Spec

=============================================================================
