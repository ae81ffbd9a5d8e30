----------------------------- MODULE WorkerLoop -----------------------------
(***************************************************************************)
(* How a committed job comes to a worker's notice.  Upload has the         *)
(* requests, whose commits notify jobs_new; this module adds one worker's  *)
(* main loop (worker app/loop.go): drain every ready job, then wait for a  *)
(* notification or for the poll interval, whatever became of the LISTEN    *)
(* connection.                                                             *)
(*                                                                         *)
(* Time is counted in ticks, and only while the loop waits: drain works    *)
(* for as long as there is work, and statements and connects are taken to  *)
(* be short.  Other workers take jobs from the queue, and jobs come back   *)
(* to it: with a notification when they are requeued, without one when     *)
(* their lease expires.                                                    *)
(***************************************************************************)
EXTENDS Upload, Integers

CONSTANTS Poll,      \* config.PollInterval, in ticks
          Backoff    \* listenBackoff, in ticks

ASSUME TimeAssumption == Poll \in Nat \ {0} /\ Backoff \in Nat \ {0}

VARIABLES loop,      \* where run() is
          conn,      \* l.conn: none, listening, or broken and not known to be
          pending,   \* notifications received and not yet waited for
          left,      \* ticks before the wait or the sleep ends
          ready,     \* jobs the claim query would return
          age,       \* ticks since a ready job became so, or drain last tried
          heard      \* history: jobs received since drain last tried

loopVars   == <<loop, conn, pending, left>>
queueVars  == <<ready, age, heard>>
workerVars == <<vars, loopVars, queueVars>>

Longest == IF Poll > Backoff THEN Poll ELSE Backoff

LoopTypeOK ==
    /\ loop    \in {"drain", "busy", "enter", "wait", "sleep"}
    /\ conn    \in {"none", "listening", "deaf"}
    /\ pending \in SUBSET Uploads
    /\ left    \in 0..Longest
    /\ ready   \in SUBSET Uploads
    /\ age     \in [Uploads -> Nat]
    /\ heard   \in SUBSET Uploads

WorkerInit ==
    /\ Init
    /\ loop    = "drain"
    /\ conn    = "none"
    /\ pending = {}
    /\ left    = 0
    /\ ready   = {}
    /\ age     = [u \in Uploads |-> 0]
    /\ heard   = {}

-----------------------------------------------------------------------------
(* The queue *)

\* A commit that notifies makes jobs ready and tells whoever listens at that
\* instant.
ReadyNotifying(new) ==
    /\ ready' = ready \cup new
    /\ age'   = [u \in Uploads |-> IF u \in new THEN 0 ELSE age[u]]
    /\ IF conn = "listening"
       THEN pending' = pending \cup new /\ heard' = heard \cup new
       ELSE UNCHANGED <<pending, heard>>
    /\ UNCHANGED <<loop, conn, left>>

\* Steps of the requests, of which a commit notifies.
ApiStep ==
    /\ \/ \E u \in Uploads :
             \/ Post(u) \/ PutPdf(u) \/ PutPdfFails(u)
             \/ BeginTx(u) \/ InsertRow(u) \/ SignalInTx(u) \/ TxFails(u)
             \/ CommitOk(u) \/ CommitFails(u) \/ RemovePdf(u)
       \/ ApiCrash
    /\ ReadyNotifying(signaled' \ signaled)

\* Some worker claims the job and, the first time, reads its pdf.
Claimed(u) ==
    /\ u \in ready
    /\ ready' = ready \ {u}
    /\ heard' = heard \ {u}
    /\ ReadPdf(u) \/ (row[u] # "committed" /\ UNCHANGED vars)
    /\ UNCHANGED age

OtherClaims(u) == Claimed(u) /\ UNCHANGED loopVars

\* The job was claimed and is not in the queue.
OutOfQueue(u) == row[u] \in {"read", "unreadable"} /\ u \notin ready

\* Requeue: its pg_notify rides the same commit as the UPDATE.
Requeued(u) ==
    /\ OutOfQueue(u)
    /\ ReadyNotifying({u})
    /\ UNCHANGED vars

\* The lease of a claimed job expires: nobody is notified.
LeaseExpires(u) ==
    /\ OutOfQueue(u)
    /\ ready' = ready \cup {u}
    /\ age'   = [age EXCEPT ![u] = 0]
    /\ UNCHANGED <<vars, loopVars, heard>>

-----------------------------------------------------------------------------
(* drain *)

ClaimNext(u) ==
    /\ loop = "drain"
    /\ Claimed(u)
    /\ loop' = "busy"
    /\ UNCHANGED <<conn, pending, left>>

\* Wrong variant: one job for every wake-up.
JobDoneDrainOnce ==
    /\ loop = "busy"
    /\ loop' = "enter"
    /\ UNCHANGED <<vars, queueVars, conn, pending, left>>

\* ProcessJob returns, whatever became of the job.
JobDone ==
    /\ loop = "busy"
    /\ loop' = "drain"
    /\ UNCHANGED <<vars, queueVars, conn, pending, left>>

\* The claim query returns no row, or an error.  A ready row may be left behind
\* by an error only, or because another session has it locked.
DrainEnds ==
    /\ loop = "drain"
    /\ loop' = "enter"
    /\ heard' = {}
    /\ age'   = [u \in Uploads |-> 0]
    /\ UNCHANGED <<vars, conn, pending, left, ready>>

-----------------------------------------------------------------------------
(* wait *)

\* connect() succeeds: LISTEN is registered, with nothing of the past.
Listen ==
    /\ loop = "enter" /\ conn = "none"
    /\ conn' = "listening"
    /\ loop' = "wait"
    /\ left' = Poll
    /\ UNCHANGED <<vars, queueVars, pending>>

\* Wrong variant: without a connection the loop sleeps for the poll interval.
ConnectFailsSleepingPoll ==
    /\ loop = "enter" /\ conn = "none"
    /\ loop' = "sleep"
    /\ left' = Poll
    /\ UNCHANGED <<vars, queueVars, conn, pending>>

\* connect() fails: the backoff.
ConnectFails ==
    /\ loop = "enter" /\ conn = "none"
    /\ loop' = "sleep"
    /\ left' = Backoff
    /\ UNCHANGED <<vars, queueVars, conn, pending>>

WaitAgain ==
    /\ loop = "enter" /\ conn # "none"
    /\ loop' = "wait"
    /\ left' = Poll
    /\ UNCHANGED <<vars, queueVars, conn, pending>>

\* Time passes while nothing is there to be returned.
Tick ==
    /\ loop \in {"wait", "sleep"}
    /\ pending = {} /\ left > 0
    /\ left' = left - 1
    /\ age'  = [u \in Uploads |-> IF u \in ready THEN age[u] + 1 ELSE age[u]]
    /\ UNCHANGED <<vars, loop, conn, pending, ready, heard>>

\* WaitForNotification returns one notification.  Another one of the same job, of
\* its upload or of a requeue, may be behind it: the set does not count them.
Wake(u) ==
    /\ loop = "wait" /\ u \in pending
    /\ pending' \in {pending \ {u}, pending}
    /\ loop'    = "drain"
    /\ UNCHANGED <<vars, queueVars, conn, left>>

\* The poll interval, or the backoff, is over; the connection stays.
Timeout ==
    /\ loop \in {"wait", "sleep"} /\ left = 0
    /\ loop' = "drain"
    /\ UNCHANGED <<vars, queueVars, conn, pending, left>>

\* Wrong variant: the lost connection is replaced, and only then waited for.
ConnLostWaitsOn ==
    /\ loop = "wait"
    /\ conn'    = "none"
    /\ pending' = {}
    /\ loop'    = "enter"
    /\ UNCHANGED <<vars, queueVars, left>>

\* WaitForNotification fails: close(), and wait() returns to drain.
ConnLost ==
    /\ loop = "wait"
    /\ conn'    = "none"
    /\ pending' = {}
    /\ loop'    = "drain"
    /\ UNCHANGED <<vars, queueVars, left>>

\* The connection breaks, or PgBouncer drops its LISTEN, and nobody is told.
Deafen ==
    /\ conn = "listening"
    /\ conn' = "deaf"
    /\ UNCHANGED <<vars, queueVars, loop, pending, left>>

\* The process dies and is restarted.
WorkerRestarts ==
    /\ loop'    = "drain"
    /\ conn'    = "none"
    /\ pending' = {}
    /\ left'    = 0
    /\ UNCHANGED <<vars, queueVars>>

-----------------------------------------------------------------------------
(* Specification *)

LoopStep ==
    \/ \E u \in Uploads : ClaimNext(u) \/ Wake(u)
    \/ JobDone \/ DrainEnds
    \/ Listen \/ ConnectFails \/ WaitAgain
    \/ Tick \/ Timeout \/ ConnLost \/ Deafen \/ WorkerRestarts

WorkerNext ==
    \/ ApiStep
    \/ \E u \in Uploads : OtherClaims(u) \/ Requeued(u) \/ LeaseExpires(u)
    \/ LoopStep

WorkerSpec == WorkerInit /\ [][WorkerNext]_workerVars

-----------------------------------------------------------------------------
(* Properties *)

\* README: "Losing every notification costs up to 5 seconds of latency and never
\* costs a job."  However many notifications and connections are lost, no ready
\* job is left for longer than the poll interval (or the backoff, if that is
\* longer) by a loop that has nothing else to do.
TriedInTime == \A u \in ready : age[u] <= Longest

\* A notification that was received is never lost with a job unseen: while the
\* loop waits, every job it was told of since drain last tried still has its
\* notification to come, also after its connection was lost and replaced.
NoLostWakeup == loop \in {"enter", "wait", "sleep"} => heard \subseteq pending

-----------------------------------------------------------------------------
(* The inductive invariant, on top of UploadInv *)

\* How long the loop has waited is how old a ready job can be.
Waited ==
    CASE loop = "enter" -> 0
      [] loop = "wait"  -> Poll - left
      [] loop = "sleep" -> Backoff - left
      [] OTHER          -> Longest

LoopInv ==
    /\ LoopTypeOK
    /\ loop = "wait"  => left <= Poll
    /\ loop = "sleep" => left <= Backoff
    /\ conn = "none" => pending = {}
    /\ \A u \in ready : age[u] <= Waited
    /\ NoLostWakeup

=============================================================================
