--------------------------- MODULE CancelRouting ---------------------------
(***************************************************************************)
(* How a cancel finds its job.  The jobs table and the workers' runs are   *)
(* JobQueue; this module adds what lies between a user's click and         *)
(* Processor.Cancel:                                                       *)
(*                                                                         *)
(*   - the worker's event buffer and its stream to the api, one session    *)
(*     after another (worker events/client.go);                            *)
(*   - the api's end of every stream, the table that maps a job to the     *)
(*     stream that reported PROCESSING, and a command queue per stream     *)
(*     (api events/server.go);                                             *)
(*   - the http handler of a cancel, which looks the job up, tries the     *)
(*     row, reads the table and queues a command, in four separate steps   *)
(*     (httpapi.go).                                                       *)
(*                                                                         *)
(* The two ends of a stream notice its loss on their own, at any time and  *)
(* in any order.  What was under way when it broke may still be read, late *)
(* or never.  Every action is a step of JobQueue or leaves it alone.       *)
(*                                                                         *)
(* The server's map of workers by id is written and never read to route    *)
(* anything, and has no variable here.                                     *)
(***************************************************************************)
EXTENDS JobQueue, Sequences

CONSTANTS Requests,        \* POST /jobs/{id}/cancel calls
          MaxSessions,     \* bound: streams a worker opens
          OutBuffer,       \* outBuffer
          CommandBuffer,   \* commandBuffer
          NoStream         \* nil

VARIABLES out,        \* c.out of each worker
          sessions,   \* how many streams each worker has opened
          online,     \* is the worker's session running
          told,       \* the stream a run's PROCESSING event went up on
          up,         \* events sent on a stream and not yet read by the api
          srv,        \* the api's end of a stream
          send,       \* w.send: commands queued for a stream
          senders,    \* the streams whose sendLoop runs
          down,       \* commands sent on a stream and not yet read by the worker
          leases,     \* s.leases
          req         \* the cancel handlers

clientVars  == <<out, sessions, online, told>>
serverVars  == <<srv, send, senders, leases>>
wireVars    == <<up, down>>
routingVars == <<vars, clientVars, wireVars, serverVars, req>>

Stream == [worker: Workers, nr: 1..MaxSessions]

ASSUME RoutingAssumption ==
    /\ MaxSessions \in Nat
    /\ OutBuffer \in Nat \ {0} /\ CommandBuffer \in Nat \ {0}
    /\ NoStream \notin Stream

Event == [job: Jobs, status: {"queued", "processing", "done", "failed"}]

\* A handler: where it is, its job, the stream it found.  "failed" and
\* "canceling" are its two 202 answers, "conflict" its 409, "error" its 500.
Answer  == {"failed", "canceling", "conflict", "error"}
Handler == [at: {"idle", "try", "route", "send", "dead"} \cup Answer,
            job: Jobs \cup {"none"}, stream: Stream \cup {NoStream}]

PathTypeOK ==
    /\ out      \in [Workers -> Seq(Event)]
    /\ sessions \in [Workers -> 0..MaxSessions]
    /\ online   \in [Workers -> BOOLEAN]
    /\ told     \in [Workers -> Stream \cup {NoStream}]
    /\ up       \in [Stream -> Seq(Event)]
    /\ srv      \in [Stream -> {"none", "new", "open", "closed"}]
    /\ send     \in [Stream -> Seq(Jobs)]
    /\ senders  \in SUBSET Stream
    /\ down     \in [Stream -> Seq(Jobs)]
    /\ leases   \in [Jobs -> Stream \cup {NoStream}]
    /\ req      \in [Requests -> Handler]

RoutingInit ==
    /\ Init
    /\ out      = [w \in Workers |-> <<>>]
    /\ sessions = [w \in Workers |-> 0]
    /\ online   = [w \in Workers |-> FALSE]
    /\ told     = [w \in Workers |-> NoStream]
    /\ up       = [s \in Stream |-> <<>>]
    /\ srv      = [s \in Stream |-> "none"]
    /\ send     = [s \in Stream |-> <<>>]
    /\ senders  = {}
    /\ down     = [s \in Stream |-> <<>>]
    /\ leases   = [j \in Jobs |-> NoStream]
    /\ req      = [r \in Requests |-> [at |-> "idle", job |-> "none", stream |-> NoStream]]

Current(w) == [worker |-> w, nr |-> sessions[w]]

-----------------------------------------------------------------------------
(* The worker *)

\* Client.Send: a full buffer gives up its oldest event.  Only the drain loop
\* sends, so nobody takes the freed slot; but the session may take events
\* between the look that found the buffer full and the eviction, which then
\* costs an event although there is room.
Emit(w, ev) ==
    \/ /\ Len(out[w]) < OutBuffer
       /\ out' = [out EXCEPT ![w] = Append(@, ev)]
    \/ /\ out[w] # <<>>
       /\ out' = [out EXCEPT ![w] = Append(Tail(@), ev)]

OutcomeEvent(w) ==
    [job |-> held[w].job, status |-> CASE outcome[w] = "done"    -> "done"
                                       [] outcome[w] = "requeue" -> "queued"
                                       [] OTHER                  -> "failed"]

\* begin(), then the PROCESSING event.
ReportBegin(w) ==
    /\ Begin(w)
    /\ Emit(w, [job |-> held[w].job, status |-> "processing"])
    /\ told' = [told EXCEPT ![w] = NoStream]
    /\ UNCHANGED <<sessions, online, wireVars, serverVars, req>>

\* The event of the recorded outcome, then end().
ReportOutcome(w) ==
    /\ Notify(w)
    /\ Emit(w, OutcomeEvent(w))
    /\ UNCHANGED <<sessions, online, told, wireVars, serverVars, req>>

\* The buffer dies with the process, and so does what it has not read.
CrashWorker(w) ==
    /\ Crash(w)
    /\ out'    = [out EXCEPT ![w] = <<>>]
    /\ online' = [online EXCEPT ![w] = FALSE]
    /\ down'   = [s \in Stream |-> IF s.worker = w THEN <<>> ELSE down[s]]
    /\ UNCHANGED <<sessions, told, up, serverVars, req>>

\* The steps of a run and of the janitor that the event path has no part in.
QueueStep ==
    /\ \/ \E j \in Jobs : Enqueue(j) \/ Expire(j)
       \/ \E w \in Workers, j \in Jobs : ClaimJob(w, j) \/ ClaimReplyLost(w, j)
       \/ \E w \in Workers :
             \/ FetchOk(w) \/ FetchFails(w) \/ PutOk(w) \/ PutFails(w)
             \/ RecordOk(w) \/ RecordReplyLost(w) \/ RecordLost(w)
             \/ Restart(w)
       \/ FailExhausted
    /\ UNCHANGED <<clientVars, wireVars, serverVars, req>>

-----------------------------------------------------------------------------
(* The worker's end of the stream *)

\* session() opens a stream.  The api's handler starts, but knows nothing of
\* the worker before its first event.
Connect(w) ==
    /\ pc[w] # "down"
    /\ ~online[w]
    /\ sessions[w] < MaxSessions
    /\ sessions' = [sessions EXCEPT ![w] = @ + 1]
    /\ online'   = [online EXCEPT ![w] = TRUE]
    /\ srv'      = [srv EXCEPT ![[worker |-> w, nr |-> sessions[w] + 1]] = "new"]
    /\ UNCHANGED <<vars, out, told, wireVars, send, senders, leases, req>>

\* The send loop of session().  Success means only that the event was handed
\* to the transport.
SendEvent(w) ==
    /\ online[w] /\ out[w] # <<>>
    /\ out' = [out EXCEPT ![w] = Tail(@)]
    /\ up'  = [up EXCEPT ![Current(w)] =
                 IF srv[Current(w)] = "closed" THEN @ ELSE Append(@, Head(out[w]))]
    /\ told' = [told EXCEPT ![w] =
                 IF run[w] # "none" /\ Head(out[w]).status = "processing"
                                    /\ Head(out[w]).job = held[w].job
                 THEN Current(w) ELSE @]
    /\ UNCHANGED <<vars, sessions, online, down, serverVars, req>>

\* session() returns: Recv failed, or Send did, and then the event it had taken
\* out of the buffer is gone.
SessionEnds(w) ==
    /\ online[w]
    /\ online' = [online EXCEPT ![w] = FALSE]
    /\ \/ UNCHANGED out
       \/ out[w] # <<>> /\ out' = [out EXCEPT ![w] = Tail(@)]
    /\ UNCHANGED <<vars, sessions, told, wireVars, serverVars, req>>

\* Wrong variants: a run that can be canceled only while it reads its pdf, and
\* the run in progress canceled whatever its job.
HoldsFetching(w, j) == run[w] = "running" /\ held[w].job = j /\ pc[w] = "fetch"

HoldsSomething(w, j) == run[w] = "running"

\* p.running has an entry for the job.
Holds(w, j) == run[w] = "running" /\ held[w].job = j

\* recv() gets a command and calls Processor.Cancel.  The receive goroutine of
\* a session that ended may still do so with one that came before the end.
RecvCommand(s) ==
    /\ down[s] # <<>>
    /\ down' = [down EXCEPT ![s] = Tail(@)]
    /\ IF Holds(s.worker, Head(down[s]))
       THEN CancelRunning(s.worker)
       ELSE UNCHANGED vars
    /\ UNCHANGED <<clientVars, up, serverVars, req>>

-----------------------------------------------------------------------------
(* The api's end of the stream *)

\* track(): PROCESSING makes the stream the job's; any other status ends this
\* stream's hold, and only this stream's.
Tracked(s, ev) ==
    IF ev.status = "processing" THEN [leases EXCEPT ![ev.job] = s]
    ELSE IF leases[ev.job] = s THEN [leases EXCEPT ![ev.job] = NoStream]
    ELSE leases

\* Connect reads an event: the first one registers the worker and starts its
\* sendLoop.  Broadcast does not wait and is left out.
RecvEvent(s) ==
    /\ srv[s] \in {"new", "open"}
    /\ up[s] # <<>>
    /\ up'      = [up EXCEPT ![s] = Tail(@)]
    /\ srv'     = [srv EXCEPT ![s] = "open"]
    /\ senders' = IF srv[s] = "new" THEN senders \cup {s} ELSE senders
    /\ leases'  = Tracked(s, Head(up[s]))
    /\ UNCHANGED <<vars, clientVars, down, send, req>>

\* Wrong variants: a teardown that clears by worker id, and one that returns
\* early when the worker has reconnected meanwhile.
UnregisteredById(s) ==
    [j \in Jobs |-> IF leases[j] # NoStream /\ leases[j].worker = s.worker
                    THEN NoStream ELSE leases[j]]

UnregisteredIfCurrent(s) ==
    [j \in Jobs |-> IF leases[j] = s /\ s.nr = sessions[s.worker] THEN NoStream ELSE leases[j]]

\* unregister(): the leases of this connection go, by pointer identity.
Unregistered(s) == [j \in Jobs |-> IF leases[j] = s THEN NoStream ELSE leases[j]]

\* Recv fails, or ends: Connect returns, and what it has not read is lost.
StreamEnds(s) ==
    /\ srv[s] \in {"new", "open"}
    /\ srv'    = [srv EXCEPT ![s] = "closed"]
    /\ up'     = [up EXCEPT ![s] = <<>>]
    /\ leases' = Unregistered(s)
    /\ UNCHANGED <<vars, clientVars, down, send, senders, req>>

\* sendLoop passes a command on, for nobody if the worker's end is gone.
SendCommand(s) ==
    /\ s \in senders /\ srv[s] = "open"
    /\ send[s] # <<>>
    /\ send' = [send EXCEPT ![s] = Tail(@)]
    /\ down' = [down EXCEPT ![s] = IF online[s.worker] /\ s = Current(s.worker)
                                  THEN Append(@, Head(send[s])) ELSE @]
    /\ UNCHANGED <<vars, clientVars, up, srv, senders, leases, req>>

\* sendLoop returns, because the stream's context is done or because Send fails;
\* then the command it had taken is gone.  Connect may not know yet, nor may the
\* worker, and what is queued from now on stays in the queue.
SendLoopEnds(s) ==
    /\ s \in senders
    /\ senders' = senders \ {s}
    /\ \/ UNCHANGED send
       \/ send[s] # <<>> /\ send' = [send EXCEPT ![s] = Tail(@)]
    /\ UNCHANGED <<vars, clientVars, wireVars, srv, leases, req>>

-----------------------------------------------------------------------------
(* The cancel handler *)

At(r, place) == req' = [req EXCEPT ![r].at = place]

\* lookup reads the row.
Lookup(r, j) ==
    /\ req[r].at = "idle"
    /\ jobs[j].status # "absent"
    /\ req' = [req EXCEPT ![r] = [at  |-> CASE jobs[j].status = "queued"     -> "try"
                                            [] jobs[j].status = "processing" -> "route"
                                            [] OTHER                         -> "conflict",
                                  job |-> j, stream |-> NoStream]]
    /\ UNCHANGED <<vars, clientVars, wireVars, serverVars>>

\* Wrong variant: the UPDATE's row count is not looked at.
TryRowUnchecked(r) ==
    /\ req[r].at = "try"
    /\ \/ CancelQueued(req[r].job)
       \/ jobs[req[r].job].status # "queued" /\ UNCHANGED vars
    /\ At(r, "failed")
    /\ UNCHANGED <<clientVars, wireVars, serverVars>>

\* CancelQueued finds the row still queued and fails it, or finds it claimed
\* and the handler goes on to route.
TryRow(r) ==
    /\ req[r].at = "try"
    /\ \/ CancelQueued(req[r].job) /\ At(r, "failed")
       \/ /\ jobs[req[r].job].status # "queued"
          /\ At(r, "route")
          /\ UNCHANGED vars
    /\ UNCHANGED <<clientVars, wireVars, serverVars>>

\* CancelQueued returns an error, or the api dies in it; the UPDATE may have
\* been committed.
TryRowFails(r) ==
    /\ req[r].at = "try"
    /\ CancelQueued(req[r].job) \/ UNCHANGED vars
    /\ At(r, "error")
    /\ UNCHANGED <<clientVars, wireVars, serverVars>>

\* Server.Cancel reads the table under the mutex ...
ReadLease(r) ==
    /\ req[r].at = "route"
    /\ req' = [req EXCEPT ![r].at = IF leases[req[r].job] = NoStream THEN "conflict" ELSE "send",
                          ![r].stream = leases[req[r].job]]
    /\ UNCHANGED <<vars, clientVars, wireVars, serverVars>>

\* ... and queues the command after it, on a stream that may be gone by then.
QueueCommand(r) ==
    /\ req[r].at = "send"
    /\ LET s == req[r].stream IN
       IF Len(send[s]) < CommandBuffer
       THEN /\ send' = [send EXCEPT ![s] = Append(@, req[r].job)]
            /\ At(r, "canceling")
       ELSE UNCHANGED send /\ At(r, "conflict")
    /\ UNCHANGED <<vars, clientVars, wireVars, srv, senders, leases>>

\* The api is killed and restarted: streams, table, queues and handlers go.
ApiCrash ==
    /\ srv'     = [s \in Stream |-> IF srv[s] = "none" THEN "none" ELSE "closed"]
    /\ up'      = [s \in Stream |-> <<>>]
    /\ send'    = [s \in Stream |-> <<>>]
    /\ senders' = {}
    /\ leases'  = [j \in Jobs |-> NoStream]
    /\ req'     = [r \in Requests |-> IF req[r].at \in {"try", "route", "send"}
                                      THEN [req[r] EXCEPT !.at = "dead"] ELSE req[r]]
    /\ UNCHANGED <<vars, clientVars, down>>

-----------------------------------------------------------------------------
(* Specification *)

RoutingNext ==
    \/ QueueStep
    \/ ApiCrash
    \/ \E w \in Workers :
          \/ ReportBegin(w) \/ ReportOutcome(w) \/ CrashWorker(w)
          \/ Connect(w) \/ SendEvent(w) \/ SessionEnds(w)
    \/ \E s \in Stream :
          RecvEvent(s) \/ StreamEnds(s) \/ SendCommand(s) \/ SendLoopEnds(s) \/ RecvCommand(s)
    \/ \E r \in Requests :
          \/ \E j \in Jobs : Lookup(r, j)
          \/ TryRow(r) \/ TryRowFails(r) \/ ReadLease(r) \/ QueueCommand(r)

RoutingSpec == RoutingInit /\ [][RoutingNext]_routingVars

-----------------------------------------------------------------------------
(* Properties *)

\* The table never leads to a stream that is gone: no teardown, restart or late
\* event leaves an entry behind.
LeasesOnOpenStreams ==
    \A j \in Jobs : leases[j] # NoStream => srv[leases[j]] = "open"

Asked == {req[r].job : r \in {q \in Requests : req[q].at # "idle"}}

\* A run is canceled, and a row carries the cancel's error text, only for a job
\* a user asked to cancel: a command that arrives late, when its worker is busy
\* with another job, does nothing.
OnlyAskedIsCanceled ==
    /\ \A w \in Workers : run[w] = "canceled" => held[w].job \in Asked
    /\ \A j \in Jobs : jobs[j].error = "canceled" => j \in Asked

\* The answer 202 "failed" is true and stays true: whoever claims the row
\* between the lookup and the UPDATE, the job does not run to an end after it.
FailedAnswerHolds ==
    \A r \in Requests : req[r].at = "failed" => jobs[req[r].job].status = "failed"

Agrees(ev) == ev.status \in {"done", "failed"} => jobs[ev.job].status = ev.status

\* A "done" or "failed" on its way to the browsers says what the table says:
\* events are dropped, late, or from a worker that has lost its lease, but
\* none announces an outcome that was not recorded.
VerdictsAreRecorded ==
    /\ \A w \in Workers : \A i \in 1..Len(out[w]) : Agrees(out[w][i])
    /\ \A s \in Stream : \A i \in 1..Len(up[s]) : Agrees(up[s][i])

Silent(w) == out[w] = <<>> /\ up[Current(w)] = <<>>

\* In its first attempt a job can be canceled: its PROCESSING event went up on
\* the worker's current stream, everything the worker sent there was read, the
\* stream is up, and so the table leads to it -- also while an older stream of
\* that worker is being torn down.
FirstRunIsRouted ==
    \A w \in Workers :
        /\ pc[w] \in {"fetch", "put"}
        /\ jobs[held[w].job].attempt = 1
        /\ online[w] /\ told[w] = Current(w) /\ srv[Current(w)] = "open"
        /\ Silent(w)
        => leases[held[w].job] = Current(w)

IsIn(q, j) == \E i \in 1..Len(q) : q[i] = j

\* The other half: in a job's first attempt a 202 "canceling" is kept.  As long
\* as the stream it was queued for is the worker's and is up, with its sendLoop,
\* the command is in the stream's queue or on the wire, until it has canceled the
\* run: it is never taken for another job's, never spent before the run can be
\* canceled, and lost only together with the loop that would send the next one.
FirstCancelArrives ==
    \A r \in Requests, w \in Workers :
        /\ pc[w] \in {"fetch", "put"} /\ run[w] = "running"
        /\ jobs[held[w].job].attempt = 1
        /\ req[r].at = "canceling" /\ req[r].job = held[w].job
        /\ online[w] /\ req[r].stream = Current(w)
        /\ srv[Current(w)] = "open" /\ Current(w) \in senders
        => IsIn(send[Current(w)], held[w].job) \/ IsIn(down[Current(w)], held[w].job)

\* server.go: registering with the first event is harmless, since PROCESSING
\* "registers the worker before any cancel for that job could be issued": when
\* a handler has come to route at a job some worker runs, and no stream was
\* ever lost, the table has an entry for it.
RegisteredBeforeCancel ==
    \A r \in Requests, w \in Workers :
        /\ req[r].at = "route"
        /\ held[w].job = req[r].job /\ Fenced(w) /\ online[w]
        /\ \A s \in Stream : srv[s] # "closed"
        => leases[req[r].job] # NoStream

\* README: a cancel "must reach the one worker holding that job's lease".  The
\* holder has reported PROCESSING, is connected, its older streams are torn
\* down, and nothing is left to be sent or read: the table leads to it.
HolderIsRouted ==
    \A w \in Workers :
        /\ pc[w] \in {"fetch", "put"} /\ Fenced(w)
        /\ online[w] /\ told[w] # NoStream
        /\ out[w] = <<>> /\ \A s \in Stream : up[s] = <<>>
        /\ \A s \in Stream : s.worker = w => (srv[s] = "closed" <=> s # Current(w))
        => leases[held[w].job] = Current(w)

-----------------------------------------------------------------------------
(* Inductive invariants, on top of JobQueue's IInv *)

\* Streams are opened in order, and only one that was opened is used.
SessionInv ==
    /\ \A w \in Workers : online[w] => sessions[w] # 0
    /\ \A s \in Stream : s.nr > sessions[s.worker] => srv[s] = "none"

\* A handler that has started knows its job, and one about to send its stream.
HandlerInv ==
    \A r \in Requests : /\ req[r].at # "idle" => req[r].job \in Jobs
                        /\ req[r].at = "send" => req[r].stream \in Stream

\* With these the table leads to open streams only.
RoutingInv == PathTypeOK /\ SessionInv /\ HandlerInv /\ LeasesOnOpenStreams

\* A worker about to announce has recorded what it will say, and whatever was
\* announced is still so.
VerdictInv ==
    /\ \A w \in Workers : pc[w] = "notify" => Agrees(OutcomeEvent(w))
    /\ VerdictsAreRecorded

\* Whatever carries a cancel on its way -- a handler, a queue, a stream, a run,
\* an outcome -- carries it for a job that was asked about.
AskedInv ==
    /\ \A s \in Stream : \A i \in 1..Len(send[s]) : send[s][i] \in Asked
    /\ \A s \in Stream : \A i \in 1..Len(down[s]) : down[s][i] \in Asked
    /\ \A w \in Workers : pc[w] \in {"down", "drain", "claimed"} =>
                             run[w] = "none" /\ outcome[w] = "none"
    /\ \A w \in Workers : outcome[w] = "canceled" => held[w].job \in Asked
    /\ OnlyAskedIsCanceled

=============================================================================
