------------------------ MODULE CancelRoutingProofs ------------------------
(***************************************************************************)
(* Proofs about CancelRouting, for any number of jobs, workers, requests   *)
(* and sessions and any buffer sizes.  Every step is a step of JobQueue or *)
(* leaves its variables alone, so what JobQueueProofs proves holds here;   *)
(* the invariants added on top are RoutingInv (streams, handlers and the   *)
(* lease table), VerdictInv (the events) and AskedInv (the cancels).       *)
(***************************************************************************)
EXTENDS CancelRouting, JobQueueProofs

-----------------------------------------------------------------------------
(* Types and the lease table *)

LEMMA RoutingInitInv == RoutingInit => RoutingInv
<1> SUFFICES ASSUME RoutingInit PROVE RoutingInv
  OBVIOUS
<1>1. PathTypeOK
  BY RoutingAssumption DEF RoutingInit, PathTypeOK, Handler
<1>2. SessionInv /\ HandlerInv /\ LeasesOnOpenStreams
  BY RoutingAssumption DEF RoutingInit, SessionInv, HandlerInv, LeasesOnOpenStreams
<1> QED
  BY <1>1, <1>2 DEF RoutingInv

LEMMA CurrentIsStream ==
    ASSUME RoutingInv, NEW w \in Workers, online[w]
    PROVE  Current(w) \in Stream
<1>1. sessions[w] \in 1..MaxSessions
  BY RoutingAssumption DEF RoutingInv, PathTypeOK, SessionInv
<1> QED
  BY <1>1 DEF Current, Stream

\* Client.Send keeps the buffer a sequence of events.
LEMMA EmitTyped ==
    ASSUME RoutingInv, NEW w \in Workers, NEW ev \in Event, Emit(w, ev)
    PROVE  out' \in [Workers -> Seq(Event)]
<1>1. out[w] \in Seq(Event)
  BY DEF RoutingInv, PathTypeOK
<1>2. Append(out[w], ev) \in Seq(Event)
  BY <1>1
<1>3. out[w] # <<>> => Append(Tail(out[w]), ev) \in Seq(Event)
  BY <1>1
<1> QED
  BY <1>2, <1>3 DEF Emit, RoutingInv, PathTypeOK

\* The steps of the worker.
LEMMA WorkerPathSteps ==
    ASSUME IInv, RoutingInv, NEW w \in Workers,
           ReportBegin(w) \/ ReportOutcome(w) \/ CrashWorker(w)
    PROVE  RoutingInv'
<1>1. UNCHANGED <<sessions, up, serverVars, req>>
  BY DEF ReportBegin, ReportOutcome, CrashWorker, wireVars
<1>2. out' \in [Workers -> Seq(Event)]
  <2>1. CASE ReportBegin(w)
    <3>1. held[w].job \in Jobs
      BY <2>1, RunningWorker DEF ReportBegin, Begin, Busy
    <3>2. [job |-> held[w].job, status |-> "processing"] \in Event
      BY <3>1 DEF Event
    <3> QED
      BY <2>1, <3>2, EmitTyped DEF ReportBegin
  <2>2. CASE ReportOutcome(w)
    <3>1. held[w].job \in Jobs
      BY <2>2, RunningWorker DEF ReportOutcome, Notify, Busy
    <3>2. OutcomeEvent(w) \in Event
      BY <3>1 DEF Event, OutcomeEvent
    <3> QED
      BY <2>2, <3>2, EmitTyped DEF ReportOutcome
  <2>3. CASE CrashWorker(w)
    BY <2>3 DEF CrashWorker, RoutingInv, PathTypeOK
  <2> QED
    BY <2>1, <2>2, <2>3
<1>3. /\ online' \in [Workers -> BOOLEAN]
      /\ \A v \in Workers : online'[v] => online[v]
  <2>1. CASE UNCHANGED online
    BY <2>1 DEF RoutingInv, PathTypeOK
  <2>2. CASE online' = [online EXCEPT ![w] = FALSE]
    BY <2>2 DEF RoutingInv, PathTypeOK
  <2> QED
    BY <2>1, <2>2 DEF ReportBegin, ReportOutcome, CrashWorker
<1>4. told' \in [Workers -> Stream \cup {NoStream}]
  BY DEF ReportBegin, ReportOutcome, CrashWorker, RoutingInv, PathTypeOK
<1>5. down' \in [Stream -> Seq(Jobs)]
  <2>1. CASE UNCHANGED down
    BY <2>1 DEF RoutingInv, PathTypeOK
  <2>2. CASE down' = [s \in Stream |-> IF s.worker = w THEN <<>> ELSE down[s]]
    <3>1. \A s \in Stream : down[s] \in Seq(Jobs) /\ <<>> \in Seq(Jobs)
      BY DEF RoutingInv, PathTypeOK
    <3> QED
      BY <2>2, <3>1
  <2> QED
    BY <2>1, <2>2 DEF ReportBegin, ReportOutcome, CrashWorker, wireVars
<1>6. PathTypeOK'
  BY <1>1, <1>2, <1>3, <1>4, <1>5 DEF RoutingInv, PathTypeOK, serverVars
<1>7. SessionInv' /\ HandlerInv' /\ LeasesOnOpenStreams'
  BY <1>1, <1>3 DEF RoutingInv, SessionInv, HandlerInv, LeasesOnOpenStreams, serverVars
<1> QED
  BY <1>6, <1>7 DEF RoutingInv

\* The worker's end of a stream.
LEMMA WorkerStreamSteps ==
    ASSUME RoutingInv, NEW w \in Workers,
           Connect(w) \/ SendEvent(w) \/ SessionEnds(w)
    PROVE  RoutingInv'
<1>1. CASE Connect(w)
  <2> DEFINE s == [worker |-> w, nr |-> sessions[w] + 1]
  <2>1. sessions[w] \in 0..MaxSessions /\ sessions[w] < MaxSessions
    BY <1>1 DEF Connect, RoutingInv, PathTypeOK
  <2>2. s \in Stream /\ s.worker = w /\ s.nr = sessions[w] + 1 /\ s.nr > sessions[w]
    BY <2>1, RoutingAssumption DEF Stream
  <2>3. srv[s] = "none"
    BY <2>2 DEF RoutingInv, SessionInv
  <2>4. /\ sessions' = [sessions EXCEPT ![w] = sessions[w] + 1]
        /\ online' = [online EXCEPT ![w] = TRUE]
        /\ srv' = [srv EXCEPT ![s] = "new"]
        /\ UNCHANGED <<out, told, up, down, send, senders, leases, req>>
    BY <1>1 DEF Connect, wireVars
  <2> HIDE DEF s
  <2>5. /\ sessions' \in [Workers -> 0..MaxSessions]
        /\ srv' \in [Stream -> {"none", "new", "open", "closed"}]
    <3>1. sessions[w] + 1 \in 0..MaxSessions
      BY <2>1, RoutingAssumption
    <3>2. sessions' \in [Workers -> 0..MaxSessions]
      BY <2>4, <3>1 DEF RoutingInv, PathTypeOK
    <3>3. srv' \in [Stream -> {"none", "new", "open", "closed"}]
      BY <2>4 DEF RoutingInv, PathTypeOK
    <3> QED
      BY <3>2, <3>3
  <2>6. online' \in [Workers -> BOOLEAN]
    BY <2>4 DEF RoutingInv, PathTypeOK
  <2>7. PathTypeOK'
    BY <2>4, <2>5, <2>6 DEF RoutingInv, PathTypeOK
  <2>8. \A v \in Workers : online'[v] => sessions'[v] # 0
    <3> SUFFICES ASSUME NEW v \in Workers, online'[v] PROVE sessions'[v] # 0
      OBVIOUS
    <3>1. v # w => online[v]
      BY <2>4 DEF RoutingInv, PathTypeOK
    <3> QED
      BY <3>1, <2>1, <2>4 DEF RoutingInv, PathTypeOK, SessionInv
  <2>9. \A t \in Stream : t.nr > sessions'[t.worker] => srv'[t] = "none"
    <3> SUFFICES ASSUME NEW t \in Stream, t.nr > sessions'[t.worker] PROVE srv'[t] = "none"
      OBVIOUS
    <3>1. t.worker \in Workers /\ t.nr \in Nat
      BY DEF Stream
    <3>2. sessions[t.worker] \in Nat /\ sessions'[t.worker] >= sessions[t.worker]
      BY <3>1, <2>1, <2>4 DEF RoutingInv, PathTypeOK
    <3>3. srv[t] = "none"
      BY <3>1, <3>2, <2>5 DEF RoutingInv, PathTypeOK, SessionInv
    <3>4. t # s
      BY <3>1, <2>1, <2>2, <2>4 DEF RoutingInv, PathTypeOK
    <3> QED
      BY <3>3, <3>4, <2>4 DEF RoutingInv, PathTypeOK
  <2>10. HandlerInv' /\ LeasesOnOpenStreams'
    BY <2>2, <2>3, <2>4 DEF RoutingInv, PathTypeOK, HandlerInv, LeasesOnOpenStreams
  <2> QED
    BY <2>7, <2>8, <2>9, <2>10 DEF RoutingInv, SessionInv
<1>2. CASE SendEvent(w)
  <2>1. Current(w) \in Stream
    BY <1>2, CurrentIsStream DEF SendEvent
  <2>2. out[w] \in Seq(Event) /\ out[w] # <<>>
    BY <1>2 DEF SendEvent, RoutingInv, PathTypeOK
  <2>3. Tail(out[w]) \in Seq(Event) /\ Head(out[w]) \in Event
    BY <2>2
  <2>4. out' \in [Workers -> Seq(Event)]
    BY <1>2, <2>3 DEF SendEvent, RoutingInv, PathTypeOK
  <2>5. up' \in [Stream -> Seq(Event)]
    <3>1. up[Current(w)] \in Seq(Event)
      BY <2>1 DEF RoutingInv, PathTypeOK
    <3>2. Append(up[Current(w)], Head(out[w])) \in Seq(Event)
      BY <2>3, <3>1
    <3> QED
      BY <1>2, <2>1, <3>1, <3>2 DEF SendEvent, RoutingInv, PathTypeOK
  <2>6. told' \in [Workers -> Stream \cup {NoStream}]
    BY <1>2, <2>1 DEF SendEvent, RoutingInv, PathTypeOK
  <2>7. UNCHANGED <<sessions, online, down, srv, send, senders, leases, req>>
    BY <1>2 DEF SendEvent, serverVars
  <2> QED
    BY <2>4, <2>5, <2>6, <2>7
       DEF RoutingInv, PathTypeOK, SessionInv, HandlerInv, LeasesOnOpenStreams
<1>3. CASE SessionEnds(w)
  <2>1. out' \in [Workers -> Seq(Event)]
    <3>1. CASE UNCHANGED out
      BY <3>1 DEF RoutingInv, PathTypeOK
    <3>2. CASE out[w] # <<>> /\ out' = [out EXCEPT ![w] = Tail(@)]
      BY <3>2 DEF RoutingInv, PathTypeOK
    <3> QED
      BY <1>3, <3>1, <3>2 DEF SessionEnds
  <2>2. online' = [online EXCEPT ![w] = FALSE]
    BY <1>3 DEF SessionEnds
  <2>3. /\ online' \in [Workers -> BOOLEAN]
        /\ \A v \in Workers : online'[v] => online[v]
    BY <2>2 DEF RoutingInv, PathTypeOK
  <2>4. UNCHANGED <<sessions, told, up, down, srv, send, senders, leases, req>>
    BY <1>3 DEF SessionEnds, wireVars, serverVars
  <2> QED
    BY <2>1, <2>3, <2>4
       DEF RoutingInv, PathTypeOK, SessionInv, HandlerInv, LeasesOnOpenStreams
<1> QED
  BY <1>1, <1>2, <1>3

\* The api's end of a stream, and commands on their way.
LEMMA ServerSteps ==
    ASSUME RoutingInv, NEW s \in Stream,
           RecvEvent(s) \/ StreamEnds(s) \/ SendCommand(s) \/ SendLoopEnds(s) \/ RecvCommand(s)
    PROVE  RoutingInv'
<1>1. CASE RecvEvent(s)
  <2>1. up[s] \in Seq(Event) /\ up[s] # <<>>
    BY <1>1 DEF RecvEvent, RoutingInv, PathTypeOK
  <2> DEFINE ev == Head(up[s])
  <2>2. Tail(up[s]) \in Seq(Event) /\ ev \in Event
    BY <2>1
  <2>3. ev.job \in Jobs
    BY <2>2 DEF Event
  <2>4. /\ up' = [up EXCEPT ![s] = Tail(up[s])] /\ srv' = [srv EXCEPT ![s] = "open"]
        /\ leases' = Tracked(s, ev) /\ srv[s] \in {"new", "open"}
        /\ senders' \in SUBSET Stream
        /\ UNCHANGED <<out, sessions, online, told, down, send, req>>
    BY <1>1 DEF RecvEvent, clientVars, RoutingInv, PathTypeOK
  <2> HIDE DEF ev
  <2>5. /\ up' \in [Stream -> Seq(Event)]
        /\ srv' \in [Stream -> {"none", "new", "open", "closed"}]
    BY <2>2, <2>4 DEF RoutingInv, PathTypeOK
  <2>6. /\ leases' \in [Jobs -> Stream \cup {NoStream}]
        /\ \A j \in Jobs : leases'[j] \in {leases[j], s, NoStream}
    BY <2>3, <2>4 DEF Tracked, RoutingInv, PathTypeOK
  <2>7. PathTypeOK'
    BY <2>4, <2>5, <2>6 DEF RoutingInv, PathTypeOK
  <2>8. srv'[s] = "open" /\ \A t \in Stream : t # s => srv'[t] = srv[t]
    BY <2>4 DEF RoutingInv, PathTypeOK
  <2>9. LeasesOnOpenStreams'
    BY <2>6, <2>8 DEF RoutingInv, PathTypeOK, LeasesOnOpenStreams
  <2>10. SessionInv' /\ HandlerInv'
    BY <2>4, <2>8 DEF RoutingInv, SessionInv, HandlerInv
  <2> QED
    BY <2>7, <2>9, <2>10 DEF RoutingInv
<1>2. CASE StreamEnds(s)
  <2>1. /\ up' = [up EXCEPT ![s] = <<>>] /\ srv' = [srv EXCEPT ![s] = "closed"]
        /\ leases' = Unregistered(s) /\ srv[s] \in {"new", "open"}
        /\ UNCHANGED <<out, sessions, online, told, down, send, senders, req>>
    BY <1>2 DEF StreamEnds, clientVars
  <2>2. /\ up' \in [Stream -> Seq(Event)]
        /\ srv' \in [Stream -> {"none", "new", "open", "closed"}]
    BY <2>1 DEF RoutingInv, PathTypeOK
  <2>3. /\ leases' \in [Jobs -> Stream \cup {NoStream}]
        /\ \A j \in Jobs : leases'[j] # NoStream => leases'[j] = leases[j] /\ leases[j] # s
    BY <2>1 DEF Unregistered, RoutingInv, PathTypeOK
  <2>4. PathTypeOK'
    BY <2>1, <2>2, <2>3 DEF RoutingInv, PathTypeOK
  <2>5. srv'[s] = "closed" /\ \A t \in Stream : t # s => srv'[t] = srv[t]
    BY <2>1 DEF RoutingInv, PathTypeOK
  <2>6. LeasesOnOpenStreams'
    BY <2>3, <2>5 DEF RoutingInv, PathTypeOK, LeasesOnOpenStreams
  <2>7. SessionInv' /\ HandlerInv'
    BY <2>1, <2>5 DEF RoutingInv, SessionInv, HandlerInv
  <2> QED
    BY <2>4, <2>6, <2>7 DEF RoutingInv
<1>3. CASE SendCommand(s)
  <2>1. send[s] \in Seq(Jobs) /\ send[s] # <<>> /\ down[s] \in Seq(Jobs)
    BY <1>3 DEF SendCommand, RoutingInv, PathTypeOK
  <2>2. Tail(send[s]) \in Seq(Jobs) /\ Append(down[s], Head(send[s])) \in Seq(Jobs)
    BY <2>1
  <2>3. send' \in [Stream -> Seq(Jobs)] /\ down' \in [Stream -> Seq(Jobs)]
    BY <1>3, <2>2 DEF SendCommand, RoutingInv, PathTypeOK
  <2>4. UNCHANGED <<out, sessions, online, told, up, srv, senders, leases, req>>
    BY <1>3 DEF SendCommand, clientVars
  <2> QED
    BY <2>3, <2>4 DEF RoutingInv, PathTypeOK, SessionInv, HandlerInv, LeasesOnOpenStreams
<1>4. CASE RecvCommand(s)
  <2>1. down' \in [Stream -> Seq(Jobs)]
    <3>1. down[s] \in Seq(Jobs) /\ down[s] # <<>>
      BY <1>4 DEF RecvCommand, RoutingInv, PathTypeOK
    <3>2. Tail(down[s]) \in Seq(Jobs)
      BY <3>1
    <3> QED
      BY <1>4, <3>2 DEF RecvCommand, RoutingInv, PathTypeOK
  <2>2. UNCHANGED <<out, sessions, online, told, up, srv, send, senders, leases, req>>
    BY <1>4 DEF RecvCommand, clientVars, serverVars
  <2> QED
    BY <2>1, <2>2 DEF RoutingInv, PathTypeOK, SessionInv, HandlerInv, LeasesOnOpenStreams
<1>5. CASE SendLoopEnds(s)
  <2>1. send \in [Stream -> Seq(Jobs)] /\ senders \in SUBSET Stream
    BY DEF RoutingInv, PathTypeOK
  <2>2. send[s] # <<>> => Tail(send[s]) \in Seq(Jobs)
    BY <2>1
  <2>3. send' \in [Stream -> Seq(Jobs)] /\ senders' \in SUBSET Stream
    BY <1>5, <2>1, <2>2 DEF SendLoopEnds
  <2>4. UNCHANGED <<out, sessions, online, told, up, down, srv, leases, req>>
    BY <1>5 DEF SendLoopEnds, clientVars, wireVars
  <2> QED
    BY <2>3, <2>4 DEF RoutingInv, PathTypeOK, SessionInv, HandlerInv, LeasesOnOpenStreams
<1> QED
  BY <1>1, <1>2, <1>3, <1>4, <1>5

\* The steps of one cancel handler.
LEMMA HandlerSteps ==
    ASSUME RoutingInv, NEW r \in Requests,
           \/ \E j \in Jobs : Lookup(r, j)
           \/ TryRow(r) \/ TryRowFails(r) \/ ReadLease(r) \/ QueueCommand(r)
    PROVE  RoutingInv'
<1>1. UNCHANGED <<out, sessions, online, told, up, down, srv, senders, leases>>
  BY DEF Lookup, TryRow, TryRowFails, ReadLease, QueueCommand, clientVars, wireVars, serverVars
<1>2. send' \in [Stream -> Seq(Jobs)]
  <2>1. CASE UNCHANGED send
    BY <2>1 DEF RoutingInv, PathTypeOK
  <2>2. CASE QueueCommand(r)
    <3>1. req[r].stream \in Stream /\ req[r].job \in Jobs
      BY <2>2 DEF QueueCommand, RoutingInv, HandlerInv
    <3>2. Append(send[req[r].stream], req[r].job) \in Seq(Jobs)
      BY <3>1 DEF RoutingInv, PathTypeOK
    <3> QED
      BY <2>2, <3>1, <3>2 DEF QueueCommand, RoutingInv, PathTypeOK
  <2> QED
    BY <2>1, <2>2 DEF Lookup, TryRow, TryRowFails, ReadLease, serverVars
<1>3. PICK h \in Handler : /\ req' = [req EXCEPT ![r] = h]
                           /\ h.job \in Jobs
                           /\ h.at = "send" => h.stream \in Stream
  <2>1. ASSUME NEW j \in Jobs, Lookup(r, j)
        PROVE  \E h \in Handler : /\ req' = [req EXCEPT ![r] = h] /\ h.job \in Jobs
                                  /\ h.at = "send" => h.stream \in Stream
    <3> DEFINE a == CASE jobs[j].status = "queued" -> "try"
                      [] jobs[j].status = "processing" -> "route"
                      [] OTHER -> "conflict"
               h == [at |-> a, job |-> j, stream |-> NoStream]
    <3>1. a \in {"try", "route", "conflict"}
      OBVIOUS
    <3>2. h \in Handler /\ h.job \in Jobs /\ h.at # "send"
      BY <3>1 DEF Handler, Answer
    <3>3. req' = [req EXCEPT ![r] = h]
      BY <2>1 DEF Lookup
    <3> QED
      BY <3>2, <3>3
  <2>2. req[r] \in Handler
    BY DEF RoutingInv, PathTypeOK
  <2>3. ASSUME req[r].at # "idle", NEW a \in {"failed", "route", "error", "canceling", "conflict"},
               At(r, a)
        PROVE  \E h \in Handler : /\ req' = [req EXCEPT ![r] = h] /\ h.job \in Jobs
                                  /\ h.at = "send" => h.stream \in Stream
    <3> DEFINE h == [req[r] EXCEPT !.at = a]
    <3>1. h \in Handler /\ h.job \in Jobs /\ h.at # "send"
      BY <2>2, <2>3 DEF Handler, Answer, RoutingInv, HandlerInv
    <3>2. req' = [req EXCEPT ![r] = h]
      BY <2>3 DEF At, RoutingInv, PathTypeOK
    <3> QED
      BY <3>1, <3>2
  <2>4. ASSUME ReadLease(r)
        PROVE  \E h \in Handler : /\ req' = [req EXCEPT ![r] = h] /\ h.job \in Jobs
                                  /\ h.at = "send" => h.stream \in Stream
    <3> DEFINE a == IF leases[req[r].job] = NoStream THEN "conflict" ELSE "send"
               h == [req[r] EXCEPT !.at = a, !.stream = leases[req[r].job]]
    <3>1. req[r].job \in Jobs
      BY <2>4 DEF ReadLease, RoutingInv, HandlerInv
    <3>2. leases[req[r].job] \in Stream \cup {NoStream}
      BY <3>1 DEF RoutingInv, PathTypeOK
    <3>3. h \in Handler /\ h.job \in Jobs /\ (h.at = "send" => h.stream \in Stream)
      BY <2>2, <3>1, <3>2 DEF Handler, Answer
    <3>4. req' = [req EXCEPT ![r] = h]
      BY <2>4 DEF ReadLease, RoutingInv, PathTypeOK
    <3> QED
      BY <3>3, <3>4
  <2>5. CASE TryRow(r) \/ TryRowFails(r) \/ QueueCommand(r)
    <3>1. req[r].at # "idle"
      BY <2>5 DEF TryRow, TryRowFails, QueueCommand
    <3>2. \E a \in {"failed", "route", "error", "canceling", "conflict"} : At(r, a)
      BY <2>5 DEF TryRow, TryRowFails, QueueCommand
    <3> QED
      BY <2>3, <3>1, <3>2
  <2> QED
    BY <2>1, <2>4, <2>5
<1>4. req' \in [Requests -> Handler]
  BY <1>3 DEF RoutingInv, PathTypeOK
<1>5. HandlerInv'
  BY <1>3 DEF RoutingInv, PathTypeOK, HandlerInv
<1> QED
  BY <1>1, <1>2, <1>4, <1>5 DEF RoutingInv, PathTypeOK, SessionInv, LeasesOnOpenStreams

LEMMA ApiCrashStep == ASSUME RoutingInv, ApiCrash PROVE RoutingInv'
<1>1. UNCHANGED <<out, sessions, online, told, down>>
  BY DEF ApiCrash, clientVars
<1>2. /\ srv' \in [Stream -> {"none", "new", "open", "closed"}]
      /\ \A s \in Stream : srv[s] = "none" => srv'[s] = "none"
  BY DEF ApiCrash, RoutingInv, PathTypeOK
<1>3. /\ up' \in [Stream -> Seq(Event)]
      /\ send' \in [Stream -> Seq(Jobs)] /\ senders' \in SUBSET Stream
      /\ leases' \in [Jobs -> Stream \cup {NoStream}]
      /\ \A j \in Jobs : leases'[j] = NoStream
  BY DEF ApiCrash
<1>4. ASSUME NEW r \in Requests
      PROVE  /\ req'[r] \in Handler
             /\ req'[r].at # "idle" => req'[r].job \in Jobs
             /\ req'[r].at = "send" => req'[r].stream \in Stream
  <2>1. /\ req[r] \in Handler
        /\ req[r].at # "idle" => req[r].job \in Jobs
        /\ req[r].at = "send" => req[r].stream \in Stream
    BY DEF RoutingInv, PathTypeOK, HandlerInv
  <2>2. CASE req[r].at \in {"try", "route", "send"}
    BY <2>1, <2>2 DEF ApiCrash, Handler
  <2>3. CASE req[r].at \notin {"try", "route", "send"}
    BY <2>1, <2>3 DEF ApiCrash
  <2> QED
    BY <2>2, <2>3
<1>5. req' \in [Requests -> Handler]
  <2>1. req' = [r \in Requests |-> req'[r]]
    BY DEF ApiCrash
  <2> QED
    BY <1>4, <2>1
<1>6. PathTypeOK'
  BY <1>1, <1>2, <1>3, <1>5 DEF RoutingInv, PathTypeOK
<1>7. SessionInv' /\ HandlerInv' /\ LeasesOnOpenStreams'
  BY <1>1, <1>2, <1>3, <1>4 DEF RoutingInv, SessionInv, HandlerInv, LeasesOnOpenStreams
<1> QED
  BY <1>6, <1>7 DEF RoutingInv

LEMMA RoutingNextInv ==
    ASSUME IInv, RoutingInv, [RoutingNext]_routingVars PROVE RoutingInv'
<1>1. CASE QueueStep \/ UNCHANGED routingVars
  BY <1>1 DEF QueueStep, routingVars, clientVars, wireVars, serverVars,
              RoutingInv, PathTypeOK, SessionInv, HandlerInv, LeasesOnOpenStreams
<1>2. CASE ApiCrash
  BY <1>2, ApiCrashStep
<1>3. CASE \E w \in Workers : ReportBegin(w) \/ ReportOutcome(w) \/ CrashWorker(w)
  BY <1>3, WorkerPathSteps
<1>4. CASE \E w \in Workers : Connect(w) \/ SendEvent(w) \/ SessionEnds(w)
  BY <1>4, WorkerStreamSteps
<1>5. CASE \E s \in Stream : \/ RecvEvent(s) \/ StreamEnds(s)
                             \/ SendCommand(s) \/ SendLoopEnds(s) \/ RecvCommand(s)
  BY <1>5, ServerSteps
<1>6. CASE \E r \in Requests : \/ \E j \in Jobs : Lookup(r, j)
                               \/ TryRow(r) \/ TryRowFails(r) \/ ReadLease(r) \/ QueueCommand(r)
  BY <1>6, HandlerSteps
<1> QED
  BY <1>1, <1>2, <1>3, <1>4, <1>5, <1>6 DEF RoutingNext

-----------------------------------------------------------------------------
(* The queue underneath *)

LEMMA RoutingStepIsQueueStep ==
    ASSUME RoutingInv, [RoutingNext]_routingVars PROVE [Next]_vars
<1>1. CASE QueueStep
  BY <1>1 DEF QueueStep, Next, Work
<1>2. CASE ApiCrash
  BY <1>2 DEF ApiCrash
<1>3. ASSUME NEW w \in Workers, ReportBegin(w) \/ ReportOutcome(w) \/ CrashWorker(w)
      PROVE  Next
  BY <1>3 DEF ReportBegin, ReportOutcome, CrashWorker, Next, Work
<1>4. ASSUME NEW w \in Workers, Connect(w) \/ SendEvent(w) \/ SessionEnds(w)
      PROVE  UNCHANGED vars
  BY <1>4 DEF Connect, SendEvent, SessionEnds
<1>5. ASSUME NEW s \in Stream, RecvEvent(s) \/ StreamEnds(s) \/ SendCommand(s) \/ SendLoopEnds(s)
      PROVE  UNCHANGED vars
  BY <1>5 DEF RecvEvent, StreamEnds, SendCommand, SendLoopEnds
<1>6. ASSUME NEW s \in Stream, RecvCommand(s)
      PROVE  Next \/ UNCHANGED vars
  <2>1. s.worker \in Workers
    BY DEF Stream
  <2> QED
    BY <1>6, <2>1 DEF RecvCommand, Next
<1>7. ASSUME NEW r \in Requests, NEW j \in Jobs, Lookup(r, j)
      PROVE  UNCHANGED vars
  BY <1>7 DEF Lookup
<1>8. ASSUME NEW r \in Requests, ReadLease(r) \/ QueueCommand(r)
      PROVE  UNCHANGED vars
  BY <1>8 DEF ReadLease, QueueCommand
<1>9. ASSUME NEW r \in Requests, TryRow(r) \/ TryRowFails(r)
      PROVE  Next \/ UNCHANGED vars
  <2>1. req[r].job \in Jobs
    BY <1>9 DEF TryRow, TryRowFails, RoutingInv, HandlerInv
  <2> QED
    BY <1>9, <2>1 DEF TryRow, TryRowFails, Next
<1>10. CASE UNCHANGED routingVars
  BY <1>10 DEF routingVars
<1> QED
  BY <1>1, <1>2, <1>3, <1>4, <1>5, <1>6, <1>7, <1>8, <1>9, <1>10 DEF RoutingNext

\* In every reachable state the queue's invariant holds, and the streams, the
\* handlers and the lease table agree.
THEOREM RoutingInvariant == RoutingSpec => [](IInv /\ RoutingInv)
<1>1. RoutingInit => IInv /\ RoutingInv
  BY InitInv, RoutingInitInv DEF RoutingInit
<1>2. IInv /\ RoutingInv /\ [RoutingNext]_routingVars => (IInv /\ RoutingInv)'
  BY NextInv, RoutingNextInv, RoutingStepIsQueueStep
<1> QED
  BY <1>1, <1>2, PTL DEF RoutingSpec

\* The event path and the cancel handlers do to the jobs table only what
\* JobQueue allows, so all that is proved of JobQueue holds of them.
THEOREM QueueImplemented == RoutingSpec => Spec
<1>1. RoutingInit => Init
  BY DEF RoutingInit
<1>2. RoutingInv /\ [RoutingNext]_routingVars => [Next]_vars
  BY RoutingStepIsQueueStep
<1> QED
  BY <1>1, <1>2, RoutingInvariant, PTL DEF RoutingSpec, Spec

\* So with the streams, the handlers and the reconnects beside it a reader of
\* the table still sees JobLifecycle, a finished row stays as it is, and every
\* write brings its job nearer to its end.
THEOREM RoutingKeepsQueue ==
    RoutingSpec => ImplementsLifecycle /\ TerminalIsFinal /\ RowsMoveForward
BY QueueImplemented, LifecycleImplemented, FinishedRowsFrozen, RowsProgress, PTL

\* No reconnect, teardown, late event or restart of the api leaves an entry of
\* the lease table that leads to a stream which is gone.
THEOREM TableIsLive == RoutingSpec => []LeasesOnOpenStreams
<1>1. RoutingInv => LeasesOnOpenStreams
  BY DEF RoutingInv
<1> QED
  BY <1>1, RoutingInvariant, PTL

-----------------------------------------------------------------------------
(* The answer "failed" *)

\* A handler comes to answer "failed" in one way, and stays there.
LEMMA FailedAnswerStep ==
    ASSUME RoutingInv, [RoutingNext]_routingVars, NEW r \in Requests, req'[r].at = "failed"
    PROVE  /\ req'[r].job = req[r].job
           /\ req[r].job \in Jobs
           /\ req[r].at = "failed" \/ CancelQueued(req[r].job)
<1>1. req \in [Requests -> Handler] /\ (req[r].at # "idle" => req[r].job \in Jobs)
  BY DEF RoutingInv, PathTypeOK, HandlerInv
<1>2. CASE req'[r] = req[r]
  BY <1>1, <1>2
<1>3. CASE ApiCrash
  BY <1>1, <1>3 DEF ApiCrash, Handler
<1>4. ASSUME NEW q \in Requests, NEW j \in Jobs, Lookup(q, j), q = r
      PROVE  FALSE
  BY <1>1, <1>4 DEF Lookup
<1>5. ASSUME NEW q \in Requests, ReadLease(q), q = r
      PROVE  FALSE
  BY <1>1, <1>5 DEF ReadLease, Handler
<1>6. ASSUME NEW q \in Requests, QueueCommand(q) \/ TryRowFails(q), q = r
      PROVE  FALSE
  BY <1>1, <1>6 DEF QueueCommand, TryRowFails, At, Handler
<1>7. ASSUME NEW q \in Requests, TryRow(q), q = r
      PROVE  req'[r].job = req[r].job /\ req[r].job \in Jobs /\ CancelQueued(req[r].job)
  BY <1>1, <1>7 DEF TryRow, At, Handler
<1>8. ASSUME NEW q \in Requests, q # r,
             \/ \E j \in Jobs : Lookup(q, j)
             \/ TryRow(q) \/ TryRowFails(q) \/ ReadLease(q) \/ QueueCommand(q)
      PROVE  req'[r] = req[r]
  BY <1>1, <1>8 DEF Lookup, TryRow, TryRowFails, ReadLease, QueueCommand, At
<1>9. CASE UNCHANGED req
  BY <1>2, <1>9
<1>10. \/ UNCHANGED req \/ ApiCrash
       \/ \E q \in Requests : \/ \E j \in Jobs : Lookup(q, j)
                              \/ TryRow(q) \/ TryRowFails(q) \/ ReadLease(q) \/ QueueCommand(q)
  BY DEF RoutingNext, routingVars, QueueStep, ReportBegin, ReportOutcome, CrashWorker, Connect,
         SendEvent, SessionEnds, RecvEvent, StreamEnds, SendCommand, SendLoopEnds, RecvCommand
<1> QED
  BY <1>2, <1>3, <1>4, <1>5, <1>6, <1>7, <1>8, <1>9, <1>10

\* A user who was told that the job has failed was told the truth for good: no
\* claim, takeover or late write brings the job back.
THEOREM FailedAnswerTrue == RoutingSpec => []FailedAnswerHolds
<1>1. RoutingInit => FailedAnswerHolds
  BY DEF RoutingInit, FailedAnswerHolds
<1>2. ASSUME IInv, RoutingInv, FailedAnswerHolds, [RoutingNext]_routingVars
      PROVE  FailedAnswerHolds'
  <2> SUFFICES ASSUME NEW r \in Requests, req'[r].at = "failed"
               PROVE  jobs'[req'[r].job].status = "failed"
    BY DEF FailedAnswerHolds
  <2> DEFINE j == req[r].job
  <2>1. req'[r].job = j /\ j \in Jobs /\ (req[r].at = "failed" \/ CancelQueued(j))
    BY <1>2, FailedAnswerStep
  <2> HIDE DEF j
  <2>2. CASE CancelQueued(j)
    <3>1. jobs \in [Jobs -> Row] /\ jobs[j] \in Row
      BY <1>2, <2>1 DEF IInv, TypeOK
    <3>2. Failed(jobs[j], "canceled").status = "failed"
      BY <1>2, <2>1, <2>2, <3>1, FailedRow, ColumnValues DEF IInv, TableInv, CancelQueued
    <3> QED
      BY <2>1, <2>2, <3>1, <3>2 DEF CancelQueued
  <2>3. CASE req[r].at = "failed"
    <3>1. jobs[j].status = "failed"
      BY <1>2, <2>3 DEF FailedAnswerHolds, j
    <3>2. jobs'[j] = jobs[j]
      BY <1>2, <2>1, <3>1, FinishedRowKept, RoutingStepIsQueueStep DEF Terminal
    <3> QED
      BY <2>1, <3>1, <3>2
  <2> QED
    BY <2>1, <2>2, <2>3
<1> QED
  BY <1>1, <1>2, RoutingInvariant, PTL DEF RoutingSpec

-----------------------------------------------------------------------------
(* The announced outcomes *)

\* What Send leaves in a buffer was there before, or is the event it was given.
LEMMA EmitAdds ==
    ASSUME RoutingInv, NEW v \in Workers, NEW ev \in Event, Emit(v, ev),
           NEW w \in Workers, NEW i \in 1..Len(out'[w])
    PROVE  (\E k \in 1..Len(out[w]) : out'[w][i] = out[w][k]) \/ (w = v /\ out'[w][i] = ev)
<1>1. out \in [Workers -> Seq(Event)] /\ out[v] \in Seq(Event) /\ OutBuffer \in Nat \ {0}
  BY RoutingAssumption DEF RoutingInv, PathTypeOK
<1>2. CASE w # v
  BY <1>1, <1>2 DEF Emit
<1>3. CASE w = v /\ out'[v] = Append(out[v], ev)
  BY <1>1, <1>3
<1>4. CASE w = v /\ out[v] # <<>> /\ out'[v] = Append(Tail(out[v]), ev)
  <2>1. out'[v] = Append(Tail(out[v]), ev)
    BY <1>4
  <2>2. out[v] # <<>> /\ Len(Tail(out[v])) = Len(out[v]) - 1
    BY <1>1, <1>4
  <2>3. CASE i = Len(out[v])
    BY <1>1, <1>4, <2>1, <2>2, <2>3
  <2>4. CASE i # Len(out[v])
    <3>1. i + 1 \in 1..Len(out[v]) /\ i \in 1..Len(Tail(out[v]))
      <4>1. Len(out'[v]) = Len(out[v])
        <5>1. Tail(out[v]) \in Seq(Event) /\ Len(out[v]) \in Nat
          BY <1>1, <2>2
        <5>2. Len(Append(Tail(out[v]), ev)) = Len(Tail(out[v])) + 1
          BY <5>1
        <5> QED
          BY <2>1, <2>2, <5>1, <5>2
      <4>2. i \in 1..Len(out[v]) /\ Len(out[v]) \in Nat
        BY <1>1, <1>4, <4>1
      <4> QED
        BY <2>2, <2>4, <4>2
    <3>2. out'[v][i] = out[v][i + 1]
      BY <1>1, <2>1, <2>2, <3>1
    <3> QED
      BY <1>4, <3>1, <3>2
  <2> QED
    BY <2>3, <2>4
<1>5. w = v => \/ out'[v] = Append(out[v], ev)
               \/ out[v] # <<>> /\ out'[v] = Append(Tail(out[v]), ev)
  BY <1>1 DEF Emit
<1> QED
  BY <1>2, <1>3, <1>4, <1>5

\* Where the events of a buffer come from.
LEMMA BufferedEvents ==
    ASSUME IInv, RoutingInv, [RoutingNext]_routingVars,
           NEW w \in Workers, NEW i \in 1..Len(out'[w])
    PROVE  \/ \E k \in 1..Len(out[w]) : out'[w][i] = out[w][k]
           \/ out'[w][i].status = "processing"
           \/ pc[w] = "notify" /\ out'[w][i] = OutcomeEvent(w)
<1>1. out \in [Workers -> Seq(Event)]
  BY DEF RoutingInv, PathTypeOK
<1>2. CASE UNCHANGED out
  BY <1>2
<1>3. ASSUME NEW v \in Workers, ReportBegin(v)
      PROVE  \/ \E k \in 1..Len(out[w]) : out'[w][i] = out[w][k]
             \/ out'[w][i].status = "processing"
  <2>1. held[v].job \in Jobs
    BY <1>3, RunningWorker DEF ReportBegin, Begin, Busy
  <2>2. PICK ev \in Event : ev = [job |-> held[v].job, status |-> "processing"]
    BY <2>1 DEF Event
  <2>3. Emit(v, ev)
    BY <1>3, <2>2 DEF ReportBegin
  <2> QED
    BY <2>2, <2>3, EmitAdds
<1>4. ASSUME NEW v \in Workers, ReportOutcome(v)
      PROVE  \/ \E k \in 1..Len(out[w]) : out'[w][i] = out[w][k]
             \/ pc[w] = "notify" /\ out'[w][i] = OutcomeEvent(w)
  <2>1. held[v].job \in Jobs /\ pc[v] = "notify"
    BY <1>4, RunningWorker DEF ReportOutcome, Notify, Busy
  <2>2. PICK ev \in Event : ev = OutcomeEvent(v)
    <3>1. OutcomeEvent(v) \in Event
      BY <2>1 DEF Event, OutcomeEvent
    <3> QED
      BY <3>1
  <2>3. Emit(v, ev)
    BY <1>4, <2>2 DEF ReportOutcome
  <2> QED
    BY <2>1, <2>2, <2>3, EmitAdds
<1>5. ASSUME NEW v \in Workers, out' = [out EXCEPT ![v] = <<>>]
      PROVE  \E k \in 1..Len(out[w]) : out'[w][i] = out[w][k]
  BY <1>1, <1>5
<1>6. ASSUME NEW v \in Workers, out[v] # <<>>, out' = [out EXCEPT ![v] = Tail(@)]
      PROVE  \E k \in 1..Len(out[w]) : out'[w][i] = out[w][k]
  <2>1. CASE w # v
    BY <1>1, <1>6, <2>1
  <2>2. CASE w = v
    <3>1. out'[w] = Tail(out[w]) /\ out[w] \in Seq(Event) /\ out[w] # <<>>
      BY <1>1, <1>6, <2>2
    <3>2. i + 1 \in 1..Len(out[w]) /\ out'[w][i] = out[w][i + 1]
      BY <3>1
    <3> QED
      BY <3>2
  <2> QED
    BY <2>1, <2>2
<1>7. \/ UNCHANGED out
      \/ \E v \in Workers : \/ ReportBegin(v) \/ ReportOutcome(v)
                            \/ out' = [out EXCEPT ![v] = <<>>]
                            \/ out[v] # <<>> /\ out' = [out EXCEPT ![v] = Tail(@)]
  BY DEF RoutingNext, routingVars, clientVars, QueueStep, ApiCrash, CrashWorker, Connect,
         SendEvent, SessionEnds, RecvEvent, StreamEnds, SendCommand, SendLoopEnds, RecvCommand,
         Lookup, TryRow, TryRowFails, ReadLease, QueueCommand
<1> QED
  BY <1>2, <1>3, <1>4, <1>5, <1>6, <1>7

\* Where the events of a stream come from.
LEMMA StreamEvents ==
    ASSUME RoutingInv, [RoutingNext]_routingVars,
           NEW s \in Stream, NEW i \in 1..Len(up'[s])
    PROVE  \/ \E k \in 1..Len(up[s]) : up'[s][i] = up[s][k]
           \/ \E w \in Workers : 1 \in 1..Len(out[w]) /\ up'[s][i] = out[w][1]
<1>1. up \in [Stream -> Seq(Event)] /\ out \in [Workers -> Seq(Event)]
  BY DEF RoutingInv, PathTypeOK
<1>2. CASE UNCHANGED up
  BY <1>2
<1>3. ASSUME NEW w \in Workers, SendEvent(w)
      PROVE  \/ \E k \in 1..Len(up[s]) : up'[s][i] = up[s][k]
             \/ 1 \in 1..Len(out[w]) /\ up'[s][i] = out[w][1]
  <2>1. Current(w) \in Stream
    BY <1>3, CurrentIsStream DEF SendEvent
  <2>2. CASE up'[s] = up[s]
    BY <2>2
  <2>3. CASE up'[s] # up[s]
    <3>1. up'[s] = Append(up[s], Head(out[w]))
      BY <1>1, <1>3, <2>1, <2>3 DEF SendEvent
    <3>2. out[w] \in Seq(Event) /\ out[w] # <<>> /\ up[s] \in Seq(Event)
      BY <1>1, <1>3 DEF SendEvent
    <3>3. 1 \in 1..Len(out[w]) /\ Head(out[w]) = out[w][1]
      BY <3>2
    <3> QED
      BY <3>1, <3>2, <3>3
  <2> QED
    BY <2>2, <2>3
<1>4. ASSUME NEW t \in Stream, RecvEvent(t)
      PROVE  \E k \in 1..Len(up[s]) : up'[s][i] = up[s][k]
  <2>1. CASE s # t
    BY <1>1, <1>4, <2>1 DEF RecvEvent
  <2>2. CASE s = t
    <3>1. up'[s] = Tail(up[s]) /\ up[s] \in Seq(Event) /\ up[s] # <<>>
      BY <1>1, <1>4, <2>2 DEF RecvEvent
    <3>2. i + 1 \in 1..Len(up[s]) /\ up'[s][i] = up[s][i + 1]
      BY <3>1
    <3> QED
      BY <3>2
  <2> QED
    BY <2>1, <2>2
<1>5. ASSUME NEW t \in Stream, StreamEnds(t)
      PROVE  \E k \in 1..Len(up[s]) : up'[s][i] = up[s][k]
  BY <1>1, <1>5 DEF StreamEnds
<1>6. CASE ApiCrash
  BY <1>6 DEF ApiCrash
<1>7. \/ UNCHANGED up \/ ApiCrash
      \/ \E w \in Workers : SendEvent(w)
      \/ \E t \in Stream : RecvEvent(t) \/ StreamEnds(t)
  BY DEF RoutingNext, routingVars, wireVars, QueueStep, ReportBegin, ReportOutcome,
         CrashWorker, Connect, SessionEnds, SendCommand, SendLoopEnds, RecvCommand,
         Lookup, TryRow, TryRowFails, ReadLease, QueueCommand
<1> QED
  BY <1>2, <1>3, <1>4, <1>5, <1>6, <1>7

\* An event that agrees with the table keeps agreeing: finished rows stay.
LEMMA AgreementKept ==
    ASSUME IInv, RoutingInv, [RoutingNext]_routingVars
    PROVE  \A ev \in Event : Agrees(ev) =>
              (ev.status \in {"done", "failed"} => jobs'[ev.job].status = ev.status)
<1> SUFFICES ASSUME NEW ev \in Event, Agrees(ev), ev.status \in {"done", "failed"}
             PROVE  jobs'[ev.job].status = ev.status
  OBVIOUS
<1>1. PICK j \in Jobs : j = ev.job
  BY DEF Event
<1>2. jobs[j].status = ev.status
  BY <1>1 DEF Agrees
<1>3. jobs'[j] = jobs[j]
  BY <1>2, FinishedRowKept, RoutingStepIsQueueStep DEF Terminal
<1> QED
  BY <1>1, <1>2, <1>3

\* A worker comes to announce an outcome by recording it.
LEMMA AnnouncedIsRecorded ==
    ASSUME IInv, RoutingInv, [RoutingNext]_routingVars,
           NEW w \in Workers, pc'[w] = "notify",
           pc[w] = "notify" => Agrees(OutcomeEvent(w))
    PROVE  Agrees(OutcomeEvent(w))'
<1>1. [Next]_vars
  BY RoutingStepIsQueueStep
<1>2. CASE pc[w] = "notify"
  <2>1. UNCHANGED <<held[w], outcome[w]>>
    BY <1>1, <1>2 DEF Next, vars, workerVars, Enqueue, CancelQueued, Expire, ClaimJob,
       ClaimReplyLost, Work, Begin, FetchOk, FetchFails, PutOk, PutFails, RecordOk,
       RecordReplyLost, RecordLost, Notify, EndRun, CancelRunning, Crash, Restart,
       FailExhausted, IInv, TypeOK
  <2>2. held[w].job \in Jobs
    BY <1>2, RunningWorker DEF Busy
  <2>3. OutcomeEvent(w) \in Event
    BY <2>2 DEF Event, OutcomeEvent
  <2>4. OutcomeEvent(w)' = OutcomeEvent(w)
    BY <2>1 DEF OutcomeEvent
  <2>5. PICK ev \in Event : ev = OutcomeEvent(w)
    BY <2>3
  <2>6. Agrees(ev)
    BY <1>2, <2>5
  <2>7. ev.status \in {"done", "failed"} => jobs'[ev.job].status = ev.status
    BY <2>6, AgreementKept
  <2> QED
    BY <2>4, <2>5, <2>7 DEF Agrees
<1>3. CASE pc[w] # "notify"
  <2>1. RecordOk(w)
    BY <1>1, <1>3 DEF Next, vars, workerVars, Enqueue, CancelQueued, Expire, ClaimJob,
       ClaimReplyLost, Work, Begin, FetchOk, FetchFails, PutOk, PutFails, RecordOk,
       RecordReplyLost, RecordLost, Notify, EndRun, CancelRunning, Crash, Restart,
       FailExhausted, IInv, TypeOK
  <2>2. PICK j \in Jobs : j = held[w].job
    BY <2>1, RunningWorker DEF RecordOk, Busy
  <2>3. jobs[j] \in Row
    BY DEF IInv, TypeOK
  <2>4. jobs'[j] = Recorded(jobs[j], outcome[w]) /\ UNCHANGED <<held, outcome>>
    BY <2>1, <2>2 DEF RecordOk, IInv, TypeOK
  <2>5. /\ outcome[w] = "done" => Recorded(jobs[j], outcome[w]).status = "done"
        /\ outcome[w] \notin {"done", "requeue"} =>
              \/ outcome[w] \in {"canceled", "failed"}
              \/ outcome[w] = "none"
    BY <2>3 DEF Recorded, Released, Row, IInv, TypeOK, Outcome
  <2>6. outcome[w] # "none"
    BY <2>1 DEF RecordOk, IInv, WorkersInv, ClaimShape
  <2>7. outcome[w] \in {"canceled", "failed"} => Recorded(jobs[j], outcome[w]).status = "failed"
    BY <2>3 DEF Recorded, Failed, Released, Row
  <2> QED
    BY <2>2, <2>4, <2>5, <2>6, <2>7 DEF Agrees, OutcomeEvent
<1> QED
  BY <1>2, <1>3

LEMMA VerdictNext ==
    ASSUME IInv, RoutingInv, VerdictInv, [RoutingNext]_routingVars PROVE VerdictInv'
<1>1. ASSUME NEW w \in Workers, pc'[w] = "notify" PROVE Agrees(OutcomeEvent(w))'
  BY <1>1, AnnouncedIsRecorded DEF VerdictInv
<1>2. /\ out \in [Workers -> Seq(Event)] /\ up \in [Stream -> Seq(Event)]
      /\ out' \in [Workers -> Seq(Event)] /\ up' \in [Stream -> Seq(Event)]
  BY RoutingNextInv DEF RoutingInv, PathTypeOK
<1>3. \A ev \in Event : Agrees(ev) =>
         (ev.status \in {"done", "failed"} => jobs'[ev.job].status = ev.status)
  BY AgreementKept
<1>4. ASSUME NEW w \in Workers, NEW i \in 1..Len(out'[w])
      PROVE  out'[w][i].status \in {"done", "failed"} =>
                jobs'[out'[w][i].job].status = out'[w][i].status
  <2>1. CASE \E k \in 1..Len(out[w]) : out'[w][i] = out[w][k]
    <3>1. PICK k \in 1..Len(out[w]) : out'[w][i] = out[w][k]
      BY <2>1
    <3>2. out[w][k] \in Event /\ Agrees(out[w][k])
      BY <1>2 DEF VerdictInv, VerdictsAreRecorded
    <3>3. PICK ev \in Event : ev = out[w][k]
      BY <3>2
    <3> QED
      BY <1>3, <3>1, <3>2, <3>3
  <2>2. CASE out'[w][i].status = "processing"
    BY <2>2
  <2>3. CASE pc[w] = "notify" /\ out'[w][i] = OutcomeEvent(w)
    <3>1. held[w].job \in Jobs
      BY <2>3, RunningWorker DEF Busy
    <3>2. OutcomeEvent(w) \in Event
      BY <3>1 DEF Event, OutcomeEvent
    <3>3. PICK ev \in Event : ev = OutcomeEvent(w)
      BY <3>2
    <3>4. Agrees(ev)
      BY <2>3, <3>3 DEF VerdictInv
    <3> QED
      BY <1>3, <2>3, <3>3, <3>4
  <2> QED
    BY <2>1, <2>2, <2>3, BufferedEvents
<1>5. ASSUME NEW s \in Stream, NEW i \in 1..Len(up'[s])
      PROVE  up'[s][i].status \in {"done", "failed"} =>
                jobs'[up'[s][i].job].status = up'[s][i].status
  <2>1. CASE \E k \in 1..Len(up[s]) : up'[s][i] = up[s][k]
    <3>1. PICK k \in 1..Len(up[s]) : up'[s][i] = up[s][k]
      BY <2>1
    <3>2. up[s][k] \in Event /\ Agrees(up[s][k])
      BY <1>2 DEF VerdictInv, VerdictsAreRecorded
    <3>3. PICK ev \in Event : ev = up[s][k]
      BY <3>2
    <3> QED
      BY <1>3, <3>1, <3>2, <3>3
  <2>2. CASE \E w \in Workers : 1 \in 1..Len(out[w]) /\ up'[s][i] = out[w][1]
    <3>1. PICK w \in Workers : 1 \in 1..Len(out[w]) /\ up'[s][i] = out[w][1]
      BY <2>2
    <3>2. out[w][1] \in Event /\ Agrees(out[w][1])
      BY <1>2, <3>1 DEF VerdictInv, VerdictsAreRecorded
    <3>3. PICK ev \in Event : ev = out[w][1]
      BY <3>2
    <3> QED
      BY <1>3, <3>1, <3>2, <3>3
  <2> QED
    BY <2>1, <2>2, StreamEvents
<1> QED
  BY <1>1, <1>4, <1>5 DEF VerdictInv, VerdictsAreRecorded, Agrees

\* No event that is still on its way to a browser announces an outcome the
\* table does not have: drops, reconnects and stale workers included.
THEOREM VerdictsTrue == RoutingSpec => []VerdictsAreRecorded
<1>1. RoutingInit => VerdictInv
  BY DEF RoutingInit, Init, VerdictInv, VerdictsAreRecorded
<1>2. IInv /\ RoutingInv /\ VerdictInv /\ [RoutingNext]_routingVars => VerdictInv'
  BY VerdictNext
<1>3. VerdictInv => VerdictsAreRecorded
  BY DEF VerdictInv
<1> QED
  BY <1>1, <1>2, <1>3, RoutingInvariant, PTL DEF RoutingSpec

-----------------------------------------------------------------------------
(* Only what was asked is canceled *)

\* Requests are not taken back.
LEMMA AskedGrows ==
    ASSUME RoutingInv, [RoutingNext]_routingVars, NEW j \in Asked PROVE j \in Asked'
<1>1. PICK r \in Requests : req[r].at # "idle" /\ req[r].job = j
  BY DEF Asked
<1>2. req \in [Requests -> Handler]
  BY DEF RoutingInv, PathTypeOK
<1>3. req'[r].at # "idle" /\ req'[r].job = req[r].job
  <2>1. CASE UNCHANGED req
    BY <1>1, <2>1
  <2>2. CASE ApiCrash
    BY <1>1, <1>2, <2>2 DEF ApiCrash, Handler
  <2>3. ASSUME NEW q \in Requests, NEW k \in Jobs, Lookup(q, k)
        PROVE  req'[r].at # "idle" /\ req'[r].job = req[r].job
    BY <1>1, <1>2, <2>3 DEF Lookup
  <2>4. ASSUME NEW q \in Requests,
               TryRow(q) \/ TryRowFails(q) \/ ReadLease(q) \/ QueueCommand(q)
        PROVE  req'[r].at # "idle" /\ req'[r].job = req[r].job
    <3>1. CASE q # r
      BY <1>1, <1>2, <2>4, <3>1 DEF TryRow, TryRowFails, ReadLease, QueueCommand, At
    <3>2. CASE q = r
      BY <1>1, <1>2, <2>4, <3>2 DEF TryRow, TryRowFails, ReadLease, QueueCommand, At, Handler
    <3> QED
      BY <3>1, <3>2
  <2>5. \/ UNCHANGED req \/ ApiCrash
        \/ \E q \in Requests : \/ \E k \in Jobs : Lookup(q, k)
                               \/ TryRow(q) \/ TryRowFails(q) \/ ReadLease(q) \/ QueueCommand(q)
    BY DEF RoutingNext, routingVars, QueueStep, ReportBegin, ReportOutcome, CrashWorker, Connect,
           SendEvent, SessionEnds, RecvEvent, StreamEnds, SendCommand, SendLoopEnds, RecvCommand
  <2> QED
    BY <2>1, <2>2, <2>3, <2>4, <2>5
<1> QED
  BY <1>1, <1>3 DEF Asked

\* What the SET lists do to the error column.
LEMMA RowErrors ==
    ASSUME NEW r \in Row
    PROVE  /\ Leased(r).error = r.error
           /\ \A why \in ErrorText : Failed(r, why).error = why
           /\ \A o \in Outcome : Recorded(r, o).error = "canceled" => o = "canceled"
BY DEF Row, Leased, Failed, Released, Recorded, ErrorText, Outcome

\* A step of the queue that is neither CancelQueued nor CancelRunning.
OtherQueueStep ==
    \/ UNCHANGED vars \/ FailExhausted
    \/ \E j \in Jobs : Enqueue(j) \/ Expire(j)
    \/ \E w \in Workers, j \in Jobs : ClaimJob(w, j) \/ ClaimReplyLost(w, j)
    \/ \E w \in Workers : Work(w) \/ Crash(w) \/ Restart(w)

\* The other steps write the error text of a cancel for a canceled run.
LEMMA CanceledRows ==
    ASSUME IInv, OtherQueueStep, NEW j \in Jobs, jobs'[j].error = "canceled"
    PROVE  \/ jobs[j].error = "canceled"
           \/ \E w \in Workers : outcome[w] = "canceled" /\ held[w].job = j
<1>1. jobs \in [Jobs -> Row] /\ jobs[j] \in Row /\ outcome \in [Workers -> Outcome]
  BY DEF IInv, TypeOK
<1>0. jobs'[j].error = "canceled"
  OBVIOUS
<1>2. CASE UNCHANGED jobs
  BY <1>0, <1>2
<1>3. ASSUME NEW k \in Jobs, Enqueue(k) \/ Expire(k)
      PROVE  jobs[j].error = "canceled"
  BY <1>1, <1>3 DEF Enqueue, Expire, Row
<1>5. ASSUME NEW k \in Jobs, jobs' = [jobs EXCEPT ![k] = Leased(@)]
      PROVE  jobs[j].error = "canceled"
  BY <1>1, <1>5, RowErrors
<1>6. ASSUME NEW w \in Workers, jobs' = [jobs EXCEPT ![held[w].job] = Recorded(@, outcome[w])]
      PROVE  \/ jobs[j].error = "canceled"
             \/ outcome[w] = "canceled" /\ held[w].job = j
  <2>1. CASE held[w].job # j
    <3>1. jobs'[j] = jobs[j]
      BY <1>1, <1>6, <2>1
    <3> QED
      BY <1>0, <3>1
  <2>2. CASE held[w].job = j
    <3>1. jobs'[j] = Recorded(jobs[j], outcome[w])
      BY <1>1, <1>6, <2>2
    <3>2. PICK o \in Outcome : o = outcome[w]
      BY <1>1
    <3>3. Recorded(jobs[j], o).error = "canceled" => o = "canceled"
      BY <1>1, RowErrors
    <3>4. o = "canceled"
      BY <1>0, <3>1, <3>2, <3>3
    <3> QED
      BY <2>2, <3>2, <3>4
  <2> QED
    BY <2>1, <2>2
<1>7. CASE FailExhausted
  BY <1>1, <1>7, RowErrors, ColumnValues DEF FailExhausted
<1>8. \/ UNCHANGED jobs \/ FailExhausted
      \/ \E k \in Jobs : Enqueue(k) \/ Expire(k)
      \/ \E k \in Jobs : jobs' = [jobs EXCEPT ![k] = Leased(@)]
      \/ \E w \in Workers : jobs' = [jobs EXCEPT ![held[w].job] = Recorded(@, outcome[w])]
  BY DEF OtherQueueStep, vars, Work, ClaimJob, ClaimReplyLost, Begin, FetchOk, FetchFails,
         PutOk, PutFails, RecordOk, RecordReplyLost, RecordLost, Notify, Crash, Restart
<1> QED
  BY <1>2, <1>3, <1>5, <1>6, <1>7, <1>8

\* The other steps cancel no run, and decide that one was canceled if it was.
LEMMA CanceledRuns ==
    ASSUME IInv, OtherQueueStep, NEW w \in Workers,
           pc[w] \in {"down", "drain", "claimed"} => run[w] = "none" /\ outcome[w] = "none"
    PROVE  /\ pc'[w] \in {"down", "drain", "claimed"} => run'[w] = "none" /\ outcome'[w] = "none"
           /\ run'[w] = "canceled" => held'[w] = held[w] /\ run[w] = "canceled"
           /\ outcome'[w] = "canceled" =>
                 held'[w] = held[w] /\ (outcome[w] = "canceled" \/ run[w] = "canceled")
<1>1. /\ pc \in [Workers -> PC] /\ run \in [Workers -> Run]
      /\ outcome \in [Workers -> Outcome] /\ DOMAIN held = Workers
  BY DEF IInv, TypeOK
<1>2. CASE UNCHANGED <<pc, held, run, outcome>>
  BY <1>2
<1>3. ASSUME NEW v \in Workers, NEW j \in Jobs, ClaimJob(v, j)
      PROVE  IF v = w THEN pc[w] = "drain" /\ UNCHANGED <<run, outcome>>
                      ELSE UNCHANGED <<pc[w], held[w], run[w], outcome[w]>>
  BY <1>1, <1>3 DEF ClaimJob
<1>4. ASSUME NEW v \in Workers, v # w,
             Work(v) \/ Crash(v) \/ Restart(v)
      PROVE  UNCHANGED <<pc[w], held[w], run[w], outcome[w]>>
  BY <1>1, <1>4 DEF Work, Begin, FetchOk, FetchFails, PutOk, PutFails, RecordOk,
         RecordReplyLost, RecordLost, Notify, EndRun, Crash, Restart
<1>5. CASE EndRun(w)
  BY <1>1, <1>5 DEF EndRun
<1>6. CASE Crash(w) \/ Restart(w)
  BY <1>1, <1>6 DEF Crash, Restart
<1>7. CASE Begin(w)
  BY <1>1, <1>7 DEF Begin
<1>8. CASE FetchOk(w) \/ RecordOk(w) \/ PutOk(w)
  BY <1>1, <1>8 DEF FetchOk, RecordOk, PutOk
<1>9. CASE FetchFails(w) \/ PutFails(w)
  <2>1. Verdict(w) = "canceled" => run[w] = "canceled"
    BY DEF Verdict
  <2> QED
    BY <1>1, <1>9, <2>1 DEF FetchFails, PutFails
<1>10. \/ UNCHANGED <<pc, held, run, outcome>>
       \/ \E v \in Workers, j \in Jobs : ClaimJob(v, j)
       \/ \E v \in Workers : v # w /\ (Work(v) \/ Crash(v) \/ Restart(v))
       \/ EndRun(w) \/ Crash(w) \/ Restart(w) \/ Begin(w) \/ FetchOk(w) \/ RecordOk(w) \/ PutOk(w)
       \/ FetchFails(w) \/ PutFails(w)
  BY DEF OtherQueueStep, vars, workerVars, Enqueue, Expire, ClaimReplyLost, FailExhausted,
         Work, RecordReplyLost, RecordLost, Notify
<1> QED
  BY <1>1, <1>2, <1>3, <1>4, <1>5, <1>6, <1>7, <1>8, <1>9, <1>10 DEF ClaimJob

\* A command queue or a stream carries commands of handlers only.
LEMMA CarriedCommands ==
    ASSUME RoutingInv, [RoutingNext]_routingVars, AskedInv, NEW s \in Stream
    PROVE  /\ \A i \in 1..Len(send'[s]) : send'[s][i] \in Asked
           /\ \A i \in 1..Len(down'[s]) : down'[s][i] \in Asked
<1>1. /\ send \in [Stream -> Seq(Jobs)] /\ down \in [Stream -> Seq(Jobs)]
      /\ send[s] \in Seq(Jobs) /\ down[s] \in Seq(Jobs)
  BY DEF RoutingInv, PathTypeOK
<1>2. /\ \A i \in 1..Len(send[s]) : send[s][i] \in Asked
      /\ \A i \in 1..Len(down[s]) : down[s][i] \in Asked
  BY DEF AskedInv
<1> HIDE DEF Asked
<1>3. CASE UNCHANGED <<send, down>>
  BY <1>2, <1>3
<1>4. CASE ApiCrash
  BY <1>1, <1>2, <1>4 DEF ApiCrash
<1>5. ASSUME NEW w \in Workers, CrashWorker(w)
      PROVE  send'[s] = send[s] /\ (down'[s] = down[s] \/ down'[s] = <<>>)
  BY <1>1, <1>5 DEF CrashWorker, serverVars
<1>6. ASSUME NEW t \in Stream, SendCommand(t) \/ SendLoopEnds(t)
      PROVE  /\ \A i \in 1..Len(send'[s]) : send'[s][i] \in Asked
             /\ \A i \in 1..Len(down'[s]) : down'[s][i] \in Asked
  <2>1. CASE send'[s] = send[s] /\ down'[s] = down[s]
    BY <1>2, <2>1
  <2>2. CASE /\ send[s] # <<>> /\ send'[s] = Tail(send[s])
             /\ down'[s] \in {down[s], Append(down[s], Head(send[s]))}
    <3>1. /\ send[s] # <<>> /\ send'[s] = Tail(send[s])
          /\ down'[s] \in {down[s], Append(down[s], Head(send[s]))}
      BY <2>2
    <3>2. Head(send[s]) \in Asked
      <4>1. Len(send[s]) \in Nat \ {0} /\ Head(send[s]) = send[s][1]
        BY <1>1, <3>1
      <4>2. 1 \in 1..Len(send[s])
        BY <4>1
      <4> QED
        BY <1>2, <4>1, <4>2
    <3>3. \A i \in 1..Len(Tail(send[s])) : Tail(send[s])[i] \in Asked
      <4>1. ASSUME NEW i \in 1..Len(Tail(send[s]))
            PROVE  i + 1 \in 1..Len(send[s]) /\ Tail(send[s])[i] = send[s][i + 1]
        BY <1>1, <3>1, <4>1
      <4> QED
        BY <1>2, <4>1
    <3>4. \A i \in 1..Len(Append(down[s], Head(send[s]))) :
             Append(down[s], Head(send[s]))[i] \in Asked
      BY <1>1, <1>2, <3>1, <3>2
    <3>5. \A i \in 1..Len(down'[s]) : down'[s][i] \in Asked
      BY <1>2, <3>1, <3>4
    <3> QED
      BY <3>1, <3>3, <3>5
  <2>3. CASE SendCommand(t)
    BY <1>1, <2>1, <2>2, <2>3 DEF SendCommand
  <2>4. CASE SendLoopEnds(t)
    BY <1>1, <2>1, <2>2, <2>4 DEF SendLoopEnds, wireVars
  <2> QED
    BY <1>6, <2>3, <2>4
<1>7. ASSUME NEW t \in Stream, RecvCommand(t)
      PROVE  /\ \A i \in 1..Len(send'[s]) : send'[s][i] \in Asked
             /\ \A i \in 1..Len(down'[s]) : down'[s][i] \in Asked
  <2>1. CASE t # s
    BY <1>1, <1>2, <1>7, <2>1 DEF RecvCommand, serverVars
  <2>2. CASE t = s
    <3>1. send'[s] = send[s] /\ down'[s] = Tail(down[s]) /\ down[s] # <<>>
      BY <1>1, <1>7, <2>2 DEF RecvCommand, serverVars
    <3> QED
      BY <1>1, <1>2, <3>1
  <2> QED
    BY <2>1, <2>2
<1>8. ASSUME NEW r \in Requests, QueueCommand(r)
      PROVE  /\ \A i \in 1..Len(send'[s]) : send'[s][i] \in Asked
             /\ \A i \in 1..Len(down'[s]) : down'[s][i] \in Asked
  <2>1. req[r].job \in Asked /\ UNCHANGED down
    BY <1>8 DEF QueueCommand, Asked, wireVars
  <2>2. CASE send'[s] = send[s]
    BY <1>2, <2>1, <2>2
  <2>3. CASE send'[s] = Append(send[s], req[r].job)
    BY <1>1, <1>2, <2>1, <2>3
  <2>4. send'[s] = send[s] \/ send'[s] = Append(send[s], req[r].job)
    BY <1>1, <1>8 DEF QueueCommand
  <2> QED
    BY <2>2, <2>3, <2>4
<1>9. \/ UNCHANGED <<send, down>> \/ ApiCrash
      \/ \E w \in Workers : CrashWorker(w)
      \/ \E t \in Stream : SendCommand(t) \/ SendLoopEnds(t) \/ RecvCommand(t)
      \/ \E r \in Requests : QueueCommand(r)
  BY DEF RoutingNext, routingVars, wireVars, serverVars, QueueStep, ReportBegin, ReportOutcome,
         Connect, SendEvent, SessionEnds, RecvEvent, StreamEnds, Lookup, TryRow, TryRowFails,
         ReadLease
<1> QED
  BY <1>2, <1>3, <1>4, <1>5, <1>6, <1>7, <1>8, <1>9

\* CancelQueued and CancelRunning happen for asked jobs only.
LEMMA CancelsAreAsked ==
    ASSUME RoutingInv, AskedInv, [RoutingNext]_routingVars
    PROVE  \/ OtherQueueStep
           \/ \E j \in Jobs : j \in Asked /\ CancelQueued(j)
           \/ \E w \in Workers : held[w].job \in Asked /\ CancelRunning(w)
<1>1. CASE QueueStep
  BY <1>1 DEF QueueStep, OtherQueueStep, Work
<1>2. ASSUME NEW w \in Workers, ReportBegin(w) \/ ReportOutcome(w) \/ CrashWorker(w)
      PROVE  OtherQueueStep
  BY <1>2 DEF ReportBegin, ReportOutcome, CrashWorker, OtherQueueStep, Work
<1>3. ASSUME NEW s \in Stream, RecvCommand(s)
      PROVE  OtherQueueStep \/ \E w \in Workers : held[w].job \in Asked /\ CancelRunning(w)
  <2>1. s.worker \in Workers
    BY DEF Stream
  <2>2. down[s] \in Seq(Jobs) /\ down[s] # <<>>
    BY <1>3 DEF RecvCommand, RoutingInv, PathTypeOK
  <2>3. Head(down[s]) = down[s][1] /\ 1 \in 1..Len(down[s])
    BY <2>2
  <2>4. Head(down[s]) \in Asked
    BY <2>3 DEF AskedInv
  <2>5. CASE Holds(s.worker, Head(down[s]))
    BY <1>3, <2>1, <2>4, <2>5 DEF RecvCommand, Holds
  <2>6. CASE ~Holds(s.worker, Head(down[s]))
    BY <1>3, <2>6 DEF RecvCommand, OtherQueueStep
  <2> QED
    BY <2>5, <2>6
<1>4. ASSUME NEW r \in Requests, TryRow(r) \/ TryRowFails(r)
      PROVE  OtherQueueStep \/ \E j \in Jobs : j \in Asked /\ CancelQueued(j)
  <2>1. req[r].job \in Jobs /\ req[r].job \in Asked
    BY <1>4 DEF TryRow, TryRowFails, RoutingInv, HandlerInv, Asked
  <2> QED
    BY <1>4, <2>1 DEF TryRow, TryRowFails, OtherQueueStep
<1>5. \/ UNCHANGED vars \/ QueueStep
      \/ \E w \in Workers : ReportBegin(w) \/ ReportOutcome(w) \/ CrashWorker(w)
      \/ \E s \in Stream : RecvCommand(s)
      \/ \E r \in Requests : TryRow(r) \/ TryRowFails(r)
  BY DEF RoutingNext, routingVars, ApiCrash, Connect, SendEvent, SessionEnds, RecvEvent,
         StreamEnds, SendCommand, SendLoopEnds, Lookup, ReadLease, QueueCommand
<1> QED
  BY <1>1, <1>2, <1>3, <1>4, <1>5 DEF OtherQueueStep

LEMMA AskedNext ==
    ASSUME IInv, RoutingInv, AskedInv, [RoutingNext]_routingVars PROVE AskedInv'
<1>1. Asked \subseteq Asked'
  BY AskedGrows
<1>2. /\ \A s \in Stream : \A i \in 1..Len(send'[s]) : send'[s][i] \in Asked
      /\ \A s \in Stream : \A i \in 1..Len(down'[s]) : down'[s][i] \in Asked
  BY CarriedCommands
<1>3. /\ \A w \in Workers : pc'[w] \in {"down", "drain", "claimed"} =>
                               run'[w] = "none" /\ outcome'[w] = "none"
      /\ \A w \in Workers : run'[w] = "canceled" \/ outcome'[w] = "canceled" =>
                               held'[w].job \in Asked
      /\ \A j \in Jobs : jobs'[j].error = "canceled" => j \in Asked
  <2> HIDE DEF Asked
  <2>1. CASE OtherQueueStep
    <3>1. ASSUME NEW w \in Workers
          PROVE  /\ pc'[w] \in {"down", "drain", "claimed"} =>
                       run'[w] = "none" /\ outcome'[w] = "none"
                 /\ run'[w] = "canceled" \/ outcome'[w] = "canceled" => held'[w].job \in Asked
      BY <2>1, CanceledRuns DEF AskedInv, OnlyAskedIsCanceled
    <3>2. ASSUME NEW j \in Jobs, jobs'[j].error = "canceled" PROVE j \in Asked
      BY <2>1, <3>2, CanceledRows DEF AskedInv, OnlyAskedIsCanceled
    <3> QED
      BY <3>1, <3>2
  <2>2. ASSUME NEW j \in Jobs, j \in Asked, CancelQueued(j)
        PROVE  /\ UNCHANGED <<pc, held, run, outcome>>
               /\ \A k \in Jobs : k # j => jobs'[k] = jobs[k]
    BY <2>2 DEF CancelQueued, workerVars, IInv, TypeOK
  <2>3. ASSUME NEW w \in Workers, held[w].job \in Asked, CancelRunning(w)
        PROVE  /\ UNCHANGED <<jobs, pc, held, outcome>> /\ run[w] = "running"
               /\ run' = [run EXCEPT ![w] = "canceled"]
    BY <2>3 DEF CancelRunning
  <2>4. CASE \E j \in Jobs : j \in Asked /\ CancelQueued(j)
    BY <2>2, <2>4 DEF AskedInv, OnlyAskedIsCanceled
  <2>5. CASE \E w \in Workers : held[w].job \in Asked /\ CancelRunning(w)
    BY <2>3, <2>5 DEF AskedInv, OnlyAskedIsCanceled, IInv, TypeOK
  <2> QED
    BY <2>1, <2>4, <2>5, CancelsAreAsked
<1> HIDE DEF Asked
<1> QED
  BY <1>1, <1>2, <1>3 DEF AskedInv, OnlyAskedIsCanceled

\* A run is canceled, and a row says "canceled by user", only for a job somebody
\* asked to cancel, however late and on whichever stream a command arrives.
THEOREM OnlyAsked == RoutingSpec => []OnlyAskedIsCanceled
<1>1. RoutingInit => AskedInv
  <2> SUFFICES ASSUME RoutingInit PROVE AskedInv
    OBVIOUS
  <2>1. /\ \A s \in Stream : send[s] = <<>> /\ down[s] = <<>>
        /\ \A w \in Workers : run[w] = "none" /\ outcome[w] = "none"
        /\ \A j \in Jobs : jobs[j].error = "null"
    BY DEF RoutingInit, Init, AbsentRow
  <2> QED
    BY <2>1 DEF AskedInv, OnlyAskedIsCanceled
<1>2. IInv /\ RoutingInv /\ AskedInv /\ [RoutingNext]_routingVars => AskedInv'
  BY AskedNext
<1>3. AskedInv => OnlyAskedIsCanceled
  BY DEF AskedInv
<1> QED
  BY <1>1, <1>2, <1>3, RoutingInvariant, PTL DEF RoutingSpec

=============================================================================
