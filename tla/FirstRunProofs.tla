--------------------------- MODULE FirstRunProofs ---------------------------
(***************************************************************************)
(* Why a job in its first attempt can be canceled, for any number of jobs, *)
(* workers, streams and any buffer sizes.  In its first attempt a job has  *)
(* one run, and that run sends one event before it has an outcome.  The    *)
(* proof follows this event from the worker's buffer to the stream and to  *)
(* the table; nothing else that is said anywhere is about the job.         *)
(* The second part follows the cancel back to the run: nobody is led to a  *)
(* worker before the run has begun, so no command is spent too early.      *)
(***************************************************************************)
EXTENDS CancelRoutingProofs, SequenceTheorems

-----------------------------------------------------------------------------
(* What a queue of events says of a job *)

Mentions(q, j) == \E i \in 1..Len(q) : q[i].job = j

OnlyProcessing(q, j) == \A i \in 1..Len(q) : q[i].job = j => q[i].status = "processing"

AtMostOnce(q, j) == \A i, k \in 1..Len(q) : q[i].job = j /\ q[k].job = j => i = k

\* a says no more of j than b.
Quieter(a, b, j) ==
    /\ Mentions(a, j) => Mentions(b, j)
    /\ OnlyProcessing(b, j) => OnlyProcessing(a, j)
    /\ AtMostOnce(b, j) => AtMostOnce(a, j)

LEMMA NothingSaid ==
    ASSUME NEW j
    PROVE  /\ ~Mentions(<<>>, j)
           /\ \A q : Quieter(<<>>, q, j) /\ Quieter(q, q, j)
           /\ \A q : ~Mentions(q, j) => OnlyProcessing(q, j) /\ AtMostOnce(q, j)
<1>1. Len(<<>>) = 0
  OBVIOUS
<1> QED
  BY <1>1 DEF Mentions, OnlyProcessing, AtMostOnce, Quieter

\* A queue that loses its first event.
LEMMA TailSays ==
    ASSUME NEW q \in Seq(Event), q # <<>>, NEW j
    PROVE  /\ Tail(q) \in Seq(Event) /\ Head(q) \in Event
           /\ Quieter(Tail(q), q, j)
           /\ Mentions(q, j) => Mentions(Tail(q), j) \/ Head(q).job = j
           /\ Head(q).job = j => Mentions(q, j)
           /\ Head(q).job = j /\ OnlyProcessing(q, j) => Head(q).status = "processing"
           /\ Head(q).job = j /\ AtMostOnce(q, j) => ~Mentions(Tail(q), j)
<1>1. Len(q) \in Nat /\ Len(q) > 0 /\ 1 \in 1..Len(q) /\ Head(q) = q[1]
  OBVIOUS
<1>2. /\ Tail(q) \in Seq(Event) /\ Head(q) \in Event /\ Len(Tail(q)) = Len(q) - 1
      /\ \A i \in 1..Len(Tail(q)) : i + 1 \in 1..Len(q) /\ Tail(q)[i] = q[i + 1]
  BY <1>1
<1> DEFINE t == Tail(q)
<1>3. \A i \in 1..Len(q) : i = 1 \/ (i - 1 \in 1..Len(t) /\ t[i - 1] = q[i])
  BY <1>1, <1>2
<1>4. t \in Seq(Event) /\ Len(t) = Len(q) - 1
      /\ \A i \in 1..Len(t) : i + 1 \in 1..Len(q) /\ t[i] = q[i + 1]
  BY <1>2
<1> HIDE DEF t
<1>5. Mentions(t, j) => Mentions(q, j)
  BY <1>4 DEF Mentions
<1>6. OnlyProcessing(q, j) => OnlyProcessing(t, j)
  BY <1>4 DEF OnlyProcessing
<1>7. ASSUME AtMostOnce(q, j) PROVE AtMostOnce(t, j)
  <2> SUFFICES ASSUME NEW i \in 1..Len(t), NEW k \in 1..Len(t), t[i].job = j, t[k].job = j
               PROVE  i = k
    BY DEF AtMostOnce
  <2>1. i + 1 = k + 1
    BY <1>4, <1>7 DEF AtMostOnce
  <2> QED
    BY <2>1
<1>8. Mentions(q, j) => Mentions(t, j) \/ q[1].job = j
  BY <1>3 DEF Mentions
<1>9. ASSUME q[1].job = j, AtMostOnce(q, j), NEW i \in 1..Len(t), t[i].job = j PROVE FALSE
  <2>1. i + 1 \in 1..Len(q) /\ q[i + 1].job = j
    BY <1>4, <1>9
  <2>2. i + 1 = 1
    BY <1>1, <1>9, <2>1 DEF AtMostOnce
  <2> QED
    BY <2>2
<1>10. q[1].job = j => Mentions(q, j)
  BY <1>1 DEF Mentions
<1>11. q[1].job = j /\ OnlyProcessing(q, j) => q[1].status = "processing"
  BY <1>1 DEF OnlyProcessing
<1>12. q[1].job = j /\ AtMostOnce(q, j) => ~Mentions(t, j)
  BY <1>9 DEF Mentions
<1> QED
  BY <1>1, <1>2, <1>5, <1>6, <1>7, <1>8, <1>10, <1>11, <1>12 DEF Quieter, t

\* A queue that gets one more event.
LEMMA AppendSays ==
    ASSUME NEW q \in Seq(Event), NEW ev \in Event, NEW j
    PROVE  /\ Append(q, ev) \in Seq(Event)
           /\ ev.job # j => Quieter(Append(q, ev), q, j)
           /\ Mentions(q, j) => Mentions(Append(q, ev), j)
           /\ ev.job = j => Mentions(Append(q, ev), j)
           /\ ~Mentions(q, j) => AtMostOnce(Append(q, ev), j)
           /\ ~Mentions(q, j) /\ ev.status = "processing" => OnlyProcessing(Append(q, ev), j)
<1> DEFINE a == Append(q, ev)
<1>1. /\ a \in Seq(Event) /\ Len(q) \in Nat /\ Len(a) = Len(q) + 1 /\ a[Len(q) + 1] = ev
      /\ \A i \in 1..Len(q) : a[i] = q[i]
  BY AppendProperties, LenProperties
<1>2. \A i \in 1..Len(a) : i \in 1..Len(q) \/ i = Len(q) + 1
  BY <1>1
<1>3. \A i \in 1..Len(q) : i \in 1..Len(a)
  BY <1>1
<1>4. Len(q) + 1 \in 1..Len(a)
  BY <1>1
<1> HIDE DEF a
<1>5. ASSUME ev.job # j PROVE Quieter(a, q, j)
  <2>1. \A i \in 1..Len(a) : a[i].job = j => i \in 1..Len(q) /\ a[i] = q[i]
    BY <1>1, <1>2, <1>5
  <2> QED
    BY <2>1 DEF Quieter, Mentions, OnlyProcessing, AtMostOnce
<1>6. Mentions(q, j) => Mentions(a, j)
  BY <1>1, <1>3 DEF Mentions
<1>7. ev.job = j => Mentions(a, j)
  BY <1>1, <1>4 DEF Mentions
<1>8. ASSUME ~Mentions(q, j)
      PROVE  AtMostOnce(a, j) /\ (ev.status = "processing" => OnlyProcessing(a, j))
  <2>1. \A i \in 1..Len(a) : a[i].job = j => i = Len(q) + 1 /\ a[i] = ev
    BY <1>1, <1>2, <1>8 DEF Mentions
  <2> QED
    BY <2>1 DEF AtMostOnce, OnlyProcessing
<1> QED
  BY <1>1, <1>5, <1>6, <1>7, <1>8 DEF a

-----------------------------------------------------------------------------
(* The invariant *)

\* Nothing on its way to the table is about the job.
Unheard(j) == /\ \A v \in Workers : ~Mentions(out[v], j)
              /\ \A s \in Stream : ~Mentions(up[s], j)

\* The one thing said of the job, the PROCESSING event of w, is in w's buffer,
\* or lost, or on the stream w sent it on, where it is about to enter the table
\* or has entered it, unless the stream ended.
Followed(w, j) ==
    /\ \A v \in Workers : Mentions(out[v], j) => v = w /\ told[w] = NoStream
    /\ AtMostOnce(out[w], j) /\ OnlyProcessing(out[w], j)
    /\ \A s \in Stream : /\ Mentions(up[s], j) => s = told[w]
                         /\ OnlyProcessing(up[s], j)
    /\ told[w] # NoStream /\ srv[told[w]] # "closed" =>
          leases[j] = told[w] \/ Mentions(up[told[w]], j)

\* A stream that was sent on, or is being used, was opened.
OpenedInv ==
    \A w \in Workers : /\ told[w] # NoStream => srv[told[w]] # "none"
                       /\ online[w] => srv[Current(w)] # "none"

InFirstRun(w) == pc[w] \in {"fetch", "put"} /\ jobs[held[w].job].attempt = 1

FirstRunInv ==
    /\ OpenedInv
    /\ \A w \in Workers : pc[w] \in {"fetch", "put"} => run[w] # "none"
    /\ \A j \in Jobs : jobs[j].attempt = 0 => Unheard(j)
    /\ \A w \in Workers : pc[w] = "claimed" /\ jobs[held[w].job].attempt = 1 => Unheard(held[w].job)
    /\ \A w \in Workers : InFirstRun(w) => Followed(w, held[w].job)

-----------------------------------------------------------------------------
(* What one step does to what is said of a job *)

\* Client.Send, which may give up its oldest event.
LEMMA EmitSays ==
    ASSUME RoutingInv, NEW w \in Workers, NEW ev \in Event, Emit(w, ev), NEW j
    PROVE  /\ \A v \in Workers \ {w} : out'[v] = out[v]
           /\ ev.job # j => Quieter(out'[w], out[w], j)
           /\ ~Mentions(out[w], j) /\ ev.status = "processing" =>
                 AtMostOnce(out'[w], j) /\ OnlyProcessing(out'[w], j)
<1>1. out \in [Workers -> Seq(Event)] /\ out[w] \in Seq(Event)
  BY DEF RoutingInv, PathTypeOK
<1>2. \A v \in Workers \ {w} : out'[v] = out[v]
  BY <1>1 DEF Emit
<1>3. PICK q \in Seq(Event) : out'[w] = Append(q, ev) /\ Quieter(q, out[w], j)
  <2>1. CASE out' = [out EXCEPT ![w] = Append(@, ev)]
    BY <1>1, <2>1, NothingSaid
  <2>2. CASE out[w] # <<>> /\ out' = [out EXCEPT ![w] = Append(Tail(@), ev)]
    BY <1>1, <2>2, TailSays
  <2> QED
    BY <2>1, <2>2 DEF Emit
<1>4. /\ ev.job # j => Quieter(Append(q, ev), q, j)
      /\ ~Mentions(q, j) => AtMostOnce(Append(q, ev), j)
      /\ ~Mentions(q, j) /\ ev.status = "processing" => OnlyProcessing(Append(q, ev), j)
  BY AppendSays
<1> QED
  BY <1>2, <1>3, <1>4 DEF Quieter

\* Only a worker that reports on a job says something of it.
Reports(w, j) == held[w].job = j /\ (ReportBegin(w) \/ ReportOutcome(w))

LEMMA BufferSays ==
    ASSUME IInv, RoutingInv, [RoutingNext]_routingVars, NEW w \in Workers, NEW j,
           ~Reports(w, j)
    PROVE  Quieter(out'[w], out[w], j)
<1>1. out \in [Workers -> Seq(Event)]
  BY DEF RoutingInv, PathTypeOK
<1>2. CASE out'[w] = out[w]
  BY <1>2, NothingSaid
<1>3. ASSUME NEW v \in Workers, ReportBegin(v) \/ ReportOutcome(v)
      PROVE  Quieter(out'[w], out[w], j)
  <2>1. held[v].job \in Jobs
    BY <1>3, RunningWorker DEF ReportBegin, ReportOutcome, Begin, Notify, Busy
  <2>2. PICK ev \in Event : Emit(v, ev) /\ ev.job = held[v].job
    <3>1. CASE ReportBegin(v)
      <4>1. [job |-> held[v].job, status |-> "processing"] \in Event
        BY <2>1 DEF Event
      <4> QED
        BY <3>1, <4>1 DEF ReportBegin
    <3>2. CASE ReportOutcome(v)
      <4>1. OutcomeEvent(v) \in Event /\ OutcomeEvent(v).job = held[v].job
        BY <2>1 DEF Event, OutcomeEvent
      <4> QED
        BY <3>2, <4>1 DEF ReportOutcome
    <3> QED
      BY <1>3, <3>1, <3>2
  <2>3. CASE w # v
    BY <2>2, <2>3, <1>2, EmitSays
  <2>4. CASE w = v
    <3>1. ev.job # j
      BY <1>3, <2>2, <2>4 DEF Reports
    <3> QED
      BY <2>2, <2>4, <3>1, EmitSays
  <2> QED
    BY <2>3, <2>4
<1>4. ASSUME NEW v \in Workers, out' = [out EXCEPT ![v] = <<>>]
      PROVE  Quieter(out'[w], out[w], j)
  BY <1>1, <1>2, <1>4, NothingSaid
<1>5. ASSUME NEW v \in Workers, out[v] # <<>>, out' = [out EXCEPT ![v] = Tail(@)]
      PROVE  Quieter(out'[w], out[w], j)
  <2>1. CASE w # v
    BY <1>1, <1>2, <1>5, <2>1
  <2>2. CASE w = v
    <3>1. out[w] \in Seq(Event) /\ out[w] # <<>> /\ out'[w] = Tail(out[w])
      BY <1>1, <1>5, <2>2
    <3> QED
      BY <3>1, TailSays
  <2> QED
    BY <2>1, <2>2
<1>6. \/ UNCHANGED out
      \/ \E v \in Workers : \/ ReportBegin(v) \/ ReportOutcome(v)
                            \/ out' = [out EXCEPT ![v] = <<>>]
                            \/ out[v] # <<>> /\ out' = [out EXCEPT ![v] = Tail(@)]
  BY DEF RoutingNext, routingVars, clientVars, QueueStep, ApiCrash, CrashWorker, Connect,
         SendEvent, SessionEnds, RecvEvent, StreamEnds, SendCommand, SendLoopEnds, RecvCommand,
         Lookup, TryRow, TryRowFails, ReadLease, QueueCommand
<1> QED
  BY <1>2, <1>3, <1>4, <1>5, <1>6

\* Sending moves the oldest event of a buffer to the worker's current stream.
LEMMA SendSays ==
    ASSUME RoutingInv, NEW w \in Workers, SendEvent(w), NEW s \in Stream, NEW j
    PROVE  /\ Current(w) \in Stream /\ out[w] \in Seq(Event) /\ out[w] # <<>>
           /\ s # Current(w) => Quieter(up'[s], up[s], j)
           /\ Head(out[w]).job # j => Quieter(up'[s], up[s], j)
           /\ Mentions(up[s], j) => Mentions(up'[s], j)
           /\ Head(out[w]).job = j /\ s = Current(w) /\ srv[s] # "closed" => Mentions(up'[s], j)
           /\ ~Mentions(up[s], j) /\ Head(out[w]).status = "processing" => OnlyProcessing(up'[s], j)
<1>1. /\ Current(w) \in Stream
      /\ up \in [Stream -> Seq(Event)] /\ up[s] \in Seq(Event)
      /\ out[w] \in Seq(Event) /\ out[w] # <<>>
  BY CurrentIsStream DEF SendEvent, RoutingInv, PathTypeOK
<1>2. PICK ev \in Event : ev = Head(out[w])
  BY <1>1
<1>3. CASE up'[s] = up[s] /\ ~(s = Current(w) /\ srv[s] # "closed")
  BY <1>1, <1>3, NothingSaid
<1>4. CASE s = Current(w) /\ up'[s] = Append(up[s], ev)
  <2>1. /\ ev.job # j => Quieter(Append(up[s], ev), up[s], j)
        /\ Mentions(up[s], j) => Mentions(Append(up[s], ev), j)
        /\ ev.job = j => Mentions(Append(up[s], ev), j)
        /\ ~Mentions(up[s], j) /\ ev.status = "processing" => OnlyProcessing(Append(up[s], ev), j)
    BY <1>1, AppendSays
  <2> QED
    BY <1>1, <1>2, <1>4, <2>1
<1>5. \/ up'[s] = up[s] /\ ~(s = Current(w) /\ srv[s] # "closed")
      \/ s = Current(w) /\ up'[s] = Append(up[s], ev)
  BY <1>1, <1>2 DEF SendEvent
<1> QED
  BY <1>3, <1>4, <1>5

\* Nothing comes onto a stream but what a worker sends.
LEMMA StreamSays ==
    ASSUME RoutingInv, [RoutingNext]_routingVars, NEW s \in Stream, NEW j
    PROVE  \/ Quieter(up'[s], up[s], j)
           \/ \E w \in Workers : SendEvent(w) /\ Mentions(out[w], j)
<1>1. up \in [Stream -> Seq(Event)]
  BY DEF RoutingInv, PathTypeOK
<1>2. CASE up'[s] = up[s]
  BY <1>2, NothingSaid
<1>3. ASSUME NEW w \in Workers, SendEvent(w)
      PROVE  Quieter(up'[s], up[s], j) \/ Mentions(out[w], j)
  BY <1>3, SendSays, TailSays
<1>4. ASSUME NEW t \in Stream, RecvEvent(t)
      PROVE  Quieter(up'[s], up[s], j)
  <2>1. CASE s # t
    <3>1. up'[s] = up[s]
      BY <1>1, <1>4, <2>1 DEF RecvEvent
    <3> QED
      BY <3>1, NothingSaid
  <2>2. CASE s = t
    <3>1. up[s] \in Seq(Event) /\ up[s] # <<>> /\ up'[s] = Tail(up[s])
      BY <1>1, <1>4, <2>2 DEF RecvEvent
    <3> QED
      BY <3>1, TailSays
  <2> QED
    BY <2>1, <2>2
<1>5. ASSUME NEW t \in Stream, StreamEnds(t)
      PROVE  Quieter(up'[s], up[s], j)
  BY <1>1, <1>2, <1>5, NothingSaid DEF StreamEnds
<1>6. CASE ApiCrash
  BY <1>6, NothingSaid DEF ApiCrash
<1>7. \/ UNCHANGED up \/ ApiCrash
      \/ \E w \in Workers : SendEvent(w)
      \/ \E t \in Stream : RecvEvent(t) \/ StreamEnds(t)
  BY DEF RoutingNext, routingVars, wireVars, QueueStep, ReportBegin, ReportOutcome,
         CrashWorker, Connect, SessionEnds, SendCommand, SendLoopEnds, RecvCommand,
         Lookup, TryRow, TryRowFails, ReadLease, QueueCommand
<1> QED
  BY <1>2, <1>3, <1>4, <1>5, <1>6, <1>7

\* A job that nothing is said of stays so until a worker reports on it.
LEMMA UnheardKept ==
    ASSUME IInv, RoutingInv, [RoutingNext]_routingVars, NEW j,
           Unheard(j), \A v \in Workers : ~Reports(v, j)
    PROVE  Unheard(j)'
<1>1. \A v \in Workers : ~Mentions(out'[v], j)
  BY BufferSays DEF Unheard, Quieter
<1>2. \A s \in Stream : ~Mentions(up'[s], j)
  BY StreamSays DEF Unheard, Quieter
<1> QED
  BY <1>1, <1>2 DEF Unheard, Mentions

-----------------------------------------------------------------------------
(* First runs *)

\* Nobody else has a claim of a job that was claimed once, and nobody has one
\* of a job that never was.
LEMMA FirstClaim ==
    ASSUME IInv, NEW v \in Workers, Busy(v)
    PROVE  /\ held[v].job \in Jobs
           /\ jobs[held[v].job].attempt # 0
           /\ \A w \in Workers :
                 Busy(w) /\ held[w].job = held[v].job /\ jobs[held[v].job].attempt = 1 => v = w
<1>1. \A w \in Workers : Busy(w) => /\ held[w] \in Claim
                                    /\ held[w].token = held[w].attempt
                                    /\ held[w].attempt <= jobs[held[w].job].attempt
  BY DEF IInv, WorkersInv, ClaimShape
<1>2. \A w \in Workers : Busy(w) => held[w].job \in Jobs /\ held[w].attempt \in 1..MaxAttempts
  BY <1>1 DEF Claim
<1>3. \A k \in Jobs : jobs[k].attempt \in Nat
  BY DEF IInv, TypeOK, Row
<1>4. held[v].job \in Jobs /\ jobs[held[v].job].attempt # 0
  BY <1>1, <1>2, <1>3
<1>5. ASSUME NEW w \in Workers, Busy(w), held[w].job = held[v].job,
             jobs[held[v].job].attempt = 1
      PROVE  v = w
  <2>1. held[v].attempt = 1 /\ held[w].attempt = 1
    BY <1>1, <1>2, <1>3, <1>5
  <2> QED
    BY <1>1, <1>5, <2>1 DEF IInv, ClaimsDistinct
<1> QED
  BY <1>4, <1>5

\* Attempts are counted up, one by one.
LEMMA AttemptsGrow ==
    ASSUME IInv, [Next]_vars, NEW j \in Jobs
    PROVE  /\ jobs[j].attempt \in Nat
           /\ jobs'[j].attempt \in {jobs[j].attempt, jobs[j].attempt + 1}
<1>1. jobs[j] \in Row /\ jobs[j].attempt \in Nat
  BY DEF IInv, TypeOK, Row
<1>2. RowChange(j)
  BY StepChangesRow
<1>3. ASSUME NEW w \in Workers PROVE Recorded(jobs[j], outcome[w]).attempt = jobs[j].attempt
  BY <1>1 DEF Recorded, Released, Failed, Row
<1>4. /\ Leased(jobs[j]).attempt = jobs[j].attempt + 1
      /\ \A why : Failed(jobs[j], why).attempt = jobs[j].attempt
      /\ [jobs[j] EXCEPT !.status = "queued"].attempt = jobs[j].attempt
      /\ [jobs[j] EXCEPT !.lease = "expired"].attempt = jobs[j].attempt
  BY <1>1 DEF Leased, Failed, Released, Row
<1> QED
  BY <1>1, <1>2, <1>3, <1>4 DEF RowChange

\* How a worker gets to the two places where a job can be canceled, and to the
\* one before them.
LEMMA RunProgress ==
    ASSUME IInv, [Next]_vars, NEW w \in Workers
    PROVE  /\ pc'[w] \in {"fetch", "put"} =>
                 /\ held'[w] = held[w]
                 /\ \/ Begin(w) /\ run'[w] # "none"
                    \/ pc[w] \in {"fetch", "put"} /\ (run[w] # "none" => run'[w] # "none")
           /\ pc'[w] = "claimed" =>
                 \/ pc[w] = "claimed" /\ held'[w] = held[w]
                 \/ \E j \in Jobs : ClaimJob(w, j) /\ held'[w].job = j
<1>1. /\ pc \in [Workers -> PC] /\ run \in [Workers -> Run] /\ DOMAIN held = Workers
  BY DEF IInv, TypeOK
<1>2. CASE UNCHANGED <<pc[w], held[w], run[w]>>
  BY <1>2
<1>3. ASSUME NEW v \in Workers, NEW j \in Jobs, ClaimJob(v, j)
      PROVE  IF v = w THEN pc'[w] = "claimed" /\ held'[w].job = j
                      ELSE UNCHANGED <<pc[w], held[w], run[w]>>
  BY <1>1, <1>3 DEF ClaimJob
<1>4. ASSUME NEW v \in Workers, v # w,
             Work(v) \/ CancelRunning(v) \/ Crash(v) \/ Restart(v)
      PROVE  UNCHANGED <<pc[w], held[w], run[w]>>
  BY <1>1, <1>4 DEF Work, Begin, FetchOk, FetchFails, PutOk, PutFails, RecordOk,
         RecordReplyLost, RecordLost, Notify, EndRun, Crash, Restart, CancelRunning
<1>5. CASE EndRun(w) \/ Crash(w) \/ Restart(w)
  BY <1>1, <1>5 DEF EndRun, Crash, Restart
<1>6. CASE Begin(w)
  BY <1>1, <1>6 DEF Begin
<1>7. CASE FetchOk(w) \/ RecordOk(w) \/ PutOk(w) \/ FetchFails(w) \/ PutFails(w)
  BY <1>1, <1>7 DEF FetchOk, RecordOk, PutOk, FetchFails, PutFails
<1>8. CASE CancelRunning(w)
  BY <1>1, <1>8 DEF CancelRunning
<1>9. \/ UNCHANGED <<pc, held, run>>
      \/ \E v \in Workers, j \in Jobs : ClaimJob(v, j)
      \/ \E v \in Workers : v # w /\ (Work(v) \/ CancelRunning(v) \/ Crash(v) \/ Restart(v))
      \/ EndRun(w) \/ Crash(w) \/ Restart(w) \/ Begin(w) \/ FetchOk(w) \/ RecordOk(w) \/ PutOk(w)
      \/ FetchFails(w) \/ PutFails(w) \/ CancelRunning(w)
  BY DEF Next, vars, workerVars, Enqueue, Expire, CancelQueued, ClaimReplyLost, FailExhausted,
         Work, RecordReplyLost, RecordLost, Notify
<1> QED
  BY <1>2, <1>3, <1>4, <1>5, <1>6, <1>7, <1>8, <1>9

\* A worker that reports has a claim of the job it reports on.
LEMMA ReporterIsBusy ==
    ASSUME NEW v \in Workers, NEW j, Reports(v, j)
    PROVE  Busy(v) /\ held[v].job = j
BY DEF Reports, ReportBegin, ReportOutcome, Begin, Notify, Busy

-----------------------------------------------------------------------------
(* Streams are opened before they are used *)

LEMMA OpenedNext ==
    ASSUME RoutingInv, OpenedInv, [RoutingNext]_routingVars PROVE OpenedInv'
<1>0. /\ srv \in [Stream -> {"none", "new", "open", "closed"}]
      /\ online \in [Workers -> BOOLEAN] /\ sessions \in [Workers -> 0..MaxSessions]
      /\ told \in [Workers -> Stream \cup {NoStream}]
      /\ \A w \in Workers : online[w] => Current(w) \in Stream
  BY CurrentIsStream DEF RoutingInv, PathTypeOK
<1>1. ASSUME \A s \in Stream : srv[s] # "none" => srv'[s] # "none",
             UNCHANGED sessions,
             \A w \in Workers : /\ online'[w] => online[w]
                                /\ \/ told'[w] \in {told[w], NoStream}
                                   \/ online[w] /\ told'[w] = Current(w)
      PROVE  OpenedInv'
  <2>1. \A w \in Workers : (Current(w))' = Current(w)
    BY <1>1 DEF Current
  <2>2. \A w \in Workers : told'[w] # NoStream => srv'[told'[w]] # "none"
    BY <1>0, <1>1 DEF OpenedInv
  <2>3. \A w \in Workers : online'[w] => srv'[Current(w)] # "none"
    BY <1>0, <1>1 DEF OpenedInv
  <2> QED
    BY <2>1, <2>2, <2>3 DEF OpenedInv
<1>2. ASSUME NEW w \in Workers, Connect(w) PROVE OpenedInv'
  <2>1. sessions[w] \in 0..MaxSessions /\ sessions[w] < MaxSessions
    BY <1>0, <1>2 DEF Connect
  <2>2. PICK s \in Stream : s = [worker |-> w, nr |-> sessions[w] + 1]
    <3>1. sessions[w] + 1 \in 1..MaxSessions
      BY <2>1, RoutingAssumption
    <3>2. [worker |-> w, nr |-> sessions[w] + 1] \in Stream
      BY <3>1 DEF Stream
    <3> QED
      BY <3>2
  <2>3. /\ sessions' = [sessions EXCEPT ![w] = sessions[w] + 1]
        /\ online' = [online EXCEPT ![w] = TRUE]
        /\ srv' = [srv EXCEPT ![s] = "new"]
        /\ UNCHANGED told
    BY <1>2, <2>2 DEF Connect
  <2>4. \A t \in Stream : srv[t] # "none" => srv'[t] # "none"
    BY <1>0, <2>3
  <2>5. \A v \in Workers : told'[v] # NoStream => srv'[told'[v]] # "none"
    BY <1>0, <2>3, <2>4 DEF OpenedInv
  <2>6. (Current(w))' = s /\ \A v \in Workers \ {w} : (Current(v))' = Current(v)
    BY <1>0, <2>2, <2>3 DEF Current
  <2>7. srv'[s] # "none"
    BY <1>0, <2>3
  <2>8. \A v \in Workers \ {w} : online'[v] => srv'[Current(v)] # "none"
    BY <1>0, <2>3, <2>4 DEF OpenedInv
  <2>9. \A v \in Workers : online'[v] => srv'[(Current(v))'] # "none"
    BY <2>6, <2>7, <2>8
  <2> QED
    BY <2>5, <2>9 DEF OpenedInv
<1>3. ASSUME NEW w \in Workers,
             ReportBegin(w) \/ ReportOutcome(w) \/ CrashWorker(w) \/ SessionEnds(w)
      PROVE  OpenedInv'
  BY <1>0, <1>1, <1>3 DEF ReportBegin, ReportOutcome, CrashWorker, SessionEnds, serverVars
<1>4. ASSUME NEW w \in Workers, SendEvent(w) PROVE OpenedInv'
  BY <1>0, <1>1, <1>4 DEF SendEvent, serverVars
<1>5. ASSUME NEW s \in Stream, RecvEvent(s) \/ StreamEnds(s) PROVE OpenedInv'
  BY <1>0, <1>1, <1>5 DEF RecvEvent, StreamEnds, clientVars
<1>6. CASE ApiCrash
  BY <1>0, <1>1, <1>6 DEF ApiCrash, clientVars
<1>7. CASE UNCHANGED <<sessions, online, told, srv>>
  BY <1>1, <1>7
<1>8. \/ UNCHANGED <<sessions, online, told, srv>> \/ ApiCrash
      \/ \E w \in Workers : \/ ReportBegin(w) \/ ReportOutcome(w) \/ CrashWorker(w)
                            \/ Connect(w) \/ SendEvent(w) \/ SessionEnds(w)
      \/ \E s \in Stream : RecvEvent(s) \/ StreamEnds(s)
  BY DEF RoutingNext, routingVars, clientVars, serverVars, QueueStep, SendCommand, SendLoopEnds, RecvCommand,
         Lookup, TryRow, TryRowFails, ReadLease, QueueCommand
<1> QED
  BY <1>2, <1>3, <1>4, <1>5, <1>6, <1>7, <1>8

-----------------------------------------------------------------------------
(* Following the event of a first run *)

\* Nobody else says anything of the job, so its one event goes its way.
LEMMA FollowedKept ==
    ASSUME IInv, RoutingInv, OpenedInv, [RoutingNext]_routingVars,
           NEW w \in Workers, NEW j \in Jobs, Followed(w, j),
           held[w].job = j, run[w] # "none", \A v \in Workers : ~Reports(v, j)
    PROVE  Followed(w, j)'
<1> DEFINE Said   == /\ \A v \in Workers : Mentions(out'[v], j) => v = w /\ told'[w] = NoStream
                     /\ AtMostOnce(out'[w], j) /\ OnlyProcessing(out'[w], j)
           Going  == \A s \in Stream : /\ Mentions(up'[s], j) => s = told'[w]
                                       /\ OnlyProcessing(up'[s], j)
           Routed == told'[w] # NoStream /\ srv'[told'[w]] # "closed" =>
                        leases'[j] = told'[w] \/ Mentions(up'[told'[w]], j)
<1> SUFFICES Said /\ Going /\ Routed
  BY DEF Followed, Mentions, AtMostOnce, OnlyProcessing
<1>1. /\ told \in [Workers -> Stream \cup {NoStream}] /\ NoStream \notin Stream
      /\ out \in [Workers -> Seq(Event)] /\ up \in [Stream -> Seq(Event)]
      /\ srv \in [Stream -> {"none", "new", "open", "closed"}]
      /\ leases \in [Jobs -> Stream \cup {NoStream}]
  BY RoutingAssumption DEF RoutingInv, PathTypeOK
<1>2. /\ \A v \in Workers : Mentions(out[v], j) => v = w /\ told[w] = NoStream
      /\ AtMostOnce(out[w], j) /\ OnlyProcessing(out[w], j)
      /\ \A s \in Stream : (Mentions(up[s], j) => s = told[w]) /\ OnlyProcessing(up[s], j)
      /\ told[w] # NoStream /\ srv[told[w]] # "closed" =>
            leases[j] = told[w] \/ Mentions(up[told[w]], j)
  BY DEF Followed
<1>3. \A v \in Workers : Quieter(out'[v], out[v], j)
  BY BufferSays
<1>4. ASSUME told'[w] = told[w] PROVE Said
  BY <1>2, <1>3, <1>4 DEF Quieter
<1>5. ASSUME told'[w] = told[w], \A s \in Stream : Quieter(up'[s], up[s], j) PROVE Going
  BY <1>2, <1>5 DEF Quieter
<1>6. ASSUME told'[w] = told[w], leases'[j] = leases[j],
             \A s \in Stream : /\ srv[s] = "closed" => srv'[s] = "closed"
                               /\ Mentions(up[s], j) => Mentions(up'[s], j)
      PROVE  Routed
  BY <1>1, <1>2, <1>6
<1> HIDE DEF Said, Going, Routed
<1>7. ASSUME NEW v \in Workers, SendEvent(v) PROVE Said /\ Going /\ Routed
  <2>1. /\ out[v] \in Seq(Event) /\ out[v] # <<>> /\ Current(v) \in Stream
        /\ out' = [out EXCEPT ![v] = Tail(out[v])]
        /\ told' = [told EXCEPT ![v] =
                      IF run[v] # "none" /\ Head(out[v]).status = "processing"
                                         /\ Head(out[v]).job = held[v].job
                      THEN Current(v) ELSE told[v]]
        /\ UNCHANGED <<srv, leases>>
    BY <1>1, <1>7, CurrentIsStream DEF SendEvent, serverVars
  <2>2. CASE Head(out[v]).job # j
    <3>1. told'[w] = told[w]
      BY <1>1, <2>1, <2>2
    <3>2. ASSUME NEW s \in Stream
          PROVE  Quieter(up'[s], up[s], j) /\ (Mentions(up[s], j) => Mentions(up'[s], j))
      <4>1. Quieter(up'[s], up[s], j)
        BY <1>7, <2>2, SendSays
      <4>2. Mentions(up[s], j) => Mentions(up'[s], j)
        BY <1>7, SendSays
      <4> QED
        BY <4>1, <4>2
    <3> QED
      BY <1>4, <1>5, <1>6, <2>1, <3>1, <3>2
  <2>3. CASE Head(out[v]).job = j
    <3>1. v = w /\ told[w] = NoStream
      BY <1>2, <2>1, <2>3, TailSays
    <3>2. Head(out[w]).status = "processing" /\ ~Mentions(Tail(out[w]), j)
      BY <1>2, <2>1, <2>3, <3>1, TailSays
    <3>3. told'[w] = Current(w) /\ out'[w] = Tail(out[w])
      BY <1>1, <2>1, <2>3, <3>1, <3>2
    <3>4. \A s \in Stream : ~Mentions(up[s], j)
      BY <1>1, <1>2, <3>1
    <3>5. Said
      BY <1>2, <1>3, <3>1, <3>2, <3>3 DEF Said, Quieter
    <3>6. ASSUME NEW s \in Stream
          PROVE  (Mentions(up'[s], j) => s = Current(w)) /\ OnlyProcessing(up'[s], j)
      <4>1. SendEvent(w)
        BY <1>7, <3>1
      <4>2. s # Current(w) => Quieter(up'[s], up[s], j)
        BY <4>1, SendSays
      <4>3. OnlyProcessing(up'[s], j)
        BY <3>2, <3>4, <4>1, SendSays
      <4> QED
        BY <3>4, <4>2, <4>3 DEF Quieter
    <3>7. Going
      BY <3>3, <3>6 DEF Going
    <3>8. srv[Current(w)] # "closed" => Mentions(up'[Current(w)], j)
      BY <1>7, <2>1, <2>3, <3>1, SendSays
    <3>9. Routed
      BY <2>1, <3>3, <3>8 DEF Routed
    <3> QED
      BY <3>5, <3>7, <3>9
  <2> QED
    BY <2>2, <2>3
<1>8. ASSUME NEW t \in Stream, RecvEvent(t) PROVE Said /\ Going /\ Routed
  <2>1. /\ up[t] \in Seq(Event) /\ up[t] # <<>> /\ UNCHANGED told
        /\ up' = [up EXCEPT ![t] = Tail(up[t])] /\ srv[t] # "closed"
        /\ srv' = [srv EXCEPT ![t] = "open"] /\ leases' = Tracked(t, Head(up[t]))
    BY <1>1, <1>8 DEF RecvEvent, clientVars
  <2>2. PICK ev \in Event : ev = Head(up[t])
    BY <2>1, TailSays
  <2>3. /\ Quieter(Tail(up[t]), up[t], j)
        /\ Mentions(up[t], j) => Mentions(Tail(up[t]), j) \/ ev.job = j
        /\ ev.job = j => Mentions(up[t], j)
        /\ ev.job = j /\ OnlyProcessing(up[t], j) => ev.status = "processing"
    BY <2>1, <2>2, TailSays
  <2>4. /\ up'[t] = Tail(up[t])
        /\ \A s \in Stream : s # t => up'[s] = up[s] /\ Quieter(up'[s], up[s], j)
    BY <1>1, <2>1, NothingSaid
  <2>5. \A s \in Stream : Quieter(up'[s], up[s], j)
    BY <2>3, <2>4
  <2>6. CASE ev.job # j
    <3>1. leases'[j] = leases[j]
      BY <1>1, <2>1, <2>2, <2>6 DEF Tracked
    <3>2. \A s \in Stream : /\ srv[s] = "closed" => srv'[s] = "closed"
                            /\ Mentions(up[s], j) => Mentions(up'[s], j)
      BY <1>1, <2>1, <2>3, <2>4, <2>6
    <3> QED
      BY <1>4, <1>5, <1>6, <2>1, <2>5, <3>1, <3>2
  <2>7. CASE ev.job = j
    <3>1. t = told[w] /\ ev.status = "processing"
      BY <1>2, <2>3, <2>7
    <3>2. leases'[j] = t
      BY <1>1, <2>1, <2>2, <2>7, <3>1 DEF Tracked
    <3>3. Routed
      BY <2>1, <3>1, <3>2 DEF Routed
    <3> QED
      BY <1>4, <1>5, <2>1, <2>5, <3>3
  <2> QED
    BY <2>6, <2>7
<1>9. ASSUME NEW t \in Stream, StreamEnds(t) PROVE Said /\ Going /\ Routed
  <2>1. /\ UNCHANGED told /\ up' = [up EXCEPT ![t] = <<>>]
        /\ srv' = [srv EXCEPT ![t] = "closed"] /\ leases' = Unregistered(t)
    BY <1>9 DEF StreamEnds, clientVars
  <2>2. /\ \A s \in Stream : s # t => up'[s] = up[s]
        /\ \A s \in Stream : Quieter(up'[s], up[s], j)
    BY <1>1, <2>1, NothingSaid
  <2>3. leases[j] # t => leases'[j] = leases[j]
    BY <2>1 DEF Unregistered
  <2>4. srv'[t] = "closed" /\ \A s \in Stream : s # t => srv'[s] = srv[s]
    BY <1>1, <2>1
  <2>5. told[w] # NoStream => told[w] \in Stream
    BY <1>1
  <2>6. Routed
    BY <1>2, <2>1, <2>2, <2>3, <2>4, <2>5 DEF Routed
  <2> QED
    BY <1>4, <1>5, <2>1, <2>2, <2>6
<1>10. CASE ApiCrash
  <2>1. /\ UNCHANGED told /\ \A s \in Stream : up'[s] = <<>>
        /\ \A s \in Stream : srv[s] # "none" => srv'[s] = "closed"
    BY <1>10 DEF ApiCrash, clientVars
  <2>2. \A s \in Stream : Quieter(up'[s], up[s], j)
    BY <2>1, NothingSaid
  <2>3. Routed
    BY <1>1, <2>1 DEF Routed, OpenedInv
  <2> QED
    BY <1>4, <1>5, <2>1, <2>2, <2>3
<1>11. ASSUME told'[w] = told[w], UNCHANGED <<up, leases>>,
              \A s \in Stream : srv[s] = "closed" => srv'[s] = "closed"
       PROVE  Said /\ Going /\ Routed
  <2>1. \A s \in Stream : Quieter(up'[s], up[s], j)
    BY <1>11, NothingSaid
  <2> QED
    BY <1>4, <1>5, <1>6, <1>11, <2>1
<1>12. ASSUME NEW v \in Workers,
              ReportBegin(v) \/ ReportOutcome(v) \/ CrashWorker(v) \/ SessionEnds(v)
       PROVE  Said /\ Going /\ Routed
  <2>1. UNCHANGED <<up, leases, srv>>
    BY <1>12 DEF ReportBegin, ReportOutcome, CrashWorker, SessionEnds, wireVars, serverVars
  <2>2. told'[w] = told[w]
    <3>1. ReportBegin(v) => v # w
      BY DEF Reports
    <3> QED
      BY <1>1, <1>12, <3>1 DEF ReportBegin, ReportOutcome, CrashWorker, SessionEnds
  <2> QED
    BY <1>11, <2>1, <2>2
<1>13. ASSUME NEW v \in Workers, Connect(v) PROVE Said /\ Going /\ Routed
  <2>1. sessions[v] \in 0..MaxSessions /\ sessions[v] < MaxSessions
    BY <1>13 DEF Connect, RoutingInv, PathTypeOK
  <2>2. PICK s \in Stream : s = [worker |-> v, nr |-> sessions[v] + 1]
    <3>1. sessions[v] + 1 \in 1..MaxSessions
      BY <2>1, RoutingAssumption
    <3>2. [worker |-> v, nr |-> sessions[v] + 1] \in Stream
      BY <3>1 DEF Stream
    <3> QED
      BY <3>2
  <2>3. srv[s] = "none"
    <3>1. s.worker = v /\ s.nr > sessions[v]
      BY <2>1, <2>2
    <3> QED
      BY <3>1 DEF RoutingInv, SessionInv
  <2>4. srv' = [srv EXCEPT ![s] = "new"] /\ UNCHANGED <<told, up, leases>>
    BY <1>13, <2>2 DEF Connect, wireVars
  <2>5. \A t \in Stream : srv[t] = "closed" => srv'[t] = "closed"
    BY <1>1, <2>3, <2>4
  <2> QED
    BY <1>11, <2>4, <2>5
<1>14. CASE UNCHANGED <<told, up, leases, srv>>
  BY <1>11, <1>14
<1>15. \/ UNCHANGED <<told, up, leases, srv>> \/ ApiCrash
       \/ \E v \in Workers : \/ ReportBegin(v) \/ ReportOutcome(v) \/ CrashWorker(v)
                             \/ Connect(v) \/ SendEvent(v) \/ SessionEnds(v)
       \/ \E s \in Stream : RecvEvent(s) \/ StreamEnds(s)
  BY DEF RoutingNext, routingVars, clientVars, wireVars, serverVars, QueueStep, SendCommand,
         SendLoopEnds, RecvCommand, Lookup, TryRow, TryRowFails, ReadLease, QueueCommand
<1> QED
  BY <1>7, <1>8, <1>9, <1>10, <1>12, <1>13, <1>14, <1>15

\* A run begins by reporting it.
LEMMA OnlyReportBegins ==
    ASSUME IInv, [RoutingNext]_routingVars, NEW w \in Workers,
           pc[w] = "claimed", pc'[w] = "fetch"
    PROVE  ReportBegin(w)
<1>1. pc \in [Workers -> PC]
  BY DEF IInv, TypeOK
<1>2. ASSUME NEW v \in Workers, ReportBegin(v) PROVE v = w
  BY <1>1, <1>2 DEF ReportBegin, Begin
<1>3. CASE QueueStep
  BY <1>1, <1>3 DEF QueueStep, Enqueue, Expire, ClaimJob, ClaimReplyLost, FetchOk, FetchFails,
     PutOk, PutFails, RecordOk, RecordReplyLost, RecordLost, EndRun, Restart, FailExhausted,
     workerVars
<1>4. ASSUME NEW v \in Workers, ReportOutcome(v) \/ CrashWorker(v) PROVE FALSE
  BY <1>1, <1>4 DEF ReportOutcome, CrashWorker, Notify, EndRun, Crash
<1>5. CASE UNCHANGED pc
  BY <1>5
<1>6. \/ QueueStep \/ UNCHANGED pc
      \/ \E v \in Workers : ReportBegin(v) \/ ReportOutcome(v) \/ CrashWorker(v)
  BY DEF RoutingNext, routingVars, vars, ApiCrash, Connect, SendEvent, SessionEnds, RecvEvent,
         StreamEnds, SendCommand, SendLoopEnds, RecvCommand, CancelRunning, Lookup, TryRow, TryRowFails,
         CancelQueued, workerVars, ReadLease, QueueCommand
<1> QED
  BY <1>2, <1>3, <1>4, <1>5, <1>6

\* The run starts, and its event is in the worker's buffer.
LEMMA FollowedFromBegin ==
    ASSUME IInv, RoutingInv, NEW w \in Workers, ReportBegin(w), Unheard(held[w].job)
    PROVE  Followed(w, held[w].job)'
<1>1. held[w].job \in Jobs
  BY RunningWorker DEF ReportBegin, Begin, Busy
<1>2. PICK j \in Jobs : j = held[w].job
  BY <1>1
<1>3. PICK ev \in Event : ev = [job |-> j, status |-> "processing"]
  BY DEF Event
<1>4. /\ Emit(w, ev) /\ UNCHANGED <<up, held>> /\ told' = [told EXCEPT ![w] = NoStream]
      /\ told \in [Workers -> Stream \cup {NoStream}]
  BY <1>2, <1>3 DEF ReportBegin, Begin, wireVars, RoutingInv, PathTypeOK
<1>5. told'[w] = NoStream
  BY <1>4
<1>6. /\ \A v \in Workers : ~Mentions(out[v], j)
      /\ \A s \in Stream : ~Mentions(up[s], j)
  BY <1>2 DEF Unheard
<1>7. /\ \A v \in Workers : Mentions(out'[v], j) => v = w
      /\ AtMostOnce(out'[w], j) /\ OnlyProcessing(out'[w], j)
  BY <1>3, <1>4, <1>6, EmitSays
<1>8. \A s \in Stream : ~Mentions(up'[s], j) /\ OnlyProcessing(up'[s], j)
  BY <1>4, <1>6, NothingSaid
<1>9. held'[w].job = j
  BY <1>2, <1>4
<1> QED
  BY <1>5, <1>7, <1>8, <1>9 DEF Followed, Mentions, AtMostOnce, OnlyProcessing

LEMMA FirstRunNext ==
    ASSUME IInv, RoutingInv, FirstRunInv, [RoutingNext]_routingVars PROVE FirstRunInv'
<1>1. [Next]_vars
  BY RoutingStepIsQueueStep
<1>2. OpenedInv'
  BY OpenedNext DEF FirstRunInv
<1>3. ASSUME NEW w \in Workers, pc'[w] \in {"fetch", "put"} PROVE run'[w] # "none"
  BY <1>1, <1>3, RunProgress DEF FirstRunInv
<1>4. ASSUME NEW j \in Jobs, jobs'[j].attempt = 0 PROVE Unheard(j)'
  <2>1. jobs[j].attempt = 0
    BY <1>1, <1>4, AttemptsGrow
  <2>2. \A v \in Workers : ~Reports(v, j)
    BY <2>1, ReporterIsBusy, FirstClaim
  <2>3. Unheard(j)
    BY <2>1 DEF FirstRunInv
  <2> QED
    BY <2>2, <2>3, UnheardKept
<1>5. ASSUME NEW w \in Workers, pc'[w] = "claimed", jobs'[held'[w].job].attempt = 1
      PROVE  Unheard(held[w].job)'
  <2>1. CASE pc[w] = "claimed" /\ held'[w] = held[w]
    <3>1. Busy(w)
      BY <2>1 DEF Busy
    <3>2. PICK j \in Jobs : j = held[w].job
      BY <3>1, FirstClaim
    <3>3. jobs[j].attempt = 1
      BY <1>1, <1>5, <2>1, <3>1, <3>2, AttemptsGrow, FirstClaim
    <3>4. Unheard(j)
      BY <2>1, <3>2, <3>3 DEF FirstRunInv
    <3>5. ASSUME NEW v \in Workers, Reports(v, j) PROVE FALSE
      <4>1. v = w
        BY <3>1, <3>2, <3>3, <3>5, ReporterIsBusy, FirstClaim
      <4>2. ReportBegin(w) \/ ReportOutcome(w)
        BY <3>5, <4>1 DEF Reports
      <4>3. pc'[w] # "claimed"
        BY <4>2 DEF ReportBegin, ReportOutcome, Begin, Notify, EndRun, IInv, TypeOK
      <4> QED
        BY <1>5, <4>3
    <3>6. Unheard(j)'
      BY <3>4, <3>5, UnheardKept
    <3> QED
      BY <2>1, <3>2, <3>6 DEF Unheard, Mentions
  <2>2. ASSUME NEW j \in Jobs, ClaimJob(w, j), held'[w].job = j PROVE Unheard(held[w].job)'
    <3>1. jobs[j] \in Row /\ jobs[j].attempt \in Nat /\ jobs' = [jobs EXCEPT ![j] = Leased(jobs[j])]
      BY <2>2 DEF ClaimJob, IInv, TypeOK, Row
    <3>2. jobs'[j].attempt = jobs[j].attempt + 1
      BY <3>1 DEF Leased, Row, IInv, TypeOK
    <3>3. jobs[j].attempt = 0
      BY <1>5, <2>2, <3>1, <3>2
    <3>4. \A v \in Workers : ~Reports(v, j)
      BY <3>3, ReporterIsBusy, FirstClaim
    <3>5. Unheard(j)'
      BY <3>3, <3>4, UnheardKept DEF FirstRunInv
    <3> QED
      BY <2>2, <3>5 DEF Unheard, Mentions
  <2> QED
    BY <1>1, <1>5, <2>1, <2>2, RunProgress
<1>6. ASSUME NEW w \in Workers, pc'[w] \in {"fetch", "put"}, jobs'[held'[w].job].attempt = 1
      PROVE  Followed(w, held[w].job)'
  <2>1. held'[w] = held[w] /\ (Begin(w) \/ pc[w] \in {"fetch", "put"})
    BY <1>1, <1>6, RunProgress
  <2>2. Busy(w)
    BY <2>1 DEF Busy, Begin
  <2>3. PICK j \in Jobs : j = held[w].job
    BY <2>2, FirstClaim
  <2>4. jobs[j].attempt = 1
    BY <1>1, <1>6, <2>1, <2>2, <2>3, AttemptsGrow, FirstClaim
  <2>5. \A v \in Workers : Reports(v, j) => v = w
    BY <2>2, <2>3, <2>4, ReporterIsBusy, FirstClaim
  <2>6. Followed(w, j)'
    <3>1. CASE pc[w] \in {"fetch", "put"}
      <4>1. Followed(w, j) /\ run[w] # "none"
        BY <2>3, <2>4, <3>1 DEF FirstRunInv, InFirstRun
      <4>2. ~Reports(w, j)
        BY <1>6, <3>1 DEF Reports, ReportBegin, ReportOutcome, Begin, Notify
      <4> QED
        BY <2>3, <2>5, <4>1, <4>2, FollowedKept DEF FirstRunInv
    <3>2. CASE pc[w] = "claimed"
      <4>1. Begin(w)
        BY <2>1, <3>2
      <4>2. pc'[w] = "fetch"
        BY <4>1 DEF Begin, IInv, TypeOK
      <4>3. Unheard(j)
        BY <2>3, <2>4, <3>2 DEF FirstRunInv
      <4>4. ReportBegin(w)
        BY <3>2, <4>1, <4>2, OnlyReportBegins
      <4>5. Followed(w, held[w].job)'
        BY <2>3, <4>3, <4>4, FollowedFromBegin
      <4> QED
        BY <2>1, <2>3, <4>5 DEF Followed, Mentions, AtMostOnce, OnlyProcessing
    <3> QED
      BY <2>1, <3>1, <3>2 DEF Begin
  <2> QED
    BY <2>1, <2>3, <2>6 DEF Followed, Mentions, AtMostOnce, OnlyProcessing
<1>7. /\ \A w \in Workers : (pc[w] \in {"fetch", "put"} => run[w] # "none")'
      /\ \A j \in Jobs : (jobs[j].attempt = 0 => Unheard(j))'
      /\ \A w \in Workers : (pc[w] = "claimed" /\ jobs[held[w].job].attempt = 1
                                => Unheard(held[w].job))'
      /\ \A w \in Workers : (InFirstRun(w) => Followed(w, held[w].job))'
  BY <1>3, <1>4, <1>5, <1>6 DEF InFirstRun
<1> QED
  BY <1>2, <1>7 DEF FirstRunInv

LEMMA FirstRunInit == ASSUME RoutingInit PROVE FirstRunInv
<1>1. /\ \A w \in Workers : out[w] = <<>> /\ told[w] = NoStream /\ online[w] = FALSE
                            /\ pc[w] = "drain"
      /\ \A s \in Stream : up[s] = <<>>
  BY DEF RoutingInit, Init
<1>2. \A j \in Jobs : Unheard(j)
  BY <1>1, NothingSaid DEF Unheard
<1> QED
  BY <1>1, <1>2 DEF FirstRunInv, OpenedInv, InFirstRun

\* What is said of a job up to and in its first run, for any behaviour.
THEOREM FirstRunInvariant == RoutingSpec => []FirstRunInv
BY FirstRunInit, FirstRunNext, RoutingInvariant, PTL DEF RoutingSpec

\* In its first attempt a job can be canceled: once the worker's PROCESSING
\* event has gone up its stream and everything sent there was read, the table
\* leads to that stream, whatever other jobs, workers and streams do.
THEOREM FirstRunRouted == RoutingSpec => []FirstRunIsRouted
<1>1. RoutingInv /\ FirstRunInv => FirstRunIsRouted
  <2> SUFFICES ASSUME RoutingInv, FirstRunInv, NEW w \in Workers, InFirstRun(w), online[w],
                      told[w] = Current(w), srv[Current(w)] = "open", Silent(w)
               PROVE  leases[held[w].job] = Current(w)
    BY DEF FirstRunIsRouted, InFirstRun
  <2>1. Current(w) \in Stream /\ Current(w) # NoStream
    BY CurrentIsStream, RoutingAssumption
  <2>2. ~Mentions(up[Current(w)], held[w].job)
    BY NothingSaid DEF Silent
  <2> QED
    BY <2>1, <2>2 DEF FirstRunInv, Followed
<1> QED
  BY <1>1, RoutingInvariant, FirstRunInvariant, PTL

-----------------------------------------------------------------------------
(* A cancel of a first run arrives *)

\* Nobody has been led to a worker for the job.
Unrouted(j) ==
    /\ leases[j] = NoStream
    /\ \A r \in Requests : req[r].job = j => req[r].at \notin {"send", "canceling"}

FirstCancelInv ==
    /\ \A r \in Requests : req[r].at \in {"send", "canceling"} =>
          req[r].stream \in Stream /\ srv[req[r].stream] \in {"open", "closed"}
    /\ \A j \in Jobs : jobs[j].attempt = 0 => Unrouted(j)
    /\ \A w \in Workers : pc[w] = "claimed" /\ jobs[held[w].job].attempt = 1
                             => Unrouted(held[w].job)
    /\ FirstCancelArrives

LEMMA CommandQueues ==
    ASSUME NEW q \in Seq(Jobs), NEW j, NEW k \in Jobs
    PROVE  /\ IsIn(q, j) => IsIn(Append(q, k), j)
           /\ IsIn(Append(q, k), k)
           /\ q # <<>> /\ Head(q) # j /\ IsIn(q, j) => IsIn(Tail(q), j)
<1> DEFINE a == Append(q, k)
<1>1. /\ Len(q) \in Nat /\ Len(a) = Len(q) + 1 /\ a[Len(q) + 1] = k
      /\ \A i \in 1..Len(q) : a[i] = q[i]
  BY AppendProperties, LenProperties
<1>2. Len(q) + 1 \in 1..Len(a) /\ \A i \in 1..Len(q) : i \in 1..Len(a)
  BY <1>1
<1>3. ASSUME q # <<>>, Head(q) # j, NEW i \in 1..Len(q), q[i] = j
      PROVE  \E k0 \in 1..Len(Tail(q)) : Tail(q)[k0] = j
  <2>1. Len(q) > 0 /\ Head(q) = q[1] /\ Len(Tail(q)) = Len(q) - 1
    BY <1>1, <1>3
  <2>2. i # 1
    BY <1>3, <2>1
  <2>3. i - 1 \in 1..Len(Tail(q))
    BY <1>1, <2>1, <2>2
  <2>4. Tail(q)[i - 1] = q[i]
    BY <1>3, <2>1, <2>3
  <2> QED
    BY <1>3, <2>3, <2>4
<1> HIDE DEF a
<1>4. IsIn(q, j) => IsIn(a, j)
  BY <1>1, <1>2 DEF IsIn
<1>5. IsIn(a, k)
  BY <1>1, <1>2 DEF IsIn
<1> QED
  BY <1>3, <1>4, <1>5 DEF IsIn, a

\* A stream is opened once: its state only moves on.
LEMMA StreamsMoveOn ==
    ASSUME RoutingInv, [RoutingNext]_routingVars, NEW s \in Stream
    PROVE  /\ srv[s] = "closed" => srv'[s] = "closed"
           /\ srv[s] \in {"open", "closed"} => srv'[s] \in {"open", "closed"}
<1>1. srv \in [Stream -> {"none", "new", "open", "closed"}]
  BY DEF RoutingInv, PathTypeOK
<1>2. CASE UNCHANGED srv
  BY <1>2
<1>3. ASSUME NEW v \in Workers, Connect(v)
      PROVE  srv[s] \in {"open", "closed"} => srv'[s] = srv[s]
  <2>1. sessions[v] \in 0..MaxSessions /\ sessions[v] < MaxSessions
    BY <1>3 DEF Connect, RoutingInv, PathTypeOK
  <2>2. PICK t : t = [worker |-> v, nr |-> sessions[v] + 1]
    OBVIOUS
  <2>3. srv' = [srv EXCEPT ![t] = "new"]
    BY <1>3, <2>2 DEF Connect
  <2>4. CASE s = t
    <3>1. s.worker = v /\ s.nr > sessions[v]
      BY <2>1, <2>2, <2>4
    <3>2. srv[s] = "none"
      BY <3>1 DEF RoutingInv, SessionInv
    <3> QED
      BY <3>2
  <2>5. CASE s # t
    BY <1>1, <2>3, <2>5
  <2> QED
    BY <2>4, <2>5
<1>4. ASSUME NEW t \in Stream, RecvEvent(t) \/ StreamEnds(t)
      PROVE  /\ srv[s] = "closed" => srv'[s] = "closed"
             /\ srv[s] \in {"open", "closed"} => srv'[s] \in {"open", "closed"}
  BY <1>1, <1>4 DEF RecvEvent, StreamEnds
<1>5. CASE ApiCrash
  BY <1>1, <1>5 DEF ApiCrash
<1>6. \/ UNCHANGED srv \/ ApiCrash \/ \E v \in Workers : Connect(v)
      \/ \E t \in Stream : RecvEvent(t) \/ StreamEnds(t)
  BY DEF RoutingNext, routingVars, serverVars, QueueStep, ReportBegin, ReportOutcome, CrashWorker,
         SendEvent, SessionEnds, SendCommand, SendLoopEnds, RecvCommand, Lookup, TryRow, TryRowFails,
         ReadLease, QueueCommand
<1> QED
  BY <1>2, <1>3, <1>4, <1>5, <1>6

\* What a handler does next: it answers "canceling" only for a command it
\* queues, and knows a stream only from the table.
LEMMA HandlerProgress ==
    ASSUME RoutingInv, [RoutingNext]_routingVars, NEW r \in Requests,
           req'[r].at \in {"send", "canceling"}
    PROVE  \/ req'[r] = req[r]
           \/ /\ ReadLease(r) /\ UNCHANGED srv /\ req'[r].at = "send"
              /\ req'[r].job = req[r].job /\ req'[r].stream = leases[req[r].job]
              /\ leases[req[r].job] # NoStream
           \/ /\ QueueCommand(r) /\ UNCHANGED <<srv, sessions, online>>
              /\ req[r].at = "send" /\ req'[r].job = req[r].job
              /\ req'[r].stream = req[r].stream
              /\ req'[r].at = "canceling" => IsIn(send'[req[r].stream], req[r].job)
<1>1. /\ req \in [Requests -> Handler] /\ req[r] \in Handler
      /\ send \in [Stream -> Seq(Jobs)]
  BY DEF RoutingInv, PathTypeOK
<1>2. CASE ReadLease(r)
  BY <1>1, <1>2 DEF ReadLease, serverVars, Handler
<1>3. CASE QueueCommand(r)
  <2>1. req[r].stream \in Stream /\ req[r].job \in Jobs /\ req[r].at = "send"
    BY <1>3 DEF QueueCommand, RoutingInv, HandlerInv
  <2>2. /\ req'[r].job = req[r].job /\ req'[r].stream = req[r].stream
        /\ req'[r].at = "canceling" =>
              send' = [send EXCEPT ![req[r].stream] = Append(@, req[r].job)]
    BY <1>1, <1>3 DEF QueueCommand, At, Handler
  <2>3. IsIn(Append(send[req[r].stream], req[r].job), req[r].job)
    BY <1>1, <2>1, CommandQueues
  <2> QED
    BY <1>1, <1>3, <2>1, <2>2, <2>3 DEF QueueCommand, clientVars
<1>4. ASSUME NEW q \in Requests \ {r},
             TryRow(q) \/ TryRowFails(q) \/ ReadLease(q) \/ QueueCommand(q)
                \/ \E j \in Jobs : Lookup(q, j)
      PROVE  req'[r] = req[r]
  BY <1>1, <1>4 DEF TryRow, TryRowFails, ReadLease, QueueCommand, Lookup, At
<1>5. ASSUME TryRow(r) \/ TryRowFails(r) PROVE FALSE
  BY <1>1, <1>5 DEF TryRow, TryRowFails, At, Handler
<1>6. ASSUME NEW j \in Jobs, Lookup(r, j) PROVE FALSE
  BY <1>1, <1>6 DEF Lookup
<1>7. CASE ApiCrash
  BY <1>1, <1>7 DEF ApiCrash, Handler
<1>8. \/ UNCHANGED req \/ ApiCrash
      \/ \E q \in Requests : TryRow(q) \/ TryRowFails(q) \/ ReadLease(q) \/ QueueCommand(q)
                                \/ \E j \in Jobs : Lookup(q, j)
  BY DEF RoutingNext, routingVars, QueueStep, ReportBegin, ReportOutcome, CrashWorker,
         Connect, SendEvent, SessionEnds, RecvEvent, StreamEnds, SendCommand, SendLoopEnds, RecvCommand
<1> QED
  BY <1>2, <1>3, <1>4, <1>5, <1>6, <1>7, <1>8

\* The table gets an entry for a job only from what is said of it.
LEMMA LeaseProgress ==
    ASSUME RoutingInv, [RoutingNext]_routingVars, NEW j \in Jobs,
           \A s \in Stream : ~Mentions(up[s], j)
    PROVE  leases'[j] \in {leases[j], NoStream}
<1>1. leases \in [Jobs -> Stream \cup {NoStream}] /\ up \in [Stream -> Seq(Event)]
  BY DEF RoutingInv, PathTypeOK
<1>2. ASSUME NEW t \in Stream, RecvEvent(t) PROVE leases'[j] = leases[j]
  <2>1. /\ up[t] \in Seq(Event) /\ up[t] # <<>> /\ leases' = Tracked(t, Head(up[t]))
    BY <1>1, <1>2 DEF RecvEvent
  <2>2. Head(up[t]) \in Event /\ Head(up[t]).job # j
    BY <2>1, TailSays
  <2> QED
    BY <1>1, <2>1, <2>2 DEF Tracked
<1>3. ASSUME NEW t \in Stream, StreamEnds(t) PROVE leases'[j] \in {leases[j], NoStream}
  BY <1>3 DEF StreamEnds, Unregistered
<1>4. CASE ApiCrash
  BY <1>4 DEF ApiCrash
<1>5. \/ UNCHANGED leases \/ ApiCrash \/ \E t \in Stream : RecvEvent(t) \/ StreamEnds(t)
  BY DEF RoutingNext, routingVars, serverVars, QueueStep, ReportBegin, ReportOutcome, CrashWorker,
         Connect, SendEvent, SessionEnds, SendCommand, SendLoopEnds, RecvCommand, Lookup, TryRow, TryRowFails,
         ReadLease, QueueCommand
<1> QED
  BY <1>2, <1>3, <1>4, <1>5

LEMMA UnroutedKept ==
    ASSUME RoutingInv, [RoutingNext]_routingVars, NEW j \in Jobs, Unheard(j), Unrouted(j)
    PROVE  Unrouted(j)'
<1>1. leases'[j] = NoStream
  BY LeaseProgress DEF Unheard, Unrouted
<1>2. ASSUME NEW r \in Requests, req'[r].job = j, req'[r].at \in {"send", "canceling"}
      PROVE  FALSE
  BY <1>2, HandlerProgress DEF Unrouted
<1> QED
  BY <1>1, <1>2 DEF Unrouted

\* A command stays on its way as long as its stream is up, with its sendLoop, and
\* is its worker's, or it cancels the run.
LEMMA CommandProgress ==
    ASSUME RoutingInv, [RoutingNext]_routingVars, NEW w \in Workers, NEW j \in Jobs,
           online[w], Current(w) \in Stream, srv'[Current(w)] = "open", Current(w) \in senders',
           pc'[w] # "down", run'[w] = "running", held[w].job = j,
           IsIn(send[Current(w)], j) \/ IsIn(down[Current(w)], j),
           DOMAIN run = Workers, run[w] = "running"
    PROVE  IsIn(send'[Current(w)], j) \/ IsIn(down'[Current(w)], j)
<1>1. PICK s \in Stream : s = Current(w)
  OBVIOUS
<1>2. /\ send \in [Stream -> Seq(Jobs)] /\ down \in [Stream -> Seq(Jobs)]
      /\ srv \in [Stream -> {"none", "new", "open", "closed"}]
      /\ s.worker = w
  BY <1>1 DEF RoutingInv, PathTypeOK, Current
<1> DEFINE On(a, b) == IsIn(a, j) \/ IsIn(b, j)
<1>3. On(send[s], down[s])
  BY <1>1
<1> HIDE DEF On
<1> SUFFICES On(send'[s], down'[s])
  BY <1>1 DEF On
<1>4. CASE send'[s] = send[s] /\ down'[s] = down[s]
  BY <1>3, <1>4
<1>5. ASSUME NEW t \in Stream, SendCommand(t) PROVE On(send'[s], down'[s])
  <2>1. CASE t # s
    BY <1>2, <1>4, <1>5, <2>1 DEF SendCommand
  <2>2. CASE t = s
    <3>1. /\ send[s] \in Seq(Jobs) /\ send[s] # <<>> /\ down[s] \in Seq(Jobs)
          /\ Head(send[s]) \in Jobs
          /\ send'[s] = Tail(send[s]) /\ down'[s] = Append(down[s], Head(send[s]))
      BY <1>1, <1>2, <1>5, <2>2 DEF SendCommand
    <3>2. /\ IsIn(down[s], j) => IsIn(Append(down[s], Head(send[s])), j)
          /\ IsIn(Append(down[s], Head(send[s])), Head(send[s]))
          /\ Head(send[s]) # j /\ IsIn(send[s], j) => IsIn(Tail(send[s]), j)
      BY <3>1, CommandQueues
    <3> QED
      BY <1>3, <3>1, <3>2 DEF On
  <2> QED
    BY <2>1, <2>2
<1>6. ASSUME NEW t \in Stream, RecvCommand(t) PROVE On(send'[s], down'[s])
  <2>1. CASE t # s
    BY <1>2, <1>4, <1>6, <2>1 DEF RecvCommand, serverVars
  <2>2. CASE t = s
    <3>1. /\ down[s] \in Seq(Jobs) /\ down[s] # <<>> /\ Head(down[s]) \in Jobs
          /\ down'[s] = Tail(down[s]) /\ send'[s] = send[s]
      BY <1>2, <1>6, <2>2 DEF RecvCommand, serverVars
    <3>2. Head(down[s]) # j
      <4> SUFFICES ASSUME Head(down[s]) = j PROVE FALSE
        OBVIOUS
      <4>1. CancelRunning(w)
        BY <1>2, <1>6, <2>2 DEF RecvCommand, Holds
      <4> QED
        BY <4>1 DEF CancelRunning
    <3>3. IsIn(down[s], j) => IsIn(Tail(down[s]), j)
      BY <3>1, <3>2, CommandQueues
    <3> QED
      BY <1>3, <3>1, <3>3 DEF On
  <2> QED
    BY <2>1, <2>2
<1>7. ASSUME NEW r \in Requests, QueueCommand(r) PROVE On(send'[s], down'[s])
  <2>1. req[r].stream \in Stream /\ req[r].job \in Jobs
    BY <1>7 DEF QueueCommand, RoutingInv, HandlerInv
  <2>2. down' = down /\ (\/ send' = send
                         \/ send' = [send EXCEPT ![req[r].stream] = Append(@, req[r].job)])
    BY <1>7 DEF QueueCommand, wireVars
  <2>3. IsIn(send[s], j) => IsIn(Append(send[s], req[r].job), j)
    BY <1>2, <2>1, CommandQueues
  <2> QED
    BY <1>2, <1>3, <2>1, <2>2, <2>3 DEF On
<1>8. ASSUME NEW v \in Workers, CrashWorker(v) PROVE On(send'[s], down'[s])
  <2>1. v # w
    BY <1>8 DEF CrashWorker, Crash
  <2> QED
    BY <1>2, <1>4, <1>8, <2>1 DEF CrashWorker, serverVars
<1>9. ASSUME ApiCrash PROVE FALSE
  BY <1>1, <1>9 DEF ApiCrash
<1>10. ASSUME NEW t \in Stream, SendLoopEnds(t) PROVE On(send'[s], down'[s])
  <2>1. t # s
    BY <1>1, <1>10 DEF SendLoopEnds
  <2> QED
    BY <1>2, <1>4, <1>10, <2>1 DEF SendLoopEnds, wireVars
<1>11. \/ UNCHANGED <<send, down>> \/ ApiCrash
       \/ \E t \in Stream : SendCommand(t) \/ SendLoopEnds(t) \/ RecvCommand(t)
       \/ \E r \in Requests : QueueCommand(r)
       \/ \E v \in Workers : CrashWorker(v)
  BY DEF RoutingNext, routingVars, serverVars, wireVars, QueueStep, ReportBegin, ReportOutcome,
         Connect, SendEvent, SessionEnds, RecvEvent, StreamEnds, Lookup, TryRow, TryRowFails,
         ReadLease
<1> QED
  BY <1>4, <1>5, <1>6, <1>7, <1>8, <1>9, <1>10, <1>11

\* A sendLoop starts with the first event of its stream, and only then.
LEMMA SenderStarts ==
    ASSUME [RoutingNext]_routingVars, NEW s \in Stream, srv[s] # "new", s \in senders'
    PROVE  s \in senders
<1>1. ASSUME NEW t \in Stream, RecvEvent(t) PROVE s \in senders
  BY <1>1 DEF RecvEvent
<1>2. \/ senders' \subseteq senders \/ \E t \in Stream : RecvEvent(t)
  BY DEF RoutingNext, routingVars, serverVars, QueueStep, ReportBegin, ReportOutcome, CrashWorker,
         Connect, SendEvent, SessionEnds, StreamEnds, SendCommand, SendLoopEnds, RecvCommand,
         Lookup, TryRow, TryRowFails, ReadLease, QueueCommand, ApiCrash
<1> QED
  BY <1>1, <1>2

\* A session that is over stays over: the worker's next stream is a new one.
LEMMA SessionProgress ==
    ASSUME RoutingInv, [RoutingNext]_routingVars, NEW w \in Workers, online'[w]
    PROVE  \/ online[w] /\ (Current(w))' = Current(w)
           \/ UNCHANGED req /\ (Current(w))' \in Stream /\ srv[(Current(w))'] = "none"
<1>1. online \in [Workers -> BOOLEAN] /\ sessions \in [Workers -> 0..MaxSessions]
  BY DEF RoutingInv, PathTypeOK
<1>2. CASE Connect(w)
  <2>1. sessions[w] \in 0..MaxSessions /\ sessions'[w] = sessions[w] + 1
        /\ sessions[w] + 1 \in 1..MaxSessions
    BY <1>1, <1>2, RoutingAssumption DEF Connect
  <2>2. PICK s \in Stream : s = [worker |-> w, nr |-> sessions[w] + 1]
    BY <2>1 DEF Stream
  <2>3. s.worker = w /\ s.nr > sessions[w]
    BY <2>1, <2>2
  <2>4. srv[s] = "none"
    BY <2>3 DEF RoutingInv, SessionInv
  <2> QED
    BY <1>2, <2>1, <2>2, <2>4 DEF Connect, Current
<1>3. ASSUME NEW v \in Workers \ {w}, Connect(v) PROVE UNCHANGED <<online[w], sessions[w]>>
  BY <1>1, <1>3 DEF Connect
<1>4. ASSUME NEW v \in Workers, CrashWorker(v) \/ SessionEnds(v)
      PROVE  sessions' = sessions /\ (online'[w] => online[w])
  BY <1>1, <1>4 DEF CrashWorker, SessionEnds
<1>5. \/ UNCHANGED <<online, sessions>> \/ Connect(w)
      \/ \E v \in Workers \ {w} : Connect(v)
      \/ \E v \in Workers : CrashWorker(v) \/ SessionEnds(v)
  BY DEF RoutingNext, routingVars, clientVars, QueueStep, ReportBegin, ReportOutcome, ApiCrash,
         SendEvent, RecvEvent, StreamEnds, SendCommand, SendLoopEnds, RecvCommand, Lookup, TryRow,
         TryRowFails, ReadLease, QueueCommand
<1> QED
  BY <1>2, <1>3, <1>4, <1>5 DEF Current

\* A canceled run stays canceled, and what runs has begun.
LEMMA StillRunning ==
    ASSUME IInv, [Next]_vars, NEW w \in Workers,
           pc[w] \in {"fetch", "put"}, pc'[w] \in {"fetch", "put"}, run'[w] = "running"
    PROVE  run[w] = "running"
<1>1. pc \in [Workers -> PC] /\ run \in [Workers -> Run]
  BY DEF IInv, TypeOK
<1>2. CASE UNCHANGED run
  BY <1>1, <1>2
<1>3. ASSUME NEW v \in Workers, Begin(v) \/ CancelRunning(v) \/ EndRun(v) \/ Crash(v)
      PROVE  run[w] = "running"
  BY <1>1, <1>3 DEF Begin, CancelRunning, EndRun, Crash
<1>4. \/ UNCHANGED run
      \/ \E v \in Workers : Begin(v) \/ CancelRunning(v) \/ EndRun(v) \/ Crash(v)
  BY DEF Next, vars, workerVars, Enqueue, Expire, CancelQueued, ClaimJob, ClaimReplyLost,
         FailExhausted, Work, FetchOk, FetchFails, PutOk, PutFails, RecordOk, RecordReplyLost,
         RecordLost, Notify, Restart
<1> QED
  BY <1>2, <1>3, <1>4

LEMMA FirstCancelNext ==
    ASSUME IInv, RoutingInv, FirstRunInv, FirstCancelInv, [RoutingNext]_routingVars
    PROVE  FirstCancelInv'
<1>1. [Next]_vars
  BY RoutingStepIsQueueStep
<1>2. ASSUME NEW r \in Requests, req'[r].at \in {"send", "canceling"}
      PROVE  req'[r].stream \in Stream /\ srv'[req'[r].stream] \in {"open", "closed"}
  <2>1. CASE ReadLease(r) /\ UNCHANGED srv /\ req'[r].stream = leases[req[r].job]
             /\ leases[req[r].job] # NoStream
    <3>1. req[r].job \in Jobs
      BY <2>1 DEF ReadLease, RoutingInv, HandlerInv
    <3>2. leases[req[r].job] \in Stream /\ srv[leases[req[r].job]] = "open"
      BY <2>1, <3>1 DEF RoutingInv, PathTypeOK, LeasesOnOpenStreams
    <3> QED
      BY <2>1, <3>2
  <2>2. CASE req[r].at \in {"send", "canceling"} /\ req'[r].stream = req[r].stream
    <3>1. req[r].stream \in Stream /\ srv[req[r].stream] \in {"open", "closed"}
      BY <2>2 DEF FirstCancelInv
    <3> QED
      BY <2>2, <3>1, StreamsMoveOn
  <2> QED
    BY <1>2, <2>1, <2>2, HandlerProgress
<1>3. ASSUME NEW j \in Jobs, jobs'[j].attempt = 0 PROVE Unrouted(j)'
  <2>1. jobs[j].attempt = 0
    BY <1>1, <1>3, AttemptsGrow
  <2> QED
    BY <2>1, UnroutedKept DEF FirstRunInv, FirstCancelInv
<1>4. ASSUME NEW w \in Workers, pc'[w] = "claimed", jobs'[held'[w].job].attempt = 1
      PROVE  Unrouted(held[w].job)'
  <2>1. CASE pc[w] = "claimed" /\ held'[w] = held[w]
    <3>1. Busy(w)
      BY <2>1 DEF Busy
    <3>2. PICK j \in Jobs : j = held[w].job
      BY <3>1, FirstClaim
    <3>3. jobs[j].attempt = 1
      BY <1>1, <1>4, <2>1, <3>1, <3>2, AttemptsGrow, FirstClaim
    <3>4. Unheard(j) /\ Unrouted(j)
      BY <2>1, <3>2, <3>3 DEF FirstRunInv, FirstCancelInv
    <3>5. Unrouted(j)'
      BY <3>4, UnroutedKept
    <3> QED
      BY <2>1, <3>2, <3>5 DEF Unrouted
  <2>2. ASSUME NEW j \in Jobs, ClaimJob(w, j), held'[w].job = j PROVE Unrouted(held[w].job)'
    <3>1. jobs[j] \in Row /\ jobs[j].attempt \in Nat /\ jobs' = [jobs EXCEPT ![j] = Leased(jobs[j])]
      BY <2>2 DEF ClaimJob, IInv, TypeOK, Row
    <3>2. jobs'[j].attempt = jobs[j].attempt + 1
      BY <3>1 DEF Leased, Row, IInv, TypeOK
    <3>3. jobs[j].attempt = 0
      BY <1>4, <2>2, <3>1, <3>2
    <3>4. Unrouted(j)'
      BY <3>3, UnroutedKept DEF FirstRunInv, FirstCancelInv
    <3> QED
      BY <2>2, <3>4 DEF Unrouted
  <2> QED
    BY <1>1, <1>4, <2>1, <2>2, RunProgress
<1>5. ASSUME NEW r \in Requests, NEW w \in Workers,
             pc'[w] \in {"fetch", "put"}, run'[w] = "running", jobs'[held'[w].job].attempt = 1,
             req'[r].at = "canceling", req'[r].job = held'[w].job, online'[w],
             req'[r].stream = (Current(w))', srv'[(Current(w))'] = "open",
             (Current(w))' \in senders'
      PROVE  \/ IsIn(send'[(Current(w))'], held'[w].job)
             \/ IsIn(down'[(Current(w))'], held'[w].job)
  <2>1. held'[w] = held[w] /\ (Begin(w) \/ pc[w] \in {"fetch", "put"})
    BY <1>1, <1>5, RunProgress
  <2>2. Busy(w)
    BY <2>1 DEF Busy, Begin
  <2>3. PICK j \in Jobs : j = held[w].job
    BY <2>2, FirstClaim
  <2>4. jobs[j].attempt = 1
    BY <1>1, <1>5, <2>1, <2>2, <2>3, AttemptsGrow, FirstClaim
  <2>5. pc[w] \in {"fetch", "put"}
    <3> SUFFICES ASSUME pc[w] = "claimed" PROVE FALSE
      BY <2>1 DEF Begin
    <3>1. Unheard(j) /\ Unrouted(j)
      BY <2>3, <2>4 DEF FirstRunInv, FirstCancelInv
    <3>2. Unrouted(j)'
      BY <3>1, UnroutedKept
    <3> QED
      BY <1>5, <2>1, <2>3, <3>2 DEF Unrouted
  <2>6. run[w] = "running"
    BY <1>1, <1>5, <2>5, StillRunning
  <2>7. /\ online[w] /\ (Current(w))' = Current(w) /\ Current(w) \in Stream
    <3>1. CASE UNCHANGED req /\ (Current(w))' \in Stream /\ srv[(Current(w))'] = "none"
      BY <1>5, <3>1 DEF FirstCancelInv
    <3> QED
      BY <1>5, <3>1, SessionProgress, CurrentIsStream
  <2>8. CASE req'[r] = req[r]
    <3>1. srv[Current(w)] = "open"
      <4>1. srv[Current(w)] \in {"open", "closed"}
        BY <1>5, <2>7, <2>8 DEF FirstCancelInv
      <4> QED
        BY <1>5, <2>7, <4>1, StreamsMoveOn
    <3>2. Current(w) \in senders
      BY <1>5, <2>7, <3>1, SenderStarts
    <3>3. IsIn(send[Current(w)], j) \/ IsIn(down[Current(w)], j)
      BY <1>5, <2>1, <2>3, <2>4, <2>5, <2>6, <2>7, <2>8, <3>1, <3>2
         DEF FirstCancelInv, FirstCancelArrives
    <3>4. IsIn(send'[Current(w)], j) \/ IsIn(down'[Current(w)], j)
      BY <1>5, <2>3, <2>6, <2>7, <3>3, CommandProgress DEF IInv, TypeOK
    <3> QED
      BY <2>1, <2>3, <2>7, <3>4
  <2>9. CASE QueueCommand(r) /\ req'[r].job = req[r].job /\ req'[r].stream = req[r].stream
             /\ IsIn(send'[req[r].stream], req[r].job)
    BY <1>5, <2>9
  <2> QED
    BY <1>5, <2>8, <2>9, HandlerProgress
<1>6. FirstCancelArrives'
  BY <1>5 DEF FirstCancelArrives, IsIn
<1>7. /\ \A r \in Requests : (req[r].at \in {"send", "canceling"} =>
            req[r].stream \in Stream /\ srv[req[r].stream] \in {"open", "closed"})'
      /\ \A j \in Jobs : (jobs[j].attempt = 0 => Unrouted(j))'
      /\ \A w \in Workers : (pc[w] = "claimed" /\ jobs[held[w].job].attempt = 1
                                => Unrouted(held[w].job))'
  BY <1>2, <1>3, <1>4
<1> QED
  BY <1>6, <1>7 DEF FirstCancelInv

\* A 202 "canceling" for a first run is kept: the command stays in the queue of
\* the worker's stream or on the wire until the run is canceled, as long as the
\* stream and its sendLoop last, whatever else is queued, received or torn down meanwhile.
THEOREM FirstCancelKept == RoutingSpec => []FirstCancelArrives
<1>1. RoutingInit => FirstCancelInv
  BY DEF RoutingInit, Init, FirstCancelInv, Unrouted, FirstCancelArrives
<1>2. IInv /\ RoutingInv /\ FirstRunInv /\ FirstCancelInv /\ [RoutingNext]_routingVars
         => FirstCancelInv'
  BY FirstCancelNext
<1>3. FirstCancelInv => FirstCancelArrives
  BY DEF FirstCancelInv
<1> QED
  BY <1>1, <1>2, <1>3, RoutingInvariant, FirstRunInvariant, PTL DEF RoutingSpec

=============================================================================
