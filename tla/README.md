# interview-mls: a TLA+ verification project

interview-mls turns uploaded bank-statement pdfs into csv files. An `api` takes
uploads and puts jobs into a Postgres table; any number of `worker` processes
lease jobs out of that table, parse the pdf and store the csv in MinIO; status
events flow from the workers through the api to the browsers, and cancel
commands flow back. There is no message broker: the jobs table is the queue,
and the event path is only a hint.

This directory holds TLA+ modules translated from the source, the TLC
configurations that check them, and TLAPS proofs of what matters most.

## 1. Inventory

| part | state it keeps | operations | talks to |
|---|---|---|---|
| api store (`services/api/internal/store`) | none of its own: rows of `jobs` | Enqueue (insert + notify in one transaction), CancelQueued, List, Get | Postgres |
| worker store (`services/worker/internal/store`) | rows of `jobs`: status, attempt, lease token, lease expiry | Claim, SetDone, SetFailed, Requeue (all fenced on the token), FailExhausted | Postgres |
| processor (`.../processor`) | `running`: job id -> cancel handle | ProcessJob, Cancel | worker store, MinIO, event client |
| worker loop (`.../app/loop.go`) | the LISTEN connection | drain, wait/connect/close, janitor ticker | worker store, processor |
| event client (`worker/.../events`) | `out` buffer of 64 events, one stream | Send (drop oldest), Run/session/recv (reconnect with backoff) | event server, processor.Cancel |
| event server (`api/.../events`) | `workers` by id, `leases` by job, a command queue per stream | Connect, Cancel, register/unregister/track | hub, http api |
| hub (`api/.../hub`) | client set, backlog, a send buffer per client | Broadcast, Close, Run, read and write pumps | browsers |
| http api (`api/.../httpapi`) | none | upload, list, download, cancel | api store, MinIO, event server, hub |
| web ui (`web/src/useJobs.ts`) | job list, refresh sequence number, websocket | refresh, addOptimistic, onmessage, reconnect | http api, hub |
| parser (`worker/.../parser`) | none (pure) | Parse, ToCSV | processor |
| pdfgen (`tools/pdfgen`) | none (pure) | Generate, Render | the parser, through its layout |

Behaviours that are hard here, and what makes each part correct:

* **Queue.** Leases expire under workers that are stalled, not dead; replies of
  committed statements are lost; workers crash or are shut down anywhere.
  Correct means: one writer per attempt, a finished row never changes, no row is
  ever unreachable, every job finishes.
* **Upload.** Two stores, no common transaction. Correct means: no row without
  its pdf, no row without its wake-up, whatever fails.
* **Hub.** Channels closed from two places while events are in flight. Correct
  means: no panic, no leak, no reordering.
* **Cancel.** A cancel looks the job up, then tries the row, then the routing
  table, while the worker moves on. Correct means: a cancel acts on its job
  only, and is not forgotten.
* **Event path and ui.** Events are dropped, delayed across reconnects and
  merged with reloads and with the answers of uploads. Correct means: the page
  never shows a verdict or a link the table does not have, and a finished job is
  in the end shown as it is.
* **Worker loop.** Notifications are lost by design, and the connection they
  come on can be dead without anyone noticing. Correct means: the poll makes up
  for every lost one, within its interval.
* **Parser.** It counts cells, so one cell taken for page furniture shifts all
  that follow. Correct means: it inverts the generator, and never misreads what
  it cannot invert.

The hazards of each part, with their source lines, are listed in `PROJECT.json`.

## 2. Modules

| module | models | status |
|---|---|---|
| `JobLifecycle` | what the queue promises: status and attempt of each job | done |
| `JobQueue` | the jobs table, every statement that writes it, the workers' runs, janitor, crashes | done |
| `JobQueueProofs` | its theorems | done |
| `Upload`, `UploadProofs` | the upload handler across bucket and table | done |
| `EventFeed` | what the websocket promises a page: which events it may be sent, and when | done |
| `Hub`, `HubProofs` | the websocket hub | done |
| `CancelRouting` | JobQueue, the event client and server, command queues, the cancel handler | done |
| `CancelRoutingProofs` | its theorems, on top of `JobQueueProofs` | done |
| `FirstRunProofs` | the theorems about a job's first run, on top of `CancelRoutingProofs` | done |
| `WorkerLoop` | Upload and a worker's main loop: drain, LISTEN, the poll, lost notifications | done |
| `WorkerLoopProofs` | its theorems, on top of `UploadProofs` | done |
| `UiJobs` | JobLifecycle and the page's job list: reloads, events, uploads, cancels | done |
| `UiJobsProofs` | its theorems | done |
| `Statement` | pdfgen: the generator and the renderer | done |
| `StatementParser` | Statement and the parser that reads its documents | done |
| `StatementProofs` | their theorems | done |

How they compose: `JobQueue` implements `JobLifecycle`, `Hub` implements `EventFeed`; `CancelRouting` extends
`JobQueue` with the event path and is shown to implement it; `UiJobs` extends
`JobLifecycle`, so it speaks of the table only through what `JobQueue` is proved
to do; `WorkerLoop` extends `Upload` and implements it; `StatementParser`
extends `Statement`. The `MC` modules only add the symmetry sets and the sets of
numbers for TLC.

### 2.1 JobQueue

`jobs` is the table, one record per id with the columns the statements write.
`pc`, `held`, `run` and `outcome` are, per worker, where `drain` and
`ProcessJob` are, the `Claim` in its hands, its `p.running` entry, and what it
has decided to record. `csv` is the set of result objects in the bucket.

Each SQL statement is one action: `Enqueue`, `CancelQueued`, `ClaimJob`,
`RecordOk` (SetDone, SetFailed or Requeue behind the fence), `FailExhausted`.
The steps between them are actions too: `Begin`, `FetchOk`/`FetchFails`,
`PutOk`/`PutFails`, `Notify`. A statement can fail without effect, find no row
(`RecordLost`), or commit and lose its reply (`ClaimReplyLost`,
`RecordReplyLost`).

* Time is the flag `live`/`expired` on a lease. `Expire` may happen at any
  moment, so every relation between LEASE_DURATION and the length of a job is
  covered, including a worker that is stalled past its lease.
* The token of the n-th claim is written n: `gen_random_uuid()` never repeats,
  and tokens are only compared within one row.
* `SKIP LOCKED` is modelled by letting the claim return any ready row: an older
  one may be locked at that instant.
* A SIGTERM cancels the parent context, so neither the requeue nor the terminal
  write is sent; a shutdown is therefore `Crash`.
* The csv key is derived from the job id: a second upload of it changes nothing.

### 2.2 Upload

One handler per request, one action per call it makes, with every error return.
`tx` is what the open transaction has written; `Committed` makes it visible at
once. `CommitFails` has both outcomes, because the handler cannot tell them
apart. `ApiCrash` ends all requests, and lets a COMMIT or a RemoveObject that is
already on the wire take effect. `ReadPdf` stands for the worker.

### 2.3 Hub

`Run` is four actions, one per case of its select; the handler (which becomes
the read pump) and the write pump have their own. Sends on unbuffered channels
are joint steps of the sender and `Run`. An event is the number of its
Broadcast call. `ReadFails` and `PingFails` may happen at any time: they stand
for the peer leaving, for the pong deadline and for a closed connection.

`EventFeed` is what all this amounts to for a page. Its `seen` is `got`, its
`link` the connection and its `published` the number of Broadcast calls; the
backlog, the buffers, the client set and the goroutines are the hub's own. A page
may be sent any event it was not sent yet, as long as none is older than the
last: so which events are dropped is left open, and that none is repeated or
overtaken is not.

### 2.4 CancelRouting

`CancelRouting` EXTENDS `JobQueue`: each of its actions is a step of the queue,
with what the event path adds to it, or leaves the queue alone.

| variable | code |
|---|---|
| `out`, `sessions`, `online` | `Client.out`, the calls of `session`, whether one is running |
| `up`, `down` | what is on a stream, in either direction |
| `srv` | a `Connect` handler: not yet registered, open, returned |
| `send`, `leases` | `worker.send`, `Server.leases` |
| `senders` | the streams whose `sendLoop` goroutine runs |
| `req` | where each `cancel` handler is |
| `told` | none: a history variable, the stream the run's PROCESSING event went up on |

A stream is a worker and the number of its session, so the table's pointer
identity is the identity of streams, and a worker id is the `worker` field.
`Server.workers` is written and never read to route, and has no variable.

* The two ends of a stream notice its loss on their own (`SessionEnds`,
  `StreamEnds`), in any order and at any time, so an old handler may tear down
  long after the new stream reported. Until then it may still read what was
  sent. Commands already received by an ended session may still be carried out.
* The cancel handler has four steps, because other handlers, workers and streams
  move between them: `Lookup`, `TryRow`, `ReadLease`, `QueueCommand`. The second
  may fail with or without effect.
* `sendLoop` starts with a stream's first event and ends when the stream's
  context is done or when `Send` fails (`SendLoopEnds`). In the second case the
  command it had taken is lost, `Connect` may go on reading and the table still
  leads to the stream, so commands queued from then on stay where they are.
* `Emit` covers `Send`'s three looks at the channel: it may evict an event that
  the session has meanwhile made room for.
* `Broadcast` never waits and is left out here; the hub has its own module.

Two properties are about a job in its first attempt. FirstRunIsRouted: once its
PROCESSING event has been read, the table leads to the worker. FirstCancelArrives:
a cancel that was answered "canceling" since is in the command queue or on the
wire until it has canceled the run. Both need the stream to be up, and the
second needs its `sendLoop` to be running as well: a failing `Send` is the only
way to lose such a command while the stream lasts. From the second attempt on
neither holds, since a stale run may speak of the same job.

### 2.5 WorkerLoop

`WorkerLoop` EXTENDS `Upload`: a commit of a request makes its job ready and, if
the worker listens at that instant, gives it a notification. `loop` is where
`run` is: in `drain` (`drain`), in `ProcessJob` (`busy`), at the start of `wait`
(`enter`), in `WaitForNotification` (`wait`) or in the backoff (`sleep`). `conn`
is the LISTEN connection; `deaf` is one that is broken, or whose LISTEN was
dropped by a pooler, without the worker knowing. `ready` is what the claim query
would return; `age` and `heard` are history.

* Notifications are kept as a set, which does not count copies: a job can be
  notified again before its last notification was waited for, so `Wake` may
  leave one behind.
* Jobs come back to the queue in two ways. `Requeued` notifies in the commit of
  its UPDATE, so a listening worker hears of it as of an upload (both are
  `ReadyNotifying`); when a lease expires (`LeaseExpires`), nobody is told. Nor
  does the worker hear of what others take (`OtherClaims`).
* The claim of a drain may fail, or find the row locked: `DrainEnds` needs no
  empty queue.
* Time is counted in ticks, and passes only while the loop waits. Statements,
  and the connect, are taken to be short against the poll interval.
  `pgx.Connect` has no deadline of its own, so this is an assumption of the
  network.
* `WorkerRestarts` is a crash at any point, with its restart.

### 2.6 UiJobs

| variable | code |
|---|---|
| `shown` | the state `jobs` of `useJobs`: status and `has_csv` of each row |
| `reloads`, `newest` | the `refresh` calls in flight, `seq.current` |
| `link`, `registered` | the websocket as the page and as the hub see it |
| `news` | status events on their way, from the worker's buffer to `onmessage` |
| `accepted`, `canceling` | the 202 answers on their way, the cancel buttons in use |
| `settled` | none: history, the jobs a reload has settled |
| `overtaken` | none: history, the jobs of which an event was received while the answer of the newest reload, read before it, was on its way |

`refresh` is split at its await: `Refresh`, `ReadTable` on the api, then
`TakeAnswer` or `DropAnswer`. Two of them answer in any order. Events and 202
answers are sets, so they overtake each other and may be lost at any point
(`Lose` stands for the worker's buffer, the stream, the hub's backlog, the
client's buffer, and a hub that does not know the page yet). The fate of a 202
that is late is part of this: `AddOptimistic` writes "queued" over whatever the
row says by then.

* `onmessage` looks at `seen` right after `setJobs`, whose updater React may run
  later; `Receive` may therefore reload although the row was there.
* Events carry an attempt here only to tell two of one job apart.
* One page is modelled. Other pages, workers and the janitor are `Unannounced`
  and `Announced` steps of the table.

### 2.7 Statement and StatementParser

`Statement` has one action per transaction generated, one per row drawn, and
one that writes the document out. A document is its lines in draw order; each
has a kind (what the parser's patterns make of its text) and a value. The
random choices of the generator are nondeterministic. pdfgen's own merchants
are all of kind "text"; the other kinds are statements of the same layout from
elsewhere, which is what an upload may contain.

`StatementParser` has one action per line scanned and per row parsed, and the
errors between. That the pdf library returns one line for each drawn cell is
taken from `parser.go:4-8`; the library can fail (`ExtractFails`).
`FormatCents` keeps sign, units and decimals apart, since a result of less than
one unit has no unit to carry the sign.

## 3. Runs

| run | instance | shows |
|---|---|---|
| `queue` | 2 jobs, 2 workers, 2 attempts | TypeOK, OneLeaseHolder, NoRowStranded, DownloadLinkWorks, TerminalIsFinal, LiveLeaseRespected, DoneByLatestAttempt, the inductive invariant IInv, RowsMoveForward, ImplementsLifecycle, EveryJobFinishes |
| `queue_cancel_terminal` | 1 job, 1 worker | finding: a late cancel is forgotten |
| `worker_loop` | 2 requests, a poll of 3 ticks, a backoff of 2 | RowHasPdf, AcceptedJobRuns, SignalIffRow, UploadInv, TriedInTime, NoLostWakeup, LoopInv |
| `upload_cleanup` | 1 request | finding: the cleanup removes the pdf of a committed row |
| `hub` | 2 clients, 3 events, send buffers of 2, a backlog of 1, no symmetry | TypeOK, NoChannelPanic, DeliveredInOrder, NobodyStranded, ImplementsFeed, NoGoroutineLeak, BrokenClientForgotten, QueuedIsWritten |
| `hub_slow_client` | 1 client | finding: a slow client is not dropped |
| `routing` | 2 jobs, 2 workers, 2 attempts, 2 sessions, 2 requests, `out` of 2, a command queue of 1, constrained to `SmallWorlds` | LeasesOnOpenStreams, FirstRunIsRouted, FirstCancelArrives, VerdictsAreRecorded, OnlyAskedIsCanceled, FailedAnswerHolds |
| `routing_window` | 1 worker, 1 job | finding: a cancel can come before the registration |
| `routing_reconnected` | 1 worker, 1 job, 2 sessions | finding: a reconnected holder is not routed to |
| `ui` | 1 job, 2 attempts, 2 reloads and 2 events at once | VerdictShownIsTrue, LinkIsLive, SettledIsShown, UiInv, ReloadsConverge |
| `ui_gap` | 1 job, a network at its best | finding: the reload of a reconnect overwrites a newer event |
| `statement` | 2 pages of 2 rows | ParsedIsDrawn, OnlyLostCellsReject, ResultAddsUp |

Why the bounds are enough. Queue: a stale holder, its successor and a janitor
meet on one job, so two workers suffice; the second job lets a worker move on
while its old lease is contested; two attempts already give a retry, a takeover
and an exhausted job (`config.go` sets three). Uploads: requests share nothing
but the process that dies under them and the worker's wake-ups; the poll is
longer than the backoff, as in the code (5s and 2s). Hub: two clients are enough
for one to lag the other; with three events both the backlog (capacity 1) and a
send buffer (2) overflow. The code's 64 and 32 change only how long that takes.
Routing: `SmallWorlds` is a union of five corners of the instance, each with what
one question needs: an old and a new stream of one worker with a cancel; the
same with two jobs; a lease that changes hands between two workers; two handlers
that race for one row; a late command that finds its worker busy with a second
job. `MaxSessions` is the one bound that is not the code's: a worker opens
streams for ever. Ui: no row depends on another, so one job is enough; two
reloads and two events at once overtake each other in every way, and the second
attempt meets what is late of the first. Statements: two pages of two rows have
a page break inside the table, and four descriptions that can be taken for
furniture, the least number after which the cells divide by four again; the
balance is overdrawn by less than one unit. The safety theorems of section 5
hold for every value of these constants.

Every property has a mutant: a wrong variant of one definition, kept in the
module beside it and marked as such, under which TLC finds the property
violated.

Deadlock is checked except where the system really ends: a statement is parsed
once (`statement`), a client's goroutines end with its connection and events are
bounded (`hub`, `hub_slow_client`), and an upload is answered
(`upload_cleanup`).

### Fairness

* `JobQueue`: time passes (`Expire`), a run's next step happens (no call hangs
  for ever), a dead worker is restarted (`restart: unless-stopped` in
  `docker-compose.yml`). Claiming and the janitor get strong fairness: a worker
  may crash between any two steps, but workers stay up, again and again, for
  long enough to poll and to reach a janitor tick. Nothing is assumed of users,
  and crashes need not stop. The second assumption is the deployment's, not the
  code's: the MinIO calls of `process` have no timeout of their own, and one
  that hangs for ever holds up its worker (other workers take the job over when
  the lease expires).
* `Hub`: select picks among its ready cases at random, so a case that stays
  ready is taken; goroutines that can run do; a read, or a ping, on a closed
  connection fails. Nothing is assumed of peers, of Broadcast or of Close.

## 4. Findings

* `processor.go:98`: the cancel flag is read once. A cancel that lands after it
  is accepted, cancels a context nobody looks at, and the job is requeued,
  against "a canceled job is terminal on the spot" (`processor.go:96`).
* `httpapi.go:110`: when COMMIT lands and its reply is lost, the cleanup removes
  the pdf of a committed row, against "the object is unreferenced either way"
  (`httpapi.go:106`).
* `hub.go:86`: a client that falls behind its buffer loses the event and stays,
  against "how far behind a client may fall before it gets dropped"
  (`hub.go:17`).
* `useJobs.ts:39`: the reload of a reconnect runs beside the events. When its
  answer was read before a job finished and arrives after the event that says
  so, it overwrites the newer row, against "every (re)connect triggers a refetch
  that closes whatever gap the disconnect opened" (`useJobs.ts:18-19`). The row
  stays wrong until something else makes the page reload: that is what
  ReloadsConverge shows to be enough.
* `server.go:82`: the row says 'processing' from the claim on, the table only
  from the PROCESSING event on. A cancel in between answers 409, against
  "registers the worker before any cancel for that job could be issued"
  (`server.go:80-83`).
* `client.go:104`: a session that replaces a broken one does not announce the
  job in progress, and the teardown has removed its entry: until the job ends
  its holder is connected and cannot be reached by a cancel, against "the api
  must reach the *one* worker holding that job's lease" (`README.md:159`).

## 5. Proofs

All proofs hold for every value of the constants, from the named assumptions on
them (`MaxAttemptsAssumption`, `HubAssumption`, `RoutingAssumption`,
`UiAssumption`, `TimeAssumption`, `StatementAssumption`; `Upload` has none).

**JobQueueProofs.** None of the invariants is inductive alone. `IInv` adds:
`RowShape` (a token and a lease exactly while 'processing', the token being the
row's attempt; an attempt left while 'queued'; a csv_key exactly when 'done'),
`ClaimShape` (a running claim was issued at an attempt not above the row's, a
decided 'requeue' has an attempt left, a decided 'done' has its object) and
`ClaimsDistinct`. The step that matters is the claim: its token is the row's
attempt plus one, and every running claim of that job is at most the row's
attempt, so it is new. From `IInv`: TypeCorrect, LeaseExclusive,
NothingStranded, LinksWork. `StepChangesRow` lists the only ways a row can
change; with `IInv` it gives the action properties FinishedRowsFrozen,
LeaseRespected and DoneIsLatest. `LifecycleImplemented` maps each step to a step
of JobLifecycle or to a stutter. `RowsProgress` gives every row a number
(`Progress`) that each write raises and `MaxAttempts` bounds (ProgressOfWrites,
ProgressOfOutcomes). NothingStranded says that an unfinished job can always be
written by somebody, RowsProgress that this cannot go on for ever; together they
are what EveryJobFinishes asks of the code, for every number of jobs, workers
and attempts, and only the fairness is left to TLC.

**UploadProofs.** `UploadInv` says what each step of a request has stored and
what its transaction holds; PointerLast, AcceptedRuns and SignalRidesCommit
follow.

**HubProofs.** `HubInv` is proved and not checked by a run: NoChannelPanic and
NobodyStranded are what a reader gets from it. `Membership` follows a client from its registration to the one
step that closes its channel; ChannelsSafe follows. `OrderInv` compares what is
written, waiting and still to be offered pair by pair (`Before`), which an
append at one end and a drop at the other keep; JoinedInOrder puts the parts
together for OrderKept. It also needs that a client that is not registered yet
has nothing, or a late registration would put old events behind new ones.
NobodyLeftBehind is the safety half of NoGoroutineLeak, for any number of
clients: `LinkInv` adds to HubInv how the connection goes with its two pumps, so
that a pump that is left alone is left with a closed connection or a closed
channel. `FeedImplemented` maps each step of the hub to one of EventFeed or to a
stutter. The step that matters is the write (SentIsNew): what is at the head of
a buffer is newer than all that was written, by `OrderInv`.

**WorkerLoopProofs.** `WorkerIsUpload` shows that each step is one of Upload or
leaves it alone, so `UploadInv` and what follows from it hold here. `LoopInv`
bounds the age of every ready job by how long the loop has waited (`Waited`),
which is 0 when `wait` starts and never more than the poll interval or the
backoff; PolledInTime and WakeupsKept follow, the second for the notifications of
uploads and of requeues alike, in whichever state of the loop they arrive.

**UiJobsProofs.** `UiInv` has two parts. `TrueInv`: no verdict and no link, on
the page, in an answer or in an event, is false; it rests on a finished job
staying finished, a fact of JobLifecycle. `SettledInv`: a job at rest stays so,
every reload issued since reads its final row, and the newest reload was issued
after all that has settled, which is why the sequence number is enough.
`PageOnlyWatches` shows that the table beside a page is JobLifecycle's.

GapClosed, the claim of `useJobs.ts:18-19`, is refuted by `ui_gap`; the theorem
GapOnlyByRace says that the race found there is the only one. It is about
`ReliableSpec`, the specification of that run: for any number of jobs, reloads
and events, a page at rest shows a wrong row of a finished job only if the job is
in `overtaken` (GapOnlyIfOvertaken). The proof: events of a job come in order, so while anything said of a finished job is
on its way its verdict is, and goes last (`NewsInv`); when the verdict has been
received, or was lost before the page was connected, the newest reload has the
final row, or has yet to read it, or has failed and says so (`CaughtUp`), or the
job was overtaken. The property was checked with TLC on the instance of `ui_gap`,
with two attempts, before it was proved.

**StatementProofs.** `ParserInv` gives every line of the document the number of
table cells drawn by then, and so every kept cell its position in the table.
Between two kept cells only a description can be missing (`Skipped`). The rows
accepted so far are always the first rows of the table: if nothing is missing,
the next four cells are the next row; if its description is, the fourth cell is
the date of the row after it, which no amount pattern matches, or is not there
at all. So nothing is misread (NeverMisread), and a rejection needs a dropped
description (LayoutIsContract). FormatReadsBack, a fact about the sign, the
units and the decimals, carries the generator's sums into the csv (AddsUp).
`ParserInv` is kept with the proofs: it was checked with TLC once and would
only slow the run.

**CancelRoutingProofs.** `RoutingStepIsQueueStep` shows that each step is one of
the queue or leaves it alone; so `QueueImplemented`, and `IInv` and everything
proved from it hold here too. `RoutingInv` adds that only opened streams are in
use and that a handler about to send has a stream; with these, no teardown,
restart or late event leaves an entry for a dead stream (`TableIsLive`).
`VerdictInv` follows an outcome from the fenced write to the event: a worker
about to announce has recorded what it says, `FinishedRowKept` says nobody
changes it, and `EmitAdds` that a buffer only holds what was put there
(`VerdictsTrue`). `RoutingKeepsQueue` carries LifecycleImplemented,
FinishedRowsFrozen and RowsProgress over to the whole system. `AskedInv` follows a cancel from the handler through the
command queue, the stream, the run and the outcome to the row (`OnlyAsked`).
`FailedAnswerTrue` needs only `IInv`: a failed row stays failed.

**FirstRunProofs.** A job in its first attempt has one run (`FirstClaim`, from
`ClaimsDistinct`), and that run says one thing of the job before it has an
outcome. `FirstRunInv` follows this one event: until the run begins nothing on
its way is about the job (`Unheard`); after that (`Followed`) the event is in
its worker's buffer, or was evicted, or is on the one stream it was sent on, and
there it is about to enter the table or has entered it, unless the stream ended.
`BufferSays` and `StreamSays` show that no other step says anything of the job,
`FollowedKept` that no other stream's teardown, late event or reconnect undoes
the entry. From the second attempt on two runs may speak of one job, on two
streams, and the older one's event may be read last; so the property is about
the first. It asks for the stream the event went up on: for a worker that has
reconnected since, see the finding of `routing_reconnected`. The invariant was
checked with TLC on the instance of `routing` before it was proved.

`FirstCancelKept` follows the cancel the other way. Until the first run of a job
has begun, the table has no entry for it and no handler was led to a worker for
it (`Unrouted`, which rests on `Unheard`), so no command for it exists that the
worker could take before the run can be canceled. From then on a command is put
in the queue of the stream that was read (`CommandQueues`), moved to the wire and
taken by the worker, which cancels the run it names: a command for another job
changes nothing (CommandProgress), and a session, a stream or a `sendLoop` that
ends ends the property's premise (SessionProgress). A `sendLoop` starts with its
stream's first event and never again (SenderStarts), so a premise that ended
does not come back for that stream.

Only model-checked: liveness, since TLAPS does not reason about fairness and
ENABLED here (EveryJobFinishes, NoGoroutineLeak, BrokenClientForgotten,
QueuedIsWritten, ReloadsConverge). Every safety and action property of a passing
run is proved.

## 6. Not modelled

Left out for good: start-up wiring and configuration, the api's graceful
shutdown (straight-line code with budgets), the generated protobuf code, static
files, markup and styling, the command line and file names of pdfgen, the
contents of pdfs below the level of cells, byte limits and content types of
http, quoting in csv files (pdfgen's texts have no comma), and how long any
backoff but the listener's is. Reads that change nothing are modelled only where
something depends on how old they are: `list` in `UiJobs`, the lookup of a
cancel in `CancelRouting`; `download` is not, since DownloadLinkWorks says that
what it would read is there.
