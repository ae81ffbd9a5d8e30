------------------------------- MODULE UiJobs -------------------------------
(***************************************************************************)
(* The job list of the web page (useJobs.ts) next to the jobs table.       *)
(*                                                                         *)
(* "The socket is a hint, GET /jobs is the truth": a row of the page is    *)
(* written by the answer of a reload, by a status event of the websocket   *)
(* and by the 202 body of an upload.  The three travel on their own, so    *)
(* each may be older than what the page already shows.                     *)
(*                                                                         *)
(* The table is JobLifecycle, which JobQueue implements.  Events of two    *)
(* workers, or of two streams of one worker, overtake each other and may   *)
(* be lost anywhere between the worker and the browser, so what is on its  *)
(* way is a set.  One page is modelled; other users are the table's other  *)
(* steps.  What a row says besides its status and its download link, the   *)
(* length of delays, and unmounting are left out.                          *)
(***************************************************************************)
EXTENDS JobLifecycle, FiniteSets

CONSTANTS Slots,       \* bound: reloads in flight at once
          MaxNews,     \* bound: events in flight at once
          NoReload     \* no reload was issued yet: seq.current = 0

ASSUME UiAssumption == MaxAttempts \in Nat /\ NoReload \notin Slots

VARIABLES shown,       \* jobs: the rows of the page
          reloads,     \* the GET /jobs calls in flight
          newest,      \* seq.current: the call that refresh() issued last
          loadError,   \* is an error shown above the list
          link,        \* the websocket, seen from the page
          registered,  \* the hub knows the websocket
          canceling,   \* rows whose cancel button waits for its answer
          accepted,    \* 202 answers on their way
          news,        \* status events on their way
          settled,     \* history: see SettledIsShown
          overtaken    \* history: see GapOnlyIfOvertaken

tableVars == <<status, attempt>>
pageVars  == <<shown, reloads, newest, loadError, link, registered, canceling,
               accepted, settled, overtaken>>
uiVars    == <<tableVars, pageVars, news>>

\* A row as List returns it: csv_key IS NOT NULL is status 'done' (JobQueue's
\* DownloadLinkWorks).  A job that is not in a list has status "absent" in it.
RowOf(s) == [status |-> s, csv |-> s = "done"]
Rows     == [status: Status, csv: BOOLEAN]
NoRow    == RowOf("absent")
Listing  == [j \in Jobs |-> RowOf(status[j])]

\* No claim announces one status twice, so the attempt tells events apart.  The
\* page does not see it.
News == [job: Jobs, status: Status \ {"absent"}, attempt: 0..MaxAttempts]

\* "since" is history too: the jobs that were at rest when the call was issued.
Reload == [at: {"free", "sent", "read"}, rows: [Jobs -> Rows], since: SUBSET Jobs]
Free   == [at |-> "free", rows |-> [j \in Jobs |-> NoRow], since |-> {}]

UiTypeOK ==
    /\ status     \in [Jobs -> Status]
    /\ attempt    \in [Jobs -> 0..MaxAttempts]
    /\ shown      \in [Jobs -> Rows]
    /\ reloads    \in [Slots -> Reload]
    /\ newest     \in Slots \cup {NoReload}
    /\ loadError  \in BOOLEAN
    /\ link       \in {"connecting", "open", "waiting"}
    /\ registered \in BOOLEAN
    /\ canceling  \in SUBSET Jobs
    /\ accepted   \in SUBSET Jobs
    /\ news       \in SUBSET News
    /\ settled    \in SUBSET Jobs
    /\ overtaken  \in SUBSET Jobs

\* The page is loaded at any moment of the table's life; the states before it
\* are those in which nothing has happened to the page yet.
UiInit ==
    /\ Init
    /\ shown      = [j \in Jobs |-> NoRow]
    /\ reloads    = [g \in Slots |-> Free]
    /\ newest     = NoReload
    /\ loadError  = FALSE
    /\ link       = "waiting"
    /\ registered = FALSE
    /\ canceling  = {}
    /\ accepted   = {}
    /\ news       = {}
    /\ settled    = {}
    /\ overtaken  = {}

-----------------------------------------------------------------------------
(* The table, and what is said of it *)

Finished(j) == status[j] \in Terminal

\* A finished job of which nothing is on its way.
AtRest(j) == /\ Finished(j)
             /\ j \notin accepted
             /\ \A ev \in news : ev.job # j

\* The event of a change, as its worker or the cancel handler sends it.
Announce(j, s) ==
    /\ Cardinality(news) < MaxNews
    /\ news' = news \cup {[job |-> j, status |-> s, attempt |-> attempt'[j]]}

Announced(j) ==
    /\ \/ Start(j)   /\ Announce(j, "processing")
       \/ Succeed(j) /\ Announce(j, "done")
       \/ Retry(j)   /\ Announce(j, "queued")
       \/ Fail({j})  /\ Announce(j, "failed")
    /\ UNCHANGED pageVars

\* Changes nobody hears of: another user's upload, the janitor's sweep, and all
\* those whose sender dies, is not told of its own write, or has no room.
Unannounced == Next /\ UNCHANGED <<pageVars, news>>

\* Dropped by the worker's buffer, its stream, the hub's backlog, the client's
\* buffer, or broadcast while the hub does not know the page's websocket.
Lose(ev) ==
    /\ news' = news \ {ev}
    /\ UNCHANGED <<tableVars, pageVars>>

-----------------------------------------------------------------------------
(* Reloads *)

\* refresh() up to its await.
Refresh ==
    /\ \E g \in Slots :
          /\ reloads[g].at = "free"
          /\ reloads' = [reloads EXCEPT ![g] = [Free EXCEPT !.at = "sent",
                                                            !.since = {j \in Jobs : AtRest(j)}]]
          /\ newest'  = g
    /\ overtaken' = {}

\* Store.List runs.
ReadTable(g) ==
    /\ reloads[g].at = "sent"
    /\ reloads' = [reloads EXCEPT ![g].at = "read", ![g].rows = Listing]
    /\ UNCHANGED <<tableVars, news, shown, newest, loadError, link, registered,
                   canceling, accepted, settled, overtaken>>

\* Wrong variants: every answer is taken, and known rows win over fetched ones.
AnyAnswer(g) == TRUE

MergedKeeping(rows) == [j \in Jobs |-> IF shown[j] = NoRow THEN rows[j] ELSE shown[j]]

\* mine === seq.current
IsNewest(g) == g = newest

\* Fetched rows replace the page's; rows the server has not listed yet stay.
Merged(rows) == [j \in Jobs |-> IF rows[j] = NoRow THEN shown[j] ELSE rows[j]]

\* The answer arrives and is the newest call's.
TakeAnswer(g) ==
    /\ reloads[g].at = "read"
    /\ IsNewest(g)
    /\ shown'     = Merged(reloads[g].rows)
    /\ loadError' = FALSE
    /\ settled'   = settled \cup reloads[g].since
    /\ reloads'   = [reloads EXCEPT ![g] = Free]
    /\ UNCHANGED <<tableVars, news, newest, link, registered, canceling, accepted, overtaken>>

\* The call fails, or is not the newest any more.
DropAnswer(g) ==
    /\ reloads[g].at # "free"
    /\ loadError' = (loadError \/ IsNewest(g))
    /\ reloads'   = [reloads EXCEPT ![g] = Free]
    /\ UNCHANGED <<tableVars, news, shown, newest, link, registered, canceling,
                   accepted, settled, overtaken>>

-----------------------------------------------------------------------------
(* The websocket *)

\* connect(), when the page is loaded and after every backoff.  Loading the page
\* also issues the first reload.
Connect ==
    /\ link = "waiting"
    /\ link' = "connecting"
    /\ IF newest = NoReload THEN Refresh ELSE UNCHANGED <<reloads, newest, overtaken>>
    /\ UNCHANGED <<tableVars, news, shown, loadError, registered, canceling,
                   accepted, settled>>

\* Hub.ServeHTTP has upgraded the request; the hub hears of the client before or
\* after the page does.
Register ==
    /\ link # "waiting" /\ ~registered
    /\ registered' = TRUE
    /\ UNCHANGED <<tableVars, news, shown, reloads, newest, loadError, link,
                   canceling, accepted, settled, overtaken>>

\* onopen
Open ==
    /\ link = "connecting"
    /\ link' = "open"
    /\ Refresh
    /\ UNCHANGED <<tableVars, news, shown, loadError, registered, canceling,
                   accepted, settled>>

\* onclose, also after an attempt that never opened.
Close ==
    /\ link # "waiting"
    /\ link' = "waiting"
    /\ registered' = FALSE
    /\ UNCHANGED <<tableVars, news, shown, reloads, newest, loadError,
                   canceling, accepted, settled, overtaken>>

\* Wrong variant: a link comes with every verdict.
PatchedLinking(ev) ==
    [shown EXCEPT ![ev.job] = [status |-> ev.status,
                               csv    |-> @.csv \/ ev.status \in Terminal]]

\* The event's row, if the page has it; its other rows stay as they are.
Patched(ev) ==
    [shown EXCEPT ![ev.job] = IF @ = NoRow THEN @
                              ELSE [status |-> ev.status,
                                    csv    |-> @.csv \/ ev.status = "done"]]

\* The newest reload has read the job's row otherwise than the event says, and
\* its answer is on its way.
Overtakes(ev) ==
    \E g \in Slots : /\ IsNewest(g) /\ reloads[g].at = "read"
                      /\ reloads[g].rows[ev.job] # RowOf(ev.status)

\* onmessage.  The page reloads when no row was "seen"; it looks right after
\* setJobs, whose updater React may run later, so it may reload in vain.
Receive(ev) ==
    /\ link = "open" /\ registered
    /\ news'  = news \ {ev}
    /\ shown' = Patched(ev)
    /\ \/ Refresh
       \/ /\ shown[ev.job] # NoRow
          /\ overtaken' = IF Overtakes(ev) THEN overtaken \cup {ev.job} ELSE overtaken
          /\ UNCHANGED <<reloads, newest>>
    /\ UNCHANGED <<tableVars, loadError, link, registered, canceling, accepted, settled>>

-----------------------------------------------------------------------------
(* Uploads and cancels of this page *)

\* The api accepts a file.  Files go one at a time, and the answer may be lost.
Upload(j) ==
    /\ accepted = {}
    /\ Submit(j)
    /\ accepted' = {j}
    /\ UNCHANGED <<news, shown, reloads, newest, loadError, link, registered,
                   canceling, settled, overtaken>>

\* addOptimistic
AddOptimistic(j) ==
    /\ j \in accepted
    /\ accepted' = accepted \ {j}
    /\ shown'    = [shown EXCEPT ![j] = RowOf("queued")]
    /\ UNCHANGED <<tableVars, news, reloads, newest, loadError, link, registered,
                   canceling, settled, overtaken>>

\* The upload's error is shown; there is no row.
UploadFails(j) ==
    /\ j \in accepted
    /\ accepted' = accepted \ {j}
    /\ UNCHANGED <<tableVars, news, shown, reloads, newest, loadError, link,
                   registered, canceling, settled, overtaken>>

\* Wrong variant: the click already shows what it asks for.
CancelOptimistic(j) ==
    /\ shown[j].status \in Live
    /\ j \notin canceling
    /\ canceling' = canceling \cup {j}
    /\ shown' = [shown EXCEPT ![j].status = "failed"]
    /\ UNCHANGED <<tableVars, news, reloads, newest, loadError, link,
                   registered, accepted, settled, overtaken>>

\* A click on Cancel.  What the api does with it is a step of the table, then or
\* never.
Cancel(j) ==
    /\ shown[j].status \in Live
    /\ j \notin canceling
    /\ canceling' = canceling \cup {j}
    /\ UNCHANGED <<tableVars, news, shown, reloads, newest, loadError, link,
                   registered, accepted, settled, overtaken>>

\* finally: whatever the answer, the page reloads.
CancelAnswered(j) ==
    /\ j \in canceling
    /\ canceling' = canceling \ {j}
    /\ Refresh
    /\ UNCHANGED <<tableVars, news, shown, loadError, link, registered, accepted,
                   settled>>

-----------------------------------------------------------------------------
(* Specification *)

PageStep ==
    \/ Connect \/ Register \/ Open \/ Close
    \/ \E g \in Slots : ReadTable(g) \/ TakeAnswer(g) \/ DropAnswer(g)
    \/ \E j \in Jobs : \/ Upload(j) \/ AddOptimistic(j) \/ UploadFails(j)
                       \/ Cancel(j) \/ CancelAnswered(j)

UiNext ==
    \/ PageStep
    \/ Unannounced
    \/ \E j \in Jobs : Announced(j)
    \/ \E ev \in news : Lose(ev) \/ Receive(ev)

UiSpec == UiInit /\ [][UiNext]_uiVars

\* No message stays on its way for ever.
Arrives(j) ==
    \/ AddOptimistic(j) \/ UploadFails(j)
    \/ \E ev \in news : ev.job = j /\ (Lose(ev) \/ Receive(ev))

UiFairSpec == UiSpec /\ \A j \in Jobs : WF_uiVars(Arrives(j))

\* The network at its best: every change is announced, the events of a job stay
\* in order, the hub knows the page before the page takes itself for connected,
\* and until the connection closes nothing is lost.  The page only watches.
Precedes(ev, other) ==
    \/ ev.attempt < other.attempt
    \/ ev.attempt = other.attempt /\ (ev.status = "processing" \/ other.status \in Terminal)

First(ev) == \A other \in news \ {ev} : other.job = ev.job => Precedes(ev, other)

ReliableNext ==
    \/ PageStep /\ (link' = "open" => registered') /\ accepted' = {}
    \/ \E j \in Jobs : Announced(j) \/ (Submit(j) /\ UNCHANGED <<pageVars, news>>)
    \/ \E ev \in news : First(ev) /\ ((link # "open" /\ Lose(ev)) \/ Receive(ev))

ReliableSpec == UiInit /\ [][ReliableNext]_uiVars

-----------------------------------------------------------------------------
(* Properties *)

\* Whatever is late, lost or out of order, a row that reads done or failed says
\* what the table says: the page never announces a verdict that was not given.
VerdictShownIsTrue ==
    \A j \in Jobs : shown[j].status \in Terminal => status[j] = shown[j].status

\* A download link is on the page only for a result that exists.
LinkIsLive == \A j \in Jobs : shown[j].csv => status[j] = "done"

\* Once the page has taken the answer of a reload that was issued when a job had
\* finished and nothing said of it was still on its way, the job's row is right,
\* and nothing turns it back: not an answer of an older reload, in whatever order
\* they arrive, nor a late event or 202.
SettledIsShown == \A j \in settled : shown[j] = RowOf(status[j])

\* If reloads go on being answered, every finished job is in the end shown as it
\* is, for good, however many of its events were lost.
ReloadsConverge ==
    []<><<\E g \in Slots : TakeAnswer(g)>>_uiVars =>
        \A j \in Jobs : Finished(j) ~> [](shown[j] = RowOf(status[j]))

\* The page is connected, its reloads are answered and nothing is on its way.
Quiet == /\ link = "open" /\ registered
         /\ \A g \in Slots : reloads[g].at = "free"
         /\ news = {} /\ accepted = {} /\ ~loadError

Wrong(j) == Finished(j) /\ shown[j] # NoRow /\ shown[j] # RowOf(status[j])

\* useJobs.ts: every (re)connect triggers a refetch that "closes whatever gap the
\* disconnect opened".  When all is quiet, the rows the page has of finished jobs
\* are right.
GapClosed == Quiet => \A j \in Jobs : ~Wrong(j)

\* What is true of it: on a network at its best a row is left wrong only if, since
\* the last reload was issued, an event of its job was received while that
\* reload's answer was on its way and said otherwise.  Neither a disconnect nor
\* an older reload leaves a wrong row behind.
GapOnlyIfOvertaken == Quiet => \A j \in Jobs : Wrong(j) => j \in overtaken

-----------------------------------------------------------------------------
(* The inductive invariant *)

\* What a row, wherever it is, may claim of its job.
TrueOf(row, j) ==
    /\ row.status \in Terminal => status[j] = row.status
    /\ row.csv => status[j] = "done"

\* No verdict anywhere on the page or on its way to it is false.
TrueInv ==
    /\ \A j \in Jobs : TrueOf(shown[j], j)
    /\ \A g \in Slots : \A j \in Jobs : TrueOf(reloads[g].rows[j], j)
    /\ \A ev \in news : ev.status \in Terminal => status[ev.job] = ev.status

\* A job at rest stays so, a reload issued since then reads its final row, and
\* the newest reload was issued after all that has settled.
SettledInv ==
    /\ \A j \in settled : AtRest(j) /\ shown[j] = RowOf(status[j])
    /\ \A g \in Slots : \A j \in reloads[g].since :
          /\ AtRest(j)
          /\ reloads[g].at = "read" => reloads[g].rows[j] = RowOf(status[j])
    /\ \A g \in Slots : IsNewest(g) /\ reloads[g].at # "free" => settled \subseteq reloads[g].since

UiInv == UiTypeOK /\ TrueInv /\ SettledInv

=============================================================================
