---------------------------- MODULE UiJobsProofs ----------------------------
(***************************************************************************)
(* Proofs about UiJobs, for any number of jobs, reloads, events and        *)
(* attempts.                                                               *)
(*                                                                         *)
(* All rests on one fact of the table: a finished row stays as it is       *)
(* (TableMoves).  So a verdict that was once true, wherever it is, remains *)
(* true, and a job of which nothing is on its way remains at rest.         *)
(*                                                                         *)
(* The last part is about a network at its best.  There the events of a    *)
(* job are in order, so as long as anything said of a finished job is on   *)
(* its way its verdict is, and comes last (NewsInv); once the verdict is   *)
(* in or lost, the newest reload has the row right or brings it, unless    *)
(* an event of the job overtook that reload on its way (GapInv).           *)
(***************************************************************************)
EXTENDS UiJobs, TLAPS

-----------------------------------------------------------------------------
(* The table *)

LEMMA TableMoves ==
    ASSUME UiTypeOK, Next \/ UNCHANGED tableVars
    PROVE  /\ status' \in [Jobs -> Status]
           /\ attempt' \in [Jobs -> 0..MaxAttempts]
           /\ \A j \in Jobs : Finished(j) => status'[j] = status[j]
<1> USE DEF UiTypeOK, Status, Live, Terminal, Finished
<1>1. CASE UNCHANGED tableVars
  BY <1>1 DEF tableVars
<1>2. ASSUME NEW j \in Jobs, Submit(j)
      PROVE  /\ status' \in [Jobs -> Status]
             /\ attempt' \in [Jobs -> 0..MaxAttempts]
             /\ \A i \in Jobs : Finished(i) => status'[i] = status[i]
  BY <1>2 DEF Submit
<1>3. ASSUME NEW j \in Jobs, Start(j)
      PROVE  /\ status' \in [Jobs -> Status]
             /\ attempt' \in [Jobs -> 0..MaxAttempts]
             /\ \A i \in Jobs : Finished(i) => status'[i] = status[i]
  <2>1. attempt[j] + 1 \in 0..MaxAttempts
    BY <1>3, UiAssumption DEF Start
  <2>2. QED
    BY <1>3, <2>1 DEF Start
<1>4. ASSUME NEW j \in Jobs, Succeed(j) \/ Retry(j)
      PROVE  /\ status' \in [Jobs -> Status]
             /\ attempt' \in [Jobs -> 0..MaxAttempts]
             /\ \A i \in Jobs : Finished(i) => status'[i] = status[i]
  BY <1>4 DEF Succeed, Retry
<1>5. ASSUME NEW S \in SUBSET Jobs, Fail(S)
      PROVE  /\ status' \in [Jobs -> Status]
             /\ attempt' \in [Jobs -> 0..MaxAttempts]
             /\ \A i \in Jobs : Finished(i) => status'[i] = status[i]
  BY <1>5 DEF Fail
<1>6. QED
  BY <1>1, <1>2, <1>3, <1>4, <1>5 DEF Next

\* An announced change is a change of the table that brings one event, true and
\* of a job that was not finished.
LEMMA AnnouncedMoves ==
    ASSUME UiTypeOK, NEW j \in Jobs, Announced(j)
    PROVE  /\ Next /\ UNCHANGED pageVars
           /\ ~Finished(j)
           /\ \E s \in Status \ {"absent"} :
                 /\ news' = news \cup {[job |-> j, status |-> s, attempt |-> attempt'[j]]}
                 /\ s \in Terminal => status'[j] = s
<1> USE DEF UiTypeOK, Announced, Announce, Finished, Next, Status, Live, Terminal
<1>1. CASE Start(j) /\ Announce(j, "processing")
  BY <1>1 DEF Start
<1>2. CASE Succeed(j) /\ Announce(j, "done")
  BY <1>2 DEF Succeed
<1>3. CASE Retry(j) /\ Announce(j, "queued")
  BY <1>3 DEF Retry
<1>4. CASE Fail({j}) /\ Announce(j, "failed")
  BY <1>4 DEF Fail
<1>5. QED
  BY <1>1, <1>2, <1>3, <1>4

\* Only the table's own steps, and this page's upload, change the table.
LEMMA StepOfTable ==
    ASSUME UiTypeOK, [UiNext]_uiVars
    PROVE  Next \/ UNCHANGED tableVars
<1>1. CASE UNCHANGED uiVars
  BY <1>1 DEF uiVars, tableVars
<1>2. CASE PageStep
  BY <1>2 DEF PageStep, Connect, Register, Open, Close, ReadTable, TakeAnswer, DropAnswer,
              Upload, AddOptimistic, UploadFails, Cancel, CancelAnswered, tableVars, Next
<1>3. CASE Unannounced
  BY <1>3 DEF Unannounced
<1>4. CASE \E j \in Jobs : Announced(j)
  BY <1>4, AnnouncedMoves
<1>5. CASE \E ev \in news : Lose(ev) \/ Receive(ev)
  BY <1>5 DEF Lose, Receive
<1>6. QED
  BY <1>1, <1>2, <1>3, <1>4, <1>5 DEF UiNext

-----------------------------------------------------------------------------
(* Types *)

LEMMA RowTypes ==
    /\ \A s \in Status : RowOf(s) \in Rows
    /\ NoRow \in Rows
    /\ UiTypeOK => Listing \in [Jobs -> Rows]
BY DEF RowOf, Rows, NoRow, Status, UiTypeOK, Listing

LEMMA FreeType == Free \in Reload
BY RowTypes DEF Free, Reload

LEMMA RefreshTypes ==
    ASSUME UiTypeOK, Refresh
    PROVE  /\ reloads' \in [Slots -> Reload]
           /\ newest' \in Slots
           /\ overtaken' = {}
<1>1. PICK g \in Slots :
        /\ reloads' = [reloads EXCEPT ![g] = [Free EXCEPT !.at = "sent",
                                                          !.since = {j \in Jobs : AtRest(j)}]]
        /\ newest' = g
  BY DEF Refresh
<1>2. [Free EXCEPT !.at = "sent", !.since = {j \in Jobs : AtRest(j)}] \in Reload
  BY FreeType DEF Reload
<1>3. QED
  BY <1>1, <1>2 DEF UiTypeOK, Refresh

LEMMA TypeStep ==
    ASSUME UiTypeOK, [UiNext]_uiVars
    PROVE  UiTypeOK'
<1>t. status' \in [Jobs -> Status] /\ attempt' \in [Jobs -> 0..MaxAttempts]
  BY StepOfTable, TableMoves
<1> USE DEF UiTypeOK
<1>1. CASE UNCHANGED uiVars
  BY <1>1 DEF uiVars, tableVars, pageVars
<1>2. CASE Connect
  BY <1>2, <1>t, RefreshTypes DEF Connect
<1>3. CASE Register
  BY <1>3, <1>t DEF Register
<1>4. CASE Open
  BY <1>4, <1>t, RefreshTypes DEF Open
<1>5. CASE Close
  BY <1>5, <1>t DEF Close
<1>6. ASSUME NEW g \in Slots, ReadTable(g)
      PROVE  UiTypeOK'
  <2>0. Listing \in [Jobs -> Rows]
    BY RowTypes DEF UiTypeOK
  <2>1. [reloads[g] EXCEPT !.at = "read", !.rows = Listing] \in Reload
    BY <2>0 DEF Reload
  <2>2. reloads' \in [Slots -> Reload]
    BY <1>6, <2>1 DEF ReadTable
  <2>3. QED
    BY <1>6, <1>t, <2>2 DEF ReadTable
<1>7. ASSUME NEW g \in Slots, TakeAnswer(g)
      PROVE  UiTypeOK'
  <2>1. reloads[g].rows \in [Jobs -> Rows] /\ reloads[g].since \in SUBSET Jobs
    BY DEF Reload
  <2>2. shown' \in [Jobs -> Rows]
    BY <1>7, <2>1 DEF TakeAnswer, Merged
  <2>3. reloads' \in [Slots -> Reload]
    BY <1>7, FreeType DEF TakeAnswer
  <2>4. settled' \in SUBSET Jobs
    BY <1>7, <2>1 DEF TakeAnswer
  <2>5. QED
    BY <1>7, <1>t, <2>2, <2>3, <2>4 DEF TakeAnswer
<1>8. ASSUME NEW g \in Slots, DropAnswer(g)
      PROVE  UiTypeOK'
  <2>1. reloads' \in [Slots -> Reload]
    BY <1>8, FreeType DEF DropAnswer
  <2>2. loadError' \in BOOLEAN
    BY <1>8 DEF DropAnswer
  <2>3. QED
    BY <1>8, <1>t, <2>1, <2>2 DEF DropAnswer
<1>9. ASSUME NEW j \in Jobs, Upload(j)
      PROVE  UiTypeOK'
  BY <1>9, <1>t DEF Upload
<1>10. ASSUME NEW j \in Jobs, AddOptimistic(j)
       PROVE  UiTypeOK'
  <2>1. RowOf("queued") \in Rows
    BY RowTypes DEF Status, Live
  <2>2. shown' \in [Jobs -> Rows]
    BY <1>10, <2>1 DEF AddOptimistic
  <2>3. QED
    BY <1>10, <1>t, <2>2 DEF AddOptimistic
<1>11. ASSUME NEW j \in Jobs, UploadFails(j)
       PROVE  UiTypeOK'
  BY <1>11, <1>t DEF UploadFails
<1>12. ASSUME NEW j \in Jobs, Cancel(j)
       PROVE  UiTypeOK'
  BY <1>12, <1>t DEF Cancel
<1>13. ASSUME NEW j \in Jobs, CancelAnswered(j)
       PROVE  UiTypeOK'
  BY <1>13, <1>t, RefreshTypes DEF CancelAnswered
<1>14. CASE Unannounced
  BY <1>14, <1>t DEF Unannounced, pageVars
<1>15. ASSUME NEW j \in Jobs, Announced(j)
       PROVE  UiTypeOK'
  <2>1. PICK s \in Status \ {"absent"} :
          news' = news \cup {[job |-> j, status |-> s, attempt |-> attempt'[j]]}
    BY <1>15, AnnouncedMoves
  <2>2. [job |-> j, status |-> s, attempt |-> attempt'[j]] \in News
    BY <1>t DEF News
  <2>3. news' \in SUBSET News
    BY <2>1, <2>2
  <2>4. UNCHANGED pageVars
    BY <1>15, AnnouncedMoves
  <2>5. QED
    BY <1>t, <2>3, <2>4 DEF pageVars
<1>16. ASSUME NEW ev \in news, Lose(ev)
       PROVE  UiTypeOK'
  BY <1>16, <1>t DEF Lose, pageVars
<1>17. ASSUME NEW ev \in news, Receive(ev)
       PROVE  UiTypeOK'
  <2>1. ev.job \in Jobs /\ ev.status \in Status
    BY DEF News
  <2>2. shown' \in [Jobs -> Rows]
    BY <1>17, <2>1 DEF Receive, Patched, Rows
  <2>3. /\ reloads' \in [Slots -> Reload] /\ newest' \in Slots \cup {NoReload}
        /\ overtaken' \in SUBSET Jobs
    BY <1>17, <2>1, RefreshTypes DEF Receive
  <2>4. QED
    BY <1>17, <1>t, <2>2, <2>3 DEF Receive
<1>18. QED
  BY <1>1, <1>2, <1>3, <1>4, <1>5, <1>6, <1>7, <1>8, <1>9, <1>10, <1>11, <1>12, <1>13,
     <1>14, <1>15, <1>16, <1>17 DEF UiNext, PageStep

-----------------------------------------------------------------------------
(* Verdicts *)

\* TrueOf of a row of either state, after a step.
TrueThen(row, j) ==
    /\ row.status \in Terminal => status'[j] = row.status
    /\ row.csv => status'[j] = "done"

\* What is true of a job stays true of it.
LEMMA TrueStays ==
    ASSUME UiTypeOK, [UiNext]_uiVars
    PROVE  /\ \A row \in Rows, j \in Jobs : TrueOf(row, j) => TrueThen(row, j)
           /\ \A j \in Jobs, s \in Terminal : status[j] = s => status'[j] = s
<1>1. \A j \in Jobs : Finished(j) => status'[j] = status[j]
  BY StepOfTable, TableMoves
<1>2. QED
  BY <1>1 DEF TrueOf, TrueThen, Finished, Terminal

\* A row read from the table is true of it.
LEMMA ReadIsTrue == \A j \in Jobs : TrueOf(RowOf(status[j]), j) /\ TrueOf(NoRow, j)
BY DEF TrueOf, RowOf, NoRow, Terminal

\* The three kinds of changes: rows of the page, a reload, the events.
LEMMA TrueReloads ==
    ASSUME UiTypeOK, TrueInv, [UiNext]_uiVars,
           \/ UNCHANGED reloads
           \/ Refresh
           \/ \E g \in Slots : \/ reloads' = [reloads EXCEPT ![g] = Free]
                               \/ ReadTable(g)
    PROVE  (\A g \in Slots : \A j \in Jobs : TrueOf(reloads[g].rows[j], j))'
<1> SUFFICES ASSUME NEW g \in Slots, NEW j \in Jobs
             PROVE  TrueThen(reloads'[g].rows[j], j)
  BY DEF TrueOf, TrueThen
<1>1. reloads[g].rows[j] \in Rows /\ TrueOf(reloads[g].rows[j], j)
  BY DEF UiTypeOK, Reload, TrueInv
<1>2. reloads'[g].rows[j] \in Rows
  BY TypeStep DEF UiTypeOK, Reload
<1>3. \/ reloads'[g].rows[j] = reloads[g].rows[j]
      \/ reloads'[g].rows[j] = NoRow
      \/ reloads'[g].rows[j] = RowOf(status[j])
  <2>1. CASE UNCHANGED reloads
    BY <2>1
  <2>2. CASE Refresh
    <3>1. PICK h \in Slots :
            reloads' = [reloads EXCEPT ![h] = [Free EXCEPT !.at = "sent",
                                                           !.since = {i \in Jobs : AtRest(i)}]]
      BY <2>2 DEF Refresh
    <3>2. [Free EXCEPT !.at = "sent", !.since = {i \in Jobs : AtRest(i)}].rows[j] = NoRow
      BY DEF Free
    <3>3. QED
      BY <3>1, <3>2 DEF UiTypeOK
  <2>3. ASSUME NEW h \in Slots, reloads' = [reloads EXCEPT ![h] = Free]
        PROVE  reloads'[g].rows[j] = reloads[g].rows[j] \/ reloads'[g].rows[j] = NoRow
    BY <2>3 DEF Free, UiTypeOK
  <2>4. ASSUME NEW h \in Slots, ReadTable(h)
        PROVE  reloads'[g].rows[j] = reloads[g].rows[j] \/ reloads'[g].rows[j] = RowOf(status[j])
    <3>1. reloads' = [reloads EXCEPT ![h].at = "read", ![h].rows = Listing]
      BY <2>4 DEF ReadTable
    <3>2. reloads'[g].rows = reloads[g].rows \/ reloads'[g].rows = Listing
      BY <3>1 DEF UiTypeOK, Reload
    <3>3. Listing[j] = RowOf(status[j])
      BY DEF Listing
    <3>4. QED
      BY <3>2, <3>3
  <2>5. QED
    BY <2>1, <2>2, <2>3, <2>4
<1>4. TrueOf(reloads'[g].rows[j], j)
  BY <1>1, <1>3, ReadIsTrue
<1>5. QED
  BY <1>2, <1>4, TrueStays

LEMMA TrueRows ==
    ASSUME UiTypeOK, TrueInv, [UiNext]_uiVars,
           \A j \in Jobs : TrueOf(shown'[j], j)
    PROVE  (\A j \in Jobs : TrueOf(shown[j], j))'
<1> SUFFICES ASSUME NEW j \in Jobs
             PROVE  TrueThen(shown'[j], j)
  BY DEF TrueOf, TrueThen
<1>1. shown'[j] \in Rows
  BY TypeStep DEF UiTypeOK
<1>2. QED
  BY <1>1, TrueStays

LEMMA TrueNews ==
    ASSUME UiTypeOK, TrueInv, [UiNext]_uiVars, news' \subseteq news
    PROVE  (\A ev \in news : ev.status \in Terminal => status[ev.job] = ev.status)'
<1> SUFFICES ASSUME NEW ev \in news, ev.status \in Terminal
             PROVE  status'[ev.job] = ev.status
  OBVIOUS
<1>1. ev.job \in Jobs /\ status[ev.job] = ev.status
  BY DEF UiTypeOK, News, TrueInv
<1>2. QED
  BY <1>1, TrueStays

LEMMA TrueStep ==
    ASSUME UiTypeOK, TrueInv, [UiNext]_uiVars
    PROVE  TrueInv'
<1>a. \A j \in Jobs : TrueOf(shown[j], j)
  BY DEF TrueInv
<1>1. CASE /\ UNCHANGED <<shown, news>>
           /\ \/ UNCHANGED reloads
              \/ Refresh
              \/ \E g \in Slots : \/ reloads' = [reloads EXCEPT ![g] = Free]
                                  \/ ReadTable(g)
  BY <1>1, <1>a, TrueReloads, TrueRows, TrueNews DEF TrueInv
<1>2. CASE UNCHANGED uiVars
  BY <1>1, <1>2 DEF uiVars, pageVars
<1>3. CASE Connect \/ Register \/ Open \/ Close
  BY <1>1, <1>3 DEF Connect, Register, Open, Close
<1>4. ASSUME NEW g \in Slots, ReadTable(g)
      PROVE  TrueInv'
  <2>1. UNCHANGED <<shown, news>>
    BY <1>4 DEF ReadTable
  <2>2. QED
    BY <1>4, <2>1, <1>1
<1>5. ASSUME NEW g \in Slots, DropAnswer(g)
      PROVE  TrueInv'
  BY <1>1, <1>5 DEF DropAnswer
<1>6. ASSUME NEW g \in Slots, TakeAnswer(g)
      PROVE  TrueInv'
  <2>1. \A j \in Jobs : shown'[j] = shown[j] \/ shown'[j] = reloads[g].rows[j]
    BY <1>6 DEF TakeAnswer, Merged
  <2>2. \A j \in Jobs : TrueOf(shown'[j], j)
    BY <2>1 DEF TrueInv
  <2>3. reloads' = [reloads EXCEPT ![g] = Free] /\ UNCHANGED news
    BY <1>6 DEF TakeAnswer
  <2>4. QED
    BY <2>2, <2>3, TrueReloads, TrueRows, TrueNews DEF TrueInv
<1>7. ASSUME NEW j \in Jobs, Upload(j) \/ UploadFails(j) \/ Cancel(j) \/ CancelAnswered(j)
      PROVE  TrueInv'
  BY <1>1, <1>7 DEF Upload, UploadFails, Cancel, CancelAnswered
<1>8. ASSUME NEW j \in Jobs, AddOptimistic(j)
      PROVE  TrueInv'
  <2>1. TrueOf(RowOf("queued"), j)
    BY DEF TrueOf, RowOf, Terminal
  <2>2. \A i \in Jobs : shown'[i] = IF i = j THEN RowOf("queued") ELSE shown[i]
    BY <1>8 DEF AddOptimistic, UiTypeOK
  <2>3. \A i \in Jobs : TrueOf(shown'[i], i)
    BY <2>1, <2>2, <1>a
  <2>4. UNCHANGED <<reloads, news>>
    BY <1>8 DEF AddOptimistic
  <2>5. QED
    BY <2>3, <2>4, TrueReloads, TrueRows, TrueNews DEF TrueInv
<1>9. CASE Unannounced
  BY <1>1, <1>9 DEF Unannounced, pageVars
<1>10. ASSUME NEW j \in Jobs, Announced(j)
       PROVE  TrueInv'
  <2>1. PICK s \in Status \ {"absent"} :
          /\ news' = news \cup {[job |-> j, status |-> s, attempt |-> attempt'[j]]}
          /\ s \in Terminal => status'[j] = s
    BY <1>10, AnnouncedMoves
  <2>2. ASSUME NEW ev \in news', ev.status \in Terminal
        PROVE  status'[ev.job] = ev.status
    <3>1. CASE ev \in news
      <4>1. ev.job \in Jobs /\ status[ev.job] = ev.status
        BY <2>2, <3>1 DEF UiTypeOK, News, TrueInv
      <4>2. QED
        BY <2>2, <4>1, TrueStays
    <3>2. CASE ev \notin news
      BY <2>1, <2>2, <3>2
    <3>3. QED
      BY <3>1, <3>2
  <2>3. UNCHANGED <<shown, reloads>>
    BY <1>10, AnnouncedMoves DEF pageVars
  <2>4. (\A ev \in news : ev.status \in Terminal => status[ev.job] = ev.status)'
    BY <2>2
  <2>5. (\A g \in Slots : \A i \in Jobs : TrueOf(reloads[g].rows[i], i))'
    BY <2>3, TrueReloads
  <2>6. (\A i \in Jobs : TrueOf(shown[i], i))'
    BY <2>3, <1>a, TrueRows
  <2>7. QED
    BY <2>4, <2>5, <2>6 DEF TrueInv
<1>11. ASSUME NEW ev \in news, Lose(ev)
       PROVE  TrueInv'
  <2>1. UNCHANGED <<shown, reloads>> /\ news' \subseteq news
    BY <1>11 DEF Lose, pageVars
  <2>2. QED
    BY <2>1, <1>a, TrueReloads, TrueRows, TrueNews DEF TrueInv
<1>12. ASSUME NEW ev \in news, Receive(ev)
       PROVE  TrueInv'
  <2>1. ev.job \in Jobs /\ (ev.status \in Terminal => status[ev.job] = ev.status)
    BY DEF UiTypeOK, News, TrueInv
  <2>2. ASSUME NEW j \in Jobs
        PROVE  TrueOf(shown'[j], j)
    <3>1. CASE j # ev.job \/ shown[j] = NoRow
      <4>1. shown'[j] = shown[j]
        BY <1>12, <3>1 DEF Receive, Patched, UiTypeOK
      <4>2. QED
        BY <4>1, <1>a
    <3>2. CASE j = ev.job /\ shown[j] # NoRow
      <4>1. shown'[j] = [status |-> ev.status, csv |-> shown[j].csv \/ ev.status = "done"]
        BY <1>12, <3>2, <2>1 DEF Receive, Patched, UiTypeOK
      <4>l. PICK linked : linked = (shown[j].csv \/ ev.status = "done")
        OBVIOUS
      <4>r. shown'[j] = [status |-> ev.status, csv |-> linked]
        BY <4>1, <4>l
      <4>2. shown'[j].status = ev.status /\ shown'[j].csv = linked
        BY <4>r
      <4>3. shown[j].csv => status[j] = "done"
        BY <1>a DEF TrueOf
      <4>4. ev.status = "done" => status[j] = "done"
        BY <2>1, <3>2 DEF Terminal
      <4>5. QED
        BY <4>l, <4>2, <4>3, <4>4, <2>1, <3>2 DEF TrueOf
    <3>3. QED
      BY <3>1, <3>2
  <2>3. news' \subseteq news /\ (Refresh \/ UNCHANGED reloads)
    BY <1>12 DEF Receive
  <2>4. QED
    BY <2>2, <2>3, TrueReloads, TrueRows, TrueNews DEF TrueInv
<1>13. QED
  BY <1>2, <1>3, <1>4, <1>5, <1>6, <1>7, <1>8, <1>9, <1>10, <1>11, <1>12 DEF UiNext, PageStep

-----------------------------------------------------------------------------
(* Jobs at rest *)

\* A job at rest stays at rest, and its row final.
LEMMA RestStays ==
    ASSUME UiTypeOK, [UiNext]_uiVars
    PROVE  \A j \in Jobs : AtRest(j) => AtRest(j)' /\ status'[j] = status[j]
<1> SUFFICES ASSUME NEW j \in Jobs, AtRest(j)
             PROVE  AtRest(j)' /\ status'[j] = status[j]
  OBVIOUS
<1>1. Finished(j) /\ j \notin accepted /\ \A ev \in news : ev.job # j
  BY DEF AtRest
<1>2. status'[j] = status[j]
  BY <1>1, StepOfTable, TableMoves
<1>3. j \notin accepted'
  <2>1. ASSUME NEW i \in Jobs, Upload(i)
        PROVE  j \notin accepted'
    BY <2>1, <1>1 DEF Upload, Submit, Finished, Terminal
  <2>2. CASE UNCHANGED accepted
    BY <2>2, <1>1
  <2>3. CASE accepted' \subseteq accepted
    BY <2>3, <1>1
  <2>4. CASE UNCHANGED uiVars \/ Connect \/ Register \/ Open \/ Close \/ Unannounced
    BY <2>4, <2>2 DEF uiVars, pageVars, Connect, Register, Open, Close, Unannounced
  <2>5. ASSUME NEW g \in Slots, ReadTable(g) \/ TakeAnswer(g) \/ DropAnswer(g)
        PROVE  j \notin accepted'
    BY <2>5, <2>2 DEF ReadTable, TakeAnswer, DropAnswer
  <2>6. ASSUME NEW i \in Jobs, AddOptimistic(i) \/ UploadFails(i) \/ Cancel(i) \/ CancelAnswered(i)
        PROVE  j \notin accepted'
    BY <2>6, <2>3 DEF AddOptimistic, UploadFails, Cancel, CancelAnswered
  <2>7. ASSUME NEW i \in Jobs, Announced(i)
        PROVE  j \notin accepted'
    BY <2>7, <2>2, AnnouncedMoves DEF pageVars
  <2>8. ASSUME NEW ev \in news, Lose(ev) \/ Receive(ev)
        PROVE  j \notin accepted'
    BY <2>8, <2>2 DEF Lose, Receive, pageVars
  <2>9. QED
    BY <2>1, <2>4, <2>5, <2>6, <2>7, <2>8 DEF UiNext, PageStep
<1>4. \A ev \in news' : ev.job # j
  <2>1. CASE news' \subseteq news
    BY <2>1, <1>1
  <2>2. CASE UNCHANGED uiVars
    BY <2>2, <2>1 DEF uiVars
  <2>3. CASE PageStep \/ Unannounced
    BY <2>3, <2>1 DEF PageStep, Connect, Register, Open, Close, ReadTable, TakeAnswer, DropAnswer,
                      Upload, AddOptimistic, UploadFails, Cancel, CancelAnswered, Unannounced
  <2>4. ASSUME NEW i \in Jobs, Announced(i)
        PROVE  \A ev \in news' : ev.job # j
    <3>1. ~Finished(i)
      BY <2>4, AnnouncedMoves
    <3>2. i # j
      BY <3>1, <1>1
    <3>3. PICK s \in Status \ {"absent"} :
            news' = news \cup {[job |-> i, status |-> s, attempt |-> attempt'[i]]}
      BY <2>4, AnnouncedMoves
    <3>4. QED
      BY <3>2, <3>3, <1>1
  <2>5. ASSUME NEW ev \in news, Lose(ev) \/ Receive(ev)
        PROVE  news' \subseteq news
    BY <2>5 DEF Lose, Receive
  <2>6. QED
    BY <2>1, <2>2, <2>3, <2>4, <2>5 DEF UiNext
<1>5. Finished(j)'
  BY <1>1, <1>2 DEF Finished
<1>6. QED
  BY <1>2, <1>3, <1>4, <1>5 DEF AtRest

\* What SettledInv says of the reloads alone.
ReloadsAtRest ==
    \A g \in Slots : \A j \in reloads[g].since :
        /\ AtRest(j)
        /\ reloads[g].at = "read" => reloads[g].rows[j] = RowOf(status[j])

NewestKnowsSettled ==
    \A g \in Slots : IsNewest(g) /\ reloads[g].at # "free" => settled \subseteq reloads[g].since

\* Reloads stay right however they move.
LEMMA RestReloads ==
    ASSUME UiTypeOK, ReloadsAtRest, [UiNext]_uiVars,
           \/ UNCHANGED reloads
           \/ Refresh
           \/ \E g \in Slots : \/ reloads' = [reloads EXCEPT ![g] = Free]
                               \/ ReadTable(g)
    PROVE  ReloadsAtRest'
<1> SUFFICES ASSUME NEW g \in Slots, NEW j \in reloads'[g].since
             PROVE  /\ AtRest(j)'
                    /\ reloads'[g].at = "read" => reloads'[g].rows[j] = RowOf(status'[j])
  BY DEF ReloadsAtRest, RowOf
<1>0. reloads[g].since \subseteq Jobs /\ reloads[g] \in Reload
  BY DEF UiTypeOK, Reload
<1>k. \A i \in reloads[g].since : /\ i \in Jobs /\ AtRest(i)' /\ status'[i] = status[i]
                                  /\ reloads[g].at = "read" => reloads[g].rows[i] = RowOf(status[i])
  BY <1>0, RestStays DEF ReloadsAtRest
<1>1. CASE UNCHANGED reloads
  BY <1>1, <1>k
<1>2. CASE Refresh
  <2>1. PICK h \in Slots :
          reloads' = [reloads EXCEPT ![h] = [Free EXCEPT !.at = "sent",
                                                         !.since = {i \in Jobs : AtRest(i)}]]
    BY <1>2 DEF Refresh
  <2>2. CASE g # h
    <3>1. reloads'[g] = reloads[g]
      BY <2>1, <2>2 DEF UiTypeOK
    <3>2. QED
      BY <3>1, <1>k
  <2>3. CASE g = h
    <3>1. reloads'[g].at = "sent" /\ reloads'[g].since = {i \in Jobs : AtRest(i)}
      BY <2>1, <2>3 DEF UiTypeOK, Free
    <3>2. j \in Jobs /\ AtRest(j)
      BY <3>1
    <3>3. AtRest(j)'
      BY <3>2, RestStays
    <3>4. QED
      BY <3>1, <3>3
  <2>4. QED
    BY <2>2, <2>3
<1>3. ASSUME NEW h \in Slots, reloads' = [reloads EXCEPT ![h] = Free]
      PROVE  /\ AtRest(j)'
             /\ reloads'[g].at = "read" => reloads'[g].rows[j] = RowOf(status'[j])
  <2>1. g # h
    BY <1>3 DEF UiTypeOK, Free
  <2>2. reloads'[g] = reloads[g]
    BY <2>1, <1>3 DEF UiTypeOK
  <2>3. QED
    BY <2>2, <1>k
<1>4. ASSUME NEW h \in Slots, ReadTable(h)
      PROVE  /\ AtRest(j)'
             /\ reloads'[g].at = "read" => reloads'[g].rows[j] = RowOf(status'[j])
  <2>1. reloads' = [reloads EXCEPT ![h].at = "read", ![h].rows = Listing]
    BY <1>4 DEF ReadTable
  <2>2. CASE g # h
    <3>1. reloads'[g] = reloads[g]
      BY <2>1, <2>2 DEF UiTypeOK
    <3>2. QED
      BY <3>1, <1>k
  <2>3. CASE g = h
    <3>1. reloads'[g].since = reloads[g].since /\ reloads'[g].rows = Listing
      BY <2>1, <2>3, <1>0 DEF UiTypeOK, Reload
    <3>2. j \in Jobs /\ AtRest(j)' /\ status'[j] = status[j]
      BY <3>1, <1>k
    <3>3. reloads'[g].rows[j] = RowOf(status[j])
      BY <3>1, <3>2 DEF Listing
    <3>4. QED
      BY <3>2, <3>3
  <2>4. QED
    BY <2>2, <2>3
<1>5. QED
  BY <1>1, <1>2, <1>3, <1>4

LEMMA NewestReloads ==
    ASSUME UiTypeOK, NewestKnowsSettled, \A j \in settled : AtRest(j), [UiNext]_uiVars,
           UNCHANGED settled,
           \/ UNCHANGED <<reloads, newest>>
           \/ Refresh
           \/ UNCHANGED newest /\ \E g \in Slots : \/ reloads' = [reloads EXCEPT ![g] = Free]
                                                   \/ ReadTable(g)
    PROVE  NewestKnowsSettled'
<1> SUFFICES ASSUME NEW g \in Slots, g = newest', reloads'[g].at # "free"
             PROVE  settled \subseteq reloads'[g].since
  BY DEF NewestKnowsSettled, IsNewest
<1>0. reloads[g] \in Reload
  BY DEF UiTypeOK
<1>1. CASE UNCHANGED <<reloads, newest>>
  BY <1>1 DEF NewestKnowsSettled, IsNewest
<1>2. CASE Refresh
  <2>1. reloads' = [reloads EXCEPT ![g] = [Free EXCEPT !.at = "sent",
                                                       !.since = {i \in Jobs : AtRest(i)}]]
    BY <1>2 DEF Refresh
  <2>2. reloads'[g].since = {i \in Jobs : AtRest(i)}
    BY <2>1 DEF UiTypeOK, Free
  <2>3. QED
    BY <2>2 DEF UiTypeOK
<1>3. ASSUME NEW h \in Slots, UNCHANGED newest, reloads' = [reloads EXCEPT ![h] = Free]
      PROVE  settled \subseteq reloads'[g].since
  <2>1. reloads'[g] = reloads[g]
    BY <1>3 DEF UiTypeOK, Free
  <2>2. QED
    BY <2>1, <1>3 DEF NewestKnowsSettled, IsNewest
<1>4. ASSUME NEW h \in Slots, UNCHANGED newest, ReadTable(h)
      PROVE  settled \subseteq reloads'[g].since
  <2>1. reloads' = [reloads EXCEPT ![h].at = "read", ![h].rows = Listing] /\ reloads[h].at = "sent"
    BY <1>4 DEF ReadTable
  <2>2. reloads'[g].since = reloads[g].since
    BY <2>1, <1>0 DEF UiTypeOK, Reload
  <2>3. reloads[g].at # "free"
    BY <2>1 DEF UiTypeOK, Reload
  <2>4. QED
    BY <2>2, <2>3, <1>4 DEF NewestKnowsSettled, IsNewest
<1>5. QED
  BY <1>1, <1>2, <1>3, <1>4

\* What SettledInv says of the page alone.
SettledRight == \A j \in settled : AtRest(j) /\ shown[j] = RowOf(status[j])

LEMMA SettledRows ==
    ASSUME UiTypeOK, SettledRight, [UiNext]_uiVars, UNCHANGED settled,
           \A j \in settled : shown'[j] = shown[j]
    PROVE  SettledRight'
<1> SUFFICES ASSUME NEW j \in settled
             PROVE  AtRest(j)' /\ shown'[j] = RowOf(status'[j])
  BY DEF SettledRight, RowOf
<1>1. j \in Jobs /\ AtRest(j) /\ shown[j] = RowOf(status[j])
  BY DEF UiTypeOK, SettledRight
<1>2. AtRest(j)' /\ status'[j] = status[j]
  BY <1>1, RestStays
<1>3. QED
  BY <1>1, <1>2

LEMMA SettledStep ==
    ASSUME UiTypeOK, SettledInv, [UiNext]_uiVars
    PROVE  SettledInv'
<1>a. SettledRight /\ ReloadsAtRest /\ NewestKnowsSettled
  BY DEF SettledInv, SettledRight, ReloadsAtRest, NewestKnowsSettled
<1>b. \A j \in settled : AtRest(j)
  BY <1>a DEF SettledRight
<1>q. ASSUME SettledRight', ReloadsAtRest', NewestKnowsSettled'
      PROVE  SettledInv'
  BY <1>q DEF SettledInv, SettledRight, ReloadsAtRest, NewestKnowsSettled
<1>1. ASSUME UNCHANGED settled, \A j \in settled : shown'[j] = shown[j],
             \/ UNCHANGED <<reloads, newest>>
             \/ Refresh
             \/ UNCHANGED newest /\ \E g \in Slots : \/ reloads' = [reloads EXCEPT ![g] = Free]
                                                     \/ ReadTable(g)
      PROVE  SettledInv'
  <2>1. SettledRight'
    BY <1>1, <1>a, SettledRows
  <2>2. ReloadsAtRest'
    BY <1>1, <1>a, RestReloads
  <2>3. NewestKnowsSettled'
    BY <1>1, <1>a, <1>b, NewestReloads
  <2>4. QED
    BY <2>1, <2>2, <2>3, <1>q
<1>2. CASE UNCHANGED uiVars
  BY <1>1, <1>2 DEF uiVars, pageVars
<1>3. CASE Connect \/ Register \/ Open \/ Close
  BY <1>1, <1>3 DEF Connect, Register, Open, Close
<1>4. ASSUME NEW g \in Slots, ReadTable(g)
      PROVE  SettledInv'
  <2>1. UNCHANGED <<settled, shown, newest>>
    BY <1>4 DEF ReadTable
  <2>2. QED
    BY <1>4, <2>1, <1>1
<1>5. ASSUME NEW g \in Slots, DropAnswer(g)
      PROVE  SettledInv'
  BY <1>1, <1>5 DEF DropAnswer
<1>6. ASSUME NEW g \in Slots, TakeAnswer(g)
      PROVE  SettledInv'
  <2>1. /\ reloads[g].at = "read" /\ g = newest /\ UNCHANGED newest
        /\ shown' = Merged(reloads[g].rows)
        /\ reloads' = [reloads EXCEPT ![g] = Free]
        /\ settled' = settled \cup reloads[g].since
    BY <1>6 DEF TakeAnswer, IsNewest
  <2>2. settled' = reloads[g].since
    BY <2>1, <1>a DEF NewestKnowsSettled, IsNewest
  <2>3. ASSUME NEW j \in reloads[g].since
        PROVE  AtRest(j)' /\ shown'[j] = RowOf(status'[j])
    <3>1. j \in Jobs
      BY DEF UiTypeOK, Reload
    <3>2. AtRest(j) /\ reloads[g].rows[j] = RowOf(status[j])
      BY <2>1, <1>a DEF ReloadsAtRest
    <3>3. AtRest(j)' /\ status'[j] = status[j]
      BY <3>1, <3>2, RestStays
    <3>4. RowOf(status[j]) # NoRow
      BY <3>2 DEF AtRest, Finished, Terminal, RowOf, NoRow
    <3>5. shown'[j] = reloads[g].rows[j]
      BY <2>1, <3>1, <3>2, <3>4 DEF Merged
    <3>6. QED
      BY <3>2, <3>3, <3>5
  <2>4. SettledRight'
    BY <2>2, <2>3 DEF SettledRight, RowOf
  <2>5. ReloadsAtRest'
    BY <2>1, <1>a, RestReloads
  <2>6. NewestKnowsSettled'
    BY <2>1 DEF NewestKnowsSettled, IsNewest, UiTypeOK, Free
  <2>7. QED
    BY <2>4, <2>5, <2>6, <1>q
<1>7. ASSUME NEW j \in Jobs, Upload(j) \/ UploadFails(j) \/ Cancel(j) \/ CancelAnswered(j)
      PROVE  SettledInv'
  BY <1>1, <1>7 DEF Upload, UploadFails, Cancel, CancelAnswered
<1>8. ASSUME NEW j \in Jobs, AddOptimistic(j)
      PROVE  SettledInv'
  <2>1. j \notin settled
    BY <1>8, <1>b DEF AddOptimistic, AtRest
  <2>2. \A i \in settled : shown'[i] = shown[i]
    BY <1>8, <2>1 DEF AddOptimistic, UiTypeOK
  <2>3. UNCHANGED <<settled, reloads, newest>>
    BY <1>8 DEF AddOptimistic
  <2>4. QED
    BY <2>2, <2>3, <1>1
<1>9. CASE Unannounced
  BY <1>1, <1>9 DEF Unannounced, pageVars
<1>10. ASSUME NEW j \in Jobs, Announced(j)
       PROVE  SettledInv'
  BY <1>1, <1>10, AnnouncedMoves DEF pageVars
<1>11. ASSUME NEW ev \in news, Lose(ev)
       PROVE  SettledInv'
  BY <1>1, <1>11 DEF Lose, pageVars
<1>12. ASSUME NEW ev \in news, Receive(ev)
       PROVE  SettledInv'
  <2>1. ev.job \notin settled
    BY <1>b DEF AtRest
  <2>2. \A i \in settled : shown'[i] = shown[i]
    BY <1>12, <2>1 DEF Receive, Patched, UiTypeOK
  <2>3. UNCHANGED settled /\ (Refresh \/ UNCHANGED <<reloads, newest>>)
    BY <1>12 DEF Receive
  <2>4. QED
    BY <2>2, <2>3, <1>1
<1>13. QED
  BY <1>2, <1>3, <1>4, <1>5, <1>6, <1>7, <1>8, <1>9, <1>10, <1>11, <1>12 DEF UiNext, PageStep

-----------------------------------------------------------------------------
(* The gap of a disconnect *)

\* The last event of a finished job.
Verdict(j) == [job |-> j, status |-> status[j], attempt |-> attempt[j]]

\* While anything said of a finished job is on its way, its verdict is.
NewsInv ==
    /\ accepted = {}
    /\ \A ev \in news : ev.attempt <= attempt[ev.job]
    /\ \A ev \in news : Finished(ev.job) => Verdict(ev.job) \in news

\* The newest reload brings the row of j, or has brought it.
CaughtUp(j) ==
    /\ \A g \in Slots : IsNewest(g) /\ reloads[g].at = "read"
                           => reloads[g].rows[j] = RowOf(status[j])
    /\ ~loadError /\ (\A g \in Slots : IsNewest(g) => reloads[g].at = "free")
          => shown[j] \in {NoRow, RowOf(status[j])}

\* A connected page has caught up with every job whose verdict is not on its way,
\* or an event of the job overtook the answer of the newest reload.
GapInv ==
    /\ NewsInv
    /\ link = "open" => \A j \in Jobs : Finished(j) /\ Verdict(j) \notin news
                                           => CaughtUp(j) \/ j \in overtaken

LEMMA ReliableSteps == [ReliableNext]_uiVars => [UiNext]_uiVars
BY DEF ReliableNext, UiNext, Unannounced, Next

\* Attempts only grow, and those of a finished job are over.
LEMMA AttemptsGrow ==
    ASSUME UiTypeOK, [UiNext]_uiVars, NEW j \in Jobs
    PROVE  /\ attempt[j] <= attempt'[j]
           /\ Finished(j) => attempt'[j] = attempt[j]
<1>t. attempt[j] \in Nat
  BY UiAssumption DEF UiTypeOK
<1>1. CASE UNCHANGED tableVars
  BY <1>1, <1>t DEF tableVars
<1>2. ASSUME NEW i \in Jobs, Start(i)
      PROVE  /\ attempt[j] <= attempt'[j]
             /\ Finished(j) => attempt'[j] = attempt[j]
  <2>1. attempt'[j] = IF i = j THEN attempt[j] + 1 ELSE attempt[j]
    BY <1>2 DEF Start, UiTypeOK
  <2>2. ~Finished(i)
    BY <1>2 DEF Start, Finished, Live, Terminal
  <2>3. QED
    BY <2>1, <2>2, <1>t
<1>3. CASE UNCHANGED attempt
  BY <1>3, <1>t
<1>4. QED
  BY <1>1, <1>2, <1>3, StepOfTable DEF Next, Submit, Succeed, Retry, Fail

\* What is announced is what the job has become, and no other job changes.
LEMMA AnnouncedAlone ==
    ASSUME UiTypeOK, NEW j \in Jobs, Announced(j)
    PROVE  /\ news' = news \cup {Verdict(j)'}
           /\ \A i \in Jobs \ {j} : status'[i] = status[i] /\ attempt'[i] = attempt[i]
<1> USE DEF UiTypeOK, Announced, Announce, Verdict
<1>1. CASE Start(j) /\ Announce(j, "processing")
  BY <1>1 DEF Start
<1>2. CASE Succeed(j) /\ Announce(j, "done")
  BY <1>2 DEF Succeed
<1>3. CASE Retry(j) /\ Announce(j, "queued")
  BY <1>3 DEF Retry
<1>4. CASE Fail({j}) /\ Announce(j, "failed")
  BY <1>4 DEF Fail
<1>5. QED
  BY <1>1, <1>2, <1>3, <1>4

\* The events of a job in order: its verdict goes last.
LEMMA VerdictLast ==
    ASSUME UiTypeOK, TrueInv, NewsInv, NEW ev \in news, First(ev), news' = news \ {ev},
           NEW other \in news', Finished(other.job)
    PROVE  Verdict(other.job) \in news'
<1>1. Verdict(other.job) \in news /\ other.attempt <= attempt[other.job]
  BY DEF NewsInv
<1>2. ev \in News /\ other \in News /\ other # ev
  BY DEF UiTypeOK
<1>3. ev # Verdict(other.job)
  <2> SUFFICES ASSUME ev = Verdict(other.job)
               PROVE  FALSE
    OBVIOUS
  <2>1. ev.job = other.job /\ ev.status = status[other.job] /\ ev.attempt = attempt[other.job]
    BY DEF Verdict
  <2>2. Precedes(ev, other)
    BY <2>1, <1>2 DEF First
  <2>3. ev.attempt = other.attempt
    <3>1. ev.attempt \in Nat /\ other.attempt \in Nat
      BY <1>2, UiAssumption DEF News
    <3>2. QED
      BY <3>1, <2>1, <2>2, <1>1 DEF Precedes
  <2>4. ev.status # "processing"
    BY <2>1 DEF Finished, Terminal
  <2>5. ~(ev.attempt < other.attempt)
    BY <2>3, <1>2, UiAssumption DEF News
  <2>6. other.status \in Terminal
    BY <2>2, <2>4, <2>5 DEF Precedes
  <2>7. other.status = ev.status
    BY <2>1, <2>6 DEF TrueInv
  <2>8. other = ev
    BY <2>1, <2>3, <2>7, <1>2 DEF News
  <2>9. QED
    BY <2>8, <1>2
<1>4. QED
  BY <1>1, <1>3

LEMMA NewsInvStep ==
    ASSUME UiInv, NewsInv, [ReliableNext]_uiVars
    PROVE  NewsInv'
<1>u. [UiNext]_uiVars /\ UiTypeOK /\ TrueInv
  BY ReliableSteps DEF UiInv
<1>a. accepted' = {}
  BY DEF NewsInv, ReliableNext, Announced, Lose, Receive, uiVars, pageVars
<1>q. ASSUME \A ev \in news' : ev.attempt <= attempt'[ev.job],
             \A ev \in news' : status'[ev.job] \in Terminal
                                  => Verdict(ev.job)' \in news'
      PROVE  NewsInv'
  BY <1>a, <1>q DEF NewsInv, Finished, Verdict
<1>g. \A ev \in news : ev.job \in Jobs /\ ev.attempt <= attempt'[ev.job]
  <2> SUFFICES ASSUME NEW ev \in news
               PROVE  ev.job \in Jobs /\ ev.attempt <= attempt'[ev.job]
    OBVIOUS
  <2>1. ev.job \in Jobs /\ ev.attempt \in Nat
    BY <1>u, UiAssumption DEF UiTypeOK, News
  <2>2. ev.attempt <= attempt[ev.job] /\ attempt[ev.job] <= attempt'[ev.job]
    BY <1>u, <2>1, AttemptsGrow DEF NewsInv
  <2>3. attempt[ev.job] \in Nat /\ attempt'[ev.job] \in Nat
    BY <1>u, <2>1, TypeStep, UiAssumption DEF UiTypeOK
  <2>4. QED
    BY <2>1, <2>2, <2>3
<1>1. CASE UNCHANGED <<tableVars, news>>
  BY <1>1, <1>q, <1>g DEF NewsInv, Finished, Verdict, tableVars
<1>2. ASSUME NEW i \in Jobs, Submit(i), UNCHANGED news
      PROVE  NewsInv'
  <2>1. \A j \in Jobs : status'[j] \in Terminal =>
            status'[j] = status[j] /\ attempt'[j] = attempt[j]
    BY <1>2, <1>u DEF Submit, UiTypeOK, Terminal
  <2>2. \A ev \in news : status'[ev.job] \in Terminal => Verdict(ev.job)' \in news
    BY <2>1, <1>g DEF NewsInv, Finished, Verdict
  <2>3. QED
    BY <1>2, <2>2, <1>g, <1>q
<1>3. ASSUME NEW j \in Jobs, Announced(j)
      PROVE  NewsInv'
  <2>1. /\ news' = news \cup {Verdict(j)'}
        /\ \A i \in Jobs \ {j} : status'[i] = status[i] /\ attempt'[i] = attempt[i]
    BY <1>3, <1>u, AnnouncedAlone
  <2>2. Verdict(j)'.job = j /\ Verdict(j)'.attempt = attempt'[j]
    BY DEF Verdict
  <2>3. attempt'[j] \in Nat
    BY <1>u, TypeStep, UiAssumption DEF UiTypeOK
  <2>4. \A ev \in news' : ev.attempt <= attempt'[ev.job]
    BY <2>1, <2>2, <2>3, <1>g
  <2>5. ASSUME NEW ev \in news', status'[ev.job] \in Terminal
        PROVE  Verdict(ev.job)' \in news'
    <3>1. CASE ev.job = j
      BY <2>1, <3>1 DEF Verdict
    <3>2. CASE ev.job # j
      <4>1. ev \in news
        BY <2>1, <2>2, <3>2
      <4>2. status'[ev.job] = status[ev.job] /\ attempt'[ev.job] = attempt[ev.job]
        BY <4>1, <1>g, <2>1, <3>2
      <4>3. Verdict(ev.job) \in news
        BY <4>1, <4>2, <2>5 DEF NewsInv, Finished
      <4>4. QED
        BY <4>2, <4>3, <2>1 DEF Verdict
    <3>3. QED
      BY <3>1, <3>2
  <2>6. QED
    BY <2>4, <2>5, <1>q
<1>4. ASSUME NEW ev \in news, First(ev), news' = news \ {ev}, UNCHANGED tableVars
      PROVE  NewsInv'
  <2>1. \A other \in news' : status'[other.job] \in Terminal => Verdict(other.job) \in news'
    BY <1>4, <1>u, VerdictLast DEF Finished, tableVars
  <2>2. \A other \in news' : status'[other.job] \in Terminal => Verdict(other.job)' \in news'
    BY <1>4, <2>1 DEF Verdict, tableVars
  <2>3. QED
    BY <1>4, <2>2, <1>g, <1>q
<1>5. CASE PageStep /\ accepted' = {}
  BY <1>5, <1>1 DEF PageStep, Connect, Register, Open, Close, ReadTable, TakeAnswer,
     DropAnswer, Upload, AddOptimistic, UploadFails, Cancel, CancelAnswered
<1>6. CASE UNCHANGED uiVars
  BY <1>6, <1>1 DEF uiVars
<1>7. QED
  BY <1>2, <1>3, <1>4, <1>5, <1>6 DEF ReliableNext, Lose, Receive

\* A reload just issued has everything to catch up with before it.
LEMMA RefreshCatchesUp ==
    ASSUME UiTypeOK, Refresh, NEW j
    PROVE  CaughtUp(j)'
<1>1. newest' \in Slots /\ reloads'[newest'].at = "sent"
  BY DEF Refresh, UiTypeOK, Free
<1>2. QED
  BY <1>1 DEF CaughtUp, IsNewest

LEMMA CaughtUpStep ==
    ASSUME UiInv, GapInv, [ReliableNext]_uiVars,
           link' = "open",
           NEW j \in Jobs, Finished(j)', Verdict(j)' \notin news', j \notin overtaken'
    PROVE  CaughtUp(j)'
<1>u. [UiNext]_uiVars /\ UiTypeOK /\ TrueInv /\ NewsInv
  BY ReliableSteps DEF UiInv, GapInv
<1>f. status'[j] \in Terminal
  BY DEF Finished
<1>5. CASE Refresh
  BY <1>5, <1>u, RefreshCatchesUp
<1> SUFFICES ASSUME ~Refresh
             PROVE  CaughtUp(j)'
  BY <1>5
<1>o. j \notin overtaken
  BY DEF ReliableNext, PageStep, Connect, Register, Open, Close, ReadTable, TakeAnswer,
         DropAnswer, Upload, AddOptimistic, UploadFails, Cancel, CancelAnswered, Announced,
         Lose, Receive, uiVars, pageVars
<1>h. ASSUME link = "open", status'[j] = status[j], attempt'[j] = attempt[j],
             Verdict(j) \notin news
      PROVE  Finished(j) /\ CaughtUp(j)
  BY <1>h, <1>f, <1>o DEF GapInv, Finished
<1>1. CASE /\ UNCHANGED <<tableVars, shown, reloads, newest, loadError, link>>
           /\ news' = news
  <2>1. CaughtUp(j)
    BY <1>1, <1>h DEF tableVars, Verdict
  <2>2. QED
    BY <1>1, <2>1 DEF CaughtUp, IsNewest, tableVars
<1>2. CASE UNCHANGED uiVars
  BY <1>1, <1>2 DEF uiVars, pageVars
<1>3. CASE Connect \/ Close
  BY <1>3 DEF Connect, Close
<1>4. CASE Register
  BY <1>1, <1>4 DEF Register
<1>6. ASSUME NEW g \in Slots, ReadTable(g)
      PROVE  CaughtUp(j)'
  <2>1. /\ UNCHANGED <<tableVars, news, shown, newest, loadError, link>>
        /\ reloads' = [reloads EXCEPT ![g].at = "read", ![g].rows = Listing]
    BY <1>6 DEF ReadTable
  <2>2. CaughtUp(j)
    BY <2>1, <1>h DEF tableVars, Verdict
  <2>3. CASE g = newest
    <3>1. reloads'[g].at = "read" /\ reloads'[g].rows = Listing
      BY <2>1, <1>u DEF UiTypeOK, Reload
    <3>2. Listing[j] = RowOf(status[j]) /\ status'[j] = status[j]
      BY <2>1 DEF Listing, tableVars
    <3>3. newest' = g
      BY <2>1, <2>3
    <3>4. QED
      BY <3>1, <3>2, <3>3 DEF CaughtUp, IsNewest, RowOf
  <2>4. CASE g # newest
    <3>1. \A h \in Slots : h = newest' => reloads'[h] = reloads[h]
      BY <2>1, <2>4, <1>u DEF UiTypeOK
    <3>2. QED
      BY <2>1, <2>2, <3>1 DEF CaughtUp, IsNewest, tableVars
  <2>5. QED
    BY <2>3, <2>4
<1>7. ASSUME NEW g \in Slots, TakeAnswer(g)
      PROVE  CaughtUp(j)'
  <2>1. /\ UNCHANGED <<tableVars, news, newest, link>> /\ g = newest
        /\ reloads[g].at = "read"
        /\ shown' = Merged(reloads[g].rows)
        /\ reloads' = [reloads EXCEPT ![g] = Free]
    BY <1>7 DEF TakeAnswer, IsNewest
  <2>2. CaughtUp(j) /\ Finished(j)
    BY <2>1, <1>h DEF tableVars, Verdict
  <2>3. reloads[g].rows[j] = RowOf(status[j])
    BY <2>1, <2>2 DEF CaughtUp, IsNewest
  <2>4. RowOf(status[j]) # NoRow
    BY <2>2 DEF Finished, Terminal, RowOf, NoRow
  <2>5. shown'[j] = RowOf(status[j]) /\ status'[j] = status[j]
    BY <2>1, <2>3, <2>4 DEF Merged, tableVars
  <2>6. reloads'[g].at = "free" /\ newest' = g
    BY <2>1, <1>u DEF UiTypeOK, Free
  <2>7. QED
    BY <2>5, <2>6 DEF CaughtUp, IsNewest
<1>8. ASSUME NEW g \in Slots, DropAnswer(g)
      PROVE  CaughtUp(j)'
  <2>1. /\ UNCHANGED <<tableVars, news, shown, newest, link>>
        /\ loadError' = (loadError \/ g = newest)
        /\ reloads' = [reloads EXCEPT ![g] = Free]
    BY <1>8 DEF DropAnswer, IsNewest
  <2>2. CaughtUp(j)
    BY <2>1, <1>h DEF tableVars, Verdict
  <2>3. CASE g = newest
    <3>1. reloads'[g].at = "free" /\ newest' = g /\ loadError'
      BY <2>1, <2>3, <1>u DEF UiTypeOK, Free
    <3>2. QED
      BY <3>1 DEF CaughtUp, IsNewest
  <2>4. CASE g # newest
    <3>1. \A h \in Slots : h = newest' => reloads'[h] = reloads[h]
      BY <2>1, <2>4, <1>u DEF UiTypeOK
    <3>2. loadError' = loadError
      BY <2>1, <2>4, <1>u DEF UiTypeOK
    <3>3. QED
      BY <2>1, <2>2, <3>1, <3>2 DEF CaughtUp, IsNewest, tableVars
  <2>5. QED
    BY <2>3, <2>4
<1>9. ASSUME NEW i \in Jobs, accepted' = {},
             Upload(i) \/ AddOptimistic(i) \/ UploadFails(i) \/ Cancel(i) \/ CancelAnswered(i)
      PROVE  CaughtUp(j)'
  <2>1. CASE Cancel(i)
    BY <1>1, <2>1 DEF Cancel
  <2>2. CASE CancelAnswered(i)
    BY <1>5, <2>2 DEF CancelAnswered
  <2>3. ~(Upload(i) \/ AddOptimistic(i) \/ UploadFails(i))
    BY <1>9, <1>u DEF Upload, AddOptimistic, UploadFails, NewsInv
  <2>4. QED
    BY <1>9, <2>1, <2>2, <2>3
<1>10. ASSUME NEW i \in Jobs, Submit(i), UNCHANGED <<pageVars, news>>
       PROVE  CaughtUp(j)'
  <2>1. status'[j] = status[j] /\ attempt'[j] = attempt[j]
    BY <1>10, <1>f, <1>u DEF Submit, UiTypeOK, Terminal
  <2>2. CaughtUp(j)
    BY <2>1, <1>10, <1>h DEF pageVars, Verdict
  <2>3. UNCHANGED <<shown, reloads, newest, loadError>>
    BY <1>10 DEF pageVars
  <2>4. QED
    BY <2>1, <2>2, <2>3 DEF CaughtUp, IsNewest
<1>11. ASSUME NEW i \in Jobs, Announced(i)
       PROVE  CaughtUp(j)'
  <2>1. /\ news' = news \cup {Verdict(i)'}
        /\ \A k \in Jobs \ {i} : status'[k] = status[k] /\ attempt'[k] = attempt[k]
    BY <1>11, <1>u, AnnouncedAlone
  <2>2. i # j
    BY <2>1
  <2>3. status'[j] = status[j] /\ attempt'[j] = attempt[j]
    BY <2>1, <2>2
  <2>4. UNCHANGED <<shown, reloads, newest, loadError, link>>
    BY <1>11, <1>u, AnnouncedMoves DEF pageVars
  <2>5. CaughtUp(j)
    BY <2>1, <2>3, <2>4, <1>h DEF Verdict
  <2>6. QED
    BY <2>3, <2>4, <2>5 DEF CaughtUp, IsNewest
<1>12. ASSUME NEW ev \in news, link # "open", Lose(ev)
       PROVE  CaughtUp(j)'
  BY <1>12 DEF Lose, pageVars
<1>13. ASSUME NEW ev \in news, Receive(ev)
       PROVE  CaughtUp(j)'
  <2>1. /\ UNCHANGED <<tableVars, loadError, link>> /\ news' = news \ {ev}
        /\ shown' = Patched(ev)
        /\ Refresh \/ UNCHANGED <<reloads, newest>>
    BY <1>13 DEF Receive
  <2>2. status'[j] = status[j] /\ attempt'[j] = attempt[j] /\ Finished(j)
    BY <2>1, <1>f DEF tableVars, Finished
  <2>3. ev \in News /\ shown[j] \in Rows /\ TrueOf(shown[j], j)
    BY <1>u DEF UiTypeOK, TrueInv
  <2>4. CASE Refresh
    BY <2>4, <1>5
  <2>5. CASE UNCHANGED <<reloads, newest>> /\ ev.job # j
    <3>1. Verdict(j) # ev
      BY <2>5 DEF Verdict
    <3>2. Verdict(j) \notin news
      BY <3>1, <2>1, <2>2 DEF Verdict
    <3>3. CaughtUp(j)
      BY <3>2, <2>1, <2>2, <1>h
    <3>4. shown'[j] = shown[j]
      BY <2>1, <2>5, <1>u DEF Patched, UiTypeOK
    <3>5. QED
      BY <3>3, <3>4, <2>1, <2>2, <2>5 DEF CaughtUp, IsNewest
  <2>6. CASE UNCHANGED <<reloads, newest>> /\ ev.job = j
    <3>1. ev = Verdict(j)
      BY <2>1, <2>2, <2>6, <1>u DEF NewsInv, Verdict
    <3>2. ev.status = status[j]
      BY <3>1 DEF Verdict
    <3>3. shown'[j] = IF shown[j] = NoRow THEN NoRow
                      ELSE [status |-> status[j], csv |-> shown[j].csv \/ status[j] = "done"]
      BY <2>1, <2>6, <3>2, <1>u DEF Patched, UiTypeOK
    <3>4. (shown[j].csv \/ status[j] = "done") = (status[j] = "done")
      BY <2>3 DEF TrueOf, Rows
    <3>5. shown'[j] \in {NoRow, RowOf(status'[j])}
      BY <3>3, <3>4, <2>2 DEF RowOf
    <3>6. \A g \in Slots : IsNewest(g)' /\ reloads'[g].at = "read"
                               => reloads'[g].rows[j] = RowOf(status'[j])
      <4>1. Refresh \/ ~Overtakes(ev)
        BY <1>13, <2>6 DEF Receive
      <4>2. QED
        BY <4>1, <2>2, <2>4, <2>6, <3>2 DEF Overtakes, IsNewest
    <3>7. QED
      BY <3>5, <3>6 DEF CaughtUp, IsNewest
  <2>7. QED
    BY <2>1, <2>4, <2>5, <2>6
<1>14. CASE PageStep /\ accepted' = {}
  BY <1>14, <1>3, <1>4, <1>5, <1>6, <1>7, <1>8, <1>9 DEF PageStep, Open
<1>15. QED
  BY <1>2, <1>10, <1>11, <1>12, <1>13, <1>14 DEF ReliableNext

-----------------------------------------------------------------------------
(* Theorems *)

\* useJobs keeps its inductive invariant: no false verdict on the page or on its
\* way, and finished jobs that have settled stay shown as they are.
THEOREM UiInductive == UiSpec => []UiInv
<1>1. UiInit => UiInv
  <2> SUFFICES ASSUME UiInit
               PROVE  UiInv
    OBVIOUS
  <2>1. UiTypeOK
    <3>1. status \in [Jobs -> Status] /\ attempt \in [Jobs -> 0..MaxAttempts]
      BY UiAssumption DEF UiInit, Init, Status
    <3>2. shown \in [Jobs -> Rows] /\ reloads \in [Slots -> Reload]
      BY RowTypes, FreeType DEF UiInit
    <3>3. QED
      BY <3>1, <3>2 DEF UiInit, UiTypeOK
  <2>2. TrueInv
    BY ReadIsTrue DEF UiInit, TrueInv, Free
  <2>3. SettledInv
    BY DEF UiInit, SettledInv, Free
  <2>4. QED
    BY <2>1, <2>2, <2>3 DEF UiInv
<1>2. UiInv /\ [UiNext]_uiVars => UiInv'
  BY TypeStep, TrueStep, SettledStep DEF UiInv
<1>3. QED
  BY <1>1, <1>2, PTL DEF UiSpec

\* A row that reads done or failed says what the table says, whatever event,
\* answer or 202 is late, lost or out of order.
THEOREM ShownVerdictsTrue == UiSpec => []VerdictShownIsTrue
<1>1. UiInv => VerdictShownIsTrue
  BY DEF UiInv, TrueInv, TrueOf, VerdictShownIsTrue
<1>2. QED
  BY <1>1, UiInductive, PTL

\* A download link is shown only for a job that is done.
THEOREM ShownLinksLive == UiSpec => []LinkIsLive
<1>1. UiInv => LinkIsLive
  BY DEF UiInv, TrueInv, TrueOf, LinkIsLive
<1>2. QED
  BY <1>1, UiInductive, PTL

\* A reload issued once a job is at rest settles its row for good, however many
\* older reloads are still in flight.
THEOREM ReloadSettles == UiSpec => []SettledIsShown
<1>1. UiInv => SettledIsShown
  BY DEF UiInv, SettledInv, SettledIsShown
<1>2. QED
  BY <1>1, UiInductive, PTL

\* "A refetch on every (re)connect closes whatever gap the disconnect opened", as
\* far as that is true of useJobs.ts: over a network at its best, when nothing is
\* under way, a row of a finished job is wrong only if an event of the job was
\* received while the answer of the last reload, read before it, was on its way.
\* The race of run "ui_gap" is the only one there is.
THEOREM GapOnlyByRace == ReliableSpec => []GapOnlyIfOvertaken
<1>1. UiInit => GapInv
  BY DEF UiInit, GapInv, NewsInv
<1>2. UiInv /\ GapInv /\ [ReliableNext]_uiVars => GapInv'
  <2> SUFFICES ASSUME UiInv, GapInv, [ReliableNext]_uiVars
               PROVE  GapInv'
    OBVIOUS
  <2>1. NewsInv'
    BY NewsInvStep DEF GapInv
  <2>2. ASSUME link' = "open"
        PROVE  \A j \in Jobs : Finished(j)' /\ Verdict(j)' \notin news'
                                  => CaughtUp(j)' \/ j \in overtaken'
    BY <2>2, CaughtUpStep
  <2>3. QED
    BY <2>1, <2>2 DEF GapInv
<1>3. GapInv => GapOnlyIfOvertaken
  <2> SUFFICES ASSUME GapInv, Quiet, NEW j \in Jobs, Wrong(j), j \notin overtaken
               PROVE  FALSE
    BY DEF GapOnlyIfOvertaken
  <2>1. CaughtUp(j)
    BY DEF GapInv, Quiet, Wrong
  <2>2. QED
    BY <2>1 DEF CaughtUp, Quiet, Wrong
<1>4. [ReliableNext]_uiVars => [UiNext]_uiVars
  BY ReliableSteps
<1>5. ReliableSpec => UiSpec
  BY <1>4, PTL DEF ReliableSpec, UiSpec
<1>6. QED
  BY <1>1, <1>2, <1>3, <1>5, UiInductive, PTL DEF ReliableSpec

\* The page only watches: whatever it, its events and its reloads do, the table
\* goes through JobLifecycle's steps, an upload of the page among them.
THEOREM PageOnlyWatches == UiSpec => Spec
<1>1. UiInit => Init
  BY DEF UiInit
<1>2. UiInv /\ [UiNext]_uiVars => [Next]_vars
  BY StepOfTable DEF UiInv, vars, tableVars
<1>3. QED
  BY <1>1, <1>2, UiInductive, PTL DEF UiSpec, Spec

=============================================================================
