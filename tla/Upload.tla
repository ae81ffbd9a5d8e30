------------------------------- MODULE Upload -------------------------------
(***************************************************************************)
(* POST /jobs: the pdf goes to the bucket first, the row is committed      *)
(* second, and on an error of the second step the pdf is removed again.    *)
(*                                                                         *)
(* The module has every error return of the handler and of Store.Enqueue,  *)
(* a COMMIT whose reply is lost (the client hangs up, which cancels        *)
(* r.Context(), or the connection breaks), object-store calls that fail    *)
(* with or without effect, and the api process dying at any point.  A      *)
(* worker then reads the pdf of each committed row.                        *)
(***************************************************************************)

CONSTANT Uploads   \* requests, each with the job id uuid.NewString() gave it

VARIABLES pc,       \* where the handler of each request is
          pdf,      \* ids whose jobs/{id}/source.pdf is in the bucket
          tx,       \* what the request's open transaction has written
          row,      \* each id's row: not there, committed, or tried by a worker
          signaled  \* ids notified on jobs_new

vars == <<pc, pdf, tx, row, signaled>>

PC   == {"idle", "put", "begin", "insert", "notify", "commit", "remove",
         "accepted", "rejected", "dead"}
InTx == {"insert", "notify", "commit"}

TypeOK ==
    /\ pc       \in [Uploads -> PC]
    /\ pdf      \in SUBSET Uploads
    /\ tx       \in [Uploads -> SUBSET {"row", "signal"}]
    /\ row      \in [Uploads -> {"absent", "committed", "read", "unreadable"}]
    /\ signaled \in SUBSET Uploads

Init ==
    /\ pc       = [u \in Uploads |-> "idle"]
    /\ pdf      = {}
    /\ tx       = [u \in Uploads |-> {}]
    /\ row      = [u \in Uploads |-> "absent"]
    /\ signaled = {}

Goto(u, label) == pc' = [pc EXCEPT ![u] = label]

-----------------------------------------------------------------------------
(* The handler *)

\* pdfPart finds the file part, or the request is answered 400.
Post(u) ==
    /\ pc[u] = "idle"
    /\ Goto(u, "put") \/ Goto(u, "rejected")
    /\ UNCHANGED <<pdf, tx, row, signaled>>

PutPdf(u) ==
    /\ pc[u] = "put"
    /\ pdf' = pdf \cup {u}
    /\ Goto(u, "begin")
    /\ UNCHANGED <<tx, row, signaled>>

\* Wrong variant: the handler logs the error and goes on.
PutPdfFailsWithoutReturn(u) ==
    /\ pc[u] = "put"
    /\ pdf' \in {pdf, pdf \cup {u}}
    /\ Goto(u, "begin")
    /\ UNCHANGED <<tx, row, signaled>>

\* The upload is cut off or too large (nothing is stored), or it is stored
\* and the reply is lost.  Either way the request ends here.
PutPdfFails(u) ==
    /\ pc[u] = "put"
    /\ pdf' \in {pdf, pdf \cup {u}}
    /\ Goto(u, "rejected")
    /\ UNCHANGED <<tx, row, signaled>>

BeginTx(u) ==
    /\ pc[u] = "begin"
    /\ Goto(u, "insert")
    /\ UNCHANGED <<pdf, tx, row, signaled>>

InsertRow(u) ==
    /\ pc[u] = "insert"
    /\ tx' = [tx EXCEPT ![u] = @ \cup {"row"}]
    /\ Goto(u, "notify")
    /\ UNCHANGED <<pdf, row, signaled>>

\* Wrong variant: the notification is sent at once, outside the transaction.
SignalAtOnce(u) ==
    /\ pc[u] = "notify"
    /\ signaled' = signaled \cup {u}
    /\ Goto(u, "commit")
    /\ UNCHANGED <<pdf, tx, row>>

\* pg_notify: Postgres keeps the notification until the commit.
SignalInTx(u) ==
    /\ pc[u] = "notify"
    /\ tx' = [tx EXCEPT ![u] = @ \cup {"signal"}]
    /\ Goto(u, "commit")
    /\ UNCHANGED <<pdf, row, signaled>>

\* Begin, INSERT or pg_notify returns an error: the deferred Rollback runs.
TxFails(u) ==
    /\ pc[u] \in {"begin", "insert", "notify"}
    /\ tx' = [tx EXCEPT ![u] = {}]
    /\ Goto(u, "remove")
    /\ UNCHANGED <<pdf, row, signaled>>

\* What a commit makes visible.
Committed(u) ==
    /\ row'      = IF "row" \in tx[u] THEN [row EXCEPT ![u] = "committed"] ELSE row
    /\ signaled' = IF "signal" \in tx[u] THEN signaled \cup {u} ELSE signaled

CommitOk(u) ==
    /\ pc[u] = "commit"
    /\ Committed(u)
    /\ tx' = [tx EXCEPT ![u] = {}]
    /\ Goto(u, "accepted")
    /\ UNCHANGED pdf

\* Wrong variant: the error of Commit is not looked at.
CommitErrorIgnored(u) ==
    /\ pc[u] = "commit"
    /\ Committed(u) \/ UNCHANGED <<row, signaled>>
    /\ tx' = [tx EXCEPT ![u] = {}]
    /\ Goto(u, "accepted")
    /\ UNCHANGED pdf

\* Commit returns an error: the server rolled back, or it committed and the
\* reply did not arrive.  The handler cannot tell, and removes the pdf.
CommitFails(u) ==
    /\ pc[u] = "commit"
    /\ Committed(u) \/ UNCHANGED <<row, signaled>>
    /\ tx' = [tx EXCEPT ![u] = {}]
    /\ Goto(u, "remove")
    /\ UNCHANGED pdf

\* Best effort: RemoveObject may fail, and may fail after it took effect.
RemovePdf(u) ==
    /\ pc[u] = "remove"
    /\ pdf' \in {pdf, pdf \ {u}}
    /\ Goto(u, "rejected")
    /\ UNCHANGED <<tx, row, signaled>>

-----------------------------------------------------------------------------
(* The environment *)

InFlight(u) == pc[u] \notin {"idle", "accepted", "rejected", "dead"}

\* The api process dies.  Open transactions roll back, except that a COMMIT
\* or a RemoveObject already on the wire may still take effect.
ApiCrash ==
    /\ \E u \in Uploads : InFlight(u)
    /\ \E landed \in SUBSET {u \in Uploads : pc[u] = "commit"},
          removed \in SUBSET {u \in Uploads : pc[u] = "remove"} :
          /\ row'      = [u \in Uploads |->
                            IF u \in landed /\ "row" \in tx[u] THEN "committed" ELSE row[u]]
          /\ signaled' = signaled \cup {u \in landed : "signal" \in tx[u]}
          /\ pdf'      = pdf \ removed
    /\ pc' = [u \in Uploads |-> IF InFlight(u) THEN "dead" ELSE pc[u]]
    /\ tx' = [u \in Uploads |-> {}]

\* A worker claims the row and gets its pdf.  A pdf that is not there never
\* comes back, so the first attempt stands for all of them.
ReadPdf(u) ==
    /\ row[u] = "committed"
    /\ row' = [row EXCEPT ![u] = IF u \in pdf THEN "read" ELSE "unreadable"]
    /\ UNCHANGED <<pc, pdf, tx, signaled>>

Next ==
    \/ \E u \in Uploads :
          \/ Post(u) \/ PutPdf(u) \/ PutPdfFails(u)
          \/ BeginTx(u) \/ InsertRow(u) \/ SignalInTx(u) \/ TxFails(u)
          \/ CommitOk(u) \/ CommitFails(u) \/ RemovePdf(u)
          \/ ReadPdf(u)
    \/ ApiCrash

Spec == Init /\ [][Next]_vars

-----------------------------------------------------------------------------
(* Properties *)

\* "Commit the pointer last": a row without its pdf never exists while its
\* request is under way or after it was accepted.  (After a request failed it
\* can: see ObjectUnreferenced.)
RowHasPdf ==
    \A u \in Uploads :
        row[u] # "absent" /\ pc[u] \notin {"rejected", "dead"} => u \in pdf

\* A job whose upload was answered 202 is in the table, and no worker finds its
\* pdf missing.
AcceptedJobRuns ==
    \A u \in Uploads : pc[u] = "accepted" => row[u] \in {"committed", "read"}

\* "There is no window where the row exists without a signal or the other way
\* round", whichever statement fails and whenever the api dies.
SignalIffRow == signaled = {u \in Uploads : row[u] # "absent"}

\* "The object is unreferenced either way" when the handler removes it.
ObjectUnreferenced ==
    \A u \in Uploads : pc[u] = "remove" => row[u] = "absent"

-----------------------------------------------------------------------------
(* The inductive invariant *)

\* What is in a request's transaction at each of its steps, and what is stored
\* by then.
RequestShape(u) ==
    /\ pc[u] \in {"idle", "put"} => row[u] = "absent"
    /\ pc[u] \in {"begin", "insert", "notify", "commit"} =>
          u \in pdf /\ row[u] = "absent"
    /\ tx[u] = CASE pc[u] = "notify" -> {"row"}
                 [] pc[u] = "commit" -> {"row", "signal"}
                 [] OTHER            -> {}
    /\ pc[u] = "accepted" => u \in pdf /\ row[u] \in {"committed", "read"}
    /\ pc[u] = "remove" => u \in pdf

UploadInv == TypeOK /\ SignalIffRow /\ \A u \in Uploads : RequestShape(u)

=============================================================================
