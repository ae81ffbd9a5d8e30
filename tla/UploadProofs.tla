---------------------------- MODULE UploadProofs ----------------------------
(***************************************************************************)
(* Proofs about Upload, for any set of requests.  UploadInv says what each *)
(* step of a request has stored and what its transaction holds; the        *)
(* properties are read off it.                                             *)
(***************************************************************************)
EXTENDS Upload, TLAPS

LEMMA UploadInit == Init => UploadInv
BY DEF Init, UploadInv, TypeOK, PC, SignalIffRow, RequestShape

\* A step of one request that leaves the others alone keeps the invariant if
\* it keeps that request's own part of it.
LEMMA RequestStep ==
    ASSUME UploadInv, NEW u \in Uploads, NEW p \in PC, Goto(u, p),
           NEW r \in {"absent", "committed", "read", "unreadable"},
           row' = [row EXCEPT ![u] = r],
           NEW t \in SUBSET {"row", "signal"}, tx' = [tx EXCEPT ![u] = t],
           pdf' \in SUBSET Uploads, signaled' \in SUBSET Uploads,
           \A v \in Uploads \ {u} : /\ v \in pdf' <=> v \in pdf
                                    /\ v \in signaled' <=> v \in signaled,
           u \in signaled' <=> r # "absent",
           RequestShape(u)'
    PROVE  UploadInv'
<1>1. TypeOK'
  BY DEF UploadInv, TypeOK, Goto
<1>2. \A v \in Uploads \ {u} : /\ pc'[v] = pc[v] /\ tx'[v] = tx[v] /\ row'[v] = row[v]
  BY DEF UploadInv, TypeOK, Goto
<1>3. row'[u] = r
  BY DEF UploadInv, TypeOK
<1>4. SignalIffRow'
  BY <1>2, <1>3 DEF UploadInv, SignalIffRow
<1>5. ASSUME NEW v \in Uploads \ {u} PROVE RequestShape(v)'
  BY <1>2 DEF UploadInv, RequestShape
<1> QED
  BY <1>1, <1>4, <1>5 DEF UploadInv

LEMMA UploadNext == UploadInv /\ [Next]_vars => UploadInv'
<1> SUFFICES ASSUME UploadInv, [Next]_vars PROVE UploadInv'
  OBVIOUS
<1>0. /\ pc \in [Uploads -> PC] /\ pdf \in SUBSET Uploads /\ signaled \in SUBSET Uploads
      /\ tx \in [Uploads -> SUBSET {"row", "signal"}]
      /\ row \in [Uploads -> {"absent", "committed", "read", "unreadable"}]
      /\ signaled = {u \in Uploads : row[u] # "absent"}
      /\ \A u \in Uploads : RequestShape(u)
  BY DEF UploadInv, TypeOK, SignalIffRow
<1>1. ASSUME NEW u \in Uploads,
             \/ Post(u) \/ PutPdf(u) \/ PutPdfFails(u)
             \/ BeginTx(u) \/ InsertRow(u) \/ SignalInTx(u) \/ TxFails(u)
             \/ RemovePdf(u)
      PROVE  UploadInv'
  <2>1. PICK p \in PC : Goto(u, p) /\ p \notin {"idle", "accepted", "dead"}
    BY <1>1 DEF Post, PutPdf, PutPdfFails, BeginTx, InsertRow, SignalInTx, TxFails,
                RemovePdf, PC
  <2>2. UNCHANGED <<row, signaled>>
    BY <1>1 DEF Post, PutPdf, PutPdfFails, BeginTx, InsertRow, SignalInTx, TxFails, RemovePdf
  <2>3. /\ pdf' \in SUBSET Uploads
        /\ \A v \in Uploads \ {u} : v \in pdf' <=> v \in pdf
    BY <1>0, <1>1 DEF Post, PutPdf, PutPdfFails, BeginTx, InsertRow, SignalInTx, TxFails,
                      RemovePdf
  <2>4. PICK t \in SUBSET {"row", "signal"} : tx' = [tx EXCEPT ![u] = t]
    BY <1>0, <1>1 DEF Post, PutPdf, PutPdfFails, BeginTx, InsertRow, SignalInTx, TxFails,
                      RemovePdf
  <2>5. RequestShape(u)'
    BY <1>0, <1>1 DEF Post, PutPdf, PutPdfFails, BeginTx, InsertRow, SignalInTx, TxFails,
                      RemovePdf, Goto, RequestShape
  <2>6. row' = [row EXCEPT ![u] = row[u]] /\ row[u] \in {"absent", "committed", "read", "unreadable"}
    BY <1>0, <2>2
  <2>7. u \in signaled' <=> row[u] # "absent"
    BY <1>0, <2>2
  <2> QED
    BY <1>0, <2>1, <2>2, <2>3, <2>4, <2>5, <2>6, <2>7, RequestStep
<1>2. ASSUME NEW u \in Uploads, CommitOk(u) \/ CommitFails(u) PROVE UploadInv'
  <2>1. tx[u] = {"row", "signal"} /\ u \in pdf /\ row[u] = "absent" /\ pdf' = pdf
    BY <1>0, <1>2 DEF CommitOk, CommitFails, RequestShape
  <2>2. PICK p \in {"accepted", "remove"} :
           /\ Goto(u, p)
           /\ p = "accepted" => Committed(u)
           /\ Committed(u) \/ UNCHANGED <<row, signaled>>
    BY <1>2 DEF CommitOk, CommitFails
  <2>3. tx' = [tx EXCEPT ![u] = {}]
    BY <1>2 DEF CommitOk, CommitFails
  <2>4. CASE Committed(u)
    <3>1. row' = [row EXCEPT ![u] = "committed"] /\ signaled' = signaled \cup {u}
      BY <2>1, <2>4 DEF Committed
    <3>2. RequestShape(u)'
      BY <1>0, <2>1, <2>2, <2>3, <3>1 DEF Goto, RequestShape
    <3>3. p \in PC
      BY <2>2 DEF PC
    <3> QED
      BY <1>0, <2>1, <2>2, <2>3, <3>1, <3>2, <3>3, RequestStep
  <2>5. CASE UNCHANGED <<row, signaled>> /\ p = "remove"
    <3>1. row' = [row EXCEPT ![u] = "absent"] /\ u \notin signaled'
      BY <1>0, <2>1, <2>5
    <3>2. RequestShape(u)'
      BY <1>0, <2>1, <2>2, <2>3, <2>5 DEF Goto, RequestShape
    <3>3. p \in PC
      BY <2>2 DEF PC
    <3> QED
      BY <1>0, <2>1, <2>2, <2>3, <2>5, <3>1, <3>2, <3>3, RequestStep
  <2> QED
    BY <2>2, <2>4, <2>5
<1>3. ASSUME NEW u \in Uploads, ReadPdf(u) PROVE UploadInv'
  <2>1. /\ UNCHANGED <<pc, pdf, tx, signaled>> /\ row[u] = "committed"
        /\ row' = [row EXCEPT ![u] = IF u \in pdf THEN "read" ELSE "unreadable"]
    BY <1>3 DEF ReadPdf
  <2>2. /\ Goto(u, pc[u]) /\ pc[u] \in PC
        /\ tx' = [tx EXCEPT ![u] = tx[u]] /\ tx[u] \in SUBSET {"row", "signal"}
    BY <1>0, <2>1 DEF Goto
  <2>3. RequestShape(u)'
    BY <1>0, <2>1 DEF RequestShape
  <2> QED
    BY <1>0, <2>1, <2>2, <2>3, RequestStep
<1>4. ASSUME ApiCrash PROVE UploadInv'
  <2>1. PICK landed \in SUBSET {u \in Uploads : pc[u] = "commit"},
             removed \in SUBSET {u \in Uploads : pc[u] = "remove"} :
          /\ row' = [u \in Uploads |->
                       IF u \in landed /\ "row" \in tx[u] THEN "committed" ELSE row[u]]
          /\ signaled' = signaled \cup {u \in landed : "signal" \in tx[u]}
          /\ pdf' = pdf \ removed
    BY <1>4 DEF ApiCrash
  <2>2. /\ pc' = [u \in Uploads |-> IF InFlight(u) THEN "dead" ELSE pc[u]]
        /\ tx' = [u \in Uploads |-> {}]
    BY <1>4 DEF ApiCrash
  <2>3. TypeOK'
    BY <1>0, <2>1, <2>2 DEF TypeOK, PC
  <2>4. \A u \in landed : tx[u] = {"row", "signal"}
    BY <1>0 DEF RequestShape
  <2>5. SignalIffRow'
    BY <1>0, <2>1, <2>4 DEF SignalIffRow
  <2>6. ASSUME NEW u \in Uploads PROVE RequestShape(u)'
    BY <1>0, <2>1, <2>2 DEF InFlight, RequestShape
  <2> QED
    BY <2>3, <2>5, <2>6 DEF UploadInv
<1>5. CASE UNCHANGED vars
  BY <1>5 DEF vars, UploadInv, TypeOK, SignalIffRow, RequestShape
<1> QED
  BY <1>1, <1>2, <1>3, <1>4, <1>5 DEF Next

\* The invariant holds in every reachable state.
THEOREM UploadInvariant == Spec => []UploadInv
BY UploadInit, UploadNext, PTL DEF Spec

\* The pointer is committed last: no row is without its pdf before its request
\* has failed.
THEOREM PointerLast == Spec => []RowHasPdf
<1>1. UploadInv => RowHasPdf
  BY DEF UploadInv, TypeOK, PC, RequestShape, RowHasPdf
<1> QED
  BY <1>1, UploadInvariant, PTL

\* An accepted upload is a job whose pdf every worker finds.
THEOREM AcceptedRuns == Spec => []AcceptedJobRuns
<1>1. UploadInv => AcceptedJobRuns
  BY DEF UploadInv, RequestShape, AcceptedJobRuns
<1> QED
  BY <1>1, UploadInvariant, PTL

\* A row and its wake-up become visible together.
THEOREM SignalRidesCommit == Spec => []SignalIffRow
<1>1. UploadInv => SignalIffRow
  BY DEF UploadInv
<1> QED
  BY <1>1, UploadInvariant, PTL

=============================================================================
