--------------------------- MODULE OutboundSends ---------------------------
(***************************************************************************)
(* The message path implements Lifecycle: whichever path sent a row, and   *)
(* whatever failed on the way, the row keeps the promises made there.      *)
(*                                                                         *)
(* How often Outbound sends a row: the times Jasmin accepted it, together  *)
(* with everything that may still give it to Jasmin once more, never       *)
(* exceed what the row's call was allotted.  And, from that count, when a  *)
(* DLR finds no row: a row with another id than the DLR's was sent twice.  *)
(***************************************************************************)
EXTENDS OutboundProofs, FiniteSetTheorems

\* Rows that an agent, a batch or a view is concerned with exist, and no row is
\* ever given the status that stands for an unmapped DLR.
Exists ==
  /\ \A b \in Batch : mode[b] # "new" => \A r \in RowsOf[b] : status[r] # "absent"
  /\ \A k \in BatchId : \A r \in chunk[k] : status[r] # "absent"
  /\ \A r \in Row : batchId[r] # NoVal => status[r] # "absent"
  /\ \A v \in View :
       /\ dlrView[v] # NoVal => status[dlrView[v].row] # "absent"
       /\ batchView[v] # NoVal => status[batchView[v].row] # "absent"
  /\ \A r \in Row : status[r] # "unknown"
  /\ \A v \in View : dlrView[v] # NoVal => dlrView[v].status # "unknown"

PromiseInv == ReceiptInv /\ Queued /\ Exists

LEMMA ExistsInit == Init => Exists
BY DEF Init, Exists

\* A row never ceases to exist.
LEMMA RowsStay ==
  ASSUME OwnInv, Queued, [Next]_vars, NEW r \in Row, status[r] # "absent"
  PROVE  status'[r] # "absent"
BY QueuedOnce DEF Kept, CreatedBy

\* An agent that has a row has one that exists.
LEMMA HandsExist ==
  ASSUME OwnInv, Exists, NEW a \in Agent, NEW r \in todo[a] \cup call[a]
  PROVE  r \in Row /\ status[r] # "absent"
<1> USE AgentAssumption DEF OwnInv, HandsInv, Agent
<1>1. CASE a \in Batch
  <2>1. mode[a] # "new" /\ r \in RowsOf[a]
    BY <1>1 DEF Answers, Owners, Holdings
  <2> QED
    BY <1>1, <2>1 DEF Exists
<1>2. CASE a \in Worker
  <2>1. PICK b \in Batch : r \in RowsOf[b] /\ mode[b] = "bulk_async"
    BY <1>2 DEF Owners
  <2> QED
    BY <2>1 DEF Exists
<1> QED
  BY <1>1, <1>2

LEMMA ExistsStep == OwnInv /\ Queued /\ Exists /\ TypeOK' /\ [Next]_vars => Exists'
<1> SUFFICES ASSUME OwnInv, Queued, Exists, TypeOK', [Next]_vars PROVE Exists'
  OBVIOUS
<1> USE AgentAssumption, ValueAssumption DEF Agent, OwnInv, HandsInv
<1>0. \A r \in Row : status[r] # "absent" => status'[r] # "absent"
  BY RowsStay
<1>1. \A b \in Batch : mode'[b] # "new" => \A r \in RowsOf[b] : status'[r] # "absent"
  <2> SUFFICES ASSUME NEW b \in Batch, mode'[b] # "new", NEW r \in RowsOf[b]
      PROVE  status'[r] # "absent"
    OBVIOUS
  <2>1. CASE mode[b] # "new"
    BY <1>0, <2>1 DEF Exists
  <2>2. ASSUME NEW c \in Batch, SubmitSingle(c) \/ SubmitRest(c) \/ SubmitAsync(c)
        PROVE  mode[b] # "new" \/ status'[r] # "absent"
    <3>1. PICK m : mode' = [mode EXCEPT ![c] = m]
      BY <2>2 DEF SubmitSingle, SubmitRest, SubmitAsync
    <3>2. Start(c)
      BY <2>2 DEF SubmitSingle, SubmitRest, SubmitAsync
    <3> QED
      BY <3>1, <3>2 DEF Start, TypeOK
  <2>3. CASE mode' = mode
    BY <1>0, <2>3 DEF Exists
  <2> QED
    BY <2>1, <2>2, <2>3
       DEF Next, WebThread, AgentStep, JasminStep, ViewStep, vars, NotConfigured,
           StartTask, CallSend, CallBatch, FailUnsent, Crash, SaveSingle, SaveBatch,
           SettleRows, SaveWorker, WorkerRaises, JasminSend, JasminRefuse,
           JasminBatch, JasminItem, Report, ReadCallback, SaveCallback, DropCallback,
           ReadDlr, SaveDlr, DropDlr, ViewFails
<1>2. \A k \in BatchId : \A r \in chunk'[k] : status'[r] # "absent"
  <2>1. ASSUME NEW b \in Batch, NEW j \in BatchId, JasminBatch(b, j)
        PROVE  \A k \in BatchId : \A r \in chunk'[k] : r \in Row /\ status[r] # "absent"
    <3>1. chunk' = [chunk EXCEPT ![j] = call[b]]
      BY <2>1 DEF JasminBatch
    <3>2. \A r \in call[b] : r \in Row /\ status[r] # "absent"
      BY HandsExist
    <3>3. \A k \in BatchId : chunk[k] \subseteq Row
      BY DEF TypeOK
    <3> QED
      BY <3>1, <3>2, <3>3 DEF Exists, TypeOK
  <2>2. ASSUME chunk' = chunk
        PROVE  \A k \in BatchId : \A r \in chunk'[k] : r \in Row /\ status[r] # "absent"
    BY <2>2 DEF Exists, TypeOK
  <2>3. \A k \in BatchId : \A r \in chunk'[k] : r \in Row /\ status[r] # "absent"
    BY <2>1, <2>2
       DEF Next, WebThread, AgentStep, JasminStep, ViewStep, vars, SubmitSingle,
           NotConfigured, SubmitRest, SubmitAsync, jasmin, StartTask, CallSend,
           CallBatch, FailUnsent, Crash, SaveSingle, SaveBatch, SettleRows,
           SaveWorker, WorkerRaises, JasminSend, JasminRefuse, JasminItem, Report,
           ReadCallback, SaveCallback, DropCallback, ReadDlr, SaveDlr, DropDlr,
           ViewFails
  <2> QED
    BY <1>0, <2>3
<1>3. ASSUME NEW r \in Row
      PROVE  /\ batchId'[r] # NoVal => status'[r] # "absent"
             /\ status'[r] # "unknown"
  <2>1. ASSUME NEW v \in View, ReceiptedBy(v, r)
        PROVE  /\ batchId'[r] # NoVal => status'[r] # "absent"
               /\ status'[r] # "unknown"
    <3>1. batchId'[r] = batchId[r] /\ status'[r] # "unknown"
      BY <2>1 DEF ReceiptedBy, StatusAfter, Exists
    <3> QED
      BY <1>0, <3>1 DEF Exists
  <2>2. CASE \A v \in View : ~ReceiptedBy(v, r)
    BY <2>2, RowStep DEF Kept, CreatedBy, SavedBy, CalledBack, Exists
  <2> QED
    BY <2>1, <2>2
<1>4. ASSUME NEW v \in View
      PROVE  /\ dlrView'[v] # NoVal => status'[dlrView'[v].row] # "absent"
             /\ batchView'[v] # NoVal => status'[batchView'[v].row] # "absent"
             /\ dlrView'[v] # NoVal => dlrView'[v].status # "unknown"
  <2>0. /\ dlrView'[v] # NoVal => dlrView'[v].row \in Row
        /\ batchView'[v] # NoVal => batchView'[v].row \in Row
    BY DEF TypeOK, DlrViews, BatchViews
  <2>1. dlrView'[v] # NoVal => status[dlrView'[v].row] # "absent"
                               /\ dlrView'[v].status # "unknown"
    <3>1. CASE dlrView'[v] \in {dlrView[v], NoVal}
      BY <3>1 DEF Exists
    <3>2. ASSUME NEW d \in reports, NEW r \in Row, msgId[r] = d.id,
                 dlrView'[v] = [report |-> d, row |-> r, status |-> status[r],
                                deliveredAt |-> deliveredAt[r]]
          PROVE  status[dlrView'[v].row] # "absent" /\ dlrView'[v].status # "unknown"
      <4>1. d.id # NoVal
        BY DEF TypeOK, Reports
      <4> QED
        BY <3>2, <4>1 DEF Queued, Exists
    <3> QED
      BY <3>1, <3>2, ViewReads
  <2>2. batchView'[v] # NoVal => status[batchView'[v].row] # "absent"
    <3>1. CASE batchView'[v] \in {batchView[v], NoVal}
      BY <3>1 DEF Exists
    <3>2. CASE batchView'[v].row \in Row /\ batchId[batchView'[v].row] # NoVal
      BY <3>2 DEF Exists
    <3> QED
      BY <3>1, <3>2, ViewReads
  <2> QED
    BY <1>0, <2>0, <2>1, <2>2
<1> QED
  BY <1>1, <1>2, <1>3, <1>4 DEF Exists

LEMMA PromiseInvariant ==
  ASSUME DistinctDestinations PROVE Spec => []PromiseInv
<1>1. OwnInv /\ OwnInv' /\ Queued /\ Exists /\ [Next]_vars => (Queued /\ Exists)'
  BY QueuedStep, ExistsStep DEF OwnInv, HandsInv
<1>2. Init => Queued /\ Exists
  BY QueuedInit, ExistsInit
<1> QED
  BY <1>1, <1>2, OwnInvariant, ReceiptInvariant, PTL DEF Spec, PromiseInv

-----------------------------------------------------------------------------
(* Every step is a step of Lifecycle, or none.                              *)

LEMMA PromiseInit == Init => Promise!Init
BY DEF Init, Promise!Init

\* Saving the rows R as submitted or failed settles them.
LEMMA Settles ==
  ASSUME PromiseInv, PromiseInv', NEW R \in SUBSET Row, NEW o \in {"submitted", "failed"},
         \A r \in R : status[r] # "absent",
         status' = [r \in Row |-> IF r \in R THEN o ELSE status[r]],
         \A r \in Row \ R : msgId'[r] = msgId[r],
         UNCHANGED <<dlrStatus, deliveredAt, accepted, reports>>
  PROVE  Promise!Next
<1>1. msgId' \in [Row -> MsgId \cup {NoVal}]
  BY DEF PromiseInv, ReceiptInv, OwnInv, HandsInv, TypeOK
<1>2. \A r \in Row : msgId'[r] # NoVal => accepted[msgId'[r]] = r
  BY DEF PromiseInv, ReceiptInv, CorrelationInv, Correlated
<1>3. Promise!Settle(R, o)
  BY <1>1, <1>2 DEF Promise!Settle
<1> QED
  BY <1>3 DEF Promise!Next

\* The same for one row.
LEMMA SettlesOne ==
  ASSUME PromiseInv, PromiseInv', NEW r \in Row, NEW o \in {"submitted", "failed"},
         status[r] # "absent", status' = [status EXCEPT ![r] = o],
         \A s \in Row \ {r} : msgId'[s] = msgId[s],
         UNCHANGED <<dlrStatus, deliveredAt, accepted, reports>>
  PROVE  Promise!Next
<1>1. status \in [Row -> Status \cup {"absent"}]
  BY DEF PromiseInv, ReceiptInv, OwnInv, HandsInv, TypeOK
<1>2. status' = [s \in Row |-> IF s \in {r} THEN o ELSE status[s]]
  BY <1>1
<1> QED
  BY <1>2, Settles

LEMMA StepRefines == PromiseInv /\ PromiseInv' /\ [Next]_vars => [Promise!Next]_(Promise!vars)
<1> SUFFICES ASSUME PromiseInv, PromiseInv', [Next]_vars
    PROVE  Promise!Next \/ UNCHANGED Promise!vars
  OBVIOUS
<1> USE AgentAssumption, ValueAssumption
    DEF Agent, columns, agents, jasmin, views, Promise!vars, Promise!row
<1>0. OwnInv /\ HandsInv /\ TypeOK /\ Exists /\ Receipts /\ Queued /\ CorrelationInv
      /\ Answers /\ Owners /\ Holdings
  BY DEF PromiseInv, ReceiptInv, OwnInv, HandsInv
<1>1. ASSUME NEW b \in Batch, SubmitSingle(b) \/ SubmitRest(b) \/ SubmitAsync(b)
      PROVE  Promise!Next
  <2>1. Start(b) /\ UNCHANGED <<msgId, dlrStatus, deliveredAt, accepted, reports>>
    BY <1>1 DEF SubmitSingle, SubmitRest, SubmitAsync
  <2>2. \A r \in RowsOf[b] : status[r] = "absent"
    BY <1>0, <2>1 DEF Start, OwnInv, Fresh, Own
  <2>3. Promise!Create(RowsOf[b])
    BY <2>1, <2>2 DEF Promise!Create, Start
  <2> QED
    BY <2>3 DEF Promise!Next
<1>2. ASSUME NEW b \in Batch, SaveSingle(b) PROVE Promise!Next
  <2>1. PICK r \in call[b] :
          /\ status' = [status EXCEPT ![r] = Outcome(b)]
          /\ msgId' = [msgId EXCEPT ![r] = ref[b]]
          /\ dlrStatus' = [dlrStatus EXCEPT ![r] = NoVal]
          /\ deliveredAt' = [deliveredAt EXCEPT ![r] = FALSE]
    BY <1>2 DEF SaveSingle
  <2>2. UNCHANGED <<accepted, reports>> /\ mode[b] = "single"
    BY <1>2 DEF SaveSingle
  <2>3. r \in Own(b) /\ r \in Row /\ status[r] # "absent"
    BY <1>0, <2>1, <2>2, HandsExist DEF Own
  <2>4. dlrStatus[r] = NoVal /\ deliveredAt[r] = FALSE
    BY <1>0, <2>3 DEF OwnInv, Fresh, Blank, TypeOK
  <2>5. UNCHANGED <<dlrStatus, deliveredAt>>
    BY <1>0, <2>1, <2>3, <2>4 DEF TypeOK
  <2>6. \A s \in Row \ {r} : msgId'[s] = msgId[s]
    BY <1>0, <2>1 DEF TypeOK
  <2>7. Outcome(b) \in {"submitted", "failed"}
    BY DEF Outcome
  <2> QED
    BY <2>1, <2>2, <2>3, <2>5, <2>6, <2>7, SettlesOne
<1>3. ASSUME NEW b \in Batch, SaveBatch(b) PROVE Promise!Next
  <2>1. /\ status' = [r \in Row |-> IF r \in call[b] THEN Outcome(b) ELSE status[r]]
        /\ UNCHANGED <<msgId, dlrStatus, deliveredAt, accepted, reports>>
    BY <1>3 DEF SaveBatch, SettleRows
  <2>2. call[b] \in SUBSET Row /\ \A r \in call[b] : status[r] # "absent"
    BY <1>0, HandsExist
  <2>3. Outcome(b) \in {"submitted", "failed"}
    BY DEF Outcome
  <2> QED
    BY <2>1, <2>2, <2>3, Settles
<1>4. ASSUME NEW w \in Worker, SaveWorker(w) PROVE Promise!Next
  <2>1. PICK r \in call[w] : /\ status' = [status EXCEPT ![r] = Outcome(w)]
                             /\ msgId' = [msgId EXCEPT ![r] = ref[w]]
    BY <1>4 DEF SaveWorker
  <2>2. UNCHANGED <<dlrStatus, deliveredAt, accepted, reports>>
    BY <1>4 DEF SaveWorker
  <2>3. r \in Row /\ status[r] # "absent"
    BY <1>0, HandsExist
  <2>4. \A s \in Row \ {r} : msgId'[s] = msgId[s]
    BY <1>0, <2>1 DEF TypeOK
  <2>5. Outcome(w) \in {"submitted", "failed"}
    BY DEF Outcome
  <2> QED
    BY <2>1, <2>2, <2>3, <2>4, <2>5, SettlesOne
<1>5. ASSUME NEW w \in Worker, NEW r \in todo[w] \cup call[w],
             status' = [status EXCEPT ![r] = "failed"],
             UNCHANGED <<msgId, dlrStatus, deliveredAt, accepted, reports>>
      PROVE  Promise!Next
  <2>1. r \in Row /\ status[r] # "absent"
    BY <1>0, HandsExist
  <2> QED
    BY <1>5, <2>1, SettlesOne
<1>6. ASSUME NEW w \in Worker, WorkerRaises(w) PROVE Promise!Next
  BY <1>5, <1>6 DEF WorkerRaises
<1>7. ASSUME NEW w \in Worker, NEW r \in Row, FailUnsent(w, r) PROVE Promise!Next
  BY <1>5, <1>7 DEF FailUnsent, IsOldest
<1>8. ASSUME NEW i \in MsgId, NEW r \in Row, status[r] # "absent", IsFresh(i),
             accepted' = [accepted EXCEPT ![i] = r],
             UNCHANGED <<status, msgId, dlrStatus, deliveredAt, reports>>
      PROVE  Promise!Next
  <2>1. Promise!Accept(i, r)
    BY <1>8 DEF Promise!Accept, IsFresh
  <2> QED
    BY <2>1 DEF Promise!Next
<1>9. ASSUME NEW a \in Agent, NEW i \in MsgId, JasminSend(a, i) PROVE Promise!Next
  <2>1. PICK r \in call[a] : accepted' = [accepted EXCEPT ![i] = r]
    BY <1>9 DEF JasminSend
  <2>2. r \in Row /\ status[r] # "absent"
    BY <1>0, HandsExist
  <2> QED
    BY <1>8, <1>9, <2>1, <2>2 DEF JasminSend
<1>10. ASSUME NEW k \in BatchId, NEW r \in Row, JasminItem(k, r)
       PROVE  Promise!Next \/ UNCHANGED Promise!vars
  <2>1. r \in chunk[k] /\ UNCHANGED <<status, msgId, dlrStatus, deliveredAt, reports>>
    BY <1>0, <1>10 DEF JasminItem, CorrelationInv, Chunks
  <2>2. status[r] # "absent"
    BY <1>0, <2>1 DEF Exists
  <2>3. \/ \E i \in MsgId : IsFresh(i) /\ accepted' = [accepted EXCEPT ![i] = r]
        \/ accepted' = accepted
    BY <1>10 DEF JasminItem
  <2> QED
    BY <1>8, <2>1, <2>2, <2>3
<1>11. ASSUME NEW i \in MsgId, NEW s \in Stats, Report(i, s) PROVE Promise!Next
  <2>1. Promise!Report(i, s)
    BY <1>11 DEF Report, Promise!Report
  <2> QED
    BY <2>1 DEF Promise!Next
<1>12. ASSUME NEW v \in View, SaveCallback(v) PROVE Promise!Next
  <2> DEFINE c == batchView[v].callback
             r == batchView[v].row
  <2>1. /\ batchView[v] # NoVal
        /\ status' = [status EXCEPT ![r] = CallbackStatus(c)]
        /\ UNCHANGED <<dlrStatus, deliveredAt, accepted, reports>>
    BY <1>12 DEF SaveCallback
  <2>2. r \in Row /\ status[r] # "absent"
    BY <1>0, <2>1 DEF TypeOK, BatchViews, Exists
  <2>3. \A s \in Row \ {r} : msgId'[s] = msgId[s]
    BY <1>0, <1>12 DEF SaveCallback, TypeOK
  <2>4. CallbackStatus(c) \in {"submitted", "failed"}
    BY DEF CallbackStatus
  <2> HIDE DEF c, r
  <2> QED
    BY <2>1, <2>2, <2>3, <2>4, SettlesOne
<1>13. ASSUME NEW v \in View, SaveDlr(v) PROVE Promise!Next
  <2> DEFINE d == dlrView[v].report
             r == dlrView[v].row
             old == dlrView[v].status
             stamp == dlrView[v].deliveredAt
  <2>1. /\ dlrView[v] # NoVal
        /\ status' = [status EXCEPT ![r] = StatusAfter(d, old)]
        /\ deliveredAt' = [deliveredAt EXCEPT ![r] = StampAfter(d, stamp)]
        /\ dlrStatus' = [dlrStatus EXCEPT ![r] = d.stat]
        /\ UNCHANGED <<msgId, accepted, reports>>
    BY <1>13 DEF SaveDlr
  <2>2. /\ r \in Row /\ old \in Status \cup {"absent"} /\ stamp \in BOOLEAN
        /\ d \in reports /\ accepted[d.id] = r
        /\ stamp => Delivered(r)
        /\ old = "delivered" => stamp
        /\ old \notin {"absent", "queued", "unknown"}
    BY <1>0, <2>1 DEF TypeOK, DlrViews, Receipts, Queued, Exists
  <2> HIDE DEF d, r, old, stamp
  <2>3. StatusAfter(d, old) \in Promise!Settled
    <3>1. old \in Promise!Settled
      BY <2>2 DEF Status, Promise!Settled
    <3>2. StatusFromDlr(d.stat) \in Promise!Settled \cup {"unknown"}
      <4>1. CASE d.stat \in DOMAIN DlrMapping
        <5>1. d.stat \in {"DELIVRD", "ESME_ROK", "ENROUTE", "UNDELIV", "REJECTD", "EXPIRED"}
          BY <4>1 DEF DlrMapping
        <5> QED
          BY <4>1, <5>1 DEF StatusFromDlr, DlrMapping, Promise!Settled
      <4>2. CASE d.stat \notin DOMAIN DlrMapping
        BY <4>2 DEF StatusFromDlr
      <4> QED
        BY <4>1, <4>2
    <3> QED
      BY <3>1, <3>2 DEF StatusAfter
  <2>4. StatusFromDlr(d.stat) \in {StatusAfter(d, old), "unknown"}
    BY DEF StatusAfter
  <2>5. StampAfter(d, stamp) \in BOOLEAN
    BY <2>2 DEF StampAfter
  <2>6. StatusAfter(d, old) = "delivered" => StampAfter(d, stamp)
    BY <2>2 DEF StatusAfter, StampAfter
  <2>7. StampAfter(d, stamp) =>
          \E e \in reports : accepted[e.id] = r /\ StatusFromDlr(e.stat) = "delivered"
    <3>1. StatusFromDlr("DELIVRD") = "delivered"
      BY DEF StatusFromDlr, DlrMapping
    <3> QED
      BY <2>2, <3>1 DEF StampAfter, Delivered, AcceptedAs
  <2>8. Promise!Receipt(d, r)
    BY <2>1, <2>2, <2>3, <2>4, <2>5, <2>6, <2>7 DEF Promise!Receipt
  <2> QED
    BY <2>2, <2>8 DEF Promise!Next
<1>14. CASE UNCHANGED <<status, msgId, dlrStatus, deliveredAt, accepted, reports>>
  BY <1>14
<1> QED
  BY <1>1, <1>2, <1>3, <1>4, <1>6, <1>7, <1>9, <1>10, <1>11, <1>12, <1>13, <1>14
     DEF Next, WebThread, AgentStep, JasminStep, ViewStep, vars, NotConfigured,
         StartTask, CallSend, CallBatch, Crash, JasminRefuse, JasminBatch,
         ReadCallback, DropCallback, ReadDlr, DropDlr, ViewFails

\* Each path keeps the promises of Lifecycle: a row is settled and never queued
\* again, carries no id but its own, and shows of its delivery only what Jasmin
\* reported of it, as long as no call names a number twice.
THEOREM Implementation ==
  ASSUME DistinctDestinations PROVE Spec => ImplementsLifecycle
<1>1. PromiseInv /\ PromiseInv' /\ [Next]_vars => [Promise!Next]_(Promise!vars)
  BY StepRefines
<1> QED
  BY <1>1, PromiseInit, PromiseInvariant, PTL DEF Spec, ImplementsLifecycle, Promise!Spec

-----------------------------------------------------------------------------
(* How often a row is sent.                                                *)

\* The agents that have row r still to send, or have a request with it out.
Senders(r) == {a \in Agent : r \in todo[a] \/ (r \in call[a] /\ answer[a] = "waiting")}

\* The batches from which Jasmin will submit row r.
Pending(r) == {k \in BatchId : r \in unsent[k]}

Allotted(b) ==
  IF mode[b] = "new" THEN 0
  ELSE IF mode[b] = "bulk_async" THEN MaxDeliveries - broker[b] ELSE 1

Within(r, n) ==
  /\ IsFiniteSet(AcceptedAs(r)) /\ IsFiniteSet(Senders(r)) /\ IsFiniteSet(Pending(r))
  /\ Cardinality(AcceptedAs(r)) + Cardinality(Senders(r)) + Cardinality(Pending(r)) <= n

Counted == \A b \in Batch : \A r \in RowsOf[b] : Within(r, Allotted(b))

CountInv == OwnInv /\ Counted /\ \A k \in BatchId : unsent[k] \subseteq chunk[k]

LEMMA CountInit == Init => Counted
<1> SUFFICES ASSUME Init, NEW b \in Batch, NEW r \in RowsOf[b]
    PROVE  Within(r, Allotted(b))
  BY DEF Counted
<1>1. AcceptedAs(r) = {} /\ Senders(r) = {} /\ Pending(r) = {}
  BY AgentAssumption, ValueAssumption
     DEF Init, AcceptedAs, Senders, Pending, Agent
<1>2. Allotted(b) = 0
  BY DEF Init, Allotted
<1> QED
  BY <1>1, <1>2, FS_EmptySet DEF Within

\* A set that gains at most one element counts at most one more.
LEMMA AtMostOneMore ==
  ASSUME NEW S, IsFiniteSet(S), NEW x, NEW T, T \subseteq S \cup {x}
  PROVE  IsFiniteSet(T) /\ Cardinality(T) \in Nat /\ Cardinality(S) \in Nat
         /\ Cardinality(T) <= Cardinality(S) + 1
<1>1. IsFiniteSet(S \cup {x}) /\ Cardinality(S \cup {x}) <= Cardinality(S) + 1
      /\ Cardinality(S) \in Nat
  BY FS_AddElement, FS_CardinalityType
<1>2. IsFiniteSet(T) /\ Cardinality(T) <= Cardinality(S \cup {x})
  BY <1>1, FS_Subset
<1> QED
  BY <1>1, <1>2, FS_CardinalityType

LEMMA AtLeastOneLess ==
  ASSUME NEW S, IsFiniteSet(S), NEW x \in S, NEW T, T \subseteq S \ {x}
  PROVE  IsFiniteSet(T) /\ Cardinality(T) \in Nat /\ Cardinality(S) \in Nat
         /\ Cardinality(T) + 1 <= Cardinality(S)
<1>1. IsFiniteSet(S \ {x}) /\ Cardinality(S \ {x}) = Cardinality(S) - 1
      /\ Cardinality(S) \in Nat /\ Cardinality(S \ {x}) \in Nat
  BY FS_RemoveElement, FS_CardinalityType
<1>2. IsFiniteSet(T) /\ Cardinality(T) <= Cardinality(S \ {x}) /\ Cardinality(T) \in Nat
  BY <1>1, FS_Subset, FS_CardinalityType
<1> QED
  BY <1>1, <1>2

LEMMA NoMore ==
  ASSUME NEW S, IsFiniteSet(S), NEW T, T \subseteq S
  PROVE  IsFiniteSet(T) /\ Cardinality(T) \in Nat /\ Cardinality(S) \in Nat
         /\ Cardinality(T) <= Cardinality(S)
BY FS_Subset, FS_CardinalityType

LEMMA AllottedType ==
  ASSUME TypeOK, NEW b \in Batch PROVE Allotted(b) \in Nat
<1>1. broker[b] \in 0..MaxDeliveries /\ MaxDeliveries \in Nat
  BY ValueAssumption DEF TypeOK
<1> QED
  BY <1>1 DEF Allotted

\* What a step may do to the counts of one row.
LEMMA CountKept ==
  ASSUME TypeOK, TypeOK', NEW b \in Batch, NEW r \in RowsOf[b],
         Within(r, Allotted(b)), Allotted(b) <= Allotted(b)',
         \/ /\ AcceptedAs(r)' \subseteq AcceptedAs(r)
            /\ Senders(r)' \subseteq Senders(r) /\ Pending(r)' \subseteq Pending(r)
         \/ /\ AcceptedAs(r)' \subseteq AcceptedAs(r) /\ Pending(r)' \subseteq Pending(r)
            /\ \E a : Senders(r)' \subseteq Senders(r) \cup {a}
            /\ Allotted(b) + 1 <= Allotted(b)'
         \/ /\ \E i : AcceptedAs(r)' \subseteq AcceptedAs(r) \cup {i}
            /\ \E a \in Senders(r) : Senders(r)' \subseteq Senders(r) \ {a}
            /\ Pending(r)' \subseteq Pending(r)
         \/ /\ \E k : Pending(r)' \subseteq Pending(r) \cup {k}
            /\ \E a \in Senders(r) : Senders(r)' \subseteq Senders(r) \ {a}
            /\ AcceptedAs(r)' \subseteq AcceptedAs(r)
         \/ /\ \E i : AcceptedAs(r)' \subseteq AcceptedAs(r) \cup {i}
            /\ \E k \in Pending(r) : Pending(r)' \subseteq Pending(r) \ {k}
            /\ Senders(r)' \subseteq Senders(r)
  PROVE  Within(r, Allotted(b))'
<1> DEFINE A == AcceptedAs(r)
           S == Senders(r)
           P == Pending(r)
           m == Allotted(b)
           n == Allotted(b)'
           A2 == AcceptedAs(r)'
           S2 == Senders(r)'
           P2 == Pending(r)'
<1>1. /\ IsFiniteSet(A) /\ IsFiniteSet(S) /\ IsFiniteSet(P)
      /\ Cardinality(A) + Cardinality(S) + Cardinality(P) <= m
  BY DEF Within
<1>2. m \in Nat /\ n \in Nat
  <2>1. Allotted(b)' \in Nat
    <3>1. broker'[b] \in 0..MaxDeliveries /\ MaxDeliveries \in Nat
      BY ValueAssumption DEF TypeOK
    <3> QED
      BY <3>1 DEF Allotted
  <2> QED
    BY <2>1, AllottedType
<1>3. SUFFICES /\ IsFiniteSet(A2) /\ IsFiniteSet(S2) /\ IsFiniteSet(P2)
               /\ Cardinality(A2) + Cardinality(S2) + Cardinality(P2) <= n
  BY DEF Within
<1>4. m <= n
  OBVIOUS
<1>5. \/ A2 \subseteq A /\ S2 \subseteq S /\ P2 \subseteq P
      \/ A2 \subseteq A /\ P2 \subseteq P /\ (\E a : S2 \subseteq S \cup {a}) /\ m + 1 <= n
      \/ /\ \E i : A2 \subseteq A \cup {i}
         /\ \E a \in S : S2 \subseteq S \ {a}
         /\ P2 \subseteq P
      \/ /\ \E k : P2 \subseteq P \cup {k}
         /\ \E a \in S : S2 \subseteq S \ {a}
         /\ A2 \subseteq A
      \/ /\ \E i : A2 \subseteq A \cup {i}
         /\ \E k \in P : P2 \subseteq P \ {k}
         /\ S2 \subseteq S
  OBVIOUS
<1> HIDE DEF A, S, P, m, n, A2, S2, P2
<1>6. CASE A2 \subseteq A /\ S2 \subseteq S /\ P2 \subseteq P
  BY <1>1, <1>2, <1>4, <1>6, NoMore
<1>7. CASE A2 \subseteq A /\ P2 \subseteq P /\ (\E a : S2 \subseteq S \cup {a}) /\ m + 1 <= n
  <2>1. /\ IsFiniteSet(S2) /\ Cardinality(S2) \in Nat /\ Cardinality(S) \in Nat
        /\ Cardinality(S2) <= Cardinality(S) + 1
    BY <1>1, <1>7, AtMostOneMore
  <2>2. /\ IsFiniteSet(A2) /\ Cardinality(A2) \in Nat /\ Cardinality(A) \in Nat
        /\ Cardinality(A2) <= Cardinality(A)
    BY <1>1, <1>7, NoMore
  <2>3. /\ IsFiniteSet(P2) /\ Cardinality(P2) \in Nat /\ Cardinality(P) \in Nat
        /\ Cardinality(P2) <= Cardinality(P)
    BY <1>1, <1>7, NoMore
  <2> QED
    BY <1>1, <1>2, <1>4, <1>7, <2>1, <2>2, <2>3
<1>8. CASE /\ \E i : A2 \subseteq A \cup {i}
           /\ \E a \in S : S2 \subseteq S \ {a}
           /\ P2 \subseteq P
  <2>1. /\ IsFiniteSet(A2) /\ Cardinality(A2) \in Nat /\ Cardinality(A) \in Nat
        /\ Cardinality(A2) <= Cardinality(A) + 1
    BY <1>1, <1>8, AtMostOneMore
  <2>2. /\ IsFiniteSet(S2) /\ Cardinality(S2) \in Nat /\ Cardinality(S) \in Nat
        /\ Cardinality(S2) + 1 <= Cardinality(S)
    BY <1>1, <1>8, AtLeastOneLess
  <2>3. /\ IsFiniteSet(P2) /\ Cardinality(P2) \in Nat /\ Cardinality(P) \in Nat
        /\ Cardinality(P2) <= Cardinality(P)
    BY <1>1, <1>8, NoMore
  <2> QED
    BY <1>1, <1>2, <1>4, <1>8, <2>1, <2>2, <2>3
<1>9. CASE /\ \E k : P2 \subseteq P \cup {k}
           /\ \E a \in S : S2 \subseteq S \ {a}
           /\ A2 \subseteq A
  <2>1. /\ IsFiniteSet(P2) /\ Cardinality(P2) \in Nat /\ Cardinality(P) \in Nat
        /\ Cardinality(P2) <= Cardinality(P) + 1
    BY <1>1, <1>9, AtMostOneMore
  <2>2. /\ IsFiniteSet(S2) /\ Cardinality(S2) \in Nat /\ Cardinality(S) \in Nat
        /\ Cardinality(S2) + 1 <= Cardinality(S)
    BY <1>1, <1>9, AtLeastOneLess
  <2>3. /\ IsFiniteSet(A2) /\ Cardinality(A2) \in Nat /\ Cardinality(A) \in Nat
        /\ Cardinality(A2) <= Cardinality(A)
    BY <1>1, <1>9, NoMore
  <2> QED
    BY <1>1, <1>2, <1>4, <1>9, <2>1, <2>2, <2>3
<1>10. CASE /\ \E i : A2 \subseteq A \cup {i}
            /\ \E k \in P : P2 \subseteq P \ {k}
            /\ S2 \subseteq S
  <2>1. /\ IsFiniteSet(A2) /\ Cardinality(A2) \in Nat /\ Cardinality(A) \in Nat
        /\ Cardinality(A2) <= Cardinality(A) + 1
    BY <1>1, <1>10, AtMostOneMore
  <2>2. /\ IsFiniteSet(P2) /\ Cardinality(P2) \in Nat /\ Cardinality(P) \in Nat
        /\ Cardinality(P2) + 1 <= Cardinality(P)
    BY <1>1, <1>10, AtLeastOneLess
  <2>3. /\ IsFiniteSet(S2) /\ Cardinality(S2) \in Nat /\ Cardinality(S) \in Nat
        /\ Cardinality(S2) <= Cardinality(S)
    BY <1>1, <1>10, NoMore
  <2> QED
    BY <1>1, <1>2, <1>4, <1>10, <2>1, <2>2, <2>3
<1> QED
  BY <1>5, <1>6, <1>7, <1>8, <1>9, <1>10

LEMMA UnsentStep ==
  TypeOK /\ (\A k \in BatchId : unsent[k] \subseteq chunk[k]) /\ [Next]_vars
    => (\A k \in BatchId : unsent[k] \subseteq chunk[k])'
<1> SUFFICES ASSUME TypeOK, \A k \in BatchId : unsent[k] \subseteq chunk[k], [Next]_vars
    PROVE  \A k \in BatchId : unsent'[k] \subseteq chunk'[k]
  OBVIOUS
<1> USE DEF columns, agents, jasmin, views
<1>1. ASSUME NEW b \in Batch, NEW j \in BatchId, JasminBatch(b, j)
      PROVE  \A k \in BatchId : unsent'[k] \subseteq chunk'[k]
  BY <1>1 DEF JasminBatch, TypeOK
<1>2. ASSUME NEW j \in BatchId, NEW r \in Row, JasminItem(j, r)
      PROVE  \A k \in BatchId : unsent'[k] \subseteq chunk'[k]
  BY <1>2 DEF JasminItem, TypeOK
<1>3. CASE UNCHANGED <<chunk, unsent>>
  BY <1>3
<1> QED
  BY <1>1, <1>2, <1>3
     DEF Next, WebThread, AgentStep, JasminStep, ViewStep, vars,
         SubmitSingle, NotConfigured, SubmitRest, SubmitAsync, StartTask,
         CallSend, CallBatch, FailUnsent, Crash, SaveSingle, SaveBatch, SettleRows,
         SaveWorker, WorkerRaises, JasminSend, JasminRefuse, Report, ReadCallback,
         SaveCallback, DropCallback, ReadDlr, SaveDlr, DropDlr, ViewFails

LEMMA CountStep == CountInv /\ TypeOK' /\ [Next]_vars => Counted'
<1> SUFFICES ASSUME CountInv, TypeOK', [Next]_vars, NEW b \in Batch, NEW r \in RowsOf[b]
    PROVE  Within(r, Allotted(b))'
  BY DEF Counted
<1>0. TypeOK /\ TypeOK' /\ Within(r, Allotted(b)) /\ Allotted(b) \in Nat
  BY AllottedType DEF CountInv, OwnInv, HandsInv, Counted
<1>a. ASSUME AcceptedAs(r)' \subseteq AcceptedAs(r), Senders(r)' \subseteq Senders(r),
             Pending(r)' \subseteq Pending(r), Allotted(b)' = Allotted(b)
      PROVE  Within(r, Allotted(b))'
  <2>1. Allotted(b) <= Allotted(b)'
    BY <1>0, <1>a
  <2> QED
    BY <1>0, <1>a, <2>1, CountKept
<1>b. ASSUME NEW i, NEW a \in Senders(r), AcceptedAs(r)' \subseteq AcceptedAs(r) \cup {i},
             Senders(r)' \subseteq Senders(r) \ {a}, Pending(r)' \subseteq Pending(r),
             Allotted(b)' = Allotted(b)
      PROVE  Within(r, Allotted(b))'
  <2>1. Allotted(b) <= Allotted(b)'
    BY <1>0, <1>b
  <2> QED
    BY <1>0, <1>b, <2>1, CountKept
<1>c. ASSUME NEW k, NEW a \in Senders(r), Pending(r)' \subseteq Pending(r) \cup {k},
             Senders(r)' \subseteq Senders(r) \ {a}, AcceptedAs(r)' \subseteq AcceptedAs(r),
             Allotted(b)' = Allotted(b)
      PROVE  Within(r, Allotted(b))'
  <2>1. Allotted(b) <= Allotted(b)'
    BY <1>0, <1>c
  <2> QED
    BY <1>0, <1>c, <2>1, CountKept
<1>d. ASSUME NEW i, NEW k \in Pending(r), AcceptedAs(r)' \subseteq AcceptedAs(r) \cup {i},
             Pending(r)' \subseteq Pending(r) \ {k}, Senders(r)' \subseteq Senders(r),
             Allotted(b)' = Allotted(b)
      PROVE  Within(r, Allotted(b))'
  <2>1. Allotted(b) <= Allotted(b)'
    BY <1>0, <1>d
  <2> QED
    BY <1>0, <1>d, <2>1, CountKept
<1> USE AgentAssumption, ValueAssumption
    DEF Agent, columns, agents, jasmin, views, CountInv, OwnInv, HandsInv
\* Steps by which nothing comes any nearer to Jasmin.
<1>1. ASSUME UNCHANGED <<accepted, unsent, mode, broker>>, Senders(r)' \subseteq Senders(r)
      PROVE  Within(r, Allotted(b))'
  BY <1>a, <1>1 DEF AcceptedAs, Pending, Allotted
<1>2. ASSUME UNCHANGED <<accepted, unsent, mode, broker>>,
             \A a \in Agent :
               /\ todo'[a] \cup call'[a] \subseteq todo[a] \cup call[a]
               /\ r \in call'[a] /\ answer'[a] = "waiting" => a \in Senders(r)
               /\ r \in todo'[a] => a \in Senders(r)
      PROVE  Within(r, Allotted(b))'
  BY <1>1, <1>2 DEF Senders
<1>3. ASSUME UNCHANGED <<accepted, unsent, mode, broker, todo, call, answer>>
      PROVE  Within(r, Allotted(b))'
  BY <1>1, <1>3 DEF Senders
<1>4. ASSUME NEW a \in Agent, Freed(a), UNCHANGED <<accepted, unsent, mode, broker, todo>>
      PROVE  Within(r, Allotted(b))'
  BY <1>1, <1>4 DEF Freed, TypeOK, Senders
<1>5. ASSUME NEW a \in Agent, Crash(a) PROVE Within(r, Allotted(b))'
  BY <1>1, <1>5 DEF Crash, Freed, TypeOK, Senders
<1>6. ASSUME NEW a \in Agent, NEW s \in Row, CallSend(a, s) PROVE Within(r, Allotted(b))'
  BY <1>1, <1>6 DEF CallSend, IsOldest, TypeOK, Senders
<1>7. ASSUME NEW a \in Agent, NEW S \in SUBSET todo[a], CallBatch(a, S)
      PROVE  Within(r, Allotted(b))'
  BY <1>1, <1>7 DEF CallBatch, TypeOK, Senders
<1>8. ASSUME NEW w \in Worker, NEW s \in Row, FailUnsent(w, s) PROVE Within(r, Allotted(b))'
  BY <1>1, <1>8 DEF FailUnsent, TypeOK, Senders
<1>9. ASSUME NEW a \in Agent, JasminRefuse(a) PROVE Within(r, Allotted(b))'
  BY <1>1, <1>9 DEF JasminRefuse, TypeOK, Senders
<1>10. ASSUME NEW c \in Batch, NotConfigured(c) PROVE Within(r, Allotted(b))'
  BY <1>1, <1>10 DEF NotConfigured, TypeOK, Senders
\* A call that starts is allotted one send, or the deliveries of its task.
<1>11. ASSUME NEW c \in Batch, SubmitSingle(c) \/ SubmitRest(c) PROVE Within(r, Allotted(b))'
  <2>0. PICK m \in {"single", "bulk_rest"} : mode' = [mode EXCEPT ![c] = m]
    BY <1>11 DEF SubmitSingle, SubmitRest
  <2>1. /\ mode[c] = "new" /\ mode'[c] \in {"single", "bulk_rest"}
        /\ todo' = [todo EXCEPT ![c] = RowsOf[c]]
        /\ UNCHANGED <<accepted, unsent, broker, call, answer>>
        /\ \A d \in Batch : d # c => mode'[d] = mode[d]
    BY <1>11, <2>0 DEF SubmitSingle, SubmitRest, Start, TypeOK
  <2>2. CASE c = b
    <3>1. Allotted(b) = 0 /\ Allotted(b)' = 1
      BY <2>1, <2>2 DEF Allotted
    <3>2. Senders(r)' \subseteq Senders(r) \cup {b}
      BY <2>1, <2>2 DEF Senders, TypeOK
    <3> QED
      BY <1>0, <2>1, <3>1, <3>2, CountKept DEF AcceptedAs, Pending
  <2>3. CASE c # b
    <3>1. Allotted(b)' = Allotted(b)
      BY <2>1, <2>3 DEF Allotted, TypeOK
    <3>2. Senders(r)' \subseteq Senders(r)
      BY <2>1, <2>3 DEF Senders, TypeOK
    <3> QED
      BY <1>a, <2>1, <3>1, <3>2 DEF AcceptedAs, Pending
  <2> QED
    BY <2>2, <2>3
<1>12. ASSUME NEW c \in Batch, SubmitAsync(c) PROVE Within(r, Allotted(b))'
  <2>1. UNCHANGED <<accepted, unsent, todo, call, answer>>
    BY <1>12 DEF SubmitAsync
  <2>2. Allotted(b) <= Allotted(b)'
    <3>1. CASE c = b
      <4>1. Allotted(b) = 0
        BY <1>12, <3>1 DEF SubmitAsync, Start, Allotted
      <4>2. broker'[b] \in 0..MaxDeliveries /\ MaxDeliveries \in Nat
        BY DEF TypeOK
      <4> QED
        BY <4>1, <4>2 DEF Allotted
    <3>2. CASE c # b
      BY <1>0, <1>12, <3>2 DEF SubmitAsync, Allotted, TypeOK
    <3> QED
      BY <3>1, <3>2
  <2> QED
    BY <1>0, <2>1, <2>2, CountKept DEF AcceptedAs, Pending, Senders
\* A delivery of the task gives one worker the rows once.
<1>13. ASSUME NEW w \in Worker, NEW c \in Batch, StartTask(w, c) PROVE Within(r, Allotted(b))'
  <2>1. /\ UNCHANGED <<accepted, unsent, mode, call, answer>>
        /\ broker[c] > 0 /\ broker' = [broker EXCEPT ![c] = @ - 1]
        /\ todo' = [todo EXCEPT ![w] = {s \in RowsOf[c] : status[s] = "queued"}]
        /\ mode[c] = "bulk_async"
    BY <1>13 DEF StartTask, Owners
  <2>2. CASE c = b
    <3>1. Senders(r)' \subseteq Senders(r) \cup {w}
      BY <2>1 DEF Senders, TypeOK
    <3>2. Allotted(b) = MaxDeliveries - broker[b] /\ Allotted(b)' = MaxDeliveries - (broker[b] - 1)
      BY <2>1, <2>2 DEF Allotted, TypeOK
    <3>3. broker[b] \in Nat /\ MaxDeliveries \in Nat
      BY DEF TypeOK
    <3>4. Allotted(b) + 1 <= Allotted(b)' /\ Allotted(b) <= Allotted(b)'
      BY <3>2, <3>3
    <3> QED
      BY <1>0, <2>1, <3>1, <3>4, CountKept DEF AcceptedAs, Pending
  <2>3. CASE c # b
    <3>1. r \notin RowsOf[c]
      BY <2>3
    <3>2. Senders(r)' \subseteq Senders(r)
      BY <2>1, <3>1 DEF Senders, TypeOK
    <3>3. Allotted(b)' = Allotted(b)
      BY <2>1, <2>3 DEF Allotted, TypeOK
    <3> QED
      BY <1>a, <2>1, <3>2, <3>3 DEF AcceptedAs, Pending
  <2> QED
    BY <2>2, <2>3
\* Jasmin takes the row in: whoever sent it is done with it.
<1>14. ASSUME NEW a \in Agent, NEW i \in MsgId, JasminSend(a, i) PROVE Within(r, Allotted(b))'
  <2>1. PICK s \in call[a] : accepted' = [accepted EXCEPT ![i] = s]
    BY <1>14 DEF JasminSend
  <2>2. /\ answer[a] = "waiting" /\ UNCHANGED <<unsent, mode, broker, todo, call>>
        /\ answer'[a] # "waiting" /\ \A c \in Agent : c # a => answer'[c] = answer[c]
    BY <1>14 DEF JasminSend, Answered, TypeOK
  <2>3. CASE r = s
    <3>1. a \in Senders(r) /\ r \notin todo[a]
      BY <2>1, <2>2, <2>3 DEF Senders, Owners
    <3>2. Senders(r)' \subseteq Senders(r) \ {a}
      BY <2>2, <3>1 DEF Senders
    <3>3. AcceptedAs(r)' \subseteq AcceptedAs(r) \cup {i}
      BY <2>1 DEF AcceptedAs, TypeOK
    <3>4. Pending(r)' \subseteq Pending(r) /\ Allotted(b)' = Allotted(b)
      BY <2>2 DEF Pending, Allotted
    <3> QED
      BY <1>b, <3>1, <3>2, <3>3, <3>4
  <2>4. CASE r # s
    <3>1. Senders(r)' \subseteq Senders(r)
      BY <2>2 DEF Senders
    <3>2. AcceptedAs(r)' \subseteq AcceptedAs(r)
      BY <2>1, <2>4 DEF AcceptedAs, TypeOK
    <3>3. Pending(r)' \subseteq Pending(r) /\ Allotted(b)' = Allotted(b)
      BY <2>2 DEF Pending, Allotted
    <3> QED
      BY <1>a, <3>1, <3>2, <3>3
  <2> QED
    BY <2>3, <2>4
<1>15. ASSUME NEW c \in Batch, NEW k \in BatchId, JasminBatch(c, k)
       PROVE  Within(r, Allotted(b))'
  <2>1. /\ answer[c] = "waiting" /\ UNCHANGED <<accepted, mode, broker, todo, call>>
        /\ answer'[c] # "waiting" /\ \A a \in Agent : a # c => answer'[a] = answer[a]
        /\ unsent' = [unsent EXCEPT ![k] = call[c]]
    BY <1>15 DEF JasminBatch, Answered, TypeOK
  <2>2. AcceptedAs(r)' \subseteq AcceptedAs(r) /\ Allotted(b)' = Allotted(b)
    BY <2>1 DEF AcceptedAs, Allotted
  <2>3. CASE r \in call[c]
    <3>1. c \in Senders(r) /\ r \notin todo[c]
      BY <2>1, <2>3 DEF Senders, Owners
    <3>2. Senders(r)' \subseteq Senders(r) \ {c}
      BY <2>1, <3>1 DEF Senders
    <3>3. Pending(r)' \subseteq Pending(r) \cup {k}
      BY <2>1 DEF Pending, TypeOK
    <3> QED
      BY <1>c, <2>2, <3>1, <3>2, <3>3
  <2>4. CASE r \notin call[c]
    <3>1. Senders(r)' \subseteq Senders(r)
      BY <2>1 DEF Senders
    <3>2. Pending(r)' \subseteq Pending(r)
      BY <2>1, <2>4 DEF Pending, TypeOK
    <3> QED
      BY <1>a, <2>2, <3>1, <3>2
  <2> QED
    BY <2>3, <2>4
<1>16. ASSUME NEW k \in BatchId, NEW s \in Row, JasminItem(k, s) PROVE Within(r, Allotted(b))'
  <2>1. /\ s \in unsent[k] /\ unsent' = [unsent EXCEPT ![k] = @ \ {s}]
        /\ UNCHANGED <<mode, broker, todo, call, answer>>
    BY <1>16 DEF JasminItem
  <2>2. PICK i : accepted' = [accepted EXCEPT ![i] = s] \/ accepted' = accepted
    BY <1>16 DEF JasminItem
  <2>3. Senders(r)' \subseteq Senders(r) /\ Allotted(b)' = Allotted(b)
    BY <2>1 DEF Senders, Allotted
  <2>4. CASE r = s
    <3>1. k \in Pending(r) /\ Pending(r)' \subseteq Pending(r) \ {k}
      BY <2>1, <2>4 DEF Pending, TypeOK
    <3>2. AcceptedAs(r)' \subseteq AcceptedAs(r) \cup {i}
      BY <2>2 DEF AcceptedAs, TypeOK
    <3> QED
      BY <1>d, <2>3, <3>1, <3>2
  <2>5. CASE r # s
    <3>1. Pending(r)' \subseteq Pending(r)
      BY <2>1 DEF Pending, TypeOK
    <3>2. AcceptedAs(r)' \subseteq AcceptedAs(r)
      BY <2>2, <2>5 DEF AcceptedAs, TypeOK
    <3> QED
      BY <1>a, <2>3, <3>1, <3>2
  <2> QED
    BY <2>4, <2>5
<1> QED
  BY <1>3, <1>4, <1>5, <1>6, <1>7, <1>8, <1>9, <1>10, <1>11, <1>12, <1>13, <1>14, <1>15,
     <1>16
     DEF Next, WebThread, AgentStep, JasminStep, ViewStep, vars, SaveSingle, SaveBatch,
         SettleRows, SaveWorker, WorkerRaises, Report, ReadCallback, SaveCallback,
         DropCallback, ReadDlr, SaveDlr, DropDlr, ViewFails

\* A row reaches Jasmin at most once, and at most once per delivery of its task in
\* the bulk_async mode: no timeout, lost answer, crash or race adds a send.
THEOREM SendsAreBounded == Spec => []SendsBounded
<1>1. Init => Counted /\ \A k \in BatchId : unsent[k] \subseteq chunk[k]
  BY CountInit DEF Init
<1>2. OwnInv /\ OwnInv' /\ (Counted /\ \A k \in BatchId : unsent[k] \subseteq chunk[k])
        /\ [Next]_vars
        => (Counted /\ \A k \in BatchId : unsent[k] \subseteq chunk[k])'
  BY CountStep, UnsentStep DEF CountInv, OwnInv, HandsInv
<1>3. OwnInv /\ Counted => SendsBounded
  <2> SUFFICES ASSUME OwnInv, Counted, NEW b \in Batch, NEW r \in RowsOf[b]
      PROVE  Cardinality(AcceptedAs(r)) <=
               IF mode[b] = "bulk_async" THEN MaxDeliveries - broker[b] ELSE 1
    BY DEF SendsBounded
  <2>1. /\ Cardinality(AcceptedAs(r)) \in Nat /\ Cardinality(Senders(r)) \in Nat
        /\ Cardinality(Pending(r)) \in Nat
        /\ Cardinality(AcceptedAs(r)) + Cardinality(Senders(r)) + Cardinality(Pending(r))
             <= Allotted(b)
    BY FS_CardinalityType DEF Counted, Within
  <2>2. Allotted(b) \in Nat
    BY AllottedType DEF OwnInv, HandsInv
  <2>3. Cardinality(AcceptedAs(r)) <= Allotted(b)
    BY <2>1, <2>2
  <2>4. mode[b] = "new" => Allotted(b) = 0
    BY DEF Allotted
  <2>5. mode[b] # "new" =>
          Allotted(b) = IF mode[b] = "bulk_async" THEN MaxDeliveries - broker[b] ELSE 1
    BY DEF Allotted
  <2> QED
    BY <2>1, <2>3, <2>4, <2>5
<1> QED
  BY <1>1, <1>2, <1>3, OwnInvariant, PTL DEF Spec

-----------------------------------------------------------------------------
(* Why a DLR finds its row.                                                 *)

Redelivered(b) == mode[b] = "bulk_async" /\ MaxDeliveries - broker[b] > 1

\* Until its task is delivered a second time, a row of call b has one worker at
\* most, and is as it was created as long as that worker has it.
SoleWorker(b) ==
  \A r \in RowsOf[b] :
    /\ broker[b] = MaxDeliveries => Blank(r)
    /\ \A w \in Worker : r \in todo[w] \cup call[w] =>
         /\ broker[b] # MaxDeliveries /\ Blank(r)
         /\ \A u \in Worker : r \in todo[u] \cup call[u] => u = w

Sole ==
  \A b \in Batch : mode[b] = "bulk_async" /\ ~Redelivered(b) => SoleWorker(b)

\* Where the id of row r is, or why there is none.
Traceable(r) ==
  \/ msgId[r] # NoVal
  \/ \E k \in BatchId : r \in chunk[k]
  \/ \E b \in Batch : r \in RowsOf[b] /\ Redelivered(b)

Traced ==
  /\ \A r \in Row : status[r] \notin {"absent", "queued", "failed"} => Traceable(r)
  /\ \A v \in View : dlrView[v] # NoVal => Traceable(dlrView[v].row)
  /\ \A v \in View : batchView[v] # NoVal => \E k \in BatchId : batchView[v].row \in chunk[k]

\* What Jasmin has, a call that was made gave it.
Sent(r) == \E b \in Batch : r \in RowsOf[b] /\ mode[b] # "new"

Origins ==
  /\ \A i \in MsgId : accepted[i] # NoVal => Sent(accepted[i])
  /\ \A k \in BatchId : \A r \in chunk[k] : Sent(r)
  /\ \A d \in reports : accepted[d.id] # NoVal

LEMMA TracingInit == Init => Sole /\ Traced /\ Origins
BY ValueAssumption DEF Init, Sole, Traced, Origins

\* A call is made once; from then on its task only loses deliveries, and only a
\* delivery gives its rows to a worker.
LEMMA DeliveryStep ==
  ASSUME OwnInv, [Next]_vars, NEW b \in Batch
  PROVE  \/ \E w \in Worker : StartTask(w, b)
         \/ /\ \/ mode[b] = "new" /\ mode'[b] # "new"
               \/ mode'[b] = mode[b] /\ broker'[b] = broker[b]
            /\ \A w \in Worker : \A r \in RowsOf[b] :
                 r \in todo'[w] \cup call'[w] => r \in todo[w] \cup call[w]
<1> DEFINE Done == \/ \E w \in Worker : StartTask(w, b)
                   \/ /\ \/ mode[b] = "new" /\ mode'[b] # "new"
                         \/ mode'[b] = mode[b] /\ broker'[b] = broker[b]
                      /\ \A w \in Worker : \A r \in RowsOf[b] :
                           r \in todo'[w] \cup call'[w] => r \in todo[w] \cup call[w]
<1> SUFFICES Done
  OBVIOUS
<1> USE AgentAssumption DEF Agent, columns, agents, jasmin, views, OwnInv, HandsInv
<1>1. ASSUME NEW c \in Batch, SubmitSingle(c) \/ SubmitRest(c) PROVE Done
  <2>1. PICK m \in {"single", "bulk_rest"} : mode' = [mode EXCEPT ![c] = m]
    BY <1>1 DEF SubmitSingle, SubmitRest
  <2>2. /\ mode[c] = "new" /\ broker' = broker /\ call' = call
        /\ \A w \in Worker : todo'[w] = todo[w]
    BY <1>1 DEF SubmitSingle, SubmitRest, Start, TypeOK
  <2> QED
    BY <2>1, <2>2 DEF TypeOK
<1>2. ASSUME NEW c \in Batch, SubmitAsync(c) PROVE Done
  BY <1>2 DEF SubmitAsync, Start, TypeOK
<1>3. ASSUME NEW w \in Worker, NEW c \in Batch, StartTask(w, c) PROVE Done
  <2>1. CASE c = b
    BY <1>3, <2>1
  <2>2. CASE c # b
    BY <1>3, <2>2 DEF StartTask, TypeOK
  <2> QED
    BY <2>1, <2>2
<1>4. ASSUME UNCHANGED <<mode, broker>>,
             \A w \in Worker : todo'[w] \cup call'[w] \subseteq todo[w] \cup call[w]
      PROVE  Done
  BY <1>4
<1> HIDE DEF Done
<1>5. ASSUME NEW a \in Agent, Freed(a), UNCHANGED <<mode, broker, todo>> PROVE Done
  BY <1>4, <1>5 DEF Freed, TypeOK
<1>6. ASSUME NEW a \in Agent, Crash(a) PROVE Done
  BY <1>4, <1>6 DEF Crash, Freed, TypeOK
<1>7. ASSUME NEW a \in Agent, NEW s \in Row, CallSend(a, s) PROVE Done
  BY <1>4, <1>7 DEF CallSend, IsOldest, TypeOK
<1>8. ASSUME NEW a \in Agent, NEW S \in SUBSET todo[a], CallBatch(a, S) PROVE Done
  BY <1>4, <1>8 DEF CallBatch, TypeOK
<1>9. ASSUME NEW w \in Worker, NEW s \in Row, FailUnsent(w, s) PROVE Done
  BY <1>4, <1>9 DEF FailUnsent, TypeOK
<1>10. ASSUME NEW c \in Batch, NotConfigured(c) PROVE Done
  BY <1>4, <1>10 DEF NotConfigured, TypeOK
<1>11. CASE UNCHANGED <<mode, broker, todo, call>>
  BY <1>4, <1>11
<1> QED
  BY <1>1, <1>2, <1>3, <1>5, <1>6, <1>7, <1>8, <1>9, <1>10, <1>11
     DEF Next, WebThread, AgentStep, JasminStep, ViewStep, vars, SaveSingle, SaveBatch,
         SettleRows, SaveWorker, WorkerRaises, JasminSend, JasminRefuse, JasminBatch,
         JasminItem, Report, ReadCallback, SaveCallback, DropCallback, ReadDlr, SaveDlr,
         DropDlr, ViewFails

\* A web thread has no row of a call that went to Celery.
LEMMA NotTheThreads ==
  ASSUME OwnInv, NEW b \in Batch, mode[b] = "bulk_async", NEW r \in RowsOf[b],
         NEW a \in Batch
  PROVE  r \notin todo[a] \cup call[a]
<1> USE AgentAssumption DEF Agent, OwnInv, HandsInv
<1>1. CASE a = b
  BY <1>1 DEF Answers, Owners
<1>2. CASE a # b
  BY <1>2 DEF Holdings
<1> QED
  BY <1>1, <1>2

\* A save for a row takes it out of its worker's hands.
LEMMA HeldIsKept ==
  ASSUME OwnInv, [Next]_vars, NEW b \in Batch, mode[b] = "bulk_async",
         NEW r \in RowsOf[b], r \in Row, Blank(r), NEW w \in Worker,
         \A u \in Worker : r \in todo[u] \cup call[u] => u = w,
         r \in todo[w] \cup call[w], r \in todo'[w] \cup call'[w]
  PROVE  Kept(r)
<1> USE AgentAssumption DEF Agent, columns, agents, jasmin, views, OwnInv, HandsInv
<1>1. ASSUME NEW c \in Batch, SubmitSingle(c) \/ SubmitRest(c) \/ SubmitAsync(c)
      PROVE  Kept(r)
  <2>1. Start(c) /\ UNCHANGED <<msgId, batchId, dlrStatus, deliveredAt>>
    BY <1>1 DEF SubmitSingle, SubmitRest, SubmitAsync
  <2>2. r \notin RowsOf[c]
    BY <2>1 DEF Start
  <2> QED
    BY <2>1, <2>2 DEF Start, Kept
<1>2. ASSUME NEW c \in Batch, SaveSingle(c) PROVE Kept(r)
  <2>1. r \notin call[c]
    BY NotTheThreads
  <2>2. PICK s \in call[c] :
          /\ status' = [status EXCEPT ![s] = Outcome(c)]
          /\ msgId' = [msgId EXCEPT ![s] = ref[c]]
          /\ batchId' = [batchId EXCEPT ![s] = NoVal]
          /\ dlrStatus' = [dlrStatus EXCEPT ![s] = NoVal]
          /\ deliveredAt' = [deliveredAt EXCEPT ![s] = FALSE]
    BY <1>2 DEF SaveSingle
  <2>3. r # s
    BY <2>1
  <2> QED
    BY <2>2, <2>3 DEF Kept, TypeOK
<1>3. ASSUME NEW c \in Batch, SaveBatch(c) PROVE Kept(r)
  <2>1. r \notin call[c]
    BY NotTheThreads
  <2> QED
    BY <1>3, <2>1 DEF SaveBatch, SettleRows, Kept, TypeOK
<1>4. ASSUME NEW u \in Worker, SaveWorker(u) \/ WorkerRaises(u) PROVE Kept(r)
  <2>1. r \notin call[u]
    <3>1. todo' = todo /\ call'[u] = {}
      BY <1>4 DEF SaveWorker, WorkerRaises, Freed, TypeOK
    <3>2. todo[u] \cap call[u] = {}
      BY DEF Owners
    <3> QED
      BY <3>1, <3>2
  <2> QED
    BY <1>4, <2>1 DEF SaveWorker, WorkerRaises, Kept, TypeOK
<1>5. ASSUME NEW u \in Worker, NEW s \in Row, FailUnsent(u, s) PROVE Kept(r)
  <2>1. r # s
    <3>1. s \in todo[u] /\ call' = call /\ todo'[u] = todo[u] \ {s}
      BY <1>5 DEF FailUnsent, IsOldest, TypeOK
    <3>2. todo[u] \cap call[u] = {}
      BY DEF Owners
    <3> QED
      BY <3>1, <3>2
  <2> QED
    BY <1>5, <2>1 DEF FailUnsent, Kept, TypeOK
<1>6. ASSUME NEW v \in View, SaveCallback(v) PROVE Kept(r)
  <2>1. batchView[v].row # r /\ batchView[v].row \in Row
    BY <1>6 DEF SaveCallback, Blank, Viewed, TypeOK, BatchViews
  <2> QED
    BY <1>6, <2>1 DEF SaveCallback, Kept, TypeOK
<1>7. ASSUME NEW v \in View, SaveDlr(v) PROVE Kept(r)
  <2>1. dlrView[v].row # r /\ dlrView[v].row \in Row
    BY <1>7 DEF SaveDlr, Blank, Viewed, TypeOK, DlrViews
  <2> QED
    BY <1>7, <2>1 DEF SaveDlr, Kept, TypeOK
<1>8. CASE UNCHANGED columns
  BY <1>8 DEF Kept
<1> QED
  BY <1>1, <1>2, <1>3, <1>4, <1>5, <1>6, <1>7, <1>8
     DEF Next, WebThread, AgentStep, JasminStep, ViewStep, vars, NotConfigured,
         StartTask, CallSend, CallBatch, Crash, JasminSend, JasminRefuse,
         JasminBatch, JasminItem, Report, ReadCallback, DropCallback, ReadDlr,
         DropDlr, ViewFails

\* No view finds a row without an id.
LEMMA BlankStays ==
  ASSUME HandsInv, [Next]_vars, NEW r \in Row, Blank(r),
         Kept(r) \/ \E b \in Batch : CreatedBy(b, r)
  PROVE  Blank(r)'
<1> USE ValueAssumption
<1>1. /\ msgId'[r] = NoVal /\ batchId'[r] = NoVal
      /\ dlrStatus'[r] = NoVal /\ ~deliveredAt'[r]
  BY DEF Blank, Kept, CreatedBy
<1>2. ASSUME NEW v \in View, dlrView'[v] # NoVal PROVE dlrView'[v].row # r
  <2>1. CASE dlrView'[v] = dlrView[v]
    BY <1>2, <2>1 DEF Blank, Viewed
  <2>2. ASSUME NEW d \in reports, NEW s \in Row, msgId[s] = d.id,
               dlrView'[v] = [report |-> d, row |-> s, status |-> status[s],
                              deliveredAt |-> deliveredAt[s]]
        PROVE  dlrView'[v].row # r
    <3>1. d.id # NoVal
      BY DEF HandsInv, TypeOK, Reports
    <3>2. s # r
      BY <2>2, <3>1 DEF Blank
    <3> QED
      BY <2>2, <3>2
  <2> QED
    BY <1>2, <2>1, <2>2, ViewReads
<1>3. ASSUME NEW v \in View, batchView'[v] # NoVal PROVE batchView'[v].row # r
  BY <1>3, ViewReads DEF Blank, Viewed
<1> QED
  BY <1>1, <1>2, <1>3 DEF Blank, Viewed

LEMMA SoleStep == OwnInv /\ TypeOK' /\ Sole /\ [Next]_vars => Sole'
<1> SUFFICES ASSUME OwnInv, TypeOK', Sole, [Next]_vars, NEW b \in Batch,
                    mode'[b] = "bulk_async", ~Redelivered(b)', NEW r \in RowsOf[b]
    PROVE  /\ broker'[b] = MaxDeliveries => Blank(r)'
           /\ \A w \in Worker : r \in todo'[w] \cup call'[w] =>
                /\ broker'[b] # MaxDeliveries /\ Blank(r)'
                /\ \A u \in Worker : r \in todo'[u] \cup call'[u] => u = w
  BY DEF Sole, SoleWorker
<1> USE AgentAssumption, ValueAssumption DEF OwnInv, HandsInv, Agent
<1>0. /\ r \in Row /\ MaxDeliveries \in Nat
      /\ broker[b] \in 0..MaxDeliveries /\ broker'[b] \in 0..MaxDeliveries
  BY DEF TypeOK
\* The task's first delivery, to a worker that finds the row as it was created.
<1>1. ASSUME NEW v \in Worker, StartTask(v, b)
      PROVE  \A w \in Worker : r \in todo'[w] \cup call'[w] =>
               /\ broker'[b] # MaxDeliveries /\ Blank(r)'
               /\ \A u \in Worker : r \in todo'[u] \cup call'[u] => u = w
  <2>1. /\ broker[b] > 0 /\ broker'[b] = broker[b] - 1 /\ mode' = mode /\ call' = call
        /\ \A u \in Worker : u # v => todo'[u] = todo[u]
        /\ UNCHANGED <<columns, views>> /\ answer[v] = "none"
    BY <1>1 DEF StartTask, TypeOK
  <2>2. broker[b] = MaxDeliveries /\ ~Redelivered(b) /\ mode[b] = "bulk_async"
    BY <1>0, <2>1 DEF Redelivered
  <2>3. Blank(r) /\ \A u \in Worker : r \notin todo[u] \cup call[u]
    BY <2>2 DEF Sole, SoleWorker
  <2>4. Blank(r)'
    BY <2>1, <2>3 DEF Blank, Viewed, columns, views
  <2>5. broker'[b] # MaxDeliveries
    BY <1>0, <2>1
  <2> QED
    BY <2>1, <2>3, <2>4, <2>5
<1>2. ASSUME NEW v \in Worker, StartTask(v, b) PROVE broker'[b] # MaxDeliveries
  <2>1. broker[b] > 0 /\ broker'[b] = broker[b] - 1
    BY <1>2 DEF StartTask, TypeOK
  <2> QED
    BY <1>0, <2>1
\* The call is made, and no worker has heard of it.
<1>3. ASSUME mode[b] = "new", mode'[b] # "new",
             \A w \in Worker : r \in todo'[w] \cup call'[w] => r \in todo[w] \cup call[w]
      PROVE  Blank(r)' /\ \A w \in Worker : r \notin todo'[w] \cup call'[w]
  <2>1. Blank(r) /\ status[r] = "absent"
    BY <1>3 DEF Fresh, Own
  <2>2. \A a \in Agent : r \notin todo[a] \cup call[a]
    <3>1. ASSUME NEW a \in Batch PROVE r \notin todo[a] \cup call[a]
      <4>1. CASE a = b
        BY <1>3, <4>1 DEF Answers, Owners
      <4>2. CASE a # b
        BY <4>2 DEF Holdings
      <4> QED
        BY <4>1, <4>2
    <3>2. ASSUME NEW w \in Worker PROVE r \notin todo[w] \cup call[w]
      BY <1>3 DEF Owners
    <3> QED
      BY <3>1, <3>2
  <2>3. Kept(r) \/ \E c \in Batch : CreatedBy(c, r)
    BY <1>0, <2>1, <2>2, RowStep DEF SavedBy, CalledBack, ReceiptedBy, Blank, Viewed
  <2> QED
    BY <1>0, <1>3, <2>1, <2>2, <2>3, BlankStays
<1>4. ASSUME mode'[b] = mode[b], broker'[b] = broker[b],
             \A w \in Worker : r \in todo'[w] \cup call'[w] => r \in todo[w] \cup call[w]
      PROVE  /\ broker'[b] = MaxDeliveries => Blank(r)'
             /\ \A w \in Worker : r \in todo'[w] \cup call'[w] =>
                  /\ broker'[b] # MaxDeliveries /\ Blank(r)'
                  /\ \A u \in Worker : r \in todo'[u] \cup call'[u] => u = w
  <2>1. mode[b] = "bulk_async" /\ ~Redelivered(b)
    BY <1>4 DEF Redelivered
  <2>2. /\ broker[b] = MaxDeliveries => Blank(r)
        /\ \A w \in Worker : r \in todo[w] \cup call[w] =>
             /\ broker[b] # MaxDeliveries /\ Blank(r)
             /\ \A u \in Worker : r \in todo[u] \cup call[u] => u = w
    BY <2>1 DEF Sole, SoleWorker
  <2>3. ASSUME broker[b] = MaxDeliveries PROVE Blank(r)'
    <3>1. \A a \in Agent : r \notin todo[a] \cup call[a]
      BY <2>1, <2>2, <2>3, NotTheThreads
    <3>2. Blank(r)
      BY <2>2, <2>3
    <3>3. \A a \in Agent : ~SavedBy(a, r)
      BY <3>1 DEF SavedBy
    <3>4. \A v \in View : ~CalledBack(v, r) /\ ~ReceiptedBy(v, r)
      BY <3>2 DEF CalledBack, ReceiptedBy, Blank, Viewed
    <3>5. Kept(r) \/ \E c \in Batch : CreatedBy(c, r)
      BY <1>0, <3>3, <3>4, RowStep
    <3> QED
      BY <1>0, <3>2, <3>5, BlankStays
  <2>4. ASSUME NEW w \in Worker, r \in todo'[w] \cup call'[w] PROVE Blank(r)'
    <3>1. Kept(r)
      BY <1>0, <1>4, <2>1, <2>2, <2>4, HeldIsKept
    <3> QED
      BY <1>0, <1>4, <2>2, <2>4, <3>1, BlankStays
  <2> QED
    BY <1>4, <2>2, <2>3, <2>4
<1> QED
  BY <1>1, <1>2, <1>3, <1>4, DeliveryStep

\* A batch delivered a second time stays so.
LEMMA RedeliveredStays ==
  ASSUME OwnInv, TypeOK', [Next]_vars, NEW b \in Batch, Redelivered(b)
  PROVE  Redelivered(b)'
<1>0. broker[b] \in 0..MaxDeliveries /\ broker'[b] \in 0..MaxDeliveries /\ MaxDeliveries \in Nat
  BY ValueAssumption DEF OwnInv, HandsInv, TypeOK
<1>1. ASSUME NEW w \in Worker, StartTask(w, b) PROVE Redelivered(b)'
  <2>1. broker'[b] = broker[b] - 1 /\ mode' = mode
    BY <1>1 DEF StartTask, OwnInv, HandsInv, TypeOK
  <2> QED
    BY <1>0, <2>1 DEF Redelivered
<1>2. CASE mode'[b] = mode[b] /\ broker'[b] = broker[b]
  BY <1>2 DEF Redelivered
<1> QED
  BY <1>1, <1>2, DeliveryStep DEF Redelivered

\* Only a row sent twice loses its id, unless it has a batch id to find it by.
LEMMA TraceableStays ==
  ASSUME OwnInv, TypeOK', Sole, Traced, CorrelationInv, [Next]_vars, NEW r \in Row,
         Traceable(r)
  PROVE  Traceable(r)'
<1> USE AgentAssumption, ValueAssumption DEF OwnInv, HandsInv, Agent
<1>1. CASE \E k \in BatchId : r \in chunk[k]
  BY <1>1, IdsStay DEF Traceable
<1>2. CASE \E b \in Batch : r \in RowsOf[b] /\ Redelivered(b)
  BY <1>2, RedeliveredStays DEF Traceable
<1>3. CASE msgId[r] # NoVal
  <2>1. CASE msgId'[r] = msgId[r]
    BY <1>3, <2>1 DEF Traceable
  <2>2. ASSUME NEW a \in Agent, SavedBy(a, r) PROVE Traceable(r)'
    <3>1. CASE a \in Batch
      <4>1. r \in Own(a)
        BY <2>2, <3>1 DEF SavedBy, Own, Answers, Owners
      <4> QED
        BY <1>3, <3>1, <4>1 DEF Fresh, Blank
    <3>2. CASE a \in Worker
      <4>1. PICK b \in Batch : r \in RowsOf[b] /\ mode[b] = "bulk_async"
        BY <2>2, <3>2 DEF SavedBy, Owners
      <4>2. Redelivered(b)
        BY <1>3, <2>2, <3>2, <4>1 DEF Sole, SoleWorker, SavedBy, Blank
      <4> QED
        BY <4>1, <4>2, RedeliveredStays DEF Traceable
    <3> QED
      BY <3>1, <3>2
  <2>3. ASSUME NEW v \in View, CalledBack(v, r) PROVE Traceable(r)'
    BY <1>1, <2>3 DEF CalledBack, Traced
  <2> QED
    BY <2>1, <2>2, <2>3, RowStep DEF Kept, CreatedBy, ReceiptedBy
<1> QED
  BY <1>1, <1>2, <1>3 DEF Traceable

LEMMA TracedStep ==
  OwnInv /\ TypeOK' /\ Sole /\ Traced /\ CorrelationInv /\ [Next]_vars => Traced'
<1> SUFFICES ASSUME OwnInv, TypeOK', Sole, Traced, CorrelationInv, [Next]_vars
    PROVE  Traced'
  OBVIOUS
<1> USE AgentAssumption, ValueAssumption DEF OwnInv, HandsInv, Agent
<1>1. ASSUME NEW r \in Row, status'[r] \notin {"absent", "queued", "failed"}
      PROVE  Traceable(r)'
  <2>1. CASE Kept(r)
    BY <1>1, <2>1, TraceableStays DEF Kept, Traced
  <2>2. ASSUME NEW b \in Batch, CreatedBy(b, r) PROVE FALSE
    BY <1>1, <2>2 DEF CreatedBy
  <2>3. ASSUME NEW a \in Agent, SavedBy(a, r) PROVE Traceable(r)'
    <3>1. answer[a] = "ok" /\ r \in call[a] /\ (Sender(a) => msgId'[r] = ref[a])
      BY <1>1, <2>3 DEF SavedBy
    <3>2. CASE Sender(a)
      <4>1. ref[a] \in MsgId
        BY <3>1, <3>2 DEF Answers, Sender, RestThread
      <4> QED
        BY <3>1, <3>2, <4>1 DEF Traceable
    <3>3. CASE RestThread(a)
      <4>1. ref[a] \in BatchId /\ r \in chunk[ref[a]]
        BY <3>1, <3>3 DEF Answers, OkAnswers
      <4>2. Traceable(r)
        BY <4>1 DEF Traceable
      <4> QED
        BY <4>2, TraceableStays
    <3>4. Sender(a) \/ RestThread(a)
      BY <3>1 DEF Answers, TypeOK, Sender, RestThread
    <3> QED
      BY <3>2, <3>3, <3>4
  <2>4. ASSUME NEW v \in View, CalledBack(v, r) \/ ReceiptedBy(v, r) PROVE Traceable(r)'
    <3>1. Traceable(r)
      BY <2>4 DEF CalledBack, ReceiptedBy, Traced, Traceable
    <3> QED
      BY <3>1, TraceableStays
  <2> QED
    BY <2>1, <2>2, <2>3, <2>4, RowStep
<1>2. ASSUME NEW v \in View, NEW r \in Row, dlrView'[v] # NoVal, dlrView'[v].row = r
      PROVE  Traceable(r)'
  <2>1. CASE dlrView'[v] = dlrView[v]
    BY <1>2, <2>1, TraceableStays DEF Traced
  <2>2. ASSUME NEW d \in reports, NEW s \in Row, msgId[s] = d.id,
               dlrView'[v] = [report |-> d, row |-> s, status |-> status[s],
                              deliveredAt |-> deliveredAt[s]]
        PROVE  Traceable(r)'
    <3>1. d.id # NoVal
      BY DEF TypeOK, Reports
    <3>2. Traceable(s)
      BY <2>2, <3>1 DEF Traceable
    <3>3. r = s
      BY <1>2, <2>2
    <3> QED
      BY <3>2, <3>3, TraceableStays
  <2> QED
    BY <1>2, <2>1, <2>2, ViewReads
<1>3. ASSUME NEW v \in View, batchView'[v] # NoVal
      PROVE  \E k \in BatchId : batchView'[v].row \in chunk'[k]
  <2>1. PICK k \in BatchId : batchView'[v].row \in chunk[k]
    <3>1. CASE batchView'[v] = batchView[v]
      BY <1>3, <3>1 DEF Traced
    <3>2. CASE batchView'[v].row \in Row /\ batchId[batchView'[v].row] # NoVal
      <4>1. batchId[batchView'[v].row] \in BatchId
        BY <3>2 DEF TypeOK
      <4>2. batchView'[v].row \in chunk[batchId[batchView'[v].row]]
        BY <3>2 DEF CorrelationInv, Chunks
      <4> QED
        BY <4>1, <4>2
    <3> QED
      BY <1>3, <3>1, <3>2, ViewReads
  <2> QED
    BY <2>1, IdsStay
<1>4. \A v \in View : (dlrView[v] # NoVal => Traceable(dlrView[v].row))'
  <2>1. \A v \in View : dlrView'[v] # NoVal => dlrView'[v].row \in Row
    BY DEF TypeOK, DlrViews
  <2> QED
    BY <1>2, <2>1
<1> QED
  BY <1>1, <1>3, <1>4 DEF Traced

\* A call that was made stays so, and an agent has rows of such calls only.
LEMMA SentStays ==
  ASSUME OwnInv, [Next]_vars, NEW r \in Row, Sent(r) PROVE Sent(r)'
<1>1. PICK b \in Batch : r \in RowsOf[b] /\ mode[b] # "new"
  BY DEF Sent
<1>2. CASE \E w \in Worker : StartTask(w, b)
  BY <1>1, <1>2 DEF StartTask, Sent
<1> QED
  BY <1>1, <1>2, DeliveryStep DEF Sent

LEMMA HandsSent ==
  ASSUME OwnInv, NEW a \in Agent, NEW r \in todo[a] \cup call[a] PROVE r \in Row /\ Sent(r)
<1> USE AgentAssumption DEF OwnInv, HandsInv, Agent
<1>1. CASE a \in Batch
  BY <1>1 DEF Answers, Owners, Holdings, Sent
<1>2. CASE a \in Worker
  BY <1>2 DEF Owners, Sent
<1> QED
  BY <1>1, <1>2

LEMMA OriginsStep ==
  OwnInv /\ CorrelationInv /\ Origins /\ [Next]_vars => Origins'
<1> SUFFICES ASSUME OwnInv, CorrelationInv, Origins, [Next]_vars PROVE Origins'
  OBVIOUS
<1> USE AgentAssumption, ValueAssumption
    DEF Agent, OwnInv, HandsInv, columns, agents, jasmin, views
<1>0. ASSUME NEW r \in Row, Sent(r) PROVE Sent(r)'
  BY <1>0, SentStays
<1>1. ASSUME NEW a \in Agent, NEW i \in MsgId, JasminSend(a, i) PROVE Origins'
  <2>1. PICK s \in call[a] : accepted' = [accepted EXCEPT ![i] = s]
    BY <1>1 DEF JasminSend
  <2>2. s \in Row /\ Sent(s)
    BY HandsSent
  <2>3. UNCHANGED <<chunk, reports, mode>>
    BY <1>1 DEF JasminSend
  <2> QED
    BY <2>1, <2>2, <2>3 DEF Origins, Sent, TypeOK, Reports
<1>2. ASSUME NEW b \in Batch, NEW k \in BatchId, JasminBatch(b, k) PROVE Origins'
  <2>1. \A r \in call[b] : Sent(r)
    BY HandsSent
  <2>2. chunk' = [chunk EXCEPT ![k] = call[b]] /\ UNCHANGED <<accepted, reports, mode>>
    BY <1>2 DEF JasminBatch
  <2> QED
    BY <2>1, <2>2 DEF Origins, Sent, TypeOK
<1>3. ASSUME NEW k \in BatchId, NEW r \in Row, JasminItem(k, r) PROVE Origins'
  <2>1. PICK i \in MsgId \cup {NoVal} :
          (i \in MsgId /\ accepted' = [accepted EXCEPT ![i] = r]) \/ accepted' = accepted
    BY <1>3 DEF JasminItem
  <2>2. Sent(r)
    BY <1>3 DEF JasminItem, CorrelationInv, Chunks, Origins
  <2>3. UNCHANGED <<chunk, reports, mode>>
    BY <1>3 DEF JasminItem
  <2>4. \A j \in MsgId : accepted'[j] \in {accepted[j], r}
    BY <2>1 DEF TypeOK
  <2>5. \A j \in MsgId : accepted[j] # NoVal => accepted'[j] # NoVal
    BY <2>1 DEF TypeOK
  <2>6. \A s : Sent(s)' = Sent(s)
    BY <2>3 DEF Sent
  <2>7. \A j \in MsgId : accepted'[j] # NoVal => Sent(accepted'[j])
    BY <2>2, <2>4 DEF Origins
  <2>8. \A d \in reports : d.id \in MsgId
    BY DEF TypeOK, Reports
  <2>9. \A j \in MsgId : (accepted[j] # NoVal => Sent(accepted[j]))'
    BY <2>3, <2>7 DEF Sent
  <2> QED
    BY <2>3, <2>5, <2>6, <2>8, <2>9 DEF Origins
<1>4. ASSUME NEW i \in MsgId, NEW s \in Stats, Report(i, s) PROVE Origins'
  BY <1>4 DEF Report, Origins, Sent
<1>5. CASE UNCHANGED <<accepted, chunk, reports>>
  <2>1. \A i \in MsgId : accepted[i] # NoVal => Sent(accepted[i])'
    BY <1>0, <1>5 DEF Origins, TypeOK
  <2>2. \A k \in BatchId : \A r \in chunk[k] : Sent(r)'
    BY <1>0, <1>5 DEF Origins, TypeOK
  <2> QED
    BY <1>5, <2>1, <2>2 DEF Origins, Sent
<1> QED
  BY <1>1, <1>2, <1>3, <1>4, <1>5
     DEF Next, WebThread, AgentStep, JasminStep, ViewStep, vars,
         SubmitSingle, NotConfigured, SubmitRest, SubmitAsync, StartTask,
         CallSend, CallBatch, FailUnsent, Crash, SaveSingle, SaveBatch, SettleRows,
         SaveWorker, WorkerRaises, JasminRefuse, ReadCallback, SaveCallback,
         DropCallback, ReadDlr, SaveDlr, DropDlr, ViewFails

\* Two ids on one row come of two deliveries of its task.
LEMMA TwoIdsRedelivered ==
  ASSUME OwnInv, Counted, NEW b \in Batch, NEW r \in RowsOf[b],
         NEW i \in AcceptedAs(r), NEW j \in AcceptedAs(r), i # j
  PROVE  Redelivered(b)
<1>1. /\ IsFiniteSet(AcceptedAs(r)) /\ IsFiniteSet(Senders(r)) /\ IsFiniteSet(Pending(r))
      /\ Cardinality(AcceptedAs(r)) + Cardinality(Senders(r)) + Cardinality(Pending(r))
           <= Allotted(b)
  BY DEF Counted, Within
<1>2. IsFiniteSet(AcceptedAs(r) \ {i}) /\ j \in AcceptedAs(r) \ {i}
      /\ Cardinality(AcceptedAs(r) \ {i}) = Cardinality(AcceptedAs(r)) - 1
  BY <1>1, FS_RemoveElement
<1>3. Cardinality((AcceptedAs(r) \ {i}) \ {j}) = Cardinality(AcceptedAs(r) \ {i}) - 1
      /\ IsFiniteSet((AcceptedAs(r) \ {i}) \ {j})
  BY <1>2, FS_RemoveElement
<1>4. /\ Cardinality((AcceptedAs(r) \ {i}) \ {j}) \in Nat /\ Cardinality(AcceptedAs(r)) \in Nat
      /\ Cardinality(Senders(r)) \in Nat /\ Cardinality(Pending(r)) \in Nat
  BY <1>1, <1>3, FS_CardinalityType
<1>5. Allotted(b) \in Nat
  BY AllottedType DEF OwnInv, HandsInv
<1>6. Allotted(b) > 1
  BY <1>1, <1>2, <1>3, <1>4, <1>5
<1> QED
  BY <1>6 DEF Allotted, Redelivered

TraceInv == PromiseInv /\ Counted /\ Sole /\ Traced /\ Origins

\* A DLR that found no row came for one that is not shown as sent, was sent again,
\* or whose id is still to come with a batch callback.
LEMMA DroppedDlr ==
  ASSUME TraceInv, NEW d \in reports, ReportRows(d) = {}, NEW r, r = accepted[d.id]
  PROVE  \/ status[r] \in {"queued", "failed"}
         \/ \E b \in Batch : /\ r \in RowsOf[b] /\ mode[b] = "bulk_async"
                             /\ MaxDeliveries - broker[b] > 1
         \/ msgId[r] = NoVal /\ \E k \in BatchId : r \in chunk[k]
<1> USE ValueAssumption DEF TraceInv, PromiseInv, ReceiptInv, OwnInv, HandsInv
<1>1. d.id \in MsgId /\ r \in Row /\ Sent(r)
  BY DEF TypeOK, Reports, Origins
<1>2. PICK b \in Batch : r \in RowsOf[b] /\ mode[b] # "new"
  BY <1>1 DEF Sent
<1>3. msgId[r] # d.id
  BY <1>1 DEF ReportRows
<1>4. CASE msgId[r] # NoVal
  <2>1. msgId[r] \in MsgId /\ accepted[msgId[r]] = r
    BY <1>1, <1>4 DEF CorrelationInv, Correlated, TypeOK
  <2>2. msgId[r] \in AcceptedAs(r) /\ d.id \in AcceptedAs(r)
    BY <1>1, <2>1 DEF AcceptedAs
  <2>3. Redelivered(b)
    BY <1>2, <1>3, <2>2, TwoIdsRedelivered
  <2> QED
    BY <1>2, <2>3 DEF Redelivered
<1>5. CASE msgId[r] = NoVal
  <2>1. status[r] # "absent"
    BY <1>2 DEF Exists
  <2>2. CASE status[r] \notin {"queued", "failed"}
    BY <1>1, <1>5, <2>1, <2>2 DEF Traced, Traceable, Redelivered
  <2> QED
    BY <2>2
<1> QED
  BY <1>4, <1>5

LEMMA OnlyDropsLose ==
  ASSUME [Next]_vars, NEW d \in lost' \ lost PROVE d \in reports /\ ReportRows(d) = {}
<1> USE DEF columns, agents, jasmin, views
<1>1. ASSUME NEW e \in reports, DropDlr(e) PROVE d = e /\ ReportRows(e) = {}
  BY <1>1 DEF DropDlr
<1>2. CASE lost' = lost
  BY <1>2
<1> QED
  BY <1>1, <1>2
     DEF Next, WebThread, AgentStep, JasminStep, ViewStep, vars,
         SubmitSingle, NotConfigured, SubmitRest, SubmitAsync, StartTask,
         CallSend, CallBatch, FailUnsent, Crash, SaveSingle, SaveBatch, SettleRows,
         SaveWorker, WorkerRaises, JasminSend, JasminRefuse, JasminBatch, JasminItem,
         Report, ReadCallback, SaveCallback, DropCallback, ReadDlr, SaveDlr, ViewFails

\* A DLR of a message finds its row, but for the exceptions ReportFindsRow names,
\* in whatever order sends, saves, callbacks and DLRs come.
THEOREM DlrsFindTheirRows ==
  ASSUME DistinctDestinations PROVE Spec => ReportFindsRow
<1>1. TraceInv /\ [Next]_vars =>
        [\A d \in lost' \ lost : \A r \in {accepted[d.id]} :
           \/ status[r] \in {"queued", "failed"}
           \/ \E b \in Batch : /\ r \in RowsOf[b] /\ mode[b] = "bulk_async"
                              /\ MaxDeliveries - broker[b] > 1
           \/ msgId[r] = NoVal /\ \E k \in BatchId : r \in chunk[k]]_vars
  BY OnlyDropsLose, DroppedDlr
<1>2. Spec => []TraceInv
  <2>1. Init => Counted /\ Sole /\ Traced /\ Origins
    BY CountInit, TracingInit
  <2>2. PromiseInv /\ PromiseInv' /\ Counted /\ Sole /\ Traced /\ Origins /\ [Next]_vars
          => (Counted /\ Sole /\ Traced /\ Origins)'
    <3>1. PromiseInv => OwnInv /\ CorrelationInv /\ TypeOK
          /\ \A k \in BatchId : unsent[k] \subseteq chunk[k]
      BY DEF PromiseInv, ReceiptInv, OwnInv, HandsInv, CorrelationInv, Chunks
    <3>2. PromiseInv' => TypeOK'
      BY DEF PromiseInv, ReceiptInv, OwnInv, HandsInv
    <3> QED
      BY <3>1, <3>2, CountStep, SoleStep, TracedStep, OriginsStep DEF CountInv
  <2> QED
    BY <2>1, <2>2, PromiseInvariant, PTL DEF Spec, TraceInv
<1> QED
  BY <1>1, <1>2, PTL DEF Spec, ReportFindsRow

=============================================================================
