------------------------------ MODULE Outbound ------------------------------
(***************************************************************************)
(* The outbound message path of Joyce: rows of OutboundMessage, the web    *)
(* threads and Celery workers that hand them to Jasmin, and the two        *)
(* callbacks by which Jasmin reports back.  Sources: messaging/services.py *)
(* (submit_send and what it calls), messaging/tasks.py (the bulk worker),  *)
(* messaging/models.py (status_from_dlr, apply_dlr) and                    *)
(* messaging/views/views.py (the callback views).                          *)
(*                                                                         *)
(* Every database query is one step and every HTTP call is split in three: *)
(* the request leaves, Jasmin acts on it, the caller uses the answer.      *)
(* Django runs in autocommit (no ATOMIC_REQUESTS) and the code takes no    *)
(* row lock, so nothing wider than one query is atomic: a callback view    *)
(* that reads a row and then saves it takes two steps.                     *)
(***************************************************************************)
EXTENDS Integers, FiniteSets

CONSTANTS
  Row,            \* primary keys of OutboundMessage, in order of creation
  Batch,          \* calls of submit_send; each is served by one web thread
  RowsOf,         \* RowsOf[b]: the rows call b creates, one per SendItem
  To,             \* To[r]: the destination number of row r
  Worker,         \* Celery worker processes
  View,           \* web threads that serve Jasmin's callbacks
  MsgId,          \* ids Jasmin gives messages, numbered in order of issue
  BatchId,        \* ids Jasmin gives sendbatch requests, numbered likewise
  Stats,          \* the DLR status strings Jasmin sends
  RestChoices,    \* the values connection.has_rest_api may take
  ExternalUrl,    \* whether the workspace has an external DLR URL
  MaxDeliveries,  \* bound: how often the broker hands out one bulk task
  MaxCalls,       \* bound: how many of the calls in Batch are made
  NoVal           \* a blank column, or no value

Agent == Batch \cup Worker

ASSUME AgentAssumption ==
  /\ Batch \cap Worker = {}
  /\ RowsOf \in [Batch -> SUBSET Row]
  /\ \A b \in Batch : RowsOf[b] # {} /\ IsFiniteSet(RowsOf[b])
  /\ \A b, c \in Batch : b # c => RowsOf[b] \cap RowsOf[c] = {}

ASSUME ValueAssumption ==
  /\ Row \subseteq Nat /\ MsgId \subseteq Nat /\ BatchId \subseteq Nat
  /\ NoVal \notin Row /\ NoVal \notin MsgId /\ NoVal \notin BatchId
  /\ NoVal \notin Stats
  /\ RestChoices \subseteq BOOLEAN /\ ExternalUrl \in BOOLEAN
  /\ MaxDeliveries \in Nat \ {0} /\ MaxCalls \in Nat

Status == {"queued", "submitted", "acked", "delivered", "failed",
           "expired", "rejected", "unknown"}

\* One representative for each group of synonyms in the code's mapping.
DlrMapping ==
  [DELIVRD |-> "delivered", ESME_ROK |-> "acked", ENROUTE |-> "submitted",
   UNDELIV |-> "failed", REJECTD |-> "rejected", EXPIRED |-> "expired"]

StatusFromDlr(s) ==
  IF s \in DOMAIN DlrMapping THEN DlrMapping[s] ELSE "unknown"

VARIABLES
  status,       \* status[r]: the column, or "absent" before the row exists
  msgId,        \* msgId[r]: column jasmin_msg_id
  batchId,      \* batchId[r]: column jasmin_batch_id
  dlrStatus,    \* dlrStatus[r]: column dlr_status
  deliveredAt,  \* deliveredAt[r]: whether column delivered_at is set
  mode,         \* mode[b]: SubmitResult.mode of call b, "new" before it
  todo,         \* todo[a]: the rows agent a has still to hand to Jasmin
  call,         \* call[a]: the rows of agent a's HTTP call, {} between calls
  answer,       \* answer[a]: what agent a knows of that call
  ref,          \* ref[a]: the id inside a successful answer
  broker,       \* broker[b]: deliveries left of process_bulk_http_send(b)
  forwards,     \* the rows an external DLR forward was enqueued for
  accepted,     \* accepted[i]: the row Jasmin accepted under message id i
  chunk,        \* chunk[k]: the rows of the sendbatch request k
  unsent,       \* unsent[k]: those of them Jasmin has not submitted yet
  reports,      \* every DLR Jasmin has sent so far
  lost,         \* those of them Joyce acknowledged and found no row for
  callbacks,    \* batch callbacks on their way to Joyce
  dlrView,      \* dlrView[v]: the DLR thread v serves, with what it read
  batchView,    \* batchView[v]: the batch callback it serves, likewise
  orphans       \* history: rows whose holder died or gave up before settling

columns  == <<status, msgId, batchId, dlrStatus, deliveredAt>>
agents   == <<todo, call, answer, ref>>
jasmin   == <<accepted, chunk, unsent, reports, callbacks>>
views    == <<dlrView, batchView>>
vars     == <<columns, mode, agents, broker, forwards, jasmin, lost, views,
              orphans>>

Reports   == [id : MsgId, stat : Stats]
Callbacks ==
  [batch : BatchId, to : {To[r] : r \in Row}, id : MsgId \cup {NoVal}]

\* A view keeps the columns it read and will write back.
DlrViews ==
  [report : Reports, row : Row, status : Status \cup {"absent"},
   deliveredAt : BOOLEAN]
BatchViews ==
  [callback : Callbacks, row : Row, msgId : MsgId \cup {NoVal}]

TypeOK ==
  /\ status \in [Row -> Status \cup {"absent"}]
  /\ msgId \in [Row -> MsgId \cup {NoVal}]
  /\ batchId \in [Row -> BatchId \cup {NoVal}]
  /\ dlrStatus \in [Row -> Stats \cup {NoVal}]
  /\ deliveredAt \in [Row -> BOOLEAN]
  /\ mode \in [Batch -> {"new", "single", "bulk_rest", "bulk_async"}]
  /\ todo \in [Agent -> SUBSET Row]
  /\ call \in [Agent -> SUBSET Row]
  /\ answer \in [Agent -> {"none", "waiting", "ok", "failed"}]
  /\ ref \in [Agent -> MsgId \cup BatchId \cup {NoVal}]
  /\ broker \in [Batch -> 0..MaxDeliveries]
  /\ forwards \subseteq Row
  /\ accepted \in [MsgId -> Row \cup {NoVal}]
  /\ chunk \in [BatchId -> SUBSET Row]
  /\ unsent \in [BatchId -> SUBSET Row]
  /\ reports \subseteq Reports
  /\ lost \subseteq Reports
  /\ callbacks \subseteq Callbacks
  /\ dlrView \in [View -> DlrViews \cup {NoVal}]
  /\ batchView \in [View -> BatchViews \cup {NoVal}]
  /\ orphans \subseteq Row

Init ==
  /\ status = [r \in Row |-> "absent"]
  /\ msgId = [r \in Row |-> NoVal]
  /\ batchId = [r \in Row |-> NoVal]
  /\ dlrStatus = [r \in Row |-> NoVal]
  /\ deliveredAt = [r \in Row |-> FALSE]
  /\ mode = [b \in Batch |-> "new"]
  /\ todo = [a \in Agent |-> {}]
  /\ call = [a \in Agent |-> {}]
  /\ answer = [a \in Agent |-> "none"]
  /\ ref = [a \in Agent |-> NoVal]
  /\ broker = [b \in Batch |-> 0]
  /\ forwards = {}
  /\ accepted = [i \in MsgId |-> NoVal]
  /\ chunk = [k \in BatchId |-> {}]
  /\ unsent = [k \in BatchId |-> {}]
  /\ reports = {}
  /\ lost = {}
  /\ callbacks = {}
  /\ dlrView = [v \in View |-> NoVal]
  /\ batchView = [v \in View |-> NoVal]
  /\ orphans = {}

-----------------------------------------------------------------------------
(* Submitting.                                                             *)

\* Every call first saves its rows QUEUED; nothing has been sent yet.
Start(b) ==
  /\ mode[b] = "new"
  /\ Cardinality({c \in Batch : mode[c] # "new"}) < MaxCalls
  /\ status' = [r \in Row |-> IF r \in RowsOf[b] THEN "queued" ELSE status[r]]

\* submit_send with one item: submit_outbound_message in the web thread.
SubmitSingle(b) ==
  /\ Start(b)
  /\ Cardinality(RowsOf[b]) = 1
  /\ mode' = [mode EXCEPT ![b] = "single"]
  /\ todo' = [todo EXCEPT ![b] = RowsOf[b]]
  /\ UNCHANGED <<msgId, batchId, dlrStatus, deliveredAt, call, answer, ref,
                 broker, forwards, jasmin, lost, orphans, views>>

\* submit_outbound_message resolves the connection after it saved the row:
\* JasminNotConfigured leaves the thread, and the row stays QUEUED.
NotConfigured(b) ==
  /\ mode[b] = "single"
  /\ answer[b] = "none"
  /\ todo[b] # {}
  /\ todo' = [todo EXCEPT ![b] = {}]
  /\ orphans' = orphans \cup todo[b]
  /\ UNCHANGED <<columns, mode, call, answer, ref, broker, forwards, jasmin,
                 lost, views>>

\* submit_send with several items and a REST API: the web thread goes on to
\* _submit_via_rest.  The connection was resolved before the rows were made.
SubmitRest(b) ==
  /\ Start(b)
  /\ Cardinality(RowsOf[b]) > 1
  /\ TRUE \in RestChoices
  /\ mode' = [mode EXCEPT ![b] = "bulk_rest"]
  /\ todo' = [todo EXCEPT ![b] = RowsOf[b]]
  /\ UNCHANGED <<msgId, batchId, dlrStatus, deliveredAt, call, answer, ref,
                 broker, forwards, jasmin, lost, orphans, views>>

\* submit_send with several items and no REST API: a Celery task is published
\* for the batch, and .delay raises when the broker cannot be reached.
SubmitAsync(b) ==
  /\ Start(b)
  /\ Cardinality(RowsOf[b]) > 1
  /\ FALSE \in RestChoices
  /\ mode' = [mode EXCEPT ![b] = "bulk_async"]
  /\ \E published \in BOOLEAN :
       /\ broker' = [broker EXCEPT
            ![b] = IF published THEN MaxDeliveries ELSE 0]
       /\ orphans' = IF published THEN orphans ELSE orphans \cup RowsOf[b]
  /\ UNCHANGED <<msgId, batchId, dlrStatus, deliveredAt, agents, forwards,
                 jasmin, lost, views>>

-----------------------------------------------------------------------------
(* Handing rows to Jasmin.                                                 *)

\* The agents that send one row at a time through the classic /send.
Sender(a) == a \in Worker \/ (a \in Batch /\ mode[a] = "single")
RestThread(a) == a \in Batch /\ mode[a] = "bulk_rest"

IsOldest(r, S) == r \in S /\ \A s \in S : r <= s
IsNewest(r, S) == r \in S /\ \A s \in S : s <= r

Freed(a) ==
  /\ call' = [call EXCEPT ![a] = {}]
  /\ answer' = [answer EXCEPT ![a] = "none"]
  /\ ref' = [ref EXCEPT ![a] = NoVal]

\* The status that the answer to agent a's call stands for.
Outcome(a) == IF answer[a] = "ok" THEN "submitted" ELSE "failed"

\* A worker receives the task of batch b and opens its cursor: the rows that
\* are QUEUED now are the rows it will send, whatever happens to them later.
\* The broker may hand the same task out again (visibility timeout).
StartTask(w, b) ==
  /\ broker[b] > 0
  /\ todo[w] = {} /\ answer[w] = "none"
  /\ broker' = [broker EXCEPT ![b] = @ - 1]
  /\ todo' = [todo EXCEPT ![w] = {r \in RowsOf[b] : status[r] = "queued"}]
  /\ UNCHANGED <<columns, mode, call, answer, ref, forwards, jasmin, lost,
                 orphans, views>>

\* Mutant: the row that cannot be sent is skipped, and its failure never saved.
FailUnsent_NotSaved(w, r) ==
  /\ answer[w] = "none"
  /\ IsOldest(r, todo[w])
  /\ todo' = [todo EXCEPT ![w] = @ \ {r}]
  /\ UNCHANGED <<columns, mode, call, answer, ref, broker, forwards, jasmin,
                 lost, orphans, views>>

\* The worker fails a row without sending it: the Jasmin user is gone, or
\* resolve_jasmin_connection raises.
FailUnsent(w, r) ==
  /\ answer[w] = "none"
  /\ IsOldest(r, todo[w])
  /\ todo' = [todo EXCEPT ![w] = @ \ {r}]
  /\ status' = [status EXCEPT ![r] = "failed"]
  /\ UNCHANGED <<msgId, batchId, dlrStatus, deliveredAt, mode, call, answer,
                 ref, broker, forwards, jasmin, lost, orphans, views>>

CallSend(a, r) ==
  /\ Sender(a)
  /\ answer[a] = "none"
  /\ IsOldest(r, todo[a])
  /\ todo' = [todo EXCEPT ![a] = @ \ {r}]
  /\ call' = [call EXCEPT ![a] = {r}]
  /\ answer' = [answer EXCEPT ![a] = "waiting"]
  /\ UNCHANGED <<columns, mode, ref, broker, forwards, jasmin, lost, orphans,
                 views>>

\* _submit_via_rest posts the next chunk.  Chunks follow the order of the rows;
\* how the code cuts them is left open here.
CallBatch(b, S) ==
  /\ RestThread(b)
  /\ answer[b] = "none"
  /\ S # {} /\ S \subseteq todo[b]
  /\ \A r \in S, s \in todo[b] \ S : r < s
  /\ todo' = [todo EXCEPT ![b] = @ \ S]
  /\ call' = [call EXCEPT ![b] = S]
  /\ answer' = [answer EXCEPT ![b] = "waiting"]
  /\ UNCHANGED <<columns, mode, ref, broker, forwards, jasmin, lost, orphans,
                 views>>

\* The full save at the end of submit_outbound_message writes every column from
\* an object that was built before the call and never read again.
SaveSingle(b) ==
  /\ mode[b] = "single"
  /\ answer[b] \in {"ok", "failed"}
  /\ \E r \in call[b] :
       /\ status' = [status EXCEPT ![r] = Outcome(b)]
       /\ msgId' = [msgId EXCEPT ![r] = ref[b]]
       /\ batchId' = [batchId EXCEPT ![r] = NoVal]
       /\ dlrStatus' = [dlrStatus EXCEPT ![r] = NoVal]
       /\ deliveredAt' = [deliveredAt EXCEPT ![r] = FALSE]
  /\ Freed(b)
  /\ UNCHANGED <<mode, todo, broker, forwards, jasmin, lost, orphans, views>>

\* Mutant: the worker saves without update_fields.
SaveWorker_FullSave(w) ==
  /\ answer[w] \in {"ok", "failed"}
  /\ \E r \in call[w] :
       /\ status' = [status EXCEPT ![r] = Outcome(w)]
       /\ msgId' = [msgId EXCEPT ![r] = ref[w]]
       /\ dlrStatus' = [dlrStatus EXCEPT ![r] = NoVal]
       /\ deliveredAt' = [deliveredAt EXCEPT ![r] = FALSE]
  /\ Freed(w)
  /\ UNCHANGED <<batchId, mode, todo, broker, forwards, jasmin, lost, orphans,
                 views>>

\* Mutant: the worker does not save the id.
SaveWorker_NoId(w) ==
  /\ answer[w] \in {"ok", "failed"}
  /\ \E r \in call[w] : status' = [status EXCEPT ![r] = Outcome(w)]
  /\ Freed(w)
  /\ UNCHANGED <<msgId, batchId, dlrStatus, deliveredAt, mode, todo, broker,
                 forwards, jasmin, lost, orphans, views>>

\* Mutant: a send without an answer goes back to the rows still to be sent.
SaveWorker_Requeues(w) ==
  /\ answer[w] \in {"ok", "failed"}
  /\ \E r \in call[w] :
       IF answer[w] = "ok"
       THEN /\ status' = [status EXCEPT ![r] = "submitted"]
            /\ msgId' = [msgId EXCEPT ![r] = ref[w]]
            /\ UNCHANGED todo
       ELSE /\ todo' = [todo EXCEPT ![w] = @ \cup {r}]
            /\ UNCHANGED <<status, msgId>>
  /\ Freed(w)
  /\ UNCHANGED <<batchId, dlrStatus, deliveredAt, mode, broker, forwards,
                 jasmin,
                 lost, orphans, views>>

\* The worker saves named columns only.  jasmin_msg_id is one of them, with the
\* blank the cursor delivered when the send failed.
SaveWorker(w) ==
  /\ answer[w] \in {"ok", "failed"}
  /\ \E r \in call[w] :
       /\ status' = [status EXCEPT ![r] = Outcome(w)]
       /\ msgId' = [msgId EXCEPT ![r] = ref[w]]
  /\ Freed(w)
  /\ UNCHANGED <<batchId, dlrStatus, deliveredAt, mode, todo, broker, forwards,
                 jasmin, lost, orphans, views>>

\* Whatever raises after the call, that save included, marks the row FAILED,
\* even when Jasmin accepted it.
WorkerRaises(w) ==
  /\ answer[w] \in {"ok", "failed"}
  /\ \E r \in call[w] : status' = [status EXCEPT ![r] = "failed"]
  /\ Freed(w)
  /\ UNCHANGED <<msgId, batchId, dlrStatus, deliveredAt, mode, todo, broker,
                 forwards, jasmin, lost, orphans, views>>

\* The rows S become submitted, with the batch id of the answer, or failed.
SettleRows(b, S, outcome) ==
  /\ RestThread(b)
  /\ answer[b] \in {"ok", "failed"}
  /\ status' = [r \in Row |-> IF r \in S THEN outcome ELSE status[r]]
  /\ batchId' = [r \in Row |->
       IF r \in S /\ answer[b] = "ok" THEN ref[b] ELSE batchId[r]]
  /\ Freed(b)
  /\ UNCHANGED <<msgId, dlrStatus, deliveredAt, mode, todo, broker, forwards,
                 jasmin, lost, orphans, views>>

\* Mutant: the answer is not looked at.
SaveBatch_AlwaysSubmitted(b) == SettleRows(b, call[b], "submitted")

\* Mutant: the update filters on batch_id instead of the keys of the chunk.
SaveBatch_WholeBatch(b) == SettleRows(b, RowsOf[b], Outcome(b))

\* Mutant: the rows of a refused chunk are left as they are.
SaveBatch_SkipsFailure(b) ==
  SettleRows(b, IF answer[b] = "ok" THEN call[b] ELSE {}, Outcome(b))

\* One queryset update for all the rows of the chunk.
SaveBatch(b) == SettleRows(b, call[b], Outcome(b))

\* The process that runs agent a dies; nothing takes its work up again.
Crash(a) ==
  /\ todo[a] # {} \/ answer[a] # "none"
  /\ todo' = [todo EXCEPT ![a] = {}]
  /\ Freed(a)
  /\ orphans' = orphans \cup todo[a] \cup call[a]
  /\ UNCHANGED <<columns, mode, broker, forwards, jasmin, lost, views>>

-----------------------------------------------------------------------------
(* Jasmin, as far as this code relies on it.                               *)

IsFresh(i) ==
  accepted[i] = NoVal /\ \A j \in MsgId : j < i => accepted[j] # NoVal

IsFreshBatch(k) ==
  chunk[k] = {} /\ \A j \in BatchId : j < k => chunk[j] # {}

\* The caller gets the answer, or a timeout or reset although Jasmin accepted:
\* requests.RequestException comes back as ok = False.
Answered(a, id) ==
  \E heard \in BOOLEAN :
    /\ answer' = [answer EXCEPT ![a] = IF heard THEN "ok" ELSE "failed"]
    /\ ref' = [ref EXCEPT ![a] = IF heard THEN id ELSE NoVal]

JasminSend(a, i) ==
  /\ Sender(a)
  /\ answer[a] = "waiting"
  /\ IsFresh(i)
  /\ \E r \in call[a] : accepted' = [accepted EXCEPT ![i] = r]
  /\ Answered(a, i)
  /\ UNCHANGED <<columns, mode, todo, call, broker, forwards, chunk, unsent,
                 reports, callbacks, lost, orphans, views>>

\* sendbatch answers as soon as it has queued the messages.
JasminBatch(b, k) ==
  /\ RestThread(b)
  /\ answer[b] = "waiting"
  /\ IsFreshBatch(k)
  /\ chunk' = [chunk EXCEPT ![k] = call[b]]
  /\ unsent' = [unsent EXCEPT ![k] = call[b]]
  /\ Answered(b, k)
  /\ UNCHANGED <<columns, mode, todo, call, broker, forwards, accepted,
                 reports, callbacks, lost, orphans, views>>

JasminRefuse(a) ==
  /\ answer[a] = "waiting"
  /\ answer' = [answer EXCEPT ![a] = "failed"]
  /\ UNCHANGED <<columns, mode, todo, call, ref, broker, forwards, jasmin,
                 lost, orphans, views>>

\* Jasmin works through a batch in its own time, and calls callback_url or
\* errback_url for each item.
JasminItem(k, r) ==
  /\ r \in unsent[k]
  /\ unsent' = [unsent EXCEPT ![k] = @ \ {r}]
  /\ \E i \in MsgId \cup {NoVal} :
       /\ \/ i \in MsgId /\ IsFresh(i) /\ accepted' = [accepted EXCEPT ![i] = r]
          \/ i = NoVal /\ UNCHANGED accepted
       /\ callbacks' = callbacks \cup {[batch |-> k, to |-> To[r], id |-> i]}
  /\ UNCHANGED <<columns, mode, agents, broker, forwards, chunk, reports,
                 lost, orphans, views>>

\* DLRs may be sent at any time after acceptance, in any order.
Report(i, s) ==
  /\ accepted[i] # NoVal
  /\ [id |-> i, stat |-> s] \notin reports
  /\ reports' = reports \cup {[id |-> i, stat |-> s]}
  /\ UNCHANGED <<columns, mode, agents, broker, forwards, accepted, chunk,
                 unsent, callbacks, lost, orphans, views>>

-----------------------------------------------------------------------------
(* The callback views.                                                     *)

Idle(v) == dlrView[v] = NoVal /\ batchView[v] = NoVal

\* Mutant: the destination is not compared.
CallbackRows_AnyTo(c) == {r \in Row : batchId[r] = c.batch}

\* The rows apply_batch_callback finds.  Its second query narrows the first, so
\* it finds nothing more.
CallbackRows(c) == {r \in Row : batchId[r] = c.batch /\ To[r] = c.to}

ReadCallback(v, c, r) ==
  /\ Idle(v)
  /\ c \in callbacks
  /\ IsNewest(r, CallbackRows(c))
  /\ callbacks' = callbacks \ {c}
  /\ batchView' = [batchView EXCEPT
       ![v] = [callback |-> c, row |-> r, msgId |-> msgId[r]]]
  /\ UNCHANGED <<columns, mode, agents, broker, forwards, accepted, chunk,
                 unsent, reports, lost, dlrView, orphans>>

\* What apply_batch_callback makes of the status flag.
CallbackStatus_Delivered(c) == IF c.id # NoVal THEN "delivered" ELSE "failed"
CallbackStatus(c) == IF c.id # NoVal THEN "submitted" ELSE "failed"

SaveCallback(v) ==
  /\ batchView[v] # NoVal
  /\ LET c == batchView[v].callback
         r == batchView[v].row IN
       /\ msgId' = [msgId EXCEPT
            ![r] = IF c.id # NoVal THEN c.id ELSE batchView[v].msgId]
       /\ status' = [status EXCEPT ![r] = CallbackStatus(c)]
  /\ batchView' = [batchView EXCEPT ![v] = NoVal]
  /\ UNCHANGED <<batchId, dlrStatus, deliveredAt, mode, agents, broker,
                 forwards, jasmin, lost, dlrView, orphans>>

\* No row: the view answers ACK/Jasmin all the same.
DropCallback(c) ==
  /\ c \in callbacks
  /\ CallbackRows(c) = {}
  /\ callbacks' = callbacks \ {c}
  /\ UNCHANGED <<columns, mode, agents, broker, forwards, accepted, chunk,
                 unsent, reports, lost, views, orphans>>

ReportRows(d) == {r \in Row : msgId[r] = d.id}

\* A DLR may come more than once, and to several threads at once: Jasmin repeats
\* it until it hears ACK/Jasmin.
ReadDlr(v, d, r) ==
  /\ Idle(v)
  /\ d \in reports \ lost
  /\ IsNewest(r, ReportRows(d))
  /\ dlrView' = [dlrView EXCEPT
       ![v] = [report |-> d, row |-> r, status |-> status[r],
               deliveredAt |-> deliveredAt[r]]]
  /\ UNCHANGED <<columns, mode, agents, broker, forwards, jasmin, lost,
                 batchView, orphans>>

\* apply_dlr: the status a DLR leaves on a row, given the one the view read; and
\* whether the row is then stamped delivered.
StatusAfter_Raw(d, old) == d.stat
StatusAfter(d, old) ==
  IF StatusFromDlr(d.stat) = "unknown" THEN old ELSE StatusFromDlr(d.stat)

\* Mutants: a delivery is not stamped; a later DLR that is none clears the stamp.
StampAfter_Forgotten(d, old) == old
StampAfter_Overwritten(d, old) == StatusFromDlr(d.stat) = "delivered"
StampAfter(d, old) == old \/ StatusFromDlr(d.stat) = "delivered"

\* apply_dlr writes status and delivered_at whatever the DLR says, from what the
\* view read.  The forward is enqueued next; the broker may refuse it.
SaveDlr(v) ==
  /\ dlrView[v] # NoVal
  /\ LET d == dlrView[v].report
         r == dlrView[v].row IN
       /\ status' = [status EXCEPT ![r] = StatusAfter(d, dlrView[v].status)]
       /\ deliveredAt' = [deliveredAt EXCEPT
            ![r] = StampAfter(d, dlrView[v].deliveredAt)]
       /\ dlrStatus' = [dlrStatus EXCEPT ![r] = d.stat]
       /\ \/ ExternalUrl /\ forwards' = forwards \cup {r}
          \/ UNCHANGED forwards
  /\ dlrView' = [dlrView EXCEPT ![v] = NoVal]
  /\ UNCHANGED <<msgId, batchId, mode, agents, broker, jasmin, lost, batchView,
                 orphans>>

\* No row has the id: the DLR is acknowledged, so Jasmin is done with it.
DropDlr(d) ==
  /\ d \in reports \ lost
  /\ ReportRows(d) = {}
  /\ lost' = lost \cup {d}
  /\ UNCHANGED <<columns, mode, agents, broker, forwards, jasmin, views,
                 orphans>>

\* The save raises and the view answers 500, or the thread dies.
ViewFails(v) ==
  /\ ~Idle(v)
  /\ dlrView' = [dlrView EXCEPT ![v] = NoVal]
  /\ batchView' = [batchView EXCEPT ![v] = NoVal]
  /\ UNCHANGED <<columns, mode, agents, broker, forwards, jasmin, lost,
                 orphans>>

-----------------------------------------------------------------------------

WebThread(b) ==
  SubmitSingle(b) \/ NotConfigured(b) \/ SubmitRest(b) \/ SubmitAsync(b)

AgentStep(a) ==
  \/ \E r \in Row : CallSend(a, r)
  \/ \E S \in SUBSET todo[a] : CallBatch(a, S)
  \/ a \in Batch /\ (SaveSingle(a) \/ SaveBatch(a))
  \/ a \in Worker /\ (SaveWorker(a) \/ WorkerRaises(a))
  \/ a \in Worker /\ \E r \in Row : FailUnsent(a, r)

JasminStep ==
  \/ \E a \in Agent :
       (\E i \in MsgId : JasminSend(a, i)) \/ JasminRefuse(a)
  \/ \E b \in Batch, k \in BatchId : JasminBatch(b, k)
  \/ \E k \in BatchId, r \in Row : JasminItem(k, r)
  \/ \E i \in MsgId, s \in Stats : Report(i, s)

ViewStep ==
  \/ \E v \in View, c \in callbacks, r \in Row : ReadCallback(v, c, r)
  \/ \E v \in View, d \in reports, r \in Row : ReadDlr(v, d, r)
  \/ \E v \in View : SaveCallback(v) \/ SaveDlr(v) \/ ViewFails(v)
  \/ \E c \in callbacks : DropCallback(c)
  \/ \E d \in reports : DropDlr(d)

Next ==
  \/ \E b \in Batch : WebThread(b)
  \/ \E w \in Worker, b \in Batch : StartTask(w, b)
  \/ \E a \in Agent : AgentStep(a) \/ Crash(a)
  \/ JasminStep
  \/ ViewStep

Spec == Init /\ [][Next]_vars

-----------------------------------------------------------------------------
(* What the rows promise.                                                  *)

AcceptedAs(r) == {i \in MsgId : accepted[i] = r}

\* No call of submit_send names a number twice.  The code does not check it.
DistinctDestinations ==
  \A b \in Batch : \A r, s \in RowsOf[b] : To[r] = To[s] => r = s

\* Correlation.  The id on a row is the id under which Jasmin accepted that very
\* row, so that a DLR found by jasmin_msg_id never lands on another message.
\* The batch callback names a message only by batch and number; the property
\* therefore needs DistinctDestinations.
Correlated == \A r \in Row : msgId[r] # NoVal => accepted[msgId[r]] = r

\* A row is shown as submitted, or as anything that follows, only when Jasmin
\* holds it: as a message, or inside a sendbatch request it answered.
StatusBacked ==
  \A r \in Row :
    status[r] \notin {"absent", "queued", "failed"} =>
      AcceptedAs(r) # {} \/ \E k \in BatchId : r \in chunk[k]

\* What apply_dlr left on a row was sent by Jasmin for that row: the last DLR
\* status, the time stamp of delivery and the status "delivered"; and a row
\* whose forward was enqueued still has a receipt for the task to read.
ReceiptBacked ==
  \A r \in Row :
    /\ dlrStatus[r] # NoVal =>
         \E d \in reports : d.id \in AcceptedAs(r) /\ d.stat = dlrStatus[r]
    /\ deliveredAt[r] =>
         \E d \in reports : d.id \in AcceptedAs(r) /\ d.stat = "DELIVRD"
    /\ status[r] = "delivered" => deliveredAt[r]
    /\ r \in forwards => dlrStatus[r] # NoVal

\* A row reaches Jasmin at most once, and in the bulk_async mode at most once
\* per delivery of the task: nothing in the code sends a row a second time.
SendsBounded ==
  \A b \in Batch : \A r \in RowsOf[b] :
    Cardinality(AcceptedAs(r)) <=
      IF mode[b] = "bulk_async" THEN MaxDeliveries - broker[b] ELSE 1

\* A row still in the hands of its web thread is as that thread created it.  The
\* full save of submit_outbound_message relies on this: it writes every column
\* from an object that never saw a DLR.
OwnedRowsUntouched ==
  \A b \in Batch : \A r \in todo[b] \cup call[b] :
    /\ status[r] = "queued" /\ msgId[r] = NoVal /\ batchId[r] = NoVal
    /\ dlrStatus[r] = NoVal /\ ~deliveredAt[r]

\* No save of a submitting thread or worker wipes out a receipt, redelivered
\* tasks with their old cursors included.  The one way to lose delivered_at is a
\* second DLR whose view read the row before the first was saved.
ReceiptKept ==
  [][\A r \in Row :
       /\ dlrStatus[r] # NoVal => dlrStatus'[r] # NoVal
       /\ deliveredAt[r] /\ ~deliveredAt'[r] =>
            \E v \in View :
              /\ dlrView[v] # NoVal /\ dlrView'[v] = NoVal
              /\ dlrView[v].row = r /\ ~dlrView[v].deliveredAt]_vars

\* Each path, with its threads, tasks and callbacks, keeps the promises that
\* Lifecycle makes of a row.  Its variables are those of the same names here.
Promise == INSTANCE Lifecycle
ImplementsLifecycle == Promise!Spec

\* Whoever has row r to send, or will have it once the broker delivers.
Held(r) ==
  \/ \E a \in Agent : r \in todo[a] \cup call[a]
  \/ \E b \in Batch : r \in RowsOf[b] /\ broker[b] > 0

\* No queued row is forgotten: someone still holds it, or its holder died, found
\* no connection, or could not publish the task.
QueuedIsHeld ==
  \A r \in Row : status[r] = "queued" => Held(r) \/ r \in orphans

\* Threads and workers run until they block in an HTTP call, the call ends (the
\* clients pass a timeout to requests), and the broker delivers.
Fairness ==
  /\ \A a \in Agent : WF_vars(AgentStep(a)) /\ WF_vars(JasminRefuse(a))
  /\ \A w \in Worker, b \in Batch : WF_vars(StartTask(w, b))

FairSpec == Spec /\ Fairness

\* Every queued row is settled in the end, unless it was orphaned.
QueuedSettles ==
  \A r \in Row : status[r] = "queued" ~> (status[r] # "queued" \/ r \in orphans)

\* "Jasmin always calls Joyce ... Joyce updates the outbound message": a DLR of a
\* message finds its row, unless the row is still shown as queued or failed (the
\* process that sent it has not saved the id yet, timed out, failed or died), its
\* task was delivered again (a second send overwrites the id, with a blank when it
\* fails), or the id was to come with a batch callback and has not.
ReportFindsRow ==
  [][\A d \in lost' \ lost : \A r \in {accepted[d.id]} :
       \/ status[r] \in {"queued", "failed"}
       \/ \E b \in Batch : /\ r \in RowsOf[b] /\ mode[b] = "bulk_async"
                          /\ MaxDeliveries - broker[b] > 1
       \/ msgId[r] = NoVal /\ \E k \in BatchId : r \in chunk[k]]_vars
====
