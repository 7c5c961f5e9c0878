---------------------------- MODULE OutboundProofs ----------------------------
(***************************************************************************)
(* Theorems about Outbound, for every set of rows, calls, workers, ids and *)
(* DLR strings: its types, whose hands a row is in and what that thread    *)
(* may rely on, what stands behind a status, a message id and a receipt,   *)
(* and that no queued row is forgotten.                                    *)
(***************************************************************************)
EXTENDS Outbound, TLAPS

(* What an agent's call stands for: the part of the invariant that makes    *)
(* the types inductive.                                                     *)

\* Only a successful answer carries an id, a batch id for a REST thread and a
\* message id for everyone else; and a call that was not made, or that left its
\* rows to the workers, has no thread with rows in its hands.
Answers ==
  \A a \in Agent :
    /\ answer[a] # "ok" => ref[a] = NoVal
    /\ answer[a] = "ok" => ref[a] \in IF RestThread(a) THEN BatchId ELSE MsgId
    /\ a \in Batch /\ mode[a] \in {"new", "bulk_async"} =>
         answer[a] = "none" /\ todo[a] = {}

\* The mapping of status_from_dlr yields a status of the model, whatever the DLR.
LEMMA StatusFromDlrType == \A s : StatusFromDlr(s) \in Status
<1> SUFFICES ASSUME NEW s PROVE StatusFromDlr(s) \in Status
  OBVIOUS
<1>1. CASE s \in DOMAIN DlrMapping
  <2>1. s \in {"DELIVRD", "ESME_ROK", "ENROUTE", "UNDELIV", "REJECTD", "EXPIRED"}
    BY <1>1 DEF DlrMapping
  <2> QED
    BY <1>1, <2>1 DEF StatusFromDlr, DlrMapping, Status
<1>2. CASE s \notin DOMAIN DlrMapping
  BY <1>2 DEF StatusFromDlr, Status
<1> QED
  BY <1>1, <1>2

\* What a thread or worker makes of an answer is a status, too.
LEMMA OutcomeType == \A a : Outcome(a) \in Status
BY DEF Outcome, Status

LEMMA TypeInit == Init => TypeOK
BY AgentAssumption, ValueAssumption DEF Init, TypeOK, Agent, Status

\* Every step keeps every variable in its type.
LEMMA TypeStep == TypeOK /\ Answers /\ [Next]_vars => TypeOK'
<1> SUFFICES ASSUME TypeOK, Answers, [Next]_vars PROVE TypeOK'
  OBVIOUS
<1> USE AgentAssumption, ValueAssumption DEF Agent, columns, agents, jasmin, views
<1>1. ASSUME NEW b \in Batch, SubmitSingle(b) PROVE TypeOK'
  BY <1>1 DEF TypeOK, SubmitSingle, Start, Status
<1>2. ASSUME NEW b \in Batch, NotConfigured(b) PROVE TypeOK'
  BY <1>2 DEF TypeOK, NotConfigured
<1>3. ASSUME NEW b \in Batch, SubmitRest(b) PROVE TypeOK'
  BY <1>3 DEF TypeOK, SubmitRest, Start, Status
<1>4. ASSUME NEW b \in Batch, SubmitAsync(b) PROVE TypeOK'
  <2>1. RowsOf[b] \subseteq Row
    OBVIOUS
  <2>2. PICK published \in BOOLEAN :
          /\ broker' = [broker EXCEPT ![b] = IF published THEN MaxDeliveries ELSE 0]
          /\ orphans' = IF published THEN orphans ELSE orphans \cup RowsOf[b]
    BY <1>4 DEF SubmitAsync
  <2>3. (IF published THEN MaxDeliveries ELSE 0) \in 0..MaxDeliveries
    OBVIOUS
  <2>4. broker' \in [Batch -> 0..MaxDeliveries]
    BY <2>2, <2>3 DEF TypeOK
  <2>5. orphans' \subseteq Row
    BY <2>1, <2>2 DEF TypeOK
  <2>6. status' \in [Row -> Status \cup {"absent"}]
    BY <1>4 DEF TypeOK, SubmitAsync, Start, Status
  <2> QED
    BY <1>4, <2>4, <2>5, <2>6 DEF TypeOK, SubmitAsync
<1>5. ASSUME NEW w \in Worker, NEW b \in Batch, StartTask(w, b) PROVE TypeOK'
  <2>1. RowsOf[b] \subseteq Row /\ w \in Agent
    OBVIOUS
  <2>2. todo' \in [Agent -> SUBSET Row]
    BY <1>5, <2>1 DEF TypeOK, StartTask
  <2>3. broker' \in [Batch -> 0..MaxDeliveries]
    BY <1>5 DEF TypeOK, StartTask
  <2> QED
    BY <1>5, <2>2, <2>3 DEF TypeOK, StartTask
<1>6. ASSUME NEW a \in Agent, NEW r \in Row, CallSend(a, r) PROVE TypeOK'
  BY <1>6 DEF TypeOK, CallSend
<1>7. ASSUME NEW a \in Agent, NEW S \in SUBSET todo[a], CallBatch(a, S) PROVE TypeOK'
  BY <1>7 DEF TypeOK, CallBatch, RestThread
<1>8. ASSUME NEW b \in Batch, SaveSingle(b) PROVE TypeOK'
  <2>1. b \in Agent /\ ref[b] \in MsgId \cup {NoVal}
    BY <1>8 DEF Answers, SaveSingle, RestThread
  <2> QED
    BY <1>8, <2>1, OutcomeType DEF TypeOK, SaveSingle, Freed
<1>9. ASSUME NEW b \in Batch, SaveBatch(b) PROVE TypeOK'
  <2>1. b \in Agent /\ ref[b] \in BatchId \cup {NoVal}
    BY <1>9 DEF Answers, SaveBatch, SettleRows
  <2> QED
    BY <1>9, <2>1, OutcomeType DEF TypeOK, SaveBatch, SettleRows, Freed
<1>10. ASSUME NEW w \in Worker, SaveWorker(w) PROVE TypeOK'
  <2>1. w \in Agent /\ ref[w] \in MsgId \cup {NoVal}
    BY <1>10 DEF Answers, SaveWorker, RestThread
  <2> QED
    BY <1>10, <2>1, OutcomeType DEF TypeOK, SaveWorker, Freed
<1>11. ASSUME NEW w \in Worker, WorkerRaises(w) PROVE TypeOK'
  BY <1>11 DEF TypeOK, WorkerRaises, Freed, Status
<1>12. ASSUME NEW w \in Worker, NEW r \in Row, FailUnsent(w, r) PROVE TypeOK'
  BY <1>12 DEF TypeOK, FailUnsent, Status
<1>13. ASSUME NEW a \in Agent, Crash(a) PROVE TypeOK'
  BY <1>13 DEF TypeOK, Crash, Freed
<1>14. ASSUME NEW a \in Agent, NEW i \in MsgId, JasminSend(a, i) PROVE TypeOK'
  BY <1>14 DEF TypeOK, JasminSend, Answered
<1>15. ASSUME NEW a \in Agent, JasminRefuse(a) PROVE TypeOK'
  BY <1>15 DEF TypeOK, JasminRefuse
<1>16. ASSUME NEW b \in Batch, NEW k \in BatchId, JasminBatch(b, k) PROVE TypeOK'
  BY <1>16 DEF TypeOK, JasminBatch, Answered
<1>17. ASSUME NEW k \in BatchId, NEW r \in Row, JasminItem(k, r) PROVE TypeOK'
  BY <1>17 DEF TypeOK, JasminItem, Callbacks
<1>18. ASSUME NEW i \in MsgId, NEW s \in Stats, Report(i, s) PROVE TypeOK'
  BY <1>18 DEF TypeOK, Report, Reports
<1>19. ASSUME NEW v \in View, NEW c \in callbacks, NEW r \in Row, ReadCallback(v, c, r)
       PROVE TypeOK'
  BY <1>19 DEF TypeOK, ReadCallback, BatchViews
<1>20. ASSUME NEW v \in View, SaveCallback(v) PROVE TypeOK'
  BY <1>20 DEF TypeOK, SaveCallback, CallbackStatus, BatchViews, Callbacks, Status
<1>21. ASSUME NEW c \in callbacks, DropCallback(c) PROVE TypeOK'
  BY <1>21 DEF TypeOK, DropCallback
<1>22. ASSUME NEW v \in View, NEW d \in reports, NEW r \in Row, ReadDlr(v, d, r)
       PROVE TypeOK'
  BY <1>22 DEF TypeOK, ReadDlr, DlrViews
<1>23. ASSUME NEW v \in View, SaveDlr(v) PROVE TypeOK'
  BY <1>23, StatusFromDlrType
     DEF TypeOK, SaveDlr, StatusAfter, StampAfter, DlrViews, Reports
<1>24. ASSUME NEW d \in reports, DropDlr(d) PROVE TypeOK'
  BY <1>24 DEF TypeOK, DropDlr
<1>25. ASSUME NEW v \in View, ViewFails(v) PROVE TypeOK'
  BY <1>25 DEF TypeOK, ViewFails
<1>26. CASE UNCHANGED vars
  BY <1>26 DEF TypeOK, vars
<1> QED
  BY <1>1, <1>2, <1>3, <1>4, <1>5, <1>6, <1>7, <1>8, <1>9, <1>10, <1>11, <1>12,
     <1>13, <1>14, <1>15, <1>16, <1>17, <1>18, <1>19, <1>20, <1>21, <1>22, <1>23,
     <1>24, <1>25, <1>26
     DEF Next, WebThread, AgentStep, JasminStep, ViewStep

LEMMA AnswersInit == Init => Answers
BY DEF Init, Answers

LEMMA AnswersStep == TypeOK /\ Answers /\ [Next]_vars => Answers'
<1> SUFFICES ASSUME TypeOK, Answers, [Next]_vars PROVE Answers'
  OBVIOUS
<1> USE AgentAssumption DEF Agent, columns, agents, jasmin, views, RestThread
<1>1. ASSUME NEW b \in Batch, SubmitSingle(b) \/ SubmitRest(b) \/ SubmitAsync(b)
      PROVE  Answers'
  <2>1. answer[b] = "none" /\ ref[b] = NoVal
    BY <1>1 DEF Answers, SubmitSingle, SubmitRest, SubmitAsync, Start
  <2>2. CASE SubmitSingle(b)
    BY <2>1, <2>2 DEF TypeOK, Answers, SubmitSingle
  <2>3. CASE SubmitRest(b)
    BY <2>1, <2>3 DEF TypeOK, Answers, SubmitRest
  <2>4. CASE SubmitAsync(b)
    BY <2>1, <2>4 DEF TypeOK, Answers, SubmitAsync, Start
  <2> QED
    BY <1>1, <2>2, <2>3, <2>4
<1>2. ASSUME NEW b \in Batch, NotConfigured(b) PROVE Answers'
  BY <1>2 DEF TypeOK, Answers, NotConfigured
<1>3. ASSUME NEW w \in Worker, NEW b \in Batch, StartTask(w, b) PROVE Answers'
  BY <1>3 DEF TypeOK, Answers, StartTask
<1>4. ASSUME NEW a \in Agent, NEW r \in Row, CallSend(a, r) PROVE Answers'
  BY <1>4 DEF TypeOK, Answers, CallSend, IsOldest
<1>5. ASSUME NEW a \in Agent, NEW S \in SUBSET todo[a], CallBatch(a, S) PROVE Answers'
  BY <1>5 DEF TypeOK, Answers, CallBatch
<1>6. ASSUME NEW a \in Agent, Freed(a), UNCHANGED <<mode, todo>> PROVE Answers'
  BY <1>6 DEF TypeOK, Answers, Freed
<1>7. ASSUME NEW w \in Worker, NEW r \in Row, FailUnsent(w, r) PROVE Answers'
  BY <1>7 DEF TypeOK, Answers, FailUnsent
<1>8. ASSUME NEW a \in Agent, Crash(a) PROVE Answers'
  BY <1>8 DEF TypeOK, Answers, Crash, Freed
<1>9. ASSUME NEW a \in Agent, NEW i \in MsgId, JasminSend(a, i) PROVE Answers'
  BY <1>9 DEF TypeOK, Answers, JasminSend, Answered, Sender
<1>10. ASSUME NEW a \in Agent, JasminRefuse(a) PROVE Answers'
  BY <1>10 DEF TypeOK, Answers, JasminRefuse
<1>11. ASSUME NEW b \in Batch, NEW k \in BatchId, JasminBatch(b, k) PROVE Answers'
  BY <1>11 DEF TypeOK, Answers, JasminBatch, Answered
<1>12. ASSUME UNCHANGED <<mode, agents>> PROVE Answers'
  BY <1>12 DEF Answers
<1> QED
  BY <1>1, <1>2, <1>3, <1>4, <1>5, <1>6, <1>7, <1>8, <1>9, <1>10, <1>11, <1>12
     DEF Next, WebThread, AgentStep, JasminStep, ViewStep, vars,
         SaveSingle, SaveBatch, SettleRows, SaveWorker, WorkerRaises, JasminItem,
         Report, ReadCallback, SaveCallback, DropCallback, ReadDlr, SaveDlr,
         DropDlr, ViewFails

\* Type correctness of the message path.
THEOREM TypeCorrect == Spec => []TypeOK
<1>1. Init => TypeOK /\ Answers
  BY TypeInit, AnswersInit
<1>2. TypeOK /\ Answers /\ [Next]_vars => (TypeOK /\ Answers)'
  BY TypeStep, AnswersStep
<1> QED
  BY <1>1, <1>2, PTL DEF Spec

-----------------------------------------------------------------------------
(* Correlation: the chain from a request to the id on its row.             *)

\* A thread holds rows of its own call only; a classic /send carries one row,
\* and a sendbatch at least one.
Holdings ==
  /\ \A b \in Batch : todo[b] \cup call[b] \subseteq RowsOf[b]
  /\ \A a \in Agent : Sender(a) /\ answer[a] # "none" => \E r \in Row : call[a] = {r}
  /\ \A b \in Batch : RestThread(b) /\ answer[b] # "none" => call[b] # {}

\* The id in an answer belongs to the rows of the call it answers.
OkAnswers ==
  \A a \in Agent : answer[a] = "ok" =>
    /\ Sender(a) => accepted[ref[a]] \in call[a]
    /\ RestThread(a) => chunk[ref[a]] = call[a]

\* A sendbatch request has distinct numbers, and the rows that carry its id are
\* among its rows.
Chunks ==
  /\ \A k \in BatchId : unsent[k] \subseteq chunk[k]
  /\ \A k \in BatchId : \A r, s \in chunk[k] : To[r] = To[s] => r = s
  /\ \A r \in Row : batchId[r] # NoVal => r \in chunk[batchId[r]]

\* A batch callback carries the number and the id of one row of its batch, and
\* the view that serves it has found that row.
CallbacksMatch ==
  \A c \in callbacks : c.id # NoVal =>
    accepted[c.id] \in chunk[c.batch] /\ To[accepted[c.id]] = c.to

ViewsMatch ==
  \A v \in View : batchView[v] # NoVal =>
    \A i \in {batchView[v].callback.id, batchView[v].msgId} \ {NoVal} :
      accepted[i] = batchView[v].row

HandsInv == TypeOK /\ Answers /\ Holdings /\ OkAnswers

CorrelationInv ==
  /\ HandsInv
  /\ Chunks /\ CallbacksMatch /\ ViewsMatch
  /\ Correlated

LEMMA CorrelationInit == Init => CorrelationInv
BY TypeInit, AnswersInit, ValueAssumption
   DEF Init, CorrelationInv, HandsInv, Holdings, OkAnswers, Chunks, CallbacksMatch,
       ViewsMatch, Correlated, Agent

\* Jasmin never gives an id a second time, to a message or to a batch.
LEMMA IdsStay ==
  TypeOK /\ [Next]_vars =>
    /\ \A i \in MsgId : accepted[i] # NoVal => accepted'[i] = accepted[i]
    /\ \A k \in BatchId : chunk[k] # {} => chunk'[k] = chunk[k]
<1> SUFFICES ASSUME TypeOK, [Next]_vars
    PROVE  /\ \A i \in MsgId : accepted[i] # NoVal => accepted'[i] = accepted[i]
           /\ \A k \in BatchId : chunk[k] # {} => chunk'[k] = chunk[k]
  OBVIOUS
<1>1. ASSUME NEW a \in Agent, NEW i \in MsgId, JasminSend(a, i)
      PROVE  /\ chunk' = chunk
             /\ \A j \in MsgId : accepted[j] # NoVal => accepted'[j] = accepted[j]
  BY <1>1 DEF TypeOK, JasminSend, IsFresh
<1>2. ASSUME NEW b \in Batch, NEW k \in BatchId, JasminBatch(b, k)
      PROVE  /\ accepted' = accepted
             /\ \A l \in BatchId : chunk[l] # {} => chunk'[l] = chunk[l]
  BY <1>2 DEF TypeOK, JasminBatch, IsFreshBatch
<1>3. ASSUME NEW k \in BatchId, NEW r \in Row, JasminItem(k, r)
      PROVE  /\ chunk' = chunk
             /\ \A j \in MsgId : accepted[j] # NoVal => accepted'[j] = accepted[j]
  BY <1>3 DEF TypeOK, JasminItem, IsFresh
<1>4. CASE UNCHANGED <<accepted, chunk>>
  BY <1>4
<1> QED
  BY <1>1, <1>2, <1>3, <1>4
     DEF Next, WebThread, AgentStep, JasminStep, ViewStep, vars, jasmin,
         SubmitSingle, NotConfigured, SubmitRest, SubmitAsync, StartTask,
         CallSend, CallBatch, FailUnsent, Crash, JasminRefuse,
         SaveSingle, SaveBatch, SettleRows, SaveWorker, WorkerRaises,
         Report, ReadCallback, SaveCallback, DropCallback, ReadDlr, SaveDlr,
         DropDlr, ViewFails

LEMMA HoldingsStep == HandsInv /\ [Next]_vars => Holdings'
<1> SUFFICES ASSUME HandsInv, [Next]_vars PROVE Holdings'
  OBVIOUS
<1> USE AgentAssumption
    DEF Agent, columns, agents, jasmin, views, HandsInv, Sender, RestThread
<1>1. ASSUME NEW b \in Batch, SubmitSingle(b) PROVE Holdings'
  BY <1>1 DEF TypeOK, Answers, Holdings, SubmitSingle, Start
<1>2. ASSUME NEW b \in Batch, NotConfigured(b) PROVE Holdings'
  BY <1>2 DEF TypeOK, Holdings, NotConfigured
<1>3. ASSUME NEW b \in Batch, SubmitRest(b) PROVE Holdings'
  BY <1>3 DEF TypeOK, Answers, Holdings, SubmitRest, Start
<1>4. ASSUME NEW b \in Batch, SubmitAsync(b) PROVE Holdings'
  BY <1>4 DEF TypeOK, Answers, Holdings, SubmitAsync, Start
<1>5. ASSUME NEW w \in Worker, NEW b \in Batch, StartTask(w, b) PROVE Holdings'
  BY <1>5 DEF TypeOK, Holdings, StartTask
<1>6. ASSUME NEW a \in Agent, NEW r \in Row, CallSend(a, r) PROVE Holdings'
  BY <1>6 DEF TypeOK, Holdings, CallSend, IsOldest
<1>7. ASSUME NEW a \in Agent, NEW S \in SUBSET todo[a], CallBatch(a, S)
      PROVE  Holdings'
  <2>1. a \in Batch /\ a \notin Worker /\ mode[a] = "bulk_rest"
    BY <1>7 DEF CallBatch
  <2>2. /\ S # {} /\ S \subseteq todo[a] /\ mode' = mode
        /\ todo' = [todo EXCEPT ![a] = @ \ S]
        /\ call' = [call EXCEPT ![a] = S]
        /\ answer' = [answer EXCEPT ![a] = "waiting"]
    BY <1>7 DEF CallBatch
  <2>3. \A b \in Batch : todo'[b] \cup call'[b] \subseteq RowsOf[b]
    BY <2>2 DEF TypeOK, Holdings
  <2>4. \A b \in Agent : b # a => call'[b] = call[b] /\ answer'[b] = answer[b]
    BY <2>2 DEF TypeOK
  <2>5. call'[a] = S
    BY <2>1, <2>2 DEF TypeOK
  <2> QED
    BY <2>1, <2>2, <2>3, <2>4, <2>5 DEF Holdings
<1>8. ASSUME NEW a \in Agent, Freed(a), UNCHANGED <<mode, todo>> PROVE Holdings'
  BY <1>8 DEF TypeOK, Holdings, Freed
<1>9. ASSUME NEW w \in Worker, NEW r \in Row, FailUnsent(w, r) PROVE Holdings'
  BY <1>9 DEF TypeOK, Holdings, FailUnsent
<1>10. ASSUME NEW a \in Agent, Crash(a) PROVE Holdings'
  BY <1>10 DEF TypeOK, Holdings, Crash, Freed
<1>11. ASSUME NEW a \in Agent, NEW i \in MsgId, JasminSend(a, i) PROVE Holdings'
  BY <1>11 DEF TypeOK, Holdings, JasminSend, Answered
<1>12. ASSUME NEW a \in Agent, JasminRefuse(a) PROVE Holdings'
  BY <1>12 DEF TypeOK, Holdings, JasminRefuse
<1>13. ASSUME NEW b \in Batch, NEW k \in BatchId, JasminBatch(b, k) PROVE Holdings'
  BY <1>13 DEF TypeOK, Holdings, JasminBatch, Answered
<1>14. ASSUME UNCHANGED <<mode, agents>> PROVE Holdings'
  BY <1>14 DEF Holdings
<1> QED
  BY <1>1, <1>2, <1>3, <1>4, <1>5, <1>6, <1>7, <1>8, <1>9, <1>10, <1>11, <1>12,
     <1>13, <1>14
     DEF Next, WebThread, AgentStep, JasminStep, ViewStep, vars,
         SaveSingle, SaveBatch, SettleRows, SaveWorker, WorkerRaises, JasminItem,
         Report, ReadCallback, SaveCallback, DropCallback, ReadDlr, SaveDlr,
         DropDlr, ViewFails

LEMMA OkAnswersStep == HandsInv /\ [Next]_vars => OkAnswers'
<1> SUFFICES ASSUME HandsInv, [Next]_vars PROVE OkAnswers'
  OBVIOUS
<1> USE AgentAssumption, ValueAssumption
    DEF Agent, columns, agents, jasmin, views, HandsInv, Sender, RestThread
<1>0. /\ \A i \in MsgId : accepted[i] # NoVal => accepted'[i] = accepted[i]
      /\ \A k \in BatchId : chunk[k] # {} => chunk'[k] = chunk[k]
  BY IdsStay
<1> DEFINE Ok(a) == answer[a] = "ok" =>
                      /\ Sender(a) => accepted[ref[a]] \in call[a]
                      /\ RestThread(a) => chunk[ref[a]] = call[a]
\* An agent that the step leaves alone keeps its answer, since ids stay.
<1>1. ASSUME NEW a \in Agent,
             call'[a] = call[a], answer'[a] = answer[a], ref'[a] = ref[a],
             a \in Batch => mode'[a] = mode[a]
      PROVE  Ok(a)'
  <2>1. CASE answer[a] = "ok" /\ Sender(a)
    <3>1. accepted[ref[a]] \in call[a] /\ ref[a] \in MsgId
      BY <2>1 DEF OkAnswers, Answers
    <3>2. accepted[ref[a]] # NoVal
      BY <3>1 DEF TypeOK
    <3> QED
      BY <1>0, <1>1, <2>1, <3>1, <3>2
  <2>2. CASE answer[a] = "ok" /\ RestThread(a)
    <3>1. chunk[ref[a]] = call[a] /\ ref[a] \in BatchId /\ call[a] # {}
      BY <2>2 DEF OkAnswers, Answers, Holdings
    <3> QED
      BY <1>0, <1>1, <2>2, <3>1
  <2> QED
    BY <1>1, <2>1, <2>2
<1>2. ASSUME NEW a \in Agent, answer'[a] # "ok" PROVE Ok(a)'
  BY <1>2
<1>3. ASSUME NEW b \in Batch, SubmitSingle(b) \/ SubmitRest(b) \/ SubmitAsync(b)
      PROVE  OkAnswers'
  <2>1. answer'[b] # "ok"
    BY <1>3 DEF Answers, SubmitSingle, SubmitRest, SubmitAsync, Start
  <2>2. \A a \in Agent : call'[a] = call[a] /\ answer'[a] = answer[a] /\ ref'[a] = ref[a]
    BY <1>3 DEF SubmitSingle, SubmitRest, SubmitAsync
  <2>3. \A a \in Batch : a # b => mode'[a] = mode[a]
    BY <1>3 DEF TypeOK, SubmitSingle, SubmitRest, SubmitAsync
  <2> QED
    BY <1>1, <1>2, <2>1, <2>2, <2>3 DEF OkAnswers
<1>4. ASSUME NEW a \in Agent, NEW i \in MsgId, JasminSend(a, i) PROVE OkAnswers'
  <2>1. \A c \in Agent : call'[c] = call[c]
                         /\ (c # a => answer'[c] = answer[c] /\ ref'[c] = ref[c])
    BY <1>4 DEF TypeOK, JasminSend, Answered
  <2>2. mode' = mode
    BY <1>4 DEF JasminSend
  <2>3. accepted'[i] \in call[a]
    BY <1>4 DEF TypeOK, JasminSend
  <2>4. answer'[a] = "ok" => ref'[a] = i
    BY <1>4 DEF TypeOK, JasminSend, Answered
  <2>5. Sender(a) /\ ~RestThread(a)
    BY <1>4 DEF JasminSend
  <2>6. Ok(a)'
    BY <2>1, <2>2, <2>3, <2>4, <2>5
  <2> QED
    BY <1>1, <2>1, <2>2, <2>6 DEF OkAnswers
<1>5. ASSUME NEW b \in Batch, NEW k \in BatchId, JasminBatch(b, k) PROVE OkAnswers'
  <2>1. \A c \in Agent : call'[c] = call[c]
                         /\ (c # b => answer'[c] = answer[c] /\ ref'[c] = ref[c])
    BY <1>5 DEF TypeOK, JasminBatch, Answered
  <2>2. mode' = mode
    BY <1>5 DEF JasminBatch
  <2>3. chunk'[k] = call[b]
    BY <1>5 DEF TypeOK, JasminBatch
  <2>4. answer'[b] = "ok" => ref'[b] = k
    BY <1>5 DEF TypeOK, JasminBatch, Answered
  <2>5. ~Sender(b) /\ RestThread(b)
    BY <1>5 DEF JasminBatch
  <2>6. Ok(b)'
    BY <2>1, <2>2, <2>3, <2>4, <2>5
  <2> QED
    BY <1>1, <2>1, <2>2, <2>6 DEF OkAnswers
<1>6. ASSUME NEW a \in Agent, mode' = mode, answer'[a] # "ok",
             \A c \in Agent : c # a => call'[c] = call[c] /\ answer'[c] = answer[c]
                                       /\ ref'[c] = ref[c]
      PROVE  OkAnswers'
  BY <1>1, <1>2, <1>6 DEF OkAnswers
<1>7. ASSUME NEW a \in Agent, Freed(a), mode' = mode PROVE OkAnswers'
  BY <1>6, <1>7 DEF TypeOK, Freed
<1>8. ASSUME NEW a \in Agent, NEW r \in Row, CallSend(a, r) PROVE OkAnswers'
  BY <1>6, <1>8 DEF TypeOK, CallSend
<1>9. ASSUME NEW a \in Agent, NEW S \in SUBSET todo[a], CallBatch(a, S)
      PROVE  OkAnswers'
  BY <1>6, <1>9 DEF TypeOK, CallBatch
<1>10. ASSUME NEW a \in Agent, JasminRefuse(a) PROVE OkAnswers'
  BY <1>6, <1>10 DEF TypeOK, JasminRefuse
<1>11. ASSUME UNCHANGED <<mode, call, answer, ref>> PROVE OkAnswers'
  BY <1>1, <1>11 DEF OkAnswers
<1> QED
  BY <1>3, <1>4, <1>5, <1>7, <1>8, <1>9, <1>10, <1>11
     DEF Next, WebThread, AgentStep, JasminStep, ViewStep, vars,
         NotConfigured, StartTask, FailUnsent, Crash,
         SaveSingle, SaveBatch, SettleRows, SaveWorker, WorkerRaises, JasminItem,
         Report, ReadCallback, SaveCallback, DropCallback, ReadDlr, SaveDlr,
         DropDlr, ViewFails

LEMMA ChunksStep ==
  DistinctDestinations /\ CorrelationInv /\ [Next]_vars => Chunks'
<1> SUFFICES ASSUME DistinctDestinations, CorrelationInv, [Next]_vars PROVE Chunks'
  OBVIOUS
<1> USE AgentAssumption, ValueAssumption
    DEF Agent, columns, agents, jasmin, views, CorrelationInv, HandsInv, RestThread
<1>0. \A k \in BatchId : chunk[k] # {} => chunk'[k] = chunk[k]
  BY IdsStay
\* Rows that keep their batch id keep their place in the batch.
<1>1. ASSUME NEW r \in Row, batchId'[r] \in {batchId[r], NoVal}
      PROVE  batchId'[r] # NoVal => r \in chunk'[batchId'[r]]
  <2> SUFFICES ASSUME batchId'[r] # NoVal PROVE r \in chunk'[batchId'[r]]
    OBVIOUS
  <2>1. batchId'[r] = batchId[r] /\ batchId[r] \in BatchId
    BY <1>1 DEF TypeOK
  <2>2. r \in chunk[batchId[r]]
    BY <2>1 DEF Chunks
  <2> QED
    BY <1>0, <2>1, <2>2
<1>2. ASSUME NEW b \in Batch, SaveBatch(b) PROVE Chunks'
  <2>1. UNCHANGED <<chunk, unsent>> /\ RestThread(b)
    BY <1>2 DEF SaveBatch, SettleRows
  <2>2. ASSUME NEW r \in Row, batchId'[r] # NoVal PROVE r \in chunk'[batchId'[r]]
    <3>1. CASE r \in call[b] /\ answer[b] = "ok"
      <4>1. batchId'[r] = ref[b]
        BY <1>2, <3>1 DEF SaveBatch, SettleRows
      <4>2. chunk[ref[b]] = call[b]
        BY <2>1, <3>1 DEF OkAnswers
      <4> QED
        BY <2>1, <3>1, <4>1, <4>2
    <3>2. CASE ~(r \in call[b] /\ answer[b] = "ok")
      <4>1. batchId'[r] = batchId[r]
        BY <1>2, <3>2 DEF SaveBatch, SettleRows
      <4> QED
        BY <1>1, <2>2, <4>1
    <3> QED
      BY <3>1, <3>2
  <2> QED
    BY <2>1, <2>2 DEF Chunks
<1>3. ASSUME NEW b \in Batch, SaveSingle(b) PROVE Chunks'
  <2>1. UNCHANGED <<chunk, unsent>>
    BY <1>3 DEF SaveSingle
  <2>2. \A r \in Row : batchId'[r] \in {batchId[r], NoVal}
    BY <1>3 DEF SaveSingle, TypeOK
  <2> QED
    BY <1>1, <2>1, <2>2 DEF Chunks
<1>4. ASSUME NEW b \in Batch, NEW k \in BatchId, JasminBatch(b, k) PROVE Chunks'
  <2>1. chunk' = [chunk EXCEPT ![k] = call[b]] /\ unsent' = [unsent EXCEPT ![k] = call[b]]
    BY <1>4 DEF JasminBatch
  <2>2. batchId' = batchId
    BY <1>4 DEF JasminBatch
  <2>3. \A r, s \in call[b] : To[r] = To[s] => r = s
    BY DEF Holdings, DistinctDestinations
  <2> QED
    BY <1>1, <2>1, <2>2, <2>3 DEF Chunks, TypeOK
<1>5. ASSUME NEW k \in BatchId, NEW r \in Row, JasminItem(k, r) PROVE Chunks'
  <2>1. chunk' = chunk /\ batchId' = batchId
    BY <1>5 DEF JasminItem
  <2>2. unsent' = [unsent EXCEPT ![k] = @ \ {r}]
    BY <1>5 DEF JasminItem
  <2> QED
    BY <2>1, <2>2 DEF Chunks, TypeOK
<1>6. ASSUME UNCHANGED <<batchId, chunk, unsent>> PROVE Chunks'
  BY <1>6 DEF Chunks
<1> QED
  BY <1>2, <1>3, <1>4, <1>5, <1>6
     DEF Next, WebThread, AgentStep, JasminStep, ViewStep, vars,
         SubmitSingle, NotConfigured, SubmitRest, SubmitAsync, StartTask,
         CallSend, CallBatch, FailUnsent, Crash, JasminSend, JasminRefuse,
         SaveWorker, WorkerRaises, Report, ReadCallback, SaveCallback,
         DropCallback, ReadDlr, SaveDlr, DropDlr, ViewFails

LEMMA CallbacksStep == CorrelationInv /\ [Next]_vars => CallbacksMatch'
<1> SUFFICES ASSUME CorrelationInv, [Next]_vars PROVE CallbacksMatch'
  OBVIOUS
<1> USE AgentAssumption, ValueAssumption
    DEF Agent, columns, agents, jasmin, views, CorrelationInv, HandsInv
<1>0. /\ \A i \in MsgId : accepted[i] # NoVal => accepted'[i] = accepted[i]
      /\ \A k \in BatchId : chunk[k] # {} => chunk'[k] = chunk[k]
  BY IdsStay
<1>1. ASSUME NEW c \in callbacks, c.id # NoVal
      PROVE  accepted'[c.id] \in chunk'[c.batch] /\ To[accepted'[c.id]] = c.to
  <2>1. accepted[c.id] \in chunk[c.batch] /\ To[accepted[c.id]] = c.to
    BY <1>1 DEF CallbacksMatch
  <2>2. c.id \in MsgId /\ c.batch \in BatchId
    BY <1>1 DEF TypeOK, Callbacks
  <2>3. chunk[c.batch] \subseteq Row /\ NoVal \notin Row
    <3>1. chunk \in [BatchId -> SUBSET Row]
      BY DEF TypeOK
    <3> QED
      BY <2>2, <3>1, ValueAssumption
  <2>4. accepted[c.id] # NoVal /\ chunk[c.batch] # {}
    BY ONLY <2>1, <2>3
  <2> QED
    BY ONLY <1>0, <2>1, <2>2, <2>4
<1>2. ASSUME NEW k \in BatchId, NEW r \in Row, JasminItem(k, r) PROVE CallbacksMatch'
  <2>1. r \in chunk'[k]
    BY <1>2 DEF JasminItem, Chunks
  <2>2. PICK i \in MsgId \cup {NoVal} :
          /\ i # NoVal => accepted' = [accepted EXCEPT ![i] = r]
          /\ callbacks' = callbacks \cup {[batch |-> k, to |-> To[r], id |-> i]}
    BY <1>2 DEF JasminItem
  <2>3. i # NoVal => accepted'[i] = r
    BY <2>2 DEF TypeOK
  <2> QED
    BY <1>1, <2>1, <2>2, <2>3 DEF CallbacksMatch
<1>3. ASSUME callbacks' \subseteq callbacks PROVE CallbacksMatch'
  BY <1>1, <1>3 DEF CallbacksMatch
<1> QED
  BY <1>2, <1>3
     DEF Next, WebThread, AgentStep, JasminStep, ViewStep, vars,
         SubmitSingle, NotConfigured, SubmitRest, SubmitAsync, StartTask,
         CallSend, CallBatch, FailUnsent, Crash, JasminSend, JasminBatch,
         JasminRefuse, SaveSingle, SaveBatch, SettleRows, SaveWorker, WorkerRaises,
         Report, ReadCallback, SaveCallback, DropCallback, ReadDlr, SaveDlr,
         DropDlr, ViewFails

\* A view that found row r by batch and number, r being the newest such row, found
\* the row that Jasmin accepted: no other row of the batch has the number.
LEMMA ViewsStep == CorrelationInv /\ [Next]_vars => ViewsMatch'
<1> SUFFICES ASSUME CorrelationInv, [Next]_vars PROVE ViewsMatch'
  OBVIOUS
<1> USE AgentAssumption, ValueAssumption
    DEF Agent, columns, agents, jasmin, views, CorrelationInv, HandsInv
<1>0. \A i \in MsgId : accepted[i] # NoVal => accepted'[i] = accepted[i]
  BY IdsStay
<1>1. ASSUME NEW v \in View, batchView[v] # NoVal,
             NEW i \in {batchView[v].callback.id, batchView[v].msgId} \ {NoVal}
      PROVE  accepted'[i] = batchView[v].row
  <2>1. accepted[i] = batchView[v].row
    BY <1>1 DEF ViewsMatch
  <2>2. i \in MsgId /\ batchView[v].row \in Row
    BY <1>1 DEF TypeOK, BatchViews, Callbacks
  <2> QED
    BY <1>0, <2>1, <2>2
<1>2. ASSUME NEW v \in View, NEW c \in callbacks, NEW r \in Row, ReadCallback(v, c, r)
      PROVE  ViewsMatch'
  <2>1. accepted' = accepted
    BY <1>2 DEF ReadCallback
  <2>2. batchView' = [batchView EXCEPT
          ![v] = [callback |-> c, row |-> r, msgId |-> msgId[r]]]
    BY <1>2 DEF ReadCallback
  <2>3. msgId[r] # NoVal => accepted[msgId[r]] = r
    BY DEF Correlated
  <2>4. c.id # NoVal => accepted[c.id] = r
    <3> SUFFICES ASSUME c.id # NoVal PROVE accepted[c.id] = r
      OBVIOUS
    <3>1. c.batch \in BatchId
      BY DEF TypeOK, Callbacks
    <3>2. batchId[r] = c.batch /\ To[r] = c.to
      BY <1>2 DEF ReadCallback, IsNewest, CallbackRows
    <3>3. r \in chunk[c.batch]
      BY <3>1, <3>2 DEF Chunks
    <3>4. accepted[c.id] \in chunk[c.batch] /\ To[accepted[c.id]] = c.to
      BY DEF CallbacksMatch
    <3>5. \A s \in chunk[c.batch] : To[r] = To[s] => r = s
      BY <3>1, <3>3 DEF Chunks
    <3> QED
      BY <3>2, <3>4, <3>5
  <2>5. batchView'[v] = [callback |-> c, row |-> r, msgId |-> msgId[r]]
    BY <2>2 DEF TypeOK
  <2>6. \A u \in View : u # v => batchView'[u] = batchView[u]
    BY <2>2 DEF TypeOK
  <2> QED
    BY <1>1, <2>1, <2>3, <2>4, <2>5, <2>6 DEF ViewsMatch
<1>3. ASSUME \A v \in View : batchView'[v] \in {batchView[v], NoVal} PROVE ViewsMatch'
  BY <1>1, <1>3 DEF ViewsMatch
<1>4. ASSUME NEW v \in View, batchView' = [batchView EXCEPT ![v] = NoVal]
      PROVE  ViewsMatch'
  BY <1>3, <1>4 DEF TypeOK
<1>5. ASSUME batchView' = batchView PROVE ViewsMatch'
  BY <1>3, <1>5
<1> QED
  BY <1>2, <1>4, <1>5
     DEF Next, WebThread, AgentStep, JasminStep, ViewStep, vars,
         SubmitSingle, NotConfigured, SubmitRest, SubmitAsync, StartTask,
         CallSend, CallBatch, FailUnsent, Crash, JasminSend, JasminBatch, JasminItem,
         JasminRefuse, SaveSingle, SaveBatch, SettleRows, SaveWorker, WorkerRaises,
         Report, SaveCallback, DropCallback, ReadDlr, SaveDlr, DropDlr, ViewFails

LEMMA CorrelatedStep == CorrelationInv /\ [Next]_vars => Correlated'
<1> SUFFICES ASSUME CorrelationInv, [Next]_vars PROVE Correlated'
  OBVIOUS
<1> USE AgentAssumption, ValueAssumption
    DEF Agent, columns, agents, jasmin, views, CorrelationInv, HandsInv
<1>0. \A i \in MsgId : accepted[i] # NoVal => accepted'[i] = accepted[i]
  BY IdsStay
\* Rows that keep their id, or lose it, stay correlated.
<1>1. ASSUME NEW r \in Row, msgId'[r] \in {msgId[r], NoVal}
      PROVE  msgId'[r] # NoVal => accepted'[msgId'[r]] = r
  BY <1>0, <1>1 DEF Correlated, TypeOK
\* Rows that get an id get it from an answer to their own send.
<1>2. ASSUME NEW a \in Agent, Sender(a), answer[a] \in {"ok", "failed"},
             NEW r \in call[a], msgId' = [msgId EXCEPT ![r] = ref[a]],
             accepted' = accepted
      PROVE  Correlated'
  <2>1. call[a] = {r}
    BY <1>2 DEF Holdings
  <2>2. ref[a] # NoVal => accepted[ref[a]] = r
    BY <1>2, <2>1 DEF Answers, OkAnswers
  <2>3. r \in Row
    BY <1>2 DEF TypeOK
  <2>4. msgId'[r] = ref[a] /\ \A s \in Row : s # r => msgId'[s] = msgId[s]
    BY <1>2, <2>3 DEF TypeOK
  <2> QED
    BY <1>1, <1>2, <2>2, <2>4 DEF Correlated
<1>3. ASSUME NEW b \in Batch, SaveSingle(b) PROVE Correlated'
  BY <1>2, <1>3 DEF SaveSingle, Sender
<1>4. ASSUME NEW w \in Worker, SaveWorker(w) PROVE Correlated'
  BY <1>2, <1>4 DEF SaveWorker, Sender
\* ... or from a callback.
<1>5. ASSUME NEW v \in View, SaveCallback(v) PROVE Correlated'
  <2> DEFINE c == batchView[v].callback
             r == batchView[v].row
             i == IF c.id # NoVal THEN c.id ELSE batchView[v].msgId
  <2>1. batchView[v] # NoVal /\ msgId' = [msgId EXCEPT ![r] = i] /\ accepted' = accepted
    BY <1>5 DEF SaveCallback
  <2>2. i # NoVal => accepted[i] = r
    BY <2>1 DEF ViewsMatch
  <2>3. r \in Row
    BY <2>1 DEF TypeOK, BatchViews
  <2>4. msgId'[r] = i /\ \A s \in Row : s # r => msgId'[s] = msgId[s]
    BY <2>1, <2>3 DEF TypeOK
  <2> HIDE DEF c, r, i
  <2> QED
    BY <1>1, <2>1, <2>2, <2>4 DEF Correlated
<1>6. ASSUME msgId' = msgId PROVE Correlated'
  BY <1>1, <1>6 DEF Correlated
<1> QED
  BY <1>3, <1>4, <1>5, <1>6
     DEF Next, WebThread, AgentStep, JasminStep, ViewStep, vars,
         SubmitSingle, NotConfigured, SubmitRest, SubmitAsync, StartTask,
         CallSend, CallBatch, FailUnsent, Crash, JasminSend, JasminBatch, JasminItem,
         JasminRefuse, SaveBatch, SettleRows, WorkerRaises, Report, ReadCallback,
         DropCallback, ReadDlr, SaveDlr, DropDlr, ViewFails

\* Who holds which rows, and what their answers are worth, whatever numbers a
\* call names.
LEMMA HandsInvariant == Spec => []HandsInv
<1>1. Init => HandsInv
  BY CorrelationInit DEF CorrelationInv
<1>2. HandsInv /\ [Next]_vars => HandsInv'
  BY TypeStep, AnswersStep, HoldingsStep, OkAnswersStep DEF HandsInv
<1> QED
  BY <1>1, <1>2, PTL DEF Spec

LEMMA CorrelationInvariant ==
  ASSUME DistinctDestinations PROVE Spec => []CorrelationInv
<1>1. Init => CorrelationInv
  BY CorrelationInit
<1>2. CorrelationInv /\ [Next]_vars => CorrelationInv'
  BY TypeStep, AnswersStep, HoldingsStep, OkAnswersStep, ChunksStep, CallbacksStep,
     ViewsStep, CorrelatedStep DEF CorrelationInv, HandsInv
<1> QED
  BY <1>1, <1>2, PTL DEF Spec

\* The message id on a row is the id of that row's own message, on all three
\* paths and whatever crashes, timeouts, redeliveries and races of callbacks
\* happen, as long as no call names a number twice.
THEOREM Correlation ==
  ASSUME DistinctDestinations PROVE Spec => []Correlated
<1>1. CorrelationInv => Correlated
  BY DEF CorrelationInv
<1> QED
  BY <1>1, CorrelationInvariant, PTL

-----------------------------------------------------------------------------
(* Owners: a row is in the hands of its own web thread, or of workers when  *)
(* its call was handed to Celery, and never of both.                        *)

\* An agent has rows in a call only while the call lasts, has taken them off its
\* list before it calls, and a worker has rows of published tasks only.
Owners ==
  /\ \A a \in Agent : answer[a] = "none" => call[a] = {}
  /\ \A a \in Agent : todo[a] \cap call[a] = {}
  /\ \A w \in Worker : \A r \in todo[w] \cup call[w] :
       \E b \in Batch : r \in RowsOf[b] /\ mode[b] = "bulk_async"
  /\ \A b \in Batch : broker[b] > 0 => mode[b] = "bulk_async"

LEMMA OwnersInit == Init => Owners
BY AgentAssumption, ValueAssumption DEF Init, Owners, Agent

LEMMA OwnersStep == HandsInv /\ Owners /\ [Next]_vars => Owners'
<1> SUFFICES ASSUME HandsInv, Owners, [Next]_vars PROVE Owners'
  OBVIOUS
<1> USE AgentAssumption, ValueAssumption
    DEF Agent, columns, agents, jasmin, views, HandsInv, RestThread
\* A call that starts had no rows in its thread's hands and no task.
<1>1. ASSUME NEW b \in Batch, Start(b), NEW m \in {"single", "bulk_rest"},
             mode' = [mode EXCEPT ![b] = m], todo' = [todo EXCEPT ![b] = RowsOf[b]],
             UNCHANGED <<call, answer, broker>>
      PROVE  Owners'
  <2>1. mode[b] = "new" /\ answer[b] = "none" /\ call[b] = {} /\ ~(broker[b] > 0)
    BY <1>1 DEF Start, Owners, Answers
  <2>2. \A c \in Batch : c # b => mode'[c] = mode[c] /\ todo'[c] = todo[c]
    BY <1>1 DEF TypeOK
  <2>3. \A w \in Worker : todo'[w] = todo[w]
    BY <1>1 DEF TypeOK
  <2> QED
    BY <1>1, <2>1, <2>2, <2>3 DEF Owners, TypeOK
<1>2. ASSUME NEW b \in Batch, SubmitAsync(b) PROVE Owners'
  <2>1. mode[b] = "new"
    BY <1>2 DEF SubmitAsync, Start
  <2>2. mode'[b] = "bulk_async" /\ \A c \in Batch : c # b => mode'[c] = mode[c]
    BY <1>2 DEF SubmitAsync, TypeOK
  <2>3. \A c \in Batch : c # b => broker'[c] = broker[c]
    BY <1>2 DEF SubmitAsync, TypeOK
  <2>4. UNCHANGED <<todo, call, answer>>
    BY <1>2 DEF SubmitAsync
  <2> QED
    BY <2>1, <2>2, <2>3, <2>4 DEF Owners
<1>3. ASSUME NEW b \in Batch, NotConfigured(b) PROVE Owners'
  BY <1>3 DEF NotConfigured, Owners, TypeOK
<1>4. ASSUME NEW w \in Worker, NEW b \in Batch, StartTask(w, b) PROVE Owners'
  BY <1>4 DEF StartTask, Owners, TypeOK
<1>5. ASSUME NEW a \in Agent, NEW r \in Row, CallSend(a, r) PROVE Owners'
  BY <1>5 DEF CallSend, IsOldest, Owners, TypeOK
<1>6. ASSUME NEW a \in Agent, NEW S \in SUBSET todo[a], CallBatch(a, S) PROVE Owners'
  BY <1>6 DEF CallBatch, Owners, TypeOK
<1>7. ASSUME NEW a \in Agent, Freed(a), UNCHANGED <<mode, todo, broker>> PROVE Owners'
  BY <1>7 DEF Freed, Owners, TypeOK
<1>8. ASSUME NEW w \in Worker, NEW r \in Row, FailUnsent(w, r) PROVE Owners'
  BY <1>8 DEF FailUnsent, Owners, TypeOK
<1>9. ASSUME NEW a \in Agent, Crash(a) PROVE Owners'
  BY <1>9 DEF Crash, Freed, Owners, TypeOK
<1>10. ASSUME NEW a \in Agent, answer[a] = "waiting", UNCHANGED <<mode, todo, call, broker>>,
              \A c \in Agent : c # a => answer'[c] = answer[c], answer'[a] # "none"
       PROVE  Owners'
  BY <1>10 DEF Owners, TypeOK
<1>11. ASSUME NEW a \in Agent, NEW i \in MsgId, JasminSend(a, i) PROVE Owners'
  BY <1>10, <1>11 DEF JasminSend, Answered, TypeOK
<1>12. ASSUME NEW a \in Agent, JasminRefuse(a) PROVE Owners'
  BY <1>10, <1>12 DEF JasminRefuse, TypeOK
<1>13. ASSUME NEW b \in Batch, NEW k \in BatchId, JasminBatch(b, k) PROVE Owners'
  BY <1>10, <1>13 DEF JasminBatch, Answered, TypeOK
<1>14. ASSUME UNCHANGED <<mode, todo, call, answer, broker>> PROVE Owners'
  BY <1>14 DEF Owners
<1> QED
  BY <1>1, <1>2, <1>3, <1>4, <1>5, <1>6, <1>7, <1>8, <1>9, <1>11, <1>12, <1>13, <1>14
     DEF Next, WebThread, AgentStep, JasminStep, ViewStep, vars, SubmitSingle,
         SubmitRest, SaveSingle, SaveBatch, SettleRows, SaveWorker, WorkerRaises,
         JasminItem, Report, ReadCallback, SaveCallback, DropCallback, ReadDlr,
         SaveDlr, DropDlr, ViewFails

-----------------------------------------------------------------------------
(* Rows in the hands of their own thread are as that thread made them.      *)

\* The rows call b will create, and then those its thread still has to settle.
Own(b) == IF mode[b] = "new" THEN RowsOf[b] ELSE todo[b] \cup call[b]

Viewed(r) ==
  \E v \in View : \/ dlrView[v] # NoVal /\ dlrView[v].row = r
                  \/ batchView[v] # NoVal /\ batchView[v].row = r

\* Nobody has written to row r, and no callback view has found it.
Blank(r) ==
  /\ msgId[r] = NoVal /\ batchId[r] = NoVal
  /\ dlrStatus[r] = NoVal /\ ~deliveredAt[r]
  /\ ~Viewed(r)

Fresh ==
  \A b \in Batch : \A r \in Own(b) :
    /\ status[r] = IF mode[b] = "new" THEN "absent" ELSE "queued"
    /\ Blank(r)

OwnInv == HandsInv /\ Owners /\ Fresh

LEMMA FreshInit == Init => Fresh
BY AgentAssumption DEF Init, Fresh, Own, Blank, Viewed

\* The rows of call b are no worker's before they are handed to Celery, and never
\* another thread's.
LEMMA OwnRows ==
  ASSUME HandsInv, Owners, NEW b \in Batch, NEW r \in Own(b)
  PROVE  /\ r \in RowsOf[b] /\ r \in Row
         /\ \A c \in Batch : c # b => r \notin Own(c)
         /\ \A a \in Agent : a # b => r \notin todo[a] \cup call[a]
         /\ mode[b] # "bulk_async"
<1> USE AgentAssumption DEF Agent
<1>1. r \in RowsOf[b] /\ r \in Row
  BY DEF Own, HandsInv, Holdings
<1>2. mode[b] # "bulk_async"
  BY DEF Own, HandsInv, Answers, Owners
<1>3. \A c \in Batch : Own(c) \subseteq RowsOf[c]
  BY DEF Own, HandsInv, Holdings
<1>4. \A c \in Batch : c # b => r \notin RowsOf[c]
  BY <1>1
<1>5. \A w \in Worker : r \notin todo[w] \cup call[w]
  BY <1>2, <1>4 DEF Owners
<1>6. \A c \in Batch : c # b => r \notin todo[c] \cup call[c]
  BY <1>4 DEF HandsInv, Holdings
<1> QED
  BY <1>1, <1>2, <1>3, <1>4, <1>5, <1>6

LEMMA FreshStep == OwnInv /\ [Next]_vars => Fresh'
<1> SUFFICES ASSUME OwnInv, [Next]_vars PROVE Fresh'
  OBVIOUS
<1> USE AgentAssumption, ValueAssumption
    DEF Agent, columns, agents, jasmin, views, OwnInv, HandsInv
<1> DEFINE FreshIn(b, r) ==
             /\ status[r] = IF mode[b] = "new" THEN "absent" ELSE "queued"
             /\ Blank(r)
           Same(r) ==
             /\ status'[r] = status[r] /\ msgId'[r] = msgId[r]
             /\ batchId'[r] = batchId[r] /\ dlrStatus'[r] = dlrStatus[r]
             /\ deliveredAt'[r] = deliveredAt[r]
             /\ Viewed(r)' => Viewed(r)
\* A row that its thread keeps and the step does not write stays fresh.
<1>1. ASSUME NEW b \in Batch, NEW r \in Own(b),
             Same(r), mode'[b] = "new" <=> mode[b] = "new"
      PROVE  FreshIn(b, r)'
  BY <1>1 DEF Fresh, Blank
<1>2. ASSUME mode' = mode, \A b \in Batch : Own(b)' \subseteq Own(b),
             \A b \in Batch : \A r \in Own(b)' : Same(r)
      PROVE  Fresh'
  BY <1>1, <1>2 DEF Fresh
\* A call that starts saves its rows QUEUED, blank otherwise.
<1>3. ASSUME NEW b \in Batch, Start(b), mode' = [mode EXCEPT ![b] = mode'[b]],
             mode'[b] # "new", Own(b)' \subseteq RowsOf[b],
             \A c \in Batch : c # b => todo'[c] = todo[c],
             UNCHANGED <<msgId, batchId, dlrStatus, deliveredAt, call, views>>
      PROVE  Fresh'
  <2>1. Own(b) = RowsOf[b]
    BY <1>3 DEF Start, Own
  <2>2. \A r \in Row : Viewed(r)' <=> Viewed(r)
    BY <1>3 DEF Viewed
  <2>3. ASSUME NEW r \in Own(b)' PROVE FreshIn(b, r)'
    <3>1. r \in Own(b) /\ r \in Row /\ status'[r] = "queued" /\ Blank(r)
      BY <1>3, <2>1 DEF Start, Fresh
    <3> QED
      BY <1>3, <2>2, <3>1 DEF Blank
  <2>4. ASSUME NEW c \in Batch, c # b, NEW r \in Own(c)' PROVE FreshIn(c, r)'
    <3>1. mode'[c] = mode[c]
      BY <1>3, <2>4 DEF TypeOK
    <3>2. r \in Own(c)
      BY <1>3, <2>4, <3>1 DEF Own
    <3>3. r \in Row /\ r \notin RowsOf[b]
      BY <2>1, <2>4, <3>2, OwnRows
    <3>4. status'[r] = status[r]
      BY <1>3, <3>3 DEF Start
    <3> QED
      BY <1>1, <1>3, <2>2, <3>1, <3>2, <3>3, <3>4
  <2> QED
    BY <2>3, <2>4 DEF Fresh
<1>4. ASSUME NEW b \in Batch, SubmitSingle(b) \/ SubmitRest(b) \/ SubmitAsync(b)
      PROVE  Fresh'
  <2>1. Start(b) /\ call' = call
        /\ UNCHANGED <<msgId, batchId, dlrStatus, deliveredAt, views>>
    BY <1>4 DEF SubmitSingle, SubmitRest, SubmitAsync
  <2>2. \A c \in Batch : c # b => todo'[c] = todo[c]
    BY <1>4 DEF TypeOK, SubmitSingle, SubmitRest, SubmitAsync
  <2>3. mode' = [mode EXCEPT ![b] = mode'[b]] /\ mode'[b] # "new"
    BY <1>4 DEF TypeOK, SubmitSingle, SubmitRest, SubmitAsync
  <2>4. todo'[b] \subseteq RowsOf[b]
    <3>1. todo'[b] = RowsOf[b] \/ todo'[b] = todo[b]
      BY <1>4 DEF TypeOK, SubmitSingle, SubmitRest, SubmitAsync
    <3> QED
      BY <3>1 DEF Holdings
  <2>5. Own(b)' \subseteq RowsOf[b]
    BY <2>1, <2>3, <2>4 DEF Own, Holdings
  <2> QED
    BY <1>3, <2>1, <2>2, <2>3, <2>5
\* Rows change hands, and no row is written.
<1>5. ASSUME UNCHANGED <<columns, mode, views>>,
             \A b \in Batch : todo'[b] \cup call'[b] \subseteq todo[b] \cup call[b]
      PROVE  Fresh'
  <2>1. \A r \in Row : Same(r)
    BY <1>5 DEF Viewed
  <2>2. \A b \in Batch : Own(b)' \subseteq Own(b)
    BY <1>5 DEF Own
  <2>3. \A b \in Batch : \A r \in Own(b) : r \in Row
    BY OwnRows
  <2> QED
    BY <1>2, <1>5, <2>1, <2>2, <2>3
<1>6. ASSUME NEW b \in Batch, NotConfigured(b) PROVE Fresh'
  BY <1>5, <1>6 DEF NotConfigured, TypeOK
<1>7. ASSUME NEW w \in Worker, NEW b \in Batch, StartTask(w, b) PROVE Fresh'
  BY <1>5, <1>7 DEF StartTask, TypeOK
<1>8. ASSUME NEW a \in Agent, NEW r \in Row, CallSend(a, r) PROVE Fresh'
  BY <1>5, <1>8 DEF CallSend, IsOldest, TypeOK
<1>9. ASSUME NEW a \in Agent, NEW S \in SUBSET todo[a], CallBatch(a, S) PROVE Fresh'
  BY <1>5, <1>9 DEF CallBatch, TypeOK
<1>10. ASSUME NEW a \in Agent, Crash(a) PROVE Fresh'
  BY <1>5, <1>10 DEF Crash, Freed, TypeOK
<1>11. ASSUME UNCHANGED <<columns, mode, views, todo, call>> PROVE Fresh'
  BY <1>5, <1>11
\* Agent a saves rows it holds, and lets them go.
<1>12. ASSUME NEW a \in Agent, UNCHANGED <<mode, views>>, NEW S \in SUBSET Row,
              S \subseteq todo[a] \cup call[a],
              a \in Batch => (todo'[a] \cup call'[a]) \cap S = {},
              \A c \in Batch : todo'[c] \cup call'[c] \subseteq todo[c] \cup call[c],
              \A r \in Row \ S :
                /\ status'[r] = status[r] /\ msgId'[r] = msgId[r]
                /\ batchId'[r] = batchId[r] /\ dlrStatus'[r] = dlrStatus[r]
                /\ deliveredAt'[r] = deliveredAt[r],
              a \in Batch => mode[a] # "new"
       PROVE  Fresh'
  <2>1. \A b \in Batch : Own(b)' \subseteq Own(b)
    BY <1>12 DEF Own
  <2>2. ASSUME NEW b \in Batch, NEW r \in Own(b)' PROVE r \in Row \ S
    <3>1. r \in Own(b) /\ r \in Row
      BY <2>1, OwnRows
    <3>2. CASE b = a
      BY <1>12, <2>2, <3>1, <3>2 DEF Own
    <3>3. CASE b # a
      BY <1>12, <3>1, <3>3, OwnRows
    <3> QED
      BY <3>2, <3>3
  <2>3. \A r \in Row : Viewed(r)' <=> Viewed(r)
    BY <1>12 DEF Viewed
  <2>4. \A b \in Batch : \A r \in Own(b)' : Same(r)
    BY <1>12, <2>2, <2>3
  <2> QED
    BY <1>2, <1>12, <2>1, <2>4
<1>13. ASSUME NEW b \in Batch, SaveSingle(b) PROVE Fresh'
  <2>1. PICK r \in call[b] : 
          /\ status' = [status EXCEPT ![r] = Outcome(b)]
          /\ msgId' = [msgId EXCEPT ![r] = ref[b]]
          /\ batchId' = [batchId EXCEPT ![r] = NoVal]
          /\ dlrStatus' = [dlrStatus EXCEPT ![r] = NoVal]
          /\ deliveredAt' = [deliveredAt EXCEPT ![r] = FALSE]
    BY <1>13 DEF SaveSingle
  <2>2. mode[b] = "single" /\ answer[b] # "none" /\ UNCHANGED <<mode, views, todo>>
        /\ call' = [call EXCEPT ![b] = {}]
    BY <1>13 DEF SaveSingle, Freed
  <2>3. call[b] = {r} /\ {r} \in SUBSET Row
    BY <2>1, <2>2 DEF Holdings, Sender, TypeOK
  <2>4. todo'[b] \cup call'[b] = todo[b] /\ todo[b] \cap {r} = {}
    BY <2>2, <2>3 DEF TypeOK, Owners
  <2>5. \A c \in Batch : todo'[c] \cup call'[c] \subseteq todo[c] \cup call[c]
    BY <2>2 DEF TypeOK
  <2>6. \A s \in Row \ {r} :
          /\ status'[s] = status[s] /\ msgId'[s] = msgId[s]
          /\ batchId'[s] = batchId[s] /\ dlrStatus'[s] = dlrStatus[s]
          /\ deliveredAt'[s] = deliveredAt[s]
    BY <2>1 DEF TypeOK
  <2>7. {r} \subseteq todo[b] \cup call[b] /\ (todo'[b] \cup call'[b]) \cap {r} = {}
    BY <2>3, <2>4
  <2> QED
    BY <1>12, <2>2, <2>3, <2>5, <2>6, <2>7
<1>14. ASSUME NEW b \in Batch, SaveBatch(b) PROVE Fresh'
  <2>1. mode[b] = "bulk_rest" /\ UNCHANGED <<msgId, dlrStatus, deliveredAt, mode, views, todo>>
        /\ call' = [call EXCEPT ![b] = {}]
    BY <1>14 DEF SaveBatch, SettleRows, RestThread, Freed
  <2>2. \A r \in Row \ call[b] : status'[r] = status[r] /\ batchId'[r] = batchId[r]
    BY <1>14 DEF SaveBatch, SettleRows
  <2>3. todo'[b] \cup call'[b] = todo[b] /\ todo[b] \cap call[b] = {}
    BY <2>1 DEF TypeOK, Owners
  <2>4. \A c \in Batch : todo'[c] \cup call'[c] \subseteq todo[c] \cup call[c]
    BY <2>1 DEF TypeOK
  <2>5. call[b] \in SUBSET Row
    BY DEF TypeOK
  <2> QED
    BY <1>12, <2>1, <2>2, <2>3, <2>4, <2>5
<1>15. ASSUME NEW w \in Worker, SaveWorker(w) \/ WorkerRaises(w) PROVE Fresh'
  <2>1. PICK r \in call[w] : \A s \in Row \ {r} : status'[s] = status[s] /\ msgId'[s] = msgId[s]
    BY <1>15 DEF SaveWorker, WorkerRaises, TypeOK
  <2>2. UNCHANGED <<batchId, dlrStatus, deliveredAt, mode, todo, views>>
        /\ call' = [call EXCEPT ![w] = {}]
    BY <1>15 DEF SaveWorker, WorkerRaises, Freed
  <2>3. \A c \in Batch : todo'[c] \cup call'[c] \subseteq todo[c] \cup call[c]
    BY <2>2 DEF TypeOK
  <2>4. {r} \in SUBSET Row /\ {r} \subseteq todo[w] \cup call[w] /\ w \notin Batch
    BY <2>1 DEF TypeOK
  <2>5. \A s \in Row \ {r} :
          /\ status'[s] = status[s] /\ msgId'[s] = msgId[s]
          /\ batchId'[s] = batchId[s] /\ dlrStatus'[s] = dlrStatus[s]
          /\ deliveredAt'[s] = deliveredAt[s]
    BY <2>1, <2>2
  <2> QED
    BY <1>12, <2>2, <2>3, <2>4, <2>5
<1>16. ASSUME NEW w \in Worker, NEW r \in Row, FailUnsent(w, r) PROVE Fresh'
  <2>1. r \in todo[w] /\ \A s \in Row \ {r} : status'[s] = status[s]
    BY <1>16 DEF FailUnsent, IsOldest, TypeOK
  <2>2. UNCHANGED <<msgId, batchId, dlrStatus, deliveredAt, mode, call, views>>
    BY <1>16 DEF FailUnsent
  <2>3. \A c \in Batch : todo'[c] \cup call'[c] \subseteq todo[c] \cup call[c]
    BY <1>16 DEF FailUnsent, TypeOK
  <2>4. {r} \in SUBSET Row /\ {r} \subseteq todo[w] \cup call[w] /\ w \notin Batch
    BY <2>1
  <2>5. \A s \in Row \ {r} :
          /\ status'[s] = status[s] /\ msgId'[s] = msgId[s]
          /\ batchId'[s] = batchId[s] /\ dlrStatus'[s] = dlrStatus[s]
          /\ deliveredAt'[s] = deliveredAt[s]
    BY <2>1, <2>2
  <2> QED
    BY <1>12, <2>2, <2>3, <2>4, <2>5
\* A view finds no fresh row, by batch id or by message id; so it writes none.
<1>17. ASSUME UNCHANGED <<mode, todo, call>>,
              \A b \in Batch : \A r \in Own(b) : Same(r)
       PROVE  Fresh'
  <2>1. \A b \in Batch : Own(b)' = Own(b)
    BY <1>17 DEF Own
  <2> QED
    BY <1>2, <1>17, <2>1
<1>18. ASSUME NEW v \in View, NEW c \in callbacks, NEW s \in Row, ReadCallback(v, c, s)
       PROVE  Fresh'
  <2>1. batchId[s] = c.batch /\ c.batch # NoVal
    BY <1>18 DEF ReadCallback, IsNewest, CallbackRows, TypeOK, Callbacks
  <2>2. /\ UNCHANGED <<columns, mode, todo, call, dlrView>>
        /\ \A u \in View : u # v => batchView'[u] = batchView[u]
        /\ batchView'[v].row = s
    BY <1>18 DEF ReadCallback, TypeOK
  <2>3. ASSUME NEW r \in Row, Viewed(r)', r # s PROVE Viewed(r)
    <3>1. PICK u \in View : \/ dlrView'[u] # NoVal /\ dlrView'[u].row = r
                            \/ batchView'[u] # NoVal /\ batchView'[u].row = r
      BY <2>3 DEF Viewed
    <3> QED
      BY <2>2, <2>3, <3>1 DEF Viewed
  <2>4. \A b \in Batch : \A r \in Own(b) : r \in Row /\ r # s
    BY <2>1, OwnRows DEF Fresh, Blank
  <2> QED
    BY <1>17, <2>2, <2>3, <2>4
<1>19. ASSUME NEW v \in View, NEW d \in reports, NEW s \in Row, ReadDlr(v, d, s)
       PROVE  Fresh'
  <2>1. msgId[s] = d.id /\ d.id # NoVal
    BY <1>19 DEF ReadDlr, IsNewest, ReportRows, TypeOK, Reports
  <2>2. /\ UNCHANGED <<columns, mode, todo, call, batchView>>
        /\ \A u \in View : u # v => dlrView'[u] = dlrView[u]
        /\ dlrView'[v].row = s
    BY <1>19 DEF ReadDlr, TypeOK
  <2>3. ASSUME NEW r \in Row, Viewed(r)', r # s PROVE Viewed(r)
    <3>1. PICK u \in View : \/ dlrView'[u] # NoVal /\ dlrView'[u].row = r
                            \/ batchView'[u] # NoVal /\ batchView'[u].row = r
      BY <2>3 DEF Viewed
    <3> QED
      BY <2>2, <2>3, <3>1 DEF Viewed
  <2>4. \A b \in Batch : \A r \in Own(b) : r \in Row /\ r # s
    BY <2>1, OwnRows DEF Fresh, Blank
  <2> QED
    BY <1>17, <2>2, <2>3, <2>4
<1>20. ASSUME NEW s \in Row, Viewed(s), UNCHANGED <<mode, todo, call>>,
              \A r \in Row \ {s} :
                /\ status'[r] = status[r] /\ msgId'[r] = msgId[r]
                /\ batchId'[r] = batchId[r] /\ dlrStatus'[r] = dlrStatus[r]
                /\ deliveredAt'[r] = deliveredAt[r],
              \A r \in Row : Viewed(r)' => Viewed(r)
       PROVE  Fresh'
  <2>1. \A b \in Batch : \A r \in Own(b) : r \in Row /\ r # s
    BY <1>20, OwnRows DEF Fresh, Blank
  <2> QED
    BY <1>17, <1>20, <2>1
<1>21. ASSUME NEW v \in View, SaveCallback(v) PROVE Fresh'
  <2>1. batchView[v] # NoVal /\ batchView[v].row \in Row
    BY <1>21 DEF SaveCallback, TypeOK, BatchViews
  <2>2. \A r \in Row \ {batchView[v].row} : status'[r] = status[r] /\ msgId'[r] = msgId[r]
    BY <1>21 DEF SaveCallback, TypeOK
  <2>3. UNCHANGED <<batchId, dlrStatus, deliveredAt, mode, todo, call>>
    BY <1>21 DEF SaveCallback
  <2>4. \A r \in Row : Viewed(r)' => Viewed(r)
    BY <1>21 DEF SaveCallback, TypeOK, Viewed
  <2>5. Viewed(batchView[v].row)
    BY <2>1 DEF Viewed
  <2> QED
    BY <1>20, <2>1, <2>2, <2>3, <2>4, <2>5
<1>22. ASSUME NEW v \in View, SaveDlr(v) PROVE Fresh'
  <2>1. dlrView[v] # NoVal /\ dlrView[v].row \in Row
    BY <1>22 DEF SaveDlr, TypeOK, DlrViews
  <2>2. \A r \in Row \ {dlrView[v].row} :
          status'[r] = status[r] /\ dlrStatus'[r] = dlrStatus[r]
          /\ deliveredAt'[r] = deliveredAt[r]
    BY <1>22 DEF SaveDlr, TypeOK
  <2>3. UNCHANGED <<msgId, batchId, mode, todo, call>>
    BY <1>22 DEF SaveDlr
  <2>4. \A r \in Row : Viewed(r)' => Viewed(r)
    BY <1>22 DEF SaveDlr, TypeOK, Viewed
  <2> QED
    BY <1>20, <2>1, <2>2, <2>3, <2>4 DEF Viewed
<1>23. ASSUME NEW v \in View, ViewFails(v) PROVE Fresh'
  <2>1. \A r \in Row : Same(r)
    BY <1>23 DEF ViewFails, TypeOK, Viewed
  <2>2. \A b \in Batch : \A r \in Own(b) : r \in Row
    BY OwnRows
  <2>3. UNCHANGED <<mode, todo, call>>
    BY <1>23 DEF ViewFails
  <2>4. \A b \in Batch : \A r \in Own(b) : Same(r)
    BY <2>1, <2>2
  <2> HIDE DEF Same
  <2> QED
    BY <1>17, <2>3, <2>4
<1> QED
  BY <1>4, <1>6, <1>7, <1>8, <1>9, <1>10, <1>11, <1>13, <1>14, <1>15, <1>16, <1>18,
     <1>19, <1>21, <1>22, <1>23
     DEF Next, WebThread, AgentStep, JasminStep, ViewStep, vars, JasminSend,
         JasminRefuse, JasminBatch, JasminItem, Report, DropCallback, DropDlr

LEMMA OwnInvariant == Spec => []OwnInv
<1>1. Init => Owners /\ Fresh
  BY OwnersInit, FreshInit
<1>2. HandsInv /\ HandsInv' /\ Owners /\ Fresh /\ [Next]_vars => (Owners /\ Fresh)'
  BY OwnersStep, FreshStep DEF OwnInv
<1> QED
  BY <1>1, <1>2, HandsInvariant, PTL DEF Spec, OwnInv

\* The full save of a web thread overwrites nothing: until it saves a row, that
\* row is as the thread created it, whatever the callbacks and the workers do.
THEOREM ThreadOwnsItsRows == Spec => []OwnedRowsUntouched
<1>1. OwnInv => OwnedRowsUntouched
  <2> SUFFICES ASSUME OwnInv, NEW b \in Batch, NEW r \in todo[b] \cup call[b]
      PROVE  /\ status[r] = "queued" /\ msgId[r] = NoVal /\ batchId[r] = NoVal
             /\ dlrStatus[r] = NoVal /\ ~deliveredAt[r]
    BY DEF OwnedRowsUntouched
  <2>1. mode[b] # "new"
    BY AgentAssumption DEF OwnInv, HandsInv, Answers, Owners, Agent
  <2> QED
    BY <2>1 DEF OwnInv, Fresh, Own, Blank
<1> QED
  BY <1>1, OwnInvariant, PTL

-----------------------------------------------------------------------------
(* What a step may do to one row, and to one view.                          *)

Kept(r) ==
  /\ status'[r] = status[r] /\ msgId'[r] = msgId[r] /\ batchId'[r] = batchId[r]
  /\ dlrStatus'[r] = dlrStatus[r] /\ deliveredAt'[r] = deliveredAt[r]

CreatedBy(b, r) ==
  /\ mode[b] = "new" /\ mode'[b] # "new" /\ r \in RowsOf[b]
  /\ status'[r] = "queued"
  /\ msgId'[r] = msgId[r] /\ batchId'[r] = batchId[r]
  /\ dlrStatus'[r] = dlrStatus[r] /\ deliveredAt'[r] = deliveredAt[r]

SavedBy(a, r) ==
  /\ r \in todo[a] \cup call[a]
  /\ \/ /\ status'[r] = "submitted" /\ answer[a] = "ok" /\ r \in call[a]
        /\ Sender(a) => msgId'[r] = ref[a]
     \/ status'[r] = "failed"
  /\ \/ msgId'[r] = msgId[r]
     \/ Sender(a) /\ r \in call[a] /\ answer[a] # "none" /\ msgId'[r] = ref[a]
  /\ \/ batchId'[r] \in {batchId[r], NoVal}
     \/ RestThread(a) /\ r \in call[a] /\ answer[a] = "ok" /\ batchId'[r] = ref[a]
  /\ \/ dlrStatus'[r] = dlrStatus[r] /\ deliveredAt'[r] = deliveredAt[r]
     \/ a \in Batch /\ dlrStatus'[r] = NoVal /\ deliveredAt'[r] = FALSE

CalledBack(v, r) ==
  /\ batchView[v] # NoVal /\ batchView[v].row = r
  /\ status'[r] \in {"submitted", "failed"}
  /\ msgId'[r] \in {batchView[v].callback.id, batchView[v].msgId}
  /\ batchId'[r] = batchId[r]
  /\ dlrStatus'[r] = dlrStatus[r] /\ deliveredAt'[r] = deliveredAt[r]

ReceiptedBy(v, r) ==
  /\ dlrView[v] # NoVal /\ dlrView[v].row = r /\ dlrView'[v] = NoVal
  /\ status'[r] = StatusAfter(dlrView[v].report, dlrView[v].status)
  /\ deliveredAt'[r] = StampAfter(dlrView[v].report, dlrView[v].deliveredAt)
  /\ dlrStatus'[r] = dlrView[v].report.stat
  /\ msgId'[r] = msgId[r] /\ batchId'[r] = batchId[r]

LEMMA RowStep ==
  ASSUME HandsInv, [Next]_vars, NEW r \in Row
  PROVE  \/ Kept(r)
         \/ \E b \in Batch : CreatedBy(b, r)
         \/ \E a \in Agent : SavedBy(a, r) /\ UNCHANGED <<accepted, chunk>>
         \/ \E v \in View : CalledBack(v, r) \/ ReceiptedBy(v, r)
<1> DEFINE Done == \/ Kept(r)
                   \/ \E b \in Batch : CreatedBy(b, r)
                   \/ \E a \in Agent : SavedBy(a, r) /\ UNCHANGED <<accepted, chunk>>
                   \/ \E v \in View : CalledBack(v, r) \/ ReceiptedBy(v, r)
<1> SUFFICES Done
  OBVIOUS
<1> USE AgentAssumption, ValueAssumption
    DEF Agent, columns, agents, jasmin, views, HandsInv
<1>1. ASSUME NEW b \in Batch, SubmitSingle(b) \/ SubmitRest(b) \/ SubmitAsync(b)
      PROVE  Done
  <2>1. Start(b) /\ UNCHANGED <<msgId, batchId, dlrStatus, deliveredAt>>
    BY <1>1 DEF SubmitSingle, SubmitRest, SubmitAsync
  <2>2. mode'[b] # "new"
    BY <1>1 DEF SubmitSingle, SubmitRest, SubmitAsync, TypeOK
  <2> QED
    BY <2>1, <2>2 DEF Start, Kept, CreatedBy
<1>2. ASSUME NEW b \in Batch, SaveSingle(b) PROVE Done
  <2>1. PICK s \in call[b] :
          /\ status' = [status EXCEPT ![s] = Outcome(b)]
          /\ msgId' = [msgId EXCEPT ![s] = ref[b]]
          /\ batchId' = [batchId EXCEPT ![s] = NoVal]
          /\ dlrStatus' = [dlrStatus EXCEPT ![s] = NoVal]
          /\ deliveredAt' = [deliveredAt EXCEPT ![s] = FALSE]
    BY <1>2 DEF SaveSingle
  <2>2. CASE r = s
    <3>1. Sender(b) /\ answer[b] # "none" /\ UNCHANGED <<accepted, chunk>>
      BY <1>2 DEF SaveSingle, Sender
    <3>2. status'[r] = Outcome(b) /\ msgId'[r] = ref[b] /\ batchId'[r] = NoVal
          /\ dlrStatus'[r] = NoVal /\ deliveredAt'[r] = FALSE
      BY <2>1, <2>2 DEF TypeOK
    <3>3. SavedBy(b, r)
      BY <2>1, <2>2, <3>1, <3>2 DEF SavedBy, Outcome
    <3> QED
      BY <3>1, <3>3
  <2>3. CASE r # s
    BY <2>1, <2>3 DEF Kept, TypeOK
  <2> QED
    BY <2>2, <2>3
<1>3. ASSUME NEW b \in Batch, SaveBatch(b) PROVE Done
  <2>1. RestThread(b) /\ UNCHANGED <<msgId, dlrStatus, deliveredAt, accepted, chunk>>
    BY <1>3 DEF SaveBatch, SettleRows
  <2>2. CASE r \in call[b]
    <3>1. status'[r] = Outcome(b)
          /\ batchId'[r] = IF answer[b] = "ok" THEN ref[b] ELSE batchId[r]
      BY <1>3, <2>2 DEF SaveBatch, SettleRows
    <3>2. SavedBy(b, r)
      BY <2>1, <2>2, <3>1 DEF SavedBy, Outcome, Sender, RestThread
    <3> QED
      BY <2>1, <3>2
  <2>3. CASE r \notin call[b]
    BY <1>3, <2>1, <2>3 DEF SaveBatch, SettleRows, Kept
  <2> QED
    BY <2>2, <2>3
<1>4. ASSUME NEW w \in Worker, SaveWorker(w) PROVE Done
  <2>1. PICK s \in call[w] : /\ status' = [status EXCEPT ![s] = Outcome(w)]
                             /\ msgId' = [msgId EXCEPT ![s] = ref[w]]
    BY <1>4 DEF SaveWorker
  <2>2. /\ UNCHANGED <<batchId, dlrStatus, deliveredAt, accepted, chunk>>
        /\ answer[w] # "none" /\ Sender(w)
    BY <1>4 DEF SaveWorker, Sender
  <2>3. CASE r = s
    <3>1. status'[r] = Outcome(w) /\ msgId'[r] = ref[w]
      BY <2>1, <2>3 DEF TypeOK
    <3>2. SavedBy(w, r)
      BY <2>1, <2>2, <2>3, <3>1 DEF SavedBy, Outcome
    <3> QED
      BY <2>2, <3>2
  <2>4. CASE r # s
    BY <2>1, <2>2, <2>4 DEF Kept, TypeOK
  <2> QED
    BY <2>3, <2>4
<1>5. ASSUME NEW w \in Worker, NEW s \in todo[w] \cup call[w],
             status' = [status EXCEPT ![s] = "failed"],
             UNCHANGED <<msgId, batchId, dlrStatus, deliveredAt, accepted, chunk>>
      PROVE  Done
  <2>1. CASE r = s
    BY <1>5, <2>1 DEF SavedBy, TypeOK
  <2>2. CASE r # s
    BY <1>5, <2>2 DEF Kept, TypeOK
  <2> QED
    BY <2>1, <2>2
<1>6. ASSUME NEW w \in Worker, WorkerRaises(w) PROVE Done
  BY <1>5, <1>6 DEF WorkerRaises
<1>7. ASSUME NEW w \in Worker, NEW s \in Row, FailUnsent(w, s) PROVE Done
  BY <1>5, <1>7 DEF FailUnsent, IsOldest
<1>8. ASSUME NEW v \in View, SaveCallback(v) PROVE Done
  <2> DEFINE c == batchView[v].callback
             s == batchView[v].row
  <2>1. /\ batchView[v] # NoVal /\ s \in Row
        /\ msgId' = [msgId EXCEPT ![s] = IF c.id # NoVal THEN c.id ELSE batchView[v].msgId]
        /\ status' = [status EXCEPT ![s] = CallbackStatus(c)]
        /\ UNCHANGED <<batchId, dlrStatus, deliveredAt>>
    BY <1>8 DEF SaveCallback, TypeOK, BatchViews
  <2>2. CASE r = s
    <3>1. /\ msgId'[r] = IF c.id # NoVal THEN c.id ELSE batchView[v].msgId
          /\ status'[r] = CallbackStatus(c)
      BY <2>1, <2>2 DEF TypeOK
    <3>2. CalledBack(v, r)
      BY <2>1, <2>2, <3>1 DEF CalledBack, CallbackStatus
    <3> QED
      BY <3>2
  <2>3. CASE r # s
    <3> HIDE DEF c, s
    <3> QED
      BY <2>1, <2>3 DEF Kept, TypeOK
  <2> QED
    BY <2>2, <2>3
<1>9. ASSUME NEW v \in View, SaveDlr(v) PROVE Done
  <2> DEFINE d == dlrView[v].report
             s == dlrView[v].row
  <2>1. /\ dlrView[v] # NoVal /\ s \in Row /\ dlrView'[v] = NoVal
        /\ status' = [status EXCEPT ![s] = StatusAfter(d, dlrView[v].status)]
        /\ deliveredAt' = [deliveredAt EXCEPT ![s] = StampAfter(d, dlrView[v].deliveredAt)]
        /\ dlrStatus' = [dlrStatus EXCEPT ![s] = d.stat]
        /\ UNCHANGED <<msgId, batchId>>
    BY <1>9 DEF SaveDlr, TypeOK, DlrViews
  <2>2. CASE r = s
    <3>1. /\ status'[r] = StatusAfter(d, dlrView[v].status)
          /\ deliveredAt'[r] = StampAfter(d, dlrView[v].deliveredAt)
          /\ dlrStatus'[r] = d.stat
      BY <2>1, <2>2 DEF TypeOK
    <3>2. ReceiptedBy(v, r)
      BY <2>1, <2>2, <3>1 DEF ReceiptedBy
    <3> QED
      BY <3>2
  <2>3. CASE r # s
    <3> HIDE DEF d, s
    <3> QED
      BY <2>1, <2>3 DEF Kept, TypeOK
  <2> QED
    BY <2>2, <2>3
<1>10. ASSUME UNCHANGED columns PROVE Done
  BY <1>10 DEF Kept
<1> HIDE DEF Done
<1> QED
  BY <1>1, <1>2, <1>3, <1>4, <1>6, <1>7, <1>8, <1>9, <1>10
     DEF Next, WebThread, AgentStep, JasminStep, ViewStep, vars, NotConfigured,
         StartTask, CallSend, CallBatch, Crash, JasminSend, JasminRefuse,
         JasminBatch, JasminItem, Report, ReadCallback, DropCallback, ReadDlr,
         DropDlr, ViewFails

\* A view keeps what it read, or is done with it, or reads a row now, which it
\* finds by an id on that row.
LEMMA ViewReads ==
  ASSUME HandsInv, [Next]_vars, NEW v \in View
  PROVE  /\ \/ dlrView'[v] \in {dlrView[v], NoVal}
            \/ /\ UNCHANGED <<columns, accepted, chunk, reports>>
               /\ \E d \in reports, r \in Row :
                    /\ msgId[r] = d.id
                    /\ dlrView'[v] = [report |-> d, row |-> r, status |-> status[r],
                                      deliveredAt |-> deliveredAt[r]]
         /\ \/ batchView'[v] \in {batchView[v], NoVal}
            \/ /\ UNCHANGED <<accepted, chunk>>
               /\ batchView'[v].row \in Row /\ batchId[batchView'[v].row] # NoVal
<1> DEFINE Dlr == \/ dlrView'[v] \in {dlrView[v], NoVal}
                  \/ /\ UNCHANGED <<columns, accepted, chunk, reports>>
                     /\ \E d \in reports, r \in Row :
                          /\ msgId[r] = d.id
                          /\ dlrView'[v] = [report |-> d, row |-> r, status |-> status[r],
                                            deliveredAt |-> deliveredAt[r]]
           Bat == \/ batchView'[v] \in {batchView[v], NoVal}
                  \/ /\ UNCHANGED <<accepted, chunk>>
                     /\ batchView'[v].row \in Row /\ batchId[batchView'[v].row] # NoVal
<1> USE ValueAssumption DEF columns, agents, jasmin, views, HandsInv
<1>1. ASSUME NEW u \in View, NEW d \in reports, NEW r \in Row, ReadDlr(u, d, r)
      PROVE  Dlr /\ Bat
  <2>1. /\ UNCHANGED <<columns, accepted, chunk, reports, batchView>>
        /\ msgId[r] = d.id
        /\ dlrView' = [dlrView EXCEPT
             ![u] = [report |-> d, row |-> r, status |-> status[r],
                     deliveredAt |-> deliveredAt[r]]]
    BY <1>1 DEF ReadDlr, IsNewest, ReportRows
  <2>2. CASE u = v
    BY <2>1, <2>2 DEF TypeOK
  <2>3. CASE u # v
    BY <2>1, <2>3 DEF TypeOK
  <2> QED
    BY <2>2, <2>3
<1>2. ASSUME NEW u \in View, NEW c \in callbacks, NEW r \in Row, ReadCallback(u, c, r)
      PROVE  Dlr /\ Bat
  <2>1. /\ UNCHANGED <<accepted, chunk, dlrView>>
        /\ batchId[r] = c.batch /\ c.batch # NoVal
        /\ batchView' = [batchView EXCEPT
             ![u] = [callback |-> c, row |-> r, msgId |-> msgId[r]]]
    BY <1>2 DEF ReadCallback, IsNewest, CallbackRows, TypeOK, Callbacks
  <2>2. CASE u = v
    BY <2>1, <2>2 DEF TypeOK
  <2>3. CASE u # v
    BY <2>1, <2>3 DEF TypeOK
  <2> QED
    BY <2>2, <2>3
<1>3. ASSUME NEW u \in View, SaveCallback(u) \/ SaveDlr(u) \/ ViewFails(u)
      PROVE  Dlr /\ Bat
  BY <1>3 DEF SaveCallback, SaveDlr, ViewFails, TypeOK
<1>4. ASSUME UNCHANGED views PROVE Dlr /\ Bat
  BY <1>4
<1> HIDE DEF Dlr, Bat
<1>5. Dlr /\ Bat
  BY <1>1, <1>2, <1>3, <1>4
     DEF Next, WebThread, AgentStep, JasminStep, ViewStep, vars,
         SubmitSingle, NotConfigured, SubmitRest, SubmitAsync, StartTask,
         CallSend, CallBatch, FailUnsent, Crash, SaveSingle, SaveBatch, SettleRows,
         SaveWorker, WorkerRaises, JasminSend, JasminRefuse, JasminBatch, JasminItem,
         Report, DropCallback, DropDlr
<1> QED
  BY <1>5 DEF Dlr, Bat

-----------------------------------------------------------------------------
(* What stands behind a status.                                             *)

\* Jasmin holds row r: as a message, or inside a sendbatch request it answered.
Backed(r) == AcceptedAs(r) # {} \/ \E k \in BatchId : r \in chunk[k]

\* An id on a row, and a view that found the row by one, are evidence enough.
Backing ==
  /\ \A r \in Row : msgId[r] # NoVal \/ batchId[r] # NoVal => Backed(r)
  /\ \A v \in View :
       /\ dlrView[v] # NoVal => Backed(dlrView[v].row)
       /\ batchView[v] # NoVal => Backed(batchView[v].row)
  /\ StatusBacked

LEMMA BackingInit == Init => Backing
BY DEF Init, Backing, StatusBacked

LEMMA BackedStays ==
  ASSUME HandsInv, [Next]_vars, NEW r \in Row, Backed(r)
  PROVE  Backed(r)'
<1>1. CASE AcceptedAs(r) # {}
  <2>1. PICK i \in MsgId : accepted[i] = r
    BY <1>1 DEF AcceptedAs
  <2>2. accepted'[i] = r
    BY <2>1, IdsStay, ValueAssumption DEF HandsInv
  <2> QED
    BY <2>2 DEF Backed, AcceptedAs
<1>2. CASE \E k \in BatchId : r \in chunk[k]
  BY <1>2, IdsStay DEF Backed, HandsInv
<1> QED
  BY <1>1, <1>2 DEF Backed

\* A row whose call Jasmin answered with ok is held by Jasmin.
LEMMA AnswerBacks ==
  ASSUME HandsInv, NEW a \in Agent, answer[a] = "ok", NEW r \in call[a]
  PROVE  Backed(r)
<1> USE AgentAssumption DEF Agent, HandsInv
<1>1. CASE Sender(a)
  <2>1. call[a] = {r} /\ ref[a] \in MsgId
    BY <1>1 DEF Holdings, Answers, Sender, RestThread
  <2>2. accepted[ref[a]] = r
    BY <1>1, <2>1 DEF OkAnswers
  <2> QED
    BY <2>1, <2>2 DEF Backed, AcceptedAs
<1>2. CASE RestThread(a)
  <2>1. ref[a] \in BatchId /\ chunk[ref[a]] = call[a]
    BY <1>2 DEF Answers, OkAnswers
  <2> QED
    BY <2>1 DEF Backed
<1>3. Sender(a) \/ RestThread(a)
  BY DEF Answers, TypeOK, Sender, RestThread
<1> QED
  BY <1>1, <1>2, <1>3

LEMMA BackingStep == HandsInv /\ Backing /\ [Next]_vars => Backing'
<1> SUFFICES ASSUME HandsInv, Backing, [Next]_vars PROVE Backing'
  OBVIOUS
<1> USE ValueAssumption
<1>1. ASSUME NEW r \in Row
      PROVE  msgId'[r] # NoVal \/ batchId'[r] # NoVal
               \/ status'[r] \notin {"absent", "queued", "failed"} => Backed(r)'
  <2> DEFINE Evidence == msgId[r] # NoVal \/ batchId[r] # NoVal
                         \/ status[r] \notin {"absent", "queued", "failed"}
  <2>1. Evidence => Backed(r)
    BY DEF Backing, StatusBacked, Backed
  <2>2. CASE Kept(r)
    BY <2>1, <2>2, BackedStays DEF Kept
  <2>3. ASSUME NEW b \in Batch, CreatedBy(b, r) PROVE Evidence' => Backed(r)'
    BY <2>1, <2>3, BackedStays DEF CreatedBy
  <2>4. ASSUME NEW a \in Agent, SavedBy(a, r) PROVE Evidence' => Backed(r)'
    <3>1. answer[a] = "ok" /\ r \in call[a] => Backed(r)'
      BY AnswerBacks, BackedStays
    <3>2. ref[a] # NoVal => answer[a] = "ok"
      BY DEF HandsInv, Answers
    <3>3. status'[r] \notin {"absent", "queued", "failed"} => Backed(r)'
      BY <2>4, <3>1 DEF SavedBy
    <3>4. msgId'[r] # NoVal => Backed(r)'
      BY <2>1, <2>4, <3>1, <3>2, BackedStays DEF SavedBy
    <3>5. batchId'[r] # NoVal => Backed(r)'
      BY <2>1, <2>4, <3>1, BackedStays DEF SavedBy
    <3> QED
      BY <3>3, <3>4, <3>5
  <2>5. ASSUME NEW v \in View, CalledBack(v, r) \/ ReceiptedBy(v, r)
        PROVE  Evidence' => Backed(r)'
    <3>1. Backed(r)
      BY <2>5 DEF Backing, CalledBack, ReceiptedBy
    <3> QED
      BY <3>1, BackedStays
  <2> QED
    BY <2>2, <2>3, <2>4, <2>5, RowStep
<1>2. ASSUME NEW v \in View, NEW r \in Row,
             \/ dlrView'[v] # NoVal /\ dlrView'[v].row = r
             \/ batchView'[v] # NoVal /\ batchView'[v].row = r
      PROVE  Backed(r)'
  <2>1. CASE dlrView'[v] = dlrView[v] /\ dlrView'[v] # NoVal /\ dlrView'[v].row = r
    BY <2>1, BackedStays DEF Backing
  <2>2. CASE batchView'[v] = batchView[v] /\ batchView'[v] # NoVal /\ batchView'[v].row = r
    BY <2>2, BackedStays DEF Backing
  <2>3. ASSUME NEW d \in reports, NEW s \in Row, msgId[s] = d.id, dlrView'[v].row = r,
               dlrView'[v] = [report |-> d, row |-> s, status |-> status[s],
                              deliveredAt |-> deliveredAt[s]]
        PROVE  Backed(r)'
    <3>1. d.id # NoVal
      BY DEF HandsInv, TypeOK, Reports
    <3>2. r = s
      BY <2>3
    <3> QED
      BY <2>3, <3>1, <3>2, BackedStays DEF Backing
  <2>4. CASE batchView'[v].row = r /\ batchId[batchView'[v].row] # NoVal
    BY <2>4, BackedStays DEF Backing
  <2> QED
    BY <1>2, <2>1, <2>2, <2>3, <2>4, ViewReads
<1>3. TypeOK'
  BY TypeStep DEF HandsInv
<1>4. \A v \in View :
        /\ dlrView'[v] # NoVal => dlrView'[v].row \in Row
        /\ batchView'[v] # NoVal => batchView'[v].row \in Row
  BY <1>3 DEF TypeOK, DlrViews, BatchViews
<1>5. \A v \in View :
        /\ (dlrView[v] # NoVal => Backed(dlrView[v].row))'
        /\ (batchView[v] # NoVal => Backed(batchView[v].row))'
  BY <1>2, <1>4
<1> QED
  BY <1>1, <1>5 DEF Backing, StatusBacked, Backed

\* A row is shown as submitted, or as anything that follows, only when Jasmin has
\* it, however threads, workers and callbacks race and fail.
THEOREM StatusIsBacked == Spec => []StatusBacked
<1>1. HandsInv /\ HandsInv' /\ Backing /\ [Next]_vars => Backing'
  BY BackingStep
<1>2. Backing => StatusBacked
  BY DEF Backing
<1> QED
  BY <1>1, <1>2, BackingInit, HandsInvariant, PTL DEF Spec

-----------------------------------------------------------------------------
(* Receipts.                                                                *)

\* No save of a thread or worker changes the columns a DLR wrote: workers do not
\* save them, and the rows of a thread that saves them have none yet.
LEMMA SavesKeepReceipts ==
  ASSUME OwnInv, NEW a \in Agent, NEW r \in Row, SavedBy(a, r)
  PROVE  dlrStatus'[r] = dlrStatus[r] /\ deliveredAt'[r] = deliveredAt[r]
<1>1. CASE a \in Batch /\ dlrStatus'[r] = NoVal /\ deliveredAt'[r] = FALSE
  <2>1. r \in Own(a)
    BY <1>1 DEF SavedBy, Own, OwnInv, HandsInv, Answers, Owners
  <2>2. dlrStatus[r] = NoVal /\ deliveredAt[r] = FALSE
    BY <1>1, <2>1 DEF OwnInv, Fresh, Blank, HandsInv, TypeOK
  <2> QED
    BY <1>1, <2>2
<1> QED
  BY <1>1 DEF SavedBy

LEMMA ReceiptKeptStep ==
  ASSUME OwnInv, [Next]_vars, NEW r \in Row
  PROVE  /\ dlrStatus[r] # NoVal => dlrStatus'[r] # NoVal
         /\ deliveredAt[r] /\ ~deliveredAt'[r] =>
              \E v \in View :
                /\ dlrView[v] # NoVal /\ dlrView'[v] = NoVal
                /\ dlrView[v].row = r /\ ~dlrView[v].deliveredAt
<1> USE ValueAssumption DEF OwnInv
<1>1. ASSUME NEW v \in View, ReceiptedBy(v, r)
      PROVE  /\ dlrStatus'[r] # NoVal
             /\ ~deliveredAt'[r] => /\ dlrView[v] # NoVal /\ dlrView'[v] = NoVal
                                    /\ dlrView[v].row = r /\ ~dlrView[v].deliveredAt
  <2>1. dlrView[v].report.stat \in Stats
    BY <1>1 DEF ReceiptedBy, HandsInv, TypeOK, DlrViews, Reports
  <2> QED
    BY <1>1, <2>1 DEF ReceiptedBy, StampAfter
<1>2. CASE \A v \in View : ~ReceiptedBy(v, r)
  <2>1. dlrStatus'[r] = dlrStatus[r] /\ deliveredAt'[r] = deliveredAt[r]
    BY <1>2, RowStep, SavesKeepReceipts DEF Kept, CreatedBy, CalledBack
  <2> QED
    BY <2>1
<1> QED
  BY <1>1, <1>2

\* No settling takes a receipt back; only a second DLR, whose view read the row
\* before the first was saved, can lose the time of delivery.
THEOREM ReceiptsAreKept == Spec => ReceiptKept
<1>1. OwnInv /\ [Next]_vars =>
        [\A r \in Row :
           /\ dlrStatus[r] # NoVal => dlrStatus'[r] # NoVal
           /\ deliveredAt[r] /\ ~deliveredAt'[r] =>
                \E v \in View :
                  /\ dlrView[v] # NoVal /\ dlrView'[v] = NoVal
                  /\ dlrView[v].row = r /\ ~dlrView[v].deliveredAt]_vars
  BY ReceiptKeptStep
<1> QED
  BY <1>1, OwnInvariant, PTL DEF Spec, ReceiptKept

\* Jasmin sent a DLR that says row r was delivered.
Delivered(r) == \E d \in reports : d.id \in AcceptedAs(r) /\ d.stat = "DELIVRD"

\* The DLR a view serves is for the row it found, and what it read is true.
Receipts ==
  /\ \A v \in View : dlrView[v] # NoVal =>
       /\ dlrView[v].report \in reports
       /\ accepted[dlrView[v].report.id] = dlrView[v].row
       /\ dlrView[v].deliveredAt => Delivered(dlrView[v].row)
       /\ dlrView[v].status = "delivered" => dlrView[v].deliveredAt
  /\ ReceiptBacked

ReceiptInv == OwnInv /\ CorrelationInv /\ Receipts

LEMMA ReceiptsInit == Init => Receipts
BY DEF Init, Receipts, ReceiptBacked

\* Jasmin takes no DLR back, and a forward is enqueued for a row with a receipt.
LEMMA ReportsStay ==
  ASSUME HandsInv, [Next]_vars
  PROVE  /\ reports \subseteq reports'
         /\ \A r \in forwards' : r \in forwards \/ \E v \in View : ReceiptedBy(v, r)
<1> USE DEF columns, agents, jasmin, views
<1>1. ASSUME NEW v \in View, SaveDlr(v)
      PROVE  /\ reports' = reports
             /\ \A r \in forwards' : r \in forwards \/ ReceiptedBy(v, r)
  <2> DEFINE d == dlrView[v].report
             s == dlrView[v].row
  <2>1. /\ dlrView[v] # NoVal /\ s \in Row /\ dlrView'[v] = NoVal
        /\ status' = [status EXCEPT ![s] = StatusAfter(d, dlrView[v].status)]
        /\ deliveredAt' = [deliveredAt EXCEPT ![s] = StampAfter(d, dlrView[v].deliveredAt)]
        /\ dlrStatus' = [dlrStatus EXCEPT ![s] = d.stat]
        /\ forwards' = forwards \cup {s} \/ forwards' = forwards
        /\ UNCHANGED <<msgId, batchId, reports>>
    BY <1>1 DEF SaveDlr, HandsInv, TypeOK, DlrViews
  <2>2. ReceiptedBy(v, s)
    BY <2>1 DEF ReceiptedBy, HandsInv, TypeOK
  <2> HIDE DEF d, s
  <2> QED
    BY <2>1, <2>2
<1>2. ASSUME NEW i \in MsgId, NEW s \in Stats, Report(i, s)
      PROVE  reports \subseteq reports' /\ forwards' = forwards
  BY <1>2 DEF Report
<1>3. CASE UNCHANGED <<reports, forwards>>
  BY <1>3
<1> QED
  BY <1>1, <1>2, <1>3
     DEF Next, WebThread, AgentStep, JasminStep, ViewStep, vars,
         SubmitSingle, NotConfigured, SubmitRest, SubmitAsync, StartTask,
         CallSend, CallBatch, FailUnsent, Crash, SaveSingle, SaveBatch, SettleRows,
         SaveWorker, WorkerRaises, JasminSend, JasminRefuse, JasminBatch, JasminItem,
         ReadCallback, SaveCallback, DropCallback, ReadDlr, DropDlr, ViewFails

LEMMA AcceptedStays ==
  ASSUME HandsInv, [Next]_vars, NEW r \in Row, NEW i \in AcceptedAs(r)
  PROVE  i \in AcceptedAs(r)'
BY IdsStay, ValueAssumption DEF HandsInv, AcceptedAs

LEMMA DeliveredStays ==
  ASSUME HandsInv, [Next]_vars, NEW r \in Row, Delivered(r)
  PROVE  Delivered(r)'
BY AcceptedStays, ReportsStay DEF Delivered

LEMMA ReceiptsStep == ReceiptInv /\ [Next]_vars => Receipts'
<1> SUFFICES ASSUME ReceiptInv, [Next]_vars PROVE Receipts'
  OBVIOUS
<1> USE ValueAssumption DEF ReceiptInv, OwnInv
<1> DEFINE Receipt(r) == \E d \in reports : d.id \in AcceptedAs(r) /\ d.stat = dlrStatus[r]
           Good(r) ==
             /\ dlrStatus[r] # NoVal => Receipt(r)
             /\ deliveredAt[r] => Delivered(r)
             /\ status[r] = "delivered" => deliveredAt[r]
             /\ r \in forwards => dlrStatus[r] # NoVal
\* The DLR of a view is one Jasmin sent for the row the view writes.
<1>1. ASSUME NEW v \in View, NEW r \in Row, ReceiptedBy(v, r) PROVE Good(r)'
  <2> DEFINE d == dlrView[v].report
             old == dlrView[v].status
             stamp == dlrView[v].deliveredAt
  <2>1. /\ d \in reports /\ accepted[d.id] = r /\ d.id \in MsgId /\ d.stat \in Stats
        /\ stamp => Delivered(r)
        /\ old = "delivered" => stamp
        /\ stamp \in BOOLEAN
    BY <1>1 DEF ReceiptedBy, Receipts, HandsInv, TypeOK, DlrViews, Reports
  <2>2. /\ status'[r] = StatusAfter(d, old) /\ deliveredAt'[r] = StampAfter(d, stamp)
        /\ dlrStatus'[r] = d.stat
    BY <1>1 DEF ReceiptedBy
  <2> HIDE DEF d, old, stamp
  <2>3. d \in reports' /\ d.id \in AcceptedAs(r)'
    BY <2>1, ReportsStay, AcceptedStays DEF AcceptedAs
  <2>4. StatusFromDlr(d.stat) = "delivered" => d.stat = "DELIVRD"
    BY DEF StatusFromDlr, DlrMapping
  <2>5. deliveredAt'[r] => Delivered(r)'
    BY <2>1, <2>2, <2>3, <2>4, DeliveredStays DEF StampAfter, Delivered
  <2>6. status'[r] = "delivered" => deliveredAt'[r]
    BY <2>1, <2>2 DEF StampAfter, StatusAfter
  <2>7. dlrStatus'[r] # NoVal /\ Receipt(r)'
    BY <2>1, <2>2, <2>3
  <2> HIDE DEF Receipt
  <2> QED
    BY <2>5, <2>6, <2>7
<1>2. ASSUME NEW r \in Row, \A v \in View : ~ReceiptedBy(v, r) PROVE Good(r)'
  <2>0. /\ dlrStatus[r] # NoVal => Receipt(r)
        /\ deliveredAt[r] => Delivered(r)
        /\ status[r] = "delivered" => deliveredAt[r]
        /\ r \in forwards => dlrStatus[r] # NoVal
    BY DEF Receipts, ReceiptBacked, Delivered
  <2>1. dlrStatus'[r] = dlrStatus[r] /\ deliveredAt'[r] = deliveredAt[r]
    BY <1>2, RowStep, SavesKeepReceipts DEF Kept, CreatedBy, CalledBack
  <2>2. status'[r] = "delivered" => status[r] = "delivered"
    BY <1>2, RowStep DEF Kept, CreatedBy, CalledBack, SavedBy
  <2>3. r \in forwards' => r \in forwards
    BY <1>2, ReportsStay
  <2>4. Receipt(r) => Receipt(r)'
    BY <2>1, AcceptedStays, ReportsStay
  <2>5. Delivered(r) => Delivered(r)'
    BY DeliveredStays
  <2> HIDE DEF Receipt
  <2> QED
    BY <2>0, <2>1, <2>2, <2>3, <2>4, <2>5
<1>3. ReceiptBacked'
  BY <1>1, <1>2 DEF ReceiptBacked, Delivered
\* What a view reads is true when it reads it, and stays true.
<1>4. ASSUME NEW v \in View, dlrView'[v] # NoVal
      PROVE  /\ dlrView'[v].report \in reports'
             /\ accepted'[dlrView'[v].report.id] = dlrView'[v].row
             /\ dlrView'[v].deliveredAt => \A r \in {dlrView'[v].row} : Delivered(r)'
             /\ dlrView'[v].status = "delivered" => dlrView'[v].deliveredAt
  <2>1. CASE dlrView'[v] = dlrView[v]
    <3>1. /\ dlrView[v].report \in reports
          /\ accepted[dlrView[v].report.id] = dlrView[v].row
          /\ dlrView[v].deliveredAt => Delivered(dlrView[v].row)
          /\ dlrView[v].status = "delivered" => dlrView[v].deliveredAt
      BY <1>4, <2>1 DEF Receipts
    <3>2. dlrView[v].report.id \in MsgId /\ dlrView[v].row \in Row
      BY <1>4, <2>1 DEF HandsInv, TypeOK, DlrViews, Reports
    <3>3. accepted'[dlrView[v].report.id] = dlrView[v].row
      BY <3>1, <3>2, IdsStay DEF HandsInv
    <3> QED
      BY <2>1, <3>1, <3>2, <3>3, ReportsStay, DeliveredStays
  <2>2. ASSUME NEW d \in reports, NEW r \in Row, msgId[r] = d.id,
               UNCHANGED <<columns, accepted, chunk, reports>>,
               dlrView'[v] = [report |-> d, row |-> r, status |-> status[r],
                              deliveredAt |-> deliveredAt[r]]
        PROVE  /\ dlrView'[v].report \in reports'
               /\ accepted'[dlrView'[v].report.id] = dlrView'[v].row
               /\ dlrView'[v].deliveredAt => \A s \in {dlrView'[v].row} : Delivered(s)'
               /\ dlrView'[v].status = "delivered" => dlrView'[v].deliveredAt
    <3>1. d.id # NoVal
      BY DEF HandsInv, TypeOK, Reports
    <3>2. accepted[d.id] = r
      BY <2>2, <3>1 DEF CorrelationInv, Correlated
    <3>3. deliveredAt[r] => Delivered(r)
      BY DEF Receipts, ReceiptBacked, Delivered
    <3>4. status[r] = "delivered" => deliveredAt[r]
      BY DEF Receipts, ReceiptBacked
    <3>5. /\ dlrView'[v].report = d /\ dlrView'[v].row = r
          /\ dlrView'[v].deliveredAt = deliveredAt[r] /\ dlrView'[v].status = status[r]
      BY <2>2
    <3>6. deliveredAt[r] => Delivered(r)'
      BY <3>3, DeliveredStays
    <3> QED
      BY <2>2, <3>2, <3>4, <3>5, <3>6
  <2> QED
    BY <1>4, <2>1, <2>2, ViewReads
<1>5. \A v \in View :
        (dlrView[v] # NoVal =>
           /\ dlrView[v].report \in reports
           /\ accepted[dlrView[v].report.id] = dlrView[v].row
           /\ dlrView[v].deliveredAt => Delivered(dlrView[v].row)
           /\ dlrView[v].status = "delivered" => dlrView[v].deliveredAt)'
  BY <1>4
<1> QED
  BY <1>3, <1>5 DEF Receipts

LEMMA ReceiptInvariant ==
  ASSUME DistinctDestinations PROVE Spec => []ReceiptInv
<1>1. OwnInv /\ OwnInv' /\ CorrelationInv /\ CorrelationInv' /\ Receipts /\ [Next]_vars
        => Receipts'
  BY ReceiptsStep DEF ReceiptInv
<1> QED
  BY <1>1, ReceiptsInit, OwnInvariant, CorrelationInvariant, PTL DEF Spec, ReceiptInv

\* What a row shows of a delivery is what Jasmin reported of that very row.
THEOREM ReceiptsAreBacked ==
  ASSUME DistinctDestinations PROVE Spec => []ReceiptBacked
<1>1. ReceiptInv => ReceiptBacked
  BY DEF ReceiptInv, Receipts
<1> QED
  BY <1>1, ReceiptInvariant, PTL

-----------------------------------------------------------------------------
(* Queued rows.                                                             *)

\* A row without an outcome has no message id, so no DLR view has found it and
\* none will write its status back.
Queued ==
  /\ \A r \in Row : status[r] \in {"absent", "queued"} => msgId[r] = NoVal
  /\ \A v \in View : dlrView[v] # NoVal => dlrView[v].status \notin {"absent", "queued"}
  /\ QueuedIsHeld

LEMMA QueuedInit == Init => Queued
BY DEF Init, Queued, QueuedIsHeld

\* Only a submit makes a row queued.
LEMMA QueuedOnce ==
  ASSUME OwnInv, Queued, [Next]_vars, NEW r \in Row, status'[r] \in {"absent", "queued"}
  PROVE  /\ \/ Kept(r)
            \/ \E b \in Batch : CreatedBy(b, r)
         /\ msgId'[r] = NoVal
<1> USE DEF OwnInv
<1>1. ASSUME NEW v \in View, ReceiptedBy(v, r) PROVE FALSE
  <2>1. status'[r] = StatusAfter(dlrView[v].report, dlrView[v].status)
        /\ dlrView[v].status \notin {"absent", "queued"}
    BY <1>1 DEF ReceiptedBy, Queued
  <2>2. \A s : StatusFromDlr(s) \notin {"absent", "queued"}
    BY DEF StatusFromDlr, DlrMapping
  <2> QED
    BY <2>1, <2>2 DEF StatusAfter
<1>2. ASSUME NEW v \in View, CalledBack(v, r) PROVE FALSE
  BY <1>2 DEF CalledBack
<1>3. ASSUME NEW a \in Agent, SavedBy(a, r) PROVE FALSE
  BY <1>3 DEF SavedBy
<1>4. ASSUME NEW b \in Batch, CreatedBy(b, r) PROVE msgId'[r] = NoVal
  BY <1>4 DEF CreatedBy, Fresh, Own, Blank
<1>5. CASE Kept(r)
  BY <1>5 DEF Kept, Queued
<1> QED
  BY <1>1, <1>2, <1>3, <1>4, <1>5, RowStep

\* A row that a thread, a worker or the broker had is still queued only if
\* someone has it, or its holder died or gave up.
LEMMA HeldStep ==
  ASSUME OwnInv, [Next]_vars, NEW r \in Row, status[r] = "queued", Held(r)
  PROVE  Held(r)' \/ r \in orphans' \/ status'[r] # "queued"
<1> DEFINE Done == Held(r)' \/ r \in orphans' \/ status'[r] # "queued"
<1> SUFFICES Done
  OBVIOUS
<1> USE AgentAssumption, ValueAssumption
    DEF Agent, columns, agents, jasmin, views, OwnInv, HandsInv
<1>1. ASSUME UNCHANGED broker,
             \A a \in Agent : r \in todo[a] \cup call[a] =>
                                r \in todo'[a] \cup call'[a] \/ r \in orphans'
                                  \/ status'[r] # "queued"
      PROVE  Done
  BY <1>1 DEF Held
<1>2. ASSUME NEW b \in Batch, SubmitSingle(b) \/ SubmitRest(b) PROVE Done
  <2>1. todo[b] = {} /\ todo' = [todo EXCEPT ![b] = RowsOf[b]] /\ UNCHANGED <<call, broker>>
    BY <1>2 DEF SubmitSingle, SubmitRest, Start, Answers
  <2> QED
    BY <1>1, <2>1 DEF TypeOK
<1>3. ASSUME NEW b \in Batch, SubmitAsync(b) PROVE Done
  <2>1. mode[b] = "new" /\ UNCHANGED <<todo, call>>
    BY <1>3 DEF SubmitAsync, Start
  <2>2. \A c \in Batch : c # b => broker'[c] = broker[c]
    BY <1>3 DEF SubmitAsync, TypeOK
  <2>3. ~(broker[b] > 0)
    BY <2>1 DEF Owners
  <2> QED
    BY <2>1, <2>2, <2>3 DEF Held
<1>4. ASSUME NEW b \in Batch, NotConfigured(b) PROVE Done
  BY <1>1, <1>4 DEF NotConfigured, TypeOK
<1>5. ASSUME NEW w \in Worker, NEW b \in Batch, StartTask(w, b) PROVE Done
  <2>1. /\ todo[w] = {} /\ call[w] = {} /\ call' = call
        /\ todo' = [todo EXCEPT ![w] = {s \in RowsOf[b] : status[s] = "queued"}]
        /\ broker' = [broker EXCEPT ![b] = @ - 1]
    BY <1>5 DEF StartTask, Owners
  <2>2. CASE r \in RowsOf[b]
    BY <2>1, <2>2 DEF TypeOK, Held
  <2>3. CASE r \notin RowsOf[b]
    <3>1. \A a \in Agent : r \in todo[a] \cup call[a] => r \in todo'[a] \cup call'[a]
      BY <2>1 DEF TypeOK
    <3>2. \A c \in Batch : c # b => broker'[c] = broker[c]
      BY <2>1 DEF TypeOK
    <3> QED
      BY <2>3, <3>1, <3>2 DEF Held
  <2> QED
    BY <2>2, <2>3
<1>6. ASSUME NEW a \in Agent, NEW s \in Row, CallSend(a, s) PROVE Done
  <2>1. call[a] = {}
    BY <1>6 DEF CallSend, Owners
  <2> QED
    BY <1>1, <1>6, <2>1 DEF CallSend, TypeOK
<1>7. ASSUME NEW a \in Agent, NEW S \in SUBSET todo[a], CallBatch(a, S) PROVE Done
  <2>1. call[a] = {}
    BY <1>7 DEF CallBatch, Owners
  <2> QED
    BY <1>1, <1>7, <2>1 DEF CallBatch, TypeOK
<1>8. ASSUME NEW a \in Agent, Freed(a), UNCHANGED <<todo, broker>>,
             \A s \in call[a] : status'[s] # "queued"
      PROVE  Done
  BY <1>1, <1>8 DEF Freed, TypeOK
<1>9. ASSUME NEW b \in Batch, SaveSingle(b) PROVE Done
  <2>1. PICK s \in call[b] : status' = [status EXCEPT ![s] = Outcome(b)]
    BY <1>9 DEF SaveSingle
  <2>2. call[b] = {s} /\ s \in Row
    BY <1>9, <2>1 DEF SaveSingle, Holdings, Sender, TypeOK
  <2>3. \A t \in call[b] : status'[t] # "queued"
    BY <2>1, <2>2 DEF Outcome, TypeOK
  <2> QED
    BY <1>8, <1>9, <2>3 DEF SaveSingle
<1>10. ASSUME NEW b \in Batch, SaveBatch(b) PROVE Done
  <2>1. \A s \in call[b] : status'[s] # "queued"
    BY <1>10 DEF SaveBatch, SettleRows, Outcome, TypeOK
  <2> QED
    BY <1>8, <1>10, <2>1 DEF SaveBatch, SettleRows
<1>11. ASSUME NEW w \in Worker, SaveWorker(w) \/ WorkerRaises(w) PROVE Done
  <2>1. PICK s \in call[w], o \in {"submitted", "failed"} : status' = [status EXCEPT ![s] = o]
    BY <1>11 DEF SaveWorker, WorkerRaises, Outcome
  <2>2. call[w] = {s} /\ s \in Row
    BY <1>11, <2>1 DEF SaveWorker, WorkerRaises, Holdings, Sender, TypeOK
  <2>3. \A t \in call[w] : status'[t] # "queued"
    BY <2>1, <2>2 DEF TypeOK
  <2> QED
    BY <1>8, <1>11, <2>3 DEF SaveWorker, WorkerRaises
<1>12. ASSUME NEW w \in Worker, NEW s \in Row, FailUnsent(w, s) PROVE Done
  BY <1>1, <1>12 DEF FailUnsent, TypeOK
<1>13. ASSUME NEW a \in Agent, Crash(a) PROVE Done
  BY <1>1, <1>13 DEF Crash, Freed, TypeOK
<1>14. ASSUME UNCHANGED <<todo, call, broker>> PROVE Done
  BY <1>1, <1>14
<1> HIDE DEF Done
<1> QED
  BY <1>2, <1>3, <1>4, <1>5, <1>6, <1>7, <1>9, <1>10, <1>11, <1>12, <1>13, <1>14
     DEF Next, WebThread, AgentStep, JasminStep, ViewStep, vars, JasminSend,
         JasminRefuse, JasminBatch, JasminItem, Report, ReadCallback, SaveCallback,
         DropCallback, ReadDlr, SaveDlr, DropDlr, ViewFails

\* A call that starts has its rows, has published the task that will, or has
\* given up.
LEMMA CreatedIsHeld ==
  ASSUME OwnInv, [Next]_vars, NEW b \in Batch, NEW r \in RowsOf[b],
         mode[b] = "new", mode'[b] # "new"
  PROVE  Held(r)' \/ r \in orphans'
<1> USE AgentAssumption, ValueAssumption
    DEF Agent, columns, agents, jasmin, views, OwnInv, HandsInv
<1>1. ASSUME NEW c \in Batch, SubmitSingle(c) \/ SubmitRest(c) \/ SubmitAsync(c)
      PROVE  Held(r)' \/ r \in orphans'
  <2>1. c = b
    BY <1>1 DEF SubmitSingle, SubmitRest, SubmitAsync, TypeOK
  <2>2. CASE SubmitAsync(b)
    <3>1. r \in orphans' \/ broker'[b] = MaxDeliveries
      BY <2>2 DEF SubmitAsync, TypeOK
    <3>2. MaxDeliveries > 0
      OBVIOUS
    <3> QED
      BY <3>1, <3>2 DEF Held
  <2>3. CASE SubmitSingle(b) \/ SubmitRest(b)
    BY <2>3 DEF SubmitSingle, SubmitRest, TypeOK, Held
  <2> QED
    BY <1>1, <2>1, <2>2, <2>3
<1>2. CASE mode' = mode
  BY <1>2
<1> QED
  BY <1>1, <1>2
     DEF Next, WebThread, AgentStep, JasminStep, ViewStep, vars, NotConfigured,
         StartTask, CallSend, CallBatch, FailUnsent, Crash, SaveSingle, SaveBatch,
         SettleRows, SaveWorker, WorkerRaises, JasminSend, JasminRefuse, JasminBatch,
         JasminItem, Report, ReadCallback, SaveCallback, DropCallback, ReadDlr,
         SaveDlr, DropDlr, ViewFails

LEMMA OrphansStay == ASSUME [Next]_vars PROVE orphans \subseteq orphans'
BY DEF Next, WebThread, AgentStep, JasminStep, ViewStep, vars,
       SubmitSingle, NotConfigured, SubmitRest, SubmitAsync, StartTask,
       CallSend, CallBatch, FailUnsent, Crash, SaveSingle, SaveBatch, SettleRows,
       SaveWorker, WorkerRaises, JasminSend, JasminRefuse, JasminBatch, JasminItem,
       Report, ReadCallback, SaveCallback, DropCallback, ReadDlr, SaveDlr, DropDlr,
       ViewFails

LEMMA QueuedStep == OwnInv /\ Queued /\ [Next]_vars => Queued'
<1> SUFFICES ASSUME OwnInv, Queued, [Next]_vars PROVE Queued'
  OBVIOUS
<1>1. ASSUME NEW r \in Row, status'[r] = "queued" PROVE Held(r)' \/ r \in orphans'
  <2>1. CASE Kept(r)
    <3>1. status[r] = "queued"
      BY <1>1, <2>1 DEF Kept
    <3>2. Held(r) \/ r \in orphans
      BY <3>1 DEF Queued, QueuedIsHeld
    <3> QED
      BY <1>1, <3>1, <3>2, HeldStep, OrphansStay
  <2>2. CASE \E b \in Batch : CreatedBy(b, r)
    BY <2>2, CreatedIsHeld DEF CreatedBy
  <2> QED
    BY <1>1, <2>1, <2>2, QueuedOnce
<1>2. ASSUME NEW v \in View, dlrView'[v] # NoVal
      PROVE  dlrView'[v].status \notin {"absent", "queued"}
  <2>1. CASE dlrView'[v] = dlrView[v]
    BY <1>2, <2>1 DEF Queued
  <2>2. ASSUME NEW d \in reports, NEW r \in Row, msgId[r] = d.id,
               dlrView'[v] = [report |-> d, row |-> r, status |-> status[r],
                              deliveredAt |-> deliveredAt[r]]
        PROVE  dlrView'[v].status \notin {"absent", "queued"}
    <3>1. d.id # NoVal
      BY ValueAssumption DEF OwnInv, HandsInv, TypeOK, Reports
    <3> QED
      BY <2>2, <3>1 DEF Queued
  <2> QED
    BY <1>2, <2>1, <2>2, ViewReads DEF OwnInv
<1> QED
  BY <1>1, <1>2, QueuedOnce DEF Queued, QueuedIsHeld

\* No queued row is forgotten, on any path, unless the process that held it died,
\* found no connection or could not publish its task.
THEOREM NoQueuedRowForgotten == Spec => []QueuedIsHeld
<1>1. OwnInv /\ OwnInv' /\ Queued /\ [Next]_vars => Queued'
  BY QueuedStep
<1>2. Queued => QueuedIsHeld
  BY DEF Queued
<1> QED
  BY <1>1, <1>2, QueuedInit, OwnInvariant, PTL DEF Spec

=============================================================================
