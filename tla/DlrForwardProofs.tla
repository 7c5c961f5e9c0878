-------------------------- MODULE DlrForwardProofs --------------------------
(***************************************************************************)
(* Theorems about DlrForward, for every number of DLRs, workers, retries   *)
(* and rows.                                                               *)
(***************************************************************************)
EXTENDS DlrForward, TLAPS

\* A task is for a DLR that was saved on its row, and so is a worker's payload,
\* which is that DLR or a later one; a request is out only for a task.
TasksAreSaved ==
  /\ \A o \in owed : o.seq <= dlr[o.row]
  /\ \A t \in queue : t.seq <= dlr[t.row]
  /\ \A w \in Worker : job[w] # NoTask =>
       job[w].seq <= payload[w] /\ payload[w] <= dlr[job[w].row]
  /\ \A w \in Worker : job[w] = NoTask => post[w] = "none"

\* A request that succeeded left its payload with the channel.
PostsArrived ==
  \A w \in Worker : post[w] = "ok" =>
    [row |-> job[w].row, seq |-> payload[w]] \in received

ForwardInv == TypeOK /\ TasksAreSaved /\ PostsArrived /\ ForwardDelivers

LEMMA ForwardInit == Init => ForwardInv
BY ForwardAssumption
   DEF Init, ForwardInv, TypeOK, TasksAreSaved, PostsArrived, ForwardDelivers

\* A retry is a call of the same task.
LEMMA RetriedType ==
  ASSUME NEW t \in Tasks
  PROVE  Retried(t) \in Tasks /\ Retried(t).row = t.row /\ Retried(t).seq = t.seq
<1> DEFINE n == t.attempt + 1
<1>1. Retried(t) = [t EXCEPT !.attempt = n, !.named = {"message_id", "attempt"}]
  BY DEF Retried
<1>2. n \in Nat \ {0}
  BY DEF Tasks
<1> HIDE DEF n
<1> QED
  BY <1>1, <1>2 DEF Tasks

LEMMA TypeStep == TypeOK /\ TasksAreSaved /\ [Next]_vars => TypeOK'
<1> SUFFICES ASSUME TypeOK, TasksAreSaved, [Next]_vars PROVE TypeOK'
  OBVIOUS
<1> USE ForwardAssumption
<1>1. ASSUME NEW r \in Row, SaveDlr(r) PROVE TypeOK'
  BY <1>1 DEF TypeOK, SaveDlr, Dlrs
<1>2. ASSUME NEW o \in owed, Enqueue(o) PROVE TypeOK'
  <2>1. FirstTask(o) \in Tasks
    BY DEF TypeOK, FirstTask, Tasks, Dlrs, Params
  <2> QED
    BY <1>2, <2>1 DEF TypeOK, Enqueue
<1>3. CASE ChangeUrl
  BY <1>3 DEF TypeOK, ChangeUrl
<1>4. ASSUME NEW w \in Worker, NEW t \in queue, Take(w, t) PROVE TypeOK'
  <2>1. t \in Tasks /\ t.row \in Row /\ [task |-> t, how |-> "skipped"] \in [task : Tasks, how : Ends]
    BY DEF TypeOK, Tasks, Ends
  <2> QED
    BY <1>4, <2>1 DEF TypeOK, Take, Ended
<1>5. ASSUME NEW w \in Worker, Reach(w) PROVE TypeOK'
  <2>1. job[w] \in Tasks /\ payload[w] \in 1..MaxDlrs
    BY <1>5 DEF TypeOK, TasksAreSaved, Reach, Tasks
  <2>2. [row |-> job[w].row, seq |-> payload[w]] \in Dlrs
    BY <2>1 DEF Tasks, Dlrs
  <2> QED
    BY <1>5, <2>2 DEF TypeOK, Reach
<1>6. ASSUME NEW w \in Worker, Miss(w) PROVE TypeOK'
  BY <1>6 DEF TypeOK, Miss
\* A worker whose task ends, or goes back to the queue.
<1>7. ASSUME NEW w \in Worker, Freed(w), UNCHANGED <<maxRetries, hasUrl, dlr, owed, received>>,
             forwarded' \in [Row -> BOOLEAN], queue' \subseteq Tasks,
             ended' \subseteq [task : Tasks, how : Ends]
      PROVE  TypeOK'
  BY <1>7 DEF TypeOK, Freed
<1>8. ASSUME NEW w \in Worker, post[w] # "none" \/ job[w] # NoTask
      PROVE  /\ job[w] \in Tasks
             /\ \A how \in Ends : [task |-> job[w], how |-> how] \in [task : Tasks, how : Ends]
  BY <1>8 DEF TypeOK, TasksAreSaved
<1>9. ASSUME NEW w \in Worker, Succeed(w) PROVE TypeOK'
  BY <1>7, <1>8, <1>9 DEF TypeOK, Succeed, Delivered, Ended, Ends, Tasks
<1>10. ASSUME NEW w \in Worker, Retry(w) PROVE TypeOK'
  <2>1. job[w] \in Tasks
        /\ [task |-> job[w], how |-> "refused"] \in [task : Tasks, how : Ends]
    BY <1>8, <1>10 DEF Retry, Ends
  <2>2. Retried(job[w]) \in Tasks
    BY <2>1, RetriedType
  <2> QED
    BY <1>7, <1>10, <2>1, <2>2 DEF TypeOK, Retry, Ended
<1>11. ASSUME NEW w \in Worker, GiveUp(w) PROVE TypeOK'
  BY <1>7, <1>8, <1>11 DEF TypeOK, GiveUp, Ended, Ends
<1>12. ASSUME NEW w \in Worker, Die(w) PROVE TypeOK'
  BY <1>7, <1>8, <1>12 DEF TypeOK, Die, Ended, Ends
<1>13. CASE UNCHANGED vars
  BY <1>13 DEF TypeOK, vars
<1> QED
  BY <1>1, <1>2, <1>3, <1>4, <1>5, <1>6, <1>9, <1>10, <1>11, <1>12, <1>13 DEF Next, RunTask

LEMMA SavedStep == ForwardInv /\ [Next]_vars => (TasksAreSaved /\ PostsArrived)'
<1> SUFFICES ASSUME ForwardInv, [Next]_vars PROVE TasksAreSaved' /\ PostsArrived'
  OBVIOUS
<1> USE ForwardAssumption DEF ForwardInv
\* The number of a row's last DLR only grows.
<1>0. ASSUME NEW r \in Row, SaveDlr(r)
      PROVE  \A s \in Row : dlr'[s] \in Nat /\ dlr[s] <= dlr'[s]
  BY <1>0 DEF TypeOK, SaveDlr
<1>1. ASSUME NEW r \in Row, SaveDlr(r) PROVE TasksAreSaved' /\ PostsArrived'
  <2>1. /\ dlr' = [dlr EXCEPT ![r] = @ + 1]
        /\ owed' = owed \cup {[row |-> r, seq |-> dlr[r] + 1]}
        /\ UNCHANGED <<queue, job, payload, post, received>>
    BY <1>1 DEF SaveDlr
  <2>2. \A s \in Row : dlr[s] \in Nat /\ dlr'[s] \in Nat /\ dlr[s] <= dlr'[s]
    BY <1>0, <1>1 DEF TypeOK
  <2>3. \A o \in owed' : o.seq <= dlr'[o.row]
    <3> SUFFICES ASSUME NEW o \in owed' PROVE o.seq <= dlr'[o.row]
      OBVIOUS
    <3>1. CASE o \in owed
      <4>1. o.seq <= dlr[o.row] /\ o.seq \in Nat /\ o.row \in Row
        BY <3>1 DEF TasksAreSaved, TypeOK, Dlrs
      <4> QED
        BY <2>2, <4>1
    <3>2. CASE o = [row |-> r, seq |-> dlr[r] + 1]
      BY <2>1, <2>2, <3>2 DEF TypeOK
    <3> QED
      BY <2>1, <3>1, <3>2
  <2>4. \A t \in queue' : t.seq <= dlr'[t.row]
    <3> SUFFICES ASSUME NEW t \in queue PROVE t.seq <= dlr'[t.row]
      BY <2>1
    <3>1. t.seq <= dlr[t.row] /\ t.seq \in Nat /\ t.row \in Row
      BY DEF TasksAreSaved, TypeOK, Tasks
    <3> QED
      BY <2>2, <3>1
  <2>5. \A w \in Worker : job[w] # NoTask => payload[w] <= dlr'[job[w].row]
    <3> SUFFICES ASSUME NEW w \in Worker, job[w] # NoTask PROVE payload[w] <= dlr'[job[w].row]
      OBVIOUS
    <3>1. payload[w] <= dlr[job[w].row] /\ payload[w] \in Nat /\ job[w].row \in Row
      BY DEF TasksAreSaved, TypeOK, Tasks
    <3> QED
      BY <2>2, <3>1
  <2> QED
    BY <2>1, <2>3, <2>4, <2>5 DEF TasksAreSaved, PostsArrived
<1>2. ASSUME NEW o \in owed, Enqueue(o) PROVE TasksAreSaved' /\ PostsArrived'
  <2>1. FirstTask(o).seq = o.seq /\ FirstTask(o).row = o.row
    BY DEF FirstTask
  <2> QED
    BY <1>2, <2>1 DEF TasksAreSaved, PostsArrived, Enqueue
<1>3. ASSUME NEW w \in Worker, NEW t \in queue, Take(w, t) PROVE TasksAreSaved' /\ PostsArrived'
  <2>1. t \in Tasks /\ t.seq <= dlr[t.row] /\ dlr[t.row] \in Nat
    BY DEF TypeOK, TasksAreSaved, Tasks
  <2> QED
    BY <1>3, <2>1 DEF TasksAreSaved, PostsArrived, Take, TypeOK
<1>4. ASSUME NEW w \in Worker, Reach(w) \/ Miss(w) PROVE TasksAreSaved' /\ PostsArrived'
  BY <1>4 DEF TasksAreSaved, PostsArrived, Reach, Miss, TypeOK
<1>5. ASSUME NEW w \in Worker, Freed(w), UNCHANGED <<dlr, owed, received>>,
             \A t \in queue' : t.seq <= dlr[t.row]
      PROVE  TasksAreSaved' /\ PostsArrived'
  BY <1>5 DEF TasksAreSaved, PostsArrived, Freed, TypeOK
<1>6. ASSUME NEW w \in Worker, Retry(w) PROVE TasksAreSaved' /\ PostsArrived'
  <2>1. job[w] # NoTask /\ job[w] \in Tasks
    BY <1>6 DEF Retry, TasksAreSaved, TypeOK
  <2>2. /\ job[w].seq <= payload[w] /\ payload[w] <= dlr[job[w].row]
        /\ job[w].seq \in Nat /\ payload[w] \in Nat /\ dlr[job[w].row] \in Nat
    BY <2>1 DEF TasksAreSaved, TypeOK, Tasks
  <2>3. Retried(job[w]).seq = job[w].seq /\ Retried(job[w]).row = job[w].row
    BY <2>1, RetriedType
  <2> QED
    BY <1>5, <1>6, <2>2, <2>3 DEF Retry, TasksAreSaved
<1>7. ASSUME NEW w \in Worker, Succeed(w) \/ GiveUp(w) \/ Die(w)
      PROVE  TasksAreSaved' /\ PostsArrived'
  BY <1>5, <1>7 DEF Succeed, GiveUp, Die, TasksAreSaved
<1>8. CASE UNCHANGED <<dlr, owed, queue, job, payload, post, received>>
  BY <1>8 DEF TasksAreSaved, PostsArrived
<1> QED
  BY <1>1, <1>2, <1>3, <1>4, <1>6, <1>7, <1>8 DEF Next, RunTask, ChangeUrl, vars

LEMMA DeliversStep == ForwardInv /\ [Next]_vars => ForwardDelivers'
<1> SUFFICES ASSUME ForwardInv, [Next]_vars PROVE ForwardDelivers'
  OBVIOUS
<1> USE ForwardAssumption DEF ForwardInv
<1> DEFINE Arrived(e) == \E p \in received :
                           p.row = e.task.row /\ p.seq \in e.task.seq..dlr[p.row]
           Stamped(r) == \E e \in ended : e.how = "forwarded" /\ e.task.row = r
\* What the channel has taken in it keeps, and the DLRs of a row only get more.
<1>1. ASSUME NEW e \in ended, e.how = "forwarded", received \subseteq received',
             \A r \in Row : dlr'[r] \in Nat /\ dlr[r] <= dlr'[r]
      PROVE  Arrived(e)'
  <2>1. PICK p \in received : p.row = e.task.row /\ p.seq \in e.task.seq..dlr[p.row]
    BY <1>1 DEF ForwardDelivers
  <2>2. p.row \in Row /\ p.seq \in Nat /\ e.task.seq \in Nat /\ dlr[p.row] \in Nat
    BY DEF TypeOK, Dlrs, Tasks
  <2> QED
    BY <1>1, <2>1, <2>2
<1>2. ASSUME received \subseteq received', \A r \in Row : dlr'[r] \in Nat /\ dlr[r] <= dlr'[r],
             ended \subseteq ended', \A e \in ended' \ ended : e.how # "forwarded",
             forwarded' = forwarded
      PROVE  ForwardDelivers'
  <2>1. \A e \in ended' : e.how = "forwarded" => Arrived(e)'
    BY <1>1, <1>2
  <2>2. \A r \in Row : forwarded'[r] => Stamped(r)'
    BY <1>2 DEF ForwardDelivers
  <2> QED
    BY <2>1, <2>2 DEF ForwardDelivers
<1>3. \A r \in Row : dlr[r] \in Nat /\ dlr[r] <= dlr[r]
  BY DEF TypeOK
<1>4. ASSUME NEW w \in Worker, Succeed(w) PROVE ForwardDelivers'
  <2>1. post[w] = "ok" /\ job[w] # NoTask /\ job[w] \in Tasks
    BY <1>4 DEF Succeed, Delivered, TasksAreSaved, TypeOK
  <2>2. /\ [row |-> job[w].row, seq |-> payload[w]] \in received
        /\ payload[w] \in job[w].seq..dlr[job[w].row]
        /\ job[w].row \in Row
    BY <2>1 DEF PostsArrived, TasksAreSaved, TypeOK, Tasks
  <2>3. /\ ended' = ended \cup {[task |-> job[w], how |-> "forwarded"]}
        /\ forwarded' = [forwarded EXCEPT ![job[w].row] = TRUE]
        /\ UNCHANGED <<received, dlr>>
    BY <1>4 DEF Succeed, Ended
  <2>4. \A e \in ended' : e.how = "forwarded" => Arrived(e)'
    <3> SUFFICES ASSUME NEW e \in ended', e.how = "forwarded" PROVE Arrived(e)'
      OBVIOUS
    <3>1. CASE e \in ended
      BY <1>1, <1>3, <2>3, <3>1
    <3>2. CASE e = [task |-> job[w], how |-> "forwarded"]
      BY <2>2, <2>3, <3>2
    <3> QED
      BY <2>3, <3>1, <3>2
  <2>5. \A r \in Row : forwarded'[r] => Stamped(r)'
    <3> SUFFICES ASSUME NEW r \in Row, forwarded'[r] PROVE Stamped(r)'
      OBVIOUS
    <3>1. CASE r = job[w].row
      <4> DEFINE e == [task |-> job[w], how |-> "forwarded"]
      <4>1. e \in ended' /\ e.how = "forwarded" /\ e.task.row = r
        BY <2>3, <3>1
      <4> QED
        BY <4>1
    <3>2. CASE r # job[w].row
      <4>1. forwarded[r]
        BY <2>3, <3>2 DEF TypeOK
      <4>2. PICK e \in ended : e.how = "forwarded" /\ e.task.row = r
        BY <4>1 DEF ForwardDelivers
      <4> QED
        BY <2>3, <4>2
    <3> QED
      BY <3>1, <3>2
  <2> QED
    BY <2>4, <2>5 DEF ForwardDelivers
<1>5. ASSUME NEW r \in Row, SaveDlr(r) PROVE ForwardDelivers'
  BY <1>2, <1>5 DEF SaveDlr, TypeOK
<1>6. ASSUME NEW w \in Worker, NEW t \in queue, Take(w, t) PROVE ForwardDelivers'
  BY <1>2, <1>3, <1>6 DEF Take, Ended
<1>7. ASSUME NEW w \in Worker, Reach(w) \/ Miss(w) PROVE ForwardDelivers'
  BY <1>2, <1>3, <1>7 DEF Reach, Miss
<1>8. ASSUME NEW w \in Worker, Retry(w) \/ GiveUp(w) \/ Die(w) PROVE ForwardDelivers'
  BY <1>2, <1>3, <1>8 DEF Retry, GiveUp, Die, Ended
<1>9. CASE UNCHANGED <<dlr, forwarded, received, ended>>
  BY <1>2, <1>3, <1>9
<1> QED
  BY <1>4, <1>5, <1>6, <1>7, <1>8, <1>9 DEF Next, RunTask, Enqueue, ChangeUrl, vars

LEMMA ForwardInvariant == Spec => []ForwardInv
<1>1. ForwardInv /\ [Next]_vars => ForwardInv'
  BY TypeStep, SavedStep, DeliversStep DEF ForwardInv
<1> QED
  BY <1>1, ForwardInit, PTL DEF Spec

\* Type correctness of the forward, whose payloads are DLRs that were saved.
THEOREM ForwardTypes == Spec => []TypeOK
<1>1. ForwardInv => TypeOK
  BY DEF ForwardInv
<1> QED
  BY <1>1, ForwardInvariant, PTL

\* A task that ends as forwarded gave the channel the DLR it was enqueued for or
\* a later one, whatever is saved, retried or killed meanwhile.
THEOREM ForwardsDeliver == Spec => []ForwardDelivers
<1>1. ForwardInv => ForwardDelivers
  BY DEF ForwardInv
<1> QED
  BY <1>1, ForwardInvariant, PTL
====
