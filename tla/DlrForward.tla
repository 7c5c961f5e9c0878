------------------------------ MODULE DlrForward ------------------------------
(***************************************************************************)
(* Forwarding DLRs to the workspace's external channel: the view that      *)
(* saved a DLR enqueues a Celery task, a worker reads the row and posts it *)
(* to the external URL, and a failed post is to be retried.  Sources:      *)
(* messaging/tasks.py (forward_external_dlr, enqueue_external_dlr_forward) *)
(* and the end of DLRCallbackView.post.                                    *)
(*                                                                         *)
(* A task is published with positional or with keyword arguments.  Celery  *)
(* retries a task with the positional arguments of the request it is       *)
(* retrying and the keyword arguments it is given, and publishes only what *)
(* binds to the task's parameters; the model keeps that much of a call.    *)
(***************************************************************************)
EXTENDS Integers, Sequences

CONSTANTS
  Row,           \* rows of OutboundMessage
  Worker,        \* Celery worker processes
  RetryChoices,  \* values of workspace.external_dlr_max_retries, at least 1
  MaxDlrs,       \* bound: how many DLRs come for one row
  NoTask         \* a worker without a task

ASSUME ForwardAssumption ==
  /\ RetryChoices \subseteq Nat \ {0}
  /\ MaxDlrs \in Nat

VARIABLES
  maxRetries,  \* the workspace's setting
  hasUrl,      \* whether the workspace has an external DLR URL now
  dlr,         \* dlr[r]: number of the last DLR saved on row r, 0 before any
  owed,        \* DLRs whose view has saved them and not yet enqueued a forward
  queue,       \* forward_external_dlr tasks waiting at the broker
  job,         \* job[w]: the task worker w runs
  payload,     \* payload[w]: number of the DLR it read from the row
  post,        \* post[w]: outcome of its HTTP request
  forwarded,   \* forwarded[r]: whether external_dlr_forwarded_at is set
  received,    \* payloads the external channel took in
  ended        \* history: the tasks that ended, and how

vars == <<maxRetries, hasUrl, dlr, owed, queue, job, payload, post, forwarded,
          received, ended>>

\* Parameters of forward_external_dlr after self, in order.
Params == <<"message_id", "attempt">>

Dlrs  == [row : Row, seq : 1..MaxDlrs]
Tasks == [row : Row, seq : 1..MaxDlrs, attempt : Nat \ {0},
          positional : 0..Len(Params), named : SUBSET {"message_id", "attempt"}]
Ends  == {"forwarded", "skipped", "gave_up", "refused", "died"}

TypeOK ==
  /\ maxRetries \in RetryChoices
  /\ hasUrl \in BOOLEAN
  /\ dlr \in [Row -> 0..MaxDlrs]
  /\ owed \subseteq Dlrs
  /\ queue \subseteq Tasks
  /\ job \in [Worker -> Tasks \cup {NoTask}]
  /\ payload \in [Worker -> 0..MaxDlrs]
  /\ post \in [Worker -> {"none", "ok", "error"}]
  /\ forwarded \in [Row -> BOOLEAN]
  /\ received \subseteq Dlrs
  /\ ended \subseteq [task : Tasks, how : Ends]

Init ==
  /\ maxRetries \in RetryChoices
  /\ hasUrl = TRUE
  /\ dlr = [r \in Row |-> 0]
  /\ owed = {}
  /\ queue = {}
  /\ job = [w \in Worker |-> NoTask]
  /\ payload = [w \in Worker |-> 0]
  /\ post = [w \in Worker |-> "none"]
  /\ forwarded = [r \in Row |-> FALSE]
  /\ received = {}
  /\ ended = {}

-----------------------------------------------------------------------------
(* The DLR view.                                                           *)

\* apply_dlr commits before anything is enqueued.
SaveDlr(r) ==
  /\ dlr[r] < MaxDlrs
  /\ dlr' = [dlr EXCEPT ![r] = @ + 1]
  /\ owed' = owed \cup {[row |-> r, seq |-> dlr[r] + 1]}
  /\ UNCHANGED <<maxRetries, hasUrl, queue, job, payload, post, forwarded,
                 received, ended>>

\* forward_external_dlr.delay(message.pk, 1)
FirstTask_FromZero(o) ==
  [row |-> o.row, seq |-> o.seq, attempt |-> 0, positional |-> 2, named |-> {}]
FirstTask(o) ==
  [row |-> o.row, seq |-> o.seq, attempt |-> 1, positional |-> 2, named |-> {}]

\* No URL, or the broker refuses and the view swallows the exception: no task.
Enqueue(o) ==
  /\ o \in owed
  /\ owed' = owed \ {o}
  /\ \/ hasUrl /\ queue' = queue \cup {FirstTask(o)}
     \/ UNCHANGED queue
  /\ UNCHANGED <<maxRetries, hasUrl, dlr, job, payload, post, forwarded,
                 received, ended>>

\* Someone saves the workspace's settings.
ChangeUrl ==
  /\ hasUrl' = ~hasUrl
  /\ UNCHANGED <<maxRetries, dlr, owed, queue, job, payload, post, forwarded,
                 received, ended>>

-----------------------------------------------------------------------------
(* forward_external_dlr.                                                   *)

Ended(t, how) == ended' = ended \cup {[task |-> t, how |-> how]}

\* The worker reads the row and its workspace in one query.
Take(w, t) ==
  /\ job[w] = NoTask
  /\ t \in queue
  /\ queue' = queue \ {t}
  /\ IF hasUrl
     THEN /\ job' = [job EXCEPT ![w] = t]
          /\ payload' = [payload EXCEPT ![w] = dlr[t.row]]
          /\ UNCHANGED ended
     ELSE Ended(t, "skipped") /\ UNCHANGED <<job, payload>>
  /\ UNCHANGED <<maxRetries, hasUrl, dlr, owed, post, forwarded, received>>

\* The channel takes the payload in, and answers below 400 or not at all in time.
Reach(w) ==
  /\ job[w] # NoTask /\ post[w] = "none"
  /\ received' = received \cup {[row |-> job[w].row, seq |-> payload[w]]}
  /\ \E heard \in {"ok", "error"} : post' = [post EXCEPT ![w] = heard]
  /\ UNCHANGED <<maxRetries, hasUrl, dlr, owed, queue, job, payload, forwarded,
                 ended>>

\* The channel is down or answers 400 and above.
Miss(w) ==
  /\ job[w] # NoTask /\ post[w] = "none"
  /\ post' = [post EXCEPT ![w] = "error"]
  /\ UNCHANGED <<maxRetries, hasUrl, dlr, owed, queue, job, payload, forwarded,
                 received, ended>>

Freed(w) ==
  /\ job' = [job EXCEPT ![w] = NoTask]
  /\ payload' = [payload EXCEPT ![w] = 0]
  /\ post' = [post EXCEPT ![w] = "none"]

\* What the task takes for a success; the mutant does not look at the status.
Delivered_AnyStatus(w) == post[w] # "none"
Delivered(w) == post[w] = "ok"

Succeed(w) ==
  /\ Delivered(w)
  /\ forwarded' = [forwarded EXCEPT ![job[w].row] = TRUE]
  /\ Ended(job[w], "forwarded")
  /\ Freed(w)
  /\ UNCHANGED <<maxRetries, hasUrl, dlr, owed, queue, received>>

\* The call that self.retry publishes: positional arguments of the request it
\* retries, keyword arguments of its own.  The mutant publishes keywords only and
\* does not count the attempt.
Retried_SameAttempt(t) ==
  [t EXCEPT !.positional = 0, !.named = {"message_id", "attempt"}]
Retried(t) ==
  [t EXCEPT !.attempt = @ + 1, !.named = {"message_id", "attempt"}]

\* No parameter gets two values.
Binds(t) == \A i \in 1..t.positional : Params[i] \notin t.named

\* Any exception after the row was read, the one of the final save included.  A
\* retry that does not bind makes the task reject itself without a requeue.
Retry(w) ==
  /\ post[w] # "none"
  /\ job[w].attempt < maxRetries
  /\ LET t == Retried(job[w]) IN
       IF Binds(t)
       THEN queue' = queue \cup {t} /\ UNCHANGED ended
       ELSE Ended(job[w], "refused") /\ UNCHANGED queue
  /\ Freed(w)
  /\ UNCHANGED <<maxRetries, hasUrl, dlr, owed, forwarded, received>>

GiveUp(w) ==
  /\ post[w] # "none"
  /\ job[w].attempt >= maxRetries
  /\ Ended(job[w], "gave_up")
  /\ Freed(w)
  /\ UNCHANGED <<maxRetries, hasUrl, dlr, owed, queue, forwarded, received>>

\* The worker dies.  Tasks are acknowledged before they run, so it is gone.
Die(w) ==
  /\ job[w] # NoTask
  /\ Ended(job[w], "died")
  /\ Freed(w)
  /\ UNCHANGED <<maxRetries, hasUrl, dlr, owed, queue, forwarded, received>>

-----------------------------------------------------------------------------

RunTask(w) == Reach(w) \/ Miss(w) \/ Succeed(w) \/ Retry(w) \/ GiveUp(w)

Next ==
  \/ \E r \in Row : SaveDlr(r)
  \/ \E o \in owed : Enqueue(o)
  \/ ChangeUrl
  \/ \E w \in Worker : RunTask(w) \/ Die(w) \/ \E t \in queue : Take(w, t)

Spec == Init /\ [][Next]_vars

\* Workers keep taking tasks and running them; requests.post has a timeout.
FairSpec ==
  /\ Spec
  /\ \A w \in Worker : WF_vars(RunTask(w)) /\ WF_vars(\E t \in queue : Take(w, t))

-----------------------------------------------------------------------------

\* A task that ended as forwarded gave the channel the DLR it was enqueued for,
\* or a later one of the same row that Joyce had saved by then; and only such a
\* task stamps the row.
ForwardDelivers ==
  /\ \A e \in ended : e.how = "forwarded" =>
       \E p \in received :
         p.row = e.task.row /\ p.seq \in e.task.seq..dlr[p.row]
  /\ \A r \in Row : forwarded[r] =>
       \E e \in ended : e.how = "forwarded" /\ e.task.row = r

\* Every task that was enqueued comes to an end: it forwards, skips or gives up.
ForwardsEnd ==
  \A r \in Row : \A n \in 1..MaxDlrs :
    (\E t \in queue : t.row = r /\ t.seq = n)
      ~> (\E e \in ended : e.task.row = r /\ e.task.seq = n)

\* "Forward failures are retried up to max retries (default 5), waiting retry
\* delay seconds": no task stops trying before it made that many attempts.
RetriesExhausted ==
  \A e \in ended :
    e.how \in {"gave_up", "refused"} => e.task.attempt >= maxRetries
====
