----------------------------- MODULE Lifecycle ------------------------------
(***************************************************************************)
(* What one OutboundMessage row promises to those who read it, whichever   *)
(* path sent it: no threads, tasks, batches or callbacks here, only the    *)
(* row, the ids under which Jasmin accepted it and the DLRs Jasmin sent.   *)
(*                                                                         *)
(*   - a row begins queued and is settled, and never becomes queued again; *)
(*   - the only id it ever carries is one Jasmin gave to that row;         *)
(*   - the DLR columns are written by DLRs for such an id and by nothing   *)
(*     else, and no settling takes them back;                              *)
(*   - "delivered" is shown only with a time of delivery, and both only    *)
(*     when Jasmin sent a DLR that says so.                                *)
(*                                                                         *)
(* Sources: the model and its docstring (messaging/models.py), apply_dlr.  *)
(***************************************************************************)
CONSTANTS Row, MsgId, Stats, NoVal, StatusFromDlr(_)

VARIABLES status, msgId, dlrStatus, deliveredAt, accepted, reports

row  == <<status, msgId, dlrStatus, deliveredAt>>
vars == <<row, accepted, reports>>

Settled == {"submitted", "acked", "delivered", "failed", "expired", "rejected"}

Init ==
  /\ status = [r \in Row |-> "absent"]
  /\ msgId = [r \in Row |-> NoVal]
  /\ dlrStatus = [r \in Row |-> NoVal]
  /\ deliveredAt = [r \in Row |-> FALSE]
  /\ accepted = [i \in MsgId |-> NoVal]
  /\ reports = {}

\* A submit creates its rows.
Create(R) ==
  /\ \A r \in R : status[r] = "absent"
  /\ status' = [r \in Row |-> IF r \in R THEN "queued" ELSE status[r]]
  /\ UNCHANGED <<msgId, dlrStatus, deliveredAt, accepted, reports>>

\* Jasmin accepts row r under a new id.
Accept(i, r) ==
  /\ status[r] # "absent"
  /\ accepted[i] = NoVal
  /\ accepted' = [accepted EXCEPT ![i] = r]
  /\ UNCHANGED <<row, reports>>

\* The rows in R are marked submitted, or failed; each may get an id Jasmin gave
\* it, lose the id it had, or keep what it has.
Settle(R, outcome) ==
  /\ \A r \in R : status[r] # "absent"
  /\ outcome \in {"submitted", "failed"}
  /\ status' = [r \in Row |-> IF r \in R THEN outcome ELSE status[r]]
  /\ msgId' \in [Row -> MsgId \cup {NoVal}]
  /\ \A r \in Row :
       \/ msgId'[r] = msgId[r]
       \/ r \in R /\ (msgId'[r] = NoVal \/ accepted[msgId'[r]] = r)
  /\ UNCHANGED <<dlrStatus, deliveredAt, accepted, reports>>

\* Jasmin sends a DLR about a message it accepted.
Report(i, s) ==
  /\ accepted[i] # NoVal
  /\ reports' = reports \cup {[id |-> i, stat |-> s]}
  /\ UNCHANGED <<row, accepted>>

\* Joyce applies a DLR to the row that Jasmin accepted under its id.  Callbacks
\* race, so what is written back for a DLR that maps to no status, and for
\* delivered_at, may be older than the row; it is never invented.
Receipt(d, r) ==
  /\ d \in reports
  /\ accepted[d.id] = r
  /\ dlrStatus' = [dlrStatus EXCEPT ![r] = d.stat]
  /\ \E s \in Settled, stamped \in BOOLEAN :
       /\ StatusFromDlr(d.stat) \in {s, "unknown"}
       /\ s = "delivered" => stamped
       /\ stamped =>
            \E e \in reports :
              accepted[e.id] = r /\ StatusFromDlr(e.stat) = "delivered"
       /\ status' = [status EXCEPT ![r] = s]
       /\ deliveredAt' = [deliveredAt EXCEPT ![r] = stamped]
  /\ UNCHANGED <<msgId, accepted, reports>>

Next ==
  \/ \E R \in SUBSET Row : Create(R) \/ \E o \in {"submitted", "failed"} : Settle(R, o)
  \/ \E i \in MsgId, r \in Row : Accept(i, r)
  \/ \E i \in MsgId, s \in Stats : Report(i, s)
  \/ \E d \in reports, r \in Row : Receipt(d, r)

Spec == Init /\ [][Next]_vars
====
