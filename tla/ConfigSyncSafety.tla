-------------------------- MODULE ConfigSyncSafety --------------------------
(***************************************************************************)
(* What ConfigSync promises of rows and objects: a request that nobody     *)
(* interferes with knows what it is about, and so what it reports is true. *)
(***************************************************************************)
EXTENDS ConfigSyncProofs

-----------------------------------------------------------------------------
(* What a step leaves to the requests it does not disturb.                  *)

Spared(u) ==
  LET r == req[u].pk
      k == req[u].obj.key
  IN /\ u \in alone
     /\ req[u].pc # "idle" /\ req[u].obj # None =>
          /\ db'[r] = db[r]
          /\ jasmin'[k] = jasmin[k]
          /\ stored'[k] \in {stored[k], jasmin[k]}
     /\ req[u].pc # "idle" /\ req[u].obj = None => jasmin' = jasmin

LEMMA DisturbSpares ==
  ASSUME ShapeInv, TypeOK', NEW t, NEW rows, NEW keys, Disturb(t, rows, keys),
         \A r \in Row \ rows : r <= lastPk => db'[r] = db[r],
         \A k \in Key \ keys : jasmin'[k] = jasmin[k],
         \A k \in Key : stored'[k] \in {stored[k], jasmin[k]},
         NEW u \in alone', u # t
  PROVE  Spared(u)
<1> USE ConfigAssumption, NoneAssumption
<1>1. /\ u \in alone /\ u \in Request
      /\ req[u].pc # "idle" =>
           /\ req[u].pk \notin rows
           /\ keys = {} \/ (req[u].obj # None /\ req[u].obj.key \notin keys)
  BY DEF Disturb, ShapeInv, TypeOK
<1>2. req[u].obj # None => req[u].pk \in Row /\ req[u].pk <= lastPk /\ req[u].obj.key \in Key
  <2>1. req[u].obj # None => req[u].pk \in 1..lastPk /\ req[u].obj \in Rec /\ lastPk \in 0..MaxRows
    BY <1>1 DEF ShapeInv, Shape, Numbered, TypeOK, Requests
  <2> QED
    BY <2>1 DEF Rec, Row
<1>3. keys = {} => jasmin' = jasmin
  BY DEF ShapeInv, TypeOK
<1> QED
  BY <1>1, <1>2, <1>3 DEF Spared

\* A step of another request.
LEMMA Bystander ==
  ASSUME ShapeInv, ShapeInv', NEW t \in Request, NEW u \in alone', u # t,
         \/ \E w \in Workspace, k \in Key, v \in Val : Create(t, w, k, v)
         \/ \E r \in Row : CronFetches(t, r) \/ \E what \in Ops : Load(t, what, r)
         \/ Handle(t)
         \/ PbStep(t) \/ PbFail(t) \/ PbTimeout(t) \/ LateStep(t)
  PROVE  Spared(u) /\ req'[u] = req[u]
<1> USE ConfigAssumption, NoneAssumption
<1>1. u \in Request /\ TypeOK /\ TypeOK'
  BY DEF ShapeInv, TypeOK
<1>2. ASSUME NEW q, Go(t, q) PROVE req'[u] = req[u]
  BY <1>1, <1>2 DEF Go, TypeOK
<1>3. ASSUME UNCHANGED <<db, jasmin, stored, alone>> PROVE Spared(u)
  BY <1>3 DEF Spared
<1>4. ASSUME NEW q, Save(t, q) \/ Remove(t, q), Rest PROVE Spared(u) /\ req'[u] = req[u]
  <2>1. CASE UNCHANGED <<db, alone>> /\ Go(t, Finish(q, "raised"))
    BY <1>2, <1>3, <1>4, <2>1 DEF Rest
  <2>2. CASE Go(t, q) /\ Disturb(t, {q.pk}, {}) /\ \E o : db' = [db EXCEPT ![q.pk] = o]
    <3>1. \A r \in Row \ {q.pk} : db'[r] = db[r]
      BY <1>1, <2>2 DEF TypeOK
    <3> QED
      BY <1>1, <1>2, <1>4, <2>2, <3>1, DisturbSpares DEF Rest
  <2> QED
    BY <1>4, <2>1, <2>2 DEF Save, Remove
<1>5. CASE \E w \in Workspace, k \in Key, v \in Val : Create(t, w, k, v)
  BY <1>4, <1>5 DEF Create
<1>6. CASE \E r \in Row : CronFetches(t, r) \/ \E what \in Ops : Load(t, what, r)
  BY <1>2, <1>3, <1>6 DEF CronFetches, Load, Rest
<1>7. CASE PushedNew(t)
  BY <1>2, <1>3, <1>4, <1>7 DEF PushedNew, Rest
<1>8. CASE Pushed(t) \/ StartRemove(t) \/ DropFails(t) \/ FetchUsers(t) \/ Fetched(t)
  BY <1>2, <1>3, <1>8 DEF Pushed, StartRemove, DropFails, FetchUsers, Fetched, Rest
<1>9. CASE GotStatus(t)
  BY <1>2, <1>3, <1>4, <1>9 DEF GotStatus, Rest
<1>10. CASE \E k \in Key, v \in Val, a \in BOOLEAN : Update(t, k, v, a)
  BY <1>2, <1>3, <1>4, <1>10 DEF Update, Rest
<1>11. CASE Deleted(t) \/ ResyncDropped(t) \/ StartStop(t) \/ ApplyUser(t)
  BY <1>4, <1>11 DEF Deleted, ResyncDropped, StartStop, ApplyUser
<1>12. CASE StartedStopped(t) \/ Rechecked(t)
  BY <1>2, <1>3, <1>4, <1>12 DEF StartedStopped, Rechecked, Rest
<1>13. CASE UpdateDropped(t)
  <2>1. PICK o, q : /\ db' = [db EXCEPT ![req[t].pk] = None, ![lastPk + 1] = o]
                    /\ Go(t, q) /\ Disturb(t, {req[t].pk}, {}) /\ Rest
    BY <1>13 DEF UpdateDropped
  <2>2. \A r \in Row \ {req[t].pk} : r <= lastPk => db'[r] = db[r]
    BY <1>1, <2>1 DEF TypeOK, Row
  <2> QED
    BY <1>1, <1>2, <2>1, <2>2, DisturbSpares DEF Rest
<1>14. CASE PbFail(t) \/ PbTimeout(t)
  BY <1>2, <1>3, <1>14 DEF PbFail, PbTimeout
<1>15. ASSUME NEW c, NEW says, Apply(c, says), UNCHANGED db,
              Disturb(t, {}, Changes(c)) \/ Disturb(None, {}, Changes(c))
       PROVE  Spared(u)
  <2>1. \A k \in Key \ Changes(c) : jasmin'[k] = jasmin[k]
    BY <1>1, <1>15 DEF Apply, Changes, TypeOK
  <2>2. \A k \in Key : stored'[k] \in {stored[k], jasmin[k]}
    BY <1>15 DEF Apply
  <2> QED
    BY <1>1, <1>15, <2>1, <2>2, DisturbSpares
<1>16. CASE PbStep(t) \/ LateStep(t)
  BY <1>2, <1>15, <1>16 DEF PbStep, LateStep
<1> QED
  BY <1>5, <1>6, <1>7, <1>8, <1>9, <1>10, <1>11, <1>12, <1>13, <1>14, <1>16 DEF Handle

\* A step of Jasmin, or of a PB call that its own request gave up waiting for.
LEMMA JasminSpares ==
  ASSUME ShapeInv, ShapeInv', NEW u \in alone',
         JasminRestart \/ (\E k \in Key : Spend(k)) \/ LateStep(u)
  PROVE  Spared(u)
<1> USE ConfigAssumption, NoneAssumption
<1>1. u \in Request /\ u # None /\ TypeOK /\ TypeOK'
  BY DEF ShapeInv, TypeOK
<1>2. CASE JasminRestart
  <2>1. /\ Disturb(None, {}, {k \in Key : jasmin[k] # stored[k]})
        /\ jasmin' = stored /\ UNCHANGED <<db, stored>>
    BY <1>2 DEF JasminRestart
  <2>2. \A k \in Key \ {k \in Key : jasmin[k] # stored[k]} : jasmin'[k] = jasmin[k]
    BY <2>1
  <2> QED
    BY <1>1, <2>1, <2>2, DisturbSpares
<1>3. CASE \E k \in Key : Spend(k)
  <2>1. PICK k \in Key : Spend(k)
    BY <1>3
  <2>2. Disturb(None, {}, {k}) /\ UNCHANGED <<db, stored>>
    BY <2>1 DEF Spend
  <2>3. \A l \in Key \ {k} : jasmin'[l] = jasmin[l]
    BY <1>1, <2>1 DEF Spend, TypeOK
  <2> QED
    BY <1>1, <2>2, <2>3, DisturbSpares
<1>4. CASE LateStep(u)
  <2>1. PICK c, says : /\ Apply(c, says) /\ Disturb(None, {}, Changes(c))
                       /\ UNCHANGED db
    BY <1>4 DEF LateStep
  <2>2. \A k \in Key \ Changes(c) : jasmin'[k] = jasmin[k]
    BY <1>1, <2>1 DEF Apply, Changes, TypeOK
  <2>3. \A k \in Key : stored'[k] \in {stored[k], jasmin[k]}
    BY <2>1 DEF Apply
  <2> QED
    BY <1>1, <2>1, <2>2, <2>3, DisturbSpares
<1> QED
  BY <1>2, <1>3, <1>4

-----------------------------------------------------------------------------
(* What a request that nobody disturbed knows.                              *)

Saving == {"create", "update"}

\* Its instance is the row.
Remembers(q) ==
  q.pc \notin {"idle", "done"} /\ q.obj # None => db[q.pk] = q.obj

\* What a PB call that has not failed has already done to the object and on disk.
Pushes(q) ==
  q.pc = "push" /\ q.op \in Saving /\ q.heard = "true" =>
    /\ q.todo \in {<<>>, <<Persist>>} => jasmin[q.obj.key] = Built(q.obj)
    /\ q.todo = <<>> => stored[q.obj.key] = Built(q.obj)

Drops(q) ==
  q.pc = "drop" /\ q.heard # "error" =>
    /\ q.todo \in {<<>>, <<Persist>>} => jasmin[q.obj.key] = None
    /\ q.todo = <<>> => stored[q.obj.key] = None

Runs(k, on) == jasmin[k] # None /\ jasmin[k].on = on

Starts(q) ==
  /\ q.op \in {"start", "stop"} /\ q.pc \in {"push", "recheck"} =>
       q.obj.active = (q.op = "start")
  /\ q.op \in {"start", "stop"} /\ q.pc = "push" /\ q.todo = <<>> /\ q.heard = "true" =>
       Runs(q.obj.key, q.op = "start")
  /\ q.pc = "recheck" => Runs(q.obj.key, q.op = "start")

\* What a status or a list said is still so.
Reads(q) ==
  /\ q.pc \in {"status", "recheck"} /\ q.todo = <<>> /\ q.heard # "error" =>
       (q.heard = "true") = (jasmin[q.obj.key] # None /\ jasmin[q.obj.key].on)
  /\ q.pc = "fetch" /\ q.todo = <<>> /\ q.heard # "error" =>
       IF q.obj = None THEN q.seen = jasmin ELSE q.seen[q.obj.key] = jasmin[q.obj.key]
  /\ q.pc = "loaded" /\ q.op \in {"sync", "cron"} /\ q.seen # Blank.seen =>
       q.seen[q.obj.key] = jasmin[q.obj.key]

\* What it reports is so (SuccessTruthful, for one request) ...
Reports(q) ==
  q.pc = "done" /\ q.answer = "ok" =>
    /\ q.op \in Saving =>
         /\ db[q.pk] = q.obj
         /\ jasmin[q.obj.key] = Built(q.obj) /\ stored[q.obj.key] = Built(q.obj)
    /\ q.op = "delete" =>
         db[q.pk] = None /\ jasmin[q.obj.key] = None /\ stored[q.obj.key] = None
    /\ q.op \in {"start", "stop"} =>
         /\ db[q.pk] # None /\ db[q.pk].active = (q.op = "start")
         /\ Runs(q.obj.key, q.op = "start")
    /\ q.op \in {"show", "sync", "cron"} /\ q.heard # "error" =>
         /\ db[q.pk] # None /\ jasmin[q.obj.key] # None =>
              /\ db[q.pk].active = jasmin[q.obj.key].on
              /\ kind = "user" => db[q.pk].val = jasmin[q.obj.key].val
    /\ q.op # "resync"

\* ... and a refused creation left no row.
Leaves(q) ==
  q.pc = "done" /\ q.answer = "refused" /\ q.op = "create" =>
    db[q.pk] = None \/ (~configured[q.obj.ws] /\ kind \in {"group", "user", "smpp"})

Knows(q) ==
  /\ Remembers(q) /\ Pushes(q) /\ Drops(q) /\ Starts(q) /\ Reads(q)
  /\ Reports(q) /\ Leaves(q)

Knowing == \A u \in alone : Knows(req[u])

LEMMA KnowingInit == Init => Knowing
BY DEF Init, Knowing, Knows, Blank, Remembers, Pushes, Drops, Starts, Reads, Reports, Leaves

\* What is spared is still known, whether the request stays where it is or loses
\* its connection.
LEMMA StillKnown ==
  ASSUME ShapeInv, UNCHANGED <<kind, configured>>, NEW u \in Request, Spared(u),
         Knows(req[u]),
         req'[u].op = req[u].op, req'[u].pc = req[u].pc, req'[u].pk = req[u].pk,
         req'[u].obj = req[u].obj, req'[u].answer = req[u].answer,
         req'[u].seen = req[u].seen,
         \/ req'[u].todo = req[u].todo /\ req'[u].heard = req[u].heard
         \/ req'[u].todo = <<>> /\ req'[u].heard = "error"
  PROVE  Knows(req[u])'
<1> USE ConfigAssumption, NoneAssumption
<1> DEFINE q == req[u]
           k == q.obj.key
<1>1. /\ q \in Requests
      /\ q.pc \in {"status", "push", "drop", "recheck", "loaded"} => q.obj # None
      /\ q.pc = "done" /\ q.answer = "ok" => q.obj # None
      /\ q.pc = "done" /\ q.op = "create" => q.obj # None
  BY DEF ShapeInv, Shape, TypeOK, Formed, Held
<1>2. /\ q.pc # "idle" /\ q.obj # None =>
           db'[q.pk] = db[q.pk] /\ jasmin'[k] = jasmin[k] /\ stored'[k] \in {stored[k], jasmin[k]}
      /\ q.pc # "idle" /\ q.obj = None => jasmin' = jasmin
  BY DEF Spared
<1>3. /\ q'.op = q.op /\ q'.pc = q.pc /\ q'.pk = q.pk /\ q'.obj = q.obj
      /\ q'.answer = q.answer /\ q'.seen = q.seen
      /\ (q'.todo = q.todo /\ q'.heard = q.heard) \/ (q'.todo = <<>> /\ q'.heard = "error")
  OBVIOUS
<1>4. \A o : Built(o)' = Built(o)
  BY DEF Built
<1>5. Knows(q)
  OBVIOUS
<1>6. Remembers(q)'
  BY <1>2, <1>3, <1>5 DEF Knows, Remembers
<1>7. Pushes(q)'
  BY <1>1, <1>2, <1>3, <1>4, <1>5 DEF Knows, Pushes
<1>8. Drops(q)'
  BY <1>1, <1>2, <1>3, <1>5 DEF Knows, Drops
<1>9. Starts(q)'
  BY <1>1, <1>2, <1>3, <1>5 DEF Knows, Starts, Runs
<1>10. Reads(q)'
  BY <1>1, <1>2, <1>3, <1>5 DEF Knows, Reads
<1>11. Reports(q)'
  BY <1>1, <1>2, <1>3, <1>4, <1>5 DEF Knows, Reports, Runs
<1>12. Leaves(q)'
  BY <1>1, <1>2, <1>3, <1>5 DEF Knows, Leaves
<1> QED
  BY <1>6, <1>7, <1>8, <1>9, <1>10, <1>11, <1>12 DEF Knows

\* A request that ends has to account for what it says, and only for that.
LEMMA DoneKnows ==
  ASSUME NEW t, req'[t].pc = "done", Reports(req[t])', Leaves(req[t])'
  PROVE  Knows(req[t])'
BY DEF Knows, Remembers, Pushes, Drops, Starts, Reads

LEMMA RaisedKnows ==
  ASSUME NEW t, req'[t].pc = "done",
         \/ req'[t].answer = "raised"
         \/ req'[t].answer = "refused" /\ req'[t].op # "create"
  PROVE  Knows(req[t])'
BY DoneKnows DEF Reports, Leaves

\* A request that begins a call, with the row in memory, has nothing to account for.
LEMMA CallingKnows ==
  ASSUME UNCHANGED <<kind, configured>>, NEW t, NEW q, Ready(q), NEW pc \in Calls \ {"recheck"},
         NEW calls, calls \notin {<<>>, <<Persist>>},
         req'[t] = Calling(q, pc, calls), db'[q.pk] = q.obj, q.op # "create",
         pc = "push" /\ q.op \in {"start", "stop"} => q.obj.active = (q.op = "start")
  PROVE  Knows(req[t])'
<1>1. CASE configured[q.obj.ws]
  <2>1. req'[t] = [q EXCEPT !.pc = pc, !.todo = calls, !.heard = "none"]
    BY <1>1 DEF Calling
  <2>2. /\ req'[t].pc = pc /\ req'[t].todo = calls /\ req'[t].heard = "none"
        /\ req'[t].op = q.op /\ req'[t].obj = q.obj /\ req'[t].pk = q.pk
    BY <2>1 DEF Ready, Able, Requests
  <2> QED
    BY <2>2 DEF Knows, Remembers, Pushes, Drops, Starts, Reads, Reports, Leaves, Calls
<1>2. CASE ~configured[q.obj.ws] /\ pc = "status"
  <2>1. req'[t] = [q EXCEPT !.pc = pc, !.heard = "error"]
    BY <1>2 DEF Calling
  <2>2. /\ req'[t].pc = pc /\ req'[t].heard = "error"
        /\ req'[t].op = q.op /\ req'[t].obj = q.obj /\ req'[t].pk = q.pk
    BY <2>1 DEF Ready, Able, Requests
  <2> QED
    BY <1>2, <2>2 DEF Knows, Remembers, Pushes, Drops, Starts, Reads, Reports, Leaves
<1>3. CASE ~configured[q.obj.ws] /\ pc # "status"
  <2>1. req'[t] = Finish(q, "refused")
    BY <1>3 DEF Calling
  <2>2. req'[t].pc = "done" /\ req'[t].answer = "refused" /\ req'[t].op = q.op
    BY <2>1 DEF Finish, Ready, Able, Requests
  <2> QED
    BY <2>2, RaisedKnows
<1> QED
  BY <1>1, <1>2, <1>3

\* The same where the call pushes the row.
LEMMA PushingKnows ==
  ASSUME UNCHANGED <<kind, configured>>, NEW t, NEW q, Ready(q), NEW isNew,
         q.op \in Saving, req'[t] = Pushing(q, isNew), db'[q.pk] = q.obj,
         q.op = "create" =>
           /\ q.obj.linked
           /\ kind \in {"group", "user", "smpp"} \/ req'[t].answer # "refused"
  PROVE  Knows(req[t])'
<1>1. /\ PushCalls(isNew, q.obj) # <<>>
      /\ PushCalls(isNew, q.obj) # <<Persist>>
  BY DEF PushCalls
<1>2. CASE req'[t] = Finish(q, "raised") \/ (req'[t] = Finish(q, "refused") /\ q.op = "update")
  <2>1. req'[t].pc = "done" /\ req'[t].op = q.op
        /\ req'[t].answer \in {"raised", "refused"}
        /\ (req'[t].answer = "refused" => q.op = "update")
    BY <1>2 DEF Finish, Ready, Able, Requests
  <2> QED
    BY <2>1, RaisedKnows
<1>3. CASE configured[q.obj.ws]
           /\ req'[t] = [q EXCEPT !.pc = "push", !.todo = PushCalls(isNew, q.obj), !.heard = "none"]
  <2>1. /\ req'[t].pc = "push" /\ req'[t].heard = "none"
        /\ req'[t].op = q.op /\ req'[t].obj = q.obj /\ req'[t].pk = q.pk
    BY <1>3 DEF Ready, Able, Requests
  <2> QED
    BY <2>1 DEF Knows, Remembers, Pushes, Drops, Starts, Reads, Reports, Leaves, Saving
<1>4. CASE ~configured[q.obj.ws] /\ req'[t] = Finish(q, "refused") /\ q.op = "create"
           /\ kind \in {"group", "user", "smpp"}
  <2>1. /\ req'[t].pc = "done" /\ req'[t].op = q.op /\ req'[t].answer = "refused"
        /\ req'[t].obj = q.obj
    BY <1>4 DEF Finish, Ready, Able, Requests
  <2> QED
    BY <1>4, <2>1, DoneKnows DEF Reports, Leaves
<1> QED
  BY <1>2, <1>3, <1>4 DEF Pushing, Calling, Finish, Saving, Ready, Able, Requests

\* A save that is not possible raises.
LEMMA SaveKnows ==
  ASSUME TypeOK, NEW t \in Request, NEW p, Able(p), Save(t, p)
  PROVE  \/ Knows(req[t])'
         \/ req'[t] = p /\ db'[p.pk] = p.obj
<1>1. ASSUME NEW q, Go(t, q) PROVE req'[t] = q
  BY <1>1 DEF Go, TypeOK
<1>2. CASE Fits(p.pk, p.obj)
  BY <1>1, <1>2 DEF Save, Able, TypeOK
<1>3. CASE ~Fits(p.pk, p.obj)
  <2>1. req'[t] = Finish(p, "raised")
    BY <1>1, <1>3 DEF Save
  <2>2. req'[t].pc = "done" /\ req'[t].answer = "raised"
    BY <2>1 DEF Finish, Able, Requests
  <2> QED
    BY <2>2, RaisedKnows
<1> QED
  BY <1>2, <1>3

\* The steps of a request between its calls.
LEMMA HandleKnows ==
  ASSUME ShapeInv, ShapeInv', NEW t \in Request, t \in alone, Knows(req[t]), Handle(t)
  PROVE  Knows(req[t])'
<1> USE ConfigAssumption, NoneAssumption
<1> DEFINE q == req[t]
           k == q.obj.key
<1>1. /\ q \in Requests /\ Formed(q) /\ TypeOK /\ db \in [Row -> Rec \cup {None}]
      /\ q.pc \in {"status", "loaded", "push", "drop", "recheck"} => q.obj # None
      /\ q.pc = "loaded" => q.todo = <<>>
      /\ q.pc \in Calls /\ q.todo = <<>> => q.heard \in {"true", "false", "error"}
  BY DEF ShapeInv, Shape, TypeOK, Formed, Held, Planned, Requests
<1>2. q.pc \notin {"idle", "done"} /\ q.todo = <<>> /\ q.obj # None =>
        Ready(q) /\ Able(q) /\ db[q.pk] = q.obj
  BY WorkReady DEF Ready, Knows, Remembers
<1>3. UNCHANGED <<kind, configured>>
  BY DEF Handle, PushedNew, Pushed, GotStatus, Update, StartRemove, DropFails, Deleted,
         ResyncDropped, UpdateDropped, StartStop, StartedStopped, Rechecked, FetchUsers,
         Fetched, ApplyUser, Rest
<1>4. ASSUME NEW p, Go(t, p) PROVE req'[t] = p
  BY <1>1, <1>4 DEF Go, TypeOK
<1>5. ASSUME NEW p, Able(p), Save(t, p)
      PROVE  \/ Knows(req[t])'
             \/ req'[t] = p /\ db'[p.pk] = p.obj
  BY <1>1, <1>5, SaveKnows
<1>6. \A p, how : Able(p) => LET n == Finish(p, how) IN
        /\ n.pc = "done" /\ n.answer = how /\ n.op = p.op /\ n.obj = p.obj /\ n.pk = p.pk
        /\ n.heard = p.heard
  BY DEF Finish, Able, Requests
<1>11. ASSUME PushedNew(t) PROVE Knows(req[t])'
  <2>1. /\ q.pc = "push" /\ q.op = "create" /\ q.todo = <<>> /\ Rest
        /\ Ready(q) /\ Able(q) /\ db[q.pk] = q.obj
    BY <1>1, <1>2, <1>11 DEF PushedNew
  <2>2. CASE q.heard = "true"
    <3>1. req'[t] = Finish(q, "ok") /\ UNCHANGED db
      BY <1>4, <1>11, <2>2 DEF PushedNew
    <3>2. jasmin[k] = Built(q.obj) /\ stored[k] = Built(q.obj)
      BY <2>1, <2>2 DEF Knows, Pushes, Saving
    <3>3. Reports(req[t])'
      BY <1>3, <1>6, <2>1, <3>1, <3>2 DEF Reports, Rest, Built, Saving
    <3> QED
      BY <1>6, <2>1, <3>1, <3>3, DoneKnows DEF Leaves
  <2>3. CASE q.heard # "true"
    <3>1. req'[t] = Finish(q, "refused") /\ db'[q.pk] = None
      <4>1. Remove(t, Finish(q, "refused"))
        BY <1>11, <2>3 DEF PushedNew
      <4>2. Go(t, Finish(q, "refused"))
        BY <4>1 DEF Remove
      <4>3. Finish(q, "refused").pk = q.pk
        BY <1>6, <2>1
      <4>4. db' = [db EXCEPT ![q.pk] = None]
        BY <4>1, <4>3 DEF Remove
      <4> QED
        BY <1>1, <1>4, <2>1, <4>2, <4>4 DEF Able
    <3> QED
      BY <1>6, <2>1, <3>1, DoneKnows DEF Leaves, Reports
  <2> QED
    BY <2>2, <2>3
<1>12. ASSUME Pushed(t) PROVE Knows(req[t])'
  <2>1. /\ q.pc = "push" /\ q.op = "update" /\ q.todo = <<>> /\ Rest /\ UNCHANGED db
        /\ Ready(q) /\ Able(q) /\ db[q.pk] = q.obj
    BY <1>1, <1>2, <1>12 DEF Pushed
  <2>2. CASE q.heard = "true"
    <3>1. req'[t] = Finish(q, "ok")
      BY <1>4, <1>12, <2>2 DEF Pushed
    <3>2. jasmin[k] = Built(q.obj) /\ stored[k] = Built(q.obj)
      BY <2>1, <2>2 DEF Knows, Pushes, Saving
    <3>3. Reports(req[t])'
      BY <1>3, <1>6, <2>1, <3>1, <3>2 DEF Reports, Rest, Built, Saving
    <3> QED
      BY <1>6, <2>1, <3>1, <3>3, DoneKnows DEF Leaves
  <2>3. CASE q.heard # "true"
    <3>1. req'[t] = Finish(q, "refused")
      BY <1>4, <1>12, <2>3 DEF Pushed
    <3> QED
      BY <1>6, <2>1, <3>1, RaisedKnows
  <2> QED
    BY <2>2, <2>3
<1>13. ASSUME GotStatus(t) PROVE Knows(req[t])'
  <2>1. /\ q.pc = "status" /\ q.todo = <<>> /\ Rest /\ Ready(q) /\ Able(q)
        /\ db[q.pk] = q.obj /\ kind = "smpp" /\ q.op \notin {"create", "sync", "cron"}
    BY <1>1, <1>2, <1>13 DEF GotStatus, Formed, Placed, Offered, Able, PushedNew
  <2> DEFINE live == q.heard = "true"
             Goes(p) == IF p.op = "show" THEN Finish(p, "ok") ELSE [p EXCEPT !.pc = "loaded"]
             p1 == [q EXCEPT !.obj.active = live]
  <2>2. /\ Ready(p1) /\ Able(p1) /\ p1.pk = q.pk /\ p1.op = q.op /\ p1.heard = q.heard
        /\ p1.obj = [q.obj EXCEPT !.active = live]
    BY <2>1 DEF Ready, Able, Requests, Rec
  <2>3. p1.obj.key = k /\ p1.obj.active = live /\ p1.obj # None
    BY <2>1, <2>2 DEF Able, Rec
  <2> HIDE DEF p1
  <2>4. jasmin[k] # None /\ q.heard # "error" => jasmin[k].on = live
    <3>1. jasmin[k] # None => jasmin[k].on \in BOOLEAN
      BY <1>1, <2>1 DEF TypeOK, Able, Rec, Object
    <3> QED
      BY <2>1, <3>1 DEF Knows, Reads
  <2>5. ASSUME NEW p, Ready(p), Able(p), p.op = q.op, p.heard = q.heard, p.obj.key = k,
               req'[t] = Goes(p), db'[p.pk] = p.obj,
               q.heard = "error" \/ p.obj.active = live
        PROVE  Knows(req[t])'
    <3>1. CASE p.op = "show"
      <4>1. req'[t] = Finish(p, "ok")
        BY <2>5, <3>1
      <4>2. Reports(req[t])'
        BY <1>3, <1>6, <2>1, <2>4, <2>5, <3>1, <4>1 DEF Reports, Rest, Saving
      <4> QED
        BY <1>6, <2>5, <3>1, <4>1, <4>2, DoneKnows DEF Leaves
    <3>2. CASE p.op # "show"
      <4>1. /\ req'[t].pc = "loaded" /\ req'[t].obj = p.obj /\ req'[t].pk = p.pk
            /\ req'[t].op = q.op
        BY <2>5, <3>2 DEF Able, Requests
      <4> QED
        BY <2>1, <2>5, <4>1
           DEF Knows, Remembers, Pushes, Drops, Starts, Reads, Reports, Leaves
    <3> QED
      BY <3>1, <3>2
  <2>6. CASE Go(t, Goes(q)) /\ UNCHANGED db /\ (q.heard = "error" \/ q.obj.active = live)
    <3>1. req'[t] = Goes(q) /\ db'[q.pk] = q.obj
      BY <1>4, <2>1, <2>6
    <3> HIDE DEF Goes
    <3> QED
      BY <2>1, <2>5, <2>6, <3>1
  <2>7. CASE Save(t, Goes(p1))
    <3>1. Able(Goes(p1)) /\ Goes(p1).pk = p1.pk /\ Goes(p1).obj = p1.obj
      BY <1>6, <2>2, FinishForms DEF Onward, Able, Requests
    <3> HIDE DEF Goes
    <3>2. Knows(req[t])' \/ (req'[t] = Goes(p1) /\ db'[p1.pk] = p1.obj)
      BY <1>5, <2>7, <3>1
    <3> QED
      BY <2>2, <2>3, <2>5, <3>2
  <2> QED
    BY <1>13, <2>6, <2>7 DEF GotStatus, p1
<1>14. ASSUME NEW l \in Key, NEW v \in Val, NEW a \in BOOLEAN, Update(t, l, v, a)
       PROVE  Knows(req[t])'
  <2>1. /\ q.pc = "loaded" /\ q.op = "update" /\ q.todo = <<>> /\ Rest
        /\ Ready(q) /\ Able(q) /\ db[q.pk] = q.obj
    BY <1>1, <1>2, <1>14 DEF Update, Loaded
  <2> DEFINE p == [q EXCEPT !.obj = Edited(q.obj, l, v, a)]
             n == IF kind = "route" THEN Calling(p, "drop", RemoveCalls(l))
                  ELSE Pushing(p, FALSE)
  <2>2. Ready(p) /\ p.pk = q.pk /\ p.op = q.op /\ p.obj = Edited(q.obj, l, v, a)
    BY <2>1 DEF Ready, Able, Edited, Requests, Rec
  <2>3. p.obj.key = l
    <3>1. Edited(q.obj, l, v, a).key = l
      BY <2>1 DEF Edited, Able, Rec
    <3> QED
      BY <2>2, <3>1
  <2>4. Save(t, n) \/ Go(t, Finish(q, "refused"))
    BY <1>14 DEF Update
  <2> HIDE DEF p
  <2>5. Onward(p, n)
    <3>1. kind = "route" => Onward(p, Calling(p, "drop", RemoveCalls(l)))
      <4>1. RemoveCalls(l) \in Seq(Call)
        BY DEF RemoveCalls, Do, Persist, Call
      <4> QED
        BY <1>1, <2>1, <2>2, <2>3, <4>1, CallingForms DEF Calls
    <3>2. Onward(p, Pushing(p, FALSE))
      BY <1>1, <2>1, <2>2, PushingForms
    <3> QED
      BY <3>1, <3>2
  <2>6. CASE Go(t, Finish(q, "refused"))
    BY <1>4, <1>6, <2>1, <2>6, RaisedKnows
  <2>7. CASE Save(t, n)
    <3>1. Knows(req[t])' \/ (req'[t] = n /\ db'[p.pk] = p.obj)
      BY <1>5, <2>5, <2>7 DEF Onward
    <3>2. ASSUME req'[t] = n, db'[p.pk] = p.obj PROVE Knows(req[t])'
      <4>1. CASE kind = "route"
        <5>1. RemoveCalls(l) \notin {<<>>, <<Persist>>}
          BY DEF RemoveCalls
        <5>2. req'[t] = Calling(p, "drop", RemoveCalls(l))
          BY <3>2, <4>1
        <5>3. "drop" \in Calls \ {"recheck"} /\ p.op # "create"
          BY <2>1, <2>2 DEF Calls
        <5> HIDE DEF n
        <5> QED
          BY <1>3, <2>2, <3>2, <5>1, <5>2, <5>3, CallingKnows
      <4>2. CASE kind # "route"
        <5>1. req'[t] = Pushing(p, FALSE)
          BY <3>2, <4>2
        <5>2. p.op \in Saving /\ p.op # "create"
          BY <2>1, <2>2 DEF Saving
        <5> HIDE DEF n
        <5> QED
          BY <1>3, <2>2, <3>2, <5>1, <5>2, PushingKnows
      <4> QED
        BY <4>1, <4>2
    <3> QED
      BY <3>1, <3>2
  <2> QED
    BY <2>4, <2>6, <2>7
<1>15. ASSUME StartRemove(t) PROVE Knows(req[t])'
  <2>1. /\ q.pc = "loaded" /\ q.op \in {"delete", "resync"} /\ Rest /\ UNCHANGED db
        /\ Ready(q) /\ Able(q) /\ db[q.pk] = q.obj
    BY <1>1, <1>2, <1>15 DEF StartRemove, Loaded
  <2>2. req'[t] = Calling(q, "drop", RemoveCalls(k))
    BY <1>4, <1>15 DEF StartRemove
  <2>3. RemoveCalls(k) \notin {<<>>, <<Persist>>} /\ "drop" \in Calls \ {"recheck"}
    BY DEF RemoveCalls, Calls
  <2> QED
    BY <1>3, <2>1, <2>2, <2>3, CallingKnows
<1>16. ASSUME DropFails(t) \/ Deleted(t) \/ ResyncDropped(t) PROVE Knows(req[t])'
  <2>1. /\ q.pc = "drop" /\ q.todo = <<>> /\ q.op # "create" /\ Rest
        /\ Ready(q) /\ Able(q) /\ db[q.pk] = q.obj
    BY <1>1, <1>2, <1>16 DEF DropFails, Deleted, ResyncDropped, Dropped, Formed, Placed
  <2>2. CASE DropFails(t)
    <3>1. req'[t] = Finish(q, "refused")
      BY <1>4, <2>2 DEF DropFails
    <3> QED
      BY <1>6, <2>1, <3>1, RaisedKnows
  <2>3. CASE ResyncDropped(t)
    <3>1. req'[t] = Finish(q, "raised")
      BY <1>4, <2>3 DEF ResyncDropped, Remove
    <3> QED
      BY <1>6, <2>1, <3>1, RaisedKnows
  <2>4. CASE Deleted(t)
    <3>1. Remove(t, Finish(q, "ok")) /\ q.op = "delete" /\ q.heard # "error"
      BY <2>4 DEF Deleted, Dropped
    <3>2. req'[t] = Finish(q, "ok")
      BY <1>4, <3>1 DEF Remove
    <3>3. db' = [db EXCEPT ![Finish(q, "ok").pk] = None] /\ Finish(q, "ok").pk = q.pk
      BY <1>6, <2>1, <3>1 DEF Remove
    <3>4. db'[q.pk] = None
      BY <1>1, <2>1, <3>3 DEF Able
    <3>5. jasmin[k] = None /\ stored[k] = None
      BY <2>1, <3>1 DEF Knows, Drops
    <3>6. Reports(req[t])'
      BY <1>6, <2>1, <3>1, <3>2, <3>4, <3>5 DEF Reports, Rest, Saving
    <3> QED
      BY <1>6, <2>1, <3>1, <3>2, <3>6, DoneKnows DEF Leaves
  <2> QED
    BY <1>16, <2>2, <2>3, <2>4
<1>17. ASSUME UpdateDropped(t) PROVE Knows(req[t])'
  <2>1. Ready(q) /\ Able(q) /\ q.op = "update" /\ lastPk < MaxRows /\ lastPk \in 0..MaxRows
    BY <1>1, <1>2, <1>17 DEF UpdateDropped, Dropped, TypeOK
  <2> DEFINE r == lastPk + 1
             o == [q.obj EXCEPT !.linked = FALSE]
             p == [q EXCEPT !.pk = r, !.obj = o]
  <2>2. r \in Row
    BY <2>1 DEF Row
  <2>3. Ready(p) /\ p.pk = r /\ p.op = q.op /\ p.obj = o
    BY <2>1, <2>2 DEF Ready, Able, Requests, Rec
  <2>4. db' = [db EXCEPT ![q.pk] = None, ![r] = o] /\ Go(t, Pushing(p, TRUE))
    BY <1>17 DEF UpdateDropped
  <2> HIDE DEF r, o, p
  <2>5. db'[p.pk] = p.obj
    BY <1>1, <2>2, <2>3, <2>4
  <2>6. req'[t] = Pushing(p, TRUE)
    BY <1>4, <2>4
  <2>7. p.op \in Saving /\ p.op # "create"
    BY <2>1, <2>3 DEF Saving
  <2> QED
    BY <1>3, <2>3, <2>5, <2>6, <2>7, PushingKnows
<1>18. ASSUME StartStop(t) PROVE Knows(req[t])'
  <2>1. Ready(q) /\ Able(q) /\ q.op \in {"start", "stop"}
    BY <1>1, <1>2, <1>18 DEF StartStop, Loaded
  <2> DEFINE p == [q EXCEPT !.obj.active = q.op = "start"]
             calls == <<Do(p.op, p.obj.key)>>
             n == Calling(p, "push", calls)
  <2>2. Ready(p) /\ p.pk = q.pk /\ p.op = q.op /\ p.obj.active = (p.op = "start")
    BY <2>1 DEF Ready, Able, Requests, Rec
  <2>3. Save(t, n)
    BY <1>18 DEF StartStop
  <2> HIDE DEF p
  <2>4. calls \notin {<<>>, <<Persist>>} /\ calls \in Seq(Call)
    <3>1. Do(p.op, p.obj.key).do = p.op /\ Persist.do = "persist"
      BY DEF Do, Persist
    <3>2. Do(p.op, p.obj.key) \in Call
      BY <2>1, <2>2 DEF Do, Call, Ready, Able, Rec
    <3> QED
      BY <2>1, <2>2, <3>1, <3>2
  <2>5. "push" \in Calls \ {"recheck"} /\ p.op # "create"
    BY <2>1, <2>2 DEF Calls
  <2>6. Onward(p, n)
    BY <1>1, <2>1, <2>2, <2>4, <2>5, CallingForms
  <2>7. Knows(req[t])' \/ (req'[t] = n /\ db'[p.pk] = p.obj)
    BY <1>5, <2>3, <2>6 DEF Onward
  <2> HIDE DEF calls
  <2> QED
    BY <1>3, <2>2, <2>4, <2>5, <2>7, CallingKnows
\* The same when the started or stopped connector is what was asked for.
<1>19. ASSUME NEW p, Able(p), p.op \in {"start", "stop"}, p.obj.key = k,
              p.obj.active = (p.op = "start"), Runs(k, p.op = "start"),
              req'[t] = Finish(p, "ok"), db'[p.pk] = p.obj, UNCHANGED jasmin
       PROVE  Knows(req[t])'
  <2>1. p.obj # None
    BY <1>19 DEF Able
  <2>2. Reports(req[t])'
    BY <1>6, <1>19, <2>1 DEF Reports, Runs, Saving
  <2> QED
    BY <1>6, <1>19, <2>2, DoneKnows DEF Leaves
<1>20. ASSUME StartedStopped(t) PROVE Knows(req[t])'
  <2>1. /\ q.pc = "push" /\ q.todo = <<>> /\ q.op \in {"start", "stop"} /\ Rest
        /\ Ready(q) /\ Able(q) /\ db[q.pk] = q.obj
    BY <1>1, <1>2, <1>20 DEF StartedStopped
  <2>2. CASE q.heard = "true"
    <3> DEFINE calls == <<Do("status", k)>>
    <3>1. req'[t] = Calling(q, "recheck", calls) /\ UNCHANGED db
      BY <1>4, <1>20, <2>2 DEF StartedStopped
    <3>2. q.obj.active = (q.op = "start") /\ Runs(k, q.op = "start")
      BY <2>1, <2>2 DEF Knows, Starts
    <3>3. /\ req'[t].pc = "recheck" /\ req'[t].op = q.op /\ req'[t].obj = q.obj
          /\ req'[t].pk = q.pk
          /\ req'[t].todo = calls \/ req'[t].heard = "error"
      BY <2>1, <3>1 DEF Calling, Able, Requests
    <3>4. /\ db'[q.pk] = q.obj /\ jasmin' = jasmin
          /\ req'[t].todo # <<>> \/ req'[t].heard = "error"
      BY <2>1, <3>1, <3>3 DEF Rest
    <3> HIDE DEF calls
    <3>5. Remembers(req[t])'
      BY <3>3, <3>4 DEF Remembers
    <3>6. Starts(req[t])'
      BY <2>1, <3>2, <3>3, <3>4 DEF Starts, Runs
    <3>7. Reads(req[t])'
      BY <3>3, <3>4 DEF Reads
    <3>8. Pushes(req[t])' /\ Drops(req[t])' /\ Reports(req[t])' /\ Leaves(req[t])'
      BY <3>3 DEF Pushes, Drops, Reports, Leaves
    <3> QED
      BY <3>5, <3>6, <3>7, <3>8 DEF Knows
  <2>3. CASE q.heard # "true"
    <3> DEFINE p == [q EXCEPT !.obj.active = ~@]
    <3>1. Save(t, Finish(p, "refused"))
      BY <1>20, <2>3 DEF StartedStopped
    <3>2. Able(p) /\ p.op = q.op
      BY <2>1 DEF Able, Requests, Rec
    <3> HIDE DEF p
    <3>3. Able(Finish(p, "refused"))
      BY <3>2, FinishForms DEF Onward
    <3>4. Knows(req[t])' \/ req'[t] = Finish(p, "refused")
      BY <1>5, <3>1, <3>3
    <3> QED
      BY <1>6, <2>1, <3>2, <3>4, RaisedKnows
  <2> QED
    BY <2>2, <2>3
<1>21. ASSUME Rechecked(t) PROVE Knows(req[t])'
  <2>1. /\ q.pc = "recheck" /\ q.todo = <<>> /\ q.op \in {"start", "stop"} /\ Rest
        /\ Ready(q) /\ Able(q) /\ db[q.pk] = q.obj
    BY <1>1, <1>2, <1>21 DEF Rechecked, Formed, Placed
  <2>2. q.obj.active = (q.op = "start") /\ Runs(k, q.op = "start")
    BY <2>1 DEF Knows, Starts
  <2> DEFINE p == [q EXCEPT !.obj.active = q.heard = "true"]
  <2>3. CASE Go(t, Finish(q, "ok")) /\ UNCHANGED db
    <3>1. req'[t] = Finish(q, "ok")
      BY <1>4, <2>3
    <3> QED
      BY <1>19, <2>1, <2>2, <2>3, <3>1 DEF Rest
  <2>4. CASE Save(t, Finish(p, "ok")) /\ q.heard # "error"
    <3>1. (q.heard = "true") = (q.op = "start")
      BY <2>1, <2>2, <2>4 DEF Knows, Reads, Runs
    <3>2. Able(p) /\ p.op = q.op /\ p.obj.key = k /\ p.obj.active = (p.op = "start")
      BY <2>1, <3>1 DEF Able, Requests, Rec
    <3> HIDE DEF p
    <3>3. Able(Finish(p, "ok")) /\ Finish(p, "ok").pk = p.pk /\ Finish(p, "ok").obj = p.obj
      BY <3>2, FinishForms DEF Onward
    <3>4. Knows(req[t])' \/ (req'[t] = Finish(p, "ok") /\ db'[p.pk] = p.obj)
      BY <1>5, <2>4, <3>3
    <3> QED
      BY <1>19, <2>1, <2>2, <3>2, <3>4 DEF Rest
  <2> QED
    BY <1>21, <2>3, <2>4 DEF Rechecked
<1>22. ASSUME FetchUsers(t) PROVE Knows(req[t])'
  <2>1. /\ q.pc = "loaded" /\ q.op = "sync" /\ Rest /\ UNCHANGED db
        /\ Ready(q) /\ Able(q) /\ db[q.pk] = q.obj
    BY <1>1, <1>2, <1>22 DEF FetchUsers, Loaded
  <2>2. req'[t] = Calling(q, "fetch", <<Do("list", None)>>)
    BY <1>4, <1>22 DEF FetchUsers
  <2>3. <<Do("list", None)>> \notin {<<>>, <<Persist>>} /\ "fetch" \in Calls \ {"recheck"}
    <3>1. Do("list", None) # Persist
      BY DEF Do, Persist
    <3> QED
      BY <3>1 DEF Calls
  <2> QED
    BY <1>3, <2>1, <2>2, <2>3, CallingKnows
<1>23. ASSUME Fetched(t) PROVE Knows(req[t])'
  <2> DEFINE p == IF q.op = "cron" THEN [q EXCEPT !.obj = db[q.pk]] ELSE q
  <2>1. /\ q.pc = "fetch" /\ q.todo = <<>> /\ q.op \in {"sync", "cron"} /\ q.pk \in Row /\ Rest
        /\ UNCHANGED db /\ (q.op = "sync" => q.obj # None)
    BY <1>1, <1>23 DEF Fetched, Formed, Placed, Held, Requests, Ops
  <2>2. /\ p.op = q.op /\ p.pk = q.pk /\ p.seen = q.seen /\ p.heard = q.heard
        /\ p.obj = IF q.op = "cron" THEN db[q.pk] ELSE q.obj
        /\ p \in Requests
    BY <1>1, <2>1 DEF Requests
  <2>3. \/ /\ p.obj # None /\ p.heard # "error"
           /\ req'[t] = [p EXCEPT !.pc = "loaded"]
        \/ req'[t] = Finish(p, "refused")
    BY <1>4, <1>23 DEF Fetched
  <2> HIDE DEF p
  <2>4. CASE req'[t] = Finish(p, "refused")
    <3>1. req'[t].pc = "done" /\ req'[t].answer = "refused" /\ req'[t].op = p.op
      BY <2>2, <2>4 DEF Finish, Requests
    <3> QED
      BY <2>1, <2>2, <3>1, RaisedKnows
  <2>5. CASE p.obj # None /\ p.heard # "error" /\ req'[t] = [p EXCEPT !.pc = "loaded"]
    <3>1. /\ req'[t].pc = "loaded" /\ req'[t].obj = p.obj /\ req'[t].pk = q.pk
          /\ req'[t].seen = q.seen
      BY <2>2, <2>5 DEF Requests
    <3>2. db[q.pk] = p.obj
      BY <2>1, <2>2 DEF Knows, Remembers
    <3>3. q.seen[p.obj.key] = jasmin[p.obj.key]
      <4>1. CASE q.obj = None
        BY <2>1, <2>2, <2>5, <4>1 DEF Knows, Reads
      <4>2. CASE q.obj # None
        <5>1. p.obj = q.obj
          BY <2>1, <2>2, <4>2 DEF Knows, Remembers
        <5> QED
          BY <2>1, <2>2, <2>5, <4>2, <5>1 DEF Knows, Reads
      <4> QED
        BY <4>1, <4>2
    <3> QED
      BY <2>1, <3>1, <3>2, <3>3
         DEF Knows, Remembers, Pushes, Drops, Starts, Reads, Reports, Leaves, Rest
  <2> QED
    BY <2>3, <2>4, <2>5
<1>24. ASSUME ApplyUser(t) PROVE Knows(req[t])'
  <2>1. /\ q.pc = "loaded" /\ q.op \in {"sync", "cron"} /\ q.seen # Blank.seen /\ Rest
        /\ Ready(q) /\ Able(q) /\ db[q.pk] = q.obj
    BY <1>1, <1>2, <1>24 DEF ApplyUser, Loaded
  <2> DEFINE user == q.seen[k]
             p == [q EXCEPT !.obj.val = user.val, !.obj.active = user.on]
  <2>2. user = jasmin[k] /\ user # None
    BY <1>1, <2>1 DEF Knows, Reads, Formed, Held
  <2>3. user.val \in Val /\ user.on \in BOOLEAN
    <3>1. k \in Key
      BY <2>1 DEF Able, Rec
    <3>2. user \in Object
      BY <1>1, <2>2, <3>1 DEF TypeOK
    <3> QED
      BY <3>2 DEF Object
  <2>4. Save(t, Finish(p, "ok"))
    BY <1>24 DEF ApplyUser
  <2>5. /\ Able(p) /\ p.op = q.op /\ p.pk = q.pk /\ p.obj.key = k
        /\ p.obj.val = user.val /\ p.obj.active = user.on
    <3> HIDE DEF user
    <3> QED
      BY <2>1, <2>3 DEF Able, Requests, Rec
  <2> HIDE DEF p
  <2>6. Able(Finish(p, "ok")) /\ Finish(p, "ok").pk = p.pk /\ Finish(p, "ok").obj = p.obj
    BY <2>5, FinishForms DEF Onward
  <2>7. Knows(req[t])' \/ (req'[t] = Finish(p, "ok") /\ db'[p.pk] = p.obj)
    BY <1>5, <2>4, <2>6
  <2>8. ASSUME req'[t] = Finish(p, "ok"), db'[p.pk] = p.obj PROVE Knows(req[t])'
    <3>1. Reports(req[t])'
      BY <1>6, <2>1, <2>2, <2>5, <2>8 DEF Reports, Rest, Saving
    <3> QED
      BY <1>6, <2>5, <2>8, <3>1, DoneKnows DEF Leaves
  <2> QED
    BY <2>7, <2>8
<1> QED
  BY <1>11, <1>12, <1>13, <1>14, <1>15, <1>16, <1>17, <1>18, <1>20, <1>21, <1>22, <1>23,
     <1>24 DEF Handle

\* The steps that begin a request.
LEMMA BeginKnows ==
  ASSUME ShapeInv, ShapeInv', NEW t \in Request,
         \/ \E w \in Workspace, k \in Key, v \in Val : Create(t, w, k, v)
         \/ \E r \in Row : CronFetches(t, r) \/ \E what \in Ops : Load(t, what, r)
  PROVE  Knows(req[t])'
<1> USE ConfigAssumption, NoneAssumption
<1>1. TypeOK /\ lastPk \in 0..MaxRows /\ kind \in {"group", "user", "smpp", "route", "interceptor"}
  BY DEF ShapeInv, TypeOK
<1>2. Blank \in Requests /\ Blank.late \in Seq(Proper)
  BY DEF Blank, Requests
<1>3. ASSUME NEW p, Go(t, p) PROVE req'[t] = p
  BY <1>1, <1>3 DEF Go, TypeOK
<1>4. ASSUME NEW w \in Workspace, NEW k \in Key, NEW v \in Val, Create(t, w, k, v)
      PROVE  Knows(req[t])'
  <2> DEFINE r == lastPk + 1
             o == NewRow(w, k, v)
             p == [Blank EXCEPT !.op = "create", !.pk = r, !.obj = o]
             q == Pushing(p, TRUE)
  <2>1. r \in Row /\ "create" \in Ops /\ o \in Rec /\ o.linked
    <3>1. lastPk < MaxRows
      BY <1>4 DEF Create
    <3> QED
      BY <1>1, <3>1, Records DEF Row, Ops, NewRow
  <2>2. Ready(p) /\ p.pk = r /\ p.op = "create" /\ p.obj.linked
    <3>1. p = [Blank EXCEPT !.op = "create", !.pk = r, !.obj = o]
      OBVIOUS
    <3> HIDE DEF o, r, p
    <3> QED
      BY <1>2, <2>1, <3>1 DEF Blank, Requests, Ready, Able
  <2>3. /\ Rest
        /\ \/ Save(t, q) /\ (kind \in {"group", "user", "smpp"} \/ q.answer # "refused")
           \/ Remove(t, q) /\ q.answer = "refused"
    BY <1>1, <1>4 DEF Create
  <2> HIDE DEF p
  <2>4. Onward(p, q)
    BY <1>1, <2>2, PushingForms
  <2>5. CASE Remove(t, q) /\ q.answer = "refused"
    <3> HIDE DEF q
    <3>1. req'[t] = q /\ db' = [db EXCEPT ![q.pk] = None]
      BY <1>3, <2>5 DEF Remove
    <3>2. q.pc = "done" /\ db'[q.pk] = None
      BY <1>1, <2>4, <2>5, <3>1 DEF Onward, Able, Formed, Held, TypeOK
    <3> QED
      BY <2>5, <3>1, <3>2, DoneKnows DEF Reports, Leaves
  <2>6. CASE Save(t, q) /\ (kind \in {"group", "user", "smpp"} \/ q.answer # "refused")
    <3>1. Knows(req[t])' \/ (req'[t] = q /\ db'[p.pk] = p.obj)
      <4> HIDE DEF q
      <4> QED
        BY <1>1, <2>4, <2>6, SaveKnows DEF Onward
    <3>2. UNCHANGED <<kind, configured>> /\ p.op \in Saving
      BY <2>2, <2>3 DEF Rest, Saving
    <3> QED
      BY <2>2, <2>6, <3>1, <3>2, PushingKnows
  <2> QED
    BY <2>3, <2>5, <2>6
<1>5. ASSUME NEW r \in Row, NEW what \in Ops, Load(t, what, r) PROVE Knows(req[t])'
  <2> DEFINE q == [Blank EXCEPT !.op = what, !.pk = r, !.obj = db[r]]
  <2>1. Offered(what) /\ db[r] \in Rec
    <3>1. Offered(what) /\ db[r] # None
      BY <1>5 DEF Load, Present
    <3> QED
      BY <1>1, <3>1 DEF TypeOK
  <2>2. Ready(q) /\ q.pk = r /\ q.op = what /\ q.obj = db[r]
    <3> DEFINE o == db[r]
    <3>1. o \in Rec /\ q = [Blank EXCEPT !.op = what, !.pk = r, !.obj = o]
      BY <2>1
    <3> HIDE DEF o, q
    <3>2. Ready(q) /\ q.pk = r /\ q.op = what /\ q.obj = o
      BY <1>2, <2>1, <3>1 DEF Blank, Requests, Ready, Able
    <3> QED
      BY <3>2 DEF o
  <2>3. what # "create" /\ q.seen = Blank.seen
    BY <1>5, <2>1 DEF Load, Blank, Offered
  <2>4. UNCHANGED db /\ Rest
    BY <1>5 DEF Load
  <2>5. CASE kind = "smpp"
    <3> DEFINE calls == <<Do("status", q.obj.key)>>
    <3>1. Go(t, Calling(q, "status", calls))
      BY <1>5, <2>5 DEF Load
    <3>2. Do("status", q.obj.key) # Persist
      BY DEF Do, Persist
    <3>3. calls \notin {<<>>, <<Persist>>} /\ "status" \in Calls \ {"recheck"}
      BY <3>2 DEF Calls
    <3> HIDE DEF q, calls
    <3>4. req'[t] = Calling(q, "status", calls) /\ db'[q.pk] = q.obj
      BY <1>3, <2>2, <2>4, <3>1
    <3> QED
      BY <2>2, <2>3, <2>4, <3>3, <3>4, CallingKnows DEF Rest
  <2>6. CASE kind # "smpp"
    <3>1. Go(t, [q EXCEPT !.pc = "loaded"])
      BY <1>5, <2>6 DEF Load
    <3> HIDE DEF q
    <3>2. req'[t] = [q EXCEPT !.pc = "loaded"]
      BY <1>3, <3>1
    <3>3. /\ req'[t].pc = "loaded" /\ req'[t].pk = r /\ req'[t].obj = db[r]
          /\ req'[t].seen = Blank.seen
      BY <2>2, <2>3, <3>2 DEF Ready, Able, Requests
    <3> QED
      BY <2>4, <3>3 DEF Knows, Remembers, Pushes, Drops, Starts, Reads, Reports, Leaves, Blank
  <2> QED
    BY <2>5, <2>6
<1>6. ASSUME NEW r \in Row, CronFetches(t, r) PROVE Knows(req[t])'
  <2> DEFINE calls == <<Do("list", None)>>
  <2>1. req'[t] = [Blank EXCEPT !.op = "cron", !.pk = r, !.pc = "fetch", !.todo = calls]
    BY <1>3, <1>6 DEF CronFetches
  <2>2. calls # <<>>
    OBVIOUS
  <2> HIDE DEF calls
  <2>3. /\ req'[t].pc = "fetch" /\ req'[t].todo # <<>> /\ req'[t].obj = None
        /\ req'[t].answer = "none"
    BY <2>1, <2>2 DEF Blank
  <2> QED
    BY <2>3 DEF Knows, Remembers, Pushes, Drops, Starts, Reads, Reports, Leaves
<1> QED
  BY <1>4, <1>5, <1>6

\* What the next remote method does, by what it answers.
LEMMA Effects ==
  ASSUME TypeOK, NEW k \in Key, NEW c, NEW says \in Answers(c), Apply(c, says)
  PROVE  /\ c = Do("remove", k) => jasmin'[k] = None
         /\ c = Do("status", k) =>
              /\ jasmin' = jasmin
              /\ (says = "true") = (jasmin[k] # None /\ jasmin[k].on)
         /\ c = Do("list", None) => jasmin' = jasmin
         /\ c = Persist => jasmin' = jasmin /\ stored' = jasmin
         /\ \A what \in {"start", "stop"} :
              c = Do(what, k) /\ says = "true" => jasmin'[k] # None /\ jasmin'[k].on = (what = "start")
         /\ \A o \in Rec : o.key = k /\ c = Add(o) /\ says = "true" => jasmin'[k] = Built(o)
<1> USE NoneAssumption
<1>1. /\ jasmin \in [Key -> Object \cup {None}]
      /\ jasmin[k] # None => jasmin[k] \in Object /\ jasmin[k].on \in BOOLEAN
  BY DEF TypeOK, Object
<1>2. /\ \A what : Do(what, k).do = what /\ Do(what, k).key = k
      /\ Do("list", None).do = "list" /\ Persist.do = "persist"
      /\ \A o : Add(o).do = "add" /\ Add(o).key = o.key /\ Add(o).put = Built(o)
  BY DEF Do, Persist, Add
<1>3. CASE c = Do("remove", k)
  <2>1. c.do = "remove" /\ c.key = k
    BY <1>2, <1>3
  <2>2. \/ says = "true"
        \/ says = "false" /\ jasmin[k] = None
    BY <2>1 DEF Answers
  <2>3. jasmin'[k] = None
    BY <1>1, <2>1, <2>2 DEF Apply
  <2> QED
    BY <1>2, <1>3, <2>1, <2>3
<1>4. CASE c = Do("status", k)
  <2>1. c.do = "status" /\ c.key = k
    BY <1>2, <1>4
  <2>2. jasmin' = jasmin
    BY <2>1 DEF Apply
  <2>3. (says = "true") = (jasmin[k] # None /\ jasmin[k].on)
    BY <1>1, <2>1 DEF Answers
  <2> QED
    BY <1>2, <2>1, <2>2, <2>3
<1>5. c = Do("list", None) => jasmin' = jasmin
  BY <1>2 DEF Apply
<1>6. c = Persist => jasmin' = jasmin /\ stored' = jasmin
  BY <1>2 DEF Apply
<1>7. ASSUME NEW what \in {"start", "stop"}, c = Do(what, k), says = "true"
      PROVE  jasmin'[k] # None /\ jasmin'[k].on = (what = "start")
  <2>1. c.do = what /\ c.key = k
    BY <1>2, <1>7
  <2>2. jasmin[k] # None
    BY <1>7, <2>1 DEF Answers
  <2>3. jasmin' = [jasmin EXCEPT ![k].on = (what = "start")]
    BY <1>7, <2>1 DEF Apply
  <2>4. jasmin'[k] = [jasmin[k] EXCEPT !.on = (what = "start")]
    BY <1>1, <2>3
  <2>5. jasmin'[k] \in Object /\ jasmin'[k].on = (what = "start")
    <3> DEFINE b == (what = "start")
    <3>1. b \in BOOLEAN /\ jasmin'[k] = [jasmin[k] EXCEPT !.on = b]
      BY <2>4
    <3> HIDE DEF b
    <3>2. jasmin'[k] \in Object /\ jasmin'[k].on = b
      BY <1>1, <2>2, <3>1 DEF Object
    <3> QED
      BY <3>2 DEF b
  <2> QED
    BY <2>5
<1>8. ASSUME NEW o \in Rec, o.key = k, c = Add(o), says = "true"
      PROVE  jasmin'[k] = Built(o)
  <2>1. c.do = "add" /\ c.key = k /\ c.put = Built(o)
    BY <1>2, <1>8
  <2> QED
    BY <1>1, <1>8, <2>1 DEF Apply
<1> QED
  BY <1>3, <1>4, <1>5, <1>6, <1>7, <1>8

\* The steps of PB calls.
LEMMA CallKnows ==
  ASSUME ShapeInv, ShapeInv', NEW t \in Request, t \in alone', t \in alone, Knows(req[t]),
         PbStep(t) \/ PbFail(t) \/ PbTimeout(t) \/ LateStep(t)
  PROVE  Knows(req[t])'
<1> USE ConfigAssumption, NoneAssumption
<1> DEFINE q == req[t]
           k == q.obj.key
<1>1. /\ q \in Requests /\ Formed(q) /\ TypeOK
      /\ q.obj # None => q.obj \in Rec /\ k \in Key
      /\ q.pc \in {"status", "push", "drop", "recheck"} => q.obj # None
  BY DEF ShapeInv, Shape, TypeOK, Formed, Held, Requests, Rec
<1>2. ASSUME NEW p, Go(t, p) PROVE req'[t] = p
  BY <1>1, <1>2 DEF Go, TypeOK
<1>3. UNCHANGED <<kind, configured, db>>
  BY DEF PbStep, PbFail, PbTimeout, LateStep
<1>4. CASE PbStep(t)
  <2> DEFINE c == Head(q.todo)
             n == req'[t]
  <2>1. PICK says \in Answers(c), lost \in BOOLEAN :
          /\ Apply(c, says)
          /\ Go(t, [q EXCEPT
               !.todo  = Tail(@),
               !.heard = IF lost THEN "error" ELSE IF c.do = "persist" THEN @ ELSE says,
               !.seen  = IF c.do = "list" THEN jasmin ELSE @])
    BY <1>4 DEF PbStep
  <2>2. q.todo # <<>>
    BY <1>4 DEF PbStep
  <2>3. n = [q EXCEPT
               !.todo  = Tail(@),
               !.heard = IF lost THEN "error" ELSE IF c.do = "persist" THEN @ ELSE says,
               !.seen  = IF c.do = "list" THEN jasmin ELSE @]
    BY <1>2, <2>1
  <2>4. /\ n.op = q.op /\ n.pc = q.pc /\ n.pk = q.pk /\ n.obj = q.obj
        /\ n.todo = Tail(q.todo)
        /\ n.heard # "error" => n.heard = IF c.do = "persist" THEN q.heard ELSE says
        /\ n.seen = IF c.do = "list" THEN jasmin ELSE q.seen
    BY <1>1, <2>3 DEF Requests
  <2>5. q.pc \in Calls
    BY <2>2, PlanTail
  <2>6. /\ Persist.do = "persist" /\ Do("list", None).do = "list"
        /\ \A x, l : Do(x, l).do = x
        /\ \A o : Add(o).do = "add"
    BY DEF Persist, Do, Add
  <2>7. \A o : Built(o)' = Built(o)
    BY <1>3 DEF Built
  <2>8. q.obj # None => k \in Key
    BY <1>1
  <2> HIDE DEF c, n
  <2>9. Remembers(q)'
    BY <1>3, <2>4 DEF Knows, Remembers, n
  <2>10. Pushes(q)'
    <3> SUFFICES ASSUME q.pc = "push", q.op \in Saving, n.heard = "true"
                 PROVE  /\ n.todo \in {<<>>, <<Persist>>} => jasmin'[k] = Built(q.obj)
                        /\ n.todo = <<>> => stored'[k] = Built(q.obj)
      BY <2>4, <2>7 DEF Pushes, n
    <3>1. CASE q.todo = <<Persist>> /\ c = Persist
      <4>1. q.heard = "true" /\ jasmin[k] = Built(q.obj)
        BY <2>4, <2>6, <3>1 DEF Knows, Pushes
      <4>2. jasmin' = jasmin /\ stored' = jasmin
        BY <1>1, <2>1, <2>8, <3>1, Effects
      <4> QED
        BY <4>1, <4>2
    <3>2. CASE n.todo = <<Persist>> /\ c = Add(q.obj)
      <4>1. says = "true"
        BY <2>4, <2>6, <3>2
      <4> QED
        BY <1>1, <2>1, <2>8, <3>2, <4>1, Effects
    <3>3. CASE n.todo = <<Add(q.obj), Persist>>
      BY <3>3
    <3> QED
      BY <2>2, <2>4, <3>1, <3>2, <3>3, PlanTail DEF Saving, c
  <2>11. Drops(q)'
    <3> SUFFICES ASSUME q.pc = "drop", n.heard # "error"
                 PROVE  /\ n.todo \in {<<>>, <<Persist>>} => jasmin'[k] = None
                        /\ n.todo = <<>> => stored'[k] = None
      BY <2>4 DEF Drops, n
    <3>1. CASE q.todo = <<Persist>> /\ c = Persist
      <4>1. q.heard # "error" /\ jasmin[k] = None
        BY <2>4, <2>6, <3>1 DEF Knows, Drops
      <4>2. jasmin' = jasmin /\ stored' = jasmin
        BY <1>1, <2>1, <2>8, <3>1, Effects
      <4> QED
        BY <4>1, <4>2
    <3>2. CASE n.todo = <<Persist>> /\ c = Do("remove", k)
      BY <1>1, <2>1, <2>8, <3>2, Effects
    <3> QED
      BY <2>2, <2>4, <3>1, <3>2, PlanTail DEF c
  <2>12. Starts(q)'
    <3>1. ASSUME q.op \in {"start", "stop"}, q.pc = "push", n.heard = "true"
          PROVE  Runs(k, q.op = "start")'
      <4>1. c = Do(q.op, k)
        BY <2>2, <3>1, PlanTail DEF c
      <4>2. says = "true"
        BY <2>4, <2>6, <3>1, <4>1
      <4>3. jasmin'[k] # None /\ jasmin'[k].on = (q.op = "start")
        BY <1>1, <2>1, <2>8, <3>1, <4>1, <4>2, Effects
      <4> QED
        BY <2>4, <4>3 DEF Runs, n
    <3>2. ASSUME q.pc = "recheck" PROVE Runs(k, q.op = "start")'
      <4>1. c = Do("status", k)
        BY <2>2, <3>2, PlanTail DEF c
      <4>2. jasmin' = jasmin
        BY <1>1, <2>1, <2>8, <3>2, <4>1, Effects
      <4> QED
        BY <2>4, <3>2, <4>2 DEF Knows, Starts, Runs, n
    <3> QED
      BY <2>4, <3>1, <3>2 DEF Knows, Starts, n
  <2>13. Reads(q)'
    <3>1. ASSUME q.pc \in {"status", "recheck"}, n.heard # "error"
          PROVE  (n.heard = "true") = (jasmin'[k] # None /\ jasmin'[k].on)
      <4>1. c = Do("status", k)
        BY <2>2, <3>1, PlanTail DEF c
      <4>2. n.heard = says
        BY <2>4, <2>6, <3>1, <4>1
      <4>3. jasmin' = jasmin /\ (says = "true") = (jasmin[k] # None /\ jasmin[k].on)
        BY <1>1, <2>1, <2>8, <3>1, <4>1, Effects
      <4> QED
        BY <4>2, <4>3
    <3>2. ASSUME q.pc = "fetch" PROVE n.seen = jasmin'
      <4>1. c = Do("list", None)
        BY <2>2, <3>2, PlanTail DEF c
      <4>2. jasmin' = jasmin
        BY <2>1, <2>6, <4>1 DEF Apply
      <4> QED
        BY <2>4, <2>6, <4>1, <4>2
    <3> QED
      BY <2>4, <2>5, <3>1, <3>2 DEF Reads, Calls, n
  <2>14. Reports(q)' /\ Leaves(q)'
    BY <2>4, <2>5 DEF Reports, Leaves, Calls, n
  <2> QED
    BY <2>9, <2>10, <2>11, <2>12, <2>13, <2>14 DEF Knows
<1>5. CASE PbFail(t) \/ PbTimeout(t)
  <2>1. Spared(t) /\ q.todo # <<>>
    BY <1>5 DEF PbFail, PbTimeout, Spared
  <2>2. \/ req'[t] = [q EXCEPT !.todo = <<>>, !.heard = "error"]
        \/ req'[t] = [q EXCEPT !.todo = <<>>, !.heard = "error", !.late = q.todo]
    BY <1>2, <1>5 DEF PbFail, PbTimeout
  <2>3. /\ req'[t].op = q.op /\ req'[t].pc = q.pc /\ req'[t].pk = q.pk /\ req'[t].obj = q.obj
        /\ req'[t].answer = q.answer /\ req'[t].seen = q.seen
        /\ req'[t].todo = <<>> /\ req'[t].heard = "error"
    <3>1. q \in Requests
      BY <1>1
    <3>2. CASE req'[t] = [q EXCEPT !.todo = <<>>, !.heard = "error"]
      BY <3>1, <3>2 DEF Requests
    <3>3. CASE req'[t] = [q EXCEPT !.todo = <<>>, !.heard = "error", !.late = q.todo]
      BY <3>1, <3>3 DEF Requests
    <3> QED
      BY <2>2, <3>2, <3>3
  <2> QED
    BY <1>3, <2>1, <2>3, StillKnown
<1>6. CASE LateStep(t)
  <2>1. req'[t] = [q EXCEPT !.late = Tail(@)]
    BY <1>2, <1>6 DEF LateStep
  <2>2. /\ req'[t].op = q.op /\ req'[t].pc = q.pc /\ req'[t].pk = q.pk /\ req'[t].obj = q.obj
        /\ req'[t].answer = q.answer /\ req'[t].seen = q.seen
        /\ req'[t].todo = q.todo /\ req'[t].heard = q.heard
    BY <1>1, <2>1 DEF Requests
  <2>3. Spared(t)
    BY <1>6, JasminSpares
  <2> QED
    BY <1>3, <2>2, <2>3, StillKnown
<1> QED
  BY <1>4, <1>5, <1>6

\* A request that was disturbed is never taken for undisturbed again.
LEMMA AloneShrinks == [Next]_vars => alone' \subseteq alone
<1> SUFFICES ASSUME [Next]_vars PROVE alone' \subseteq alone
  OBVIOUS
<1>1. \A t, rows, keys : Disturb(t, rows, keys) => alone' \subseteq alone
  BY DEF Disturb
<1>2. \A t, q : Save(t, q) \/ Remove(t, q) => alone' \subseteq alone
  BY <1>1 DEF Save, Remove
<1>3. ASSUME NEW t \in Request, NEW w \in Workspace, NEW k \in Key, NEW v \in Val,
             Create(t, w, k, v)
      PROVE  alone' \subseteq alone
  BY <1>2, <1>3 DEF Create
<1>4. ASSUME NEW t \in Request, NEW k \in Key, NEW v \in Val, NEW a \in BOOLEAN,
             Update(t, k, v, a)
      PROVE  alone' \subseteq alone
  BY <1>2, <1>4 DEF Update
<1>5. ASSUME NEW t \in Request, Handle(t) PROVE alone' \subseteq alone
  <2>1. CASE PushedNew(t) \/ GotStatus(t) \/ StartedStopped(t) \/ Rechecked(t)
    BY <1>2, <2>1 DEF PushedNew, GotStatus, StartedStopped, Rechecked
  <2>2. CASE Deleted(t) \/ ResyncDropped(t) \/ StartStop(t) \/ ApplyUser(t) \/ UpdateDropped(t)
    BY <1>1, <1>2, <2>2 DEF Deleted, ResyncDropped, StartStop, ApplyUser, UpdateDropped
  <2>3. CASE Pushed(t) \/ StartRemove(t) \/ DropFails(t) \/ FetchUsers(t) \/ Fetched(t)
    BY <2>3 DEF Pushed, StartRemove, DropFails, FetchUsers, Fetched
  <2> QED
    BY <1>4, <1>5, <2>1, <2>2, <2>3 DEF Handle
<1>6. ASSUME NEW t \in Request,
             \/ \E r \in Row : CronFetches(t, r) \/ \E what \in Ops : Load(t, what, r)
             \/ PbStep(t) \/ PbFail(t) \/ PbTimeout(t) \/ LateStep(t)
      PROVE  alone' \subseteq alone
  BY <1>1, <1>6 DEF CronFetches, Load, PbStep, PbFail, PbTimeout, LateStep
<1>7. JasminRestart \/ (\E k \in Key : Spend(k)) => alone' \subseteq alone
  BY <1>1 DEF JasminRestart, Spend
<1>8. UNCHANGED vars => alone' \subseteq alone
  BY DEF vars
<1> QED
  BY <1>3, <1>5, <1>6, <1>7, <1>8 DEF Next

LEMMA KnowingStep == ShapeInv /\ Knowing /\ [Next]_vars => Knowing'
<1> SUFFICES ASSUME ShapeInv, Knowing, [Next]_vars, NEW u \in alone'
             PROVE  Knows(req[u])'
  BY DEF Knowing
<1>1. ShapeInv'
  BY ShapeStep
<1>2. u \in alone /\ u \in Request /\ Knows(req[u]) /\ req[u] \in Requests
  BY AloneShrinks DEF Knowing, ShapeInv, TypeOK
<1>3. ASSUME NEW t \in Request,
             \/ \E w \in Workspace, k \in Key, v \in Val : Create(t, w, k, v)
             \/ \E r \in Row : CronFetches(t, r) \/ \E what \in Ops : Load(t, what, r)
             \/ Handle(t)
             \/ PbStep(t) \/ PbFail(t) \/ PbTimeout(t) \/ LateStep(t)
      PROVE  Knows(req[u])'
  <2>1. CASE u = t
    BY <1>1, <1>2, <1>3, <2>1, BeginKnows, HandleKnows, CallKnows
  <2>2. CASE u # t
    <3>1. Spared(u) /\ req'[u] = req[u]
      BY <1>1, <1>3, <2>2, Bystander
    <3>2. UNCHANGED <<kind, configured>>
      BY <1>3 DEF Create, CronFetches, Load, Handle, PushedNew, Pushed, GotStatus, Update,
                  StartRemove, DropFails, Deleted, ResyncDropped, UpdateDropped, StartStop,
                  StartedStopped, Rechecked, FetchUsers, Fetched, ApplyUser, Rest,
                  PbStep, PbFail, PbTimeout, LateStep
    <3> QED
      BY <1>2, <3>1, <3>2, StillKnown
  <2> QED
    BY <2>1, <2>2
<1>4. CASE JasminRestart
  <2>1. Spared(u) /\ UNCHANGED <<kind, configured>>
    BY <1>1, <1>4, JasminSpares DEF JasminRestart
  <2>2. req'[u] = IF req[u].todo = <<>> THEN [req[u] EXCEPT !.late = <<>>]
                  ELSE [req[u] EXCEPT !.todo = <<>>, !.heard = "error", !.late = <<>>]
    BY <1>2, <1>4 DEF JasminRestart
  <2>3. /\ req'[u].op = req[u].op /\ req'[u].pc = req[u].pc /\ req'[u].pk = req[u].pk
        /\ req'[u].obj = req[u].obj /\ req'[u].answer = req[u].answer
        /\ req'[u].seen = req[u].seen
        /\ \/ req'[u].todo = req[u].todo /\ req'[u].heard = req[u].heard
           \/ req'[u].todo = <<>> /\ req'[u].heard = "error"
    BY <1>2, <2>2 DEF Requests
  <2> QED
    BY <1>2, <2>1, <2>3, StillKnown
<1>5. CASE \E k \in Key : Spend(k)
  <2>1. Spared(u) /\ UNCHANGED <<kind, configured, req>>
    BY <1>1, <1>5, JasminSpares DEF Spend
  <2> QED
    BY <1>2, <2>1, StillKnown
<1>6. CASE UNCHANGED vars
  <2>1. Spared(u) /\ UNCHANGED <<kind, configured, req>>
    BY <1>2, <1>6 DEF vars, Spared
  <2> QED
    BY <1>2, <2>1, StillKnown
<1> QED
  BY <1>3, <1>4, <1>5, <1>6 DEF Next

LEMMA KnowingInvariant == Spec => [](ShapeInv /\ Knowing)
<1> QED
  BY ShapeInit, ShapeStep, KnowingInit, KnowingStep, PTL DEF Spec

-----------------------------------------------------------------------------
(* What is reported as a success is so, for any number of workspaces,       *)
(* requests, rows, keys and values, and whatever calls are lost, late or    *)
(* half done: see SuccessTruthful.  Failures are another matter.            *)
THEOREM SuccessIsTruthful == Spec => []SuccessTruthful
<1> USE NoneAssumption
<1>1. ASSUME ShapeInv, Knowing PROVE SuccessTruthful
  <2> SUFFICES ASSUME NEW t \in alone, Done(t, "ok")
               PROVE
                 LET r == req[t].pk
                     k == req[t].obj.key
                 IN CASE req[t].op \in {"create", "update"} -> InStep(r) /\ db[r] = req[t].obj
                      [] req[t].op = "delete" ->
                           ~Present(r) /\ jasmin[k] = None /\ stored[k] = None
                      [] req[t].op \in {"start", "stop"} ->
                           /\ Present(r) /\ jasmin[k] # None
                           /\ db[r].active = jasmin[k].on /\ jasmin[k].on = (req[t].op = "start")
                      [] OTHER -> req[t].heard # "error" /\ Present(r) /\ jasmin[k] # None =>
                                    /\ db[r].active = jasmin[k].on
                                    /\ kind = "user" => db[r].val = jasmin[k].val
    BY DEF SuccessTruthful
  <2> DEFINE q == req[t]
  <2>1. /\ t \in Request /\ q \in Requests /\ Formed(q) /\ Reports(q)
        /\ q.pc = "done" /\ q.answer = "ok"
    BY <1>1 DEF ShapeInv, Shape, TypeOK, Knowing, Knows, Done
  <2>2. q.obj # None /\ q.op \in Ops \ {"resync"}
    BY <2>1 DEF Formed, Held, Requests, Reports
  <2> HIDE DEF q
  <2>3. CASE q.op \in {"create", "update"}
    BY <2>1, <2>2, <2>3 DEF Reports, Saving, InStep, Present, q
  <2>4. CASE q.op = "delete"
    BY <2>1, <2>4 DEF Reports, Present, q
  <2>5. CASE q.op \in {"start", "stop"}
    BY <2>1, <2>5 DEF Reports, Runs, Present, q
  <2>6. CASE q.op \in {"show", "sync", "cron"}
    BY <2>1, <2>6 DEF Reports, Present, q
  <2> QED
    BY <2>2, <2>3, <2>4, <2>5, <2>6 DEF Ops
<1> QED
  BY <1>1, KnowingInvariant, PTL

(* A creation that was refused leaves no row behind, but for the groups,   *)
(* users and connectors of a workspace without a connection: see           *)
(* RefusedCreateLeavesNoRow.                                                *)
THEOREM RefusedLeavesNoRow == Spec => []RefusedCreateLeavesNoRow
<1>1. ASSUME ShapeInv, Knowing PROVE RefusedCreateLeavesNoRow
  BY <1>1 DEF Knowing, Knows, Leaves, RefusedCreateLeavesNoRow, Done, Present
<1> QED
  BY <1>1, KnowingInvariant, PTL

-----------------------------------------------------------------------------
(* What becomes of the rows.                                                *)

\* Only the request whose step it is goes on.
LEMMA OneMoves ==
  ASSUME TypeOK, NEW t \in Request, NEW u \in Request, u # t,
         \/ \E w \in Workspace, k \in Key, v \in Val : Create(t, w, k, v)
         \/ \E r \in Row : CronFetches(t, r) \/ \E what \in Ops : Load(t, what, r)
         \/ Handle(t)
         \/ PbStep(t) \/ PbFail(t) \/ PbTimeout(t) \/ LateStep(t)
  PROVE  req'[u] = req[u]
<1>1. \A q : Go(t, q) => req'[u] = req[u]
  BY DEF Go, TypeOK
<1>2. \A q : Save(t, q) \/ Remove(t, q) => req'[u] = req[u]
  BY <1>1 DEF Save, Remove
<1>3. ASSUME NEW w \in Workspace, NEW k \in Key, NEW v \in Val, Create(t, w, k, v)
      PROVE  req'[u] = req[u]
  BY <1>2, <1>3 DEF Create
<1>4. ASSUME NEW k \in Key, NEW v \in Val, NEW a \in BOOLEAN, Update(t, k, v, a)
      PROVE  req'[u] = req[u]
  BY <1>1, <1>2, <1>4 DEF Update
<1>5. CASE Handle(t)
  <2>1. CASE PushedNew(t) \/ GotStatus(t) \/ StartedStopped(t) \/ Rechecked(t)
    BY <1>1, <1>2, <2>1 DEF PushedNew, GotStatus, StartedStopped, Rechecked
  <2>2. CASE Deleted(t) \/ ResyncDropped(t) \/ StartStop(t) \/ ApplyUser(t) \/ UpdateDropped(t)
    BY <1>1, <1>2, <2>2 DEF Deleted, ResyncDropped, StartStop, ApplyUser, UpdateDropped
  <2>3. CASE Pushed(t) \/ StartRemove(t) \/ DropFails(t) \/ FetchUsers(t) \/ Fetched(t)
    BY <1>1, <2>3 DEF Pushed, StartRemove, DropFails, FetchUsers, Fetched
  <2> QED
    BY <1>4, <1>5, <2>1, <2>2, <2>3 DEF Handle
<1>6. CASE \E r \in Row : CronFetches(t, r) \/ \E what \in Ops : Load(t, what, r)
  BY <1>1, <1>6 DEF CronFetches, Load
<1>7. CASE PbStep(t) \/ PbFail(t) \/ PbTimeout(t) \/ LateStep(t)
  BY <1>1, <1>7 DEF PbStep, PbFail, PbTimeout, LateStep
<1> QED
  BY <1>3, <1>5, <1>6, <1>7

\* How a step of a request changes the rows: it keeps them, saves an instance that
\* fits, removes a row, or replaces the row of a route.
Kept        == UNCHANGED db
Saved(p)    == Able(p) /\ Fits(p.pk, p.obj) /\ db' = [db EXCEPT ![p.pk] = p.obj]
Removed(r)  == db' = [db EXCEPT ![r] = None]

\* The instance that request t saves: a new one, or the one it works on, whose key
\* only an update changes.
Whose(t, p) ==
  \/ p.pk = lastPk + 1
  \/ /\ p.pk = req[t].pk /\ req[t].pc \notin {"idle", "done"} /\ req[t].obj # None
     /\ \/ p.obj.key = req[t].obj.key
        \/ kind \notin {"group", "smpp"} /\ Loaded(t, "update")

LEMMA RowSteps ==
  ASSUME ShapeInv, NEW t \in Request,
         \/ \E w \in Workspace, k \in Key, v \in Val : Create(t, w, k, v)
         \/ \E r \in Row : CronFetches(t, r) \/ \E what \in Ops : Load(t, what, r)
         \/ Handle(t)
         \/ PbStep(t) \/ PbFail(t) \/ PbTimeout(t) \/ LateStep(t)
  PROVE  \/ Kept
         \/ \E p : Saved(p) /\ Whose(t, p)
         \/ Removed(lastPk + 1)
         \/ req[t].op = "create" /\ req[t].pc = "push" /\ Removed(req[t].pk)
         \/ (Deleted(t) \/ ResyncDropped(t)) /\ Removed(req[t].pk)
         \/ UpdateDropped(t)
<1> USE ConfigAssumption, NoneAssumption
<1> DEFINE q == req[t]
<1>1. q \in Requests /\ TypeOK /\ Formed(q)
  BY DEF ShapeInv, Shape, TypeOK
<1>2. q.pc \in {"status", "loaded", "push", "recheck", "drop"} /\ q.todo = <<>> => Able(q)
  <2>1. q.pc \in {"status", "loaded", "push", "recheck", "drop"} => q.obj # None
    BY <1>1 DEF Formed, Held
  <2> QED
    BY <2>1, WorkReady DEF Ready
<1>3. q.pc = "loaded" => q.todo = <<>>
  BY <1>1 DEF Formed, Planned
<1>4. ASSUME NEW p, Save(t, p), Able(p), Whose(t, p)
      PROVE  Kept \/ \E p1 : Saved(p1) /\ Whose(t, p1)
  BY <1>4 DEF Save, Kept, Saved
<1>5. ASSUME NEW p, Remove(t, p) PROVE Removed(p.pk)
  BY <1>5 DEF Remove, Removed
<1>6. \A p, how : Able(p) => Finish(p, how).pk = p.pk
  BY DEF Finish, Able, Requests
<1>7. ASSUME NEW p, Able(p), Whose(t, p), NEW how \in {"ok", "refused", "raised"}
      PROVE  Able(Finish(p, how)) /\ Whose(t, Finish(p, how))
  BY <1>7, FinishForms DEF Onward, Whose
<1>8. CASE PushedNew(t)
  <2>1. Able(q) /\ q.op = "create" /\ q.pc = "push"
    BY <1>2, <1>8 DEF PushedNew
  <2>2. Remove(t, Finish(q, "refused")) \/ Kept
    BY <1>8 DEF PushedNew, Kept
  <2> QED
    BY <1>5, <1>6, <2>1, <2>2
<1>9. CASE Pushed(t) \/ StartRemove(t) \/ DropFails(t) \/ FetchUsers(t) \/ Fetched(t)
  BY <1>9 DEF Pushed, StartRemove, DropFails, FetchUsers, Fetched, Kept
<1>10. CASE GotStatus(t)
  <2> DEFINE p == [q EXCEPT !.obj.active = (q.heard = "true")]
  <2>1. Able(q) /\ (Save(t, Finish(p, "ok")) \/ Save(t, [p EXCEPT !.pc = "loaded"]) \/ Kept)
    BY <1>2, <1>10 DEF GotStatus, Kept
  <2>2. Able(p) /\ p.pk = q.pk /\ p.obj.key = q.obj.key
    BY <2>1 DEF Able, Requests, Rec
  <2>4. Whose(t, p)
    BY <1>1, <1>10, <2>2 DEF GotStatus, Whose, Formed, Held
  <2> HIDE DEF p
  <2>3. Able([p EXCEPT !.pc = "loaded"]) /\ Whose(t, [p EXCEPT !.pc = "loaded"])
    BY <2>2, <2>4 DEF Able, Requests, Whose
  <2> QED
    BY <1>4, <1>7, <2>1, <2>2, <2>3, <2>4
<1>11. ASSUME NEW k \in Key, NEW v \in Val, NEW a \in BOOLEAN, Update(t, k, v, a)
       PROVE  Kept \/ \E p : Saved(p) /\ Whose(t, p)
  <2> DEFINE p == [q EXCEPT !.obj = Edited(q.obj, k, v, a)]
             n == IF kind = "route" THEN Calling(p, "drop", RemoveCalls(k))
                  ELSE Pushing(p, FALSE)
  <2>1. Ready(q) /\ q.op = "update" /\ (Save(t, n) \/ Kept)
    BY <1>1, <1>2, <1>3, <1>11, WorkReady DEF Update, Loaded, Kept, Formed, Held
  <2>2. Ready(p) /\ p.op = "update"
    BY <2>1 DEF Ready, Able, Edited, Requests, Rec
  <2>3. p.obj.key = k
    <3>1. p.obj = Edited(q.obj, k, v, a) /\ Edited(q.obj, k, v, a).key = k
      BY <2>1 DEF Ready, Able, Edited, Requests, Rec
    <3> QED
      BY <3>1
  <2> HIDE DEF p
  <2>4. RemoveCalls(k) \in Seq(Call)
    BY DEF RemoveCalls, Do, Persist, Call
  <2>5. Able(n)
    <3>1. kind = "route" => Onward(p, Calling(p, "drop", RemoveCalls(k)))
      BY <1>1, <2>2, <2>3, <2>4, CallingForms DEF Calls
    <3>2. Onward(p, Pushing(p, FALSE))
      BY <1>1, <2>2, PushingForms
    <3> QED
      BY <3>1, <3>2 DEF Onward
  <2>6. n.pk = q.pk /\ n.obj = p.obj
    <3>1. p.pk = q.pk
      BY <2>1 DEF Ready, Able, Requests, p
    <3>2. kind = "route" => Onward(p, Calling(p, "drop", RemoveCalls(k)))
      BY <1>1, <2>2, <2>3, <2>4, CallingForms DEF Calls
    <3>3. Onward(p, Pushing(p, FALSE))
      BY <1>1, <2>2, PushingForms
    <3> QED
      BY <3>1, <3>2, <3>3 DEF Onward
  <2> HIDE DEF n
  <2>7. Whose(t, n)
    BY <1>1, <1>11, <2>3, <2>6 DEF Update, Loaded, Editable, Whose, Formed, Held
  <2> QED
    BY <1>4, <2>1, <2>5, <2>7
<1>12. CASE Deleted(t) \/ ResyncDropped(t)
  <2>1. Able(q) /\ (Remove(t, Finish(q, "ok")) \/ Remove(t, Finish(q, "raised")))
    BY <1>2, <1>12 DEF Deleted, ResyncDropped, Dropped
  <2> QED
    BY <1>5, <1>6, <1>12, <2>1
<1>13. CASE StartStop(t)
  <2> DEFINE p == [q EXCEPT !.obj.active = (q.op = "start")]
             calls == <<Do(q.op, p.obj.key)>>
  <2>1. Ready(q) /\ q.op \in {"start", "stop"}
    BY <1>1, <1>2, <1>3, <1>13, WorkReady DEF StartStop, Loaded, Formed, Held
  <2>2. Ready(p) /\ p.op = q.op /\ p.pk = q.pk /\ p.obj.key = q.obj.key
    BY <2>1 DEF Ready, Able, Requests, Rec
  <2>3. Save(t, Calling(p, "push", calls))
    BY <1>13, <2>2 DEF StartStop
  <2>6. Whose(t, p)
    BY <1>1, <1>13, <2>2 DEF StartStop, Loaded, Whose, Formed, Held
  <2> HIDE DEF p
  <2>4. calls \in Seq(Call)
    BY <2>1, <2>2 DEF Do, Call, Ready, Able, Rec
  <2>5. Onward(p, Calling(p, "push", calls))
    BY <1>1, <2>1, <2>2, <2>4, CallingForms DEF Calls
  <2>7. Whose(t, Calling(p, "push", calls))
    BY <2>5, <2>6 DEF Onward, Whose
  <2> QED
    BY <1>4, <2>3, <2>5, <2>7 DEF Onward
<1>14. CASE StartedStopped(t)
  <2> DEFINE p == [q EXCEPT !.obj.active = ~@]
  <2>1. Able(q) /\ (Save(t, Finish(p, "refused")) \/ Kept)
    BY <1>2, <1>14 DEF StartedStopped, Kept
  <2>2. Able(p) /\ p.pk = q.pk /\ p.obj.key = q.obj.key
    BY <2>1 DEF Able, Requests, Rec
  <2>3. Whose(t, p)
    BY <1>1, <1>14, <2>2 DEF StartedStopped, Whose, Formed, Held
  <2> HIDE DEF p
  <2> QED
    BY <1>4, <1>7, <2>1, <2>2, <2>3
<1>15. CASE Rechecked(t)
  <2> DEFINE p == [q EXCEPT !.obj.active = q.heard = "true"]
  <2>1. Able(q) /\ (Save(t, Finish(p, "ok")) \/ Kept)
    BY <1>2, <1>15 DEF Rechecked, Kept
  <2>2. Able(p) /\ p.pk = q.pk /\ p.obj.key = q.obj.key
    BY <2>1 DEF Able, Requests, Rec
  <2>3. Whose(t, p)
    BY <1>1, <1>15, <2>2 DEF Rechecked, Whose, Formed, Held
  <2> HIDE DEF p
  <2> QED
    BY <1>4, <1>7, <2>1, <2>2, <2>3
<1>16. CASE ApplyUser(t)
  <2> DEFINE user == q.seen[q.obj.key]
             p == [q EXCEPT !.obj.val = user.val, !.obj.active = user.on]
  <2>1. Able(q) /\ Save(t, Finish(p, "ok")) /\ user \in Object
    <3>1. /\ Able(q) /\ q.pc = "loaded" /\ q.op \in {"sync", "cron"} /\ q.seen # Blank.seen
          /\ Save(t, Finish(p, "ok"))
      BY <1>2, <1>3, <1>16 DEF ApplyUser, Loaded
    <3> QED
      BY <1>1, <3>1 DEF Formed, Held, Able, Requests, Rec
  <2>2. Able(p) /\ p.pk = q.pk /\ p.obj.key = q.obj.key
    <3>1. user.val \in Val /\ user.on \in BOOLEAN
      BY <2>1 DEF Object
    <3> HIDE DEF user
    <3> QED
      BY <2>1, <3>1 DEF Able, Requests, Rec
  <2>3. Whose(t, p)
    BY <1>1, <1>16, <2>2 DEF ApplyUser, Loaded, Whose, Formed, Held
  <2> HIDE DEF p
  <2> QED
    BY <1>4, <1>7, <2>1, <2>2, <2>3
<1>17. ASSUME NEW w \in Workspace, NEW k \in Key, NEW v \in Val, Create(t, w, k, v)
       PROVE  Kept \/ (\E p : Saved(p) /\ Whose(t, p)) \/ Removed(lastPk + 1)
  <2> DEFINE r == lastPk + 1
             o == NewRow(w, k, v)
             p == [Blank EXCEPT !.op = "create", !.pk = r, !.obj = o]
             n == Pushing(p, TRUE)
  <2>1. r \in Row /\ "create" \in Ops /\ o \in Rec /\ (Save(t, n) \/ Remove(t, n))
    <3>1. lastPk < MaxRows /\ lastPk \in 0..MaxRows
      BY <1>1, <1>17 DEF Create, TypeOK
    <3>2. Save(t, n) \/ Remove(t, n)
      BY <1>17 DEF Create
    <3>3. r \in Row /\ "create" \in Ops /\ o \in Rec
      BY <3>1, Records DEF Row, Ops
    <3> HIDE DEF n, r, o
    <3> QED
      BY <3>2, <3>3
  <2>2. Ready(p) /\ p.pk = r /\ p.op = "create"
    <3>1. Blank \in Requests /\ Blank.late \in Seq(Proper)
      BY DEF Blank, Requests
    <3>2. p = [Blank EXCEPT !.op = "create", !.pk = r, !.obj = o]
      OBVIOUS
    <3> HIDE DEF o, r, p
    <3> QED
      BY <2>1, <3>1, <3>2 DEF Blank, Requests, Ready, Able
  <2> HIDE DEF p
  <2>3. Onward(p, n)
    BY <1>1, <2>2, PushingForms
  <2> HIDE DEF n
  <2>4. n.pk = r /\ Able(n) /\ Whose(t, n)
    BY <2>2, <2>3 DEF Onward, Whose
  <2> QED
    BY <1>4, <1>5, <2>1, <2>4
<1>18. CASE \/ \E r \in Row : CronFetches(t, r) \/ \E what \in Ops : Load(t, what, r)
            \/ PbStep(t) \/ PbFail(t) \/ PbTimeout(t) \/ LateStep(t)
  BY <1>18 DEF CronFetches, Load, PbStep, PbFail, PbTimeout, LateStep, Kept
<1> QED
  BY <1>8, <1>9, <1>10, <1>11, <1>12, <1>13, <1>14, <1>15, <1>16, <1>17, <1>18 DEF Handle

(* A row leaves a live object under its key only by a change of key: see    *)
(* ObjectGoesFirst.  The request knows that the removal it waited for       *)
(* happened, also if Jasmin said it had no such object; a save writes the    *)
(* instance it works on, whose key only an update changes.                   *)
THEOREM ObjectGoesBeforeRow == Spec => ObjectGoesFirst
<1> USE ConfigAssumption, NoneAssumption
<1>1. ASSUME ShapeInv, Knowing, [Next]_vars
      PROVE  [\A t \in alone, r \in Row :
                ( /\ Present(r) /\ jasmin[db[r].key] # None
                  /\ req'[t] # req[t] /\ req[t].op # "create" )
                  => /\ db'[r] # None
                     /\ \/ db'[r].key = db[r].key
                        \/ kind \notin {"group", "smpp"} /\ Loaded(t, "update")]_vars
  <2> DEFINE Same(t, r) == /\ db'[r] # None
                           /\ \/ db'[r].key = db[r].key
                              \/ kind \notin {"group", "smpp"} /\ Loaded(t, "update")
  <2> SUFFICES ASSUME Next, NEW t \in alone, NEW r \in Row, Present(r),
                      jasmin[db[r].key] # None,
                      req'[t] # req[t], req[t].op # "create"
               PROVE  Same(t, r)
    BY <1>1 DEF vars
  <2>1. /\ TypeOK /\ t \in Request /\ Formed(req[t]) /\ Knows(req[t])
        /\ req[t] \in Requests /\ db \in [Row -> Rec \cup {None}] /\ db[r] # None
        /\ r <= lastPk /\ lastPk \in 0..MaxRows
    BY <1>1 DEF ShapeInv, Shape, Numbered, TypeOK, Knowing, Present
  <2>2. CASE JasminRestart \/ \E k \in Key : Spend(k)
    BY <2>1, <2>2 DEF JasminRestart, Spend
  <2>3. ASSUME NEW u \in Request,
               \/ \E w \in Workspace, k \in Key, v \in Val : Create(u, w, k, v)
               \/ \E s \in Row : CronFetches(u, s) \/ \E what \in Ops : Load(u, what, s)
               \/ Handle(u)
               \/ PbStep(u) \/ PbFail(u) \/ PbTimeout(u) \/ LateStep(u)
        PROVE  Same(t, r)
    <3>1. u = t
      BY <2>1, <2>3, OneMoves
    <3>2. \/ Kept
          \/ \E p : Saved(p) /\ Whose(t, p)
          \/ Removed(lastPk + 1)
          \/ req[t].op = "create" /\ req[t].pc = "push" /\ Removed(req[t].pk)
          \/ (Deleted(t) \/ ResyncDropped(t)) /\ Removed(req[t].pk)
          \/ UpdateDropped(t)
      BY <1>1, <2>3, <3>1, RowSteps
    <3>3. CASE Kept
      BY <2>1, <3>3 DEF Kept
    <3>4. CASE Removed(lastPk + 1)
      BY <2>1, <3>4 DEF Removed
    <3>5. ASSUME NEW p, Saved(p), Whose(t, p) PROVE Same(t, r)
      <4>1. CASE r # p.pk
        BY <2>1, <3>5, <4>1 DEF Saved
      <4>2. CASE r = p.pk
        <5>1. /\ db'[r] = p.obj /\ p.obj # None
          BY <2>1, <3>5, <4>2 DEF Saved, Able
        <5>2. p.pk = req[t].pk /\ req[t].pc \notin {"idle", "done"} /\ req[t].obj # None
          BY <2>1, <3>5, <4>2 DEF Whose
        <5>3. db[r] = req[t].obj
          BY <2>1, <4>2, <5>2 DEF Knows, Remembers
        <5> QED
          BY <3>5, <4>2, <5>1, <5>3, <2>1 DEF Whose
      <4> QED
        BY <4>1, <4>2
    <3>6. CASE \/ (Deleted(t) \/ ResyncDropped(t)) /\ Removed(req[t].pk)
               \/ UpdateDropped(t)
      <4>1. Dropped(t) /\ req[t].obj # None
        BY <2>1, <3>6 DEF Deleted, ResyncDropped, UpdateDropped, Dropped, Formed, Held
      <4>2. db[req[t].pk] = req[t].obj /\ jasmin[req[t].obj.key] = None
        BY <2>1, <4>1 DEF Knows, Remembers, Drops, Dropped
      <4>3. r # req[t].pk
        BY <4>2
      <4>4. CASE Removed(req[t].pk)
        BY <2>1, <4>3, <4>4 DEF Removed
      <4>5. CASE UpdateDropped(t)
        <5>1. PICK s, o : db' = [db EXCEPT ![req[t].pk] = None, ![s] = o] /\ s = lastPk + 1
          BY <4>5 DEF UpdateDropped
        <5> QED
          BY <2>1, <4>3, <5>1
      <4> QED
        BY <3>6, <4>4, <4>5
    <3> QED
      BY <2>1, <3>2, <3>3, <3>4, <3>5, <3>6
  <2> QED
    BY <2>2, <2>3 DEF Next
<1> QED
  BY <1>1, KnowingInvariant, PTL DEF Spec, ObjectGoesFirst

\* Where keys are unique, a key has one row.
Unique ==
  kind \in {"group", "user", "smpp"} =>
    \A r, s \in Row : Present(r) /\ Present(s) /\ db[r].key = db[s].key => r = s

LEMMA UniqueInit == Init => Unique
<1> SUFFICES ASSUME Init PROVE Unique
  OBVIOUS
<1>1. \A r \in Row : Present(r) => r = 1
  <2>1. CASE \A r \in Row : db[r] = None
    BY <2>1 DEF Present
  <2>2. CASE \A r \in Row : r # 1 => db[r] = None
    BY <2>2 DEF Present
  <2> QED
    BY <2>1, <2>2 DEF Init
<1> QED
  BY <1>1 DEF Unique

LEMMA UniqueStep == ShapeInv /\ Unique /\ [Next]_vars => Unique'
<1> SUFFICES ASSUME ShapeInv, Unique, [Next]_vars PROVE Unique'
  OBVIOUS
<1> USE ConfigAssumption, NoneAssumption
<1>1. db \in [Row -> Rec \cup {None}]
  BY DEF ShapeInv, TypeOK
<1>2. ASSUME UNCHANGED <<kind, db>> PROVE Unique'
  BY <1>2 DEF Unique, Present
<1>3. ASSUME UNCHANGED kind, NEW p, Saved(p) PROVE Unique'
  <2> SUFFICES ASSUME kind \in {"group", "user", "smpp"}, NEW r \in Row, NEW s \in Row,
                      db'[r] # None, db'[s] # None, db'[r].key = db'[s].key
               PROVE  r = s
    BY <1>3 DEF Unique, Present
  <2>1. \A z \in Row \ {p.pk} : db'[z] = db[z] /\ (db[z] # None => db[z].key # p.obj.key)
    BY <1>1, <1>3 DEF Saved, Fits, Clash, Present
  <2>2. p.pk \in Row /\ db'[p.pk] = p.obj
    BY <1>1, <1>3 DEF Saved, Able
  <2> QED
    BY <2>1, <2>2 DEF Unique, Present
<1>4. ASSUME UNCHANGED kind, NEW r, Removed(r) PROVE Unique'
  <2>1. \A z \in Row : db'[z] # None => db'[z] = db[z]
    BY <1>1, <1>4 DEF Removed
  <2> QED
    BY <1>4, <2>1 DEF Unique, Present
<1>5. ASSUME NEW t \in Request, UpdateDropped(t) PROVE Unique'
  <2>1. kind = "route"
    BY <1>5 DEF UpdateDropped, Dropped, ShapeInv, Shape, Formed, Placed
  <2> QED
    BY <1>5, <2>1 DEF Unique, UpdateDropped, Rest
<1>6. UNCHANGED kind
  <2>1. CASE JasminRestart \/ (\E k \in Key : Spend(k)) \/ UNCHANGED vars
    BY <2>1 DEF JasminRestart, Spend, vars
  <2>2. ASSUME NEW t \in Request,
               \/ \E w \in Workspace, k \in Key, v \in Val : Create(t, w, k, v)
               \/ \E r \in Row : CronFetches(t, r) \/ \E what \in Ops : Load(t, what, r)
               \/ Handle(t)
               \/ PbStep(t) \/ PbFail(t) \/ PbTimeout(t) \/ LateStep(t)
        PROVE  UNCHANGED kind
    BY <2>2 DEF Create, CronFetches, Load, Handle, PushedNew, Pushed, GotStatus, Update,
                StartRemove, DropFails, Deleted, ResyncDropped, UpdateDropped, StartStop,
                StartedStopped, Rechecked, FetchUsers, Fetched, ApplyUser, Rest,
                PbStep, PbFail, PbTimeout, LateStep
  <2> QED
    BY <2>1, <2>2 DEF Next
<1>7. CASE JasminRestart \/ (\E k \in Key : Spend(k)) \/ UNCHANGED vars
  BY <1>2, <1>6, <1>7 DEF JasminRestart, Spend, vars
<1>8. ASSUME NEW t \in Request,
             \/ \E w \in Workspace, k \in Key, v \in Val : Create(t, w, k, v)
             \/ \E s \in Row : CronFetches(t, s) \/ \E what \in Ops : Load(t, what, s)
             \/ Handle(t)
             \/ PbStep(t) \/ PbFail(t) \/ PbTimeout(t) \/ LateStep(t)
      PROVE  Unique'
  BY <1>2, <1>3, <1>4, <1>5, <1>6, <1>8, RowSteps DEF Kept
<1> QED
  BY <1>7, <1>8 DEF Next

(* The calls that undisturbed requests wait for keep the groups, users and  *)
(* connectors of two workspaces on one Jasmin apart: see WorkspacesIsolated. *)
(* A request works on the key of its instance, its instance is its row, and  *)
(* no other row has that key.                                                *)
THEOREM WorkspacesStayApart == Spec => WorkspacesIsolated
<1> USE ConfigAssumption, NoneAssumption
<1>1. ASSUME ShapeInv, Knowing, Unique, [Next]_vars
      PROVE  [\A t \in alone, k \in Key :
                ( /\ kind \in {"group", "user", "smpp"} /\ jasmin[k] # None
                  /\ jasmin'[k] # jasmin[k] /\ PbStep(t) )
                  => \/ jasmin[k].ws = req[t].obj.ws
                     \/ \A r \in Row : Present(r) /\ db[r].key = k => db[r].ws # jasmin[k].ws]_vars
  <2> SUFFICES ASSUME NEW t \in alone, NEW k \in Key, kind \in {"group", "user", "smpp"},
                      jasmin'[k] # jasmin[k], PbStep(t),
                      NEW r \in Row, Present(r), db[r].key = k, db[r].ws = jasmin[k].ws
               PROVE  jasmin[k].ws = req[t].obj.ws
    OBVIOUS
  <2> DEFINE q == req[t]
             c == Head(q.todo)
  <2>1. /\ t \in Request /\ q \in Requests /\ Formed(q) /\ Knows(q) /\ q.todo # <<>>
        /\ jasmin \in [Key -> Object \cup {None}]
    BY <1>1 DEF PbStep, Knowing, ShapeInv, Shape, TypeOK
  <2>2. k \in Changes(c)
    BY <2>1 DEF PbStep, Apply, Changes
  <2>3. c.do \in {"add", "remove", "start", "stop"} /\ c.key = k
    BY <2>2 DEF Changes
  <2>4. /\ Persist.do = "persist" /\ \A x, l : Do(x, l).do = x /\ Do(x, l).key = l
        /\ \A o : Add(o).key = o.key
    BY DEF Persist, Do, Add
  <2> HIDE DEF c
  <2>5. q.pc \in {"push", "drop"} /\ k = q.obj.key
    <3>1. q.pc \in Calls
      BY <1>1, <2>1, PlanTail
    <3>2. q.pc \notin {"status", "recheck", "fetch"}
      BY <1>1, <2>1, <2>3, <2>4, PlanTail DEF c
    <3>3. q.pc = "drop" => k = q.obj.key
      BY <1>1, <2>1, <2>3, <2>4, PlanTail DEF c
    <3>4. q.pc = "push" => k = q.obj.key
      BY <1>1, <2>1, <2>3, <2>4, PlanTail DEF c, Formed, Placed
    <3> QED
      BY <3>1, <3>2, <3>3, <3>4 DEF Calls
  <2>6. q.obj # None /\ db[q.pk] = q.obj /\ q.pk \in Row
    BY <2>1, <2>5 DEF Formed, Held, Knows, Remembers, Requests
  <2>7. r = q.pk
    BY <1>1, <2>5, <2>6 DEF Unique, Present
  <2> QED
    BY <2>6, <2>7
<1>2. Spec => [](ShapeInv /\ Unique)
  BY ShapeInit, ShapeStep, UniqueInit, UniqueStep, PTL DEF Spec
<1> QED
  BY <1>1, <1>2, KnowingInvariant, PTL DEF Spec, WorkspacesIsolated

-----------------------------------------------------------------------------
(* Rows and objects implement Mirror.                                       *)

\* Only the answer to a push reports a save as a success.
LEMMA NotYetOk ==
  ASSUME NEW q, Ready(q)
  PROVE  /\ \A pc, calls : Calling(q, pc, calls).answer # "ok"
         /\ \A isNew : Pushing(q, isNew).answer # "ok"
<1>1. \A pc, calls : Calling(q, pc, calls).answer # "ok"
  BY DEF Calling, Finish, Ready, Able, Requests
<1> QED
  BY <1>1 DEF Pushing, Finish, Ready, Able, Requests

LEMMA PushReports ==
  ASSUME ShapeInv, NEW t \in Request, Handle(t),
         req'[t].answer = "ok", req'[t].pc = "done", req'[t].op \in Saving
  PROVE  /\ req[t].pc = "push" /\ req'[t].pk = req[t].pk
         /\ UNCHANGED <<db, alone>>
<1> USE ConfigAssumption, NoneAssumption
<1> DEFINE q == req[t]
<1>1. /\ q \in Requests /\ Formed(q) /\ TypeOK
      /\ q.pc \in {"status", "loaded", "push", "drop", "recheck"} => q.obj # None
      /\ q.pc = "loaded" => q.todo = <<>>
  BY DEF ShapeInv, Shape, TypeOK, Formed, Held, Planned
<1>2. q.pc \notin {"idle", "done"} /\ q.todo = <<>> /\ q.obj # None => Ready(q) /\ Able(q)
  BY WorkReady DEF Ready
<1>3. ASSUME NEW p, Go(t, p) \/ Remove(t, p) PROVE req'[t] = p
  BY <1>1, <1>3 DEF Go, Remove, TypeOK
<1>4. ASSUME NEW p, p \in Requests, Save(t, p) PROVE req'[t] = p
  <2>1. req'[t] = p \/ req'[t] = Finish(p, "raised")
    BY <1>3, <1>4 DEF Save
  <2>2. Finish(p, "raised").answer = "raised"
    BY <1>4 DEF Finish, Requests
  <2> QED
    BY <2>1, <2>2
<1>5. \A p, how : p \in Requests =>
        LET n == Finish(p, how) IN n.answer = how /\ n.op = p.op /\ n.pk = p.pk
  BY DEF Finish, Requests
<1>6. \A p, how : Able(p) /\ how \in {"ok", "refused", "raised"} => Finish(p, how) \in Requests
  BY FinishForms DEF Onward, Able
<1>7. ASSUME PushedNew(t) \/ Pushed(t) PROVE q.pc = "push" /\ req'[t].pk = q.pk /\ UNCHANGED <<db, alone>>
  <2>1. q.pc = "push"
    BY <1>7 DEF PushedNew, Pushed
  <2>2. CASE Remove(t, Finish(q, "refused"))
    BY <1>1, <1>3, <1>5, <2>2
  <2>3. CASE Go(t, Finish(q, "ok")) /\ UNCHANGED <<db, alone>>
    BY <1>1, <1>3, <1>5, <2>1, <2>3
  <2>4. CASE Go(t, Finish(q, "refused")) /\ UNCHANGED <<db, alone>>
    BY <1>1, <1>3, <1>5, <2>1, <2>4
  <2> QED
    BY <1>7, <2>2, <2>3, <2>4 DEF PushedNew, Pushed
<1>8. ASSUME GotStatus(t) PROVE FALSE
  <2> DEFINE p1 == [q EXCEPT !.obj.active = (q.heard = "true")]
             Goes(p) == IF p.op = "show" THEN Finish(p, "ok") ELSE [p EXCEPT !.pc = "loaded"]
  <2>1. Able(q) /\ (Go(t, Goes(q)) \/ Save(t, Goes(p1)))
    BY <1>1, <1>2, <1>8 DEF GotStatus
  <2>2. Able(p1)
    BY <2>1 DEF Able, Requests, Rec
  <2> HIDE DEF p1
  <2>3. ASSUME NEW p, Able(p) PROVE Goes(p) \in Requests
    BY <1>6, <2>3 DEF Able, Requests
  <2>4. ASSUME NEW p, Able(p), req'[t] = Goes(p) PROVE FALSE
    <3>1. CASE p.op = "show"
      BY <1>5, <2>4, <3>1 DEF Able, Saving
    <3>2. CASE p.op # "show"
      BY <2>4, <3>2 DEF Able, Requests
    <3> QED
      BY <3>1, <3>2
  <2> HIDE DEF Goes
  <2> QED
    BY <1>3, <1>4, <2>1, <2>2, <2>3, <2>4
<1>9. ASSUME NEW k \in Key, NEW v \in Val, NEW a \in BOOLEAN, Update(t, k, v, a) PROVE FALSE
  <2> DEFINE p == [q EXCEPT !.obj = Edited(q.obj, k, v, a)]
             n == IF kind = "route" THEN Calling(p, "drop", RemoveCalls(k))
                  ELSE Pushing(p, FALSE)
  <2>1. Ready(q) /\ q.op = "update" /\ (Save(t, n) \/ Go(t, Finish(q, "refused")))
    BY <1>1, <1>2, <1>9 DEF Update, Loaded
  <2>2. Ready(p) /\ p.op = "update"
    BY <2>1 DEF Ready, Able, Edited, Requests, Rec
  <2>3. p.obj.key = k
    <3>1. p.obj = Edited(q.obj, k, v, a) /\ Edited(q.obj, k, v, a).key = k
      BY <2>1 DEF Ready, Able, Edited, Requests, Rec
    <3> QED
      BY <3>1
  <2> HIDE DEF p
  <2>4. n \in Requests /\ n.answer # "ok"
    <3>1. RemoveCalls(k) \in Seq(Call)
      BY DEF RemoveCalls, Do, Persist, Call
    <3>2. kind = "route" => Onward(p, Calling(p, "drop", RemoveCalls(k)))
      BY <1>1, <2>2, <2>3, <3>1, CallingForms DEF Calls
    <3>3. Onward(p, Pushing(p, FALSE))
      BY <1>1, <2>2, PushingForms
    <3>4. /\ Calling(p, "drop", RemoveCalls(k)).answer # "ok"
          /\ Pushing(p, FALSE).answer # "ok"
      BY <2>2, NotYetOk
    <3>5. CASE kind = "route"
      BY <3>2, <3>4, <3>5 DEF Onward, Able
    <3>6. CASE kind # "route"
      BY <3>3, <3>4, <3>6 DEF Onward, Able
    <3> QED
      BY <3>5, <3>6
  <2> HIDE DEF n
  <2> QED
    BY <1>1, <1>3, <1>4, <1>5, <2>1, <2>4
<1>10. ASSUME StartRemove(t) \/ DropFails(t) \/ Deleted(t) \/ ResyncDropped(t) PROVE FALSE
  <2>1. Ready(q)
    BY <1>1, <1>2, <1>10 DEF StartRemove, Loaded, DropFails, Deleted, ResyncDropped, Dropped
  <2>2. CASE StartRemove(t)
    BY <1>3, <2>1, <2>2, NotYetOk DEF StartRemove
  <2>3. CASE DropFails(t)
    BY <1>1, <1>3, <1>5, <2>3 DEF DropFails
  <2>4. CASE Deleted(t)
    BY <1>1, <1>3, <1>5, <2>4 DEF Deleted, Saving
  <2>5. CASE ResyncDropped(t)
    BY <1>1, <1>3, <1>5, <2>5 DEF ResyncDropped
  <2> QED
    BY <1>10, <2>2, <2>3, <2>4, <2>5
<1>11. ASSUME UpdateDropped(t) PROVE FALSE
  <2> DEFINE r == lastPk + 1
             o == [q.obj EXCEPT !.linked = FALSE]
             p == [q EXCEPT !.pk = r, !.obj = o]
  <2>1. Ready(q) /\ r \in Row
    <3>1. lastPk < MaxRows /\ lastPk \in 0..MaxRows
      BY <1>1, <1>11 DEF UpdateDropped, TypeOK
    <3> QED
      BY <1>1, <1>2, <1>11, <3>1 DEF UpdateDropped, Dropped, Row
  <2>2. Ready(p)
    BY <2>1 DEF Ready, Able, Requests, Rec
  <2>3. Go(t, Pushing(p, TRUE))
    BY <1>11 DEF UpdateDropped
  <2> HIDE DEF p
  <2> QED
    BY <1>3, <2>2, <2>3, NotYetOk
<1>12. ASSUME StartStop(t) PROVE FALSE
  <2> DEFINE p == [q EXCEPT !.obj.active = (q.op = "start")]
             calls == <<Do(q.op, p.obj.key)>>
  <2>1. Ready(q) /\ q.op \in {"start", "stop"}
    BY <1>1, <1>2, <1>12 DEF StartStop, Loaded
  <2>2. Ready(p) /\ p.op = q.op
    BY <2>1 DEF Ready, Able, Requests, Rec
  <2>3. Save(t, Calling(p, "push", calls))
    BY <1>12, <2>2 DEF StartStop
  <2> HIDE DEF p
  <2>4. calls \in Seq(Call)
    BY <2>1, <2>2 DEF Do, Call, Ready, Able, Rec
  <2>5. Calling(p, "push", calls) \in Requests
    BY <1>1, <2>1, <2>2, <2>4, CallingForms DEF Calls, Onward, Able
  <2> HIDE DEF calls
  <2> QED
    BY <1>4, <2>2, <2>3, <2>5, NotYetOk
<1>13. ASSUME StartedStopped(t) PROVE FALSE
  <2> DEFINE p == [q EXCEPT !.obj.active = ~@]
  <2>1. /\ Ready(q)
        /\ \/ Save(t, Finish(p, "refused"))
           \/ Go(t, Calling(q, "recheck", <<Do("status", q.obj.key)>>))
    BY <1>1, <1>2, <1>13 DEF StartedStopped
  <2>2. Able(p)
    BY <2>1 DEF Ready, Able, Requests, Rec
  <2> HIDE DEF p
  <2>3. Finish(p, "refused") \in Requests /\ Finish(p, "refused").answer = "refused"
    BY <1>5, <1>6, <2>2 DEF Able
  <2> QED
    BY <1>3, <1>4, <2>1, <2>3, NotYetOk
<1>14. ASSUME Rechecked(t) PROVE FALSE
  <2> DEFINE p == [q EXCEPT !.obj.active = q.heard = "true"]
  <2>1. Able(q) /\ q.op \in {"start", "stop"} /\ (Save(t, Finish(p, "ok")) \/ Go(t, Finish(q, "ok")))
    BY <1>1, <1>2, <1>14 DEF Rechecked, Formed, Placed
  <2>2. Able(p) /\ p.op = q.op
    BY <2>1 DEF Able, Requests, Rec
  <2> HIDE DEF p
  <2>3. Finish(p, "ok") \in Requests /\ Finish(p, "ok").op = q.op /\ Finish(q, "ok").op = q.op
    BY <1>1, <1>5, <1>6, <2>2 DEF Able
  <2> QED
    BY <1>3, <1>4, <2>1, <2>3 DEF Saving
<1>15. ASSUME FetchUsers(t) PROVE FALSE
  <2>1. Ready(q)
    BY <1>1, <1>2, <1>15 DEF FetchUsers, Loaded
  <2> QED
    BY <1>3, <1>15, <2>1, NotYetOk DEF FetchUsers
<1>16. ASSUME Fetched(t) PROVE FALSE
  <2> DEFINE p == IF q.op = "cron" THEN [q EXCEPT !.obj = db[q.pk]] ELSE q
  <2>1. q.pc = "fetch" /\ (Go(t, [p EXCEPT !.pc = "loaded"]) \/ Go(t, Finish(p, "refused")))
    BY <1>16 DEF Fetched
  <2>2. p \in Requests
    <3>1. q.pk \in Row
      BY <1>1, <2>1 DEF Formed, Held, Requests
    <3> QED
      BY <1>1, <3>1 DEF TypeOK, Requests
  <2> HIDE DEF p
  <2>3. /\ [p EXCEPT !.pc = "loaded"].pc = "loaded"
        /\ Finish(p, "refused").answer = "refused"
    BY <1>5, <2>2 DEF Requests
  <2>4. req'[t] = [p EXCEPT !.pc = "loaded"] \/ req'[t] = Finish(p, "refused")
    BY <1>3, <2>1
  <2> QED
    BY <2>3, <2>4
<1>17. ASSUME ApplyUser(t) PROVE FALSE
  <2> DEFINE user == q.seen[q.obj.key]
             p == [q EXCEPT !.obj.val = user.val, !.obj.active = user.on]
  <2>1. Able(q) /\ q.op \in {"sync", "cron"} /\ Save(t, Finish(p, "ok")) /\ user \in Object
    <3>1. /\ Able(q) /\ q.pc = "loaded" /\ q.op \in {"sync", "cron"} /\ q.seen # Blank.seen
          /\ Save(t, Finish(p, "ok"))
      BY <1>1, <1>2, <1>17 DEF ApplyUser, Loaded
    <3> QED
      BY <1>1, <3>1 DEF Formed, Held, Able, Requests, Rec
  <2>2. Able(p) /\ p.op = q.op
    <3>1. user.val \in Val /\ user.on \in BOOLEAN
      BY <2>1 DEF Object
    <3> HIDE DEF user
    <3> QED
      BY <2>1, <3>1 DEF Able, Requests, Rec
  <2> HIDE DEF p
  <2>3. Finish(p, "ok") \in Requests /\ Finish(p, "ok").op = q.op
    BY <1>5, <1>6, <2>2 DEF Able
  <2> QED
    BY <1>4, <2>1, <2>3 DEF Saving
<1> QED
  BY <1>7, <1>8, <1>9, <1>10, <1>11, <1>12, <1>13, <1>14, <1>15, <1>16, <1>17 DEF Handle

\* Who is taken for the witness of a trusted row after a step: somebody who was so
\* before, and whose row is the same, or the request whose push was just answered.
LEMMA Witnesses ==
  ASSUME ShapeInv, ShapeInv', [Next]_vars, NEW u \in alone', Done(u, "ok")', req'[u].op \in Saving
  PROVE  \/ /\ u \in alone /\ Done(u, "ok") /\ req'[u].pk = req[u].pk /\ req'[u].op = req[u].op
            /\ db'[req[u].pk] = db[req[u].pk]
         \/ /\ UNCHANGED <<db, alone>> /\ req[u].pc = "push" /\ req'[u].pk = req[u].pk
            /\ \A v \in Request \ {u} : req'[v] = req[v]
<1> USE ConfigAssumption, NoneAssumption
<1>1. /\ u \in alone /\ u \in Request /\ req[u] \in Requests /\ Formed(req[u]) /\ TypeOK
      /\ req'[u].pc = "done" /\ req'[u].answer = "ok"
  BY AloneShrinks DEF ShapeInv, Shape, TypeOK, Done
<1>2. ASSUME Spared(u), req'[u].pk = req[u].pk, req'[u].op = req[u].op, req'[u].pc = req[u].pc,
             req'[u].answer = req[u].answer
      PROVE  /\ u \in alone /\ Done(u, "ok") /\ req'[u].pk = req[u].pk /\ req'[u].op = req[u].op
             /\ db'[req[u].pk] = db[req[u].pk]
  <2>1. req[u].obj # None
    BY <1>1, <1>2 DEF Formed, Held
  <2> QED
    BY <1>1, <1>2, <2>1 DEF Spared, Done
<1>3. ASSUME NEW p, Go(u, p) \/ Remove(u, p) PROVE req'[u] = p
  BY <1>1, <1>3 DEF Go, Remove, TypeOK
<1>4. ASSUME NEW t \in Request, t # u,
             \/ \E w \in Workspace, k \in Key, v \in Val : Create(t, w, k, v)
             \/ \E r \in Row : CronFetches(t, r) \/ \E what \in Ops : Load(t, what, r)
             \/ Handle(t)
             \/ PbStep(t) \/ PbFail(t) \/ PbTimeout(t) \/ LateStep(t)
      PROVE  Spared(u) /\ req'[u] = req[u]
  BY <1>1, <1>4, Bystander
<1>5. ASSUME NEW w \in Workspace, NEW k \in Key, NEW v \in Val, Create(u, w, k, v)
      PROVE  FALSE
  <2> DEFINE r == lastPk + 1
             o == NewRow(w, k, v)
             p == [Blank EXCEPT !.op = "create", !.pk = r, !.obj = o]
             n == Pushing(p, TRUE)
  <2>1. r \in Row /\ o \in Rec /\ "create" \in Ops
    <3>1. lastPk < MaxRows /\ lastPk \in 0..MaxRows
      BY <1>1, <1>5 DEF Create, TypeOK
    <3> QED
      BY <3>1, Records DEF Row, Ops
  <2>2. Save(u, n) \/ Remove(u, n)
    BY <1>5 DEF Create
  <2>3. Ready(p) /\ p.op = "create"
    <3>1. Blank \in Requests /\ Blank.late \in Seq(Proper)
      BY DEF Blank, Requests
    <3>2. p = [Blank EXCEPT !.op = "create", !.pk = r, !.obj = o]
      OBVIOUS
    <3> HIDE DEF o, r, p
    <3> QED
      BY <2>1, <3>1, <3>2 DEF Blank, Requests, Ready, Able
  <2> HIDE DEF p
  <2>4. Able(n) /\ n.answer # "ok"
    <3>1. Able(n)
      BY <1>1, <2>3, PushingForms DEF Onward
    <3>2. n.answer # "ok"
      BY <2>3, NotYetOk
    <3> QED
      BY <3>1, <3>2
  <2> HIDE DEF n
  <2>5. req'[u] = n \/ req'[u] = Finish(n, "raised")
    BY <1>3, <2>2 DEF Save
  <2>6. Finish(n, "raised").answer = "raised"
    BY <2>4 DEF Finish, Able, Requests
  <2> QED
    BY <1>1, <2>4, <2>5, <2>6
<1>6. ASSUME NEW r \in Row, CronFetches(u, r) PROVE FALSE
  <2>1. req'[u] = [Blank EXCEPT !.op = "cron", !.pk = r, !.pc = "fetch",
                                !.todo = <<Do("list", None)>>]
    BY <1>3, <1>6 DEF CronFetches
  <2> QED
    BY <1>1, <2>1 DEF Blank
<1>7. ASSUME NEW r \in Row, NEW what \in Ops, Load(u, what, r) PROVE FALSE
  <2> DEFINE p == [Blank EXCEPT !.op = what, !.pk = r, !.obj = db[r]]
  <2>1. \/ req'[u] = Calling(p, "status", <<Do("status", p.obj.key)>>)
        \/ req'[u] = [p EXCEPT !.pc = "loaded"]
    BY <1>3, <1>7 DEF Load
  <2>2. db[r] \in Rec \cup {None} /\ p = [Blank EXCEPT !.op = what, !.pk = r, !.obj = db[r]]
    BY <1>1 DEF TypeOK
  <2> HIDE DEF p
  <2>3. p \in Requests /\ p.answer = "none"
    <3> DEFINE o == db[r]
    <3>1. o \in Rec \cup {None} /\ p = [Blank EXCEPT !.op = what, !.pk = r, !.obj = o]
      BY <2>2
    <3> HIDE DEF o
    <3>2. Blank \in Requests /\ Blank.answer = "none"
      BY DEF Blank, Requests
    <3> QED
      BY <3>1, <3>2 DEF Requests
  <2>4. CASE req'[u] = Calling(p, "status", <<Do("status", p.obj.key)>>)
    <3>1. \/ \E a : req'[u] = [p EXCEPT !.pc = "status", !.todo = a, !.heard = "none"]
          \/ req'[u] = [p EXCEPT !.pc = "status", !.heard = "error"]
      BY <2>4 DEF Calling
    <3> QED
      BY <1>1, <2>3, <3>1 DEF Requests
  <2>5. CASE req'[u] = [p EXCEPT !.pc = "loaded"]
    BY <1>1, <2>3, <2>5 DEF Requests
  <2> QED
    BY <2>1, <2>4, <2>5
<1>8. ASSUME PbStep(u) \/ PbFail(u) \/ PbTimeout(u) PROVE FALSE
  <2>1. req[u].pc \in Calls
    BY <1>1, <1>8, PlanTail DEF PbStep, PbFail, PbTimeout
  <2>2. req'[u].pc = req[u].pc
    <3>1. CASE PbStep(u)
      <4>1. PICK a, b, c : req'[u] = [req[u] EXCEPT !.todo = a, !.heard = b, !.seen = c]
        BY <1>3, <3>1 DEF PbStep
      <4> QED
        BY <1>1, <4>1 DEF Requests
    <3>2. CASE PbFail(u) \/ PbTimeout(u)
      <4>1. \/ req'[u] = [req[u] EXCEPT !.todo = <<>>, !.heard = "error"]
            \/ req'[u] = [req[u] EXCEPT !.todo = <<>>, !.heard = "error", !.late = req[u].todo]
        BY <1>3, <3>2 DEF PbFail, PbTimeout
      <4> QED
        BY <1>1, <4>1 DEF Requests
    <3> QED
      BY <1>8, <3>1, <3>2
  <2> QED
    BY <1>1, <2>1, <2>2 DEF Calls
<1>9. ASSUME LateStep(u) PROVE Spared(u) /\ req'[u] = [req[u] EXCEPT !.late = Tail(@)]
  BY <1>1, <1>3, <1>9, JasminSpares DEF LateStep
<1>10. ASSUME JasminRestart
       PROVE  /\ Spared(u)
              /\ \/ req'[u] = [req[u] EXCEPT !.late = <<>>]
                 \/ req'[u] = [req[u] EXCEPT !.todo = <<>>, !.heard = "error", !.late = <<>>]
  BY <1>1, <1>10, JasminSpares DEF JasminRestart
<1>11. ASSUME (\E k \in Key : Spend(k)) \/ UNCHANGED vars
       PROVE  Spared(u) /\ req'[u] = req[u]
  <2>1. CASE \E k \in Key : Spend(k)
    BY <1>1, <2>1, JasminSpares DEF Spend
  <2>2. CASE UNCHANGED vars
    BY <1>1, <2>2 DEF vars, Spared
  <2> QED
    BY <1>11, <2>1, <2>2
<1>12. ASSUME Handle(u)
       PROVE  /\ UNCHANGED <<db, alone>> /\ req[u].pc = "push" /\ req'[u].pk = req[u].pk
              /\ \A v \in Request \ {u} : req'[v] = req[v]
  <2>1. req[u].pc = "push" /\ req'[u].pk = req[u].pk /\ UNCHANGED <<db, alone>>
    BY <1>1, <1>12, PushReports
  <2> QED
    BY <1>1, <1>12, <2>1, OneMoves
<1>13. CASE Spared(u) /\ (req'[u] = req[u] \/ \E l : req'[u] = [req[u] EXCEPT !.late = l])
  <2>1. /\ req'[u].pk = req[u].pk /\ req'[u].op = req[u].op /\ req'[u].pc = req[u].pc
        /\ req'[u].answer = req[u].answer
    BY <1>1, <1>13 DEF Requests
  <2> QED
    BY <1>2, <1>13, <2>1
<1>14. CASE Spared(u) /\ req'[u] = [req[u] EXCEPT !.todo = <<>>, !.heard = "error", !.late = <<>>]
  <2>1. /\ req'[u].pk = req[u].pk /\ req'[u].op = req[u].op /\ req'[u].pc = req[u].pc
        /\ req'[u].answer = req[u].answer
    BY <1>1, <1>14 DEF Requests
  <2> QED
    BY <1>2, <1>14, <2>1
<1>15. CASE \/ JasminRestart \/ (\E k \in Key : Spend(k)) \/ UNCHANGED vars
  BY <1>10, <1>11, <1>13, <1>14, <1>15
<1>16. ASSUME NEW t \in Request,
              \/ \E w \in Workspace, k \in Key, v \in Val : Create(t, w, k, v)
              \/ \E r \in Row : CronFetches(t, r) \/ \E what \in Ops : Load(t, what, r)
              \/ Handle(t)
              \/ PbStep(t) \/ PbFail(t) \/ PbTimeout(t) \/ LateStep(t)
       PROVE  \/ Spared(u) /\ (req'[u] = req[u] \/ \E l : req'[u] = [req[u] EXCEPT !.late = l])
              \/ /\ UNCHANGED <<db, alone>> /\ req[u].pc = "push" /\ req'[u].pk = req[u].pk
                 /\ \A v \in Request \ {u} : req'[v] = req[v]
  <2>1. CASE t # u
    BY <1>4, <1>16, <2>1
  <2>2. CASE t = u
    BY <1>5, <1>6, <1>7, <1>8, <1>9, <1>12, <1>16, <2>2
  <2> QED
    BY <2>1, <2>2
<1> QED
  BY <1>13, <1>15, <1>16 DEF Next

\* A trusted row, its object and what Jasmin keeps of it say the same.
TrustedSame == \A r \in Trusted : Abstract!Same(r)

LEMMA TrustIsKnown == ShapeInv /\ Knowing => TrustedSame
<1> SUFFICES ASSUME ShapeInv, Knowing, NEW r \in Trusted PROVE Abstract!Same(r)
  BY DEF TrustedSame
<1> USE ConfigAssumption, NoneAssumption
<1>1. PICK t \in alone : req[t].pk = r /\ req[t].op \in Saving /\ Done(t, "ok")
  BY DEF Trusted, Saving
<1>2. /\ r \in Row /\ t \in Request /\ req[t] \in Requests /\ Formed(req[t]) /\ Reports(req[t])
  BY DEF Trusted, ShapeInv, Shape, TypeOK, Knowing, Knows
<1> DEFINE o == req[t].obj
<1>3. /\ o \in Rec /\ o # None /\ db[r] = o
      /\ jasmin[o.key] = Built(o) /\ stored[o.key] = Built(o)
  BY <1>1, <1>2 DEF Formed, Held, Requests, Reports, Done
<1>4. Built(o) # None /\ Built(o).val = o.val /\ o.val # None
  BY <1>3, Records DEF Built, Rec
<1> HIDE DEF o
<1>5. Present(r) /\ db[r].val = o.val /\ On(jasmin)[r] = o.val /\ On(stored)[r] = o.val
  BY <1>2, <1>3, <1>4 DEF Present, On
<1> QED
  BY <1>2, <1>4, <1>5 DEF Abstract!Same

\* The three copies of what rows say are values.
Valued ==
  /\ [r \in Row |-> IF Present(r) THEN db[r].val ELSE None] \in Abstract!Values
  /\ On(jasmin) \in Abstract!Values
  /\ On(stored) \in Abstract!Values

LEMMA TypesAreValued == TypeOK => Valued
BY DEF TypeOK, Valued, Abstract!Values, On, Present, Rec, Object

LEMMA MirrorInit == Init => Abstract!Init
<1> SUFFICES ASSUME Init PROVE Abstract!Init
  OBVIOUS
<1>1. Valued
  BY ShapeInit, TypesAreValued DEF ShapeInv
<1>2. Trusted = {}
  BY DEF Init, Trusted, Done, Blank
<1> QED
  BY <1>1, <1>2 DEF Abstract!Init, Valued

LEMMA MirrorStep ==
  /\ ShapeInv /\ ShapeInv' /\ Valued' /\ TrustedSame'
  /\ [Next]_vars
  => [Abstract!Next]_(Abstract!vars)
<1> SUFFICES ASSUME ShapeInv, ShapeInv', Valued', TrustedSame', [Next]_vars
             PROVE  Abstract!Next
  OBVIOUS
<1>1. \A r \in Row \cap Trusted \cap Trusted' : db'[r] = db[r]
  <2> TAKE r \in Row \cap Trusted \cap Trusted'
  <2>1. PICK u \in alone' : req'[u].pk = r /\ req'[u].op \in Saving /\ Done(u, "ok")'
    BY DEF Trusted, Saving
  <2> QED
    BY <2>1, Witnesses
<1>2. Abstract!Others
  BY <1>1 DEF Abstract!Others, Valued, TrustedSame, Present, Trusted
<1>3. CASE \E u \in alone' :
             /\ Done(u, "ok")' /\ req'[u].op \in Saving
             /\ UNCHANGED <<db, alone>> /\ req[u].pc = "push"
             /\ \A v \in Request \ {u} : req'[v] = req[v]
  <2>1. PICK u \in alone' :
             /\ Done(u, "ok")' /\ req'[u].op \in Saving
             /\ UNCHANGED <<db, alone>> /\ req[u].pc = "push"
             /\ \A v \in Request \ {u} : req'[v] = req[v]
    BY <1>3
  <2> DEFINE r == req'[u].pk
  <2>2. alone \subseteq Request /\ u \in Request /\ r \in Row
    BY <2>1, NoneAssumption DEF ShapeInv, Shape, TypeOK, Requests, Formed, Held, Done
  <2>3. Trusted' = Trusted \cup {r}
    BY <2>1, <2>2 DEF Trusted, Done, Saving
  <2> HIDE DEF r
  <2>4. CASE r \in Trusted
    <3>1. Trusted' \subseteq Trusted
      BY <2>3, <2>4
    <3> QED
      BY <1>2, <3>1 DEF Abstract!Next, Abstract!Touch
  <2>5. CASE r \notin Trusted
    BY <1>2, <2>2, <2>3, <2>5 DEF Abstract!Next, Abstract!Confirm
  <2> QED
    BY <2>4, <2>5
<1>4. CASE ~ \E u \in alone' :
               /\ Done(u, "ok")' /\ req'[u].op \in Saving
               /\ UNCHANGED <<db, alone>> /\ req[u].pc = "push"
               /\ \A v \in Request \ {u} : req'[v] = req[v]
  <2>1. Trusted' \subseteq Trusted
    <3> SUFFICES ASSUME NEW r \in Trusted' PROVE r \in Trusted
      OBVIOUS
    <3>1. PICK u \in alone' : req'[u].pk = r /\ req'[u].op \in Saving /\ Done(u, "ok")'
      BY DEF Trusted, Saving
    <3>2. u \in alone /\ Done(u, "ok") /\ req[u].pk = r /\ req[u].op \in Saving /\ r \in Row
      BY <1>4, <3>1, Witnesses DEF Trusted
    <3> QED
      BY <3>2 DEF Trusted, Saving
  <2> QED
    BY <1>2, <2>1 DEF Abstract!Next, Abstract!Touch
<1> QED
  BY <1>3, <1>4

(* Rows and objects implement Mirror, whatever the kind and the calls that  *)
(* are lost, late or half done: see ImplementsMirror.                        *)
THEOREM MirrorImplementation == Spec => ImplementsMirror
<1>1. ShapeInv => TypeOK
  BY DEF ShapeInv
<1>2. ShapeInv /\ Knowing => Valued /\ TrustedSame
  BY <1>1, TypesAreValued, TrustIsKnown
<1> QED
  BY <1>2, MirrorInit, MirrorStep, KnowingInvariant, PTL
     DEF Spec, ImplementsMirror, Abstract!Spec
====
