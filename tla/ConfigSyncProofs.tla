-------------------------- MODULE ConfigSyncProofs --------------------------
(***************************************************************************)
(* Theorems about ConfigSync, for any kinds, workspaces, keys, values and  *)
(* numbers of rows and requests.                                           *)
(***************************************************************************)
EXTENDS ConfigSync, TLAPS

-----------------------------------------------------------------------------
(* Shape: what a request holds while it is in each of its phases.          *)

\* Remote methods that name what they work on.
Proper ==
  {c \in Call :
     /\ c.do = "add" => c.key # None /\ c.put # None
     /\ c.do \in {"remove", "start", "stop", "status"} => c.key # None}

Calls == {"status", "fetch", "push", "drop", "recheck"}

\* What may be left of the PB call of a request, by its phase.
Planned(q) ==
  LET k == q.obj.key IN
  /\ q.pc \in {"idle", "loaded", "done"} => q.todo = <<>>
  /\ q.pc \in {"status", "recheck"} => q.todo \in {<<>>, <<Do("status", k)>>}
  /\ q.pc = "fetch" => q.todo \in {<<>>, <<Do("list", None)>>}
  /\ q.pc = "drop" => q.todo \in {<<>>, <<Persist>>, <<Do("remove", k), Persist>>}
  /\ q.pc = "push" /\ q.op \in {"create", "update"} =>
       q.todo \in {<<>>, <<Persist>>, <<Add(q.obj), Persist>>,
                   <<Do("remove", k), Add(q.obj), Persist>>}
  /\ q.pc = "push" /\ q.op \in {"start", "stop"} => q.todo \in {<<>>, <<Do(q.op, k)>>}
  /\ q.pc \in Calls /\ q.todo \in {<<>>, <<Persist>>} => q.heard # "none"

\* Which operation is in which phase.
Placed(q) ==
  /\ q.op \in Ops => q.op = "create" \/ Offered(q.op)
  /\ q.op = "create" => q.pc \in {"push", "done"}
  /\ q.pc = "fetch" => q.op \in {"sync", "cron"}
  /\ q.pc = "recheck" => q.op \in {"start", "stop"}
  /\ q.pc = "drop" => q.op \in {"delete", "resync"} \/ (q.op = "update" /\ kind = "route")
  /\ q.pc = "push" => q.op \in {"create", "update", "start", "stop"}
  /\ q.pc = "status" => kind = "smpp"

\* Who has a row and an instance.
Held(q) ==
  /\ q.pc # "idle" => q.op # None /\ q.pk # None
  /\ q.obj = None => q.pc \in {"idle", "done"} \/ (q.pc = "fetch" /\ q.op = "cron")
  /\ q.obj = None /\ q.pc = "done" => q.op = "cron" /\ q.answer # "ok"
  /\ q.answer # "none" => q.pc = "done"
  /\ q.pc = "loaded" /\ q.op \in {"sync", "cron"} /\ q.seen # Blank.seen =>
       q.seen[q.obj.key] # None

Formed(q) == q.late \in Seq(Proper) /\ Planned(q) /\ Placed(q) /\ Held(q)

\* No row or instance has a key that was not given out yet.
Numbered ==
  /\ \A r \in Row : Present(r) => r <= lastPk
  /\ \A t \in Request : req[t].obj # None => req[t].pk \in 1..lastPk

Shape == Numbered /\ \A t \in Request : Formed(req[t])

ShapeInv == TypeOK /\ Shape

\* A row that is created and an object that is pushed have all their fields.
LEMMA Records ==
  /\ \A w \in Workspace, k \in Key, v \in Val : NewRow(w, k, v) \in Rec
  /\ \A o \in Rec : Built(o) \in Object
BY DEF NewRow, Built, Rec, Object

LEMMA ShapeInit == Init => ShapeInv
<1> SUFFICES ASSUME Init PROVE ShapeInv
  OBVIOUS
<1> USE ConfigAssumption
<1>1. Blank \in Requests /\ Blank.late \in Seq(Proper)
  BY DEF Blank, Requests
<1>2. db \in [Row -> Rec \cup {None}] /\ jasmin \in [Key -> Object \cup {None}]
  <2>1. \A w \in Workspace, k \in Key, v \in Val :
          NewRow(w, k, v) \in Rec /\ Built(NewRow(w, k, v)) \in Object
    BY Records
  <2>2. CidOf[1] \in Key
    BY DEF Row
  <2> QED
    BY <2>1, <2>2 DEF Init
<1>3. lastPk \in 0..MaxRows /\ \A r \in Row : Present(r) => r <= lastPk
  <2>1. CASE lastPk = 0 /\ \A r \in Row : db[r] = None
    BY <2>1 DEF Present
  <2>2. CASE lastPk = 1 /\ \A r \in Row : r # 1 => db[r] = None
    BY <2>2 DEF Present, Row
  <2> QED
    BY <2>1, <2>2 DEF Init
<1>4. \A t \in Request : Formed(req[t]) /\ req[t].obj = None
  BY <1>1, NoneAssumption DEF Init, Formed, Planned, Placed, Held, Blank, Calls, Ops
<1> QED
  BY <1>1, <1>2, <1>3, <1>4 DEF Init, TypeOK, ShapeInv, Shape, Numbered

\* A request at work on an instance ...
Able(q) ==
  /\ q \in Requests /\ q.obj \in Rec /\ q.pk \in Row /\ q.late \in Seq(Proper)
  /\ q.op \in Ops /\ (q.op = "create" \/ Offered(q.op))

\* ... and between two calls.
Ready(q) == Able(q) /\ q.todo = <<>> /\ q.answer = "none"

\* p is that request, further on.
Onward(q, p) ==
  /\ Able(p) /\ Formed(p)
  /\ p.op = q.op /\ p.pk = q.pk /\ p.obj = q.obj /\ p.late = q.late

LEMMA FinishForms ==
  ASSUME NEW q, Able(q), NEW how \in {"ok", "refused", "raised"}
  PROVE  Onward(q, Finish(q, how))
<1> USE ConfigAssumption, NoneAssumption
<1>1. Blank.seen \in [Key -> Object \cup {None}] /\ <<>> \in Seq(Call)
  BY DEF Blank
<1> DEFINE p == Finish(q, how)
<1>2. p \in Requests
  BY <1>1 DEF Able, Finish, Requests
<1>3. /\ p.pc = "done" /\ p.todo = <<>> /\ p.op = q.op /\ p.pk = q.pk /\ p.obj = q.obj
      /\ p.late = q.late
  BY DEF Able, Finish, Requests
<1> HIDE DEF p
<1>4. Onward(q, p)
  BY <1>2, <1>3 DEF Onward, Able, Formed, Planned, Placed, Held, Calls
<1> QED
  BY <1>2, <1>4 DEF p

\* A call, or the refusal that comes without a connection.
LEMMA CallingForms ==
  ASSUME TypeOK, NEW q, Ready(q), NEW pc \in Calls, NEW calls \in Seq(Call),
         pc \in {"status", "recheck"} => calls = <<Do("status", q.obj.key)>>,
         pc = "status" => kind = "smpp" /\ q.op # "create",
         pc = "recheck" => q.op \in {"start", "stop"},
         pc = "fetch" => q.op \in {"sync", "cron"} /\ calls = <<Do("list", None)>>,
         pc = "drop" => /\ calls = RemoveCalls(q.obj.key)
                        /\ q.op \in {"delete", "resync"} \/ (q.op = "update" /\ kind = "route"),
         pc = "push" =>
           \/ /\ q.op \in {"create", "update"}
              /\ calls \in {<<Add(q.obj), Persist>>,
                            <<Do("remove", q.obj.key), Add(q.obj), Persist>>}
           \/ q.op \in {"start", "stop"} /\ calls = <<Do(q.op, q.obj.key)>>
  PROVE  Onward(q, Calling(q, pc, calls))
<1> USE ConfigAssumption, NoneAssumption
<1>1. ASSUME configured[q.obj.ws]
      PROVE  Onward(q, Calling(q, pc, calls))
  <2> DEFINE p == [q EXCEPT !.pc = pc, !.todo = calls, !.heard = "none"]
  <2>1. p \in Requests /\ p.pc = pc /\ p.todo = calls /\ p.op = q.op /\ p.obj = q.obj
        /\ p.late = q.late /\ p.pk = q.pk /\ p.answer = q.answer
    BY DEF Ready, Able, Requests, Calls
  <2>2. Calling(q, pc, calls) = p
    BY <1>1 DEF Calling
  <2> HIDE DEF p
  <2>3. calls \notin {<<>>, <<Persist>>}
    <3>1. /\ \A what, k : Do(what, k).do = what
          /\ \A o : Add(o).do = "add" /\ Persist.do = "persist"
      BY DEF Do, Add, Persist
    <3>2. q.op \in {"start", "stop"} => Do(q.op, q.obj.key) # Persist
      BY <3>1
    <3>3. \A k : Do("status", k) # Persist /\ Do("list", k) # Persist
      BY <3>1
    <3> QED
      BY <3>2, <3>3 DEF Calls, RemoveCalls
  <2>4. Planned(p)
    BY <2>1, <2>3 DEF Planned, Calls, RemoveCalls
  <2>5. Placed(p)
    BY <2>1 DEF Placed, Calls, Ready, Able
  <2> QED
    BY <2>1, <2>2, <2>4, <2>5 DEF Onward, Formed, Held, Ready, Able, Calls
<1>2. ASSUME ~configured[q.obj.ws], pc \in {"status", "recheck"}
      PROVE  Onward(q, Calling(q, pc, calls))
  BY <1>2 DEF Calling, Onward, Ready, Able, Requests, Formed, Planned, Placed, Held, Calls
<1>3. ASSUME ~configured[q.obj.ws], pc \notin {"status", "recheck"}
      PROVE  Onward(q, Calling(q, pc, calls))
  BY <1>3, FinishForms DEF Calling, Ready
<1> QED
  BY <1>1, <1>2, <1>3

LEMMA PushingForms ==
  ASSUME TypeOK, NEW q, Ready(q), q.op \in {"create", "update"}, NEW isNew
  PROVE  Onward(q, Pushing(q, isNew))
<1>1. PushCalls(isNew, q.obj) \in {<<Add(q.obj), Persist>>,
                                   <<Do("remove", q.obj.key), Add(q.obj), Persist>>}
  BY DEF PushCalls
<1>2. Add(q.obj) \in Call /\ Persist \in Call /\ Do("remove", q.obj.key) \in Call
  BY Records DEF Add, Persist, Do, Call, Ready, Able, Rec
<1>3. PushCalls(isNew, q.obj) \in Seq(Call)
  <2>1. <<Add(q.obj), Persist>> \in Seq(Call)
    BY <1>2
  <2>2. <<Do("remove", q.obj.key), Add(q.obj), Persist>> \in Seq(Call)
    BY <1>2
  <2> QED
    BY <1>1, <2>1, <2>2
<1>4. Onward(q, Calling(q, "push", PushCalls(isNew, q.obj)))
  BY <1>1, <1>3, CallingForms DEF Calls
<1> QED
  BY <1>4, FinishForms DEF Pushing, Ready

\* What a step has to show for Shape, if it is request t's.
LEMMA GoShapes ==
  ASSUME ShapeInv, NEW t \in Request, NEW q \in Requests, Go(t, q), Formed(q),
         q.obj # None => q.pk \in 1..lastPk', UNCHANGED <<kind, configured>>,
         lastPk' \in 0..MaxRows, lastPk <= lastPk',
         db' \in [Row -> Rec \cup {None}], \A r \in Row : db'[r] # None => r <= lastPk',
         jasmin' \in [Key -> Object \cup {None}], stored' \in [Key -> Object \cup {None}],
         alone' \subseteq Request
  PROVE  ShapeInv'
<1> USE ConfigAssumption, NoneAssumption
<1>1. req' \in [Request -> Requests] /\ req'[t] = q
      /\ \A u \in Request : u # t => req'[u] = req[u]
  BY DEF Go, ShapeInv, TypeOK
<1>2. TypeOK'
  BY <1>1 DEF ShapeInv, TypeOK
<1>3. Numbered'
  <2>1. \A u \in Request : req[u].obj # None => req[u].pk \in 1..lastPk'
    BY DEF ShapeInv, Shape, Numbered, TypeOK, Requests, Row
  <2> QED
    BY <1>1, <2>1 DEF Numbered, Present
<1>4. \A u \in Request : Formed(req'[u])
  BY <1>1 DEF ShapeInv, Shape
<1>5. (\A u \in Request : Formed(req[u]))'
  BY <1>4 DEF Formed, Planned, Placed, Held, Offered, Add, Built
<1> QED
  BY <1>2, <1>3, <1>5 DEF ShapeInv, Shape

LEMMA SaveShapes ==
  ASSUME ShapeInv, NEW t \in Request, NEW q, Able(q), Formed(q), Save(t, q), Rest,
         lastPk' \in 0..MaxRows, lastPk <= lastPk', q.pk \in 1..lastPk'
  PROVE  ShapeInv'
<1>1. LET p == Finish(q, "raised") IN Able(p) /\ Formed(p) /\ p.pk = q.pk
  BY FinishForms DEF Onward
<1>2. /\ db \in [Row -> Rec \cup {None}] /\ jasmin \in [Key -> Object \cup {None}]
      /\ stored \in [Key -> Object \cup {None}] /\ alone \subseteq Request
      /\ lastPk \in 0..MaxRows
      /\ \A r \in Row : db[r] # None => r <= lastPk
  BY DEF ShapeInv, TypeOK, Shape, Numbered, Present
<1>3. CASE Fits(q.pk, q.obj)
  <2>1. db' = [db EXCEPT ![q.pk] = q.obj] /\ Go(t, q) /\ alone' \subseteq Request
    BY <1>2, <1>3 DEF Save, Disturb
  <2>2. db' \in [Row -> Rec \cup {None}]
    BY <1>2, <2>1 DEF Able
  <2>3. \A r \in Row : db'[r] # None => r <= lastPk'
    BY <1>2, <2>1, ConfigAssumption DEF Able, Row
  <2> QED
    BY <1>2, <2>1, <2>2, <2>3, GoShapes DEF Able, Rest
<1>4. CASE ~Fits(q.pk, q.obj)
  <2>1. Go(t, Finish(q, "raised")) /\ UNCHANGED <<db, alone>>
    BY <1>4 DEF Save
  <2>2. \A r \in Row : db'[r] # None => r <= lastPk'
    BY <1>2, <2>1, ConfigAssumption DEF Row
  <2> QED
    BY <1>1, <1>2, <2>1, <2>2, GoShapes DEF Able, Rest
<1> QED
  BY <1>3, <1>4

LEMMA RemoveShapes ==
  ASSUME ShapeInv, NEW t \in Request, NEW q, Able(q), Formed(q), Remove(t, q), Rest,
         lastPk' \in 0..MaxRows, lastPk <= lastPk', q.pk \in 1..lastPk'
  PROVE  ShapeInv'
<1>1. /\ db \in [Row -> Rec \cup {None}] /\ jasmin \in [Key -> Object \cup {None}]
      /\ stored \in [Key -> Object \cup {None}] /\ alone \subseteq Request
      /\ lastPk \in 0..MaxRows
      /\ \A r \in Row : db[r] # None => r <= lastPk
  BY DEF ShapeInv, TypeOK, Shape, Numbered, Present
<1>2. db' = [db EXCEPT ![q.pk] = None] /\ Go(t, q) /\ alone' \subseteq Request
  BY <1>1 DEF Remove, Disturb
<1>3. db' \in [Row -> Rec \cup {None}]
  BY <1>1, <1>2
<1>4. \A r \in Row : db'[r] # None => r <= lastPk'
  BY <1>1, <1>2, ConfigAssumption DEF Row
<1> QED
  BY <1>1, <1>2, <1>3, <1>4, GoShapes DEF Able, Rest

\* A step that only moves its request on.
LEMMA QuietShapes ==
  ASSUME ShapeInv, NEW t \in Request, NEW q \in Requests, Formed(q), Go(t, q),
         q.obj # None => q.pk \in 1..lastPk, Rest, UNCHANGED <<db, lastPk, alone>>
  PROVE  ShapeInv'
<1>1. /\ db \in [Row -> Rec \cup {None}] /\ jasmin \in [Key -> Object \cup {None}]
      /\ stored \in [Key -> Object \cup {None}] /\ alone \subseteq Request
      /\ lastPk \in 0..MaxRows
      /\ \A r \in Row : db[r] # None => r <= lastPk
  BY DEF ShapeInv, TypeOK, Shape, Numbered, Present
<1>2. lastPk <= lastPk'
  BY <1>1, ConfigAssumption
<1> QED
  BY <1>1, <1>2, GoShapes DEF Rest

\* A request that has answered its PB call is ready to go on, with its instance.
LEMMA WorkReady ==
  ASSUME ShapeInv, NEW t \in Request, req[t].pc \notin {"idle", "done"},
         req[t].todo = <<>>, req[t].obj # None
  PROVE  Ready(req[t]) /\ req[t].pk \in 1..lastPk
<1> USE ConfigAssumption, NoneAssumption
<1>1. Formed(req[t]) /\ req[t] \in Requests /\ req[t].pk \in 1..lastPk
  BY DEF ShapeInv, Shape, Numbered, TypeOK
<1> QED
  BY <1>1 DEF Ready, Able, Formed, Held, Placed, Requests

\* The steps of requests between their PB calls.
LEMMA HandleShapes == ASSUME ShapeInv, NEW t \in Request, Handle(t) PROVE ShapeInv'
<1> USE ConfigAssumption, NoneAssumption
<1> DEFINE q == req[t]
<1>1. /\ q \in Requests /\ Formed(q) /\ TypeOK /\ lastPk \in 0..MaxRows /\ lastPk <= lastPk
      /\ q.obj # None => q.pk \in 1..lastPk
  BY DEF ShapeInv, Shape, Numbered, TypeOK
<1>2. /\ q.pc \in {"status", "loaded", "push", "drop", "recheck"} => q.obj # None
      /\ q.pc = "fetch" /\ q.op # "cron" => q.obj # None
      /\ q.pc = "loaded" => q.todo = <<>>
  BY <1>1 DEF Formed, Held, Planned
<1>3. q.pc \notin {"idle", "done"} /\ q.todo = <<>> /\ q.obj # None =>
        Ready(q) /\ Able(q) /\ q.pk \in 1..lastPk
  BY WorkReady DEF Ready
\* Ways to go on.
<1>4. ASSUME NEW p, Ready(p), p.pk \in 1..lastPk, NEW how \in {"ok", "refused", "raised"},
             Rest, UNCHANGED <<db, lastPk, alone>>, Go(t, Finish(p, how))
      PROVE  ShapeInv'
  <2>1. Onward(p, Finish(p, how))
    BY <1>4, FinishForms DEF Ready
  <2> QED
    BY <1>4, <2>1, QuietShapes DEF Onward, Able
<1>5. ASSUME NEW p, Able(p), p.pk \in 1..lastPk, NEW how \in {"ok", "refused", "raised"},
             Rest, UNCHANGED lastPk,
             Remove(t, Finish(p, how)) \/ Save(t, Finish(p, how))
      PROVE  ShapeInv'
  <2>1. Onward(p, Finish(p, how))
    BY <1>5, FinishForms
  <2> QED
    BY <1>1, <1>5, <2>1, RemoveShapes, SaveShapes DEF Onward
<1>6. ASSUME NEW p, Ready(p), p.pk \in 1..lastPk, NEW n, Onward(p, n),
             Rest, UNCHANGED <<db, lastPk, alone>>, Go(t, n)
      PROVE  ShapeInv'
  BY <1>6, QuietShapes DEF Onward, Able
<1>7. ASSUME NEW p, Ready(p), p.pk \in 1..lastPk, NEW n, Onward(p, n),
             Rest, UNCHANGED lastPk, Save(t, n)
      PROVE  ShapeInv'
  BY <1>1, <1>7, SaveShapes DEF Onward
<1>11. ASSUME PushedNew(t) PROVE ShapeInv'
  <2>1. Ready(q) /\ Able(q) /\ q.pk \in 1..lastPk
    BY <1>2, <1>3, <1>11 DEF PushedNew
  <2> QED
    BY <1>4, <1>5, <1>11, <2>1 DEF PushedNew
<1>12. ASSUME Pushed(t) PROVE ShapeInv'
  <2>1. Ready(q) /\ q.pk \in 1..lastPk
    BY <1>2, <1>3, <1>12 DEF Pushed
  <2> QED
    BY <1>4, <1>12, <2>1 DEF Pushed
<1>13. ASSUME GotStatus(t) PROVE ShapeInv'
  <2>1. Ready(q) /\ q.pk \in 1..lastPk /\ q.pc = "status"
    BY <1>2, <1>3, <1>13 DEF GotStatus
  <2> DEFINE live == q.heard = "true"
             Goes(p) == IF p.op = "show" THEN Finish(p, "ok") ELSE [p EXCEPT !.pc = "loaded"]
             p1 == [q EXCEPT !.obj.active = live]
  <2>2. Ready(p1) /\ p1.pk = q.pk /\ p1.pc = q.pc /\ p1.op = q.op /\ p1.seen = q.seen
    BY <2>1 DEF Ready, Able, Requests, Rec
  <2>3. ASSUME NEW p, Ready(p), p.op = q.op, p.op # "create", p.seen = q.seen, kind = "smpp"
        PROVE  Onward(p, Goes(p))
    <3>1. p.op # "show" => Onward(p, [p EXCEPT !.pc = "loaded"])
      BY <2>3 DEF Ready, Able, Requests, Onward, Formed, Planned, Placed, Held, Calls, Offered
    <3> QED
      BY <2>3, <3>1, FinishForms DEF Ready
  <2>4. kind = "smpp" /\ q.op # "create"
    BY <1>1, <2>1 DEF Formed, Placed
  <2>5. Onward(q, Goes(q)) /\ Onward(p1, Goes(p1))
    BY <2>1, <2>2, <2>3, <2>4
  <2>6. CASE Go(t, Goes(q)) /\ UNCHANGED <<db, alone, lastPk>> /\ Rest
    BY <1>6, <2>1, <2>5, <2>6
  <2>7. CASE Save(t, Goes(p1)) /\ UNCHANGED lastPk /\ Rest
    BY <1>7, <2>1, <2>2, <2>5, <2>7
  <2> QED
    BY <1>13, <2>6, <2>7 DEF GotStatus
<1>14. ASSUME NEW k \in Key, NEW v \in Val, NEW a \in BOOLEAN, Update(t, k, v, a)
       PROVE  ShapeInv'
  <2>1. Ready(q) /\ Able(q) /\ q.pk \in 1..lastPk /\ q.op = "update"
    BY <1>2, <1>3, <1>14 DEF Update, Loaded
  <2> DEFINE p == [q EXCEPT !.obj = Edited(q.obj, k, v, a)]
  <2>2. Ready(p) /\ p.pk = q.pk /\ p.op = q.op /\ p.obj = Edited(q.obj, k, v, a)
    BY <2>1 DEF Ready, Able, Edited, Requests, Rec
  <2>3. p.obj.key = k
    <3>1. Edited(q.obj, k, v, a).key = k
      BY <2>1 DEF Edited, Able, Rec
    <3> QED
      BY <2>2, <3>1
  <2>4. kind = "route" => Onward(p, Calling(p, "drop", RemoveCalls(k)))
    <3>1. RemoveCalls(k) \in Seq(Call)
      BY DEF RemoveCalls, Do, Persist, Call
    <3> HIDE DEF p
    <3> QED
      BY <1>1, <2>1, <2>2, <2>3, <3>1, CallingForms DEF Calls
  <2>5. Onward(p, Pushing(p, FALSE))
    BY <1>1, <2>1, <2>2, PushingForms
  <2>6. CASE Fits(p.pk, p.obj)
    <3>1. Save(t, IF kind = "route" THEN Calling(p, "drop", RemoveCalls(k))
                  ELSE Pushing(p, FALSE))
      BY <1>14, <2>2, <2>6 DEF Update
    <3> HIDE DEF p
    <3> QED
      BY <1>7, <1>14, <2>1, <2>2, <2>4, <2>5, <3>1 DEF Update
  <2>7. CASE ~Fits(p.pk, p.obj)
    BY <1>4, <1>14, <2>1, <2>2, <2>7 DEF Update
  <2> QED
    BY <2>6, <2>7
<1>15. ASSUME StartRemove(t) PROVE ShapeInv'
  <2>1. Ready(q) /\ Able(q) /\ q.pk \in 1..lastPk /\ q.op \in {"delete", "resync"}
    BY <1>2, <1>3, <1>15 DEF StartRemove, Loaded
  <2>2. RemoveCalls(q.obj.key) \in Seq(Call)
    BY <2>1 DEF RemoveCalls, Do, Persist, Call, Able, Rec
  <2>3. Onward(q, Calling(q, "drop", RemoveCalls(q.obj.key)))
    BY <1>1, <2>1, <2>2, CallingForms DEF Calls
  <2> QED
    BY <1>6, <1>15, <2>1, <2>3 DEF StartRemove
<1>16. ASSUME DropFails(t) \/ Deleted(t) \/ ResyncDropped(t) PROVE ShapeInv'
  <2>1. Ready(q) /\ Able(q) /\ q.pk \in 1..lastPk
    BY <1>2, <1>3, <1>16 DEF DropFails, Deleted, ResyncDropped, Dropped
  <2> QED
    BY <1>4, <1>5, <1>16, <2>1 DEF DropFails, Deleted, ResyncDropped
<1>17. ASSUME UpdateDropped(t) PROVE ShapeInv'
  <2>1. Ready(q) /\ Able(q) /\ q.pk \in 1..lastPk /\ q.op = "update"
    BY <1>2, <1>3, <1>17 DEF UpdateDropped, Dropped
  <2> DEFINE r == lastPk + 1
             o == [q.obj EXCEPT !.linked = FALSE]
             p == [q EXCEPT !.pk = r, !.obj = o]
  <2>2. r \in Row /\ lastPk' = r /\ r \in 0..MaxRows /\ lastPk <= r /\ r \in 1..r
    BY <1>1, <1>17 DEF UpdateDropped, Row
  <2>3. Ready(p) /\ p.pk = r /\ p.op = q.op /\ p.obj = o /\ o \in Rec
    BY <2>1, <2>2 DEF Ready, Able, Requests, Rec
  <2>4. db' = [db EXCEPT ![q.pk] = None, ![r] = o] /\ Go(t, Pushing(p, TRUE)) /\ Rest
        /\ alone' \subseteq Request
    BY <1>1, <1>17 DEF UpdateDropped, Disturb, TypeOK
  <2>5. Onward(p, Pushing(p, TRUE))
    BY <1>1, <2>1, <2>3, PushingForms
  <2>6. db' \in [Row -> Rec \cup {None}]
    BY <1>1, <2>2, <2>3, <2>4 DEF TypeOK
  <2>7. \A s \in Row : db'[s] # None => s <= lastPk'
    <3>1. \A s \in Row : db[s] # None => s <= lastPk
      BY DEF ShapeInv, Shape, Numbered, Present
    <3> QED
      BY <1>1, <2>2, <2>4, <3>1 DEF TypeOK, Row
  <2> HIDE DEF p, r
  <2> QED
    BY <1>1, <2>2, <2>3, <2>4, <2>5, <2>6, <2>7, GoShapes DEF Onward, Able, Rest, TypeOK
<1>18. ASSUME StartStop(t) PROVE ShapeInv'
  <2>1. Ready(q) /\ Able(q) /\ q.pk \in 1..lastPk /\ q.op \in {"start", "stop"}
    BY <1>2, <1>3, <1>18 DEF StartStop, Loaded
  <2> DEFINE p == [q EXCEPT !.obj.active = q.op = "start"]
  <2>2. Ready(p) /\ p.pk = q.pk /\ p.op = q.op
    BY <2>1 DEF Ready, Able, Requests, Rec
  <2>3. <<Do(p.op, p.obj.key)>> \in Seq(Call)
    BY <2>1, <2>2 DEF Do, Call, Ready, Able, Rec
  <2>4. Save(t, Calling(p, "push", <<Do(p.op, p.obj.key)>>)) /\ Rest /\ UNCHANGED lastPk
    BY <1>18 DEF StartStop
  <2> HIDE DEF p
  <2>5. Onward(p, Calling(p, "push", <<Do(p.op, p.obj.key)>>))
    BY <1>1, <2>1, <2>2, <2>3, CallingForms DEF Calls
  <2> QED
    BY <1>7, <2>1, <2>2, <2>4, <2>5
<1>19. ASSUME StartedStopped(t) PROVE ShapeInv'
  <2>1. Ready(q) /\ Able(q) /\ q.pk \in 1..lastPk /\ q.op \in {"start", "stop"}
    BY <1>2, <1>3, <1>19 DEF StartedStopped
  <2>2. <<Do("status", q.obj.key)>> \in Seq(Call)
    BY <2>1 DEF Do, Call, Able, Rec
  <2>3. Onward(q, Calling(q, "recheck", <<Do("status", q.obj.key)>>))
    BY <1>1, <2>1, <2>2, CallingForms DEF Calls
  <2> DEFINE p == [q EXCEPT !.obj.active = ~@]
  <2>4. Able(p) /\ p.pk = q.pk
    BY <2>1 DEF Able, Requests, Rec
  <2>5. CASE q.heard = "true"
    BY <1>6, <1>19, <2>1, <2>3, <2>5 DEF StartedStopped
  <2>6. CASE q.heard # "true"
    BY <1>5, <1>19, <2>1, <2>4, <2>6 DEF StartedStopped
  <2> QED
    BY <2>5, <2>6
<1>20. ASSUME Rechecked(t) PROVE ShapeInv'
  <2>1. Ready(q) /\ Able(q) /\ q.pk \in 1..lastPk
    BY <1>2, <1>3, <1>20 DEF Rechecked
  <2> DEFINE p == [q EXCEPT !.obj.active = q.heard = "true"]
  <2>2. Able(p) /\ p.pk = q.pk
    BY <2>1 DEF Able, Requests, Rec
  <2>3. CASE Go(t, Finish(q, "ok")) /\ UNCHANGED <<db, alone, lastPk>> /\ Rest
    BY <1>4, <2>1, <2>3
  <2>4. CASE Save(t, Finish(p, "ok")) /\ UNCHANGED lastPk /\ Rest
    BY <1>5, <2>1, <2>2, <2>4
  <2> QED
    BY <1>20, <2>3, <2>4 DEF Rechecked
<1>21. ASSUME FetchUsers(t) PROVE ShapeInv'
  <2>1. Ready(q) /\ Able(q) /\ q.pk \in 1..lastPk /\ q.op = "sync"
    BY <1>2, <1>3, <1>21 DEF FetchUsers, Loaded
  <2>2. <<Do("list", None)>> \in Seq(Call)
    BY DEF Do, Call
  <2>3. Onward(q, Calling(q, "fetch", <<Do("list", None)>>))
    BY <1>1, <2>1, <2>2, CallingForms DEF Calls
  <2> QED
    BY <1>6, <1>21, <2>1, <2>3 DEF FetchUsers
<1>22. ASSUME ApplyUser(t) PROVE ShapeInv'
  <2>1. Ready(q) /\ Able(q) /\ q.pk \in 1..lastPk
    BY <1>2, <1>3, <1>22 DEF ApplyUser, Loaded
  <2> DEFINE user == q.seen[q.obj.key]
             p == [q EXCEPT !.obj.val = user.val, !.obj.active = user.on]
  <2>2. user \in Object
    <3>1. q.seen[q.obj.key] # None
      BY <1>1, <1>22 DEF ApplyUser, Loaded, Formed, Held
    <3> QED
      BY <2>1, <3>1 DEF Able, Requests, Rec
  <2>3. Able(p) /\ p.pk = q.pk
    <3>1. user.val \in Val /\ user.on \in BOOLEAN
      BY <2>2 DEF Object
    <3> HIDE DEF user
    <3> QED
      BY <2>1, <3>1 DEF Able, Requests, Rec
  <2>4. Save(t, Finish(p, "ok")) /\ Rest /\ UNCHANGED lastPk
    BY <1>22 DEF ApplyUser
  <2> HIDE DEF p
  <2> QED
    BY <1>5, <2>1, <2>3, <2>4
<1>23. ASSUME Fetched(t) PROVE ShapeInv'
  <2> DEFINE p == IF q.op = "cron" THEN [q EXCEPT !.obj = db[q.pk]] ELSE q
             due == p.obj # None /\ configured[p.obj.ws]
  <2>1. q.pc = "fetch" /\ q.todo = <<>> /\ q.op \in {"sync", "cron"} /\ q.pk \in Row
        /\ q.late \in Seq(Proper) /\ Offered(q.op) /\ q.answer = "none"
    BY <1>1, <1>23 DEF Fetched, Formed, Placed, Held, Requests, Ops
  <2>2. /\ p \in Requests /\ p.op = q.op /\ p.pk = q.pk /\ p.late = q.late /\ p.todo = <<>>
        /\ p.answer = "none" /\ p.obj = IF q.op = "cron" THEN db[q.pk] ELSE q.obj
    BY <1>1, <2>1 DEF TypeOK, Requests
  <2>3. p.obj # None => Ready(p) /\ p.pk \in 1..lastPk
    <3>1. p.obj # None => p.pk \in 1..lastPk
      BY <1>1, <2>1, <2>2 DEF ShapeInv, Shape, Numbered, Present, Row
    <3> HIDE DEF p
    <3> QED
      BY <2>1, <2>2, <3>1 DEF Ready, Able, Requests, Ops
  <2>4. Go(t, IF due /\ p.heard # "error" /\ p.seen[p.obj.key] # None
              THEN [p EXCEPT !.pc = "loaded"] ELSE Finish(p, "refused"))
        /\ Rest /\ UNCHANGED <<db, lastPk, alone>>
    BY <1>23 DEF Fetched
  <2>5. p.obj = None => q.op = "cron"
    BY <1>2, <2>1, <2>2
  <2> HIDE DEF p
  <2>6. CASE p.obj # None /\ p.seen[p.obj.key] # None /\ Go(t, [p EXCEPT !.pc = "loaded"])
    <3>1. Onward(p, [p EXCEPT !.pc = "loaded"])
      BY <2>1, <2>2, <2>3, <2>6
         DEF Ready, Able, Requests, Onward, Formed, Planned, Placed, Held, Calls
    <3> QED
      BY <1>6, <2>3, <2>4, <2>6, <3>1
  <2>7. CASE Go(t, Finish(p, "refused")) /\ p.obj # None
    BY <1>4, <2>3, <2>4, <2>7
  <2>8. CASE Go(t, Finish(p, "refused")) /\ p.obj = None
    <3> DEFINE n == Finish(p, "refused")
    <3>1. Blank.seen \in [Key -> Object \cup {None}] /\ <<>> \in Seq(Call)
      BY DEF Blank
    <3>2. n \in Requests
      BY <2>2, <3>1 DEF Finish, Requests
    <3>3. n.pc = "done" /\ n.todo = <<>> /\ n.op = p.op /\ n.pk = p.pk /\ n.obj = None
          /\ n.late = p.late /\ n.answer = "refused"
      BY <2>2, <2>8 DEF Finish, Requests
    <3> HIDE DEF n
    <3>4. Formed(n)
      BY <2>1, <2>2, <2>5, <2>8, <3>3 DEF Formed, Planned, Placed, Held, Calls, Ops
    <3> QED
      BY <2>4, <2>8, <3>2, <3>3, <3>4, QuietShapes DEF n
  <2> QED
    BY <2>4, <2>6, <2>7, <2>8
<1> QED
  BY <1>11, <1>12, <1>13, <1>14, <1>15, <1>16, <1>17, <1>18, <1>19, <1>20, <1>21, <1>22,
     <1>23 DEF Handle

\* What Jasmin does keeps its objects objects.
LEMMA ApplyTypes ==
  ASSUME TypeOK, NEW c \in Proper, NEW says \in Answers(c), Apply(c, says)
  PROVE  jasmin' \in [Key -> Object \cup {None}] /\ stored' \in [Key -> Object \cup {None}]
<1> USE ConfigAssumption, NoneAssumption DEF TypeOK
<1>1. ASSUME says = "true", c.do \in {"start", "stop"}
      PROVE  jasmin' \in [Key -> Object \cup {None}]
  <2>1. c.key \in Key /\ jasmin[c.key] # None
    BY <1>1 DEF Answers, Proper, Call
  <2>2. jasmin[c.key] \in Object
    BY <2>1
  <2>3. [jasmin[c.key] EXCEPT !.on = c.do = "start"] \in Object
    BY <2>2 DEF Object
  <2> QED
    BY <1>1, <2>1, <2>3 DEF Apply
<1>2. c.do = "add" => c.key \in Key /\ c.put \in Object
  BY DEF Proper, Call
<1>3. ASSUME ~(says = "true" /\ c.do \in {"start", "stop"})
      PROVE  jasmin' \in [Key -> Object \cup {None}]
  BY <1>2, <1>3 DEF Apply, Proper, Call
<1>4. stored' \in [Key -> Object \cup {None}]
  BY DEF Apply
<1> QED
  BY <1>1, <1>3, <1>4

\* What is left of a PB call names what it works on.
LEMMA TodoProper ==
  ASSUME ShapeInv, NEW t \in Request
  PROVE  req[t].todo \in Seq(Proper)
<1> USE ConfigAssumption, NoneAssumption
<1> DEFINE q == req[t]
           k == q.obj.key
<1>1. q \in Requests /\ Formed(q)
  BY DEF ShapeInv, Shape, TypeOK
<1>2. Persist \in Proper /\ Do("list", None) \in Proper
  BY DEF Persist, Do, Proper, Call
<1>3. ASSUME q.obj # None
      PROVE  /\ Add(q.obj) \in Proper /\ Do("remove", k) \in Proper
             /\ Do("status", k) \in Proper
             /\ q.op \in {"start", "stop"} => Do(q.op, k) \in Proper
  <2>1. q.obj \in Rec /\ k \in Key /\ Built(q.obj) \in Object
    BY <1>1, <1>3, Records DEF Requests, Rec
  <2> QED
    BY <2>1 DEF Add, Do, Proper, Call
<1>4. q.pc \in {"status", "recheck", "push", "drop"} => q.obj # None
  BY <1>1 DEF Formed, Held
<1>5. /\ <<>> \in Seq(Proper) /\ <<Persist>> \in Seq(Proper)
      /\ <<Do("list", None)>> \in Seq(Proper)
  BY <1>2
<1>6. ASSUME q.obj # None
      PROVE  /\ <<Do("status", k)>> \in Seq(Proper)
             /\ <<Do("remove", k), Persist>> \in Seq(Proper)
             /\ <<Add(q.obj), Persist>> \in Seq(Proper)
             /\ <<Do("remove", k), Add(q.obj), Persist>> \in Seq(Proper)
             /\ q.op \in {"start", "stop"} => <<Do(q.op, k)>> \in Seq(Proper)
  BY <1>2, <1>3, <1>6
<1>7. q.pc \in Calls => q.todo \in Seq(Proper)
  <2>1. CASE q.pc \in {"status", "recheck"}
    BY <1>1, <1>4, <1>5, <1>6, <2>1 DEF Formed, Planned
  <2>2. CASE q.pc = "fetch"
    BY <1>1, <1>4, <1>5, <1>6, <2>2 DEF Formed, Planned
  <2>3. CASE q.pc = "drop"
    BY <1>1, <1>4, <1>5, <1>6, <2>3 DEF Formed, Planned
  <2>4. CASE q.pc = "push"
    BY <1>1, <1>4, <1>5, <1>6, <2>4 DEF Formed, Planned, Placed
  <2> QED
    BY <2>1, <2>2, <2>3, <2>4 DEF Calls
<1>8. q.pc \in {"idle", "loaded", "done"} => q.todo \in Seq(Proper)
  BY <1>1, <1>5 DEF Formed, Planned
<1> QED
  BY <1>1, <1>7, <1>8 DEF Requests, Calls

\* What is left of a call after its next remote method.
LEMMA PlanTail ==
  ASSUME ShapeInv, NEW t \in Request, req[t].todo # <<>>
  PROVE  LET q == req[t]
             k == q.obj.key
             rest == Tail(q.todo)
         IN /\ q.pc \in Calls
            /\ q.pc \in {"status", "recheck"} => rest = <<>> /\ Head(q.todo) = Do("status", k)
            /\ q.pc = "fetch" => rest = <<>> /\ Head(q.todo) = Do("list", None)
            /\ q.pc = "push" /\ q.op \in {"start", "stop"} =>
                 rest = <<>> /\ Head(q.todo) = Do(q.op, k)
            /\ q.pc = "drop" =>
                 \/ rest = <<>> /\ q.todo = <<Persist>> /\ Head(q.todo) = Persist
                 \/ rest = <<Persist>> /\ Head(q.todo) = Do("remove", k)
            /\ q.pc = "push" /\ q.op \in {"create", "update"} =>
                 \/ rest = <<>> /\ q.todo = <<Persist>> /\ Head(q.todo) = Persist
                 \/ rest = <<Persist>> /\ Head(q.todo) = Add(q.obj)
                 \/ rest = <<Add(q.obj), Persist>> /\ Head(q.todo) = Do("remove", k)
<1> DEFINE q == req[t]
           k == q.obj.key
<1>1. q \in Requests /\ Planned(q)
  BY DEF ShapeInv, Shape, TypeOK, Formed
<1>2. q.pc \in Calls
  BY <1>1 DEF Planned, Calls, Requests
<1>3. q.pc \in {"status", "recheck"} => q.todo = <<Do("status", k)>>
  BY <1>1 DEF Planned
<1>4. q.pc = "fetch" => q.todo = <<Do("list", None)>>
  BY <1>1 DEF Planned
<1>5. q.pc = "push" /\ q.op \in {"start", "stop"} => q.todo = <<Do(q.op, k)>>
  BY <1>1 DEF Planned
<1>6. q.pc = "drop" => q.todo \in {<<Persist>>, <<Do("remove", k), Persist>>}
  BY <1>1 DEF Planned
<1>7. q.pc = "push" /\ q.op \in {"create", "update"} =>
        q.todo \in {<<Persist>>, <<Add(q.obj), Persist>>,
                   <<Do("remove", k), Add(q.obj), Persist>>}
  BY <1>1 DEF Planned
<1> HIDE DEF q, k
<1>8. \A c : Tail(<<c>>) = <<>> /\ Head(<<c>>) = c
  OBVIOUS
<1>9. q.pc \in {"status", "recheck"} =>
        Tail(q.todo) = <<>> /\ Head(q.todo) = Do("status", k)
  BY <1>3, <1>8
<1>10. q.pc = "fetch" => Tail(q.todo) = <<>> /\ Head(q.todo) = Do("list", None)
  BY <1>4, <1>8
<1>11. q.pc = "push" /\ q.op \in {"start", "stop"} =>
         Tail(q.todo) = <<>> /\ Head(q.todo) = Do(q.op, k)
  BY <1>5, <1>8
<1>12. q.pc = "drop" =>
         \/ Tail(q.todo) = <<>> /\ q.todo = <<Persist>> /\ Head(q.todo) = Persist
         \/ Tail(q.todo) = <<Persist>> /\ Head(q.todo) = Do("remove", k)
  <2>1. CASE q.todo = <<Persist>>
    BY <2>1
  <2>2. CASE q.todo = <<Do("remove", k), Persist>>
    BY <2>2
  <2> QED
    BY <1>6, <2>1, <2>2
<1>13. q.pc = "push" /\ q.op \in {"create", "update"} =>
         \/ Tail(q.todo) = <<>> /\ q.todo = <<Persist>> /\ Head(q.todo) = Persist
         \/ Tail(q.todo) = <<Persist>> /\ Head(q.todo) = Add(q.obj)
         \/ Tail(q.todo) = <<Add(q.obj), Persist>> /\ Head(q.todo) = Do("remove", k)
  <2>1. CASE q.todo = <<Persist>>
    BY <2>1
  <2>2. CASE q.todo = <<Add(q.obj), Persist>>
    BY <2>2
  <2>3. CASE q.todo = <<Do("remove", k), Add(q.obj), Persist>>
    BY <2>3
  <2> QED
    BY <1>7, <2>1, <2>2, <2>3
<1> QED
  BY <1>2, <1>9, <1>10, <1>11, <1>12, <1>13 DEF q, k

LEMMA AnswerKinds ==
  ASSUME NEW c \in Proper, NEW says \in Answers(c) PROVE says \in {"true", "false"}
BY DEF Answers, Proper, Call

\* The steps of PB calls, of requests that wait for them and of those that do not.
LEMMA CallShapes ==
  ASSUME ShapeInv, NEW t \in Request,
         PbStep(t) \/ PbFail(t) \/ PbTimeout(t) \/ LateStep(t)
  PROVE  ShapeInv'
<1> USE ConfigAssumption, NoneAssumption
<1> DEFINE q == req[t]
<1>1. /\ q \in Requests /\ Formed(q) /\ TypeOK /\ lastPk \in 0..MaxRows
      /\ q.obj # None => q.pk \in 1..lastPk
  BY DEF ShapeInv, Shape, Numbered, TypeOK
<1>2. \A s \in Seq(Proper) : s # <<>> => Head(s) \in Proper /\ Tail(s) \in Seq(Proper)
  OBVIOUS
<1>3. q.todo \in Seq(Proper) /\ q.late \in Seq(Proper)
  BY <1>1, TodoProper DEF Formed
<1>4. Seq(Proper) \subseteq Seq(Call)
  BY DEF Proper
<1>5. /\ db \in [Row -> Rec \cup {None}] /\ jasmin \in [Key -> Object \cup {None}]
      /\ stored \in [Key -> Object \cup {None}] /\ alone \subseteq Request
      /\ \A r \in Row : db[r] # None => r <= lastPk
      /\ lastPk <= lastPk
  BY <1>1 DEF ShapeInv, TypeOK, Shape, Numbered, Present
<1>6. ASSUME NEW n \in Requests, Formed(n), n.pk = q.pk, n.obj = q.obj, Go(t, n),
             UNCHANGED <<kind, configured, db, lastPk>>, alone' \subseteq Request,
             jasmin' \in [Key -> Object \cup {None}], stored' \in [Key -> Object \cup {None}]
      PROVE  ShapeInv'
  <2>1. lastPk' \in 0..MaxRows /\ lastPk <= lastPk' /\ db' \in [Row -> Rec \cup {None}]
        /\ (\A r \in Row : db'[r] # None => r <= lastPk')
        /\ (n.obj # None => n.pk \in 1..lastPk')
    BY <1>1, <1>5, <1>6
  <2> QED
    BY <1>6, <2>1, GoShapes
<1>7. ASSUME PbStep(t) PROVE ShapeInv'
  <2> DEFINE c == Head(q.todo)
  <2>1. PICK says \in Answers(c), lost \in BOOLEAN :
          /\ Apply(c, says)
          /\ Go(t, [q EXCEPT
               !.todo  = Tail(@),
               !.heard = IF lost THEN "error" ELSE IF c.do = "persist" THEN @ ELSE says,
               !.seen  = IF c.do = "list" THEN jasmin ELSE @])
          /\ Disturb(t, {}, Changes(c))
    BY <1>7 DEF PbStep
  <2>2. q.todo # <<>> /\ UNCHANGED <<kind, configured, db, lastPk>>
    BY <1>7 DEF PbStep
  <2>3. c \in Proper /\ Tail(q.todo) \in Seq(Call) /\ says \in {"true", "false"}
    BY <1>2, <1>3, <1>4, <2>2, AnswerKinds
  <2> DEFINE n == [q EXCEPT
               !.todo  = Tail(@),
               !.heard = IF lost THEN "error" ELSE IF c.do = "persist" THEN @ ELSE says,
               !.seen  = IF c.do = "list" THEN jasmin ELSE @]
  <2>4. n \in Requests
    BY <1>1, <1>5, <2>3 DEF Requests
  <2>5. /\ n.op = q.op /\ n.pc = q.pc /\ n.pk = q.pk /\ n.obj = q.obj /\ n.late = q.late
        /\ n.answer = q.answer /\ n.todo = Tail(q.todo)
        /\ n.heard = "none" => q.heard = "none" /\ c.do = "persist"
    BY <1>1, <2>3 DEF Requests
  <2>6. Persist.do = "persist" /\ (\A x : Add(x).do = "add") /\ \A x, k : Do(x, k).do = x
    BY DEF Persist, Do, Add
  <2> HIDE DEF n
  <2>7. Planned(n)
    <3>1. CASE q.pc \in {"status", "recheck", "fetch"}
      BY <1>1, <2>2, <2>5, <2>6, <3>1, PlanTail DEF Planned, Calls
    <3>2. CASE q.pc = "drop"
      BY <1>1, <2>2, <2>5, <2>6, <3>2, PlanTail DEF Planned, Calls, Formed
    <3>3. CASE q.pc = "push" /\ q.op \in {"start", "stop"}
      BY <1>1, <2>2, <2>5, <2>6, <3>3, PlanTail DEF Planned, Calls
    <3>4. CASE q.pc = "push" /\ q.op \in {"create", "update"}
      BY <1>1, <2>2, <2>5, <2>6, <3>4, PlanTail DEF Planned, Calls, Formed
    <3> QED
      BY <1>1, <2>2, <3>1, <3>2, <3>3, <3>4, PlanTail DEF Calls, Formed, Placed
  <2>8. Formed(n)
    BY <1>1, <2>2, <2>5, <2>7, PlanTail DEF Formed, Placed, Held, Calls
  <2>9. jasmin' \in [Key -> Object \cup {None}] /\ stored' \in [Key -> Object \cup {None}]
    BY <1>1, <2>1, <2>3, ApplyTypes
  <2>10. alone' \subseteq Request /\ Go(t, n)
    BY <1>5, <2>1 DEF Disturb, n
  <2> QED
    BY <1>6, <2>2, <2>4, <2>5, <2>8, <2>9, <2>10
<1>8. ASSUME PbFail(t) \/ PbTimeout(t) PROVE ShapeInv'
  <2>1. q.todo # <<>> /\ q.pc \in Calls
    BY <1>8, PlanTail DEF PbFail, PbTimeout
  <2>2. ASSUME NEW l \in Seq(Proper),
               Go(t, [q EXCEPT !.todo = <<>>, !.heard = "error", !.late = l])
        PROVE  ShapeInv'
    <3> DEFINE n == [q EXCEPT !.todo = <<>>, !.heard = "error", !.late = l]
    <3>1. n \in Requests
      <4>1. <<>> \in Seq(Call) /\ l \in Seq(Call)
        BY <1>4
      <4> QED
        BY <1>1, <4>1 DEF Requests
    <3>2. /\ n.op = q.op /\ n.pc = q.pc /\ n.pk = q.pk /\ n.obj = q.obj /\ n.late = l
          /\ n.answer = q.answer /\ n.todo = <<>> /\ n.heard = "error"
      BY <1>1 DEF Requests
    <3>3. Go(t, n)
      BY <2>2
    <3> HIDE DEF n
    <3>4. Formed(n)
      BY <1>1, <2>1, <3>2 DEF Formed, Planned, Placed, Held, Calls
    <3> QED
      BY <1>5, <1>6, <1>8, <3>1, <3>2, <3>3, <3>4 DEF PbFail, PbTimeout
  <2>3. PbFail(t) => Go(t, [q EXCEPT !.todo = <<>>, !.heard = "error", !.late = q.late])
    BY <1>1 DEF PbFail, Requests
  <2> QED
    BY <1>3, <1>8, <2>2, <2>3 DEF PbTimeout
<1>9. ASSUME LateStep(t) PROVE ShapeInv'
  <2> DEFINE c == Head(q.late)
             n == [q EXCEPT !.late = Tail(@)]
  <2>1. c \in Proper /\ Tail(q.late) \in Seq(Proper)
    BY <1>2, <1>3, <1>9 DEF LateStep
  <2>2. n \in Requests
    BY <1>1, <1>4, <2>1 DEF Requests
  <2>3. /\ n.op = q.op /\ n.pc = q.pc /\ n.pk = q.pk /\ n.obj = q.obj /\ n.late = Tail(q.late)
        /\ n.answer = q.answer /\ n.todo = q.todo /\ n.heard = q.heard /\ n.seen = q.seen
    BY <1>1 DEF Requests
  <2>4. Go(t, n) /\ UNCHANGED <<kind, configured, db, lastPk>> /\ alone' \subseteq Request
    BY <1>5, <1>9 DEF LateStep, Disturb
  <2> HIDE DEF n
  <2>5. Formed(n)
    BY <1>1, <2>1, <2>3 DEF Formed, Planned, Placed, Held
  <2>6. jasmin' \in [Key -> Object \cup {None}] /\ stored' \in [Key -> Object \cup {None}]
    BY <1>1, <1>9, <2>1, ApplyTypes DEF LateStep
  <2> QED
    BY <1>6, <2>2, <2>3, <2>4, <2>5, <2>6
<1> QED
  BY <1>7, <1>8, <1>9

\* The steps that begin a request.
LEMMA BeginShapes ==
  ASSUME ShapeInv, NEW t \in Request,
         \/ \E w \in Workspace, k \in Key, v \in Val : Create(t, w, k, v)
         \/ \E r \in Row : CronFetches(t, r) \/ \E what \in Ops : Load(t, what, r)
  PROVE  ShapeInv'
<1> USE ConfigAssumption, NoneAssumption
<1>1. TypeOK /\ lastPk \in 0..MaxRows /\ lastPk <= lastPk
  BY DEF ShapeInv, TypeOK
\* A request begins blank.
<1>2. Blank \in Requests /\ Blank.late \in Seq(Proper)
  BY DEF Blank, Requests
<1>4. ASSUME NEW w \in Workspace, NEW k \in Key, NEW v \in Val, Create(t, w, k, v)
      PROVE  ShapeInv'
  <2> DEFINE r == lastPk + 1
             o == NewRow(w, k, v)
             p == [Blank EXCEPT !.op = "create", !.pk = r, !.obj = o]
             q == Pushing(p, TRUE)
  <2>1. /\ lastPk' = r /\ r \in Row /\ r \in 0..MaxRows /\ lastPk <= r /\ r \in 1..r
    <3>1. lastPk < MaxRows /\ lastPk' = lastPk + 1
      BY <1>4 DEF Create
    <3> QED
      BY <1>1, <3>1 DEF Row
  <2>2. Ready(p) /\ p.pk = r /\ p.op = "create"
    <3>1. "create" \in Ops /\ o \in Rec /\ r \in Row
          /\ p = [Blank EXCEPT !.op = "create", !.pk = r, !.obj = o]
      BY <2>1, Records DEF Ops
    <3> HIDE DEF o, r, p
    <3> QED
      BY <1>2, <3>1 DEF Blank, Requests, Ready, Able
  <2>4. Remove(t, q) \/ Save(t, q)
    BY <1>4 DEF Create
  <2>5. Rest
    BY <1>4 DEF Create
  <2> HIDE DEF p
  <2>3. Onward(p, q)
    BY <1>1, <2>2, PushingForms
  <2> HIDE DEF q, r
  <2> QED
    BY <2>1, <2>2, <2>3, <2>4, <2>5, SaveShapes, RemoveShapes DEF Onward
<1>5. ASSUME NEW r \in Row, NEW what \in Ops, Load(t, what, r) PROVE ShapeInv'
  <2> DEFINE q == [Blank EXCEPT !.op = what, !.pk = r, !.obj = db[r]]
  <2>1. Offered(what) /\ db[r] \in Rec /\ r \in 1..lastPk
    <3>1. Offered(what) /\ db[r] # None
      BY <1>5 DEF Load, Present
    <3>2. db[r] \in Rec
      BY <1>1, <3>1 DEF TypeOK
    <3>3. r <= lastPk /\ r \in 1..MaxRows
      BY <3>1 DEF ShapeInv, Shape, Numbered, Present, Row
    <3> QED
      BY <1>1, <3>1, <3>2, <3>3
  <2>2. Ready(q) /\ q.pk = r /\ q.op = what
    <3> DEFINE o == db[r]
    <3>1. o \in Rec /\ q = [Blank EXCEPT !.op = what, !.pk = r, !.obj = o]
      BY <2>1
    <3> HIDE DEF o, q
    <3> QED
      BY <1>2, <2>1, <3>1 DEF Blank, Requests, Ready, Able
  <2>3. what \notin {"create", "cron"} /\ q.seen = Blank.seen
    BY <1>5, <2>1 DEF Load, Blank, Offered
  <2>4. UNCHANGED <<db, lastPk, alone>> /\ Rest
    BY <1>5 DEF Load
  <2>5. CASE kind = "smpp"
    <3>1. <<Do("status", q.obj.key)>> \in Seq(Call)
      BY <2>2 DEF Do, Call, Ready, Able, Rec
    <3>2. Go(t, Calling(q, "status", <<Do("status", q.obj.key)>>))
      BY <1>5, <2>5 DEF Load
    <3> HIDE DEF q
    <3>3. Onward(q, Calling(q, "status", <<Do("status", q.obj.key)>>))
      BY <1>1, <2>2, <2>3, <2>5, <3>1, CallingForms DEF Calls
    <3> QED
      BY <2>1, <2>2, <2>4, <3>2, <3>3, QuietShapes DEF Onward, Able
  <2>6. CASE kind # "smpp"
    <3> DEFINE n == [q EXCEPT !.pc = "loaded"]
    <3>1. Go(t, n)
      BY <1>5, <2>6 DEF Load
    <3> HIDE DEF q
    <3>2. n \in Requests /\ Formed(n) /\ n.pk = q.pk
      BY <2>2, <2>3 DEF Ready, Able, Requests, Formed, Planned, Placed, Held, Calls
    <3> QED
      BY <2>1, <2>2, <2>4, <3>1, <3>2, QuietShapes
  <2> QED
    BY <2>5, <2>6
<1>6. ASSUME NEW r \in Row, CronFetches(t, r) PROVE ShapeInv'
  <2> DEFINE n == [Blank EXCEPT !.op = "cron", !.pk = r, !.pc = "fetch",
                                !.todo = <<Do("list", None)>>]
  <2>1. <<Do("list", None)>> \in Seq(Call)
    BY DEF Do, Call
  <2>2. /\ n \in Requests /\ n.op = "cron" /\ n.pc = "fetch" /\ n.pk = r /\ n.obj = None
        /\ n.todo = <<Do("list", None)>> /\ n.late \in Seq(Proper) /\ n.answer = "none"
    BY <1>2, <2>1 DEF Blank, Requests, Ops
  <2>3. Offered("cron") /\ Go(t, n) /\ UNCHANGED <<db, lastPk, alone>> /\ Rest
    BY <1>6 DEF CronFetches
  <2>4. Do("list", None) # Persist
    BY DEF Do, Persist
  <2> HIDE DEF n
  <2>5. n.todo \notin {<<>>, <<Persist>>}
    BY <2>2, <2>4
  <2>6. Formed(n)
    <3>1. Planned(n)
      BY <2>2, <2>5 DEF Planned
    <3>2. Placed(n) /\ Held(n)
      BY <2>2, <2>3 DEF Placed, Held, Ops
    <3> QED
      BY <2>2, <3>1, <3>2 DEF Formed
  <2> QED
    BY <2>2, <2>3, <2>6, QuietShapes
<1> QED
  BY <1>4, <1>5, <1>6

\* What Jasmin does by itself.
LEMMA JasminShapes ==
  ASSUME ShapeInv, JasminRestart \/ \E k \in Key : Spend(k)
  PROVE  ShapeInv'
<1> USE ConfigAssumption, NoneAssumption
<1>1. TypeOK /\ Numbered /\ \A t \in Request : Formed(req[t])
  BY DEF ShapeInv, Shape
<1>2. ASSUME JasminRestart PROVE ShapeInv'
  <2>1. \A t \in Request :
          /\ req'[t] \in Requests
          /\ req'[t].op = req[t].op /\ req'[t].pc = req[t].pc /\ req'[t].pk = req[t].pk
          /\ req'[t].obj = req[t].obj /\ req'[t].answer = req[t].answer
          /\ req'[t].seen = req[t].seen
          /\ req'[t].late = <<>> /\ req'[t].todo = <<>>
          /\ req'[t].heard = IF req[t].todo = <<>> THEN req[t].heard ELSE "error"
    <3> TAKE t \in Request
    <3>1. req'[t] = IF req[t].todo = <<>> THEN [req[t] EXCEPT !.late = <<>>]
                    ELSE [req[t] EXCEPT !.todo = <<>>, !.heard = "error", !.late = <<>>]
      BY <1>2 DEF JasminRestart
    <3>2. req[t] \in Requests /\ <<>> \in Seq(Call)
      BY <1>1 DEF TypeOK
    <3>3. CASE req[t].todo = <<>>
      <4>1. req'[t] = [req[t] EXCEPT !.late = <<>>]
        BY <3>1, <3>3
      <4> QED
        BY <3>2, <3>3, <4>1 DEF Requests
    <3>4. CASE req[t].todo # <<>>
      <4>1. req'[t] = [req[t] EXCEPT !.todo = <<>>, !.heard = "error", !.late = <<>>]
        BY <3>1, <3>4
      <4> QED
        BY <3>2, <3>4, <4>1 DEF Requests
    <3> QED
      BY <3>3, <3>4
  <2>2. /\ UNCHANGED <<kind, configured, db, lastPk, stored>> /\ jasmin' = stored
        /\ alone' \subseteq alone /\ req' = [t \in Request |-> req'[t]]
    BY <1>2 DEF JasminRestart, Disturb
  <2>3. TypeOK'
    BY <1>1, <2>1, <2>2 DEF TypeOK
  <2>4. Numbered'
    BY <1>1, <2>1, <2>2 DEF Numbered, Present
  <2>5. \A t \in Request : Formed(req'[t])
    <3> TAKE t \in Request
    <3> DEFINE q == req[t]
               n == req'[t]
    <3>1. Formed(q) /\ <<>> \in Seq(Proper)
      BY <1>1
    <3>2. /\ n.op = q.op /\ n.pc = q.pc /\ n.pk = q.pk /\ n.obj = q.obj /\ n.answer = q.answer
          /\ n.seen = q.seen /\ n.late = <<>> /\ n.todo = <<>>
          /\ n.heard = IF q.todo = <<>> THEN q.heard ELSE "error"
      BY <2>1
    <3> HIDE DEF q, n
    <3> QED
      BY <3>1, <3>2 DEF Formed, Planned, Placed, Held, n
  <2>6. (\A t \in Request : Formed(req[t]))'
    BY <2>2, <2>5 DEF Formed, Planned, Placed, Held, Offered, Add, Built
  <2> QED
    BY <2>3, <2>4, <2>6 DEF ShapeInv, Shape
<1>3. ASSUME NEW k \in Key, Spend(k) PROVE ShapeInv'
  <2>1. /\ UNCHANGED <<kind, configured, db, lastPk, stored, req>> /\ alone' \subseteq alone
    BY <1>3 DEF Spend, Disturb
  <2>2. PICK c \in Charges : jasmin' = [jasmin EXCEPT ![k].val = c[2]]
    BY <1>3 DEF Spend
  <2>3. [jasmin[k] EXCEPT !.val = c[2]] \in Object
    <3>1. jasmin[k] \in Object
      BY <1>1, <1>3 DEF Spend, TypeOK
    <3>2. c[2] \in Val
      OBVIOUS
    <3> QED
      BY <3>1, <3>2 DEF Object
  <2>4. TypeOK'
    BY <1>1, <2>1, <2>2, <2>3 DEF TypeOK
  <2>5. (\A t \in Request : Formed(req[t]))'
    BY <1>1, <2>1 DEF Formed, Planned, Placed, Held, Offered, Add, Built
  <2> QED
    BY <1>1, <2>1, <2>4, <2>5 DEF ShapeInv, Shape, Numbered, Present
<1> QED
  BY <1>2, <1>3

LEMMA ShapeStep == ShapeInv /\ [Next]_vars => ShapeInv'
<1> SUFFICES ASSUME ShapeInv, [Next]_vars PROVE ShapeInv'
  OBVIOUS
<1>1. CASE Next
  BY <1>1, BeginShapes, HandleShapes, CallShapes, JasminShapes DEF Next
<1>2. CASE UNCHANGED vars
  BY <1>2 DEF vars, ShapeInv, TypeOK, Shape, Numbered, Present, Formed, Planned, Placed,
              Held, Offered, Add, Built
<1> QED
  BY <1>1, <1>2

LEMMA ShapeInvariant == Spec => []ShapeInv
<1> QED
  BY ShapeInit, ShapeStep, PTL DEF Spec

(* Type correctness (TypeOK) of rows, objects and requests, whatever the    *)
(* kind.  Types alone are not inductive: that a request has an instance,    *)
(* and which remote methods it may have left, depend on its phase.          *)
THEOREM ConfigTypes == Spec => []TypeOK
<1>1. ShapeInv => TypeOK
  BY DEF ShapeInv
<1> QED
  BY <1>1, ShapeInvariant, PTL
====
