----------------------------- MODULE ConfigSync -----------------------------
(***************************************************************************)
(* The two copies of a configuration object: the Django row and the object *)
(* Jasmin holds for it, and the requests that keep them in step over       *)
(* Perspective Broker (PB).  Sources: utils/jasmin/extras.py, the saves    *)
(* and deletes of jasmin/models.py, jasmin/views/views.py, and the bridge  *)
(* jasmin/reactor.py, router_pb.py, smpp_pb.py.                            *)
(*                                                                         *)
(* An instance is about one kind of object.  Two workspaces share one      *)
(* Jasmin.  A request is one web thread (or one row of the user sync); the *)
(* statements it runs between two PB calls are one step, loading its       *)
(* object is a step of its own, and a PB call is one step for each remote  *)
(* method, run by the reactor thread and Jasmin while the request waits.   *)
(***************************************************************************)
EXTENDS Integers, Sequences, FiniteSets

CONSTANTS
  Kinds,          \* the kinds of object to look at
  Workspace,
  MaxRows,        \* bound: how many primary keys the database gives out
  Key,            \* gids, usernames, cids, or (nature, order) slots
  CidOf,          \* CidOf[r]: the cid make_cid() builds from a primary key
  Val,            \* what an object says: credentials, host, connectors, script
  Unconvertible,  \* values on which building the Jasmin object raises
  Charges,        \* <<v, w>>: a message sent turns the credit of a user from v to w
  Request,
  None

Row == 1..MaxRows

ASSUME ConfigAssumption ==
  /\ MaxRows \in Nat \ {0}
  /\ Kinds \subseteq {"group", "user", "smpp", "route", "interceptor"}
  /\ CidOf \in [Row -> Key]
  /\ \A r, s \in Row : CidOf[r] = CidOf[s] => r = s
  /\ Unconvertible \subseteq Val /\ Charges \subseteq Val \X Val
  /\ None \notin Row \cup Key \cup Val \cup Request

VARIABLES
  kind,        \* the kind this behaviour is about
  configured,  \* configured[w]: workspace w has a usable connection
  db,          \* db[r]: row r, or None
  lastPk,      \* the last primary key given out
  jasmin,      \* jasmin[k]: the live object under key k, or None
  stored,      \* stored[k]: what Jasmin has persisted and loads when it starts
  req,         \* req[t]: where request t is
  alone        \* history: requests whose row and object nobody else has changed

vars == <<kind, configured, db, lastPk, jasmin, stored, req, alone>>

-----------------------------------------------------------------------------
(* Rows, objects, requests.                                                *)

\* active: started, for connectors; enabled, for users.  linked: whether the
\* connectors of a route are set; they go with the row when it is deleted.
Rec == [ws : Workspace, key : Key, val : Val, active : BOOLEAN, linked : BOOLEAN]

\* on: running, for connectors; enabled, for users.  ws: who pushed it (history).
Object == [ws : Workspace, val : Val, on : BOOLEAN]

Call  == [do : {"add", "remove", "persist", "start", "stop", "status", "list"},
          key : Key \cup {None}, put : Object \cup {None}]
Ops   == {"create", "update", "delete", "start", "stop", "show", "sync", "cron",
          "resync"}
Blank == [op |-> None, pc |-> "idle", pk |-> None, obj |-> None, todo |-> <<>>,
          heard |-> "none", seen |-> [k \in Key |-> None], late |-> <<>>,
          answer |-> "none"]

ASSUME NoneAssumption == None \notin Rec \cup Object \cup Ops

Requests ==
  [op : Ops \cup {None},
   pc : {"idle", "status", "fetch", "loaded", "push", "drop", "recheck", "done"},
   pk : Row \cup {None},      \* the row its instance stands for
   obj : Rec \cup {None},     \* the instance in memory
   todo : Seq(Call),          \* remote methods still to run
   heard : {"none", "true", "false", "error"},   \* what the call gave so far
   seen : [Key -> Object \cup {None}],           \* what user_get_all returned
   late : Seq(Call),          \* methods still to run after the request gave up
   answer : {"none", "ok", "refused", "raised"}] \* done, form error, exception

TypeOK ==
  /\ kind \in Kinds
  /\ configured \in [Workspace -> BOOLEAN]
  /\ db \in [Row -> Rec \cup {None}]
  /\ lastPk \in 0..MaxRows
  /\ jasmin \in [Key -> Object \cup {None}]
  /\ stored \in [Key -> Object \cup {None}]
  /\ req \in [Request -> Requests]
  /\ alone \subseteq Request

Present(r) == db[r] # None

\* Unique columns: gid, username; a cid is made from the primary key; a slot is
\* unique within its workspace only.
Clash_PerWorkspace(o, p) == o.key = p.key /\ o.ws = p.ws
Clash(o, p) == o.key = p.key /\ (kind \in {"route", "interceptor"} => o.ws = p.ws)
Fits(r, o)  == \A s \in Row \ {r} : Present(s) => ~Clash(db[s], o)

\* What building the object for Jasmin makes of a row (to_smpp_client_config,
\* to_jasmin_route and the rest); a new connector is stopped, and a user pushed
\* is always enabled: the User that add_user builds is not given the flag.
Built(o) == [ws |-> o.ws, val |-> o.val, on |-> kind = "user"]

\* A connector begins stopped; a user is created with "enabled" ticked, as the form
\* proposes.
NewRow(w, k, v) ==
  [ws |-> w, key |-> k, val |-> v, active |-> kind = "user", linked |-> TRUE]

Init ==
  /\ kind \in Kinds
  /\ configured \in [Workspace -> BOOLEAN]
  /\ \E w \in Workspace : configured[w]     \* else nothing reaches Jasmin
  /\ \/ db = [r \in Row |-> None] /\ lastPk = 0 /\ jasmin = [k \in Key |-> None]
     \/ \E w \in Workspace, v \in Val \ Unconvertible :
          /\ lastPk = 1
          /\ db = [r \in Row |-> IF r = 1 THEN NewRow(w, CidOf[1], v) ELSE None]
          /\ jasmin = [k \in Key |-> IF k = CidOf[1] THEN Built(NewRow(w, k, v)) ELSE None]
  /\ stored = jasmin
  /\ req = [t \in Request |-> Blank]
  /\ alone = Request

\* Whoever changes a row or an object disturbs the other requests about it.
Disturb(t, rows, keys) ==
  alone' = {u \in alone : \/ u = t
                          \/ req[u].pc = "idle"
                          \/ /\ req[u].pk \notin rows
                             /\ \/ keys = {}
                                \/ req[u].obj # None /\ req[u].obj.key \notin keys}

Go(t, r) == req' = [req EXCEPT ![t] = r]

-----------------------------------------------------------------------------
(* run_in_reactor and the PB wrappers.                                     *)

Add(o)      == [do |-> "add", key |-> o.key, put |-> Built(o)]
Do(what, k) == [do |-> what, key |-> k, put |-> None]
Persist     == Do("persist", None)

\* add_group, add_user, add_route, add_interceptor, add_connector; there is no
\* update in place of a connector: remove, then add.
PushCalls_NoPersist(isNew, o) ==
  IF kind = "smpp" /\ ~isNew THEN <<Do("remove", o.key), Add(o)>>
  ELSE <<Add(o), Persist>>
PushCalls_AddFirst(isNew, o) ==
  IF kind = "smpp" /\ ~isNew THEN <<Add(o), Do("remove", o.key), Persist>>
  ELSE <<Add(o), Persist>>
PushCalls(isNew, o) ==
  IF kind = "smpp" /\ ~isNew THEN <<Do("remove", o.key), Add(o), Persist>>
  ELSE <<Add(o), Persist>>

RemoveCalls(k) == <<Do("remove", k), Persist>>

\* What Jasmin (external) answers: it may refuse any object, refuses a connector
\* it has, and start, stop or remove what is not there to be.
Answers(c) ==
  LET there == c.do \in {"remove", "start", "stop", "status"} /\ jasmin[c.key] # None
      on    == there /\ jasmin[c.key].on
  IN CASE c.do = "add"    -> IF kind = "smpp" /\ jasmin[c.key] # None
                             THEN {"false"} ELSE {"true", "false"}
       [] c.do = "remove" -> IF there THEN {"true"} ELSE {"false"}
       [] c.do = "start"  -> IF there /\ ~on THEN {"true"} ELSE {"false"}
       [] c.do = "stop"   -> IF on THEN {"true"} ELSE {"false"}
       [] c.do = "status" -> IF on THEN {"true"} ELSE {"false"}
       [] OTHER           -> {"true"}

\* ... and does.
Apply(c, says) ==
  /\ jasmin' =
       CASE says = "true" /\ c.do = "add"    -> [jasmin EXCEPT ![c.key] = c.put]
         [] says = "true" /\ c.do = "remove" -> [jasmin EXCEPT ![c.key] = None]
         [] says = "true" /\ c.do \in {"start", "stop"} ->
              [jasmin EXCEPT ![c.key].on = c.do = "start"]
         [] OTHER -> jasmin
  /\ stored' = IF c.do = "persist" THEN jasmin ELSE stored

Changes(c) == IF c.do \in {"add", "remove", "start", "stop"} THEN {c.key} ELSE {}

\* The next remote method runs.  If the connection is lost while the last answer is
\* on the way, the Deferred fails (before the last, that is PbFail).
PbStep(t) ==
  /\ req[t].todo # <<>>
  /\ LET c == Head(req[t].todo) IN
     \E says \in Answers(c), lost \in BOOLEAN :
       /\ lost => Len(req[t].todo) = 1
       /\ Apply(c, says)
       /\ Go(t, [req[t] EXCEPT
            !.todo  = Tail(@),
            !.heard = IF lost THEN "error" ELSE IF c.do = "persist" THEN @ ELSE says,
            !.seen  = IF c.do = "list" THEN jasmin ELSE @])
       /\ Disturb(t, {}, Changes(c))
  /\ UNCHANGED <<kind, configured, db, lastPk>>

\* No connection, a bad login, Jasmin raises, or a read times out: no more is run.
PbFail(t) ==
  /\ req[t].todo # <<>>
  /\ Go(t, [req[t] EXCEPT !.todo = <<>>, !.heard = "error"])
  /\ UNCHANGED <<kind, configured, db, lastPk, jasmin, stored, alone>>

\* result_queue.get times out: the request goes on, and so does the reactor, which
\* matters where the call changes something.
PbTimeout(t) ==
  /\ req[t].todo # <<>>
  /\ Changes(Head(req[t].todo)) # {} \/ Head(req[t].todo) = Persist
  /\ Go(t, [req[t] EXCEPT !.todo = <<>>, !.heard = "error", !.late = req[t].todo])
  /\ UNCHANGED <<kind, configured, db, lastPk, jasmin, stored, alone>>

LateStep(t) ==
  /\ req[t].late # <<>>
  /\ LET c == Head(req[t].late) IN
       /\ \E says \in Answers(c) : Apply(c, says)
       /\ Disturb(None, {}, Changes(c))
  /\ Go(t, [req[t] EXCEPT !.late = Tail(@)])
  /\ UNCHANGED <<kind, configured, db, lastPk>>

\* Jasmin (external) restarts: it loads what it persisted, connections are lost.
JasminRestart ==
  /\ jasmin' = stored
  /\ req' = [t \in Request |->
       IF req[t].todo = <<>> THEN [req[t] EXCEPT !.late = <<>>]
       ELSE [req[t] EXCEPT !.todo = <<>>, !.heard = "error", !.late = <<>>]]
  /\ Disturb(None, {}, {k \in Key : jasmin[k] # stored[k]})
  /\ UNCHANGED <<kind, configured, db, lastPk, stored>>

\* Jasmin (external) takes the price of a message off a user's balance.
Spend(k) ==
  /\ kind = "user" /\ jasmin[k] # None
  /\ \E c \in Charges : c[1] = jasmin[k].val /\ jasmin' = [jasmin EXCEPT ![k].val = c[2]]
  /\ Disturb(None, {}, {k})
  /\ UNCHANGED <<kind, configured, db, lastPk, stored, req>>

-----------------------------------------------------------------------------
(* What every handler is made of.                                          *)

Finish(q, how) ==
  [q EXCEPT !.pc = "done", !.answer = how, !.todo = <<>>, !.seen = Blank.seen]

\* _execute_reactor_operation: no connection is a ValidationError, except for a
\* read, which is logged and gives nothing.
Calling(q, pc, calls) ==
  IF configured[q.obj.ws]
  THEN [q EXCEPT !.pc = pc, !.todo = calls, !.heard = "none"]
  ELSE IF pc \in {"status", "recheck"}
  THEN [q EXCEPT !.pc = pc, !.heard = "error"]
  ELSE Finish(q, "refused")

\* An enum value outside its table, the float() of a rate left blank, a filter whose
\* key does not fit its type: KeyError or TypeError, for which nobody rolls back.
Raises(o) == kind \in {"smpp", "route", "interceptor"} /\ o.val \in Unconvertible

\* The push at the end of save().  A route without connectors has no filters either.
Pushing(q, isNew) ==
  IF kind = "route" /\ ~q.obj.linked THEN Finish(q, "refused")
  ELSE IF Raises(q.obj) THEN Finish(q, "raised")
  ELSE Calling(q, "push", PushCalls(isNew, q.obj))

\* Django's save() of an instance that has a primary key writes every column, and
\* inserts the row again if somebody deleted it; a clash is an IntegrityError.
Save(t, q) ==
  IF Fits(q.pk, q.obj)
  THEN /\ db' = [db EXCEPT ![q.pk] = q.obj]
       /\ Go(t, q)
       /\ Disturb(t, {q.pk}, {})
  ELSE Go(t, Finish(q, "raised")) /\ UNCHANGED <<db, alone>>

Remove(t, q) ==
  /\ db' = [db EXCEPT ![q.pk] = None]
  /\ Go(t, q)
  /\ Disturb(t, {q.pk}, {})

Rest == UNCHANGED <<kind, configured, jasmin, stored>>

-----------------------------------------------------------------------------
(* Creating.                                                               *)

\* JasminGroup.create, ModalFormMixin.form_valid, and form_valid of the route and
\* interceptor views, which save first, set the connectors and filters, and save
\* again to push.  Their form refuses a key that is taken.
Create(t, w, k, v) ==
  /\ req[t].pc = "idle"
  /\ lastPk < MaxRows
  /\ LET r == lastPk + 1
         o == NewRow(w, k, v)
         q == Pushing([Blank EXCEPT !.op = "create", !.pk = r, !.obj = o], TRUE)
     IN /\ kind = "smpp" => k = CidOf[r]
        /\ Fits(r, o)
        /\ lastPk' = r
        /\ IF q.answer = "refused" /\ kind \in {"route", "interceptor"}
           THEN Remove(t, q) ELSE Save(t, q)
  /\ Rest

\* The answer to the push of a new object.  The mutant keeps the row.
PushedNew_KeepsRow(t) ==
  /\ req[t].pc = "push" /\ req[t].op = "create" /\ req[t].todo = <<>>
  /\ IF req[t].heard = "true"
     THEN Go(t, Finish(req[t], "ok")) /\ UNCHANGED <<db, alone>>
     ELSE IF req[t].heard = "error" THEN Remove(t, Finish(req[t], "refused"))
     ELSE Go(t, Finish(req[t], "refused")) /\ UNCHANGED <<db, alone>>
  /\ Rest /\ UNCHANGED lastPk
PushedNew(t) ==
  /\ req[t].pc = "push" /\ req[t].op = "create" /\ req[t].todo = <<>>
  /\ IF req[t].heard = "true"
     THEN Go(t, Finish(req[t], "ok")) /\ UNCHANGED <<db, alone>>
     ELSE Remove(t, Finish(req[t], "refused"))
  /\ Rest /\ UNCHANGED lastPk

-----------------------------------------------------------------------------
(* Loading an object.                                                      *)

Offered(what) ==
  CASE what = "update"                  -> kind # "interceptor"
    [] what \in {"start", "stop", "show"} -> kind = "smpp"
    [] what \in {"sync", "cron"}        -> kind = "user"
    [] what = "resync"                  -> kind = "route"
    [] OTHER                            -> what = "delete"

\* get_object(), or the row's turn in a list page.  Loading a connector asks
\* Jasmin for its status before anything else.
Load(t, what, r) ==
  /\ req[t].pc = "idle"
  /\ Offered(what) /\ what # "cron" /\ Present(r)
  /\ LET q == [Blank EXCEPT !.op = what, !.pk = r, !.obj = db[r]] IN
       IF kind = "smpp" THEN Go(t, Calling(q, "status", <<Do("status", q.obj.key)>>))
       ELSE Go(t, [q EXCEPT !.pc = "loaded"])
  /\ Rest /\ UNCHANGED <<db, lastPk, alone>>

\* handle_connector_status; a status that could not be read changes nothing.
GotStatus(t) ==
  /\ req[t].pc = "status" /\ req[t].todo = <<>>
  /\ LET live == req[t].heard = "true"
         q    == [req[t] EXCEPT !.obj.active = live]
         On(p) == IF p.op = "show" THEN Finish(p, "ok") ELSE [p EXCEPT !.pc = "loaded"]
     IN IF req[t].heard = "error" \/ req[t].obj.active = live
        THEN Go(t, On(req[t])) /\ UNCHANGED <<db, alone>>
        ELSE Save(t, On(q))
  /\ Rest /\ UNCHANGED lastPk

-----------------------------------------------------------------------------
(* Updating, deleting, starting and stopping.                              *)

Loaded(t, what) == req[t].pc = "loaded" /\ req[t].op = what

\* What a form may change in an instance: a username or a slot, but no gid or cid;
\* the flag, of users and connectors; not the value of a group, which has none.
\* The mutant resets what the form does not show.
Edited_Resets(o, k, v, a) ==
  [o EXCEPT !.key = k, !.val = IF kind = "group" THEN None ELSE v, !.active = a]
Edited(o, k, v, a) == [o EXCEPT !.key = k, !.val = v, !.active = a, !.linked = TRUE]
Editable(o, k, v, a) ==
  /\ kind \in {"group", "smpp"} => k = o.key
  /\ kind = "group" => v = o.val
  /\ kind \in {"group", "route"} => ~a

\* form_valid of an update, unless the key is taken: the row is saved, then pushed,
\* with no way back; for a route the slot it has now, which is the new one, is
\* emptied first: the form has changed the instance before the view looks for the
\* old slot.  Nobody takes away what is live under a key the row had before.
Update(t, k, v, a) ==
  /\ Loaded(t, "update")
  /\ Editable(req[t].obj, k, v, a)
  /\ LET o == Edited(req[t].obj, k, v, a)
         q == [req[t] EXCEPT !.obj = o]
     IN IF Fits(q.pk, o)
        THEN Save(t, IF kind = "route" THEN Calling(q, "drop", RemoveCalls(k))
                     ELSE Pushing(q, FALSE))
        ELSE Go(t, Finish(req[t], "refused")) /\ UNCHANGED <<db, alone>>
  /\ Rest /\ UNCHANGED lastPk

Pushed(t) ==
  /\ req[t].pc = "push" /\ req[t].op = "update" /\ req[t].todo = <<>>
  /\ Go(t, Finish(req[t], IF req[t].heard = "true" THEN "ok" ELSE "refused"))
  /\ Rest /\ UNCHANGED <<db, lastPk, alone>>

StartRemove(t) ==
  /\ Loaded(t, "delete") \/ Loaded(t, "resync")
  /\ Go(t, Calling(req[t], "drop", RemoveCalls(req[t].obj.key)))
  /\ Rest /\ UNCHANGED <<db, lastPk, alone>>

\* handle_remove_result: removed or not found, the row goes; an error keeps it.
\* The mutant takes an error for an answer.
Dropped_OnError(t) == req[t].pc = "drop" /\ req[t].todo = <<>>
Dropped(t) == req[t].pc = "drop" /\ req[t].todo = <<>> /\ req[t].heard # "error"

DropFails(t) ==
  /\ req[t].pc = "drop" /\ req[t].todo = <<>> /\ req[t].heard = "error"
  /\ Go(t, Finish(req[t], "refused"))
  /\ Rest /\ UNCHANGED <<db, lastPk, alone>>

Deleted(t) ==
  /\ Dropped(t) /\ req[t].op = "delete"
  /\ Remove(t, Finish(req[t], "ok"))
  /\ Rest /\ UNCHANGED lastPk

\* resync_mo_routes goes on with an instance whose row and key are gone: reading
\* its filters raises ValueError.
ResyncDropped(t) ==
  /\ Dropped(t) /\ req[t].op = "resync"
  /\ Remove(t, Finish(req[t], "raised"))
  /\ Rest /\ UNCHANGED lastPk

\* The update of a route goes on with an instance without a key: save() inserts a
\* new row, which has no connectors, and to_jasmin_route refuses it.
UpdateDropped(t) ==
  /\ Dropped(t) /\ req[t].op = "update"
  /\ lastPk < MaxRows
  /\ LET r == lastPk + 1
         o == [req[t].obj EXCEPT !.linked = FALSE]
         q == [req[t] EXCEPT !.pk = r, !.obj = o]
     IN /\ lastPk' = r
        /\ db' = [db EXCEPT ![req[t].pk] = None, ![r] = o]
        /\ Go(t, Pushing(q, TRUE))
        /\ Disturb(t, {req[t].pk}, {})
  /\ Rest

\* start() and stop(): the flag first, then the call, then the status.
StartStop(t) ==
  /\ Loaded(t, "start") \/ Loaded(t, "stop")
  /\ LET q == [req[t] EXCEPT !.obj.active = req[t].op = "start"] IN
       Save(t, Calling(q, "push", <<Do(q.op, q.obj.key)>>))
  /\ Rest /\ UNCHANGED lastPk

\* A failure negates the flag and saves; a success asks for the status.
StartedStopped(t) ==
  /\ req[t].pc = "push" /\ req[t].op \in {"start", "stop"} /\ req[t].todo = <<>>
  /\ IF req[t].heard = "true"
     THEN /\ Go(t, Calling(req[t], "recheck", <<Do("status", req[t].obj.key)>>))
          /\ UNCHANGED <<db, alone>>
     ELSE Save(t, Finish([req[t] EXCEPT !.obj.active = ~@], "refused"))
  /\ Rest /\ UNCHANGED lastPk

Rechecked(t) ==
  /\ req[t].pc = "recheck" /\ req[t].todo = <<>>
  /\ LET q == [req[t] EXCEPT !.obj.active = req[t].heard = "true"] IN
       IF req[t].heard = "error" \/ q.obj = req[t].obj
       THEN Go(t, Finish(req[t], "ok")) /\ UNCHANGED <<db, alone>>
       ELSE Save(t, Finish(q, "ok"))
  /\ Rest /\ UNCHANGED lastPk

-----------------------------------------------------------------------------
(* Users copied back from Jasmin.                                          *)

\* sync_from_jasmin: the view has the row, and fetches; sync_jasmin_users fetches
\* for a workspace and then goes through its rows.
FetchUsers(t) ==
  /\ Loaded(t, "sync") /\ req[t].seen = Blank.seen
  /\ Go(t, Calling(req[t], "fetch", <<Do("list", None)>>))
  /\ Rest /\ UNCHANGED <<db, lastPk, alone>>

CronFetches(t, r) ==
  /\ req[t].pc = "idle" /\ Offered("cron")
  /\ Go(t, [Blank EXCEPT !.op = "cron", !.pk = r, !.pc = "fetch",
                         !.todo = <<Do("list", None)>>])
  /\ Rest /\ UNCHANGED <<db, lastPk, alone>>

Fetched(t) ==
  /\ req[t].pc = "fetch" /\ req[t].todo = <<>>
  /\ LET q == IF req[t].op = "cron" THEN [req[t] EXCEPT !.obj = db[req[t].pk]]
              ELSE req[t]
         due == q.obj # None /\ configured[q.obj.ws]
     IN Go(t, IF due /\ q.heard # "error" /\ q.seen[q.obj.key] # None
              THEN [q EXCEPT !.pc = "loaded"] ELSE Finish(q, "refused"))
  /\ Rest /\ UNCHANGED <<db, lastPk, alone>>

\* apply_jasmin_user: credentials and flag, and a save that does not push.
ApplyUser(t) ==
  /\ Loaded(t, "sync") \/ Loaded(t, "cron")
  /\ req[t].seen # Blank.seen
  /\ LET user == req[t].seen[req[t].obj.key] IN
       Save(t, Finish([req[t] EXCEPT !.obj.val = user.val, !.obj.active = user.on], "ok"))
  /\ Rest /\ UNCHANGED lastPk

-----------------------------------------------------------------------------

Handle(t) ==
  \/ PushedNew(t) \/ Pushed(t) \/ GotStatus(t)
  \/ \E k \in Key, v \in Val, a \in BOOLEAN : Update(t, k, v, a)
  \/ StartRemove(t) \/ DropFails(t) \/ Deleted(t) \/ ResyncDropped(t)
  \/ UpdateDropped(t) \/ StartStop(t) \/ StartedStopped(t) \/ Rechecked(t)
  \/ FetchUsers(t) \/ Fetched(t) \/ ApplyUser(t)

Next ==
  \/ \E t \in Request :
       \/ \E w \in Workspace, k \in Key, v \in Val : Create(t, w, k, v)
       \/ \E r \in Row : CronFetches(t, r) \/ \E what \in Ops : Load(t, what, r)
       \/ Handle(t)
       \/ PbStep(t) \/ PbFail(t) \/ PbTimeout(t) \/ LateStep(t)
  \/ JasminRestart
  \/ \E k \in Key : Spend(k)

Spec == Init /\ [][Next]_vars

-----------------------------------------------------------------------------
(* Properties.                                                             *)

Done(t, how) == req[t].pc = "done" /\ req[t].answer = how

InStep(r) ==
  LET o == db[r] IN
    Present(r) /\ jasmin[o.key] = Built(o) /\ stored[o.key] = Built(o)

\* The half of "success/failure reported to the UI is truthful" (docstring of
\* BaseJasminModel) that is about success: once a request that nobody interfered
\* with is reported as done, the row, the live object under its key and what Jasmin
\* will load after a restart are what it said.  It stays so when Jasmin restarts.
\* The flag is exempt on purpose: an update stops a connector and a push enables a
\* user whatever the row says, which is what Built says.  A page that only shows, or
\* copies from Jasmin, promises nothing if Jasmin could not be asked.
SuccessTruthful ==
  \A t \in alone : Done(t, "ok") =>
    LET r == req[t].pk
        k == req[t].obj.key
    IN CASE req[t].op \in {"create", "update"} -> InStep(r) /\ db[r] = req[t].obj
         [] req[t].op = "delete" ->
              ~Present(r) /\ jasmin[k] = None /\ stored[k] = None
         [] req[t].op \in {"start", "stop"} ->
              /\ Present(r) /\ jasmin[k] # None
              /\ db[r].active = jasmin[k].on /\ jasmin[k].on = (req[t].op = "start")
         [] OTHER -> req[t].heard # "error" /\ Present(r) /\ jasmin[k] # None =>
                       /\ db[r].active = jasmin[k].on
                       /\ kind = "user" => db[r].val = jasmin[k].val

\* The half that is about failure, for creations: what was refused is not on Jasmin.
FailureTruthful ==
  \A t \in alone :
    req[t].op = "create" /\ Done(t, "refused") =>
      jasmin[req[t].obj.key] # Built(req[t].obj)

\* A create that was refused leaves no row behind, unless the workspace had no
\* connection (a group, a user or a connector then stays, never pushed).
RefusedCreateLeavesNoRow ==
  \A t \in alone :
    req[t].op = "create" /\ Done(t, "refused") =>
      \/ ~Present(req[t].pk)
      \/ ~configured[req[t].obj.ws] /\ kind \in {"group", "user", "smpp"}

\* A request that nobody interferes with parts a row from a live object under its
\* key, by deleting the row or by changing the key, in two cases only: its own
\* creation failed, or it is an update that gives a user or a route another key (the
\* row is still there, and the object stays under the old key: PreviousSlotDropped).
\* Else the object goes first: a deletion whose call failed keeps the row.
ObjectGoesFirst ==
  [][\A t \in alone, r \in Row :
       ( /\ Present(r) /\ jasmin[db[r].key] # None
         /\ req'[t] # req[t] /\ req[t].op # "create" )
         => /\ db'[r] # None
            /\ \/ db'[r].key = db[r].key
               \/ kind \notin {"group", "smpp"} /\ Loaded(t, "update")]_vars

\* "Drop the previous Jasmin slot (same or prior order/nature)": when the removal
\* half of a route's update is over, Jasmin holds no route of that workspace in a
\* slot that none of its other rows has.
PreviousSlotDropped ==
  [][\A t \in alone, k \in Key :
       (UpdateDropped(t) /\ jasmin[k] # None /\ jasmin[k].ws = req[t].obj.ws)
         => \E r \in Row \ {req[t].pk} :
              Present(r) /\ db[r].key = k /\ db[r].ws = jasmin[k].ws]_vars

\* Where keys are unique, a PB call that its request waits for, and that nobody
\* interferes with, changes no object of another workspace that has a row for it.
\* It does not hold of a call applied after its request gave up, or of a request
\* whose row was deleted meanwhile: the key may have changed hands; nor of routes and
\* interceptors, whose slots are shared by the workspaces of one Jasmin.
WorkspacesIsolated ==
  [][\A t \in alone, k \in Key :
       ( /\ kind \in {"group", "user", "smpp"} /\ jasmin[k] # None
         /\ jasmin'[k] # jasmin[k] /\ PbStep(t) )
         => \/ jasmin[k].ws = req[t].obj.ws
            \/ \A r \in Row : Present(r) /\ db[r].key = k => db[r].ws # jasmin[k].ws]_vars

\* "Drop the previous Jasmin slot (same or prior order/nature), then push the new
\* config", "Re-push every MO route that uses this connector": a route that was
\* changed, and whose calls Jasmin all answered, is on Jasmin afterwards.
ChangedRouteIsPushed ==
  \A t \in alone :
    (/\ req[t].pc = "done" /\ req[t].op \in {"update", "resync"}
     /\ req[t].heard \in {"true", "false"} /\ ~Raises(req[t].obj))
      => jasmin[req[t].obj.key] # None

-----------------------------------------------------------------------------
(* What a row promises: see Mirror.                                        *)

\* The rows that were reported in step and that nobody touched since.
Trusted ==
  {r \in Row : \E t \in alone :
     /\ req[t].pk = r /\ req[t].op \in {"create", "update"} /\ Done(t, "ok")}

On(objects) ==
  [r \in Row |-> IF Present(r) /\ objects[db[r].key] # None
                 THEN objects[db[r].key].val ELSE None]

Abstract == INSTANCE Mirror WITH
  copy <- [r \in Row |-> IF Present(r) THEN db[r].val ELSE None],
  live <- On(jasmin),
  kept <- On(stored),
  trusted <- Trusted

ImplementsMirror == Abstract!Spec
====
