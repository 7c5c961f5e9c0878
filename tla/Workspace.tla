------------------------------ MODULE Workspace ------------------------------
(***************************************************************************)
(* Workspaces: signing up, choosing a Jasmin, the token of the messaging   *)
(* API, the gate in front of the console, and the schedule on which users  *)
(* are copied back from Jasmin.  Sources: workspace/models.py,             *)
(* workspace/views, middleware.py, jasmin/connection.py, utils/crypto.py,  *)
(* messaging/authentication.py, crons/jasmin_user_sync.py.                 *)
(*                                                                         *)
(* A request is one web thread.  WorkspaceMiddleware loads the row of its  *)
(* workspace when it begins; the handler works on that instance and saves  *)
(* it, all its columns or some, in a later step.  A save runs as one step: *)
(* a clash between generate_prefix and the INSERT fails either way.        *)
(***************************************************************************)
EXTENDS Naturals, FiniteSets

CONSTANTS
  Workspace, User, Staff,
  Name,         \* what a workspace may be called
  Slug,         \* slugs, and the prefixes left when the hyphens are removed
  SlugOf,       \* SlugOf[n]: slugify(n)
  Squeeze,      \* Squeeze[s]: slug s without hyphens and underscores
  Host,         \* a Jasmin's addresses: host, port and user names, HTTP URL
  DemoHost,     \* the Jasmin of the server's settings
  Secret,       \* passwords
  Accepts,      \* Accepts[h]: the password that the Jasmin at h accepts
  Ciphertext,   \* passwords that look like a Fernet token
  MasterKey,    \* values of JOYCE_CREDENTIALS_KEY
  Interval,     \* minutes between two syncs; 0 switches them off
  DefaultInterval,
  MaxToken,     \* bound: tokens given out to a workspace
  MaxAge,       \* bound: minutes are counted up to here
  Request, None

ASSUME WorkspaceAssumption ==
  /\ Workspace # {} /\ User # {}
  /\ Staff \subseteq User
  /\ SlugOf \in [Name -> Slug]
  /\ Squeeze \in [Slug -> Slug]
  /\ \A s \in Slug : Squeeze[Squeeze[s]] = Squeeze[s]
  /\ DemoHost \in Host /\ Accepts \in [Host -> Secret]
  /\ Ciphertext \subseteq Secret
  /\ Interval \subseteq Nat /\ DefaultInterval \in Interval
  /\ MaxToken \in Nat /\ MaxAge \in Nat /\ \A i \in Interval : i <= MaxAge
  /\ None \notin Workspace \cup User \cup Name \cup Slug \cup Host \cup Secret
                   \cup MasterKey \cup Nat

VARIABLES
  users,    \* accounts
  member,   \* WorkSpaceMembership
  row,      \* row[w]: the row of workspace w, or None
  key,      \* JOYCE_CREDENTIALS_KEY, or None
  req,      \* req[t]: where request t is
  sync,     \* the run of sync_jasmin_users
  chosen,   \* history: the connection a workspace was last told is saved
  lastToken,  \* tokens are numbered as they are given out
  shown,    \* history: the token its clients were given, 0 if none
  founded   \* history: the prefix a workspace was created with

vars == <<users, member, row, key, req, sync, chosen, lastToken, shown, founded>>

-----------------------------------------------------------------------------
(* Rows, connections, requests.                                            *)

Age  == 0..MaxAge
Kept == [key : MasterKey \cup {None}, secret : Secret]   \* a stored password

\* host stands for all the addresses of the row, and one password for the two: the
\* code sets, requires and clears them together.  age: minutes since
\* jasmin_user_last_synced_at.
Row ==
  [name : Name, prefix : {Squeeze[s] : s \in Slug}, link : {"unset", "demo", "custom"},
   host : Host \cup {None}, password : Kept \cup {None}, tested : BOOLEAN,
   enabled : BOOLEAN, token : 0..MaxToken, every : Interval, age : Age \cup {None}]

Connection == [host : Host, secret : Secret]

\* None is none of these records.
ASSUME NoneAssumption == None \notin Row \cup Kept \cup Connection

Ops == {"signup", "settings", "regenerate", "clear", "test", "console"}

TypeOK ==
  /\ users \subseteq User /\ member \subseteq Workspace \X User
  /\ row \in [Workspace -> Row \cup {None}]
  /\ key \in MasterKey \cup {None}
  /\ req \in [Request ->
       [op : Ops \cup {None}, pc : {"idle", "form", "loaded", "member", "done"},
        user : User \cup {None}, email : User \cup {None},
        ws : Workspace \cup {None}, obj : Row \cup {None}, name : Name \cup {None},
        answer : {None, "ok", "refused", "raised", "redirected"}]]
  /\ sync \in [pc : {"idle", "fetch"}, since : Age,
               plan : [Workspace -> Connection \cup {None}], fetched : SUBSET Workspace]
  /\ chosen \in [Workspace -> Connection \cup {None}]
  /\ lastToken \in 0..MaxToken /\ shown \in [Workspace -> 0..MaxToken]
  /\ founded \in [Workspace -> Slug \cup {None}]

Exists(w) == row[w] # None
Idle      == [op |-> None, pc |-> "idle", user |-> None, email |-> None, ws |-> None,
              obj |-> None, name |-> None, answer |-> None]
Resting   == [pc |-> "idle", since |-> 0, plan |-> [w \in Workspace |-> None],
              fetched |-> {}]

\* A fresh row: WorkSpace.create and the defaults of the columns.
NewRow_RawSlug(n) ==
  [name |-> n, prefix |-> SlugOf[n], link |-> "unset", host |-> None,
   password |-> None, tested |-> FALSE, enabled |-> FALSE, token |-> 0,
   every |-> DefaultInterval, age |-> None]
NewRow(n) ==
  [name |-> n, prefix |-> Squeeze[SlugOf[n]], link |-> "unset", host |-> None,
   password |-> None, tested |-> FALSE, enabled |-> FALSE, token |-> 0,
   every |-> DefaultInterval, age |-> None]

\* Somebody (it does not matter who) has signed up already, and may have chosen the
\* demo, if the name of the workspace lets its row be saved (see Found).
Init ==
  /\ \E n \in Name, demo \in BOOLEAN :
       LET w == CHOOSE x \in Workspace : TRUE
           u == CHOOSE x \in User : TRUE
           o == [NewRow(n) EXCEPT !.link = IF demo THEN "demo" ELSE @]
       IN /\ demo => SlugOf[n] # Squeeze[SlugOf[n]]
          /\ users = {u} /\ member = {<<w, u>>}
          /\ row = [x \in Workspace |-> IF x = w THEN o ELSE None]
          /\ founded = [x \in Workspace |-> IF x = w THEN o.prefix ELSE None]
  /\ key \in MasterKey \cup {None}
  /\ req = [t \in Request |-> Idle]
  /\ sync = Resting
  /\ chosen = [w \in Workspace |-> None]
  /\ lastToken = 0 /\ shown = [w \in Workspace |-> 0]

-----------------------------------------------------------------------------
(* Passwords and connections.                                              *)

\* encrypt_secret, and what looks like a token already is stored as it is.
Encrypt(s) == [key |-> IF s \in Ciphertext THEN None ELSE key, secret |-> s]

Decrypts(p) == key # None /\ p.key = key

\* is_jasmin_ready: the fields alone decide.
Ready(o) == \/ o.link = "demo"
            \/ o.link = "custom" /\ o.host # None /\ o.password # None

Demo == [host |-> DemoHost, secret |-> Accepts[DemoHost]]

\* resolve_jasmin_connection of a row that is ready, and can be decrypted.
Resolves(o) == Ready(o) /\ (o.link = "custom" => Decrypts(o.password))
Resolved(o) == IF o.link = "demo" THEN Demo
               ELSE [host |-> o.host, secret |-> o.password.secret]

-----------------------------------------------------------------------------
(* Prefixes and saves.                                                     *)

\* generate_prefix looks for the slug among the prefixes, before it removes the
\* hyphens; if it is there, the loop that should number it asks for a column that
\* does not exist.  The row itself is not left out.
Found(n)  == \E w \in Workspace : Exists(w) /\ row[w].prefix = SlugOf[n]
Prefix(n) == Squeeze[SlugOf[n]]

\* The column is unique.
Taken(n, w) == \E v \in Workspace \ {w} : Exists(v) /\ row[v].prefix = Prefix(n)

\* WorkSpace.save of a row that exists: the prefix is generated again, or save
\* raises.  The mutant renames the row as the loop means to.
Renumbered == CHOOSE s \in Slug : \A w \in Workspace : Exists(w) => row[w].prefix # s
Saves_Renumber(w, o) == [row EXCEPT ![w] = [o EXCEPT !.prefix = Renumbered]]
Saves(w, o) == [row EXCEPT ![w] = [o EXCEPT !.prefix = Prefix(o.name)]]
MaySave(w)  == ~Found(row[w].name) /\ ~Taken(row[w].name, w)

Finish(t, how) ==
  req' = [req EXCEPT ![t].pc = "done", ![t].ws = None, ![t].obj = None, ![t].answer = how]

-----------------------------------------------------------------------------
(* Signing up.                                                             *)

\* SignupForm looks for the address among the usernames, and not for the username.
\* An address is kept with the request until the account is made.
Signup(t, u, e, n) ==
  /\ req[t].pc = "idle"
  /\ req' = [req EXCEPT ![t] =
       IF e \in users
       THEN [Idle EXCEPT !.op = "signup", !.pc = "done", !.email = e, !.answer = "refused"]
       ELSE [Idle EXCEPT !.op = "signup", !.pc = "form", !.email = e, !.user = u, !.name = n]]
  /\ UNCHANGED <<users, member, row, key, sync, chosen, lastToken, shown, founded>>

\* User.create: the column username is unique, and nobody has the address for a
\* username.
SignupUser(t) ==
  /\ req[t].pc = "form" /\ req[t].user \notin users /\ req[t].email \notin users
  /\ users' = users \cup {req[t].user}
  /\ req' = [req EXCEPT ![t].pc = "loaded", ![t].email = None]
  /\ UNCHANGED <<member, row, key, sync, chosen, lastToken, shown, founded>>

\* IntegrityError, or the assertion, if somebody signed up meanwhile.
SignupUserFails(t) ==
  /\ req[t].pc = "form" /\ (req[t].user \in users \/ req[t].email \in users)
  /\ Finish(t, "raised")
  /\ UNCHANGED <<users, member, row, key, sync, chosen, lastToken, shown, founded>>

\* WorkSpace.create ...
SignupWorkspace(t, w) ==
  /\ req[t].op = "signup" /\ req[t].pc = "loaded" /\ ~Exists(w)
  /\ ~Found(req[t].name) /\ ~Taken(req[t].name, w)
  /\ row' = [row EXCEPT ![w] = NewRow(req[t].name)]
  /\ founded' = [founded EXCEPT ![w] = row'[w].prefix]
  /\ req' = [req EXCEPT ![t].pc = "member", ![t].ws = w]
  /\ UNCHANGED <<users, member, key, sync, chosen, lastToken, shown>>

\* ... and add_user, which is committed on its own.  The mutant forgets it.
SignupMember_None(t) ==
  /\ req[t].pc = "member" /\ Finish(t, "ok")
  /\ UNCHANGED <<users, member, row, key, sync, chosen, lastToken, shown, founded>>
SignupMember(t) ==
  /\ req[t].pc = "member"
  /\ member' = member \cup {<<req[t].ws, req[t].user>>}
  /\ Finish(t, "ok")
  /\ UNCHANGED <<users, row, key, sync, chosen, lastToken, shown, founded>>

\* The prefix is taken: FieldError, or IntegrityError.  The account stays.
SignupFails(t) ==
  /\ req[t].op = "signup" /\ req[t].pc = "loaded"
  /\ Found(req[t].name) \/ Taken(req[t].name, None)
  /\ Finish(t, "raised")
  /\ UNCHANGED <<users, member, row, key, sync, chosen, lastToken, shown, founded>>

-----------------------------------------------------------------------------
(* Requests about a workspace.                                             *)

\* WorkspaceMiddleware.determine_workspace: a workspace of the user, any for staff.
\* JasminConnectionGateMiddleware sends the console to the settings page.
Open(t, u, w, what) ==
  /\ req[t].pc = "idle" /\ Exists(w) /\ u \in users
  /\ <<w, u>> \in member \/ u \in Staff
  /\ req' = [req EXCEPT ![t] =
       IF what = "console"
       THEN [Idle EXCEPT !.op = what, !.pc = "done",
                         !.answer = IF Ready(row[w]) THEN "ok" ELSE "redirected"]
       ELSE [Idle EXCEPT !.op = what, !.pc = "loaded", !.ws = w, !.obj = row[w]]]
  /\ UNCHANGED <<users, member, row, key, sync, chosen, lastToken, shown, founded>>

Loaded(t, what) == req[t].pc = "loaded" /\ req[t].op = what

\* WorkspaceSettingsForm.clean.  The instance still has the stored password.
Valid(o, link, h, s) ==
  link = "custom" => h # None /\ key # None /\ (s # None \/ o.password # None)

\* The instance after the form was read into it and saved.  Reading the form
\* overwrote the password, blank or not, before save() looks at it.  The mutant
\* keeps an address that is there.
WithConnection_KeepsAddress(o, link, h, s) ==
  [o EXCEPT !.link = link, !.host = IF link = "custom" /\ o.host = None THEN h ELSE @,
            !.password = IF link = "demo" \/ s = None THEN None ELSE Encrypt(s),
            !.tested = link = "custom" /\ @]
WithConnection(o, link, h, s) ==
  [o EXCEPT !.link = link, !.host = IF link = "demo" THEN None ELSE h,
            !.password = IF link = "demo" \/ s = None THEN None ELSE Encrypt(s),
            !.tested = link = "custom" /\ @]

NextToken == lastToken + 1

\* A token is made when the API is first enabled.  The mutant makes one each time.
WithApi_Always(o, enabled) ==
  [o EXCEPT !.enabled = enabled, !.token = IF enabled THEN NextToken ELSE @]
WithApi(o, enabled) ==
  [o EXCEPT !.enabled = enabled, !.token = IF enabled /\ @ = 0 THEN NextToken ELSE @]

\* A full save of an instance that is out of date takes back what was saved since.
Stale(t) == req[t].obj # row[req[t].ws]

Settings(t, link, h, s, enabled, every) ==
  /\ Loaded(t, "settings") /\ lastToken < MaxToken
  /\ LET w == req[t].ws
         o == [WithApi(WithConnection(req[t].obj, link, h, s), enabled)
                 EXCEPT !.every = every]
     IN IF Valid(req[t].obj, link, h, s) /\ MaySave(w)
        THEN /\ row' = Saves(w, o)
             /\ lastToken' = IF o.token = NextToken THEN NextToken ELSE lastToken
             /\ chosen' = [chosen EXCEPT ![w] =
                  IF link = "demo" THEN Demo
                  ELSE IF s = None \/ s \in Ciphertext THEN None
                  ELSE [host |-> h, secret |-> s]]
             /\ shown' = [shown EXCEPT ![w] = IF ~enabled \/ Stale(t) THEN 0
                                              ELSE IF @ = 0 THEN o.token ELSE @]
             /\ Finish(t, "ok")
        ELSE /\ Finish(t, IF Valid(req[t].obj, link, h, s) THEN "raised" ELSE "refused")
             /\ UNCHANGED <<row, lastToken, chosen, shown>>
  /\ UNCHANGED <<users, member, key, sync, founded>>

\* regenerate_messaging_api_token saves the two columns.
Regenerate(t, want) ==
  /\ Loaded(t, "regenerate") /\ lastToken < MaxToken
  /\ LET w == req[t].ws
         asked == req[t].obj.enabled \/ want
     IN IF asked /\ MaySave(w)
        THEN /\ row' = [row EXCEPT ![w].enabled = TRUE, ![w].token = NextToken]
             /\ lastToken' = NextToken
             /\ shown' = [shown EXCEPT ![w] = NextToken]
             /\ Finish(t, "ok")
        ELSE /\ Finish(t, IF asked THEN "raised" ELSE "refused")
             /\ UNCHANGED <<row, lastToken, shown>>
  /\ UNCHANGED <<users, member, key, sync, chosen, founded>>

\* clear_jasmin_connection.
Clear(t) ==
  /\ Loaded(t, "clear")
  /\ LET w == req[t].ws IN
     IF MaySave(w)
     THEN /\ row' = Saves(w, WithConnection(req[t].obj, "demo", None, None))
          /\ chosen' = [chosen EXCEPT ![w] = Demo]
          /\ shown' = [shown EXCEPT ![w] = IF Stale(t) THEN 0 ELSE @]
          /\ Finish(t, "ok")
     ELSE Finish(t, "raised") /\ UNCHANGED <<row, chosen, shown>>
  /\ UNCHANGED <<users, member, key, sync, lastToken, founded>>

\* test_connection, of the connection in the form, or of the saved one where the
\* form is blank.
Tested(o, link, h, s) ==
  IF link # "custom" THEN Demo
  ELSE [host |-> IF h # None THEN h ELSE o.host,
        secret |-> IF s # None THEN s ELSE IF o.password # None THEN o.password.secret
                   ELSE None]
Test(t, link, h, s, answers) ==
  /\ Loaded(t, "test")
  /\ LET w == req[t].ws
         o == req[t].obj
         c == Tested(o, link, h, s)
         unread == link = "custom" /\ \/ s \in Ciphertext
                                      \/ s = None /\ o.password # None
                                           /\ ~Decrypts(o.password)
     IN IF unread \/ c.host = None \/ c.secret # Accepts[c.host] \/ ~answers
        THEN Finish(t, "refused") /\ UNCHANGED row
        ELSE IF MaySave(w)
        THEN row' = [row EXCEPT ![w].tested = TRUE] /\ Finish(t, "ok")
        ELSE Finish(t, "raised") /\ UNCHANGED row
  /\ UNCHANGED <<users, member, key, sync, chosen, lastToken, shown, founded>>

-----------------------------------------------------------------------------
(* The schedule of the user sync.                                          *)

\* _workspaces_due_for_sync.  The mutant syncs a workspace once.
Due_Once(o) == o # None /\ o.every > 0 /\ Ready(o) /\ o.age = None
Due(o) == /\ o # None /\ o.every > 0 /\ Ready(o)
          /\ o.age = None \/ o.age >= o.every

DueNow == {w \in Workspace : Due(row[w])}

\* Beat starts the task.  A password that cannot be decrypted raises an error that
\* sync_jasmin_users does not catch: no workspace is synced.
SyncStarts ==
  /\ sync.pc = "idle" /\ DueNow # {}
  /\ \A w \in DueNow : Resolves(row[w])
  /\ sync' = [Resting EXCEPT !.pc = "fetch", !.plan =
       [w \in Workspace |-> IF w \in DueNow THEN Resolved(row[w]) ELSE None]]
  /\ UNCHANGED <<users, member, row, key, req, chosen, lastToken, shown, founded>>

Planned == {w \in Workspace : sync.plan[w] # None}

\* One fetch for an endpoint; endpoint_key leaves the password out, and it is made
\* with the connection of the workspace resolved last.  An error passes over them all.
Group(h) == {w \in Planned : sync.plan[w].host = h}

Fetch(h, answers) ==
  /\ sync.fetched = {} /\ Group(h) # {}
  /\ \E w \in Group(h) :
       sync' = [sync EXCEPT
         !.plan = [v \in Workspace |-> IF v \in Group(h) THEN None ELSE @[v]],
         !.fetched = IF answers /\ sync.plan[w].secret = Accepts[h] THEN Group(h) ELSE {}]
  /\ UNCHANGED <<users, member, row, key, req, chosen, lastToken, shown, founded>>

\* The users of one workspace are copied (see ConfigSync) and its row is stamped with
\* the time the task began, by an update of that column.
Stamp(w) ==
  /\ w \in sync.fetched
  /\ row' = [row EXCEPT ![w].age = sync.since]
  /\ sync' = [sync EXCEPT !.fetched = @ \ {w}]
  /\ UNCHANGED <<users, member, key, req, chosen, lastToken, shown, founded>>

SyncEnds ==
  /\ sync.pc = "fetch" /\ sync.fetched = {} /\ Planned = {}
  /\ sync' = Resting
  /\ UNCHANGED <<users, member, row, key, req, chosen, lastToken, shown, founded>>

SyncStep ==
  \/ \E h \in Host, answers \in BOOLEAN : Fetch(h, answers)
  \/ \E w \in Workspace : Stamp(w)
  \/ SyncEnds

-----------------------------------------------------------------------------
(* What happens around it: time passes, the server restarts.               *)

Older(a) == IF a \in Age /\ a < MaxAge THEN a + 1 ELSE a

Minute ==
  /\ row' = [w \in Workspace |->
       IF Exists(w) THEN [row[w] EXCEPT !.age = Older(@)] ELSE None]
  /\ req' = [t \in Request |->
       IF req[t].obj # None THEN [req[t] EXCEPT !.obj.age = Older(@)] ELSE req[t]]
  /\ sync' = [sync EXCEPT !.since = IF sync.pc = "idle" THEN 0 ELSE Older(@)]
  /\ UNCHANGED <<users, member, key, chosen, lastToken, shown, founded>>

\* The server restarts, maybe with another key: what was encrypted under the old one
\* cannot be read any more.
Restart(k) ==
  /\ key' = k
  /\ chosen' = [w \in Workspace |->
       IF k # key /\ Exists(w) /\ row[w].link = "custom" THEN None ELSE chosen[w]]
  /\ req' = [t \in Request |-> IF req[t].pc \in {"form", "loaded", "member"} THEN Idle ELSE req[t]]
  /\ sync' = Resting
  /\ UNCHANGED <<users, member, row, lastToken, shown, founded>>

-----------------------------------------------------------------------------

Handle(t) ==
  \/ SignupUser(t) \/ SignupUserFails(t)
  \/ \E w \in Workspace : SignupWorkspace(t, w)
  \/ SignupFails(t) \/ SignupMember(t)
  \/ \E link \in {"demo", "custom"}, h \in Host \cup {None}, s \in Secret \cup {None} :
       \/ \E enabled \in BOOLEAN, i \in Interval : Settings(t, link, h, s, enabled, i)
       \/ \E answers \in BOOLEAN : Test(t, link, h, s, answers)
  \/ \E want \in BOOLEAN : Regenerate(t, want)
  \/ Clear(t)

Next ==
  \/ \E t \in Request :
       \/ \E u, e \in User, n \in Name : Signup(t, u, e, n)
       \/ \E u \in User, w \in Workspace, what \in Ops \ {"signup"} : Open(t, u, w, what)
       \/ Handle(t)
  \/ SyncStarts \/ SyncStep
  \/ Minute
  \/ \E k \in MasterKey \cup {None} : Restart(k)

\* Beat goes on starting the task, a worker runs it, and time passes.  Nobody has to
\* finish a request, and a Jasmin may fail to answer, though not every time it is asked.
Fairness ==
  /\ WF_vars(SyncStarts) /\ WF_vars(SyncStep) /\ WF_vars(Minute)
  /\ \A h \in Host : SF_vars(Fetch(h, TRUE))

Spec == Init /\ [][Next]_vars /\ Fairness

-----------------------------------------------------------------------------
(* Properties.                                                             *)

\* authenticate(): the workspace whose API is on and whose token it is.
Authenticates(token, w) ==
  Exists(w) /\ row[w].enabled /\ row[w].token = token /\ token # 0

\* "Auto-generate on first enable; keep existing token otherwise": a token given to
\* clients works until the API is switched off, the token is regenerated, or a
\* request that was loaded before saves its old copy of the row.
ShownTokenWorks == \A w \in Workspace : shown[w] # 0 => Authenticates(shown[w], w)

\* The connection a settings page was last told is saved is the one that the gate
\* lets through and that resolve_jasmin_connection returns, until the server's key
\* changes, whatever other requests save meanwhile.  A custom connection posted with
\* a blank password loses the stored one, and one that looks encrypted cannot be
\* decrypted: both are exempt.
ChosenConnectionResolves ==
  \A w \in Workspace : chosen[w] # None =>
    Resolves(row[w]) /\ Resolved(row[w]) = chosen[w]

\* "To be used in all jasmin config keys": although every save generates it again, the
\* prefix of a workspace stays what it was when the workspace was created.
PrefixKept == \A w \in Workspace : Exists(w) => row[w].prefix = founded[w]

\* Signing up ends in one of three ways: with an account that belongs to a workspace;
\* with an account and no workspace, because the name leads to a prefix that is in use
\* (and then the username is gone); or with no account, because the username, or the
\* address taken for one, belongs to somebody.
SignupFinishes ==
  \A t \in Request : (req[t].op = "signup" /\ req[t].pc = "done") =>
    LET q == req[t] IN
    \/ q.answer = "ok" /\ q.email = None /\ \E w \in Workspace : <<w, q.user>> \in member
    \/ /\ q.answer = "raised" /\ q.email = None /\ q.user \in users
       /\ Found(q.name) \/ Taken(q.name, None)
    \/ /\ q.answer \in {"refused", "raised"} /\ q.email # None
       /\ q.user \in users \/ q.email \in users

\* A due workspace that another one keeps from being synced: one whose password
\* cannot be decrypted, or one with the same endpoint and a wrong password.
Hinders(v, w) ==
  /\ Exists(v) /\ row[v].every > 0 /\ Ready(row[v])
  /\ \/ ~Resolves(row[v])
     \/ /\ Resolved(row[v]).host = Resolved(row[w]).host
        /\ Resolved(row[v]).secret # Accepts[Resolved(row[v]).host]

Serviceable(w) ==
  /\ Exists(w) /\ row[w].every > 0 /\ Resolves(row[w])
  /\ \A v \in Workspace : ~Hinders(v, w)

\* A workspace that stays configured and that no other workspace hinders is synced
\* again and again, once the server stays up.
SyncsAgain ==
  <>[][\A k \in MasterKey \cup {None} : ~Restart(k)]_vars =>
    \A w \in Workspace : <>[]Serviceable(w) => []<><<Stamp(w)>>_vars
=============================================================================
