---------------------------- MODULE ImportConfig ----------------------------
(***************************************************************************)
(* Import from Jasmin: what import_workspace_config makes of the rows and  *)
(* of a snapshot of a live Jasmin.  Source: jasmin/import_config.py, with  *)
(* from_smpp_client_config of jasmin/models.py.                            *)
(*                                                                         *)
(* The import is one transaction, so it is a function from the rows to the *)
(* rows.  A snapshot is what the two PB sessions return, keyed by what     *)
(* Jasmin itself keeps unique: gid, uid, cid, and (nature, order) of a     *)
(* route or an interceptor.  Rows that the import may not read (HTTP and   *)
(* SMPP connectors, routes and interceptors of the other workspaces) are   *)
(* there to say that it leaves them alone.                                 *)
(***************************************************************************)
EXTENDS Naturals, FiniteSets

CONSTANTS
  Ws,            \* workspaces
  Gid, LongGid,  \* group ids, and those of more than 16 characters
  Uid, SmppCid, HttpCid,
  Setting,       \* what a connector's configuration says
  Oversized,     \* settings no column holds: a host of more than 50 characters
  Criterion,     \* what a filter says: its type, nature and parameter
  Unsavable,     \* those JasminFilter.save refuses: a user filter without a user
  Fid,           \* filter ids: FidOf[w, c] and those typed into the form
  FidOf,         \* _make_fid: a hash of the criterion under the workspace's id
  Slot,          \* (nature, order) of routes and of interceptors
  MoSlot,        \* those of nature MO
  Script,        \* NoScript is a blank one
  NoScript, None

ASSUME ImportConfigAssumption ==
  /\ LongGid \subseteq Gid /\ Oversized \subseteq Setting /\ Unsavable \subseteq Criterion
  /\ FidOf \in [Ws \X Criterion -> Fid]
  /\ \A x, y \in Ws \X Criterion : FidOf[x] = FidOf[y] => x = y
  /\ MoSlot \subseteq Slot /\ SmppCid \cap HttpCid = {}

-----------------------------------------------------------------------------
(* Rows, and what Jasmin holds.                                            *)

GroupRow  == [ws : Ws \cup {None}, enabled : BOOLEAN]
UserRow   == [gid : Gid, enabled : BOOLEAN, password : {"own", "imported"}]
SmppRow   == [setting : Setting, active : BOOLEAN]
FilterRec == [ws : Ws, says : Criterion]
RouteRec  == [filters : SUBSET Fid, connectors : SUBSET (SmppCid \cup HttpCid)]
ScriptRec == [filters : SUBSET Fid, script : Script]

Rows ==
  [group : [Gid -> GroupRow \cup {None}], user : [Uid -> UserRow \cup {None}],
   smpp : [Ws \X SmppCid -> SmppRow \cup {None}],
   http : [Ws \X HttpCid -> Setting \cup {None}],
   filter : [Fid -> FilterRec \cup {None}],
   route : [Ws \X Slot -> RouteRec \cup {None}],
   interceptor : [Ws \X Slot -> ScriptRec \cup {None}]]

\* http is the base URL that each MO route gives for a connector.
Snapshot ==
  [group : [Gid -> BOOLEAN \cup {None}],
   user : [Uid -> [gid : Gid, enabled : BOOLEAN] \cup {None}],
   smpp : [SmppCid -> [setting : Setting, running : BOOLEAN] \cup {None}],
   http : [HttpCid -> Setting],
   route : [Slot -> [filters : SUBSET Criterion,
                     connectors : SUBSET (SmppCid \cup HttpCid)] \cup {None}],
   interceptor : [Slot -> [filters : SUBSET Criterion,
                           script : Script \cup {NoScript}] \cup {None}]]

\* A row or an object that is there is not one that is missing.
ASSUME NoneAssumption ==
  /\ None \notin Setting \cup GroupRow \cup UserRow \cup SmppRow \cup FilterRec
                   \cup RouteRec \cup ScriptRec
  /\ NoScript \notin Script

-----------------------------------------------------------------------------
(* Accounts.                                                               *)

\* Mutant: whoever owns the group.
ImportedGroups_Any(db, w, j) == {g \in Gid \ LongGid : j.group[g] # None}

\* The groups that _import_groups returns by gid: a group without a workspace is taken
\* over, another workspace's is skipped.
ImportedGroups(db, w, j) ==
  {g \in Gid \ LongGid : /\ j.group[g] # None
                         /\ db.group[g] # None => db.group[g].ws \in {w, None}}

Groups2(db, w, j) ==
  [g \in Gid |-> IF g \in ImportedGroups(db, w, j)
                 THEN [ws |-> w, enabled |-> j.group[g]] ELSE db.group[g]]

\* _import_users runs on the groups as imported: a user moves to the group Jasmin has it
\* in, and keeps its password.
ImportedUsers(db, w, j) ==
  {u \in Uid : /\ j.user[u] # None
               /\ j.user[u].gid \in ImportedGroups(db, w, j)
               /\ db.user[u] # None => Groups2(db, w, j)[db.user[u].gid].ws = w}

Users2(db, w, j) ==
  [u \in Uid |->
     IF u \in ImportedUsers(db, w, j)
     THEN [gid |-> j.user[u].gid, enabled |-> j.user[u].enabled,
           password |-> IF db.user[u] = None THEN "imported" ELSE db.user[u].password]
     ELSE db.user[u]]

-----------------------------------------------------------------------------
(* Connectors and filters.                                                 *)

\* from_smpp_client_config: the configuration, then the status it runs with.
Smpp2(db, w, j) ==
  [x \in Ws \X SmppCid |->
     IF x[1] = w /\ j.smpp[x[2]] # None
     THEN [setting |-> j.smpp[x[2]].setting, active |-> j.smpp[x[2]].running]
     ELSE db.smpp[x]]

\* HTTP connectors are known only from the MO routes that use them.
Http2(db, w, j) ==
  [x \in Ws \X HttpCid |->
     IF x[1] = w /\ \E s \in MoSlot : j.route[s] # None /\ x[2] \in j.route[s].connectors
     THEN j.http[x[2]] ELSE db.http[x]]

\* What the routes and interceptors of Jasmin say of filters.
Criteria(j) ==
  UNION ({j.route[s].filters : s \in {t \in Slot : j.route[t] # None}} \cup
         {j.interceptor[s].filters : s \in {t \in Slot : j.interceptor[t] # None}})

\* The rows of w that say c: one under the id of the import is found first, then any.
SaysIt(db, w, c) == {f \in Fid : db.filter[f] = [ws |-> w, says |-> c]}
LocalFid(db, w, c) ==
  IF FidOf[w, c] \in SaysIt(db, w, c) \/ SaysIt(db, w, c) = {} THEN FidOf[w, c]
  ELSE CHOOSE f \in SaysIt(db, w, c) : TRUE

\* _upsert_filter, of every filter found.
Filters2(db, w, j) ==
  [f \in Fid |->
     IF \E c \in Criteria(j) \ Unsavable : f = LocalFid(db, w, c)
     THEN [ws |-> w, says |-> CHOOSE c \in Criteria(j) \ Unsavable : f = LocalFid(db, w, c)]
     ELSE db.filter[f]]

\* Mutant: the row is sought under the id of the import only.
FiltersFor_ById(db, w, cs) == {FidOf[w, c] : c \in cs \ Unsavable}

\* The rows for the filters of a route or interceptor; one that cannot be saved is
\* reported and left out.
FiltersFor(db, w, cs) == {LocalFid(db, w, c) : c \in cs \ Unsavable}

-----------------------------------------------------------------------------
(* Routes, interceptors, the whole import.                                 *)

\* Connectors no row of the workspace has are left out.
KnownTo(smpp, http, w) ==
  {c \in SmppCid : smpp[w, c] # None} \cup {c \in HttpCid : http[w, c] # None}

\* Mutant: routes before connectors.
Routes2_First(db, w, j) ==
  [x \in Ws \X Slot |->
     IF x[1] = w /\ j.route[x[2]] # None
     THEN [filters |-> FiltersFor(db, w, j.route[x[2]].filters),
           connectors |-> j.route[x[2]].connectors \cap KnownTo(db.smpp, db.http, w)]
     ELSE db.route[x]]

Routes2(db, w, j) ==
  [x \in Ws \X Slot |->
     IF x[1] = w /\ j.route[x[2]] # None
     THEN [filters |-> FiltersFor(db, w, j.route[x[2]].filters),
           connectors |-> j.route[x[2]].connectors
                            \cap KnownTo(Smpp2(db, w, j), Http2(db, w, j), w)]
     ELSE db.route[x]]

Interceptors2(db, w, j) ==
  [x \in Ws \X Slot |->
     IF x[1] = w /\ j.interceptor[x[2]] # None /\ j.interceptor[x[2]].script # NoScript
     THEN [filters |-> FiltersFor(db, w, j.interceptor[x[2]].filters),
           script |-> j.interceptor[x[2]].script]
     ELSE db.interceptor[x]]

\* The transaction fails as a whole: a row the database refuses spoils it, whatever the
\* handler of that row makes of the error, and so does the stamp on the workspace, saved
\* last, when its name stops every save (workspace/models.py, generate_prefix).
Fails(w, j, unsavedName) ==
  \/ w \in unsavedName
  \/ \E c \in SmppCid : j.smpp[c] # None /\ j.smpp[c].setting \in Oversized

Import(db, w, j, unsavedName) ==
  IF Fails(w, j, unsavedName) THEN db
  ELSE [group |-> Groups2(db, w, j), user |-> Users2(db, w, j),
        smpp |-> Smpp2(db, w, j), http |-> Http2(db, w, j), filter |-> Filters2(db, w, j),
        route |-> Routes2(db, w, j), interceptor |-> Interceptors2(db, w, j)]

=============================================================================
