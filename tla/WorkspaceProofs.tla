--------------------------- MODULE WorkspaceProofs ---------------------------
(***************************************************************************)
(* Theorems about Workspace, for every set of workspaces, users, names,    *)
(* Jasmins, passwords, keys and requests.  Fairness is not used.           *)
(***************************************************************************)
EXTENDS Workspace, TLAPS

\* A signup under way knows who signs up; it has an address until it has an account.
Signing(q) ==
  /\ q.pc \in {"form", "member"} => q.op = "signup"
  /\ q.pc \in {"form", "loaded", "member"} /\ q.op = "signup" =>
       /\ q.name \in Name /\ q.user \in User
       /\ IF q.pc = "form" THEN q.email # None ELSE q.email = None /\ q.user \in users
       /\ q.pc = "member" => q.ws \in Workspace

\* Any other request under way holds a copy of the row of a workspace that exists,
\* under the name the row has: nothing renames or deletes a workspace.
Copies ==
  \A t \in Request :
    /\ Signing(req[t])
    /\ req[t].pc = "loaded" /\ req[t].op # "signup" =>
         /\ req[t].obj # None /\ req[t].ws \in Workspace /\ Exists(req[t].ws)
         /\ req[t].obj.name = row[req[t].ws].name

\* The sync is about workspaces that exist.
Synced ==
  \A w \in Workspace : w \in sync.fetched \/ sync.plan[w] # None => Exists(w)

\* A prefix is always the one its name leads to.
Named ==
  \A w \in Workspace :
    Exists(w) => row[w].prefix = Prefix(row[w].name) /\ founded[w] = row[w].prefix

TypeInv == TypeOK /\ Copies /\ Synced

\* What a step that writes an existing row makes of it.
Rewrites(w, o) ==
  /\ w \in Workspace /\ Exists(w) /\ o \in Row /\ o.name = row[w].name
  /\ o.prefix \in {row[w].prefix, Prefix(row[w].name)}
  /\ row' = [row EXCEPT ![w] = o]

-----------------------------------------------------------------------------
(* What the operators of Workspace return.                                 *)

\* A fresh row.
LEMMA NewRowType == \A n \in Name : NewRow(n) \in Row /\ NewRow(n) # None
<1> SUFFICES ASSUME NEW n \in Name PROVE NewRow(n) \in Row
  BY NoneAssumption
<1> QED
  BY WorkspaceAssumption DEF NewRow, Row, Age

\* What the settings form makes of the connection of a row.
LEMMA ConnectionType ==
  ASSUME key \in MasterKey \cup {None}, NEW o \in Row, NEW link \in {"demo", "custom"},
         NEW h \in Host \cup {None}, NEW s \in Secret \cup {None}
  PROVE  /\ WithConnection(o, link, h, s) \in Row
         /\ WithConnection(o, link, h, s).name = o.name
         /\ WithConnection(o, link, h, s).enabled = o.enabled
         /\ WithConnection(o, link, h, s).token = o.token
<1>1. s # None => Encrypt(s) \in Kept
  BY DEF Encrypt, Kept
<1>2. (IF link = "demo" \/ s = None THEN None ELSE Encrypt(s)) \in Kept \cup {None}
  BY <1>1
<1> QED
  BY <1>2 DEF WithConnection, Row

\* ... and of its token.
LEMMA ApiType ==
  ASSUME lastToken \in 0..MaxToken, lastToken < MaxToken, NEW o \in Row,
         NEW enabled \in BOOLEAN
  PROVE  /\ WithApi(o, enabled) \in Row
         /\ WithApi(o, enabled).name = o.name
         /\ WithApi(o, enabled).link = o.link
         /\ WithApi(o, enabled).host = o.host
         /\ WithApi(o, enabled).password = o.password
         /\ NextToken \in 0..MaxToken /\ NextToken # 0
<1>1. NextToken \in 0..MaxToken /\ NextToken # 0
  BY WorkspaceAssumption DEF NextToken
<1> QED
  BY <1>1 DEF WithApi, Row

\* A connection that resolves is one.
LEMMA ResolvedType ==
  ASSUME NEW o \in Row, Ready(o)
  PROVE  Resolved(o) \in Connection
<1>1. Demo \in Connection
  BY WorkspaceAssumption DEF Demo, Connection
<1>2. ASSUME o.link = "custom" PROVE o.host \in Host /\ o.password.secret \in Secret
  BY <1>2 DEF Ready, Row, Kept
<1> QED
  BY <1>1, <1>2 DEF Ready, Resolved, Connection

\* A save of a copy under the row's name rewrites the row.
LEMMA SavesRewrites ==
  ASSUME TypeOK, NEW w \in Workspace, Exists(w), NEW o \in Row, o.name = row[w].name,
         row' = Saves(w, o)
  PROVE  Rewrites(w, [o EXCEPT !.prefix = Prefix(o.name)])
<1>1. Prefix(o.name) \in {Squeeze[s] : s \in Slug}
  BY WorkspaceAssumption DEF Prefix, Row
<1>2. [o EXCEPT !.prefix = Prefix(o.name)] \in Row
  BY <1>1 DEF Row
<1>3. /\ [o EXCEPT !.prefix = Prefix(o.name)].name = o.name
      /\ [o EXCEPT !.prefix = Prefix(o.name)].prefix = Prefix(o.name)
  BY DEF Row
<1> QED
  BY <1>2, <1>3 DEF Saves, Rewrites

-----------------------------------------------------------------------------
(* How rows change.                                                        *)

\* A step leaves the rows alone, rewrites one, adds one or makes them all older.
Grows(w, n) ==
  /\ w \in Workspace /\ ~Exists(w) /\ n \in Name
  /\ row' = [row EXCEPT ![w] = NewRow(n)]
  /\ founded' = [founded EXCEPT ![w] = row'[w].prefix]

RowStep ==
  \/ row' = row /\ founded' = founded
  \/ founded' = founded /\ \E w, o : Rewrites(w, o)
  \/ \E w, n : Grows(w, n)
  \/ Minute

LEMMA RowChange == ASSUME TypeInv, [Next]_vars PROVE RowStep
<1>0. TypeOK /\ Copies /\ Synced /\ key \in MasterKey \cup {None}
  BY DEF TypeInv, TypeOK
<1>1. ASSUME NEW t \in Request, NEW w \in Workspace, SignupWorkspace(t, w) PROVE RowStep
  <2>1. req[t].name \in Name
    BY <1>0, <1>1 DEF SignupWorkspace, Copies, Signing
  <2> QED
    BY <1>1, <2>1 DEF SignupWorkspace, Grows, RowStep
\* The copy that a request about a workspace works on.
<1>2. ASSUME NEW t \in Request, req[t].pc = "loaded", req[t].op # "signup"
      PROVE  /\ req[t].ws \in Workspace /\ Exists(req[t].ws)
             /\ req[t].obj \in Row /\ req[t].obj.name = row[req[t].ws].name
             /\ row[req[t].ws] \in Row
  <2>1. /\ req[t].obj # None /\ req[t].ws \in Workspace /\ Exists(req[t].ws)
        /\ req[t].obj.name = row[req[t].ws].name
    BY <1>0, <1>2 DEF Copies
  <2>2. req[t].obj \in Row \cup {None}
    BY <1>0 DEF TypeOK
  <2>3. row[req[t].ws] \in Row
    BY <1>0, <2>1 DEF TypeOK, Exists
  <2> QED
    BY <2>1, <2>2, <2>3
<1>3. ASSUME NEW t \in Request, NEW link \in {"demo", "custom"},
             NEW h \in Host \cup {None}, NEW s \in Secret \cup {None},
             NEW enabled \in BOOLEAN, NEW i \in Interval,
             Settings(t, link, h, s, enabled, i)
      PROVE  RowStep
  <2> DEFINE c == WithConnection(req[t].obj, link, h, s)
             a == WithApi(c, enabled)
             o == [a EXCEPT !.every = i]
  <2>1. req[t].pc = "loaded" /\ req[t].op # "signup" /\ lastToken < MaxToken
    BY <1>3 DEF Settings, Loaded
  <2>2. c \in Row /\ c.name = req[t].obj.name
    BY <1>0, <1>2, <2>1, ConnectionType
  <2>3. a \in Row /\ a.name = c.name
    BY <1>0, <2>1, <2>2, ApiType DEF TypeOK
  <2>4. o \in Row /\ o.name = a.name
    BY <2>3 DEF Row
  <2>5. row' = row \/ row' = Saves(req[t].ws, o)
    BY <1>3 DEF Settings
  <2> HIDE DEF o
  <2>6. founded' = founded
    BY <1>3 DEF Settings
  <2> QED
    BY <1>0, <1>2, <2>1, <2>2, <2>3, <2>4, <2>5, <2>6, SavesRewrites DEF RowStep
<1>4. ASSUME NEW t \in Request, Clear(t) PROVE RowStep
  <2> DEFINE c == WithConnection(req[t].obj, "demo", None, None)
  <2>1. req[t].pc = "loaded" /\ req[t].op # "signup"
    BY <1>4 DEF Clear, Loaded
  <2>2. c \in Row /\ c.name = req[t].obj.name
    <3>1. /\ "demo" \in {"demo", "custom"} /\ req[t].obj \in Row
          /\ None \in Host \cup {None} /\ None \in Secret \cup {None}
      BY <1>2, <2>1
    <3> QED
      BY <1>0, <3>1, ConnectionType
  <2>3. founded' = founded /\ (row' = row \/ row' = Saves(req[t].ws, c))
    BY <1>4 DEF Clear
  <2> HIDE DEF c
  <2> QED
    BY <1>0, <1>2, <2>1, <2>2, <2>3, SavesRewrites DEF RowStep
<1>5. ASSUME NEW t \in Request, NEW want \in BOOLEAN, Regenerate(t, want) PROVE RowStep
  <2> DEFINE r == row[req[t].ws]
             o == [r EXCEPT !.enabled = TRUE, !.token = NextToken]
  <2>1. req[t].pc = "loaded" /\ req[t].op # "signup" /\ lastToken < MaxToken
    BY <1>5 DEF Regenerate, Loaded
  <2>2. NextToken \in 0..MaxToken
    BY <1>0, <2>1, WorkspaceAssumption DEF NextToken, TypeOK
  <2>3. r \in Row
    BY <1>2, <2>1
  <2>4. o \in Row /\ o.name = r.name /\ o.prefix = r.prefix
    BY <2>2, <2>3 DEF Row
  <2>5. founded' = founded /\ (row' = row \/ row' = [row EXCEPT ![req[t].ws] = o])
    BY <1>0, <1>5, <1>2, <2>1 DEF Regenerate, TypeOK
  <2> HIDE DEF o
  <2> QED
    BY <1>2, <2>1, <2>4, <2>5 DEF Rewrites, RowStep
<1>6. ASSUME NEW t \in Request, NEW link \in {"demo", "custom"},
             NEW h \in Host \cup {None}, NEW s \in Secret \cup {None},
             NEW answers \in BOOLEAN, Test(t, link, h, s, answers)
      PROVE  RowStep
  <2> DEFINE r == row[req[t].ws]
             o == [r EXCEPT !.tested = TRUE]
  <2>1. req[t].pc = "loaded" /\ req[t].op # "signup"
    BY <1>6 DEF Test, Loaded
  <2>2. r \in Row
    BY <1>2, <2>1
  <2>3. o \in Row /\ o.name = r.name /\ o.prefix = r.prefix
    BY <2>2 DEF Row
  <2>4. founded' = founded /\ (row' = row \/ row' = [row EXCEPT ![req[t].ws] = o])
    BY <1>6 DEF Test
  <2> HIDE DEF o
  <2> QED
    BY <1>2, <2>1, <2>3, <2>4 DEF Rewrites, RowStep
<1>7. ASSUME NEW w \in Workspace, Stamp(w) PROVE RowStep
  <2> DEFINE r == row[w]
             o == [r EXCEPT !.age = sync.since]
  <2>1. Exists(w) /\ r \in Row /\ sync.since \in Age
    BY <1>0, <1>7 DEF Stamp, Synced, TypeOK, Exists
  <2>2. o \in Row /\ o.name = r.name /\ o.prefix = r.prefix
    BY <2>1 DEF Row
  <2>3. founded' = founded /\ row' = [row EXCEPT ![w] = o]
    BY <1>7 DEF Stamp
  <2> HIDE DEF o
  <2> QED
    BY <2>1, <2>2, <2>3 DEF Rewrites, RowStep
<1>8. ASSUME UNCHANGED <<row, founded>> PROVE RowStep
  BY <1>8 DEF RowStep
<1>9. ASSUME NEW t \in Request, Handle(t) PROVE RowStep
  <2>1. CASE SignupUser(t) \/ SignupUserFails(t) \/ SignupFails(t) \/ SignupMember(t)
    BY <1>8, <2>1 DEF SignupUser, SignupUserFails, SignupFails, SignupMember
  <2> QED
    BY <1>1, <1>3, <1>4, <1>5, <1>6, <1>9, <2>1 DEF Handle
<1>10. ASSUME SyncStarts \/ SyncStep PROVE RowStep
  BY <1>7, <1>8, <1>10 DEF SyncStarts, SyncStep, Fetch, SyncEnds
<1>11. ASSUME NEW k \in MasterKey \cup {None}, Restart(k) PROVE RowStep
  BY <1>8, <1>11 DEF Restart
<1>12. ASSUME NEW t \in Request, NEW u \in User, NEW e \in User, NEW n \in Name,
              Signup(t, u, e, n)
       PROVE  RowStep
  BY <1>8, <1>12 DEF Signup
<1>13. ASSUME NEW t \in Request, NEW u \in User, NEW w \in Workspace, NEW what,
              Open(t, u, w, what)
       PROVE  RowStep
  BY <1>8, <1>13 DEF Open
<1>14. CASE UNCHANGED vars
  BY <1>8, <1>14 DEF vars
<1>15. Minute => RowStep
  BY DEF RowStep
<1>16. CASE Next
  <2>1. CASE \E t \in Request : \/ \E u, e \in User, n \in Name : Signup(t, u, e, n)
                                \/ \E u \in User, w \in Workspace, what \in Ops \ {"signup"} :
                                     Open(t, u, w, what)
                                \/ Handle(t)
    BY <1>9, <1>12, <1>13, <2>1
  <2> QED
    BY <1>10, <1>11, <1>15, <1>16, <2>1 DEF Next
<1> QED
  BY <1>14, <1>16

\* Minutes are counted up to a bound.
LEMMA OlderType == \A a \in Age \cup {None} : Older(a) \in Age \cup {None}
BY WorkspaceAssumption DEF Age, Older

\* Rows stay in their type.
LEMMA RowType ==
  ASSUME TypeOK, RowStep PROVE row' \in [Workspace -> Row \cup {None}]
<1>0. row \in [Workspace -> Row \cup {None}]
  BY DEF TypeOK
<1>1. ASSUME NEW w, NEW o, Rewrites(w, o) PROVE row' \in [Workspace -> Row \cup {None}]
  BY <1>0, <1>1 DEF Rewrites
<1>2. ASSUME NEW w, NEW n, Grows(w, n) PROVE row' \in [Workspace -> Row \cup {None}]
  BY <1>0, <1>2, NewRowType DEF Grows
<1>3. ASSUME Minute PROVE row' \in [Workspace -> Row \cup {None}]
  <2>1. ASSUME NEW o \in Row PROVE [o EXCEPT !.age = Older(o.age)] \in Row
    <3>1. Older(o.age) \in Age \cup {None}
      BY OlderType DEF Row
    <3> QED
      BY <3>1 DEF Row
  <2> QED
    BY <1>0, <1>3, <2>1 DEF Minute, Exists
<1> QED
  BY <1>0, <1>1, <1>2, <1>3 DEF RowStep

\* A row stays, with its name, its prefix and the record of how it was founded.
Stays(w) ==
  /\ Exists(w)' /\ row'[w].name = row[w].name
  /\ row'[w].prefix \in {row[w].prefix, Prefix(row[w].name)}
  /\ founded'[w] = founded[w]

LEMMA RowsStay ==
  ASSUME TypeOK, RowStep PROVE \A w \in Workspace : Exists(w) => Stays(w)
<1> SUFFICES ASSUME NEW w \in Workspace, Exists(w) PROVE Stays(w)
  OBVIOUS
<1>0. /\ row \in [Workspace -> Row \cup {None}] /\ row[w] \in Row
      /\ founded \in [Workspace -> Slug \cup {None}]
  BY DEF TypeOK, Exists
<1>1. ASSUME NEW v, NEW o, Rewrites(v, o), founded' = founded PROVE Stays(w)
  <2>1. row'[w] = IF w = v THEN o ELSE row[w]
    BY <1>0, <1>1 DEF Rewrites
  <2>2. o # None
    BY <1>1, NoneAssumption DEF Rewrites
  <2> QED
    BY <1>1, <2>1, <2>2 DEF Rewrites, Stays, Exists
<1>2. ASSUME NEW v, NEW n, Grows(v, n) PROVE Stays(w)
  <2>1. w # v /\ row'[w] = row[w] /\ founded'[w] = founded[w]
    BY <1>0, <1>2 DEF Grows
  <2> QED
    BY <2>1 DEF Stays, Exists
<1>3. ASSUME Minute PROVE Stays(w)
  <2>1. row'[w] = [row[w] EXCEPT !.age = Older(@)] /\ founded' = founded
    BY <1>3 DEF Minute
  <2>2. Older(row[w].age) \in Age \cup {None}
    BY <1>0, OlderType DEF Row
  <2>3. /\ row'[w] \in Row /\ row'[w].name = row[w].name
        /\ row'[w].prefix = row[w].prefix
    BY <1>0, <2>1, <2>2 DEF Row
  <2> QED
    BY <2>1, <2>3, NoneAssumption DEF Stays, Exists
<1>4. CASE row' = row /\ founded' = founded
  BY <1>4 DEF Stays, Exists
<1> QED
  BY <1>1, <1>2, <1>3, <1>4 DEF RowStep

\* Prefixes go on being the ones that the names lead to.
LEMMA NamedStep == ASSUME TypeOK, Named, RowStep PROVE Named'
<1> SUFFICES ASSUME NEW w \in Workspace, Exists(w)'
             PROVE  row'[w].prefix = Prefix(row'[w].name) /\ founded'[w] = row'[w].prefix
  BY DEF Named, Prefix
<1>1. CASE Exists(w)
  BY <1>1, RowsStay DEF Named, Stays
<1>2. CASE ~Exists(w)
  <2>1. row \in [Workspace -> Row \cup {None}] /\ founded \in [Workspace -> Slug \cup {None}]
    BY DEF TypeOK
  <2>2. ASSUME NEW v, NEW o, Rewrites(v, o) PROVE FALSE
    BY <1>2, <2>1, <2>2 DEF Rewrites, Exists
  <2>3. row' # row
    BY <1>2 DEF Exists
  <2>4. ~Minute
    BY <1>2 DEF Minute, Exists
  <2>5. PICK v, n : Grows(v, n)
    BY <2>2, <2>3, <2>4 DEF RowStep
  <2>6. v = w
    BY <1>2, <2>1, <2>5 DEF Grows, Exists
  <2>7. row'[w] = NewRow(n) /\ founded'[w] = row'[w].prefix
    BY <2>1, <2>5, <2>6 DEF Grows
  <2> QED
    BY <2>7 DEF NewRow, Prefix
<1> QED
  BY <1>1, <1>2

-----------------------------------------------------------------------------
(* Types, copies, and what the sync is about.                              *)

ReqType ==
  [op : Ops \cup {None}, pc : {"idle", "form", "loaded", "member", "done"},
   user : User \cup {None}, email : User \cup {None},
   ws : Workspace \cup {None}, obj : Row \cup {None}, name : Name \cup {None},
   answer : {None, "ok", "refused", "raised", "redirected"}]

\* The end of a request.
LEMMA FinishType ==
  ASSUME req \in [Request -> ReqType], NEW t \in Request,
         NEW how \in {"ok", "refused", "raised"}, Finish(t, how)
  PROVE  req' \in [Request -> ReqType]
<1> DEFINE r == [req[t] EXCEPT !.pc = "done", !.ws = None, !.obj = None, !.answer = how]
<1>1. r \in ReqType
  BY DEF ReqType
<1>2. req' = [req EXCEPT ![t] = r]
  BY DEF Finish, ReqType
<1> QED
  BY <1>1, <1>2

\* What every step keeps, but for the variables that only few actions write.
LEMMA TypeStep == ASSUME TypeInv, [Next]_vars PROVE TypeOK'
<1>0. TypeOK /\ Copies /\ Synced /\ row' \in [Workspace -> Row \cup {None}]
  BY RowChange, RowType DEF TypeInv
<1>1. req \in [Request -> ReqType]
  BY <1>0 DEF TypeOK, ReqType
<1>2. ASSUME req' \in [Request -> ReqType],
             UNCHANGED <<users, member, key, sync, chosen, lastToken, shown, founded>>
      PROVE  TypeOK'
  BY <1>0, <1>2 DEF TypeOK, ReqType
<1>3. ASSUME NEW t \in Request, NEW u \in User, NEW e \in User, NEW n \in Name,
             Signup(t, u, e, n)
      PROVE  TypeOK'
  <2>1. /\ [Idle EXCEPT !.op = "signup", !.pc = "done", !.email = e, !.answer = "refused"]
             \in ReqType
        /\ [Idle EXCEPT !.op = "signup", !.pc = "form", !.email = e, !.user = u, !.name = n]
             \in ReqType
    BY DEF Idle, ReqType, Ops
  <2>2. req' \in [Request -> ReqType]
    BY <1>1, <1>3, <2>1 DEF Signup
  <2> QED
    BY <1>2, <1>3, <2>2 DEF Signup
<1>4. ASSUME NEW t \in Request, NEW w \in Workspace, SignupWorkspace(t, w) PROVE TypeOK'
  <2>1. req[t].name \in Name
    BY <1>0, <1>4 DEF Copies, Signing, SignupWorkspace
  <2>7. [req[t] EXCEPT !.pc = "member", !.ws = w] \in ReqType
    BY <1>1 DEF ReqType
  <2>8. req' = [req EXCEPT ![t] = [req[t] EXCEPT !.pc = "member", !.ws = w]]
    BY <1>1, <1>4 DEF SignupWorkspace, ReqType
  <2>2. req' \in [Request -> ReqType]
    BY <1>1, <2>7, <2>8
  <2>4. row'[w] = NewRow(req[t].name)
    BY <1>0, <1>4 DEF SignupWorkspace, TypeOK
  <2>5. row'[w].prefix \in Slug
    BY <2>1, <2>4, WorkspaceAssumption DEF NewRow
  <2>6. founded' \in [Workspace -> Slug \cup {None}]
    BY <1>0, <1>4, <2>5 DEF SignupWorkspace, TypeOK
  <2> QED
    BY <1>0, <1>4, <2>2, <2>6 DEF SignupWorkspace, TypeOK, ReqType
<1>5. ASSUME NEW t \in Request, SignupUserFails(t) \/ SignupFails(t) PROVE TypeOK'
  BY <1>1, <1>2, <1>5, FinishType DEF SignupUserFails, SignupFails
<1>23. ASSUME NEW t \in Request, SignupUser(t) PROVE TypeOK'
  <2>1. req[t].user \in User
    BY <1>0, <1>23 DEF SignupUser, Copies, Signing
  <2>7. [req[t] EXCEPT !.pc = "loaded", !.email = None] \in ReqType
    BY <1>1 DEF ReqType
  <2>8. req' = [req EXCEPT ![t] = [req[t] EXCEPT !.pc = "loaded", !.email = None]]
    BY <1>1, <1>23 DEF SignupUser, ReqType
  <2>2. req' \in [Request -> ReqType]
    BY <1>1, <2>7, <2>8
  <2> QED
    BY <1>0, <1>23, <2>1, <2>2 DEF SignupUser, TypeOK, ReqType
<1>24. ASSUME NEW t \in Request, SignupMember(t) PROVE TypeOK'
  <2>1. req[t].user \in User /\ req[t].ws \in Workspace
    BY <1>0, <1>24 DEF SignupMember, Copies, Signing
  <2>2. req' \in [Request -> ReqType]
    BY <1>1, <1>24, FinishType DEF SignupMember
  <2> QED
    BY <1>0, <1>24, <2>1, <2>2 DEF SignupMember, TypeOK, ReqType
<1>6. ASSUME NEW t \in Request, NEW u \in User, NEW w \in Workspace, NEW what \in Ops,
             Open(t, u, w, what)
      PROVE  TypeOK'
  <2>1. row[w] \in Row
    BY <1>0, <1>6 DEF Open, Exists, TypeOK
  <2>2. /\ [Idle EXCEPT !.op = what, !.pc = "done",
                        !.answer = IF Ready(row[w]) THEN "ok" ELSE "redirected"] \in ReqType
        /\ [Idle EXCEPT !.op = what, !.pc = "loaded", !.ws = w, !.obj = row[w]] \in ReqType
    BY <2>1 DEF Idle, ReqType
  <2>3. req' \in [Request -> ReqType]
    BY <1>1, <1>6, <2>2 DEF Open
  <2> QED
    BY <1>2, <1>6, <2>3 DEF Open
<1>7. Demo \in Connection
  BY WorkspaceAssumption DEF Demo, Connection
<1>8. ASSUME NEW t \in Request, req[t].pc = "loaded", req[t].op # "signup"
      PROVE  req[t].ws \in Workspace /\ req[t].obj \in Row
  BY <1>0, <1>1, <1>8 DEF Copies, ReqType
<1>9. ASSUME NEW t \in Request, NEW link \in {"demo", "custom"},
             NEW h \in Host \cup {None}, NEW s \in Secret \cup {None},
             NEW enabled \in BOOLEAN, NEW i \in Interval,
             Settings(t, link, h, s, enabled, i)
      PROVE  TypeOK'
  <2> DEFINE c == WithConnection(req[t].obj, link, h, s)
             a == WithApi(c, enabled)
             o == [a EXCEPT !.every = i]
             w == req[t].ws
             told == IF link = "demo" THEN Demo
                     ELSE IF s = None \/ s \in Ciphertext THEN None
                     ELSE [host |-> h, secret |-> s]
  <2>1. req[t].pc = "loaded" /\ req[t].op # "signup" /\ lastToken < MaxToken
    BY <1>9 DEF Settings, Loaded
  <2>2. c \in Row
    BY <1>0, <1>8, <2>1, ConnectionType DEF TypeOK
  <2>3. a \in Row /\ NextToken \in 0..MaxToken
    BY <1>0, <2>1, <2>2, ApiType DEF TypeOK
  <2>4. o.token \in 0..MaxToken
    BY <2>3 DEF Row
  <2>5. /\ req' \in [Request -> ReqType]
        /\ UNCHANGED <<users, member, key, sync, founded>>
    BY <1>1, <1>9, FinishType DEF Settings
  <2>6. CASE Valid(req[t].obj, link, h, s) /\ MaySave(w)
    <3>1. told \in Connection \cup {None}
      BY <1>7, <2>6 DEF Connection, Valid
    <3>2. /\ lastToken' = IF o.token = NextToken THEN NextToken ELSE lastToken
          /\ chosen' = [chosen EXCEPT ![w] = told]
          /\ shown' = [shown EXCEPT ![w] = IF ~enabled \/ Stale(t) THEN 0
                                           ELSE IF @ = 0 THEN o.token ELSE @]
      BY <1>9, <2>6 DEF Settings
    <3> HIDE DEF told, o
    <3>3. lastToken' \in 0..MaxToken /\ chosen' \in [Workspace -> Connection \cup {None}]
      BY <1>0, <2>3, <3>1, <3>2 DEF TypeOK
    <3>4. shown' \in [Workspace -> 0..MaxToken]
      <4>1. w \in Workspace /\ shown \in [Workspace -> 0..MaxToken] /\ 0 \in 0..MaxToken
        BY <1>0, <1>8, <2>1, WorkspaceAssumption DEF TypeOK
      <4>2. (IF ~enabled \/ Stale(t) THEN 0
             ELSE IF shown[w] = 0 THEN o.token ELSE shown[w]) \in 0..MaxToken
        BY <2>4, <4>1
      <4> QED
        BY <3>2, <4>1, <4>2
    <3> QED
      BY <1>0, <2>5, <3>3, <3>4 DEF TypeOK, ReqType
  <2>7. CASE ~(Valid(req[t].obj, link, h, s) /\ MaySave(w))
    BY <1>2, <1>9, <2>5, <2>7 DEF Settings
  <2> QED
    BY <2>6, <2>7
<1>10. ASSUME NEW t \in Request, NEW want \in BOOLEAN, Regenerate(t, want) PROVE TypeOK'
  <2>1. req' \in [Request -> ReqType]
    BY <1>1, <1>10, FinishType DEF Regenerate
  <2>2. NextToken \in 0..MaxToken
    BY <1>0, <1>10, WorkspaceAssumption DEF Regenerate, NextToken, TypeOK
  <2> QED
    BY <1>0, <1>10, <2>1, <2>2 DEF Regenerate, TypeOK, ReqType
<1>11. ASSUME NEW t \in Request, Clear(t) PROVE TypeOK'
  <2>1. req' \in [Request -> ReqType]
    BY <1>1, <1>11, FinishType DEF Clear
  <2>2. 0 \in 0..MaxToken
    BY WorkspaceAssumption
  <2> QED
    BY <1>0, <1>7, <1>11, <2>1, <2>2 DEF Clear, TypeOK, ReqType
<1>12. ASSUME NEW t \in Request, NEW link \in {"demo", "custom"},
              NEW h \in Host \cup {None}, NEW s \in Secret \cup {None},
              NEW answers \in BOOLEAN, Test(t, link, h, s, answers)
       PROVE  TypeOK'
  BY <1>1, <1>2, <1>12, FinishType DEF Test
<1>13. ASSUME NEW k \in MasterKey \cup {None}, Restart(k) PROVE TypeOK'
  <2>1. req' \in [Request -> ReqType]
    BY <1>1, <1>13 DEF Restart, Idle, ReqType
  <2>2. sync' \in [pc : {"idle", "fetch"}, since : Age,
                   plan : [Workspace -> Connection \cup {None}], fetched : SUBSET Workspace]
    BY <1>13, WorkspaceAssumption DEF Restart, Resting, Age
  <2>3. chosen' \in [Workspace -> Connection \cup {None}]
    BY <1>0, <1>13 DEF Restart, TypeOK
  <2> QED
    BY <1>0, <1>13, <2>1, <2>2, <2>3 DEF Restart, TypeOK, ReqType
<1>14. ASSUME Minute PROVE TypeOK'
  <2>1. ASSUME NEW t \in Request, req[t].obj # None
        PROVE  [req[t] EXCEPT !.obj.age = Older(@)] \in ReqType
    <3>1. req[t].obj \in Row
      BY <1>1, <2>1 DEF ReqType
    <3>2. Older(req[t].obj.age) \in Age \cup {None}
      BY <3>1, OlderType DEF Row
    <3>3. [req[t].obj EXCEPT !.age = Older(@)] \in Row
      BY <3>1, <3>2 DEF Row
    <3> QED
      BY <1>1, <3>3 DEF ReqType
  <2>2. req' \in [Request -> ReqType]
    BY <1>1, <1>14, <2>1 DEF Minute
  <2>3. (IF sync.pc = "idle" THEN 0 ELSE Older(sync.since)) \in Age
    BY <1>0, WorkspaceAssumption DEF TypeOK, Age, Older
  <2>4. sync' \in [pc : {"idle", "fetch"}, since : Age,
                   plan : [Workspace -> Connection \cup {None}], fetched : SUBSET Workspace]
    BY <1>0, <1>14, <2>3 DEF Minute, TypeOK
  <2> QED
    BY <1>0, <1>14, <2>2, <2>4 DEF Minute, TypeOK, ReqType
\* The sync.
<1>15. ASSUME UNCHANGED <<users, member, key, req, chosen, lastToken, shown, founded>>,
              sync' \in [pc : {"idle", "fetch"}, since : Age,
                         plan : [Workspace -> Connection \cup {None}],
                         fetched : SUBSET Workspace]
       PROVE  TypeOK'
  BY <1>0, <1>15 DEF TypeOK
<1>16. ASSUME SyncStarts PROVE TypeOK'
  <2>1. ASSUME NEW w \in DueNow PROVE Resolved(row[w]) \in Connection
    BY <1>0, <2>1, ResolvedType DEF DueNow, Due, TypeOK
  <2>2. [w \in Workspace |-> IF w \in DueNow THEN Resolved(row[w]) ELSE None]
          \in [Workspace -> Connection \cup {None}]
    BY <2>1
  <2>3. 0 \in Age
    BY WorkspaceAssumption DEF Age
  <2> QED
    BY <1>15, <1>16, <2>2, <2>3 DEF SyncStarts, Resting
<1>17. ASSUME NEW h \in Host, NEW answers \in BOOLEAN, Fetch(h, answers) PROVE TypeOK'
  <2>1. Group(h) \subseteq Workspace /\ {} \subseteq Workspace
    BY DEF Group, Planned
  <2>2. PICK w \in Group(h) :
          sync' = [sync EXCEPT
            !.plan = [v \in Workspace |-> IF v \in Group(h) THEN None ELSE @[v]],
            !.fetched = IF answers /\ sync.plan[w].secret = Accepts[h] THEN Group(h) ELSE {}]
    BY <1>17 DEF Fetch
  <2>3. [v \in Workspace |-> IF v \in Group(h) THEN None ELSE sync.plan[v]]
          \in [Workspace -> Connection \cup {None}]
    BY <1>0 DEF TypeOK
  <2>4. sync' \in [pc : {"idle", "fetch"}, since : Age,
                   plan : [Workspace -> Connection \cup {None}], fetched : SUBSET Workspace]
    BY <1>0, <2>1, <2>2, <2>3 DEF TypeOK
  <2> QED
    BY <1>15, <1>17, <2>4 DEF Fetch
<1>18. ASSUME NEW w \in Workspace, Stamp(w) PROVE TypeOK'
  BY <1>0, <1>15, <1>18 DEF Stamp, TypeOK
<1>19. ASSUME SyncEnds PROVE TypeOK'
  BY <1>15, <1>19, WorkspaceAssumption DEF SyncEnds, Resting, Age
<1>20. CASE UNCHANGED vars
  BY <1>1, <1>2, <1>20 DEF vars
<1>21. ASSUME NEW t \in Request, Handle(t) PROVE TypeOK'
  BY <1>4, <1>5, <1>9, <1>10, <1>11, <1>12, <1>21, <1>23, <1>24 DEF Handle
<1>22. CASE Next
  BY <1>3, <1>6, <1>13, <1>14, <1>16, <1>17, <1>18, <1>19, <1>21, <1>22
     DEF Next, SyncStep
<1> QED
  BY <1>20, <1>22

\* A handler leaves the sync alone and, unless it is a signup that goes on, ends its
\* request.
LEMMA HandleEnds ==
  ASSUME NEW t \in Request, Handle(t)
  PROVE  /\ UNCHANGED <<key, sync>>
         /\ \/ SignupUser(t) \/ \E w \in Workspace : SignupWorkspace(t, w)
            \/ UNCHANGED users /\ \E how : Finish(t, how)
<1>1. CASE SignupUser(t) \/ \E w \in Workspace : SignupWorkspace(t, w)
  BY <1>1 DEF SignupUser, SignupWorkspace
<1>2. ASSUME SignupUserFails(t) \/ SignupFails(t) \/ SignupMember(t)
      PROVE  UNCHANGED <<users, key, sync>> /\ \E how : Finish(t, how)
  BY <1>2 DEF SignupUserFails, SignupFails, SignupMember
<1>3. ASSUME NEW link, NEW h, NEW s, NEW enabled, NEW i,
             Settings(t, link, h, s, enabled, i)
      PROVE  UNCHANGED <<users, key, sync>> /\ \E how : Finish(t, how)
  BY <1>3 DEF Settings
<1>4. ASSUME NEW link, NEW h, NEW s, NEW answers, Test(t, link, h, s, answers)
      PROVE  UNCHANGED <<users, key, sync>> /\ \E how : Finish(t, how)
  BY <1>4 DEF Test
<1>5. ASSUME NEW want, Regenerate(t, want)
      PROVE  UNCHANGED <<users, key, sync>> /\ \E how : Finish(t, how)
  BY <1>5 DEF Regenerate
<1>6. ASSUME Clear(t)
      PROVE  UNCHANGED <<users, key, sync>> /\ \E how : Finish(t, how)
  BY <1>6 DEF Clear
<1> QED
  BY <1>1, <1>2, <1>3, <1>4, <1>5, <1>6 DEF Handle

\* Copies stay copies, because rows stay.
LEMMA CopiesStep == ASSUME TypeInv, [Next]_vars PROVE Copies'
<1>0. /\ TypeOK /\ Copies
      /\ \A w \in Workspace : Exists(w) => Exists(w)' /\ row'[w].name = row[w].name
  BY RowChange, RowsStay DEF TypeInv, Stays
<1>1. req \in [Request -> ReqType] /\ row \in [Workspace -> Row \cup {None}]
  BY <1>0 DEF TypeOK, ReqType
<1> DEFINE Copied(t) ==
             /\ Signing(req[t])
             /\ req[t].pc = "loaded" /\ req[t].op # "signup" =>
                  /\ req[t].obj # None /\ req[t].ws \in Workspace /\ Exists(req[t].ws)
                  /\ req[t].obj.name = row[req[t].ws].name
<1>2. \A t \in Request : Copied(t)
  BY <1>0 DEF Copies
\* Requests that no step touches, or that it ends.
<1>3. ASSUME NEW t \in Request, users \subseteq users',
             req'[t] = req[t] \/ req'[t].pc \in {"idle", "done"}
      PROVE  Copied(t)'
  <2>1. CASE req'[t].pc \in {"idle", "done"}
    BY <2>1 DEF Signing
  <2>2. CASE req'[t] = req[t]
    BY <1>0, <1>2, <1>3, <2>2 DEF Signing
  <2> QED
    BY <1>3, <2>1, <2>2
<1>4. ASSUME req' = req, users' = users PROVE Copies'
  BY <1>3, <1>4 DEF Copies
<1>5. ASSUME NEW t \in Request, NEW how, Finish(t, how), users' = users PROVE Copies'
  <2>1. \A u \in Request : req'[u] = req[u] \/ req'[u].pc = "done"
    BY <1>1, <1>5 DEF Finish, ReqType
  <2> QED
    BY <1>3, <1>5, <2>1 DEF Copies
<1>6. ASSUME NEW t \in Request, NEW u \in User, NEW e \in User, NEW n \in Name,
             Signup(t, u, e, n)
      PROVE  Copies'
  <2>1. \A x \in Request \ {t} : req'[x] = req[x]
    BY <1>1, <1>6 DEF Signup
  <2>2. \/ req'[t].pc = "done"
        \/ /\ req'[t].pc = "form" /\ req'[t].op = "signup" /\ req'[t].email = e
           /\ req'[t].name = n /\ req'[t].user = u
    BY <1>1, <1>6 DEF Signup, Idle
  <2>3. Copied(t)'
    BY <2>2, NoneAssumption, WorkspaceAssumption DEF Signing
  <2> QED
    BY <1>3, <1>6, <2>1, <2>3 DEF Copies, Signup
<1>14. ASSUME NEW t \in Request, SignupUser(t) PROVE Copies'
  <2>1. \A x \in Request \ {t} : req'[x] = req[x]
    BY <1>1, <1>14 DEF SignupUser
  <2>2. /\ req'[t].pc = "loaded" /\ req'[t].email = None /\ req'[t].op = req[t].op
        /\ req'[t].name = req[t].name /\ req'[t].user = req[t].user
        /\ req[t].user \in users' /\ users \subseteq users'
    BY <1>1, <1>14 DEF SignupUser, ReqType
  <2>3. Copied(t)'
    BY <1>2, <1>14, <2>2 DEF SignupUser, Signing
  <2> QED
    BY <1>3, <2>1, <2>2, <2>3 DEF Copies
<1>15. ASSUME NEW t \in Request, NEW w \in Workspace, SignupWorkspace(t, w) PROVE Copies'
  <2>1. \A x \in Request \ {t} : req'[x] = req[x]
    BY <1>1, <1>15 DEF SignupWorkspace
  <2>2. /\ req'[t].pc = "member" /\ req'[t].email = req[t].email /\ req'[t].op = req[t].op
        /\ req'[t].name = req[t].name /\ req'[t].user = req[t].user /\ req'[t].ws = w
        /\ users' = users
    BY <1>1, <1>15 DEF SignupWorkspace, ReqType
  <2>3. Copied(t)'
    BY <1>2, <1>15, <2>2 DEF SignupWorkspace, Signing
  <2> QED
    BY <1>3, <2>1, <2>2, <2>3 DEF Copies
<1>7. ASSUME NEW t \in Request, NEW u \in User, NEW w \in Workspace,
             NEW what \in Ops \ {"signup"}, Open(t, u, w, what)
      PROVE  Copies'
  <2>1. users' = users /\ \A x \in Request \ {t} : req'[x] = req[x]
    BY <1>1, <1>7 DEF Open
  <2>2. CASE what = "console"
    <3>1. req'[t].pc = "done"
      BY <1>1, <1>7, <2>2 DEF Open, Idle
    <3> QED
      BY <1>3, <2>1, <3>1 DEF Copies
  <2>3. CASE what # "console"
    <3>1. req'[t].op = what /\ req'[t].ws = w /\ req'[t].obj = row[w] /\ req'[t].pc = "loaded"
      BY <1>1, <1>7, <2>3 DEF Open, Idle
    <3>2. Exists(w) /\ Exists(w)' /\ row'[w] = row[w]
      BY <1>0, <1>7 DEF Open
    <3> QED
      BY <1>3, <2>1, <3>1, <3>2 DEF Copies, Exists, Signing
  <2> QED
    BY <2>2, <2>3
<1>8. ASSUME Minute PROVE Copies'
  <2> SUFFICES ASSUME NEW t \in Request PROVE Copied(t)'
    BY DEF Copies
  <2>1. CASE req[t].obj = None
    BY <1>1, <1>3, <1>8, <2>1 DEF Minute
  <2>2. CASE req[t].obj # None
    <3>1. req[t].obj \in Row
      BY <1>1, <2>2 DEF ReqType
    <3>2. req'[t] = [req[t] EXCEPT !.obj.age = Older(@)]
      BY <1>8, <2>2 DEF Minute
    <3>3. /\ req'[t].pc = req[t].pc /\ req'[t].op = req[t].op /\ req'[t].ws = req[t].ws
          /\ req'[t].name = req[t].name /\ req'[t].user = req[t].user
          /\ req'[t].email = req[t].email
          /\ req'[t].obj = [req[t].obj EXCEPT !.age = Older(@)]
      BY <1>1, <3>2 DEF ReqType
    <3>4. Older(req[t].obj.age) \in Age \cup {None}
      BY <3>1, OlderType DEF Row
    <3>5. req'[t].obj \in Row /\ req'[t].obj.name = req[t].obj.name
      BY <3>1, <3>3, <3>4 DEF Row
    <3>6. users' = users
      BY <1>8 DEF Minute
    <3> QED
      BY <1>0, <1>2, <3>3, <3>5, <3>6, NoneAssumption DEF Signing
  <2> QED
    BY <2>1, <2>2
<1>9. ASSUME NEW k \in MasterKey \cup {None}, Restart(k) PROVE Copies'
  BY <1>1, <1>3, <1>9 DEF Restart, Idle, Copies
<1>10. ASSUME NEW t \in Request, Handle(t) PROVE Copies'
  BY <1>5, <1>10, <1>14, <1>15, HandleEnds
<1>11. CASE UNCHANGED vars
  BY <1>4, <1>11 DEF vars
<1>12. ASSUME SyncStarts \/ SyncStep PROVE Copies'
  BY <1>4, <1>12 DEF SyncStarts, SyncStep, Fetch, Stamp, SyncEnds
<1>13. CASE Next
  BY <1>6, <1>7, <1>8, <1>9, <1>10, <1>12, <1>13 DEF Next
<1> QED
  BY <1>11, <1>13

\* The sync goes on being about workspaces that exist.
LEMMA SyncedStep == ASSUME TypeInv, [Next]_vars PROVE Synced'
<1>0. /\ TypeOK /\ Synced
      /\ \A w \in Workspace : Exists(w) => Exists(w)'
  BY RowChange, RowsStay DEF TypeInv, Stays
<1>1. ASSUME \A w \in Workspace : /\ w \in sync'.fetched => Exists(w)
                                  /\ sync'.plan[w] # None => Exists(w)
      PROVE  Synced'
  BY <1>0, <1>1 DEF Synced
<1>2. ASSUME sync' = Resting PROVE Synced'
  BY <1>1, <1>2 DEF Resting
<1>3. ASSUME sync'.fetched = sync.fetched, sync'.plan = sync.plan PROVE Synced'
  BY <1>0, <1>1, <1>3 DEF Synced
<1>4. ASSUME SyncStarts PROVE Synced'
  <2>1. /\ sync'.fetched = {}
        /\ sync'.plan = [w \in Workspace |-> IF w \in DueNow THEN Resolved(row[w]) ELSE None]
    BY <1>4 DEF SyncStarts, Resting
  <2>2. \A w \in DueNow : Exists(w)
    BY DEF DueNow, Due, Exists
  <2> QED
    BY <1>1, <2>1, <2>2
<1>5. ASSUME NEW h \in Host, NEW answers \in BOOLEAN, Fetch(h, answers) PROVE Synced'
  <2>1. \A w \in Group(h) : w \in Workspace /\ sync.plan[w] # None
    BY DEF Group, Planned
  <2>2. sync'.plan = [v \in Workspace |-> IF v \in Group(h) THEN None ELSE sync.plan[v]]
    BY <1>0, <1>5 DEF Fetch, TypeOK
  <2>3. sync'.fetched \subseteq Group(h)
    BY <1>0, <1>5 DEF Fetch, TypeOK
  <2> QED
    BY <1>0, <1>1, <2>1, <2>2, <2>3 DEF Synced
<1>6. ASSUME NEW w \in Workspace, Stamp(w) PROVE Synced'
  <2>1. sync'.fetched = sync.fetched \ {w} /\ sync'.plan = sync.plan
    BY <1>0, <1>6 DEF Stamp, TypeOK
  <2> QED
    BY <1>0, <1>1, <2>1 DEF Synced
<1>7. ASSUME Minute PROVE Synced'
  BY <1>0, <1>3, <1>7 DEF Minute, TypeOK
<1>8. ASSUME sync' = sync PROVE Synced'
  BY <1>3, <1>8
<1>9. ASSUME NEW t \in Request, Handle(t) PROVE Synced'
  BY <1>8, <1>9, HandleEnds
<1>10. ASSUME NEW k \in MasterKey \cup {None}, Restart(k) PROVE Synced'
  BY <1>2, <1>10 DEF Restart
<1>11. ASSUME SyncStep PROVE Synced'
  BY <1>2, <1>5, <1>6, <1>11 DEF SyncStep, SyncEnds
<1>12. CASE UNCHANGED vars
  BY <1>8, <1>12 DEF vars
<1>13. CASE Next
  BY <1>4, <1>7, <1>8, <1>9, <1>10, <1>11, <1>13 DEF Next, Signup, Open
<1> QED
  BY <1>12, <1>13

-----------------------------------------------------------------------------
(* The first state, and the first theorems.                                *)

\* Whoever signed up first.
LEMMA FirstRow ==
  ASSUME Init
  PROVE  \E w \in Workspace, u \in User, n \in Name, o \in Row :
           /\ o.name = n /\ o.prefix = Prefix(n)
           /\ users = {u} /\ member = {<<w, u>>}
           /\ row = [x \in Workspace |-> IF x = w THEN o ELSE None]
           /\ founded = [x \in Workspace |-> IF x = w THEN o.prefix ELSE None]
<1> DEFINE w == CHOOSE x \in Workspace : TRUE
           u == CHOOSE x \in User : TRUE
           o(n, demo) == [NewRow(n) EXCEPT !.link = IF demo THEN "demo" ELSE @]
<1>1. w \in Workspace /\ u \in User
  BY WorkspaceAssumption
<1>2. PICK n \in Name, demo \in BOOLEAN :
        /\ users = {u} /\ member = {<<w, u>>}
        /\ row = [x \in Workspace |-> IF x = w THEN o(n, demo) ELSE None]
        /\ founded = [x \in Workspace |-> IF x = w THEN o(n, demo).prefix ELSE None]
  BY DEF Init
<1>3. NewRow(n) \in Row /\ NewRow(n).name = n /\ NewRow(n).prefix = Prefix(n)
  BY NewRowType DEF NewRow, Prefix
<1>4. o(n, demo) \in Row /\ o(n, demo).name = n /\ o(n, demo).prefix = Prefix(n)
  BY <1>3 DEF Row
<1> HIDE DEF w, u, o
<1> QED
  BY <1>1, <1>2, <1>4

\* The first state has the types, copies nothing and is named well.
LEMMA FirstState == ASSUME Init PROVE TypeInv /\ Named
<1>1. PICK w \in Workspace, u \in User, n \in Name, o \in Row :
        /\ o.name = n /\ o.prefix = Prefix(n)
        /\ users = {u} /\ member = {<<w, u>>}
        /\ row = [x \in Workspace |-> IF x = w THEN o ELSE None]
        /\ founded = [x \in Workspace |-> IF x = w THEN o.prefix ELSE None]
  BY FirstRow
<1>2. /\ req = [t \in Request |-> Idle] /\ sync = Resting /\ key \in MasterKey \cup {None}
      /\ chosen = [x \in Workspace |-> None] /\ lastToken = 0
      /\ shown = [x \in Workspace |-> 0]
  BY DEF Init
<1>3. Prefix(n) \in Slug
  BY WorkspaceAssumption DEF Prefix
<1>4. req \in [Request -> ReqType]
  BY <1>2 DEF Idle, ReqType
<1>5. sync \in [pc : {"idle", "fetch"}, since : Age,
                plan : [Workspace -> Connection \cup {None}], fetched : SUBSET Workspace]
  BY <1>2, WorkspaceAssumption DEF Resting, Age
<1>6. 0 \in 0..MaxToken
  BY WorkspaceAssumption
<1>7. TypeOK
  BY <1>1, <1>2, <1>3, <1>4, <1>5, <1>6 DEF TypeOK, ReqType
<1>8. Copies
  BY <1>2 DEF Copies, Idle, Signing
<1>9. Synced
  BY <1>2 DEF Synced, Resting
<1>10. Named
  BY <1>1 DEF Named, Exists
<1> QED
  BY <1>7, <1>8, <1>9, <1>10 DEF TypeInv

\* Types, copies and names are kept by every step.
LEMMA Inductive == TypeInv /\ Named /\ [Next]_vars => (TypeInv /\ Named)'
BY TypeStep, CopiesStep, SyncedStep, RowChange, NamedStep DEF TypeInv

\* Whatever the requests, the sync and restarts do, every variable keeps its type.
THEOREM WorkspaceTypes == Spec => []TypeOK
<1>1. Init => TypeInv /\ Named
  BY FirstState
<1>2. TypeInv /\ Named /\ [Next]_vars => (TypeInv /\ Named)'
  BY Inductive
<1>3. TypeInv => TypeOK
  BY DEF TypeInv
<1> QED
  BY <1>1, <1>2, <1>3, PTL DEF Spec

\* Although every save generates the prefix again, for every set of names and slugs, a
\* workspace keeps the prefix its Jasmin objects were named with.
THEOREM PrefixesKept == Spec => []PrefixKept
<1>1. Init => TypeInv /\ Named
  BY FirstState
<1>2. TypeInv /\ Named /\ [Next]_vars => (TypeInv /\ Named)'
  BY Inductive
<1>3. Named => PrefixKept
  BY DEF Named, PrefixKept
<1> QED
  BY <1>1, <1>2, <1>3, PTL DEF Spec

-----------------------------------------------------------------------------
(* Tokens and connections.                                                 *)

\* A step that leaves the token of a workspace, and what its clients were given.
Quiet(w) ==
  /\ shown'[w] = shown[w]
  /\ Exists(w) => /\ Exists(w)' /\ row'[w].enabled = row[w].enabled
                  /\ row'[w].token = row[w].token

LEMMA QuietStep ==
  ASSUME ShownTokenWorks, NEW w \in Workspace, Quiet(w)
  PROVE  shown'[w] # 0 => Authenticates(shown[w], w)'
BY DEF ShownTokenWorks, Authenticates, Quiet, Exists

\* A token that clients were given works through every save: a form that was loaded
\* before another request saved either carries the same token or takes it back.
LEMMA ShownStep ==
  ASSUME TypeInv, ShownTokenWorks, [Next]_vars PROVE ShownTokenWorks'
<1>0. /\ TypeOK /\ Copies /\ Synced
      /\ row \in [Workspace -> Row \cup {None}] /\ shown \in [Workspace -> 0..MaxToken]
      /\ \A w \in Workspace : Exists(w) => Exists(w)' /\ row[w] \in Row
      /\ key \in MasterKey \cup {None}
  BY RowChange, RowsStay DEF TypeInv, TypeOK, Stays, Exists
<1>1. ASSUME \A w \in Workspace : Quiet(w) PROVE ShownTokenWorks'
  BY <1>1, QuietStep DEF ShownTokenWorks, Authenticates, Exists
<1>2. ASSUME UNCHANGED <<row, shown>> PROVE ShownTokenWorks'
  BY <1>2 DEF ShownTokenWorks, Authenticates, Exists
\* A step that writes the row of v alone.
<1>3. ASSUME NEW v \in Workspace,
             \A w \in Workspace \ {v} : row'[w] = row[w] /\ shown'[w] = shown[w],
             shown'[v] # 0 => Authenticates(shown[v], v)'
      PROVE  ShownTokenWorks'
  <2>1. \A w \in Workspace \ {v} : Quiet(w)
    BY <1>0, <1>3 DEF Quiet, Exists
  <2> QED
    BY <1>3, <2>1, QuietStep DEF ShownTokenWorks, Authenticates, Exists
<1>4. ASSUME NEW t \in Request, req[t].pc = "loaded", req[t].op # "signup"
      PROVE  /\ req[t].ws \in Workspace /\ Exists(req[t].ws) /\ row[req[t].ws] \in Row
             /\ req[t].obj \in Row
  BY <1>0, <1>4 DEF Copies, TypeOK
<1>5. ASSUME NEW t \in Request, NEW v \in Workspace, SignupWorkspace(t, v)
      PROVE  ShownTokenWorks'
  <2>1. shown[v] = 0
    BY <1>5 DEF SignupWorkspace, ShownTokenWorks, Authenticates
  <2> QED
    BY <1>0, <1>3, <1>5, <2>1 DEF SignupWorkspace
<1>6. ASSUME NEW t \in Request, NEW link \in {"demo", "custom"},
             NEW h \in Host \cup {None}, NEW s \in Secret \cup {None},
             NEW enabled \in BOOLEAN, NEW i \in Interval,
             Settings(t, link, h, s, enabled, i)
      PROVE  ShownTokenWorks'
  <2> DEFINE c == WithConnection(req[t].obj, link, h, s)
             a == WithApi(c, enabled)
             o == [a EXCEPT !.every = i]
  <2>1. req[t].pc = "loaded" /\ req[t].op # "signup" /\ lastToken < MaxToken
    BY <1>6 DEF Settings, Loaded
  <2>2. PICK v \in Workspace : v = req[t].ws /\ Exists(v) /\ row[v] \in Row
    BY <1>4, <2>1
  <2>3. c \in Row /\ c.enabled = req[t].obj.enabled /\ c.token = req[t].obj.token
    BY <1>0, <1>4, <2>1, ConnectionType
  <2>4. a \in Row /\ NextToken # 0
    BY <1>0, <2>1, <2>3, ApiType DEF TypeOK
  <2>5. /\ a.enabled = enabled
        /\ a.token = IF enabled /\ c.token = 0 THEN NextToken ELSE c.token
    BY <2>3 DEF WithApi, Row
  <2>6. /\ o \in Row /\ o.enabled = enabled
        /\ o.token = IF enabled /\ c.token = 0 THEN NextToken ELSE c.token
    BY <2>4, <2>5 DEF Row
  <2>7. CASE row' = Saves(v, o) /\ shown' = [shown EXCEPT ![v] =
               IF ~enabled \/ Stale(t) THEN 0 ELSE IF @ = 0 THEN o.token ELSE @]
    <3>1. /\ row'[v].enabled = enabled /\ row'[v].token = o.token
          /\ \A w \in Workspace \ {v} : row'[w] = row[w] /\ shown'[w] = shown[w]
      <4> HIDE DEF o
      <4>1. row'[v] = [o EXCEPT !.prefix = Prefix(o.name)]
        BY <1>0, <2>2, <2>7 DEF Saves
      <4>2. row'[v].enabled = o.enabled /\ row'[v].token = o.token
        BY <2>6, <4>1 DEF Row
      <4> QED
        BY <1>0, <2>2, <2>6, <2>7, <4>2 DEF Saves
    <3>2. shown'[v] = IF ~enabled \/ Stale(t) THEN 0
                      ELSE IF shown[v] = 0 THEN o.token ELSE shown[v]
      BY <1>0, <2>2, <2>7
    <3>3. shown[v] # 0 => row[v].token = shown[v]
      BY DEF ShownTokenWorks, Authenticates
    <3>4. shown'[v] # 0 => enabled /\ req[t].obj = row[v]
      BY <2>2, <3>2 DEF Stale
    <3>5. shown'[v] # 0 => o.token = shown'[v]
      BY <2>3, <2>4, <2>6, <3>2, <3>3, <3>4
    <3>6. Exists(v)'
      BY <1>0, <2>2
    <3>7. shown'[v] # 0 => Authenticates(shown[v], v)'
      BY <3>1, <3>4, <3>5, <3>6 DEF Authenticates, Exists
    <3> QED
      BY <1>3, <2>2, <3>1, <3>7
  <2>8. CASE UNCHANGED <<row, shown>>
    BY <1>2, <2>8
  <2>9. \/ row' = Saves(v, o) /\ shown' = [shown EXCEPT ![v] =
             IF ~enabled \/ Stale(t) THEN 0 ELSE IF @ = 0 THEN o.token ELSE @]
        \/ UNCHANGED <<row, shown>>
    BY <1>6, <2>2 DEF Settings
  <2> QED
    BY <2>7, <2>8, <2>9
<1>7. ASSUME NEW t \in Request, NEW want \in BOOLEAN, Regenerate(t, want)
      PROVE  ShownTokenWorks'
  <2>0. req[t].pc = "loaded" /\ req[t].op # "signup" /\ lastToken < MaxToken
    BY <1>7 DEF Regenerate, Loaded
  <2>1. PICK v \in Workspace : v = req[t].ws /\ Exists(v) /\ row[v] \in Row
    BY <1>4, <2>0
  <2>2. NextToken # 0
    BY <1>0, WorkspaceAssumption DEF NextToken, TypeOK
  <2>3. CASE row' = [row EXCEPT ![v].enabled = TRUE, ![v].token = NextToken]
             /\ shown' = [shown EXCEPT ![v] = NextToken]
    <3>1. /\ row'[v].enabled = TRUE /\ row'[v].token = NextToken /\ shown'[v] = NextToken
          /\ \A w \in Workspace \ {v} : row'[w] = row[w] /\ shown'[w] = shown[w]
      BY <1>0, <2>1, <2>3 DEF Row
    <3> QED
      BY <1>0, <1>3, <2>1, <2>2, <3>1 DEF Authenticates, Exists
  <2>4. CASE UNCHANGED <<row, shown>>
    BY <1>2, <2>4
  <2> QED
    BY <1>7, <2>1, <2>3, <2>4 DEF Regenerate
<1>8. ASSUME NEW t \in Request, Clear(t) PROVE ShownTokenWorks'
  <2> DEFINE o == WithConnection(req[t].obj, "demo", None, None)
  <2>0. req[t].pc = "loaded" /\ req[t].op # "signup"
    BY <1>8 DEF Clear, Loaded
  <2>1. PICK v \in Workspace : v = req[t].ws /\ Exists(v) /\ row[v] \in Row
    BY <1>4, <2>0
  <2>2. o \in Row /\ o.enabled = req[t].obj.enabled /\ o.token = req[t].obj.token
    <3>1. /\ "demo" \in {"demo", "custom"} /\ None \in Host \cup {None}
          /\ None \in Secret \cup {None} /\ req[t].obj \in Row
      BY <1>4, <2>0
    <3> QED
      BY <1>0, <3>1, ConnectionType
  <2>3. CASE row' = Saves(v, o) /\ shown' = [shown EXCEPT ![v] = IF Stale(t) THEN 0 ELSE @]
    <3> HIDE DEF o
    <3>1. row'[v] = [o EXCEPT !.prefix = Prefix(o.name)]
      BY <1>0, <2>1, <2>3 DEF Saves
    <3>2. row'[v].enabled = o.enabled /\ row'[v].token = o.token
      BY <2>2, <3>1 DEF Row
    <3>3. \A w \in Workspace \ {v} : row'[w] = row[w] /\ shown'[w] = shown[w]
      BY <1>0, <2>1, <2>3 DEF Saves
    <3>4. shown'[v] # 0 => shown'[v] = shown[v] /\ req[t].obj = row[v]
      BY <1>0, <2>1, <2>3 DEF Stale
    <3>5. shown'[v] # 0 => Quiet(v)
      BY <1>0, <2>1, <2>2, <3>2, <3>4 DEF Quiet
    <3>6. shown'[v] # 0 => Authenticates(shown[v], v)'
      BY <2>1, <3>5, QuietStep
    <3> QED
      BY <1>3, <2>1, <3>3, <3>6
  <2>4. CASE UNCHANGED <<row, shown>>
    BY <1>2, <2>4
  <2> QED
    BY <1>8, <2>1, <2>3, <2>4 DEF Clear
<1>9. ASSUME NEW t \in Request, NEW link, NEW h, NEW s, NEW answers,
             Test(t, link, h, s, answers)
      PROVE  ShownTokenWorks'
  <2>0. req[t].pc = "loaded" /\ req[t].op # "signup"
    BY <1>9 DEF Test, Loaded
  <2>1. PICK v \in Workspace : v = req[t].ws /\ Exists(v) /\ row[v] \in Row
    BY <1>4, <2>0
  <2>2. CASE row' = [row EXCEPT ![v].tested = TRUE] /\ shown' = shown
    <3>1. /\ \A w \in Workspace \ {v} : row'[w] = row[w]
          /\ row'[v].enabled = row[v].enabled /\ row'[v].token = row[v].token
      BY <1>0, <2>1, <2>2 DEF Row
    <3>2. \A w \in Workspace : Quiet(w)
      BY <1>0, <2>2, <3>1 DEF Quiet
    <3> QED
      BY <1>1, <3>2
  <2>3. CASE UNCHANGED <<row, shown>>
    BY <1>2, <2>3
  <2> QED
    BY <1>9, <2>1, <2>2, <2>3 DEF Test
<1>10. ASSUME NEW v \in Workspace, Stamp(v) PROVE ShownTokenWorks'
  <2>1. Exists(v) /\ row[v] \in Row
    BY <1>0, <1>10 DEF Stamp, Synced
  <2>2. /\ \A w \in Workspace \ {v} : row'[w] = row[w]
        /\ row'[v].enabled = row[v].enabled /\ row'[v].token = row[v].token
    BY <1>0, <1>10, <2>1 DEF Stamp, Row
  <2>3. \A w \in Workspace : Quiet(w)
    BY <1>0, <1>10, <2>2 DEF Quiet, Stamp
  <2> QED
    BY <1>1, <2>3
<1>11. ASSUME Minute PROVE ShownTokenWorks'
  <2>1. ASSUME NEW w \in Workspace, Exists(w)
        PROVE  row'[w].enabled = row[w].enabled /\ row'[w].token = row[w].token
    <3>1. row'[w] = [row[w] EXCEPT !.age = Older(@)]
      BY <1>11, <2>1 DEF Minute
    <3> QED
      BY <1>0, <2>1, <3>1 DEF Row
  <2>2. \A w \in Workspace : Quiet(w)
    BY <1>0, <1>11, <2>1 DEF Quiet, Minute
  <2> QED
    BY <1>1, <2>2
<1>12. ASSUME NEW t \in Request, Handle(t) PROVE ShownTokenWorks'
  <2>1. CASE SignupUser(t) \/ SignupUserFails(t) \/ SignupFails(t) \/ SignupMember(t)
    BY <1>2, <2>1 DEF SignupUser, SignupUserFails, SignupFails, SignupMember
  <2> QED
    BY <1>5, <1>6, <1>7, <1>8, <1>9, <1>12, <2>1 DEF Handle
<1>13. ASSUME SyncStarts \/ SyncStep PROVE ShownTokenWorks'
  BY <1>2, <1>10, <1>13 DEF SyncStarts, SyncStep, Fetch, SyncEnds
<1>14. CASE UNCHANGED vars
  BY <1>2, <1>14 DEF vars
<1>15. CASE Next
  BY <1>2, <1>11, <1>12, <1>13, <1>15 DEF Next, Signup, Open, Restart
<1> QED
  BY <1>14, <1>15

\* Whatever requests, syncs and restarts interleave: the token a workspace's clients
\* were given authenticates them.
THEOREM TokensWork == Spec => []ShownTokenWorks
<1>1. Init => TypeInv /\ Named /\ ShownTokenWorks
  BY FirstState DEF Init, ShownTokenWorks
<1>2. TypeInv /\ Named /\ ShownTokenWorks /\ [Next]_vars
        => (TypeInv /\ Named /\ ShownTokenWorks)'
  BY Inductive, ShownStep
<1> QED
  BY <1>1, <1>2, PTL DEF Spec

-----------------------------------------------------------------------------
(* The connection that was last reported as saved.                         *)

\* A custom connection that is kept as chosen was encrypted under today's key.
Resolving(w) == Exists(w) /\ Resolves(row[w]) /\ Resolved(row[w]) = chosen[w]
ChosenInv == \A w \in Workspace : chosen[w] # None => Resolving(w)

\* Only the connection, the password and the key decide how a row resolves.
LEMMA SameConnection ==
  ASSUME ChosenInv, NEW w \in Workspace, chosen[w] # None, chosen'[w] = chosen[w],
         Exists(w)', row'[w].link = row[w].link, row'[w].host = row[w].host,
         row'[w].password = row[w].password, row'[w].link = "demo" \/ key' = key
  PROVE  Resolving(w)'
BY DEF ChosenInv, Resolving, Resolves, Resolved, Ready, Decrypts, Demo

\* What is saved is what is reported, and nothing else changes a connection.
LEMMA ChosenStep == ASSUME TypeInv, ChosenInv, [Next]_vars PROVE ChosenInv'
<1>0. /\ TypeOK /\ Copies /\ Synced /\ key \in MasterKey \cup {None}
      /\ row \in [Workspace -> Row \cup {None}]
      /\ chosen \in [Workspace -> Connection \cup {None}]
      /\ \A w \in Workspace : Exists(w) => Exists(w)' /\ row[w] \in Row
  BY RowChange, RowsStay DEF TypeInv, TypeOK, Stays, Exists
<1> DEFINE Same(w) == Exists(w) => /\ row'[w].link = row[w].link
                                   /\ row'[w].host = row[w].host
                                   /\ row'[w].password = row[w].password
<1>1. ASSUME NEW v \in Workspace, key' = key,
             \A w \in Workspace \ {v} : row'[w] = row[w] /\ chosen'[w] = chosen[w],
             chosen'[v] # None => Resolving(v)'
      PROVE  ChosenInv'
  <2>1. ASSUME NEW w \in Workspace \ {v}, chosen'[w] # None PROVE Resolving(w)'
    BY <1>1, <2>1 DEF ChosenInv, Resolving, Exists, Resolves, Resolved, Ready, Decrypts, Demo
  <2> QED
    BY <1>1, <2>1 DEF ChosenInv
<1>2. ASSUME chosen' = chosen, key' = key, \A w \in Workspace : Same(w)
      PROVE  ChosenInv'
  <2>1. ASSUME NEW w \in Workspace, chosen'[w] # None PROVE Resolving(w)'
    <3>1. Exists(w) /\ chosen[w] # None
      BY <1>2, <2>1 DEF ChosenInv, Resolving
    <3> QED
      BY <1>0, <1>2, <3>1, SameConnection
  <2> QED
    BY <2>1 DEF ChosenInv
<1>3. ASSUME UNCHANGED <<row, chosen, key>> PROVE ChosenInv'
  BY <1>2, <1>3
<1>4. ASSUME NEW t \in Request, req[t].pc = "loaded", req[t].op # "signup"
      PROVE  /\ req[t].ws \in Workspace /\ Exists(req[t].ws) /\ row[req[t].ws] \in Row
             /\ req[t].obj \in Row
  BY <1>0, <1>4 DEF Copies, TypeOK
\* A row whose saved connection is c.
<1>5. ASSUME NEW v \in Workspace, NEW o \in Row, row' = Saves(v, o), key' = key,
             Resolves(o)
      PROVE  /\ row'[v] # None /\ Resolves(row[v])' /\ Resolved(row[v])' = Resolved(o)
             /\ \A w \in Workspace \ {v} : row'[w] = row[w]
  <2>1. row'[v] = [o EXCEPT !.prefix = Prefix(o.name)]
    BY <1>0, <1>5 DEF Saves
  <2>2. /\ row'[v].link = o.link /\ row'[v].host = o.host
        /\ row'[v].password = o.password
    BY <2>1 DEF Row
  <2>3. Prefix(o.name) \in {Squeeze[s] : s \in Slug}
    BY WorkspaceAssumption DEF Prefix, Row
  <2>4. row'[v] \in Row
    BY <2>1, <2>3 DEF Row
  <2> QED
    BY <1>0, <1>5, <2>2, <2>4, NoneAssumption
       DEF Saves, Resolves, Resolved, Ready, Decrypts, Demo
<1>6. ASSUME NEW t \in Request, NEW v \in Workspace, SignupWorkspace(t, v)
      PROVE  ChosenInv'
  <2>1. chosen[v] = None
    BY <1>6 DEF SignupWorkspace, ChosenInv, Resolving
  <2> QED
    BY <1>0, <1>1, <1>6, <2>1 DEF SignupWorkspace
<1>7. ASSUME NEW t \in Request, NEW link \in {"demo", "custom"},
             NEW h \in Host \cup {None}, NEW s \in Secret \cup {None},
             NEW enabled \in BOOLEAN, NEW i \in Interval,
             Settings(t, link, h, s, enabled, i)
      PROVE  ChosenInv'
  <2> DEFINE c == WithConnection(req[t].obj, link, h, s)
             a == WithApi(c, enabled)
             o == [a EXCEPT !.every = i]
             told == IF link = "demo" THEN Demo
                     ELSE IF s = None \/ s \in Ciphertext THEN None
                     ELSE [host |-> h, secret |-> s]
  <2>1. /\ req[t].pc = "loaded" /\ req[t].op # "signup" /\ lastToken < MaxToken
        /\ key' = key
    BY <1>7 DEF Settings, Loaded
  <2>2. PICK v \in Workspace : v = req[t].ws
    BY <1>4, <2>1
  <2>3. c \in Row
    BY <1>0, <1>4, <2>1, ConnectionType
  <2>4. /\ c.link = link /\ c.host = IF link = "demo" THEN None ELSE h
        /\ c.password = IF link = "demo" \/ s = None THEN None ELSE Encrypt(s)
    BY <1>4, <2>1 DEF WithConnection, Row
  <2>5. a \in Row /\ a.link = c.link /\ a.host = c.host /\ a.password = c.password
    BY <1>0, <2>1, <2>3, ApiType DEF TypeOK
  <2>6. o \in Row /\ o.link = a.link /\ o.host = a.host /\ o.password = a.password
    BY <2>5 DEF Row
  <2> HIDE DEF o
  <2>7. CASE Valid(req[t].obj, link, h, s) /\ row' = Saves(v, o)
             /\ chosen' = [chosen EXCEPT ![v] = told]
    <3>1. chosen'[v] = told /\ \A w \in Workspace \ {v} : chosen'[w] = chosen[w]
      BY <1>0, <2>7
    <3>2. ASSUME told # None PROVE Resolves(o) /\ Resolved(o) = told
      <4>1. CASE link = "demo"
        BY <2>4, <2>5, <2>6, <4>1 DEF Resolves, Ready, Resolved
      <4>2. CASE link = "custom"
        <5>1. s # None /\ s \notin Ciphertext /\ told = [host |-> h, secret |-> s]
          BY <3>2, <4>2
        <5>2. h # None /\ key # None
          BY <2>7, <4>2 DEF Valid
        <5>3. o.link = "custom" /\ o.host = h /\ o.password = [key |-> key, secret |-> s]
          BY <2>4, <2>5, <2>6, <4>2, <5>1 DEF Encrypt
        <5>4. key \in MasterKey /\ s \in Secret
          BY <1>0, <5>1, <5>2
        <5>5. o.password \in Kept
          BY <5>3, <5>4 DEF Kept
        <5>6. o.password # None /\ Decrypts(o.password)
          BY <5>2, <5>3, <5>5, NoneAssumption DEF Decrypts
        <5> QED
          BY <5>1, <5>2, <5>3, <5>6 DEF Resolves, Ready, Resolved
      <4> QED
        BY <4>1, <4>2
    <3> HIDE DEF told
    <3>3. \A w \in Workspace \ {v} : row'[w] = row[w]
      BY <1>0, <2>7 DEF Saves
    <3>4. ASSUME told # None PROVE Resolving(v)'
      <4>1. Resolves(o) /\ Resolved(o) = told
        BY <3>2, <3>4
      <4> QED
        BY <1>5, <2>1, <2>6, <2>7, <3>1, <4>1 DEF Resolving, Exists
    <3> QED
      BY <1>1, <2>1, <3>1, <3>3, <3>4
  <2>8. CASE UNCHANGED <<row, chosen>>
    BY <1>3, <2>1, <2>8
  <2>9. \/ /\ Valid(req[t].obj, link, h, s) /\ row' = Saves(v, o)
           /\ chosen' = [chosen EXCEPT ![v] = told]
        \/ UNCHANGED <<row, chosen>>
    BY <1>7, <2>2 DEF Settings, o
  <2> QED
    BY <2>7, <2>8, <2>9
<1>8. ASSUME NEW t \in Request, Clear(t) PROVE ChosenInv'
  <2> DEFINE o == WithConnection(req[t].obj, "demo", None, None)
  <2>0. req[t].pc = "loaded" /\ req[t].op # "signup" /\ key' = key
    BY <1>8 DEF Clear, Loaded
  <2>1. PICK v \in Workspace : v = req[t].ws
    BY <1>4, <2>0
  <2>2. o \in Row
    <3>1. /\ "demo" \in {"demo", "custom"} /\ None \in Host \cup {None}
          /\ None \in Secret \cup {None} /\ req[t].obj \in Row
      BY <1>4, <2>0
    <3> QED
      BY <1>0, <3>1, ConnectionType
  <2>3. o.link = "demo"
    BY <1>4, <2>0 DEF WithConnection, Row
  <2> HIDE DEF o
  <2>4. CASE row' = Saves(v, o) /\ chosen' = [chosen EXCEPT ![v] = Demo]
    <3>1. Resolves(o) /\ Resolved(o) = Demo
      BY <2>3 DEF Resolves, Ready, Resolved
    <3>2. chosen'[v] = Demo /\ \A w \in Workspace \ {v} : chosen'[w] = chosen[w]
      BY <1>0, <2>4
    <3>3. Resolving(v)' /\ \A w \in Workspace \ {v} : row'[w] = row[w]
      BY <1>5, <2>0, <2>2, <2>4, <3>1, <3>2 DEF Resolving, Exists
    <3> QED
      BY <1>1, <2>0, <3>2, <3>3
  <2>5. CASE UNCHANGED <<row, chosen>>
    BY <1>3, <2>0, <2>5
  <2>6. \/ row' = Saves(v, o) /\ chosen' = [chosen EXCEPT ![v] = Demo]
        \/ UNCHANGED <<row, chosen>>
    BY <1>8, <2>1 DEF Clear, o
  <2> QED
    BY <2>4, <2>5, <2>6
<1>9. ASSUME NEW t \in Request, NEW want \in BOOLEAN, Regenerate(t, want)
      PROVE  ChosenInv'
  <2>0. req[t].pc = "loaded" /\ req[t].op # "signup" /\ UNCHANGED <<key, chosen>>
    BY <1>9 DEF Regenerate, Loaded
  <2>1. PICK v \in Workspace : v = req[t].ws /\ row[v] \in Row
    BY <1>4, <2>0
  <2>2. row' = [row EXCEPT ![v].enabled = TRUE, ![v].token = NextToken] \/ row' = row
    BY <1>9, <2>1 DEF Regenerate
  <2>3. \A w \in Workspace : Same(w)
    BY <1>0, <2>1, <2>2 DEF Row
  <2> QED
    BY <1>2, <2>0, <2>3
<1>10. ASSUME NEW t \in Request, NEW link, NEW h, NEW s, NEW answers,
              Test(t, link, h, s, answers)
       PROVE  ChosenInv'
  <2>0. req[t].pc = "loaded" /\ req[t].op # "signup" /\ UNCHANGED <<key, chosen>>
    BY <1>10 DEF Test, Loaded
  <2>1. PICK v \in Workspace : v = req[t].ws /\ row[v] \in Row
    BY <1>4, <2>0
  <2>2. row' = [row EXCEPT ![v].tested = TRUE] \/ row' = row
    BY <1>10, <2>1 DEF Test
  <2>3. \A w \in Workspace : Same(w)
    BY <1>0, <2>1, <2>2 DEF Row
  <2> QED
    BY <1>2, <2>0, <2>3
<1>11. ASSUME NEW v \in Workspace, Stamp(v) PROVE ChosenInv'
  <2>1. row[v] \in Row
    BY <1>0, <1>11 DEF Stamp, Synced
  <2>2. \A w \in Workspace : Same(w)
    BY <1>0, <1>11, <2>1 DEF Stamp, Row
  <2> QED
    BY <1>2, <1>11, <2>2 DEF Stamp
<1>12. ASSUME Minute PROVE ChosenInv'
  <2>1. ASSUME NEW w \in Workspace, Exists(w)
        PROVE  /\ row'[w].link = row[w].link /\ row'[w].host = row[w].host
               /\ row'[w].password = row[w].password
    <3>1. row'[w] = [row[w] EXCEPT !.age = Older(@)]
      BY <1>12, <2>1 DEF Minute
    <3> QED
      BY <1>0, <2>1, <3>1 DEF Row
  <2> QED
    BY <1>2, <1>12, <2>1 DEF Minute
<1>13. ASSUME NEW k \in MasterKey \cup {None}, Restart(k) PROVE ChosenInv'
  <2>1. ASSUME NEW w \in Workspace, chosen'[w] # None PROVE Resolving(w)'
    <3>1. /\ chosen[w] # None /\ chosen'[w] = chosen[w]
          /\ ~(k # key /\ Exists(w) /\ row[w].link = "custom")
      BY <1>13, <2>1 DEF Restart
    <3>2. Exists(w) /\ Resolves(row[w])
      BY <3>1 DEF ChosenInv, Resolving
    <3>3. row[w].link = "demo" \/ key' = key
      BY <1>13, <3>1, <3>2 DEF Restart, Resolves, Ready
    <3> QED
      BY <1>13, <3>1, <3>2, <3>3, SameConnection DEF Restart, Exists
  <2> QED
    BY <2>1 DEF ChosenInv
<1>14. ASSUME NEW t \in Request, Handle(t) PROVE ChosenInv'
  <2>1. CASE SignupUser(t) \/ SignupUserFails(t) \/ SignupFails(t) \/ SignupMember(t)
    BY <1>3, <2>1 DEF SignupUser, SignupUserFails, SignupFails, SignupMember
  <2> QED
    BY <1>6, <1>7, <1>8, <1>9, <1>10, <1>14, <2>1 DEF Handle
<1>15. ASSUME SyncStarts \/ SyncStep PROVE ChosenInv'
  BY <1>3, <1>11, <1>15 DEF SyncStarts, SyncStep, Fetch, SyncEnds
<1>16. CASE UNCHANGED vars
  BY <1>3, <1>16 DEF vars
<1>17. CASE Next
  BY <1>3, <1>12, <1>13, <1>14, <1>15, <1>17 DEF Next, Signup, Open
<1> QED
  BY <1>16, <1>17

\* Whatever requests, syncs and restarts interleave: the connection a settings page
\* was told is saved is the one the server uses, until its key changes.
THEOREM ConnectionsResolve == Spec => []ChosenConnectionResolves
<1>1. Init => TypeInv /\ Named /\ ChosenInv
  BY FirstState DEF Init, ChosenInv
<1>2. TypeInv /\ Named /\ ChosenInv /\ [Next]_vars => (TypeInv /\ Named /\ ChosenInv)'
  BY Inductive, ChosenStep
<1>3. ChosenInv => ChosenConnectionResolves
  BY DEF ChosenInv, Resolving, ChosenConnectionResolves
<1> QED
  BY <1>1, <1>2, <1>3, PTL DEF Spec

-----------------------------------------------------------------------------
(* Signing up.                                                             *)

\* How a signup ended, as a fact about its request.
Finished(t) ==
  \/ /\ req[t].answer = "ok" /\ req[t].email = None
     /\ \E w \in Workspace : <<w, req[t].user>> \in member
  \/ /\ req[t].answer = "raised" /\ req[t].email = None /\ req[t].user \in users
     /\ Found(req[t].name) \/ Taken(req[t].name, None)
  \/ /\ req[t].answer \in {"refused", "raised"} /\ req[t].email # None
     /\ req[t].user \in users \/ req[t].email \in users

\* A prefix that is in use stays in use.
LEMMA InUse ==
  ASSUME TypeInv, Named, [Next]_vars, NEW n
  PROVE  Found(n) \/ Taken(n, None) => Found(n)' \/ Taken(n, None)'
<1>1. TypeOK /\ \A w \in Workspace : Exists(w) => Stays(w)
  BY RowChange, RowsStay DEF TypeInv
<1>2. \A w \in Workspace : Exists(w) => Exists(w)' /\ row'[w].prefix = row[w].prefix
  BY <1>1 DEF Named, Stays
<1> QED
  BY <1>2, WorkspaceAssumption DEF Found, Taken, Prefix

\* A signup that is over stays as it ended; one that ends has its member or its reason.
LEMMA SignupStep ==
  ASSUME TypeInv, Named, SignupFinishes, [Next]_vars PROVE SignupFinishes'
<1>0. /\ TypeOK /\ Copies /\ req \in [Request -> ReqType]
      /\ member \subseteq Workspace \X User
  BY DEF TypeInv, TypeOK, ReqType
\* A request that this step does not touch.
<1>1. ASSUME NEW t \in Request, req'[t].answer = req[t].answer, req'[t].op = req[t].op,
             req'[t].pc = req[t].pc, req'[t].user = req[t].user,
             req'[t].email = req[t].email,
             req'[t].name = req[t].name, member \subseteq member', users \subseteq users',
             req'[t].op = "signup", req'[t].pc = "done"
      PROVE  Finished(t)'
  <2>1. Finished(t)
    BY <1>1 DEF SignupFinishes, Finished
  <2>2. PICK n : n = req[t].name
    OBVIOUS
  <2>3. Found(n) \/ Taken(n, None) => Found(n)' \/ Taken(n, None)'
    BY InUse
  <2> QED
    BY <1>1, <2>1, <2>2, <2>3 DEF Finished, Found, Taken, Prefix
<1>2. ASSUME \A t \in Request : req'[t] = req[t] \/ req'[t].op # "signup"
                                  \/ req'[t].pc # "done",
             member \subseteq member', users \subseteq users'
      PROVE  SignupFinishes'
  BY <1>1, <1>2 DEF SignupFinishes, Finished
\* A request that ends.
<1>3. ASSUME NEW t \in Request, NEW how, Finish(t, how)
      PROVE  /\ \A x \in Request \ {t} : req'[x] = req[x]
             /\ req'[t].op = req[t].op /\ req'[t].answer = how
             /\ req'[t].name = req[t].name /\ req'[t].user = req[t].user
             /\ req'[t].email = req[t].email
  BY <1>0, <1>3 DEF Finish, ReqType
\* One request ends well, the others stay.
<1>14. ASSUME NEW t \in Request, \A x \in Request \ {t} : req'[x] = req[x], Finished(t)',
              member \subseteq member', users \subseteq users'
       PROVE  SignupFinishes'
  BY <1>1, <1>14 DEF SignupFinishes, Finished
<1>4. ASSUME NEW t \in Request, SignupMember(t) PROVE SignupFinishes'
  <2>1. /\ Finish(t, "ok") /\ member' = member \cup {<<req[t].ws, req[t].user>>}
        /\ users' = users
    BY <1>4 DEF SignupMember
  <2>2. req[t].ws \in Workspace /\ req[t].email = None
    BY <1>0, <1>4 DEF SignupMember, Copies, Signing
  <2>3. Finished(t)'
    BY <1>3, <2>1, <2>2 DEF Finished
  <2> QED
    BY <1>3, <1>14, <2>1, <2>3
<1>5. ASSUME NEW t \in Request, SignupFails(t) PROVE SignupFinishes'
  <2>1. /\ Finish(t, "raised") /\ UNCHANGED <<users, row, member>>
        /\ Found(req[t].name) \/ Taken(req[t].name, None)
    BY <1>5 DEF SignupFails
  <2>2. req[t].email = None /\ req[t].user \in users
    BY <1>0, <1>5 DEF SignupFails, Copies, Signing
  <2>3. Finished(t)'
    BY <1>3, <2>1, <2>2 DEF Finished, Found, Taken, Prefix, Exists
  <2> QED
    BY <1>3, <1>14, <2>1, <2>3
<1>15. ASSUME NEW t \in Request, SignupUserFails(t) PROVE SignupFinishes'
  <2>1. /\ Finish(t, "raised") /\ UNCHANGED <<users, row, member>>
        /\ req[t].user \in users \/ req[t].email \in users
    BY <1>15 DEF SignupUserFails
  <2>2. req[t].email # None
    BY <1>0, <1>15 DEF SignupUserFails, Copies, Signing
  <2>3. Finished(t)'
    BY <1>3, <2>1, <2>2 DEF Finished
  <2> QED
    BY <1>3, <1>14, <2>1, <2>3
\* A signup that goes on.
<1>16. ASSUME NEW t \in Request,
              SignupUser(t) \/ \E w \in Workspace : SignupWorkspace(t, w)
       PROVE  SignupFinishes'
  <2>1. /\ req'[t].pc # "done" /\ users \subseteq users' /\ member' = member
        /\ \A x \in Request \ {t} : req'[x] = req[x]
    BY <1>0, <1>16 DEF SignupUser, SignupWorkspace, ReqType
  <2> QED
    BY <1>2, <2>1
<1>6. ASSUME NEW t \in Request, NEW how, Finish(t, how), req[t].op # "signup",
             UNCHANGED <<member, users>>
      PROVE  SignupFinishes'
  BY <1>2, <1>3, <1>6
<1>7. ASSUME NEW t \in Request, Handle(t) PROVE SignupFinishes'
  <2>1. CASE \/ \E link \in {"demo", "custom"}, h \in Host \cup {None}, s \in Secret \cup {None} :
                  \/ \E enabled \in BOOLEAN, i \in Interval :
                       Settings(t, link, h, s, enabled, i)
                  \/ \E answers \in BOOLEAN : Test(t, link, h, s, answers)
             \/ \E want \in BOOLEAN : Regenerate(t, want)
             \/ Clear(t)
    <3>1. ASSUME NEW link, NEW h, NEW s, NEW enabled, NEW i,
                 Settings(t, link, h, s, enabled, i)
          PROVE  req[t].op # "signup" /\ UNCHANGED <<member, users>>
      BY <3>1 DEF Settings, Loaded
    <3>2. ASSUME NEW link, NEW h, NEW s, NEW answers, Test(t, link, h, s, answers)
          PROVE  req[t].op # "signup" /\ UNCHANGED <<member, users>>
      BY <3>2 DEF Test, Loaded
    <3>3. ASSUME NEW want, Regenerate(t, want)
          PROVE  req[t].op # "signup" /\ UNCHANGED <<member, users>>
      BY <3>3 DEF Regenerate, Loaded
    <3>4. Clear(t) => req[t].op # "signup" /\ UNCHANGED <<member, users>>
      BY DEF Clear, Loaded
    <3>5. req[t].op # "signup" /\ UNCHANGED <<member, users>>
      BY <2>1, <3>1, <3>2, <3>3, <3>4
    <3>6. \E how : Finish(t, how)
      <4>1. ~SignupUser(t) /\ ~\E w \in Workspace : SignupWorkspace(t, w)
        BY <1>0, <1>7, <3>5 DEF SignupWorkspace, SignupUser, Copies, Signing
      <4> QED
        BY <1>7, <4>1, HandleEnds
    <3> QED
      BY <1>6, <3>5, <3>6
  <2> QED
    BY <1>4, <1>5, <1>7, <1>15, <1>16, <2>1 DEF Handle
<1>8. ASSUME NEW t \in Request, NEW u \in User, NEW e \in User, NEW n \in Name,
             Signup(t, u, e, n)
      PROVE  SignupFinishes'
  <2>1. /\ \A x \in Request \ {t} : req'[x] = req[x]
        /\ UNCHANGED <<member, users>>
        /\ \/ req'[t].pc = "form"
           \/ req'[t].answer = "refused" /\ req'[t].email = e /\ e \in users
    BY <1>0, <1>8 DEF Signup, Idle
  <2>2. CASE req'[t].pc = "form"
    BY <1>2, <2>1, <2>2
  <2>3. CASE req'[t].answer = "refused" /\ req'[t].email = e /\ e \in users
    <3>1. Finished(t)'
      BY <2>1, <2>3, WorkspaceAssumption DEF Finished
    <3> QED
      BY <1>14, <2>1, <3>1
  <2> QED
    BY <2>1, <2>2, <2>3
<1>9. ASSUME NEW t \in Request, NEW u \in User, NEW w \in Workspace,
             NEW what \in Ops \ {"signup"}, Open(t, u, w, what)
      PROVE  SignupFinishes'
  <2>1. req'[t].op # "signup" /\ \A x \in Request \ {t} : req'[x] = req[x]
    BY <1>0, <1>9 DEF Open, Idle
  <2> QED
    BY <1>2, <1>9, <2>1 DEF Open
<1>10. ASSUME Minute PROVE SignupFinishes'
  <2>1. ASSUME NEW t \in Request
        PROVE  /\ req'[t].answer = req[t].answer /\ req'[t].op = req[t].op
               /\ req'[t].pc = req[t].pc /\ req'[t].user = req[t].user
               /\ req'[t].name = req[t].name /\ req'[t].email = req[t].email
    BY <1>0, <1>10 DEF Minute, ReqType
  <2> QED
    BY <1>1, <1>10, <2>1 DEF Minute, SignupFinishes, Finished
<1>11. ASSUME NEW k \in MasterKey \cup {None}, Restart(k) PROVE SignupFinishes'
  BY <1>0, <1>2, <1>11 DEF Restart, Idle
<1>12. ASSUME UNCHANGED <<req, member, users>> PROVE SignupFinishes'
  BY <1>2, <1>12
<1>13. CASE Next
  BY <1>7, <1>8, <1>9, <1>10, <1>11, <1>12, <1>13
     DEF Next, SyncStarts, SyncStep, Fetch, Stamp, SyncEnds
<1> QED
  BY <1>12, <1>13 DEF vars

\* Whatever else the server does meanwhile, a signup that is over ended with an account
\* that belongs to a workspace; or with an account alone and a prefix in use, which
\* lasts; or with no account and a username or an address that is somebody's.
THEOREM SignupsFinish == Spec => []SignupFinishes
<1>1. Init => TypeInv /\ Named /\ SignupFinishes
  <2> SUFFICES ASSUME Init PROVE TypeInv /\ Named /\ SignupFinishes
    OBVIOUS
  <2>1. req = [t \in Request |-> Idle]
    BY DEF Init
  <2>2. SignupFinishes
    BY <2>1 DEF SignupFinishes, Idle
  <2> QED
    BY <2>2, FirstState
<1>2. TypeInv /\ Named /\ SignupFinishes /\ [Next]_vars
        => (TypeInv /\ Named /\ SignupFinishes)'
  BY Inductive, SignupStep
<1> QED
  BY <1>1, <1>2, PTL DEF Spec

=============================================================================
