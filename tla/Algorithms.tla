----------------------------- MODULE Algorithms -----------------------------
(***************************************************************************)
(* The functions of Payload, RouteForms, ImportConfig, Conversions and     *)
(* Credentials, a call at a time: a behaviour picks one input and ends.    *)
(* The properties are what the callers of these functions rely on, each    *)
(* for every input below; the inputs are defined here, the sets they are   *)
(* made from are given in the configuration.                               *)
(***************************************************************************)
EXTENDS Payload, RouteForms, ImportConfig, Conversions, Credentials

CONSTANTS
  Idle,
  Stored,              \* rows that the filters of a workspace may have
  MaxTo, MaxEntries,   \* destinations of an entry, entries of a payload
  MaxParts, MaxRows    \* parts of a bulk form's field, rows of a batch

ASSUME BoundsAssumption == {MaxTo, MaxEntries, MaxParts, MaxRows} \subseteq Nat

\* There is something to import, and somewhere to import it to.
ASSUME InputsAssumption ==
  Ws # {} /\ SmppCid # {} /\ Setting \ Oversized # {} /\ Script # {}

\* Filters that a route or an interceptor is given were saved before.
ASSUME StoredAssumption == Stored \subseteq FilterRows

VARIABLE call     \* Idle, or the call made: its name (of), input and output

Init == call = Idle

-----------------------------------------------------------------------------
(* Inputs.                                                                 *)

UpTo(S, n) == UNION {[1..k -> S] : k \in 0..n}

AnyId == ClientId \cup {NoId, Blank}
Entry ==
  [content : Text \cup {NoText}, to : UpTo(Dialled, MaxTo) \cup {Absent},
   id : AnyId, ids : UpTo(AnyId, MaxTo) \cup {Absent}]
ShortEntry ==
  [content : Text, to : UpTo({d \in Dialled : Digits[d] # NoDigits}, MaxTo),
   id : ClientId \cup {NoId}, ids : {Absent}]

Expanding ==
  \E batch \in AnyId, es \in {<<e>> : e \in Entry} \cup UpTo(ShortEntry, MaxEntries) :
    LET p == [batch |-> batch, messages |-> es]
    IN  call' = [of |-> "Expand", in |-> p, out |-> Expand(p)]

Splitting ==
  \E parts \in UpTo(Dialled, MaxParts) :
    call' = [of |-> "Recipients", in |-> parts, out |-> Recipients(parts)]

Chunking ==
  \E text \in UpTo(Text, MaxRows) \ {<<>>}, size \in SameChunk, limit \in PersonalChunk :
    call' = [of |-> "Chunks", in |-> [text |-> text, size |-> size, limit |-> limit],
             out |-> Chunks(text, size, limit)]

AddingFilter ==
  \E f \in [nature : Nature \cup {"ALL"}, type : FilterType,
            key : {"none", "word"} \cup {KeyOf(t) : t \in FilterType}, value : Value] :
    call' = [of |-> "Filter", in |-> f,
             out |-> IF ~FilterFormTakes(f) THEN "refused"
                     ELSE IF FilterSaved(FilterRow(f)) # "ok" THEN FilterSaved(FilterRow(f))
                     ELSE FilterBuilt(FilterRow(f))]

AddingRoute ==
  \E f \in [nature : Nature, type : RouteType, order : Order \cup {NoOrder},
            rate : Rate, filters : SUBSET FilterId, smpp : 0..2, http : 0..2,
            clash : BOOLEAN],
     rows \in [FilterId -> Stored] :
    call' = [of |-> "Route", in |-> f, rows |-> rows,
             out |-> IF RouteFormTakes(f) THEN RouteBuilt(RouteRow(f), rows) ELSE "refused"]

AddingInterceptor ==
  \E f \in [nature : Nature, type : InterceptorType, order : Order \cup {NoOrder},
            filters : SUBSET FilterId, script : {"none", "source", "bad_source"},
            clash : BOOLEAN],
     rows \in [FilterId -> Stored] :
    call' = [of |-> "Interceptor", in |-> f, rows |-> rows,
             out |-> IF InterceptorFormTakes(f, rows)
                     THEN InterceptorBuilt(InterceptorRow(f), rows) ELSE "refused"]

-----------------------------------------------------------------------------
(* Inputs of an import: accounts with nothing else, or the rest with no    *)
(* accounts.  The importing workspace is one of Ws.                        *)

NoRows ==
  [group |-> [g \in Gid |-> None], user |-> [u \in Uid |-> None],
   smpp |-> [x \in Ws \X SmppCid |-> None], http |-> [x \in Ws \X HttpCid |-> None],
   filter |-> [f \in Fid |-> None], route |-> [x \in Ws \X Slot |-> None],
   interceptor |-> [x \in Ws \X Slot |-> None]]

NoJasmin ==
  [group |-> [g \in Gid |-> None], user |-> [u \in Uid |-> None],
   smpp |-> [c \in SmppCid |-> None], http |-> [c \in HttpCid |-> CHOOSE s \in Setting : TRUE],
   route |-> [s \in Slot |-> None], interceptor |-> [s \in Slot |-> None]]

Imported(db, w, j, named) ==
  call' = [of |-> "Import", w |-> w, in |-> db, jasmin |-> j, unsaved |-> named,
           out |-> Import(db, w, j, named)]

\* A user's group exists, on both sides.
ImportingAccounts ==
  \E w \in Ws, groups \in [Gid -> {None} \cup [ws : Ws \cup {None}, enabled : {TRUE}]],
     users \in [Uid -> {None} \cup [gid : Gid, enabled : {TRUE}, password : {"own"}]],
     there \in [Gid -> {None, FALSE}],
     theirs \in [Uid -> {None} \cup [gid : Gid, enabled : {FALSE}]] :
    /\ \A u \in Uid : users[u] # None => groups[users[u].gid] # None
    /\ \A u \in Uid : theirs[u] # None => there[theirs[u].gid] # None
    /\ Imported([NoRows EXCEPT !.group = groups, !.user = users], w,
                [NoJasmin EXCEPT !.group = there, !.user = theirs], {})

\* Rows for some filters, SMPP connectors and, with one of these, HTTP connectors, routes
\* and interceptors; a Jasmin with or without routes that use filters and connectors,
\* whose MT routes use SMPP ones only.
OneSmpp    == CHOOSE c \in SmppCid : TRUE
OneSetting == CHOOSE s \in Setting \ Oversized : TRUE
OneScript  == CHOOSE s \in Script : TRUE
JasminRoutes ==
  {r \in [Slot -> {None} \cup [filters : SUBSET Criterion,
                               connectors : SUBSET (SmppCid \cup HttpCid)]] :
     \A s \in Slot \ MoSlot : r[s] # None => r[s].connectors \subseteq SmppCid}

RouteRows(rows, known) ==
  [NoRows EXCEPT
     !.filter = rows,
     !.smpp = [x \in Ws \X SmppCid |->
                 IF x \in known
                 THEN [setting |-> OneSetting, active |-> FALSE] ELSE None],
     !.http = [x \in Ws \X HttpCid |->
                 IF <<x[1], OneSmpp>> \in known THEN OneSetting ELSE None],
     !.route = [x \in Ws \X Slot |->
                  IF <<x[1], OneSmpp>> \in known
                  THEN [filters |-> {}, connectors |-> {OneSmpp}] ELSE None],
     !.interceptor = [x \in Ws \X Slot |->
                        IF <<x[1], OneSmpp>> \in known
                        THEN [filters |-> {}, script |-> OneScript] ELSE None]]

LiveJasmin(live, routes, script) ==
  [NoJasmin EXCEPT
     !.smpp = [c \in SmppCid |-> IF live[c] = None THEN None
                                 ELSE [setting |-> live[c], running |-> TRUE]],
     !.route = routes,
     !.interceptor = [s \in Slot |-> [filters |-> Criterion, script |-> script]]]

ImportingRoutes ==
  \E w \in {CHOOSE v \in Ws : TRUE} : \E    \* nothing tells the workspaces apart
     rows \in {r \in [Fid -> {None} \cup [ws : Ws, says : Criterion \ Unsavable]] :
               \A x \in Ws \X Criterion :
                 r[FidOf[x]] \in {None, [ws |-> x[1], says |-> x[2]]}},
     known \in SUBSET (Ws \X SmppCid), live \in [SmppCid -> {None} \cup Setting],
     routes \in JasminRoutes,
     script \in Script \cup {NoScript}, unsaved \in {{}, {w}} :
    Imported(RouteRows(rows, known), w, LiveJasmin(live, routes, script), unsaved)

Converting ==
  \E f \in CodedFields \cup NumberFields : \E s \in SettingsOf(f) :
    call' = [of |-> "Pull", in |-> [field |-> f, setting |-> s], out |-> Pull(f, s)]

\* A user's credential differs from a fresh one in two fields; the user is synced, and
\* the form is opened and sent as it is, or with a zero typed into one field.
EditingUser ==
  \E f, g \in Field : \E v \in HeldFor(f), u \in HeldFor(g),
     zeroed \in {{}} \cup {{h} : h \in Amounts \cup Whole} :
    LET live  == [Fresh EXCEPT ![f] = v, ![g] = u]
        shown == Shown(FromJasmin(live))
        typed == [h \in FormFields |-> IF h \in zeroed THEN 0 ELSE shown[h]]
    IN  /\ \A h \in FormFields : Typed(h, typed[h])
        /\ call' = [of |-> "Credentials", in |-> live, zeroed |-> zeroed,
                    out |-> ToJasmin(FormSaved(typed))]

Next ==
  /\ call = Idle
  /\ \/ Expanding \/ Splitting \/ Chunking
     \/ AddingFilter \/ AddingRoute \/ AddingInterceptor
     \/ ImportingAccounts \/ ImportingRoutes \/ Converting \/ EditingUser

Spec == Init /\ [][Next]_call

Called(name) == call # Idle /\ call.of = name

-----------------------------------------------------------------------------
(* Properties: requests to send.                                           *)

\* A payload that is accepted is a row for each destination in it, and an id that its
\* client gave is on one row for each time it was given: expand_send_payload neither
\* loses a destination nor lets two rows answer to one id.
Given(e, id) ==
  Cardinality(IF e.ids # Absent THEN {i \in DOMAIN e.ids : e.ids[i] = id}
              ELSE {i \in {1} : e.id = id})
Summed(ns) == LET after[k \in 0..Len(ns)] == IF k = 0 THEN 0 ELSE after[k - 1] + ns[k]
              IN  after
Total(ns) == Summed(ns)[Len(ns)]
EachRowItsId ==
  Called("Expand") /\ call.out # Refused =>
    LET es == call.in.messages
    IN  /\ Len(call.out) = Total([k \in DOMAIN es |-> Len(es[k].to)])
        /\ \A id \in ClientId :
             Cardinality({i \in DOMAIN call.out : call.out[i].id = id})
               = Total([k \in DOMAIN es |-> Given(es[k], id)])

\* The bulk form sends each number once however often and in whatever spelling it was
\* typed, and leaves none out.
EachNumberOnce ==
  Called("Recipients") /\ call.out # Refused =>
    /\ \A i, j \in DOMAIN call.out : call.out[i] = call.out[j] => i = j
    /\ {call.out[i] : i \in DOMAIN call.out}
         = {Digits[call.in[i]] : i \in DOMAIN call.in} \ {NoDigits}

\* The chunks of a batch hold every row once and in order, no chunk or message is empty,
\* and the rows of one sendbatch message have one content: _submit_via_rest marks rows
\* by chunk, so a row in none would stay queued and a row in two be sent twice.
ChunksPartition ==
  Called("Chunks") =>
    /\ FlattenSeq(FlattenSeq(call.out)) = [i \in DOMAIN call.in.text |-> i]
    /\ \A k \in DOMAIN call.out : call.out[k] # <<>> /\ \A n \in DOMAIN call.out[k] :
         LET message == call.out[k][n]
         IN  /\ message # <<>>
             /\ \A a, b \in DOMAIN message :
                  call.in.text[message[a]] = call.in.text[message[b]]

\* A chunk is one message within the limit for same contents, or messages of one row
\* within the limit for personalised ones.
ChunksWithinLimits ==
  Called("Chunks") =>
    \A k \in DOMAIN call.out :
      LET chunk == call.out[k]
      IN  \/ Len(chunk) = 1 /\ Len(chunk[1]) <= call.in.size
          \/ /\ Len(chunk) <= call.in.limit
             /\ \A n \in DOMAIN chunk : Len(chunk[n]) = 1

-----------------------------------------------------------------------------
(* Properties: forms against what is built from their rows.                *)

\* What the filter form takes is saved and built, but for what it does not look at: a
\* nature that does not have the type; a parameter that is missing, not wanted or not
\* valid; a key that is not the type's; a gid or uid that Jasmin refuses.  "Paste Python
\* source here": any script it takes works, unless its one line looks like a path.
FilterFormSound ==
  Called("Filter") /\ call.out \notin {"ok", "refused"} =>
    LET f == call.in IN
    \/ f.type \notin TypesFor(f.nature)
    \/ f.type = "EvalPyFilter" /\ f.value = "path_like_source"
    \/ /\ f.type # "EvalPyFilter"
       /\ \/ f.key # KeyOf(f.type) \/ ~ValidFor(f.type, f.value)
          \/ <<f.type, f.value>> \in JasminRefuses

\* What the route form takes is built and accepted by Jasmin, but for what it does not
\* look at: an MT route with no rate or a negative one, a negative order, filters of the
\* other nature, filters that were saved but cannot be built (see FilterFormSound).
RouteFormSound ==
  Called("Route") /\ call.out \notin {"ok", "refused"} =>
    LET f == call.in IN
    \/ f.nature = "MT" /\ f.rate # "fine"
    \/ f.order < 0
    \/ \E x \in f.filters : \/ ~FitsNature(x, f.nature, call.rows)
                            \/ FilterBuilt(call.rows[x]) # "ok"

\* What the interceptor form takes is built and accepted, unless its order is negative or
\* one of its filters was saved but cannot be built.
InterceptorFormSound ==
  Called("Interceptor") /\ call.out \notin {"ok", "refused"} =>
    \/ call.in.order < 0
    \/ \E x \in call.in.filters : FilterBuilt(call.rows[x]) # "ok"

-----------------------------------------------------------------------------
(* Properties: the import.                                                 *)

\* Importing again from the same Jasmin changes nothing.
ImportRepeats ==
  Called("Import") => Import(call.out, call.w, call.jasmin, call.unsaved) = call.out

\* A row of another workspace stays, a row of one's own does not disappear.
Keeps(old, new, own) == IF own THEN old # None => new # None ELSE new = old

\* An import touches no row of another workspace, deletes none of its own workspace either,
\* leaves every filter that is there as it is, and keeps the password of a user it knows.
ImportIsCareful ==
  Called("Import") =>
    LET old == call.in  new == call.out  w == call.w IN
    /\ \A g \in Gid : old.group[g] # None =>
         new.group[g] # None /\ (old.group[g].ws \in {w, None} \/ new.group[g] = old.group[g])
    /\ \A u \in Uid : old.user[u] # None =>
         /\ new.user[u] # None /\ new.user[u].password = old.user[u].password
         /\ new.user[u] # old.user[u] =>
              /\ old.group[old.user[u].gid].ws \in {w, None}
              /\ new.group[new.user[u].gid].ws = w
    /\ \A f \in Fid : old.filter[f] # None => new.filter[f] = old.filter[f]
    /\ \A x \in Ws \X SmppCid : Keeps(old.smpp[x], new.smpp[x], x[1] = w)
    /\ \A x \in Ws \X HttpCid : Keeps(old.http[x], new.http[x], x[1] = w)
    /\ \A x \in Ws \X Slot :
         /\ Keeps(old.route[x], new.route[x], x[1] = w)
         /\ Keeps(old.interceptor[x], new.interceptor[x], x[1] = w)

\* After an import that did not fail, each route and interceptor of Jasmin has its row,
\* with filters that say what Jasmin's say, those left out that could not be saved, and
\* with connectors of the workspace, those left out that neither Jasmin nor the
\* workspace has a configuration of.
ImportIsComplete ==
  Called("Import") /\ ~Fails(call.w, call.jasmin, call.unsaved) =>
    LET j == call.jasmin  w == call.w  db == call.out
        Says(fs) == {db.filter[f] : f \in fs}
        Wanted(cs) == {[ws |-> w, says |-> c] : c \in cs \ Unsavable}
    IN  \A s \in Slot :
          /\ j.route[s] # None =>
               /\ Says(db.route[w, s].filters) = Wanted(j.route[s].filters)
               /\ \A c \in j.route[s].connectors :
                    \/ c \in db.route[w, s].connectors
                    \/ c \in SmppCid /\ j.smpp[c] = None /\ db.smpp[w, c] = None
          /\ j.interceptor[s] # None /\ j.interceptor[s].script # NoScript =>
               /\ db.interceptor[w, s].script = j.interceptor[s].script
               /\ Says(db.interceptor[w, s].filters) = Wanted(j.interceptor[s].filters)

-----------------------------------------------------------------------------
(* Properties: connector configurations.                                   *)

\* The columns of an imported SMPP connector are pushed to Jasmin as they came, but for
\* receipts, whose code moves by one, and for counts of zero, which become their default;
\* and the form shows them under Jasmin's names, but for five NPIs, which it numbers
\* differently: three of them it shows as another, two as none of its choices.
ConfigSurvivesImport ==
  Called("Pull") =>
    LET f == call.in.field  s == call.in.setting IN
    /\ \/ Push(f, call.out) = s
       \/ f = "registered_delivery"
       \/ f \in NumberFields /\ s = 0
    /\ f \in CodedFields =>
         \/ ShownAs(f, call.out) = s
         \/ f \in NpiFields /\ s \in Renumbered

\* "Blank = unlimited", "0 blocks sending": a user that was synced, edited and saved has
\* on Jasmin what was shown and what was typed, field by field, a zero as a zero and what
\* was not set as not set.  The default source address is not in the form and is lost.
CredentialsSurvive ==
  Called("Credentials") =>
    \A h \in FormFields :
      call.out[h] = IF h \in call.zeroed THEN 0 ELSE call.in[h]

=============================================================================
