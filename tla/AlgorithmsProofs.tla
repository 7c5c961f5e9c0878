-------------------------- MODULE AlgorithmsProofs --------------------------
(***************************************************************************)
(* What the functions promise, proved for every value of the constants: of *)
(* the forms, the import and the conversions here, of the payloads and the *)
(* chunks in PayloadProofs.                                                *)
(***************************************************************************)
EXTENDS Algorithms, PayloadProofs, FunctionTheorems

-----------------------------------------------------------------------------
(* Which function a step calls.                                            *)

LEMMA Names ==
  /\ Expanding         => call'.of = "Expand"
  /\ Splitting         => call'.of = "Recipients"
  /\ Chunking          => call'.of = "Chunks"
  /\ AddingFilter      => call'.of = "Filter"
  /\ AddingRoute       => call'.of = "Route"
  /\ AddingInterceptor => call'.of = "Interceptor"
  /\ ImportingAccounts => call'.of = "Import"
  /\ ImportingRoutes   => call'.of = "Import"
  /\ Converting        => call'.of = "Pull"
  /\ EditingUser       => call'.of = "Credentials"
<1>1. Expanding => call'.of = "Expand"
  BY DEF Expanding
<1>2. Splitting => call'.of = "Recipients"
  BY DEF Splitting
<1>3. Chunking => call'.of = "Chunks"
  BY DEF Chunking
<1>4. AddingFilter => call'.of = "Filter"
  BY DEF AddingFilter
<1>5. AddingRoute => call'.of = "Route"
  BY DEF AddingRoute
<1>6. AddingInterceptor => call'.of = "Interceptor"
  BY DEF AddingInterceptor
<1>7. ImportingAccounts => call'.of = "Import"
  BY DEF ImportingAccounts, Imported
<1>8. ImportingRoutes => call'.of = "Import"
  BY DEF ImportingRoutes, Imported
<1>9. Converting => call'.of = "Pull"
  BY DEF Converting
<1>10. EditingUser => call'.of = "Credentials"
  BY DEF EditingUser
<1> QED
  BY <1>1, <1>2, <1>3, <1>4, <1>5, <1>6, <1>7, <1>8, <1>9, <1>10

LEMMA WhoCalls ==
  ASSUME Next
  PROVE  /\ call'.of = "Expand"      => Expanding
         /\ call'.of = "Recipients"  => Splitting
         /\ call'.of = "Chunks"      => Chunking
         /\ call'.of = "Filter"      => AddingFilter
         /\ call'.of = "Route"       => AddingRoute
         /\ call'.of = "Interceptor" => AddingInterceptor
         /\ call'.of = "Import"      => ImportingAccounts \/ ImportingRoutes
         /\ call'.of = "Pull"        => Converting
         /\ call'.of = "Credentials" => EditingUser
  BY Names DEF Next

-----------------------------------------------------------------------------
(* Forms.                                                                  *)

\* What the filter form takes and what is made of it.
FilterAnswer(f) ==
  IF ~FilterFormTakes(f) THEN "refused"
  ELSE IF FilterSaved(FilterRow(f)) # "ok" THEN FilterSaved(FilterRow(f))
  ELSE FilterBuilt(FilterRow(f))

\* What the form does not look at.
Overlooked(f) ==
  \/ f.type \notin TypesFor(f.nature)
  \/ f.type = "EvalPyFilter" /\ f.value = "path_like_source"
  \/ /\ f.type # "EvalPyFilter"
     /\ \/ f.key # KeyOf(f.type) \/ ~ValidFor(f.type, f.value)
        \/ <<f.type, f.value>> \in JasminRefuses

LEMMA FilterSound ==
  ASSUME NEW f, f.type \in FilterType, FilterAnswer(f) \notin {"ok", "refused"}
  PROVE  Overlooked(f)
<1> DEFINE r == FilterRow(f)
<1>1. FilterFormTakes(f)
  BY DEF FilterAnswer
<1> DEFINE key == IF f.type = "EvalPyFilter" THEN "pyCode" ELSE f.key
<1>2. /\ r.nature = f.nature /\ r.type = f.type
      /\ r.key = IF f.value = "none" THEN "none" ELSE key
      /\ r.value = IF key = "none" THEN "none" ELSE f.value
  BY DEF FilterRow, WithParam
<1>3. FilterSaved(r) # "ok" \/ FilterBuilt(r) # "ok"
  BY <1>1 DEF FilterAnswer
<1> HIDE DEF r
<1> SUFFICES ASSUME ~Overlooked(f) PROVE FALSE
  OBVIOUS
<1>4. f.type \in TypesFor(f.nature)
  BY DEF Overlooked
<1>5. CASE f.type = "EvalPyFilter"
  <2>1. f.value # "none" /\ IsScript(f.value)
    BY <1>1, <1>5 DEF FilterFormTakes, IsScript, Overlooked
  <2>2. ValidFor(f.type, f.value)
    BY <1>5, <2>1 DEF ValidFor, MoTypes, MtTypes
  <2>3. r.value = f.value
    BY <1>2, <1>5
  <2>4. FilterSaved(r) = "ok"
    BY <1>2, <1>4, <1>5, <2>1, <2>2, <2>3 DEF FilterSaved
  <2>5. FilterBuilt(r) = "ok"
    BY <1>2, <1>5, <2>1, <2>3 DEF FilterBuilt
  <2> QED
    BY <1>3, <2>4, <2>5
<1>6. CASE f.type # "EvalPyFilter"
  <2>1. f.key = KeyOf(f.type) /\ ValidFor(f.type, f.value)
        /\ <<f.type, f.value>> \notin JasminRefuses
    BY <1>6 DEF Overlooked
  <2>2. (f.key = "none") = (f.value = "none")
    BY <1>1, <1>6 DEF FilterFormTakes
  <2>3. f.type # "TransparentFilter"
    BY <2>1 DEF ValidFor, MoTypes, MtTypes
  <2>4. f.key # "none"
    BY <1>6, <2>1, <2>3 DEF KeyOf, FilterType, MoTypes, MtTypes, AllTypes
  <2>5. r.key = f.key /\ r.value = f.value /\ r.value # "none"
    BY <1>2, <1>6, <2>2, <2>4
  <2>6. FilterSaved(r) = "ok"
    BY <1>2, <1>4, <2>1, <2>3, <2>5 DEF FilterSaved
  <2>7. FilterBuilt(r) = "ok"
    BY <1>2, <1>6, <2>1, <2>5 DEF FilterBuilt
  <2> QED
    BY <1>3, <2>6, <2>7
<1> QED
  BY <1>5, <1>6

\* Whatever filter is added: what the form takes is saved and built, but for what it
\* does not look at.
THEOREM FilterFormsWork == Spec => []FilterFormSound
<1>1. Init => FilterFormSound
  BY DEF Init, FilterFormSound, Called
<1>2. FilterFormSound /\ [Next]_call => FilterFormSound'
  <2> SUFFICES ASSUME FilterFormSound, [Next]_call PROVE FilterFormSound'
    OBVIOUS
  <2>1. CASE UNCHANGED call
    BY <2>1 DEF FilterFormSound, Called
  <2>2. CASE Next
    <3> SUFFICES ASSUME call'.of = "Filter", call'.out \notin {"ok", "refused"}
                 PROVE  Overlooked(call'.in)
      BY DEF FilterFormSound, Called, Overlooked
    <3>1. AddingFilter
      BY <2>2, WhoCalls
    <3>2. PICK f \in [nature : Nature \cup {"ALL"}, type : FilterType,
                      key : {"none", "word"} \cup {KeyOf(t) : t \in FilterType},
                      value : Value] :
                 call' = [of |-> "Filter", in |-> f, out |-> FilterAnswer(f)]
      BY <3>1 DEF AddingFilter, FilterAnswer
    <3>3. call'.in = f /\ call'.out = FilterAnswer(f) /\ f.type \in FilterType
      BY <3>2
    <3> QED
      BY <3>3, FilterSound
  <2> QED
    BY <2>1, <2>2
<1> QED
  BY <1>1, <1>2, PTL DEF Spec

\* What the route form takes is built and accepted, but for what it does not look at.
RouteAnswer(f, row) ==
  IF RouteFormTakes(f) THEN RouteBuilt(RouteRow(f), row) ELSE "refused"

LEMMA RouteSound ==
  ASSUME NEW f, NEW row, RouteAnswer(f, row) \notin {"ok", "refused"},
         f.order \in Int \cup {NoOrder}, f.smpp \in Nat, f.http \in Nat,
         f.nature \in Nature, f.type \in RouteType, f.rate \in Rate
  PROVE  \/ f.nature = "MT" /\ f.rate # "fine"
         \/ f.order < 0
         \/ \E x \in f.filters : ~FitsNature(x, f.nature, row) \/ FilterBuilt(row[x]) # "ok"
<1> DEFINE r == RouteRow(f)
<1>1. RouteFormTakes(f) /\ RouteBuilt(r, row) # "ok"
  BY DEF RouteAnswer
<1>2. /\ r.nature = f.nature /\ r.type = f.type /\ r.order = f.order
      /\ r.filters = IF f.type = "DefaultRoute" THEN {} ELSE f.filters
      /\ r.smpp = f.smpp /\ r.http = IF f.nature = "MT" THEN 0 ELSE f.http
      /\ r.rate = IF f.nature = "MT" THEN f.rate ELSE "blank"
  BY DEF RouteRow
<1> HIDE DEF r
<1> SUFFICES ASSUME f.nature = "MT" => f.rate = "fine", ~(f.order < 0),
                    \A x \in f.filters : FitsNature(x, f.nature, row),
                    \A x \in f.filters : FilterBuilt(row[x]) = "ok"
             PROVE  FALSE
  OBVIOUS
<1>3. FiltersBuilt(r.filters, row) = "ok"
  BY <1>2 DEF FiltersBuilt, Unbuilt
<1>4. f.order \in Int
  BY <1>1 DEF RouteFormTakes
<1>5. r.smpp + r.http = ConnectorsOf(f) /\ r.smpp \in Nat /\ r.http \in Nat
  BY <1>2 DEF ConnectorsOf, Nature
<1>6. r.smpp + r.http # 0
  BY <1>1, <1>5 DEF RouteFormTakes
<1>7. JasminTakesRoute(r, row)
  <2>1. r.order >= 0
    BY <1>2, <1>4
  <2>2. \A x \in r.filters : FitsNature(x, r.nature, row)
    BY <1>2
  <2>3. r.rate # "negative"
    BY <1>2
  <2> QED
    BY <2>1, <2>2, <2>3 DEF JasminTakesRoute
<1>8. r.type \in RoutesFor(r.nature)
  BY <1>1, <1>2 DEF RouteFormTakes
<1>9. ~(r.nature = "MT" /\ r.rate = "blank")
  BY <1>2
<1>10. ~(r.nature = "MO" /\ r.type = "FailoverMORoute" /\ r.smpp > 0 /\ r.http > 0)
  BY <1>1, <1>2 DEF RouteFormTakes
<1> QED
  BY <1>1, <1>3, <1>6, <1>7, <1>8, <1>9, <1>10 DEF RouteBuilt

\* Whatever route is added: what the form takes is built and accepted by Jasmin, but for
\* what it does not look at.
THEOREM RouteFormsWork == Spec => []RouteFormSound
<1>1. Init => RouteFormSound
  BY DEF Init, RouteFormSound, Called
<1>2. RouteFormSound /\ [Next]_call => RouteFormSound'
  <2> SUFFICES ASSUME RouteFormSound, [Next]_call PROVE RouteFormSound'
    OBVIOUS
  <2>1. CASE UNCHANGED call
    BY <2>1 DEF RouteFormSound, Called
  <2>2. CASE Next
    <3> SUFFICES ASSUME call'.of = "Route", call'.out \notin {"ok", "refused"}
                 PROVE  \/ call'.in.nature = "MT" /\ call'.in.rate # "fine"
                        \/ call'.in.order < 0
                        \/ \E x \in call'.in.filters :
                             \/ ~FitsNature(x, call'.in.nature, call'.rows)
                             \/ FilterBuilt(call'.rows[x]) # "ok"
      BY DEF RouteFormSound, Called
    <3>1. AddingRoute
      BY <2>2, WhoCalls
    <3>2. PICK f \in [nature : Nature, type : RouteType, order : Order \cup {NoOrder},
                      rate : Rate, filters : SUBSET FilterId, smpp : 0..2,
                      http : 0..2, clash : BOOLEAN],
               rows \in [FilterId -> Stored] :
                 call' = [of |-> "Route", in |-> f, rows |-> rows,
                          out |-> RouteAnswer(f, rows)]
      BY <3>1 DEF AddingRoute, RouteAnswer
    <3>3. /\ call'.in = f /\ call'.rows = rows /\ call'.out = RouteAnswer(f, rows)
          /\ f.nature \in Nature /\ f.type \in RouteType /\ f.rate \in Rate
          /\ f.order \in Order \cup {NoOrder} /\ f.smpp \in Nat /\ f.http \in Nat
      BY <3>2
    <3>4. f.order \in Int \cup {NoOrder}
      BY <3>3, RouteFormsAssumption
    <3> QED
      BY <3>3, <3>4, RouteSound
  <2> QED
    BY <2>1, <2>2
<1> QED
  BY <1>1, <1>2, PTL DEF Spec

\* What the interceptor form takes is built and accepted, unless its order is negative or
\* one of its filters cannot be built.
InterceptorAnswer(f, row) ==
  IF InterceptorFormTakes(f, row) THEN InterceptorBuilt(InterceptorRow(f), row) ELSE "refused"

LEMMA InterceptorSound ==
  ASSUME NEW f, NEW row, InterceptorAnswer(f, row) \notin {"ok", "refused"}
  PROVE  f.order < 0 \/ \E x \in f.filters : FilterBuilt(row[x]) # "ok"
<1> DEFINE r == InterceptorRow(f)
<1>1. InterceptorFormTakes(f, row) /\ InterceptorBuilt(r, row) # "ok"
  BY DEF InterceptorAnswer
<1>2. /\ r.nature = f.nature /\ r.type = f.type /\ r.filters = f.filters
      /\ r.script = f.script
      /\ r.order = IF f.type = "DefaultInterceptor" THEN 0 ELSE f.order
  BY DEF InterceptorRow, OrderOf
<1> HIDE DEF r
<1>3. r.script # "none" /\ IsSource(r.script)
  BY <1>1, <1>2 DEF InterceptorFormTakes
<1>4. r.type # "DefaultInterceptor" => r.filters # {}
  BY <1>1, <1>2 DEF InterceptorFormTakes
<1>5. r.type \in {"DefaultInterceptor", StaticFor(r.nature)}
  BY <1>1, <1>2 DEF InterceptorFormTakes
<1>6. \A x \in r.filters : FitsNature(x, r.nature, row)
  BY <1>1, <1>2 DEF InterceptorFormTakes
<1>7. r.order < 0 \/ FiltersBuilt(r.filters, row) # "ok"
  BY <1>1, <1>3, <1>4, <1>5, <1>6 DEF InterceptorBuilt
<1>8. FiltersBuilt(r.filters, row) # "ok" => \E x \in f.filters : FilterBuilt(row[x]) # "ok"
  BY <1>2 DEF FiltersBuilt, Unbuilt
<1> QED
  BY <1>2, <1>7, <1>8

\* Whatever interceptor is added: what the form takes is built and accepted by Jasmin,
\* unless its order is negative or one of its filters cannot be built.
THEOREM InterceptorFormsWork == Spec => []InterceptorFormSound
<1>1. Init => InterceptorFormSound
  BY DEF Init, InterceptorFormSound, Called
<1>2. InterceptorFormSound /\ [Next]_call => InterceptorFormSound'
  <2> SUFFICES ASSUME InterceptorFormSound, [Next]_call PROVE InterceptorFormSound'
    OBVIOUS
  <2>1. CASE UNCHANGED call
    BY <2>1 DEF InterceptorFormSound, Called
  <2>2. CASE Next
    <3> SUFFICES ASSUME call'.of = "Interceptor", call'.out \notin {"ok", "refused"}
                 PROVE  \/ call'.in.order < 0
                        \/ \E x \in call'.in.filters : FilterBuilt(call'.rows[x]) # "ok"
      BY DEF InterceptorFormSound, Called
    <3>1. AddingInterceptor
      BY <2>2, WhoCalls
    <3>2. PICK f, rows : call' = [of |-> "Interceptor", in |-> f, rows |-> rows,
                                  out |-> InterceptorAnswer(f, rows)]
      BY <3>1 DEF AddingInterceptor, InterceptorAnswer
    <3>3. call'.in = f /\ call'.rows = rows /\ call'.out = InterceptorAnswer(f, rows)
      BY <3>2
    <3> QED
      BY <3>3, InterceptorSound
  <2> QED
    BY <2>1, <2>2
<1> QED
  BY <1>1, <1>2, PTL DEF Spec

-----------------------------------------------------------------------------
(* Connector configurations.                                               *)

\* The tables of the codes are keyed by numbers.
LEMMA DictKeys ==
  ASSUME NEW items, \A x \in items : x[1] \in Nat
  PROVE  DOMAIN Dict(items) \subseteq Nat
  BY DEF Dict

LEMMA CodedTables == \A f \in CodedFields : DOMAIN TableOf(f) \subseteq Nat
<1>1. DOMAIN TonValues \subseteq Nat
  BY DictKeys DEF TonValues, TonChoices
<1>2. DOMAIN NpiValues \subseteq Nat
  BY DictKeys DEF NpiValues
<1>3. DOMAIN PriorityValues \subseteq Nat
  BY DictKeys DEF PriorityValues
<1>4. DOMAIN ReplaceValues \subseteq Nat
  BY DictKeys DEF ReplaceValues
<1>5. DOMAIN ReceiptValues \subseteq Nat
  BY DictKeys DEF ReceiptValues
<1> QED
  BY <1>1, <1>2, <1>3, <1>4, <1>5 DEF TableOf, CodedFields

\* What is pulled is pushed as it was.
Returns(f, s) ==
  \/ Push(f, Pull(f, s)) = s
  \/ f = "registered_delivery"
  \/ f \in NumberFields /\ s = 0

LEMMA PullPush ==
  ASSUME NEW f \in CodedFields \cup NumberFields, NEW s \in SettingsOf(f)
  PROVE  Returns(f, s)
<1> USE DEF Returns
<1>1. CASE f \in NumberFields
  BY <1>1 DEF Push, Pull
<1>2. CASE f \notin NumberFields /\ f # "registered_delivery"
  <2> DEFINE table == TableOf(f)
             k     == KeyIn(table, s)
  <2>1. \E n \in DOMAIN table : table[n] = s
    BY <1>2 DEF SettingsOf
  <2>2. k \in DOMAIN table /\ table[k] = s
    BY <2>1 DEF KeyIn
  <2>3. k \in Nat
    BY <1>2, <2>2, CodedTables
  <2> HIDE DEF table, k
  <2>4. Pull(f, s) = k
    BY <1>2, <2>3 DEF Pull, Step, k, table
  <2>5. Push(f, k) = s
    BY <1>2, <2>2 DEF Push, table
  <2> QED
    BY <2>4, <2>5
<1> QED
  BY <1>1, <1>2

\* An entry of a table is found under its own key, if no other entry has its name.
LEMMA KeyFound ==
  ASSUME NEW items, NEW k, NEW v, <<k, v>> \in items,
         \A x \in items : x[1] = k \/ x[2] = v => x = <<k, v>>
  PROVE  k \in DOMAIN Dict(items) /\ Dict(items)[k] = v /\ KeyIn(Dict(items), v) = k
<1> DEFINE d == Dict(items)
<1>1. \A n \in DOMAIN d : \E x \in items : x[1] = n /\ d[n] = x[2]
  BY DEF Dict
<1>2. DOMAIN d = {x[1] : x \in items}
  BY DEF Dict
<1>3. k \in DOMAIN d /\ d[k] = v
  BY <1>1, <1>2
<1>4. \A n \in DOMAIN d : d[n] = v => n = k
  BY <1>1
<1> HIDE DEF d
<1>5. KeyIn(d, v) = k
  BY <1>3, <1>4 DEF KeyIn
<1> QED
  BY <1>3, <1>5 DEF d

\* A key of a table leads to the choice of the same name.
Agree(choices, table, name) ==
  \E k \in DOMAIN table :
    k = KeyIn(table, name) /\ k \in DOMAIN choices /\ choices[k] = name

NpiItems ==
  {<<0, "UNKNOWN">>, <<1, "ISDN">>, <<3, "DATA">>, <<4, "TELEX">>,
   <<5, "LAND_MOBILE">>, <<8, "NATIONAL">>, <<9, "PRIVATE">>,
   <<10, "ERMES">>, <<14, "INTERNET">>, <<18, "WAP_CLIENT_ID">>}
NpiLabels ==
  {<<0, "UNKNOWN">>, <<1, "ISDN">>, <<2, "DATA">>, <<3, "TELEX">>,
   <<4, "LAND_MOBILE">>, <<5, "NATIONAL">>, <<6, "PRIVATE">>,
   <<10, "ERMES">>, <<14, "INTERNET">>, <<18, "WAP_CLIENT_ID">>}
NpiKept ==
  {<<0, "UNKNOWN">>, <<1, "ISDN">>, <<10, "ERMES">>, <<14, "INTERNET">>,
   <<18, "WAP_CLIENT_ID">>}

LEMMA NpiAgree == \A x \in NpiKept : Agree(NpiChoices, NpiValues, x[2])
<1> SUFFICES ASSUME NEW x \in NpiKept PROVE Agree(NpiChoices, NpiValues, x[2])
  OBVIOUS
<1>1. PICK k, v : x = <<k, v>>
  BY DEF NpiKept
<1>2. <<k, v>> \in NpiItems /\ <<k, v>> \in NpiLabels
  BY <1>1 DEF NpiKept, NpiItems, NpiLabels
<1>3. \A y \in NpiItems : y[1] = k \/ y[2] = v => y = <<k, v>>
  BY <1>1 DEF NpiKept, NpiItems
<1>4. \A y \in NpiLabels : y[1] = k \/ y[2] = v => y = <<k, v>>
  BY <1>1 DEF NpiKept, NpiLabels
<1>5. NpiValues = Dict(NpiItems) /\ NpiChoices = Dict(NpiLabels)
  BY DEF NpiValues, NpiChoices, NpiItems, NpiLabels
<1>6. k \in DOMAIN NpiValues /\ KeyIn(NpiValues, v) = k
  BY <1>2, <1>3, <1>5, KeyFound
<1>7. k \in DOMAIN NpiChoices /\ NpiChoices[k] = v
  BY <1>2, <1>4, <1>5, KeyFound
<1> QED
  BY <1>1, <1>6, <1>7 DEF Agree

ReceiptItems  == {<<0, "NONE">>, <<1, "REQUESTED">>, <<2, "FOR_FAILURE">>}
ReceiptLabels == {<<1, "NONE">>, <<2, "REQUESTED">>, <<3, "FOR_FAILURE">>}

LEMMA ReceiptsAgree ==
  \A x \in ReceiptItems : /\ KeyIn(ReceiptValues, x[2]) = x[1]
                          /\ x[1] + 1 \in DOMAIN ReceiptChoices
                          /\ ReceiptChoices[x[1] + 1] = x[2]
<1> SUFFICES ASSUME NEW x \in ReceiptItems
             PROVE  /\ KeyIn(ReceiptValues, x[2]) = x[1]
                    /\ x[1] + 1 \in DOMAIN ReceiptChoices
                    /\ ReceiptChoices[x[1] + 1] = x[2]
  OBVIOUS
<1>1. PICK k \in Nat, v \in {y[2] : y \in ReceiptItems} : x = <<k, v>>
  BY DEF ReceiptItems
<1> DEFINE n == k + 1
<1>2. <<k, v>> \in ReceiptItems /\ <<n, v>> \in ReceiptLabels
  BY <1>1 DEF ReceiptItems, ReceiptLabels
<1>3. \A y \in ReceiptItems : y[1] = k \/ y[2] = v => y = <<k, v>>
  BY <1>1 DEF ReceiptItems
<1>4. \A y \in ReceiptLabels : y[1] = n \/ y[2] = v => y = <<n, v>>
  BY <1>1 DEF ReceiptItems, ReceiptLabels
<1> HIDE DEF n
<1>5. ReceiptValues = Dict(ReceiptItems) /\ ReceiptChoices = Dict(ReceiptLabels)
  BY DEF ReceiptValues, ReceiptChoices, ReceiptItems, ReceiptLabels
<1>6. KeyIn(ReceiptValues, v) = k
  BY <1>2, <1>3, <1>5, KeyFound
<1>7. n \in DOMAIN ReceiptChoices /\ ReceiptChoices[n] = v
  BY <1>2, <1>4, <1>5, KeyFound
<1> QED
  BY <1>1, <1>6, <1>7 DEF n

\* A name that a table has belongs to an item of it.
LEMMA NamedBy ==
  ASSUME NEW items, NEW table, table = Dict(items),
         NEW s, s \in {table[k] : k \in DOMAIN table}
  PROVE  \E x \in items : x[2] = s
<1>1. \A n \in DOMAIN table : \E x \in items : x[1] = n /\ table[n] = x[2]
  BY DEF Dict
<1> QED
  BY <1>1

\* The form shows what was pulled under its name.
ShownRight(f, s) ==
  f \in CodedFields =>
    \/ ShownAs(f, Pull(f, s)) = s
    \/ f \in NpiFields /\ s \in Renumbered

LEMMA PullShown ==
  ASSUME NEW f \in CodedFields \cup NumberFields, NEW s \in SettingsOf(f)
  PROVE  ShownRight(f, s)
<1> SUFFICES ASSUME f \in CodedFields,
                    ~(f \in NpiFields /\ s \in Renumbered)
             PROVE  ShownAs(f, Pull(f, s)) = s
  BY DEF ShownRight
<1>1. f \notin NumberFields
  BY DEF CodedFields, TonFields, NpiFields, NumberFields, DefaultOf
<1>2. s \in {TableOf(f)[k] : k \in DOMAIN TableOf(f)}
  BY <1>1 DEF SettingsOf
<1>3. CASE f \in NpiFields
  <2>1. TableOf(f) = Dict(NpiItems) /\ NpiValues = Dict(NpiItems) /\ ChoicesOf(f) = NpiChoices
    BY <1>3 DEF TableOf, ChoicesOf, NpiFields, TonFields, NpiValues, NpiItems
  <2>2. PICK x \in NpiItems : x[2] = s
    BY <1>2, <2>1, NamedBy
  <2>3. x \in NpiKept
    BY <1>3, <2>2 DEF NpiItems, NpiKept, Renumbered
  <2>4. PICK k \in DOMAIN NpiValues :
          k = KeyIn(NpiValues, s) /\ k \in DOMAIN NpiChoices /\ NpiChoices[k] = s
    BY <2>2, <2>3, NpiAgree DEF Agree
  <2>5. k \in Nat
    BY <1>3, <2>1, <2>4, CodedTables
  <2>6. Pull(f, s) = k
    BY <1>1, <1>3, <2>1, <2>4, <2>5 DEF Pull, Step, NpiFields
  <2> QED
    BY <2>1, <2>4, <2>6 DEF ShownAs
<1>4. CASE f = "registered_delivery"
  <2>1. /\ TableOf(f) = ReceiptValues /\ ReceiptValues = Dict(ReceiptItems)
        /\ ChoicesOf(f) = ReceiptChoices
    BY <1>4 DEF TableOf, ChoicesOf, NpiFields, TonFields, ReceiptValues, ReceiptItems
  <2>2. PICK x \in ReceiptItems : x[2] = s
    BY <1>2, <2>1, NamedBy
  <2>3. Pull(f, s) = x[1] + 1
    BY <1>1, <1>4, <2>1, <2>2, ReceiptsAgree DEF Pull, Step
  <2> QED
    BY <2>1, <2>2, <2>3, ReceiptsAgree DEF ShownAs
<1>5. CASE f \notin NpiFields /\ f # "registered_delivery"
  <2> DEFINE table == TableOf(f)
             k     == KeyIn(table, s)
  <2>1. k \in DOMAIN table /\ table[k] = s
    BY <1>2 DEF KeyIn
  <2>2. k \in Nat
    BY <2>1, CodedTables
  <2>3. Pull(f, s) = k
    BY <1>1, <1>5, <2>2 DEF Pull, Step
  <2>4. ChoicesOf(f) = table
    BY <1>5 DEF ChoicesOf, TableOf, CodedFields, TonFields, NpiFields, TonValues
  <2> HIDE DEF table, k
  <2> QED
    BY <2>1, <2>3, <2>4 DEF ShownAs
<1> QED
  BY <1>3, <1>4, <1>5

\* Whatever the configuration: a connector that is imported is pushed as it was, but for
\* its receipts and for counts of zero, and the form shows it as it was, but for the NPIs
\* that it numbers differently.
THEOREM Configurations == Spec => []ConfigSurvivesImport
<1>1. Init => ConfigSurvivesImport
  BY DEF Init, ConfigSurvivesImport, Called
<1>2. ConfigSurvivesImport /\ [Next]_call => ConfigSurvivesImport'
  <2> SUFFICES ASSUME ConfigSurvivesImport, [Next]_call PROVE ConfigSurvivesImport'
    OBVIOUS
  <2>1. CASE UNCHANGED call
    BY <2>1 DEF ConfigSurvivesImport, Called
  <2>2. CASE Next
    <3> SUFFICES ASSUME call'.of = "Pull"
                 PROVE  LET f == call'.in.field  s == call'.in.setting IN
                        /\ \/ Push(f, call'.out) = s
                           \/ f = "registered_delivery"
                           \/ f \in NumberFields /\ s = 0
                        /\ f \in CodedFields =>
                             \/ ShownAs(f, call'.out) = s
                             \/ f \in NpiFields /\ s \in Renumbered
      BY DEF ConfigSurvivesImport, Called
    <3>1. Converting
      BY <2>2, WhoCalls
    <3>2. PICK f \in CodedFields \cup NumberFields : \E s \in SettingsOf(f) :
                 call' = [of |-> "Pull", in |-> [field |-> f, setting |-> s],
                          out |-> Pull(f, s)]
      BY <3>1 DEF Converting
    <3>3. PICK s \in SettingsOf(f) :
                 call' = [of |-> "Pull", in |-> [field |-> f, setting |-> s],
                          out |-> Pull(f, s)]
      BY <3>2
    <3>4. call'.in.field = f /\ call'.in.setting = s /\ call'.out = Pull(f, s)
      BY <3>3
    <3> QED
      BY <3>4, PullPush, PullShown DEF Returns, ShownRight
  <2> QED
    BY <2>1, <2>2
<1> QED
  BY <1>1, <1>2, PTL DEF Spec

-----------------------------------------------------------------------------
(* Credentials.                                                            *)

LEMMA Kinds ==
  /\ Amounts \subseteq FormFields /\ Whole \subseteq FormFields /\ FormFields \subseteq Field
  /\ \A h \in Whole   : h \notin Flags \cup Filters \cup Amounts
  /\ \A h \in Filters : h \notin Flags \cup Amounts \cup Whole
  BY DEF FormFields, Field, Flags, Filters, Amounts, Whole

LEMMA LiveHeld ==
  ASSUME NEW f \in Field, NEW g \in Field, NEW v \in HeldFor(f), NEW u \in HeldFor(g)
  PROVE  /\ \A h \in Filters : [Fresh EXCEPT ![f] = v, ![g] = u][h] # Unlimited
         /\ \A h \in Whole : [Fresh EXCEPT ![f] = v, ![g] = u][h] \in {Unlimited, 0, 10}
<1> DEFINE live == [Fresh EXCEPT ![f] = v, ![g] = u]
<1>1. \A h \in Field : live[h] = IF h = g THEN u ELSE IF h = f THEN v ELSE Fresh[h]
  BY DEF Fresh
<1>2. ASSUME NEW h \in Filters PROVE live[h] # Unlimited
  <2>1. h \in Field /\ h \notin Flags /\ h \notin Amounts /\ h \notin Whole
    BY Kinds DEF Field
  <2>2. HeldFor(h) = Pattern
    BY <2>1 DEF HeldFor
  <2>4. Fresh[h] = AnyText
    BY <2>1 DEF Fresh
  <2> HIDE DEF live
  <2>3. live[h] \in Pattern
    BY <1>1, <2>1, <2>2, <2>4, CredentialsAssumption
  <2> QED
    BY <2>3, CredentialsAssumption
<1>3. ASSUME NEW h \in Whole PROVE live[h] \in {Unlimited, 0, 10}
  <2>1. h \in Field /\ h \notin Flags /\ h \notin Filters /\ h \notin Amounts
    BY Kinds DEF Field
  <2>2. HeldFor(h) = {Unlimited, 0, 10} /\ Fresh[h] = Unlimited
    BY <2>1 DEF HeldFor, Fresh
  <2> HIDE DEF live
  <2> QED
    BY <1>1, <2>1, <2>2
<1> QED
  BY <1>2, <1>3

\* A field that was shown and typed comes back as it was, a zero as a zero.
LEMMA RoundTrip ==
  ASSUME NEW live, NEW zeroed, \A h \in zeroed : h \in Amounts \cup Whole,
         NEW typed,
         \A h \in FormFields : typed[h] = IF h \in zeroed THEN 0
                                         ELSE Shown(FromJasmin(live))[h],
         \A h \in FormFields : Typed(h, typed[h]),
         \A h \in Filters : live[h] # Unlimited,
         \A h \in Whole : live[h] \in {Unlimited, 0, 10},
         NEW h \in FormFields
  PROVE  ToJasmin(FormSaved(typed))[h] = IF h \in zeroed THEN 0 ELSE live[h]
<1>1. h \in Field
  BY Kinds
<1>2. FromJasmin(live)[h] = live[h]
  BY <1>1 DEF FromJasmin
<1>3. Shown(FromJasmin(live))[h] = live[h]
  BY <1>2 DEF Shown
<1>4. typed[h] = IF h \in zeroed THEN 0 ELSE live[h]
  BY <1>3
<1>5. DOMAIN FormSaved(typed) = FormFields /\ FormSaved(typed)[h] = typed[h]
  BY DEF FormSaved
<1>6. ToJasmin(FormSaved(typed))[h]
        = IF h \in Amounts \cup Whole THEN Coerced(h, typed[h]) ELSE typed[h]
  BY <1>1, <1>5 DEF ToJasmin
<1>7. CASE h \in Whole
  <2>1. typed[h] \in {Unlimited, 0, 10}
    BY <1>4, <1>7
  <2>2. (0 \div 10) * 10 = 0 /\ (10 \div 10) * 10 = 10
    OBVIOUS
  <2>3. Coerced(h, typed[h]) = typed[h]
    BY <1>7, <2>1, <2>2 DEF Coerced
  <2> QED
    BY <1>4, <1>6, <1>7, <2>3
<1>8. CASE h \notin Whole
  <2>1. Coerced(h, typed[h]) = typed[h]
    BY <1>8 DEF Coerced
  <2> QED
    BY <1>4, <1>6, <2>1
<1> QED
  BY <1>7, <1>8

\* Whatever two fields were set on Jasmin: a user that was synced, edited and saved has
\* what was shown and what was typed, a zero as a zero and what was not set as not set.
THEOREM CredentialsKept == Spec => []CredentialsSurvive
<1>1. Init => CredentialsSurvive
  BY DEF Init, CredentialsSurvive, Called
<1>2. CredentialsSurvive /\ [Next]_call => CredentialsSurvive'
  <2> SUFFICES ASSUME CredentialsSurvive, [Next]_call PROVE CredentialsSurvive'
    OBVIOUS
  <2>1. CASE UNCHANGED call
    BY <2>1 DEF CredentialsSurvive, Called
  <2>2. CASE Next
    <3> SUFFICES ASSUME call'.of = "Credentials"
                 PROVE  \A h \in FormFields :
                          call'.out[h] = IF h \in call'.zeroed THEN 0 ELSE call'.in[h]
      BY DEF CredentialsSurvive, Called
    <3>1. EditingUser
      BY <2>2, WhoCalls
    <3>2. PICK f \in Field, g \in Field : \E v \in HeldFor(f), u \in HeldFor(g),
                 zeroed \in {{}} \cup {{h} : h \in Amounts \cup Whole} :
            LET live  == [Fresh EXCEPT ![f] = v, ![g] = u]
                shown == Shown(FromJasmin(live))
                typed == [h \in FormFields |-> IF h \in zeroed THEN 0 ELSE shown[h]]
            IN  /\ \A h \in FormFields : Typed(h, typed[h])
                /\ call' = [of |-> "Credentials", in |-> live, zeroed |-> zeroed,
                            out |-> ToJasmin(FormSaved(typed))]
      BY <3>1 DEF EditingUser
    <3>3. PICK v \in HeldFor(f), u \in HeldFor(g),
               zeroed \in {{}} \cup {{h} : h \in Amounts \cup Whole} :
            LET live  == [Fresh EXCEPT ![f] = v, ![g] = u]
                shown == Shown(FromJasmin(live))
                typed == [h \in FormFields |-> IF h \in zeroed THEN 0 ELSE shown[h]]
            IN  /\ \A h \in FormFields : Typed(h, typed[h])
                /\ call' = [of |-> "Credentials", in |-> live, zeroed |-> zeroed,
                            out |-> ToJasmin(FormSaved(typed))]
      BY <3>2
    <3> DEFINE live  == [Fresh EXCEPT ![f] = v, ![g] = u]
               typed == [h \in FormFields |-> IF h \in zeroed THEN 0
                                              ELSE Shown(FromJasmin(live))[h]]
    <3>4. /\ \A h \in Filters : live[h] # Unlimited
          /\ \A h \in Whole : live[h] \in {Unlimited, 0, 10}
      BY LiveHeld
    <3>5. /\ \A h \in FormFields : Typed(h, typed[h])
          /\ call'.in = live /\ call'.zeroed = zeroed
          /\ call'.out = ToJasmin(FormSaved(typed))
      BY <3>3
    <3>6. \A h \in FormFields : typed[h] = IF h \in zeroed THEN 0
                                           ELSE Shown(FromJasmin(live))[h]
      OBVIOUS
    <3>7. \A h \in zeroed : h \in Amounts \cup Whole
      OBVIOUS
    <3> HIDE DEF live, typed
    <3>8. \A h \in FormFields :
            ToJasmin(FormSaved(typed))[h] = IF h \in zeroed THEN 0 ELSE live[h]
      BY <3>4, <3>5, <3>6, <3>7, RoundTrip
    <3> QED
      BY <3>5, <3>8
  <2> QED
    BY <2>1, <2>2
<1> QED
  BY <1>1, <1>2, PTL DEF Spec

-----------------------------------------------------------------------------
(* The import.  An import starts from rows and a Jasmin such as these: a   *)
(* user's group has a row; the id that the import makes for a criterion is *)
(* taken by a filter that says it, or by none; an MT route has no HTTP     *)
(* connectors.                                                             *)

KeptRows(db) ==
  /\ db \in Rows
  /\ \A u \in Uid : db.user[u] # None => db.group[db.user[u].gid] # None
  /\ \A w \in Ws, c \in Criterion :
       db.filter[FidOf[w, c]] \in {None, [ws |-> w, says |-> c]}

LiveConfig(j) ==
  /\ j \in Snapshot
  /\ \A s \in Slot \ MoSlot : j.route[s] # None => j.route[s].connectors \subseteq SmppCid

LEMMA KeptTypes ==
  ASSUME NEW db, KeptRows(db)
  PROVE  /\ db.group \in [Gid -> GroupRow \cup {None}]
         /\ db.user \in [Uid -> UserRow \cup {None}]
         /\ db.smpp \in [Ws \X SmppCid -> SmppRow \cup {None}]
         /\ db.http \in [Ws \X HttpCid -> Setting \cup {None}]
         /\ db.filter \in [Fid -> FilterRec \cup {None}]
         /\ db.route \in [Ws \X Slot -> RouteRec \cup {None}]
         /\ db.interceptor \in [Ws \X Slot -> ScriptRec \cup {None}]
<1>1. db \in Rows
  BY DEF KeptRows
<1> QED
  BY <1>1 DEF Rows

LEMMA LiveTypes ==
  ASSUME NEW j, LiveConfig(j)
  PROVE  /\ \A u \in Uid : j.user[u] # None =>
                j.user[u].gid \in Gid /\ j.user[u].enabled \in BOOLEAN
         /\ \A c \in SmppCid : j.smpp[c] # None =>
                j.smpp[c].setting \in Setting /\ j.smpp[c].running \in BOOLEAN
         /\ \A c \in HttpCid : j.http[c] \in Setting
         /\ \A g \in Gid : j.group[g] # None => j.group[g] \in BOOLEAN
         /\ \A s \in Slot : j.route[s] # None =>
                j.route[s].connectors \subseteq SmppCid \cup HttpCid
         /\ \A s \in Slot : j.interceptor[s] # None =>
                j.interceptor[s].script \in Script \cup {NoScript}
<1>1. j \in Snapshot
  BY DEF LiveConfig
<1>2. /\ j.group \in [Gid -> BOOLEAN \cup {None}]
      /\ j.user \in [Uid -> [gid : Gid, enabled : BOOLEAN] \cup {None}]
      /\ j.smpp \in [SmppCid -> [setting : Setting, running : BOOLEAN] \cup {None}]
      /\ j.http \in [HttpCid -> Setting]
      /\ j.route \in [Slot -> [filters : SUBSET Criterion,
                               connectors : SUBSET (SmppCid \cup HttpCid)] \cup {None}]
      /\ j.interceptor \in [Slot -> [filters : SUBSET Criterion,
                                     script : Script \cup {NoScript}] \cup {None}]
  BY <1>1 DEF Snapshot
<1>3. \A u \in Uid : j.user[u] # None =>
        j.user[u].gid \in Gid /\ j.user[u].enabled \in BOOLEAN
  BY <1>2
<1>4. \A c \in SmppCid : j.smpp[c] # None =>
        j.smpp[c].setting \in Setting /\ j.smpp[c].running \in BOOLEAN
  BY <1>2
<1>5. \A s \in Slot : j.route[s] # None =>
        j.route[s].connectors \subseteq SmppCid \cup HttpCid
  BY <1>2
<1>6. \A s \in Slot : j.interceptor[s] # None =>
        j.interceptor[s].script \in Script \cup {NoScript}
  BY <1>2
<1>7. \A g \in Gid : j.group[g] # None => j.group[g] \in BOOLEAN
  BY <1>2
<1>8. \A c \in HttpCid : j.http[c] \in Setting
  BY <1>2
<1> QED
  BY <1>3, <1>4, <1>5, <1>6, <1>7, <1>8

LEMMA CriteriaType ==
  ASSUME NEW j, LiveConfig(j)
  PROVE  Criteria(j) \subseteq Criterion
<1>1. \A s \in Slot : /\ j.route[s] # None => j.route[s].filters \subseteq Criterion
                      /\ j.interceptor[s] # None => j.interceptor[s].filters \subseteq Criterion
  BY DEF LiveConfig, Snapshot
<1> SUFFICES ASSUME NEW c \in Criteria(j) PROVE c \in Criterion
  OBVIOUS
<1>2. PICK F \in {j.route[s].filters : s \in {t \in Slot : j.route[t] # None}} \cup
                {j.interceptor[s].filters : s \in {t \in Slot : j.interceptor[t] # None}} :
             c \in F
  BY DEF Criteria
<1>3. CASE F \in {j.route[s].filters : s \in {t \in Slot : j.route[t] # None}}
  <2>1. PICK s \in Slot : j.route[s] # None /\ F = j.route[s].filters
    BY <1>3
  <2>2. F \subseteq Criterion
    BY <1>1, <2>1
  <2> QED
    BY <1>2, <2>2
<1>4. CASE F \in {j.interceptor[s].filters : s \in {t \in Slot : j.interceptor[t] # None}}
  <2>1. PICK s \in Slot : j.interceptor[s] # None /\ F = j.interceptor[s].filters
    BY <1>4
  <2>2. F \subseteq Criterion
    BY <1>1, <2>1
  <2> QED
    BY <1>2, <2>2
<1> QED
  BY <1>2, <1>3, <1>4

\* The filters a route or interceptor of Jasmin has are among them.
LEMMA CriteriaOf ==
  ASSUME NEW j, NEW s \in Slot
  PROVE  /\ j.route[s] # None => j.route[s].filters \subseteq Criteria(j)
         /\ j.interceptor[s] # None => j.interceptor[s].filters \subseteq Criteria(j)
  BY DEF Criteria

\* Ids are of one workspace and one criterion each.
LEMMA FidsApart ==
  /\ \A w \in Ws, c \in Criterion : FidOf[w, c] \in Fid
  /\ \A w, v \in Ws, c, d \in Criterion : FidOf[w, c] = FidOf[v, d] => w = v /\ c = d
  BY ImportConfigAssumption

\* The row that is found for a criterion says it; if none does, the id is free.
LEMMA LocalFound ==
  ASSUME NEW db, KeptRows(db), NEW w \in Ws, NEW c \in Criterion
  PROVE  LET f == LocalFid(db, w, c)
         IN  /\ f \in Fid
             /\ \/ db.filter[f] = [ws |-> w, says |-> c]
                \/ f = FidOf[w, c] /\ db.filter[f] = None /\ SaysIt(db, w, c) = {}
<1>1. CASE FidOf[w, c] \in SaysIt(db, w, c) \/ SaysIt(db, w, c) = {}
  <2>1. LocalFid(db, w, c) = FidOf[w, c] /\ FidOf[w, c] \in Fid
    BY <1>1, FidsApart DEF LocalFid
  <2>2. db.filter[FidOf[w, c]] \in {None, [ws |-> w, says |-> c]}
    BY DEF KeptRows
  <2> QED
    BY <1>1, <2>1, <2>2 DEF SaysIt
<1>2. CASE ~(FidOf[w, c] \in SaysIt(db, w, c) \/ SaysIt(db, w, c) = {})
  <2>1. LocalFid(db, w, c) \in SaysIt(db, w, c)
    BY <1>2 DEF LocalFid
  <2> QED
    BY <2>1 DEF SaysIt
<1> QED
  BY <1>1, <1>2

\* Two criteria are never found in one row.
LEMMA LocalApart ==
  ASSUME NEW db, KeptRows(db), NEW w \in Ws, NEW c \in Criterion, NEW d \in Criterion,
         LocalFid(db, w, c) = LocalFid(db, w, d)
  PROVE  c = d
<1> DEFINE f == LocalFid(db, w, c)
           g == LocalFid(db, w, d)
<1>1. \/ db.filter[f] = [ws |-> w, says |-> c]
      \/ f = FidOf[w, c] /\ db.filter[f] = None
  BY LocalFound
<1>5. \/ db.filter[g] = [ws |-> w, says |-> d]
      \/ g = FidOf[w, d] /\ db.filter[g] = None
  BY LocalFound
<1> HIDE DEF f, g
<1>2. \/ db.filter[f] = [ws |-> w, says |-> d]
      \/ f = FidOf[w, d] /\ db.filter[f] = None
  BY <1>5 DEF f, g
<1>3. CASE db.filter[f] = None
  <2>1. None \notin FilterRec
    BY NoneAssumption
  <2>2. [ws |-> w, says |-> c] \in FilterRec /\ [ws |-> w, says |-> d] \in FilterRec
    BY DEF FilterRec
  <2>3. f = FidOf[w, c] /\ f = FidOf[w, d]
    BY <1>1, <1>2, <1>3, <2>1, <2>2
  <2> QED
    BY <2>3, FidsApart
<1>4. CASE db.filter[f] # None
  <2>1. [ws |-> w, says |-> c] = [ws |-> w, says |-> d]
    BY <1>1, <1>2, <1>4
  <2>2. [ws |-> w, says |-> c].says = [ws |-> w, says |-> d].says
    BY <2>1
  <2> QED
    BY <2>2
<1> QED
  BY <1>3, <1>4

\* A row of a filter was left alone, or was made for a criterion that none said.
FilterKept(db, w, j, f) ==
  \/ Filters2(db, w, j)[f] = db.filter[f]
  \/ /\ db.filter[f] = None
     /\ \E c \in Criteria(j) \ Unsavable :
          /\ f = FidOf[w, c] /\ SaysIt(db, w, c) = {}
          /\ Filters2(db, w, j)[f] = [ws |-> w, says |-> c]

\* After the import, the rows found say what Jasmin says; a filter that was there stays.
LEMMA FiltersAfter ==
  ASSUME NEW db, KeptRows(db), NEW w \in Ws, NEW j, LiveConfig(j)
  PROVE  /\ \A c \in Criteria(j) \ Unsavable :
              Filters2(db, w, j)[LocalFid(db, w, c)] = [ws |-> w, says |-> c]
         /\ \A f \in Fid : FilterKept(db, w, j, f)
<1> DEFINE cs == Criteria(j) \ Unsavable
           new == Filters2(db, w, j)
<1>1. cs \subseteq Criterion
  BY CriteriaType
<1>2. ASSUME NEW c \in cs PROVE new[LocalFid(db, w, c)] = [ws |-> w, says |-> c]
  <2> DEFINE f == LocalFid(db, w, c)
             d == CHOOSE e \in cs : f = LocalFid(db, w, e)
  <2>1. f \in Fid
    BY <1>1, LocalFound
  <2>2. d \in cs /\ f = LocalFid(db, w, d)
    OBVIOUS
  <2>3. d = c
    <3> HIDE DEF d
    <3> QED
      BY <1>1, <2>2, LocalApart
  <2>4. new[f] = [ws |-> w, says |-> d]
    BY <2>1 DEF Filters2
  <2> QED
    BY <2>3, <2>4
<1>3. ASSUME NEW f \in Fid
      PROVE  \/ new[f] = db.filter[f]
             \/ /\ db.filter[f] = None
                /\ \E c \in cs : /\ f = FidOf[w, c] /\ SaysIt(db, w, c) = {}
                                 /\ new[f] = [ws |-> w, says |-> c]
  <2>1. CASE \E c \in cs : f = LocalFid(db, w, c)
    <3>1. PICK c \in cs : f = LocalFid(db, w, c)
      BY <2>1
    <3>2. new[f] = [ws |-> w, says |-> c]
      BY <1>2, <3>1
    <3>3. \/ db.filter[f] = [ws |-> w, says |-> c]
          \/ f = FidOf[w, c] /\ db.filter[f] = None /\ SaysIt(db, w, c) = {}
      BY <1>1, <3>1, LocalFound
    <3> HIDE DEF new, cs
    <3> QED
      BY <3>2, <3>3
  <2>2. CASE ~(\E c \in cs : f = LocalFid(db, w, c))
    BY <2>2 DEF Filters2
  <2> QED
    BY <2>1, <2>2
<1> QED
  BY <1>2, <1>3 DEF FilterKept

\* An import that follows finds the same rows.
LEMMA LocalAgain ==
  ASSUME NEW db, KeptRows(db), NEW w \in Ws, NEW j, LiveConfig(j),
         NEW new, new.filter = Filters2(db, w, j), NEW c \in Criteria(j) \ Unsavable
  PROVE  LocalFid(new, w, c) = LocalFid(db, w, c)
<1> DEFINE i   == FidOf[w, c]
           old == SaysIt(db, w, c)
           now == SaysIt(new, w, c)
<1>1. c \in Criterion /\ i \in Fid
  BY CriteriaType, FidsApart
<1>6. \A f \in Fid : FilterKept(db, w, j, f)
  BY FiltersAfter
<1>2. old \subseteq now
  <2> SUFFICES ASSUME NEW f \in old PROVE f \in now
    OBVIOUS
  <2>1. f \in Fid /\ db.filter[f] = [ws |-> w, says |-> c]
    BY DEF SaysIt
  <2>2. [ws |-> w, says |-> c] \in FilterRec
    BY <1>1 DEF FilterRec
  <2>3. Filters2(db, w, j)[f] = db.filter[f]
    BY <1>6, <2>1, <2>2, NoneAssumption DEF FilterKept
  <2> QED
    BY <2>1, <2>3 DEF SaysIt
<1>3. ASSUME NEW f \in now PROVE f \in old \/ (old = {} /\ f = i)
  <2>1. f \in Fid /\ Filters2(db, w, j)[f] = [ws |-> w, says |-> c]
    BY DEF SaysIt
  <2>2. CASE Filters2(db, w, j)[f] = db.filter[f]
    BY <2>1, <2>2 DEF SaysIt
  <2>3. CASE \E d \in Criteria(j) \ Unsavable :
               /\ f = FidOf[w, d] /\ SaysIt(db, w, d) = {}
               /\ Filters2(db, w, j)[f] = [ws |-> w, says |-> d]
    <3>1. PICK d \in Criteria(j) \ Unsavable :
                 /\ f = FidOf[w, d] /\ SaysIt(db, w, d) = {}
                 /\ Filters2(db, w, j)[f] = [ws |-> w, says |-> d]
      BY <2>3
    <3>2. [ws |-> w, says |-> c].says = [ws |-> w, says |-> d].says
      BY <2>1, <3>1
    <3>3. d = c
      BY <3>2
    <3> QED
      BY <3>1, <3>3
  <2> QED
    BY <1>6, <2>1, <2>2, <2>3 DEF FilterKept
<1>4. CASE old = {}
  <2>1. now \subseteq {i}
    BY <1>3, <1>4
  <2>2. LocalFid(db, w, c) = i
    BY <1>4 DEF LocalFid
  <2>3. LocalFid(new, w, c) = i
    BY <2>1 DEF LocalFid
  <2> QED
    BY <2>2, <2>3
<1>5. CASE old # {}
  <2>1. now = old
    BY <1>2, <1>3, <1>5
  <2> QED
    BY <2>1 DEF LocalFid
<1> QED
  BY <1>4, <1>5

-----------------------------------------------------------------------------
(* An import twice.                                                        *)

\* Importing again from the same Jasmin changes nothing.
LEMMA GroupsAgain ==
  ASSUME NEW db, NEW w, NEW j, NEW new, new.group = Groups2(db, w, j)
  PROVE  /\ ImportedGroups(new, w, j) = ImportedGroups(db, w, j)
         /\ Groups2(new, w, j) = Groups2(db, w, j)
<1> DEFINE IG == ImportedGroups(db, w, j)
<1>1. IG \subseteq Gid
  BY DEF ImportedGroups
<1>2. \A g \in Gid : new.group[g] = IF g \in IG THEN [ws |-> w, enabled |-> j.group[g]]
                                    ELSE db.group[g]
  BY DEF Groups2
<1>3. ASSUME NEW g \in Gid PROVE g \in ImportedGroups(new, w, j) <=> g \in IG
  <2>1. CASE g \in IG
    <3>1. new.group[g].ws = w
      <4>1. [ws |-> w, enabled |-> j.group[g]].ws = w
        OBVIOUS
      <4>2. new.group[g] = [ws |-> w, enabled |-> j.group[g]]
        BY <1>2, <2>1
      <4> QED
        BY <4>1, <4>2
    <3> QED
      BY <2>1, <3>1 DEF ImportedGroups
  <2>2. CASE g \notin IG
    <3>1. new.group[g] = db.group[g]
      BY <1>2, <2>2
    <3> QED
      BY <2>2, <3>1 DEF ImportedGroups
  <2> QED
    BY <2>1, <2>2
<1>4. ImportedGroups(new, w, j) = IG
  BY <1>1, <1>3 DEF ImportedGroups
<1> HIDE DEF IG
<1>5. Groups2(new, w, j) = Groups2(db, w, j)
  <2>1. Groups2(new, w, j)
          = [g \in Gid |-> IF g \in IG THEN [ws |-> w, enabled |-> j.group[g]]
                           ELSE new.group[g]]
    BY <1>4 DEF Groups2
  <2>2. Groups2(db, w, j)
          = [g \in Gid |-> IF g \in IG THEN [ws |-> w, enabled |-> j.group[g]]
                           ELSE db.group[g]]
    BY DEF Groups2, IG
  <2> QED
    BY <1>2, <2>1, <2>2
<1> QED
  BY <1>4, <1>5 DEF IG

\* A user's row after the import, and that it is there.
LEMMA UserAfter ==
  ASSUME NEW db, KeptRows(db), NEW w \in Ws, NEW j, LiveConfig(j), NEW u \in Uid,
         u \in ImportedUsers(db, w, j)
  PROVE  LET row == Users2(db, w, j)[u]
         IN  /\ row # None /\ row.gid = j.user[u].gid /\ row.enabled = j.user[u].enabled
             /\ row.password = IF db.user[u] = None THEN "imported" ELSE db.user[u].password
             /\ row \in UserRow
<1> DEFINE row == Users2(db, w, j)[u]
           p   == IF db.user[u] = None THEN "imported" ELSE db.user[u].password
<1>1. row = [gid |-> j.user[u].gid, enabled |-> j.user[u].enabled, password |-> p]
  BY DEF Users2
<1>2. j.user[u] # None /\ j.user[u].gid \in Gid /\ j.user[u].enabled \in BOOLEAN
  BY DEF ImportedUsers, LiveConfig, Snapshot
<1>3. p \in {"own", "imported"}
  <2>1. db.user[u] # None => db.user[u] \in UserRow
    BY KeptTypes
  <2>2. \A r \in UserRow : r.password \in {"own", "imported"}
    BY DEF UserRow
  <2>3. CASE db.user[u] = None
    BY <2>3
  <2>4. CASE db.user[u] # None
    <3>1. db.user[u].password \in {"own", "imported"}
      BY <2>1, <2>2, <2>4
    <3> QED
      BY <2>4, <3>1
  <2> QED
    BY <2>3, <2>4
<1> HIDE DEF p, row
<1>4. row \in UserRow
  BY <1>1, <1>2, <1>3 DEF UserRow
<1>5. row # None
  BY <1>4, NoneAssumption
<1>6. row.gid = j.user[u].gid /\ row.enabled = j.user[u].enabled /\ row.password = p
  BY <1>1
<1> QED
  BY <1>4, <1>5, <1>6 DEF p, row

LEMMA UsersAgain ==
  ASSUME NEW db, KeptRows(db), NEW w \in Ws, NEW j, LiveConfig(j),
         NEW new, new.group = Groups2(db, w, j), new.user = Users2(db, w, j)
  PROVE  Users2(new, w, j) = Users2(db, w, j)
<1> DEFINE IG == ImportedGroups(db, w, j)
           IU == ImportedUsers(db, w, j)
           G2 == Groups2(db, w, j)
<1>1. ImportedGroups(new, w, j) = IG /\ Groups2(new, w, j) = G2
  BY GroupsAgain
<1>2. IU \subseteq Uid /\ IG \subseteq Gid
  BY DEF ImportedUsers, ImportedGroups
<1>3. \A g \in IG : G2[g].ws = w
  BY DEF Groups2, ImportedGroups
<1>4. \A u \in Uid \ IU : new.user[u] = db.user[u]
  BY DEF Users2
<1>5. \A u \in IU : /\ new.user[u] # None /\ new.user[u].gid = j.user[u].gid
                    /\ db.user[u] # None => new.user[u].password = db.user[u].password
                    /\ db.user[u] = None => new.user[u].password = "imported"
  BY <1>2, UserAfter
<1>6. \A u \in Uid : u \in IU <=> /\ j.user[u] # None /\ j.user[u].gid \in IG
                                  /\ db.user[u] # None => G2[db.user[u].gid].ws = w
  BY DEF ImportedUsers
<1>7. \A u \in Uid : u \in ImportedUsers(new, w, j) <=>
                       /\ j.user[u] # None /\ j.user[u].gid \in IG
                       /\ new.user[u] # None => G2[new.user[u].gid].ws = w
  BY <1>1 DEF ImportedUsers
<1> HIDE DEF IG, IU, G2
<1>8. \A u \in Uid : u \in ImportedUsers(new, w, j) <=> u \in IU
  <2> SUFFICES ASSUME NEW u \in Uid PROVE u \in ImportedUsers(new, w, j) <=> u \in IU
    OBVIOUS
  <2>1. CASE u \in IU
    <3>1. j.user[u] # None /\ j.user[u].gid \in IG
      BY <1>6, <2>1
    <3>2. new.user[u].gid = j.user[u].gid
      BY <1>5, <2>1
    <3>3. G2[new.user[u].gid].ws = w
      BY <1>3, <3>1, <3>2
    <3> QED
      BY <1>7, <2>1, <3>1, <3>3
  <2>2. CASE u \notin IU
    <3>1. new.user[u] = db.user[u]
      BY <1>4, <2>2
    <3> QED
      BY <1>6, <1>7, <2>2, <3>1
  <2> QED
    BY <2>1, <2>2
<1> DEFINE Row(d, u) == [gid |-> j.user[u].gid, enabled |-> j.user[u].enabled,
                         password |-> IF d.user[u] = None THEN "imported"
                                      ELSE d.user[u].password]
<1>9. Users2(new, w, j) = [u \in Uid |-> IF u \in IU THEN Row(new, u) ELSE new.user[u]]
  BY <1>8 DEF Users2
<1>10. Users2(db, w, j) = [u \in Uid |-> IF u \in IU THEN Row(db, u) ELSE db.user[u]]
  BY DEF Users2, IU
<1>11. \A u \in IU : Row(new, u) = Row(db, u)
  <2> SUFFICES ASSUME NEW u \in IU PROVE Row(new, u) = Row(db, u)
    OBVIOUS
  <2>1. (IF new.user[u] = None THEN "imported" ELSE new.user[u].password)
          = IF db.user[u] = None THEN "imported" ELSE db.user[u].password
    BY <1>5
  <2> QED
    BY <2>1
<1> HIDE DEF Row
<1>12. \A u \in Uid : (IF u \in IU THEN Row(new, u) ELSE new.user[u])
                        = IF u \in IU THEN Row(db, u) ELSE db.user[u]
  BY <1>4, <1>11
<1> QED
  BY <1>9, <1>10, <1>12

\* Each part of the import comes out the same.
LEMMA FiltersAgain ==
  ASSUME NEW db, KeptRows(db), NEW w \in Ws, NEW j, LiveConfig(j),
         NEW new, new.filter = Filters2(db, w, j)
  PROVE  /\ Filters2(new, w, j) = Filters2(db, w, j)
         /\ \A cs \in SUBSET Criteria(j) : FiltersFor(new, w, cs) = FiltersFor(db, w, cs)
<1> DEFINE cs == Criteria(j) \ Unsavable
<1>1. \A c \in cs : LocalFid(new, w, c) = LocalFid(db, w, c)
  BY LocalAgain
<1>2. ASSUME NEW f \in Fid PROVE Filters2(new, w, j)[f] = Filters2(db, w, j)[f]
  <2>1. CASE \E c \in cs : f = LocalFid(db, w, c)
    <3>1. PICK c \in cs : f = LocalFid(db, w, c)
      BY <2>1
    <3>2. \E e \in cs : f = LocalFid(new, w, e)
      BY <1>1, <3>1
    <3> DEFINE d == CHOOSE e \in cs : f = LocalFid(new, w, e)
    <3>3. d \in cs /\ f = LocalFid(new, w, d)
      BY <3>2
    <3>4. Filters2(new, w, j)[f] = [ws |-> w, says |-> d]
      BY <3>2 DEF Filters2
    <3> HIDE DEF d
    <3>5. f = LocalFid(db, w, d)
      BY <1>1, <3>3
    <3>6. Filters2(db, w, j)[LocalFid(db, w, d)] = [ws |-> w, says |-> d]
      BY <3>3, FiltersAfter
    <3> QED
      BY <3>4, <3>5, <3>6
  <2>2. CASE ~(\E c \in cs : f = LocalFid(db, w, c))
    <3>1. ~(\E c \in cs : f = LocalFid(new, w, c))
      BY <1>1, <2>2
    <3>2. Filters2(new, w, j)[f] = new.filter[f]
      BY <3>1 DEF Filters2
    <3> QED
      BY <3>2
  <2> QED
    BY <2>1, <2>2
<1>3. Filters2(new, w, j) = Filters2(db, w, j)
  <2> DEFINE F(d) == [f \in Fid |->
                 IF \E c \in cs : f = LocalFid(d, w, c)
                 THEN [ws |-> w, says |-> CHOOSE c \in cs : f = LocalFid(d, w, c)]
                 ELSE d.filter[f]]
  <2>1. Filters2(new, w, j) = F(new) /\ Filters2(db, w, j) = F(db)
    BY DEF Filters2
  <2>2. \A f \in Fid : F(new)[f] = F(db)[f]
    BY <1>2, <2>1
  <2>3. F(new) = [f \in Fid |-> F(new)[f]] /\ F(db) = [f \in Fid |-> F(db)[f]]
    OBVIOUS
  <2> HIDE DEF F
  <2> QED
    BY <2>1, <2>2, <2>3
<1>4. ASSUME NEW ds \in SUBSET Criteria(j) PROVE FiltersFor(new, w, ds) = FiltersFor(db, w, ds)
  <2>1. \A c \in ds \ Unsavable : LocalFid(new, w, c) = LocalFid(db, w, c)
    BY <1>1
  <2> QED
    BY <2>1 DEF FiltersFor
<1> QED
  BY <1>3, <1>4

LEMMA ConnectorsAgain ==
  ASSUME NEW db, NEW w \in Ws, NEW j,
         NEW new, new.smpp = Smpp2(db, w, j), new.http = Http2(db, w, j)
  PROVE  Smpp2(new, w, j) = Smpp2(db, w, j) /\ Http2(new, w, j) = Http2(db, w, j)
<1>1. Smpp2(new, w, j) = Smpp2(db, w, j)
  BY DEF Smpp2
<1>2. Http2(new, w, j) = Http2(db, w, j)
  <2> DEFINE P(x) == x[1] = w /\ \E s \in MoSlot :
                       j.route[s] # None /\ x[2] \in j.route[s].connectors
  <2>1. /\ Http2(new, w, j) = [x \in Ws \X HttpCid |-> IF P(x) THEN j.http[x[2]]
                                                     ELSE new.http[x]]
        /\ Http2(db, w, j) = [x \in Ws \X HttpCid |-> IF P(x) THEN j.http[x[2]]
                                                    ELSE db.http[x]]
    BY DEF Http2
  <2> HIDE DEF P
  <2> QED
    BY <2>1
<1> QED
  BY <1>1, <1>2

LEMMA RoutesAgain ==
  ASSUME NEW db, KeptRows(db), NEW w \in Ws, NEW j, LiveConfig(j), NEW unsaved,
         ~Fails(w, j, unsaved)
  PROVE  LET new == Import(db, w, j, unsaved)
         IN  /\ Routes2(new, w, j) = Routes2(db, w, j)
             /\ Interceptors2(new, w, j) = Interceptors2(db, w, j)
<1> DEFINE new == Import(db, w, j, unsaved)
           K(d) == KnownTo(Smpp2(d, w, j), Http2(d, w, j), w)
<1>1. /\ new.smpp = Smpp2(db, w, j) /\ new.http = Http2(db, w, j)
      /\ new.filter = Filters2(db, w, j)
      /\ new.route = Routes2(db, w, j) /\ new.interceptor = Interceptors2(db, w, j)
  BY DEF Import
<1> HIDE DEF new
<1>2. K(new) = K(db)
  BY <1>1, ConnectorsAgain
<1>3. \A cs \in SUBSET Criteria(j) : FiltersFor(new, w, cs) = FiltersFor(db, w, cs)
  BY <1>1, FiltersAgain
<1> DEFINE R(d, s) == [filters |-> FiltersFor(d, w, j.route[s].filters),
                       connectors |-> j.route[s].connectors \cap K(d)]
           I(d, s) == [filters |-> FiltersFor(d, w, j.interceptor[s].filters),
                       script |-> j.interceptor[s].script]
           Routed(x)  == x[1] = w /\ j.route[x[2]] # None
           Scripted(x) == /\ x[1] = w /\ j.interceptor[x[2]] # None
                          /\ j.interceptor[x[2]].script # NoScript
<1>4. \A s \in Slot : j.route[s] # None => R(new, s) = R(db, s)
  <2> SUFFICES ASSUME NEW s \in Slot, j.route[s] # None PROVE R(new, s) = R(db, s)
    OBVIOUS
  <2>1. j.route[s].filters \in SUBSET Criteria(j)
    BY CriteriaOf
  <2> HIDE DEF K
  <2> QED
    BY <1>2, <1>3, <2>1
<1>5. \A s \in Slot : j.interceptor[s] # None => I(new, s) = I(db, s)
  <2> SUFFICES ASSUME NEW s \in Slot, j.interceptor[s] # None PROVE I(new, s) = I(db, s)
    OBVIOUS
  <2>1. j.interceptor[s].filters \in SUBSET Criteria(j)
    BY CriteriaOf
  <2> QED
    BY <1>3, <2>1
<1>6. /\ Routes2(new, w, j) = [x \in Ws \X Slot |-> IF Routed(x) THEN R(new, x[2])
                                                 ELSE new.route[x]]
      /\ Routes2(db, w, j) = [x \in Ws \X Slot |-> IF Routed(x) THEN R(db, x[2])
                                                ELSE db.route[x]]
  BY DEF Routes2
<1>10. /\ Interceptors2(new, w, j)
            = [x \in Ws \X Slot |-> IF Scripted(x) THEN I(new, x[2]) ELSE new.interceptor[x]]
       /\ Interceptors2(db, w, j)
            = [x \in Ws \X Slot |-> IF Scripted(x) THEN I(db, x[2]) ELSE db.interceptor[x]]
  BY DEF Interceptors2
<1>7. /\ \A x \in Ws \X Slot : Routed(x) => R(new, x[2]) = R(db, x[2])
      /\ \A x \in Ws \X Slot : Scripted(x) => I(new, x[2]) = I(db, x[2])
  <2> HIDE DEF R, I
  <2> QED
    BY <1>4, <1>5
<1> HIDE DEF R, I, Routed, Scripted
<1>8. Routes2(new, w, j) = Routes2(db, w, j)
  <2>1. \A x \in Ws \X Slot : ~Routed(x) => new.route[x] = db.route[x]
    BY <1>1, <1>6
  <2>2. \A x \in Ws \X Slot : (IF Routed(x) THEN R(new, x[2]) ELSE new.route[x])
                              = IF Routed(x) THEN R(db, x[2]) ELSE db.route[x]
    BY <1>7, <2>1
  <2> QED
    BY <1>6, <2>2
<1>9. Interceptors2(new, w, j) = Interceptors2(db, w, j)
  <2>1. \A x \in Ws \X Slot : ~Scripted(x) => new.interceptor[x] = db.interceptor[x]
    BY <1>1, <1>10
  <2>2. \A x \in Ws \X Slot : (IF Scripted(x) THEN I(new, x[2]) ELSE new.interceptor[x])
                              = IF Scripted(x) THEN I(db, x[2]) ELSE db.interceptor[x]
    BY <1>7, <2>1
  <2> QED
    BY <1>10, <2>2
<1> QED
  BY <1>8, <1>9 DEF new

LEMMA SameAgain ==
  ASSUME NEW db, KeptRows(db), NEW w \in Ws, NEW j, LiveConfig(j), NEW unsaved
  PROVE  Import(Import(db, w, j, unsaved), w, j, unsaved) = Import(db, w, j, unsaved)
<1>1. CASE Fails(w, j, unsaved)
  BY <1>1 DEF Import
<1>2. CASE ~Fails(w, j, unsaved)
  <2> DEFINE new == Import(db, w, j, unsaved)
  <2>1. new = [group |-> Groups2(db, w, j), user |-> Users2(db, w, j),
               smpp |-> Smpp2(db, w, j), http |-> Http2(db, w, j),
               filter |-> Filters2(db, w, j), route |-> Routes2(db, w, j),
               interceptor |-> Interceptors2(db, w, j)]
    BY <1>2 DEF Import
  <2>2. Import(new, w, j, unsaved)
          = [group |-> Groups2(new, w, j), user |-> Users2(new, w, j),
             smpp |-> Smpp2(new, w, j), http |-> Http2(new, w, j),
             filter |-> Filters2(new, w, j), route |-> Routes2(new, w, j),
             interceptor |-> Interceptors2(new, w, j)]
    BY <1>2 DEF Import
  <2>3. /\ new.group = Groups2(db, w, j) /\ new.user = Users2(db, w, j)
        /\ new.smpp = Smpp2(db, w, j) /\ new.http = Http2(db, w, j)
        /\ new.filter = Filters2(db, w, j)
    BY <2>1
  <2>4. /\ Routes2(new, w, j) = Routes2(db, w, j)
        /\ Interceptors2(new, w, j) = Interceptors2(db, w, j)
    BY <1>2, RoutesAgain
  <2> HIDE DEF new
  <2>5. Groups2(new, w, j) = Groups2(db, w, j)
    BY <2>3, GroupsAgain
  <2>6. Users2(new, w, j) = Users2(db, w, j)
    BY <2>3, UsersAgain
  <2>7. Smpp2(new, w, j) = Smpp2(db, w, j) /\ Http2(new, w, j) = Http2(db, w, j)
    BY <2>3, ConnectorsAgain
  <2>8. Filters2(new, w, j) = Filters2(db, w, j)
    BY <2>3, FiltersAgain
  <2>9. Import(new, w, j, unsaved) = new
    BY <2>1, <2>2, <2>4, <2>5, <2>6, <2>7, <2>8
  <2> QED
    BY <2>9 DEF new
<1> QED
  BY <1>1, <1>2

-----------------------------------------------------------------------------
(* What an import leaves alone, and what it brings.                        *)

\* What an import may not touch: rows of another workspace, filters that are there,
\* passwords; and what it may not delete.
Touches(old, new, w) ==
  /\ \A g \in Gid : old.group[g] # None =>
       new.group[g] # None /\ (old.group[g].ws \in {w, None} \/ new.group[g] = old.group[g])
  /\ \A u \in Uid : old.user[u] # None =>
       /\ new.user[u] # None /\ new.user[u].password = old.user[u].password
       /\ new.user[u] # old.user[u] =>
            /\ old.group[old.user[u].gid].ws \in {w, None}
            /\ new.group[new.user[u].gid].ws = w
  /\ \A f \in Fid : old.filter[f] # None => new.filter[f] = old.filter[f]
  /\ \A x \in Ws \X SmppCid : Keeps(old.smpp[x], new.smpp[x], x[1] = w)
  /\ \A x \in Ws \X HttpCid : Keeps(old.http[x], new.http[x], x[1] = w)
  /\ \A x \in Ws \X Slot :
       /\ Keeps(old.route[x], new.route[x], x[1] = w)
       /\ Keeps(old.interceptor[x], new.interceptor[x], x[1] = w)

\* A route or an interceptor that is imported has its row.
LEMMA RecordsAfter ==
  ASSUME NEW db, KeptRows(db), NEW w \in Ws, NEW j, LiveConfig(j)
  PROVE  /\ \A x \in Ws \X Slot : x[1] = w /\ j.route[x[2]] # None
              => Routes2(db, w, j)[x] \in RouteRec
         /\ \A x \in Ws \X Slot :
              x[1] = w /\ j.interceptor[x[2]] # None /\ j.interceptor[x[2]].script # NoScript
                => Interceptors2(db, w, j)[x] \in ScriptRec
<1>1. \A cs \in SUBSET Criterion : FiltersFor(db, w, cs) \subseteq Fid
  BY LocalFound DEF FiltersFor
<1>2. ASSUME NEW x \in Ws \X Slot, x[1] = w, j.route[x[2]] # None
      PROVE  Routes2(db, w, j)[x] \in RouteRec
  <2> DEFINE fs == FiltersFor(db, w, j.route[x[2]].filters)
             cn == j.route[x[2]].connectors \cap KnownTo(Smpp2(db, w, j), Http2(db, w, j), w)
  <2>1. x[2] \in Slot
    OBVIOUS
  <2>2. Routes2(db, w, j)[x] = [filters |-> fs, connectors |-> cn]
    BY <1>2 DEF Routes2
  <2>3. fs \subseteq Fid
    BY <1>1, <1>2, <2>1, CriteriaOf, CriteriaType
  <2>4. cn \subseteq SmppCid \cup HttpCid
    BY <1>2, <2>1, LiveTypes
  <2> HIDE DEF fs, cn
  <2> QED
    BY <2>2, <2>3, <2>4 DEF RouteRec
<1>3. ASSUME NEW x \in Ws \X Slot, x[1] = w, j.interceptor[x[2]] # None,
             j.interceptor[x[2]].script # NoScript
      PROVE  Interceptors2(db, w, j)[x] \in ScriptRec
  <2> DEFINE fs == FiltersFor(db, w, j.interceptor[x[2]].filters)
             sc == j.interceptor[x[2]].script
  <2>1. x[2] \in Slot
    OBVIOUS
  <2>2. Interceptors2(db, w, j)[x] = [filters |-> fs, script |-> sc]
    BY <1>3 DEF Interceptors2
  <2>3. fs \subseteq Fid
    BY <1>1, <1>3, <2>1, CriteriaOf, CriteriaType
  <2>4. sc \in Script
    BY <1>3, <2>1, LiveTypes
  <2> HIDE DEF fs, sc
  <2> QED
    BY <2>2, <2>3, <2>4 DEF ScriptRec
<1> QED
  BY <1>2, <1>3

LEMMA Careful ==
  ASSUME NEW db, KeptRows(db), NEW w \in Ws, NEW j, LiveConfig(j), NEW unsaved
  PROVE  Touches(db, Import(db, w, j, unsaved), w)
<1>1. CASE Fails(w, j, unsaved)
  BY <1>1 DEF Import, Touches, Keeps
<1>2. CASE ~Fails(w, j, unsaved)
  <2> DEFINE new == Import(db, w, j, unsaved)
             IG  == ImportedGroups(db, w, j)
             IU  == ImportedUsers(db, w, j)
  <2>1. /\ new.group = Groups2(db, w, j) /\ new.user = Users2(db, w, j)
        /\ new.smpp = Smpp2(db, w, j) /\ new.http = Http2(db, w, j)
        /\ new.filter = Filters2(db, w, j) /\ new.route = Routes2(db, w, j)
        /\ new.interceptor = Interceptors2(db, w, j)
    BY <1>2 DEF Import
  <2> HIDE DEF new
  <2>9. /\ None \notin GroupRow /\ None \notin SmppRow /\ None \notin Setting
        /\ j \in Snapshot
    BY NoneAssumption DEF LiveConfig
  <2>2. ASSUME NEW g \in Gid, db.group[g] # None
        PROVE  /\ new.group[g] # None
               /\ db.group[g].ws \in {w, None} \/ new.group[g] = db.group[g]
    <3>1. CASE g \in IG
      <4>1. new.group[g] = [ws |-> w, enabled |-> j.group[g]]
        BY <2>1, <3>1 DEF Groups2
      <4>2. j.group[g] \in BOOLEAN
        BY <2>9, <3>1 DEF ImportedGroups, Snapshot
      <4>3. new.group[g] \in GroupRow
        BY <4>1, <4>2 DEF GroupRow
      <4> QED
        BY <2>2, <2>9, <3>1, <4>3 DEF ImportedGroups
    <3>2. CASE g \notin IG
      BY <2>1, <2>2, <3>2 DEF Groups2
    <3> QED
      BY <3>1, <3>2
  <2>3. ASSUME NEW u \in Uid, db.user[u] # None
        PROVE  /\ new.user[u] # None /\ new.user[u].password = db.user[u].password
               /\ new.user[u] # db.user[u] =>
                    /\ db.group[db.user[u].gid].ws \in {w, None}
                    /\ new.group[new.user[u].gid].ws = w
    <3>1. CASE u \notin IU
      <4>1. new.user[u] = db.user[u]
        BY <2>1, <3>1 DEF Users2
      <4> QED
        BY <2>3, <4>1
    <3>2. CASE u \in IU
      <4>1. /\ new.user[u] # None /\ new.user[u].password = db.user[u].password
            /\ new.user[u].gid = j.user[u].gid
        BY <2>1, <2>3, <3>2, UserAfter
      <4>2. j.user[u].gid \in IG /\ Groups2(db, w, j)[db.user[u].gid].ws = w
        BY <2>3, <3>2 DEF ImportedUsers
      <4>3. \A g \in IG : g \in Gid /\ Groups2(db, w, j)[g].ws = w
        BY DEF Groups2, ImportedGroups
      <4>4. new.group[new.user[u].gid].ws = w
        BY <2>1, <4>1, <4>2, <4>3
      <4>5. db.user[u].gid \in Gid /\ db.group[db.user[u].gid] # None
        <5>1. db.user[u] \in UserRow
          BY <2>3, KeptTypes
        <5>2. db.group[db.user[u].gid] # None
          BY <2>3 DEF KeptRows
        <5> QED
          BY <5>1, <5>2 DEF UserRow
      <4> DEFINE g == db.user[u].gid
      <4>6. db.group[g].ws \in {w, None}
        <5>1. CASE g \in IG
          BY <4>5, <5>1 DEF ImportedGroups
        <5>2. CASE g \notin IG
          <6>1. Groups2(db, w, j)[g] = db.group[g]
            BY <4>5, <5>2 DEF Groups2
          <6> QED
            BY <4>2, <6>1
        <5> QED
          BY <5>1, <5>2
      <4> QED
        BY <4>1, <4>4, <4>6
    <3> QED
      BY <3>1, <3>2
  <2>4. ASSUME NEW f \in Fid, db.filter[f] # None PROVE new.filter[f] = db.filter[f]
    <3>1. FilterKept(db, w, j, f)
      BY FiltersAfter
    <3> QED
      BY <2>1, <2>4, <3>1 DEF FilterKept
  <2>5. ASSUME NEW x \in Ws \X Slot
        PROVE  /\ Keeps(db.route[x], new.route[x], x[1] = w)
               /\ Keeps(db.interceptor[x], new.interceptor[x], x[1] = w)
    <3>1. new.route[x] = db.route[x] \/ (x[1] = w /\ new.route[x] # None)
      <4>1. CASE x[1] = w /\ j.route[x[2]] # None
        BY <2>1, <4>1, RecordsAfter, NoneAssumption
      <4>2. CASE ~(x[1] = w /\ j.route[x[2]] # None)
        BY <2>1, <4>2 DEF Routes2
      <4> QED
        BY <4>1, <4>2
    <3>2. new.interceptor[x] = db.interceptor[x] \/ (x[1] = w /\ new.interceptor[x] # None)
      <4> DEFINE found == /\ x[1] = w /\ j.interceptor[x[2]] # None
                          /\ j.interceptor[x[2]].script # NoScript
      <4>1. CASE found
        BY <2>1, <4>1, RecordsAfter, NoneAssumption
      <4>2. CASE ~found
        BY <2>1, <4>2 DEF Interceptors2
      <4> QED
        BY <4>1, <4>2
    <3> QED
      BY <3>1, <3>2 DEF Keeps
  <2>6. ASSUME NEW x \in Ws \X SmppCid PROVE Keeps(db.smpp[x], new.smpp[x], x[1] = w)
    <3>1. CASE x[1] = w /\ j.smpp[x[2]] # None
      <4>1. j.smpp[x[2]] \in [setting : Setting, running : BOOLEAN]
        BY <2>9, <3>1 DEF Snapshot
      <4>2. new.smpp[x] \in SmppRow
        BY <2>1, <3>1, <4>1 DEF Smpp2, SmppRow
      <4> QED
        BY <2>9, <3>1, <4>2 DEF Keeps
    <3>2. CASE ~(x[1] = w /\ j.smpp[x[2]] # None)
      BY <2>1, <3>2 DEF Smpp2, Keeps
    <3> QED
      BY <3>1, <3>2
  <2>7. ASSUME NEW x \in Ws \X HttpCid PROVE Keeps(db.http[x], new.http[x], x[1] = w)
    <3>1. j.http[x[2]] \in Setting
      BY <2>9 DEF Snapshot
    <3>2. new.http[x] = db.http[x] \/ (x[1] = w /\ new.http[x] = j.http[x[2]])
      BY <2>1 DEF Http2
    <3> QED
      BY <2>9, <3>1, <3>2 DEF Keeps
  <2>8. Touches(db, new, w)
    BY <2>2, <2>3, <2>4, <2>5, <2>6, <2>7 DEF Touches
  <2> QED
    BY <2>8 DEF new
<1> QED
  BY <1>1, <1>2

\* What a row says of a route or interceptor that Jasmin has.
SaysOf(db, fs)  == {db.filter[f] : f \in fs}
WantedBy(w, cs) == {[ws |-> w, says |-> c] : c \in cs \ Unsavable}

LEMMA FiltersSay ==
  ASSUME NEW db, KeptRows(db), NEW w \in Ws, NEW j, LiveConfig(j),
         NEW new, new.filter = Filters2(db, w, j), NEW cs \in SUBSET Criteria(j)
  PROVE  SaysOf(new, FiltersFor(db, w, cs)) = WantedBy(w, cs)
<1>1. \A c \in cs \ Unsavable : new.filter[LocalFid(db, w, c)] = [ws |-> w, says |-> c]
  BY FiltersAfter
<1> DEFINE L(c) == LocalFid(db, w, c)
           R(c) == [ws |-> w, says |-> c]
           F(f) == new.filter[f]
<1>2. SaysOf(new, FiltersFor(db, w, cs)) = {F(f) : f \in {L(c) : c \in cs \ Unsavable}}
  BY DEF SaysOf, FiltersFor
<1>3. WantedBy(w, cs) = {R(c) : c \in cs \ Unsavable}
  BY DEF WantedBy
<1>4. \A c \in cs \ Unsavable : F(L(c)) = R(c)
  BY <1>1
<1> HIDE DEF L, R, F
<1>5. \A x : x \in {F(f) : f \in {L(c) : c \in cs \ Unsavable}}
              <=> x \in {R(c) : c \in cs \ Unsavable}
  BY <1>4
<1> QED
  BY <1>2, <1>3, <1>5

HasRows(db, w, j, s) ==
  /\ j.route[s] # None =>
       /\ SaysOf(db, db.route[w, s].filters) = WantedBy(w, j.route[s].filters)
       /\ \A c \in j.route[s].connectors :
            \/ c \in db.route[w, s].connectors
            \/ c \in SmppCid /\ j.smpp[c] = None /\ db.smpp[w, c] = None
  /\ j.interceptor[s] # None /\ j.interceptor[s].script # NoScript =>
       /\ db.interceptor[w, s].script = j.interceptor[s].script
       /\ SaysOf(db, db.interceptor[w, s].filters) = WantedBy(w, j.interceptor[s].filters)

LEMMA CompleteIs ==
  /\ ImportIsComplete <=>
       (Called("Import") /\ ~Fails(call.w, call.jasmin, call.unsaved) =>
          \A s \in Slot : HasRows(call.out, call.w, call.jasmin, s))
  /\ ImportIsComplete' <=>
       (Called("Import")' /\ ~Fails(call'.w, call'.jasmin, call'.unsaved) =>
          \A s \in Slot : HasRows(call'.out, call'.w, call'.jasmin, s))
  BY DEF ImportIsComplete, Called, HasRows, SaysOf, WantedBy

LEMMA Complete ==
  ASSUME NEW db, KeptRows(db), NEW w \in Ws, NEW j, LiveConfig(j), NEW unsaved,
         ~Fails(w, j, unsaved), NEW s \in Slot
  PROVE  HasRows(Import(db, w, j, unsaved), w, j, s)
<1> DEFINE new == Import(db, w, j, unsaved)
<1>1. /\ new.smpp = Smpp2(db, w, j) /\ new.http = Http2(db, w, j)
      /\ new.filter = Filters2(db, w, j) /\ new.route = Routes2(db, w, j)
      /\ new.interceptor = Interceptors2(db, w, j)
  BY DEF Import
<1> HIDE DEF new
<1>2. ASSUME j.route[s] # None
      PROVE  /\ SaysOf(new, new.route[w, s].filters) = WantedBy(w, j.route[s].filters)
             /\ \A c \in j.route[s].connectors :
                  \/ c \in new.route[w, s].connectors
                  \/ c \in SmppCid /\ j.smpp[c] = None /\ new.smpp[w, c] = None
  <2> DEFINE known == KnownTo(Smpp2(db, w, j), Http2(db, w, j), w)
  <2>1. new.route[w, s] = [filters |-> FiltersFor(db, w, j.route[s].filters),
                           connectors |-> j.route[s].connectors \cap known]
    BY <1>1, <1>2 DEF Routes2
  <2>2. j.route[s].filters \in SUBSET Criteria(j)
    BY <1>2, CriteriaOf
  <2> DEFINE cs == j.route[s].filters
             fs == FiltersFor(db, w, cs)
             cn == j.route[s].connectors \cap known
  <2>6. new.route[w, s] = [filters |-> fs, connectors |-> cn]
    BY <2>1
  <2>7. cs \in SUBSET Criteria(j)
    BY <2>2
  <2> HIDE DEF cs
  <2>8. SaysOf(new, fs) = WantedBy(w, cs)
    BY <1>1, <2>7, FiltersSay
  <2> HIDE DEF fs, cn
  <2> DEFINE row == [filters |-> fs, connectors |-> cn]
  <2>10. row.filters = fs /\ row.connectors = cn
    OBVIOUS
  <2>9. new.route[w, s].filters = fs /\ new.route[w, s].connectors = cn
    <3>1. new.route[w, s] = row
      BY <2>6
    <3> HIDE DEF row
    <3> QED
      BY <2>10, <3>1
  <2>3. new.route[w, s].connectors = j.route[s].connectors \cap known
    BY <2>9 DEF cn
  <2>4. SaysOf(new, new.route[w, s].filters) = WantedBy(w, j.route[s].filters)
    BY <2>8, <2>9 DEF cs
  <2>5. ASSUME NEW c \in j.route[s].connectors, c \notin known
        PROVE  c \in SmppCid /\ j.smpp[c] = None /\ new.smpp[w, c] = None
    <3>1. c \in SmppCid \/ (c \in HttpCid /\ s \in MoSlot)
      <4>1. j.route[s].connectors \subseteq SmppCid \cup HttpCid
        BY <1>2, LiveTypes
      <4>2. s \in MoSlot \/ j.route[s].connectors \subseteq SmppCid
        BY <1>2 DEF LiveConfig
      <4> QED
        BY <4>1, <4>2
    <3>2. CASE c \in SmppCid
      <4>1. Smpp2(db, w, j)[w, c] = None
        BY <2>5, <3>2 DEF KnownTo
      <4>2. j.smpp[c] = None
        <5> SUFFICES ASSUME j.smpp[c] # None PROVE FALSE
          OBVIOUS
        <5> DEFINE held == [setting |-> j.smpp[c].setting, active |-> j.smpp[c].running]
        <5>1. Smpp2(db, w, j)[w, c] = held
          BY <3>2 DEF Smpp2
        <5>2. j.smpp[c].setting \in Setting /\ j.smpp[c].running \in BOOLEAN
          BY <3>2, LiveTypes
        <5>3. held \in SmppRow
          BY <5>2 DEF SmppRow
        <5> HIDE DEF held
        <5> QED
          BY <4>1, <5>1, <5>3, NoneAssumption
      <4> QED
        BY <1>1, <3>2, <4>1, <4>2
    <3>3. CASE c \in HttpCid /\ s \in MoSlot
      <4>1. Http2(db, w, j)[w, c] = None
        BY <2>5, <3>3 DEF KnownTo
      <4>2. Http2(db, w, j)[w, c] = j.http[c]
        BY <1>2, <3>3 DEF Http2
      <4>3. j.http[c] \in Setting
        BY <3>3, LiveTypes
      <4> QED
        BY <4>1, <4>2, <4>3, NoneAssumption
    <3> QED
      BY <3>1, <3>2, <3>3
  <2> HIDE DEF known
  <2> QED
    BY <2>3, <2>4, <2>5
<1>3. ASSUME j.interceptor[s] # None, j.interceptor[s].script # NoScript
      PROVE  /\ new.interceptor[w, s].script = j.interceptor[s].script
             /\ SaysOf(new, new.interceptor[w, s].filters)
                  = WantedBy(w, j.interceptor[s].filters)
  <2>1. new.interceptor[w, s] = [filters |-> FiltersFor(db, w, j.interceptor[s].filters),
                                 script |-> j.interceptor[s].script]
    BY <1>1, <1>3 DEF Interceptors2
  <2>2. j.interceptor[s].filters \in SUBSET Criteria(j)
    BY <1>3, CriteriaOf
  <2> DEFINE cs == j.interceptor[s].filters
             fs == FiltersFor(db, w, cs)
             sc == j.interceptor[s].script
  <2>6. new.interceptor[w, s] = [filters |-> fs, script |-> sc]
    BY <2>1
  <2>7. cs \in SUBSET Criteria(j)
    BY <2>2
  <2> HIDE DEF cs
  <2>8. SaysOf(new, fs) = WantedBy(w, cs)
    BY <1>1, <2>7, FiltersSay
  <2> HIDE DEF fs, sc
  <2> DEFINE row == [filters |-> fs, script |-> sc]
  <2>10. row.filters = fs /\ row.script = sc
    OBVIOUS
  <2>9. new.interceptor[w, s].filters = fs /\ new.interceptor[w, s].script = sc
    <3>1. new.interceptor[w, s] = row
      BY <2>6
    <3> HIDE DEF row
    <3> QED
      BY <2>10, <3>1
  <2>3. new.interceptor[w, s].script = j.interceptor[s].script
    BY <2>9 DEF sc
  <2>4. SaysOf(new, new.interceptor[w, s].filters) = WantedBy(w, j.interceptor[s].filters)
    BY <2>8, <2>9 DEF cs
  <2> QED
    BY <2>3, <2>4
<1> QED
  BY <1>2, <1>3 DEF HasRows, new

-----------------------------------------------------------------------------
(* Imports one after another.                                              *)

\* An import leaves rows such as it started from: a user's group has a row, the filter
\* under an id the import makes says what the id was made from, and every column holds
\* what it may.
THEOREM ImportKeeps ==
  ASSUME NEW db, KeptRows(db), NEW w \in Ws, NEW j, LiveConfig(j), NEW unsaved
  PROVE  KeptRows(Import(db, w, j, unsaved))
<1>1. CASE Fails(w, j, unsaved)
  BY <1>1 DEF Import
<1>2. CASE ~Fails(w, j, unsaved)
  <2> DEFINE G2 == Groups2(db, w, j)
             U2 == Users2(db, w, j)
             F2 == Filters2(db, w, j)
             S2 == Smpp2(db, w, j)
             H2 == Http2(db, w, j)
             R2 == Routes2(db, w, j)
             I2 == Interceptors2(db, w, j)
  <2>1. G2 \in [Gid -> GroupRow \cup {None}]
    <3> SUFFICES ASSUME NEW g \in Gid PROVE G2[g] \in GroupRow \cup {None}
      BY DEF Groups2
    <3>1. CASE g \in ImportedGroups(db, w, j)
      <4>1. j.group[g] \in BOOLEAN
        BY <3>1, LiveTypes DEF ImportedGroups
      <4>2. G2[g] = [ws |-> w, enabled |-> j.group[g]]
        BY <3>1 DEF Groups2
      <4> QED
        BY <4>1, <4>2 DEF GroupRow
    <3>2. CASE g \notin ImportedGroups(db, w, j)
      <4>1. G2[g] = db.group[g]
        BY <3>2 DEF Groups2
      <4> QED
        BY <4>1, KeptTypes
    <3> QED
      BY <3>1, <3>2
  <2>2. U2 \in [Uid -> UserRow \cup {None}]
    <3> SUFFICES ASSUME NEW u \in Uid PROVE U2[u] \in UserRow \cup {None}
      BY DEF Users2
    <3>1. CASE u \in ImportedUsers(db, w, j)
      BY <3>1, UserAfter
    <3>2. CASE u \notin ImportedUsers(db, w, j)
      <4>1. U2[u] = db.user[u]
        BY <3>2 DEF Users2
      <4> QED
        BY <4>1, KeptTypes
    <3> QED
      BY <3>1, <3>2
  <2>3. S2 \in [Ws \X SmppCid -> SmppRow \cup {None}]
    <3> SUFFICES ASSUME NEW x \in Ws \X SmppCid PROVE S2[x] \in SmppRow \cup {None}
      BY DEF Smpp2
    <3>1. CASE x[1] = w /\ j.smpp[x[2]] # None
      <4>1. x[2] \in SmppCid
        OBVIOUS
      <4>2. j.smpp[x[2]].setting \in Setting /\ j.smpp[x[2]].running \in BOOLEAN
        BY <3>1, <4>1, LiveTypes
      <4>3. S2[x] = [setting |-> j.smpp[x[2]].setting, active |-> j.smpp[x[2]].running]
        BY <3>1 DEF Smpp2
      <4> QED
        BY <4>2, <4>3 DEF SmppRow
    <3>2. CASE ~(x[1] = w /\ j.smpp[x[2]] # None)
      <4>1. S2[x] = db.smpp[x]
        BY <3>2 DEF Smpp2
      <4> QED
        BY <4>1, KeptTypes
    <3> QED
      BY <3>1, <3>2
  <2>4. H2 \in [Ws \X HttpCid -> Setting \cup {None}]
    <3> SUFFICES ASSUME NEW x \in Ws \X HttpCid PROVE H2[x] \in Setting \cup {None}
      BY DEF Http2
    <3>1. x[2] \in HttpCid
      OBVIOUS
    <3>2. H2[x] = j.http[x[2]] \/ H2[x] = db.http[x]
      BY DEF Http2
    <3> QED
      BY <3>1, <3>2, KeptTypes, LiveTypes
  <2>5. ASSUME NEW f \in Fid
        PROVE  \/ F2[f] = db.filter[f]
               \/ \E c \in Criterion : f = FidOf[w, c] /\ F2[f] = [ws |-> w, says |-> c]
    <3>1. FilterKept(db, w, j, f)
      BY FiltersAfter
    <3> QED
      BY <3>1, CriteriaType DEF FilterKept
  <2>6. F2 \in [Fid -> FilterRec \cup {None}]
    <3> SUFFICES ASSUME NEW f \in Fid PROVE F2[f] \in FilterRec \cup {None}
      BY DEF Filters2
    <3>1. CASE F2[f] = db.filter[f]
      BY <3>1, KeptTypes
    <3>2. CASE \E c \in Criterion : f = FidOf[w, c] /\ F2[f] = [ws |-> w, says |-> c]
      <4>1. PICK c \in Criterion : F2[f] = [ws |-> w, says |-> c]
        BY <3>2
      <4> HIDE DEF F2
      <4> QED
        BY <4>1 DEF FilterRec
    <3> QED
      BY <2>5, <3>1, <3>2
  <2>8. R2 \in [Ws \X Slot -> RouteRec \cup {None}]
    <3> SUFFICES ASSUME NEW x \in Ws \X Slot PROVE R2[x] \in RouteRec \cup {None}
      BY DEF Routes2
    <3>1. CASE x[1] = w /\ j.route[x[2]] # None
      BY <3>1, RecordsAfter
    <3>2. CASE ~(x[1] = w /\ j.route[x[2]] # None)
      <4>1. R2[x] = db.route[x]
        BY <3>2 DEF Routes2
      <4> QED
        BY <4>1, KeptTypes
    <3> QED
      BY <3>1, <3>2
  <2>9. I2 \in [Ws \X Slot -> ScriptRec \cup {None}]
    <3> SUFFICES ASSUME NEW x \in Ws \X Slot PROVE I2[x] \in ScriptRec \cup {None}
      BY DEF Interceptors2
    <3> DEFINE s == x[2]
    <3>1. CASE x[1] = w /\ j.interceptor[s] # None /\ j.interceptor[s].script # NoScript
      BY <3>1, RecordsAfter
    <3>2. CASE ~(x[1] = w /\ j.interceptor[s] # None /\ j.interceptor[s].script # NoScript)
      <4>1. I2[x] = db.interceptor[x]
        BY <3>2 DEF Interceptors2
      <4> QED
        BY <4>1, KeptTypes
    <3> QED
      BY <3>1, <3>2
  <2>10. ASSUME NEW u \in Uid, U2[u] # None PROVE G2[U2[u].gid] # None
    <3>1. \A g \in ImportedGroups(db, w, j) : g \in Gid /\ G2[g] # None
      <4> SUFFICES ASSUME NEW g \in ImportedGroups(db, w, j) PROVE g \in Gid /\ G2[g] # None
        OBVIOUS
      <4>1. g \in Gid /\ j.group[g] \in BOOLEAN
        BY LiveTypes DEF ImportedGroups
      <4>2. G2[g] = [ws |-> w, enabled |-> j.group[g]]
        BY <4>1 DEF Groups2
      <4>3. G2[g] \in GroupRow
        BY <4>1, <4>2 DEF GroupRow
      <4> QED
        BY <4>1, <4>3, NoneAssumption
    <3>2. CASE u \in ImportedUsers(db, w, j)
      <4>1. U2[u].gid = j.user[u].gid /\ j.user[u].gid \in ImportedGroups(db, w, j)
        BY <3>2, UserAfter DEF ImportedUsers
      <4> QED
        BY <3>1, <4>1
    <3>3. CASE u \notin ImportedUsers(db, w, j)
      <4>1. U2[u] = db.user[u]
        BY <3>3 DEF Users2
      <4>2. db.user[u] # None /\ db.user[u] \in UserRow
        BY <2>10, <4>1, KeptTypes
      <4>3. db.user[u].gid \in Gid
        BY <4>2 DEF UserRow
      <4>4. db.group[db.user[u].gid] # None
        BY <4>2 DEF KeptRows
      <4> DEFINE g == db.user[u].gid
      <4>5. CASE g \in ImportedGroups(db, w, j)
        BY <3>1, <4>1, <4>5
      <4>6. CASE g \notin ImportedGroups(db, w, j)
        <5>1. G2[g] = db.group[g]
          BY <4>3, <4>6 DEF Groups2
        <5> QED
          BY <4>1, <4>4, <5>1
      <4> QED
        BY <4>5, <4>6
    <3> QED
      BY <3>2, <3>3
  <2>11. ASSUME NEW v \in Ws, NEW c \in Criterion
         PROVE  F2[FidOf[v, c]] \in {None, [ws |-> v, says |-> c]}
    <3> DEFINE f == FidOf[v, c]
    <3>1. f \in Fid
      BY FidsApart
    <3>2. CASE F2[f] = db.filter[f]
      BY <3>2 DEF KeptRows
    <3>3. CASE \E d \in Criterion : f = FidOf[w, d] /\ F2[f] = [ws |-> w, says |-> d]
      <4>1. PICK d \in Criterion : f = FidOf[w, d] /\ F2[f] = [ws |-> w, says |-> d]
        BY <3>3
      <4>3. FidOf[v, c] = FidOf[w, d]
        BY <4>1
      <4>4. v = w
        BY <4>3, FidsApart
      <4>5. FidOf[w, c] = FidOf[w, d]
        BY <4>3, <4>4
      <4>6. c = d
        BY <4>5, FidsApart
      <4> QED
        BY <4>1, <4>4, <4>6
    <3> HIDE DEF F2
    <3> QED
      BY <2>5, <3>1, <3>2, <3>3
  <2> DEFINE new == Import(db, w, j, unsaved)
  <2>12. new = [group |-> G2, user |-> U2, smpp |-> S2, http |-> H2, filter |-> F2,
                route |-> R2, interceptor |-> I2]
    BY <1>2 DEF Import
  <2> HIDE DEF G2, U2, F2, S2, H2, R2, I2, new
  <2>13. new \in Rows
    BY <2>1, <2>2, <2>3, <2>4, <2>6, <2>8, <2>9, <2>12 DEF Rows
  <2>14. new.group = G2 /\ new.user = U2 /\ new.filter = F2
    BY <2>12
  <2>15. KeptRows(new)
    BY <2>10, <2>11, <2>13, <2>14 DEF KeptRows
  <2> QED
    BY <2>15 DEF new
<1> QED
  BY <1>1, <1>2

-----------------------------------------------------------------------------
(* The imports of the specification start from such rows and such a Jasmin.*)

LEMMA NoRowsType ==
  /\ NoRows \in Rows
  /\ \A u \in Uid : NoRows.user[u] = None
  /\ \A f \in Fid : NoRows.filter[f] = None
  BY DEF NoRows, Rows

LEMMA NoJasminType ==
  NoJasmin \in Snapshot /\ \A s \in Slot : NoJasmin.route[s] = None
<1>1. (CHOOSE s \in Setting : TRUE) \in Setting
  BY InputsAssumption
<1> QED
  BY <1>1 DEF NoJasmin, Snapshot

LEMMA AccountsImported ==
  ASSUME ImportingAccounts
  PROVE  \E db, w, j, named : /\ KeptRows(db) /\ w \in Ws /\ LiveConfig(j)
                             /\ Imported(db, w, j, named)
<1>1. PICK w \in Ws, groups \in [Gid -> {None} \cup [ws : Ws \cup {None}, enabled : {TRUE}]],
           users \in [Uid -> {None} \cup [gid : Gid, enabled : {TRUE}, password : {"own"}]],
           there \in [Gid -> {None, FALSE}],
           theirs \in [Uid -> {None} \cup [gid : Gid, enabled : {FALSE}]] :
        /\ \A u \in Uid : users[u] # None => groups[users[u].gid] # None
        /\ Imported([NoRows EXCEPT !.group = groups, !.user = users], w,
                    [NoJasmin EXCEPT !.group = there, !.user = theirs], {})
  BY DEF ImportingAccounts
<1> DEFINE db == [NoRows EXCEPT !.group = groups, !.user = users]
           j  == [NoJasmin EXCEPT !.group = there, !.user = theirs]
<1>2. groups \in [Gid -> GroupRow \cup {None}]
  BY DEF GroupRow
<1>3. users \in [Uid -> UserRow \cup {None}]
  BY DEF UserRow
<1>4. db \in Rows /\ db.group = groups /\ db.user = users /\ db.filter = NoRows.filter
  BY <1>2, <1>3, NoRowsType DEF Rows
<1>5. there \in [Gid -> BOOLEAN \cup {None}]
  OBVIOUS
<1>6. theirs \in [Uid -> [gid : Gid, enabled : BOOLEAN] \cup {None}]
  OBVIOUS
<1>7. j \in Snapshot /\ j.route = NoJasmin.route
  BY <1>5, <1>6, NoJasminType DEF Snapshot
<1>8. \A w1 \in Ws, c \in Criterion : NoRows.filter[FidOf[w1, c]] = None
  BY NoRowsType, FidsApart
<1> HIDE DEF db, j
<1>9. KeptRows(db)
  <2>1. \A u \in Uid : db.user[u] # None => db.group[db.user[u].gid] # None
    BY <1>1, <1>4
  <2>3. db.filter = NoRows.filter
    BY <1>4
  <2>2. \A w1 \in Ws, c \in Criterion : db.filter[FidOf[w1, c]] = None
    BY <1>8, <2>3
  <2> QED
    BY <1>4, <2>1, <2>2 DEF KeptRows
<1>10. LiveConfig(j)
  BY <1>7, NoJasminType DEF LiveConfig
<1> QED
  BY <1>1, <1>9, <1>10 DEF db, j

LEMMA RoutesImported ==
  ASSUME ImportingRoutes
  PROVE  \E db, w, j, named : /\ KeptRows(db) /\ w \in Ws /\ LiveConfig(j)
                             /\ Imported(db, w, j, named)
<1>1. PICK w \in {CHOOSE v \in Ws : TRUE} :
           \E rows \in {r \in [Fid -> {None} \cup [ws : Ws, says : Criterion \ Unsavable]] :
                        \A x \in Ws \X Criterion :
                          r[FidOf[x]] \in {None, [ws |-> x[1], says |-> x[2]]}},
              known \in SUBSET (Ws \X SmppCid), live \in [SmppCid -> {None} \cup Setting],
              routes \in JasminRoutes,
              script \in Script \cup {NoScript}, unsaved \in {{}, {w}} :
             Imported(RouteRows(rows, known), w, LiveJasmin(live, routes, script), unsaved)
  BY DEF ImportingRoutes
<1>2. PICK rows \in {r \in [Fid -> {None} \cup [ws : Ws, says : Criterion \ Unsavable]] :
                      \A x \in Ws \X Criterion :
                        r[FidOf[x]] \in {None, [ws |-> x[1], says |-> x[2]]}},
           known \in SUBSET (Ws \X SmppCid), live \in [SmppCid -> {None} \cup Setting],
           routes \in JasminRoutes,
           script \in Script \cup {NoScript}, unsaved \in {{}, {w}} :
        Imported(RouteRows(rows, known), w, LiveJasmin(live, routes, script), unsaved)
  BY <1>1
<1>3. w \in Ws
  BY <1>1, InputsAssumption
<1> DEFINE db == RouteRows(rows, known)
           j  == LiveJasmin(live, routes, script)
           smpp == [x \in Ws \X SmppCid |->
                     IF x \in known
                     THEN [setting |-> OneSetting, active |-> FALSE] ELSE None]
           http == [x \in Ws \X HttpCid |->
                     IF <<x[1], OneSmpp>> \in known THEN OneSetting ELSE None]
           route == [x \in Ws \X Slot |->
                      IF <<x[1], OneSmpp>> \in known
                      THEN [filters |-> {}, connectors |-> {OneSmpp}] ELSE None]
           icept == [x \in Ws \X Slot |->
                      IF <<x[1], OneSmpp>> \in known
                      THEN [filters |-> {}, script |-> OneScript] ELSE None]
           smpps == [c \in SmppCid |-> IF live[c] = None THEN None
                                       ELSE [setting |-> live[c], running |-> TRUE]]
           scripts == [s \in Slot |-> [filters |-> Criterion, script |-> script]]
<1>4. rows \in [Fid -> FilterRec \cup {None}]
  BY DEF FilterRec
<1>5. smpp \in [Ws \X SmppCid -> SmppRow \cup {None}]
  <2>1. OneSetting \in Setting
    BY InputsAssumption DEF OneSetting
  <2> QED
    BY <2>1 DEF SmppRow
<1>17. http \in [Ws \X HttpCid -> Setting \cup {None}]
  BY InputsAssumption DEF OneSetting
<1>18. icept \in [Ws \X Slot -> ScriptRec \cup {None}]
  <2>1. OneScript \in Script
    BY InputsAssumption DEF OneScript
  <2> QED
    BY <2>1 DEF ScriptRec
<1>6. route \in [Ws \X Slot -> RouteRec \cup {None}]
  <2>1. OneSmpp \in SmppCid
    BY InputsAssumption DEF OneSmpp
  <2> QED
    BY <2>1 DEF RouteRec
<1>7. db = [NoRows EXCEPT !.filter = rows, !.smpp = smpp, !.http = http, !.route = route,
                          !.interceptor = icept]
  BY DEF RouteRows
<1> HIDE DEF db, smpp, http, route, icept
<1>8. db \in Rows /\ db.user = NoRows.user /\ db.filter = rows
  BY <1>4, <1>5, <1>6, <1>7, <1>17, <1>18, NoRowsType DEF Rows
<1>9. \A v \in Ws, c \in Criterion : rows[FidOf[v, c]] \in {None, [ws |-> v, says |-> c]}
  <2> SUFFICES ASSUME NEW v \in Ws, NEW c \in Criterion
               PROVE  rows[FidOf[v, c]] \in {None, [ws |-> v, says |-> c]}
    OBVIOUS
  <2> DEFINE x == <<v, c>>
  <2>1. x \in Ws \X Criterion /\ x[1] = v /\ x[2] = c
    OBVIOUS
  <2>2. rows[FidOf[x]] \in {None, [ws |-> x[1], says |-> x[2]]}
    BY <2>1
  <2> QED
    BY <2>1, <2>2
<1>10. KeptRows(db)
  BY <1>8, <1>9, NoRowsType DEF KeptRows
<1>11. smpps \in [SmppCid -> [setting : Setting, running : BOOLEAN] \cup {None}]
  OBVIOUS
<1>12. scripts \in [Slot -> [filters : SUBSET Criterion,
                             script : Script \cup {NoScript}] \cup {None}]
  OBVIOUS
<1>13. /\ routes \in [Slot -> [filters : SUBSET Criterion,
                               connectors : SUBSET (SmppCid \cup HttpCid)] \cup {None}]
       /\ \A s \in Slot \ MoSlot : routes[s] # None => routes[s].connectors \subseteq SmppCid
  BY DEF JasminRoutes
<1>14. j = [NoJasmin EXCEPT !.smpp = smpps, !.route = routes, !.interceptor = scripts]
  BY DEF LiveJasmin
<1> HIDE DEF j, smpps, scripts
<1>15. j \in Snapshot /\ j.route = routes
  BY <1>11, <1>12, <1>13, <1>14, NoJasminType DEF Snapshot
<1>16. LiveConfig(j)
  BY <1>13, <1>15 DEF LiveConfig
<1> QED
  BY <1>2, <1>3, <1>10, <1>16 DEF db, j

LEMMA ImportCalled ==
  ASSUME Next, call'.of = "Import"
  PROVE  \E db, w, j, named : /\ KeptRows(db) /\ w \in Ws /\ LiveConfig(j)
                             /\ Imported(db, w, j, named)
  BY WhoCalls, AccountsImported, RoutesImported

\* Whatever an import starts from: importing again from the same Jasmin changes nothing.
THEOREM ImportsRepeat == Spec => []ImportRepeats
<1>1. Init => ImportRepeats
  BY DEF Init, ImportRepeats, Called
<1>2. ImportRepeats /\ [Next]_call => ImportRepeats'
  <2> SUFFICES ASSUME ImportRepeats, [Next]_call PROVE ImportRepeats'
    OBVIOUS
  <2>1. CASE UNCHANGED call
    BY <2>1 DEF ImportRepeats, Called
  <2>2. CASE Next
    <3> SUFFICES ASSUME call'.of = "Import"
                 PROVE  Import(call'.out, call'.w, call'.jasmin, call'.unsaved) = call'.out
      BY DEF ImportRepeats, Called
    <3>1. PICK db, w, j, named : /\ KeptRows(db) /\ w \in Ws /\ LiveConfig(j)
                                 /\ Imported(db, w, j, named)
      BY <2>2, ImportCalled
    <3>2. /\ call'.out = Import(db, w, j, named) /\ call'.w = w /\ call'.jasmin = j
          /\ call'.unsaved = named
      BY <3>1 DEF Imported
    <3> QED
      BY <3>1, <3>2, SameAgain
  <2> QED
    BY <2>1, <2>2
<1> QED
  BY <1>1, <1>2, PTL DEF Spec

\* Whatever an import starts from: it touches no row of another workspace, deletes no
\* row at all, changes no filter, and keeps the password of a user it knows.
THEOREM ImportsAreCareful == Spec => []ImportIsCareful
<1>1. Init => ImportIsCareful
  BY DEF Init, ImportIsCareful, Called
<1>2. ImportIsCareful /\ [Next]_call => ImportIsCareful'
  <2> SUFFICES ASSUME ImportIsCareful, [Next]_call PROVE ImportIsCareful'
    OBVIOUS
  <2>1. CASE UNCHANGED call
    BY <2>1 DEF ImportIsCareful, Called
  <2>2. CASE Next
    <3> SUFFICES ASSUME call'.of = "Import" PROVE Touches(call'.in, call'.out, call'.w)
      BY DEF ImportIsCareful, Called, Touches
    <3>1. PICK db, w, j, named : /\ KeptRows(db) /\ w \in Ws /\ LiveConfig(j)
                                 /\ Imported(db, w, j, named)
      BY <2>2, ImportCalled
    <3>2. call'.in = db /\ call'.out = Import(db, w, j, named) /\ call'.w = w
      BY <3>1 DEF Imported
    <3> QED
      BY <3>1, <3>2, Careful
  <2> QED
    BY <2>1, <2>2
<1> QED
  BY <1>1, <1>2, PTL DEF Spec

\* Whatever an import that did not fail starts from: each route and interceptor of
\* Jasmin has its row, with the filters and connectors that could be had.
THEOREM ImportsAreComplete == Spec => []ImportIsComplete
<1>1. Init => ImportIsComplete
  BY DEF Init, ImportIsComplete, Called
<1>2. ImportIsComplete /\ [Next]_call => ImportIsComplete'
  <2> SUFFICES ASSUME ImportIsComplete, [Next]_call PROVE ImportIsComplete'
    OBVIOUS
  <2>1. CASE UNCHANGED call
    BY <2>1, CompleteIs DEF Called
  <2>2. CASE Next
    <3> SUFFICES ASSUME call'.of = "Import", ~Fails(call'.w, call'.jasmin, call'.unsaved),
                        NEW s \in Slot
                 PROVE  HasRows(call'.out, call'.w, call'.jasmin, s)
      BY CompleteIs DEF Called
    <3>1. PICK db, w, j, named : /\ KeptRows(db) /\ w \in Ws /\ LiveConfig(j)
                                 /\ Imported(db, w, j, named)
      BY <2>2, ImportCalled
    <3>2. /\ call'.out = Import(db, w, j, named) /\ call'.w = w /\ call'.jasmin = j
          /\ call'.unsaved = named
      BY <3>1 DEF Imported
    <3>3. ~Fails(w, j, named)
      BY <3>2
    <3>4. HasRows(Import(db, w, j, named), w, j, s)
      BY <3>1, <3>3, Complete
    <3> QED
      BY <3>2, <3>4
  <2> QED
    BY <2>1, <2>2
<1> QED
  BY <1>1, <1>2, PTL DEF Spec

-----------------------------------------------------------------------------
(* Requests to send.                                                       *)

LEMMA UpToIsSeq == \A S : \A n \in Nat : UpTo(S, n) \subseteq Seq(S)
  BY DEF UpTo

\* The positions of what is in T.
Where(s, T)   == {i \in DOMAIN s : s[i] \in T}
Count(s, T) == Cardinality(Where(s, T))

LEMMA CountType ==
  ASSUME NEW X, NEW s \in Seq(X), NEW T
  PROVE  /\ IsFiniteSet(Where(s, T))
         /\ Count(s, T) \in Nat
<1>1. IsFiniteSet(1..Len(s)) /\ Len(s) \in Nat
  BY FS_Interval
<1>2. Where(s, T) \in SUBSET (1..Len(s))
  BY DEF Where
<1>3. IsFiniteSet(Where(s, T))
  BY <1>1, <1>2, FS_Subset
<1> QED
  BY <1>3, FS_CardinalityType DEF Count

\* A sequence after another one: its positions move by the length of that one.
LEMMA CountMoved ==
  ASSUME NEW X, NEW t \in Seq(X), NEW T, NEW m \in Nat
  PROVE  LET moved == {m + i : i \in Where(t, T)}
         IN  IsFiniteSet(moved) /\ Cardinality(moved) = Count(t, T)
<1> DEFINE A == Where(t, T)
           B == {m + i : i \in A}
           F == [i \in A |-> m + i]
<1>1. A \subseteq Nat
  BY DEF Where
<1>2. IsFiniteSet(A)
  BY CountType
<1> HIDE DEF A
<1>3. F \in [A -> B] /\ \A a, b \in A : F[a] = F[b] => a = b
  BY <1>1
<1>4. \A y \in B : \E a \in A : F[a] = y
  OBVIOUS
<1> HIDE DEF B, F
<1>5. F \in Bijection(A, B)
  BY <1>3, <1>4, Fun_IsBij
<1>6. ExistsBijection(A, B)
  BY <1>5 DEF ExistsBijection
<1>7. IsFiniteSet(B) /\ Cardinality(B) = Cardinality(A)
  BY <1>2, <1>6, FS_Bijection
<1> QED
  BY <1>7 DEF A, B, Count

LEMMA CountConcat ==
  ASSUME NEW X, NEW s \in Seq(X), NEW t \in Seq(X), NEW T
  PROVE  Count(s \o t, T) = Count(s, T) + Count(t, T)
<1> DEFINE m == Len(s)
           n == Len(t)
           u == s \o t
           A == Where(s, T)
           B == Where(t, T)
           moved == {m + i : i \in B}
<1>1. /\ m \in Nat /\ n \in Nat /\ DOMAIN s = 1..m /\ DOMAIN t = 1..n
      /\ DOMAIN u = 1..(m + n)
      /\ \A i \in 1..m : u[i] = s[i]
      /\ \A i \in 1..n : u[m + i] = t[i]
  BY ConcatProperties
<1> HIDE DEF m, n, u
<1>2. A \subseteq 1..m /\ B \subseteq 1..n
  BY <1>1 DEF Where
<1>3. Where(u, T) = A \cup moved
  <2>1. ASSUME NEW i \in Where(u, T) PROVE i \in A \cup moved
    <3>1. i \in 1..(m + n) /\ u[i] \in T
      BY <1>1 DEF Where
    <3>2. CASE i <= m
      BY <1>1, <3>1, <3>2 DEF Where
    <3>3. CASE ~(i <= m)
      <4>1. i - m \in 1..n /\ m + (i - m) = i
        BY <1>1, <3>1, <3>3
      <4>2. u[m + (i - m)] = t[i - m]
        BY <1>1, <4>1
      <4>3. t[i - m] \in T
        BY <3>1, <4>1, <4>2
      <4>4. i - m \in B
        BY <1>1, <4>1, <4>3 DEF Where
      <4> HIDE DEF B
      <4> QED
        BY <4>1, <4>4
    <3> QED
      BY <3>1, <3>2, <3>3, <1>1
  <2>2. A \subseteq Where(u, T)
    BY <1>1 DEF Where
  <2>3. ASSUME NEW i \in B PROVE m + i \in Where(u, T)
    <3>1. i \in 1..n /\ t[i] \in T
      BY <1>1 DEF Where
    <3>2. m + i \in 1..(m + n) /\ u[m + i] = t[i]
      BY <1>1, <3>1
    <3> QED
      BY <1>1, <3>1, <3>2 DEF Where
  <2> HIDE DEF A, B
  <2>4. moved \subseteq Where(u, T)
    BY <2>3
  <2> QED
    BY <2>1, <2>2, <2>4
<1>4. A \cap moved = {}
  BY <1>1, <1>2
<1>5. IsFiniteSet(A) /\ Cardinality(A) = Count(s, T) /\ Count(s, T) \in Nat
  BY CountType DEF Count
<1>6. IsFiniteSet(moved) /\ Cardinality(moved) = Count(t, T) /\ Count(t, T) \in Nat
  BY <1>1, CountMoved, CountType
<1> HIDE DEF A, B, moved
<1>7. Cardinality(A \cup moved) = Cardinality(A) + Cardinality(moved) - Cardinality(A \cap moved)
  BY <1>5, <1>6, FS_Union
<1>8. Cardinality(A \cap moved) = 0
  BY <1>4, FS_EmptySet
<1>9. Cardinality(A \cup moved) = Count(s, T) + Count(t, T)
  BY <1>5, <1>6, <1>7, <1>8
<1> QED
  BY <1>3, <1>9 DEF u, Count

LEMMA SummedSteps ==
  ASSUME NEW ns \in Seq(Nat)
  PROVE  /\ Summed(ns)[0] = 0
         /\ \A i \in 1..Len(ns) : Summed(ns)[i] = Summed(ns)[i - 1] + ns[i]
<1> DEFINE m == Len(ns)
           start == 0
           D(g) == [i \in 0..m |-> IF i = 0 THEN start ELSE g[i - 1] + ns[i]]
           step == [i \in 1..m |-> [x \in Nat |-> x + ns[i]]]
<1>1. m \in Nat
  OBVIOUS
<1>2. start \in Nat
  OBVIOUS
<1>3. step \in Loop(m, Nat)
  BY DEF Loop
<1>4. \E f : Runs(f, m, Nat, start, step)
  <2> HIDE DEF m, start, step
  <2> QED
    BY <1>1, <1>2, <1>3, Recursion
<1>5. PICK f \in [0..m -> Nat] : f[0] = start /\ \A i \in 1..m : f[i] = step[i][f[i - 1]]
  BY <1>4 DEF Runs
<1>6. \A i \in 1..m : f[i] = f[i - 1] + ns[i]
  <2> SUFFICES ASSUME NEW i \in 1..m PROVE f[i] = f[i - 1] + ns[i]
    OBVIOUS
  <2>1. i - 1 \in 0..m
    OBVIOUS
  <2>2. f[i - 1] \in Nat
    BY <2>1
  <2> QED
    BY <1>5, <2>2
<1>7. f = D(f)
  BY <1>5, <1>6
<1>8. Summed(ns) = CHOOSE g : g = D(g)
  BY DEF Summed
<1>9. Summed(ns) = D(Summed(ns))
  <2> HIDE DEF D
  <2> QED
    BY <1>7, <1>8
<1> QED
  BY <1>1, <1>9

\* Of the parts together, what is counted in each.
LEMMA CountFlat ==
  ASSUME NEW X, NEW s \in Seq(Seq(X)), NEW T
  PROVE  Count(FlattenSeq(s), T) = Total([k \in 1..Len(s) |-> Count(s[k], T)])
<1> DEFINE m == Len(s)
           ns == [k \in 1..m |-> Count(s[k], T)]
<1>1. PICK f \in [0..Len(s) -> Seq(X)] : Concatenates(f, s) /\ FlattenSeq(s) = f[Len(s)]
  BY FlattenSteps
<1>2. m \in Nat /\ m \in 0..m
  OBVIOUS
<1>3. \A k \in 1..m : s[k] \in Seq(X) /\ Count(s[k], T) \in Nat
  BY CountType
<1>4. ns \in Seq(Nat) /\ Len(ns) = m /\ \A k \in 1..m : ns[k] = Count(s[k], T)
  BY <1>2, <1>3
<1> HIDE DEF ns
<1>5. Summed(ns)[0] = 0 /\ \A i \in 1..m : Summed(ns)[i] = Summed(ns)[i - 1] + ns[i]
  BY <1>4, SummedSteps
<1> DEFINE S == {k \in 0..m : Count(f[k], T) = Summed(ns)[k]}
<1>6. 0 \in S
  <2>1. f[0] = <<>>
    BY <1>1 DEF Concatenates
  <2>2. Where(<<>>, T) = {}
    BY DEF Where
  <2>3. Count(f[0], T) = 0
    BY <2>1, <2>2, FS_EmptySet DEF Count
  <2> QED
    BY <1>2, <1>5, <2>3
<1>7. \A k \in 1..m : k - 1 \in S => k \in S
  <2> SUFFICES ASSUME NEW k \in 1..m, Count(f[k - 1], T) = Summed(ns)[k - 1]
               PROVE  Count(f[k], T) = Summed(ns)[k]
    OBVIOUS
  <2>1. f[k] = f[k - 1] \o s[k]
    BY <1>1 DEF Concatenates
  <2>2. k - 1 \in 0..Len(s) /\ s[k] \in Seq(X)
    BY <1>2, <1>3
  <2>3. f[k - 1] \in Seq(X)
    BY <2>2
  <2>4. Count(f[k - 1] \o s[k], T) = Count(f[k - 1], T) + Count(s[k], T)
    BY <2>2, <2>3, CountConcat
  <2> QED
    BY <1>4, <1>5, <2>1, <2>4
<1> HIDE DEF S
<1>8. 0..m \subseteq S
  BY <1>2, <1>6, <1>7, StepInduction
<1> QED
  BY <1>1, <1>2, <1>4, <1>8 DEF S, Total, ns

LEMMA CountAll ==
  ASSUME NEW X, NEW s \in Seq(X)
  PROVE  Count(s, X) = Len(s)
<1>1. Where(s, X) = 1..Len(s) /\ Len(s) \in Nat
  BY DEF Where
<1>2. Cardinality(1..Len(s)) = Len(s)
  BY <1>1, FS_Interval
<1> QED
  BY <1>1, <1>2 DEF Count

\* An entry of a payload, and a row of the batch.
SomeEntry(e) ==
  /\ e.content \in Text \cup {NoText}
  /\ e.to # Absent => e.to \in Seq(Dialled)
  /\ e.ids # Absent => e.ids \in Seq(AnyId)
  /\ e.id \in AnyId
Row == [to : Cleaned, content : Text \cup {NoText}, id : AnyId]
IdRows(id) == {r \in Row : r.id = id}

\* An entry that is taken is a row for each destination, and its ids are on them.
LEMMA ItemsKeep ==
  ASSUME NEW e, SomeEntry(e), ~EntryRefused(e)
  PROVE  /\ ItemsOf(e) \in Seq(Row)
         /\ Len(ItemsOf(e)) = Len(e.to)
         /\ \A id \in ClientId : Count(ItemsOf(e), IdRows(id)) = Given(e, id)
<1> DEFINE ids == IdsOf(e)
           items == ItemsOf(e)
           m == Len(e.to)
<1>1. e.to \in Seq(Dialled) /\ e.to # <<>> /\ Len(ids) = m
  BY DEF EntryRefused, SomeEntry
<1>2. m \in Nat /\ DOMAIN e.to = 1..m
  BY <1>1
<1>3. ids \in Seq(AnyId)
  <2>1. CASE e.ids # Absent
    BY <2>1 DEF IdsOf, SomeEntry
  <2>2. CASE e.ids = Absent /\ e.id # NoId
    BY <2>2 DEF IdsOf, SomeEntry
  <2>3. CASE e.ids = Absent /\ e.id = NoId
    BY <1>1, <1>2, <2>3 DEF IdsOf, AnyId
  <2> QED
    BY <2>1, <2>2, <2>3
<1>4. DOMAIN ids = 1..m /\ \A i \in 1..m : ids[i] \in AnyId /\ Clean(ids[i]) \in AnyId
  BY <1>1, <1>2, <1>3 DEF Clean, AnyId
<1>5. \A i \in 1..m : Digits[e.to[i]] \in Cleaned
  BY <1>1, <1>2 DEF Cleaned
<1>6. items = [i \in 1..m |-> [to |-> Digits[e.to[i]], content |-> e.content,
                               id |-> Clean(ids[i])]]
  BY <1>2 DEF ItemsOf
<1>7. \A i \in 1..m : items[i] \in Row /\ items[i].id = Clean(ids[i])
  BY <1>4, <1>5, <1>6 DEF Row, SomeEntry
<1>8. items \in Seq(Row) /\ Len(items) = m /\ DOMAIN items = 1..m
  BY <1>2, <1>6, <1>7
<1> HIDE DEF items
<1>9. ASSUME NEW id \in ClientId
      PROVE  Count(items, IdRows(id)) = Given(e, id)
  <2>1. id # NoId /\ id # Blank
    BY PayloadAssumption
  <2>2. \A i \in 1..m : items[i].id = id <=> ids[i] = id
    BY <1>7, <2>1 DEF Clean
  <2>3. Where(items, IdRows(id)) = {i \in 1..m : ids[i] = id}
    BY <1>7, <1>8, <2>2 DEF Where, IdRows
  <2>4. CASE e.ids # Absent
    BY <1>4, <2>3, <2>4 DEF IdsOf, Given, Count
  <2>5. CASE e.ids = Absent /\ e.id # NoId
    <3>1. ids = <<e.id>>
      BY <2>5 DEF IdsOf
    <3>2. m = 1 /\ ids[1] = e.id
      BY <1>1, <3>1
    <3>3. {i \in 1..m : ids[i] = id} = {i \in {1} : e.id = id}
      BY <3>2
    <3> QED
      BY <2>3, <2>5, <3>3 DEF Given, Count
  <2>6. CASE e.ids = Absent /\ e.id = NoId
    <3>1. \A i \in 1..m : ids[i] = NoId
      BY <1>2, <2>6 DEF IdsOf
    <3>2. {i \in 1..m : ids[i] = id} = {} /\ {i \in {1} : e.id = id} = {}
      BY <2>1, <2>6, <3>1
    <3> QED
      BY <2>3, <2>6, <3>2 DEF Given, Count
  <2> QED
    BY <2>4, <2>5, <2>6
<1> QED
  BY <1>8, <1>9 DEF items

\* The rows that a payload becomes.
Expanded(es) == FlattenSeq([k \in DOMAIN es |-> ItemsOf(es[k])])

LEMMA RowsKeep ==
  ASSUME NEW es, es \in Seq({e \in Range(es) : SomeEntry(e)}),
         \A k \in DOMAIN es : ~EntryRefused(es[k])
  PROVE  /\ Len(Expanded(es)) = Total([k \in DOMAIN es |-> Len(es[k].to)])
         /\ \A id \in ClientId :
              Cardinality({i \in DOMAIN Expanded(es) : Expanded(es)[i].id = id})
                = Total([k \in DOMAIN es |-> Given(es[k], id)])
<1> DEFINE m == Len(es)
           s == [k \in 1..m |-> ItemsOf(es[k])]
           flat == FlattenSeq(s)
<1>1. m \in Nat /\ DOMAIN es = 1..m
  OBVIOUS
<1>2. \A k \in 1..m : SomeEntry(es[k]) /\ ~EntryRefused(es[k])
  BY <1>1
<1>3. \A k \in 1..m : s[k] \in Seq(Row) /\ Len(s[k]) = Len(es[k].to)
  BY <1>2, ItemsKeep
<1>4. \A k \in 1..m : \A id \in ClientId : Count(s[k], IdRows(id)) = Given(es[k], id)
  BY <1>2, ItemsKeep
<1>5. s \in Seq(Seq(Row)) /\ Len(s) = m
  BY <1>1, <1>3
<1>6. Expanded(es) = flat
  BY <1>1 DEF Expanded
<1> HIDE DEF s
<1>7. flat \in Seq(Row)
  BY <1>5, FlattenType
<1>8. Len(flat) = Total([k \in DOMAIN es |-> Len(es[k].to)])
  <2>1. Count(flat, Row) = Total([k \in 1..m |-> Count(s[k], Row)])
    BY <1>5, CountFlat
  <2>2. \A k \in 1..m : Count(s[k], Row) = Len(es[k].to)
    BY <1>3, CountAll
  <2>3. [k \in 1..m |-> Count(s[k], Row)] = [k \in DOMAIN es |-> Len(es[k].to)]
    BY <1>1, <2>2
  <2>4. Count(flat, Row) = Len(flat)
    BY <1>7, CountAll
  <2> QED
    BY <2>1, <2>3, <2>4
<1>9. ASSUME NEW id \in ClientId
      PROVE  Cardinality({i \in DOMAIN flat : flat[i].id = id})
               = Total([k \in DOMAIN es |-> Given(es[k], id)])
  <2>1. Count(flat, IdRows(id)) = Total([k \in 1..m |-> Count(s[k], IdRows(id))])
    BY <1>5, CountFlat
  <2>2. [k \in 1..m |-> Count(s[k], IdRows(id))] = [k \in DOMAIN es |-> Given(es[k], id)]
    BY <1>1, <1>4
  <2>3. \A i \in DOMAIN flat : flat[i] \in Row
    BY <1>7
  <2> HIDE DEF flat
  <2>4. Where(flat, IdRows(id)) = {i \in DOMAIN flat : flat[i].id = id}
    BY <2>3 DEF Where, IdRows
  <2> QED
    BY <2>1, <2>2, <2>4 DEF Count
<1> QED
  BY <1>6, <1>8, <1>9

\* The payloads of a call.
LEMMA ExpandCalled ==
  ASSUME Next, call'.of = "Expand"
  PROVE  \E batch, es :
           /\ es \in Seq({e \in Range(es) : SomeEntry(e)})
           /\ call'.in = [batch |-> batch, messages |-> es]
           /\ call'.out = Expand([batch |-> batch, messages |-> es])
<1>1. PICK batch \in AnyId, es \in {<<e>> : e \in Entry} \cup UpTo(ShortEntry, MaxEntries) :
        LET p == [batch |-> batch, messages |-> es]
        IN  call' = [of |-> "Expand", in |-> p, out |-> Expand(p)]
  BY WhoCalls DEF Expanding
<1>2. \A e \in Entry : SomeEntry(e)
  BY UpToIsSeq, BoundsAssumption DEF Entry, SomeEntry
<1>3. \A e \in ShortEntry : SomeEntry(e)
  <2> DEFINE D == {d \in Dialled : Digits[d] # NoDigits}
  <2>1. UpTo(D, MaxTo) \subseteq Seq(D) /\ Seq(D) \subseteq Seq(Dialled)
    BY UpToIsSeq, BoundsAssumption
  <2> QED
    BY <2>1 DEF ShortEntry, SomeEntry, AnyId
<1>4. es \in Seq({e \in Range(es) : SomeEntry(e)})
  <2>1. CASE es \in {<<e>> : e \in Entry}
    <3>1. PICK e \in Entry : es = <<e>>
      BY <2>1
    <3> QED
      BY <1>2, <3>1 DEF Range
  <2>2. CASE es \in UpTo(ShortEntry, MaxEntries)
    <3>1. es \in Seq(ShortEntry)
      BY <2>2, UpToIsSeq, BoundsAssumption
    <3> QED
      BY <1>3, <3>1 DEF Range
  <2> QED
    BY <2>1, <2>2
<1> QED
  BY <1>1, <1>4

\* Whatever the payload, what is accepted of it is a row for each destination, and an id
\* of its client is on one row for each time it was given.
THEOREM RowsHaveTheirIds == Spec => []EachRowItsId
<1>1. Init => EachRowItsId
  BY DEF Init, EachRowItsId, Called
<1>2. EachRowItsId /\ [Next]_call => EachRowItsId'
  <2> SUFFICES ASSUME EachRowItsId, [Next]_call PROVE EachRowItsId'
    OBVIOUS
  <2>1. CASE UNCHANGED call
    BY <2>1 DEF EachRowItsId, Called
  <2>2. CASE Next
    <3> DEFINE Kept(es, out) ==
          /\ Len(out) = Total([k \in DOMAIN es |-> Len(es[k].to)])
          /\ \A id \in ClientId :
               Cardinality({i \in DOMAIN out : out[i].id = id})
                 = Total([k \in DOMAIN es |-> Given(es[k], id)])
    <3> SUFFICES ASSUME call'.of = "Expand", call'.out # Refused
                 PROVE  Kept(call'.in.messages, call'.out)
      BY DEF EachRowItsId, Called
    <3>1. PICK batch, es : /\ es \in Seq({e \in Range(es) : SomeEntry(e)})
                           /\ call'.in = [batch |-> batch, messages |-> es]
                           /\ call'.out = Expand([batch |-> batch, messages |-> es])
      BY <2>2, ExpandCalled
    <3>2. (\A k \in DOMAIN es : ~EntryRefused(es[k])) /\ call'.out = Expanded(es)
      BY <3>1 DEF Expand, Expanded
    <3>3. Kept(es, Expanded(es))
      BY <3>1, <3>2, RowsKeep
    <3>4. call'.in.messages = es
      BY <3>1
    <3> QED
      BY <3>2, <3>3, <3>4
  <2> QED
    BY <2>1, <2>2
<1> QED
  BY <1>1, <1>2, PTL DEF Spec

\* Whatever is typed into the bulk form's field, each of its numbers is sent once.
THEOREM NumbersAreOnce == Spec => []EachNumberOnce
<1>1. Init => EachNumberOnce
  BY DEF Init, EachNumberOnce, Called
<1>2. EachNumberOnce /\ [Next]_call => EachNumberOnce'
  <2> SUFFICES ASSUME EachNumberOnce, [Next]_call PROVE EachNumberOnce'
    OBVIOUS
  <2>1. CASE UNCHANGED call
    BY <2>1 DEF EachNumberOnce, Called
  <2>2. CASE Next
    <3> SUFFICES ASSUME call'.of = "Recipients", call'.out # Refused
                 PROVE  /\ \A i, j \in DOMAIN call'.out : call'.out[i] = call'.out[j] => i = j
                        /\ {call'.out[i] : i \in DOMAIN call'.out}
                             = {Digits[call'.in[i]] : i \in DOMAIN call'.in} \ {NoDigits}
      BY DEF EachNumberOnce, Called
    <3>1. Splitting
      BY <2>2, WhoCalls
    <3>2. PICK parts \in UpTo(Dialled, MaxParts) :
            call' = [of |-> "Recipients", in |-> parts, out |-> Recipients(parts)]
      BY <3>1 DEF Splitting
    <3>3. call'.in = parts /\ call'.out = Recipients(parts)
      BY <3>2
    <3>4. parts \in Seq(Dialled)
      BY UpToIsSeq, BoundsAssumption
    <3> DEFINE ns == Recipients(parts)
    <3>5. Distinct(ns) /\ Values(ns) = Stand(parts, Len(parts)) \ {NoDigits}
      BY <3>3, <3>4, RecipientsOnce
    <3>6. DOMAIN parts = 1..Len(parts)
      BY <3>4
    <3> HIDE DEF ns
    <3>7. call'.in = parts /\ call'.out = ns
      BY <3>3 DEF ns
    <3>8. \A i, j \in DOMAIN ns : ns[i] = ns[j] => i = j
      BY <3>5 DEF Distinct
    <3>9. {ns[i] : i \in DOMAIN ns} = {Digits[parts[i]] : i \in DOMAIN parts} \ {NoDigits}
      BY <3>5, <3>6 DEF Values, Stand
    <3> QED
      BY <3>7, <3>8, <3>9
  <2> QED
    BY <2>1, <2>2
<1> QED
  BY <1>1, <1>2, PTL DEF Spec

\* A call for the chunks of a batch.
LEMMA ChunksCalled ==
  ASSUME Next, call'.of = "Chunks"
  PROVE  \E text \in Seq(Text), size \in Nat \ {0}, limit \in Nat \ {0} :
           /\ call'.in.text = text /\ call'.in.size = size /\ call'.in.limit = limit
           /\ call'.out = Chunks(text, size, limit)
<1>1. PICK text \in UpTo(Text, MaxRows), size \in SameChunk, limit \in PersonalChunk :
        call' = [of |-> "Chunks", in |-> [text |-> text, size |-> size, limit |-> limit],
                 out |-> Chunks(text, size, limit)]
  BY WhoCalls DEF Chunking
<1>2. text \in Seq(Text) /\ size \in Nat \ {0} /\ limit \in Nat \ {0}
  BY UpToIsSeq, BoundsAssumption, PayloadAssumption
<1> QED
  BY <1>1, <1>2

\* Whatever the contents of a batch, its chunks hold every row once and in order.
THEOREM ChunksArePartitions == Spec => []ChunksPartition
<1>1. Init => ChunksPartition
  BY DEF Init, ChunksPartition, Called
<1>2. ChunksPartition /\ [Next]_call => ChunksPartition'
  <2> SUFFICES ASSUME ChunksPartition, [Next]_call PROVE ChunksPartition'
    OBVIOUS
  <2>1. CASE UNCHANGED call
    BY <2>1 DEF ChunksPartition, Called
  <2>2. CASE Next
    <3> SUFFICES ASSUME call'.of = "Chunks"
                 PROVE  /\ FlattenSeq(FlattenSeq(call'.out)) = [i \in DOMAIN call'.in.text |-> i]
                        /\ \A k \in DOMAIN call'.out :
                             /\ call'.out[k] # <<>>
                             /\ \A n \in DOMAIN call'.out[k] :
                                  SameText(call'.in.text, call'.out[k][n])
      BY DEF ChunksPartition, Called, SameText
    <3>1. PICK text \in Seq(Text), size \in Nat \ {0}, limit \in Nat \ {0} :
            /\ call'.in.text = text /\ call'.in.size = size /\ call'.in.limit = limit
            /\ call'.out = Chunks(text, size, limit)
      BY <2>2, ChunksCalled
    <3> DEFINE chunks == Chunks(text, size, limit)
    <3>2. /\ chunks \in Seq(Chunk)
          /\ FlattenSeq(FlattenSeq(chunks)) = [i \in 1..Len(text) |-> i]
          /\ \A k \in 1..Len(chunks) : FitChunk(text, chunks[k], size, limit)
      BY ChunksFit
    <3> HIDE DEF chunks
    <3>3. call'.out = chunks /\ call'.in.text = text
      BY <3>1 DEF chunks
    <3>4. DOMAIN text = 1..Len(text) /\ DOMAIN chunks = 1..Len(chunks)
      BY <3>2
    <3>5. ASSUME NEW k \in DOMAIN chunks
          PROVE  chunks[k] # <<>> /\ \A n \in DOMAIN chunks[k] : SameText(text, chunks[k][n])
      <4>1. FitChunk(text, chunks[k], size, limit) /\ chunks[k] \in Chunk
        BY <3>2, <3>4
      <4>2. DOMAIN chunks[k] = 1..Len(chunks[k])
        BY <4>1 DEF Chunk
      <4> QED
        BY <4>1, <4>2 DEF FitChunk
    <3> QED
      BY <3>2, <3>3, <3>4, <3>5
  <2> QED
    BY <2>1, <2>2
<1> QED
  BY <1>1, <1>2, PTL DEF Spec

\* Whatever the contents of a batch, its chunks keep to the limits.
THEOREM ChunksAreWithinLimits == Spec => []ChunksWithinLimits
<1>1. Init => ChunksWithinLimits
  BY DEF Init, ChunksWithinLimits, Called
<1>2. ChunksWithinLimits /\ [Next]_call => ChunksWithinLimits'
  <2> SUFFICES ASSUME ChunksWithinLimits, [Next]_call PROVE ChunksWithinLimits'
    OBVIOUS
  <2>1. CASE UNCHANGED call
    BY <2>1 DEF ChunksWithinLimits, Called
  <2>2. CASE Next
    <3> SUFFICES ASSUME call'.of = "Chunks", NEW k \in DOMAIN call'.out
                 PROVE  \/ /\ Len(call'.out[k]) = 1
                           /\ Len(call'.out[k][1]) <= call'.in.size
                        \/ /\ Len(call'.out[k]) <= call'.in.limit
                           /\ \A n \in DOMAIN call'.out[k] : Len(call'.out[k][n]) = 1
      BY DEF ChunksWithinLimits, Called
    <3>1. PICK text \in Seq(Text), size \in Nat \ {0}, limit \in Nat \ {0} :
            /\ call'.in.text = text /\ call'.in.size = size /\ call'.in.limit = limit
            /\ call'.out = Chunks(text, size, limit)
      BY <2>2, ChunksCalled
    <3> DEFINE chunks == Chunks(text, size, limit)
    <3>2. chunks \in Seq(Chunk) /\ \A n \in 1..Len(chunks) : FitChunk(text, chunks[n], size, limit)
      BY ChunksFit
    <3> HIDE DEF chunks
    <3>3. call'.out = chunks /\ call'.in.size = size /\ call'.in.limit = limit
      BY <3>1 DEF chunks
    <3>4. chunks[k] \in Chunk /\ FitChunk(text, chunks[k], size, limit)
      BY <3>2, <3>3
    <3>5. DOMAIN chunks[k] = 1..Len(chunks[k])
      BY <3>4 DEF Chunk
    <3> QED
      BY <3>3, <3>4, <3>5 DEF FitChunk
  <2> QED
    BY <2>1, <2>2
<1> QED
  BY <1>1, <1>2, PTL DEF Spec

=============================================================================
