----------------------------- MODULE RouteForms -----------------------------
(***************************************************************************)
(* The forms of filters, routes and interceptors, and the Jasmin objects   *)
(* that their rows are turned into.  Sources: jasmin/views/forms.py,       *)
(* jasmin/models.py, jasmin/utils/{filters,routers,interceptors}.py.  What *)
(* Jasmin's own constructors refuse is modelled from the library they come *)
(* from and marked external.                                               *)
(*                                                                         *)
(* A form either refuses its input with a message or accepts it and a row  *)
(* is built.  Building may still raise, and what it raises decides whether *)
(* the views turn it into a message and withdraw the row: they do for a    *)
(* ValidationError, and let any other exception through.                   *)
(***************************************************************************)
EXTENDS Integers, FiniteSets

CONSTANTS
  Order,     \* orders a form is given; NoOrder for none
  FilterId,  \* filters of the workspace
  JasminRefuses,  \* <<type, value>>: values a type's validator takes and the constructors of
                  \* Jasmin refuse, as a gid or a uid with a dot in it
  NoOrder

ASSUME RouteFormsAssumption == Order \subseteq Int /\ NoOrder \notin Order

Nature == {"MO", "MT"}
Results == {"ok", "ValidationError", "FilterValidationError", "KeyError", "TypeError",
            "ValueError", "refused_by_Jasmin"}

-----------------------------------------------------------------------------
(* Filters.  A value is of one of these kinds, by what the validators make *)
(* of it: none at all, a word, two words with a dot between, a pattern     *)
(* that does not compile, a number, two dates, two dates the wrong way     *)
(* round, two times, Python source, source that looks like a path (a line  *)
(* with a backslash in it that ends in .py, if only in a comment), text    *)
(* that does not compile as Python, the path of a script that is not there.*)

MoTypes  == {"ConnectorFilter"}
MtTypes  == {"UserFilter", "GroupFilter"}
AllTypes == {"TransparentFilter", "SourceAddrFilter", "DestinationAddrFilter",
             "ShortMessageFilter", "DateIntervalFilter", "TimeIntervalFilter",
             "TagFilter", "EvalPyFilter"}
FilterType == MoTypes \cup MtTypes \cup AllTypes

\* The enumeration that a nature is looked up in.
TypesFor(nature) ==
  CASE nature = "MO" -> MoTypes [] nature = "MT" -> MtTypes [] nature = "ALL" -> AllTypes

Value == {"none", "word", "dotted", "bad_pattern", "number", "dates", "dates_reversed",
          "times", "source", "path_like_source", "bad_source", "missing_path"}

\* compile() takes it, which is all that the forms look at ...
IsSource(v) == v \in {"word", "dotted", "number", "source", "path_like_source"}

\* ... and validate_py_script, which first looks for a file of that name.
IsScript(v) == IsSource(v) /\ v # "path_like_source"

\* The validator of a type takes this value (none is not put to it).
ValidFor(type, v) ==
  CASE type \in MoTypes \cup MtTypes -> TRUE
    [] type \in {"SourceAddrFilter", "DestinationAddrFilter", "ShortMessageFilter"} ->
         v # "bad_pattern"
    [] type = "DateIntervalFilter" -> v = "dates"
    [] type = "TimeIntervalFilter" -> v = "times"
    [] type = "TagFilter"          -> v = "number"
    [] type = "EvalPyFilter"       -> IsScript(v)
    [] type = "TransparentFilter"  -> FALSE

\* The keyword of the constructor of a type.
KeyOf(type) ==
  CASE type = "ConnectorFilter" -> "cid" [] type = "UserFilter" -> "uid"
    [] type = "GroupFilter" -> "gid" [] type = "SourceAddrFilter" -> "source_addr"
    [] type = "DestinationAddrFilter" -> "destination_addr"
    [] type = "ShortMessageFilter" -> "short_message"
    [] type = "DateIntervalFilter" -> "dateInterval"
    [] type = "TimeIntervalFilter" -> "timeInterval"
    [] type = "TagFilter" -> "tag" [] type = "EvalPyFilter" -> "pyCode"
    [] type = "TransparentFilter" -> "none"

\* JasminFilterForm.clean, of [nature, type, key, value]; key and value "none" if blank.
FilterFormTakes(f) ==
  IF f.type = "EvalPyFilter"
  THEN f.key \in {"none", "pyCode"} /\ f.value # "none" /\ IsSource(f.value)
  ELSE (f.key = "none") = (f.value = "none")

\* A row with a parameter; without a key there is none.
WithParam(f, key) ==
  [nature |-> f.nature, type |-> f.type, key |-> IF f.value = "none" THEN "none" ELSE key,
   value |-> IF key = "none" THEN "none" ELSE f.value]

\* Mutant: the key of a script is what was typed.
FilterRow_KeyAsTyped(f) == WithParam(f, f.key)

\* The row that JasminFilterForm.save makes of it.
FilterRow(f) == WithParam(f, IF f.type = "EvalPyFilter" THEN "pyCode" ELSE f.key)

\* JasminFilter.save: the lookup of the type raises KeyError, validation an exception of
\* its own.
FilterSaved(r) ==
  IF r.type \notin TypesFor(r.nature) THEN "KeyError"
  ELSE IF (r.value = "none") # (r.type = "TransparentFilter") THEN "FilterValidationError"
  ELSE IF r.value # "none" /\ ~ValidFor(r.type, r.value) THEN "FilterValidationError"
  ELSE "ok"

\* to_jasmin_filter.  A script goes through validate_py_script again; otherwise the key
\* of the row is the keyword argument, of the filter or of the Connector, User or Group
\* that it is wrapped in: an unknown keyword raises TypeError, and a User whose key is not
\* uid raises KeyError before that.
FilterBuilt(r) ==
  IF r.value = "none" THEN (IF r.type = "TransparentFilter" THEN "ok" ELSE "TypeError")
  ELSE IF r.type = "EvalPyFilter" THEN (IF IsScript(r.value) THEN "ok" ELSE "ValueError")
  ELSE IF r.key # KeyOf(r.type)
  THEN (IF r.type = "UserFilter" THEN "KeyError" ELSE "TypeError")
  ELSE IF <<r.type, r.value>> \in JasminRefuses THEN "refused_by_Jasmin"
  ELSE "ok"

\* Rows of filters that were saved.
FilterRows ==
  {r \in [nature : Nature \cup {"ALL"}, type : FilterType, value : Value,
          key : {"none", "word"} \cup {KeyOf(t) : t \in FilterType}] :
     FilterSaved(r) = "ok"}

\* The filters of a route or an interceptor are built first; one that raises, the first
\* the database returns, ends it.  row[x] is the row of filter x.
Unbuilt(filters, row) == {x \in filters : FilterBuilt(row[x]) # "ok"}
FiltersBuilt(filters, row) ==
  IF Unbuilt(filters, row) = {} THEN "ok"
  ELSE FilterBuilt(row[CHOOSE x \in Unbuilt(filters, row) : TRUE])

-----------------------------------------------------------------------------
(* Routes.  A form is [nature, type, order, rate, filters, smpp, http,     *)
(* clash]: the rate that is given, the filters picked among FilterId, how  *)
(* many connectors of each kind, and whether another route of the          *)
(* workspace has the nature and the order.                                 *)

Rate == {"blank", "negative", "fine"}

MtRoutes == {"DefaultRoute", "StaticMTRoute", "RandomRoundrobinMTRoute", "FailoverMTRoute"}
MoRoutes == {"DefaultRoute", "StaticMORoute", "RandomRoundrobinMORoute", "FailoverMORoute"}
RouteType == MtRoutes \cup MoRoutes
RoutesFor(nature) == IF nature = "MT" THEN MtRoutes ELSE MoRoutes
OneConnector == {"DefaultRoute", "StaticMTRoute", "StaticMORoute"}

\* Mutant: HTTP connectors count for an MT route.
ConnectorsOf_Both(f) == f.smpp + f.http

\* The connectors that count: an MT route has no HTTP connectors.
ConnectorsOf(f) == IF f.nature = "MO" THEN f.smpp + f.http ELSE f.smpp

\* JasminRouteForm.clean.
RouteFormTakes(f) ==
  /\ f.order # NoOrder
  /\ f.type \in RoutesFor(f.nature)
  /\ ~(f.type = "FailoverMORoute" /\ f.http > 0 /\ f.smpp > 0)
  /\ IF f.type \in OneConnector THEN ConnectorsOf(f) = 1 ELSE ConnectorsOf(f) >= 2
  /\ IF f.type = "DefaultRoute" THEN f.order = 0 ELSE f.order # 0 /\ f.filters # {}
  /\ ~f.clash

\* The row that Create or Update saves with its connectors and filters.
RouteRow(f) ==
  [nature |-> f.nature, type |-> f.type, order |-> f.order,
   rate |-> IF f.nature = "MT" THEN f.rate ELSE "blank",
   filters |-> IF f.type = "DefaultRoute" THEN {} ELSE f.filters,
   smpp |-> f.smpp, http |-> IF f.nature = "MT" THEN 0 ELSE f.http]

\* JasminFilter subclasses know the natures they are used for; a route or a static
\* interceptor refuses another's.
FitsNature(x, nature, row) == row[x].nature \in {nature, "ALL"}

\* RoutingTable.add and the constructors of jasmin.routing.Routes.
JasminTakesRoute(r, row) ==
  /\ r.order >= 0 /\ r.rate # "negative"
  /\ \A x \in r.filters : FitsNature(x, r.nature, row)

\* to_jasmin_route and jasmin_add_route.  A rate left blank is None, and float(None)
\* raises.
RouteBuilt(r, row) ==
  IF FiltersBuilt(r.filters, row) # "ok" THEN FiltersBuilt(r.filters, row)
  ELSE IF r.smpp + r.http = 0 THEN "ValidationError"
  ELSE IF r.nature = "MO" /\ r.type = "FailoverMORoute" /\ r.smpp > 0 /\ r.http > 0
       THEN "ValidationError"
  ELSE IF r.type \notin RoutesFor(r.nature) THEN "KeyError"
  ELSE IF r.nature = "MT" /\ r.rate = "blank" THEN "TypeError"
  ELSE IF ~JasminTakesRoute(r, row) THEN "refused_by_Jasmin"
  ELSE "ok"

-----------------------------------------------------------------------------
(* Interceptors.  A form is [nature, type, order, filters, script, clash]. *)

InterceptorType == {"DefaultInterceptor", "StaticMOInterceptor", "StaticMTInterceptor"}
StaticFor(nature) == IF nature = "MT" THEN "StaticMTInterceptor" ELSE "StaticMOInterceptor"

\* The order that clean, and save after it, give a default interceptor.
OrderOf(f) == IF f.type = "DefaultInterceptor" THEN 0 ELSE f.order

\* Mutant: filters of any nature will do.
InterceptorFormTakes_AnyNature(f, row) ==
  /\ f.script # "none" /\ IsSource(f.script)
  /\ f.type \in {"DefaultInterceptor", StaticFor(f.nature)}
  /\ IF f.type = "DefaultInterceptor" THEN f.filters = {}
     ELSE f.order \notin {NoOrder, 0} /\ f.filters # {}
  /\ ~f.clash

\* JasminInterceptorForm.clean.
InterceptorFormTakes(f, row) ==
  /\ f.script # "none" /\ IsSource(f.script)
  /\ f.type \in {"DefaultInterceptor", StaticFor(f.nature)}
  /\ IF f.type = "DefaultInterceptor" THEN f.filters = {}
     ELSE /\ f.order \notin {NoOrder, 0}
          /\ f.filters # {} /\ \A x \in f.filters : FitsNature(x, f.nature, row)
  /\ ~f.clash

InterceptorRow(f) ==
  [nature |-> f.nature, type |-> f.type, order |-> OrderOf(f), filters |-> f.filters,
   script |-> f.script]

\* to_jasmin_interceptor and jasmin_add_interceptor.
InterceptorBuilt(r, row) ==
  IF r.script = "none" \/ ~IsSource(r.script) THEN "ValidationError"
  ELSE IF r.type # "DefaultInterceptor" /\ FiltersBuilt(r.filters, row) # "ok"
  THEN FiltersBuilt(r.filters, row)
  ELSE IF r.type # "DefaultInterceptor" /\ r.filters = {} THEN "ValidationError"
  ELSE IF r.type \notin {"DefaultInterceptor", StaticFor(r.nature)} THEN "ValidationError"
  ELSE IF r.order < 0 \/ \E x \in r.filters : ~FitsNature(x, r.nature, row)
       THEN "refused_by_Jasmin"
  ELSE "ok"

=============================================================================
