---------------------------- MODULE RequestAccess ----------------------------
(***************************************************************************)
(* Which parts of a request a route's functions are given: the access plan    *)
(* that is read off their source (src/src/bridge.js: analyzeRequestAccess),   *)
(* what the native layer sends under a plan (build_dispatch_envelope), what   *)
(* the lazy getters make of it, and the probe that rewrites a handler's       *)
(* source before it is analysed (src/src/index.js: probeHandlerForFastPath).  *)
(*                                                                         *)
(* A source is the set of the ways it uses its request, not a text.           *)
(***************************************************************************)
EXTENDS Integers, Sequences, FiniteSets

CONSTANT Keys     \* names of parameters, of keys of the query and of headers

Objects == {"params", "query", "headers"}
Scalars == {"method", "path", "url"}
DANGEROUS_KEYS == {"__proto__"}

(***************************************************************************)
(* A use of the request.  how: "read" req.f or req.f.k; "call" req.header(k);  *)
(* "whole" req.f as a value or with a computed key; "callAny" req.header with *)
(* a computed name; "any" req[name]; "unpack" const { f } = req; "rest"       *)
(* const { ...all } = req; "helper" a function that is handed req reads f.k.   *)
(***************************************************************************)
Use(field, how, key) == [field |-> field, how |-> how, key |-> key]
NoKey == ""
Uses ==
    {Use(f, "read", NoKey) : f \in Scalars \cup {"ip", "body"}}
    \cup {Use(f, h, k) : f \in Objects, h \in {"read", "helper"}, k \in Keys}
    \cup {Use("headers", "call", k) : k \in Keys}
    \cup {Use(f, h, NoKey) : f \in Objects, h \in {"whole", "unpack"}}
    \cup {Use("path", "unpack", NoKey), Use("headers", "callAny", NoKey),
          Use("url", "any", NoKey), Use("path", "rest", NoKey), Use("query", "rest", NoKey)}

(***************************************************************************)
(* A function.  form: "function" parses; "shorthand" is a method of an object *)
(* literal and does not; "bound" has no source.  param: its first parameter,   *)
(* "req", another name, or a pattern.                                         *)
(***************************************************************************)
Fn(form, param, uses) == [form |-> form, param |-> param, uses |-> uses]

-----------------------------------------------------------------------------
(* Access plans *)

Plan(scalars, full, keys) == [scalars |-> scalars, full |-> full, keys |-> keys]
NoKeys == [f \in Objects |-> {}]
createEmptyAccessPlan == Plan({}, {}, NoKeys)
FullPlan == Plan(Scalars, Objects, NoKeys)

\* What one use adds to the plan when the source parses.
Marks(u) ==
    CASE u.how = "read" /\ u.field \in Objects -> Plan({}, {}, [NoKeys EXCEPT ![u.field] = {u.key}])
      [] u.how = "call" -> Plan({}, {}, [NoKeys EXCEPT !["headers"] = {u.key}])
      [] u.how = "callAny" -> Plan({}, {"headers"}, NoKeys)
      [] u.how = "any" -> FullPlan
      [] u.how = "rest" -> Plan({}, Objects, NoKeys)
      [] u.how \in {"whole", "unpack"} /\ u.field \in Objects -> Plan({}, {u.field}, NoKeys)
      [] u.how \in {"read", "unpack"} /\ u.field \in Scalars -> Plan({u.field}, {}, NoKeys)
      [] OTHER -> createEmptyAccessPlan

\* With the regular expressions, which look for the name "req", unpacking means everything.
RegexMarks(u) == IF u.how \in {"unpack", "rest"} THEN FullPlan ELSE Marks(u)

mergeRequestAccessPlans(plans) ==
    Plan(UNION {p.scalars : p \in plans}, UNION {p.full : p \in plans},
         [f \in Objects |-> UNION {p.keys[f] : p \in plans}])

analyzeRequestAccess(fn) ==
    mergeRequestAccessPlans(
        IF fn.form = "function" /\ fn.param # "pattern" THEN {Marks(u) : u \in fn.uses}
        ELSE IF fn.form = "shorthand" /\ fn.param = "req" THEN {RegexMarks(u) : u \in fn.uses}
        ELSE {})

\* An application with error handlers asks for these on every route.
ERROR_HANDLER_PLAN == Plan(Scalars, {}, NoKeys)

-----------------------------------------------------------------------------
(* What is sent, and what the getters show.  Of its parameters, its query and  *)
(* its headers a request has, for every key, its values in their order.       *)

Selected(plan, f) == IF f \in plan.full THEN Keys ELSE plan.keys[f]
NeedsQuery(plan) == Selected(plan, "query") # {}
Only(selected, values) == [k \in Keys |-> IF k \in selected THEN values[k] ELSE <<>>]

\* Mutant: the address is only sent to a route that reads it itself.
SentUrlOnly(plan, r) ==
    [path |-> IF "path" \in plan.scalars THEN r.path ELSE "",
     url |-> IF "url" \in plan.scalars THEN r.url ELSE "",
     query |-> Only(IF NeedsQuery(plan) /\ "url" \in plan.scalars THEN Keys ELSE {}, r.query),
     headers |-> Only(Selected(plan, "headers"), r.headers),
     params |-> r.params]

\* build_dispatch_envelope with the needs of the manifest; the query travels in the url.
Sent(plan, r) ==
    LET url == "url" \in plan.scalars \/ NeedsQuery(plan)
    IN  [path |-> IF "path" \in plan.scalars THEN r.path ELSE "",
         url |-> IF url THEN r.url ELSE "",
         query |-> Only(IF NeedsQuery(plan) THEN Keys ELSE {}, r.query),
         headers |-> Only(Selected(plan, "headers"), r.headers),
         params |-> r.params]

\* A header keeps the last of its values.
LastOf(s) == IF s = <<>> THEN <<>> ELSE <<s[Len(s)]>>

Materialized(values, selected) == Only(selected \ DANGEROUS_KEYS, values)

parseQuery(d, plan) == Materialized(d.query, Selected(plan, "query"))
materializeParamObject(d, plan) == Materialized(d.params, Selected(plan, "params"))
ensureHeaderLookup(d) == [k \in Keys |-> LastOf(Materialized(d.headers, Keys)[k])]
HeadersOf(d, plan) ==
    [k \in Keys |-> IF k \in Selected(plan, "headers") THEN ensureHeaderLookup(d)[k] ELSE <<>>]

ObjectOf(f, d, plan) ==
    CASE f = "params" -> materializeParamObject(d, plan)
      [] f = "query" -> parseQuery(d, plan)
      [] f = "headers" -> HeadersOf(d, plan)

\* What a use gets, as a set of facts.  The method, ip and body need no plan.
Facts(f, d, plan) ==
    CASE f \in Objects -> {<<f, k, ObjectOf(f, d, plan)[k]>> : k \in Keys}
      [] f = "path" -> {<<f, d.path>>}
      [] f = "url" -> {<<f, d.url>>}
      [] OTHER -> {}

Gets(u, plan, r) ==
    LET d == Sent(plan, r)
    IN  CASE u.how \in {"read", "helper"} /\ u.field \in Objects -> {ObjectOf(u.field, d, plan)[u.key]}
          [] u.how = "call" -> {ensureHeaderLookup(d)[u.key]}
          [] u.how = "callAny" -> {<<k, ensureHeaderLookup(d)[k]>> : k \in Keys}
          [] u.how \in {"any", "rest"} -> UNION {Facts(f, d, plan) : f \in Objects \cup Scalars}
          [] OTHER -> Facts(u.field, d, plan)

-----------------------------------------------------------------------------
(* The probe.  A handler answers with status and one JSON field: a constant,  *)
(* the parameter, the parameter changed, a query key or a default, a value    *)
(* that changes over time, or an object.                                      *)

FieldKinds == {"const", "param", "computed", "query", "time", "object"}
Handlers == [field : FieldKinds, status : {200, 201}, async : BOOLEAN, effects : BOOLEAN, branch : BOOLEAN]

\* The field as the handler computes it: a text, and whether the handler changed it.
FieldFor(h, param, query, now) ==
    CASE h.field = "const" -> <<"c", FALSE>>
      [] h.field = "param" -> <<param, FALSE>>
      [] h.field = "computed" -> <<param, TRUE>>
      [] h.field = "query" -> <<query, FALSE>>
      [] h.field = "time" -> <<now, FALSE>>
      [] h.field = "object" -> <<"{}", FALSE>>

\* branch: another status for one parameter.
Answers(h, param, query, now) ==
    [status |-> IF h.branch /\ param = "x" THEN 404 ELSE h.status, field |-> FieldFor(h, param, query, now)]

Probe == "__PROBE_PARAM_id__"
NoSource == [field |-> <<"none", FALSE>>, param |-> FALSE, status |-> 0]

\* Mutant: the status the probe saw is not written into the source.
generateResolvedJsonSourceOk(a) ==
    IF a.field[1] = "{}" THEN NoSource
    ELSE [field |-> a.field, param |-> a.field = <<Probe, FALSE>>, status |-> 200]

\* The field of the new source is the parameter, or the text the probe saw.
generateResolvedJsonSource(a) ==
    IF a.field[1] = "{}" THEN NoSource
    ELSE [field |-> a.field, param |-> a.field = <<Probe, FALSE>>, status |-> a.status]

probeHandlerForFastPath(h, now) ==
    IF h.async \/ h.effects THEN NoSource
    ELSE generateResolvedJsonSource(Answers(h, Probe, "none", now))

\* How the new source answers.
ResolvedAnswer(s, param) ==
    [status |-> s.status, field |-> IF s.param THEN <<param, FALSE>> ELSE s.field]
=============================================================================
