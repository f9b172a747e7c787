----------------------------- MODULE Application -----------------------------
(***************************************************************************)
(* Building an application (src/src/index.js, createApp): routes,             *)
(* middlewares, groups and plugins are registered by calls that may nest, and *)
(* listen() compiles what was registered into routes with the middlewares     *)
(* that apply to each.                                                        *)
(*                                                                         *)
(* A path is a sequence of pieces, "/" being one of them: <<"/", "a">> is     *)
(* "/a", and two names next to each other are one longer name.                *)
(***************************************************************************)
EXTENDS Naturals, Sequences, SequencesExt, FiniteSets

CONSTANTS
    Paths,       \* paths the application passes to its calls
    Plugins,     \* names of plugins
    MaxOps       \* bound: registration calls

ASSUME ApplicationAssumption == Paths \subseteq Seq(STRING)

HTTP_METHODS == <<"GET", "POST">>     \* bound: two of the seven

VARIABLES
    app,         \* the application object
    calls,       \* the callbacks that are running: of group() and of a plugin's setup
    ops,         \* registration calls so far
    snapshot     \* what buildCompiledApplication returned

appVars == <<app, calls, ops, snapshot>>

Root == <<"/">>
NoPath == <<>>

-----------------------------------------------------------------------------
(* Paths *)

Absolute(path) == path # <<>> /\ Head(path) = "/"

\* Trailing slashes are cut and a leading one is supplied.
normalizePathPrefix(path) ==
    LET kept == CHOOSE n \in 0..Len(path) :
                    /\ n > 0 => path[n] # "/"
                    /\ \A m \in (n + 1)..Len(path) : path[m] = "/"
        trimmed == SubSeq(path, 1, kept)
    IN  IF Absolute(trimmed) THEN trimmed ELSE Root \o trimmed

\* Mutant: "/a" is taken for a prefix of "/ab".
pathPrefixMatchesText(pathPrefix, path) == pathPrefix = Root \/ IsPrefix(pathPrefix, path)

pathPrefixMatches(pathPrefix, path) ==
    pathPrefix = Root \/ path = pathPrefix \/ IsPrefix(pathPrefix \o Root, path)

combinePathPrefixes(base, next) ==
    IF base = Root THEN next ELSE IF next = Root THEN base ELSE base \o next

applyGroupPrefixToRoutePath(path, groupPrefix) ==
    IF groupPrefix = Root THEN path ELSE IF path = Root THEN groupPrefix ELSE groupPrefix \o path

\* The names of a path, each a sequence of pieces: what stands behind each of its slashes.
\* The first slash may be missing, and slashes at the end name nothing.  The reference
\* for what lies under what.
Segments(path) ==
    LET text == IF Absolute(path) THEN path ELSE Root \o path
        end == CHOOSE i \in 1..(Len(text) + 1) :
                   /\ i > 1 => text[i - 1] # "/"
                   /\ \A j \in i..Len(text) : text[j] = "/"
        starts == {i \in 1..(end - 1) : text[i] = "/"}
        at(k) == CHOOSE i \in starts \cup {end} : Cardinality({j \in starts : j < i}) = k
    IN  [k \in 1..Cardinality(starts) |-> SubSeq(text, at(k - 1) + 1, at(k) - 1)]

\* Where a call stands: under the groups whose callbacks are running.
Standing == IF calls = <<>> THEN <<>> ELSE Last(calls).under

-----------------------------------------------------------------------------
(* Registration *)

Fresh == [prefix |-> Root, routes |-> <<>>, wsRoutes |-> <<>>, middlewares |-> <<>>,
          errorHandlers |-> <<>>, nextHandlerId |-> 1, plugins |-> <<>>]

NotCompiled == [state |-> "none", routes |-> <<>>]

AppInit == app = Fresh /\ calls = <<>> /\ ops = 0 /\ snapshot = NotCompiled

Call == snapshot = NotCompiled /\ ops < MaxOps /\ ops' = ops + 1 /\ UNCHANGED snapshot

\* A middleware without a path belongs to the group it is registered in.
use(path) ==
    /\ Call /\ UNCHANGED calls
    /\ app' = [app EXCEPT !.middlewares = Append(@,
           [pathPrefix |-> IF path = NoPath THEN app.prefix
                           ELSE combinePathPrefixes(app.prefix, normalizePathPrefix(path)),
            under |-> Standing \o Segments(path)])]

\* What unwinding does: each group() restores its prefix, a plugin is not recorded.
Unwound == [app EXCEPT !.prefix = IF calls = <<>> THEN @ ELSE calls[1].saved]

\* An exception in a callback, or out of a call it makes, goes up to the caller of the
\* outermost one.
Throws == Call /\ app' = Unwound /\ calls' = <<>>

\* A route as compileRouteDispatch gets it; given is the path as it was written.
Route(method, path, scoped, nth, static) ==
    [method |-> method, path |-> normalizePathPrefix(scoped), handlerId |-> app.nextHandlerId + nth,
     static |-> static, under |-> Standing \o Segments(path), given |-> path]

\* The method registrars and, with every method, app.all: the group's prefix and the
\* path are put together, and only then must the result start with a slash.
route(methods, path) ==
    LET scoped == applyGroupPrefixToRoutePath(path, app.prefix)
    IN  /\ Absolute(scoped)
        /\ Call /\ UNCHANGED calls
        /\ app' = [app EXCEPT
               !.routes = @ \o [m \in 1..Len(methods) |-> Route(methods[m], path, scoped, m - 1, FALSE)],
               !.nextHandlerId = @ + Len(methods)]

\* app.static and app.health: an exact path, served without JavaScript.
static(path) ==
    LET scoped == applyGroupPrefixToRoutePath(path, app.prefix)
    IN  /\ Absolute(scoped) /\ ":id" \notin ToSet(scoped)
        /\ Call /\ UNCHANGED calls
        /\ app' = [app EXCEPT
               !.routes = Append(@, Route("GET", path, scoped, 0, TRUE)),
               !.nextHandlerId = @ + 1]

\* app.ws does not look at the group it is called in.
ws(path) ==
    /\ Absolute(path)
    /\ Call /\ UNCHANGED calls
    /\ app' = [app EXCEPT
           !.wsRoutes = Append(@, [path |-> normalizePathPrefix(path),
                                   handlerId |-> app.nextHandlerId]),
           !.nextHandlerId = @ + 1]

\* onError, and the shorthands 404() and 401() that only act on one kind of error.
onError(kind) ==
    /\ Call /\ UNCHANGED calls
    /\ app' = [app EXCEPT !.errorHandlers = Append(@, kind)]

GroupPrefix(path) == combinePathPrefixes(app.prefix, normalizePathPrefix(path))

group(path) ==
    /\ Call
    /\ calls' = Append(calls, [is |-> "group", name |-> "", saved |-> app.prefix,
                              under |-> Standing \o Segments(path)])
    /\ app' = [app EXCEPT !.prefix = GroupPrefix(path)]

\* app.register: the name is looked up before setup() runs and recorded after it.
register(name) ==
    /\ name \notin ToSet(app.plugins)
    /\ Call /\ UNCHANGED app
    /\ calls' = Append(calls, [is |-> "plugin", name |-> name, saved |-> app.prefix,
                              under |-> Standing])

\* The innermost callback returns.
Returns ==
    /\ calls # <<>> /\ snapshot = NotCompiled
    /\ calls' = Front(calls)
    /\ app' = IF Last(calls).is = "group" THEN [app EXCEPT !.prefix = Last(calls).saved]
              ELSE [app EXCEPT !.plugins = Append(@, Last(calls).name)]
    /\ UNCHANGED <<ops, snapshot>>

-----------------------------------------------------------------------------
(* Compilation *)

\* The middlewares of a route, which it keeps in the order they were registered: the
\* prefix of each is compared with the route's pattern.
Applicable(a, r) ==
    {m \in DOMAIN a.middlewares : pathPrefixMatches(a.middlewares[m].pathPrefix, r.path)}

\* A static route that a middleware applies to refuses the whole application.
buildCompiledApplication(a) ==
    IF \E k \in DOMAIN a.routes : a.routes[k].static /\ Applicable(a, a.routes[k]) # {}
    THEN [state |-> "refused", routes |-> <<>>]
    ELSE [state |-> "compiled",
          routes |-> [k \in DOMAIN a.routes |->
                         [route |-> a.routes[k], mw |-> Applicable(a, a.routes[k])]]]

Compile ==
    /\ snapshot = NotCompiled /\ calls = <<>>
    /\ snapshot' = buildCompiledApplication(app)
    /\ UNCHANGED <<app, calls, ops>>

AppNext ==
    \/ \E p \in Paths \cup {NoPath} : use(p)
    \/ \E p \in Paths : route(<<"GET">>, p) \/ route(HTTP_METHODS, p)
    \/ \E p \in Paths : static(p) \/ ws(p) \/ group(p)
    \/ \E k \in {"any", "404"} : onError(k)
    \/ \E n \in Plugins : register(n)
    \/ Throws
    \/ Returns
    \/ Compile

-----------------------------------------------------------------------------
(* Properties *)

\* A middleware applies to exactly the routes that lie under the groups and the path it
\* was registered with, whatever groups were left, normally or by an exception, in
\* between (group, use and compileRouteDispatch).  Routes written without a leading
\* slash inside a group are the exception: see GroupCovers.
Scoped ==
    \A k \in DOMAIN snapshot.routes :
        LET r == snapshot.routes[k].route
        IN  Absolute(r.given) =>
                snapshot.routes[k].mw = {m \in DOMAIN app.middlewares :
                                            IsPrefix(app.middlewares[m].under, r.under)}

\* A static route is answered by the native side alone, so none is compiled that lies
\* under a middleware (buildCompiledApplication's check).
StaticUnguarded ==
    \A k \in DOMAIN snapshot.routes :
        LET r == snapshot.routes[k].route
        IN  r.static /\ Absolute(r.given) =>
                ~\E m \in DOMAIN app.middlewares : IsPrefix(app.middlewares[m].under, r.under)

\* The compiled application has every middleware where it was registered and nowhere else,
\* and no route that would get past one.
RegistrationSound == Scoped /\ StaticUnguarded

\* Refuted: a route registered in a group is under the group's middlewares.
GroupCovers ==
    \A k \in DOMAIN snapshot.routes :
        \A m \in DOMAIN app.middlewares :
            IsPrefix(app.middlewares[m].under, snapshot.routes[k].route.under)
                => m \in snapshot.routes[k].mw

\* Refuted: a plugin is set up once (it is recorded only after its setup returned).
PluginOnce == IsInjective(app.plugins)
=============================================================================
