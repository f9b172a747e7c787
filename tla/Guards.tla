-------------------------------- MODULE Guards --------------------------------
(***************************************************************************)
(* The middlewares that decide whether a request goes on: csrf, ipFilter,     *)
(* validate, bodyLimit, cors, rateLimit, multipart, and the session           *)
(* middleware's choice of a session id.  Each is an operator from what it     *)
(* reads (its configuration and the request) to a verdict; Pipeline runs      *)
(* them.  An address is a number, and a CIDR range is one of its addresses    *)
(* and the number of addresses that its mask does not tell apart.             *)
(***************************************************************************)
EXTENDS Integers, Sequences, SequencesExt, FiniteSets

CONSTANTS
    Secrets,     \* tokens clients know
    Jars,        \* cookies of a request in the order it has them: <<name, value>>
    Addresses,   \* of clients: dotted, mapped (dotted behind the IPv6 prefix) or other
    Ranges,      \* CIDR ranges: [ip, size]
    Lengths,     \* of bodies, and values of limits
    Origins,     \* of requests, and those that are configured
    Bodies,      \* multipart bodies, as sequences of parts
    Limits       \* of multipart

None == "none"
NoIp == -1

Parts == [names : SUBSET {"name", "filename"}, size : Nat, whole : BOOLEAN]

ASSUME GuardsAssumption ==
    /\ {None, "new"} \cap Secrets = {}
    /\ Jars \subseteq Seq(STRING \X (Secrets \cup {None}))
    /\ Addresses \subseteq [form : {"dotted", "mapped", "other"}, ip : Nat]
    /\ Ranges \subseteq [ip : Nat, size : Nat \ {0}]
    /\ Lengths \subseteq Nat
    /\ {None, "*"} \cap Origins = {}
    /\ Bodies \subseteq Seq(Parts)
    /\ Limits \subseteq [maxFiles : Nat, maxFileSize : Nat, maxFieldSize : Nat]

\* act: "next", "answer" (the response is finished with status), "throw" (an
\* error with status, 0 if it has none), or "silent" (returns without either).
Verdict(act, status, set) == [act |-> act, status |-> status, set |-> set]
Next_ == Verdict("next", 0, {})
Answer(status) == Verdict("answer", status, {})

-----------------------------------------------------------------------------
(* csrf *)

SAFE_METHODS == {"GET", "HEAD", "OPTIONS"}

\* The value of the first cookie with that name; an empty one counts as absent.
parseCookieValue(cookies, name) ==
    LET mine == {k \in 1..Len(cookies) : cookies[k][1] = name}
    IN  IF mine = {} THEN None ELSE cookies[CHOOSE k \in mine : \A l \in mine : k <= l][2]

safeTokenEquals(a, b) == a # None /\ b # None /\ a = b

\* A client without a token is sent one.
buildSetCookie(sent) == IF sent = None THEN {"set-cookie"} ELSE {}

\* Mutant: a request that shows no token at all matches.
CsrfAbsent(i) ==
    LET sent == parseCookieValue(i.cookies, "_csrf")
        set == buildSetCookie(sent)
    IN  IF i.method \in SAFE_METHODS \/ sent = i.header \/ sent = i.body
        THEN Verdict("next", 0, set) ELSE Verdict("answer", 403, set)

\* "new" is the token generated for a client without one; no client knows it.
Csrf(i) ==
    LET sent == parseCookieValue(i.cookies, "_csrf")
        token == IF sent = None THEN "new" ELSE sent
        set == buildSetCookie(sent)
    IN  IF i.method \in SAFE_METHODS \/ safeTokenEquals(i.header, token)
           \/ safeTokenEquals(i.body, token)
        THEN Verdict("next", 0, set) ELSE Verdict("answer", 403, set)

CsrfInputs(method) ==
    [method : {method}, header : Secrets \cup {None}, body : Secrets \cup {None}, cookies : Jars]

-----------------------------------------------------------------------------
(* ipFilter *)

\* The address with the bits cleared that the mask of a range leaves free.
Masked(ip, size) == (ip \div size) * size

\* A range is kept as its network and its mask.
parseCIDR(range) == [ip |-> Masked(range.ip, range.size), size |-> range.size]

matchesCIDR(ip, range) == Masked(ip, range.size) = range.ip

parseIPv4(address) == IF address.form = "dotted" THEN address.ip ELSE NoIp

extractIPv4(address) ==
    parseIPv4(IF address.form = "mapped" THEN [address EXCEPT !.form = "dotted"] ELSE address)

clientIp(i) == IF i.trustProxy /\ i.forwarded # <<>> THEN i.forwarded[1] ELSE i.ip

\* onDenied is the application's own denial handler, which may not answer.
Denied(i) == IF i.onDenied = "silent" THEN Verdict("silent", 0, {}) ELSE Answer(403)

IpFilter(i) ==
    LET ip == extractIPv4(clientIp(i))
        isDenied == \E r \in i.deny : matchesCIDR(ip, parseCIDR(r))
        isAllowed == i.allow # {} => \E r \in i.allow : matchesCIDR(ip, parseCIDR(r))
        shouldDeny == (isDenied /\ ~isAllowed) \/ (i.allow # {} /\ ~isAllowed)
    IN  IF ip = NoIp \/ shouldDeny THEN Denied(i) ELSE Next_

IpInputs ==
    {i \in [ip : Addresses, trustProxy : BOOLEAN, onDenied : {"answers", "silent"},
            forwarded : {<<>>} \cup (Addresses \X Addresses),
            allow : SUBSET Ranges, deny : SUBSET Ranges] : i.allow # {} \/ i.deny # {}}

-----------------------------------------------------------------------------
(* validate *)

\* What a schema makes of its data: safeParse and validate return an error, parse
\* throws one that is caught, and a schema without any of them throws.
parseSchema(schema) ==
    IF schema.style = "none" THEN "throws"
    ELSE IF schema.accepts THEN "value" ELSE "error"

\* The parts are tried in the order params, query, body; a refusal and an exception
\* are both answered with 400, so is a body that is absent or not JSON.
Validate(i) ==
    LET Bad(f) == f \in DOMAIN i.schemas
                  /\ (parseSchema(i.schemas[f]) # "value" \/ (f = "body" /\ i.body # "json"))
    IN  IF \E f \in {"params", "query", "body"} : Bad(f) THEN Answer(400) ELSE Next_

Schemas == [style : {"safeParse"}, accepts : BOOLEAN] \cup {[style |-> "none", accepts |-> TRUE]}
ValidateInputs ==
    [body : {"json", "absent", "malformed"},
     schemas : UNION {[F -> Schemas] : F \in {{"params"}, {"body"}, {"query", "body"}}}]

-----------------------------------------------------------------------------
(* bodyLimit *)

SIZE_UNITS == [b |-> 1, kb |-> 1024]     \* bound: two of the four

parseSize(limit) == limit.value * SIZE_UNITS[limit.unit]

\* A Content-Length that is absent or not a number (-1) is ignored; the body is measured too.
BodyLimit(i) ==
    IF \/ i.contentLength > parseSize(i.limit)
       \/ i.length > parseSize(i.limit)
    THEN Answer(413) ELSE Next_

BodyLimitInputs ==
    [contentLength : {-1} \cup Lengths, length : Lengths,
     limit : [value : Lengths, unit : DOMAIN SIZE_UNITS]]

-----------------------------------------------------------------------------
(* cors *)

\* buildOriginMatcher: "*", one origin, or a set of them.
matchOrigin(configured, origin) == configured = {"*"} \/ origin \in configured

\* A request from an origin that is not allowed goes on, without the headers.
Cors(i) ==
    LET effectiveOrigin == IF i.configured = {"*"} /\ ~i.credentials THEN "*" ELSE i.origin
        set == {<<"allow", effectiveOrigin>>}
               \cup (IF i.credentials THEN {<<"credentials", "true">>} ELSE {})
               \cup (IF effectiveOrigin # "*" THEN {<<"vary", "origin">>} ELSE {})
    IN  IF i.origin = None \/ ~matchOrigin(i.configured, i.origin) THEN Next_
        ELSE IF i.preflight /\ i.method = "OPTIONS" THEN Verdict("answer", 204, set)
        ELSE Verdict("next", 0, set)

CorsInputs(method) ==
    [method : {method}, origin : Origins \cup {None}, configured : {{"*"}} \cup SUBSET Origins,
     credentials : BOOLEAN, preflight : BOOLEAN]

-----------------------------------------------------------------------------
(* rateLimit *)

\* skip, max, window, cost and key may be functions of the request, each awaited; a
\* value that is not a positive integer (0) or an empty key throws.
ensurePositiveInteger(value) == value > 0

\* check of createNativeRateLimiter.  allowed is the decision of the native limiter
\* (module RateLimit).
check(i) ==
    IF ~ensurePositiveInteger(i.max) \/ i.key = "" THEN "throws"
    ELSE IF i.allowed THEN "allowed" ELSE "refused"

\* onRejected is the application's own, which may not answer.
Rejected(i) ==
    LET set == {"x-ratelimit", "retry-after"}
    IN  IF i.onRejected = "silent" THEN Verdict("silent", 0, set) ELSE Verdict("answer", 429, set)

RateLimit(i) ==
    IF i.skip \in {"always", "skipped"} THEN Next_
    ELSE CASE check(i) = "throws" -> Verdict("throw", 0, {})
           [] check(i) = "allowed" -> Verdict("next", 0, {"x-ratelimit"})
           [] check(i) = "refused" -> Rejected(i)

RateLimitInputs ==
    [skip : {"never", "always", "skipped", "asked"}, max : {0, 1}, key : {"", "k"},
     allowed : BOOLEAN, onRejected : {"answers", "silent"}]

-----------------------------------------------------------------------------
(* multipart *)

\* parsePartHeaders and parseContentDisposition: with a file name a part is a file, with
\* another name a field, and without one it is skipped.
Disposition(part) ==
    IF "filename" \in part.names THEN "file" ELSE IF "name" \in part.names THEN "field" ELSE "other"

\* The files and the fields among the first k parts, by their positions.
Files(parts, k) == {j \in 1..k : Disposition(parts[j]) = "file"}
Fields(parts, k) == {j \in 1..k : Disposition(parts[j]) = "field"}

Exceeds(parts, limits, k) ==
    \/ /\ Disposition(parts[k]) = "file"
       /\ \/ Cardinality(Files(parts, k - 1)) >= limits.maxFiles
          \/ parts[k].size > limits.maxFileSize
    \/ Disposition(parts[k]) = "field" /\ parts[k].size > limits.maxFieldSize

\* The loop over the parts stores them until one exceeds a limit, which is thrown, or never
\* ends (whole = FALSE), which ends the body.
parseMultipartBody(parts, limits) ==
    LET stops == {k \in 1..Len(parts) : ~parts[k].whole \/ Exceeds(parts, limits, k)}
        stop == CHOOSE k \in stops \cup {Len(parts) + 1} : \A l \in stops : k <= l
    IN  [files |-> Files(parts, stop - 1), fields |-> Fields(parts, stop - 1),
         refused |-> stop <= Len(parts) /\ parts[stop].whole]

Multipart(i) ==
    IF i.contentType # "multipart" THEN Next_
    ELSE IF ~i.boundary THEN Answer(400)
    ELSE IF parseMultipartBody(i.parts, i.limits).refused THEN Answer(413)
    ELSE Verdict("next", 0, {<<"parsed", parseMultipartBody(i.parts, i.limits)>>})

MultipartInputs ==
    {i \in [contentType : {"multipart", "other"}, boundary : BOOLEAN, parts : Bodies, limits : Limits] :
        i.parts = <<>> \/ (i.contentType = "multipart" /\ i.boundary)}

-----------------------------------------------------------------------------
(* session *)

\* The id in a cookie the native module verifies, or the id of a new signed cookie;
\* none when the native module makes none.
resolveSessionId(i) ==
    LET sent == parseCookieValue(i.cookies, "sid")
    IN  IF sent = "signed" THEN [id |-> "old", isNew |-> FALSE]
        ELSE IF i.made THEN [id |-> "fresh", isNew |-> TRUE]
        ELSE [id |-> None, isNew |-> FALSE]

SessionInputs == [cookies : {<<>>, <<<<"sid", "signed">>>>, <<<<"sid", "forged">>>>}, made : BOOLEAN]

-----------------------------------------------------------------------------
(* What may be relied on once a guard gave its verdict, stated without the guard's own
   conditions. *)

InRange(ip, r) ==
    \E b \in 0..ip : {ip, r.ip} \subseteq (b * r.size)..(b * r.size + r.size - 1)

CsrfSound(i, v) ==
    (v.act = "next" /\ i.method \notin SAFE_METHODS)
        => \E t \in Secrets : <<"_csrf", t>> \in ToSet(i.cookies) /\ t \in {i.header, i.body}

IpSound(i, v) ==
    LET client == IF i.trustProxy /\ i.forwarded # <<>> THEN Head(i.forwarded) ELSE i.ip
    IN  (v.act = "next" /\ i.allow # {})
            => client.form # "other" /\ \E r \in i.allow : InRange(client.ip, r)

ValidateSound(i, v) ==
    v.act = "next" => \A f \in DOMAIN i.schemas :
        i.schemas[f].accepts /\ i.schemas[f].style # "none" /\ (f = "body" => i.body = "json")

BodyLimitSound(i, v) ==
    v.act = "next" =>
        i.length <= (IF i.limit.unit = "b" THEN i.limit.value ELSE 1024 * i.limit.value)

CorsSound(i, v) ==
    /\ <<"allow", "*">> \in v.set => <<"credentials", "true">> \notin v.set
    /\ \A o \in Origins : <<"allow", o>> \in v.set =>
           i.origin = o /\ <<"vary", "origin">> \in v.set /\ {"*", o} \cap i.configured # {}

RateLimitSound(i, v) == v.act = "next" => i.skip \in {"always", "skipped"} \/ i.allowed

MultipartSound(i, v) ==
    \A p \in v.set :
        /\ Cardinality(p[2].files) <= i.limits.maxFiles
        /\ \A k \in p[2].files : i.parts[k].size <= i.limits.maxFileSize
        /\ \A k \in p[2].fields : i.parts[k].size <= i.limits.maxFieldSize
        /\ \A k \in 1..Len(i.parts) :          \* none is dropped before the end
               (\A l \in 1..k : i.parts[l].whole) /\ "filename" \in i.parts[k].names
                   => k \in p[2].files
=============================================================================
