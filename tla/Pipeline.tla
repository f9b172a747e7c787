------------------------------- MODULE Pipeline -------------------------------
(***************************************************************************)
(* One request through the middlewares of its route, the route handler and    *)
(* the error handlers (src/src/index.js: createMiddlewareRunner, dispatch,    *)
(* finalizeError), with the middlewares the package ships and those an        *)
(* application may write.                                                     *)
(*                                                                         *)
(* JavaScript runs up to an await without interruption.  A middleware that is *)
(* "running" is in such a section, and no other step is taken until it waits; *)
(* "parked" is waiting for something of its own before it decides, "waiting"  *)
(* for the promise of its next().  While phase is "run", dispatch itself is   *)
(* in the section that called the runner.                                     *)
(*                                                                         *)
(* mode selects what a behaviour is about: building an application, one guard *)
(* with one request, or serving a request with a compiled application.        *)
(***************************************************************************)
EXTENDS Application, Guards

CONSTANTS
    MaxChain,    \* bound: middlewares of the route that is served
    Kinds        \* the middlewares the application uses

VARIABLES
    mode, asked,
    phase,       \* of dispatch: "arrived", "run", "await", "handler", "handling", "errors", "answered"
    mw,          \* the middlewares of the route
    index,       \* of runCompiledMiddlewares: the highest position dispatched
    res,         \* the response
    sess,        \* what the session middleware attached
    err,         \* the error being handled: [status, fallback, at]
    answer       \* what dispatch returned, and whether it awaited the runner

serveVars == <<phase, mw, index, res, sess, err, answer>>
vars == <<mode, asked, appVars, serveVars>>

Thrown == {0, 200, 404}      \* statuses of errors; 0: none; 200: not an error status
NoError == [status |-> 0, fallback |-> 500, at |-> 1, handled |-> FALSE]
Idle == [at |-> "idle", as |-> "none", next |-> "none", err |-> 0, seen |-> <<>>]
NewResponse == [finished |-> FALSE, status |-> 200, cookie |-> "none", by |-> 0]
NoSession(new) == [attached |-> "none", isNew |-> new, written |-> FALSE, late |-> FALSE]
NoAnswer == [status |-> 0, cookie |-> "none", awaited |-> FALSE, custom |-> FALSE]

n == Len(mw)
Quiet == \A p \in 1..n : mw[p].at # "running"
Gone == phase = "answered"       \* the request and the response went back to their pools

normalizeErrorStatus(status, fallback) == IF status \in 400..599 THEN status ELSE fallback

\* The default response of an error, made from nothing the response was given before.
buildDefaultErrorSnapshot(status, fallback) ==
    [status |-> normalizeErrorStatus(status, fallback), cookie |-> "none"]

-----------------------------------------------------------------------------
(* The middlewares *)

\* What each guard may do to a request, over all the requests it can get.
Outcome(v, cookie) == [act |-> v.act, status |-> v.status, cookie |-> cookie]
GuardVerdicts ==
    [csrf |-> {Outcome(Csrf(i), Csrf(i).set # {}) : i \in CsrfInputs("GET") \cup CsrfInputs("POST")},
     ipFilter |-> {Outcome(IpFilter(i), FALSE) : i \in IpInputs},
     validate |-> {Outcome(Validate(i), FALSE) : i \in ValidateInputs},
     bodyLimit |-> {Outcome(BodyLimit(i), FALSE) : i \in BodyLimitInputs},
     cors |-> {Outcome(Cors(i), FALSE) : i \in CorsInputs("OPTIONS")},
     rateLimit |-> {Outcome(RateLimit(i), FALSE) : i \in RateLimitInputs},
     multipart |-> {Outcome(Multipart(i), FALSE) : i \in MultipartInputs}]

\* Middlewares that let every request on: helmet, requestId and compress only set headers.
Passing == {"helmet", "session", "redis", "logger", "audit", "otel"}

ASSUME PipelineAssumption ==
    /\ MaxChain \in Nat
    /\ Kinds \subseteq DOMAIN GuardVerdicts \cup Passing \cup {"own2", "own3"}

\* An application's own middleware: it may also answer and go on, write the session, call
\* next() twice, not wait for it, or forget it.  One with two parameters gets no next.
Own == {Outcome(Next_, FALSE), Outcome(Answer(401), FALSE)}
       \cup {Outcome(Verdict("throw", s, {}), FALSE) : s \in Thrown}
Extra == {Outcome(Verdict(a, 0, {}), FALSE) : a \in {"writes", "twice", "detached", "silent"}}
         \cup {Outcome(Verdict("both", 200, {}), FALSE)}

Verdicts ==
    [k \in Kinds |->
        CASE k \in DOMAIN GuardVerdicts -> GuardVerdicts[k]
          [] k \in Passing -> {Outcome(Next_, FALSE)}
          [] k = "own2" -> Own
          [] k = "own3" -> Own \cup Extra]

\* What a middleware does when its next() settles.  multipart only guards what it parsed.
Behind(k, v) ==
    IF v.act \in {"twice", "detached", "silent", "both"} THEN {v.act}
    ELSE IF k \in {"validate", "logger", "audit", "otel", "redis"} THEN {k}
    ELSE IF k = "multipart" THEN {"plain", "multipart"}
    ELSE {"plain"}

Parks(k) == k \in {"rateLimit", "own2", "own3"}

-----------------------------------------------------------------------------
(* The runner *)

\* Mutant: a second next() runs the rest of the chain again.
TwiceAgain(p) == FALSE

\* dispatch(position) was already called with this or a later position.
Twice(p) == n > 1 /\ p <= index

Stops(p, finished) == p > n \/ finished

\* dispatch(p) as called by the next() of p - 1: its promise rejects, resolves at once, or
\* is the promise of middleware p, which starts to run.  With one middleware next does nothing.
Dispatched(m, p, finished) ==
    IF Twice(p) THEN [m EXCEPT ![p - 1].next = "rejected"]
    ELSE IF Stops(p, finished) THEN [m EXCEPT ![p - 1].next = "resolved"]
    ELSE [m EXCEPT ![p - 1].next = "chain", ![p].at = "running"]

\* It waits for a function of the application (rateLimit's options) or for anything else.
Park(p, k) ==
    /\ mw[p].at = "running" /\ Parks(k)
    /\ mw' = [mw EXCEPT ![p].at = "parked", ![p].as = k]
    /\ UNCHANGED <<phase, index, res, sess, err, answer>>

\* The response as a middleware that answers leaves it; a finished one keeps its body, but
\* status() is not stopped by finished.
Answered_(r, status, p) == [r EXCEPT !.finished = TRUE, !.status = status,
                                     !.by = IF @ = 0 /\ ~r.finished THEN p ELSE @]

\* Middleware p, of kind k, decides.  One that was parked until the request and the
\* response are back in their pools runs into an exception, if it touches them at all.
Decide(p, k) ==
    /\ mw[p].at = "running" \/ (mw[p].at = "parked" /\ mw[p].as = k /\ Quiet /\ phase # "run")
    /\ \E v \in Verdicts[k], as \in {"plain"} \cup UNION {Behind(k, w) : w \in Verdicts[k]} :
        /\ as \in Behind(k, v)
        /\ LET after == IF v.act \in {"answer", "both"} THEN Answered_(res, v.status, p)
                        ELSE IF v.cookie THEN [res EXCEPT !.cookie = "csrf"] ELSE res
               Settled(at, e) == [mw EXCEPT ![p].at = at, ![p].as = as, ![p].err = e]
               Called(at) == Dispatched([mw EXCEPT ![p].at = at, ![p].as = as], p + 1, after.finished)
           IN  IF Gone
               THEN /\ mw' \in {Settled("failed", 0), Settled("done", 0)}
                    /\ UNCHANGED <<index, res, sess>>
               ELSE /\ res' = [after EXCEPT !.cookie = IF v.cookie THEN "csrf" ELSE @]
                    /\ mw' = CASE v.act \in {"answer", "silent"} -> Settled("done", 0)
                               [] v.act = "throw" -> Settled("failed", v.status)
                               [] v.act = "detached" -> Called("done")
                               [] OTHER -> Called("waiting")
                    /\ index' = IF v.act \in {"answer", "silent", "throw"} \/ Twice(p + 1)
                                THEN index ELSE p + 1
                    /\ sess' = IF k \in {"session", "redis"} THEN [sess EXCEPT !.attached = k]
                               ELSE IF v.act = "writes" /\ sess.attached # "none"
                               THEN [sess EXCEPT !.written = TRUE] ELSE sess
    /\ UNCHANGED <<phase, err, answer>>

\* The promise of p's next() has settled.
Inner(p) ==
    IF mw[p].next = "resolved" THEN "done" ELSE IF mw[p].next = "rejected" THEN "failed"
    ELSE mw[p + 1].at
InnerErr(p) == IF mw[p].next = "chain" THEN mw[p + 1].err ELSE 0

\* Mutant: the session's cookie is decided before the rest of the chain ran.
FlushedEarly(p) == res

\* flushSession: a new session that was written gets its cookie, whatever cookie was set.
Flushed(p) == [res EXCEPT !.cookie = IF sess.written /\ sess.isNew THEN "session" ELSE @]

\* Mutant: an observer records the status a response starts with.
RecordedDefault(p) == 200

\* The status an observer finds: that of the response, 200 once it is gone.
Recorded(p) == IF Gone THEN 200 ELSE res.status

\* How the promise of middleware p settles, and what it recorded; by default as the one of
\* its next(), or because something it touched is gone.
Ends(p, at, e, seen) == mw' = [mw EXCEPT ![p].at = at, ![p].err = e, ![p].seen = @ \o seen]
Own_(p) == IF Inner(p) = "done" THEN "done" ELSE "failed"
Keeps(p) == Ends(p, Own_(p), InnerErr(p), <<>>) /\ UNCHANGED res
Breaks(p) == Ends(p, "failed", 0, <<>>) /\ UNCHANGED res
AnswersError(p, status) == Ends(p, "done", 0, <<>>) /\ res' = Answered_(res, status, p)

\* An application's middleware that calls next() a second time.
TwiceEnds(p) ==
    IF Inner(p) = "failed" THEN Keeps(p)
    ELSE /\ mw' = Dispatched([mw EXCEPT ![p].as = "plain"], p + 1, Gone \/ res.finished)
         /\ UNCHANGED res

\* validate's try block holds its next(): whatever fails behind it is a bad request.
ValidateEnds(p) ==
    IF Inner(p) = "done" THEN Keeps(p) ELSE IF Gone THEN Breaks(p) ELSE AnswersError(p, 400)

\* So does multipart's, for errors with a status.
MultipartEnds(p) ==
    IF Inner(p) = "done" \/ InnerErr(p) = 0 THEN Keeps(p)
    ELSE IF Gone THEN Breaks(p) ELSE AnswersError(p, InnerErr(p))

\* The entry reads req.path, which fails once the request is gone; the sink may throw.
LoggerEnds(p) ==
    \/ ~Gone /\ Ends(p, Own_(p), InnerErr(p), <<Recorded(p)>>) /\ UNCHANGED res
    \/ Breaks(p)

\* The status of the error, 500 if it has none; a sink that throws is ignored.
AuditEnds(p) ==
    /\ Ends(p, Own_(p), InnerErr(p),
            <<IF Inner(p) = "done" THEN Recorded(p)
              ELSE IF InnerErr(p) = 0 THEN 500 ELSE InnerErr(p)>>)
    /\ UNCHANGED res

\* injectTraceContext sets a header, which fails once the response is gone.
OtelEnds(p) ==
    IF Gone THEN Breaks(p) ELSE Ends(p, Own_(p), InnerErr(p), <<Recorded(p)>>) /\ UNCHANGED res

\* The store may refuse what was written, and a cookie cannot be set any more.
RedisEnds(p) ==
    IF Inner(p) = "failed" THEN Keeps(p)
    ELSE \/ sess.written /\ Breaks(p)
         \/ Gone /\ Flushed(p) # res /\ Breaks(p)
         \/ ~(Gone /\ Flushed(p) # res) /\ Ends(p, "done", 0, <<>>) /\ res' = Flushed(p)

\* What middleware p does behind its next().
Resume(p) ==
    /\ mw[p].at = "waiting" /\ Inner(p) \in {"done", "failed"} /\ Quiet /\ phase # "run"
    /\ \/ mw[p].as \in {"plain", "both"} /\ Keeps(p)
       \/ mw[p].as = "twice" /\ TwiceEnds(p)
       \/ mw[p].as = "validate" /\ ValidateEnds(p)
       \/ mw[p].as = "multipart" /\ MultipartEnds(p)
       \/ mw[p].as = "logger" /\ LoggerEnds(p)
       \/ mw[p].as = "audit" /\ AuditEnds(p)
       \/ mw[p].as = "otel" /\ OtelEnds(p)
       \/ mw[p].as = "redis" /\ RedisEnds(p)
    /\ UNCHANGED <<phase, index, sess, err, answer>>

-----------------------------------------------------------------------------
(* dispatch *)

Answers(a, custom) ==
    /\ phase' = "answered"
    /\ answer' = [status |-> a.status, cookie |-> a.cookie, awaited |-> phase # "run", custom |-> custom]
Snapshot == Answers(res, FALSE)

\* The request arrives: it cannot be decoded or names no route (an error response at
\* once), no route matched (the error handlers, with 404), or its route is found and the
\* runner is called.
Arrive ==
    /\ phase = "arrived"
    /\ \/ /\ Answers(buildDefaultErrorSnapshot(0, 500), FALSE) /\ UNCHANGED <<mw, index, err>>
       \/ /\ phase' = "errors" /\ err' = [NoError EXCEPT !.status = 404, !.fallback = 404]
          /\ UNCHANGED <<mw, index, answer>>
       \/ /\ phase' = IF n = 0 THEN "handler" ELSE "run"
          /\ mw' = [p \in 1..n |-> IF p = 1 THEN [Idle EXCEPT !.at = "running"] ELSE Idle]
          /\ index' = 1
          /\ UNCHANGED <<err, answer>>
    /\ UNCHANGED <<res, sess>>

\* Mutant: the runner's promise is not awaited.
SectionEndsUnawaited ==
    /\ phase = "run" /\ Quiet
    /\ phase' = "handler" /\ UNCHANGED answer
    /\ UNCHANGED <<mw, index, res, sess, err>>

\* The runner returned its promise: it is awaited unless the response is finished already.
SectionEnds ==
    /\ phase = "run" /\ Quiet
    /\ IF res.finished THEN Snapshot ELSE phase' = "await" /\ UNCHANGED answer
    /\ UNCHANGED <<mw, index, res, sess, err>>

RunnerSettles ==
    /\ phase = "await" /\ mw[1].at \in {"done", "failed"} /\ Quiet
    /\ IF mw[1].at = "failed"
       THEN /\ phase' = "errors" /\ err' = [NoError EXCEPT !.status = mw[1].err]
            /\ UNCHANGED answer
       ELSE /\ IF res.finished THEN Snapshot ELSE phase' = "handler" /\ UNCHANGED answer
            /\ UNCHANGED err
    /\ UNCHANGED <<mw, index, res, sess>>

HandlerAwaits ==
    /\ phase = "handler" /\ phase' = "handling" /\ UNCHANGED <<mw, index, res, sess, err, answer>>

\* The handler answers, returns without an answer, or throws; it may write the session.
HandlerReturns ==
    /\ phase \in {"handler", "handling"} /\ Quiet
    /\ \E r \in {res, Answered_(res, 201, n + 1)} :
        /\ res' = r
        /\ Answers(r, FALSE)
    /\ UNCHANGED <<mw, index, sess, err>>

HandlerWrites ==
    /\ phase \in {"handler", "handling"} /\ Quiet /\ sess.attached # "none" /\ ~sess.late
    /\ sess' = [sess EXCEPT !.late = TRUE]
    /\ UNCHANGED <<phase, mw, index, res, err, answer>>

HandlerThrows ==
    /\ phase \in {"handler", "handling"} /\ Quiet
    /\ \E s \in Thrown : err' = [NoError EXCEPT !.status = s, !.handled = TRUE]
    /\ phase' = "errors"
    /\ UNCHANGED <<mw, index, res, sess, answer>>

\* finalizeError: the handlers in turn until one answers; one may answer, do nothing, or
\* throw, which becomes the answer.  Those of app.404() only act on a 404.
ErrorHandler ==
    /\ phase = "errors" /\ ~res.finished /\ err.at <= Len(app.errorHandlers) /\ Quiet
    /\ \/ /\ err' = [err EXCEPT !.at = @ + 1] /\ UNCHANGED <<phase, res, answer>>
       \/ /\ app.errorHandlers[err.at] = "any" \/ err.status = 404
          /\ res' = Answered_(res, 200, n + 2)
          /\ Answers([status |-> 200, cookie |-> res.cookie], TRUE) /\ UNCHANGED err
       \/ /\ app.errorHandlers[err.at] = "any" \/ err.status = 404
          /\ \E s \in Thrown : Answers(buildDefaultErrorSnapshot(s, 500), FALSE)
          /\ UNCHANGED <<err, res>>
    /\ UNCHANGED <<mw, index, sess>>

\* No handler answered: the default response of the error; or the response was finished
\* before the error, and stands.
ErrorAnswered ==
    /\ phase = "errors" /\ Quiet
    /\ \/ res.finished /\ Snapshot
       \/ /\ ~res.finished /\ err.at > Len(app.errorHandlers)
          /\ Answers(buildDefaultErrorSnapshot(err.status, err.fallback), FALSE)
    /\ UNCHANGED <<mw, index, res, sess, err>>

-----------------------------------------------------------------------------
ServeNext ==
    \/ Arrive \/ SectionEnds \/ RunnerSettles
    \/ \E p \in 1..n : \/ \E k \in Kinds : Park(p, k) \/ Decide(p, k)
                       \/ Resume(p)
    \/ HandlerAwaits \/ HandlerReturns \/ HandlerWrites \/ HandlerThrows
    \/ ErrorHandler \/ ErrorAnswered

\* An application registration can have built: middlewares for every path and one route.
Built(m, handlers) ==
    [Fresh EXCEPT !.middlewares = [p \in 1..m |-> [pathPrefix |-> Root, under |-> <<>>]],
                  !.routes = <<[method |-> "GET", path |-> Root, handlerId |-> 1, static |-> FALSE,
                                under |-> <<>>, given |-> Root]>>,
                  !.nextHandlerId = 2, !.errorHandlers = handlers]

Nothing == [kind |-> "none"]
Questions ==
    [kind : {"csrf"}, i : CsrfInputs("GET") \cup CsrfInputs("POST")]
    \cup [kind : {"ipFilter"}, i : IpInputs] \cup [kind : {"validate"}, i : ValidateInputs]
    \cup [kind : {"bodyLimit"}, i : BodyLimitInputs] \cup [kind : {"rateLimit"}, i : RateLimitInputs]
    \cup [kind : {"cors"}, i : CorsInputs("GET") \cup CorsInputs("OPTIONS")]
    \cup [kind : {"multipart"}, i : MultipartInputs]

NoServe(m) ==
    /\ mw = [p \in 1..m |-> Idle] /\ index = 0
    /\ res = NewResponse /\ err = NoError /\ answer = NoAnswer

Init ==
    \/ /\ mode = "register" /\ asked = Nothing /\ AppInit
       /\ phase = "none" /\ NoServe(0) /\ sess = NoSession(FALSE)
    \/ /\ mode = "guard" /\ asked \in Questions /\ AppInit
       /\ phase = "none" /\ NoServe(0) /\ sess = NoSession(FALSE)
    \/ /\ mode = "serve" /\ asked = Nothing
       /\ \E m \in 0..MaxChain, hs \in {<<>>, <<"404", "any">>} :
              /\ app = Built(m, hs) /\ calls = <<>> /\ ops = m + 1 + Len(hs)
              /\ snapshot = buildCompiledApplication(app)
              /\ NoServe(m)               \* the route lies under all of them: Scoped
       /\ phase = "arrived"
       /\ \E i \in SessionInputs : sess = NoSession(resolveSessionId(i).isNew)

Next ==
    \/ mode = "register" /\ AppNext /\ UNCHANGED <<mode, asked, serveVars>>
    \/ mode = "serve" /\ ServeNext /\ UNCHANGED <<mode, asked, appVars>>

Fairness == WF_vars(mode = "serve" /\ ServeNext /\ UNCHANGED <<mode, asked, appVars>>)

Spec == Init /\ [][Next]_vars /\ Fairness

-----------------------------------------------------------------------------
(* Properties *)

Stati == {0, 200, 201, 204, 400, 401, 403, 404, 413, 429, 500}

\* The variables of serving keep their types.
TypeOK ==
    /\ mode \in {"register", "guard", "serve"}
    /\ phase \in {"none", "arrived", "run", "await", "handler", "handling", "errors", "answered"}
    /\ \A p \in 1..n : /\ mw[p].at \in {"idle", "running", "parked", "waiting", "done", "failed"}
                       /\ mw[p].next \in {"none", "chain", "resolved", "rejected"}
                       /\ mw[p].err \in Stati /\ Len(mw[p].seen) <= 1
    /\ index \in 0..(n + 1)
    /\ res.status \in Stati /\ answer.status \in Stati /\ err.status \in Stati
    /\ phase = "answered" => answer.status # 0

\* What each guard admitted satisfies what the guard is for: a state-changing request shows
\* the token of its cookie, an address outside the allowed ranges is not let on, a body is
\* not larger than the limit, files and fields of a multipart body keep their limits, every
\* schema accepted its data, a refusal of the native limiter is final, and the wildcard
\* origin is never combined with credentials.
GuardsSound ==
    asked # Nothing =>
        CASE asked.kind = "csrf" -> CsrfSound(asked.i, Csrf(asked.i))
          [] asked.kind = "ipFilter" -> IpSound(asked.i, IpFilter(asked.i))
          [] asked.kind = "validate" -> ValidateSound(asked.i, Validate(asked.i))
          [] asked.kind = "bodyLimit" -> BodyLimitSound(asked.i, BodyLimit(asked.i))
          [] asked.kind = "cors" -> CorsSound(asked.i, Cors(asked.i))
          [] asked.kind = "rateLimit" -> RateLimitSound(asked.i, RateLimit(asked.i))
          [] asked.kind = "multipart" -> MultipartSound(asked.i, Multipart(asked.i))

Loose == \E p \in 1..n : mw[p].as \in {"detached", "silent"}

\* A middleware is started once, however often next() is called (runCompiledMiddlewares'
\* index).
RunOnce == [][\A p \in 1..n : mw'[p].at = "running" => mw[p].at \in {"idle", "running"}]_vars

\* Once a response is finished neither a middleware nor the handler is started with it, also
\* when a middleware answered and called next() all the same.
FinishedStops ==
    [][res.finished => /\ phase' = "handler" => phase = "handler"
                       /\ \A p \in 1..n : mw'[p].at = "running" => mw[p].at = "running"]_vars

\* dispatch(position) starts nobody twice and nobody behind a finished response
\* (index.js:579-588).
StartedOnce == RunOnce /\ FinishedStops

\* When a middleware answered and dispatch waited for the runner, every logger, audit log
\* and tracer in front of it recorded the status that was sent.
ObserverTruth ==
    (phase = "answered" /\ answer.awaited /\ res.by \in 1..n /\ ~Loose
        /\ \A p \in 1..n : mw[p].at # "failed")
    => \A p \in 1..(res.by - 1) :
           mw[p].as \in {"logger", "audit", "otel"} => mw[p].seen = <<answer.status>>

\* A failure of the middlewares that dispatch waited for is answered as one, unless an error
\* handler of the application answered it.
FailureReported ==
    (phase = "answered" /\ answer.awaited /\ n > 0 /\ mw[1].at = "failed" /\ ~res.finished)
    => answer.status >= 400 \/ answer.custom

\* What dispatch waited for is told as it was: observers record the status that was sent, and
\* failures are answered as failures (logger.js:24-69, audit-log.js:20-87, otel.js:54-126,
\* index.js:607-666).
AnswerTold == TypeOK /\ ObserverTruth /\ FailureReported

\* A new session of an asynchronous store that a middleware wrote gets its cookie, if the
\* request is not answered with an error (flushSession runs when the middlewares are done).
SessionCookie ==
    (phase = "answered" /\ answer.awaited /\ ~err.handled /\ ~Loose
        /\ (\A p \in 1..n : mw[p].at # "failed")
        /\ sess.isNew /\ sess.written /\ \E p \in 1..n : mw[p].as = "redis" /\ mw[p].at = "done")
    => answer.cookie = "session"

\* The chain keeps the promise of module Chain: the handler starts only when every
\* middleware of the route let the request on, or one let go of it; and every request is
\* answered.
Promise == INSTANCE Chain WITH
    length <- n,
    admitted <- Cardinality({p \in 1..n : mw[p].next # "none" /\ mw[p].as # "both"}),
    loose <- Loose,
    outcome <- IF mode # "serve" THEN "none"
               ELSE IF phase = "answered" \/ res.finished THEN "answered"
               ELSE IF phase \in {"handler", "handling"} \/ err.handled THEN "handling"
               ELSE "pending"

ChainKept == Promise!Spec

\* Refuted: the handler runs only if every middleware of the route let the request on.
EveryGuardAsked ==
    phase \in {"handler", "handling"} => \A p \in 1..n : mw[p].next # "none"

\* Refuted: no promise of the runner rejects without anyone hearing it.
FailuresHeard ==
    ~(phase = "answered" /\ ~answer.awaited /\ n > 0 /\ mw[1].at = "failed")

\* Refuted: a logger tells the status that is sent.
LogTellsAnswer ==
    phase = "answered" => \A p \in 1..n : mw[p].seen \in {<<>>, <<answer.status>>}

\* Refuted: a new session that the handler wrote gets its cookie.
HandlerSessionCookie ==
    (phase = "answered" /\ ~err.handled /\ sess.attached = "redis" /\ sess.isNew /\ sess.late)
    => answer.cookie = "session"

\* Refuted: the token a client was given is not taken back from the response.
CsrfCookieKept == [][res.cookie = "csrf" => res'.cookie = "csrf"]_vars

\* Refuted: an address of a denied range is let on only if a range allows it.
DeniedRefused ==
    asked # Nothing /\ asked.kind = "ipFilter" =>
        LET i == asked.i
        IN  (IpFilter(i).act = "next" /\ \E r \in i.deny : InRange(clientIp(i).ip, r))
                => \E r \in i.allow : InRange(clientIp(i).ip, r)
=============================================================================
