--------------------------- MODULE MiddlewareProofs ---------------------------
(***************************************************************************)
(* What stands around a handler.                                              *)
(*                                                                         *)
(* The middlewares, for chains of any length, any choice of middlewares and   *)
(* any error handlers of an application: no middleware is started twice or    *)
(* behind a finished response, the chain keeps the promise of module Chain,   *)
(* and what dispatch waited for is told as it was.                            *)
(*                                                                         *)
(* Registration, for every set of paths and plugins and any nesting of calls: *)
(* prefixes spell where the calls that made them stand, so a compiled route   *)
(* has exactly the middlewares it lies under.                                 *)
(*                                                                         *)
(* The guards, for every cookie, address, range, length, limit, origin and    *)
(* multipart body: what each lets on is what it is there to let on.           *)
(*                                                                         *)
(* The circuit breaker, for every number of concurrent calls, every           *)
(* threshold, timeout and halfOpenMax: its state is well typed, a closed      *)
(* breaker is below its threshold, and halfOpenActive never over-counts the   *)
(* probes.                                                                    *)
(***************************************************************************)
EXTENDS Pipeline, CircuitBreaker, SequenceTheorems, FiniteSetTheorems,
        WellFoundedInduction, TLAPS

Notes == {<<>>} \cup {<<s>> : s \in Stati}
Roles == {"none", "plain", "twice", "detached", "silent", "both", "validate", "multipart",
          "logger", "audit", "otel", "redis", "rateLimit", "own2", "own3"}
Middleware ==
    [at : {"idle", "running", "parked", "waiting", "done", "failed"}, as : Roles,
     next : {"none", "chain", "resolved", "rejected"}, err : Stati, seen : Notes]

Cookies == {"none", "csrf", "session"}

Types ==
    /\ mode \in {"register", "guard", "serve"}
    /\ phase \in {"none", "arrived", "run", "await", "handler", "handling", "errors", "answered"}
    /\ mw \in Seq(Middleware) /\ index \in 0..(n + 1)
    /\ res \in [finished : BOOLEAN, status : Stati \ {0}, cookie : Cookies, by : 0..(n + 2)]
    /\ sess \in [attached : {"none"} \cup Kinds, isNew : BOOLEAN, written : BOOLEAN, late : BOOLEAN]
    /\ err \in [status : Stati, fallback : {404, 500}, at : Nat, handled : BOOLEAN]
    /\ answer \in [status : Stati, cookie : Cookies, awaited : BOOLEAN, custom : BOOLEAN]
    /\ phase = "answered" => answer.status # 0

Active(p) == mw[p].at \in {"running", "parked"}

(* What a middleware has done by the time it stands where it stands. *)
Stage ==
    \A p \in 1..n :
        /\ mw[p].at = "idle" => mw[p] = Idle
        /\ mw[p].at = "running" => mw[p].as = "none"
        /\ mw[p].at = "parked" => Parks(mw[p].as)
        /\ Active(p) => mw[p].next = "none" /\ mw[p].seen = <<>>
        /\ mw[p].at = "waiting" => /\ mw[p].next # "none" /\ mw[p].seen = <<>>
                                   /\ n > 1 => p < index
        /\ mw[p].next = "chain" => p < n
        /\ mw[p].next = "resolved" => p = n \/ res.finished
        /\ p > index => mw[p].at = "idle"

(* How far dispatch is, and what the runner must have come to. *)
Phases ==
    /\ phase \in {"none", "arrived"} => index = 0 /\ ~res.finished
    /\ phase \in {"run", "await"} => n > 0
    /\ phase \notin {"errors", "answered"} => ~err.handled
    /\ phase \in {"handler", "handling"} \/ err.handled => n = 0 \/ mw[1].at = "done"
    /\ phase = "errors" /\ ~err.handled => (n > 0 /\ mw[1].at = "failed") \/ \A p \in 1..n : mw[p].at = "idle"
    /\ phase = "answered" /\ answer.awaited =>
          \/ n = 0 \/ mw[1].at \in {"idle", "done"}
          \/ mw[1].at = "failed" /\ (res.finished \/ answer.status >= 400 \/ answer.custom)

(* Everyone before p waits for what is behind him. *)
Hears(p) == \A q \in 1..(p - 1) : mw[q].at = "waiting" /\ mw[q].next = "chain"

(* Unless a middleware lets go of the request, the one at work is the last started. *)
InTurn ==
    ~Loose => \A p \in 1..n :
        /\ Active(p) => index = p /\ ~res.finished /\ phase \in {"run", "await"} /\ Hears(p)
        /\ mw[p].at = "waiting" =>
              (phase \in {"run", "await"} \/ (phase = "answered" /\ ~answer.awaited)) /\ Hears(p)
        /\ mw[p].at = "done" /\ ~res.finished =>
              \A q \in p..n : mw[q].at = "done" /\ mw[q].next # "none"
        /\ mw[p].as = "both" => res.finished
        /\ mw[p].next = "rejected" => mw[p].as = "plain" /\ mw[p].at \in {"waiting", "failed"}

(* dispatch does not enter the handler with a finished response. *)
HandlerUnfinished == ~Loose /\ phase \in {"handler", "handling"} => ~res.finished

Heard == ~Loose /\ (phase = "answered" => answer.awaited) /\ \A p \in 1..n : mw[p].at # "failed"

(* Who goes on behind a finished response finds the status that was written. *)
Observed ==
    /\ res.by # 0 => res.finished
    /\ Heard /\ (\A p \in 1..n : mw[p].next # "rejected") /\ res.by \in 1..n =>
          /\ \A p \in 1..(res.by - 1) :
                /\ mw[p].at \in {"waiting", "done"}
                /\ mw[p].at = "done" /\ mw[p].as \in {"logger", "audit", "otel"} => mw[p].seen = <<res.status>>
          /\ phase = "answered" => answer.status = res.status

(* The session middleware, once done, has left its cookie in the response. *)
Cookied ==
    Heard /\ sess.isNew /\ sess.written /\ (\E p \in 1..n : mw[p].as = "redis" /\ mw[p].at = "done") =>
        /\ res.cookie = "session"
        /\ phase = "answered" /\ ~err.handled => answer.cookie = "session"

-----------------------------------------------------------------------------

(* What the middlewares decide *)

(* What each guard (csrf, ipFilter, validate, bodyLimit, cors, rateLimit, multipart) may answer. *)
LEMMA Statuses ==
  /\ \A i : Csrf(i).status \in {0, 403} /\ Csrf(i).act \in {"next", "answer"}
            /\ (Csrf(i).act = "answer" => Csrf(i).status # 0)
  /\ \A i : IpFilter(i).status \in {0, 403} /\ IpFilter(i).act \in {"next", "answer", "silent"}
            /\ (IpFilter(i).act = "answer" => IpFilter(i).status # 0)
  /\ \A i : Validate(i).status \in {0, 400} /\ Validate(i).act \in {"next", "answer"}
            /\ (Validate(i).act = "answer" => Validate(i).status # 0)
  /\ \A i : BodyLimit(i).status \in {0, 413} /\ BodyLimit(i).act \in {"next", "answer"}
            /\ (BodyLimit(i).act = "answer" => BodyLimit(i).status # 0)
  /\ \A i : Cors(i).status \in {0, 204} /\ Cors(i).act \in {"next", "answer"}
            /\ (Cors(i).act = "answer" => Cors(i).status # 0)
  /\ \A i : RateLimit(i).status \in {0, 429} /\ RateLimit(i).act \in {"next", "answer", "silent", "throw"}
            /\ (RateLimit(i).act = "answer" => RateLimit(i).status # 0)
  /\ \A i : Multipart(i).status \in {0, 400, 413} /\ Multipart(i).act \in {"next", "answer"}
            /\ (Multipart(i).act = "answer" => Multipart(i).status # 0)
<1>1. \A i : Csrf(i).status \in {0, 403} /\ Csrf(i).act \in {"next", "answer"}
            /\ (Csrf(i).act = "answer" => Csrf(i).status # 0)
  BY DEF Csrf, Verdict
<1>2. \A i : IpFilter(i).status \in {0, 403} /\ IpFilter(i).act \in {"next", "answer", "silent"}
            /\ (IpFilter(i).act = "answer" => IpFilter(i).status # 0)
  BY DEF IpFilter, Denied, Next_, Answer, Verdict
<1>3. \A i : Validate(i).status \in {0, 400} /\ Validate(i).act \in {"next", "answer"}
            /\ (Validate(i).act = "answer" => Validate(i).status # 0)
  BY DEF Validate, Next_, Answer, Verdict
<1>4. \A i : BodyLimit(i).status \in {0, 413} /\ BodyLimit(i).act \in {"next", "answer"}
            /\ (BodyLimit(i).act = "answer" => BodyLimit(i).status # 0)
  BY DEF BodyLimit, Next_, Answer, Verdict
<1>5. \A i : Cors(i).status \in {0, 204} /\ Cors(i).act \in {"next", "answer"}
            /\ (Cors(i).act = "answer" => Cors(i).status # 0)
  BY DEF Cors, Next_, Verdict
<1>6. \A i : RateLimit(i).status \in {0, 429} /\ RateLimit(i).act \in {"next", "answer", "silent", "throw"}
            /\ (RateLimit(i).act = "answer" => RateLimit(i).status # 0)
  <2> TAKE i
  <2>1. check(i) \in {"throws", "allowed", "refused"}
    BY DEF check
  <2>2. RateLimit(i) \in {Next_, Verdict("throw", 0, {}), Verdict("next", 0, {"x-ratelimit"}), Rejected(i)}
    <3>1. CASE i.skip \in {"always", "skipped"}
      BY <3>1 DEF RateLimit
    <3>2. CASE ~(i.skip \in {"always", "skipped"}) /\ check(i) = "throws"
      BY <3>2, Zenon DEF RateLimit
    <3>3. CASE ~(i.skip \in {"always", "skipped"}) /\ check(i) = "allowed"
      BY <3>3, Zenon DEF RateLimit
    <3>4. CASE ~(i.skip \in {"always", "skipped"}) /\ check(i) = "refused"
      BY <3>4, Zenon DEF RateLimit
    <3> QED
      BY <2>1, <3>1, <3>2, <3>3, <3>4
  <2> QED
    BY <2>2 DEF Rejected, Next_, Answer, Verdict
<1>7. \A i : Multipart(i).status \in {0, 400, 413} /\ Multipart(i).act \in {"next", "answer"}
            /\ (Multipart(i).act = "answer" => Multipart(i).status # 0)
  BY DEF Multipart, Next_, Answer, Verdict
<1> QED
  BY <1>1, <1>2, <1>3, <1>4, <1>5, <1>6, <1>7

(* One middleware of the chain is changed.                                    *)
Updates(d, m, p, x) ==
    /\ d \in Seq(Middleware) /\ Len(d) = Len(m) /\ d[p] = x
    /\ \A q \in 1..Len(m) : q # p => d[q] = m[q]

(* Replacing one middleware's record leaves the others. *)
LEMMA Update ==
  ASSUME NEW m \in Seq(Middleware), NEW p \in 1..Len(m), NEW x \in Middleware
  PROVE  Updates([m EXCEPT ![p] = x], m, p, x)
<1>1. [m EXCEPT ![p] = x] \in Seq(Middleware)
  BY ExceptSeq, Zenon
<1> QED
  BY <1>1 DEF Updates

(* Recording what next() did changes nothing else of a middleware. *)
LEMMA MiddlewareNext ==
  ASSUME NEW x \in Middleware, NEW v \in {"none", "chain", "resolved", "rejected"}
  PROVE  LET y == [x EXCEPT !.next = v]
         IN  y \in Middleware /\ y.next = v /\ y.at = x.at /\ y.as = x.as /\ y.err = x.err /\ y.seen = x.seen
  BY DEF Middleware

(* Starting a middleware changes nothing else of it. *)
LEMMA MiddlewareRuns ==
  ASSUME NEW x \in Middleware
  PROVE  LET y == [x EXCEPT !.at = "running"]
         IN  y \in Middleware /\ y.at = "running" /\ y.next = x.next /\ y.as = x.as /\ y.err = x.err /\ y.seen = x.seen
  BY DEF Middleware

(* dispatch(p + 1) by the next() of p.                                         *)
Dispatches(d, m, p, f) ==
    /\ d \in Seq(Middleware) /\ Len(d) = n
    /\ \A q \in 1..n : q # p /\ q # p + 1 => d[q] = m[q]
    /\ \A q \in 1..n : q # p => d[q].as = m[q].as /\ d[q].next = m[q].next
                              /\ d[q].err = m[q].err /\ d[q].seen = m[q].seen
    /\ d[p].next \in {"chain", "resolved", "rejected"}
    /\ d[p].next = "chain" <=> ~Twice(p + 1) /\ ~Stops(p + 1, f)
    /\ d[p].next = "rejected" <=> Twice(p + 1)
    /\ d[p].next = "chain" => d[p + 1].at = "running" /\ p + 1 \in 1..n
    /\ d[p].next # "chain" => \A q \in 1..n : q # p => d[q] = m[q]
    /\ d[p].at = m[p].at /\ d[p].as = m[p].as /\ d[p].err = m[p].err /\ d[p].seen = m[p].seen

(* dispatch(position) starts the middleware at position or resolves the caller's next(). *)
LEMMA DispatchedIs ==
  ASSUME NEW m \in Seq(Middleware), Len(m) = n, NEW p \in 1..n, index \in Nat, NEW f \in BOOLEAN
  PROVE  Dispatches(Dispatched(m, p + 1, f), m, p, f)
<1> DEFINE d == Dispatched(m, p + 1, f)
<1>0. n \in Nat /\ (p + 1) - 1 = p /\ p + 1 \in Nat /\ p # p + 1
  BY DEF n
<1>a. m[p] \in Middleware /\ p \in 1..Len(m)
  BY <1>0
<1>b. ASSUME NEW v \in {"resolved", "rejected"}, d = [m EXCEPT ![p].next = v]
      PROVE  /\ d \in Seq(Middleware) /\ Len(d) = n /\ d[p].next = v
             /\ d[p].at = m[p].at /\ d[p].as = m[p].as /\ d[p].err = m[p].err /\ d[p].seen = m[p].seen
             /\ \A q \in 1..n : q # p => d[q] = m[q]
  <2> DEFINE x == [m[p] EXCEPT !.next = v]
  <2>1. x \in Middleware /\ x.next = v /\ x.at = m[p].at /\ x.as = m[p].as /\ x.err = m[p].err /\ x.seen = m[p].seen
    <3>1. v \in {"none", "chain", "resolved", "rejected"}
      OBVIOUS
    <3> QED
      BY <1>a, <3>1, MiddlewareNext
  <2>2. d = [m EXCEPT ![p] = x]
    BY <1>b
  <2> HIDE DEF x, d
  <2>3. Updates(d, m, p, x)
    BY <1>a, <2>1, <2>2, Update
  <2> QED
    BY <1>0, <2>1, <2>3 DEF Updates
<1>1. CASE Twice(p + 1)
  <2>1. d = [m EXCEPT ![p].next = "rejected"]
    BY <1>0, <1>1 DEF Dispatched
  <2> HIDE DEF d
  <2>2. Dispatches(d, m, p, f)
    BY <1>0, <1>1, <1>b, <2>1 DEF Dispatches
  <2> QED
    BY <2>2 DEF d
<1>2. CASE ~Twice(p + 1) /\ Stops(p + 1, f)
  <2>1. d = [m EXCEPT ![p].next = "resolved"]
    BY <1>0, <1>2 DEF Dispatched
  <2> HIDE DEF d
  <2>2. Dispatches(d, m, p, f)
    BY <1>0, <1>2, <1>b, <2>1 DEF Dispatches
  <2> QED
    BY <2>2 DEF d
<1>3. CASE ~Twice(p + 1) /\ ~Stops(p + 1, f)
  <2>1. d = [m EXCEPT ![p].next = "chain", ![p + 1].at = "running"]
    BY <1>0, <1>3 DEF Dispatched
  <2>2. p + 1 \in 1..n
    BY <1>0, <1>3 DEF Stops
  <2> DEFINE x == [m[p] EXCEPT !.next = "chain"]
             e == [m EXCEPT ![p] = x]
             y == [m[p + 1] EXCEPT !.at = "running"]
  <2>3. x \in Middleware /\ x.next = "chain" /\ x.at = m[p].at /\ x.as = m[p].as /\ x.err = m[p].err /\ x.seen = m[p].seen
    BY <1>a, MiddlewareNext
  <2>4. m[p + 1] \in Middleware
    BY <2>2
  <2>5. y \in Middleware /\ y.at = "running" /\ y.next = m[p + 1].next /\ y.as = m[p + 1].as
        /\ y.err = m[p + 1].err /\ y.seen = m[p + 1].seen
    BY <2>4, MiddlewareRuns
  <2>6. e \in Seq(Middleware) /\ Len(e) = n /\ e[p] = x /\ \A q \in 1..n : q # p => e[q] = m[q]
    <3> HIDE DEF x
    <3>1. Updates([m EXCEPT ![p] = x], m, p, x)
      BY <1>a, <2>3, Update
    <3> QED
      BY <3>1 DEF Updates
  <2>7. e[p + 1] = m[p + 1]
    BY <1>0, <2>2, <2>6
  <2>8. d = [e EXCEPT ![p + 1] = y]
    BY <2>1, <2>7
  <2> HIDE DEF d, e, x, y
  <2>9. d \in Seq(Middleware) /\ Len(d) = n /\ d[p + 1] = y /\ \A q \in 1..n : q # p + 1 => d[q] = e[q]
    <3>1. Updates(d, e, p + 1, y)
      BY <2>2, <2>5, <2>6, <2>8, Update
    <3> QED
      BY <2>6, <3>1 DEF Updates
  <2>10. Dispatches(d, m, p, f)
    BY <1>0, <1>3, <2>2, <2>3, <2>5, <2>6, <2>9 DEF Dispatches
  <2> QED
    BY <2>10 DEF d
<1> QED
  BY <1>1, <1>2, <1>3, Zenon

(* A verdict of a middleware, and what it leaves to do behind its next().       *)
Acts == {"next", "answer", "throw", "writes", "twice", "detached", "silent", "both"}

(* Every verdict of a kind is one that Decide has a branch for. *)
LEMMA VerdictsKnown ==
  ASSUME NEW k \in Kinds, NEW v \in Verdicts[k]
  PROVE  /\ v.act \in Acts /\ v.status \in Stati /\ v.cookie \in BOOLEAN
         /\ v.act \in {"answer", "both"} => v.status # 0
         /\ k \in Passing => v.act = "next"
<1>1. k \in DOMAIN GuardVerdicts \/ k \in Passing \/ k = "own2" \/ k = "own3"
  BY PipelineAssumption
<1>2. CASE k \in DOMAIN GuardVerdicts
  <2>2. k \in {"csrf", "ipFilter", "validate", "bodyLimit", "cors", "rateLimit", "multipart"}
    BY <1>2 DEF GuardVerdicts
  <2>3. k \notin Passing /\ k # "own2" /\ k # "own3"
    BY <2>2 DEF Passing
  <2>1. v \in GuardVerdicts[k]
    BY <1>2, <2>3, Zenon DEF Verdicts
  <2>4. CASE k = "csrf"
    <3>1. PICK i : v = Outcome(Csrf(i), Csrf(i).set # {})
      BY <2>1, <2>4 DEF GuardVerdicts
    <3> QED
      BY <2>3, <3>1, Statuses DEF Outcome, Acts, Stati
  <2>5. CASE k = "ipFilter"
    <3>1. PICK i : v = Outcome(IpFilter(i), FALSE)
      BY <2>1, <2>5 DEF GuardVerdicts
    <3> QED
      BY <2>3, <3>1, Statuses DEF Outcome, Acts, Stati
  <2>6. CASE k = "validate"
    <3>1. PICK i : v = Outcome(Validate(i), FALSE)
      BY <2>1, <2>6 DEF GuardVerdicts
    <3> QED
      BY <2>3, <3>1, Statuses DEF Outcome, Acts, Stati
  <2>7. CASE k = "bodyLimit"
    <3>1. PICK i : v = Outcome(BodyLimit(i), FALSE)
      BY <2>1, <2>7 DEF GuardVerdicts
    <3> QED
      BY <2>3, <3>1, Statuses DEF Outcome, Acts, Stati
  <2>8. CASE k = "cors"
    <3>1. PICK i : v = Outcome(Cors(i), FALSE)
      BY <2>1, <2>8 DEF GuardVerdicts
    <3> QED
      BY <2>3, <3>1, Statuses DEF Outcome, Acts, Stati
  <2>9. CASE k = "rateLimit"
    <3>1. PICK i : v = Outcome(RateLimit(i), FALSE)
      BY <2>1, <2>9 DEF GuardVerdicts
    <3> QED
      BY <2>3, <3>1, Statuses DEF Outcome, Acts, Stati
  <2>10. CASE k = "multipart"
    <3>1. PICK i : v = Outcome(Multipart(i), FALSE)
      BY <2>1, <2>10 DEF GuardVerdicts
    <3> QED
      BY <2>3, <3>1, Statuses DEF Outcome, Acts, Stati
  <2> QED
    BY <2>2, <2>4, <2>5, <2>6, <2>7, <2>8, <2>9, <2>10
<1>3. k \notin DOMAIN GuardVerdicts <=>
          k \notin {"csrf", "ipFilter", "validate", "bodyLimit", "cors", "rateLimit", "multipart"}
  BY DEF GuardVerdicts
<1>4. CASE k \in Passing
  <2>1. k \notin DOMAIN GuardVerdicts /\ k # "own2" /\ k # "own3"
    BY <1>3, <1>4 DEF Passing
  <2>2. v \in {Outcome(Next_, FALSE)}
    BY <1>4, <2>1, Zenon DEF Verdicts
  <2>3. v.act = "next" /\ v.status = 0 /\ v.cookie = FALSE
    BY <2>2 DEF Outcome, Next_, Verdict
  <2> QED
    BY <2>3 DEF Acts, Stati
<1>5. CASE k \in {"own2", "own3"}
  <2>1. k \notin DOMAIN GuardVerdicts /\ k \notin Passing
    BY <1>3, <1>5 DEF Passing
  <2>2. v \in Own \cup Extra
    <3>1. CASE k = "own2"
      BY <2>1, <3>1, Zenon DEF Verdicts
    <3>2. CASE k = "own3"
      <4>1. k # "own2"
        BY <3>2
      <4> QED
        BY <2>1, <3>2, <4>1, Zenon DEF Verdicts
    <3> QED
      BY <1>5, <3>1, <3>2
  <2>3. \/ v \in {Outcome(Next_, FALSE), Outcome(Answer(401), FALSE), Outcome(Verdict("both", 200, {}), FALSE)}
        \/ \E t \in Thrown : v = Outcome(Verdict("throw", t, {}), FALSE)
        \/ \E a \in {"writes", "twice", "detached", "silent"} : v = Outcome(Verdict(a, 0, {}), FALSE)
    BY <2>2, ZenonT(60) DEF Own, Extra
  <2>4. CASE v \in {Outcome(Next_, FALSE), Outcome(Answer(401), FALSE), Outcome(Verdict("both", 200, {}), FALSE)}
    <3>1. /\ v.act \in {"next", "answer", "both"} /\ v.status \in {0, 200, 401} /\ v.cookie = FALSE
          /\ v.act \in {"answer", "both"} => v.status # 0
      BY <2>4 DEF Outcome, Next_, Answer, Verdict
    <3>2. v.status \in Stati
      BY <3>1 DEF Stati
    <3> QED
      BY <2>1, <3>1, <3>2 DEF Acts
  <2>5. CASE \E t \in Thrown : v = Outcome(Verdict("throw", t, {}), FALSE)
    <3>1. v.act = "throw" /\ v.status \in Thrown /\ v.cookie = FALSE
      BY <2>5 DEF Outcome, Verdict
    <3>2. v.status \in Stati
      BY <3>1 DEF Stati, Thrown
    <3> QED
      BY <2>1, <3>1, <3>2 DEF Acts
  <2>6. CASE \E a \in {"writes", "twice", "detached", "silent"} : v = Outcome(Verdict(a, 0, {}), FALSE)
    <3>1. v.act \in {"writes", "twice", "detached", "silent"} /\ v.status = 0 /\ v.cookie = FALSE
      BY <2>6 DEF Outcome, Verdict
    <3> QED
      BY <2>1, <3>1 DEF Acts, Stati
  <2> QED
    BY <2>3, <2>4, <2>5, <2>6
<1> QED
  BY <1>1, <1>2, <1>4, <1>5

Observers == {"logger", "audit", "otel"}

(* What a middleware is once it has decided follows from its verdict. *)
LEMMA RolesKnown ==
  ASSUME NEW k \in Kinds, NEW v \in Verdicts[k], NEW as \in Behind(k, v)
  PROVE  /\ as \in Roles /\ as # "none" /\ ~Parks(as)
         /\ (as = "twice" <=> v.act = "twice") /\ (as = "detached" <=> v.act = "detached")
         /\ (as = "silent" <=> v.act = "silent") /\ (as = "both" <=> v.act = "both")
         /\ as \in Observers \cup {"redis"} => v.act = "next"
<1>1. v.act \in Acts /\ (k \in Passing => v.act = "next")
  BY VerdictsKnown
<1> QED
  BY <1>1 DEF Behind, Roles, Parks, Observers, Passing, Acts

-----------------------------------------------------------------------------

(* What a step does to the chain *)

Responses == [finished : BOOLEAN, status : Stati \ {0}, cookie : Cookies, by : 0..(n + 2)]

Sessions == [attached : {"none"} \cup Kinds, isNew : BOOLEAN, written : BOOLEAN, late : BOOLEAN]

Untouched(p) == \A q \in 1..n : q # p => mw'[q] = mw[q]

Starting(p) ==
    /\ p + 1 \in 1..n /\ mw'[p + 1].at = "running"
    /\ \A q \in 1..n : q # p =>
          /\ mw'[q].as = mw[q].as /\ mw'[q].next = mw[q].next
          /\ mw'[q].err = mw[q].err /\ mw'[q].seen = mw[q].seen
          /\ q # p + 1 => mw'[q] = mw[q]

(* An answer marks the response finished and, if it was not, as the answerer's.  *)
Responds(v, p) ==
    /\ res' \in Responses
    /\ v.act \in {"answer", "both"} =>
          /\ res'.finished /\ res'.status = v.status
          /\ res'.by = IF res.by = 0 /\ ~res.finished THEN p ELSE res.by
    /\ v.act \notin {"answer", "both"} =>
          (res'.finished <=> res.finished) /\ res'.status = res.status /\ res'.by = res.by

DecidesGone(p) ==
    /\ Gone /\ mw'[p].at \in {"done", "failed"} /\ mw'[p].next = mw[p].next
    /\ Untouched(p) /\ UNCHANGED <<index, res, sess>>

DecidesEnd(v, p) ==
    /\ ~Gone /\ v.act \in {"answer", "silent", "throw"}
    /\ mw'[p].at = (IF v.act = "throw" THEN "failed" ELSE "done") /\ mw'[p].next = mw[p].next
    /\ Untouched(p) /\ index' = index

DecidesCall(v, p) ==
    /\ ~Gone /\ v.act \notin {"answer", "silent", "throw"}
    /\ mw'[p].at = (IF v.act = "detached" THEN "done" ELSE "waiting")
    /\ mw'[p].next \in {"chain", "resolved", "rejected"}
    /\ mw'[p].next = "rejected" <=> Twice(p + 1)
    /\ mw'[p].next = "resolved" => p = n \/ res'.finished
    /\ mw'[p].next = "chain" => Starting(p) /\ ~res'.finished
    /\ mw'[p].next # "chain" => Untouched(p)
    /\ index' = IF Twice(p + 1) THEN index ELSE p + 1

(* The types of what a chain consists of. *)
LEMMA Members ==
  ASSUME Types
  PROVE  /\ n \in Nat /\ index \in Nat /\ mw \in Seq(Middleware) /\ Len(mw) = n
         /\ \A p \in 1..n : mw[p] \in Middleware
  BY DEF Types, n

Answering(a, r, t, p) ==
    /\ a \in Responses /\ a.finished /\ a.status = t /\ a.cookie = r.cookie
    /\ a.by = (IF r.by = 0 /\ ~r.finished THEN p ELSE r.by)

(* The first to finish a response sets its status and is its author. *)
LEMMA AnsweredIs ==
  ASSUME NEW r \in Responses, NEW t \in Stati \ {0}, NEW p \in 1..(n + 2)
  PROVE  Answering(Answered_(r, t, p), r, t, p)
<1> DEFINE by == IF r.by = 0 /\ ~r.finished THEN p ELSE r.by
<1>1. by \in 0..(n + 2)
  BY DEF Responses
<1> HIDE DEF by
<1>2. Answered_(r, t, p) = [r EXCEPT !.finished = TRUE, !.status = t, !.by = by]
  BY DEF Answered_, by
<1>3. Answering([r EXCEPT !.finished = TRUE, !.status = t, !.by = by], r, t, p)
  <2>1. LET a == [r EXCEPT !.finished = TRUE, !.status = t, !.by = by]
        IN  a \in Responses /\ a.finished /\ a.status = t /\ a.cookie = r.cookie /\ a.by = by
    BY <1>1 DEF Responses
  <2> QED
    BY <2>1 DEF Answering, by
<1> QED
  BY <1>2, <1>3

(* What a decision may write: itself, the middleware behind it, the response, the session. *)
LEMMA DecideShape ==
  ASSUME Types, NEW p \in 1..n, NEW k \in Kinds, Decide(p, k)
  PROVE  /\ Active(p) /\ UNCHANGED <<phase, err, answer>>
         /\ mw' \in Seq(Middleware) /\ Len(mw') = n /\ sess' \in Sessions
         /\ \E v \in Verdicts[k] : \E as \in Behind(k, v) :
               /\ mw'[p].as = as /\ mw'[p].seen = mw[p].seen
               /\ \/ DecidesGone(p)
                  \/ DecidesEnd(v, p) /\ Responds(v, p)
                  \/ DecidesCall(v, p) /\ Responds(v, p)
<1>0. /\ n \in Nat /\ index \in Nat /\ mw \in Seq(Middleware) /\ Len(mw) = n /\ mw[p] \in Middleware
      /\ res \in Responses /\ sess \in Sessions
  BY Members DEF Types, Responses, Sessions
<1>1. Active(p) /\ UNCHANGED <<phase, err, answer>>
  BY DEF Decide, Active
<1> DEFINE Then(v) == IF v.act \in {"answer", "both"} THEN Answered_(res, v.status, p)
                      ELSE IF v.cookie THEN [res EXCEPT !.cookie = "csrf"] ELSE res
           Settled(as, at, e) == [mw EXCEPT ![p].at = at, ![p].as = as, ![p].err = e]
           Begun(as, at) == [mw EXCEPT ![p].at = at, ![p].as = as]
<1>2. PICK v \in Verdicts[k], as \in {"plain"} \cup UNION {Behind(k, w) : w \in Verdicts[k]} :
        /\ as \in Behind(k, v)
        /\ IF Gone
           THEN /\ mw' \in {Settled(as, "failed", 0), Settled(as, "done", 0)}
                /\ UNCHANGED <<index, res, sess>>
           ELSE /\ res' = [Then(v) EXCEPT !.cookie = IF v.cookie THEN "csrf" ELSE @]
                /\ mw' = CASE v.act \in {"answer", "silent"} -> Settled(as, "done", 0)
                           [] v.act = "throw" -> Settled(as, "failed", v.status)
                           [] v.act = "detached" -> Dispatched(Begun(as, "done"), p + 1, Then(v).finished)
                           [] OTHER -> Dispatched(Begun(as, "waiting"), p + 1, Then(v).finished)
                /\ index' = IF v.act \in {"answer", "silent", "throw"} \/ Twice(p + 1)
                            THEN index ELSE p + 1
                /\ sess' = IF k \in {"session", "redis"} THEN [sess EXCEPT !.attached = k]
                           ELSE IF v.act = "writes" /\ sess.attached # "none"
                           THEN [sess EXCEPT !.written = TRUE] ELSE sess
  BY DEF Decide
<1>3. v.act \in Acts /\ v.status \in Stati /\ v.cookie \in BOOLEAN /\ (v.act \in {"answer", "both"} => v.status # 0)
  BY VerdictsKnown
<1>4. as \in Behind(k, v) /\ as \in Roles
  BY <1>2, RolesKnown
<1>5. 0 \in Stati
  BY DEF Stati
<1>6. ASSUME NEW at \in {"done", "failed"}, NEW e \in Stati
      PROVE  LET d == Settled(as, at, e)
             IN  /\ d \in Seq(Middleware) /\ Len(d) = n /\ d[p].at = at /\ d[p].as = as
                 /\ d[p].next = mw[p].next /\ d[p].seen = mw[p].seen
                 /\ \A q \in 1..n : q # p => d[q] = mw[q]
  <2> DEFINE x == [mw[p] EXCEPT !.at = at, !.as = as, !.err = e]
             d == Settled(as, at, e)
  <2>1. x \in Middleware /\ x.at = at /\ x.as = as /\ x.next = mw[p].next /\ x.seen = mw[p].seen
    BY <1>0, <1>4 DEF Middleware
  <2>2. d = [mw EXCEPT ![p] = x]
    OBVIOUS
  <2> HIDE DEF x, d
  <2>3. /\ d \in Seq(Middleware) /\ Len(d) = n /\ d[p] = x
        /\ \A q \in 1..n : q # p => d[q] = mw[q]
    <3>1. Updates(d, mw, p, x)
      BY <1>0, <2>1, <2>2, Update
    <3> QED
      BY <1>0, <3>1 DEF Updates
  <2> QED
    BY <2>1, <2>3 DEF d
<1>7. ASSUME NEW at \in {"done", "waiting"}
      PROVE  LET d == Begun(as, at)
             IN  /\ d \in Seq(Middleware) /\ Len(d) = n /\ d[p].at = at /\ d[p].as = as
                 /\ d[p].next = mw[p].next /\ d[p].seen = mw[p].seen
                 /\ \A q \in 1..n : q # p => d[q] = mw[q]
  <2> DEFINE x == [mw[p] EXCEPT !.at = at, !.as = as]
             d == Begun(as, at)
  <2>1. x \in Middleware /\ x.at = at /\ x.as = as /\ x.next = mw[p].next /\ x.seen = mw[p].seen
    BY <1>0, <1>4 DEF Middleware
  <2>2. d = [mw EXCEPT ![p] = x]
    OBVIOUS
  <2> HIDE DEF x, d
  <2>3. /\ d \in Seq(Middleware) /\ Len(d) = n /\ d[p] = x
        /\ \A q \in 1..n : q # p => d[q] = mw[q]
    <3>1. Updates(d, mw, p, x)
      BY <1>0, <2>1, <2>2, Update
    <3> QED
      BY <1>0, <3>1 DEF Updates
  <2> QED
    BY <2>1, <2>3 DEF d
<1>8. CASE Gone
  <2>1. UNCHANGED <<index, res, sess>> /\ mw' \in {Settled(as, "failed", 0), Settled(as, "done", 0)}
    BY <1>2, <1>8
  <2> HIDE DEF Settled
  <2>2. /\ mw' \in Seq(Middleware) /\ Len(mw') = n /\ mw'[p].at \in {"done", "failed"} /\ mw'[p].as = as
        /\ mw'[p].next = mw[p].next /\ mw'[p].seen = mw[p].seen /\ Untouched(p)
    BY <1>5, <1>6, <2>1, ZenonT(60) DEF Untouched
  <2>3. DecidesGone(p)
    BY <1>8, <2>1, <2>2 DEF DecidesGone
  <2> QED
    BY <1>0, <1>1, <1>4, <2>1, <2>2, <2>3
<1>9. CASE ~Gone
  <2>1. /\ Then(v) \in Responses
        /\ v.act \in {"answer", "both"} =>
              /\ Then(v).finished /\ Then(v).status = v.status
              /\ Then(v).by = IF res.by = 0 /\ ~res.finished THEN p ELSE res.by
        /\ v.act \notin {"answer", "both"} =>
              (Then(v).finished <=> res.finished) /\ Then(v).status = res.status /\ Then(v).by = res.by
    <3>1. p \in 1..(n + 2) /\ "csrf" \in Cookies
      BY <1>0 DEF Cookies
    <3>2. CASE v.act \in {"answer", "both"}
      <4>1. v.status \in Stati \ {0} /\ Then(v) = Answered_(res, v.status, p)
        BY <1>3, <3>2
      <4> HIDE DEF Then
      <4>2. Answering(Then(v), res, v.status, p)
        BY <1>0, <3>1, <4>1, AnsweredIs
      <4> QED
        BY <3>2, <4>2 DEF Answering
    <3>3. CASE v.act \notin {"answer", "both"}
      <4>1. Then(v) = res \/ Then(v) = [res EXCEPT !.cookie = "csrf"]
        BY <3>3
      <4>2. LET a == [res EXCEPT !.cookie = "csrf"]
            IN  a \in Responses /\ a.finished = res.finished /\ a.status = res.status /\ a.by = res.by
        BY <1>0, <3>1 DEF Responses
      <4> HIDE DEF Then
      <4> QED
        BY <1>0, <3>3, <4>1, <4>2
    <3> QED
      BY <3>2, <3>3
  <2> HIDE DEF Then
  <2>2. Responds(v, p) /\ (res'.finished <=> Then(v).finished) /\ Then(v).finished \in BOOLEAN
    <3>1. res' = [Then(v) EXCEPT !.cookie = "csrf"] \/ res' = [Then(v) EXCEPT !.cookie = Then(v).cookie]
      BY <1>2, <1>9
    <3>2. "csrf" \in Cookies /\ Then(v).cookie \in Cookies /\ Then(v).finished \in BOOLEAN
      BY <2>1 DEF Cookies, Responses
    <3>3. res' \in Responses /\ res'.finished = Then(v).finished /\ res'.status = Then(v).status /\ res'.by = Then(v).by
      BY <2>1, <3>1, <3>2 DEF Responses
    <3> QED
      BY <2>1, <3>2, <3>3 DEF Responds
  <2>3. sess' \in Sessions
    <3>1. \/ sess' = [sess EXCEPT !.attached = k] \/ sess' = [sess EXCEPT !.written = TRUE] \/ sess' = sess
      BY <1>2, <1>9
    <3> QED
      BY <1>0, <3>1 DEF Sessions
  <2>4. index' = IF v.act \in {"answer", "silent", "throw"} \/ Twice(p + 1) THEN index ELSE p + 1
    BY <1>2, <1>9
  <2>5. mw' = CASE v.act \in {"answer", "silent"} -> Settled(as, "done", 0)
                [] v.act = "throw" -> Settled(as, "failed", v.status)
                [] v.act = "detached" -> Dispatched(Begun(as, "done"), p + 1, Then(v).finished)
                [] OTHER -> Dispatched(Begun(as, "waiting"), p + 1, Then(v).finished)
    BY <1>2, <1>9
  <2> HIDE DEF Settled, Begun
  <2>6. CASE v.act \in {"answer", "silent", "throw"}
    <3>1. mw' = Settled(as, IF v.act = "throw" THEN "failed" ELSE "done", IF v.act = "throw" THEN v.status ELSE 0)
      <4>1. CASE v.act = "throw"
        <5>1. mw' = Settled(as, "failed", v.status)
          BY <2>5, <4>1, Zenon
        <5> QED
          BY <4>1, <5>1
      <4>2. CASE v.act \in {"answer", "silent"}
        <5>1. v.act # "throw" /\ v.act # "detached"
          BY <4>2
        <5>2. mw' = Settled(as, "done", 0)
          BY <2>5, <4>2, <5>1, Zenon
        <5> QED
          BY <5>1, <5>2
      <4> QED
        BY <2>6, <4>1, <4>2
    <3>2. /\ mw' \in Seq(Middleware) /\ Len(mw') = n
          /\ mw'[p].at = (IF v.act = "throw" THEN "failed" ELSE "done") /\ mw'[p].as = as
          /\ mw'[p].next = mw[p].next /\ mw'[p].seen = mw[p].seen /\ Untouched(p)
      BY <1>3, <1>5, <1>6, <3>1 DEF Untouched
    <3>3. DecidesEnd(v, p)
      BY <1>9, <2>4, <2>6, <3>2 DEF DecidesEnd
    <3> QED
      BY <1>1, <1>4, <2>2, <2>3, <3>2, <3>3
  <2>7. CASE v.act \notin {"answer", "silent", "throw"}
    <3> DEFINE at == IF v.act = "detached" THEN "done" ELSE "waiting"
               m == Begun(as, at)
    <3>1. mw' = Dispatched(m, p + 1, Then(v).finished)
      <4>1. CASE v.act = "detached"
        <5>1. v.act \notin {"answer", "silent"} /\ v.act # "throw"
          BY <4>1
        <5>2. mw' = Dispatched(Begun(as, "done"), p + 1, Then(v).finished)
          BY <2>5, <4>1, <5>1, Zenon
        <5> QED
          BY <4>1, <5>2
      <4>2. CASE v.act # "detached"
        <5>1. v.act \notin {"answer", "silent"} /\ v.act # "throw"
          BY <2>7
        <5>2. mw' = Dispatched(Begun(as, "waiting"), p + 1, Then(v).finished)
          BY <2>5, <4>2, <5>1, Zenon
        <5> QED
          BY <4>2, <5>2
      <4> QED
        BY <4>1, <4>2
    <3>2. at \in {"done", "waiting"}
      OBVIOUS
    <3> HIDE DEF at
    <3>3. /\ m \in Seq(Middleware) /\ Len(m) = n /\ m[p].at = at /\ m[p].as = as
          /\ m[p].next = mw[p].next /\ m[p].seen = mw[p].seen
          /\ \A q \in 1..n : q # p => m[q] = mw[q]
      BY <1>7, <3>2
    <3> HIDE DEF m
    <3>4. Then(v).finished \in BOOLEAN
      BY <2>2
    <3>5. /\ mw' \in Seq(Middleware) /\ Len(mw') = n
          /\ \A q \in 1..n : q # p /\ q # p + 1 => mw'[q] = m[q]
          /\ \A q \in 1..n : q # p => mw'[q].as = m[q].as /\ mw'[q].next = m[q].next
                                    /\ mw'[q].err = m[q].err /\ mw'[q].seen = m[q].seen
          /\ mw'[p].next \in {"chain", "resolved", "rejected"}
          /\ mw'[p].next = "chain" <=> ~Twice(p + 1) /\ ~Stops(p + 1, Then(v).finished)
          /\ mw'[p].next = "rejected" <=> Twice(p + 1)
          /\ mw'[p].next = "chain" => mw'[p + 1].at = "running" /\ p + 1 \in 1..n
          /\ mw'[p].next # "chain" => \A q \in 1..n : q # p => mw'[q] = m[q]
          /\ mw'[p].at = m[p].at /\ mw'[p].as = m[p].as /\ mw'[p].err = m[p].err /\ mw'[p].seen = m[p].seen
      <4>1. Dispatches(mw', m, p, Then(v).finished)
        BY <1>0, <3>1, <3>3, <3>4, DispatchedIs
      <4> QED
        BY <4>1 DEF Dispatches
    <3>6. \A q \in 1..n : q # p /\ q # p + 1 => mw'[q] = mw[q]
      BY <3>3, <3>5
    <3>7. mw'[p].as = as /\ mw'[p].seen = mw[p].seen /\ mw'[p].at = at
      BY <1>0, <3>3, <3>5
    <3>8. mw'[p].next = "chain" => Starting(p) /\ ~res'.finished
      BY <1>0, <2>2, <3>3, <3>5, <3>6 DEF Starting, Stops
    <3>9. mw'[p].next = "resolved" => p = n \/ res'.finished
      BY <1>0, <2>2, <3>5 DEF Stops
    <3>10. mw'[p].next # "chain" => Untouched(p)
      BY <3>3, <3>5 DEF Untouched
    <3>11. index' = IF Twice(p + 1) THEN index ELSE p + 1
      BY <2>4, <2>7
    <3>12. DecidesCall(v, p)
      BY <1>9, <2>7, <3>5, <3>7, <3>8, <3>9, <3>10, <3>11 DEF DecidesCall, at
    <3> QED
      BY <1>1, <1>4, <2>2, <2>3, <3>5, <3>7, <3>12
  <2> QED
    BY <2>6, <2>7
<1> QED
  BY <1>8, <1>9

(* What a middleware does behind its next().                                   *)
ResumeEnds(p) ==
    /\ mw'[p].at \in {"done", "failed"} /\ mw'[p].as = mw[p].as /\ mw'[p].next = mw[p].next
    /\ Inner(p) = "failed" /\ mw[p].as = "plain" => mw'[p].at = "failed"
    /\ mw'[p].at = "done" => Inner(p) = "done" \/ res'.finished
    /\ mw[p].as \in {"logger", "audit", "otel"} /\ mw'[p].at = "done" /\ ~Gone =>
          mw'[p].seen = <<res.status>>
    /\ mw[p].as = "redis" /\ mw'[p].at = "done" /\ sess.written /\ sess.isNew => res'.cookie = "session"
    /\ \/ /\ Inner(p) = "failed" /\ mw[p].as # "plain"
          /\ res'.finished /\ res'.cookie = res.cookie
       \/ /\ res'.finished = res.finished /\ res'.status = res.status /\ res'.by = res.by
          /\ res'.cookie \in {res.cookie, "session"}

ResumeTwice(p) ==
    /\ mw[p].as = "twice" /\ Inner(p) = "done"
    /\ mw'[p].at = "waiting" /\ mw'[p].as = "plain" /\ mw'[p].seen = mw[p].seen
    /\ mw'[p].next = IF n > 1 THEN "rejected" ELSE "resolved"
    /\ res' = res

(* What a middleware that resumes behind next() may write: itself, and the response if it may. *)
LEMMA ResumeShape ==
  ASSUME Types, Stage, NEW p \in 1..n, Resume(p)
  PROVE  /\ mw[p].at = "waiting" /\ Inner(p) \in {"done", "failed"} /\ Quiet /\ phase # "run"
         /\ UNCHANGED <<phase, index, sess, err, answer>>
         /\ mw' \in Seq(Middleware) /\ Len(mw') = n /\ Untouched(p) /\ res' \in Responses
         /\ ResumeEnds(p) \/ ResumeTwice(p)
<1>0. /\ n \in Nat /\ index \in Nat /\ mw \in Seq(Middleware) /\ Len(mw) = n /\ mw[p] \in Middleware
      /\ res \in Responses /\ sess \in Sessions
  BY Members DEF Types, Responses, Sessions
<1>1. /\ mw[p].at = "waiting" /\ Inner(p) \in {"done", "failed"} /\ Quiet /\ phase # "run"
      /\ UNCHANGED <<phase, index, sess, err, answer>>
  BY DEF Resume
<1>2. mw[p].seen = <<>> /\ mw[p].next # "none" /\ (n > 1 => p < index) /\ (mw[p].next = "chain" => p < n)
  BY <1>1 DEF Stage
<1>3. InnerErr(p) \in Stati
  <2>1. CASE mw[p].next = "chain"
    <3>1. p + 1 \in 1..n
      BY <1>0, <1>2, <2>1
    <3>2. mw[p + 1] \in Middleware
      BY <1>0, <3>1
    <3> QED
      BY <2>1, <3>2 DEF InnerErr, Middleware
  <2>2. CASE mw[p].next # "chain"
    BY <2>2 DEF InnerErr, Stati
  <2> QED
    BY <2>1, <2>2
<1>4. 0 \in Stati /\ 200 \in Stati /\ 500 \in Stati /\ res.status \in Stati
  BY <1>0 DEF Stati, Responses
<1> DEFINE Changed(at, seen) ==
             /\ mw' \in Seq(Middleware) /\ Len(mw') = n /\ Untouched(p)
             /\ mw'[p].at = at /\ mw'[p].as = mw[p].as /\ mw'[p].next = mw[p].next /\ mw'[p].seen = seen
<1>5. ASSUME NEW at \in {"done", "failed"}, NEW e \in Stati, NEW t \in Notes, Ends(p, at, e, t)
      PROVE  Changed(at, t)
  <2> DEFINE x == [mw[p] EXCEPT !.at = at, !.err = e, !.seen = t]
  <2>1. <<>> \o t = t
    BY DEF Notes
  <2>2. mw' = [mw EXCEPT ![p] = x]
    BY <1>0, <1>2, <1>5, <2>1 DEF Ends
  <2>3. x \in Middleware /\ x.at = at /\ x.as = mw[p].as /\ x.next = mw[p].next /\ x.seen = t
    BY <1>0 DEF Middleware
  <2> HIDE DEF x
  <2>4. Updates(mw', mw, p, x)
    BY <1>0, <2>2, <2>3, Update
  <2> QED
    BY <1>0, <2>3, <2>4 DEF Updates, Untouched
<1>6. <<>> \in Notes
  BY DEF Notes
<1>7. Own_(p) \in {"done", "failed"} /\ (Own_(p) = "done" <=> Inner(p) = "done")
  BY DEF Own_
<1>8. ASSUME Keeps(p) PROVE Changed(Own_(p), <<>>) /\ res' = res
  BY <1>3, <1>5, <1>6, <1>7, <1>8 DEF Keeps
<1>9. ASSUME Breaks(p) PROVE Changed("failed", <<>>) /\ res' = res
  BY <1>4, <1>5, <1>6, <1>9 DEF Breaks
<1>10. ASSUME NEW t \in Stati \ {0}, AnswersError(p, t)
       PROVE  Changed("done", <<>>) /\ res' \in Responses /\ res'.finished /\ res'.cookie = res.cookie
  <2>1. p \in 1..(n + 2)
    BY <1>0
  <2>2. Answering(res', res, t, p)
    BY <1>0, <1>10, <2>1, AnsweredIs DEF AnswersError
  <2>3. Changed("done", <<>>)
    BY <1>4, <1>5, <1>6, <1>10 DEF AnswersError
  <2> QED
    BY <2>2, <2>3 DEF Answering
<1> HIDE DEF Changed
<1> DEFINE Goal == /\ mw' \in Seq(Middleware) /\ Len(mw') = n /\ Untouched(p) /\ res' \in Responses
                   /\ ResumeEnds(p) \/ ResumeTwice(p)
<1>11. ASSUME Keeps(p), mw[p].as \notin {"logger", "audit", "otel"}, mw[p].as = "redis" => Inner(p) = "failed" PROVE Goal
  BY <1>0, <1>1, <1>7, <1>8, <1>11 DEF Changed, ResumeEnds
<1>12. ASSUME Breaks(p) PROVE Goal
  BY <1>0, <1>1, <1>9, <1>12 DEF Changed, ResumeEnds
<1>13. ASSUME NEW t \in Stati \ {0}, AnswersError(p, t), Inner(p) = "failed", mw[p].as \in {"validate", "multipart"} PROVE Goal
  BY <1>0, <1>1, <1>10, <1>13 DEF Changed, ResumeEnds
<1>14. ASSUME mw[p].as = "twice", TwiceEnds(p) PROVE Goal
  <2>1. CASE Inner(p) = "failed"
    BY <1>11, <1>14, <2>1 DEF TwiceEnds
  <2>2. CASE Inner(p) # "failed"
    <3> DEFINE m == [mw EXCEPT ![p].as = "plain"]
               x == [mw[p] EXCEPT !.as = "plain"]
               f == Gone \/ res.finished
    <3>1. mw' = Dispatched(m, p + 1, f) /\ res' = res
      BY <1>14, <2>2 DEF TwiceEnds
    <3>2. x \in Middleware /\ x.at = mw[p].at /\ x.as = "plain" /\ x.next = mw[p].next /\ x.seen = mw[p].seen
      BY <1>0 DEF Middleware, Roles
    <3>3. m = [mw EXCEPT ![p] = x]
      OBVIOUS
    <3> HIDE DEF m, x, f
    <3>4. Updates(m, mw, p, x)
      BY <1>0, <3>2, <3>3, Update
    <3>5. m \in Seq(Middleware) /\ Len(m) = n /\ m[p] = x /\ \A q \in 1..n : q # p => m[q] = mw[q]
      BY <1>0, <3>4 DEF Updates
    <3>6. f \in BOOLEAN
      BY <1>0 DEF f, Responses
    <3>7. Dispatches(mw', m, p, f)
      BY <1>0, <3>1, <3>5, <3>6, DispatchedIs
    <3>8. (n > 1 => Twice(p + 1)) /\ (~(n > 1) => ~Twice(p + 1) /\ Stops(p + 1, f))
      BY <1>0, <1>2 DEF Twice, Stops
    <3>9. mw'[p].next = IF n > 1 THEN "rejected" ELSE "resolved"
      BY <3>7, <3>8 DEF Dispatches
    <3>10. mw'[p].next # "chain"
      BY <3>9
    <3>11. /\ mw' \in Seq(Middleware) /\ Len(mw') = n /\ Untouched(p)
           /\ mw'[p].at = "waiting" /\ mw'[p].as = "plain" /\ mw'[p].seen = mw[p].seen
      BY <1>1, <3>2, <3>5, <3>7, <3>10 DEF Dispatches, Untouched
    <3>12. Inner(p) = "done"
      BY <1>1, <2>2
    <3> QED
      BY <1>0, <1>14, <3>1, <3>9, <3>11, <3>12 DEF ResumeTwice
  <2> QED
    BY <2>1, <2>2
<1>15. ASSUME mw[p].as = "validate", ValidateEnds(p) PROVE Goal
  <2>1. 400 \in Stati \ {0}
    BY DEF Stati
  <2> QED
    BY <1>1, <1>11, <1>12, <1>13, <1>15, <2>1 DEF ValidateEnds
<1>16. ASSUME mw[p].as = "multipart", MultipartEnds(p) PROVE Goal
  BY <1>1, <1>3, <1>11, <1>12, <1>13, <1>16 DEF MultipartEnds
<1>17. ASSUME mw[p].as = "logger", LoggerEnds(p) PROVE Goal
  <2>1. CASE Breaks(p)
    BY <1>12, <2>1
  <2>2. CASE ~Gone /\ Ends(p, Own_(p), InnerErr(p), <<Recorded(p)>>) /\ UNCHANGED res
    <3>1. Recorded(p) = res.status /\ <<Recorded(p)>> \in Notes
      BY <1>4, <2>2 DEF Recorded, Notes
    <3>2. Changed(Own_(p), <<res.status>>)
      BY <1>3, <1>5, <1>7, <2>2, <3>1
    <3> QED
      BY <1>0, <1>1, <1>7, <1>17, <2>2, <3>2 DEF Changed, ResumeEnds
  <2> QED
    BY <1>17, <2>1, <2>2 DEF LoggerEnds
<1>18. ASSUME mw[p].as = "audit", AuditEnds(p) PROVE Goal
  <2> DEFINE t == IF Inner(p) = "done" THEN Recorded(p) ELSE IF InnerErr(p) = 0 THEN 500 ELSE InnerErr(p)
  <2>1. <<t>> \in Notes
    BY <1>3, <1>4 DEF Recorded, Notes
  <2>2. Ends(p, Own_(p), InnerErr(p), <<t>>) /\ res' = res
    BY <1>18 DEF AuditEnds
  <2>3. ~Gone /\ Inner(p) = "done" => t = res.status
    BY DEF Recorded
  <2> HIDE DEF t
  <2>4. Changed(Own_(p), <<t>>)
    BY <1>3, <1>5, <1>7, <2>1, <2>2
  <2> QED
    BY <1>0, <1>1, <1>7, <1>18, <2>2, <2>3, <2>4 DEF Changed, ResumeEnds
<1>19. ASSUME mw[p].as = "otel", OtelEnds(p) PROVE Goal
  <2>1. CASE Gone
    BY <1>12, <1>19, <2>1 DEF OtelEnds
  <2>2. CASE ~Gone
    <3>1. Recorded(p) = res.status /\ <<Recorded(p)>> \in Notes
      BY <1>4, <2>2 DEF Recorded, Notes
    <3>2. Changed(Own_(p), <<res.status>>) /\ res' = res
      BY <1>3, <1>5, <1>7, <1>19, <2>2, <3>1 DEF OtelEnds
    <3> QED
      BY <1>0, <1>1, <1>7, <1>19, <2>2, <3>2 DEF Changed, ResumeEnds
  <2> QED
    BY <2>1, <2>2
<1>20. ASSUME mw[p].as = "redis", RedisEnds(p) PROVE Goal
  <2>1. CASE Inner(p) = "failed"
    BY <1>11, <1>20, <2>1 DEF RedisEnds
  <2>2. CASE Inner(p) # "failed" /\ Breaks(p)
    BY <1>12, <2>2
  <2>3. CASE Inner(p) # "failed" /\ Ends(p, "done", 0, <<>>) /\ res' = Flushed(p)
    <3>1. Changed("done", <<>>)
      BY <1>4, <1>5, <1>6, <2>3
    <3>2. /\ res' \in Responses /\ res'.finished = res.finished /\ res'.status = res.status /\ res'.by = res.by
          /\ res'.cookie \in {res.cookie, "session"}
          /\ sess.written /\ sess.isNew => res'.cookie = "session"
      <4>1. \/ res' = [res EXCEPT !.cookie = "session"]
            \/ ~(sess.written /\ sess.isNew) /\ res' = [res EXCEPT !.cookie = res.cookie]
        BY <2>3 DEF Flushed
      <4> QED
        BY <1>0, <4>1 DEF Responses, Cookies
    <3>3. Inner(p) = "done"
      BY <1>1, <2>3
    <3> QED
      BY <1>0, <1>1, <1>20, <3>1, <3>2, <3>3 DEF Changed, ResumeEnds
  <2> QED
    BY <1>20, <2>1, <2>2, <2>3 DEF RedisEnds
<1> HIDE DEF Goal
<1>21. ASSUME mw[p].as \in {"plain", "both"}, Keeps(p) PROVE Goal
  <2>1. mw[p].as \notin {"logger", "audit", "otel"} /\ mw[p].as # "redis"
    BY <1>21
  <2> QED
    BY <1>11, <1>21, <2>1
<1>22. Goal
  <2>1. \/ mw[p].as \in {"plain", "both"} /\ Keeps(p)
        \/ mw[p].as = "twice" /\ TwiceEnds(p)
        \/ mw[p].as = "validate" /\ ValidateEnds(p)
        \/ mw[p].as = "multipart" /\ MultipartEnds(p)
        \/ mw[p].as = "logger" /\ LoggerEnds(p)
        \/ mw[p].as = "audit" /\ AuditEnds(p)
        \/ mw[p].as = "otel" /\ OtelEnds(p)
        \/ mw[p].as = "redis" /\ RedisEnds(p)
    BY DEF Resume
  <2> QED
    BY <2>1, <1>14, <1>15, <1>16, <1>17, <1>18, <1>19, <1>20, <1>21, Zenon
<1> QED
  BY <1>1, <1>22 DEF Goal

-----------------------------------------------------------------------------

(* The invariant *)

IInv == Types /\ Stage /\ Phases /\ InTurn /\ HandlerUnfinished /\ Observed /\ Cookied

(* A decision starts the next middleware, which was idle, or touches no other one. *)
LEMMA DecideStarts ==
  ASSUME Types, Stage, NEW p \in 1..n, NEW k \in Kinds, Decide(p, k)
  PROVE  /\ Active(p) /\ mw[p].next = "none" /\ mw[p].seen = <<>> /\ p <= index
         /\ n' = n /\ index' \in 0..(n + 1) /\ index <= index'
         /\ (res.finished => res'.finished) /\ (mw[p].as \notin {"detached", "silent", "both", "redis"})
         /\ mw'[p].at \in {"done", "failed", "waiting"} /\ mw'[p].seen = <<>>
         /\ mw'[p].at = "waiting" => mw'[p].next # "none" /\ (n > 1 => p < index')
         /\ mw'[p].next = "resolved" => p = n \/ res'.finished
         /\ mw'[p].next = "chain" =>
               /\ p + 1 \in 1..n /\ mw[p + 1] = Idle /\ mw'[p + 1] = [Idle EXCEPT !.at = "running"]
               /\ index' = p + 1 /\ ~res'.finished
         /\ \A q \in 1..n : q # p /\ (q = p + 1 => mw'[p].next # "chain") => mw'[q] = mw[q]
<1>0. n \in Nat /\ index \in Nat /\ mw[p] \in Middleware /\ index \in 0..(n + 1)
  BY Members DEF Types
<1>v. PICK v \in Verdicts[k] : \E as \in Behind(k, v) :
         /\ mw'[p].as = as /\ mw'[p].seen = mw[p].seen
         /\ \/ DecidesGone(p)
            \/ DecidesEnd(v, p) /\ Responds(v, p)
            \/ DecidesCall(v, p) /\ Responds(v, p)
  BY DecideShape
<1>1. PICK as \in Behind(k, v) :
         /\ mw'[p].as = as /\ mw'[p].seen = mw[p].seen
         /\ \/ DecidesGone(p)
            \/ DecidesEnd(v, p) /\ Responds(v, p)
            \/ DecidesCall(v, p) /\ Responds(v, p)
  BY <1>v
<1>2. Active(p) /\ mw' \in Seq(Middleware) /\ Len(mw') = n
  BY DecideShape
<1>3. mw[p].next = "none" /\ mw[p].seen = <<>> /\ p <= index /\ mw[p].as \notin {"detached", "silent", "both", "redis"}
  BY <1>0, <1>2 DEF Stage, Active, Parks
<1>4. n' = n /\ mw'[p].seen = <<>>
  BY <1>1, <1>2, <1>3 DEF n
<1>5. CASE DecidesGone(p)
  BY <1>0, <1>2, <1>3, <1>4, <1>5 DEF DecidesGone, Untouched
<1>6. CASE DecidesEnd(v, p) /\ Responds(v, p)
  BY <1>0, <1>2, <1>3, <1>4, <1>6 DEF DecidesEnd, Responds, Untouched
<1>7. CASE DecidesCall(v, p) /\ Responds(v, p)
  <2>1. index' \in 0..(n + 1) /\ index <= index' /\ (n > 1 => p < index')
    BY <1>0, <1>3, <1>7 DEF DecidesCall, Twice
  <2>2. ASSUME mw'[p].next = "chain"
        PROVE  /\ p + 1 \in 1..n /\ mw[p + 1] = Idle /\ mw'[p + 1] = [Idle EXCEPT !.at = "running"]
               /\ index' = p + 1 /\ ~res'.finished
    <3>1. Starting(p) /\ ~res'.finished /\ ~Twice(p + 1) /\ index' = p + 1
      BY <1>7, <2>2 DEF DecidesCall
    <3>2. p + 1 \in 1..n /\ p + 1 > index
      BY <1>0, <3>1 DEF Starting, Twice
    <3>3. mw[p + 1] = Idle
      BY <3>2 DEF Stage
    <3>4. mw'[p + 1] \in Middleware
      BY <1>2, <3>2
    <3>5. mw'[p + 1] = [Idle EXCEPT !.at = "running"]
      BY <1>0, <3>1, <3>2, <3>3, <3>4 DEF Starting, Middleware, Idle
    <3> QED
      BY <3>1, <3>2, <3>3, <3>5
  <2>3. \A q \in 1..n : q # p /\ (q = p + 1 => mw'[p].next # "chain") => mw'[q] = mw[q]
    BY <1>7 DEF DecidesCall, Starting, Untouched
  <2>4. /\ mw'[p].at \in {"done", "failed", "waiting"} /\ mw'[p].next # "none"
        /\ (mw'[p].next = "resolved" => p = n \/ res'.finished) /\ (res.finished => res'.finished)
    BY <1>7 DEF DecidesCall, Responds
  <2> QED
    BY <1>2, <1>3, <1>4, <2>1, <2>2, <2>3, <2>4
<1> QED
  BY <1>1, <1>5, <1>6, <1>7

(* Unless a middleware lets go of the request, the one that decides is the last started. *)
LEMMA DecideInTurn ==
  ASSUME Types, Stage, InTurn, Observed, NEW p \in 1..n, NEW k \in Kinds, Decide(p, k), ~Loose'
  PROVE  /\ ~Loose /\ index = p /\ ~res.finished /\ phase \in {"run", "await"} /\ Hears(p)
         /\ \A q \in 1..n : /\ q < p => mw'[q] = mw[q]
                            /\ q > p => mw[q] = Idle
         /\ mw'[p].as \notin {"detached", "silent"} /\ ~Twice(p + 1)
         /\ mw'[p].next \in {"none", "chain", "resolved"}
         /\ mw'[p].at = "waiting" => index' = p + 1
         /\ mw'[p].at = "done" => res'.finished /\ mw'[p].as \notin Observers \cup {"redis"}
         /\ mw'[p].as = "both" => res'.finished /\ mw'[p].next # "none"
         /\ mw'[p].at # "waiting" => mw'[p].next = "none"
         /\ res'.by = 0 \/ (res'.by = p /\ res'.finished)
<1>0. n \in Nat /\ index \in Nat /\ n' = n
  BY Members, DecideStarts
<1>v. PICK v \in Verdicts[k] : \E as \in Behind(k, v) :
         /\ mw'[p].as = as
         /\ \/ DecidesGone(p)
            \/ DecidesEnd(v, p) /\ Responds(v, p)
            \/ DecidesCall(v, p) /\ Responds(v, p)
  BY DecideShape
<1>1. PICK as \in Behind(k, v) :
         /\ mw'[p].as = as
         /\ \/ DecidesGone(p)
            \/ DecidesEnd(v, p) /\ Responds(v, p)
            \/ DecidesCall(v, p) /\ Responds(v, p)
  BY <1>v
<1>2. /\ Active(p) /\ mw[p].next = "none" /\ p <= index /\ mw[p].as \notin {"detached", "silent"}
      /\ \A q \in 1..n : q # p /\ (q = p + 1 => mw'[p].next # "chain") => mw'[q] = mw[q]
      /\ mw'[p].next = "chain" => p + 1 \in 1..n /\ mw[p + 1] = Idle
  BY DecideStarts
<1>3. ~Loose
  <2> SUFFICES ASSUME NEW q \in 1..n, mw[q].as \in {"detached", "silent"} PROVE FALSE
    BY DEF Loose
  <2>1. q # p
    BY <1>2
  <2>2. q = p + 1 => mw'[p].next # "chain"
    BY <1>2 DEF Idle
  <2>3. mw'[q] = mw[q]
    BY <1>2, <2>1, <2>2
  <2> QED
    BY <1>0, <2>3 DEF Loose
<1>4. index = p /\ ~res.finished /\ phase \in {"run", "await"} /\ Hears(p)
  BY <1>2, <1>3 DEF InTurn
<1>5. \A q \in 1..n : (q < p => mw'[q] = mw[q]) /\ (q > p => mw[q] = Idle)
  BY <1>0, <1>2, <1>4 DEF Stage
<1>6. ~Twice(p + 1) /\ ~Gone /\ res.by = 0
  BY <1>0, <1>4 DEF Twice, Gone, Observed
<1>7. as \notin {"detached", "silent"}
  BY <1>0, <1>1 DEF Loose
<1>8. /\ (as = "detached" <=> v.act = "detached") /\ (as = "silent" <=> v.act = "silent")
      /\ (as = "both" <=> v.act = "both") /\ (as \in Observers \cup {"redis"} => v.act = "next")
  BY RolesKnown
<1>9. ~DecidesGone(p)
  BY <1>6 DEF DecidesGone
<1>10. CASE DecidesEnd(v, p) /\ Responds(v, p)
  BY <1>1, <1>2, <1>3, <1>4, <1>5, <1>6, <1>7, <1>8, <1>10 DEF DecidesEnd, Responds
<1>11. CASE DecidesCall(v, p) /\ Responds(v, p)
  BY <1>1, <1>2, <1>3, <1>4, <1>5, <1>6, <1>7, <1>8, <1>11 DEF DecidesCall, Responds
<1> QED
  BY <1>1, <1>9, <1>10, <1>11

(* A decision of a middleware preserves the invariant. *)
LEMMA DecideInv ==
  ASSUME IInv, NEW p \in 1..n, NEW k \in Kinds, Decide(p, k), UNCHANGED mode
  PROVE  IInv'
<1>0. Types /\ Stage /\ Phases /\ InTurn /\ HandlerUnfinished /\ Observed /\ Cookied
  BY DEF IInv
<1>n. n \in Nat /\ index \in 0..(n + 1) /\ p \in Nat
  BY <1>0, Members DEF Types
<1>1. /\ Active(p) /\ mw[p].next = "none" /\ mw[p].seen = <<>> /\ p <= index
      /\ n' = n /\ index' \in 0..(n + 1) /\ index <= index'
      /\ (res.finished => res'.finished) /\ (mw[p].as \notin {"detached", "silent", "both", "redis"})
      /\ mw'[p].at \in {"done", "failed", "waiting"} /\ mw'[p].seen = <<>>
      /\ mw'[p].at = "waiting" => mw'[p].next # "none" /\ (n > 1 => p < index')
      /\ mw'[p].next = "resolved" => p = n \/ res'.finished
      /\ mw'[p].next = "chain" =>
            /\ p + 1 \in 1..n /\ mw[p + 1] = Idle /\ mw'[p + 1] = [Idle EXCEPT !.at = "running"]
            /\ index' = p + 1 /\ ~res'.finished
      /\ \A q \in 1..n : q # p /\ (q = p + 1 => mw'[p].next # "chain") => mw'[q] = mw[q]
  BY <1>0, DecideStarts
<1>2. UNCHANGED <<phase, err, answer>> /\ mw' \in Seq(Middleware) /\ Len(mw') = n /\ sess' \in Sessions
  BY <1>0, DecideShape
<1>3. res' \in Responses
  <2>1. PICK v \in Verdicts[k] : \E as \in Behind(k, v) :
            \/ DecidesGone(p)
            \/ DecidesEnd(v, p) /\ Responds(v, p)
            \/ DecidesCall(v, p) /\ Responds(v, p)
    BY <1>0, DecideShape
  <2> QED
    BY <1>0, <2>1 DEF DecidesGone, Responds, Types, Responses
<1>4. Types'
  BY <1>0, <1>1, <1>2, <1>3 DEF Types, Sessions, Responses
<1>5. Stage'
  <2> SUFFICES ASSUME NEW q \in 1..n
               PROVE  /\ mw'[q].at = "idle" => mw'[q] = Idle
                      /\ mw'[q].at = "running" => mw'[q].as = "none"
                      /\ mw'[q].at = "parked" => Parks(mw'[q].as)
                      /\ Active(q)' => mw'[q].next = "none" /\ mw'[q].seen = <<>>
                      /\ mw'[q].at = "waiting" => /\ mw'[q].next # "none" /\ mw'[q].seen = <<>>
                                                  /\ n > 1 => q < index'
                      /\ mw'[q].next = "chain" => q < n
                      /\ mw'[q].next = "resolved" => q = n \/ res'.finished
                      /\ q > index' => mw'[q].at = "idle"
    BY <1>1 DEF Stage, Active, Parks, Idle
  <2>1. CASE q = p
    BY <1>n, <1>1, <2>1 DEF Active
  <2>2. CASE q = p + 1 /\ mw'[p].next = "chain"
    BY <1>n, <1>1, <2>2 DEF Active, Idle
  <2>3. CASE q # p /\ (q = p + 1 => mw'[p].next # "chain")
    <3>1. mw'[q] = mw[q]
      BY <1>1, <2>3
    <3> QED
      BY <1>0, <1>n, <1>1, <3>1 DEF Stage, Active
  <2> QED
    BY <2>1, <2>2, <2>3
<1>6. Phases'
  <2>1. n > 0 /\ phase \notin {"none", "arrived"}
    BY <1>0, <1>n, <1>1 DEF Phases
  <2>2. mw[p].at \in {"running", "parked"}
    BY <1>1 DEF Active
  <2>3. 1 \in 1..n /\ (1 # p => mw'[1] = mw[1])
    BY <1>n, <1>1
  <2> QED
    BY <1>0, <1>1, <1>2, <2>1, <2>2, <2>3 DEF Phases
<1>7. res'.by # 0 => res'.finished
  <2>1. PICK v \in Verdicts[k] : \E as \in Behind(k, v) :
            \/ DecidesGone(p)
            \/ DecidesEnd(v, p) /\ Responds(v, p)
            \/ DecidesCall(v, p) /\ Responds(v, p)
    BY <1>0, DecideShape
  <2> QED
    BY <1>0, <2>1 DEF DecidesGone, Responds, Observed
<1>8. CASE Loose'
  BY <1>4, <1>5, <1>6, <1>7, <1>8 DEF IInv, InTurn, HandlerUnfinished, Observed, Cookied, Heard
<1>9. CASE ~Loose'
  <2>1. /\ ~Loose /\ index = p /\ ~res.finished /\ phase \in {"run", "await"} /\ Hears(p)
        /\ \A q \in 1..n : /\ q < p => mw'[q] = mw[q]
                           /\ q > p => mw[q] = Idle
        /\ mw'[p].as \notin {"detached", "silent"} /\ ~Twice(p + 1)
        /\ mw'[p].next \in {"none", "chain", "resolved"}
        /\ mw'[p].at = "waiting" => index' = p + 1
        /\ mw'[p].at = "done" => res'.finished /\ mw'[p].as \notin Observers \cup {"redis"}
        /\ mw'[p].as = "both" => res'.finished /\ mw'[p].next # "none"
        /\ mw'[p].at # "waiting" => mw'[p].next = "none"
        /\ res'.by = 0 \/ (res'.by = p /\ res'.finished)
    BY <1>0, <1>9, DecideInTurn
  <2>2. \A q \in 1..n : q < p => mw'[q].at = "waiting" /\ mw'[q].next = "chain" /\ mw'[q] = mw[q]
    BY <1>n, <2>1 DEF Hears
  <2>3. \A q \in 1..n : q > p => mw'[q] = Idle \/ (q = p + 1 /\ mw'[q] = [Idle EXCEPT !.at = "running"] /\ mw'[p].next = "chain")
    BY <1>n, <1>1, <2>1
  <2>4. Hears(p)' /\ \A q \in 1..n : q < p => Hears(q)'
    BY <1>n, <2>2 DEF Hears
  <2>5. InTurn'
    <3> SUFFICES ASSUME NEW q \in 1..n
                 PROVE  /\ Active(q)' => index' = q /\ ~res'.finished /\ phase' \in {"run", "await"} /\ Hears(q)'
                        /\ mw'[q].at = "waiting" =>
                              (phase' \in {"run", "await"} \/ (phase' = "answered" /\ ~answer'.awaited)) /\ Hears(q)'
                        /\ mw'[q].at = "done" /\ ~res'.finished =>
                              \A r \in q..n : mw'[r].at = "done" /\ mw'[r].next # "none"
                        /\ mw'[q].as = "both" => res'.finished
                        /\ mw'[q].next = "rejected" => mw'[q].as = "plain" /\ mw'[q].at \in {"waiting", "failed"}
      BY <1>1 DEF InTurn, Active, Hears
    <3>1. CASE q < p
      BY <1>0, <1>2, <2>1, <2>2, <2>4, <3>1 DEF InTurn, Active
    <3>2. CASE q = p
      BY <1>1, <1>2, <2>1, <2>4, <3>2 DEF Active
    <3>3. CASE q > p /\ mw'[q] = Idle
      BY <3>3 DEF Active, Idle
    <3>4. CASE q = p + 1 /\ mw'[q] = [Idle EXCEPT !.at = "running"] /\ mw'[p].next = "chain"
      <4>1. Hears(q)'
        BY <1>n, <2>1, <2>2, <3>4 DEF Hears
      <4> QED
        BY <1>1, <1>2, <2>1, <3>4, <4>1 DEF Active, Idle
    <3> QED
      BY <1>n, <2>3, <3>1, <3>2, <3>3, <3>4
  <2>6. HandlerUnfinished'
    BY <1>2, <2>1 DEF HandlerUnfinished
  <2>7. Observed'
    BY <1>n, <1>1, <1>2, <1>7, <2>1, <2>2 DEF Observed
  <2>8. ~ \E q \in 1..n : mw'[q].as = "redis" /\ mw'[q].at = "done"
    BY <1>n, <2>1, <2>2, <2>3 DEF Idle
  <2>9. Cookied'
    BY <1>1, <2>8 DEF Cookied
  <2> QED
    BY <1>4, <1>5, <1>6, <2>5, <2>6, <2>7, <2>9 DEF IInv
<1> QED
  BY <1>8, <1>9

(* A middleware that begins to wait for its own promise preserves it. *)
LEMMA ParkInv ==
  ASSUME IInv, NEW p \in 1..n, NEW k \in Kinds, Park(p, k), UNCHANGED mode
  PROVE  IInv' /\ n' = n /\ Untouched(p) /\ mw[p].at = "running" /\ mw'[p] = [mw[p] EXCEPT !.at = "parked", !.as = k]
<1>0. Types /\ Stage /\ Phases /\ InTurn /\ HandlerUnfinished /\ Observed /\ Cookied
  BY DEF IInv
<1>n. n \in Nat /\ mw \in Seq(Middleware) /\ Len(mw) = n /\ mw[p] \in Middleware
  BY <1>0, Members
<1> DEFINE x == [mw[p] EXCEPT !.at = "parked", !.as = k]
<1>1. mw[p].at = "running" /\ Parks(k) /\ UNCHANGED <<phase, index, res, sess, err, answer>>
  BY DEF Park
<1>2. mw' = [mw EXCEPT ![p] = x]
  BY DEF Park
<1>3. /\ x \in Middleware /\ x.at = "parked" /\ x.as = k
      /\ x.next = mw[p].next /\ x.err = mw[p].err /\ x.seen = mw[p].seen
  BY <1>n, <1>1 DEF Middleware, Roles, Parks
<1> HIDE DEF x
<1>4. Updates(mw', mw, p, x)
  BY <1>n, <1>2, <1>3, Update
<1>5. mw' \in Seq(Middleware) /\ n' = n /\ mw'[p] = x /\ \A q \in 1..n : q # p => mw'[q] = mw[q]
  BY <1>n, <1>4 DEF Updates, n
<1>6. k \notin {"none", "plain", "twice", "detached", "silent", "both", "redis"} /\ mw[p].as = "none"
  BY <1>0, <1>1 DEF Parks, Stage
<1>7. Types'
  BY <1>0, <1>1, <1>5 DEF Types
<1>8. Stage'
  <2> SUFFICES ASSUME NEW q \in 1..n
               PROVE  /\ mw'[q].at = "idle" => mw'[q] = Idle
                      /\ mw'[q].at = "running" => mw'[q].as = "none"
                      /\ mw'[q].at = "parked" => Parks(mw'[q].as)
                      /\ Active(q)' => mw'[q].next = "none" /\ mw'[q].seen = <<>>
                      /\ mw'[q].at = "waiting" => /\ mw'[q].next # "none" /\ mw'[q].seen = <<>>
                                                  /\ n > 1 => q < index'
                      /\ mw'[q].next = "chain" => q < n
                      /\ mw'[q].next = "resolved" => q = n \/ res'.finished
                      /\ q > index' => mw'[q].at = "idle"
    BY <1>5 DEF Stage, Active, Parks, Idle
  <2>1. CASE q = p
    BY <1>0, <1>1, <1>3, <1>5, <2>1 DEF Stage, Active
  <2>2. CASE q # p
    <3>1. mw'[q] = mw[q]
      BY <1>5, <2>2
    <3> QED
      BY <1>0, <1>1, <3>1 DEF Stage, Active
  <2> QED
    BY <2>1, <2>2
<1>9. Phases'
  <2>1. n > 0 /\ 1 \in 1..n
    BY <1>n
  <2>2. mw'[1].at = mw[1].at \/ (mw[1].at = "running" /\ p = 1)
    BY <1>1, <1>5, <2>1
  <2>3. phase \notin {"none", "arrived"}
    <3>1. index # 0
      BY <1>0, <1>n, <1>1 DEF Stage
    <3> QED
      BY <1>0, <3>1 DEF Phases
  <2>4. \E q \in 1..n : mw[q].at # "idle"
    BY <1>1
  <2>5. phase = "errors" /\ ~err.handled => mw[1].at = "failed"
    BY <1>0, <2>4 DEF Phases
  <2>6. mw[1].at \in {"idle", "done", "failed"} => mw'[1].at = mw[1].at
    BY <2>2
  <2> QED
    BY <1>0, <1>1, <1>5, <2>1, <2>3, <2>5, <2>6 DEF Phases
<1>10. Loose' => Loose
  BY <1>3, <1>5, <1>6 DEF Loose
<1>l. Loose => Loose'
  BY <1>5, <1>6 DEF Loose
<1>11. InTurn'
  <2> SUFFICES ASSUME ~Loose, NEW q \in 1..n
               PROVE  /\ Active(q)' => index' = q /\ ~res'.finished /\ phase' \in {"run", "await"} /\ Hears(q)'
                      /\ mw'[q].at = "waiting" =>
                            (phase' \in {"run", "await"} \/ (phase' = "answered" /\ ~answer'.awaited)) /\ Hears(q)'
                      /\ mw'[q].at = "done" /\ ~res'.finished =>
                            \A r \in q..n : mw'[r].at = "done" /\ mw'[r].next # "none"
                      /\ mw'[q].as = "both" => res'.finished
                      /\ mw'[q].next = "rejected" => mw'[q].as = "plain" /\ mw'[q].at \in {"waiting", "failed"}
    BY <1>5, <1>l DEF InTurn, Active, Hears
  <2>1. Active(p) /\ mw[p].next = "none" /\ Active(p)'
    BY <1>0, <1>1, <1>3, <1>5 DEF Active, Stage
  <2>2. Active(q)' => Active(q)
    BY <1>5, <2>1 DEF Active
  <2>3. Hears(q) => Hears(q)'
    BY <1>n, <1>1, <1>5 DEF Hears
  <2>4. CASE q = p
    BY <1>0, <1>1, <1>3, <1>5, <1>6, <2>1, <2>3, <2>4 DEF InTurn
  <2>5. CASE q # p
    <3>1. mw'[q] = mw[q]
      BY <1>5, <2>5
    <3>2. mw[q].at = "done" /\ ~res.finished => p \notin q..n
      BY <1>0, <1>1 DEF InTurn
    <3> QED
      BY <1>0, <1>n, <1>1, <1>5, <2>2, <2>3, <3>1, <3>2 DEF InTurn
  <2> QED
    BY <2>4, <2>5
<1>12. HandlerUnfinished'
  BY <1>0, <1>1, <1>l DEF HandlerUnfinished
<1>13. Heard' => Heard
  BY <1>1, <1>5, <1>l DEF Heard
<1>14. Observed'
  <2>1. Heard' => res.by = 0
    BY <1>0, <1>1, <1>13 DEF Heard, InTurn, Active, Observed
  <2> QED
    BY <1>0, <1>1, <1>5, <2>1 DEF Observed
<1>15. Cookied'
  <2>1. (\E q \in 1..n : mw'[q].as = "redis" /\ mw'[q].at = "done") => \E q \in 1..n : mw[q].as = "redis" /\ mw[q].at = "done"
    BY <1>3, <1>5
  <2> QED
    BY <1>0, <1>1, <1>5, <1>13, <2>1 DEF Cookied
<1> QED
  BY <1>7, <1>8, <1>9, <1>11, <1>12, <1>14, <1>15, <1>5, <1>1 DEF IInv, x, Untouched

(* A middleware that goes on once next() has settled preserves it. *)
LEMMA ResumeInv ==
  ASSUME IInv, NEW p \in 1..n, Resume(p), UNCHANGED mode
  PROVE  IInv'
<1>0. Types /\ Stage /\ Phases /\ InTurn /\ HandlerUnfinished /\ Observed /\ Cookied
  BY DEF IInv
<1>n. n \in Nat /\ mw \in Seq(Middleware) /\ Len(mw) = n /\ mw[p] \in Middleware
  BY <1>0, Members
<1>1. /\ mw[p].at = "waiting" /\ Inner(p) \in {"done", "failed"} /\ Quiet /\ phase # "run"
      /\ UNCHANGED <<phase, index, sess, err, answer>>
      /\ mw' \in Seq(Middleware) /\ Len(mw') = n /\ Untouched(p) /\ res' \in Responses
      /\ ResumeEnds(p) \/ ResumeTwice(p)
  BY <1>0, ResumeShape
<1>2. n' = n /\ \A q \in 1..n : q # p => mw'[q] = mw[q]
  BY <1>1 DEF n, Untouched
<1>3. /\ mw[p].seen = <<>> /\ mw[p].next # "none" /\ (n > 1 => p < index) /\ (mw[p].next = "chain" => p < n)
      /\ (mw[p].next = "resolved" => p = n \/ res.finished)
      /\ mw[p].next \in {"chain", "resolved", "rejected"}
  BY <1>0, <1>n, <1>1 DEF Stage, Middleware
<1>4. /\ mw'[p].at \in {"waiting", "done", "failed"} /\ mw'[p].next # "none"
      /\ (res.finished => res'.finished) /\ (mw'[p].at = "waiting" => mw'[p].seen = <<>>)
      /\ (mw'[p].next = "chain" => p < n) /\ (mw'[p].next = "resolved" => p = n \/ res'.finished)
  BY <1>n, <1>1, <1>3 DEF ResumeEnds, ResumeTwice
<1>5. Types'
  BY <1>0, <1>1, <1>2 DEF Types, Responses
<1>6. Stage'
  <2> SUFFICES ASSUME NEW q \in 1..n
               PROVE  /\ mw'[q].at = "idle" => mw'[q] = Idle
                      /\ mw'[q].at = "running" => mw'[q].as = "none"
                      /\ mw'[q].at = "parked" => Parks(mw'[q].as)
                      /\ Active(q)' => mw'[q].next = "none" /\ mw'[q].seen = <<>>
                      /\ mw'[q].at = "waiting" => /\ mw'[q].next # "none" /\ mw'[q].seen = <<>>
                                                  /\ n > 1 => q < index'
                      /\ mw'[q].next = "chain" => q < n
                      /\ mw'[q].next = "resolved" => q = n \/ res'.finished
                      /\ q > index' => mw'[q].at = "idle"
    BY <1>2 DEF Stage, Active, Parks, Idle
  <2>1. CASE q = p
    BY <1>0, <1>1, <1>3, <1>4, <2>1 DEF Stage, Active
  <2>2. CASE q # p
    <3>1. mw'[q] = mw[q]
      BY <1>2, <2>2
    <3> QED
      BY <1>0, <1>1, <1>4, <3>1 DEF Stage, Active
  <2> QED
    BY <2>1, <2>2
<1>7. Phases'
  <2>1. n > 0 /\ 1 \in 1..n
    BY <1>n
  <2>2. mw[1].at \in {"idle", "done", "failed"} => mw'[1].at = mw[1].at
    BY <1>1, <1>2, <2>1
  <2>3. phase \notin {"none", "arrived"}
    <3>1. index # 0
      BY <1>0, <1>n, <1>1 DEF Stage
    <3> QED
      BY <1>0, <3>1 DEF Phases
  <2>4. phase = "errors" /\ ~err.handled => mw[1].at = "failed"
    BY <1>0, <1>1 DEF Phases
  <2> QED
    BY <1>0, <1>1, <1>2, <1>4, <2>1, <2>2, <2>3, <2>4 DEF Phases
<1>8. res'.by # 0 => res'.finished
  BY <1>0, <1>1 DEF Observed, ResumeEnds, ResumeTwice
<1>9. Loose => Loose'
  <2> SUFFICES ASSUME NEW q \in 1..n, mw[q].as \in {"detached", "silent"} PROVE Loose'
    BY DEF Loose
  <2>1. mw'[q].as = mw[q].as
    BY <1>1, <1>2 DEF ResumeEnds, ResumeTwice, Resume
  <2> QED
    BY <1>2, <2>1 DEF Loose
<1>10. CASE Loose'
  BY <1>5, <1>6, <1>7, <1>8, <1>10 DEF IInv, InTurn, HandlerUnfinished, Observed, Cookied, Heard
<1>11. CASE ~Loose'
  <2>1. ~Loose /\ Hears(p) /\ (phase \in {"run", "await"} \/ (phase = "answered" /\ ~answer.awaited))
    BY <1>0, <1>1, <1>9, <1>11 DEF InTurn
  <2>2. ASSUME NEW q \in 1..n, q > p, mw[q].at \in {"running", "parked", "waiting"} PROVE FALSE
    <3>1. Hears(q)
      BY <1>0, <2>1, <2>2 DEF InTurn, Active
    <3>2. mw[p].next = "chain" /\ mw[p + 1].at \in {"done", "failed"}
      BY <1>n, <1>1, <2>2, <3>1 DEF Hears, Inner
    <3>3. q # p + 1 => mw[p + 1].at = "waiting"
      BY <1>n, <2>2, <3>1 DEF Hears
    <3>4. q = p + 1
      BY <3>2, <3>3
    <3> QED
      BY <2>2, <3>2, <3>4
  <2>3. \A q \in 1..n : ~Active(q) /\ (mw'[q].at = "waiting" => q <= p)
    BY <1>n, <1>2, <2>1, <2>2, <1>1 DEF Active, Hears
  <2>4. Hears(p)' /\ \A q \in 1..n : q < p => Hears(q)'
    BY <1>n, <1>2, <2>1 DEF Hears
  <2>5. ASSUME mw'[p].at = "done", ~res'.finished
        PROVE  \A q \in p..n : mw'[q].at = "done" /\ mw'[q].next # "none"
    <3>1. Inner(p) = "done" /\ ~res.finished /\ mw'[p].next = mw[p].next
      BY <1>1, <1>4, <2>5 DEF ResumeEnds, ResumeTwice
    <3>2. CASE p = n
      BY <1>n, <1>4, <2>5, <3>2
    <3>3. CASE p # n
      <4>1. p + 1 \in 1..n /\ mw[p].next = "chain" /\ mw[p + 1].at = "done"
        BY <1>n, <1>3, <3>1, <3>3 DEF Inner
      <4>2. \A q \in (p + 1)..n : mw[q].at = "done" /\ mw[q].next # "none"
        BY <1>0, <2>1, <3>1, <4>1 DEF InTurn
      <4> QED
        BY <1>n, <1>2, <1>4, <2>5, <4>2
    <3> QED
      BY <3>2, <3>3
  <2>6. mw[p].next = "rejected" => mw[p].as = "plain" /\ Inner(p) = "failed"
    BY <1>0, <1>1, <2>1 DEF InTurn, Inner
  <2>7. mw'[p].as = "both" => res'.finished
    <3>1. mw'[p].as = "both" => mw[p].as = "both"
      BY <1>1 DEF ResumeEnds, ResumeTwice
    <3> QED
      BY <1>0, <1>4, <2>1, <3>1 DEF InTurn
  <2>8. mw'[p].next = "rejected" => mw'[p].as = "plain" /\ mw'[p].at \in {"waiting", "failed"}
    BY <1>1, <2>6 DEF ResumeEnds, ResumeTwice
  <2>9. InTurn'
    <3> SUFFICES ASSUME NEW q \in 1..n
                 PROVE  /\ Active(q)' => index' = q /\ ~res'.finished /\ phase' \in {"run", "await"} /\ Hears(q)'
                        /\ mw'[q].at = "waiting" =>
                              (phase' \in {"run", "await"} \/ (phase' = "answered" /\ ~answer'.awaited)) /\ Hears(q)'
                        /\ mw'[q].at = "done" /\ ~res'.finished =>
                              \A r \in q..n : mw'[r].at = "done" /\ mw'[r].next # "none"
                        /\ mw'[q].as = "both" => res'.finished
                        /\ mw'[q].next = "rejected" => mw'[q].as = "plain" /\ mw'[q].at \in {"waiting", "failed"}
      BY <1>2 DEF InTurn, Active, Hears
    <3>1. ~Active(q)'
      BY <1>2, <1>4, <2>3 DEF Active
    <3>2. mw'[q].at = "waiting" =>
            (phase' \in {"run", "await"} \/ (phase' = "answered" /\ ~answer'.awaited)) /\ Hears(q)'
      BY <1>n, <1>1, <2>1, <2>3, <2>4
    <3>3. CASE q = p
      BY <2>5, <2>7, <2>8, <3>1, <3>2, <3>3
    <3>4. CASE q # p
      <4>1. mw'[q] = mw[q]
        BY <1>2, <3>4
      <4>2. ASSUME mw[q].at = "done", ~res.finished
            PROVE  \A r \in q..n : mw'[r].at = "done" /\ mw'[r].next # "none"
        <5>1. \A r \in q..n : mw[r].at = "done" /\ mw[r].next # "none"
          BY <1>0, <2>1, <4>2 DEF InTurn
        <5>2. p \notin q..n
          BY <1>1, <5>1
        <5> QED
          BY <1>n, <1>2, <5>1, <5>2
      <4>3. mw[q].as = "both" => res.finished
        BY <1>0, <2>1 DEF InTurn
      <4>4. mw[q].next = "rejected" => mw[q].as = "plain" /\ mw[q].at \in {"waiting", "failed"}
        BY <1>0, <2>1 DEF InTurn
      <4> QED
        BY <1>4, <3>1, <3>2, <4>1, <4>2, <4>3, <4>4
    <3> QED
      BY <3>3, <3>4
  <2>10. HandlerUnfinished'
    BY <1>1, <2>1 DEF HandlerUnfinished
  <2>11. ASSUME Heard' PROVE Heard /\ ~Gone /\ (Inner(p) = "failed" => mw[p].next = "rejected")
    <3>1. \A q \in 1..n : mw[q].at # "failed"
      BY <1>1, <1>2, <2>11 DEF Heard
    <3>2. ~Gone /\ (phase = "answered" => answer.awaited)
      BY <1>1, <2>1, <2>11 DEF Heard, Gone
    <3>3. p + 1 \in 1..n => mw[p + 1].at # "failed"
      BY <3>1
    <3>4. mw[p].next = "chain" => p + 1 \in 1..n
      BY <1>n, <1>3
    <3> QED
      <4>1. Heard
        BY <2>1, <3>1, <3>2 DEF Heard
      <4>2. Inner(p) = "failed" => mw[p].next = "rejected"
        BY <1>3, <3>3, <3>4 DEF Inner
      <4> QED
        BY <3>2, <4>1, <4>2
  <2>12. Observed'
    <3>1. ASSUME Heard', \A q \in 1..n : mw'[q].next # "rejected", res'.by \in 1..n
          PROVE  /\ \A q \in 1..(res'.by - 1) :
                       /\ mw'[q].at \in {"waiting", "done"}
                       /\ mw'[q].at = "done" /\ mw'[q].as \in {"logger", "audit", "otel"} => mw'[q].seen = <<res'.status>>
                 /\ phase' # "answered"
      <4>1. Heard /\ ~Gone /\ phase' # "answered"
        BY <1>1, <2>11, <3>1 DEF Gone
      <4>2. CASE ResumeTwice(p)
        <5>1. ~(n > 1)
          BY <3>1, <4>2 DEF ResumeTwice
        <5> QED
          BY <1>n, <3>1, <4>1, <5>1
      <4>3. CASE ResumeEnds(p)
        <5>1. mw[p].next # "rejected" /\ Inner(p) # "failed" /\ \A q \in 1..n : mw[q].next # "rejected"
          BY <1>2, <2>11, <3>1, <4>3 DEF ResumeEnds
        <5>2. res'.status = res.status /\ res'.by = res.by
          BY <4>3, <5>1 DEF ResumeEnds
        <5>6. res.by \in 1..n
          BY <3>1, <5>2
        <5>3. \A q \in 1..(res.by - 1) :
                 /\ mw[q].at \in {"waiting", "done"}
                 /\ mw[q].at = "done" /\ mw[q].as \in {"logger", "audit", "otel"} => mw[q].seen = <<res.status>>
          BY <1>0, <4>1, <5>1, <5>6, Zenon DEF Observed
        <5>4. mw'[p].at \in {"waiting", "done"}
              /\ (mw'[p].at = "done" /\ mw'[p].as \in {"logger", "audit", "otel"} => mw'[p].seen = <<res.status>>)
          <6>1. mw'[p].at # "failed"
            BY <1>2, <3>1 DEF Heard
          <6> QED
            BY <1>4, <4>1, <4>3, <6>1 DEF ResumeEnds
        <5>5. \A q \in 1..(res.by - 1) : q # p => mw'[q] = mw[q]
          BY <1>n, <1>2, <3>1, <5>2
        <5> QED
          BY <4>1, <5>2, <5>3, <5>4, <5>5
      <4> QED
        BY <1>1, <4>2, <4>3
    <3> QED
      BY <1>2, <1>8, <3>1 DEF Observed
  <2>13. Cookied'
    <3> SUFFICES ASSUME Heard', sess.isNew, sess.written, NEW q \in 1..n, mw'[q].as = "redis", mw'[q].at = "done"
                 PROVE  res'.cookie = "session" /\ phase' # "answered"
      BY <1>1, <1>2 DEF Cookied
    <3>1. Heard /\ phase' # "answered"
      BY <1>1, <2>11 DEF Gone
    <3>2. CASE q = p
      BY <1>1, <3>1, <3>2 DEF ResumeEnds, ResumeTwice
    <3>3. CASE q # p
      <4>1. res.cookie = "session"
        BY <1>0, <1>2, <3>1, <3>3 DEF Cookied
      <4> QED
        BY <1>1, <3>1, <4>1 DEF ResumeEnds, ResumeTwice
    <3> QED
      BY <3>2, <3>3
  <2> QED
    BY <1>5, <1>6, <1>7, <2>9, <2>10, <2>12, <2>13 DEF IInv
<1> QED
  BY <1>10, <1>11

(* The default error answer is an error and sets no cookie. *)
LEMMA DefaultStatus ==
  ASSUME NEW t \in Stati, NEW f \in {404, 500}
  PROVE  /\ buildDefaultErrorSnapshot(t, f).status \in Stati /\ buildDefaultErrorSnapshot(t, f).status >= 400
         /\ buildDefaultErrorSnapshot(t, f).cookie = "none"
BY DEF buildDefaultErrorSnapshot, normalizeErrorStatus, Stati

(* Unless a middleware lets go of the request, all have settled when the runner has. *)
LEMMA AllSettled ==
  ASSUME IInv, ~Loose,
         phase \in {"handler", "handling", "errors"} \/ (n > 0 /\ mw[1].at \in {"done", "failed"})
  PROVE  \A p \in 1..n : ~Active(p) /\ mw[p].at # "waiting"
<1>0. InTurn /\ n \in Nat
  BY Members DEF IInv
<1> SUFFICES ASSUME NEW p \in 1..n, Active(p) \/ mw[p].at = "waiting" PROVE FALSE
  OBVIOUS
<1>1. Hears(p) /\ phase \in {"run", "await", "answered"}
  BY <1>0 DEF InTurn
<1>2. n > 0 /\ mw[1].at \in {"done", "failed"}
  BY <1>1
<1>3. 1 < p
  BY <1>0, <1>2 DEF Active
<1>4. mw[1].at = "waiting"
  BY <1>0, <1>1, <1>3 DEF Hears
<1> QED
  BY <1>2, <1>4

(* What a step of dispatch leaves of the chain.                                *)
LEMMA Steady ==
  ASSUME IInv, UNCHANGED <<mw, index>>, res.finished => res'.finished,
         \A p \in 1..n : ~Loose /\ Active(p) => phase' \in {"run", "await"} /\ ~res'.finished,
         \A p \in 1..n : ~Loose /\ mw[p].at = "waiting" =>
            phase' \in {"run", "await"} \/ (phase' = "answered" /\ ~answer'.awaited)
  PROVE  n' = n /\ Stage' /\ InTurn' /\ Loose' = Loose
<1>0. Stage /\ InTurn
  BY DEF IInv
<1>1. n' = n
  BY DEF n
<1>2. Stage'
  BY <1>0, <1>1 DEF Stage, Active, Parks, Idle
<1>3. Loose' = Loose
  BY <1>1 DEF Loose
<1>4. InTurn'
  <2> SUFFICES ASSUME ~Loose, NEW q \in 1..n
               PROVE  /\ Active(q)' => index' = q /\ ~res'.finished /\ phase' \in {"run", "await"} /\ Hears(q)'
                      /\ mw'[q].at = "waiting" =>
                            (phase' \in {"run", "await"} \/ (phase' = "answered" /\ ~answer'.awaited)) /\ Hears(q)'
                      /\ mw'[q].at = "done" /\ ~res'.finished =>
                            \A r \in q..n : mw'[r].at = "done" /\ mw'[r].next # "none"
                      /\ mw'[q].as = "both" => res'.finished
                      /\ mw'[q].next = "rejected" => mw'[q].as = "plain" /\ mw'[q].at \in {"waiting", "failed"}
    BY <1>1, <1>3 DEF InTurn, Active, Hears
  <2>1. (Active(q)' <=> Active(q)) /\ (Hears(q)' <=> Hears(q))
    BY DEF Active, Hears
  <2> QED
    BY <1>0, <2>1 DEF InTurn
<1> QED
  BY <1>1, <1>2, <1>3, <1>4

(* The start of dispatch preserves the invariant. *)
LEMMA ArriveInv ==
  ASSUME IInv, Arrive, UNCHANGED mode
  PROVE  IInv' /\ n' = n
<1>0. Types /\ Stage /\ Phases /\ InTurn /\ HandlerUnfinished /\ Observed /\ Cookied
  BY DEF IInv
<1>n. n \in Nat /\ mw \in Seq(Middleware) /\ Len(mw) = n
  BY <1>0, Members
<1>1. phase = "arrived" /\ index = 0 /\ ~res.finished /\ res.by = 0 /\ ~err.handled /\ UNCHANGED <<res, sess>>
  BY <1>0 DEF Arrive, Phases, Observed
<1>2. \A p \in 1..n : mw[p] = Idle
  BY <1>0, <1>n, <1>1 DEF Stage
<1>3. CASE UNCHANGED <<mw, index>>
  <2>1. n' = n /\ Stage' /\ InTurn' /\ Loose' = Loose
    <3>1. \A p \in 1..n : ~Active(p) /\ mw[p].at # "waiting"
      BY <1>2 DEF Active, Idle
    <3> QED
      BY <1>1, <1>3, <3>1, Steady
  <2>2. \A p \in 1..n : mw'[p] = Idle
    BY <1>2, <1>3
  <2>3. Cookied'
    BY <2>1, <2>2 DEF Cookied, Idle
  <2>4. Observed'
    BY <1>1 DEF Observed
  <2>5. CASE Answers(buildDefaultErrorSnapshot(0, 500), FALSE) /\ UNCHANGED <<mw, index, err>>
    <3>1. buildDefaultErrorSnapshot(0, 500).status \in Stati \ {0} /\ buildDefaultErrorSnapshot(0, 500).cookie \in Cookies
      BY DefaultStatus DEF Stati, Cookies
    <3>2. Types'
      BY <1>0, <1>1, <2>1, <2>5, <3>1 DEF Types, Answers
    <3>3. Phases' /\ HandlerUnfinished'
      BY <1>1, <1>n, <2>1, <2>2, <2>5 DEF Phases, HandlerUnfinished, Answers, Idle
    <3> QED
      BY <2>1, <2>3, <2>4, <3>2, <3>3 DEF IInv
  <2>6. CASE /\ phase' = "errors" /\ err' = [NoError EXCEPT !.status = 404, !.fallback = 404]
             /\ UNCHANGED <<mw, index, answer>>
    <3>0. err' = [status |-> 404, fallback |-> 404, at |-> 1, handled |-> FALSE]
      BY <2>6, ZenonT(60) DEF NoError
    <3>1. Types'
      <4>1. err' \in [status : Stati, fallback : {404, 500}, at : Nat, handled : BOOLEAN]
        BY <3>0 DEF Stati
      <4> QED
        BY <1>0, <1>1, <2>1, <2>6, <4>1 DEF Types
    <3>2. Phases' /\ HandlerUnfinished'
      BY <1>1, <1>n, <2>1, <2>2, <2>6 DEF Phases, HandlerUnfinished, NoError, Idle
    <3> QED
      BY <2>1, <2>3, <2>4, <3>1, <3>2 DEF IInv
  <2>7. index' # 1
    BY <1>1, <1>3
  <2> QED
    BY <2>5, <2>6, <2>7, Zenon DEF Arrive
<1>4. CASE /\ phase' = IF n = 0 THEN "handler" ELSE "run"
           /\ mw' = [p \in 1..n |-> IF p = 1 THEN [Idle EXCEPT !.at = "running"] ELSE Idle]
           /\ index' = 1
           /\ UNCHANGED <<err, answer>>
  <2>1. Idle \in Middleware /\ [Idle EXCEPT !.at = "running"] \in Middleware
    BY DEF Idle, Middleware, Roles, Stati, Notes
  <2>2. mw' \in Seq(Middleware) /\ n' = n
    BY <1>n, <1>4, <2>1 DEF n
  <2>3. \A p \in 1..n : mw'[p] = IF p = 1 THEN [Idle EXCEPT !.at = "running"] ELSE Idle
    BY <1>4
  <2>4. Types'
    BY <1>0, <1>1, <1>4, <1>n, <2>2 DEF Types
  <2>5. Stage'
    BY <1>n, <1>4, <2>2, <2>3 DEF Stage, Active, Idle, Parks
  <2>6. Phases'
    BY <1>n, <1>1, <1>4, <2>2, <2>3 DEF Phases, Idle
  <2>7. InTurn'
    BY <1>n, <1>1, <1>4, <2>2, <2>3 DEF InTurn, Active, Idle, Hears
  <2>8. HandlerUnfinished' /\ Observed'
    BY <1>1 DEF HandlerUnfinished, Observed
  <2>9. Cookied'
    BY <2>2, <2>3 DEF Cookied, Idle
  <2> QED
    BY <2>2, <2>4, <2>5, <2>6, <2>7, <2>8, <2>9 DEF IInv
<1> QED
  BY <1>3, <1>4 DEF Arrive

Answered(a) ==
    /\ phase' = "answered" /\ (answer'.awaited <=> phase # "run")
    /\ answer' \in [status : Stati, cookie : Cookies, awaited : BOOLEAN, custom : BOOLEAN]
    /\ answer'.status = a.status /\ answer'.cookie = a.cookie /\ answer'.status # 0

(* An answer takes status and cookie as they are given. *)
LEMMA AnswersIs ==
  ASSUME NEW a, NEW c \in BOOLEAN, Answers(a, c), a.status \in Stati \ {0}, a.cookie \in Cookies
  PROVE  Answered(a) /\ (answer'.custom <=> c)
<1>1. answer' = [status |-> a.status, cookie |-> a.cookie, awaited |-> phase # "run", custom |-> c]
  BY DEF Answers
<1>2. answer'.status = a.status /\ answer'.cookie = a.cookie /\ (answer'.awaited <=> phase # "run") /\ (answer'.custom <=> c)
  BY <1>1
<1>3. answer' \in [status : Stati, cookie : Cookies, awaited : BOOLEAN, custom : BOOLEAN]
  BY <1>1
<1> QED
  BY <1>2, <1>3 DEF Answered, Answers

(* The snapshot of the response has a status. *)
LEMMA SnapshotIs ==
  ASSUME Types, Snapshot
  PROVE  Answered(res)
<1>1. res.status \in Stati \ {0} /\ res.cookie \in Cookies
  BY DEF Types
<1> QED
  BY <1>1, AnswersIs DEF Snapshot

(* The end of the first synchronous section, with or without an answer, preserves it. *)
LEMMA SectionEndsInv ==
  ASSUME IInv, SectionEnds, UNCHANGED mode
  PROVE  IInv'
<1>0. Types /\ Stage /\ Phases /\ InTurn /\ HandlerUnfinished /\ Observed /\ Cookied
  BY DEF IInv
<1>1. phase = "run" /\ UNCHANGED <<mw, index, res, sess, err>> /\ ~err.handled /\ n > 0
  BY <1>0 DEF SectionEnds, Phases
<1>2. \/ res.finished /\ phase' = "answered" /\ Snapshot /\ ~answer'.awaited
      \/ ~res.finished /\ phase' = "await" /\ UNCHANGED answer
  <2>1. IF res.finished THEN Snapshot ELSE phase' = "await" /\ UNCHANGED answer
    BY DEF SectionEnds
  <2>2. CASE res.finished
    <3>1. Snapshot /\ Answered(res)
      BY <1>0, <2>1, <2>2, SnapshotIs
    <3> QED
      BY <1>1, <2>2, <3>1 DEF Answered
  <2> QED
    BY <2>1, <2>2
<1>3. n' = n /\ Stage' /\ InTurn' /\ Loose' = Loose
  <2>1. \A p \in 1..n : ~Loose /\ Active(p) => ~res.finished
    BY <1>0 DEF InTurn
  <2> QED
    <3>1. \A p \in 1..n : ~Loose /\ Active(p) => phase' \in {"run", "await"} /\ ~res'.finished
      BY <1>1, <1>2, <2>1
    <3>2. \A p \in 1..n : ~Loose /\ mw[p].at = "waiting" =>
            phase' \in {"run", "await"} \/ (phase' = "answered" /\ ~answer'.awaited)
      BY <1>1, <1>2
    <3> QED
      BY <1>1, <3>1, <3>2, Steady
<1>4. Types'
  <2>1. CASE Snapshot
    <3>1. Answered(res)
      BY <1>0, <2>1, SnapshotIs
    <3> QED
      BY <1>0, <1>1, <1>3, <3>1 DEF Types, Answered
  <2>2. CASE phase' = "await" /\ UNCHANGED answer
    BY <1>0, <1>1, <1>3, <2>2 DEF Types
  <2> QED
    BY <1>2, <2>1, <2>2
<1>5. Phases' /\ HandlerUnfinished'
  BY <1>0, <1>1, <1>2, <1>3 DEF Phases, HandlerUnfinished
<1>6. Heard' => Heard /\ phase' # "answered"
  BY <1>1, <1>2, <1>3 DEF Heard
<1>7. Observed' /\ Cookied'
  BY <1>0, <1>1, <1>3, <1>6 DEF Observed, Cookied
<1> QED
  BY <1>3, <1>4, <1>5, <1>7 DEF IInv

(* What dispatch does when the runner's promise settles preserves it. *)
LEMMA RunnerSettlesInv ==
  ASSUME IInv, RunnerSettles, UNCHANGED mode
  PROVE  IInv'
<1>0. Types /\ Stage /\ Phases /\ InTurn /\ HandlerUnfinished /\ Observed /\ Cookied
  BY DEF IInv
<1>1. /\ phase = "await" /\ UNCHANGED <<mw, index, res, sess>> /\ ~err.handled /\ n > 0
      /\ mw[1].at \in {"done", "failed"}
  BY <1>0 DEF RunnerSettles, Phases
<1>2. \/ /\ mw[1].at = "failed" /\ phase' = "errors" /\ err' = [NoError EXCEPT !.status = mw[1].err] /\ UNCHANGED answer
      \/ /\ mw[1].at = "done" /\ res.finished /\ Snapshot /\ UNCHANGED err
      \/ /\ mw[1].at = "done" /\ ~res.finished /\ phase' = "handler" /\ UNCHANGED <<answer, err>>
  BY <1>1 DEF RunnerSettles
<1>3. n' = n /\ Stage' /\ InTurn' /\ Loose' = Loose
  <2>1. \A p \in 1..n : ~Loose => ~Active(p) /\ mw[p].at # "waiting"
    BY <1>1, AllSettled
  <2> QED
    BY <1>1, <2>1, Steady
<1>4. mw[1].err \in Stati
  <2>1. n \in Nat /\ \A p \in 1..n : mw[p] \in Middleware
    BY <1>0, Members
  <2>2. mw[1] \in Middleware
    BY <1>1, <2>1
  <2> QED
    BY <2>2 DEF Middleware
<1>5. Types'
  <2>1. CASE mw[1].at = "failed" /\ phase' = "errors" /\ err' = [NoError EXCEPT !.status = mw[1].err] /\ UNCHANGED answer
    <3>1. err' = [status |-> mw[1].err, fallback |-> 500, at |-> 1, handled |-> FALSE]
      BY <2>1 DEF NoError
    <3>2. err' \in [status : Stati, fallback : {404, 500}, at : Nat, handled : BOOLEAN]
      BY <1>4, <3>1
    <3> QED
      BY <1>0, <1>1, <1>3, <2>1, <3>2 DEF Types
  <2>2. CASE err' = err
    <3>1. CASE Snapshot
      <4>1. Answered(res)
        BY <1>0, <3>1, SnapshotIs
      <4> QED
        BY <1>0, <1>1, <1>3, <2>2, <4>1 DEF Types, Answered
    <3>2. CASE phase' \in {"errors", "handler"} /\ UNCHANGED answer
      BY <1>0, <1>1, <1>3, <2>2, <3>2 DEF Types
    <3> QED
      BY <1>2, <3>1, <3>2
  <2> QED
    BY <1>2, <2>1, <2>2
<1>6. Phases' /\ HandlerUnfinished'
  BY <1>0, <1>1, <1>2, <1>3 DEF Phases, HandlerUnfinished, Snapshot, Answers, NoError
<1>7. Heard' => Heard /\ mw[1].at # "failed"
  <2>1. n \in Nat
    BY <1>0, Members
  <2> QED
    BY <1>1, <1>2, <1>3, <2>1 DEF Heard
<1>8. Observed' /\ Cookied'
  BY <1>0, <1>1, <1>2, <1>3, <1>7 DEF Observed, Cookied, Snapshot, Answers
<1> QED
  BY <1>3, <1>5, <1>6, <1>8 DEF IInv

HandlerSteps == HandlerAwaits \/ HandlerReturns \/ HandlerWrites \/ HandlerThrows

(* The handler's steps preserve it. *)
LEMMA HandlerInv ==
  ASSUME IInv, HandlerSteps, UNCHANGED mode
  PROVE  IInv'
<1>0. Types /\ Stage /\ Phases /\ InTurn /\ HandlerUnfinished /\ Observed /\ Cookied
  BY DEF IInv
<1>n. n \in Nat
  BY <1>0, Members
<1>1. /\ phase \in {"handler", "handling"} /\ UNCHANGED <<mw, index>> /\ ~err.handled
      /\ n = 0 \/ mw[1].at = "done"
  BY <1>0 DEF HandlerSteps, HandlerAwaits, HandlerReturns, HandlerWrites, HandlerThrows, Phases
<1>s. ASSUME res.finished => res'.finished
      PROVE  n' = n /\ Stage' /\ InTurn' /\ Loose' = Loose
  <2>1. \A p \in 1..n : ~Loose => ~Active(p) /\ mw[p].at # "waiting"
    BY <1>1, AllSettled
  <2> QED
    BY <1>1, <1>s, <2>1, Steady
<1>2. CASE HandlerAwaits
  <2>1. n' = n /\ Stage' /\ InTurn' /\ Loose' = Loose
    BY <1>s, <1>2 DEF HandlerAwaits
  <2>2. phase' = "handling" /\ UNCHANGED <<res, sess, err, answer>>
    BY <1>2 DEF HandlerAwaits
  <2>3. Types'
    BY <1>0, <1>1, <2>1, <2>2 DEF Types
  <2>4. Phases' /\ HandlerUnfinished'
    BY <1>0, <1>1, <2>1, <2>2 DEF Phases, HandlerUnfinished
  <2>5. Heard' => Heard
    BY <1>1, <2>1, <2>2 DEF Heard
  <2>6. Observed' /\ Cookied'
    BY <1>0, <1>1, <2>1, <2>2, <2>5 DEF Observed, Cookied
  <2> QED
    BY <2>1, <2>3, <2>4, <2>6 DEF IInv
<1>3. CASE HandlerWrites
  <2>1. n' = n /\ Stage' /\ InTurn' /\ Loose' = Loose
    BY <1>s, <1>3 DEF HandlerWrites
  <2>2. UNCHANGED <<phase, res, err, answer>> /\ sess' = [sess EXCEPT !.late = TRUE]
    BY <1>3 DEF HandlerWrites
  <2>3. Types' /\ sess'.isNew = sess.isNew /\ sess'.written = sess.written
    <3>1. sess \in Sessions
      BY <1>0 DEF Types, Sessions
    <3>2. sess' \in Sessions /\ sess'.isNew = sess.isNew /\ sess'.written = sess.written
      BY <2>2, <3>1 DEF Sessions
    <3> QED
      BY <1>0, <1>1, <2>1, <2>2, <3>2 DEF Types, Sessions
  <2>4. Phases' /\ HandlerUnfinished'
    BY <1>0, <1>1, <2>1, <2>2 DEF Phases, HandlerUnfinished
  <2>5. Heard' => Heard
    BY <1>1, <2>1, <2>2 DEF Heard
  <2>6. Observed' /\ Cookied'
    BY <1>0, <1>1, <2>1, <2>2, <2>3, <2>5 DEF Observed, Cookied
  <2> QED
    BY <2>1, <2>3, <2>4, <2>6 DEF IInv
<1>4. CASE HandlerThrows
  <2>1. n' = n /\ Stage' /\ InTurn' /\ Loose' = Loose
    BY <1>s, <1>4 DEF HandlerThrows
  <2>2. PICK t \in Thrown : err' = [NoError EXCEPT !.status = t, !.handled = TRUE]
    BY <1>4 DEF HandlerThrows
  <2>3. err' = [status |-> t, fallback |-> 500, at |-> 1, handled |-> TRUE] /\ t \in Stati
    <3>1. t \in Stati
      BY DEF Thrown, Stati
    <3> QED
      BY <2>2, <3>1 DEF NoError
  <2>4. phase' = "errors" /\ UNCHANGED <<res, sess, answer>>
    BY <1>4 DEF HandlerThrows
  <2>5. err' \in [status : Stati, fallback : {404, 500}, at : Nat, handled : BOOLEAN] /\ err'.handled
    BY <2>3
  <2>6. Types'
    BY <1>0, <1>1, <2>1, <2>4, <2>5 DEF Types
  <2>7. Phases' /\ HandlerUnfinished'
    BY <1>0, <1>1, <2>1, <2>4, <2>5 DEF Phases, HandlerUnfinished
  <2>8. Heard' => Heard
    BY <1>1, <2>1, <2>4 DEF Heard
  <2>9. Observed' /\ Cookied'
    BY <1>0, <1>1, <2>1, <2>4, <2>8 DEF Observed, Cookied
  <2> QED
    BY <2>1, <2>6, <2>7, <2>9 DEF IInv
<1>5. CASE HandlerReturns
  <2>1. PICK r \in {res, Answered_(res, 201, n + 1)} : res' = r /\ Answers(r, FALSE)
    BY <1>5 DEF HandlerReturns
  <2>2. 201 \in Stati \ {0} /\ n + 1 \in 1..(n + 2) /\ res \in Responses
    BY <1>0, <1>n DEF Stati, Types, Responses
  <2>3. Answering(Answered_(res, 201, n + 1), res, 201, n + 1)
    BY <2>2, AnsweredIs
  <2>4. /\ res' \in Responses /\ (res.finished => res'.finished) /\ res'.cookie = res.cookie
        /\ res'.by = res.by \/ (res'.by = n + 1 /\ res'.finished)
    BY <2>1, <2>2, <2>3 DEF Answering
  <2>5. Answered(res')
    <3>1. res'.status \in Stati \ {0} /\ res'.cookie \in Cookies
      BY <2>4 DEF Responses
    <3> QED
      BY <2>1, <3>1, AnswersIs
  <2>6. n' = n /\ Stage' /\ InTurn' /\ Loose' = Loose
    BY <1>s, <2>4
  <2>7. UNCHANGED <<sess, err>>
    BY <1>5 DEF HandlerReturns
  <2>8. Types'
    BY <1>0, <1>1, <2>4, <2>5, <2>6, <2>7 DEF Types, Responses, Answered
  <2>9. Phases' /\ HandlerUnfinished'
    BY <1>0, <1>1, <2>5, <2>6, <2>7 DEF Phases, HandlerUnfinished, Answered
  <2>10. Heard' => Heard
    BY <1>1, <2>6 DEF Heard
  <2>11. Heard => res.by = 0
    BY <1>0, <1>1 DEF Heard, HandlerUnfinished, Observed
  <2>12. Heard' => res'.by \notin 1..n
    BY <1>n, <2>4, <2>10, <2>11
  <2>13. res'.by # 0 => res'.finished
    BY <1>0, <2>4 DEF Observed
  <2>14. Observed'
    BY <2>6, <2>12, <2>13 DEF Observed
  <2>15. Cookied'
    BY <1>0, <1>1, <2>4, <2>5, <2>6, <2>7, <2>10 DEF Cookied, Answered
  <2> QED
    BY <2>6, <2>8, <2>9, <2>14, <2>15 DEF IInv
<1> QED
  BY <1>2, <1>3, <1>4, <1>5 DEF HandlerSteps

(* The error handlers and the default answer behind them preserve it. *)
LEMMA ErrorInv ==
  ASSUME IInv, ErrorHandler \/ ErrorAnswered, UNCHANGED mode
  PROVE  IInv'
<1>0. Types /\ Stage /\ Phases /\ InTurn /\ HandlerUnfinished /\ Observed /\ Cookied
  BY DEF IInv
<1>n. n \in Nat
  BY <1>0, Members
<1>1. phase = "errors" /\ UNCHANGED <<mw, index, sess>>
  BY DEF ErrorHandler, ErrorAnswered
<1>2. ASSUME res.finished => res'.finished
      PROVE  n' = n /\ Stage' /\ InTurn' /\ Loose' = Loose
  <2>1. \A p \in 1..n : ~Loose => ~Active(p) /\ mw[p].at # "waiting"
    BY <1>1, AllSettled
  <2> QED
    BY <1>1, <1>2, <2>1, Steady
<1>3. \/ n = 0 \/ mw[1].at \in {"idle", "done"}
      \/ mw[1].at = "failed" /\ n > 0
  <2>1. CASE err.handled
    BY <1>0, <2>1 DEF Phases
  <2>2. CASE ~err.handled
    BY <1>0, <1>1, <1>n, <2>2 DEF Phases
  <2> QED
    BY <2>1, <2>2
<1>4. CASE err' = [err EXCEPT !.at = @ + 1] /\ UNCHANGED <<phase, res, answer>>
  <2>1. n' = n /\ Stage' /\ InTurn' /\ Loose' = Loose
    BY <1>2, <1>4
  <2>2. err' \in [status : Stati, fallback : {404, 500}, at : Nat, handled : BOOLEAN] /\ err'.handled = err.handled
    BY <1>0, <1>4 DEF Types
  <2>3. Types'
    BY <1>0, <1>1, <1>4, <2>1, <2>2 DEF Types
  <2>4. Phases' /\ HandlerUnfinished'
    BY <1>0, <1>1, <1>4, <2>1, <2>2 DEF Phases, HandlerUnfinished
  <2>5. Heard' => Heard
    BY <1>1, <1>4, <2>1 DEF Heard
  <2>6. Observed' /\ Cookied'
    BY <1>0, <1>1, <1>4, <2>1, <2>2, <2>5 DEF Observed, Cookied
  <2> QED
    BY <2>1, <2>3, <2>4, <2>6 DEF IInv
<1>5. ASSUME NEW a, Answered(a), res' \in Responses, res.finished => res'.finished, UNCHANGED err,
             res'.cookie = res.cookie,
             res'.by = res.by \/ (res'.by = n + 2 /\ res'.finished),
             res.finished => a.status = res'.status /\ res'.status = res.status,
             res.finished \/ res'.finished \/ a.status >= 400 \/ answer'.custom
      PROVE  IInv'
  <2>1. n' = n /\ Stage' /\ InTurn' /\ Loose' = Loose
    BY <1>2, <1>5
  <2>2. Types'
    BY <1>0, <1>1, <1>5, <2>1 DEF Types, Responses, Answered
  <2>3. Phases' /\ HandlerUnfinished'
    BY <1>0, <1>1, <1>3, <1>5, <2>1 DEF Phases, HandlerUnfinished, Answered
  <2>4. Heard' => Heard
    BY <1>1, <2>1 DEF Heard
  <2>5. Observed'
    <3>1. res.by # 0 => res.finished
      BY <1>0 DEF Observed
    <3>2. res'.by \in 1..n => res'.by = res.by /\ res.finished /\ a.status = res'.status
      BY <1>n, <1>5, <3>1
    <3>3. res'.by # 0 => res'.finished
      BY <1>5, <3>1
    <3> SUFFICES ASSUME Heard', \A p \in 1..n : mw[p].next # "rejected", res'.by \in 1..n
                 PROVE  /\ \A p \in 1..(res'.by - 1) :
                              /\ mw[p].at \in {"waiting", "done"}
                              /\ mw[p].at = "done" /\ mw[p].as \in {"logger", "audit", "otel"} => mw[p].seen = <<res'.status>>
                        /\ answer'.status = res'.status
      BY <1>1, <2>1, <3>3 DEF Observed
    <3>4. Heard /\ res'.by = res.by /\ res.finished /\ a.status = res'.status
      BY <2>4, <3>2
    <3>5. res'.status = res.status
      BY <1>5, <3>4
    <3>6. \A p \in 1..(res.by - 1) :
             /\ mw[p].at \in {"waiting", "done"}
             /\ mw[p].at = "done" /\ mw[p].as \in {"logger", "audit", "otel"} => mw[p].seen = <<res.status>>
      <4>1. res.by \in 1..n
        BY <3>4
      <4> QED
        BY <1>0, <3>4, <4>1, Zenon DEF Observed
    <3> QED
      BY <1>5, <3>4, <3>5, <3>6 DEF Answered
  <2>6. Cookied'
    <3> SUFFICES ASSUME Heard', sess.isNew, sess.written, NEW p \in 1..n, mw[p].as = "redis", mw[p].at = "done"
                 PROVE  res'.cookie = "session" /\ err'.handled
      BY <1>1, <2>1 DEF Cookied
    <3>1. Heard /\ res.cookie = "session"
      BY <1>0, <2>4 DEF Cookied
    <3>2. err.handled
      <4>1. n > 0 /\ 1 \in 1..n
        BY <1>n
      <4>2. mw[1].at # "failed" /\ mw[p].at # "idle"
        BY <3>1, <4>1 DEF Heard
      <4> QED
        BY <1>0, <1>1, <4>1, <4>2 DEF Phases
    <3> QED
      BY <1>5, <3>1, <3>2
  <2> QED
    BY <2>1, <2>2, <2>3, <2>5, <2>6 DEF IInv
<1>6. CASE res.finished /\ Snapshot /\ UNCHANGED <<res, err>>
  <2>1. Answered(res) /\ res' \in Responses
    BY <1>0, <1>6, SnapshotIs DEF Types, Responses
  <2> QED
    BY <1>5, <1>6, <2>1
<1>7. ASSUME NEW t \in Stati, NEW f \in {404, 500}, NEW a, a = buildDefaultErrorSnapshot(t, f),
             phase' = "answered",
             answer' = [status |-> a.status, cookie |-> a.cookie, awaited |-> phase # "run", custom |-> FALSE],
             ~res.finished, res' = res, err' = err
      PROVE  IInv'
  <2>1. a.status \in Stati \ {0} /\ a.cookie \in Cookies /\ a.status >= 400
    BY <1>7, DefaultStatus DEF Cookies, Stati
  <2>2. Answered(a)
    BY <1>7, <2>1 DEF Answered
  <2>3. res' \in Responses
    BY <1>0, <1>7 DEF Types, Responses
  <2> QED
    BY <1>5, <1>7, <2>1, <2>2, <2>3
<1>8. CASE /\ res' = Answered_(res, 200, n + 2) /\ ~res.finished
           /\ Answers([status |-> 200, cookie |-> res.cookie], TRUE) /\ UNCHANGED err
  <2> DEFINE a == [status |-> 200, cookie |-> res.cookie]
  <2>1. res \in Responses /\ 200 \in Stati \ {0} /\ n + 2 \in 1..(n + 2) /\ res.cookie \in Cookies
    BY <1>0, <1>n DEF Types, Responses, Stati
  <2>2. Answering(res', res, 200, n + 2)
    BY <1>8, <2>1, AnsweredIs
  <2>3. a.status \in Stati \ {0} /\ a.cookie \in Cookies /\ Answers(a, TRUE)
    BY <1>8, <2>1
  <2> HIDE DEF a
  <2>4. Answered(a) /\ answer'.custom
    BY <2>3, AnswersIs
  <2>5. /\ res' \in Responses /\ res'.finished /\ res'.cookie = res.cookie
        /\ res'.by = res.by \/ res'.by = n + 2
    BY <2>2 DEF Answering
  <2> QED
    BY <1>5, <1>8, <2>4, <2>5
<1>9. CASE ErrorHandler
  <2>1. ~res.finished
    BY <1>9 DEF ErrorHandler
  <2>2. \/ err' = [err EXCEPT !.at = @ + 1] /\ UNCHANGED <<phase, res, answer>>
        \/ /\ res' = Answered_(res, 200, n + 2)
           /\ Answers([status |-> 200, cookie |-> res.cookie], TRUE) /\ UNCHANGED err
        \/ (\E t \in Thrown : Answers(buildDefaultErrorSnapshot(t, 500), FALSE)) /\ UNCHANGED <<err, res>>
    BY <1>9, Zenon DEF ErrorHandler
  <2>3. CASE (\E t \in Thrown : Answers(buildDefaultErrorSnapshot(t, 500), FALSE)) /\ UNCHANGED <<err, res>>
    <3>1. PICK t \in Thrown : Answers(buildDefaultErrorSnapshot(t, 500), FALSE)
      BY <2>3
    <3>2. t \in Stati /\ 500 \in {404, 500}
      BY DEF Thrown, Stati
    <3> DEFINE a == buildDefaultErrorSnapshot(t, 500)
    <3>3. /\ phase' = "answered"
          /\ answer' = [status |-> a.status, cookie |-> a.cookie, awaited |-> phase # "run", custom |-> FALSE]
      BY <3>1 DEF Answers
    <3>4. a = buildDefaultErrorSnapshot(t, 500)
      OBVIOUS
    <3> HIDE DEF a
    <3> QED
      BY <1>7, <2>1, <2>3, <3>2, <3>3, <3>4
  <2> QED
    BY <1>4, <1>8, <2>1, <2>2, <2>3, Zenon
<1>10. CASE ErrorAnswered
  <2>1. UNCHANGED <<res, err>>
    BY <1>10 DEF ErrorAnswered
  <2>2. err.status \in Stati /\ err.fallback \in {404, 500}
    BY <1>0 DEF Types
  <2>3. \/ res.finished /\ Snapshot
        \/ ~res.finished /\ Answers(buildDefaultErrorSnapshot(err.status, err.fallback), FALSE)
    BY <1>10, Zenon DEF ErrorAnswered
  <2>4. CASE ~res.finished /\ Answers(buildDefaultErrorSnapshot(err.status, err.fallback), FALSE)
    <3> DEFINE a == buildDefaultErrorSnapshot(err.status, err.fallback)
    <3>1. /\ phase' = "answered"
          /\ answer' = [status |-> a.status, cookie |-> a.cookie, awaited |-> phase # "run", custom |-> FALSE]
      BY <2>4 DEF Answers
    <3>2. a = buildDefaultErrorSnapshot(err.status, err.fallback)
      OBVIOUS
    <3> HIDE DEF a
    <3> QED
      BY <1>7, <2>1, <2>2, <2>4, <3>1, <3>2
  <2> QED
    BY <1>6, <2>1, <2>3, <2>4
<1> QED
  BY <1>9, <1>10

(* It holds before the request arrives. *)
LEMMA InitInv == Init => IInv
<1> SUFFICES ASSUME Init PROVE IInv
  OBVIOUS
<1>1. PICK m \in Nat : NoServe(m)
  <2>1. 0 \in Nat /\ \A m \in 0..MaxChain : m \in Nat
    BY PipelineAssumption
  <2> QED
    BY <2>1 DEF Init
<1>2. /\ mw = [p \in 1..m |-> Idle] /\ index = 0
      /\ res = NewResponse /\ err = NoError /\ answer = NoAnswer
  BY <1>1 DEF NoServe
<1>3. mode \in {"register", "guard", "serve"} /\ phase \in {"none", "arrived"}
  BY DEF Init
<1>4. sess \in Sessions
  <2>1. PICK new \in BOOLEAN : sess = NoSession(new)
    BY DEF Init, resolveSessionId
  <2> QED
    BY <2>1 DEF NoSession, Sessions
<1>5. Idle \in Middleware
  BY DEF Idle, Middleware, Roles, Stati, Notes
<1>6. n = m /\ mw \in Seq(Middleware) /\ \A p \in 1..n : mw[p] = Idle
  BY <1>2, <1>5 DEF n
<1>7. res \in Responses /\ ~res.finished /\ res.by = 0
  BY <1>1, <1>2, <1>6 DEF NewResponse, Responses, Stati, Cookies
<1>8. err \in [status : Stati, fallback : {404, 500}, at : Nat, handled : BOOLEAN] /\ ~err.handled
  BY <1>2 DEF NoError, Stati
<1>9. answer \in [status : Stati, cookie : Cookies, awaited : BOOLEAN, custom : BOOLEAN]
  BY <1>2 DEF NoAnswer, Stati, Cookies
<1>10. Types
  BY <1>1, <1>2, <1>3, <1>4, <1>6, <1>7, <1>8, <1>9 DEF Types, Responses, Sessions
<1>11. Stage
  BY <1>2, <1>6 DEF Stage, Idle, Active
<1>12. Phases /\ HandlerUnfinished
  BY <1>2, <1>3, <1>7, <1>8 DEF Phases, HandlerUnfinished
<1>13. InTurn
  BY <1>6 DEF InTurn, Idle, Active
<1>14. Observed /\ Cookied
  BY <1>6, <1>7 DEF Observed, Cookied, Idle
<1> QED
  BY <1>10, <1>11, <1>12, <1>13, <1>14 DEF IInv

(* It depends on the variables of a request in progress only. *)
LEMMA StutterInv ==
  ASSUME IInv, UNCHANGED <<mode, phase, mw, index, res, sess, err, answer>>
  PROVE  IInv'
<1>1. n' = n
  BY DEF n
<1>2. Types' /\ Stage' /\ Phases'
  BY <1>1 DEF IInv, Types, Stage, Phases, Active
<1>3. Loose' = Loose /\ \A p \in 1..n : Hears(p)' = Hears(p) /\ Active(p)' = Active(p)
  BY <1>1 DEF Loose, Hears, Active
<1>4. InTurn' /\ HandlerUnfinished'
  BY <1>1, <1>3 DEF IInv, InTurn, HandlerUnfinished
<1>5. Heard' = Heard
  BY <1>1, <1>3 DEF Heard
<1>6. Observed' /\ Cookied'
  BY <1>1, <1>5 DEF IInv, Observed, Cookied
<1> QED
  BY <1>2, <1>4, <1>6 DEF IInv

(* Every step preserves it: one case per action. *)
LEMMA StepInv == IInv /\ [Next]_vars => IInv'
<1> SUFFICES ASSUME IInv, [Next]_vars PROVE IInv'
  OBVIOUS
<1>1. CASE UNCHANGED <<mode, phase, mw, index, res, sess, err, answer>>
  BY <1>1, StutterInv
<1>2. CASE ServeNext /\ UNCHANGED mode
  <2>1. \/ Arrive \/ SectionEnds \/ RunnerSettles
        \/ \E p \in 1..n : \E k \in Kinds : Park(p, k)
        \/ \E p \in 1..n : \E k \in Kinds : Decide(p, k)
        \/ \E p \in 1..n : Resume(p)
        \/ HandlerSteps \/ ErrorHandler \/ ErrorAnswered
    BY <1>2 DEF ServeNext, HandlerSteps
  <2>2. UNCHANGED mode
    BY <1>2
  <2>3. ASSUME NEW p \in 1..n, NEW k \in Kinds, Park(p, k) PROVE IInv'
    BY <2>2, <2>3, ParkInv
  <2>4. ASSUME NEW p \in 1..n, NEW k \in Kinds, Decide(p, k) PROVE IInv'
    BY <2>2, <2>4, DecideInv
  <2>5. ASSUME NEW p \in 1..n, Resume(p) PROVE IInv'
    BY <2>2, <2>5, ResumeInv
  <2>6. Arrive \/ SectionEnds \/ RunnerSettles \/ HandlerSteps \/ ErrorHandler \/ ErrorAnswered => IInv'
    BY <2>2, ArriveInv, SectionEndsInv, RunnerSettlesInv, HandlerInv, ErrorInv
  <2> QED
    BY <2>1, <2>3, <2>4, <2>5, <2>6
<1> QED
  BY <1>1, <1>2 DEF Next, vars, serveVars

(* IInv is an invariant of the specification. *)
LEMMA Inductive == Spec => []IInv
<1>1. Init => IInv
  BY InitInv
<1>2. IInv /\ [Next]_vars => IInv'
  BY StepInv
<1> QED
  BY <1>1, <1>2, PTL DEF Spec

-----------------------------------------------------------------------------

(* The theorems *)

(* The invariant says what AnswerTold says of a dispatch that waited. *)
LEMMA Told == IInv => AnswerTold
<1> SUFFICES ASSUME IInv PROVE AnswerTold
  OBVIOUS
<1>0. Types /\ Stage /\ Phases /\ InTurn /\ HandlerUnfinished /\ Observed /\ Cookied
  BY DEF IInv
<1>n. n \in Nat /\ mw \in Seq(Middleware) /\ Len(mw) = n /\ \A p \in 1..n : mw[p] \in Middleware
  BY <1>0, Members
<1>1. TypeOK
  <2>1. \A p \in 1..n : /\ mw[p].at \in {"idle", "running", "parked", "waiting", "done", "failed"}
                       /\ mw[p].next \in {"none", "chain", "resolved", "rejected"}
                       /\ mw[p].err \in Stati /\ mw[p].seen \in Notes
    BY <1>n DEF Middleware
  <2>2. ASSUME NEW t \in Notes PROVE Len(t) <= 1
    <3>1. t = <<>> \/ \E c \in Stati : t = <<c>>
      BY DEF Notes
    <3>2. CASE t = <<>>
      BY <3>2
    <3>3. ASSUME NEW c \in Stati, t = <<c>> PROVE Len(t) <= 1
      BY <3>3
    <3> QED
      BY <3>1, <3>2, <3>3
  <2> QED
    BY <1>0, <2>1, <2>2 DEF TypeOK, Types
<1>2. FailureReported
  BY <1>0, <1>n DEF FailureReported, Phases
<1>3. ObserverTruth
  <2> SUFFICES ASSUME phase = "answered", answer.awaited, res.by \in 1..n, ~Loose,
                      \A p \in 1..n : mw[p].at # "failed",
                      NEW p \in 1..(res.by - 1), mw[p].as \in {"logger", "audit", "otel"}
               PROVE  mw[p].seen = <<answer.status>>
    BY DEF ObserverTruth
  <2>1. Heard
    BY DEF Heard
  <2>2. \A q \in 1..n : mw[q].at # "waiting"
    BY <1>0 DEF InTurn
  <2>3. \A q \in 1..n : mw[q].next # "rejected"
    BY <1>0, <2>2 DEF InTurn
  <2>4. /\ mw[p].at \in {"waiting", "done"}
        /\ mw[p].at = "done" /\ mw[p].as \in {"logger", "audit", "otel"} => mw[p].seen = <<res.status>>
        /\ answer.status = res.status
    BY <1>0, <2>1, <2>3, Zenon DEF Observed
  <2>5. p \in 1..n
    BY <1>n
  <2> QED
    BY <2>2, <2>4, <2>5
<1> QED
  BY <1>1, <1>2, <1>3 DEF AnswerTold

(* Observers record the status that was sent, and failures are answered as      *)
(* failures, when dispatch waited for the runner (index.js:607-666).            *)
THEOREM AnswersTold == Spec => []AnswerTold
BY Inductive, Told, PTL

(* A new session that a middleware wrote gets its cookie with the answer (flushSession). *)
THEOREM SessionCookies == Spec => []SessionCookie
<1>1. IInv => SessionCookie
  <2> SUFFICES ASSUME IInv, phase = "answered", answer.awaited, ~err.handled, ~Loose,
                      \A p \in 1..n : mw[p].at # "failed", sess.isNew, sess.written,
                      \E p \in 1..n : mw[p].as = "redis" /\ mw[p].at = "done"
               PROVE  answer.cookie = "session"
    BY DEF SessionCookie
  <2>1. Heard /\ Cookied
    BY DEF Heard, IInv
  <2> QED
    BY <2>1 DEF Cookied
<1> QED
  BY <1>1, Inductive, PTL

(* A step starts only what was idle, and nothing behind a finished response. *)
LEMMA StartsOnce ==
  ASSUME IInv, [Next]_vars
  PROVE  /\ \A p \in 1..n : mw'[p].at = "running" => mw[p].at \in {"idle", "running"}
         /\ res.finished => /\ phase' = "handler" => phase = "handler"
                            /\ \A p \in 1..n : mw'[p].at = "running" => mw[p].at = "running"
<1>0. Types /\ Stage /\ Phases /\ InTurn /\ HandlerUnfinished /\ Observed /\ Cookied
  BY DEF IInv
<1>n. n \in Nat
  BY <1>0, Members
<1> DEFINE Goal == /\ \A p \in 1..n : mw'[p].at = "running" => mw[p].at \in {"idle", "running"}
                   /\ res.finished => /\ phase' = "handler" => phase = "handler"
                                      /\ \A p \in 1..n : mw'[p].at = "running" => mw[p].at = "running"
<1> SUFFICES Goal
  OBVIOUS
<1>1. CASE mw' = mw /\ (phase' = phase \/ phase' # "handler" \/ ~res.finished)
  BY <1>1
<1>2. CASE ServeNext /\ UNCHANGED mode
  <2>1. CASE Arrive
    <3>1. ~res.finished /\ \A p \in 1..n : mw[p].at = "idle"
      BY <1>0, <1>n, <2>1 DEF Arrive, Phases, Stage
    <3> QED
      BY <3>1
  <2>2. CASE SectionEnds \/ RunnerSettles
    BY <1>1, <2>2 DEF SectionEnds, RunnerSettles, Snapshot, Answers
  <2>3. ASSUME NEW p \in 1..n, NEW k \in Kinds, Park(p, k) PROVE Goal
    <3>1. mw[p].at = "running" /\ phase' = phase /\ Untouched(p)
      BY <1>2, <2>3, ParkInv DEF Park
    <3> QED
      BY <3>1 DEF Untouched
  <2>4. ASSUME NEW p \in 1..n, NEW k \in Kinds, Decide(p, k) PROVE Goal
    <3>1. /\ (res.finished => res'.finished) /\ mw'[p].at # "running"
          /\ mw'[p].next = "chain" => mw[p + 1] = Idle /\ ~res'.finished
          /\ \A q \in 1..n : q # p /\ (q = p + 1 => mw'[p].next # "chain") => mw'[q] = mw[q]
      BY <1>0, <2>4, DecideStarts
    <3>2. phase' = phase
      BY <2>4 DEF Decide
    <3>3. \A q \in 1..n : mw'[q].at = "running" => mw[q].at = "running" \/ (mw[q].at = "idle" /\ ~res.finished)
      <4> SUFFICES ASSUME NEW q \in 1..n, mw'[q].at = "running"
                   PROVE  mw[q].at = "running" \/ (mw[q].at = "idle" /\ ~res.finished)
        OBVIOUS
      <4>1. CASE q = p + 1 /\ mw'[p].next = "chain"
        BY <3>1, <4>1 DEF Idle
      <4>2. CASE ~(q = p + 1 /\ mw'[p].next = "chain")
        BY <3>1, <4>2
      <4> QED
        BY <4>1, <4>2
    <3> QED
      BY <3>2, <3>3
  <2>5. ASSUME NEW p \in 1..n, Resume(p) PROVE Goal
    <3>1. mw'[p].at # "running" /\ phase' = phase /\ Untouched(p)
      BY <1>0, <2>5, ResumeShape DEF ResumeEnds, ResumeTwice
    <3> QED
      BY <3>1 DEF Untouched
  <2>6. CASE HandlerSteps
    BY <1>1, <2>6 DEF HandlerSteps, HandlerAwaits, HandlerReturns, HandlerWrites, HandlerThrows, Answers
  <2>7. CASE ErrorHandler \/ ErrorAnswered
    <3>1. mw' = mw /\ (phase' = phase \/ phase' = "answered")
      BY <2>7 DEF ErrorHandler, ErrorAnswered, Answers, Snapshot
    <3> QED
      BY <1>1, <3>1
  <2>8. \/ Arrive \/ SectionEnds \/ RunnerSettles
        \/ \E p \in 1..n : \E k \in Kinds : Park(p, k)
        \/ \E p \in 1..n : \E k \in Kinds : Decide(p, k)
        \/ \E p \in 1..n : Resume(p)
        \/ HandlerSteps \/ ErrorHandler \/ ErrorAnswered
    BY <1>2 DEF ServeNext, HandlerSteps
  <2> HIDE DEF Goal
  <2> QED
    BY <2>1, <2>2, <2>3, <2>4, <2>5, <2>6, <2>7, <2>8
<1>3. CASE UNCHANGED serveVars
  BY <1>1, <1>3 DEF serveVars
<1> QED
  BY <1>2, <1>3 DEF Next, vars

(* dispatch(position) starts nobody twice, and neither a middleware nor the      *)
(* handler behind a finished response (index.js:579-588).                       *)
THEOREM NobodyStartedTwice == Spec => StartedOnce
<1>1. IInv /\ [Next]_vars =>
        [\A p \in 1..n : mw'[p].at = "running" => mw[p].at \in {"idle", "running"}]_vars
  BY StartsOnce
<1>2. IInv /\ [Next]_vars =>
        [res.finished => /\ phase' = "handler" => phase = "handler"
                         /\ \A p \in 1..n : mw'[p].at = "running" => mw[p].at = "running"]_vars
  BY StartsOnce
<1>3. Spec => RunOnce
  BY <1>1, Inductive, PTL DEF Spec, RunOnce
<1>4. Spec => FinishedStops
  BY <1>2, Inductive, PTL DEF Spec, FinishedStops
<1> QED
  BY <1>3, <1>4 DEF StartedOnce

-----------------------------------------------------------------------------

(* The promise of module Chain *)

Admitted == {p \in 1..n : mw[p].next # "none" /\ mw[p].as # "both"}

ChainOutcome ==
    IF mode # "serve" THEN "none"
    ELSE IF phase = "answered" \/ res.finished THEN "answered"
    ELSE IF phase \in {"handler", "handling"} \/ err.handled THEN "handling"
    ELSE "pending"

(* How many have let the request on is a number of middlewares. *)
LEMMA AdmittedCount ==
  ASSUME n \in Nat
  PROVE  /\ IsFiniteSet(Admitted) /\ Cardinality(Admitted) \in 0..n
         /\ Admitted # 1..n => Cardinality(Admitted) < n
<1>1. IsFiniteSet(1..n) /\ Cardinality(1..n) = n
  BY FS_Interval
<1>2. Admitted \in SUBSET (1..n)
  BY DEF Admitted
<1>3. /\ IsFiniteSet(Admitted) /\ Cardinality(Admitted) <= n
      /\ Cardinality(Admitted) = n => Admitted = 1..n
  BY <1>1, <1>2, FS_Subset
<1>4. Cardinality(Admitted) \in Nat
  BY <1>3, FS_CardinalityType
<1> QED
  BY <1>3, <1>4

(* Nobody more has let the request on. *)
LEMMA SameAdmitted ==
  ASSUME n' = n,
         \A p \in 1..n : (mw'[p].next # "none" /\ mw'[p].as # "both")
                             <=> (mw[p].next # "none" /\ mw[p].as # "both")
  PROVE  Cardinality(Admitted)' = Cardinality(Admitted)
<1>1. Admitted' = Admitted
  BY DEF Admitted
<1> QED
  BY <1>1

(* One middleware more has let the request on. *)
LEMMA MoreAdmitted ==
  ASSUME n \in Nat, n' = n, NEW p \in 1..n,
         mw[p].next = "none", mw'[p].next # "none", mw'[p].as # "both",
         \A q \in 1..n : q # p => ((mw'[q].next # "none" /\ mw'[q].as # "both")
                                      <=> (mw[q].next # "none" /\ mw[q].as # "both"))
  PROVE  Cardinality(Admitted) < n /\ Cardinality(Admitted)' = Cardinality(Admitted) + 1
<1>1. p \notin Admitted /\ Admitted' = Admitted \cup {p} /\ Admitted # 1..n
  BY DEF Admitted
<1>2. IsFiniteSet(Admitted) /\ Cardinality(Admitted) < n
  BY <1>1, AdmittedCount
<1>3. Cardinality(Admitted \cup {p}) = Cardinality(Admitted) + 1
  BY <1>1, <1>2, FS_AddElement
<1> QED
  BY <1>1, <1>2, <1>3

(* The steps of Chain, in the terms of the chain.                              *)
PromiseStays ==
    n' = n /\ Cardinality(Admitted)' = Cardinality(Admitted) /\ Loose' = Loose /\ ChainOutcome' = ChainOutcome

PromiseAnswers ==
    /\ ChainOutcome \in {"pending", "handling"} /\ ChainOutcome' = "answered"
    /\ n' = n /\ Cardinality(Admitted)' = Cardinality(Admitted) /\ Loose' = Loose

PromiseHandles ==
    /\ ChainOutcome = "pending" /\ ChainOutcome' = "handling" /\ (Cardinality(Admitted) = n \/ Loose)
    /\ n' = n /\ Cardinality(Admitted)' = Cardinality(Admitted) /\ Loose' = Loose

PromiseLetsGo ==
    /\ ChainOutcome = "pending" /\ ChainOutcome' = ChainOutcome /\ Loose' = TRUE
    /\ n' = n /\ Cardinality(Admitted)' = Cardinality(Admitted)

PromiseAdmits ==
    /\ ChainOutcome = "pending" \/ (Loose /\ ChainOutcome # "none")
    /\ Cardinality(Admitted) < n /\ Cardinality(Admitted)' = Cardinality(Admitted) + 1
    /\ Loose' = Loose \/ Loose' = TRUE
    /\ n' = n /\ ChainOutcome' = ChainOutcome

PromiseSteps == PromiseStays \/ PromiseAnswers \/ PromiseHandles \/ PromiseLetsGo \/ PromiseAdmits

(* Each of the forms below is a step of Chain, or none. *)
LEMMA PromiseIs ==
  ASSUME PromiseSteps
  PROVE  [Promise!Next]_(Promise!chain)
<1>1. CASE PromiseStays
  BY <1>1 DEF PromiseStays, Admitted, ChainOutcome, Promise!chain
<1>2. CASE PromiseAnswers
  BY <1>2 DEF PromiseAnswers, Admitted, ChainOutcome, Promise!Next, Promise!Answer
<1>3. CASE PromiseHandles
  BY <1>3 DEF PromiseHandles, Admitted, ChainOutcome, Promise!Next, Promise!Handle
<1>4. CASE PromiseLetsGo
  BY <1>4 DEF PromiseLetsGo, Admitted, ChainOutcome, Promise!Next, Promise!LetGo
<1>5. CASE PromiseAdmits
  BY <1>5 DEF PromiseAdmits, Admitted, ChainOutcome, Promise!Next, Promise!Admit
<1> QED
  BY <1>1, <1>2, <1>3, <1>4, <1>5 DEF PromiseSteps

(* A request that has not arrived is a chain before its first step. *)
LEMMA PromiseInit == Init => Promise!Init
<1> SUFFICES ASSUME Init PROVE Promise!Init
  OBVIOUS
<1>1. IInv
  BY InitInv
<1>2. n \in Nat
  BY <1>1, Members DEF IInv
<1>3. \A p \in 1..n : mw[p] = Idle
  <2>1. index = 0
    BY DEF Init, NoServe
  <2> QED
    BY <1>1, <1>2, <2>1 DEF IInv, Stage
<1>4. Admitted = {} /\ Loose = FALSE
  BY <1>3 DEF Admitted, Loose, Idle
<1>5. Cardinality(Admitted) = 0
  BY <1>4, FS_EmptySet
<1>6. ChainOutcome \in {"none", "pending"}
  <2>1. phase \in {"none", "arrived"} /\ ~res.finished /\ ~err.handled
    BY <1>1 DEF Init, IInv, Phases
  <2> QED
    BY <2>1 DEF ChainOutcome
<1> QED
  BY <1>2, <1>4, <1>5, <1>6 DEF Promise!Init, Admitted, ChainOutcome

(* A decision admits the request, answers it, lets go of it, or changes nothing of the promise. *)
LEMMA DecidePromise ==
  ASSUME IInv, NEW p \in 1..n, NEW k \in Kinds, Decide(p, k), UNCHANGED mode, mode = "serve"
  PROVE  PromiseSteps
<1>0. Types /\ Stage /\ Phases /\ InTurn
  BY DEF IInv
<1>n. n \in Nat
  BY <1>0, Members
<1>1. /\ Active(p) /\ mw[p].next = "none" /\ n' = n /\ (res.finished => res'.finished)
      /\ mw[p].as \notin {"detached", "silent", "both", "redis"}
      /\ mw'[p].next = "chain" => mw[p + 1] = Idle /\ mw'[p + 1] = [Idle EXCEPT !.at = "running"]
      /\ \A q \in 1..n : q # p /\ (q = p + 1 => mw'[p].next # "chain") => mw'[q] = mw[q]
  BY <1>0, DecideStarts
<1>2. \A q \in 1..n : q # p => mw'[q].next = mw[q].next /\ mw'[q].as = mw[q].as
  <2> SUFFICES ASSUME NEW q \in 1..n, q # p PROVE mw'[q].next = mw[q].next /\ mw'[q].as = mw[q].as
    OBVIOUS
  <2>1. CASE q = p + 1 /\ mw'[p].next = "chain"
    BY <1>1, <2>1 DEF Idle
  <2>2. CASE ~(q = p + 1 /\ mw'[p].next = "chain")
    BY <1>1, <2>2
  <2> QED
    BY <2>1, <2>2
<1>3. Loose => Loose'
  BY <1>1, <1>2 DEF Loose
<1>4. mw'[p].as \notin {"detached", "silent"} => Loose' = Loose
  BY <1>1, <1>2 DEF Loose
<1>5. UNCHANGED <<phase, err>>
  BY DEF Decide
<1>6. ~Loose => phase \in {"run", "await"} /\ ~res.finished /\ ~err.handled
  BY <1>0, <1>1 DEF InTurn, Phases
<1>7. ~Loose => ChainOutcome = "pending"
  BY <1>6 DEF ChainOutcome
<1>8. ChainOutcome # "none" /\ ChainOutcome \in {"pending", "handling", "answered"}
  BY DEF ChainOutcome
<1>9. mw'[p].next = "none" \/ mw'[p].as = "both" => Cardinality(Admitted)' = Cardinality(Admitted)
  BY <1>1, <1>2, SameAdmitted
<1>v. PICK v \in Verdicts[k] : \E as \in Behind(k, v) :
         /\ mw'[p].as = as
         /\ \/ DecidesGone(p)
            \/ DecidesEnd(v, p) /\ Responds(v, p)
            \/ DecidesCall(v, p) /\ Responds(v, p)
  BY <1>0, DecideShape
<1>a. PICK as \in Behind(k, v) :
         /\ mw'[p].as = as
         /\ \/ DecidesGone(p)
            \/ DecidesEnd(v, p) /\ Responds(v, p)
            \/ DecidesCall(v, p) /\ Responds(v, p)
  BY <1>v
<1>10. /\ (as = "detached" <=> v.act = "detached") /\ (as = "silent" <=> v.act = "silent")
       /\ (as = "both" <=> v.act = "both")
  BY RolesKnown
<1>11. res'.finished /\ Cardinality(Admitted)' = Cardinality(Admitted) /\ Loose' = Loose => PromiseSteps
  <2>1. res'.finished => ChainOutcome' = "answered"
    BY <1>5 DEF ChainOutcome
  <2> QED
    BY <1>1, <1>8, <2>1 DEF PromiseSteps, PromiseStays, PromiseAnswers
<1>12. (res'.finished <=> res.finished) => ChainOutcome' = ChainOutcome
  BY <1>5 DEF ChainOutcome
<1>13. CASE DecidesGone(p)
  <2>1. Loose /\ Loose' = Loose
    BY <1>3, <1>6, <1>13 DEF DecidesGone, Gone
  <2>2. mw'[p].next = "none" /\ res' = res
    BY <1>1, <1>13 DEF DecidesGone
  <2> QED
    BY <1>1, <1>9, <1>12, <2>1, <2>2 DEF PromiseSteps, PromiseStays
<1>14. CASE DecidesEnd(v, p) /\ Responds(v, p)
  <2>1. Cardinality(Admitted)' = Cardinality(Admitted)
    BY <1>1, <1>9, <1>14 DEF DecidesEnd
  <2>2. CASE v.act = "answer"
    BY <1>4, <1>10, <1>11, <1>14, <1>a, <2>1, <2>2 DEF Responds
  <2>3. CASE v.act = "throw"
    <3>1. ChainOutcome' = ChainOutcome /\ Loose' = Loose
      BY <1>4, <1>10, <1>12, <1>14, <1>a, <2>3 DEF Responds
    <3> QED
      BY <1>1, <2>1, <3>1 DEF PromiseSteps, PromiseStays
  <2>4. CASE v.act = "silent"
    <3>1. ChainOutcome' = ChainOutcome
      BY <1>12, <1>14, <2>4 DEF Responds
    <3>2. Loose' = TRUE
      BY <1>1, <1>10, <1>a, <2>4 DEF Loose
    <3> QED
      BY <1>1, <1>7, <2>1, <3>1, <3>2 DEF PromiseSteps, PromiseStays, PromiseLetsGo
  <2> QED
    BY <1>14, <2>2, <2>3, <2>4 DEF DecidesEnd
<1>15. CASE DecidesCall(v, p) /\ Responds(v, p)
  <2>1. CASE v.act = "both"
    BY <1>4, <1>9, <1>10, <1>11, <1>15, <1>a, <2>1 DEF Responds
  <2>2. CASE v.act # "both"
    <3>1. mw'[p].next # "none" /\ mw'[p].as # "both"
      BY <1>10, <1>15, <1>a, <2>2 DEF DecidesCall
    <3>2. Cardinality(Admitted) < n /\ Cardinality(Admitted)' = Cardinality(Admitted) + 1
      BY <1>n, <1>1, <1>2, <3>1, MoreAdmitted
    <3>3. ChainOutcome' = ChainOutcome
      BY <1>12, <1>15, <2>2 DEF DecidesCall, Responds
    <3>4. Loose' = Loose \/ Loose' = TRUE
      BY <1>3 DEF Loose
    <3> QED
      BY <1>1, <1>7, <1>8, <3>2, <3>3, <3>4 DEF PromiseSteps, PromiseAdmits
  <2> QED
    BY <2>1, <2>2
<1> QED
  BY <1>a, <1>13, <1>14, <1>15

(* A step that leaves the chain alone.                                         *)
LEMMA DispatchPromise ==
  ASSUME UNCHANGED mw,
         \/ ChainOutcome' = ChainOutcome
         \/ ChainOutcome \in {"pending", "handling"} /\ ChainOutcome' = "answered"
         \/ /\ ChainOutcome = "pending" /\ ChainOutcome' = "handling"
            /\ Cardinality(Admitted) = n \/ Loose
  PROVE  PromiseSteps
<1>1. n' = n /\ Cardinality(Admitted)' = Cardinality(Admitted) /\ Loose' = Loose
  <2>1. n' = n
    BY DEF n
  <2> QED
    BY <2>1, SameAdmitted DEF Loose
<1> QED
  BY <1>1 DEF PromiseSteps, PromiseStays, PromiseAnswers, PromiseHandles

(* When all the middlewares are done and nobody answered, each let the request on. *)
LEMMA AllAdmitted ==
  ASSUME IInv, ~res.finished, n = 0 \/ mw[1].at = "done"
  PROVE  Cardinality(Admitted) = n \/ Loose
<1>0. InTurn /\ n \in Nat
  BY Members DEF IInv
<1> SUFFICES ASSUME ~Loose PROVE Cardinality(Admitted) = n
  OBVIOUS
<1>1. \A p \in 1..n : mw[p].next # "none" /\ mw[p].as # "both"
  <2>1. n > 0 => \A p \in 1..n : mw[p].at = "done" /\ mw[p].next # "none"
    BY <1>0 DEF InTurn
  <2> QED
    BY <1>0, <2>1 DEF InTurn
<1>2. Admitted = 1..n
  BY <1>1 DEF Admitted
<1> QED
  BY <1>0, <1>2, FS_Interval

(* Every step of the pipeline is a step of Chain or a stutter. *)
LEMMA PromiseStep == IInv /\ [Next]_vars => [Promise!Next]_(Promise!chain)
<1> SUFFICES ASSUME IInv, [Next]_vars PROVE PromiseSteps
  BY PromiseIs
<1>0. Types /\ Stage /\ Phases /\ InTurn
  BY DEF IInv
<1>n. n \in Nat
  BY <1>0, Members
<1>1. CASE UNCHANGED <<mode, phase, mw, index, res, sess, err, answer>>
  BY <1>1, DispatchPromise DEF ChainOutcome
<1>2. CASE ServeNext /\ mode = "serve" /\ UNCHANGED mode
  <2>m. mode = "serve" /\ mode' = "serve"
    BY <1>2
  <2>1. CASE Arrive
    <3>1. phase = "arrived" /\ ~res.finished /\ ~err.handled /\ UNCHANGED res /\ \A p \in 1..n : mw[p] = Idle
      BY <1>0, <1>n, <2>1 DEF Arrive, Phases, Stage
    <3>2. n' = n
      BY <2>1, ArriveInv, <2>m
    <3>3. ChainOutcome = "pending"
      BY <2>m, <3>1 DEF ChainOutcome
    <3>4. \A p \in 1..n : mw'[p].next = "none" /\ mw'[p].as = "none"
      <4>1. mw' = mw \/ mw' = [p \in 1..n |-> IF p = 1 THEN [Idle EXCEPT !.at = "running"] ELSE Idle]
        BY <2>1, Zenon DEF Arrive
      <4>2. CASE mw' = mw
        BY <3>1, <4>2 DEF Idle
      <4>3. CASE mw' = [p \in 1..n |-> IF p = 1 THEN [Idle EXCEPT !.at = "running"] ELSE Idle]
        BY <4>3 DEF Idle
      <4> QED
        BY <4>1, <4>2, <4>3
    <3>5. Cardinality(Admitted)' = Cardinality(Admitted) /\ Loose' = Loose
      <4>1. Loose' = Loose
        BY <3>1, <3>2, <3>4 DEF Loose, Idle
      <4> QED
        BY <3>1, <3>2, <3>4, <4>1, SameAdmitted DEF Idle
    <3>6. \/ ChainOutcome' = "answered" \/ ChainOutcome' = "pending"
          \/ n = 0 /\ ChainOutcome' = "handling"
      BY <2>1, <2>m, <3>1, ZenonT(60) DEF Arrive, ChainOutcome, Answers, NoError
    <3>7. n = 0 => Cardinality(Admitted) = n
      BY <1>n, AdmittedCount
    <3> QED
      BY <3>2, <3>3, <3>5, <3>6, <3>7 DEF PromiseSteps, PromiseStays, PromiseAnswers, PromiseHandles
  <2>2. CASE SectionEnds
    <3>1. phase = "run" /\ ~err.handled /\ UNCHANGED <<mw, res, err>>
      BY <1>0, <2>2 DEF SectionEnds, Phases
    <3>2. (res.finished /\ phase' = "answered") \/ phase' = "await"
      BY <2>2 DEF SectionEnds, Snapshot, Answers
    <3>3. ChainOutcome' = ChainOutcome
      BY <2>m, <3>1, <3>2 DEF ChainOutcome
    <3> QED
      BY <3>1, <3>3, DispatchPromise
  <2>3. CASE RunnerSettles
    <3>1. phase = "await" /\ ~err.handled /\ UNCHANGED <<mw, res>> /\ mw[1].at \in {"done", "failed"}
      BY <1>0, <2>3 DEF RunnerSettles, Phases
    <3>2. \/ mw[1].at = "failed" /\ phase' = "errors" /\ err' = [NoError EXCEPT !.status = mw[1].err]
          \/ res.finished /\ phase' = "answered"
          \/ mw[1].at = "done" /\ ~res.finished /\ phase' = "handler"
      BY <2>3, <3>1 DEF RunnerSettles, Snapshot, Answers
    <3>3. CASE mw[1].at = "failed" /\ phase' = "errors" /\ err' = [NoError EXCEPT !.status = mw[1].err]
      <4>1. ~err'.handled
        BY <3>3 DEF NoError
      <4>2. ChainOutcome' = ChainOutcome
        BY <2>m, <3>1, <3>3, <4>1 DEF ChainOutcome
      <4> QED
        BY <3>1, <4>2, DispatchPromise
    <3>4. CASE res.finished /\ phase' = "answered"
      <4>1. ChainOutcome' = ChainOutcome
        BY <2>m, <3>1, <3>4 DEF ChainOutcome
      <4> QED
        BY <3>1, <4>1, DispatchPromise
    <3>5. CASE mw[1].at = "done" /\ ~res.finished /\ phase' = "handler"
      <4>1. ChainOutcome = "pending" /\ ChainOutcome' = "handling"
        BY <2>m, <3>1, <3>5 DEF ChainOutcome
      <4>2. Cardinality(Admitted) = n \/ Loose
        BY <3>5, AllAdmitted
      <4> QED
        BY <3>1, <4>1, <4>2, DispatchPromise
    <3> QED
      BY <3>2, <3>3, <3>4, <3>5
  <2>4. ASSUME NEW p \in 1..n, NEW k \in Kinds, Park(p, k) PROVE PromiseSteps
    <3>1. /\ n' = n /\ Untouched(p) /\ mw[p].at = "running" /\ mw'[p] = [mw[p] EXCEPT !.at = "parked", !.as = k]
      BY <2>m, <2>4, ParkInv
    <3>2. UNCHANGED <<phase, res, err>> /\ Parks(k)
      BY <2>4 DEF Park
    <3>3. mw[p] \in Middleware /\ mw[p].next = "none" /\ mw[p].as = "none"
      BY <1>0, <3>1, Members DEF Stage, Active
    <3>4. mw'[p].as = k /\ mw'[p].next = "none"
      BY <3>1, <3>3 DEF Middleware
    <3>5. Cardinality(Admitted)' = Cardinality(Admitted)
      BY <3>1, <3>3, <3>4, SameAdmitted DEF Untouched
    <3>6. Loose' = Loose
      BY <3>1, <3>2, <3>3, <3>4 DEF Loose, Untouched, Parks
    <3>7. ChainOutcome' = ChainOutcome
      BY <2>m, <3>2 DEF ChainOutcome
    <3> QED
      BY <3>1, <3>5, <3>6, <3>7 DEF PromiseSteps, PromiseStays
  <2>5. ASSUME NEW p \in 1..n, NEW k \in Kinds, Decide(p, k) PROVE PromiseSteps
    BY <1>2, <2>5, DecidePromise
  <2>6. ASSUME NEW p \in 1..n, Resume(p) PROVE PromiseSteps
    <3>1. /\ mw[p].at = "waiting" /\ UNCHANGED <<phase, err>> /\ Len(mw') = n /\ Untouched(p)
          /\ ResumeEnds(p) \/ ResumeTwice(p)
      BY <1>0, <2>6, ResumeShape
    <3>2. n' = n /\ mw[p].next # "none"
      BY <1>0, <3>1 DEF n, Stage
    <3>3. /\ mw'[p].next # "none" /\ (mw'[p].as = "both" <=> mw[p].as = "both")
          /\ (mw'[p].as \in {"detached", "silent"} <=> mw[p].as \in {"detached", "silent"})
          /\ (res.finished => res'.finished)
      <4>1. CASE ResumeEnds(p)
        BY <3>2, <4>1 DEF ResumeEnds
      <4>2. CASE ResumeTwice(p)
        BY <4>2 DEF ResumeTwice
      <4> QED
        BY <3>1, <4>1, <4>2
    <3>4. Cardinality(Admitted)' = Cardinality(Admitted)
      BY <3>1, <3>2, <3>3, SameAdmitted DEF Untouched
    <3>5. Loose' = Loose
      BY <3>1, <3>2, <3>3 DEF Loose, Untouched
    <3>6. ChainOutcome' = ChainOutcome \/ (ChainOutcome \in {"pending", "handling"} /\ ChainOutcome' = "answered")
      BY <2>m, <3>1, <3>3 DEF ChainOutcome
    <3> QED
      BY <3>2, <3>4, <3>5, <3>6 DEF PromiseSteps, PromiseStays, PromiseAnswers
  <2>7. CASE HandlerSteps
    <3>1. phase \in {"handler", "handling"} /\ ~err.handled /\ UNCHANGED mw
      BY <1>0, <2>7 DEF HandlerSteps, HandlerAwaits, HandlerReturns, HandlerWrites, HandlerThrows, Phases
    <3>2. \/ UNCHANGED <<res, err>> /\ phase' \in {"handler", "handling"}
          \/ UNCHANGED res /\ phase' = "errors" /\ \E t \in Thrown : err' = [NoError EXCEPT !.status = t, !.handled = TRUE]
          \/ phase' = "answered"
      BY <2>7, <3>1 DEF HandlerSteps, HandlerAwaits, HandlerReturns, HandlerWrites, HandlerThrows, Answers
    <3>3. UNCHANGED res /\ phase' = "errors" /\ (\E t \in Thrown : err' = [NoError EXCEPT !.status = t, !.handled = TRUE])
            => err'.handled
      BY DEF NoError
    <3>4. ChainOutcome' = ChainOutcome \/ (ChainOutcome \in {"pending", "handling"} /\ ChainOutcome' = "answered")
      BY <2>m, <3>1, <3>2, <3>3 DEF ChainOutcome
    <3> QED
      BY <3>1, <3>4, DispatchPromise
  <2>8. CASE ErrorHandler \/ ErrorAnswered
    <3>1. /\ UNCHANGED mw /\ phase = "errors"
          /\ phase' = "answered" \/ (UNCHANGED <<phase, res>> /\ err' = [err EXCEPT !.at = @ + 1])
      BY <2>8 DEF ErrorHandler, ErrorAnswered, Answers, Snapshot
    <3>2. err' = [err EXCEPT !.at = @ + 1] => err'.handled = err.handled
      BY <1>0 DEF Types
    <3>3. ChainOutcome' = ChainOutcome \/ (ChainOutcome \in {"pending", "handling"} /\ ChainOutcome' = "answered")
      BY <2>m, <3>1, <3>2 DEF ChainOutcome
    <3> QED
      BY <3>1, <3>3, DispatchPromise
  <2>9. \/ Arrive \/ SectionEnds \/ RunnerSettles
        \/ \E p \in 1..n : \E k \in Kinds : Park(p, k)
        \/ \E p \in 1..n : \E k \in Kinds : Decide(p, k)
        \/ \E p \in 1..n : Resume(p)
        \/ HandlerSteps \/ ErrorHandler \/ ErrorAnswered
    BY <1>2 DEF ServeNext, HandlerSteps
  <2> QED
    BY <2>1, <2>2, <2>3, <2>4, <2>5, <2>6, <2>7, <2>8, <2>9
<1> QED
  BY <1>1, <1>2 DEF Next, vars, serveVars

(* The middlewares of a route keep the promise of module Chain: the handler      *)
(* starts only when each of them let the request on, or one let go of it         *)
(* (createMiddlewareRunner, dispatch).                                          *)
THEOREM ChainPromise == Spec => Promise!Init /\ [][Promise!Next]_(Promise!chain)
BY PromiseInit, PromiseStep, Inductive, PTL DEF Spec

-----------------------------------------------------------------------------

(* Registration: paths as sequences of names, and what a prefix spells. *)

Pieces == STRING \cup {"/"}
Text == Seq(Pieces)
Names == Seq(Text)

(* A prefix as a sequence of names spells it: nothing for the root. *)
Spelled(path) == IF path = Root THEN <<>> ELSE path

(* at tells where the names of a text begin: each at a slash, with none inside. *)
Cuts(text, names, at) ==
    /\ at[1] = 1 /\ at[Len(names) + 1] = Len(text) + 1
    /\ \A k, m \in 1..(Len(names) + 1) : k < m => at[k] < at[m]
    /\ \A k \in 1..Len(names) :
          /\ text[at[k]] = "/"
          /\ names[k] = SubSeq(text, at[k] + 1, at[k + 1] - 1)
          /\ \A i \in (at[k] + 1)..(at[k + 1] - 1) : text[i] # "/"

Splits(text, names) ==
    /\ text \in Text /\ names \in Names
    /\ Len(text) > 0 => text[Len(text)] # "/"
    /\ \E at \in [1..(Len(names) + 1) -> Nat] : Cuts(text, names, at)

(* A non-empty set of naturals has a least element. *)
LEMMA LeastOf ==
  ASSUME NEW T \in SUBSET Nat, T # {}
  PROVE  \E x \in T : \A y \in T : x <= y
<1>1. PICK x \in T : \A y \in T : ~ (<<y, x>> \in OpToRel(<, Nat))
  BY WFMin, NatLessThanWellFounded
<1>2. \A y \in T : ~(y < x)
  BY <1>1 DEF OpToRel
<1> QED BY <1>2

(* What stands strictly between two positions of a sequence. *)
LEMMA Between ==
  ASSUME NEW S, NEW s, NEW a \in Nat, NEW z \in Nat, a < z, \A i \in (a + 1)..(z - 1) : s[i] \in S
  PROVE  LET mid == SubSeq(s, a + 1, z - 1)
         IN  mid \in Seq(S) /\ Len(mid) = z - 1 - a /\ \A i \in 1..(z - 1 - a) : mid[i] = s[a + i]
<1> DEFINE low == a + 1
           up == z - 1
           mid == SubSeq(s, low, up)
<1>1. low \in Int /\ up \in Int /\ (IF low <= up THEN up - low + 1 ELSE 0) = z - 1 - a
      /\ up - low + 1 = z - 1 - a /\ \A i \in Int : low + i - 1 = a + i
  OBVIOUS
<1> HIDE DEF low, up
<1>2. /\ mid \in Seq(S) /\ Len(mid) = IF low <= up THEN up - low + 1 ELSE 0
      /\ \A i \in 1..(up - low + 1) : mid[i] = s[low + i - 1]
  BY <1>1, SubSeqProperties DEF low, up
<1> HIDE DEF mid
<1>3. ASSUME NEW i \in 1..(z - 1 - a) PROVE mid[i] = s[a + i]
  <2>1. low + i - 1 = a + i
    BY <1>1
  <2>2. mid[i] = s[low + i - 1]
    BY <1>1, <1>2
  <2> QED
    BY <2>1, <2>2
<1> QED
  BY <1>1, <1>2, <1>3 DEF mid, low, up

LEMMA TextIs ==
  ASSUME NEW S, NEW text \in Seq(S)
  PROVE  Len(text) \in Nat /\ DOMAIN text = 1..Len(text) /\ \A i \in 1..Len(text) : text[i] \in S
  BY LenProperties, ElementOfSeq

(* Where the names of a text begin is in the text, one behind the other. *)
LEMMA CutsOrder ==
  ASSUME NEW text \in Text, NEW names \in Names, NEW at \in [1..(Len(names) + 1) -> Nat],
         Cuts(text, names, at)
  PROVE  /\ at[1] = 1 /\ at[Len(names) + 1] = Len(text) + 1
         /\ \A k \in 1..(Len(names) + 1) : 1 <= at[k] /\ at[k] <= Len(text) + 1 /\ at[k] \in Nat
         /\ \A k \in 1..Len(names) :
               /\ at[k] < at[k + 1] /\ at[k] \in 1..Len(text)
               /\ at[k + 1] \in (at[k] + 1)..(Len(text) + 1)
<1> DEFINE last == Len(names) + 1
<1>1. Len(names) \in Nat /\ Len(text) \in Nat
  BY TextIs DEF Text, Names
<1>2. last \in Nat /\ 1 \in 1..last /\ last \in 1..last /\ at \in [1..last -> Nat]
  BY <1>1
<1>3. /\ at[1] = 1 /\ at[last] = Len(text) + 1
      /\ \A k, m \in 1..last : k < m => at[k] < at[m]
  BY DEF Cuts
<1>4. \A k \in 1..Len(names) : k \in 1..last /\ k + 1 \in 1..last /\ k < k + 1
  BY <1>1
<1> HIDE DEF last
<1>5. ASSUME NEW k \in 1..last PROVE 1 <= at[k] /\ at[k] <= Len(text) + 1 /\ at[k] \in Nat
  <2>1. k = 1 \/ 1 < k
    BY <1>2
  <2>2. k = last \/ k < last
    BY <1>2
  <2>3. at[k] \in Nat
    BY <1>2
  <2>4. 1 < k => at[1] < at[k]
    BY <1>2, <1>3
  <2>5. k < last => at[k] < at[last]
    BY <1>2, <1>3
  <2> QED
    BY <2>1, <2>2, <2>3, <2>4, <2>5, <1>1, <1>3
<1>6. ASSUME NEW k \in 1..Len(names)
      PROVE  /\ at[k] < at[k + 1] /\ at[k] \in 1..Len(text)
             /\ at[k + 1] \in (at[k] + 1)..(Len(text) + 1)
  <2>1. k \in 1..last /\ k + 1 \in 1..last /\ k < k + 1
    BY <1>4
  <2>2. at[k] < at[k + 1]
    BY <2>1, <1>3
  <2>3. /\ 1 <= at[k] /\ at[k] <= Len(text) + 1 /\ at[k] \in Nat
        /\ 1 <= at[k + 1] /\ at[k + 1] <= Len(text) + 1 /\ at[k + 1] \in Nat
    BY <2>1, <1>5
  <2> DEFINE x == at[k]
             y == at[k + 1]
  <2> HIDE DEF x, y
  <2>4. x < y /\ 1 <= x /\ x \in Nat /\ y \in Nat /\ y <= Len(text) + 1
    BY <2>2, <2>3 DEF x, y
  <2>5. x \in 1..Len(text) /\ y \in (x + 1)..(Len(text) + 1)
    BY <2>4, <1>1
  <2> QED
    BY <2>2, <2>5 DEF x, y
<1> QED
  BY <1>3, <1>5, <1>6 DEF last

(* Texts that begin with the same names begin with the same pieces, and the other way about. *)
LEMMA SameNames ==
  ASSUME NEW p \in Text, NEW q \in Text, NEW s \in Names, NEW t \in Names,
         NEW at \in [1..(Len(s) + 1) -> Nat], NEW bt \in [1..(Len(t) + 1) -> Nat],
         Cuts(p, s, at), Cuts(q, t, bt), IsPrefix(s, t)
  PROVE  /\ at[Len(s) + 1] = bt[Len(s) + 1]
         /\ \A i \in 1..Len(p) : i <= Len(q) /\ p[i] = q[i]
<1>1. /\ Len(p) \in Nat /\ Len(q) \in Nat /\ Len(s) \in Nat /\ Len(t) \in Nat
      /\ \A k \in 1..Len(s) : s[k] \in Text
  BY TextIs DEF Text, Names
<1>2. Len(s) <= Len(t) /\ \A k \in 1..Len(s) : s[k] = t[k]
  <2>1. Len(s) <= Len(t) /\ SubSeq(s, 1, Len(s)) = SubSeq(t, 1, Len(s))
    BY DEF IsPrefix
  <2>2. \A k \in 1..Len(s) : SubSeq(s, 1, Len(s))[k] = s[k] /\ SubSeq(t, 1, Len(s))[k] = t[k]
    BY <1>1, <2>1 DEF Names
  <2> QED
    BY <2>1, <2>2
<1> DEFINE Good(k) == at[k] = bt[k] /\ \A i \in 1..(at[k] - 1) : p[i] = q[i]
           Bad == {k \in 1..(Len(s) + 1) : ~Good(k)}
<1>3. Good(1)
  BY DEF Cuts
<1>4. ASSUME NEW k \in 1..Len(s), Good(k) PROVE Good(k + 1)
  <2> DEFINE a == at[k]
             x == at[k + 1]
             y == bt[k + 1]
  <2>1. k \in 1..Len(t) /\ k + 1 \in 1..(Len(s) + 1) /\ k + 1 \in 1..(Len(t) + 1)
    BY <1>1, <1>2
  <2>2. a \in Nat /\ x \in Nat /\ y \in Nat /\ a < x /\ a < y /\ bt[k] = a
    <3>1. at[k] = bt[k]
      BY <1>4
    <3>2. at[k] \in 1..Len(p) /\ at[k + 1] \in (at[k] + 1)..(Len(p) + 1)
      BY CutsOrder
    <3>3. bt[k] \in 1..Len(q) /\ bt[k + 1] \in (bt[k] + 1)..(Len(q) + 1)
      BY <2>1, CutsOrder
    <3> QED
      BY <1>1, <3>1, <3>2, <3>3, SMTT(30)
  <2>3. /\ p[a] = "/" /\ s[k] = SubSeq(p, a + 1, x - 1)
        /\ q[a] = "/" /\ t[k] = SubSeq(q, a + 1, y - 1)
    BY <2>1, <2>2 DEF Cuts
  <2>4. 1 <= a /\ x <= Len(p) + 1 /\ y <= Len(q) + 1
    <3>1. at[k] \in 1..Len(p) /\ at[k + 1] \in (at[k] + 1)..(Len(p) + 1)
      BY CutsOrder
    <3>2. bt[k + 1] \in (bt[k] + 1)..(Len(q) + 1)
      BY <2>1, CutsOrder
    <3> QED
      BY <1>1, <2>2, <3>1, <3>2
  <2>5. \A i \in (a + 1)..(x - 1) : p[i] \in Pieces
    BY <1>1, <2>2, <2>4 DEF Text
  <2>6. \A i \in (a + 1)..(y - 1) : q[i] \in Pieces
    BY <1>1, <2>2, <2>4, SMTT(30) DEF Text
  <2> HIDE DEF a, x, y
  <2>7. /\ Len(SubSeq(p, a + 1, x - 1)) = x - 1 - a
        /\ \A i \in 1..(x - 1 - a) : SubSeq(p, a + 1, x - 1)[i] = p[a + i]
    <3>1. a \in Nat /\ x \in Nat /\ a < x
      BY <2>2
    <3> QED
      BY <2>5, <3>1, Between, SMTT(30)
  <2>8. /\ Len(SubSeq(q, a + 1, y - 1)) = y - 1 - a
        /\ \A i \in 1..(y - 1 - a) : SubSeq(q, a + 1, y - 1)[i] = q[a + i]
    <3>1. a \in Nat /\ y \in Nat /\ a < y
      BY <2>2
    <3> QED
      BY <2>6, <3>1, Between
  <2>9. x = y /\ \A i \in 1..(x - 1 - a) : p[a + i] = q[a + i]
    <3>1. SubSeq(p, a + 1, x - 1) = SubSeq(q, a + 1, y - 1)
      BY <1>2, <2>3
    <3>2. x - 1 - a = y - 1 - a
      BY <3>1, <2>7, <2>8
    <3>3. x = y
      BY <2>2, <3>2
    <3> QED
      BY <3>1, <3>3, <2>7, <2>8
  <2>10. \A i \in (a + 1)..(x - 1) : p[i] = q[i]
    <3> TAKE i \in (a + 1)..(x - 1)
    <3>1. i - a \in 1..(x - 1 - a) /\ a + (i - a) = i
      BY <2>2
    <3> QED
      BY <3>1, <2>9
  <2>11. \A i \in 1..(a - 1) : p[i] = q[i]
    BY <1>4 DEF a
  <2>12. \A i \in 1..(x - 1) : p[i] = q[i]
    <3> TAKE i \in 1..(x - 1)
    <3>1. i \in 1..(a - 1) \/ i = a \/ i \in (a + 1)..(x - 1)
      BY <2>2
    <3> QED
      BY <3>1, <2>3, <2>10, <2>11
  <2> QED
    BY <2>9, <2>12 DEF x, y
<1> HIDE DEF Good
<1>5. \A k \in 1..(Len(s) + 1) : Good(k)
  <2> SUFFICES ASSUME Bad # {} PROVE FALSE
    OBVIOUS
  <2>1. Bad \in SUBSET Nat
    OBVIOUS
  <2>2. PICK k \in Bad : \A m \in Bad : k <= m
    BY <2>1, LeastOf
  <2>3. k # 1
    BY <1>3
  <2>4. k - 1 \in 1..Len(s) /\ k - 1 \notin Bad /\ k - 1 \in 1..(Len(s) + 1)
    BY <1>1, <2>2, <2>3
  <2>5. Good(k - 1) /\ (k - 1) + 1 = k
    BY <2>4, <2>2
  <2>6. Good(k)
    BY <2>4, <2>5, <1>4
  <2> QED
    BY <2>6
<1>6. Good(Len(s) + 1) /\ at[Len(s) + 1] = Len(p) + 1
  BY <1>1, <1>5 DEF Cuts
<1>7. bt[Len(s) + 1] <= Len(q) + 1
  <2>1. Len(s) + 1 \in 1..(Len(t) + 1)
    BY <1>1, <1>2
  <2> QED
    BY <2>1, CutsOrder
<1> QED
  BY <1>1, <1>6, <1>7 DEF Good

(* A text goes on as another one and then, if it is longer, with a slash. *)
Continues(p, q) ==
    /\ Len(p) <= Len(q) /\ \A i \in 1..Len(p) : p[i] = q[i]
    /\ Len(p) < Len(q) => q[Len(p) + 1] = "/"

(* Then it begins with the same names. *)
LEMMA SamePieces ==
  ASSUME NEW p \in Text, NEW q \in Text, NEW s \in Names, NEW t \in Names,
         NEW at \in [1..(Len(s) + 1) -> Nat], NEW bt \in [1..(Len(t) + 1) -> Nat],
         Cuts(p, s, at), Cuts(q, t, bt), Continues(p, q)
  PROVE  IsPrefix(s, t)
<1>1. /\ Len(p) \in Nat /\ Len(q) \in Nat /\ Len(s) \in Nat /\ Len(t) \in Nat
      /\ \A k \in 1..Len(s) : s[k] \in Text
  BY TextIs DEF Text, Names
<1> DEFINE Good(k) == k <= Len(t) + 1 /\ at[k] = bt[k]
           Bad == {k \in 1..(Len(s) + 1) : ~Good(k)}
<1>2. Good(1)
  BY <1>1 DEF Cuts
<1>3. ASSUME NEW k \in 1..Len(s), Good(k) PROVE Good(k + 1) /\ k <= Len(t) /\ s[k] = t[k]
  <2> DEFINE a == at[k]
             x == at[k + 1]
             y == bt[k + 1]
  <2>1. a = bt[k] /\ a \in 1..Len(p) /\ x \in (a + 1)..(Len(p) + 1)
    BY <1>3, CutsOrder
  <2>2. k \in 1..Len(t)
    <3>1. k # Len(t) + 1
      <4>1. bt[Len(t) + 1] = Len(q) + 1
        BY DEF Cuts
      <4> QED
        BY <2>1, <4>1, <1>1 DEF Continues
    <3> QED
      BY <1>3, <1>1, <3>1
  <2>3. y \in (a + 1)..(Len(q) + 1)
    BY <2>1, <2>2, CutsOrder, SMTT(30)
  <2>4. x = Len(p) + 1 \/ p[x] = "/"
    <3>1. k + 1 = Len(s) + 1 \/ k + 1 \in 1..Len(s)
      BY <1>1
    <3> QED
      BY <3>1 DEF Cuts
  <2>5. y = Len(q) + 1 \/ q[y] = "/"
    <3>1. k + 1 = Len(t) + 1 \/ k + 1 \in 1..Len(t)
      BY <1>1, <2>2
    <3> QED
      BY <3>1 DEF Cuts
  <2>6. \A i \in (a + 1)..(x - 1) : p[i] # "/"
    BY DEF Cuts
  <2>7. \A i \in (a + 1)..(y - 1) : q[i] # "/"
    BY <2>1, <2>2 DEF Cuts
  <2>8. s[k] = SubSeq(p, a + 1, x - 1) /\ t[k] = SubSeq(q, a + 1, y - 1)
    BY <2>1, <2>2 DEF Cuts
  <2> HIDE DEF a, x, y
  <2>9. ~(x < y)
    <3> SUFFICES ASSUME x < y PROVE FALSE
      OBVIOUS
    <3>1. x \in (a + 1)..(y - 1) /\ x <= Len(q)
      BY <1>1, <2>1, <2>3
    <3>2. q[x] # "/"
      BY <3>1, <2>7
    <3>3. x # Len(p) + 1
      BY <3>1, <3>2, <1>1 DEF Continues
    <3>4. x \in 1..Len(p) /\ p[x] = "/"
      BY <3>3, <2>1, <2>4, <1>1
    <3> QED
      BY <3>2, <3>4 DEF Continues
  <2>10. ~(y < x)
    <3> SUFFICES ASSUME y < x PROVE FALSE
      OBVIOUS
    <3>1. y \in (a + 1)..(x - 1) /\ y \in 1..Len(p)
      BY <1>1, <2>1, <2>3, SMTT(30)
    <3>2. p[y] # "/" /\ p[y] = q[y]
      BY <3>1, <2>6 DEF Continues
    <3>3. y # Len(q) + 1
      BY <3>1, <1>1 DEF Continues
    <3> QED
      BY <3>2, <3>3, <2>5
  <2>11. x = y
    BY <1>1, <2>1, <2>3, <2>9, <2>10
  <2>12. SubSeq(p, a + 1, x - 1) = SubSeq(q, a + 1, x - 1)
    <3>1. a + 1 \in Int /\ x - 1 \in Int /\ \A i \in (a + 1)..(x - 1) : i \in 1..Len(p) /\ i \in 1..Len(q)
      BY <1>1, <2>1, SMTT(30) DEF Continues
    <3>2. \A i \in (a + 1)..(x - 1) : p[i] = q[i] /\ p[i] \in Pieces
      BY <3>1 DEF Continues, Text
    <3>3. /\ Len(SubSeq(p, a + 1, x - 1)) = Len(SubSeq(q, a + 1, x - 1))
          /\ SubSeq(p, a + 1, x - 1) \in Text /\ SubSeq(q, a + 1, x - 1) \in Text
      <4> DEFINE low == a + 1
                 up == x - 1
      <4>1. low \in Int /\ up \in Int /\ \A i \in low..up : p[i] \in Pieces /\ q[i] \in Pieces
        BY <3>1, <3>2
      <4> HIDE DEF low, up
      <4>2. SubSeq(p, low, up) \in Seq(Pieces) /\ SubSeq(q, low, up) \in Seq(Pieces)
        BY <4>1, SubSeqProperties
      <4>3. Len(SubSeq(p, low, up)) = IF low <= up THEN up - low + 1 ELSE 0
        BY <4>1, SubSeqProperties
      <4>4. Len(SubSeq(q, low, up)) = IF low <= up THEN up - low + 1 ELSE 0
        BY <4>1, SubSeqProperties
      <4> QED
        BY <4>2, <4>3, <4>4 DEF Text, low, up
    <3>4. Len(SubSeq(p, a + 1, x - 1)) = IF a + 1 <= x - 1 THEN (x - 1) - (a + 1) + 1 ELSE 0
      BY <3>1, <3>2, SubSeqProperties
    <3>5. \A i \in 1..((x - 1) - (a + 1) + 1) : /\ SubSeq(p, a + 1, x - 1)[i] = p[a + 1 + i - 1]
                                                /\ SubSeq(q, a + 1, x - 1)[i] = q[a + 1 + i - 1]
      BY <3>1, <3>2, SubSeqProperties
    <3>6. ASSUME NEW i \in 1..Len(SubSeq(p, a + 1, x - 1))
          PROVE  SubSeq(p, a + 1, x - 1)[i] = SubSeq(q, a + 1, x - 1)[i]
      <4>0. a \in Nat /\ x \in Nat /\ a < x
        BY <1>1, <2>1, SMTT(30)
      <4>1. i \in 1..((x - 1) - (a + 1) + 1) /\ a + 1 + i - 1 \in (a + 1)..(x - 1)
        BY <4>0, <3>4
      <4> QED
        BY <4>1, <3>2, <3>5
    <3> QED
      BY <3>3, <3>6, SeqEqual DEF Text
  <2>13. k <= Len(t) /\ s[k] = t[k]
    <3>1. t[k] = SubSeq(q, a + 1, x - 1)
      BY <2>8, <2>11
    <3>2. s[k] = t[k]
      BY <2>8, <2>12, <3>1
    <3>3. k <= Len(t)
      BY <1>1, <2>2
    <3> QED
      BY <3>2, <3>3
  <2>14. at[k + 1] = bt[k + 1] /\ k + 1 <= Len(t) + 1
    BY <1>1, <2>2, <2>11 DEF x, y
  <2> QED
    BY <2>13, <2>14
<1> HIDE DEF Good
<1>4. \A k \in 1..(Len(s) + 1) : Good(k)
  <2> SUFFICES ASSUME Bad # {} PROVE FALSE
    OBVIOUS
  <2>1. Bad \in SUBSET Nat
    OBVIOUS
  <2>2. PICK k \in Bad : \A m \in Bad : k <= m
    BY <2>1, LeastOf
  <2>3. k # 1
    BY <1>2
  <2>4. k - 1 \in 1..Len(s) /\ k - 1 \notin Bad /\ k - 1 \in 1..(Len(s) + 1)
    BY <1>1, <2>2, <2>3
  <2>5. Good(k - 1) /\ (k - 1) + 1 = k
    BY <2>4, <2>2
  <2>6. Good(k)
    BY <2>4, <2>5, <1>3
  <2> QED
    BY <2>6
<1>5. \A k \in 1..Len(s) : k <= Len(t) /\ s[k] = t[k]
  <2> TAKE k \in 1..Len(s)
  <2>1. k \in 1..(Len(s) + 1)
    BY <1>1
  <2> QED
    BY <2>1, <1>3, <1>4
<1>6. Len(s) <= Len(t)
  <2>1. Len(s) = 0 \/ Len(s) \in 1..Len(s)
    BY <1>1
  <2> QED
    BY <2>1, <1>1, <1>5
<1>7. SubSeq(s, 1, Len(s)) = s
  BY <1>1, SubSeqFull DEF Names
<1>8. SubSeq(t, 1, Len(s)) = s
  <2>1. \A i \in 1..Len(s) : t[i] = s[i] /\ t[i] \in Text
    BY <1>1, <1>5
  <2>2. /\ SubSeq(t, 1, Len(s)) \in Names
        /\ Len(SubSeq(t, 1, Len(s))) = Len(s)
        /\ \A i \in 1..Len(s) : SubSeq(t, 1, Len(s))[i] = t[i]
    <3>1. 1 \in Int /\ Len(s) \in Int /\ \A i \in 1..Len(s) : t[i] \in Text
      BY <1>1, <2>1
    <3>2. /\ SubSeq(t, 1, Len(s)) \in Seq(Text)
          /\ Len(SubSeq(t, 1, Len(s))) = IF 1 <= Len(s) THEN Len(s) - 1 + 1 ELSE 0
          /\ \A i \in 1..(Len(s) - 1 + 1) : SubSeq(t, 1, Len(s))[i] = t[1 + i - 1]
      BY <3>1, SubSeqProperties
    <3> QED
      BY <1>1, <3>2 DEF Names
  <2> QED
    BY <2>1, <2>2, SeqEqual DEF Names
<1> QED
  BY <1>6, <1>7, <1>8 DEF IsPrefix

(* A text lies under another one, as names and as pieces. *)
LEMMA Matching ==
  ASSUME NEW p, NEW q, NEW s, NEW t, Splits(p, s), Splits(q, t)
  PROVE  IsPrefix(s, t) <=> Continues(p, q)
<1>1. p \in Text /\ q \in Text /\ s \in Names /\ t \in Names
  BY DEF Splits
<1>2. PICK at \in [1..(Len(s) + 1) -> Nat] : Cuts(p, s, at)
  BY DEF Splits
<1>3. PICK bt \in [1..(Len(t) + 1) -> Nat] : Cuts(q, t, bt)
  BY DEF Splits
<1>4. ASSUME Continues(p, q) PROVE IsPrefix(s, t)
  BY <1>1, <1>2, <1>3, <1>4, SamePieces
<1>5. ASSUME IsPrefix(s, t) PROVE Continues(p, q)
  <2>1. /\ at[Len(s) + 1] = bt[Len(s) + 1]
        /\ \A i \in 1..Len(p) : i <= Len(q) /\ p[i] = q[i]
    BY <1>1, <1>2, <1>3, <1>5, SameNames
  <2>2. /\ Len(p) \in Nat /\ Len(q) \in Nat /\ Len(s) \in Nat /\ Len(t) \in Nat /\ Len(s) <= Len(t)
    BY <1>1, <1>5, TextIs DEF Text, Names, IsPrefix
  <2>3. bt[Len(s) + 1] = Len(p) + 1 /\ bt[Len(t) + 1] = Len(q) + 1
    BY <1>2, <1>3, <2>1 DEF Cuts
  <2>4. Len(s) = Len(t) \/ Len(s) + 1 \in 1..Len(t)
    BY <2>2
  <2>5. Len(s) + 1 \in 1..Len(t) => q[Len(p) + 1] = "/"
    BY <1>3, <2>3 DEF Cuts
  <2>6. Len(p) <= Len(q)
    <3>1. Len(p) = 0 \/ Len(p) \in 1..Len(p)
      BY <2>2
    <3> QED
      BY <2>1, <2>2, <3>1
  <2> QED
    BY <2>1, <2>2, <2>3, <2>4, <2>5, <2>6 DEF Continues
<1> QED
  BY <1>4, <1>5

(* The root is one slash. *)
LEMMA RootIs == Len(Root) = 1 /\ Root[1] = "/" /\ Root \in Text /\ Root # <<>>
<1>1. "/" \in Pieces
  BY DEF Pieces
<1> QED
  BY <1>1 DEF Root, Text

(* What pathPrefixMatches compares. *)
LEMMA PrefixMatches ==
  ASSUME NEW path \in Text, NEW prefix \in Text, NEW s, NEW t,
         path # <<>>, prefix # <<>>,
         Splits(Spelled(prefix), s), Splits(Spelled(path), t)
  PROVE  pathPrefixMatches(prefix, path) <=> IsPrefix(s, t)
<1> DEFINE p == Spelled(prefix)
           q == Spelled(path)
<1>1. p \in Text /\ q \in Text /\ Len(p) \in Nat /\ Len(q) \in Nat
  BY TextIs DEF Splits, Text
<1>2. Len(q) > 0 => q[1] = "/"
  <2>1. PICK bt \in [1..(Len(t) + 1) -> Nat] : Cuts(q, t, bt)
    BY DEF Splits
  <2>2. t \in Names /\ Len(t) \in Nat
    BY TextIs DEF Splits, Names
  <2>3. Len(t) = 0 \/ 1 \in 1..Len(t)
    BY <2>2
  <2> QED
    BY <1>1, <2>1, <2>3 DEF Cuts
<1>3. Len(Root) = 1 /\ Root[1] = "/" /\ Root \in Text
  BY RootIs
<1>4. CASE prefix = Root
  <2>1. p = <<>> /\ Len(p) = 0
    BY <1>4 DEF Spelled
  <2>2. Continues(p, q)
    BY <1>1, <1>2, <2>1 DEF Continues
  <2> QED
    BY <1>4, <2>2, Matching DEF pathPrefixMatches
<1>5. CASE prefix # Root /\ path = Root
  <2>1. q = <<>> /\ Len(q) = 0 /\ p = prefix /\ Len(p) # 0
    BY <1>5, EmptySeq DEF Spelled, Text
  <2>2. ~Continues(p, q)
    BY <1>1, <2>1 DEF Continues
  <2>3. Len(prefix \o Root) = Len(prefix) + 1 /\ Len(prefix) \in Nat
    BY <1>1, <1>3, <2>1, ConcatProperties, SMTT(30) DEF Text
  <2>4. ~pathPrefixMatches(prefix, path)
    BY <1>1, <1>3, <1>5, <2>1, <2>3 DEF pathPrefixMatches, IsPrefix
  <2> QED
    BY <2>2, <2>4, Matching
<1>6. CASE prefix # Root /\ path # Root
  <2>1. p = prefix /\ q = path
    BY <1>6 DEF Spelled
  <2> DEFINE w == prefix \o Root
  <2>2. /\ w \in Text /\ Len(w) = Len(p) + 1 /\ w[Len(p) + 1] = "/"
        /\ \A i \in 1..Len(p) : w[i] = p[i]
    <3>1. /\ w \in Text /\ Len(w) = Len(p) + Len(Root)
          /\ \A i \in 1..(Len(p) + Len(Root)) : w[i] = IF i <= Len(p) THEN p[i] ELSE Root[i - Len(p)]
      <4>1. prefix \in Seq(Pieces) /\ Root \in Seq(Pieces)
        BY <1>3 DEF Text
      <4>2. p = prefix
        BY <2>1
      <4> HIDE DEF p
      <4> QED
        BY <4>1, <4>2, ConcatProperties DEF Text
    <3> QED
      BY <1>1, <1>3, <3>1
  <2> HIDE DEF p, q, w
  <2>3. IsPrefix(w, q) <=> Len(w) <= Len(q) /\ \A i \in 1..Len(w) : w[i] = q[i]
    <3>1. ASSUME Len(w) <= Len(q)
          PROVE  /\ SubSeq(w, 1, Len(w)) \in Text /\ SubSeq(q, 1, Len(w)) \in Text
                 /\ Len(SubSeq(w, 1, Len(w))) = Len(w) /\ Len(SubSeq(q, 1, Len(w))) = Len(w)
                 /\ \A i \in 1..Len(w) : SubSeq(w, 1, Len(w))[i] = w[i] /\ SubSeq(q, 1, Len(w))[i] = q[i]
      <4>1. \A i \in 1..Len(w) : w[i] \in Pieces /\ q[i] \in Pieces
        BY <1>1, <2>2, <3>1 DEF Text
      <4>2. 1 \in Int /\ Len(w) \in Int /\ Len(w) >= 1
        BY <1>1, <2>2
      <4>3. /\ SubSeq(w, 1, Len(w)) \in Seq(Pieces) /\ SubSeq(q, 1, Len(w)) \in Seq(Pieces)
            /\ Len(SubSeq(w, 1, Len(w))) = Len(w) - 1 + 1
            /\ Len(SubSeq(q, 1, Len(w))) = Len(w) - 1 + 1
            /\ \A i \in 1..(Len(w) - 1 + 1) : /\ SubSeq(w, 1, Len(w))[i] = w[1 + i - 1]
                                              /\ SubSeq(q, 1, Len(w))[i] = q[1 + i - 1]
        BY <4>1, <4>2, SubSeqProperties
      <4> QED
        BY <4>2, <4>3 DEF Text
    <3>2. ASSUME Len(w) <= Len(q)
          PROVE  SubSeq(w, 1, Len(w)) = SubSeq(q, 1, Len(w)) <=> \A i \in 1..Len(w) : w[i] = q[i]
      <4>1. ASSUME \A i \in 1..Len(w) : w[i] = q[i] PROVE SubSeq(w, 1, Len(w)) = SubSeq(q, 1, Len(w))
        <5>1. \A i \in 1..Len(SubSeq(w, 1, Len(w))) : SubSeq(w, 1, Len(w))[i] = SubSeq(q, 1, Len(w))[i]
          BY <3>1, <3>2, <4>1
        <5> QED
          BY <5>1, <3>1, <3>2, SeqEqual DEF Text
      <4> QED
        BY <4>1, <3>1, <3>2
    <3> QED
      BY <3>2 DEF IsPrefix
  <2>4. Continues(p, q) <=> q = p \/ IsPrefix(w, q)
    <3>1. ASSUME q = p PROVE Continues(p, q)
      BY <1>1, <3>1 DEF Continues
    <3>2. ASSUME IsPrefix(w, q) PROVE Continues(p, q)
      <4>1. Len(w) <= Len(q) /\ \A i \in 1..Len(w) : w[i] = q[i]
        BY <2>3, <3>2
      <4>2. Len(p) + 1 \in 1..Len(w) /\ \A i \in 1..Len(p) : i \in 1..Len(w)
        BY <1>1, <2>2
      <4> QED
        BY <1>1, <2>2, <4>1, <4>2 DEF Continues
    <3>3. ASSUME Continues(p, q), Len(p) < Len(q) PROVE IsPrefix(w, q)
      <4>1. \A i \in 1..Len(w) : w[i] = q[i]
        <5> TAKE i \in 1..Len(w)
        <5>1. i \in 1..Len(p) \/ i = Len(p) + 1
          BY <1>1, <2>2
        <5> QED
          BY <5>1, <2>2, <3>3 DEF Continues
      <4> QED
        BY <1>1, <2>2, <2>3, <3>3, <4>1
    <3>4. ASSUME Continues(p, q), ~(Len(p) < Len(q)) PROVE q = p
      <4>1. Len(p) = Len(q) /\ \A i \in 1..Len(p) : p[i] = q[i]
        BY <1>1, <3>4 DEF Continues
      <4> QED
        BY <1>1, <4>1, SeqEqual DEF Text
    <3> QED
      BY <3>1, <3>2, <3>3, <3>4
  <2>5. pathPrefixMatches(prefix, path) <=> q = p \/ IsPrefix(w, q)
    BY <1>6, <2>1 DEF pathPrefixMatches, w
  <2>6. IsPrefix(s, t) <=> Continues(p, q)
    BY Matching DEF p, q
  <2> QED
    BY <2>4, <2>5, <2>6
<1> QED
  BY <1>4, <1>5, <1>6

(* The same pieces, further behind in another text. *)
LEMMA SameSub ==
  ASSUME NEW p \in Text, NEW w \in Text, NEW i \in Nat, NEW j \in Nat, NEW d \in Nat,
         \A x \in i..j : x \in 1..Len(p) /\ x + d \in 1..Len(w) /\ p[x] = w[x + d]
  PROVE  SubSeq(p, i, j) = SubSeq(w, i + d, j + d)
<1>1. \A x \in i..j : p[x] \in Pieces
  BY DEF Text
<1>2. \A x \in (i + d)..(j + d) : w[x] \in Pieces
  <2> TAKE x \in (i + d)..(j + d)
  <2>1. x - d \in i..j /\ (x - d) + d = x
    OBVIOUS
  <2>2. w[(x - d) + d] \in Pieces
    BY <2>1 DEF Text
  <2> QED
    BY <2>1, <2>2
<1>3. /\ SubSeq(p, i, j) \in Text
      /\ Len(SubSeq(p, i, j)) = IF i <= j THEN j - i + 1 ELSE 0
      /\ \A x \in 1..(j - i + 1) : SubSeq(p, i, j)[x] = p[i + x - 1]
  <2>1. i \in Int /\ j \in Int
    OBVIOUS
  <2> QED
    BY <1>1, <2>1, SubSeqProperties DEF Text
<1>4. /\ SubSeq(w, i + d, j + d) \in Text
      /\ Len(SubSeq(w, i + d, j + d)) = IF i + d <= j + d THEN (j + d) - (i + d) + 1 ELSE 0
      /\ \A x \in 1..((j + d) - (i + d) + 1) : SubSeq(w, i + d, j + d)[x] = w[(i + d) + x - 1]
  <2>1. i + d \in Int /\ j + d \in Int
    OBVIOUS
  <2> QED
    BY <1>2, <2>1, SubSeqProperties DEF Text
<1>5. Len(SubSeq(p, i, j)) = Len(SubSeq(w, i + d, j + d))
  <2>1. (i <= j <=> i + d <= j + d) /\ (j + d) - (i + d) + 1 = j - i + 1
    OBVIOUS
  <2> QED
    BY <2>1, <1>3, <1>4
<1>6. ASSUME NEW x \in 1..Len(SubSeq(p, i, j))
      PROVE  SubSeq(p, i, j)[x] = SubSeq(w, i + d, j + d)[x]
  <2>1. x \in 1..(j - i + 1)
    BY <1>3
  <2>2. x \in 1..((j + d) - (i + d) + 1) /\ i + x - 1 \in i..j /\ (i + d) + x - 1 = (i + x - 1) + d
    BY <2>1
  <2>3. SubSeq(p, i, j)[x] = p[i + x - 1]
    BY <1>3, <2>1
  <2>4. SubSeq(w, i + d, j + d)[x] = w[(i + x - 1) + d]
    BY <1>4, <2>2
  <2> QED
    BY <2>2, <2>3, <2>4
<1> QED
  BY <1>3, <1>4, <1>5, <1>6, SeqEqual DEF Text

(* Two texts next to each other, and their names. *)
LEMMA SplitsConcat ==
  ASSUME NEW p, NEW q, NEW s, NEW t, Splits(p, s), Splits(q, t)
  PROVE  Splits(p \o q, s \o t)
<1>1. /\ p \in Text /\ q \in Text /\ s \in Names /\ t \in Names
      /\ Len(p) \in Nat /\ Len(q) \in Nat /\ Len(s) \in Nat /\ Len(t) \in Nat
  BY TextIs DEF Splits, Text, Names
<1>2. PICK at \in [1..(Len(s) + 1) -> Nat] : Cuts(p, s, at)
  BY DEF Splits
<1>3. PICK bt \in [1..(Len(t) + 1) -> Nat] : Cuts(q, t, bt)
  BY DEF Splits
<1> DEFINE w == p \o q
           u == s \o t
           P == Len(p)
           K == Len(s)
           M == Len(t)
           ct == [k \in 1..(K + M + 1) |-> IF k <= K THEN at[k] ELSE P + bt[k - K]]
<1>4. /\ w \in Text /\ Len(w) = P + Len(q)
      /\ \A i \in 1..(P + Len(q)) : w[i] = IF i <= P THEN p[i] ELSE q[i - P]
  BY <1>1, ConcatProperties DEF Text
<1>5. /\ u \in Names /\ Len(u) = K + M
      /\ \A k \in 1..(K + M) : u[k] = IF k <= K THEN s[k] ELSE t[k - K]
  BY <1>1, ConcatProperties DEF Names
<1>6. /\ at[1] = 1 /\ at[K + 1] = P + 1
      /\ \A k \in 1..(K + 1) : 1 <= at[k] /\ at[k] <= P + 1 /\ at[k] \in Nat
      /\ \A k \in 1..K : at[k] \in 1..P /\ at[k + 1] \in (at[k] + 1)..(P + 1)
  BY <1>1, <1>2, CutsOrder
<1>7. /\ bt[1] = 1 /\ bt[M + 1] = Len(q) + 1
      /\ \A k \in 1..(M + 1) : 1 <= bt[k] /\ bt[k] <= Len(q) + 1 /\ bt[k] \in Nat
      /\ \A k \in 1..M : bt[k] \in 1..Len(q) /\ bt[k + 1] \in (bt[k] + 1)..(Len(q) + 1)
  BY <1>1, <1>3, CutsOrder
<1>8. P \in Nat /\ K \in Nat /\ M \in Nat
  BY <1>1
<1>9. /\ \A k \in 1..K : /\ p[at[k]] = "/" /\ s[k] = SubSeq(p, at[k] + 1, at[k + 1] - 1)
                         /\ \A i \in (at[k] + 1)..(at[k + 1] - 1) : p[i] # "/"
      /\ \A k, m \in 1..(K + 1) : k < m => at[k] < at[m]
  BY <1>2 DEF Cuts
<1>10. /\ \A k \in 1..M : /\ q[bt[k]] = "/" /\ t[k] = SubSeq(q, bt[k] + 1, bt[k + 1] - 1)
                          /\ \A i \in (bt[k] + 1)..(bt[k + 1] - 1) : q[i] # "/"
       /\ \A k, m \in 1..(M + 1) : k < m => bt[k] < bt[m]
  BY <1>3 DEF Cuts
<1> HIDE DEF P, K, M
<1>11. ASSUME NEW k \in 1..(K + 1) PROVE ct[k] = at[k] /\ k \in 1..(K + M + 1)
  <2>1. k \in 1..(K + M + 1)
    BY <1>8
  <2>2. CASE k <= K
    BY <2>1, <2>2
  <2>3. CASE k = K + 1
    <3>1. ct[k] = P + bt[k - K] /\ k - K = 1
      BY <2>1, <2>3, <1>8
    <3> QED
      BY <2>1, <2>3, <3>1, <1>6, <1>7
  <2> QED
    BY <2>2, <2>3, <1>8
<1>12. ASSUME NEW k \in (K + 1)..(K + M + 1)
       PROVE  ct[k] = P + bt[k - K] /\ k \in 1..(K + M + 1) /\ k - K \in 1..(M + 1)
  BY <1>8
<1> HIDE DEF ct
<1>13. ct \in [1..(K + M + 1) -> Nat]
  <2>1. ASSUME NEW k \in 1..(K + M + 1) PROVE ct[k] \in Nat
    <3>1. CASE k \in 1..(K + 1)
      BY <3>1, <1>6, <1>11
    <3>2. CASE k \in (K + 1)..(K + M + 1)
      <4>1. ct[k] = P + bt[k - K] /\ bt[k - K] \in Nat
        BY <3>2, <1>7, <1>12
      <4> QED
        BY <4>1, <1>8
    <3> QED
      BY <3>1, <3>2, <1>8
  <2> QED
    BY <2>1 DEF ct
<1>14. ct[1] = 1 /\ ct[K + M + 1] = (P + Len(q)) + 1
  <2>1. 1 \in 1..(K + 1) /\ K + M + 1 \in (K + 1)..(K + M + 1) /\ (K + M + 1) - K = M + 1
    BY <1>8
  <2>2. ct[1] = at[1] /\ ct[K + M + 1] = P + bt[M + 1]
    BY <2>1, <1>11, <1>12
  <2> QED
    BY <2>2, <1>1, <1>6, <1>7, <1>8
<1>15. ASSUME NEW k \in 1..(K + M + 1), NEW m \in 1..(K + M + 1), k < m PROVE ct[k] < ct[m]
  <2>1. CASE m <= K + 1
    BY <2>1, <1>8, <1>9, <1>11, <1>15
  <2>2. CASE k >= K + 1
    <3>1. k \in (K + 1)..(K + M + 1) /\ m \in (K + 1)..(K + M + 1) /\ k - K < m - K
      BY <2>2, <1>8, <1>15
    <3>2. /\ ct[k] = P + bt[k - K] /\ k - K \in 1..(M + 1)
          /\ ct[m] = P + bt[m - K] /\ m - K \in 1..(M + 1)
      BY <3>1, <1>12
    <3>3. bt[k - K] < bt[m - K] /\ bt[k - K] \in Nat /\ bt[m - K] \in Nat
      BY <3>1, <3>2, <1>7, <1>10
    <3> QED
      <4>1. ct[k] = P + bt[k - K] /\ ct[m] = P + bt[m - K]
        BY <3>2
      <4> DEFINE x == bt[k - K]
                 y == bt[m - K]
      <4>2. x < y /\ x \in Nat /\ y \in Nat /\ P \in Nat
        BY <3>3, <1>8
      <4> HIDE DEF x, y
      <4>3. P + x < P + y
        BY <4>2
      <4> QED
        BY <4>1, <4>3 DEF x, y
  <2>3. CASE k <= K /\ m > K + 1
    <3>1. k \in 1..(K + 1) /\ K + 1 \in 1..(K + 1) /\ k < K + 1
          /\ m \in (K + 1)..(K + M + 1) /\ m - K > 1
      BY <2>3, <1>8
    <3>2. ct[k] = at[k] /\ at[k] < at[K + 1]
      BY <3>1, <1>9, <1>11
    <3>3. ct[m] = P + bt[m - K] /\ m - K \in 1..(M + 1) /\ 1 \in 1..(M + 1)
      BY <3>1, <1>8, <1>12
    <3>4. bt[1] < bt[m - K]
      BY <3>1, <3>3, <1>10
    <3> DEFINE y == bt[m - K]
    <3>5. y \in Nat /\ 1 < y /\ ct[m] = P + y
      BY <3>3, <3>4, <1>7
    <3>6. ct[k] \in Nat /\ ct[k] < P + 1
      BY <3>1, <3>2, <1>6
    <3> HIDE DEF y
    <3>7. P + 1 < P + y
      BY <3>5, <1>8
    <3> QED
      BY <3>5, <3>6, <3>7, <1>8
  <2> QED
    BY <2>1, <2>2, <2>3, <1>8
<1>16. ASSUME NEW k \in 1..K
       PROVE  /\ w[ct[k]] = "/" /\ u[k] = SubSeq(w, ct[k] + 1, ct[k + 1] - 1)
              /\ \A i \in (ct[k] + 1)..(ct[k + 1] - 1) : w[i] # "/"
  <2> DEFINE a == at[k]
             b == at[k + 1]
  <2>1. k \in 1..(K + 1) /\ k + 1 \in 1..(K + 1) /\ k \in 1..(K + M) /\ k <= K
    BY <1>8
  <2>2. ct[k] = a /\ ct[k + 1] = b
    BY <2>1, <1>11
  <2>3. a \in 1..P /\ b \in (a + 1)..(P + 1)
    BY <1>6
  <2>4. /\ p[a] = "/" /\ s[k] = SubSeq(p, a + 1, b - 1)
        /\ \A i \in (a + 1)..(b - 1) : p[i] # "/"
    BY <1>9
  <2> HIDE DEF a, b
  <2>5. \A i \in 1..P : i \in 1..(P + Len(q)) /\ w[i] = p[i]
    BY <1>1, <1>4, <1>8
  <2>6. \A i \in (a + 1)..(b - 1) : i \in 1..P
    BY <2>3, <1>8
  <2>7. SubSeq(p, a + 1, b - 1) = SubSeq(w, a + 1, b - 1)
    <3>1. a + 1 \in Nat /\ b - 1 \in Nat /\ (a + 1) + 0 = a + 1 /\ (b - 1) + 0 = b - 1
      BY <2>3, <1>8
    <3>2. \A i \in (a + 1)..(b - 1) : i \in 1..Len(p) /\ i + 0 \in 1..Len(w) /\ p[i] = w[i + 0]
      <4> TAKE i \in (a + 1)..(b - 1)
      <4>1. i \in 1..P /\ i + 0 = i
        BY <2>6
      <4> QED
        BY <4>1, <2>5, <1>4 DEF P
    <3> DEFINE i0 == a + 1
               j0 == b - 1
               d0 == 0
    <3>4. i0 \in Nat /\ j0 \in Nat /\ d0 \in Nat /\ i0 + d0 = a + 1 /\ j0 + d0 = b - 1
      BY <3>1
    <3>5. \A i \in i0..j0 : i \in 1..Len(p) /\ i + d0 \in 1..Len(w) /\ p[i] = w[i + d0]
      BY <3>2
    <3>6. p \in Text /\ w \in Text
      BY <1>1, <1>4
    <3> HIDE DEF i0, j0, d0, w
    <3>3. SubSeq(p, i0, j0) = SubSeq(w, i0 + d0, j0 + d0)
      BY <3>4, <3>5, <3>6, SameSub
    <3> QED
      BY <3>3, <3>4 DEF i0, j0
  <2>8. u[k] = s[k]
    BY <1>5, <2>1
  <2> QED
    BY <2>2, <2>3, <2>4, <2>5, <2>6, <2>7, <2>8
<1>17. ASSUME NEW k \in (K + 1)..(K + M)
       PROVE  /\ w[ct[k]] = "/" /\ u[k] = SubSeq(w, ct[k] + 1, ct[k + 1] - 1)
              /\ \A i \in (ct[k] + 1)..(ct[k + 1] - 1) : w[i] # "/"
  <2> DEFINE m == k - K
             a == bt[m]
             b == bt[m + 1]
  <2>1. /\ m \in 1..M /\ k \in (K + 1)..(K + M + 1) /\ k + 1 \in (K + 1)..(K + M + 1)
        /\ (k + 1) - K = m + 1 /\ k \in 1..(K + M) /\ ~(k <= K)
    BY <1>8
  <2>2. ct[k] = P + a /\ ct[k + 1] = P + b
    BY <2>1, <1>12
  <2>3. a \in 1..Len(q) /\ b \in (a + 1)..(Len(q) + 1)
    BY <2>1, <1>7
  <2>4. /\ q[a] = "/" /\ t[m] = SubSeq(q, a + 1, b - 1)
        /\ \A i \in (a + 1)..(b - 1) : q[i] # "/"
    BY <2>1, <1>10
  <2>8. u[k] = t[m]
    BY <1>5, <2>1
  <2> HIDE DEF a, b, m
  <2>5. \A i \in 1..Len(q) : i + P \in 1..(P + Len(q)) /\ w[i + P] = q[i]
    <3> TAKE i \in 1..Len(q)
    <3>1. i + P \in 1..(P + Len(q)) /\ ~(i + P <= P) /\ (i + P) - P = i
      BY <1>1, <1>8
    <3> QED
      BY <3>1, <1>4
  <2>6. \A i \in (a + 1)..(b - 1) : i \in 1..Len(q)
    BY <2>3, <1>1
  <2>7. SubSeq(q, a + 1, b - 1) = SubSeq(w, ct[k] + 1, ct[k + 1] - 1)
    <3>1. a + 1 \in Nat /\ b - 1 \in Nat /\ (a + 1) + P = ct[k] + 1 /\ (b - 1) + P = ct[k + 1] - 1
      BY <2>2, <2>3, <1>1, <1>8
    <3>2. \A i \in (a + 1)..(b - 1) : i \in 1..Len(q) /\ i + P \in 1..Len(w) /\ q[i] = w[i + P]
      BY <2>5, <2>6, <1>4
    <3> DEFINE i0 == a + 1
               j0 == b - 1
    <3>4. i0 \in Nat /\ j0 \in Nat /\ P \in Nat /\ i0 + P = ct[k] + 1 /\ j0 + P = ct[k + 1] - 1
      BY <3>1, <1>8
    <3>5. \A i \in i0..j0 : i \in 1..Len(q) /\ i + P \in 1..Len(w) /\ q[i] = w[i + P]
      BY <3>2
    <3>6. q \in Text /\ w \in Text
      BY <1>1, <1>4
    <3> HIDE DEF i0, j0, w
    <3>3. SubSeq(q, i0, j0) = SubSeq(w, i0 + P, j0 + P)
      BY <3>4, <3>5, <3>6, SameSub
    <3> QED
      BY <3>3, <3>4 DEF i0, j0
  <2>9. ASSUME NEW i \in (ct[k] + 1)..(ct[k + 1] - 1) PROVE w[i] # "/"
    <3>1. i - P \in (a + 1)..(b - 1) /\ (i - P) + P = i
      BY <2>2, <2>3, <1>1, <1>8
    <3>2. w[(i - P) + P] = q[i - P] /\ q[i - P] # "/"
      BY <3>1, <2>4, <2>5, <2>6
    <3> QED
      BY <3>1, <3>2
  <2>10. w[ct[k]] = "/"
    <3>1. a + P = ct[k]
      BY <2>2, <2>3, <1>8
    <3> QED
      BY <2>3, <2>4, <2>5, <3>1
  <2> QED
    BY <2>4, <2>7, <2>8, <2>9, <2>10
<1>18. Cuts(w, u, ct)
  <2>1. \A k \in 1..(K + M) : k \in 1..K \/ k \in (K + 1)..(K + M)
    BY <1>8
  <2> HIDE DEF w, u
  <2> QED
    BY <2>1, <1>4, <1>5, <1>14, <1>15, <1>16, <1>17 DEF Cuts
<1>19. Len(w) > 0 => w[Len(w)] # "/"
  <2>1. /\ Len(p) > 0 => p[Len(p)] # "/"
        /\ Len(q) > 0 => q[Len(q)] # "/"
    BY DEF Splits
  <2>2. CASE Len(q) = 0
    <3>1. Len(w) = P
      BY <2>2, <1>4, <1>8
    <3> QED
      BY <2>1, <2>2, <3>1, <1>4, <1>8 DEF P
  <2>3. CASE Len(q) > 0
    <3>1. P + Len(q) \in 1..(P + Len(q)) /\ ~(P + Len(q) <= P) /\ (P + Len(q)) - P = Len(q)
      BY <2>3, <1>1, <1>8
    <3> QED
      BY <2>1, <2>3, <3>1, <1>4
  <2> QED
    BY <2>2, <2>3, <1>1
<1> QED
  <2>1. \E c \in [1..(Len(u) + 1) -> Nat] : Cuts(w, u, c)
    BY <1>5, <1>13, <1>18
  <2> QED
    BY <2>1, <1>4, <1>5, <1>19 DEF Splits

(* How many of a set of numbers are below a number. *)
Rank(B, i) == Cardinality({j \in B : j < i})

LEMMA RankStep ==
  ASSUME NEW B \in SUBSET Nat, IsFiniteSet(B), NEW i \in Nat
  PROVE  Rank(B, i) \in Nat /\ Rank(B, i + 1) = Rank(B, i) + IF i \in B THEN 1 ELSE 0
<1> DEFINE S == {j \in B : j < i}
<1>0. \A j \in B : j \in Nat
  OBVIOUS
<1>1. S \in SUBSET B /\ i \notin S
  OBVIOUS
<1>2. IsFiniteSet(S) /\ Cardinality(S) \in Nat
  BY <1>1, FS_Subset, FS_CardinalityType
<1>3. CASE i \in B
  <2>1. {j \in B : j < i + 1} = S \cup {i}
    <3>1. \A j \in B : j < i + 1 <=> j < i \/ j = i
      BY <1>0
    <3> QED
      BY <1>3, <3>1
  <2>2. Cardinality(S \cup {i}) = Cardinality(S) + 1
    BY <1>1, <1>2, FS_AddElement
  <2> QED
    BY <1>2, <1>3, <2>1, <2>2 DEF Rank
<1>4. CASE i \notin B
  <2>1. {j \in B : j < i + 1} = S
    <3>1. \A j \in B : j < i + 1 <=> j < i
      BY <1>0, <1>4
    <3> QED
      BY <3>1
  <2> QED
    BY <1>2, <1>4, <2>1 DEF Rank
<1> QED
  BY <1>3, <1>4

LEMMA RankGrows ==
  ASSUME NEW B \in SUBSET Nat, IsFiniteSet(B), NEW i \in Nat, NEW j \in Nat, i <= j
  PROVE  Rank(B, i) <= Rank(B, j)
<1>1. {x \in B : x < i} \in SUBSET {x \in B : x < j}
  <2>1. \A x \in B : x \in Nat
    OBVIOUS
  <2>2. \A x \in B : x < i => x < j
    BY <2>1
  <2> QED
    BY <2>2
<1>2. IsFiniteSet({x \in B : x < j})
  BY FS_Subset
<1> QED
  BY <1>1, <1>2, FS_Subset DEF Rank

(* The elements of a set below a number, numbered in their order. *)
LEMMA Ranks ==
  ASSUME NEW L \in Nat, NEW B \in SUBSET (0..(L - 1))
  PROVE  /\ IsFiniteSet(B) /\ Cardinality(B) \in Nat /\ Rank(B, L) = Cardinality(B)
         /\ \A k \in 0..(Cardinality(B) - 1) : \E i \in B : Rank(B, i) = k
         /\ \A i, j \in B \cup {L} : i < j => Rank(B, i) < Rank(B, j)
<1>1. IsFiniteSet(B) /\ B \in SUBSET Nat
  <2>1. 0 \in Int /\ L - 1 \in Int
    OBVIOUS
  <2>2. IsFiniteSet(0..(L - 1))
    BY <2>1, FS_Interval
  <2>3. \A x \in 0..(L - 1) : x \in Nat /\ x < L
    OBVIOUS
  <2> QED
    BY <2>2, <2>3, FS_Subset
<1>0. \A x \in B : x \in Nat /\ x < L
  OBVIOUS
<1>2. Cardinality(B) \in Nat
  BY <1>1, FS_CardinalityType
<1>3. Rank(B, L) = Cardinality(B)
  <2>1. {j \in B : j < L} = B
    BY <1>0
  <2> QED
    BY <2>1 DEF Rank
<1>4. ASSUME NEW k \in 0..(Cardinality(B) - 1) PROVE \E i \in B : Rank(B, i) = k
  <2> DEFINE T == {i \in Nat : Rank(B, i) > k}
  <2>1. L \in T
    BY <1>2, <1>3
  <2>2. PICK m \in T : \A x \in T : m <= x
    <3>1. T \in SUBSET Nat /\ T # {}
      BY <2>1
    <3> HIDE DEF T
    <3> QED
      BY <3>1, LeastOf
  <2>3. m # 0
    <3>1. {j \in B : j < 0} = {}
      <4>1. \A j \in B : ~(j < 0)
        BY <1>0
      <4> QED
        BY <4>1
    <3>2. Rank(B, 0) = 0
      BY <3>1, FS_EmptySet DEF Rank
    <3> QED
      BY <2>2, <3>2
  <2> DEFINE i == m - 1
  <2>4. i \in Nat /\ i + 1 = m /\ i \notin T
    BY <2>2, <2>3
  <2>5. Rank(B, i) \in Nat /\ Rank(B, m) = Rank(B, i) + IF i \in B THEN 1 ELSE 0
    BY <1>1, <2>4, RankStep
  <2> HIDE DEF i
  <2>6. Rank(B, m) > k /\ ~(Rank(B, i) > k)
    BY <2>2, <2>4
  <2> HIDE DEF T
  <2>7. i \in B
    BY <2>5, <2>6
  <2>8. Rank(B, i) = k
    BY <2>5, <2>6, <2>7
  <2> QED
    BY <2>7, <2>8
<1>5. ASSUME NEW i \in B \cup {L}, NEW j \in B \cup {L}, i < j PROVE Rank(B, i) < Rank(B, j)
  <2>1. i \in B /\ i \in Nat /\ j \in Nat /\ i + 1 <= j /\ i + 1 \in Nat
    BY <1>0, <1>5
  <2>2. Rank(B, i) \in Nat /\ Rank(B, i + 1) = Rank(B, i) + 1 /\ Rank(B, j) \in Nat
    BY <1>1, <2>1, RankStep
  <2>3. Rank(B, i + 1) <= Rank(B, j)
    BY <1>1, <2>1, RankGrows
  <2> QED
    BY <2>2, <2>3
<1> QED
  BY <1>1, <1>2, <1>3, <1>4, <1>5

(* Where the slashes at the end of a path begin. *)
Trimmed(path, k) ==
    /\ k \in 0..Len(path)
    /\ k > 0 => path[k] # "/"
    /\ \A m \in (k + 1)..Len(path) : path[m] = "/"

LEMMA TrimmedAt ==
  ASSUME NEW path \in Text
  PROVE  /\ \E k \in 0..Len(path) : Trimmed(path, k)
         /\ \A k, m : Trimmed(path, k) /\ Trimmed(path, m) => k = m
<1>1. Len(path) \in Nat
  BY TextIs DEF Text
<1> DEFINE T == {k \in 0..Len(path) : \A m \in (k + 1)..Len(path) : path[m] = "/"}
<1>2. Len(path) \in T /\ T \in SUBSET Nat
  BY <1>1
<1>3. PICK k \in T : \A x \in T : k <= x
  <2> HIDE DEF T
  <2> QED
    BY <1>2, LeastOf
<1>4. Trimmed(path, k)
  <2> SUFFICES ASSUME k > 0, path[k] = "/" PROVE FALSE
    BY <1>3 DEF Trimmed
  <2>1. k \in 1..Len(path) /\ \A m \in (k + 1)..Len(path) : path[m] = "/"
    BY <1>1, <1>3
  <2>2. \A m \in ((k - 1) + 1)..Len(path) : m = k \/ m \in (k + 1)..Len(path)
    BY <2>1
  <2>3. k - 1 \in T
    BY <2>1, <2>2
  <2> QED
    BY <2>1, <2>3, <1>3, SMTT(30)
<1>5. ASSUME NEW i, NEW j, Trimmed(path, i), Trimmed(path, j) PROVE ~(i < j)
  <2>1. i \in 0..Len(path) /\ j \in 0..Len(path) /\ (j > 0 => path[j] # "/")
        /\ \A m \in (i + 1)..Len(path) : path[m] = "/"
    BY <1>5 DEF Trimmed
  <2> SUFFICES ASSUME i < j PROVE FALSE
    OBVIOUS
  <2>2. j \in (i + 1)..Len(path) /\ j > 0
    BY <1>1, <2>1
  <2> QED
    BY <2>1, <2>2
<1>6. ASSUME NEW i, NEW j, Trimmed(path, i), Trimmed(path, j) PROVE i = j
  <2>1. ~(i < j) /\ ~(j < i)
    BY <1>5, <1>6
  <2> QED
    BY <1>1, <1>6, <2>1 DEF Trimmed
<1> QED
  BY <1>3, <1>4, <1>6

(* The slashes at the end of a path that stands behind another text. *)
LEMMA TrimmedBehind ==
  ASSUME NEW w \in Text, NEW path \in Text, NEW k, Trimmed(path, k),
         k > 0 \/ Len(w) = 0 \/ w[Len(w)] # "/"
  PROVE  /\ Trimmed(w \o path, Len(w) + k)
         /\ SubSeq(w \o path, 1, Len(w) + k) = w \o SubSeq(path, 1, k)
<1> DEFINE W == Len(w)
           P == Len(path)
           v == w \o path
<1>1. W \in Nat /\ P \in Nat
  BY TextIs DEF Text
<1>2. /\ v \in Text /\ Len(v) = W + P
      /\ \A i \in 1..(W + P) : v[i] = IF i <= W THEN w[i] ELSE path[i - W]
  BY ConcatProperties DEF Text
<1>3. /\ k \in 0..P /\ (k > 0 => path[k] # "/")
      /\ \A m \in (k + 1)..P : path[m] = "/"
  BY DEF Trimmed
<1>4. k > 0 \/ W = 0 \/ w[W] # "/"
  OBVIOUS
<1> HIDE DEF W, P, v
<1>5. W + k \in 0..(W + P)
  BY <1>1, <1>3
<1>6. W + k > 0 => v[W + k] # "/"
  <2>1. CASE k > 0
    <3>1. W + k \in 1..(W + P) /\ ~(W + k <= W) /\ (W + k) - W = k
      BY <1>1, <1>3, <2>1
    <3> QED
      BY <3>1, <1>2, <1>3, <2>1
  <2>2. CASE k = 0
    <3>1. W + k = W /\ (W > 0 => W \in 1..(W + P))
      BY <1>1, <2>2
    <3>2. W > 0 => v[W] = w[W]
      BY <3>1, <1>1, <1>2
    <3> QED
      BY <1>1, <3>1, <3>2, <1>4, <2>2
  <2> QED
    BY <2>1, <2>2, <1>3
<1>7. ASSUME NEW m \in (W + k + 1)..(W + P) PROVE v[m] = "/"
  <2>1. m \in 1..(W + P) /\ ~(m <= W) /\ m - W \in (k + 1)..P
    BY <1>1, <1>3
  <2> QED
    BY <2>1, <1>2, <1>3
<1>8. Trimmed(v, W + k)
  BY <1>2, <1>5, <1>6, <1>7 DEF Trimmed
<1>9. SubSeq(v, 1, W + k) = w \o SubSeq(path, 1, k)
  <2> DEFINE head == SubSeq(path, 1, k)
             e == W + k
  <2>1. head \in Text /\ Len(head) = k /\ \A i \in 1..k : head[i] = path[i]
    <3>1. 1 \in Int /\ k \in Int /\ \A i \in 1..k : path[i] \in Pieces
      BY <1>1, <1>3 DEF Text, P
    <3>2. /\ head \in Seq(Pieces) /\ Len(head) = IF 1 <= k THEN k - 1 + 1 ELSE 0
          /\ \A i \in 1..(k - 1 + 1) : head[i] = path[1 + i - 1]
      BY <3>1, SubSeqProperties
    <3> QED
      BY <1>3, <3>2 DEF Text
  <2> HIDE DEF head
  <2>2. /\ w \o head \in Text /\ Len(w \o head) = W + k
        /\ \A i \in 1..(W + k) : (w \o head)[i] = IF i <= W THEN w[i] ELSE head[i - W]
    BY <2>1, ConcatProperties DEF Text, W
  <2>3. e \in Nat /\ e <= W + P /\ e = W + k
    BY <1>1, <1>3
  <2> HIDE DEF e
  <2>4. SubSeq(v, 1, e) \in Text /\ Len(SubSeq(v, 1, e)) = e /\ \A i \in 1..e : SubSeq(v, 1, e)[i] = v[i]
    <3>1. 1 \in Int /\ e \in Int /\ \A i \in 1..e : v[i] \in Pieces
      BY <1>1, <1>2, <2>3 DEF Text
    <3>2. /\ SubSeq(v, 1, e) \in Seq(Pieces) /\ Len(SubSeq(v, 1, e)) = IF 1 <= e THEN e - 1 + 1 ELSE 0
          /\ \A i \in 1..(e - 1 + 1) : SubSeq(v, 1, e)[i] = v[1 + i - 1]
      BY <3>1, SubSeqProperties
    <3> QED
      BY <2>3, <3>2 DEF Text
  <2>5. ASSUME NEW i \in 1..e PROVE v[i] = (w \o head)[i]
    <3>1. i \in 1..(W + P) /\ i \in 1..(W + k)
      BY <1>1, <1>3, <2>3
    <3>2. ~(i <= W) => i - W \in 1..k
      BY <1>1, <1>3, <3>1
    <3> QED
      BY <1>2, <2>1, <2>2, <3>1, <3>2
  <2>6. \A i \in 1..Len(SubSeq(v, 1, e)) : SubSeq(v, 1, e)[i] = (w \o head)[i]
    BY <2>4, <2>5
  <2>7. SubSeq(v, 1, e) = w \o head
    BY <2>2, <2>3, <2>4, <2>6, SeqEqual DEF Text
  <2> QED
    BY <2>3, <2>7 DEF head
<1> QED
  BY <1>8, <1>9 DEF v, W

(* A path without the slashes at its end is a piece of text. *)
LEMMA HeadOf ==
  ASSUME NEW path \in Text, NEW k, Trimmed(path, k)
  PROVE  /\ k \in Nat /\ k <= Len(path) /\ SubSeq(path, 1, k) \in Text
         /\ Len(SubSeq(path, 1, k)) = k /\ \A i \in 1..k : SubSeq(path, 1, k)[i] = path[i]
<1>1. k \in Nat /\ k <= Len(path) /\ Len(path) \in Nat
  BY TextIs DEF Trimmed, Text
<1>2. 1 \in Int /\ k \in Int /\ \A i \in 1..k : path[i] \in Pieces
  BY <1>1 DEF Text
<1>3. /\ SubSeq(path, 1, k) \in Seq(Pieces)
      /\ Len(SubSeq(path, 1, k)) = IF 1 <= k THEN k - 1 + 1 ELSE 0
      /\ \A i \in 1..(k - 1 + 1) : SubSeq(path, 1, k)[i] = path[1 + i - 1]
  BY <1>2, SubSeqProperties
<1> QED
  BY <1>1, <1>3 DEF Text

LEMMA AbsoluteIs ==
  ASSUME NEW path \in Text
  PROVE  Absolute(path) <=> Len(path) > 0 /\ path[1] = "/"
<1>1. path # <<>> <=> Len(path) > 0
  BY EmptySeq, TextIs DEF Text
<1>2. path # <<>> => Head(path) = path[1]
  BY DEF Text
<1> QED
  BY <1>1, <1>2 DEF Absolute

(* What normalizePathPrefix makes of a path. *)
LEMMA NormalForm ==
  ASSUME NEW path \in Text, NEW k, Trimmed(path, k)
  PROVE  /\ normalizePathPrefix(path) \in Text /\ normalizePathPrefix(path) # <<>>
         /\ Spelled(normalizePathPrefix(path)) =
               IF k = 0 THEN <<>>
               ELSE IF path[1] = "/" THEN SubSeq(path, 1, k) ELSE Root \o SubSeq(path, 1, k)
<1> DEFINE Kept(m) == /\ m > 0 => path[m] # "/"
                      /\ \A j \in (m + 1)..Len(path) : path[j] = "/"
           kept == CHOOSE m \in 0..Len(path) : Kept(m)
           trimmed == SubSeq(path, 1, kept)
<1>1. kept = k
  <2>1. \A m \in 0..Len(path) : Kept(m) <=> Trimmed(path, m)
    BY DEF Trimmed
  <2>2. k \in 0..Len(path) /\ Kept(k)
    BY DEF Trimmed
  <2>3. kept \in 0..Len(path) /\ Kept(kept)
    BY <2>2
  <2>4. Trimmed(path, kept)
    BY <2>1, <2>3
  <2> QED
    BY <2>4, TrimmedAt
<1>2. /\ k \in Nat /\ trimmed \in Text /\ Len(trimmed) = k
      /\ \A i \in 1..k : trimmed[i] = path[i]
  BY <1>1, HeadOf
<1>3. /\ normalizePathPrefix(path) = IF Absolute(trimmed) THEN trimmed ELSE Root \o trimmed
      /\ trimmed = SubSeq(path, 1, k)
  BY <1>1 DEF normalizePathPrefix
<1> HIDE DEF trimmed
<1>4. k > 0 => trimmed[k] # "/"
  <2>1. k > 0 => path[k] # "/" /\ k \in 1..k
    BY <1>2 DEF Trimmed
  <2> QED
    BY <2>1, <1>2
<1> DEFINE whole == normalizePathPrefix(path)
<1>5. CASE k = 0
  <2>1. trimmed = <<>>
    BY <1>2, <1>5, EmptySeq DEF Text
  <2>2. ~Absolute(trimmed) /\ Root \o trimmed = Root
    BY <2>1, ConcatEmptySeq, RootIs DEF Absolute, Text
  <2>3. whole = Root
    BY <1>3, <2>2
  <2> QED
    BY <1>5, <2>3, RootIs DEF Spelled
<1>6. CASE k > 0 /\ path[1] = "/"
  <2>1. 1 \in 1..k /\ trimmed[1] = "/"
    BY <1>2, <1>6
  <2>2. Absolute(trimmed)
    BY <1>2, <1>6, <2>1, AbsoluteIs
  <2>3. trimmed # Root
    <3>1. k = 1 => trimmed[1] # "/"
      BY <1>4
    <3> QED
      BY <1>2, <2>1, <3>1, RootIs
  <2>4. trimmed # <<>>
    BY <1>2, <1>6, EmptySeq DEF Text
  <2>5. whole = trimmed
    BY <1>3, <2>2
  <2> QED
    <3>1. whole \in Text /\ whole # <<>> /\ Spelled(whole) = trimmed
      BY <1>2, <2>3, <2>4, <2>5 DEF Spelled
    <3> HIDE DEF whole
    <3> QED
      BY <3>1, <1>2, <1>3, <1>6, SMTT(30) DEF whole
<1>7. CASE k > 0 /\ path[1] # "/"
  <2>1. 1 \in 1..k /\ trimmed[1] # "/"
    BY <1>2, <1>7
  <2>2. ~Absolute(trimmed)
    BY <1>2, <2>1, AbsoluteIs
  <2>3. whole = Root \o trimmed
    BY <1>3, <2>2
  <2>4. Root \o trimmed \in Text /\ Len(Root \o trimmed) = 1 + k
    <3>1. trimmed \in Seq(Pieces) /\ Root \in Seq(Pieces) /\ Len(trimmed) = k /\ Len(Root) = 1
      BY <1>2, RootIs DEF Text
    <3>2. Root \o trimmed \in Seq(Pieces) /\ Len(Root \o trimmed) = Len(Root) + Len(trimmed)
      BY <3>1, ConcatProperties
    <3> QED
      BY <3>1, <3>2 DEF Text
  <2>5. Root \o trimmed # Root /\ Root \o trimmed # <<>>
    <3>1. 1 + k # 1 /\ 1 + k # 0
      BY <1>2, <1>7
    <3>2. Len(Root) = 1 /\ Len(<<>>) = 0
      BY RootIs
    <3> DEFINE word == Root \o trimmed
    <3>3. Len(word) # 1 /\ Len(word) # 0
      BY <2>4, <3>1
    <3> HIDE DEF word
    <3>4. word # Root /\ word # <<>>
      BY <3>2, <3>3
    <3> QED
      BY <3>4 DEF word
  <2> QED
    <3>1. whole \in Text /\ whole # <<>> /\ Spelled(whole) = Root \o trimmed
      BY <2>3, <2>4, <2>5 DEF Spelled
    <3>2. Root \o trimmed = Root \o SubSeq(path, 1, k)
      BY <1>3
    <3>3. k # 0
      BY <1>2, <1>7
    <3> HIDE DEF whole
    <3>4. Spelled(whole) = Root \o SubSeq(path, 1, k)
      BY <3>1, <3>2
    <3> QED
      BY <3>1, <3>3, <3>4, <1>7 DEF whole
<1> QED
  BY <1>2, <1>5, <1>6, <1>7

(* The reference's form of the path: with a slash in front and none behind. *)
Written(path) == IF Absolute(path) THEN path ELSE Root \o path

LEMMA WrittenIs ==
  ASSUME NEW path \in Text
  PROVE  /\ Written(path) \in Text /\ Len(Written(path)) > 0 /\ Written(path)[1] = "/"
         /\ \E e : /\ Trimmed(Written(path), e)
                   /\ Spelled(normalizePathPrefix(path)) = SubSeq(Written(path), 1, e)
<1>1. PICK k \in 0..Len(path) : Trimmed(path, k)
  BY TrimmedAt
<1>2. /\ k \in Nat /\ k <= Len(path) /\ SubSeq(path, 1, k) \in Text
      /\ Len(SubSeq(path, 1, k)) = k /\ Len(path) \in Nat
  BY <1>1, HeadOf, TextIs DEF Text
<1> DEFINE spelled == Spelled(normalizePathPrefix(path))
<1>3. spelled = IF k = 0 THEN <<>>
                ELSE IF path[1] = "/" THEN SubSeq(path, 1, k) ELSE Root \o SubSeq(path, 1, k)
  BY <1>1, NormalForm
<1>4. Absolute(path) <=> Len(path) > 0 /\ path[1] = "/"
  BY AbsoluteIs
<1> HIDE DEF spelled
<1>5. CASE Absolute(path)
  <2>1. Written(path) = path /\ Len(path) > 0 /\ path[1] = "/"
    BY <1>4, <1>5 DEF Written
  <2>2. k = 0 => SubSeq(path, 1, k) = <<>>
    BY <1>2, EmptySeq DEF Text
  <2>3. spelled = SubSeq(path, 1, k)
    BY <1>3, <2>1, <2>2
  <2> QED
    BY <1>1, <2>1, <2>3 DEF spelled
<1>6. CASE ~Absolute(path)
  <2> DEFINE v == Root \o path
  <2>1. Written(path) = v
    BY <1>6 DEF Written
  <2>2. /\ v \in Text /\ Len(v) = 1 + Len(path)
        /\ \A i \in 1..(1 + Len(path)) : v[i] = IF i <= 1 THEN Root[i] ELSE path[i - 1]
    <3>1. Len(Root) = 1 /\ Root \in Seq(Pieces) /\ path \in Seq(Pieces)
      BY RootIs DEF Text
    <3>2. /\ v \in Seq(Pieces) /\ Len(v) = Len(Root) + Len(path)
          /\ \A i \in 1..(Len(Root) + Len(path)) :
                v[i] = IF i <= Len(Root) THEN Root[i] ELSE path[i - Len(Root)]
      BY <3>1, ConcatProperties
    <3> HIDE DEF v
    <3> QED
      BY <3>1, <3>2 DEF Text
  <2>3. v[1] = "/"
    BY <1>2, <2>2, RootIs
  <2> HIDE DEF v
  <2>4. CASE k > 0
    <3>1. Trimmed(v, 1 + k) /\ SubSeq(v, 1, 1 + k) = Root \o SubSeq(path, 1, k)
      BY <1>1, <2>4, RootIs, TrimmedBehind, ZenonT(60) DEF v
    <3>2. path[1] # "/"
      BY <1>2, <1>4, <1>6, <2>4
    <3>3. spelled = SubSeq(v, 1, 1 + k)
      BY <1>3, <2>4, <3>1, <3>2
    <3> QED
      BY <1>2, <2>1, <2>2, <2>3, <3>1, <3>3 DEF spelled
  <2>5. CASE k = 0
    <3>1. Len(path) = 0
      <4>1. \A m \in 1..Len(path) : path[m] = "/"
        BY <1>1, <2>5 DEF Trimmed
      <4> QED
        BY <4>1, <1>2, <1>4, <1>6
    <3>2. Trimmed(v, 0)
      BY <2>2, <2>3, <3>1 DEF Trimmed
    <3>3. SubSeq(v, 1, 0) = <<>>
      BY SubSeqEmpty
    <3>4. spelled = SubSeq(v, 1, 0)
      BY <1>3, <2>5, <3>3
    <3> QED
      BY <1>2, <2>1, <2>2, <2>3, <3>2, <3>4 DEF spelled
  <2> QED
    BY <1>2, <2>4, <2>5
<1> QED
  BY <1>5, <1>6

(* The names of a path split what normalizePathPrefix makes of it. *)
LEMMA SegmentsSplit ==
  ASSUME NEW path \in Text
  PROVE  Splits(Spelled(normalizePathPrefix(path)), Segments(path))
<1> DEFINE text == Written(path)
           L == Len(text)
           Last_(i) == /\ i > 1 => text[i - 1] # "/"
                       /\ \A j \in i..Len(text) : text[j] = "/"
           end == CHOOSE i \in 1..(Len(text) + 1) : Last_(i)
           starts == {i \in 1..(end - 1) : text[i] = "/"}
           at(k) == CHOOSE i \in starts \cup {end} : Rank(starts, i) = k
           names == [k \in 1..Cardinality(starts) |-> SubSeq(text, at(k - 1) + 1, at(k) - 1)]
<1>1. Segments(path) = names
  BY DEF Segments, Written, Rank
<1>2. text \in Text /\ L \in Nat /\ L > 0 /\ text[1] = "/"
  BY WrittenIs, TextIs DEF Text
<1>3. PICK e : Trimmed(text, e) /\ Spelled(normalizePathPrefix(path)) = SubSeq(text, 1, e)
  BY WrittenIs
<1> DEFINE p == SubSeq(text, 1, e)
<1>4. /\ e \in Nat /\ e <= L /\ p \in Text /\ Len(p) = e /\ \A i \in 1..e : p[i] = text[i]
      /\ e > 0 => text[e] # "/"
  <2>1. e > 0 => text[e] # "/"
    BY <1>3 DEF Trimmed
  <2> HIDE DEF text
  <2> QED
    BY <1>2, <1>3, <2>1, HeadOf DEF L
<1> HIDE DEF text, L
<1>5. end = e + 1
  <2>1. ASSUME NEW i \in 1..(Len(text) + 1), Last_(i) PROVE Trimmed(text, i - 1)
    <3>1. i - 1 \in 0..Len(text) /\ (i - 1) + 1 = i /\ (i - 1 > 0 <=> i > 1)
      BY <1>2 DEF L
    <3> QED
      BY <2>1, <3>1 DEF Trimmed
  <2>2. e + 1 \in 1..(Len(text) + 1) /\ Last_(e + 1)
    <3>1. e + 1 \in 1..(Len(text) + 1) /\ (e + 1) - 1 = e /\ (e + 1 > 1 <=> e > 0)
      BY <1>2, <1>4 DEF L
    <3> QED
      BY <3>1, <1>3 DEF Trimmed
  <2>3. end \in 1..(Len(text) + 1) /\ Last_(end)
    BY <2>2
  <2>4. Trimmed(text, end - 1)
    BY <2>1, <2>3
  <2>5. end - 1 = e
    BY <1>2, <1>3, <2>4, TrimmedAt
  <2>6. end \in Nat
    BY <2>3, <1>2 DEF L
  <2> HIDE DEF end
  <2> QED
    BY <2>5, <2>6
<1> HIDE DEF end
<1> DEFINE K == Cardinality(starts)
<1>6. /\ \A i \in starts : i \in 1..e /\ text[i] = "/"
      /\ \A i \in 1..e : text[i] = "/" => i \in starts
      /\ end \in Nat /\ end >= 1
  <2>1. end - 1 = e /\ end \in Nat /\ end >= 1
    BY <1>4, <1>5
  <2> QED
    BY <2>1
<1> HIDE DEF starts
<1>7. /\ IsFiniteSet(starts) /\ K \in Nat /\ Rank(starts, end) = K
      /\ \A k \in 0..(K - 1) : \E i \in starts : Rank(starts, i) = k
      /\ \A i, j \in starts \cup {end} : i < j => Rank(starts, i) < Rank(starts, j)
  <2>1. starts \in SUBSET (0..(end - 1))
    BY <1>5, <1>6, <1>4
  <2> QED
    BY <1>6, <2>1, Ranks
<1> HIDE DEF K
<1>8. \A i \in starts \cup {end} : i \in Nat /\ i >= 1 /\ i <= end /\ Rank(starts, i) \in Nat
  <2>1. \A i \in starts \cup {end} : i \in Nat /\ i >= 1 /\ i <= end
    BY <1>4, <1>5, <1>6
  <2>2. starts \in SUBSET Nat
    BY <2>1
  <2> QED
    BY <1>7, <2>1, <2>2, RankStep
<1>9. ASSUME NEW k \in 0..K
      PROVE  /\ at(k) \in starts \cup {end} /\ Rank(starts, at(k)) = k
             /\ \A i \in starts \cup {end} : Rank(starts, i) = k => i = at(k)
  <2>1. \E i \in starts \cup {end} : Rank(starts, i) = k
    <3>1. k = K \/ k \in 0..(K - 1)
      BY <1>7
    <3> QED
      BY <3>1, <1>7
  <2>2. at(k) \in starts \cup {end} /\ Rank(starts, at(k)) = k
    BY <2>1
  <2> HIDE DEF at
  <2>3. ASSUME NEW i \in starts \cup {end}, Rank(starts, i) = k PROVE i = at(k)
    <3>1. ~(i < at(k)) /\ ~(at(k) < i)
      BY <1>7, <1>8, <2>2, <2>3
    <3> QED
      BY <1>8, <2>2, <3>1
  <2> QED
    BY <2>2, <2>3
<1> DEFINE cut == [k \in 1..(K + 1) |-> at(k - 1)]
<1>10. ASSUME NEW k \in 1..(K + 1)
       PROVE  /\ cut[k] = at(k - 1) /\ cut[k] \in starts \cup {end} /\ Rank(starts, cut[k]) = k - 1
              /\ cut[k] \in Nat /\ cut[k] >= 1 /\ cut[k] <= end
  <2>1. k - 1 \in 0..K
    BY <1>7
  <2>2. at(k - 1) \in starts \cup {end} /\ Rank(starts, at(k - 1)) = k - 1
    BY <2>1, <1>9
  <2> HIDE DEF at
  <2> QED
    BY <2>2, <1>8
<1> HIDE DEF cut
<1>11. cut \in [1..(K + 1) -> Nat]
  <2>1. \A k \in 1..(K + 1) : at(k - 1) \in Nat
    BY <1>10
  <2> HIDE DEF at
  <2> QED
    BY <2>1 DEF cut
<1>12. cut[K + 1] = e + 1
  <2>1. K + 1 \in 1..(K + 1) /\ (K + 1) - 1 = K /\ K \in 0..K
    BY <1>7
  <2>2. end = at(K)
    BY <2>1, <1>7, <1>9
  <2> HIDE DEF at
  <2> QED
    BY <2>1, <2>2, <1>5, <1>10
<1>13. cut[1] = 1
  <2>1. 1 \in 1..(K + 1) /\ 1 - 1 = 0 /\ 0 \in 0..K
    BY <1>7
  <2>2. 1 \in starts \cup {end}
    <3>1. e = 0 \/ 1 \in 1..e
      BY <1>4
    <3> QED
      BY <3>1, <1>2, <1>5, <1>6
  <2>3. Rank(starts, 1) = 0
    <3>1. {j \in starts : j < 1} = {}
      <4>1. \A j \in starts : ~(j < 1)
        BY <1>8
      <4> QED
        BY <4>1
    <3> QED
      BY <3>1, FS_EmptySet DEF Rank
  <2>4. 1 = at(0)
    BY <2>1, <2>2, <2>3, <1>9
  <2> HIDE DEF at
  <2> QED
    BY <2>1, <2>4, <1>10
<1>14. ASSUME NEW k \in 1..(K + 1), NEW m \in 1..(K + 1), k < m PROVE cut[k] < cut[m]
  <2>1. /\ cut[k] \in starts \cup {end} /\ Rank(starts, cut[k]) = k - 1 /\ cut[k] \in Nat
        /\ cut[m] \in starts \cup {end} /\ Rank(starts, cut[m]) = m - 1 /\ cut[m] \in Nat
    BY <1>10
  <2>2. ~(cut[m] < cut[k])
    <3>1. cut[m] < cut[k] => m - 1 < k - 1
      BY <2>1, <1>7
    <3> QED
      BY <3>1, <1>14, <1>7
  <2>3. cut[m] # cut[k]
    BY <2>1, <1>14, <1>7
  <2> QED
    BY <2>1, <2>2, <2>3
<1>15. ASSUME NEW k \in 1..K
       PROVE  /\ cut[k] \in 1..e /\ cut[k + 1] \in (cut[k] + 1)..(e + 1)
              /\ text[cut[k]] = "/"
              /\ \A i \in (cut[k] + 1)..(cut[k + 1] - 1) : text[i] # "/"
              /\ names[k] = SubSeq(text, cut[k] + 1, cut[k + 1] - 1)
  <2>1. k \in 1..(K + 1) /\ k + 1 \in 1..(K + 1) /\ k < k + 1 /\ (k + 1) - 1 = k
    BY <1>7
  <2>2. /\ cut[k] \in starts \cup {end} /\ Rank(starts, cut[k]) = k - 1 /\ cut[k] \in Nat /\ cut[k] >= 1
        /\ cut[k + 1] \in starts \cup {end} /\ Rank(starts, cut[k + 1]) = k
        /\ cut[k + 1] \in Nat /\ cut[k + 1] <= end
    BY <2>1, <1>10
  <2>3. cut[k] < cut[k + 1]
    BY <2>1, <1>14
  <2>4. cut[k] \in starts
    BY <2>2, <2>3
  <2>5. cut[k] \in 1..e /\ text[cut[k]] = "/"
    BY <2>4, <1>6
  <2>6. cut[k + 1] \in (cut[k] + 1)..(e + 1)
    BY <2>2, <2>3, <1>5, <1>4
  <2>7. ASSUME NEW i \in (cut[k] + 1)..(cut[k + 1] - 1) PROVE text[i] # "/"
    <3> SUFFICES ASSUME text[i] = "/" PROVE FALSE
      OBVIOUS
    <3>1. i \in 1..e /\ cut[k] < i /\ i < cut[k + 1] /\ i \in Nat
      BY <2>2, <2>5, <2>6, <1>4
    <3>2. i \in starts
      BY <3>1, <1>6
    <3>3. k - 1 < Rank(starts, i) /\ Rank(starts, i) < k /\ Rank(starts, i) \in Nat
      BY <2>2, <3>1, <3>2, <1>7, <1>8
    <3> QED
      BY <3>3
  <2>8. names[k] = SubSeq(text, cut[k] + 1, cut[k + 1] - 1)
    <3>1. cut[k] = at(k - 1) /\ cut[k + 1] = at(k)
      BY <2>1, <1>10
    <3>2. names[k] = SubSeq(text, at(k - 1) + 1, at(k) - 1)
      BY DEF K
    <3> HIDE DEF at, names
    <3> QED
      BY <3>1, <3>2
  <2> QED
    BY <2>5, <2>6, <2>7, <2>8
<1>16. ASSUME NEW k \in 1..K
       PROVE  names[k] = SubSeq(p, cut[k] + 1, cut[k + 1] - 1) /\ names[k] \in Text
  <2> DEFINE i0 == cut[k] + 1
             j0 == cut[k + 1] - 1
             d0 == 0
  <2>1. i0 \in Nat /\ j0 \in Nat /\ d0 \in Nat /\ i0 + d0 = i0 /\ j0 + d0 = j0 /\ i0 >= 1 /\ j0 <= e
    <3> DEFINE x == cut[k]
               y == cut[k + 1]
    <3>1. x \in 1..e /\ y \in (x + 1)..(e + 1)
      BY <1>15
    <3> HIDE DEF x, y
    <3>2. x + 1 \in Nat /\ y - 1 \in Nat /\ x + 1 >= 1 /\ y - 1 <= e
      BY <3>1, <1>4
    <3>3. i0 = x + 1 /\ j0 = y - 1 /\ d0 = 0
      BY DEF x, y
    <3> HIDE DEF i0, j0, d0
    <3> QED
      BY <3>2, <3>3
  <2>2. names[k] = SubSeq(text, i0, j0)
    BY <1>15
  <2> HIDE DEF i0, j0, p, names
  <2>3. \A i \in i0..j0 : i \in 1..Len(p) /\ i + d0 \in 1..Len(text) /\ p[i] = text[i + d0]
    <3> TAKE i \in i0..j0
    <3>1. i \in 1..e /\ i + d0 = i /\ i \in 1..L
      BY <2>1, <1>2, <1>4
    <3> QED
      BY <3>1, <1>4 DEF L
  <2> HIDE DEF d0
  <2>4. p \in Text /\ text \in Text
    BY <1>2, <1>4
  <2>5. SubSeq(p, i0, j0) = SubSeq(text, i0 + d0, j0 + d0)
    BY <2>1, <2>3, <2>4, SameSub
  <2>6. SubSeq(p, i0, j0) \in Text
    <3>1. i0 \in Int /\ j0 \in Int /\ \A i \in i0..j0 : p[i] \in Pieces
      BY <2>1, <2>3, <2>4 DEF Text
    <3> QED
      BY <3>1, SubSeqProperties DEF Text
  <2> QED
    BY <2>1, <2>2, <2>5, <2>6 DEF i0, j0
<1>17. names \in Names /\ Len(names) = K
  <2> DEFINE f == [k \in 1..K |-> SubSeq(text, at(k - 1) + 1, at(k) - 1)]
  <2>0. names = f
    BY DEF K
  <2> HIDE DEF at
  <2>3. f = [k \in 1..K |-> f[k]]
    OBVIOUS
  <2> HIDE DEF f, names
  <2>1. names = [k \in 1..K |-> names[k]]
    BY <2>0, <2>3
  <2>2. names \in [1..K -> Text]
    BY <2>1, <1>16
  <2> QED
    BY <2>1, <2>2, <1>7 DEF Names
<1> HIDE DEF names
<1>18. Cuts(p, names, cut)
  <2>1. \A k \in 1..K : p[cut[k]] = "/"
    BY <1>4, <1>15
  <2>2. ASSUME NEW k \in 1..K, NEW i \in (cut[k] + 1)..(cut[k + 1] - 1) PROVE p[i] # "/"
    <3>1. i \in 1..e
      BY <1>4, <1>15
    <3> QED
      BY <3>1, <1>4, <1>15
  <2> HIDE DEF p
  <2> QED
    BY <2>1, <2>2, <1>4, <1>12, <1>13, <1>14, <1>16, <1>17 DEF Cuts
<1>19. Splits(p, names)
  <2>1. Len(p) > 0 => p[Len(p)] # "/"
    <3>1. e > 0 => e \in 1..e
      BY <1>4
    <3> QED
      BY <3>1, <1>4
  <2>2. \E c \in [1..(Len(names) + 1) -> Nat] : Cuts(p, names, c)
    BY <1>11, <1>17, <1>18
  <2> HIDE DEF p
  <2> QED
    BY <2>1, <2>2, <1>4, <1>17 DEF Splits
<1> QED
  BY <1>1, <1>3, <1>19

(* A prefix spells names. *)
Placed(prefix, names) == prefix \in Text /\ prefix # <<>> /\ Splits(Spelled(prefix), names)

(* The root spells no names, and nothing else spells none. *)
LEMMA NoNames ==
  /\ Placed(Root, <<>>)
  /\ \A names : Splits(<<>>, names) => names = <<>>
<1>1. Splits(<<>>, <<>>)
  <2> DEFINE at == [k \in 1..1 |-> 1]
  <2>1. at \in [1..(Len(<<>>) + 1) -> Nat] /\ Cuts(<<>>, <<>>, at)
    BY DEF Cuts
  <2>2. <<>> \in Text /\ <<>> \in Names /\ Len(<<>>) = 0
    BY DEF Text, Names
  <2> QED
    BY <2>1, <2>2 DEF Splits
<1>2. ASSUME NEW names, Splits(<<>>, names) PROVE names = <<>>
  <2>1. <<>> \in Text /\ names \in Names /\ Len(names) \in Nat /\ Len(<<>>) = 0
    BY <1>2, TextIs DEF Splits, Text, Names
  <2>2. PICK at \in [1..(Len(names) + 1) -> Nat] : Cuts(<<>>, names, at)
    BY <1>2 DEF Splits
  <2>3. Len(names) = 0
    <3> SUFFICES ASSUME Len(names) # 0 PROVE FALSE
      OBVIOUS
    <3>1. 1 \in 1..Len(names)
      BY <2>1
    <3>2. at[1] \in 1..Len(<<>>)
      BY <2>1, <2>2, <3>1, CutsOrder
    <3> QED
      BY <2>1, <3>2
  <2> QED
    BY <2>1, <2>3, EmptySeq DEF Names
<1> QED
  BY <1>1, <1>2, RootIs DEF Placed, Spelled

(* What a prefix that is not the root begins and ends with. *)
LEMMA PlacedEnds ==
  ASSUME NEW prefix, NEW names, Placed(prefix, names), prefix # Root
  PROVE  /\ Len(prefix) \in Nat /\ Len(prefix) > 0 /\ prefix[1] = "/" /\ prefix[Len(prefix)] # "/"
         /\ Splits(prefix, names)
<1>1. prefix \in Text /\ Len(prefix) \in Nat /\ Len(prefix) > 0 /\ Splits(prefix, names)
  BY EmptySeq, TextIs DEF Placed, Spelled, Text
<1>2. names \in Names /\ Len(names) \in Nat
  BY <1>1, TextIs DEF Splits, Names
<1>3. PICK at \in [1..(Len(names) + 1) -> Nat] : Cuts(prefix, names, at)
  BY <1>1 DEF Splits
<1>4. Len(names) = 0 \/ 1 \in 1..Len(names)
  BY <1>2
<1>5. prefix[1] = "/"
  BY <1>1, <1>3, <1>4 DEF Cuts
<1> QED
  BY <1>1, <1>5 DEF Splits

(* combinePathPrefixes puts the names of its arguments together. *)
LEMMA Combined ==
  ASSUME NEW a, NEW b, NEW s, NEW t, Placed(a, s), Placed(b, t)
  PROVE  Placed(combinePathPrefixes(a, b), s \o t)
<1>1. s \in Names /\ t \in Names /\ a \in Text /\ b \in Text
  BY DEF Placed, Splits
<1>2. CASE a = Root
  <2>1. Splits(<<>>, s)
    BY <1>2 DEF Placed, Spelled
  <2>2. s \o t = t
    BY <1>1, <2>1, NoNames, ConcatEmptySeq DEF Names
  <2> QED
    BY <1>2, <2>2 DEF combinePathPrefixes
<1>3. CASE a # Root /\ b = Root
  <2>1. Splits(<<>>, t)
    BY <1>3 DEF Placed, Spelled
  <2>2. s \o t = s
    BY <1>1, <2>1, NoNames, ConcatEmptySeq DEF Names
  <2> QED
    BY <1>3, <2>2 DEF combinePathPrefixes
<1>4. CASE a # Root /\ b # Root
  <2>1. Splits(a, s) /\ Splits(b, t) /\ Len(a) > 0 /\ Len(b) > 0 /\ Len(a) \in Nat /\ Len(b) \in Nat
    BY <1>4, PlacedEnds
  <2>2. Splits(a \o b, s \o t)
    BY <2>1, SplitsConcat
  <2>3. a \o b \in Text /\ Len(a \o b) = Len(a) + Len(b)
    BY <1>1, ConcatProperties DEF Text
  <2>4. a \o b # Root /\ a \o b # <<>>
    <3> DEFINE c == a \o b
    <3>1. Len(c) \in Nat /\ Len(c) > 1 /\ Len(Root) = 1 /\ Len(<<>>) = 0
      BY <2>1, <2>3, RootIs
    <3> HIDE DEF c
    <3> DEFINE x == Len(c)
    <3>2. x # 1 /\ x # 0
      <4>1. x \in Nat /\ x > 1
        BY <3>1
      <4> HIDE DEF x
      <4> QED
        BY <4>1
    <3>3. c # Root /\ c # <<>>
      BY <3>1, <3>2
    <3> QED
      BY <3>3 DEF c
  <2>5. combinePathPrefixes(a, b) = a \o b
    BY <1>4 DEF combinePathPrefixes
  <2> QED
    BY <2>2, <2>3, <2>4, <2>5 DEF Placed, Spelled
<1> QED
  BY <1>2, <1>3, <1>4

(* A normalized path spells the names of the path. *)
LEMMA NormalPlaced ==
  ASSUME NEW path \in Text
  PROVE  Placed(normalizePathPrefix(path), Segments(path)) /\ Segments(path) \in Names
<1>1. PICK k \in 0..Len(path) : Trimmed(path, k)
  BY TrimmedAt
<1>2. normalizePathPrefix(path) \in Text /\ normalizePathPrefix(path) # <<>>
  BY <1>1, NormalForm
<1>3. Splits(Spelled(normalizePathPrefix(path)), Segments(path))
  BY SegmentsSplit
<1> QED
  BY <1>2, <1>3 DEF Placed, Splits

(* A route's pattern spells the names of the groups and of the path, if the path is absolute. *)
LEMMA RoutePlaced ==
  ASSUME NEW prefix, NEW names, Placed(prefix, names), NEW path \in Text
  PROVE  LET scoped == applyGroupPrefixToRoutePath(path, prefix)
         IN  /\ normalizePathPrefix(scoped) \in Text /\ normalizePathPrefix(scoped) # <<>>
             /\ Absolute(path) => Placed(normalizePathPrefix(scoped), names \o Segments(path))
<1> DEFINE scoped == applyGroupPrefixToRoutePath(path, prefix)
           whole == normalizePathPrefix(scoped)
<1>1. prefix \in Text /\ names \in Names /\ Segments(path) \in Names
  BY NormalPlaced DEF Placed, Splits
<1>2. scoped \in Text
  BY <1>1, ConcatProperties DEF applyGroupPrefixToRoutePath, Text
<1>3. whole \in Text /\ whole # <<>>
  BY <1>2, NormalPlaced DEF Placed
<1>4. ASSUME Absolute(path) PROVE Placed(whole, names \o Segments(path))
  <2>1. CASE prefix = Root
    <3>1. scoped = path
      BY <2>1 DEF applyGroupPrefixToRoutePath
    <3>2. Splits(<<>>, names)
      BY <2>1 DEF Placed, Spelled
    <3>3. names \o Segments(path) = Segments(path)
      BY <1>1, <3>2, NoNames, ConcatEmptySeq DEF Names
    <3> QED
      BY <3>1, <3>3, NormalPlaced
  <2>2. CASE prefix # Root
    <3>1. /\ Len(prefix) \in Nat /\ Len(prefix) > 0 /\ prefix[1] = "/" /\ prefix[Len(prefix)] # "/"
          /\ Splits(prefix, names)
      BY <2>2, PlacedEnds
    <3>2. PICK k \in 0..Len(path) : Trimmed(path, k)
      BY TrimmedAt
    <3>3. Len(path) > 0 /\ path[1] = "/" /\ Len(path) \in Nat
      BY <1>4, AbsoluteIs, TextIs DEF Text
    <3>4. Spelled(normalizePathPrefix(path)) = SubSeq(path, 1, k)
      <4>1. k = 0 => SubSeq(path, 1, k) = <<>>
        BY SubSeqEmpty
      <4> QED
        BY <3>2, <3>3, <4>1, NormalForm
    <3>5. Splits(SubSeq(path, 1, k), Segments(path))
      BY <3>4, SegmentsSplit
    <3>6. Splits(prefix \o SubSeq(path, 1, k), names \o Segments(path))
      BY <3>1, <3>5, SplitsConcat
    <3>7. Spelled(whole) = prefix \o SubSeq(path, 1, k)
      <4>1. CASE path = Root
        <5>1. scoped = prefix
          BY <2>2, <4>1 DEF applyGroupPrefixToRoutePath
        <5>2. Trimmed(prefix, Len(prefix))
          BY <3>1 DEF Trimmed
        <5>3. Spelled(whole) = SubSeq(prefix, 1, Len(prefix))
          BY <1>1, <3>1, <5>1, <5>2, NormalForm
        <5>4. SubSeq(prefix, 1, Len(prefix)) = prefix
          BY <1>1, SubSeqFull DEF Text
        <5>5. k = 0
          <6>1. Trimmed(Root, 0)
            BY RootIs DEF Trimmed
          <6> QED
            BY <3>2, <4>1, <6>1, RootIs, TrimmedAt
        <5>6. SubSeq(path, 1, k) = <<>>
          BY <5>5, SubSeqEmpty
        <5> QED
          BY <1>1, <5>3, <5>4, <5>6, ConcatEmptySeq DEF Text
      <4>2. CASE path # Root
        <5>1. scoped = prefix \o path
          BY <2>2, <4>2 DEF applyGroupPrefixToRoutePath
        <5>2. /\ Trimmed(prefix \o path, Len(prefix) + k)
              /\ SubSeq(prefix \o path, 1, Len(prefix) + k) = prefix \o SubSeq(path, 1, k)
          BY <1>1, <3>1, <3>2, TrimmedBehind
        <5>3. Len(prefix) + k # 0 /\ (prefix \o path)[1] = "/"
          <6>1. /\ Len(prefix \o path) = Len(prefix) + Len(path)
                /\ \A i \in 1..(Len(prefix) + Len(path)) :
                      (prefix \o path)[i] = IF i <= Len(prefix) THEN prefix[i] ELSE path[i - Len(prefix)]
            BY <1>1, ConcatProperties DEF Text
          <6>2. 1 \in 1..(Len(prefix) + Len(path)) /\ 1 <= Len(prefix)
            BY <3>1, <3>3
          <6>3. Len(prefix) + k # 0
            BY <3>1, <3>2, <3>3
          <6> QED
            BY <6>1, <6>2, <6>3, <3>1
        <5> DEFINE v == prefix \o path
                   e == Len(prefix) + k
        <5>4. v \in Text /\ Trimmed(v, e) /\ e # 0 /\ v[1] = "/" /\ scoped = v
          BY <1>2, <5>1, <5>2, <5>3
        <5> HIDE DEF v, e, scoped
        <5>5. Spelled(normalizePathPrefix(v)) = SubSeq(v, 1, e)
          BY <5>4, NormalForm
        <5> QED
          BY <5>2, <5>4, <5>5 DEF v, e
      <4> QED
        BY <4>1, <4>2
    <3> QED
      BY <1>3, <3>6, <3>7 DEF Placed
  <2> QED
    BY <2>1, <2>2
<1> QED
  BY <1>3, <1>4

-----------------------------------------------------------------------------
(* Registration *)

Called == Plugins \cup {""}
Middlewares == [pathPrefix : Text, under : Names]
Routes == [method : {"GET", "POST"}, path : Text, handlerId : Nat, static : BOOLEAN,
           under : Names, given : Text]
Apps == [prefix : Text, routes : Seq(Routes), wsRoutes : Seq([path : Text, handlerId : Nat]),
         middlewares : Seq(Middlewares), errorHandlers : Seq({"any", "404"}),
         nextHandlerId : Nat, plugins : Seq(Called)]
Callbacks == [is : {"group", "plugin"}, name : Called, saved : Text, under : Names]

(* Where the callback that called the c-th one stands. *)
Below(cs, c) == IF c = 1 THEN <<>> ELSE cs[c - 1].under
Top(cs) == IF cs = <<>> THEN <<>> ELSE cs[Len(cs)].under

MiddlewaresPlaced(ms) == \A m \in DOMAIN ms : Placed(ms[m].pathPrefix, ms[m].under)
RoutePlacedWell(r) == r.path # <<>> /\ (Absolute(r.given) => Placed(r.path, r.under))
RoutesPlaced(rs) == \A k \in DOMAIN rs : RoutePlacedWell(rs[k])
CallsPlaced(cs) ==
    \A c \in 1..Len(cs) : /\ Placed(cs[c].saved, Below(cs, c))
                          /\ cs[c].is = "plugin" => cs[c].under = Below(cs, c)

(* The prefix of the application spells where its calls stand, the saved ones spell where
   their callbacks were called, and so do the registered middlewares and routes. *)
AppInv ==
    /\ app \in Apps /\ calls \in Seq(Callbacks)
    /\ Placed(app.prefix, Top(calls))
    /\ CallsPlaced(calls) /\ MiddlewaresPlaced(app.middlewares) /\ RoutesPlaced(app.routes)
    /\ snapshot = NotCompiled \/ snapshot = buildCompiledApplication(app)

LEMMA StandingIs == Standing = Top(calls)
BY DEF Standing, Top, Last

LEMMA AppInitInv == AppInit => AppInv
<1> SUFFICES ASSUME AppInit PROVE AppInv
  OBVIOUS
<1>1. app = Fresh /\ calls = <<>> /\ snapshot = NotCompiled
  BY DEF AppInit
<1>2. app \in Apps /\ app.prefix = Root /\ app.middlewares = <<>> /\ app.routes = <<>>
  BY <1>1, RootIs DEF Fresh, Apps
<1>3. calls \in Seq(Callbacks) /\ Top(calls) = <<>> /\ CallsPlaced(calls)
  BY <1>1 DEF Top, CallsPlaced
<1>4. MiddlewaresPlaced(app.middlewares) /\ RoutesPlaced(app.routes)
  BY <1>2 DEF MiddlewaresPlaced, RoutesPlaced
<1> QED
  BY <1>1, <1>2, <1>3, <1>4, NoNames DEF AppInv

(* A call whose effect on the application is known. *)
LEMMA UseInv ==
  ASSUME AppInv, NEW path \in Text, use(path) \/ (path = NoPath /\ use(NoPath))
  PROVE  AppInv'
<1> DEFINE pre == IF path = NoPath THEN app.prefix
                  ELSE combinePathPrefixes(app.prefix, normalizePathPrefix(path))
           new == [pathPrefix |-> pre, under |-> Standing \o Segments(path)]
           ms == Append(app.middlewares, new)
<1>1. app' = [app EXCEPT !.middlewares = ms] /\ UNCHANGED <<calls, snapshot>> /\ snapshot = NotCompiled
  BY DEF use, Call
<1>2. Placed(pre, Top(calls) \o Segments(path))
  <2>1. CASE path = NoPath
    <3>1. Segments(path) = <<>>
      <4>1. Trimmed(path, 0)
        BY <2>1 DEF Trimmed, NoPath
      <4>2. Spelled(normalizePathPrefix(path)) = <<>>
        BY <4>1, NormalForm
      <4> QED
        BY <4>2, SegmentsSplit, NoNames
    <3>2. Top(calls) \in Names /\ Placed(app.prefix, Top(calls))
      BY DEF AppInv, Placed, Splits
    <3> QED
      BY <2>1, <3>1, <3>2, ConcatEmptySeq DEF Names
  <2>2. CASE path # NoPath
    BY <2>2, NormalPlaced, Combined DEF AppInv
  <2> QED
    BY <2>1, <2>2
<1>3. new \in Middlewares /\ new.pathPrefix = pre /\ new.under = Top(calls) \o Segments(path)
  BY <1>2, StandingIs DEF Middlewares, Placed, Splits
<1> HIDE DEF pre, new
<1>4. /\ ms \in Seq(Middlewares) /\ Len(ms) = Len(app.middlewares) + 1
      /\ \A m \in DOMAIN ms : ms[m] = IF m \in DOMAIN app.middlewares THEN app.middlewares[m] ELSE new
  <2>1. app.middlewares \in Seq(Middlewares)
    BY DEF AppInv, Apps
  <2> QED
    BY <1>3, <2>1
<1>5. MiddlewaresPlaced(ms)
  BY <1>2, <1>3, <1>4 DEF AppInv, MiddlewaresPlaced
<1> HIDE DEF ms
<1>6. /\ app' \in Apps /\ app'.prefix = app.prefix /\ app'.middlewares = ms /\ app'.routes = app.routes
  BY <1>1, <1>4 DEF AppInv, Apps
<1> QED
  BY <1>1, <1>5, <1>6 DEF AppInv, Top

(* A route, or one for each method. *)
LEMMA RouteRecord ==
  ASSUME AppInv, NEW path \in Text, NEW method \in {"GET", "POST"}, NEW nth \in Nat, NEW st \in BOOLEAN
  PROVE  LET r == Route(method, path, applyGroupPrefixToRoutePath(path, app.prefix), nth, st)
         IN  r \in Routes /\ RoutePlacedWell(r)
<1> DEFINE scoped == applyGroupPrefixToRoutePath(path, app.prefix)
           whole == normalizePathPrefix(scoped)
           here == Top(calls) \o Segments(path)
           id == app.nextHandlerId + nth
           r == Route(method, path, scoped, nth, st)
<1>1. whole \in Text /\ whole # <<>> /\ (Absolute(path) => Placed(whole, here))
  BY RoutePlaced DEF AppInv
<1>2. here \in Names
  <2>1. Top(calls) \in Names /\ Segments(path) \in Names
    BY NormalPlaced DEF AppInv, Placed, Splits
  <2> QED
    BY <2>1, ConcatProperties DEF Names
<1>3. id \in Nat
  BY DEF AppInv, Apps
<1>4. r = [method |-> method, path |-> whole, handlerId |-> id, static |-> st, under |-> here, given |-> path]
  BY StandingIs DEF Route
<1> HIDE DEF scoped, whole, here, id, r
<1>5. r \in Routes /\ r.path = whole /\ r.under = here /\ r.given = path
  BY <1>1, <1>2, <1>3, <1>4 DEF Routes
<1>6. RoutePlacedWell(r)
  BY <1>1, <1>5 DEF RoutePlacedWell
<1> QED
  BY <1>5, <1>6 DEF r, scoped

LEMMA RoutesInv ==
  ASSUME AppInv, NEW rs \in Seq(Routes), RoutesPlaced(rs), NEW id \in Nat,
         app' = [app EXCEPT !.routes = @ \o rs, !.nextHandlerId = id],
         UNCHANGED calls, snapshot = NotCompiled, UNCHANGED snapshot
  PROVE  AppInv'
<1> DEFINE all == app.routes \o rs
<1>1. app.routes \in Seq(Routes) /\ RoutesPlaced(app.routes)
  BY DEF AppInv, Apps
<1>2. /\ all \in Seq(Routes) /\ Len(all) = Len(app.routes) + Len(rs)
      /\ \A i \in 1..(Len(app.routes) + Len(rs)) :
            all[i] = IF i <= Len(app.routes) THEN app.routes[i] ELSE rs[i - Len(app.routes)]
  BY <1>1, ConcatProperties
<1>3. /\ Len(app.routes) \in Nat /\ Len(rs) \in Nat
      /\ DOMAIN app.routes = 1..Len(app.routes) /\ DOMAIN rs = 1..Len(rs) /\ DOMAIN all = 1..Len(all)
  BY <1>1, <1>2, LenProperties
<1>4. app' = [app EXCEPT !.routes = all, !.nextHandlerId = id]
  OBVIOUS
<1> HIDE DEF all
<1>5. RoutesPlaced(all)
  <2> SUFFICES ASSUME NEW k \in 1..(Len(app.routes) + Len(rs)) PROVE RoutePlacedWell(all[k])
    BY <1>2, <1>3 DEF RoutesPlaced
  <2>1. CASE k <= Len(app.routes)
    BY <2>1, <1>1, <1>2, <1>3 DEF RoutesPlaced
  <2>2. CASE ~(k <= Len(app.routes))
    <3>1. k - Len(app.routes) \in 1..Len(rs) /\ all[k] = rs[k - Len(app.routes)]
      BY <2>2, <1>2, <1>3
    <3> QED
      BY <3>1, <1>3 DEF RoutesPlaced
  <2> QED
    BY <2>1, <2>2
<1>6. /\ app' \in Apps /\ app'.prefix = app.prefix /\ app'.middlewares = app.middlewares
      /\ app'.routes = all
  BY <1>2, <1>4 DEF AppInv, Apps
<1> QED
  BY <1>5, <1>6 DEF AppInv

LEMMA RouteInv ==
  ASSUME AppInv, NEW path \in Text, NEW methods \in {<<"GET">>, HTTP_METHODS}, route(methods, path)
  PROVE  AppInv'
<1> DEFINE scoped == applyGroupPrefixToRoutePath(path, app.prefix)
           rs == [m \in 1..Len(methods) |-> Route(methods[m], path, scoped, m - 1, FALSE)]
<1>1. /\ app' = [app EXCEPT !.routes = @ \o rs, !.nextHandlerId = @ + Len(methods)]
      /\ UNCHANGED calls /\ snapshot = NotCompiled /\ UNCHANGED snapshot
  BY DEF route, Call
<1>2. Len(methods) \in Nat /\ \A m \in 1..Len(methods) : methods[m] \in {"GET", "POST"}
  BY DEF HTTP_METHODS
<1>3. \A m \in 1..Len(methods) : rs[m] \in Routes /\ RoutePlacedWell(rs[m])
  <2> TAKE m \in 1..Len(methods)
  <2>1. methods[m] \in {"GET", "POST"} /\ m - 1 \in Nat /\ FALSE \in BOOLEAN
    BY <1>2
  <2> DEFINE r == Route(methods[m], path, scoped, m - 1, FALSE)
  <2>2. r \in Routes /\ RoutePlacedWell(r)
    BY <2>1, RouteRecord
  <2>3. rs[m] = r
    OBVIOUS
  <2> HIDE DEF r, rs
  <2> QED
    BY <2>2, <2>3
<1>4. DOMAIN rs = 1..Len(methods) /\ rs = [m \in 1..Len(methods) |-> rs[m]]
  OBVIOUS
<1> HIDE DEF rs
<1>5. rs \in Seq(Routes) /\ RoutesPlaced(rs)
  <2>1. rs \in [1..Len(methods) -> Routes]
    BY <1>3, <1>4
  <2> QED
    BY <2>1, <1>2, <1>3, <1>4 DEF RoutesPlaced
<1> DEFINE id == app.nextHandlerId + Len(methods)
<1>6. id \in Nat /\ app' = [app EXCEPT !.routes = @ \o rs, !.nextHandlerId = id]
  BY <1>1, <1>2 DEF AppInv, Apps
<1> HIDE DEF id
<1> QED
  BY <1>1, <1>5, <1>6, RoutesInv

LEMMA StaticInv ==
  ASSUME AppInv, NEW path \in Text, static(path)
  PROVE  AppInv'
<1> DEFINE r == Route("GET", path, applyGroupPrefixToRoutePath(path, app.prefix), 0, TRUE)
           rs == <<r>>
           id == app.nextHandlerId + 1
<1>1. /\ app' = [app EXCEPT !.routes = Append(@, r), !.nextHandlerId = @ + 1]
      /\ UNCHANGED calls /\ snapshot = NotCompiled /\ UNCHANGED snapshot
  BY DEF static, Call
<1>2. r \in Routes /\ RoutePlacedWell(r)
  BY RouteRecord
<1> HIDE DEF r
<1>3. rs \in Seq(Routes) /\ RoutesPlaced(rs)
  BY <1>2 DEF RoutesPlaced
<1>4. app.routes \in Seq(Routes) /\ app.nextHandlerId \in Nat
  BY DEF AppInv, Apps
<1>5. Append(app.routes, r) = app.routes \o rs
  BY <1>2, <1>4, AppendIsConcat
<1>6. id \in Nat /\ app' = [app EXCEPT !.routes = @ \o rs, !.nextHandlerId = id]
  BY <1>1, <1>4, <1>5
<1> HIDE DEF rs, id
<1> QED
  BY <1>1, <1>3, <1>6, RoutesInv

LEMMA OtherInv ==
  ASSUME AppInv, (\E path \in Text : ws(path)) \/ (\E kind \in {"any", "404"} : onError(kind))
  PROVE  AppInv'
<1>1. /\ app'.prefix = app.prefix /\ app'.middlewares = app.middlewares /\ app'.routes = app.routes
      /\ app' \in Apps /\ UNCHANGED calls /\ snapshot = NotCompiled /\ UNCHANGED snapshot
  <2>1. ASSUME NEW path \in Text, ws(path)
        PROVE  /\ app'.prefix = app.prefix /\ app'.middlewares = app.middlewares
               /\ app'.routes = app.routes /\ app' \in Apps
               /\ UNCHANGED calls /\ snapshot = NotCompiled /\ UNCHANGED snapshot
    <3> DEFINE W == [path : Text, handlerId : Nat]
               new == [path |-> normalizePathPrefix(path), handlerId |-> app.nextHandlerId]
               all == Append(app.wsRoutes, new)
               id == app.nextHandlerId + 1
    <3>1. new \in W /\ app.wsRoutes \in Seq(W) /\ id \in Nat
      BY NormalPlaced DEF AppInv, Apps, Placed
    <3>2. /\ app' = [app EXCEPT !.wsRoutes = all, !.nextHandlerId = id]
          /\ UNCHANGED calls /\ snapshot = NotCompiled /\ UNCHANGED snapshot
      BY <2>1 DEF ws, Call
    <3> HIDE DEF W, new, id
    <3>3. all \in Seq(W)
      BY <3>1
    <3> HIDE DEF all
    <3> QED
      BY <3>1, <3>2, <3>3 DEF AppInv, Apps, W
  <2>2. ASSUME NEW kind \in {"any", "404"}, onError(kind)
        PROVE  /\ app'.prefix = app.prefix /\ app'.middlewares = app.middlewares
               /\ app'.routes = app.routes /\ app' \in Apps
               /\ UNCHANGED calls /\ snapshot = NotCompiled /\ UNCHANGED snapshot
    <3> DEFINE all == Append(app.errorHandlers, kind)
    <3>1. app.errorHandlers \in Seq({"any", "404"})
      BY DEF AppInv, Apps
    <3>2. /\ app' = [app EXCEPT !.errorHandlers = all]
          /\ UNCHANGED calls /\ snapshot = NotCompiled /\ UNCHANGED snapshot
      BY <2>2 DEF onError, Call
    <3>3. all \in Seq({"any", "404"})
      BY <3>1
    <3> HIDE DEF all
    <3> QED
      BY <3>2, <3>3 DEF AppInv, Apps
  <2> QED
    BY <2>1, <2>2
<1> QED
  BY <1>1 DEF AppInv

(* A callback that starts stands where its call stands, or a group further down. *)
LEMMA CallbackInv ==
  ASSUME AppInv, NEW new \in Callbacks, calls' = Append(calls, new), new.saved = app.prefix,
         new.is = "plugin" => new.under = Top(calls),
         app' \in Apps, Placed(app'.prefix, new.under),
         app'.middlewares = app.middlewares, app'.routes = app.routes,
         snapshot = NotCompiled, UNCHANGED snapshot
  PROVE  AppInv'
<1> DEFINE cs == Append(calls, new)
<1>1. calls \in Seq(Callbacks) /\ Len(calls) \in Nat /\ CallsPlaced(calls) /\ Placed(app.prefix, Top(calls))
  BY LenProperties DEF AppInv
<1>2. /\ cs \in Seq(Callbacks) /\ Len(cs) = Len(calls) + 1 /\ cs # <<>> /\ cs[Len(calls) + 1] = new
      /\ \A c \in 1..Len(calls) : cs[c] = calls[c]
  BY <1>1
<1> HIDE DEF cs
<1>3. Top(cs) = new.under
  BY <1>2 DEF Top
<1>4. Below(cs, Len(calls) + 1) = Top(calls)
  <2>1. CASE calls = <<>>
    BY <2>1, <1>1 DEF Below, Top
  <2>2. CASE calls # <<>>
    <3>1. Len(calls) \in 1..Len(calls) /\ (Len(calls) + 1) - 1 = Len(calls) /\ Len(calls) + 1 # 1
      BY <1>1, <2>2, EmptySeq
    <3> QED
      BY <2>2, <3>1, <1>2 DEF Below, Top
  <2> QED
    BY <2>1, <2>2
<1>5. CallsPlaced(cs)
  <2> SUFFICES ASSUME NEW c \in 1..(Len(calls) + 1)
               PROVE  /\ Placed(cs[c].saved, Below(cs, c))
                      /\ cs[c].is = "plugin" => cs[c].under = Below(cs, c)
    BY <1>2 DEF CallsPlaced
  <2>1. CASE c = Len(calls) + 1
    BY <2>1, <1>1, <1>2, <1>4
  <2>2. CASE c \in 1..Len(calls)
    <3>1. Below(cs, c) = Below(calls, c)
      <4>1. c = 1 \/ c - 1 \in 1..Len(calls)
        BY <1>1, <2>2
      <4> QED
        BY <4>1, <1>2 DEF Below
    <3> QED
      BY <2>2, <3>1, <1>1, <1>2 DEF CallsPlaced
  <2> QED
    BY <1>1, <2>1, <2>2
<1>6. calls' = cs
  BY DEF cs
<1> QED
  BY <1>2, <1>3, <1>5, <1>6 DEF AppInv

LEMMA GroupInv ==
  ASSUME AppInv, NEW path \in Text, group(path)
  PROVE  AppInv'
<1> DEFINE here == Top(calls) \o Segments(path)
           pre == GroupPrefix(path)
           new == [is |-> "group", name |-> "", saved |-> app.prefix, under |-> here]
<1>1. /\ calls' = Append(calls, new) /\ app' = [app EXCEPT !.prefix = pre]
      /\ snapshot = NotCompiled /\ UNCHANGED snapshot
  BY StandingIs DEF group, Call
<1>2. Placed(pre, here)
  BY NormalPlaced, Combined DEF AppInv, GroupPrefix
<1> HIDE DEF pre, here
<1>3. new \in Callbacks /\ new.saved = app.prefix /\ new.is = "group" /\ new.under = here
  BY <1>2 DEF Callbacks, Called, AppInv, Apps, Placed, Splits
<1>4. /\ app' \in Apps /\ app'.prefix = pre /\ app'.middlewares = app.middlewares
      /\ app'.routes = app.routes
  BY <1>1, <1>2 DEF AppInv, Apps, Placed
<1> HIDE DEF new
<1> QED
  BY <1>1, <1>2, <1>3, <1>4, CallbackInv

LEMMA RegisterInv ==
  ASSUME AppInv, NEW name \in Plugins, register(name)
  PROVE  AppInv'
<1> DEFINE here == Top(calls)
           new == [is |-> "plugin", name |-> name, saved |-> app.prefix, under |-> here]
<1>1. /\ calls' = Append(calls, new) /\ app' = app
      /\ snapshot = NotCompiled /\ UNCHANGED snapshot
  BY StandingIs DEF register, Call
<1>2. Placed(app.prefix, here) /\ app \in Apps
  BY DEF AppInv
<1> HIDE DEF here
<1>3. new \in Callbacks /\ new.saved = app.prefix /\ new.is = "plugin" /\ new.under = here
  BY <1>2 DEF Callbacks, Called, Placed, Splits
<1> HIDE DEF new
<1> QED
  BY <1>1, <1>2, <1>3, CallbackInv DEF here

LEMMA ReturnsInv == ASSUME AppInv, Returns PROVE AppInv'
<1> DEFINE L == Len(calls)
           cs == Front(calls)
           top == calls[L]
<1>1. /\ calls \in Seq(Callbacks) /\ calls # <<>> /\ L \in Nat /\ L > 0 /\ CallsPlaced(calls)
      /\ app \in Apps /\ Placed(app.prefix, Top(calls))
  BY EmptySeq, LenProperties DEF AppInv, Returns
<1>2. /\ calls' = cs /\ snapshot = NotCompiled /\ UNCHANGED snapshot
      /\ app' = IF top.is = "group" THEN [app EXCEPT !.prefix = top.saved]
                ELSE [app EXCEPT !.plugins = Append(@, top.name)]
  BY DEF Returns, Last
<1>3. cs \in Seq(Callbacks) /\ Len(cs) = L - 1 /\ \A c \in 1..(L - 1) : cs[c] = calls[c]
  <2>1. 1 \in Int /\ L - 1 \in Int /\ \A i \in 1..(L - 1) : calls[i] \in Callbacks
    BY <1>1
  <2>2. /\ cs \in Seq(Callbacks) /\ Len(cs) = IF 1 <= L - 1 THEN (L - 1) - 1 + 1 ELSE 0
        /\ \A i \in 1..((L - 1) - 1 + 1) : cs[i] = calls[1 + i - 1]
    BY <2>1, SubSeqProperties DEF Front
  <2> HIDE DEF cs
  <2>3. ASSUME NEW l \in Nat, l > 0
        PROVE  /\ (l - 1) - 1 + 1 = l - 1
               /\ (IF 1 <= l - 1 THEN (l - 1) - 1 + 1 ELSE 0) = l - 1
               /\ \A i \in 1..(l - 1) : 1 + i - 1 = i
    BY <2>3
  <2>4. L \in Nat /\ L > 0
    BY <1>1
  <2> HIDE DEF L
  <2>5. Len(cs) = L - 1
    BY <2>2, <2>3, <2>4
  <2>6. \A i \in 1..(L - 1) : cs[i] = calls[1 + i - 1]
    BY <2>2, <2>3, <2>4
  <2> QED
    BY <2>2, <2>3, <2>4, <2>5, <2>6
<1>4. top \in Callbacks /\ L \in 1..L
  BY <1>1, ElementOfSeq
<1>5. /\ Placed(top.saved, Below(calls, L)) /\ top.under = Top(calls)
      /\ top.is = "plugin" => top.under = Below(calls, L)
  BY <1>1, <1>4 DEF CallsPlaced, Top
<1> HIDE DEF cs, top, L
<1>6. Top(cs) = Below(calls, L)
  <2>1. CASE L = 1
    <3>1. cs = <<>>
      BY <1>3, <2>1, EmptySeq
    <3> QED
      BY <2>1, <3>1 DEF Top, Below
  <2>2. CASE L # 1
    <3>1. L - 1 \in 1..(L - 1) /\ cs # <<>>
      BY <1>1, <1>3, <2>2
    <3> QED
      BY <2>2, <3>1, <1>3 DEF Top, Below
  <2> QED
    BY <2>1, <2>2
<1>7. CallsPlaced(cs)
  <2> SUFFICES ASSUME NEW c \in 1..(L - 1)
               PROVE  /\ Placed(cs[c].saved, Below(cs, c))
                      /\ cs[c].is = "plugin" => cs[c].under = Below(cs, c)
    BY <1>3 DEF CallsPlaced
  <2>1. c \in 1..L /\ (c = 1 \/ c - 1 \in 1..(L - 1))
    BY <1>1
  <2>2. Below(cs, c) = Below(calls, c)
    BY <1>3, <2>1 DEF Below
  <2> QED
    BY <2>1, <2>2, <1>1, <1>3 DEF CallsPlaced, L
<1>8. /\ app' \in Apps /\ app'.middlewares = app.middlewares /\ app'.routes = app.routes
      /\ Placed(app'.prefix, Top(cs))
  <2>1. CASE top.is = "group"
    <3>1. app' = [app EXCEPT !.prefix = top.saved]
      BY <1>2, <2>1
    <3> QED
      BY <3>1, <1>1, <1>5, <1>6 DEF Apps, Placed
  <2>2. CASE top.is # "group"
    <3> DEFINE names == Append(app.plugins, top.name)
    <3>1. top.is = "plugin" /\ top.name \in Called /\ app.plugins \in Seq(Called)
      BY <1>1, <1>4, <2>2 DEF Callbacks, Apps
    <3>2. names \in Seq(Called)
      BY <3>1
    <3>3. app' = [app EXCEPT !.plugins = names]
      BY <1>2, <2>2
    <3> HIDE DEF names
    <3> QED
      BY <3>1, <3>2, <3>3, <1>1, <1>5, <1>6 DEF Apps
  <2> QED
    BY <2>1, <2>2
<1> QED
  BY <1>2, <1>3, <1>7, <1>8 DEF AppInv

LEMMA ThrowsInv == ASSUME AppInv, Throws PROVE AppInv'
<1> DEFINE pre == IF calls = <<>> THEN app.prefix ELSE calls[1].saved
<1>1. /\ calls' = <<>> /\ snapshot = NotCompiled /\ UNCHANGED snapshot
      /\ app' = [app EXCEPT !.prefix = pre]
  BY DEF Throws, Call, Unwound
<1>2. Placed(pre, <<>>)
  <2>1. CASE calls = <<>>
    BY <2>1 DEF AppInv, Top
  <2>2. CASE calls # <<>>
    <3>1. calls \in Seq(Callbacks) /\ CallsPlaced(calls)
      BY DEF AppInv
    <3>2. 1 \in 1..Len(calls)
      BY <2>2, <3>1, EmptySeq, LenProperties
    <3> QED
      BY <2>2, <3>1, <3>2 DEF CallsPlaced, Below
  <2> QED
    BY <2>1, <2>2
<1> HIDE DEF pre
<1>3. /\ app' \in Apps /\ app'.middlewares = app.middlewares /\ app'.routes = app.routes
      /\ app'.prefix = pre
  BY <1>1, <1>2 DEF AppInv, Apps, Placed
<1>4. calls' \in Seq(Callbacks) /\ Top(calls') = <<>> /\ CallsPlaced(calls')
  BY <1>1 DEF Top, CallsPlaced
<1> QED
  BY <1>1, <1>2, <1>3, <1>4 DEF AppInv

LEMMA PathsAreText == Paths \cup {NoPath} \subseteq Text
<1>1. STRING \subseteq Pieces
  BY DEF Pieces
<1>2. Seq(STRING) \subseteq Text
  BY <1>1, SeqMonotonic DEF Text
<1>3. NoPath \in Text
  BY DEF Text, NoPath
<1>4. Paths \subseteq Text
  BY <1>2, ApplicationAssumption
<1> QED
  BY <1>3, <1>4

(* Every registration call, return, exception and compilation preserves the invariant. *)
LEMMA AppStep == AppInv /\ [AppNext]_appVars => AppInv'
<1> SUFFICES ASSUME AppInv, [AppNext]_appVars PROVE AppInv'
  OBVIOUS
<1>1. \A p \in Paths \cup {NoPath} : p \in Text
  BY PathsAreText
<1>2. CASE \E p \in Paths \cup {NoPath} : use(p)
  BY <1>1, <1>2, UseInv
<1>3. CASE \E p \in Paths : route(<<"GET">>, p) \/ route(HTTP_METHODS, p)
  BY <1>1, <1>3, RouteInv
<1>4. CASE \E p \in Paths : static(p) \/ ws(p) \/ group(p)
  BY <1>1, <1>4, StaticInv, OtherInv, GroupInv
<1>5. CASE \E k \in {"any", "404"} : onError(k)
  BY <1>5, OtherInv
<1>6. CASE \E name \in Plugins : register(name)
  BY <1>6, RegisterInv
<1>7. CASE Throws
  BY <1>7, ThrowsInv
<1>8. CASE Returns
  BY <1>8, ReturnsInv
<1>9. CASE Compile
  BY <1>9 DEF Compile, AppInv
<1>10. CASE UNCHANGED appVars
  BY <1>10 DEF appVars, AppInv
<1> QED
  BY <1>2, <1>3, <1>4, <1>5, <1>6, <1>7, <1>8, <1>9, <1>10 DEF AppNext

(* The prefix of each middleware is compared with a pattern by the names both spell. *)
LEMMA AppliesUnder ==
  ASSUME AppInv, NEW m \in DOMAIN app.middlewares, NEW k \in DOMAIN app.routes,
         Absolute(app.routes[k].given)
  PROVE  (m \in Applicable(app, app.routes[k]))
            <=> IsPrefix(app.middlewares[m].under, app.routes[k].under)
<1> DEFINE pre == app.middlewares[m].pathPrefix
           path == app.routes[k].path
           s == app.middlewares[m].under
           t == app.routes[k].under
<1>1. Placed(pre, s) /\ Placed(path, t)
  BY DEF AppInv, MiddlewaresPlaced, RoutesPlaced, RoutePlacedWell
<1>2. (m \in Applicable(app, app.routes[k])) <=> pathPrefixMatches(pre, path)
  BY DEF Applicable
<1> HIDE DEF pre, path, s, t
<1>3. pathPrefixMatches(pre, path) <=> IsPrefix(s, t)
  BY <1>1, PrefixMatches DEF Placed
<1> QED
  BY <1>2, <1>3 DEF s, t

LEMMA AppInvSound == AppInv => RegistrationSound
<1> SUFFICES ASSUME AppInv PROVE RegistrationSound
  OBVIOUS
<1>1. CASE snapshot.routes = <<>>
  BY <1>1 DEF RegistrationSound, Scoped, StaticUnguarded
<1>2. CASE /\ snapshot.routes = [k \in DOMAIN app.routes |->
                  [route |-> app.routes[k], mw |-> Applicable(app, app.routes[k])]]
           /\ ~ \E k \in DOMAIN app.routes :
                   app.routes[k].static /\ Applicable(app, app.routes[k]) # {}
  <2>1. ASSUME NEW k \in DOMAIN snapshot.routes, Absolute(snapshot.routes[k].route.given)
        PROVE  /\ k \in DOMAIN app.routes /\ snapshot.routes[k].route = app.routes[k]
               /\ snapshot.routes[k].mw = Applicable(app, app.routes[k])
               /\ Applicable(app, app.routes[k]) = {m \in DOMAIN app.middlewares :
                       IsPrefix(app.middlewares[m].under, app.routes[k].under)}
    <3>1. /\ k \in DOMAIN app.routes /\ snapshot.routes[k].route = app.routes[k]
          /\ snapshot.routes[k].mw = Applicable(app, app.routes[k])
      BY <1>2
    <3>2. Applicable(app, app.routes[k]) \subseteq DOMAIN app.middlewares
      BY DEF Applicable
    <3> QED
      BY <2>1, <3>1, <3>2, AppliesUnder
  <2>2. Scoped
    BY <2>1 DEF Scoped
  <2>3. StaticUnguarded
    <3> SUFFICES ASSUME NEW k \in DOMAIN snapshot.routes,
                        snapshot.routes[k].route.static, Absolute(snapshot.routes[k].route.given),
                        NEW m \in DOMAIN app.middlewares,
                        IsPrefix(app.middlewares[m].under, snapshot.routes[k].route.under)
                 PROVE  FALSE
      BY DEF StaticUnguarded
    <3>1. m \in Applicable(app, app.routes[k]) /\ k \in DOMAIN app.routes /\ app.routes[k].static
      BY <2>1
    <3> QED
      BY <3>1, <1>2
  <2> QED
    BY <2>2, <2>3 DEF RegistrationSound
<1> DEFINE refuses == \E k \in DOMAIN app.routes : app.routes[k].static /\ Applicable(app, app.routes[k]) # {}
           compiled == [k \in DOMAIN app.routes |->
                           [route |-> app.routes[k], mw |-> Applicable(app, app.routes[k])]]
<1>3. \/ snapshot = [state |-> "none", routes |-> <<>>]
      \/ snapshot = [state |-> "refused", routes |-> <<>>]
      \/ ~refuses /\ snapshot = [state |-> "compiled", routes |-> compiled]
  BY DEF AppInv, NotCompiled, buildCompiledApplication
<1>4. snapshot.routes = <<>> \/ (~refuses /\ snapshot.routes = compiled)
  <2> HIDE DEF refuses, compiled
  <2> QED
    BY <1>3
<1> QED
  BY <1>1, <1>2, <1>4

(* An application that registration can have built is where registration can come to. *)
LEMMA BuiltInv ==
  ASSUME NEW m \in Nat, NEW hs \in {<<>>, <<"404", "any">>},
         app = Built(m, hs), calls = <<>>, snapshot = buildCompiledApplication(app)
  PROVE  AppInv
<1> DEFINE ms == [p \in 1..m |-> [pathPrefix |-> Root, under |-> <<>>]]
           r == [method |-> "GET", path |-> Root, handlerId |-> 1, static |-> FALSE,
                 under |-> <<>>, given |-> Root]
           rs == <<r>>
<1>1. app = [prefix |-> Root, routes |-> rs, wsRoutes |-> <<>>, middlewares |-> ms,
             errorHandlers |-> hs, nextHandlerId |-> 2, plugins |-> <<>>]
  BY DEF Built, Fresh
<1>2. Root \in Text /\ <<>> \in Names /\ Root # <<>>
  BY NoNames, RootIs DEF Placed, Splits
<1>3. r \in Routes /\ r.path = Root /\ r.under = <<>>
  BY <1>2 DEF Routes
<1>4. RoutePlacedWell(r)
  BY <1>2, <1>3, NoNames DEF RoutePlacedWell
<1> HIDE DEF r
<1>5. rs \in Seq(Routes) /\ RoutesPlaced(rs)
  BY <1>3, <1>4 DEF RoutesPlaced
<1>6. ms \in Seq(Middlewares) /\ MiddlewaresPlaced(ms)
  <2>1. ms \in [1..m -> Middlewares]
    BY <1>2 DEF Middlewares
  <2>2. \A p \in DOMAIN ms : Placed(ms[p].pathPrefix, ms[p].under)
    BY NoNames
  <2> HIDE DEF ms
  <2> QED
    BY <2>1, <2>2 DEF MiddlewaresPlaced
<1>7. hs \in Seq({"any", "404"})
  <2>1. <<>> \in Seq({"any", "404"}) /\ <<"404", "any">> \in Seq({"any", "404"})
    OBVIOUS
  <2> QED
    BY <2>1
<1> HIDE DEF ms, rs
<1>8. app \in Apps /\ app.prefix = Root /\ app.middlewares = ms /\ app.routes = rs
  <2> DEFINE none == <<>>
  <2>1. none \in Seq([path : Text, handlerId : Nat]) /\ none \in Seq(Called)
    OBVIOUS
  <2> HIDE DEF none
  <2> QED
    BY <1>1, <1>2, <1>5, <1>6, <1>7, <2>1 DEF Apps, none
<1>9. calls \in Seq(Callbacks) /\ Top(calls) = <<>> /\ CallsPlaced(calls)
  BY DEF Top, CallsPlaced
<1> QED
  BY <1>5, <1>6, <1>8, <1>9, NoNames DEF AppInv

LEMMA RegistrationInv == Spec => []AppInv
<1>1. Init => AppInv
  <2> SUFFICES ASSUME Init PROVE AppInv
    OBVIOUS
  <2>1. CASE AppInit
    BY <2>1, AppInitInv
  <2>2. CASE \E m \in 0..MaxChain, hs \in {<<>>, <<"404", "any">>} :
                app = Built(m, hs) /\ calls = <<>> /\ snapshot = buildCompiledApplication(app)
    <3>1. \A m \in 0..MaxChain : m \in Nat
      BY PipelineAssumption
    <3> QED
      BY <2>2, <3>1, BuiltInv
  <2> QED
    BY <2>1, <2>2 DEF Init
<1>2. AppInv /\ [Next]_vars => AppInv'
  <2> SUFFICES ASSUME AppInv, [Next]_vars PROVE AppInv'
    OBVIOUS
  <2>1. [AppNext]_appVars
    BY DEF Next, vars, appVars
  <2> QED
    BY <2>1, AppStep
<1> QED
  BY <1>1, <1>2, PTL DEF Spec

(* Whatever calls were nested, left or cut short by an exception, a compiled     *)
(* route has exactly the middlewares it lies under, and no static route gets     *)
(* past one (createApp's registration calls and buildCompiledApplication).       *)
THEOREM RegistrationsAreSound == Spec => []RegistrationSound
BY RegistrationInv, AppInvSound, PTL

-----------------------------------------------------------------------------

(* The guards *)

(* csrf: the token compared is that of a cookie, or one nobody knows yet. *)
LEMMA CsrfIs ==
  ASSUME NEW i, i.cookies \in Seq(STRING \X (Secrets \cup {None})),
         i.header \in Secrets \cup {None}, i.body \in Secrets \cup {None}
  PROVE  CsrfSound(i, Csrf(i))
<1> DEFINE sent == parseCookieValue(i.cookies, "_csrf")
           token == IF sent = None THEN "new" ELSE sent
<1> SUFFICES ASSUME Csrf(i).act = "next", i.method \notin SAFE_METHODS
             PROVE  \E t \in Secrets : <<"_csrf", t>> \in ToSet(i.cookies) /\ t \in {i.header, i.body}
  BY DEF CsrfSound
<1>1. safeTokenEquals(i.header, token) \/ safeTokenEquals(i.body, token)
  BY DEF Csrf, Verdict
<1> HIDE DEF sent
<1>2. token \in {i.header, i.body} /\ token # None /\ token \in Secrets
  BY <1>1 DEF safeTokenEquals
<1>3. sent = token /\ sent # None
  <2>1. "new" \notin Secrets
    BY GuardsAssumption
  <2> QED
    BY <1>2, <2>1
<1>4. PICK k \in 1..Len(i.cookies) : i.cookies[k][1] = "_csrf" /\ i.cookies[k][2] = sent
  <2> DEFINE mine == {k \in 1..Len(i.cookies) : i.cookies[k][1] = "_csrf"}
             first == CHOOSE k \in mine : \A l \in mine : k <= l
  <2>1. mine # {} /\ sent = i.cookies[first][2]
    BY <1>3 DEF sent, parseCookieValue
  <2>2. mine \in SUBSET Nat
    OBVIOUS
  <2>3. \E k \in mine : \A l \in mine : k <= l
    <3> HIDE DEF mine
    <3> QED
      BY <2>1, <2>2, LeastOf
  <2>4. first \in mine
    <3> HIDE DEF mine
    <3> QED
      BY <2>3
  <2> QED
    BY <2>1, <2>4
<1>5. i.cookies[k] = <<"_csrf", sent>>
  <2>1. i.cookies[k] \in STRING \X (Secrets \cup {None})
    BY ElementOfSeq
  <2> QED
    BY <1>4, <2>1
<1>6. <<"_csrf", sent>> \in ToSet(i.cookies)
  <2>1. k \in DOMAIN i.cookies
    BY LenProperties
  <2> QED
    BY <1>5, <2>1 DEF ToSet
<1> QED
  BY <1>2, <1>3, <1>6

(* Addresses with the same masked bits are in the same block. *)
LEMMA BlockOf ==
  ASSUME NEW a \in Nat, NEW s \in Nat, s > 0
  PROVE  /\ a \div s \in Nat /\ a \div s <= a
         /\ Masked(a, s) = (a \div s) * s /\ a \in ((a \div s) * s)..((a \div s) * s + s - 1)
<1>1. (a \div s) * s <= a /\ a < (a \div s) * s + s /\ a \div s \in Nat /\ a \div s <= a
  OBVIOUS
<1> DEFINE q == a \div s
           low == q * s
<1>2. low \in Nat /\ low <= a /\ a < low + s
  BY <1>1
<1>3. a \in low..(low + s - 1)
  <2> HIDE DEF low
  <2> QED
    BY <1>2
<1> QED
  BY <1>1, <1>3 DEF Masked

LEMMA CidrIs ==
  ASSUME NEW ip \in Nat, NEW r \in [ip : Nat, size : Nat \ {0}], matchesCIDR(ip, parseCIDR(r))
  PROVE  InRange(ip, r)
<1> DEFINE s == r.size
           b == ip \div s
<1>1. s \in Nat /\ s > 0 /\ r.ip \in Nat
  OBVIOUS
<1>2. Masked(ip, s) = Masked(r.ip, s)
  BY DEF matchesCIDR, parseCIDR
<1>3. b \in Nat /\ b <= ip /\ Masked(ip, s) = b * s /\ ip \in (b * s)..(b * s + s - 1)
  BY <1>1, BlockOf
<1>4. r.ip \in Masked(r.ip, s)..(Masked(r.ip, s) + s - 1)
  BY <1>1, BlockOf
<1>5. {ip, r.ip} \subseteq (b * s)..(b * s + s - 1)
  BY <1>2, <1>3, <1>4
<1>6. b \in 0..ip
  <2> HIDE DEF b
  <2> QED
    BY <1>3
<1> QED
  BY <1>5, <1>6 DEF InRange

(* ipFilter: whoever an allow list lets on is in one of its ranges. *)
LEMMA IpFilterIs ==
  ASSUME NEW i, clientIp(i) \in [form : {"dotted", "mapped", "other"}, ip : Nat],
         i.allow \subseteq [ip : Nat, size : Nat \ {0}]
  PROVE  IpSound(i, IpFilter(i))
<1> DEFINE client == clientIp(i)
           ip == extractIPv4(client)
<1>1. (IF i.trustProxy /\ i.forwarded # <<>> THEN Head(i.forwarded) ELSE i.ip) = client
  BY DEF clientIp
<1> SUFFICES ASSUME IpFilter(i).act = "next", i.allow # {}
             PROVE  client.form # "other" /\ \E r \in i.allow : InRange(client.ip, r)
  BY <1>1 DEF IpSound
<1>2. ip # NoIp /\ \E r \in i.allow : matchesCIDR(ip, parseCIDR(r))
  BY DEF IpFilter, Denied, Answer, Verdict
<1>3. client.form # "other" /\ ip = client.ip /\ ip \in Nat
  <2> HIDE DEF client
  <2>1. client \in [form : {"dotted", "mapped", "other"}, ip : Nat]
    BY DEF client
  <2>2. client.form = "mapped" => extractIPv4(client) = client.ip
    BY <2>1 DEF extractIPv4, parseIPv4
  <2>3. client.form # "mapped" => extractIPv4(client) = IF client.form = "dotted" THEN client.ip ELSE NoIp
    BY <2>1 DEF extractIPv4, parseIPv4
  <2> QED
    BY <1>2, <2>1, <2>2, <2>3
<1>4. PICK r \in i.allow : matchesCIDR(client.ip, parseCIDR(r))
  BY <1>2, <1>3
<1>5. r \in [ip : Nat, size : Nat \ {0}]
  OBVIOUS
<1>6. InRange(client.ip, r)
  <2> HIDE DEF client
  <2> QED
    BY <1>3, <1>4, <1>5, CidrIs
<1> QED
  BY <1>3, <1>6

(* validate: every schema accepted its data. *)
LEMMA ValidateIs ==
  ASSUME NEW i, DOMAIN i.schemas \subseteq {"params", "query", "body"},
         \A f \in DOMAIN i.schemas : i.schemas[f].accepts \in BOOLEAN
  PROVE  ValidateSound(i, Validate(i))
<1> SUFFICES ASSUME Validate(i).act = "next", NEW f \in DOMAIN i.schemas
             PROVE  i.schemas[f].accepts /\ i.schemas[f].style # "none" /\ (f = "body" => i.body = "json")
  BY DEF ValidateSound
<1>1. parseSchema(i.schemas[f]) = "value" /\ ~(f = "body" /\ i.body # "json")
  BY DEF Validate, Answer, Verdict
<1> QED
  BY <1>1 DEF parseSchema

(* bodyLimit: a body that is let on is within the limit. *)
LEMMA BodyLimitIs ==
  ASSUME NEW i, i.length \in Nat, i.limit.value \in Nat, i.limit.unit \in DOMAIN SIZE_UNITS
  PROVE  BodyLimitSound(i, BodyLimit(i))
<1> SUFFICES ASSUME BodyLimit(i).act = "next"
             PROVE  i.length <= (IF i.limit.unit = "b" THEN i.limit.value ELSE 1024 * i.limit.value)
  BY DEF BodyLimitSound
<1>1. ~(i.length > parseSize(i.limit))
  BY DEF BodyLimit, Answer, Verdict
<1>2. parseSize(i.limit) = IF i.limit.unit = "b" THEN i.limit.value ELSE 1024 * i.limit.value
  BY DEF parseSize, SIZE_UNITS
<1> QED
  BY <1>1, <1>2

(* cors: an origin is allowed by name only if it is the request's and configured, and the
   wildcard never comes with credentials. *)
LEMMA CorsIs ==
  ASSUME NEW i, i.credentials \in BOOLEAN, i.origin \in Origins \cup {None}
  PROVE  CorsSound(i, Cors(i))
<1> DEFINE effective == IF i.configured = {"*"} /\ ~i.credentials THEN "*" ELSE i.origin
           vary == IF effective # "*" THEN {<<"vary", "origin">>} ELSE {}
           cred == IF i.credentials THEN {<<"credentials", "true">>} ELSE {}
           set == {<<"allow", effective>>} \cup cred \cup vary
<1>1. \/ Cors(i).set = {}
      \/ /\ Cors(i).set = set
         /\ i.origin # None /\ matchOrigin(i.configured, i.origin)
  BY DEF Cors, Next_, Verdict
<1>2. "*" \notin Origins /\ None \notin Origins
  BY GuardsAssumption
<1>3. ASSUME NEW o, <<"allow", o>> \in set PROVE o = effective
  BY <1>3
<1>4. effective = "*" => i.configured = {"*"} /\ ~i.credentials
  BY <1>2 DEF None
<1>5. ~i.credentials => <<"credentials", "true">> \notin set
  OBVIOUS
<1>6. effective # "*" => <<"vary", "origin">> \in set
  OBVIOUS
<1>7. effective \in Origins => effective = i.origin /\ effective # "*"
  BY <1>2
<1> HIDE DEF set, effective
<1>8. <<"allow", "*">> \in Cors(i).set => <<"credentials", "true">> \notin Cors(i).set
  BY <1>1, <1>3, <1>4, <1>5
<1>9. ASSUME NEW o \in Origins, <<"allow", o>> \in Cors(i).set
      PROVE  i.origin = o /\ <<"vary", "origin">> \in Cors(i).set /\ {"*", o} \cap i.configured # {}
  <2>1. o = effective /\ Cors(i).set = set /\ matchOrigin(i.configured, i.origin)
    BY <1>1, <1>3, <1>9
  <2>2. i.origin = o /\ effective # "*"
    BY <1>7, <2>1
  <2>3. "*" \in i.configured \/ o \in i.configured
    BY <2>1, <2>2 DEF matchOrigin
  <2> QED
    BY <1>6, <2>1, <2>2, <2>3
<1> QED
  BY <1>8, <1>9 DEF CorsSound

(* rateLimit: who is not skipped is let on by the native limiter only. *)
LEMMA RateLimitIs == \A i : i.allowed \in BOOLEAN => RateLimitSound(i, RateLimit(i))
<1> SUFFICES ASSUME NEW i, i.allowed \in BOOLEAN, RateLimit(i).act = "next",
                    i.skip \notin {"always", "skipped"}
             PROVE  i.allowed
  BY DEF RateLimitSound
<1>1. check(i) \in {"throws", "allowed", "refused"}
  BY DEF check
<1>2. CASE check(i) = "throws"
  <2>1. RateLimit(i) = Verdict("throw", 0, {})
    BY <1>2, Zenon DEF RateLimit
  <2> QED
    BY <2>1 DEF Verdict
<1>3. CASE check(i) = "allowed"
  BY <1>3 DEF check
<1>4. CASE check(i) = "refused"
  <2>1. RateLimit(i) = Rejected(i)
    BY <1>4, Zenon DEF RateLimit
  <2> QED
    BY <2>1 DEF Rejected, Verdict
<1> QED
  BY <1>1, <1>2, <1>3, <1>4

(* The positions of files are finitely many. *)
LEMMA FilesFinite ==
  \A parts, k : k \in Nat => IsFiniteSet(Files(parts, k)) /\ Cardinality(Files(parts, k)) \in Nat
<1> TAKE parts, k
<1> HAVE k \in Nat
<1>1. IsFiniteSet(1..k)
  BY FS_Interval
<1>2. Files(parts, k) \subseteq 1..k
  BY DEF Files
<1>3. IsFiniteSet(Files(parts, k))
  BY <1>1, <1>2, FS_Subset
<1> QED
  BY <1>3, FS_CardinalityType

(* As long as no part exceeds a limit there are not too many files. *)
LEMMA FilesBounded ==
  ASSUME NEW parts, NEW limits, limits.maxFiles \in Nat, NEW e \in Nat,
         \A k \in 1..e : ~Exceeds(parts, limits, k)
  PROVE  Cardinality(Files(parts, e)) <= limits.maxFiles
<1> DEFINE Over(k) == Cardinality(Files(parts, k)) > limits.maxFiles
           T == {k \in 0..e : Over(k)}
<1>1. \A k \in Nat : IsFiniteSet(Files(parts, k)) /\ Cardinality(Files(parts, k)) \in Nat
  BY FilesFinite
<1> SUFFICES ASSUME T # {} PROVE FALSE
  <2>1. e \in 0..e
    OBVIOUS
  <2>2. e \notin T => ~Over(e)
    BY <2>1
  <2>3. ~Over(e) => Cardinality(Files(parts, e)) <= limits.maxFiles
    BY <1>1
  <2> QED
    BY <2>2, <2>3
<1>2. PICK k \in T : \A l \in T : k <= l
  <2>1. T \in SUBSET Nat
    OBVIOUS
  <2> HIDE DEF T
  <2> QED
    BY <2>1, LeastOf
<1>3. k \in Nat /\ k <= e /\ Over(k)
  OBVIOUS
<1>4. k # 0
  <2>1. Files(parts, 0) = {}
    BY DEF Files
  <2>2. Cardinality(Files(parts, 0)) = 0
    BY <2>1, FS_EmptySet
  <2> QED
    BY <1>3, <2>2
<1>5. k - 1 \in Nat /\ k - 1 \in 0..e /\ k \in 1..e /\ k - 1 < k /\ k \notin 1..(k - 1)
      /\ 1..k = (1..(k - 1)) \cup {k}
  BY <1>3, <1>4
<1>6. ~Over(k - 1)
  BY <1>2, <1>5
<1> DEFINE old == Files(parts, k - 1)
<1>7. IsFiniteSet(old) /\ Cardinality(old) \in Nat /\ Cardinality(old) <= limits.maxFiles
  BY <1>1, <1>5, <1>6
<1>8. CASE Disposition(parts[k]) = "file"
  <2>1. Cardinality(old) < limits.maxFiles
    <3>1. ~Exceeds(parts, limits, k)
      BY <1>5
    <3>2. ~(Cardinality(old) >= limits.maxFiles)
      BY <1>8, <3>1 DEF Exceeds
    <3> QED
      BY <1>7, <3>2
  <2>2. Files(parts, k) = old \cup {k} /\ k \notin old
    BY <1>5, <1>8 DEF Files
  <2>3. Cardinality(old \cup {k}) = Cardinality(old) + 1
    BY <1>7, <2>2, FS_AddElement
  <2> HIDE DEF old
  <2>4. Cardinality(Files(parts, k)) <= limits.maxFiles
    BY <1>7, <2>1, <2>2, <2>3
  <2> QED
    BY <1>3, <1>1, <2>4
<1>9. CASE Disposition(parts[k]) # "file"
  <2>1. Files(parts, k) = old
    BY <1>5, <1>9 DEF Files
  <2> QED
    BY <1>3, <1>6, <2>1
<1> QED
  BY <1>8, <1>9

(* multipart: what is stored keeps every limit, and nothing before the end is left out. *)
LEMMA MultipartIs ==
  ASSUME NEW i, i.parts \in Seq(Parts),
         i.limits \in [maxFiles : Nat, maxFileSize : Nat, maxFieldSize : Nat]
  PROVE  MultipartSound(i, Multipart(i))
<1> DEFINE parts == i.parts
           limits == i.limits
           L == Len(parts)
           stops == {k \in 1..L : ~parts[k].whole \/ Exceeds(parts, limits, k)}
           stop == CHOOSE k \in stops \cup {L + 1} : \A l \in stops : k <= l
           result == parseMultipartBody(parts, limits)
<1>1. /\ result = [files |-> Files(parts, stop - 1), fields |-> Fields(parts, stop - 1),
                   refused |-> stop <= L /\ parts[stop].whole]
  BY DEF parseMultipartBody
<1>2. Multipart(i).set = {} \/ (Multipart(i).set = {<<"parsed", result>>} /\ ~result.refused)
  BY DEF Multipart, Next_, Answer, Verdict
<1>3. L \in Nat /\ \A k \in 1..L : parts[k] \in Parts
  BY LenProperties, ElementOfSeq
<1> HIDE DEF result
<1>4. stop \in stops \cup {L + 1} /\ \A l \in stops : stop <= l
  <2> DEFINE all == stops \cup {L + 1}
  <2>1. all \in SUBSET Nat /\ all # {}
    BY <1>3
  <2> HIDE DEF all
  <2>2. \E k \in all : \A l \in all : k <= l
    BY <2>1, LeastOf
  <2>3. \E k \in stops \cup {L + 1} : \A l \in stops : k <= l
    BY <2>2 DEF all
  <2> HIDE DEF stops, L
  <2> QED
    BY <2>3
<1> HIDE DEF stop
<1>5. stop \in 1..(L + 1) /\ stop - 1 \in Nat /\ stop - 1 <= L
  BY <1>3, <1>4
<1>6. \A k \in 1..(stop - 1) : k \in 1..L /\ k \notin stops /\ ~Exceeds(parts, limits, k)
  <2> TAKE k \in 1..(stop - 1)
  <2>1. k \in 1..L /\ k < stop
    BY <1>3, <1>5
  <2>2. k \notin stops
    BY <1>4, <1>5, <2>1
  <2> QED
    BY <2>1, <2>2
<1>7. Cardinality(Files(parts, stop - 1)) <= limits.maxFiles
  <2>1. limits.maxFiles \in Nat
    OBVIOUS
  <2> HIDE DEF parts, limits
  <2> QED
    BY <1>5, <1>6, <2>1, FilesBounded
<1>8. \A k \in Files(parts, stop - 1) : parts[k].size <= limits.maxFileSize
  <2> TAKE k \in Files(parts, stop - 1)
  <2>1. k \in 1..(stop - 1) /\ Disposition(parts[k]) = "file"
    BY DEF Files
  <2>2. ~(parts[k].size > limits.maxFileSize)
    BY <1>6, <2>1 DEF Exceeds
  <2>3. parts[k].size \in Nat /\ limits.maxFileSize \in Nat
    BY <1>3, <1>6, <2>1 DEF Parts
  <2> QED
    BY <2>2, <2>3
<1>9. \A k \in Fields(parts, stop - 1) : parts[k].size <= limits.maxFieldSize
  <2> TAKE k \in Fields(parts, stop - 1)
  <2>1. k \in 1..(stop - 1) /\ Disposition(parts[k]) = "field"
    BY DEF Fields
  <2>2. ~(parts[k].size > limits.maxFieldSize)
    BY <1>6, <2>1 DEF Exceeds
  <2>3. parts[k].size \in Nat /\ limits.maxFieldSize \in Nat
    BY <1>3, <1>6, <2>1 DEF Parts
  <2> QED
    BY <2>2, <2>3
<1>10. ASSUME ~result.refused, NEW k \in 1..L, \A l \in 1..k : parts[l].whole,
              "filename" \in parts[k].names
       PROVE  k \in Files(parts, stop - 1)
  <2>1. ~(stop <= L /\ parts[stop].whole)
    BY <1>1, <1>10
  <2>2. ~(stop <= k)
    <3> SUFFICES ASSUME stop <= k PROVE FALSE
      OBVIOUS
    <3>1. stop \in 1..k /\ stop <= L
      BY <1>3, <1>5
    <3> QED
      BY <1>10, <2>1, <3>1
  <2>3. k \in 1..(stop - 1)
    BY <1>3, <1>5, <2>2
  <2>4. Disposition(parts[k]) = "file"
    BY <1>10 DEF Disposition
  <2> QED
    BY <2>3, <2>4 DEF Files
<1>11. result.files = Files(parts, stop - 1) /\ result.fields = Fields(parts, stop - 1)
  BY <1>1
<1> QED
  BY <1>2, <1>7, <1>8, <1>9, <1>10, <1>11 DEF MultipartSound

(* Every question a guard can be asked gets a sound answer. *)
LEMMA QuestionsAnswered == asked = Nothing \/ asked \in Questions => GuardsSound
<1> SUFFICES ASSUME asked \in Questions PROVE GuardsSound
  BY DEF GuardsSound
<1>1. CASE asked \in [kind : {"csrf"}, i : CsrfInputs("GET") \cup CsrfInputs("POST")]
  <2>1. asked.i.cookies \in Jars /\ asked.i.header \in Secrets \cup {None} /\ asked.i.body \in Secrets \cup {None}
    BY <1>1 DEF CsrfInputs
  <2>2. asked.i.cookies \in Seq(STRING \X (Secrets \cup {None}))
    BY <2>1, GuardsAssumption
  <2>3. CsrfSound(asked.i, Csrf(asked.i)) /\ asked.kind = "csrf"
    BY <1>1, <2>1, <2>2, CsrfIs
  <2> QED
    BY <2>3 DEF GuardsSound
<1>2. CASE asked \in [kind : {"ipFilter"}, i : IpInputs]
  <2> DEFINE A == [form : {"dotted", "mapped", "other"}, ip : Nat]
             q == asked.i
  <2>1. q \in IpInputs /\ asked.kind = "ipFilter"
    BY <1>2
  <2>2. q.ip \in Addresses /\ q.forwarded \in {<<>>} \cup (Addresses \X Addresses) /\ q.allow \subseteq Ranges
    BY <2>1 DEF IpInputs
  <2>3. Addresses \subseteq A /\ q.allow \subseteq [ip : Nat, size : Nat \ {0}]
    BY <2>2, GuardsAssumption
  <2> HIDE DEF A, q
  <2>4. clientIp(q) \in A
    <3>1. q.forwarded # <<>> => q.forwarded[1] \in Addresses
      BY <2>2
    <3> QED
      BY <2>2, <2>3, <3>1 DEF clientIp
  <2>5. IpSound(q, IpFilter(q))
    BY <2>3, <2>4, IpFilterIs DEF A
  <2> QED
    BY <2>1, <2>5 DEF GuardsSound, q
<1>3. CASE asked \in [kind : {"validate"}, i : ValidateInputs]
  <2>1. /\ asked.kind = "validate" /\ DOMAIN asked.i.schemas \subseteq {"params", "query", "body"}
        /\ \A f \in DOMAIN asked.i.schemas : asked.i.schemas[f] \in Schemas
    BY <1>3 DEF ValidateInputs
  <2>2. \A s \in Schemas : s.accepts \in BOOLEAN
    <3> TAKE s \in Schemas
    <3>1. s \in [style : {"safeParse"}, accepts : BOOLEAN] \/ s = [style |-> "none", accepts |-> TRUE]
      BY DEF Schemas
    <3>2. s \in [style : {"safeParse"}, accepts : BOOLEAN] => s.accepts \in BOOLEAN
      OBVIOUS
    <3>3. s = [style |-> "none", accepts |-> TRUE] => s.accepts = TRUE
      OBVIOUS
    <3> QED
      BY <3>1, <3>2, <3>3
  <2>3. ValidateSound(asked.i, Validate(asked.i))
    BY <2>1, <2>2, ValidateIs
  <2> QED
    BY <2>1, <2>3 DEF GuardsSound
<1>4. CASE asked \in [kind : {"bodyLimit"}, i : BodyLimitInputs]
  <2>1. /\ asked.kind = "bodyLimit" /\ asked.i.length \in Lengths /\ asked.i.limit.value \in Lengths
        /\ asked.i.limit.unit \in DOMAIN SIZE_UNITS
    BY <1>4 DEF BodyLimitInputs
  <2>2. Lengths \subseteq Nat
    BY GuardsAssumption
  <2>3. BodyLimitSound(asked.i, BodyLimit(asked.i))
    BY <2>1, <2>2, BodyLimitIs
  <2> QED
    BY <2>1, <2>3 DEF GuardsSound
<1>5. CASE asked \in [kind : {"rateLimit"}, i : RateLimitInputs]
  <2>1. asked.kind = "rateLimit" /\ asked.i.allowed \in BOOLEAN
    BY <1>5 DEF RateLimitInputs
  <2> QED
    BY <2>1, RateLimitIs DEF GuardsSound
<1>6. CASE asked \in [kind : {"cors"}, i : CorsInputs("GET") \cup CorsInputs("OPTIONS")]
  <2>1. asked.kind = "cors" /\ asked.i.credentials \in BOOLEAN /\ asked.i.origin \in Origins \cup {None}
    BY <1>6 DEF CorsInputs
  <2>2. CorsSound(asked.i, Cors(asked.i))
    BY <2>1, CorsIs
  <2> QED
    BY <2>1, <2>2 DEF GuardsSound
<1>7. CASE asked \in [kind : {"multipart"}, i : MultipartInputs]
  <2>1. asked.kind = "multipart" /\ asked.i.parts \in Bodies /\ asked.i.limits \in Limits
    BY <1>7 DEF MultipartInputs
  <2>2. asked.i.parts \in Seq(Parts) /\ asked.i.limits \in [maxFiles : Nat, maxFileSize : Nat, maxFieldSize : Nat]
    BY <2>1, GuardsAssumption
  <2>3. MultipartSound(asked.i, Multipart(asked.i))
    BY <2>2, MultipartIs
  <2> QED
    BY <2>1, <2>3 DEF GuardsSound
<1> QED
  BY <1>1, <1>2, <1>3, <1>4, <1>5, <1>6, <1>7 DEF Questions

(* Each guard that the package ships keeps what it is there for, whatever      *)
(* cookies, addresses, ranges, lengths, limits, origins and multipart bodies it  *)
(* is configured with and asked about (csrf, ipFilter, validate, bodyLimit,      *)
(* cors, rateLimit and multipart).                                              *)
THEOREM GuardsAreSound == Spec => []GuardsSound
<1> DEFINE Question == asked = Nothing \/ asked \in Questions
<1>1. Init => Question
  BY DEF Init
<1>2. Question /\ [Next]_vars => Question'
  BY DEF Next, vars
<1>3. Question => GuardsSound
  BY QuestionsAnswered
<1> QED
  BY <1>1, <1>2, <1>3, PTL DEF Spec

-----------------------------------------------------------------------------

(* The circuit breaker: its inductive invariant.                              *)

BreakerInv == BreakerTypeOK /\ ClosedBelowThreshold /\ ProbeAccounting

(* The set of probes is finite, so its cardinality is a natural number.     *)
LEMMA ProbesFinite == IsFiniteSet(Probes) /\ Cardinality(Probes) \in Nat
<1>1. IsFiniteSet(Probes)
  BY BreakerAssumption, FS_Subset DEF Probes
<1> QED
  BY <1>1, FS_CardinalityType

(* A call that starts probing adds one element to the set of probes.        *)
LEMMA StartProbe ==
  ASSUME BreakerTypeOK, NEW c \in Calls, awaiting[c] = "idle",
         awaiting' = [awaiting EXCEPT ![c] = "probe"]
  PROVE  Cardinality(Probes') = Cardinality(Probes) + 1
<1>1. Probes' = Probes \cup {c}
  BY DEF Probes, BreakerTypeOK
<1>2. c \notin Probes
  BY DEF Probes
<1> QED
  BY <1>1, <1>2, ProbesFinite, FS_AddElement

(* A probe that settles leaves the set of probes.                           *)
LEMMA SettleProbe ==
  ASSUME BreakerTypeOK, NEW c \in Calls, awaiting[c] = "probe",
         awaiting' = [awaiting EXCEPT ![c] = "idle"]
  PROVE  Cardinality(Probes') = Cardinality(Probes) - 1
<1>1. Probes' = Probes \ {c}
  BY DEF Probes, BreakerTypeOK
<1>2. c \in Probes
  BY DEF Probes
<1> QED
  BY <1>1, <1>2, ProbesFinite, FS_RemoveElement

(* A step of a call that is not a probe leaves the set of probes alone.     *)
LEMMA OtherCall ==
  ASSUME BreakerTypeOK, NEW c \in Calls, NEW to \in {"idle", "closed"},
         awaiting[c] # "probe",
         awaiting' = [awaiting EXCEPT ![c] = to]
  PROVE  Probes' = Probes
  BY DEF Probes, BreakerTypeOK

(* Every turn of the breaker preserves the inductive invariant.             *)
LEMMA BreakerStep == BreakerInv /\ [BreakerNext]_breakerVars => BreakerInv'
<1> SUFFICES ASSUME BreakerInv, [BreakerNext]_breakerVars PROVE BreakerInv'
  OBVIOUS
<1> USE BreakerAssumption DEF BreakerInv
<1>0. Cardinality(Probes) \in Nat
  BY ProbesFinite
<1>1. ASSUME NEW c \in Calls, CallClosed(c) PROVE BreakerInv'
  <2>1. Probes' = Probes
    BY <1>1, OtherCall DEF CallClosed
  <2> QED
    BY <1>1, <2>1 DEF CallClosed, BreakerTypeOK, ClosedBelowThreshold, ProbeAccounting
<1>2. ASSUME NEW c \in Calls, CallRejected(c) PROVE BreakerInv'
  BY <1>2 DEF CallRejected, breakerVars, BreakerTypeOK, ClosedBelowThreshold, ProbeAccounting, Probes
<1>3. ASSUME NEW c \in Calls, CallProbe(c) PROVE BreakerInv'
  <2>1. Cardinality(Probes') = Cardinality(Probes) + 1
    BY <1>3, StartProbe DEF CallProbe
  <2> QED
    BY <1>0, <1>3, <2>1 DEF CallProbe, BreakerTypeOK, ClosedBelowThreshold, ProbeAccounting
<1>4. ASSUME NEW c \in Calls, CallHalfOpen(c) PROVE BreakerInv'
  <2>1. Cardinality(Probes') = Cardinality(Probes) + 1
    BY <1>4, StartProbe DEF CallHalfOpen
  <2> QED
    BY <1>0, <1>4, <2>1 DEF CallHalfOpen, BreakerTypeOK, ClosedBelowThreshold, ProbeAccounting
<1>5. ASSUME NEW c \in Calls, ClosedOk(c) PROVE BreakerInv'
  <2>1. Probes' = Probes
    BY <1>5, OtherCall DEF ClosedOk
  <2> QED
    BY <1>5, <2>1 DEF ClosedOk, BreakerTypeOK, ClosedBelowThreshold, ProbeAccounting
<1>6. ASSUME NEW c \in Calls, ProbeOk(c) PROVE BreakerInv'
  <2>1. Cardinality(Probes') \in Nat
    <3>1. IsFiniteSet(Probes')
      BY FS_Subset DEF Probes
    <3> QED
      BY <3>1, FS_CardinalityType
  <2> QED
    BY <1>6, <2>1 DEF ProbeOk, reset, BreakerTypeOK, ClosedBelowThreshold, ProbeAccounting
<1>7. ASSUME NEW c \in Calls, NEW counts \in BOOLEAN, ClosedFail(c, counts) PROVE BreakerInv'
  <2>1. Probes' = Probes
    BY <1>7, OtherCall DEF ClosedFail
  <2> QED
    BY <1>7, <2>1 DEF ClosedFail, trip, BreakerTypeOK, ClosedBelowThreshold, ProbeAccounting
<1>8. ASSUME NEW c \in Calls, NEW counts \in BOOLEAN, ProbeFail(c, counts) PROVE BreakerInv'
  <2>1. Cardinality(Probes') = Cardinality(Probes) - 1
    BY <1>8, SettleProbe DEF ProbeFail
  <2> QED
    BY <1>0, <1>8, <2>1 DEF ProbeFail, trip, BreakerTypeOK, ClosedBelowThreshold, ProbeAccounting
<1>9. CASE ManualTrip
  BY <1>9 DEF ManualTrip, trip, BreakerTypeOK, ClosedBelowThreshold, ProbeAccounting, Probes
<1>10. CASE ManualReset
  BY <1>0, <1>10 DEF ManualReset, reset, BreakerTypeOK, ClosedBelowThreshold, ProbeAccounting, Probes
<1>11. CASE Tick
  BY <1>11 DEF Tick, BreakerTypeOK, ClosedBelowThreshold, ProbeAccounting, Probes
<1>12. CASE UNCHANGED breakerVars
  BY <1>12 DEF breakerVars, BreakerTypeOK, ClosedBelowThreshold, ProbeAccounting, Probes
<1> QED
  BY <1>1, <1>2, <1>3, <1>4, <1>5, <1>6, <1>7, <1>8, <1>9, <1>10, <1>11, <1>12 DEF BreakerNext

(* The inductive invariant holds in every reachable state.                  *)
LEMMA BreakerInductive == BreakerSpec => []BreakerInv
<1>1. BreakerInit => BreakerInv
  <2> SUFFICES ASSUME BreakerInit PROVE BreakerInv
    OBVIOUS
  <2>1. Cardinality(Probes) \in Nat
    BY ProbesFinite
  <2> QED
    BY <2>1, BreakerAssumption
    DEF BreakerInit, BreakerInv, BreakerTypeOK, ClosedBelowThreshold, ProbeAccounting
<1> QED
  BY <1>1, BreakerStep, PTL DEF BreakerSpec

(* The types of the breaker's five variables (circuit-breaker.js:45-48).    *)
THEOREM TypeCorrect == BreakerSpec => []BreakerTypeOK
<1>1. BreakerInv => BreakerTypeOK
  BY DEF BreakerInv
<1> QED
  BY <1>1, BreakerInductive, PTL

(* A closed breaker is below its threshold, however many calls of earlier   *)
(* closed periods settle late (circuit-breaker.js:94-107).                  *)
THEOREM ClosedIsBelowThreshold == BreakerSpec => []ClosedBelowThreshold
<1>1. BreakerInv => ClosedBelowThreshold
  BY DEF BreakerInv
<1> QED
  BY <1>1, BreakerInductive, PTL

(* halfOpenActive never exceeds the probes in flight, so no interleaving of *)
(* probes, trips and resets wedges the breaker open (circuit-breaker.js:71).*)
THEOREM NeverWedged == BreakerSpec => []ProbeAccounting
<1>1. BreakerInv => ProbeAccounting
  BY DEF BreakerInv
<1> QED
  BY <1>1, BreakerInductive, PTL
=============================================================================
