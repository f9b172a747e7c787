------------------------------ MODULE Dispatcher ------------------------------
(***************************************************************************)
(* The JS dispatcher (src/src/index.js, createDispatcher) and the two pools   *)
(* it draws responses from: response objects, whose _state points to a        *)
(* response state, and the states themselves.  User code (middleware chain,   *)
(* route handler, error handlers) is any code that touches its response in    *)
(* synchronous segments separated by awaits.                                  *)
(*                                                                         *)
(* JavaScript runs one synchronous section at a time: turn names the request  *)
(* whose section is running, and everything else waits until it yields.       *)
(* A promise that is not awaited keeps running after dispatch has returned.   *)
(*                                                                         *)
(* Headers, bodies and locals are abstracted to the set of requests whose     *)
(* code wrote to a state: that set is what the encoded response carries.      *)
(***************************************************************************)
EXTENDS Naturals, Sequences, SequencesExt, FiniteSets

CONSTANTS
    Requests,            \* concurrent dispatches
    RESPONSE_POOL_MAX,
    MaxAwaits,           \* bound: how often one request's code may await again
    LateUse              \* may user code touch res after finishing it?

ASSUME DispatcherAssumption ==
    /\ IsFiniteSet(Requests)
    /\ RESPONSE_POOL_MAX \in Nat /\ MaxAwaits \in Nat
    /\ LateUse \in BOOLEAN

NULL == 0
Ids == 1..Cardinality(Requests)      \* objects and states, by order of allocation

VARIABLES
    turn,        \* the request whose synchronous section runs, or NULL
    pc,          \* request -> where its dispatch is
    code,        \* request -> "none" or the user code whose promise is pending
    fuel,        \* request -> awaits it may still do
    obj, st,     \* request -> its response object and state (closure variables)
    stateOf,     \* response object -> its _state
    data,        \* state -> [finished, streaming, by]
    responseObjectPool,
    responseStatePool,
    allocated,   \* number of objects and of states created
    sent         \* request -> the writers of what it was answered with

poolVars == <<obj, st, stateOf, responseObjectPool, responseStatePool, allocated>>
vars == <<turn, pc, code, fuel, data, poolVars, sent>>

FreshData == [finished |-> FALSE, streaming |-> FALSE, by |-> {}]

Init ==
    /\ turn = NULL
    /\ pc = [r \in Requests |-> "new"]
    /\ code = [r \in Requests |-> "none"]
    /\ fuel = [r \in Requests |-> MaxAwaits]
    /\ obj = [r \in Requests |-> NULL] /\ st = [r \in Requests |-> NULL]
    /\ stateOf = [o \in Ids |-> NULL]
    /\ data = [s \in Ids |-> FreshData]
    /\ responseObjectPool = <<>> /\ responseStatePool = <<>>
    /\ allocated = [obj |-> 0, st |-> 0]
    /\ sent = [r \in Requests |-> {}]

-----------------------------------------------------------------------------
(* The pools *)

\* Mutant: a pooled state keeps what the previous request wrote.
ClearedDirty(s) == [data EXCEPT ![s].finished = FALSE, ![s].streaming = FALSE]

\* acquireResponseState resets every field of a pooled state.
Cleared(s) == [data EXCEPT ![s] = FreshData]

\* Mutant: the pooled object is handed out but stays in the pool.
acquirePeeks(r) ==
    LET pop(pool, n) == IF pool # <<>> THEN Last(pool) ELSE n + 1
        o == pop(responseObjectPool, allocated.obj)
        s == pop(responseStatePool, allocated.st)
    IN  /\ obj' = [obj EXCEPT ![r] = o] /\ st' = [st EXCEPT ![r] = s]
        /\ stateOf' = [stateOf EXCEPT ![o] = s]
        /\ data' = Cleared(s)
        /\ allocated' = [obj |-> IF o > allocated.obj THEN o ELSE allocated.obj,
                         st |-> IF s > allocated.st THEN s ELSE allocated.st]
        /\ UNCHANGED <<responseObjectPool, responseStatePool>>

\* createResponseEnvelope: pop a state and an object, or create them.
acquire(r) ==
    LET pop(pool, n) == IF pool # <<>> THEN Last(pool) ELSE n + 1
        rest(pool) == IF pool # <<>> THEN Front(pool) ELSE pool
        o == pop(responseObjectPool, allocated.obj)
        s == pop(responseStatePool, allocated.st)
    IN  /\ obj' = [obj EXCEPT ![r] = o] /\ st' = [st EXCEPT ![r] = s]
        /\ stateOf' = [stateOf EXCEPT ![o] = s]
        /\ data' = Cleared(s)
        /\ allocated' = [obj |-> IF o > allocated.obj THEN o ELSE allocated.obj,
                         st |-> IF s > allocated.st THEN s ELSE allocated.st]
        /\ responseObjectPool' = rest(responseObjectPool)
        /\ responseStatePool' = rest(responseStatePool)

Pushed(pool, x) == IF Len(pool) < RESPONSE_POOL_MAX THEN Append(pool, x) ELSE pool

\* release() of the envelope: the object loses its state, both are pooled.
release(r) ==
    /\ stateOf' = [stateOf EXCEPT ![obj[r]] = NULL]
    /\ responseObjectPool' = Pushed(responseObjectPool, obj[r])
    /\ responseStatePool' = Pushed(responseStatePool, st[r])
    /\ UNCHANGED <<obj, st, allocated, data>>

-----------------------------------------------------------------------------
(* User code: one synchronous segment of r's code.  It leaves res alone, sets *)
(* a header or the status (not guarded by finished), finishes (json, send,    *)
(* redirect ...; ignored once finished) or starts a stream.                   *)

Writes == {"none", "set", "finish", "stream"}

Written(d, r, write) ==
    CASE write = "none" -> d
      [] write = "set" -> [d EXCEPT !.by = @ \cup {r}]
      [] OTHER -> IF d.finished THEN d
                  ELSE [finished |-> TRUE, streaming |-> write = "stream",
                        by |-> d.by \cup {r}]

\* Touching an object without a state throws, whatever the code meant to do.
Throws(r, write) == write # "none" /\ stateOf[obj[r]] = NULL

Touch(r, write) ==
    LET s == stateOf[obj[r]]
    IN  data' = IF write = "none" \/ s = NULL THEN data
                ELSE [data EXCEPT ![s] = Written(@, r, write)]

res_finished(r, d) == d[st[r]].finished

-----------------------------------------------------------------------------
(* dispatch *)

\* The route is found and its response cache is empty.
Begin(r) ==
    /\ turn = NULL /\ pc[r] = "new"
    /\ acquire(r)
    /\ turn' = r
    /\ \E stage \in {"callMw", "callHandler"} : pc' = [pc EXCEPT ![r] = stage]
    /\ UNCHANGED <<code, fuel, sent>>

\* No such route (404): the error handlers run at once.
BeginNotFound(r) ==
    /\ turn = NULL /\ pc[r] = "new"
    /\ acquire(r)
    /\ turn' = r
    /\ pc' = [pc EXCEPT ![r] = "error"]
    /\ UNCHANGED <<code, fuel, sent>>

\* A bad envelope, an unknown handler id and a promoted route are answered
\* without a response object.
BeginRejected(r) ==
    /\ turn = NULL /\ pc[r] = "new"
    /\ pc' = [pc EXCEPT ![r] = "done"]
    /\ UNCHANGED <<turn, code, fuel, data, poolVars, sent>>

\* Where dispatch goes after the call of stage returned in the way ends.
\* A promise is awaited only while the response is unfinished.
AfterCall(r, stage, ends, d) ==
    CASE ends = "throw" -> "error"
      [] res_finished(r, d) -> "finalize"
      [] ends = "reject" -> "error"
      [] ends = "await" -> IF stage = "callMw" THEN "mwWait" ELSE "handlerWait"
      [] OTHER -> IF stage = "callMw" THEN "callHandler" ELSE "finalize"

Call(r) ==
    /\ turn = r /\ pc[r] \in {"callMw", "callHandler"}
    /\ \E write \in Writes, ends \in {"return", "await", "throw", "reject"} :
        /\ Touch(r, write)
        /\ pc' = [pc EXCEPT ![r] = AfterCall(r, pc[r], ends, data')]
        /\ code' = [code EXCEPT ![r] = IF ends = "await" THEN "running" ELSE "none"]
        /\ turn' = IF pc'[r] \in {"mwWait", "handlerWait"} THEN NULL ELSE r
    /\ UNCHANGED <<fuel, poolVars, sent>>

\* Mutant: the rejection of an awaited promise is not caught.
AfterAwaitUncaught(r, ends, d) ==
    CASE ends = "reject" -> pc[r]
      [] pc[r] = "mwWait" /\ ~res_finished(r, d) -> "callHandler"
      [] OTHER -> "finalize"

\* Where dispatch goes when the promise it awaits settles.
AfterAwait(r, ends, d) ==
    CASE ends = "reject" -> "error"
      [] pc[r] = "mwWait" /\ ~res_finished(r, d) -> "callHandler"
      [] OTHER -> "finalize"

Awaited(r) == pc[r] \in {"mwWait", "handlerWait"}

\* Pending user code of r runs its next segment.  When dispatch does not
\* await it (any more), only what it does to res matters.
Resume(r) ==
    /\ turn = NULL /\ code[r] = "running" /\ pc[r] # "errorWait"
    /\ \E write \in Writes, ends \in {"return", "await", "reject"} :
        /\ ~Awaited(r) /\ ~LateUse => write = "none"
        /\ ends = "await" => fuel[r] > 0
        /\ Touch(r, write)
        /\ LET outcome == IF Throws(r, write) THEN "reject" ELSE ends IN
           /\ fuel' = [fuel EXCEPT ![r] = IF outcome = "await" THEN @ - 1 ELSE @]
           /\ code' = [code EXCEPT ![r] = IF outcome = "await" THEN "running" ELSE "none"]
           /\ IF Awaited(r) /\ outcome # "await"
              THEN /\ pc' = [pc EXCEPT ![r] = AfterAwait(r, outcome, data')]
                   /\ turn' = r
              ELSE UNCHANGED <<pc, turn>>
    /\ UNCHANGED <<poolVars, sent>>

\* The response is encoded; a stream's state stays with the stream.
Finalize(r) ==
    /\ turn = r /\ pc[r] = "finalize"
    /\ sent' = [sent EXCEPT ![r] = data[st[r]].by]
    /\ IF data[st[r]].streaming THEN UNCHANGED <<poolVars, data>> ELSE release(r)
    /\ turn' = NULL
    /\ pc' = [pc EXCEPT ![r] = "done"]
    /\ UNCHANGED <<code, fuel>>

-----------------------------------------------------------------------------
(* finalizeError: the error handlers run in turn until one finishes the       *)
(* response; a default error response is sent if none does or one throws.     *)

ErrorDone(r, d, failed) ==
    /\ sent' = [sent EXCEPT ![r] = IF d[st[r]].finished /\ ~failed THEN d[st[r]].by ELSE {}]
    /\ turn' = NULL
    /\ pc' = [pc EXCEPT ![r] = "done"]

\* Nothing to call: the response is finished already, or no handler is left.
ErrorFinal(r) ==
    /\ turn = r /\ pc[r] = "error"
    /\ ErrorDone(r, data, FALSE)
    /\ release(r)
    /\ UNCHANGED <<code, fuel>>

\* An error handler is called; its promise is awaited while unfinished.
ErrorCall(r) ==
    /\ turn = r /\ pc[r] = "error" /\ ~res_finished(r, data)
    /\ \E write \in Writes, ends \in {"return", "await"} :
        /\ Touch(r, write)
        /\ code' = [code EXCEPT ![r] = IF ends = "await" THEN "running" ELSE "none"]
        /\ IF ends = "await" /\ ~res_finished(r, data')
           THEN pc' = [pc EXCEPT ![r] = "errorWait"] /\ turn' = NULL
           ELSE pc' = [pc EXCEPT ![r] = "error"] /\ turn' = r
    /\ UNCHANGED <<fuel, poolVars, sent>>

\* The awaited error handler settles; on failure a 500 is sent.
ErrorResume(r) ==
    /\ turn = NULL /\ pc[r] = "errorWait"
    /\ \E write \in Writes :
        /\ Touch(r, write)
        /\ pc' = [pc EXCEPT ![r] = "error"]
        /\ turn' = r
        /\ code' = [code EXCEPT ![r] = "none"]
    /\ UNCHANGED <<fuel, poolVars, sent>>

ErrorHandlerFails(r) ==
    /\ \/ turn = r /\ pc[r] = "error" /\ ~res_finished(r, data)
       \/ turn = NULL /\ pc[r] = "errorWait"
    /\ ErrorDone(r, data, TRUE)
    /\ release(r)
    /\ code' = [code EXCEPT ![r] = "none"]
    /\ UNCHANGED fuel

-----------------------------------------------------------------------------
Dispatch(r) ==
    \/ Begin(r) \/ BeginNotFound(r) \/ BeginRejected(r)
    \/ Call(r) \/ Finalize(r)
    \/ ErrorFinal(r) \/ ErrorCall(r) \/ ErrorResume(r) \/ ErrorHandlerFails(r)

Next == \E r \in Requests : Dispatch(r) \/ Resume(r)

Spec == Init /\ [][Next]_vars

\* The event loop runs every callback in turn, and user promises settle.
FairSpec ==
    /\ Spec
    /\ \A r \in Requests : SF_vars(Resume(r)) /\ SF_vars(ErrorResume(r))
                           /\ SF_vars(Call(r) \/ Finalize(r) \/ ErrorFinal(r))

-----------------------------------------------------------------------------
InUse(r) == pc[r] \notin {"new", "done"}

\* Types; ids are allocated ones and the pools respect their limit.
TypeOK ==
    /\ turn \in Requests \cup {NULL}
    /\ pc \in [Requests -> {"new", "callMw", "callHandler", "mwWait", "handlerWait",
                            "finalize", "error", "errorWait", "done"}]
    /\ code \in [Requests -> {"none", "running"}]
    /\ fuel \in [Requests -> 0..MaxAwaits]
    /\ obj \in [Requests -> Ids \cup {NULL}] /\ st \in [Requests -> Ids \cup {NULL}]
    /\ stateOf \in [Ids -> Ids \cup {NULL}]
    /\ data \in [Ids -> [finished : BOOLEAN, streaming : BOOLEAN, by : SUBSET Requests]]
    /\ Len(responseObjectPool) <= RESPONSE_POOL_MAX
    /\ Len(responseStatePool) <= RESPONSE_POOL_MAX
    /\ sent \in [Requests -> SUBSET Requests]

(* Two dispatches in progress never hold the same response object or state,  *)
(* nothing in use lies in a pool, and nothing is pooled twice, whichever way *)
(* dispatch leaves (index.js:517-544, 714-749, 857-905).                     *)
Exclusive ==
    /\ \A r1, r2 \in Requests : InUse(r1) /\ InUse(r2) /\ r1 # r2 =>
            obj[r1] # obj[r2] /\ st[r1] # st[r2]
    /\ \A r \in Requests : InUse(r) =>
            /\ stateOf[obj[r]] = st[r]
            /\ obj[r] \notin ToSet(responseObjectPool)
            /\ st[r] \notin ToSet(responseStatePool)
    /\ IsInjective(responseObjectPool) /\ IsInjective(responseStatePool)

(* The pools stay bounded and what they hold or hand out is exclusive          *)
(* (index.js:243-291, 517-544).                                              *)
PoolsExclusive == TypeOK /\ Exclusive

(* A response carries only what its own request's code wrote: index.js:267   *)
(* "prevent cross-request data leakage".                                     *)
OwnResponse == \A r \in Requests : sent[r] \subseteq {r}

(* Every dispatch that begins answers, through handlers, errors and errors   *)
(* in error handlers (index.js:714-905).                                     *)
Answered == \A r \in Requests : InUse(r) ~> pc[r] = "done"
=============================================================================
