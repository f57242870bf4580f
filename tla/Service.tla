------------------------------ MODULE Service ------------------------------
(***************************************************************************)
(* A deployment's start and a request's way through the layers: app.py,    *)
(* caller_context.py, cost.py, request_limits.py and the error handling of *)
(* errors.py.                                                              *)
(*                                                                         *)
(* Requests pass the layers inwards one at a time, interleaved; an answer  *)
(* or an exception goes outwards through those already passed.  The route  *)
(* runs in a task of its own, with a copy of the context as it was then,   *)
(* and may go on after its response has begun.  Whether a key is known and *)
(* a budget used up is the subject of Admission, and left open here.       *)
(***************************************************************************)
EXTENDS Integers, Sequences

CONSTANTS
    Slots,          \* requests in progress at a time
    Labels,         \* of API keys, and so of the issuers of grants
    Ids,            \* what headers and grants call a caller
    Runs,
    NoName,
    Requests,       \* what is asked, out of AllRequests
    Deployments,    \* how the service is configured, out of Environments
    MaxCalls        \* provider calls a request makes at most

\* A grant key stands for the terms its run was granted on; a dead one is
\* expired, revoked or invented.
Bearers == [kind: {"none", "unknown", "dead"}, label: {NoName}, id: {NoName}, run: {NoName}]
      \cup [kind: {"key"}, label: Labels, id: {NoName}, run: {NoName}]
      \cup [kind: {"grant"}, label: Labels, id: Ids \cup {NoName}, run: Runs]

\* A body declares its length, or is chunked and does not.
Sizes == {"fits", "over", "garbled", "undeclared"}

\* "turn" is the one route a grant key opens; "threaded" stands for those that
\* call the provider from the thread pool.
Routes == {"preflight", "public", "turn", "threaded", "stream", "job"}

AllRequests == [bearer: Bearers, header: Ids \cup {NoName}, size: Sizes, route: Routes]

\* Where the middleware profile comes from, and what it says of emit_cost.
Profiles == {"shipped", "missing", "blank", "own_emits", "own_silent", "own_off"}

Environments == [profile: Profiles, keys: BOOLEAN, disabled: BOOLEAN,
                 chain_ok: BOOLEAN, sized: BOOLEAN, limited: BOOLEAN]

\* Whom a request's state, its context and an event name.
Names == [label: Labels \cup {"unauthenticated", NoName}, id: Ids \cup {NoName},
          run: Runs \cup {NoName}]

\* Of a context nothing was set in.
Nobody == [label |-> NoName, id |-> NoName, run |-> NoName]

ASSUME ServiceAssumption ==
    /\ NoName \notin Labels /\ NoName \notin Runs
    /\ Requests \subseteq AllRequests /\ Deployments \subseteq Environments
    /\ MaxCalls \in Nat

VARIABLES
    env,            \* the deployment's configuration
    serving,        \* its start-up checks have passed
    sinks,          \* cost handlers on the topic's logger, which is the process's
    work            \* what is done for the request in each slot

vars == <<env, serving, sinks, work>>

-----------------------------------------------------------------------------
(* Start-up: the lifespan of app.py *)

\* apply_default_models_config: the service's own file, unless the deployment
\* names another or has turned it off.  The library's defaults emit nothing.
Emits == env.profile \in {"shipped", "own_emits"}

\* Mutant of Attached: one more at each start.
AttachedAgain == sinks + 1

\* attach_cost_handler goes by the handler's name.
Attached == IF sinks > 0 THEN sinks ELSE 1

\* verify_cost_capture, verify_auth_configured, verify_fallback_config.
Verified == Emits /\ (env.keys \/ env.disabled) /\ env.chain_ok

\* A failed start leaves the handler attached; a Redis that does not answer
\* fails none.
Start ==
    /\ ~serving
    /\ sinks' = Attached /\ serving' = Verified
    /\ UNCHANGED <<env, work>>

-----------------------------------------------------------------------------
(* The layers *)

\* Mutant of Layers: counted before the size is looked at.
SizeInside == <<"cors", "envelope", "auth", "limit", "size", "context">>

\* Mutant of Layers: the envelope around everything.
EnvelopeOutside == <<"envelope", "cors", "size", "auth", "limit", "context">>

\* add_middleware prepends: outermost is what was added last.
Layers == <<"cors", "envelope", "size", "auth", "limit", "context">>

Place(layer) == CHOOSE i \in DOMAIN Layers : Layers[i] = layer

Inside == Len(Layers) + 1

\* "detail" is FastAPI's own shape, "traceback" Starlette's last resort.
Outcomes == [status: Nat, shape: {"none", "ok", "envelope", "detail", "traceback"},
             cors: BOOLEAN]

\* at: the layer reached, 0 when nothing is being done, Inside in the route.
\* who: request.state.  task: the context the route runs in.  The last four
\* but one are history: events written and events the sink failed on, whom
\* they name, and whose budget the request was counted against.
Work == [at: 0 .. Inside, req: AllRequests, who: Names, task: Names,
         calls: 0 .. MaxCalls, pending: BOOLEAN, records: Nat, lost: Nat,
         names: SUBSET Names, spent: {"nobody", "address", "caller"},
         out: Outcomes]

NoRequest == [bearer |-> [kind |-> "none", label |-> NoName, id |-> NoName, run |-> NoName],
              header |-> NoName, size |-> "fits", route |-> "public"]

Idle == [at |-> 0, req |-> NoRequest, who |-> Nobody, task |-> Nobody, calls |-> 0,
         pending |-> FALSE, records |-> 0, lost |-> 0, names |-> {}, spent |-> "nobody",
         out |-> [status |-> 0, shape |-> "none", cors |-> FALSE]]

Does(s, w) == work' = [work EXCEPT ![s] = w] /\ UNCHANGED <<env, serving, sinks>>

Inwards(w) == [w EXCEPT !.at = @ + 1]

\* An answer given at a layer goes out through it and those outside it.
Answered(w, status, shape) ==
    [w EXCEPT !.at = 0,
              !.out = [status |-> status, shape |-> shape, cors |-> Place("cors") <= w.at]]

\* An exception goes out to the envelope if that is outside; otherwise to
\* Starlette's own handler, outside every layer.
Escaped(w, status) ==
    IF Place("envelope") < w.at
    THEN Answered([w EXCEPT !.at = Place("envelope")], status, "envelope")
    ELSE [w EXCEPT !.at = 0,
                   !.out = [status |-> 500, shape |-> "traceback", cors |-> FALSE]]

AtLayer(s, layer) == work[s].at = Place(layer)

\* CORS answers a preflight itself, in plain text, so none of the inner layers
\* sees one: 400 if the origin, the method or a header is not allowed.
Cors(s) ==
    /\ AtLayer(s, "cors")
    /\ \/ /\ work[s].req.route = "preflight"
          /\ \E status \in {200, 400} : Does(s, Answered(work[s], status, "none"))
       \/ /\ work[s].req.route # "preflight"
          /\ Does(s, Inwards(work[s]))

Envelope(s) == AtLayer(s, "envelope") /\ Does(s, Inwards(work[s]))

HasBody(r) == r.route \notin {"preflight", "public"}

\* RequestSizeLimitMiddleware.
Size(s) ==
    /\ AtLayer(s, "size")
    /\ LET w == work[s]
       IN \/ /\ env.sized /\ HasBody(w.req) => w.req.size \in {"fits", "undeclared"}
             /\ Does(s, Inwards(w))
          \/ /\ env.sized /\ HasBody(w.req) /\ w.req.size = "over"
             /\ Does(s, Answered(w, 413, "envelope"))
          \/ /\ env.sized /\ HasBody(w.req) /\ w.req.size = "garbled"
             /\ Does(s, Answered(w, 400, "envelope"))

\* _refuse counts the address first.
Refused(w, status) == Answered([w EXCEPT !.spent = "address"], status, "envelope")

Identified(w) ==
    [w EXCEPT !.who = [label |-> w.req.bearer.label, id |-> w.req.bearer.id,
                       run |-> w.req.bearer.run]]

\* ApiKeyAuthMiddleware.  A grant key is looked at first, so it counts where
\* authentication is off too; the store may be off or out of reach.
Auth(s) ==
    /\ AtLayer(s, "auth")
    /\ LET w    == work[s]
           kind == w.req.bearer.kind
       IN \/ ~HasBody(w.req) /\ Does(s, Inwards(w))
          \/ /\ HasBody(w.req) /\ kind = "grant"
             /\ \/ Does(s, Answered(w, 503, "envelope"))
                \/ \E status \in {401, 429} : Does(s, Refused(w, status))
                \/ w.req.route # "turn" /\ Does(s, Answered(w, 403, "envelope"))
                \/ w.req.route = "turn" /\ Does(s, Inwards(Identified(w)))
          \/ /\ HasBody(w.req) /\ kind = "dead"
             /\ \/ Does(s, Answered(w, 503, "envelope"))
                \/ \E status \in {401, 429} : Does(s, Refused(w, status))
          \/ /\ HasBody(w.req) /\ kind \in {"none", "unknown", "key"} /\ env.disabled
             /\ Does(s, Inwards(w))
          \/ /\ HasBody(w.req) /\ kind \in {"none", "unknown"} /\ ~env.disabled
             /\ \E status \in {401, 429} : Does(s, Refused(w, status))
          \/ /\ HasBody(w.req) /\ kind = "key" /\ ~env.disabled
             /\ Does(s, Inwards(Identified(w)))

\* RateLimitMiddleware.
Limit(s) ==
    /\ AtLayer(s, "limit")
    /\ LET w == work[s]
       IN IF env.limited /\ HasBody(w.req)
          THEN \/ Does(s, Inwards([w EXCEPT !.spent = "caller"]))
               \/ Does(s, Answered([w EXCEPT !.spent = "caller"], 429, "envelope"))
          ELSE Does(s, Inwards(w))

\* Mutant of Named: what a run's sandbox says of itself counts.
NamedByHeader(w) ==
    [label |-> IF w.who.label = NoName THEN "unauthenticated" ELSE w.who.label,
     id |-> w.req.header, run |-> w.who.run]

\* namespaced_caller, and a grant's terms before any header.
Named(w) ==
    [label |-> IF w.who.label = NoName THEN "unauthenticated" ELSE w.who.label,
     id    |-> IF w.who.run # NoName THEN w.who.id ELSE w.req.header,
     run   |-> w.who.run]

\* CallerContextMiddleware.  The reset is in the layer's own task, and the
\* route's copy is taken when that task is spawned.
Context(s) ==
    /\ AtLayer(s, "context")
    /\ Does(s, Inwards([work[s] EXCEPT !.task = Named(work[s])]))

\* A bug in one of the service's layers.
LayerFails(s) ==
    /\ \E layer \in {"size", "auth", "limit", "context"} : AtLayer(s, layer)
    /\ Does(s, Escaped(work[s], 500))

-----------------------------------------------------------------------------
(* The routes, and the library they call *)

\* A stream and a job outlive the beginning of their response.
Lasts(w) == w.req.route \in {"stream", "job"}

Begin(s) ==
    LET w == work[s]
    IN /\ w.at = Inside /\ w.req.route # "public"
       /\ w.out.status = 0 \/ Lasts(w)
       /\ ~w.pending /\ w.calls < MaxCalls
       /\ Does(s, [w EXCEPT !.calls = @ + 1, !.pending = TRUE])

\* Mutant of WorkContext: a stream in the layer's own context, which is reset
\* once the response has begun.
ResetContext(w) ==
    IF w.req.route = "job" \/ w.out.status # 0 THEN Nobody ELSE w.task

\* Threads of the pool run in a copy of the caller's context, and so does each
\* step of a stream.  run_in_executor copies none.
WorkContext(w) == IF w.req.route = "job" THEN Nobody ELSE w.task

\* The library emits an event for each call, whatever came of it.  A sink that
\* fails does not fail the call (JsonLinesCostHandler.emit).
Emit(s) ==
    LET w == work[s]
    IN /\ w.at = Inside /\ w.pending
       /\ \/ Does(s, [w EXCEPT !.pending = FALSE,
                               !.records = @ + (IF Emits THEN sinks ELSE 0),
                               !.names = @ \cup {WorkContext(w)}])
          \/ Does(s, [w EXCEPT !.pending = FALSE,
                               !.lost = @ + (IF Emits THEN sinks ELSE 0)])

Respond(s) ==
    LET w == work[s]
    IN /\ w.at = Inside /\ w.out.status = 0
       /\ IF Lasts(w) THEN Does(s, [Answered(w, 200, "ok") EXCEPT !.at = w.at])
                      ELSE ~w.pending /\ Does(s, Answered(w, 200, "ok"))

End(s) ==
    /\ work[s].at = Inside /\ Lasts(work[s]) /\ work[s].out.status # 0
    /\ ~work[s].pending
    /\ Does(s, [work[s] EXCEPT !.at = 0])

\* What a route raises before its response begins: what the library classifies
\* and what FastAPI does are answered inside every layer, an exception of a
\* provider's SDK and a bug by the envelope (ErrorEnvelopeMiddleware.dispatch).
\* 502 and 404 stand for the other codes of their kind.
RouteFails(s) ==
    LET w == work[s]
    IN /\ w.at = Inside /\ w.out.status = 0 /\ ~w.pending /\ w.req.route # "public"
       /\ w.req.route = "job" => w.calls = 0
       /\ \/ Does(s, Answered(w, 502, "envelope"))
          \/ \E status \in {404, 422} : Does(s, Answered(w, status, "detail"))
          \/ \E status \in {500, 502} : Does(s, Escaped(w, status))

-----------------------------------------------------------------------------
Init ==
    /\ env \in Deployments /\ serving = FALSE /\ sinks = 0
    /\ work = [s \in Slots |-> Idle]

Arrive(s) ==
    /\ serving /\ work[s].at = 0
    /\ \E r \in Requests : Does(s, [Idle EXCEPT !.req = r, !.at = 1])

\* The server stops when nothing is being done, and the process goes on.
Stop ==
    /\ serving /\ \A s \in Slots : work[s].at = 0
    /\ serving' = FALSE
    /\ UNCHANGED <<env, sinks, work>>

\* A new process, of a deployment configured anew.
Replace ==
    /\ env' \in Deployments /\ serving' = FALSE /\ sinks' = 0
    /\ work' = [s \in Slots |-> Idle]

Layer(s) ==
    Cors(s) \/ Envelope(s) \/ Size(s) \/ Auth(s) \/ Limit(s) \/ Context(s) \/ LayerFails(s)

Route(s) == Begin(s) \/ Emit(s) \/ Respond(s) \/ End(s) \/ RouteFails(s)

Next ==
    \/ Start \/ Stop \/ Replace
    \/ \E s \in Slots : Arrive(s) \/ Layer(s) \/ Route(s)

Spec == Init /\ [][Next]_vars

-----------------------------------------------------------------------------
(* Properties *)

TypeOK ==
    /\ env \in Deployments /\ serving \in BOOLEAN /\ sinks \in Nat
    /\ work \in [Slots -> Work]

\* Whose spend a request is.
Owed(r) ==
    CASE r.bearer.kind = "grant" ->
             [label |-> r.bearer.label, id |-> r.bearer.id, run |-> r.bearer.run]
      [] r.bearer.kind # "grant" /\ env.disabled ->
             [label |-> "unauthenticated", id |-> r.header, run |-> NoName]
      [] OTHER -> [label |-> r.bearer.label, id |-> r.header, run |-> NoName]

\* Events of every request but a job name the caller of the request they are
\* for, whatever else is being served, on whichever thread of the pool the call
\* is made, and in a stream after the layer has reset its context; a run's name
\* its grant's terms (CallerContextMiddleware).  A job's name nobody, against
\* what the repository's README says of events, and are no part of this.
EventsNameTheirCaller ==
    \A s \in Slots :
        LET w == work[s] IN w.req.route # "job" => w.names \subseteq {Owed(w.req)}

\* However often the service was started in this process, a call that has
\* ended left one event, unless the sink failed on it (attach_cost_handler,
\* verify_cost_capture).
RecordedOnce ==
    \A s \in Slots :
        work[s].records + work[s].lost = work[s].calls - (IF work[s].pending THEN 1 ELSE 0)

\* A provider is called only for a caller whose key was known and who was
\* counted, and what is not read is counted against nobody (create_app's order
\* of layers).
CallsArePaidFor ==
    \A s \in Slots :
        LET w == work[s]
        IN /\ w.calls > 0 =>
                  /\ w.req.bearer.kind \in {"key", "grant"} \/ env.disabled
                  /\ w.req.bearer.kind # "dead"
                  /\ w.req.bearer.kind = "grant" => w.req.route = "turn"
                  /\ env.limited => w.spent = "caller"
           /\ w.spent # "nobody" /\ env.sized => w.req.size \in {"fits", "undeclared"}

\* A page whose origin is allowed can read every failure: none leaves without
\* CORS headers or with a traceback (ErrorEnvelopeMiddleware).
FailuresAreReadable ==
    \A s \in Slots :
        work[s].out.status >= 400 => work[s].out.cors /\ work[s].out.shape # "traceback"
=============================================================================
