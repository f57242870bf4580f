---------------------------- MODULE Completions ----------------------------
(***************************************************************************)
(* The generation routes of routes_v1.py (completions, buffered or         *)
(* streamed, structured, conversation turns), fallback.py, which says who  *)
(* answered, and the SSE bridge of streaming.py.  All requests share the   *)
(* library's fallback chain, whose failed models rest for a while, and the *)
(* worker threads on which the blocking steps of the streams run.          *)
(*                                                                         *)
(* The chain itself is the library's; it is modelled from how the service  *)
(* uses it, free to skip whatever it likes.                                *)
(***************************************************************************)
EXTENDS Integers, Sequences, FiniteSets

CONSTANTS
    Requests,       \* requests of one run, each made once
    Asks,           \* what they may ask, out of AllAsks
    Engines, Names, \* of models
    Default,        \* no model named: Python's None
    DefaultOf,      \* the model an engine takes then
    Chain,          \* completions.fallbacks
    Reasons,        \* completions.fallback_on: failures that move a request
    Priced,         \* models that have token rates
    Threads,        \* worker threads
    MaxSteps        \* pieces a provider streams at most

Models == [engine: Engines, name: Names]

\* An engine as a caller spells it: odd if stripping and lower-casing it is
\* what makes it the library's token.
Tokens == [engine: Engines, odd: BOOLEAN]

AllAsks == [kind: {"text", "structured", "turn", "stream"}, token: Tokens,
            name: Names \cup {Default}, fallback: BOOLEAN, bad: BOOLEAN]

Failures == {"overloaded", "timeout", "blocked"}

ASSUME CompletionsAssumption ==
    /\ Asks \subseteq AllAsks
    /\ Default \notin Names /\ DefaultOf \in [Engines -> Names]
    /\ Chain \in Seq(Models) /\ Priced \subseteq Models
    \* A guardrail's block has no fallback reason.
    /\ Reasons \subseteq Failures \ {"blocked"}
    /\ Threads \in Nat \ {0} /\ MaxSteps \in Nat

VARIABLES
    ask,            \* per request: what it asks
    stage,          \* new, calling, waiting, running, leaving, over, left
    pos,            \* per request: the model being asked, by place in its chain
    asked,          \* history: the models asked before that one
    steps,          \* pieces the provider has streamed
    count,          \* chunk_count
    out,            \* per request: the events streamed to it
    reply,          \* per request: its response, when that is no stream
    answer,         \* history: the model whose answer it is
    failure,        \* history: what it ended on
    resting,        \* models the library benched
    line            \* streams waiting for a worker thread

calls == <<pos, asked>>
told  == <<count, out, reply>>
truth == <<answer, failure>>
vars  == <<ask, stage, calls, steps, told, truth, resting, line>>

-----------------------------------------------------------------------------
(* Models, chains and routes *)

None == "none"

Primary(a) == [engine |-> a.token.engine,
               name |-> IF a.name = Default THEN DefaultOf[a.token.engine] ELSE a.name]

\* Mutant of Behind: the whole chain, the requested model too.
WholeChain(a) == DOMAIN Chain

\* fallback_chain_for: a candidate naming exactly the requested model is dropped.
Behind(a) ==
    {i \in DOMAIN Chain :
        a.name = Default \/ Chain[i] # [engine |-> a.token.engine, name |-> a.name]}

Chained(a) == a.fallback /\ Behind(a) # {}

\* Place 0 is the primary's.
Places(a) == {0} \cup IF Chained(a) THEN Behind(a) ELSE {}

At(a, i) == IF i = 0 THEN Primary(a) ELSE Chain[i]

NoRoute == [token |-> [engine |-> None, odd |-> FALSE], name |-> Default, fallback |-> FALSE]

Routes == [token: Tokens, name: Names \cup {Default}, fallback: BOOLEAN]

RequestedRoute(a) == [token |-> a.token, name |-> a.name, fallback |-> FALSE]

FallbackRoute(m) == [token |-> [engine |-> m.engine, odd |-> FALSE], name |-> m.name,
                     fallback |-> TRUE]

\* Mutant of ServedRoute: the token compared as the caller spelt it.
RouteAsSpelt(a, m) ==
    IF Chained(a) /\ (a.token # [engine |-> m.engine, odd |-> FALSE]
                      \/ m.name # Primary(a).name)
    THEN FallbackRoute(m)
    ELSE RequestedRoute(a)

\* served_route: the library reports m for this call.  A chain that reports
\* nothing is a test's double, and left out.
ServedRoute(a, m) ==
    IF Chained(a) /\ (a.token.engine # m.engine \/ m.name # Primary(a).name)
    THEN FallbackRoute(m)
    ELSE RequestedRoute(a)

\* The model a route stands for.
Meant(route) ==
    [engine |-> route.token.engine,
     name |-> IF route.name = Default THEN DefaultOf[route.token.engine] ELSE route.name]

\* Mutant of PricingClient: the client the call was made on.
ChainClient(a, route) == Primary(a)

\* The model whose rates _pricing_client's client carries: a chain's are the
\* primary's.
PricingClient(a, route) == IF route.fallback THEN Meant(route) ELSE Primary(a)

\* _usd_cost: by the rates of m; null if it has none, or if they cannot be
\* applied to the usage, which fails no request.
Costs(m) == {NoRoute} \cup ({m} \cap Priced)

\* The "0" of a cache hit.
Free == [usd |-> 0]

-----------------------------------------------------------------------------
(* What a caller is sent *)

Replies == [status: {0, 200, 400, 422, 502, 503, 504}, route: Routes \cup {NoRoute},
            cost: Models \cup {NoRoute, Free}, cached: BOOLEAN]

NoReply == [status |-> 0, route |-> NoRoute, cost |-> NoRoute, cached |-> FALSE]

\* errors.py: the status of a failure that no chain moves any more.
StatusOf(f) == CASE f = "overloaded" -> 502
                 [] f = "timeout"    -> 504
                 [] f = "blocked"    -> 422

Refusal(status) == [NoReply EXCEPT !.status = status]

\* completions, structured, conversation_turn: the responses there may be to a
\* request that m answered, now or, on a cache hit, once before (_cache_fields).
Answered(a, m, hit) ==
    LET route == ServedRoute(a, m)
    IN [status: {200}, route: {route}, cached: {hit},
        cost: IF hit THEN {Free} ELSE Costs(PricingClient(a, route))]

Events == [event: {"chunk", "done", "stream_failed", "guardrail_blocked"},
           count: Nat, route: Routes \cup {NoRoute}]

ChunkEvent == [event |-> "chunk", count |-> 0, route |-> NoRoute]

DoneEvent(n, route) == [event |-> "done", count |-> n, route |-> route]

\* Mutant of ErrorEvent: every exception by the same handler.
FailedEvent(n, f) == [event |-> "stream_failed", count |-> n, route |-> NoRoute]

ErrorEvent(n, f) ==
    [event |-> IF f = "blocked" THEN "guardrail_blocked" ELSE "stream_failed",
     count |-> n, route |-> NoRoute]

-----------------------------------------------------------------------------
Stages == {"new", "calling", "waiting", "running", "leaving", "over", "left"}

Unasked == -1

Init == /\ ask \in [Requests -> Asks]
        /\ stage = [r \in Requests |-> "new"]
        /\ pos = [r \in Requests |-> Unasked]
        /\ asked = [r \in Requests |-> {}]
        /\ steps = [r \in Requests |-> 0]
        /\ count = [r \in Requests |-> 0]
        /\ out = [r \in Requests |-> <<>>]
        /\ reply = [r \in Requests |-> NoReply]
        /\ answer = [r \in Requests |-> NoRoute]
        /\ failure = [r \in Requests |-> None]
        /\ resting = {}
        /\ line = <<>>

Streams(r) == ask[r].kind = "stream"

Current(r) == At(ask[r], pos[r])

Goes(r, to) == stage' = [stage EXCEPT ![r] = to]

Responds(r, response) == /\ reply' = [reply EXCEPT ![r] = response]
                         /\ UNCHANGED <<count, out>>

Sends(r, event) == /\ out' = [out EXCEPT ![r] = Append(@, event)]
                   /\ UNCHANGED reply

-----------------------------------------------------------------------------
(* The library's chain *)

\* A call begins at a model that is not resting, if there is one.
Starts(r) ==
    LET awake == {i \in Places(ask[r]) : At(ask[r], i) \notin resting}
    IN IF awake = {} THEN Places(ask[r]) ELSE awake

Begin(r) == \E i \in Starts(r) : pos' = [pos EXCEPT ![r] = i]

Bench(r, f) ==
    resting' = IF Chained(ask[r]) /\ f \in Reasons THEN resting \cup {Current(r)} ELSE resting

\* The model asked fails, and the chain asks a later one in the same call; a
\* stream only before its first piece.
MoveOn(r) ==
    /\ stage[r] \in {"calling", "running"} /\ steps[r] = 0
    /\ Chained(ask[r])
    /\ \E f \in Reasons : Bench(r, f)
    /\ \E i \in Places(ask[r]) :
          /\ i > pos[r] /\ At(ask[r], i) \notin resting'
          /\ pos' = [pos EXCEPT ![r] = i]
    /\ asked' = [asked EXCEPT ![r] = @ \cup {Current(r)}]
    /\ UNCHANGED <<ask, stage, steps, told, truth, line>>

\* A rest is over.
Recover == /\ \E m \in resting : resting' = resting \ {m}
           /\ UNCHANGED <<ask, stage, calls, steps, told, truth, line>>

-----------------------------------------------------------------------------
(* Requests *)

\* Fields no stream can honour, no prompt, no engine, a bad token or tool
\* result: 400 before any provider is asked.
Refuse(r) ==
    /\ stage[r] = "new" /\ ask[r].bad
    /\ Goes(r, "over")
    /\ Responds(r, Refusal(400))
    /\ UNCHANGED <<ask, calls, steps, truth, resting, line>>

\* Buffered: one awaited call.
Call(r) ==
    /\ stage[r] = "new" /\ ~ask[r].bad /\ ~Streams(r)
    /\ Begin(r)
    /\ Goes(r, "calling")
    /\ UNCHANGED <<ask, asked, steps, told, truth, resting, line>>

\* Whose answer a call may come back with: the response cache's before any
\* model has failed it, which is of some model of the same chain, or the one's
\* that is being asked.
Sources(r, hit) ==
    IF ~hit THEN {Current(r)}
    ELSE {At(ask[r], i) : i \in {j \in Places(ask[r]) : asked[r] = {}}}

Answer(r) ==
    /\ stage[r] = "calling"
    /\ \E hit \in BOOLEAN : \E m \in Sources(r, hit) :
          /\ answer' = [answer EXCEPT ![r] = m]
          /\ \E response \in Answered(ask[r], m, hit) : Responds(r, response)
    /\ Goes(r, "over")
    /\ UNCHANGED <<ask, calls, steps, failure, resting, line>>

\* The last failure is mapped to a status.
FailCall(r) ==
    /\ stage[r] = "calling"
    /\ \E f \in Failures : /\ Bench(r, f)
                           /\ failure' = [failure EXCEPT ![r] = f]
                           /\ Responds(r, Refusal(StatusOf(f)))
    /\ Goes(r, "over")
    /\ UNCHANGED <<ask, calls, steps, answer, line>>

\* What a client that cannot be built is answered: the caller's mistake, the
\* provider's refusal to be probed, or the deployment's to set up.
Unbuilt == {400, 502, 503}

Unserved(r) ==
    /\ \E status \in Unbuilt : Responds(r, Refusal(status))
    /\ Goes(r, "over")
    /\ UNCHANGED <<ask, calls, steps, failure, resting, line>>

\* _build fails, before anything is asked or streamed.
NoClient(r) == stage[r] = "new" /\ Unserved(r) /\ UNCHANGED answer

\* A fallback has answered, perhaps from the cache, and the plain client its
\* price is taken from cannot be built: the answer is lost.
NoPrice(r) ==
    /\ stage[r] = "calling"
    /\ \E hit \in BOOLEAN : \E m \in Sources(r, hit) :
          /\ ServedRoute(ask[r], m).fallback
          /\ answer' = [answer EXCEPT ![r] = m]
    /\ Unserved(r)

-----------------------------------------------------------------------------
(* Streams *)

\* A plain engine's check runs as the stream is opened, before the response
\* begins: its block is a 422.
BlockAtOpen(r) ==
    /\ stage[r] = "new" /\ ~ask[r].bad /\ Streams(r) /\ ~Chained(ask[r])
    /\ failure' = [failure EXCEPT ![r] = "blocked"]
    /\ Responds(r, Refusal(StatusOf("blocked")))
    /\ Goes(r, "over")
    /\ UNCHANGED <<ask, calls, steps, answer, resting, line>>

\* The 200 is sent, and the bridge asks for a worker thread.
Open(r) ==
    /\ stage[r] = "new" /\ ~ask[r].bad /\ Streams(r)
    /\ Goes(r, "waiting")
    /\ line' = Append(line, r)
    /\ UNCHANGED <<ask, calls, steps, told, truth, resting>>

Busy == {r \in Requests : stage[r] \in {"running", "leaving"}}

\* iterate_in_threadpool: whoever waits longest gets the next free thread, for
\* one next() of its iterator.
NextStep(r) ==
    /\ stage[r] = "waiting" /\ line # <<>> /\ Head(line) = r
    /\ Cardinality(Busy) < Threads
    /\ line' = Tail(line)
    /\ IF pos[r] = Unasked THEN Begin(r) ELSE UNCHANGED pos
    /\ Goes(r, "running")
    /\ UNCHANGED <<ask, asked, steps, told, truth, resting>>

Piece(r) ==
    /\ stage[r] = "running" /\ steps[r] < MaxSteps
    /\ steps' = [steps EXCEPT ![r] = @ + 1]
    /\ answer' = [answer EXCEPT ![r] = Current(r)]
    /\ UNCHANGED <<ask, calls, failure, resting>>

SendChunk(r) ==
    /\ Piece(r)
    /\ count' = [count EXCEPT ![r] = @ + 1]
    /\ Sends(r, ChunkEvent)
    /\ Goes(r, "waiting") /\ line' = Append(line, r)

\* Mutant of SkipEmpty: the iterator is not asked again.
DropEmpty(r) ==
    /\ Piece(r)
    /\ Goes(r, "waiting")
    /\ UNCHANGED <<told, line>>

\* Mutant of SkipEmpty: counted before it is looked at.
CountEmpty(r) ==
    /\ Piece(r)
    /\ count' = [count EXCEPT ![r] = @ + 1]
    /\ Goes(r, "waiting") /\ line' = Append(line, r)
    /\ UNCHANGED <<out, reply>>

\* An empty keep-alive piece is not sent on.
SkipEmpty(r) ==
    /\ Piece(r)
    /\ Goes(r, "waiting") /\ line' = Append(line, r)
    /\ UNCHANGED told

\* The iterator ends: the closing report names the model that answered.  The
\* route is worked out after the try, but from names alone.
Finish(r) ==
    /\ stage[r] = "running"
    /\ answer' = [answer EXCEPT ![r] = Current(r)]
    /\ Sends(r, DoneEvent(count[r], ServedRoute(ask[r], Current(r))))
    /\ Goes(r, "over")
    /\ UNCHANGED <<ask, calls, steps, count, failure, resting, line>>

\* The iterator raises.  Behind a chain an input check runs at the first
\* next(); a plain engine's has run before.
Break(r) ==
    /\ stage[r] = "running"
    /\ \E f \in Failures :
          /\ f = "blocked" => Chained(ask[r]) /\ steps[r] = 0
          /\ Bench(r, f)
          /\ failure' = [failure EXCEPT ![r] = f]
          /\ Sends(r, ErrorEvent(count[r], f))
    /\ Goes(r, "over")
    /\ UNCHANGED <<ask, calls, steps, count, answer, line>>

\* The client disconnects.  A next() that is running is not interrupted.
Leave(r) ==
    \/ /\ stage[r] = "waiting"
       /\ Goes(r, "left")
       /\ \E i \in DOMAIN line :
             /\ line[i] = r
             /\ line' = SubSeq(line, 1, i - 1) \o SubSeq(line, i + 1, Len(line))
       /\ UNCHANGED <<ask, calls, steps, told, truth, resting>>
    \/ /\ stage[r] = "running"
       /\ Goes(r, "leaving")
       /\ UNCHANGED <<ask, calls, steps, told, truth, resting, line>>

\* It returns to nobody, and its thread is free.
Abandon(r) ==
    /\ stage[r] = "leaving"
    /\ Goes(r, "left")
    /\ UNCHANGED <<ask, calls, steps, told, truth, resting, line>>

Serve(r) ==
    \/ Refuse(r) \/ NoClient(r) \/ Call(r) \/ Answer(r) \/ NoPrice(r) \/ FailCall(r)
    \/ BlockAtOpen(r) \/ Open(r) \/ NextStep(r) \/ SendChunk(r) \/ SkipEmpty(r)
    \/ Finish(r) \/ Break(r) \/ Abandon(r)

Ended(r) == stage[r] \in {"over", "left"}

Terminating == (\A r \in Requests : Ended(r)) /\ UNCHANGED vars

Next == \/ \E r \in Requests : Serve(r) \/ MoveOn(r) \/ Leave(r)
        \/ Recover
        \/ Terminating

Spec == Init /\ [][Next]_vars

\* A provider answers or fails in the end (the library sets a deadline on each
\* call), and the event loop and the threads go on.
FairSpec == Spec /\ \A r \in Requests : WF_vars(Serve(r))

-----------------------------------------------------------------------------
(* Properties *)

\* Every variable has its type.
TypeOK ==
    /\ ask \in [Requests -> Asks]
    /\ stage \in [Requests -> Stages]
    /\ pos \in [Requests -> {Unasked} \cup 0 .. Len(Chain)]
    /\ asked \in [Requests -> SUBSET Models]
    /\ steps \in [Requests -> 0 .. MaxSteps]
    /\ count \in [Requests -> Nat]
    /\ out \in [Requests -> Seq(Events)]
    /\ reply \in [Requests -> Replies]
    /\ answer \in [Requests -> Models \cup {NoRoute}]
    /\ failure \in [Requests -> Failures \cup {None}]
    /\ resting \in SUBSET Models
    /\ line \in Seq(Requests)

\* A route tells the truth about a call: it stands for the model that answered,
\* and says fallback just when that is not the one requested.
Truthful(r, route) == /\ Meant(route) = answer[r]
                      /\ route.fallback <=> answer[r] # Primary(ask[r])

\* Every answer names the model that gave it, whether or not another failed in
\* this call, and whatever the other requests have done to the chain
\* (fallback.py:6-26).
RouteIsTheAnswers ==
    \A r \in Requests :
        /\ reply[r].status = 200 => Truthful(r, reply[r].route)
        /\ \A i \in DOMAIN out[r] :
               out[r][i].event = "done" => Truthful(r, out[r][i].route)

\* What a buffered answer is said to cost is nothing if the cache gave it, and
\* otherwise comes of the rates of the model that gave it, or is null, though
\* the chain's client carries the primary's rates (routes_v1.py:460-469).
PricedAtTheAnswers ==
    \A r \in Requests :
        reply[r].status = 200 =>
            IF reply[r].cached THEN reply[r].cost = Free
            ELSE reply[r].cost \in Costs(answer[r])

\* A requested model that failed is not asked again by the same call, under
\* whatever spelling it was requested (clients.py:113-115).
NamedModelAskedOnce ==
    \A r \in Requests :
        ask[r].name # Default /\ Primary(ask[r]) \in asked[r] =>
            Current(r) # Primary(ask[r])

\* A stream that began is chunks, then one event that tells how it ended and
\* after how many chunks; none while it goes on (streaming.py:96-98).
StreamsTellHowTheyEnd ==
    \A r \in Requests :
        LET last == out[r][Len(out[r])] IN
        /\ \A i \in 1 .. Len(out[r]) - 1 : out[r][i].event = "chunk"
        /\ stage[r] = "over" /\ reply[r] = NoReply =>
               /\ out[r] # <<>>
               /\ last.count = Len(out[r]) - 1
               /\ last.event = CASE failure[r] = None      -> "done"
                                  [] failure[r] = "blocked" -> "guardrail_blocked"
                                  [] OTHER                  -> "stream_failed"
        /\ ~Ended(r) /\ out[r] # <<>> => last.event = "chunk"

\* What a caller can tell of its request: the chunks it was sent, and how its
\* stream or its response ended.
EndsAs(how, by, n) == [how |-> how, by |-> by, after |-> n]

Last(r) == out[r][Len(out[r])]

Closed(r) == out[r] # <<>> /\ Last(r).event # "chunk"

heard == [r \in Requests |-> IF Closed(r) THEN Len(out[r]) - 1 ELSE Len(out[r])]

closing ==
    [r \in Requests |->
        IF stage[r] \in {"leaving", "left"} THEN EndsAs("gone", NoRoute, 0)
        ELSE IF Closed(r)
             THEN IF Last(r).event = "done"
                  THEN EndsAs("answered", Meant(Last(r).route), Last(r).count)
                  ELSE EndsAs("failed", NoRoute, Last(r).count)
        ELSE IF reply[r].status = 200 THEN EndsAs("answered", Meant(reply[r].route), 0)
        ELSE IF reply[r] # NoReply    THEN EndsAs("failed", NoRoute, 0)
        ELSE EndsAs("open", NoRoute, 0)]

Promise == INSTANCE AnswerPromise WITH Nobody <- NoRoute, speaker <- answer

\* Every request has the pieces of one model and then one closing, which names
\* that model if it claims an answer, whatever the chain and the other requests
\* do meanwhile (streaming.py:96-98).
AnswersKept == Promise!Spec

\* However many streams share however few threads, each request ends, and so
\* does each one whose client has gone.
EveryRequestEnds == \A r \in Requests : <>Ended(r)
=============================================================================
