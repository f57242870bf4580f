------------------------- MODULE CompletionsProofs -------------------------
(***************************************************************************)
(* Completions for any requests, chain, priced models and threads.  What   *)
(* the library and the other requests do to the shared chain never         *)
(* matters: a request only ever stands at a place of its own chain, and    *)
(* goes forward in it.                                                     *)
(***************************************************************************)
EXTENDS Completions, SequenceTheorems, FiniteSetTheorems, TLAPS

AllChunks(r) == \A i \in 1 .. Len(out[r]) : out[r][i] = ChunkEvent

\* A stream that is over was chunks and one event that tells how it ended.
Told(r) ==
    LET n == Len(out[r])
    IN /\ n > 0 /\ count[r] = n - 1
       /\ \A i \in 1 .. n - 1 : out[r][i] = ChunkEvent
       /\ IF failure[r] = None
          THEN /\ out[r][n] = DoneEvent(n - 1, ServedRoute(ask[r], answer[r]))
               /\ Truthful(r, out[r][n].route)
          ELSE out[r][n] = ErrorEvent(n - 1, failure[r])

Sound(r) ==
    /\ pos[r] \in {Unasked} \cup Places(ask[r])
    /\ stage[r] = "new" => pos[r] = Unasked
    /\ stage[r] \in {"calling", "running", "leaving"} => pos[r] # Unasked
    /\ asked[r] # {} => pos[r] > 0
    /\ stage[r] \in {"new", "calling"} => out[r] = <<>>
    /\ stage[r] # "over" =>
           /\ reply[r] = NoReply /\ failure[r] = None
           /\ AllChunks(r) /\ count[r] = Len(out[r])
    /\ stage[r] = "over" => IF reply[r] = NoReply THEN Told(r) ELSE out[r] = <<>>
    /\ reply[r].status = 200 => /\ Truthful(r, reply[r].route)
                                /\ IF reply[r].cached THEN reply[r].cost = Free
                                   ELSE reply[r].cost \in Costs(answer[r])
    /\ stage[r] \in {"new", "calling"} => answer[r] = NoRoute

IInv == TypeOK /\ \A r \in Requests : Sound(r)

-----------------------------------------------------------------------------
(* Routes *)

LEMMA PlacesOfChain ==
    ASSUME NEW a \in Asks, NEW i \in Places(a)
    PROVE  i \in 0 .. Len(Chain) /\ At(a, i) \in Models /\ Primary(a) \in Models
<1>1. a \in AllAsks
  BY CompletionsAssumption
<1>2. Primary(a) \in Models
  BY <1>1, CompletionsAssumption DEF AllAsks, Tokens, Primary, Models
<1>3. i = 0 \/ i \in DOMAIN Chain
  BY DEF Places, Behind
<1>4. DOMAIN Chain = 1 .. Len(Chain) /\ \A j \in DOMAIN Chain : Chain[j] \in Models
  BY CompletionsAssumption
<1> QED
  BY <1>2, <1>3, <1>4, CompletionsAssumption DEF At

\* The route given for a model of the chain stands for that model, and the
\* client that prices it has that model's rates.
LEMMA ServedRouteIsTrue ==
    ASSUME NEW a \in Asks, NEW i \in Places(a)
    PROVE  LET route == ServedRoute(a, At(a, i))
           IN /\ route \in Routes
              /\ Meant(route) = At(a, i)
              /\ route.fallback <=> At(a, i) # Primary(a)
              /\ PricingClient(a, route) = At(a, i)
<1> DEFINE m == At(a, i)
<1>1. a \in AllAsks /\ m \in Models /\ Primary(a) \in Models
  BY CompletionsAssumption, PlacesOfChain
<1>2. m = [engine |-> m.engine, name |-> m.name] /\ m.name # Default
  BY <1>1, CompletionsAssumption DEF Models
<1>3. Primary(a) = [engine |-> a.token.engine, name |-> Primary(a).name]
  BY DEF Primary
<1>4. CASE Chained(a) /\ (a.token.engine # m.engine \/ m.name # Primary(a).name)
  <2>1. ServedRoute(a, m) = FallbackRoute(m)
    BY <1>4 DEF ServedRoute
  <2>2. m # Primary(a)
    BY <1>2, <1>3, <1>4
  <2>3. FallbackRoute(m) \in Routes /\ Meant(FallbackRoute(m)) = m
    BY <1>1, <1>2 DEF FallbackRoute, Routes, Tokens, Models, Meant
  <2> QED
    BY <2>1, <2>2, <2>3 DEF FallbackRoute, PricingClient
<1>5. CASE ~(Chained(a) /\ (a.token.engine # m.engine \/ m.name # Primary(a).name))
  <2>1. ServedRoute(a, m) = RequestedRoute(a)
    BY <1>5 DEF ServedRoute
  <2>2. m = Primary(a)
    <3>1. CASE Chained(a)
      BY <1>2, <1>3, <1>5, <3>1
    <3>2. CASE ~Chained(a)
      BY <3>2 DEF Places, At
    <3> QED
      BY <3>1, <3>2
  <2>3. RequestedRoute(a) \in Routes
    BY <1>1 DEF RequestedRoute, Routes, AllAsks
  <2>4. Meant(RequestedRoute(a)) = Primary(a)
    BY DEF RequestedRoute, Meant, Primary
  <2> QED
    BY <2>1, <2>2, <2>3, <2>4 DEF RequestedRoute, PricingClient
<1> QED
  BY <1>4, <1>5

LEMMA NoReplyStatus == NoReply.status = 0
  BY DEF NoReply

LEMMA RefusalFacts ==
    ASSUME NEW status \in {400, 422, 502, 503, 504}
    PROVE  /\ Refusal(status) \in Replies
           /\ Refusal(status) # NoReply
           /\ Refusal(status).status = status
<1>1. NoReply.status = 0 /\ NoReply \in Replies
  BY DEF NoReply, Replies
<1> QED
  BY <1>1 DEF Refusal, Replies

LEMMA StatusOfFacts ==
    ASSUME NEW f \in Failures
    PROVE  StatusOf(f) \in {422, 502, 504}
  BY DEF Failures, StatusOf

LEMMA EventFacts ==
    /\ ChunkEvent \in Events
    /\ \A n \in Nat, f \in Failures : ErrorEvent(n, f) \in Events
    /\ \A n \in Nat, route \in Routes : DoneEvent(n, route) \in Events
  BY DEF ChunkEvent, ErrorEvent, DoneEvent, Events, Failures

-----------------------------------------------------------------------------
(* Steps *)

\* What a step of one request leaves of another.
Same(q) == /\ ask'[q] = ask[q] /\ stage'[q] = stage[q] /\ pos'[q] = pos[q]
           /\ asked'[q] = asked[q] /\ count'[q] = count[q] /\ out'[q] = out[q]
           /\ reply'[q] = reply[q] /\ answer'[q] = answer[q] /\ failure'[q] = failure[q]

LEMMA SameStaysSound ==
    ASSUME NEW q \in Requests, Sound(q), Same(q)
    PROVE  Sound(q)'
<1>1. Truthful(q, reply[q].route)' <=> Truthful(q, reply[q].route)
  BY DEF Same, Truthful
<1>2. Told(q)' <=> Told(q)
  BY DEF Same, Truthful, Told
<1>3. AllChunks(q)' <=> AllChunks(q)
  BY DEF Same, AllChunks
<1> QED
  BY <1>1, <1>2, <1>3 DEF Same, Sound

\* A stream's next chunk.
LEMMA ChunkAppended ==
    ASSUME NEW s \in Seq(Events), \A i \in 1 .. Len(s) : s[i] = ChunkEvent,
           NEW e \in Events
    PROVE  LET t == Append(s, e)
           IN /\ t \in Seq(Events) /\ Len(t) = Len(s) + 1
              /\ \A i \in 1 .. Len(s) : t[i] = ChunkEvent
              /\ t[Len(t)] = e
  BY AppendProperties

-----------------------------------------------------------------------------
(* The invariant *)

LEMMA InitIInv == Init => IInv
<1> SUFFICES ASSUME Init PROVE IInv
  OBVIOUS
<1>1. TypeOK
  BY CompletionsAssumption DEF Init, TypeOK, Stages, NoReply, Replies
<1>2. ASSUME NEW r \in Requests PROVE Sound(r)
  BY <1>2, CompletionsAssumption DEF Init, Sound, AllChunks, NoReply, Unasked
<1> QED
  BY <1>1, <1>2 DEF IInv

LEMMA BenchType ==
    ASSUME TypeOK, NEW r \in Requests, NEW f, Current(r) \in Models, Bench(r, f)
    PROVE  resting' \in SUBSET Models
  BY DEF TypeOK, Bench

LEMMA CurrentInChain ==
    ASSUME IInv, NEW r \in Requests, stage[r] \in {"calling", "running", "leaving"}
    PROVE  /\ ask[r] \in Asks /\ pos[r] \in Places(ask[r]) /\ pos[r] \in 0 .. Len(Chain)
           /\ Current(r) \in Models
<1>1. ask[r] \in Asks /\ pos[r] \in Places(ask[r])
  BY DEF IInv, TypeOK, Sound
<1> QED
  BY <1>1, PlacesOfChain DEF Current

LEMMA BeginType ==
    ASSUME TypeOK, NEW r \in Requests, Begin(r)
    PROVE  \E i \in Places(ask[r]) : /\ pos' = [pos EXCEPT ![r] = i]
                                    /\ i \in 0 .. Len(Chain)
<1>1. PICK i \in Starts(r) : pos' = [pos EXCEPT ![r] = i]
  BY DEF Begin
<1>2. i \in Places(ask[r])
  BY DEF Starts
<1>3. ask[r] \in Asks
  BY DEF TypeOK
<1> QED
  BY <1>1, <1>2, <1>3, PlacesOfChain

\* The step of a request that keeps the others as they are.
LEMMA OthersStaySound ==
    ASSUME IInv, NEW r \in Requests, \A q \in Requests \ {r} : Same(q),
           TypeOK', Sound(r)'
    PROVE  IInv'
<1>1. ASSUME NEW q \in Requests \ {r} PROVE Sound(q)'
  BY <1>1, SameStaysSound DEF IInv
<1> QED
  BY <1>1 DEF IInv

LEMMA MoveOnIInv == ASSUME IInv, NEW r \in Requests, MoveOn(r) PROVE IInv'
<1>1. PICK i \in Places(ask[r]) : i > pos[r] /\ pos' = [pos EXCEPT ![r] = i]
  BY DEF MoveOn
<1>2. ask[r] \in Asks /\ pos[r] \in 0 .. Len(Chain) /\ Current(r) \in Models
  BY CurrentInChain DEF MoveOn
<1>3. i \in 0 .. Len(Chain)
  BY <1>2, PlacesOfChain
<1>4. resting' \in SUBSET Models
  BY <1>2, BenchType DEF MoveOn, IInv
<1>5. TypeOK'
  BY <1>1, <1>2, <1>3, <1>4 DEF IInv, TypeOK, MoveOn, told, truth
<1>6. \A q \in Requests \ {r} : Same(q)
  BY <1>1 DEF IInv, TypeOK, MoveOn, Same, told, truth
<1>7. Sound(r)'
  <2>1. /\ ask'[r] = ask[r] /\ stage'[r] = stage[r] /\ pos'[r] = i /\ out'[r] = out[r]
        /\ reply'[r] = reply[r] /\ failure'[r] = failure[r] /\ count'[r] = count[r]
        /\ stage[r] \in {"calling", "running"} /\ answer'[r] = answer[r]
    BY <1>1 DEF IInv, TypeOK, MoveOn, told, truth
  <2>2. reply[r] = NoReply /\ AllChunks(r)
    BY <2>1 DEF IInv, Sound
  <2>3. AllChunks(r)'
    BY <2>1, <2>2 DEF AllChunks
  <2>4. i > 0 /\ i # Unasked
    BY <1>1, <1>2, <1>3 DEF Unasked
  <2> QED
    BY <2>1, <2>2, <2>3, <2>4 DEF IInv, Sound, NoReply
<1> QED
  BY <1>5, <1>6, <1>7, OthersStaySound

LEMMA RefuseIInv == ASSUME IInv, NEW r \in Requests, Refuse(r) PROVE IInv'
<1>1. /\ Refusal(400) \in Replies /\ Refusal(400) # NoReply
      /\ Refusal(400).status = 400
  BY RefusalFacts
<1>2. TypeOK'
  BY <1>1 DEF IInv, TypeOK, Refuse, Responds, Goes, Stages, calls, truth
<1>3. \A q \in Requests \ {r} : Same(q)
  BY DEF IInv, TypeOK, Refuse, Responds, Goes, Same, calls, truth
<1>4. Sound(r)'
  <2>1. /\ stage'[r] = "over" /\ reply'[r] = Refusal(400) /\ out'[r] = out[r]
        /\ ask'[r] = ask[r] /\ pos'[r] = pos[r] /\ asked'[r] = asked[r]
        /\ stage[r] = "new" /\ answer'[r] = answer[r]
    BY DEF IInv, TypeOK, Refuse, Responds, Goes, calls, truth
  <2> QED
    BY <1>1, <2>1 DEF IInv, Sound
<1> QED
  BY <1>2, <1>3, <1>4, OthersStaySound

LEMMA CallIInv == ASSUME IInv, NEW r \in Requests, Call(r) PROVE IInv'
<1>1. PICK i \in Places(ask[r]) : pos' = [pos EXCEPT ![r] = i] /\ i \in 0 .. Len(Chain)
  BY BeginType DEF Call, IInv
<1>2. TypeOK'
  BY <1>1 DEF IInv, TypeOK, Call, Goes, Stages, told, truth
<1>3. \A q \in Requests \ {r} : Same(q)
  BY <1>1 DEF IInv, TypeOK, Call, Goes, Same, told, truth
<1>4. Sound(r)'
  <2>1. /\ stage'[r] = "calling" /\ reply'[r] = reply[r] /\ out'[r] = out[r]
        /\ ask'[r] = ask[r] /\ pos'[r] = i /\ asked'[r] = asked[r]
        /\ failure'[r] = failure[r] /\ count'[r] = count[r] /\ answer'[r] = answer[r]
        /\ stage[r] = "new"
    BY <1>1 DEF IInv, TypeOK, Call, Goes, told, truth
  <2>2. asked[r] = {}
    BY <2>1 DEF IInv, Sound, Unasked
  <2>3. /\ reply[r] = NoReply /\ AllChunks(r) /\ reply[r].status = 0 /\ answer[r] = NoRoute
        /\ failure[r] = None /\ count[r] = Len(out[r]) /\ out[r] = <<>>
    BY <2>1, NoReplyStatus DEF IInv, Sound
  <2>4. AllChunks(r)'
    BY <2>1, <2>3 DEF AllChunks
  <2>5. i # Unasked
    BY <1>1 DEF Unasked
  <2> QED
    BY <1>1, <2>1, <2>2, <2>3, <2>4, <2>5 DEF Sound
<1> QED
  BY <1>2, <1>3, <1>4, OthersStaySound

\* The cache's answers, too, are of models of the request's chain.
LEMMA SourcesInChain ==
    ASSUME IInv, NEW r \in Requests, stage[r] = "calling", NEW hit \in BOOLEAN,
           NEW m \in Sources(r, hit)
    PROVE  ask[r] \in Asks /\ m \in Models /\ \E i \in Places(ask[r]) : m = At(ask[r], i)
<1>1. ask[r] \in Asks /\ pos[r] \in Places(ask[r])
  BY CurrentInChain
<1>2. \E i \in Places(ask[r]) : m = At(ask[r], i)
  BY <1>1 DEF Sources, Current
<1> QED
  BY <1>1, <1>2, PlacesOfChain

\* Every response to an answered request names the model and has its cost.
LEMMA AnsweredFacts ==
    ASSUME NEW a \in Asks, NEW i \in Places(a), NEW hit \in BOOLEAN,
           NEW response \in Answered(a, At(a, i), hit)
    PROVE  /\ response \in Replies /\ response # NoReply /\ response.status = 200
           /\ response.route = ServedRoute(a, At(a, i))
           /\ IF response.cached THEN response.cost = Free
              ELSE response.cost \in Costs(At(a, i))
<1> DEFINE m == At(a, i)
           route == ServedRoute(a, m)
<1>1. m \in Models /\ route \in Routes /\ PricingClient(a, route) = m
  BY PlacesOfChain, ServedRouteIsTrue
<1> HIDE DEF m, route
<1>2. response \in [status: {200}, route: {route}, cached: {hit},
                    cost: IF hit THEN {Free} ELSE Costs(m)]
  BY <1>1 DEF Answered, m, route
<1>3. /\ response.status = 200 /\ response.route = route /\ response.cached = hit
      /\ response.cost \in IF hit THEN {Free} ELSE Costs(m)
  BY <1>2
<1>4. response.cost \in Models \cup {NoRoute, Free}
  BY <1>1, <1>3 DEF Costs
<1>5. response \in Replies
  BY <1>1, <1>2, <1>3, <1>4 DEF Replies
<1> QED
  BY <1>3, <1>5 DEF NoReply, m, route

LEMMA AnswerIInv == ASSUME IInv, NEW r \in Requests, Answer(r) PROVE IInv'
<1> DEFINE a == ask[r]
<1>0. PICK hit \in BOOLEAN : \E m \in Sources(r, hit) :
         /\ answer' = [answer EXCEPT ![r] = m]
         /\ \E response \in Answered(a, m, hit) : Responds(r, response)
  BY DEF Answer
<1>a. PICK m \in Sources(r, hit) :
         /\ answer' = [answer EXCEPT ![r] = m]
         /\ \E response \in Answered(a, m, hit) : Responds(r, response)
  BY <1>0
<1>1. PICK response \in Answered(a, m, hit) :
         answer' = [answer EXCEPT ![r] = m] /\ Responds(r, response)
  BY <1>a
<1>2. PICK i \in Places(a) : a \in Asks /\ m = At(a, i) /\ m \in Models
  BY SourcesInChain DEF Answer
<1>3. LET route == ServedRoute(a, m)
      IN route \in Routes /\ Meant(route) = m /\ (route.fallback <=> m # Primary(a))
  BY <1>2, ServedRouteIsTrue
<1>4. /\ response \in Replies /\ response # NoReply /\ response.status = 200
      /\ response.route = ServedRoute(a, m)
      /\ IF response.cached THEN response.cost = Free ELSE response.cost \in Costs(m)
  BY <1>2, AnsweredFacts
<1>5. TypeOK'
  BY <1>1, <1>2, <1>4 DEF IInv, TypeOK, Answer, Responds, Goes, Stages, calls
<1>6. \A q \in Requests \ {r} : Same(q)
  BY <1>1 DEF IInv, TypeOK, Answer, Responds, Goes, Same, calls
<1>7. Sound(r)'
  <2>1. /\ stage'[r] = "over" /\ reply'[r] = response /\ out'[r] = out[r]
        /\ ask'[r] = a /\ pos'[r] = pos[r] /\ asked'[r] = asked[r]
        /\ answer'[r] = m
        /\ stage[r] = "calling"
    BY <1>1 DEF IInv, TypeOK, Answer, Responds, Goes, calls
  <2>2. Truthful(r, reply[r].route)'
    BY <1>3, <1>4, <2>1 DEF Truthful
  <2> QED
    BY <1>4, <2>1, <2>2 DEF IInv, Sound
<1> QED
  BY <1>5, <1>6, <1>7, OthersStaySound

\* The response to a failure, before or in place of an answer.
LEMMA FailedReplySound ==
    ASSUME IInv, NEW r \in Requests, NEW f \in Failures,
           stage[r] \in {"new", "calling"},
           stage'[r] = "over", reply'[r] = Refusal(StatusOf(f)), out'[r] = out[r],
           ask'[r] = ask[r], pos'[r] = pos[r], asked'[r] = asked[r],
           answer'[r] = answer[r]
    PROVE  Sound(r)'
<1>1. Refusal(StatusOf(f)) # NoReply /\ Refusal(StatusOf(f)).status # 200
  BY StatusOfFacts, RefusalFacts
<1> QED
  BY <1>1 DEF IInv, Sound

LEMMA FailCallIInv == ASSUME IInv, NEW r \in Requests, FailCall(r) PROVE IInv'
<1>1. PICK f \in Failures : /\ Bench(r, f) /\ failure' = [failure EXCEPT ![r] = f]
                            /\ Responds(r, Refusal(StatusOf(f)))
  BY DEF FailCall
<1>2. resting' \in SUBSET Models
  BY <1>1, CurrentInChain, BenchType DEF FailCall, IInv
<1>3. Refusal(StatusOf(f)) \in Replies
  BY StatusOfFacts, RefusalFacts
<1>4. TypeOK'
  BY <1>1, <1>2, <1>3 DEF IInv, TypeOK, FailCall, Responds, Goes, Stages, calls
<1>5. \A q \in Requests \ {r} : Same(q)
  BY <1>1 DEF IInv, TypeOK, FailCall, Responds, Goes, Same, calls
<1>6. Sound(r)'
  <2>1. /\ stage[r] = "calling"
        /\ stage'[r] = "over" /\ reply'[r] = Refusal(StatusOf(f)) /\ out'[r] = out[r]
        /\ ask'[r] = ask[r] /\ pos'[r] = pos[r] /\ asked'[r] = asked[r]
        /\ answer'[r] = answer[r]
    BY <1>1 DEF IInv, TypeOK, FailCall, Responds, Goes, calls
  <2> QED
    BY <2>1, FailedReplySound
<1> QED
  BY <1>4, <1>5, <1>6, OthersStaySound

\* A client that cannot be built ends a request before the call, or after it.
LEMMA UnservedIInv ==
    ASSUME IInv, NEW r \in Requests, stage[r] \in {"new", "calling"}, Unserved(r),
           answer' \in [Requests -> Models \cup {NoRoute}],
           \A q \in Requests \ {r} : answer'[q] = answer[q]
    PROVE  IInv'
<1>1. PICK status \in Unbuilt : Responds(r, Refusal(status))
  BY DEF Unserved
<1>2. /\ Refusal(status) \in Replies /\ Refusal(status) # NoReply
      /\ Refusal(status).status = status /\ status # 200
  BY RefusalFacts DEF Unbuilt
<1>3. TypeOK'
  BY <1>1, <1>2 DEF IInv, TypeOK, Unserved, Responds, Goes, Stages, calls
<1>4. \A q \in Requests \ {r} : Same(q)
  BY <1>1 DEF IInv, TypeOK, Unserved, Responds, Goes, Same, calls
<1>5. Sound(r)'
  <2>1. /\ stage'[r] = "over" /\ reply'[r] = Refusal(status) /\ out'[r] = out[r]
        /\ ask'[r] = ask[r] /\ pos'[r] = pos[r] /\ asked'[r] = asked[r]
    BY <1>1 DEF IInv, TypeOK, Unserved, Responds, Goes, calls
  <2> QED
    BY <1>2, <2>1 DEF IInv, Sound
<1> QED
  BY <1>3, <1>4, <1>5, OthersStaySound

LEMMA NoClientIInv == ASSUME IInv, NEW r \in Requests, NoClient(r) PROVE IInv'
<1>1. answer[r] = NoRoute /\ answer' = answer
  BY DEF IInv, Sound, NoClient
<1> QED
  BY <1>1, UnservedIInv DEF NoClient, IInv, TypeOK

LEMMA NoPriceIInv == ASSUME IInv, NEW r \in Requests, NoPrice(r) PROVE IInv'
<1>0. PICK hit \in BOOLEAN : \E m \in Sources(r, hit) : answer' = [answer EXCEPT ![r] = m]
  BY DEF NoPrice
<1>1. PICK m \in Sources(r, hit) : answer' = [answer EXCEPT ![r] = m]
  BY <1>0
<1>2. m \in Models
  BY SourcesInChain DEF NoPrice
<1>3. /\ answer' \in [Requests -> Models \cup {NoRoute}]
      /\ \A q \in Requests \ {r} : answer'[q] = answer[q]
  BY <1>1, <1>2 DEF IInv, TypeOK
<1> QED
  BY <1>3, UnservedIInv DEF NoPrice

LEMMA BlockAtOpenIInv == ASSUME IInv, NEW r \in Requests, BlockAtOpen(r) PROVE IInv'
<1>1. "blocked" \in Failures
  BY DEF Failures
<1>2. Refusal(StatusOf("blocked")) \in Replies
  BY <1>1, StatusOfFacts, RefusalFacts
<1>3. TypeOK'
  BY <1>1, <1>2 DEF IInv, TypeOK, BlockAtOpen, Responds, Goes, Stages, calls
<1>4. \A q \in Requests \ {r} : Same(q)
  BY DEF IInv, TypeOK, BlockAtOpen, Responds, Goes, Same, calls
<1>5. Sound(r)'
  <2>1. /\ stage[r] = "new"
        /\ stage'[r] = "over" /\ reply'[r] = Refusal(StatusOf("blocked"))
        /\ out'[r] = out[r]
        /\ ask'[r] = ask[r] /\ pos'[r] = pos[r] /\ asked'[r] = asked[r]
        /\ answer'[r] = answer[r]
    BY DEF IInv, TypeOK, BlockAtOpen, Responds, Goes, calls
  <2> QED
    BY <1>1, <2>1, FailedReplySound
<1> QED
  BY <1>3, <1>4, <1>5, OthersStaySound

\* A stream that goes on, or is left, and has been sent nothing new.
LEMMA QuietSound ==
    ASSUME IInv, NEW r \in Requests,
           stage[r] # "over", stage'[r] \in {"waiting", "running", "leaving", "left"},
           stage'[r] \in {"running", "leaving"} => pos'[r] # Unasked,
           pos'[r] = pos[r] \/ (pos[r] = Unasked /\ pos'[r] \in Places(ask[r])),
           ask'[r] = ask[r], asked'[r] = asked[r],
           count'[r] = count[r], out'[r] = out[r],
           reply'[r] = reply[r], failure'[r] = failure[r]
    PROVE  Sound(r)'
<1>1. /\ reply[r] = NoReply /\ failure[r] = None
      /\ AllChunks(r) /\ count[r] = Len(out[r])
  BY DEF IInv, Sound
<1>2. AllChunks(r)'
  BY <1>1 DEF AllChunks
<1>3. reply'[r].status = 0
  BY <1>1 DEF NoReply
<1>4. asked[r] # {} => pos'[r] > 0
  BY DEF IInv, Sound, Unasked
<1>5. pos'[r] \in {Unasked} \cup Places(ask[r])
  BY DEF IInv, Sound
<1> QED
  BY <1>1, <1>2, <1>3, <1>4, <1>5 DEF Sound

LEMMA OpenIInv == ASSUME IInv, NEW r \in Requests, Open(r) PROVE IInv'
<1>1. TypeOK'
  BY DEF IInv, TypeOK, Open, Goes, Stages, calls, told, truth
<1>2. \A q \in Requests \ {r} : Same(q)
  BY DEF IInv, TypeOK, Open, Goes, Same, calls, told, truth
<1>3. Sound(r)'
  BY QuietSound DEF IInv, TypeOK, Open, Goes, calls, told, truth
<1> QED
  BY <1>1, <1>2, <1>3, OthersStaySound

LEMMA NextStepIInv == ASSUME IInv, NEW r \in Requests, NextStep(r) PROVE IInv'
<1>1. Tail(line) \in Seq(Requests)
  BY HeadTailProperties DEF IInv, TypeOK, NextStep
<1>2. \/ pos' = pos /\ pos[r] # Unasked
      \/ /\ pos[r] = Unasked
         /\ \E i \in Places(ask[r]) : /\ pos' = [pos EXCEPT ![r] = i]
                                     /\ i \in 0 .. Len(Chain)
  BY BeginType DEF NextStep, IInv
<1>3. TypeOK'
  BY <1>1, <1>2 DEF IInv, TypeOK, NextStep, Goes, Stages, told, truth
<1>4. \A q \in Requests \ {r} : Same(q)
  BY <1>2 DEF IInv, TypeOK, NextStep, Goes, Same, told, truth
<1>5. Sound(r)'
  <2>1. stage[r] # "over" /\ stage'[r] = "running"
    BY DEF IInv, TypeOK, NextStep, Goes
  <2>2. /\ pos'[r] # Unasked
        /\ pos'[r] = pos[r] \/ (pos[r] = Unasked /\ pos'[r] \in Places(ask[r]))
    BY <1>2 DEF IInv, TypeOK, Unasked
  <2> QED
    BY <2>1, <2>2, QuietSound DEF NextStep, told, truth
<1> QED
  BY <1>3, <1>4, <1>5, OthersStaySound

\* Every piece puts its stream at the end of the line again.
LEMMA PieceFacts ==
    ASSUME IInv, NEW r \in Requests, Piece(r), Goes(r, "waiting"), line' = Append(line, r)
    PROVE  /\ stage' \in [Requests -> Stages] /\ steps' \in [Requests -> 0 .. MaxSteps]
           /\ answer' \in [Requests -> Models \cup {NoRoute}] /\ line' \in Seq(Requests)
           /\ stage[r] = "running" /\ stage'[r] = "waiting"
<1>1. Current(r) \in Models
  BY CurrentInChain DEF Piece
<1>2. steps' \in [Requests -> 0 .. MaxSteps]
  BY CompletionsAssumption DEF IInv, TypeOK, Piece
<1> QED
  BY <1>1, <1>2 DEF IInv, TypeOK, Piece, Goes, Stages

LEMMA SendChunkIInv == ASSUME IInv, NEW r \in Requests, SendChunk(r) PROVE IInv'
<1>1. /\ stage' \in [Requests -> Stages] /\ steps' \in [Requests -> 0 .. MaxSteps]
      /\ answer' \in [Requests -> Models \cup {NoRoute}] /\ line' \in Seq(Requests)
      /\ stage[r] = "running" /\ stage'[r] = "waiting"
  BY PieceFacts DEF SendChunk
<1> DEFINE t == Append(out[r], ChunkEvent)
<1>2. AllChunks(r) /\ count[r] = Len(out[r]) /\ reply[r] = NoReply /\ failure[r] = None
  BY <1>1 DEF IInv, Sound
<1>3. /\ t \in Seq(Events) /\ Len(t) = Len(out[r]) + 1
      /\ \A i \in 1 .. Len(out[r]) : t[i] = ChunkEvent
      /\ t[Len(t)] = ChunkEvent
  BY <1>2, EventFacts, ChunkAppended DEF IInv, TypeOK, AllChunks
<1>4. out' = [out EXCEPT ![r] = t] /\ count' = [count EXCEPT ![r] = @ + 1]
  BY DEF SendChunk, Sends
<1>5. TypeOK'
  BY <1>1, <1>3, <1>4 DEF IInv, TypeOK, SendChunk, Piece, Sends, calls
<1>6. \A q \in Requests \ {r} : Same(q)
  BY <1>4 DEF IInv, TypeOK, SendChunk, Piece, Sends, Goes, Same, calls
<1>7. Sound(r)'
  <2>1. /\ ask'[r] = ask[r] /\ pos'[r] = pos[r] /\ asked'[r] = asked[r]
        /\ reply'[r] = reply[r] /\ failure'[r] = failure[r]
        /\ out'[r] = t /\ count'[r] = Len(t)
    BY <1>2, <1>3, <1>4 DEF IInv, TypeOK, SendChunk, Piece, Sends, calls
  <2>2. AllChunks(r)'
    BY <1>3, <2>1 DEF AllChunks, IInv, TypeOK
  <2>3. reply'[r].status = 0
    BY <1>2, <2>1 DEF NoReply
  <2> QED
    BY <1>1, <1>2, <2>1, <2>2, <2>3 DEF IInv, Sound
<1> QED
  BY <1>5, <1>6, <1>7, OthersStaySound

LEMMA SkipEmptyIInv == ASSUME IInv, NEW r \in Requests, SkipEmpty(r) PROVE IInv'
<1>1. /\ stage' \in [Requests -> Stages] /\ steps' \in [Requests -> 0 .. MaxSteps]
      /\ answer' \in [Requests -> Models \cup {NoRoute}] /\ line' \in Seq(Requests)
      /\ stage[r] = "running" /\ stage'[r] = "waiting"
  BY PieceFacts DEF SkipEmpty
<1>2. TypeOK'
  BY <1>1 DEF IInv, TypeOK, SkipEmpty, Piece, calls, told
<1>3. \A q \in Requests \ {r} : Same(q)
  BY DEF IInv, TypeOK, SkipEmpty, Piece, Goes, Same, calls, told
<1>4. Sound(r)'
  BY <1>1, QuietSound DEF SkipEmpty, Piece, calls, told
<1> QED
  BY <1>2, <1>3, <1>4, OthersStaySound

LEMMA FinishIInv == ASSUME IInv, NEW r \in Requests, Finish(r) PROVE IInv'
<1> DEFINE m == Current(r)
           n == count[r]
           route == ServedRoute(ask[r], m)
           e == DoneEvent(n, route)
           t == Append(out[r], e)
<1>1. ask[r] \in Asks /\ pos[r] \in Places(ask[r]) /\ m \in Models
  BY CurrentInChain DEF Finish
<1>2. route \in Routes /\ Meant(route) = m /\ (route.fallback <=> m # Primary(ask[r]))
  BY <1>1, ServedRouteIsTrue DEF Current
<1>3. /\ stage[r] = "running" /\ AllChunks(r) /\ n = Len(out[r]) /\ n \in Nat
      /\ reply[r] = NoReply /\ failure[r] = None
  BY DEF IInv, TypeOK, Sound, Finish
<1>4. e \in Events
  BY <1>2, <1>3, EventFacts
<1>5. /\ t \in Seq(Events) /\ Len(t) = n + 1 /\ t[n + 1] = e
      /\ \A i \in 1 .. n : t[i] = ChunkEvent
  BY <1>3, <1>4, ChunkAppended DEF IInv, TypeOK, AllChunks
<1>6. out' = [out EXCEPT ![r] = t] /\ answer' = [answer EXCEPT ![r] = m]
  BY DEF Finish, Sends
<1>7. TypeOK'
  BY <1>1, <1>5, <1>6 DEF IInv, TypeOK, Finish, Sends, Goes, Stages, calls
<1>8. \A q \in Requests \ {r} : Same(q)
  BY <1>6 DEF IInv, TypeOK, Finish, Sends, Goes, Same, calls
<1>9. Sound(r)'
  <2>1. /\ ask'[r] = ask[r] /\ pos'[r] = pos[r] /\ asked'[r] = asked[r]
        /\ reply'[r] = NoReply /\ failure'[r] = None /\ stage'[r] = "over"
        /\ out'[r] = t /\ count'[r] = n /\ answer'[r] = m
    BY <1>3, <1>6 DEF IInv, TypeOK, Finish, Sends, Goes, calls
  <2>2. t[n + 1].route = route
    BY <1>5 DEF DoneEvent
  <2>3. Truthful(r, out[r][n + 1].route)'
    BY <1>2, <2>1, <2>2 DEF Truthful
  <2>4. Told(r)'
    BY <1>3, <1>5, <2>1, <2>3 DEF Told
  <2>5. reply'[r].status = 0
    BY <2>1 DEF NoReply
  <2> QED
    BY <1>3, <2>1, <2>4, <2>5 DEF IInv, Sound
<1> QED
  BY <1>7, <1>8, <1>9, OthersStaySound

LEMMA BreakIInv == ASSUME IInv, NEW r \in Requests, Break(r) PROVE IInv'
<1>1. PICK f \in Failures : /\ Bench(r, f) /\ failure' = [failure EXCEPT ![r] = f]
                            /\ Sends(r, ErrorEvent(count[r], f))
  BY DEF Break
<1> DEFINE n == count[r]
           e == ErrorEvent(n, f)
           t == Append(out[r], e)
<1>2. resting' \in SUBSET Models
  BY <1>1, CurrentInChain, BenchType DEF Break, IInv
<1>3. /\ stage[r] = "running" /\ AllChunks(r) /\ n = Len(out[r]) /\ n \in Nat
      /\ reply[r] = NoReply
  BY DEF IInv, TypeOK, Sound, Break
<1>4. e \in Events
  BY <1>3, EventFacts
<1> HIDE DEF e
<1>5. /\ t \in Seq(Events) /\ Len(t) = n + 1 /\ t[n + 1] = e
      /\ \A i \in 1 .. n : t[i] = ChunkEvent
  BY <1>3, <1>4, ChunkAppended DEF IInv, TypeOK, AllChunks
<1>6. out' = [out EXCEPT ![r] = t]
  BY <1>1 DEF Sends, e
<1>7. TypeOK'
  BY <1>1, <1>2, <1>5, <1>6 DEF IInv, TypeOK, Break, Sends, Goes, Stages, calls
<1>8. \A q \in Requests \ {r} : Same(q)
  BY <1>1, <1>6 DEF IInv, TypeOK, Break, Sends, Goes, Same, calls
<1>9. Sound(r)'
  <2>1. /\ ask'[r] = ask[r] /\ pos'[r] = pos[r] /\ asked'[r] = asked[r]
        /\ reply'[r] = NoReply /\ failure'[r] = f /\ stage'[r] = "over"
        /\ out'[r] = t /\ count'[r] = n
    BY <1>1, <1>3, <1>6 DEF IInv, TypeOK, Break, Sends, Goes, calls
  <2>2. f # None
    BY DEF Failures, None
  <2>3. Told(r)'
    BY <1>3, <1>5, <2>1, <2>2 DEF Told, e
  <2>4. reply'[r].status = 0
    BY <2>1 DEF NoReply
  <2> QED
    BY <1>3, <2>1, <2>3, <2>4 DEF IInv, Sound
<1> QED
  BY <1>7, <1>8, <1>9, OthersStaySound

LEMMA LeaveIInv == ASSUME IInv, NEW r \in Requests, Leave(r) PROVE IInv'
<1>1. CASE stage[r] = "running" /\ line' = line
  <2>1. TypeOK'
    BY <1>1 DEF IInv, TypeOK, Leave, Goes, Stages, calls, told, truth
  <2>2. \A q \in Requests \ {r} : Same(q)
    BY <1>1 DEF IInv, TypeOK, Leave, Goes, Same, calls, told, truth
  <2>3. Sound(r)'
    <3>1. pos[r] # Unasked /\ stage'[r] = "leaving"
      BY <1>1 DEF IInv, TypeOK, Sound, Leave, Goes
    <3> QED
      BY <1>1, <3>1, QuietSound DEF Leave, calls, told, truth
  <2> QED
    BY <2>1, <2>2, <2>3, OthersStaySound
<1>2. CASE stage[r] = "waiting" /\ Goes(r, "left")
  <2>1. PICK i \in DOMAIN line :
          line' = SubSeq(line, 1, i - 1) \o SubSeq(line, i + 1, Len(line))
    BY <1>2 DEF Leave
  <2>2. i \in 1 .. Len(line) /\ \A j \in 1 .. Len(line) : line[j] \in Requests
    BY DEF IInv, TypeOK
  <2>3. SubSeq(line, 1, i - 1) \in Seq(Requests) /\ SubSeq(line, i + 1, Len(line)) \in Seq(Requests)
    <3> DEFINE last == Len(line)
    <3>0. last \in Nat
      BY DEF IInv, TypeOK
    <3> HIDE DEF last
    <3>1. /\ \A j \in 1 .. i - 1 : j \in 1 .. last
          /\ \A j \in i + 1 .. last : j \in 1 .. last
          /\ i - 1 \in Int /\ i + 1 \in Int /\ last \in Int
      BY <2>2, <3>0 DEF last
    <3>2. \A j \in 1 .. last : line[j] \in Requests
      BY <2>2 DEF last
    <3> USE DEF last
    <3> QED
      BY <3>1, <3>2, SubSeqProperties
  <2>4. line' \in Seq(Requests)
    BY <2>1, <2>3, ConcatProperties
  <2>5. TypeOK'
    BY <1>2, <2>4 DEF IInv, TypeOK, Leave, Goes, Stages, calls, told, truth
  <2>6. \A q \in Requests \ {r} : Same(q)
    BY <1>2 DEF IInv, TypeOK, Leave, Goes, Same, calls, told, truth
  <2>7. Sound(r)'
    <3>1. stage'[r] = "left"
      BY <1>2 DEF IInv, TypeOK, Goes
    <3> QED
      BY <1>2, <3>1, QuietSound DEF Leave, calls, told, truth
  <2> QED
    BY <2>5, <2>6, <2>7, OthersStaySound
<1> QED
  BY <1>1, <1>2 DEF Leave

LEMMA AbandonIInv == ASSUME IInv, NEW r \in Requests, Abandon(r) PROVE IInv'
<1>1. TypeOK'
  BY DEF IInv, TypeOK, Abandon, Goes, Stages, calls, told, truth
<1>2. \A q \in Requests \ {r} : Same(q)
  BY DEF IInv, TypeOK, Abandon, Goes, Same, calls, told, truth
<1>3. Sound(r)'
  BY QuietSound DEF IInv, TypeOK, Abandon, Goes, calls, told, truth
<1> QED
  BY <1>1, <1>2, <1>3, OthersStaySound

LEMMA NextIInv == IInv /\ [Next]_vars => IInv'
<1> SUFFICES ASSUME IInv, [Next]_vars PROVE IInv'
  OBVIOUS
<1> DEFINE Kept == /\ UNCHANGED <<ask, stage, calls, steps, told, truth, line>>
                   /\ resting' \in SUBSET Models
<1>1. Kept => IInv'
  <2>1. Kept => TypeOK'
    BY DEF IInv, TypeOK, calls, told, truth
  <2>2. Kept => \A q \in Requests : Same(q)
    BY DEF Same, calls, told, truth
  <2> QED
    BY <2>1, <2>2, SameStaysSound DEF IInv
<1>2. ASSUME NEW r \in Requests, Serve(r) PROVE IInv'
  BY <1>2, RefuseIInv, NoClientIInv, NoPriceIInv, CallIInv, AnswerIInv, FailCallIInv, BlockAtOpenIInv, OpenIInv,
     NextStepIInv, SendChunkIInv, SkipEmptyIInv, FinishIInv, BreakIInv, AbandonIInv DEF Serve
<1>3. ASSUME NEW r \in Requests, MoveOn(r) PROVE IInv'
  BY <1>3, MoveOnIInv
<1>4. ASSUME NEW r \in Requests, Leave(r) PROVE IInv'
  BY <1>4, LeaveIInv
<1>5. CASE Recover
  BY <1>1, <1>5 DEF Recover, IInv, TypeOK
<1>6. CASE UNCHANGED vars
  BY <1>1, <1>6 DEF vars, IInv, TypeOK
<1> QED
  BY <1>2, <1>3, <1>4, <1>5, <1>6 DEF Next, Terminating

\* The inductive invariant: every request stands at a place of its own chain
\* and has been told what became of it.
THEOREM CompletionsInvariant == Spec => []IInv
<1> QED
  BY InitIInv, NextIInv, PTL DEF Spec

-----------------------------------------------------------------------------
(* What it gives *)

\* Every variable keeps its type: statuses are the mapped ones, and a place is
\* one of the chain.
THEOREM TypeCorrect == Spec => []TypeOK
<1> QED
  BY CompletionsInvariant, PTL DEF IInv

\* Whatever engines, models, chain and interleaving: an answer names the model
\* that gave it.
THEOREM RoutesAreTrue == Spec => []RouteIsTheAnswers
<1>1. IInv => RouteIsTheAnswers
  <2> SUFFICES ASSUME IInv, NEW r \in Requests
               PROVE  /\ reply[r].status = 200 => Truthful(r, reply[r].route)
                      /\ \A i \in DOMAIN out[r] :
                             out[r][i].event = "done" => Truthful(r, out[r][i].route)
    BY DEF RouteIsTheAnswers
  <2>1. Sound(r) /\ DOMAIN out[r] = 1 .. Len(out[r]) /\ Len(out[r]) \in Nat
    BY DEF IInv, TypeOK
  <2>2. ChunkEvent.event # "done"
    BY DEF ChunkEvent
  <2>3. \A n, f : ErrorEvent(n, f).event # "done"
    BY DEF ErrorEvent
  <2>4. CASE stage[r] # "over" \/ reply[r] # NoReply
    BY <2>1, <2>2, <2>4 DEF Sound, AllChunks
  <2>5. CASE stage[r] = "over" /\ reply[r] = NoReply
    BY <2>1, <2>2, <2>3, <2>5 DEF Sound, Told
  <2> QED
    BY <2>4, <2>5
<1> QED
  BY <1>1, CompletionsInvariant, PTL

\* An answer of the cache costs nothing, and any other is not priced at another
\* model's rates than those of the one that gave it.
THEOREM PricesAreTheAnswers == Spec => []PricedAtTheAnswers
<1>1. IInv => PricedAtTheAnswers
  BY DEF IInv, Sound, PricedAtTheAnswers
<1> QED
  BY <1>1, CompletionsInvariant, PTL

\* A named model that failed is not asked again, in chains of any length and
\* with any candidates.
THEOREM NamedModelsAreAskedOnce == Spec => []NamedModelAskedOnce
<1>1. IInv => NamedModelAskedOnce
  <2> SUFFICES ASSUME IInv, NEW r \in Requests, ask[r].name # Default, asked[r] # {}
               PROVE  Current(r) # Primary(ask[r])
    BY DEF NamedModelAskedOnce
  <2>1. pos[r] > 0 /\ pos[r] \in Places(ask[r])
    BY DEF IInv, Sound, Unasked
  <2>2. pos[r] \in Behind(ask[r])
    BY <2>1 DEF Places
  <2>3. Current(r) = Chain[pos[r]]
    BY <2>1 DEF Current, At
  <2> QED
    BY <2>2, <2>3 DEF Behind, Primary
<1> QED
  BY <1>1, CompletionsInvariant, PTL

\* Chunks, then one event that tells the end and the number of chunks, for
\* streams of any length.
THEOREM StreamsAreToldTrue == Spec => []StreamsTellHowTheyEnd
<1>1. IInv => StreamsTellHowTheyEnd
  <2> SUFFICES ASSUME IInv, NEW r \in Requests
               PROVE  LET last == out[r][Len(out[r])] IN
        /\ \A i \in 1 .. Len(out[r]) - 1 : out[r][i].event = "chunk"
        /\ stage[r] = "over" /\ reply[r] = NoReply =>
               /\ out[r] # <<>>
               /\ last.count = Len(out[r]) - 1
               /\ last.event = CASE failure[r] = None      -> "done"
                                  [] failure[r] = "blocked" -> "guardrail_blocked"
                                  [] OTHER                  -> "stream_failed"
        /\ ~Ended(r) /\ out[r] # <<>> => last.event = "chunk"
    BY DEF StreamsTellHowTheyEnd
  <2>1. Sound(r) /\ Len(out[r]) \in Nat /\ out[r] \in Seq(Events)
    BY DEF IInv, TypeOK
  <2>2. ChunkEvent.event = "chunk"
    BY DEF ChunkEvent
  <2>3. CASE stage[r] # "over"
    BY <2>1, <2>2, <2>3 DEF Sound, AllChunks
  <2>4. CASE stage[r] = "over" /\ reply[r] # NoReply
    BY <2>1, <2>4 DEF Sound, Ended
  <2>5. CASE stage[r] = "over" /\ reply[r] = NoReply
    <3>1. Told(r)
      BY <2>1, <2>5 DEF Sound
    <3>2. CASE failure[r] = None
      BY <2>1, <2>2, <2>5, <3>1, <3>2 DEF Told, DoneEvent, Ended, None
    <3>3. CASE failure[r] # None
      BY <2>1, <2>2, <2>5, <3>1, <3>3 DEF Told, ErrorEvent, Ended
    <3> QED
      BY <3>2, <3>3
  <2> QED
    BY <2>3, <2>4, <2>5
<1> QED
  BY <1>1, CompletionsInvariant, PTL

-----------------------------------------------------------------------------
(* The line and the worker threads *)

\* The line is the streams that wait, each once.
LineIsTheWaiting ==
    /\ \A i \in 1 .. Len(line) : stage[line[i]] = "waiting"
    /\ \A i, j \in 1 .. Len(line) : line[i] = line[j] => i = j
    /\ \A r \in Requests : stage[r] = "waiting" => \E i \in 1 .. Len(line) : line[i] = r

ThreadsBounded == IsFiniteSet(Busy) /\ Cardinality(Busy) <= Threads

Queued == LineIsTheWaiting /\ ThreadsBounded

Working == {"running", "leaving"}

\* s without its place i.
Without(s, i) == SubSeq(s, 1, i - 1) \o SubSeq(s, i + 1, Len(s))

LEMMA WithoutProperties ==
    ASSUME NEW S, NEW s \in Seq(S), NEW i \in 1 .. Len(s)
    PROVE  /\ Len(Without(s, i)) = Len(s) - 1
           /\ \A j \in 1 .. Len(s) - 1 : Without(s, i)[j] = s[IF j < i THEN j ELSE j + 1]
<1> DEFINE n == Len(s)
           a == SubSeq(s, 1, i - 1)
           b == SubSeq(s, i + 1, n)
<1>1. n \in Nat /\ \A j \in 1 .. n : s[j] \in S
  BY LenProperties, ElementOfSeq
<1> HIDE DEF n
<1>2. i \in 1 .. n
  BY DEF n
<1>3. /\ a \in Seq(S) /\ Len(a) = i - 1
      /\ \A j \in 1 .. i - 1 : a[j] = s[j]
  <2>1. /\ 1 \in Int /\ i - 1 \in Int /\ (1 <= i - 1 \/ i - 1 = 0)
        /\ \A j \in 1 .. i - 1 : s[j] \in S
    BY <1>1, <1>2
  <2>2. /\ a \in Seq(S) /\ Len(a) = IF 1 <= i - 1 THEN (i - 1) - 1 + 1 ELSE 0
        /\ \A j \in 1 .. (i - 1) - 1 + 1 : a[j] = s[1 + j - 1]
    BY <2>1, SubSeqProperties
  <2> QED
    BY <1>2, <2>1, <2>2
<1>4. /\ b \in Seq(S) /\ Len(b) = n - i
      /\ \A j \in 1 .. n - i : b[j] = s[i + j]
  <2>1. /\ i + 1 \in Int /\ n \in Int /\ (i + 1 <= n \/ n = i)
        /\ \A j \in i + 1 .. n : s[j] \in S
    BY <1>1, <1>2
  <2>2. /\ b \in Seq(S) /\ Len(b) = IF i + 1 <= n THEN n - (i + 1) + 1 ELSE 0
        /\ \A j \in 1 .. n - (i + 1) + 1 : b[j] = s[(i + 1) + j - 1]
    BY <2>1, SubSeqProperties
  <2> QED
    BY <1>1, <1>2, <2>1, <2>2
<1>5. Without(s, i) = a \o b
  BY DEF Without, n
<1> HIDE DEF a, b
<1>6. /\ Len(a \o b) = Len(a) + Len(b)
      /\ \A j \in 1 .. Len(a) + Len(b) :
             (a \o b)[j] = IF j <= Len(a) THEN a[j] ELSE b[j - Len(a)]
  BY <1>3, <1>4, ConcatProperties
<1>7. ASSUME NEW j \in 1 .. n - 1
      PROVE  (a \o b)[j] = s[IF j < i THEN j ELSE j + 1]
  <2>1. CASE j < i
    <3>1. j \in 1 .. i - 1 /\ j <= Len(a) /\ j \in 1 .. Len(a) + Len(b)
      BY <1>1, <1>2, <1>3, <1>4, <2>1
    <3> QED
      BY <1>3, <1>6, <2>1, <3>1
  <2>2. CASE ~(j < i)
    <3>1. /\ j - (i - 1) \in 1 .. n - i /\ ~(j <= Len(a)) /\ j \in 1 .. Len(a) + Len(b)
          /\ i + (j - (i - 1)) = j + 1
      BY <1>1, <1>2, <1>3, <1>4, <2>2
    <3> QED
      BY <1>3, <1>4, <1>6, <2>2, <3>1
  <2> QED
    BY <2>1, <2>2
<1> QED
  BY <1>1, <1>2, <1>3, <1>4, <1>5, <1>6, <1>7 DEF n

\* How one request's step moves it, and what becomes of the line.
Stays(r, to) == /\ line' = line /\ stage[r] # "waiting" /\ to # "waiting"
                /\ to \in Working => stage[r] \in Working

Joins(r, to) == /\ line' = Append(line, r) /\ stage[r] # "waiting" /\ to = "waiting"

Quits(r, to) == /\ stage[r] = "waiting" /\ to # "waiting"
                /\ \E i \in 1 .. Len(line) : line[i] = r /\ line' = Without(line, i)
                /\ to \in Working => Cardinality(Busy) < Threads

Moves(r, to) == /\ stage' = [stage EXCEPT ![r] = to]
                /\ Stays(r, to) \/ Joins(r, to) \/ Quits(r, to)

LEMMA TakenFromTheHead ==
    ASSUME TypeOK, line # <<>>
    PROVE  /\ 1 \in 1 .. Len(line) /\ Head(line) = line[1]
           /\ Tail(line) = Without(line, 1)
<1>1. line \in Seq(Requests) /\ Len(line) \in Nat \ {0}
  BY EmptySeq DEF TypeOK
<1>2. Tail(line) = SubSeq(line, 2, Len(line)) /\ Tail(line) \in Seq(Requests)
  BY <1>1, TailIsSubSeq, HeadTailProperties
<1>3. SubSeq(line, 1, 0) = <<>>
  BY SubSeqEmpty
<1>4. <<>> \o Tail(line) = Tail(line)
  BY <1>2, ConcatEmptySeq
<1>5. 1 - 1 = 0 /\ 1 + 1 = 2
  OBVIOUS
<1> QED
  BY <1>1, <1>2, <1>3, <1>4, <1>5 DEF Without

\* Every step of a request is one of these.
LEMMA RequestMoves ==
    ASSUME TypeOK, NEW r \in Requests, Serve(r) \/ MoveOn(r) \/ Leave(r)
    PROVE  \E to \in Stages : Moves(r, to)
<1> DEFINE To(to) == to \in Stages /\ Moves(r, to)
<1> USE DEF Moves, Goes
<1>1. CASE Refuse(r) \/ NoClient(r) \/ Answer(r) \/ NoPrice(r) \/ FailCall(r) \/ BlockAtOpen(r)
           \/ Finish(r) \/ Break(r)
  <2>1. To("over")
    BY <1>1 DEF Refuse, NoClient, Unserved, Answer, NoPrice, FailCall, BlockAtOpen, Finish,
                Break, Stays, Working, Stages
  <2> QED
    BY <2>1
<1>2. CASE Call(r)
  <2>1. To("calling")
    BY <1>2 DEF Call, Stays, Working, Stages
  <2> QED
    BY <2>1
<1>3. CASE Open(r) \/ SendChunk(r) \/ SkipEmpty(r)
  <2>1. To("waiting")
    BY <1>3 DEF Open, SendChunk, SkipEmpty, Piece, Joins, Stages
  <2> QED
    BY <2>1
<1>4. CASE NextStep(r)
  <2>1. To("running")
    BY <1>4, TakenFromTheHead DEF NextStep, Quits, Working, Stages
  <2> QED
    BY <2>1
<1>5. CASE Abandon(r)
  <2>1. To("left")
    BY <1>5 DEF Abandon, Stays, Working, Stages
  <2> QED
    BY <2>1
<1>6. CASE MoveOn(r)
  <2>1. To(stage[r])
    BY <1>6 DEF MoveOn, Stays, Working, TypeOK
  <2> QED
    BY <2>1
<1>7. CASE Leave(r) /\ stage[r] = "waiting"
  <2>1. DOMAIN line = 1 .. Len(line)
    BY DEF TypeOK
  <2>2. To("left")
    BY <1>7, <2>1 DEF Leave, Quits, Without, Working, Stages
  <2> QED
    BY <2>2
<1>8. CASE Leave(r) /\ stage[r] = "running"
  <2>1. To("leaving")
    BY <1>8 DEF Leave, Stays, Working, Stages
  <2> QED
    BY <2>1
<1>9. Leave(r) => stage[r] \in {"waiting", "running"}
  BY DEF Leave
<1> QED
  BY <1>1, <1>2, <1>3, <1>4, <1>5, <1>6, <1>7, <1>8, <1>9, Zenon DEF Serve

LEMMA OthersMoveNothing ==
    ASSUME TypeOK, [Next]_vars
    PROVE  \/ line' = line /\ stage' = stage
           \/ \E r \in Requests, to \in Stages : Moves(r, to)
<1>1. CASE Recover \/ UNCHANGED vars
  BY <1>1 DEF Recover, vars
<1>2. CASE \E r \in Requests : Serve(r) \/ MoveOn(r) \/ Leave(r)
  BY <1>2, RequestMoves
<1> QED
  BY <1>1, <1>2 DEF Next, Terminating

\* A thread is taken only while one is free.
LEMMA ThreadsStayBounded ==
    ASSUME TypeOK, ThreadsBounded, NEW r \in Requests, NEW to \in Stages, Moves(r, to)
    PROVE  ThreadsBounded'
<1>1. Busy' = {q \in Requests : (IF q = r THEN to ELSE stage[q]) \in Working}
  BY DEF Busy, Working, Moves, TypeOK
<1>2. Busy = {q \in Requests : stage[q] \in Working}
  BY DEF Busy, Working
<1>3. Cardinality(Busy) \in Nat /\ Threads \in Nat
  BY FS_CardinalityType, CompletionsAssumption DEF ThreadsBounded
<1>4. CASE to \in Working /\ stage[r] \in Working
  <2>1. Busy' = Busy
    BY <1>1, <1>2, <1>4
  <2> QED
    BY <2>1 DEF ThreadsBounded
<1>5. CASE to \in Working /\ stage[r] \notin Working
  <2>1. Busy' = Busy \cup {r} /\ r \notin Busy
    BY <1>1, <1>2, <1>5
  <2>2. Cardinality(Busy) < Threads
    BY <1>5 DEF Moves, Stays, Joins, Quits, Working
  <2>3. IsFiniteSet(Busy \cup {r}) /\ Cardinality(Busy \cup {r}) = Cardinality(Busy) + 1
    BY <2>1, FS_AddElement DEF ThreadsBounded
  <2> QED
    BY <1>3, <2>1, <2>2, <2>3 DEF ThreadsBounded
<1>6. CASE to \notin Working
  <2>1. Busy' \in SUBSET Busy
    BY <1>1, <1>2, <1>6
  <2>2. IsFiniteSet(Busy') /\ Cardinality(Busy') <= Cardinality(Busy)
    BY <2>1, FS_Subset DEF ThreadsBounded
  <2>3. Cardinality(Busy') \in Nat
    BY <2>2, FS_CardinalityType
  <2> QED
    BY <1>3, <2>2, <2>3 DEF ThreadsBounded
<1> QED
  BY <1>4, <1>5, <1>6

\* Whoever begins to wait is put last, and whoever stops is taken out.
LEMMA LineStaysTheWaiting ==
    ASSUME TypeOK, LineIsTheWaiting, NEW r \in Requests, NEW to \in Stages, Moves(r, to)
    PROVE  LineIsTheWaiting'
<1> DEFINE n == Len(line)
<1>1. /\ line \in Seq(Requests) /\ n \in Nat
      /\ \A i \in 1 .. n : line[i] \in Requests /\ stage[line[i]] = "waiting"
      /\ \A i, j \in 1 .. n : line[i] = line[j] => i = j
      /\ \A q \in Requests : stage[q] = "waiting" => \E i \in 1 .. n : line[i] = q
  BY LenProperties, ElementOfSeq DEF TypeOK, LineIsTheWaiting
<1>2. \A q \in Requests : stage'[q] = IF q = r THEN to ELSE stage[q]
  BY DEF Moves, TypeOK
<1> HIDE DEF n
<1>3. CASE Stays(r, to)
  BY <1>1, <1>2, <1>3 DEF Stays, LineIsTheWaiting, n
<1>4. CASE Joins(r, to)
  <2>1. /\ Len(line') = n + 1
        /\ \A i \in 1 .. n : line'[i] = line[i]
        /\ line'[n + 1] = r
    BY <1>1, <1>4, AppendProperties DEF Joins, n
  <2>2. stage[r] # "waiting" /\ to = "waiting"
    BY <1>4 DEF Joins
  <2>3. ASSUME NEW i \in 1 .. n + 1
        PROVE  /\ line'[i] \in Requests
               /\ \/ i \in 1 .. n /\ line'[i] = line[i] /\ line'[i] # r
                  \/ i = n + 1 /\ line'[i] = r
    <3>1. CASE i = n + 1
      BY <2>1, <3>1
    <3>2. CASE i \in 1 .. n
      <4>1. line[i] \in Requests /\ stage[line[i]] = "waiting" /\ line'[i] = line[i]
        BY <1>1, <2>1, <3>2
      <4> QED
        BY <2>2, <3>2, <4>1
    <3> QED
      BY <1>1, <3>1, <3>2
  <2>4. \A i \in 1 .. n + 1 : stage'[line'[i]] = "waiting"
    BY <1>1, <1>2, <2>2, <2>3
  <2>5. \A i, j \in 1 .. n + 1 : line'[i] = line'[j] => i = j
    BY <1>1, <2>3
  <2>6. ASSUME NEW q \in Requests, stage'[q] = "waiting"
        PROVE  \E i \in 1 .. n + 1 : line'[i] = q
    <3>1. CASE q = r
      BY <1>1, <2>1, <3>1
    <3>2. CASE q # r
      BY <1>1, <1>2, <2>1, <2>6, <3>2
    <3> QED
      BY <3>1, <3>2
  <2> QED
    BY <2>1, <2>4, <2>5, <2>6 DEF LineIsTheWaiting
<1>5. CASE Quits(r, to)
  <2>1. PICK k \in 1 .. n : line[k] = r /\ line' = Without(line, k)
    BY <1>5 DEF Quits, n
  <2>2. to # "waiting"
    BY <1>5 DEF Quits
  <2>3. /\ Len(line') = n - 1
        /\ \A j \in 1 .. n - 1 : line'[j] = line[IF j < k THEN j ELSE j + 1]
    <3>1. line \in Seq(Requests) /\ k \in 1 .. Len(line)
      BY <1>1 DEF n
    <3>2. /\ Len(Without(line, k)) = Len(line) - 1
          /\ \A j \in 1 .. Len(line) - 1 :
                 Without(line, k)[j] = line[IF j < k THEN j ELSE j + 1]
      BY <3>1, WithoutProperties
    <3> QED
      BY <2>1, <3>2 DEF n
  <2> DEFINE old(j) == IF j < k THEN j ELSE j + 1
  <2>4. ASSUME NEW j \in 1 .. n - 1
        PROVE  old(j) \in 1 .. n /\ old(j) # k /\ line'[j] = line[old(j)]
    BY <1>1, <2>3
  <2>5. \A j \in 1 .. n - 1 : line'[j] \in Requests /\ stage'[line'[j]] = "waiting"
    BY <1>1, <1>2, <2>1, <2>4
  <2>6. ASSUME NEW i \in 1 .. n - 1, NEW j \in 1 .. n - 1, line'[i] = line'[j]
        PROVE  i = j
    <3>1. old(i) = old(j)
      BY <1>1, <2>4, <2>6
    <3> QED
      BY <3>1
  <2>7. ASSUME NEW q \in Requests, stage'[q] = "waiting"
        PROVE  \E j \in 1 .. n - 1 : line'[j] = q
    <3>1. q # r /\ stage[q] = "waiting"
      BY <1>2, <2>2, <2>7
    <3>2. PICK i \in 1 .. n : line[i] = q
      BY <1>1, <3>1
    <3>3. i # k
      BY <2>1, <3>1, <3>2
    <3>4. CASE i < k
      <4>1. i \in 1 .. n - 1 /\ old(i) = i
        BY <1>1, <3>4
      <4> QED
        BY <2>4, <3>2, <4>1
    <3>5. CASE i > k
      <4>1. i - 1 \in 1 .. n - 1 /\ old(i - 1) = i
        BY <1>1, <3>5
      <4> QED
        BY <2>4, <3>2, <4>1
    <3> QED
      BY <3>3, <3>4, <3>5
  <2> QED
    BY <2>3, <2>5, <2>6, <2>7 DEF LineIsTheWaiting
<1> QED
  BY <1>3, <1>4, <1>5 DEF Moves

LEMMA InitQueued == Init => Queued
<1> SUFFICES ASSUME Init PROVE Queued
  OBVIOUS
<1>1. Busy = {}
  BY DEF Init, Busy
<1>2. ThreadsBounded
  BY <1>1, FS_EmptySet, CompletionsAssumption DEF ThreadsBounded
<1>3. Len(line) = 0
  BY EmptySeq DEF Init
<1>4. LineIsTheWaiting
  BY <1>3 DEF Init, LineIsTheWaiting
<1> QED
  BY <1>2, <1>4 DEF Queued

LEMMA NextQueued == TypeOK /\ Queued /\ [Next]_vars => Queued'
<1> SUFFICES ASSUME TypeOK, Queued, [Next]_vars PROVE Queued'
  OBVIOUS
<1>1. CASE line' = line /\ stage' = stage
  BY <1>1 DEF Queued, LineIsTheWaiting, ThreadsBounded, Busy
<1>2. CASE \E r \in Requests, to \in Stages : Moves(r, to)
  BY <1>2, ThreadsStayBounded, LineStaysTheWaiting DEF Queued
<1> QED
  BY <1>1, <1>2, OthersMoveNothing

\* No stream is lost or waits twice, and no more steps run than there are
\* threads, for any number of streams and of threads.
THEOREM LineInvariant == Spec => []Queued
<1>1. IInv => TypeOK
  BY DEF IInv
<1> QED
  BY <1>1, InitQueued, NextQueued, CompletionsInvariant, PTL DEF Spec

\* A stream that waits is not forgotten: the one in front can take a thread, or
\* every thread has a step to finish, and gives way then (streaming.py:104).
SomeoneCanGo ==
    \A r \in Requests :
        stage[r] = "waiting" =>
            /\ line # <<>> /\ Head(line) \in Requests /\ stage[Head(line)] = "waiting"
            /\ \/ Cardinality(Busy) < Threads
               \/ \E q \in Requests : stage[q] \in Working

\* The safety half of EveryRequestEnds, for any number of streams and threads.
THEOREM NobodyWaitsInVain == Spec => []SomeoneCanGo
<1>1. IInv /\ Queued => SomeoneCanGo
  <2> SUFFICES ASSUME IInv, Queued, NEW r \in Requests, stage[r] = "waiting"
               PROVE  /\ line # <<>> /\ Head(line) \in Requests
                      /\ stage[Head(line)] = "waiting"
                      /\ \/ Cardinality(Busy) < Threads
                         \/ \E q \in Requests : stage[q] \in Working
    BY DEF SomeoneCanGo
  <2>1. TypeOK /\ line \in Seq(Requests)
    BY DEF IInv, TypeOK
  <2>2. PICK i \in 1 .. Len(line) : line[i] = r
    BY DEF Queued, LineIsTheWaiting
  <2>3. line # <<>>
    BY <2>1, <2>2, EmptySeq
  <2>4. Head(line) = line[1] /\ 1 \in 1 .. Len(line) /\ Head(line) \in Requests
    BY <2>1, <2>3, TakenFromTheHead, HeadTailProperties
  <2>5. stage[Head(line)] = "waiting"
    BY <2>4 DEF Queued, LineIsTheWaiting
  <2>6. ASSUME Busy = {} PROVE Cardinality(Busy) < Threads
    BY <2>6, FS_EmptySet, CompletionsAssumption
  <2>7. ASSUME Busy # {} PROVE \E q \in Requests : stage[q] \in Working
    BY <2>7 DEF Busy, Working
  <2> QED
    BY <2>3, <2>4, <2>5, <2>6, <2>7
<1> QED
  BY <1>1, LineInvariant, CompletionsInvariant, PTL

Before(r, q) == \E i, j \in 1 .. Len(line) : i < j /\ line[i] = r /\ line[j] = q

\* Streams are served in the order in which they asked for a thread.
NobodyOvertakes ==
    [][\A r, q \in Requests :
          Before(r, q) /\ stage'[r] = "waiting" /\ stage'[q] = "waiting" => Before(r, q)']_vars

LEMMA OrderIsKept ==
    ASSUME TypeOK, [Next]_vars, NEW r \in Requests, NEW q \in Requests,
           Before(r, q), stage'[r] = "waiting", stage'[q] = "waiting"
    PROVE  Before(r, q)'
<1> DEFINE n == Len(line)
<1>0. line \in Seq(Requests) /\ n \in Nat
  BY LenProperties DEF TypeOK
<1>1. PICK i \in 1 .. n, j \in 1 .. n : i < j /\ line[i] = r /\ line[j] = q
  BY DEF Before
<1>2. CASE line' = line
  BY <1>2 DEF Before
<1>3. ASSUME NEW x \in Requests, NEW to \in Stages, Moves(x, to), Joins(x, to)
      PROVE  Before(r, q)'
  <2>1. Len(line') = n + 1 /\ \A k \in 1 .. n : line'[k] = line[k]
    BY <1>0, <1>3, AppendProperties DEF Joins
  <2> HIDE DEF n
  <2>2. i \in 1 .. n + 1 /\ j \in 1 .. n + 1
    BY <1>0
  <2> QED
    BY <1>1, <2>1, <2>2 DEF Before
<1>4. ASSUME NEW x \in Requests, NEW to \in Stages, Moves(x, to), Quits(x, to)
      PROVE  Before(r, q)'
  <2>1. PICK k \in 1 .. n : line[k] = x /\ line' = Without(line, k)
    BY <1>4 DEF Quits
  <2>2. stage'[x] # "waiting"
    BY <1>4 DEF Moves, Quits, TypeOK
  <2>3. i # k /\ j # k
    BY <1>1, <2>1, <2>2
  <2>4. /\ Len(line') = n - 1
        /\ \A p \in 1 .. n - 1 : line'[p] = line[IF p < k THEN p ELSE p + 1]
    BY <1>0, <2>1, WithoutProperties
  <2> HIDE DEF n
  <2> DEFINE now(p) == IF p < k THEN p ELSE p - 1
  <2>5. ASSUME NEW p \in 1 .. n, p # k
        PROVE  now(p) \in 1 .. n - 1 /\ line'[now(p)] = line[p]
    <3>1. now(p) \in 1 .. n - 1
      BY <1>0, <2>5
    <3>2. (IF now(p) < k THEN now(p) ELSE now(p) + 1) = p
      BY <1>0, <2>5
    <3> QED
      BY <2>4, <3>1, <3>2
  <2>6. now(i) < now(j)
    BY <1>0, <1>1, <2>3
  <2>7. /\ now(i) \in 1 .. n - 1 /\ line'[now(i)] = r
        /\ now(j) \in 1 .. n - 1 /\ line'[now(j)] = q
    BY <1>1, <2>3, <2>5
  <2> HIDE DEF now
  <2> QED
    BY <2>4, <2>6, <2>7 DEF Before
<1> QED
  BY <1>2, <1>3, <1>4, OthersMoveNothing DEF Moves, Stays

\* The order holds whatever the threads do, and whoever leaves in between.
THEOREM LineIsFair == Spec => NobodyOvertakes
<1>1. IInv /\ [Next]_vars =>
        \A r, q \in Requests :
          Before(r, q) /\ stage'[r] = "waiting" /\ stage'[q] = "waiting" => Before(r, q)'
  BY OrderIsKept DEF IInv
<1> QED
  BY <1>1, CompletionsInvariant, PTL DEF Spec, NobodyOvertakes

-----------------------------------------------------------------------------
(* The promise *)

\* Until it is over, a request has had pieces of the model it stands at, or
\* none at all.
OneVoice ==
    \A r \in Requests :
        stage[r] # "over" =>
            IF steps[r] = 0 THEN answer[r] = NoRoute
                            ELSE answer[r] = Current(r) /\ pos[r] # Unasked

LEMMA OthersAreTheSame ==
    ASSUME TypeOK, NEW r \in Requests, Serve(r) \/ MoveOn(r) \/ Leave(r),
           NEW q \in Requests, q # r
    PROVE  Same(q) /\ steps'[q] = steps[q]
<1> USE DEF TypeOK, Same, Goes, Responds, Sends, calls, told, truth
<1>1. CASE Refuse(r) \/ Answer(r) \/ FailCall(r) \/ BlockAtOpen(r)
  BY <1>1 DEF Refuse, Answer, FailCall, BlockAtOpen
<1>2. CASE NoClient(r) \/ NoPrice(r)
  BY <1>2 DEF NoClient, NoPrice, Unserved
<1>3. CASE Call(r) \/ NextStep(r)
  BY <1>3 DEF Call, NextStep, Begin
<1>4. CASE Open(r) \/ Finish(r) \/ Break(r) \/ Abandon(r)
  BY <1>4 DEF Open, Finish, Break, Abandon
<1>5. CASE SendChunk(r) \/ SkipEmpty(r)
  BY <1>5 DEF SendChunk, SkipEmpty, Piece
<1>6. CASE MoveOn(r)
  BY <1>6 DEF MoveOn
<1>7. CASE Leave(r)
  BY <1>7 DEF Leave
<1> QED
  BY <1>1, <1>2, <1>3, <1>4, <1>5, <1>6, <1>7, Zenon DEF Serve

LEMMA InitOneVoice == Init => OneVoice
  BY DEF Init, OneVoice

\* A chain moves on only while nothing has come of the model it leaves.
LEMMA NextOneVoice == IInv /\ OneVoice /\ [Next]_vars => OneVoice'
<1> SUFFICES ASSUME IInv, OneVoice, [Next]_vars PROVE OneVoice'
  OBVIOUS
<1> DEFINE Voice(q) == stage[q] # "over" =>
                          IF steps[q] = 0 THEN answer[q] = NoRoute
                                          ELSE answer[q] = Current(q) /\ pos[q] # Unasked
<1>1. ASSUME NEW q \in Requests, Same(q), steps'[q] = steps[q] PROVE Voice(q)'
  BY <1>1 DEF OneVoice, Same, Current
<1>2. ASSUME NEW r \in Requests, Serve(r) \/ MoveOn(r) \/ Leave(r) PROVE Voice(r)'
  <2> USE DEF IInv, TypeOK, Goes
  <2>1. Voice(r) /\ Sound(r)
    BY DEF OneVoice
  <2>2. CASE Refuse(r) \/ NoClient(r) \/ Answer(r) \/ NoPrice(r) \/ FailCall(r)
             \/ BlockAtOpen(r) \/ Finish(r) \/ Break(r)
    BY <2>2 DEF Refuse, NoClient, Unserved, Answer, NoPrice, FailCall, BlockAtOpen, Finish, Break
  <2>3. CASE Call(r) \/ NextStep(r)
    <3>1. /\ stage[r] # "over" /\ steps' = steps /\ answer' = answer /\ ask' = ask
          /\ pos[r] = Unasked \/ pos' = pos
      BY <2>1, <2>3 DEF Call, NextStep, Sound, told, truth
    <3> QED
      BY <2>1, <3>1 DEF Current
  <2>4. CASE Open(r) \/ Abandon(r) \/ Leave(r)
    BY <2>1, <2>4 DEF Open, Abandon, Leave, Current, calls, told, truth
  <2>5. CASE SendChunk(r) \/ SkipEmpty(r)
    <3>1. /\ steps'[r] # 0 /\ answer'[r] = Current(r)
          /\ ask' = ask /\ pos' = pos /\ pos[r] # Unasked
      BY <2>1, <2>5 DEF SendChunk, SkipEmpty, Piece, Sound, calls
    <3> QED
      BY <3>1 DEF Current
  <2>6. CASE MoveOn(r)
    BY <2>1, <2>6 DEF MoveOn, told, truth
  <2> QED
    BY <1>2, <2>2, <2>3, <2>4, <2>5, <2>6, Zenon DEF Serve
<1>3. CASE \E r \in Requests : Serve(r) \/ MoveOn(r) \/ Leave(r)
  <2>1. PICK r \in Requests : Serve(r) \/ MoveOn(r) \/ Leave(r)
    BY <1>3
  <2>2. ASSUME NEW q \in Requests PROVE Voice(q)'
    BY <1>1, <1>2, <2>1, OthersAreTheSame DEF IInv
  <2> QED
    BY <2>2 DEF OneVoice
<1>4. CASE Recover \/ UNCHANGED vars
  BY <1>4 DEF Recover, vars, OneVoice, Current, calls, told, truth
<1> QED
  BY <1>3, <1>4 DEF Next, Terminating

\* What the caller of each request can tell, by its stage.
View(r) ==
    /\ stage[r] # "over" =>
          /\ heard[r] = Len(out[r])
          /\ closing[r] = IF stage[r] \in {"leaving", "left"} THEN Promise!Gone ELSE Promise!Open
    /\ stage[r] = "over" =>
          /\ heard[r] = IF reply[r] = NoReply THEN Len(out[r]) - 1 ELSE 0
          /\ closing[r] =
                IF (IF reply[r] = NoReply THEN failure[r] = None ELSE reply[r].status = 200)
                THEN EndsAs("answered", answer[r], heard[r])
                ELSE EndsAs("failed", NoRoute, heard[r])

Viewed == \A r \in Requests : View(r)

LEMMA Views == IInv => Viewed
<1> SUFFICES ASSUME IInv, NEW r \in Requests PROVE View(r)
  BY DEF Viewed
<1>1. Sound(r) /\ out[r] \in Seq(Events) /\ Len(out[r]) \in Nat /\ reply[r] \in Replies
  BY DEF IInv, TypeOK
<1>2. /\ ChunkEvent.event = "chunk"
      /\ \A n, f : ErrorEvent(n, f).event \notin {"chunk", "done"} /\ ErrorEvent(n, f).count = n
      /\ \A n, route : /\ DoneEvent(n, route).event = "done" /\ DoneEvent(n, route).count = n
                       /\ DoneEvent(n, route).route = route
  BY DEF ChunkEvent, ErrorEvent, DoneEvent
<1>3. NoReply.status = 0
  BY DEF NoReply
<1>4. /\ Promise!Open = EndsAs("open", NoRoute, 0)
      /\ Promise!Gone = EndsAs("gone", NoRoute, 0)
  BY DEF Promise!Open, Promise!Gone, EndsAs
<1>5. CASE stage[r] # "over"
  <2>1. AllChunks(r) /\ reply[r] = NoReply
    BY <1>1, <1>5 DEF Sound
  <2>2. ~Closed(r)
    <3>1. out[r] # <<>> => Len(out[r]) \in 1 .. Len(out[r])
      BY <1>1, EmptySeq
    <3> QED
      BY <1>2, <2>1, <3>1 DEF Closed, Last, AllChunks
  <2> QED
    BY <1>3, <1>4, <1>5, <2>1, <2>2 DEF View, heard, closing
<1>6. CASE stage[r] = "over" /\ reply[r] # NoReply
  <2>1. out[r] = <<>> /\ ~Closed(r)
    BY <1>1, <1>6 DEF Sound, Closed
  <2>2. heard[r] = 0
    BY <2>1, EmptySeq DEF heard
  <2>3. reply[r].status = 200 => Meant(reply[r].route) = answer[r]
    BY <1>1 DEF Sound, Truthful
  <2> QED
    BY <1>6, <2>1, <2>2, <2>3 DEF View, closing
<1>7. CASE stage[r] = "over" /\ reply[r] = NoReply
  <2> DEFINE n == Len(out[r])
  <2>1. Told(r)
    BY <1>1, <1>7 DEF Sound
  <2>2. out[r] # <<>>
    BY <2>1, EmptySeq DEF Told
  <2>3. CASE failure[r] = None
    <3>1. /\ Last(r) = DoneEvent(n - 1, ServedRoute(ask[r], answer[r]))
          /\ Meant(Last(r).route) = answer[r]
      BY <2>1, <2>3 DEF Told, Truthful, Last
    <3>2. Last(r).event = "done" /\ Last(r).count = n - 1 /\ Closed(r)
      BY <1>2, <2>2, <3>1 DEF Closed
    <3> QED
      BY <1>7, <2>3, <3>1, <3>2 DEF View, heard, closing
  <2>4. CASE failure[r] # None
    <3>1. Last(r) = ErrorEvent(n - 1, failure[r])
      BY <2>1, <2>4 DEF Told, Last
    <3>2. Last(r).event # "done" /\ Last(r).count = n - 1 /\ Closed(r)
      BY <1>2, <2>2, <3>1 DEF Closed
    <3> QED
      BY <1>7, <2>4, <3>2 DEF View, heard, closing
  <2> QED
    BY <2>3, <2>4
<1> QED
  BY <1>5, <1>6, <1>7

LEMMA ViewsNext == IInv' => Viewed'
  BY Views, PTL

promised == <<answer, heard, closing>>

\* A step of one request moves no other's view.
LEMMA OthersViewsStay ==
    ASSUME IInv, IInv', NEW r \in Requests, Serve(r) \/ MoveOn(r) \/ Leave(r)
    PROVE  /\ answer' = [answer EXCEPT ![r] = answer'[r]]
           /\ heard' = [heard EXCEPT ![r] = heard'[r]]
           /\ closing' = [closing EXCEPT ![r] = closing'[r]]
<1>1. ASSUME NEW q \in Requests, q # r
      PROVE  answer'[q] = answer[q] /\ heard'[q] = heard[q] /\ closing'[q] = closing[q]
  <2>1. Same(q)
    BY <1>1, OthersAreTheSame DEF IInv
  <2> QED
    BY <2>1 DEF Same, heard, closing, Closed, Last
<1>2. answer = [q \in Requests |-> answer[q]] /\ answer' = [q \in Requests |-> answer'[q]]
  BY DEF IInv, TypeOK
<1>3. heard = [q \in Requests |-> heard[q]] /\ heard' = [q \in Requests |-> heard'[q]]
  BY DEF heard
<1>4. closing = [q \in Requests |-> closing[q]] /\ closing' = [q \in Requests |-> closing'[q]]
  BY DEF closing
<1> QED
  BY <1>1, <1>2, <1>3, <1>4

LEMMA InitPromise == Init => Promise!Init
<1> SUFFICES ASSUME Init PROVE Promise!Init
  OBVIOUS
<1>1. \A r \in Requests : View(r)
  BY InitIInv, Views DEF Viewed
<1>2. \A r \in Requests : heard[r] = 0 /\ closing[r] = Promise!Open
  BY <1>1, EmptySeq DEF Init, View
<1>3. heard = [r \in Requests |-> heard[r]] /\ closing = [r \in Requests |-> closing[r]]
  BY DEF heard, closing
<1> QED
  BY <1>2, <1>3 DEF Init, Promise!Init

\* Every step of a request is one of the promise, or none.
LEMMA RequestKeepsPromise ==
    ASSUME IInv, IInv', OneVoice, NEW r \in Requests, Serve(r) \/ MoveOn(r) \/ Leave(r)
    PROVE  [Promise!Next]_promised
<1>1. View(r) /\ View(r)' /\ Sound(r)
  BY Views, ViewsNext DEF IInv, Viewed
<1>2. /\ answer' = [answer EXCEPT ![r] = answer'[r]]
      /\ heard' = [heard EXCEPT ![r] = heard'[r]]
      /\ closing' = [closing EXCEPT ![r] = closing'[r]]
  BY OthersViewsStay
<1>3. /\ answer = [answer EXCEPT ![r] = answer[r]]
      /\ heard = [heard EXCEPT ![r] = heard[r]]
      /\ closing = [closing EXCEPT ![r] = closing[r]]
  <2>1. answer = [answer EXCEPT ![r] = answer[r]]
    BY DEF IInv, TypeOK
  <2>2. heard = [heard EXCEPT ![r] = heard[r]]
    BY DEF heard
  <2>3. closing = [closing EXCEPT ![r] = closing[r]]
    BY DEF closing
  <2> QED
    BY <2>1, <2>2, <2>3
<1> DEFINE Quiet == /\ answer'[r] = answer[r] /\ heard'[r] = heard[r]
                    /\ closing'[r] = closing[r]
<1>4. Quiet => promised' = promised
  BY <1>2, <1>3 DEF promised
<1> USE DEF IInv, TypeOK, Goes, Responds, Sends
\* Nothing is sent.
<1>5. CASE Call(r) \/ Open(r) \/ NextStep(r) \/ MoveOn(r) \/ Abandon(r)
  <2>1. /\ answer' = answer /\ out' = out
        /\ stage[r] # "over" /\ stage'[r] # "over"
        /\ stage[r] \in {"leaving", "left"} <=> stage'[r] \in {"leaving", "left"}
    BY <1>5 DEF Call, Open, NextStep, MoveOn, Abandon, Leave, told, truth
  <2> QED
    BY <1>1, <1>4, <2>1 DEF View
\* The client goes.
<1>6. CASE Leave(r)
  <2>1. /\ answer' = answer /\ out' = out
        /\ stage[r] \in {"waiting", "running"} /\ stage'[r] \in {"leaving", "left"}
    BY <1>6 DEF Leave, told, truth
  <2>2. heard'[r] = heard[r] /\ closing[r] = Promise!Open /\ closing'[r] = Promise!Gone
    BY <1>1, <2>1 DEF View
  <2>3. Promise!Leave(r)
    BY <1>2, <1>3, <2>1, <2>2 DEF Promise!Leave
  <2> QED
    BY <2>3 DEF Promise!Next
\* A piece comes, and is sent on or not.
<1>7. CASE SendChunk(r) \/ SkipEmpty(r)
  <2>1. /\ stage[r] = "running" /\ stage'[r] = "waiting" /\ answer'[r] = Current(r)
        /\ out'[r] = out[r] \/ out'[r] = Append(out[r], ChunkEvent)
    BY <1>7 DEF SendChunk, SkipEmpty, Piece, told
  <2>2. Current(r) \in Models /\ answer[r] \in {NoRoute, Current(r)}
    BY <2>1, CurrentInChain DEF OneVoice
  <2>3. heard'[r] = heard[r] \/ heard'[r] = heard[r] + 1
    BY <1>1, <2>1, AppendProperties, EventFacts DEF View
  <2>4. closing[r] = Promise!Open /\ closing'[r] = closing[r]
    BY <1>1, <2>1 DEF View
  <2>5. Promise!Speak(r, Current(r))
    BY <1>2, <1>3, <2>1, <2>2, <2>3, <2>4 DEF Promise!Speak, Promise!SpeaksAs
  <2> QED
    BY <2>2, <2>5 DEF Promise!Next
\* The model that spoke, if one did, is the one that answers.
<1>8. CASE Answer(r) \/ Finish(r)
  <2>1. PICK m \in Models : /\ stage[r] \in {"calling", "running"} /\ stage'[r] = "over"
                            /\ answer'[r] = m /\ answer[r] \in {NoRoute, m}
    <3>1. CASE Answer(r)
      <4>0. PICK hit \in BOOLEAN : \E m \in Sources(r, hit) :
               answer' = [answer EXCEPT ![r] = m]
        BY <3>1 DEF Answer
      <4>1. PICK m \in Sources(r, hit) : answer' = [answer EXCEPT ![r] = m]
        BY <4>0
      <4>2. m \in Models /\ answer[r] = NoRoute /\ answer'[r] = m
        BY <1>1, <3>1, <4>1, SourcesInChain DEF Answer, Sound
      <4> QED
        BY <3>1, <4>2 DEF Answer
    <3>2. CASE Finish(r)
      BY <3>2, CurrentInChain DEF Finish, OneVoice
    <3> QED
      BY <1>8, <3>1, <3>2
  <2>2. /\ closing[r] = Promise!Open /\ heard'[r] = heard[r]
        /\ closing'[r] = EndsAs("answered", m, heard[r])
    <3>1. CASE Answer(r)
      <4>0. PICK hit \in BOOLEAN : \E n \in Sources(r, hit) :
               \E response \in Answered(ask[r], n, hit) : Responds(r, response)
        BY <3>1 DEF Answer
      <4>a. PICK n \in Sources(r, hit) :
               \E response \in Answered(ask[r], n, hit) : Responds(r, response)
        BY <4>0
      <4>1. PICK response \in Answered(ask[r], n, hit) : Responds(r, response)
        BY <4>a
      <4>2. PICK i \in Places(ask[r]) : ask[r] \in Asks /\ n = At(ask[r], i)
        BY <3>1, SourcesInChain DEF Answer
      <4>3. response.status = 200 /\ response # NoReply
        BY <4>1, <4>2, AnsweredFacts
      <4>4. reply'[r].status = 200 /\ reply'[r] # NoReply /\ out'[r] = out[r]
        BY <4>1, <4>3
      <4>5. out[r] = <<>> /\ Len(out[r]) = 0
        BY <1>1, <3>1, EmptySeq DEF Answer, Sound
      <4>6. heard[r] = 0 /\ heard'[r] = 0 /\ closing[r] = Promise!Open
        BY <1>1, <2>1, <4>4, <4>5 DEF View
      <4>7. closing'[r] = EndsAs("answered", answer'[r], heard'[r])
        BY <1>1, <2>1, <4>4 DEF View
      <4> QED
        BY <2>1, <4>6, <4>7
    <3>2. CASE Finish(r)
      <4>1. /\ reply' = reply /\ reply[r] = NoReply /\ failure' = failure /\ failure[r] = None
            /\ Len(out'[r]) = Len(out[r]) + 1 /\ Len(out[r]) \in Nat
        <5>1. /\ reply' = reply /\ reply[r] = NoReply /\ failure' = failure /\ failure[r] = None
          BY <1>1, <3>2 DEF Finish, Sound
        <5>2. \E e : out'[r] = Append(out[r], e)
          BY <3>2 DEF Finish
        <5>3. Len(out[r]) \in Nat /\ \A e : Len(Append(out[r], e)) = Len(out[r]) + 1
          OBVIOUS
        <5> QED
          BY <5>1, <5>2, <5>3
      <4> QED
        BY <1>1, <2>1, <4>1 DEF View
    <3> QED
      BY <1>8, <3>1, <3>2
  <2>3. Promise!Answer(r, m)
    BY <1>2, <1>3, <2>1, <2>2 DEF Promise!Answer, Promise!SpeaksAs, EndsAs
  <2> QED
    BY <2>1, <2>3 DEF Promise!Next
\* A response in place of an answer, given or lost.
<1>9. CASE Refuse(r) \/ NoClient(r) \/ NoPrice(r) \/ FailCall(r) \/ BlockAtOpen(r)
  <2>1. /\ stage[r] \in {"new", "calling"} /\ stage'[r] = "over" /\ out' = out
        /\ \/ answer'[r] = answer[r]
           \/ answer'[r] \in Models /\ answer[r] = NoRoute
    <3>1. CASE NoPrice(r)
      <4>0. PICK hit \in BOOLEAN : \E m \in Sources(r, hit) :
               answer' = [answer EXCEPT ![r] = m]
        BY <3>1 DEF NoPrice
      <4>1. PICK m \in Sources(r, hit) : answer' = [answer EXCEPT ![r] = m]
        BY <4>0
      <4>2. /\ stage[r] = "calling" /\ stage'[r] = "over" /\ out' = out
        BY <3>1 DEF NoPrice, Unserved
      <4>3. m \in Models /\ answer'[r] = m /\ answer[r] = NoRoute
        BY <1>1, <4>1, <4>2, SourcesInChain DEF Sound
      <4> QED
        BY <4>2, <4>3
    <3>2. CASE NoClient(r)
      BY <3>2 DEF NoClient, Unserved
    <3>3. CASE Refuse(r) \/ FailCall(r) \/ BlockAtOpen(r)
      BY <3>3 DEF Refuse, FailCall, BlockAtOpen, truth
    <3> QED
      BY <1>9, <3>1, <3>2, <3>3
  <2>2. reply'[r].status # 200 /\ reply'[r] # NoReply
    <3>1. \E status \in {400, 422, 502, 503, 504} : reply'[r] = Refusal(status)
      BY <1>9, StatusOfFacts
         DEF Refuse, NoClient, NoPrice, Unserved, Unbuilt, FailCall, BlockAtOpen, Failures
    <3> QED
      BY <3>1, RefusalFacts
  <2>3. /\ closing[r] = Promise!Open /\ heard'[r] = heard[r]
        /\ closing'[r] = EndsAs("failed", NoRoute, heard[r])
    <3>1. Len(out[r]) = 0
      BY <1>1, <2>1, EmptySeq DEF Sound
    <3>2. heard[r] = 0 /\ closing[r] = Promise!Open
      BY <1>1, <2>1, <3>1 DEF View
    <3>3. heard'[r] = 0 /\ closing'[r] = EndsAs("failed", NoRoute, heard'[r])
      BY <1>1, <2>1, <2>2 DEF View
    <3> QED
      BY <3>2, <3>3
  <2>4. Promise!Fail(r)
    BY <1>2, <1>3, <2>1, <2>3 DEF Promise!Fail, Promise!SpeaksAs, EndsAs
  <2> QED
    BY <2>4 DEF Promise!Next
\* A stream breaks.
<1>10. CASE Break(r)
  <2>1. /\ stage[r] = "running" /\ stage'[r] = "over" /\ answer' = answer /\ reply' = reply
        /\ reply[r] = NoReply
    BY <1>1, <1>10 DEF Break, Sound
  <2>2. \E f \in Failures : failure'[r] = f /\ out'[r] = Append(out[r], ErrorEvent(count[r], f))
    BY <1>10 DEF Break
  <2>3. failure'[r] # None
    BY <2>2 DEF Failures, None
  <2>4. Len(out'[r]) = Len(out[r]) + 1 /\ Len(out[r]) \in Nat
    BY <2>2
  <2>5. /\ closing[r] = Promise!Open /\ heard'[r] = heard[r]
        /\ closing'[r] = EndsAs("failed", NoRoute, heard[r])
    BY <1>1, <2>1, <2>3, <2>4 DEF View
  <2>6. Promise!Fail(r)
    BY <1>2, <1>3, <2>1, <2>5 DEF Promise!Fail, EndsAs
  <2> QED
    BY <2>6 DEF Promise!Next
<1> QED
  BY <1>5, <1>6, <1>7, <1>8, <1>9, <1>10, Zenon DEF Serve

LEMMA StepKeepsPromise ==
    IInv /\ IInv' /\ OneVoice /\ [Next]_vars => [Promise!Next]_promised
<1> SUFFICES ASSUME IInv, IInv', OneVoice, [Next]_vars PROVE [Promise!Next]_promised
  OBVIOUS
<1>1. CASE Recover \/ UNCHANGED vars
  BY <1>1 DEF Recover, vars, promised, heard, closing, Closed, Last, told, truth
<1>2. CASE \E r \in Requests : Serve(r) \/ MoveOn(r) \/ Leave(r)
  BY <1>2, RequestKeepsPromise
<1> QED
  BY <1>1, <1>2 DEF Next, Terminating

\* The generation routes keep the promise for any chain, number of requests
\* and threads: what a caller is sent comes of one model, which the closing
\* names, and nothing follows it.
THEOREM CallersAreAnsweredOnce == Spec => AnswersKept
<1> QED
  BY InitPromise, InitOneVoice, NextOneVoice, NextIInv, StepKeepsPromise,
     CompletionsInvariant, PTL DEF Spec, AnswersKept, Promise!Spec, promised

-----------------------------------------------------------------------------
(* How far each request is from its end *)

ModelsLeft(r) == Len(Chain) - pos[r]

PiecesLeft(r) == MaxSteps - steps[r]

\* The steps it still has at most: two for every piece, and one for every model
\* of the chain.
Remains(r) ==
    IF stage[r] = "new"          THEN ModelsLeft(r) + 2 * PiecesLeft(r) + 4
    ELSE IF stage[r] = "waiting" THEN ModelsLeft(r) + 2 * PiecesLeft(r) + 3
    ELSE IF stage[r] = "running" THEN ModelsLeft(r) + 2 * PiecesLeft(r) + 2
    ELSE IF stage[r] = "calling" THEN ModelsLeft(r) + 1
    ELSE IF stage[r] = "leaving" THEN 1
    ELSE 0

RemainsCounted == \A r \in Requests : /\ Remains(r) \in Nat
                                      /\ Remains(r) = 0 <=> Ended(r)

\* No step, of the request or of another, of a chain that moves on or of a
\* client that leaves, takes a request back: its own bring it nearer its end.
StepsRunOut ==
    [][\A r \in Requests :
          /\ Remains(r)' <= Remains(r)
          /\ Serve(r) \/ MoveOn(r) \/ Leave(r) => Remains(r)' < Remains(r)]_vars

LEMMA LeftType ==
    ASSUME TypeOK, NEW r \in Requests
    PROVE  ModelsLeft(r) \in Nat /\ PiecesLeft(r) \in Nat
<1>1. Len(Chain) \in Nat
  BY CompletionsAssumption, LenProperties
<1>2. /\ pos[r] \in {Unasked} \cup 0 .. Len(Chain)
      /\ steps[r] \in 0 .. MaxSteps /\ MaxSteps \in Nat
  BY CompletionsAssumption DEF TypeOK
<1> QED
  BY <1>1, <1>2 DEF ModelsLeft, PiecesLeft, Unasked

LEMMA RemainsType == TypeOK => RemainsCounted
<1> SUFFICES ASSUME TypeOK, NEW r \in Requests
             PROVE  Remains(r) \in Nat /\ (Remains(r) = 0 <=> Ended(r))
  BY DEF RemainsCounted
<1>1. ModelsLeft(r) \in Nat /\ PiecesLeft(r) \in Nat /\ stage[r] \in Stages
  BY LeftType DEF TypeOK
<1>2. Ended(r) => Remains(r) = 0
  BY DEF Remains, Ended
<1>3. ~Ended(r) => Remains(r) \in Nat \ {0}
  BY <1>1 DEF Remains, Ended, Stages
<1> QED
  BY <1>2, <1>3

LEMMA RemainsTypeNext == TypeOK' => RemainsCounted'
  BY RemainsType, PTL

\* What a step does to the stage, to the models and to the pieces.
LEMMA OwnStepRunsOut ==
    ASSUME IInv, IInv', NEW r \in Requests, Serve(r) \/ MoveOn(r) \/ Leave(r)
    PROVE  Remains(r)' < Remains(r)
<1> DEFINE models == ModelsLeft(r)
           pieces == PiecesLeft(r)
<1>1. /\ models \in Nat /\ pieces \in Nat /\ models' \in Nat /\ pieces' \in Nat
      /\ stage \in [Requests -> Stages] /\ stage' \in [Requests -> Stages]
  <2>1. models \in Nat /\ pieces \in Nat
    BY LeftType DEF IInv
  <2>2. Len(Chain) \in Nat
    BY CompletionsAssumption, LenProperties
  <2>3. /\ pos'[r] \in {Unasked} \cup 0 .. Len(Chain)
        /\ steps'[r] \in 0 .. MaxSteps /\ MaxSteps \in Nat
    BY CompletionsAssumption DEF IInv, TypeOK
  <2>4. models' \in Nat /\ pieces' \in Nat
    BY <2>2, <2>3 DEF ModelsLeft, PiecesLeft, Unasked
  <2> QED
    BY <2>1, <2>4 DEF IInv, TypeOK
<1>2. /\ pos' = pos => models' = models
      /\ steps' = steps => pieces' = pieces
  BY DEF ModelsLeft, PiecesLeft
<1> DEFINE n == Len(Chain)
<1>3. /\ n \in Nat
      /\ pos[r] \in {Unasked} \cup 0 .. n /\ pos'[r] \in {Unasked} \cup 0 .. n
      /\ models = n - pos[r] /\ models' = n - pos'[r]
  BY CompletionsAssumption, LenProperties DEF ModelsLeft, IInv, TypeOK
<1> HIDE DEF n, models
<1>4. pos'[r] > pos[r] => models' < models
  BY <1>3 DEF Unasked
<1>5. steps'[r] = steps[r] + 1 => pieces' = pieces - 1
  BY CompletionsAssumption DEF PiecesLeft, IInv, TypeOK
<1>6. pos[r] = Unasked => models' <= models
  BY <1>3 DEF Unasked
<1>7. stage[r] = "new" => pos[r] = Unasked
  BY DEF IInv, Sound
<1> HIDE DEF pieces
<1> USE DEF Goes
<1>8. CASE Refuse(r) \/ NoClient(r) \/ Answer(r) \/ NoPrice(r) \/ FailCall(r) \/ BlockAtOpen(r)
           \/ Finish(r) \/ Break(r)
  <2>1. stage'[r] = "over" /\ stage[r] \in {"new", "calling", "running"}
    BY <1>1, <1>8 DEF Refuse, NoClient, Unserved, Answer, NoPrice, FailCall, BlockAtOpen,
                      Finish, Break
  <2> QED
    BY <1>1, <2>1 DEF Remains, models, pieces
<1>9. CASE Call(r)
  <2>1. stage[r] = "new" /\ stage'[r] = "calling"
    BY <1>1, <1>9 DEF Call
  <2> QED
    BY <1>1, <1>6, <1>7, <2>1 DEF Remains, models, pieces
<1>10. CASE Open(r)
  <2>1. stage[r] = "new" /\ stage'[r] = "waiting" /\ pos' = pos /\ steps' = steps
    BY <1>1, <1>10 DEF Open, calls
  <2> QED
    BY <1>1, <1>2, <2>1 DEF Remains, models, pieces
<1>11. CASE NextStep(r)
  <2>1. /\ stage[r] = "waiting" /\ stage'[r] = "running" /\ steps' = steps
        /\ pos[r] = Unasked \/ pos' = pos
    BY <1>1, <1>11 DEF NextStep
  <2> QED
    BY <1>1, <1>2, <1>6, <2>1 DEF Remains, models, pieces
<1>12. CASE SendChunk(r) \/ SkipEmpty(r)
  <2>1. /\ stage[r] = "running" /\ stage'[r] = "waiting" /\ pos' = pos
        /\ steps'[r] = steps[r] + 1
    BY <1>1, <1>12 DEF SendChunk, SkipEmpty, Piece, calls, IInv, TypeOK
  <2> QED
    BY <1>1, <1>2, <1>5, <2>1 DEF Remains, models, pieces
<1>13. CASE MoveOn(r)
  <2>1. /\ stage[r] \in {"calling", "running"} /\ stage' = stage /\ steps' = steps
        /\ pos'[r] > pos[r]
    BY <1>13 DEF MoveOn, IInv, TypeOK
  <2> QED
    BY <1>1, <1>2, <1>4, <2>1 DEF Remains, models, pieces
<1>14. CASE Leave(r)
  <2>1. \/ stage[r] = "waiting" /\ stage'[r] = "left"
        \/ stage[r] = "running" /\ stage'[r] = "leaving"
    BY <1>1, <1>14 DEF Leave
  <2> QED
    BY <1>1, <2>1 DEF Remains, models, pieces
<1>15. CASE Abandon(r)
  <2>1. stage[r] = "leaving" /\ stage'[r] = "left"
    BY <1>1, <1>15 DEF Abandon
  <2> QED
    BY <2>1 DEF Remains
<1> QED
  BY <1>8, <1>9, <1>10, <1>11, <1>12, <1>13, <1>14, <1>15, Zenon DEF Serve

LEMMA StepRunsOut ==
    ASSUME IInv, IInv', [Next]_vars, NEW r \in Requests
    PROVE  /\ Remains(r)' <= Remains(r)
           /\ Serve(r) \/ MoveOn(r) \/ Leave(r) => Remains(r)' < Remains(r)
<1>1. Remains(r) \in Nat /\ Remains(r)' \in Nat
  BY RemainsType, RemainsTypeNext DEF IInv, RemainsCounted
<1>2. Serve(r) \/ MoveOn(r) \/ Leave(r) => Remains(r)' < Remains(r)
  BY OwnStepRunsOut
<1>3. ASSUME stage'[r] = stage[r], pos'[r] = pos[r], steps'[r] = steps[r]
      PROVE  Remains(r)' = Remains(r)
  BY <1>3 DEF Remains, ModelsLeft, PiecesLeft
<1>4. CASE \E q \in Requests : q # r /\ (Serve(q) \/ MoveOn(q) \/ Leave(q))
  <2>1. Same(r) /\ steps'[r] = steps[r]
    BY <1>4, OthersAreTheSame DEF IInv
  <2> QED
    BY <1>1, <1>2, <1>3, <2>1 DEF Same
<1>5. CASE Recover \/ UNCHANGED vars
  BY <1>1, <1>2, <1>3, <1>5 DEF Recover, vars, calls
<1> QED
  BY <1>1, <1>2, <1>4, <1>5 DEF Next, Terminating

\* The other half of EveryRequestEnds that needs no fairness, for any number of
\* requests, threads, models and pieces: each request has so many steps before
\* it, none puts it off, and it has none left just when it has ended.
THEOREM RequestsRunOut == Spec => []RemainsCounted /\ StepsRunOut
<1>1. IInv => RemainsCounted
  BY RemainsType DEF IInv
<1>2. IInv /\ IInv' /\ [Next]_vars =>
        \A r \in Requests :
          /\ Remains(r)' <= Remains(r)
          /\ Serve(r) \/ MoveOn(r) \/ Leave(r) => Remains(r)' < Remains(r)
  BY StepRunsOut
<1> QED
  BY <1>1, <1>2, CompletionsInvariant, PTL DEF Spec, StepsRunOut
=============================================================================
