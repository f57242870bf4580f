--------------------------- MODULE ServiceProofs ---------------------------
(***************************************************************************)
(* Service for any number of requests at a time, any of the environments   *)
(* and any number of calls.  What is known of a request follows the layers *)
(* it has passed: one past the authentication is entitled to its route and *)
(* named as whom it bills, one past the limiter is counted.                *)
(***************************************************************************)
EXTENDS Service, TLAPS

Open(n) == n \in 1 .. 6

Placed(w) ==
    /\ w.at > 0 => serving
    /\ w.at > 1 => w.req.route # "preflight"
    /\ w.pending => w.at = 7
    /\ w.at < 7 => ~w.pending
    /\ Open(w.at) => w.calls = 0 /\ w.names = {}
    /\ w.calls > 0 => HasBody(w.req)

Attributed(w) ==
    /\ w.at \in 1 .. 4 => w.who = Nobody
    /\ w.at \in 5 .. 6 /\ HasBody(w.req) => Named(w) = Owed(w.req)
    /\ w.at = 7 /\ HasBody(w.req) => w.task = Owed(w.req)
    /\ w.names \subseteq {IF w.req.route = "job" THEN Nobody ELSE Owed(w.req)}

Entitled(r) ==
    /\ r.bearer.kind \in {"key", "grant"} \/ env.disabled
    /\ r.bearer.kind # "dead"
    /\ r.bearer.kind = "grant" => r.route = "turn"

Admitted(w) ==
    /\ w.at \in 5 .. 7 /\ HasBody(w.req) => Entitled(w.req)
    /\ w.at \in 6 .. 7 /\ HasBody(w.req) /\ env.limited => w.spent = "caller"
    /\ w.calls > 0 => Entitled(w.req) /\ (env.limited => w.spent = "caller")
    /\ w.at \in 4 .. 7 /\ HasBody(w.req) /\ env.sized => w.req.size \in {"fits", "undeclared"}
    /\ w.at \in 1 .. 4 => w.spent = "nobody"
    /\ w.spent # "nobody" /\ env.sized => w.req.size \in {"fits", "undeclared"}

Counted(w) == w.records + w.lost = w.calls - (IF w.pending THEN 1 ELSE 0)

Legible(w) == w.out.status >= 400 => w.out.cors /\ w.out.shape # "traceback"

Sound(w) ==
    w \in Work /\ Placed(w) /\ Attributed(w) /\ Admitted(w) /\ Counted(w) /\ Legible(w)

Started ==
    /\ env \in Deployments /\ serving \in BOOLEAN /\ sinks \in {0, 1}
    /\ serving => sinks = 1 /\ Emits

IInv == Started /\ DOMAIN work = Slots /\ work = [s \in Slots |-> work[s]]
        /\ \A s \in Slots : Sound(work[s])

-----------------------------------------------------------------------------
(* Places, and the parts of a request's work *)

\* Each layer's place in the order.
LEMMA Places ==
    /\ Place("cors") = 1 /\ Place("envelope") = 2 /\ Place("size") = 3
    /\ Place("auth") = 4 /\ Place("limit") = 5 /\ Place("context") = 6
    /\ Inside = 7
<1>1. DOMAIN Layers = 1 .. 6 /\ Inside = 7
    BY DEF Layers, Inside
<1>2. /\ Layers[1] = "cors" /\ Layers[2] = "envelope" /\ Layers[3] = "size"
      /\ Layers[4] = "auth" /\ Layers[5] = "limit" /\ Layers[6] = "context"
    BY DEF Layers
<1>3. ASSUME NEW i \in 1 .. 6
      PROVE  i = 1 \/ i = 2 \/ i = 3 \/ i = 4 \/ i = 5 \/ i = 6
    OBVIOUS
<1>4. Place("cors") = 1 /\ Place("envelope") = 2 /\ Place("size") = 3
    BY <1>1, <1>2, <1>3 DEF Place
<1>5. Place("auth") = 4 /\ Place("limit") = 5 /\ Place("context") = 6
    BY <1>1, <1>2, <1>3 DEF Place
<1> QED  BY <1>1, <1>4, <1>5

\* The places are numbers up to the route's.
LEMMA Parts ==
    ASSUME NEW w \in Work
    PROVE  /\ w.at \in 0 .. 7 /\ w.req \in AllRequests /\ w.who \in Names /\ w.task \in Names
           /\ w.calls \in 0 .. MaxCalls /\ w.calls \in Nat /\ w.pending \in BOOLEAN
           /\ w.records \in Nat /\ w.lost \in Nat /\ w.names \in SUBSET Names
           /\ w.spent \in {"nobody", "address", "caller"}
           /\ w.out \in Outcomes
    BY Places, ServiceAssumption DEF Work

\* Of an asked request.
LEMMA RequestParts ==
    ASSUME NEW r \in AllRequests
    PROVE  /\ r.bearer \in Bearers /\ r.header \in Ids \cup {NoName}
           /\ r.size \in Sizes /\ r.route \in Routes
           /\ r.bearer.kind \in {"none", "unknown", "dead", "key", "grant"}
           /\ r.bearer.kind \in {"none", "unknown", "dead"} =>
                  r.bearer.label = NoName /\ r.bearer.id = NoName /\ r.bearer.run = NoName
           /\ r.bearer.kind = "key" =>
                  r.bearer.label \in Labels /\ r.bearer.id = NoName /\ r.bearer.run = NoName
           /\ r.bearer.kind = "grant" =>
                  /\ r.bearer.label \in Labels /\ r.bearer.id \in Ids \cup {NoName}
                  /\ r.bearer.run \in Runs
<1>1. r.bearer \in Bearers /\ r.header \in Ids \cup {NoName}
      /\ r.size \in Sizes /\ r.route \in Routes
    BY DEF AllRequests
<1>2. \/ r.bearer \in [kind: {"none", "unknown", "dead"}, label: {NoName}, id: {NoName},
                       run: {NoName}]
      \/ r.bearer \in [kind: {"key"}, label: Labels, id: {NoName}, run: {NoName}]
      \/ r.bearer \in [kind: {"grant"}, label: Labels, id: Ids \cup {NoName}, run: Runs]
    BY <1>1 DEF Bearers
<1> QED  BY <1>1, <1>2

\* A step of one slot's work that leaves it sound leaves the whole so.
LEMMA StepKeeps ==
    ASSUME IInv, NEW s \in Slots, NEW v, Sound(v), Does(s, v)
    PROVE  IInv'
<1>1. work' = [t \in Slots |-> IF t = s THEN v ELSE work[t]]
    BY DEF Does, IInv
<1>2. env' = env /\ serving' = serving /\ sinks' = sinks
    BY DEF Does
<1>3. Started'
    BY <1>2 DEF IInv, Started, Emits
<1>4. ASSUME NEW t \in Slots
      PROVE  Sound(work[t])'
    <2>1. Sound(work'[t])
        BY <1>1 DEF IInv
    <2>2. PICK w : w = work'[t] /\ Sound(w)
        BY <2>1
    <2>3. Placed(work[t])'
        BY <1>2, <2>2 DEF Sound, Placed
    <2>4. Attributed(work[t])'
        BY <1>2, <2>2 DEF Sound, Attributed, Owed
    <2>5. Admitted(work[t])'
        BY <1>2, <2>2 DEF Sound, Admitted, Entitled
    <2>6. (work[t] \in Work)' /\ Counted(work[t])' /\ Legible(work[t])'
        BY <2>2 DEF Sound, Counted, Legible
    <2> QED  BY <2>3, <2>4, <2>5, <2>6 DEF Sound
<1> QED  BY <1>1, <1>3, <1>4 DEF IInv

-----------------------------------------------------------------------------
(* What is sound once nothing more is done for a request *)

Past(w) ==
    /\ w.calls > 0 => HasBody(w.req) /\ Entitled(w.req) /\ (env.limited => w.spent = "caller")
    /\ w.names \subseteq {IF w.req.route = "job" THEN Nobody ELSE Owed(w.req)}
    /\ w.spent # "nobody" /\ env.sized => w.req.size \in {"fits", "undeclared"}
    /\ ~w.pending /\ Counted(w)

\* Only what has happened counts for a request that is done with.
LEMMA AtRest ==
    ASSUME NEW w \in Work, w.at = 0, Past(w), Legible(w)
    PROVE  Sound(w)
    BY Parts DEF Sound, Past, Placed, Attributed, Admitted, Open

\* A request nobody waits for.
LEMMA SoundPast ==
    ASSUME NEW w, Sound(w), ~w.pending
    PROVE  w \in Work /\ Past(w)
    BY DEF Sound, Past, Placed, Attributed, Admitted

\* A request ends with an outcome a browser can read.
LEMMA Ends ==
    ASSUME NEW w \in Work, Past(w), NEW o \in Outcomes,
           o.status >= 400 => o.cors /\ o.shape # "traceback"
    PROVE  Sound([w EXCEPT !.at = 0, !.out = o])
<1> DEFINE v == [w EXCEPT !.at = 0, !.out = o]
<1>1. v \in Work /\ v.at = 0 /\ v.out = o
    <2>1. 0 \in 0 .. Inside
        BY Places
    <2>2. v \in Work
        BY <2>1 DEF Work
    <2>3. v.at = 0 /\ v.out = o
        BY DEF Work
    <2> QED  BY <2>2, <2>3
<1>2. /\ v.req = w.req /\ v.calls = w.calls /\ v.names = w.names /\ v.spent = w.spent
      /\ v.pending = w.pending /\ v.records = w.records /\ v.lost = w.lost
    BY DEF Work
<1> HIDE DEF v
<1>3. Past(v) /\ Legible(v)
    BY <1>1, <1>2 DEF Past, Counted, Legible
<1>4. Sound(v)
    BY <1>1, <1>3, AtRest
<1> QED  BY <1>4 DEF v

\* An answer of a layer inside or at CORS.
LEMMA AnswerSound ==
    ASSUME NEW w \in Work, Past(w), w.at > 0, NEW status \in Nat, NEW shape \in {"none", "ok", "envelope", "detail"}
    PROVE  Sound(Answered(w, status, shape))
<1> DEFINE o == [status |-> status, shape |-> shape, cors |-> Place("cors") <= w.at]
<1>1. w.at \in 0 .. 7 /\ (Place("cors") <= w.at) = TRUE
    BY Places, Parts
<1>2. o \in Outcomes /\ o.cors /\ o.shape # "traceback"
    BY <1>1 DEF Outcomes
<1> HIDE DEF o
<1>3. Sound([w EXCEPT !.at = 0, !.out = o])
    BY <1>2, Ends
<1> QED  BY <1>3 DEF Answered, o

\* An exception from inside the envelope.
LEMMA EscapeSound ==
    ASSUME NEW w \in Work, Past(w), w.at > 2, NEW status \in Nat
    PROVE  Sound(Escaped(w, status))
<1> DEFINE v == [w EXCEPT !.at = Place("envelope")]
<1>1. v \in Work /\ v.at = 2
    BY Places DEF Work
<1>2. /\ v.req = w.req /\ v.calls = w.calls /\ v.names = w.names /\ v.spent = w.spent
      /\ v.pending = w.pending /\ v.records = w.records /\ v.lost = w.lost
    BY DEF Work
<1>3. Escaped(w, status) = Answered(v, status, "envelope")
    BY Places DEF Escaped
<1> HIDE DEF v
<1>4. Past(v)
    BY <1>2 DEF Past, Counted
<1>5. v.at > 0
    BY <1>1
<1>6. Sound(Answered(v, status, "envelope"))
    BY <1>1, <1>4, <1>5, AnswerSound
<1> QED  BY <1>3, <1>6

-----------------------------------------------------------------------------
(* The layers *)

\* The next layer inwards, where that one's own conditions hold.
LEMMA InwardsSound ==
    ASSUME NEW w, Sound(w), w.at \in 1 .. 6,
           w.at = 1 => w.req.route # "preflight",
           w.at = 3 /\ HasBody(w.req) /\ env.sized => w.req.size \in {"fits", "undeclared"},
           w.at = 4 /\ HasBody(w.req) => Entitled(w.req) /\ Named(w) = Owed(w.req),
           w.at = 5 /\ HasBody(w.req) /\ env.limited => w.spent = "caller",
           w.at = 6 /\ HasBody(w.req) => w.task = Owed(w.req)
    PROVE  Sound(Inwards(w))
<1> DEFINE v == [w EXCEPT !.at = w.at + 1]
<1>1. w \in Work /\ w.at \in 1 .. 6
    BY DEF Sound
<1>2. v \in Work /\ v.at = w.at + 1
    BY <1>1, Places DEF Work
<1>3. /\ v.req = w.req /\ v.calls = w.calls /\ v.names = w.names /\ v.spent = w.spent
      /\ v.pending = w.pending /\ v.records = w.records /\ v.lost = w.lost
      /\ v.who = w.who /\ v.task = w.task /\ v.out = w.out
    BY <1>1 DEF Work
<1> HIDE DEF v
<1>4. ~w.pending /\ w.calls = 0 /\ w.names = {} /\ serving
    BY <1>1 DEF Sound, Placed, Open
<1>5. Placed(v)
    BY <1>1, <1>2, <1>3, <1>4 DEF Sound, Placed, Open
<1>6. Attributed(v)
    BY <1>1, <1>2, <1>3, <1>4 DEF Sound, Attributed, Named
<1>7. Admitted(v)
    BY <1>1, <1>2, <1>3, <1>4 DEF Sound, Admitted
<1>8. Counted(v) /\ Legible(v)
    BY <1>3 DEF Sound, Counted, Legible
<1>9. Sound(v)
    BY <1>2, <1>5, <1>6, <1>7, <1>8 DEF Sound
<1> QED  BY <1>9 DEF Inwards, v

\* What a layer that has a request knows.
LEMMA AtALayer ==
    ASSUME IInv, NEW s \in Slots, work[s].at \in 1 .. 6
    PROVE  Sound(work[s]) /\ work[s] \in Work /\ Past(work[s]) /\ work[s].at > 0
<1>1. Sound(work[s])
    BY DEF IInv
<1>2. ~work[s].pending
    BY <1>1 DEF Sound, Placed
<1> QED  BY <1>1, <1>2, SoundPast

LEMMA CorsKeeps == ASSUME IInv, NEW s \in Slots, Cors(s) PROVE IInv'
<1> DEFINE w == work[s]
<1>1. w.at = 1
    BY Places DEF Cors, AtLayer
<1>2. Sound(w) /\ w \in Work /\ Past(w) /\ w.at > 0
    BY <1>1, AtALayer
<1>3. CASE w.req.route = "preflight"
    <2>1. PICK status \in {200, 400} : Does(s, Answered(w, status, "none"))
        BY <1>3 DEF Cors
    <2>2. Sound(Answered(w, status, "none"))
        BY <1>2, AnswerSound
    <2> QED  BY <2>1, <2>2, StepKeeps
<1>4. CASE w.req.route # "preflight"
    <2>1. Sound(Inwards(w))
        BY <1>1, <1>2, <1>4, InwardsSound
    <2> QED  BY <1>4, <2>1, StepKeeps DEF Cors
<1> QED  BY <1>3, <1>4

LEMMA EnvelopeKeeps == ASSUME IInv, NEW s \in Slots, Envelope(s) PROVE IInv'
<1>1. work[s].at = 2
    BY Places DEF Envelope, AtLayer
<1>2. Sound(work[s])
    BY <1>1, AtALayer
<1>3. Sound(Inwards(work[s]))
    BY <1>1, <1>2, InwardsSound
<1> QED  BY <1>3, StepKeeps DEF Envelope

LEMMA SizeKeeps == ASSUME IInv, NEW s \in Slots, Size(s) PROVE IInv'
<1> DEFINE w == work[s]
<1>1. w.at = 3
    BY Places DEF Size, AtLayer
<1>2. Sound(w) /\ w \in Work /\ Past(w) /\ w.at > 0
    BY <1>1, AtALayer
<1>3. \/ /\ env.sized /\ HasBody(w.req) => w.req.size \in {"fits", "undeclared"}
         /\ Does(s, Inwards(w))
      \/ Does(s, Answered(w, 413, "envelope"))
      \/ Does(s, Answered(w, 400, "envelope"))
    BY DEF Size
<1>4. Sound(Answered(w, 413, "envelope")) /\ Sound(Answered(w, 400, "envelope"))
    BY <1>2, AnswerSound
<1>5. (env.sized /\ HasBody(w.req) => w.req.size \in {"fits", "undeclared"})
      => Sound(Inwards(w))
    BY <1>1, <1>2, InwardsSound
<1> HIDE DEF w
<1> QED  BY <1>3, <1>4, <1>5, StepKeeps

\* A refused request has been counted against its address only.
LEMMA RefusalSound ==
    ASSUME NEW w, Sound(w), w.at = 4, HasBody(w.req), NEW status \in Nat
    PROVE  Sound(Refused(w, status))
<1> DEFINE v == [w EXCEPT !.spent = "address"]
<1>1. w \in Work /\ Past(w) /\ ~w.pending
    BY SoundPast DEF Sound, Placed
<1>2. v \in Work /\ v.spent = "address"
    BY <1>1 DEF Work
<1>3. /\ v.req = w.req /\ v.calls = w.calls /\ v.names = w.names /\ v.at = w.at
      /\ v.pending = w.pending /\ v.records = w.records /\ v.lost = w.lost
    BY <1>1 DEF Work
<1> HIDE DEF v
<1>4. w.calls = 0 /\ (env.sized => w.req.size \in {"fits", "undeclared"})
    BY DEF Sound, Placed, Open, Admitted
<1>5. Past(v)
    BY <1>1, <1>3, <1>4, Parts DEF Past, Counted
<1>6. Sound(Answered(v, status, "envelope"))
    BY <1>2, <1>3, <1>5, AnswerSound
<1> QED  BY <1>6 DEF Refused, v

\* A caller let in is the one who pays.
LEMMA IdentifiedSound ==
    ASSUME NEW w, Sound(w), w.at = 4,
           \/ w.req.bearer.kind = "grant" /\ w.req.route = "turn"
           \/ w.req.bearer.kind = "key" /\ ~env.disabled
    PROVE  Sound(Inwards(Identified(w)))
<1> DEFINE b == w.req.bearer
           who == [label |-> b.label, id |-> b.id, run |-> b.run]
           v == [w EXCEPT !.who = who]
<1>1. w \in Work /\ w.req \in AllRequests
    BY Parts DEF Sound
<1>2. /\ b.label \in Labels /\ b.id \in Ids \cup {NoName} /\ b.run \in Runs \cup {NoName}
      /\ b.kind = "grant" => b.run \in Runs
      /\ b.kind = "key" => b.run = NoName
    BY <1>1, RequestParts
<1>3. who \in Names /\ who.label = b.label /\ who.id = b.id /\ who.run = b.run
    BY <1>2 DEF Names
<1> HIDE DEF who
<1>4. v \in Work /\ v.who = who
    BY <1>1, <1>3 DEF Work
<1>5. /\ v.req = w.req /\ v.calls = w.calls /\ v.names = w.names /\ v.spent = w.spent
      /\ v.pending = w.pending /\ v.records = w.records /\ v.lost = w.lost
      /\ v.at = w.at /\ v.task = w.task /\ v.out = w.out
    BY <1>1 DEF Work
<1> HIDE DEF v
<1>6. Named(v) = Owed(v.req)
    BY <1>2, <1>3, <1>4, <1>5, ServiceAssumption DEF Named, Owed
<1>7. Entitled(v.req)
    BY <1>5 DEF Entitled
<1> DEFINE u == [v EXCEPT !.at = v.at + 1]
<1>8. u \in Work /\ u.at = 5
    BY <1>4, <1>5, Places DEF Work
<1>9. /\ u.req = v.req /\ u.calls = v.calls /\ u.names = v.names /\ u.spent = v.spent
      /\ u.pending = v.pending /\ u.records = v.records /\ u.lost = v.lost
      /\ u.who = v.who /\ u.task = v.task /\ u.out = v.out
    BY <1>4 DEF Work
<1> HIDE DEF u
<1>10. Placed(u) /\ Attributed(u)
    BY <1>5, <1>6, <1>8, <1>9 DEF Sound, Placed, Open, Attributed, Named
<1>11. Admitted(u) /\ Counted(u) /\ Legible(u)
    BY <1>5, <1>7, <1>8, <1>9 DEF Sound, Admitted, Counted, Legible
<1>12. Sound(u)
    BY <1>8, <1>10, <1>11 DEF Sound
<1> QED  BY <1>12 DEF Inwards, Identified, u, v, who

\* Where authentication is off, nobody is named but by the request.
LEMMA AnonymousSound ==
    ASSUME NEW w, Sound(w), w.at = 4,
           \/ ~HasBody(w.req)
           \/ env.disabled /\ w.req.bearer.kind \in {"none", "unknown", "key"}
    PROVE  Sound(Inwards(w))
<1>1. w.who = Nobody
    BY DEF Sound, Attributed
<1>2. HasBody(w.req) => Entitled(w.req) /\ Named(w) = Owed(w.req)
    BY <1>1 DEF Entitled, Named, Owed, Nobody
<1> QED  BY <1>2, InwardsSound

LEMMA AuthKeeps == ASSUME IInv, NEW s \in Slots, Auth(s) PROVE IInv'
<1> DEFINE w == work[s]
           kind == w.req.bearer.kind
<1>1. w.at = 4
    BY Places DEF Auth, AtLayer
<1>2. Sound(w) /\ w \in Work /\ Past(w) /\ w.at > 0
    BY <1>1, AtALayer
<1>3. ASSUME NEW status \in {401, 403, 429, 503}
      PROVE  Sound(Answered(w, status, "envelope"))
    BY <1>2, AnswerSound
<1>4. ASSUME NEW status \in {401, 429}, HasBody(w.req)
      PROVE  Sound(Refused(w, status))
    BY <1>1, <1>2, <1>4, RefusalSound
<1>5. (kind = "grant" /\ w.req.route = "turn") \/ (kind = "key" /\ ~env.disabled)
      => Sound(Inwards(Identified(w)))
    BY <1>1, <1>2, IdentifiedSound
<1>6. ~HasBody(w.req) \/ (env.disabled /\ kind \in {"none", "unknown", "key"})
      => Sound(Inwards(w))
    BY <1>1, <1>2, AnonymousSound
<1>7. ASSUME NEW v, Sound(v), Does(s, v)
      PROVE  IInv'
    BY <1>7, StepKeeps
<1>8. CASE ~HasBody(w.req) /\ Does(s, Inwards(w))
    <2>1. Sound(Inwards(w))
        BY <1>6, <1>8
    <2>2. Does(s, Inwards(w))
        BY <1>8
    <2> QED  BY <2>1, <2>2, StepKeeps
<1>9. CASE \E status \in {403, 503} : Does(s, Answered(w, status, "envelope"))
    <2>1. PICK status \in {403, 503} : Does(s, Answered(w, status, "envelope"))
        BY <1>9
    <2>2. Sound(Answered(w, status, "envelope"))
        BY <1>3
    <2> QED  BY <1>7, <2>1, <2>2
<1>10. CASE HasBody(w.req) /\ \E status \in {401, 429} : Does(s, Refused(w, status))
    <2>1. PICK status \in {401, 429} : Does(s, Refused(w, status))
        BY <1>10
    <2>2. Sound(Refused(w, status))
        BY <1>4, <1>10
    <2> QED  BY <1>7, <2>1, <2>2
<1>11. CASE kind = "grant" /\ w.req.route = "turn" /\ Does(s, Inwards(Identified(w)))
    <2>1. Sound(Inwards(Identified(w)))
        BY <1>5, <1>11
    <2>2. Does(s, Inwards(Identified(w)))
        BY <1>11
    <2> QED  BY <2>1, <2>2, StepKeeps
<1>12. CASE /\ env.disabled /\ kind \in {"none", "unknown", "key"}
            /\ Does(s, Inwards(w))
    BY <1>6, <1>7, <1>12
<1>13. CASE kind = "key" /\ ~env.disabled /\ Does(s, Inwards(Identified(w)))
    BY <1>5, <1>7, <1>13
<1> QED  BY <1>8, <1>9, <1>10, <1>11, <1>12, <1>13 DEF Auth

LEMMA LimitKeeps == ASSUME IInv, NEW s \in Slots, Limit(s) PROVE IInv'
<1> DEFINE w == work[s]
           v == [w EXCEPT !.spent = "caller"]
<1>1. w.at = 5
    BY Places DEF Limit, AtLayer
<1>2. Sound(w) /\ w \in Work /\ Past(w) /\ w.at > 0
    BY <1>1, AtALayer
<1>3. CASE ~(env.limited /\ HasBody(w.req))
    <2>1. Sound(Inwards(w))
        BY <1>1, <1>2, <1>3, InwardsSound
    <2> QED  BY <1>3, <2>1, StepKeeps DEF Limit
<1>4. CASE env.limited /\ HasBody(w.req)
    <2>1. v \in Work /\ v.spent = "caller"
        BY <1>2 DEF Work
    <2>2. /\ v.req = w.req /\ v.calls = w.calls /\ v.names = w.names /\ v.at = w.at
          /\ v.pending = w.pending /\ v.records = w.records /\ v.lost = w.lost
          /\ v.who = w.who /\ v.task = w.task /\ v.out = w.out
        BY <1>2 DEF Work
    <2>3. Does(s, Inwards(v)) \/ Does(s, Answered(v, 429, "envelope"))
        BY <1>4 DEF Limit
    <2> HIDE DEF v
    <2>4. Sound(v)
        BY <1>1, <1>2, <1>4, <2>1, <2>2
           DEF Sound, Placed, Open, Attributed, Named, Admitted, Counted, Legible
    <2>5. Sound(Inwards(v))
        BY <1>1, <2>1, <2>2, <2>4, InwardsSound
    <2>6. ~v.pending /\ v.at > 0
        BY <1>1, <2>2, <2>4 DEF Sound, Placed
    <2>7. Sound(Answered(v, 429, "envelope"))
        BY <2>4, <2>6, SoundPast, AnswerSound
    <2> QED  BY <2>3, <2>5, <2>7, StepKeeps
<1> QED  BY <1>3, <1>4

LEMMA ContextKeeps == ASSUME IInv, NEW s \in Slots, Context(s) PROVE IInv'
<1> DEFINE w == work[s]
           v == [w EXCEPT !.task = Named(w)]
<1>1. w.at = 6
    BY Places DEF Context, AtLayer
<1>2. Sound(w) /\ w \in Work
    BY <1>1, AtALayer
<1>3. Named(w) \in Names
    <2>1. w.who \in Names /\ w.req.header \in Ids \cup {NoName}
        BY <1>2, Parts, RequestParts
    <2> QED  BY <2>1 DEF Named, Names
<1>4. v \in Work /\ v.task = Named(w)
    BY <1>2, <1>3 DEF Work
<1>5. /\ v.req = w.req /\ v.calls = w.calls /\ v.names = w.names /\ v.at = w.at
      /\ v.pending = w.pending /\ v.records = w.records /\ v.lost = w.lost
      /\ v.who = w.who /\ v.spent = w.spent /\ v.out = w.out
    BY <1>2 DEF Work
<1>6. Does(s, Inwards(v))
    BY DEF Context
<1> HIDE DEF v
<1>7. Sound(v)
    BY <1>1, <1>2, <1>4, <1>5
       DEF Sound, Placed, Open, Attributed, Named, Admitted, Counted, Legible
<1>8. HasBody(v.req) => v.task = Owed(v.req)
    BY <1>1, <1>2, <1>4, <1>5 DEF Sound, Attributed
<1>9. Sound(Inwards(v))
    BY <1>1, <1>5, <1>7, <1>8, InwardsSound
<1> QED  BY <1>6, <1>9, StepKeeps

LEMMA LayerFailsKeeps == ASSUME IInv, NEW s \in Slots, LayerFails(s) PROVE IInv'
<1>1. work[s].at \in 3 .. 6
    BY Places DEF LayerFails, AtLayer
<1>2. work[s] \in Work /\ Past(work[s]) /\ work[s].at > 2
    BY <1>1, AtALayer
<1>3. Sound(Escaped(work[s], 500))
    BY <1>2, EscapeSound
<1> QED  BY <1>3, StepKeeps DEF LayerFails

-----------------------------------------------------------------------------
(* The routes *)

LEMMA BeginKeeps == ASSUME IInv, NEW s \in Slots, Begin(s) PROVE IInv'
<1> DEFINE w == work[s]
           n == w.calls + 1
           v == [w EXCEPT !.calls = n, !.pending = TRUE]
<1>1. /\ w.at = 7 /\ w.req.route # "public" /\ ~w.pending /\ w.calls < MaxCalls
      /\ Does(s, v)
    BY Places DEF Begin
<1>2. Sound(w) /\ w \in Work
    BY DEF IInv, Sound
<1>3. w.calls \in Nat /\ n \in 0 .. MaxCalls
    BY <1>1, <1>2, Parts, ServiceAssumption
<1>4. HasBody(w.req)
    BY <1>1, <1>2 DEF Sound, Placed, HasBody
<1> HIDE DEF n
<1>5. v \in Work /\ v.calls = n /\ v.pending = TRUE
    <2>1. v \in Work
        BY <1>2, <1>3 DEF Work
    <2>2. v.calls = n /\ v.pending = TRUE
        BY <1>2 DEF Work
    <2> QED  BY <2>1, <2>2
<1>6. /\ v.req = w.req /\ v.names = w.names /\ v.at = w.at /\ v.spent = w.spent
      /\ v.records = w.records /\ v.lost = w.lost
      /\ v.who = w.who /\ v.task = w.task /\ v.out = w.out
    BY <1>2 DEF Work
<1> HIDE DEF v
<1>7. Placed(v) /\ Attributed(v) /\ Legible(v)
    BY <1>1, <1>2, <1>4, <1>5, <1>6 DEF Sound, Placed, Open, Attributed, Legible
<1>8. Admitted(v)
    BY <1>1, <1>2, <1>4, <1>5, <1>6 DEF Sound, Admitted
<1>9. Counted(v)
    BY <1>1, <1>2, <1>3, <1>5, <1>6, Parts DEF Sound, Counted, n
<1> QED  BY <1>1, <1>5, <1>7, <1>8, <1>9, StepKeeps DEF Sound

\* An event of a call that has ended.
LEMMA EventSound ==
    ASSUME NEW w, Sound(w), w.at = 7, w.pending, NEW v \in Work,
           v.pending = FALSE, v.records + v.lost = w.records + w.lost + 1,
           v.names \subseteq {IF w.req.route = "job" THEN Nobody ELSE Owed(w.req)},
           v.req = w.req, v.calls = w.calls, v.at = w.at, v.spent = w.spent,
           v.who = w.who, v.task = w.task, v.out = w.out
    PROVE  Sound(v)
<1>1. Placed(v) /\ Attributed(v) /\ Admitted(v) /\ Legible(v)
    BY DEF Sound, Placed, Open, Attributed, Admitted, Legible
<1>2. Counted(v)
    BY Parts DEF Sound, Counted
<1> QED  BY <1>1, <1>2 DEF Sound

LEMMA EmitKeeps == ASSUME IInv, NEW s \in Slots, Emit(s) PROVE IInv'
<1> DEFINE w == work[s]
           named == w.names \cup {WorkContext(w)}
           told == [w EXCEPT !.pending = FALSE, !.records = w.records + 1, !.names = named]
           failed == [w EXCEPT !.pending = FALSE, !.lost = w.lost + 1]
<1>1. w.at = 7 /\ w.pending
    BY Places DEF Emit
<1>2. Sound(w) /\ w \in Work
    BY DEF IInv, Sound
<1>3. sinks = 1 /\ Emits
    BY <1>1, <1>2 DEF IInv, Started, Sound, Placed
<1>4. /\ w.records \in Nat /\ w.lost \in Nat /\ w.names \in SUBSET Names
      /\ w.task \in Names
    BY <1>2, Parts
<1>5. HasBody(w.req)
    <2>1. w.calls > 0
        BY <1>1, <1>2, Parts DEF Sound, Counted
    <2> QED  BY <1>2, <2>1 DEF Sound, Placed
<1>6. named \in SUBSET Names
    BY <1>4 DEF WorkContext, Nobody, Names
<1>7. named \subseteq {IF w.req.route = "job" THEN Nobody ELSE Owed(w.req)}
    BY <1>1, <1>2, <1>5 DEF Sound, Attributed, WorkContext
<1>8. Does(s, told) \/ Does(s, failed)
    BY <1>3 DEF Emit
<1>9. w.names \subseteq {IF w.req.route = "job" THEN Nobody ELSE Owed(w.req)}
    BY <1>2 DEF Sound, Attributed
<1>10. told \in Work /\ failed \in Work
    <2>1. w.records + 1 \in Nat /\ w.lost + 1 \in Nat
        BY <1>4
    <2> HIDE DEF named
    <2>2. told \in Work
        BY <1>2, <1>6, <2>1 DEF Work
    <2>3. failed \in Work
        BY <1>2, <2>1 DEF Work
    <2> QED  BY <2>2, <2>3
<1>11. /\ told.pending = FALSE /\ told.records = w.records + 1 /\ told.lost = w.lost
       /\ told.names = named /\ told.req = w.req /\ told.calls = w.calls /\ told.at = w.at
       /\ told.spent = w.spent /\ told.who = w.who /\ told.task = w.task /\ told.out = w.out
    BY <1>2 DEF Work
<1>12. /\ failed.pending = FALSE /\ failed.records = w.records /\ failed.lost = w.lost + 1
       /\ failed.names = w.names /\ failed.req = w.req /\ failed.calls = w.calls
       /\ failed.at = w.at /\ failed.spent = w.spent /\ failed.who = w.who
       /\ failed.task = w.task /\ failed.out = w.out
    BY <1>2 DEF Work
<1> HIDE DEF w, named, told, failed
<1>13. /\ told.records + told.lost = w.records + w.lost + 1
       /\ failed.records + failed.lost = w.records + w.lost + 1
    BY <1>4, <1>11, <1>12
<1>14. Sound(told)
    <2>1. told.names \subseteq {IF w.req.route = "job" THEN Nobody ELSE Owed(w.req)}
        BY <1>7, <1>11
    <2> QED  BY <1>1, <1>2, <1>10, <1>11, <1>13, <2>1, EventSound
<1>15. Sound(failed)
    <2>1. failed.names \subseteq {IF w.req.route = "job" THEN Nobody ELSE Owed(w.req)}
        BY <1>9, <1>12
    <2> QED  BY <1>1, <1>2, <1>10, <1>12, <1>13, <2>1, EventSound
<1> QED  BY <1>8, <1>14, <1>15, StepKeeps

LEMMA RespondKeeps == ASSUME IInv, NEW s \in Slots, Respond(s) PROVE IInv'
<1> DEFINE w == work[s]
           o == [status |-> 200, shape |-> "ok", cors |-> Place("cors") <= w.at]
           v == [w EXCEPT !.out = o]
<1>1. w.at = 7
    BY Places DEF Respond
<1>2. Sound(w) /\ w \in Work
    BY DEF IInv, Sound
<1>3. CASE Lasts(w)
    <2>1. Does(s, v)
        <3>1. [Answered(w, 200, "ok") EXCEPT !.at = w.at] = v
            BY <1>2 DEF Answered, Work
        <3> QED  BY <1>3, <3>1 DEF Respond
    <2>2. o \in Outcomes /\ o.status = 200
        BY DEF Outcomes
    <2> HIDE DEF o
    <2>3. v \in Work /\ v.out = o
        BY <1>2, <2>2 DEF Work
    <2>4. /\ v.req = w.req /\ v.calls = w.calls /\ v.names = w.names /\ v.at = w.at
          /\ v.pending = w.pending /\ v.records = w.records /\ v.lost = w.lost
          /\ v.who = w.who /\ v.spent = w.spent /\ v.task = w.task
        BY <1>2 DEF Work
    <2> HIDE DEF v
    <2>5. Sound(v)
        BY <1>1, <1>2, <2>2, <2>3, <2>4
           DEF Sound, Placed, Open, Attributed, Admitted, Counted, Legible
    <2> QED  BY <2>1, <2>5, StepKeeps
<1>4. CASE ~Lasts(w)
    <2>1. Sound(Answered(w, 200, "ok")) /\ Does(s, Answered(w, 200, "ok"))
        BY <1>1, <1>2, <1>4, SoundPast, AnswerSound DEF Respond
    <2> QED  BY <2>1, StepKeeps
<1> QED  BY <1>3, <1>4

LEMMA EndKeeps == ASSUME IInv, NEW s \in Slots, End(s) PROVE IInv'
<1> DEFINE w == work[s]
<1>1. Sound(w) /\ ~w.pending /\ Does(s, [w EXCEPT !.at = 0])
    BY DEF IInv, End
<1>2. w \in Work /\ Past(w) /\ Legible(w)
    BY <1>1, SoundPast DEF Sound
<1>3. [w EXCEPT !.at = 0] = [w EXCEPT !.at = 0, !.out = w.out]
    BY <1>2 DEF Work
<1>4. w.out \in Outcomes
    BY <1>2, Parts
<1>5. Sound([w EXCEPT !.at = 0, !.out = w.out])
    BY <1>2, <1>4, Ends DEF Legible
<1> QED  BY <1>1, <1>3, <1>5, StepKeeps

LEMMA RouteFailsKeeps == ASSUME IInv, NEW s \in Slots, RouteFails(s) PROVE IInv'
<1> DEFINE w == work[s]
<1>1. Sound(w) /\ ~w.pending /\ w.at = 7
    BY Places DEF IInv, RouteFails
<1>2. w \in Work /\ Past(w) /\ w.at > 2 /\ w.at > 0
    BY <1>1, SoundPast
<1>3. ASSUME NEW status \in {404, 422, 502}, NEW shape \in {"envelope", "detail"}
      PROVE  Sound(Answered(w, status, shape))
    BY <1>2, AnswerSound
<1>4. ASSUME NEW status \in {500, 502}
      PROVE  Sound(Escaped(w, status))
    BY <1>2, EscapeSound
<1>5. \/ \E status \in {404, 422, 502} : \E shape \in {"envelope", "detail"} :
             Does(s, Answered(w, status, shape))
      \/ \E status \in {500, 502} : Does(s, Escaped(w, status))
    BY DEF RouteFails
<1> HIDE DEF w
<1>6. CASE \E status \in {404, 422, 502} : \E shape \in {"envelope", "detail"} :
              Does(s, Answered(w, status, shape))
    BY <1>3, <1>6, StepKeeps
<1>7. CASE \E status \in {500, 502} : Does(s, Escaped(w, status))
    BY <1>4, <1>7, StepKeeps
<1> QED  BY <1>5, <1>6, <1>7

-----------------------------------------------------------------------------
(* Start-up and arrivals *)

\* Nothing has happened for a request that is not there.
LEMMA IdleSound == ASSUME Started PROVE Sound(Idle)
<1>1. NoRequest \in AllRequests
    BY DEF NoRequest, AllRequests, Bearers, Sizes, Routes
<1>2. Nobody \in Names
    BY DEF Nobody, Names
<1>3. [status |-> 0, shape |-> "none", cors |-> FALSE] \in Outcomes
    BY DEF Outcomes
<1>4. 0 \in 0 .. Inside /\ 0 \in 0 .. MaxCalls
    BY Places, ServiceAssumption
<1>5. Idle \in Work
    BY <1>1, <1>2, <1>3, <1>4 DEF Idle, Work
<1>6. Past(Idle) /\ Legible(Idle) /\ Idle.at = 0
    BY DEF Idle, Past, Counted, Legible
<1> QED  BY <1>5, <1>6, AtRest

LEMMA ArriveKeeps == ASSUME IInv, NEW s \in Slots, Arrive(s) PROVE IInv'
<1>1. PICK r \in Requests : Does(s, [Idle EXCEPT !.req = r, !.at = 1])
    BY DEF Arrive
<1> DEFINE v == [Idle EXCEPT !.req = r, !.at = 1]
<1>2. Sound(Idle) /\ Idle \in Work
    BY IdleSound DEF IInv, Sound
<1>3. r \in AllRequests /\ 1 \in 0 .. Inside
    BY Places, ServiceAssumption
<1>4. v \in Work
    BY <1>2, <1>3 DEF Work
<1>5. /\ v.at = 1 /\ v.who = Nobody /\ v.calls = 0 /\ v.pending = FALSE /\ v.records = 0
      /\ v.lost = 0 /\ v.names = {} /\ v.spent = "nobody" /\ v.out.status = 0
    BY DEF Idle
<1> HIDE DEF v
<1>6. Sound(v)
    <2>1. Placed(v) /\ Attributed(v)
        BY <1>5 DEF Arrive, Placed, Open, Attributed
    <2>2. Admitted(v)
        BY <1>5 DEF Admitted
    <2>3. Counted(v)
        <3>1. ~v.pending
            BY <1>5
        <3>2. v.records = 0 /\ v.lost = 0 /\ v.calls = 0
            BY <1>5
        <3>3. v.records + v.lost = 0 /\ v.calls - 0 = 0
            BY <3>2
        <3> QED  BY <3>1, <3>3 DEF Counted
    <2>4. Legible(v)
        BY <1>5 DEF Legible
    <2> QED  BY <1>4, <2>1, <2>2, <2>3, <2>4 DEF Sound
<1> QED  BY <1>1, <1>6, StepKeeps DEF v

\* A sound slot nothing is being done in stays so whether the service is up.
LEMMA RestKeeps ==
    ASSUME IInv, env' = env, UNCHANGED work, \A s \in Slots : work[s].at = 0, Started'
    PROVE  IInv'
<1>1. ASSUME NEW s \in Slots
      PROVE  Sound(work[s])'
    BY DEF IInv, Sound, Placed, Open, Attributed, Owed, Named, Admitted, Entitled, Counted,
           Legible
<1> QED  BY <1>1 DEF IInv

LEMMA StartKeeps == ASSUME IInv, Start PROVE IInv'
<1>1. \A s \in Slots : work[s].at = 0
    BY Parts DEF IInv, Start, Sound, Placed
<1>2. Started'
    BY DEF IInv, Started, Start, Attached, Verified, Emits
<1> QED  BY <1>1, <1>2, RestKeeps DEF Start

LEMMA StopKeeps == ASSUME IInv, Stop PROVE IInv'
<1>1. Started'
    BY DEF IInv, Started, Stop, Emits
<1> QED  BY <1>1, RestKeeps DEF Stop

LEMMA ReplaceKeeps == ASSUME IInv, Replace PROVE IInv'
<1>1. Started'
    BY DEF Started, Replace
<1>2. Sound(Idle)'
    BY <1>1, IdleSound, PTL
<1>3. ASSUME NEW s \in Slots
      PROVE  work'[s] = Idle
    BY DEF Replace
<1>4. ASSUME NEW s \in Slots
      PROVE  Sound(work[s])'
    <2>1. Placed(work[s])'
        BY <1>2, <1>3 DEF Sound, Placed
    <2>2. Attributed(work[s])'
        BY <1>2, <1>3 DEF Sound, Attributed
    <2>3. Admitted(work[s])'
        BY <1>2, <1>3 DEF Sound, Admitted
    <2>4. (work[s] \in Work)' /\ Counted(work[s])' /\ Legible(work[s])'
        BY <1>2, <1>3 DEF Sound, Counted, Legible
    <2> QED  BY <2>1, <2>2, <2>3, <2>4 DEF Sound
<1> QED  BY <1>1, <1>4 DEF IInv, Replace

LEMMA StepsKeep == ASSUME IInv, [Next]_vars PROVE IInv'
<1>1. CASE UNCHANGED vars
    <2>1. Started'
        BY <1>1 DEF vars, IInv, Started, Emits
    <2>2. ASSUME NEW s \in Slots
          PROVE  Sound(work[s])'
        <3>1. Placed(work[s])'
            BY <1>1 DEF vars, IInv, Sound, Placed
        <3>2. Attributed(work[s])'
            BY <1>1 DEF vars, IInv, Sound, Attributed, Owed
        <3>3. Admitted(work[s])'
            BY <1>1 DEF vars, IInv, Sound, Admitted, Entitled
        <3>4. (work[s] \in Work)' /\ Counted(work[s])' /\ Legible(work[s])'
            BY <1>1 DEF vars, IInv, Sound, Counted, Legible
        <3> QED  BY <3>1, <3>2, <3>3, <3>4 DEF Sound
    <2> QED  BY <1>1, <2>1, <2>2 DEF vars, IInv
<1>2. ASSUME NEW s \in Slots, Layer(s)
      PROVE  IInv'
    BY <1>2, CorsKeeps, EnvelopeKeeps, SizeKeeps, AuthKeeps, LimitKeeps, ContextKeeps,
       LayerFailsKeeps DEF Layer
<1>3. ASSUME NEW s \in Slots, Route(s)
      PROVE  IInv'
    BY <1>3, BeginKeeps, EmitKeeps, RespondKeeps, EndKeeps, RouteFailsKeeps DEF Route
<1> QED  BY <1>1, <1>2, <1>3, StartKeeps, StopKeeps, ReplaceKeeps, ArriveKeeps DEF Next

-----------------------------------------------------------------------------
(* Theorems *)

\* What is known of each request by the layers it has passed.
THEOREM Invariant == Spec => []IInv
<1>1. Init => IInv
    <2> SUFFICES ASSUME Init PROVE IInv
        OBVIOUS
    <2>1. Started
        BY DEF Init, Started
    <2> QED  BY <2>1, IdleSound DEF Init, IInv
<1> QED  BY <1>1, StepsKeep, PTL DEF Spec

\* Every variable keeps its type, for any requests and deployments.
THEOREM TypeCorrect == Spec => []TypeOK
<1>1. IInv => TypeOK
    BY DEF IInv, Started, Sound, TypeOK
<1> QED  BY <1>1, Invariant, PTL

\* Cost events of every request but a job, whose events the code gives no name,
\* name the caller of that request, or their grant's terms, whatever is served
\* at the same time (CallerContextMiddleware).
THEOREM EventsNameTheirCallerCorrect == Spec => []EventsNameTheirCaller
<1>1. IInv => EventsNameTheirCaller
    BY DEF IInv, Sound, Attributed, EventsNameTheirCaller
<1> QED  BY <1>1, Invariant, PTL

\* One event for each call that has ended, however often the service was
\* started in the process (attach_cost_handler, verify_cost_capture).
THEOREM RecordedOnceCorrect == Spec => []RecordedOnce
<1>1. IInv => RecordedOnce
    BY DEF IInv, Sound, Counted, RecordedOnce
<1> QED  BY <1>1, Invariant, PTL

\* No provider is called for a request that was not known and counted
\* (create_app's order of layers).
THEOREM CallsArePaidForCorrect == Spec => []CallsArePaidFor
<1>1. IInv => CallsArePaidFor
    BY DEF IInv, Sound, Admitted, Entitled, CallsArePaidFor
<1> QED  BY <1>1, Invariant, PTL

\* No failure leaves without CORS headers or with a traceback
\* (ErrorEnvelopeMiddleware).
THEOREM FailuresAreReadableCorrect == Spec => []FailuresAreReadable
<1>1. IInv => FailuresAreReadable
    BY DEF IInv, Sound, Legible, FailuresAreReadable
<1> QED  BY <1>1, Invariant, PTL
=============================================================================
