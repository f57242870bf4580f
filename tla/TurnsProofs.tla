---------------------------- MODULE TurnsProofs ----------------------------
(***************************************************************************)
(* Turns for any engines, chain and number of messages.  The history is    *)
(* what the messages taken so far stand for; what is sent covers as much   *)
(* of it as is done, and the last message sent says whether a run is on.   *)
(* Everything in an engine's shape comes from a turn of the request or is  *)
(* of the engine asked for.                                                *)
(***************************************************************************)
EXTENDS Turns, SequenceTheorems, TLAPS

IsLast(S, m) == m \in S /\ \A j \in S : j <= m

TurnsOK ==
    \A t \in DOMAIN turns :
        turns[t].by \in Tools => turns[t].token # "v1" \/ turns[t].by \in Blocks

RequestOK ==
    \A k \in DOMAIN request :
        /\ request[k].turn <= Len(turns)
        /\ request[k].kind = "token" /\ request[k].good =>
               request[k].turn > 0 /\ turns[request[k].turn].token # "none"

StageOK ==
    /\ stage = "idle" => request = <<>> /\ taken = 0 /\ history = <<>>
    /\ stage \in {"idle", "expanding"} => shaped = <<>> /\ done = 0
    /\ stage \in {"shaping", "calling"} =>
           taken = Len(request) /\ \A i \in DOMAIN history : history[i].good
    /\ stage = "shaping" => known \subseteq Pooled
    /\ stage # "idle" => engine \in Engines /\ reply = 0 /\ Len(turns) < MaxTurns
    /\ \A k \in 1 .. taken : request[k].kind = "token" => request[k].good

ShapedOK ==
    /\ shaped = <<>> <=> done = 0
    /\ in_run <=> shaped # <<>> /\ shaped[Len(shaped)].kind = "result"
    /\ \A j \in DOMAIN shaped :
           /\ shaped[j].first \in 1 .. done /\ shaped[j].last \in 1 .. done
           /\ shaped[j].kind = "result" => shaped[j].shape \in Engines
           /\ shaped[j].kind # "result" =>
                  shaped[j].kind = history[shaped[j].first].kind
                  /\ shaped[j].shape = history[shaped[j].first].shape

\* Places of what is in the shape of one of B.  The chain may build more while
\* results are shaped, so what is known of Readable holds for any B.
ShapedFor(B) == {i \in DOMAIN shaped : shaped[i].shape \in B}

LastsOK ==
    /\ \A j \in 1 .. Len(shaped) + 1 :
           TurnsBefore(j) # {} => \E m \in 1 .. Len(shaped) : IsLast(TurnsBefore(j), m)
    /\ \A B \in SUBSET Engines :
           ShapedFor(B) # {} => \E m \in 1 .. Len(shaped) : IsLast(ShapedFor(B), m)

\* e is the engine asked for or served a turn of the request.
Concerned(e) ==
    \/ e = engine
    \/ \E l \in DOMAIN request : request[l].turn > 0 /\ turns[request[l].turn].by = e

ShapesOK == \A j \in DOMAIN shaped : shaped[j].shape # NoShape => Concerned(shaped[j].shape)

IInv == /\ TypeOK /\ TurnsOK /\ RequestOK /\ StageOK /\ InPlace
        /\ ShapedOK /\ OneMessagePerRun /\ LastsOK /\ ShapesOK /\ ResultsFit

-----------------------------------------------------------------------------
(* Sequences and last elements *)

LEMMA LastIs ==
    ASSUME NEW S \in SUBSET Int, NEW m, IsLast(S, m)
    PROVE  LastOf(S) = m
<1> DEFINE P(i) == i \in S /\ \A j \in S : j <= i
<1>1. LastOf(S) = CHOOSE i : P(i)
  BY DEF LastOf
<1>2. P(m)
  BY DEF IsLast
<1>3. P(CHOOSE i : P(i))
  BY <1>2
<1>4. \A a, b \in Int : a <= b /\ b <= a => a = b
  OBVIOUS
<1>5. m \in Int /\ LastOf(S) \in Int /\ m <= LastOf(S) /\ LastOf(S) <= m
  BY <1>1, <1>2, <1>3
<1> QED
  BY <1>4, <1>5

LEMMA Spliced ==
    ASSUME NEW S, NEW s \in Seq(S), NEW n \in Nat, NEW f \in [1 .. n -> S]
    PROVE  /\ s \o f \in Seq(S) /\ Len(s \o f) = Len(s) + n
           /\ \A i \in 1 .. Len(s) : (s \o f)[i] = s[i]
           /\ \A i \in Len(s) + 1 .. Len(s) + n : (s \o f)[i] = f[i - Len(s)]
<1>1. f \in Seq(S)
  BY SeqDef
<1>2. Len(f) = n
  BY <1>1, LenProperties
<1>3. Len(s) \in Nat
  BY LenProperties
<1>4. /\ s \o f \in Seq(S) /\ Len(s \o f) = Len(s) + n
      /\ \A i \in 1 .. Len(s) + n : (s \o f)[i] = IF i <= Len(s) THEN s[i] ELSE f[i - Len(s)]
  BY <1>1, <1>2, ConcatProperties
<1> QED
  BY <1>3, <1>4

LEMMA MessageFacts ==
    ASSUME NEW m \in Messages
    PROVE  /\ m.kind \in {"plain", "native", "token", "result"} /\ m.good \in BOOLEAN
           /\ m.turn \in 0 .. MaxTurns /\ (m.kind = "native" => m.turn > 0)
           /\ (m.kind \notin {"native", "token"} => m.turn = 0)
           /\ (m.kind \notin {"token", "result"} => m.good)
<1>0. MaxTurns \in Nat
  BY TurnsAssumption
<1>1. 1 .. MaxTurns \subseteq 0 .. MaxTurns /\ 0 \in 0 .. MaxTurns
  BY <1>0
<1>2. CASE m \in [kind: {"plain"}, turn: {0}, good: {TRUE}]
  BY <1>1, <1>2
<1>3. CASE m \in [kind: {"native"}, turn: 1 .. MaxTurns, good: {TRUE}]
  <2>1. m.kind = "native" /\ m.good = TRUE /\ m.turn \in 1 .. MaxTurns
    BY <1>3
  <2>2. m.turn > 0 /\ m.turn \in 0 .. MaxTurns
    BY <1>0, <2>1
  <2> QED
    BY <2>1, <2>2
<1>4. CASE m \in [kind: {"token"}, turn: 0 .. MaxTurns, good: BOOLEAN]
  BY <1>4
<1>5. CASE m \in [kind: {"result"}, turn: {0}, good: BOOLEAN]
  BY <1>1, <1>5
<1> QED
  BY <1>2, <1>3, <1>4, <1>5 DEF Messages

LEMMA EntryFacts ==
    ASSUME TypeOK, TurnsOK, RequestOK, NEW k \in DOMAIN request,
           request[k].kind = "token" => request[k].good, NEW p \in Nat
    PROVE  /\ Parts(request[k]) \in Nat \ {0}
           /\ Entry(k, p) \in Entries
           /\ Entry(k, p).src = k /\ Entry(k, p).part = p
           /\ Entry(k, p).good = request[k].good
           /\ Entry(k, p).kind \in {"plain", "result"} => Entry(k, p).shape = NoShape
           /\ Entry(k, p).shape # NoShape =>
                  /\ request[k].turn > 0
                  /\ Entry(k, p).shape = turns[request[k].turn].by
           /\ Entry(k, p).kind = "turn" => request[k].turn > 0 /\
                  (turns[request[k].turn].by \in Tools =>
                       Entry(k, p).shape = turns[request[k].turn].by)
<1> DEFINE m == request[k]
<1>1. m \in Messages /\ k \in Nat
  BY DEF TypeOK
<1>2. /\ m.kind \in {"plain", "native", "token", "result"} /\ m.good \in BOOLEAN
      /\ m.turn \in 0 .. MaxTurns /\ (m.kind = "native" => m.turn > 0)
      /\ (m.kind \notin {"native", "token"} => m.turn = 0)
  BY <1>1, MessageFacts
<1>3. ASSUME m.turn > 0
      PROVE  turns[m.turn] \in Turn /\ m.turn \in DOMAIN turns
  BY <1>2, <1>3 DEF TypeOK, RequestOK
<1>4. m.kind = "token" => m.turn > 0 /\ turns[m.turn].token # "none"
  BY DEF RequestOK
<1>5. Parts(m) \in Nat \ {0}
  <2>1. turns[m.turn].by \in Engines => Items[turns[m.turn].by] \in Nat \ {0}
    BY TurnsAssumption
  <2> QED
    BY <1>3, <1>4, <2>1 DEF Parts, Turn
<1>6. m.kind = "token" =>
        /\ ReplayShape(turns[m.turn]) \in {turns[m.turn].by, NoShape}
        /\ turns[m.turn].by \in Tools => ReplayShape(turns[m.turn]) = turns[m.turn].by
  BY <1>3, <1>4 DEF ReplayShape, TurnsOK, Turn, Versions
<1>7. m.kind \in {"native", "token"} => turns[m.turn].by \in Engines
  BY <1>2, <1>3, <1>4 DEF Turn
<1>8. Entry(k, p) = [src |-> k, part |-> p, good |-> m.good,
                     kind |-> IF m.kind = "token" THEN "turn" ELSE m.kind,
                     shape |-> CASE m.kind = "token"  -> ReplayShape(turns[m.turn])
                                 [] m.kind = "native" -> turns[m.turn].by
                                 [] OTHER             -> NoShape]
  BY DEF Entry
<1>9. CASE m.kind = "token"
  BY <1>1, <1>2, <1>4, <1>5, <1>6, <1>7, <1>8, <1>9 DEF Entries
<1>10. CASE m.kind = "native"
  BY <1>1, <1>2, <1>5, <1>7, <1>8, <1>10, TurnsAssumption DEF Entries
<1>11. CASE m.kind \in {"plain", "result"}
  BY <1>1, <1>2, <1>5, <1>8, <1>11 DEF Entries
<1> QED
  BY <1>2, <1>9, <1>10, <1>11

-----------------------------------------------------------------------------
(* Steps that end a request or begin one *)

\* With nothing being sent, the invariant is about the conversation alone.
Blank ==
    /\ built \in [Engines -> SUBSET Engines] /\ known \in SUBSET Engines
    /\ engine \in Engines \cup {NoShape} /\ chained \in BOOLEAN
    /\ turns \in Seq(Turn) /\ Len(turns) <= MaxTurns /\ TurnsOK
    /\ request \in Seq(Messages) /\ RequestOK
    /\ taken = 0 /\ history = <<>> /\ shaped = <<>> /\ done = 0 /\ in_run = FALSE
    /\ reply \in {0, 200, 400, 502}
    /\ \/ stage = "idle" /\ request = <<>>
       \/ stage = "expanding" /\ engine \in Engines /\ reply = 0 /\ Len(turns) < MaxTurns

LEMMA NothingSent == Blank => IInv
<1> SUFFICES ASSUME Blank PROVE IInv
  OBVIOUS
<1>1. /\ DOMAIN history = {} /\ DOMAIN shaped = {} /\ 1 .. taken = {} /\ Len(shaped) = 0
      /\ Len(history) = 0 /\ history \in Seq(Entries) /\ shaped \in Seq(Sent)
  BY DEF Blank
<1>2. Len(request) \in Nat
  BY DEF Blank
<1>3. taken \in 0 .. Len(request) /\ done \in 0 .. Len(history)
  BY <1>1, <1>2 DEF Blank
<1>4. TypeOK
  BY <1>1, <1>3 DEF Blank, TypeOK
<1>5. StageOK
  BY <1>1 DEF Blank, StageOK
<1>6. InPlace /\ OneMessagePerRun /\ ShapesOK /\ ResultsFit
  BY <1>1 DEF Blank, InPlace, OneMessagePerRun, ShapesOK, ResultsFit
<1>7. ShapedOK
  BY <1>1 DEF Blank, ShapedOK
<1>8. \A j \in 1 .. Len(shaped) + 1 : TurnsBefore(j) = {}
  BY <1>1 DEF TurnsBefore
<1>9. LastsOK
  <2>1. \A B : ShapedFor(B) = {}
    BY <1>1 DEF ShapedFor
  <2> QED
    BY <1>8, <2>1 DEF LastsOK
<1> QED
  BY <1>4, <1>5, <1>6, <1>7, <1>9 DEF Blank, IInv

LEMMA NothingSentNext == Blank' => IInv'
<1> QED
  BY NothingSent, PTL

LEMMA InitInv == Init => IInv
<1> SUFFICES ASSUME Init PROVE IInv
  OBVIOUS
<1>1. turns \in Seq(Turn) /\ Len(turns) <= MaxTurns /\ TurnsOK
  <2>1. CASE turns = <<>>
    BY <2>1, TurnsAssumption DEF TurnsOK
  <2>2. CASE turns # <<>>
    <3>1. PICK t \in [by: Blocks \cap {a.engine : a \in Asked}, token: {"v1"}] : turns = <<t>>
      BY <2>2 DEF Init
    <3>2. t \in Turn /\ t.by \in Blocks
      BY TurnsAssumption DEF Turn, Versions
    <3>3. Len(turns) = 1 /\ DOMAIN turns = {1} /\ turns[1] = t
      BY <3>1
    <3> QED
      BY <3>1, <3>2, <3>3, TurnsAssumption DEF TurnsOK
  <2> QED
    BY <2>1, <2>2
<1>2. /\ engine = NoShape /\ chained = FALSE /\ stage = "idle" /\ request = <<>> /\ taken = 0
      /\ built \in [Engines -> SUBSET Engines] /\ reply = 0
      /\ history = <<>> /\ shaped = <<>> /\ done = 0 /\ in_run = FALSE /\ known = {}
  BY DEF Init
<1>3. RequestOK /\ request \in Seq(Messages)
  BY <1>2 DEF RequestOK
<1>4. Blank
  BY <1>1, <1>2, <1>3 DEF Blank
<1> QED
  BY <1>4, NothingSent

LEMMA AskInv == IInv /\ Ask => IInv'
<1> SUFFICES ASSUME IInv, Ask PROVE IInv'
  OBVIOUS
<1>1. /\ stage = "idle" /\ taken' = 0 /\ reply' = 0 /\ stage' = "expanding"
      /\ UNCHANGED <<built, turns, history, shaped, done, in_run, known>>
      /\ engine' \in Engines /\ chained' \in BOOLEAN
  BY TurnsAssumption DEF Ask, sending
<1>2. history = <<>> /\ shaped = <<>> /\ done = 0 /\ in_run = FALSE
  BY <1>1 DEF IInv, StageOK, ShapedOK, TypeOK
<1>3. PICK n \in 0 .. MaxMessages : request' \in [1 .. n -> {m \in Messages : CanSend(m)}]
  BY DEF Ask, Requests
<1>4. n \in Nat /\ request' \in [1 .. n -> Messages]
  BY <1>3, TurnsAssumption
<1>5. request' \in Seq(Messages) /\ DOMAIN request' = 1 .. n
  BY <1>4, SeqDef
<1>6. \A k \in DOMAIN request' : CanSend(request'[k])
  BY <1>3
<1>7. RequestOK'
  BY <1>1, <1>6 DEF RequestOK, CanSend
<1>8. TurnsOK'
  BY <1>1 DEF IInv, TurnsOK
<1>9. Len(turns) < MaxTurns
  BY DEF Ask
<1>10. Blank'
  BY <1>1, <1>2, <1>5, <1>7, <1>8, <1>9 DEF Blank, IInv, TypeOK
<1> QED
  BY <1>10, NothingSentNext

\* Refusals, answers and restarts leave nothing behind but the turns.
LEMMA EndInv ==
    ASSUME IInv, NEW status \in {0, 200, 400, 502}, Ends(status),
           built' \in [Engines -> SUBSET Engines],
           turns' \in Seq(Turn), Len(turns') <= MaxTurns, TurnsOK'
    PROVE  IInv'
<1>1. /\ history' = <<>> /\ shaped' = <<>> /\ done' = 0 /\ in_run' = FALSE /\ known' = {}
      /\ engine' = NoShape /\ chained' = FALSE /\ stage' = "idle" /\ taken' = 0
      /\ request' = <<>> /\ reply' = status
  BY DEF Ends
<1>2. RequestOK' /\ request' \in Seq(Messages)
  BY <1>1 DEF RequestOK
<1>3. Blank'
  BY <1>1, <1>2 DEF Blank
<1> QED
  BY <1>3, NothingSentNext

LEMMA RefuseInv ==
    ASSUME IInv, NEW status \in {400, 502}, Refuse(status)
    PROVE  IInv'
<1>1. Ends(status) /\ UNCHANGED <<built, turns>>
  BY DEF Refuse
<1>2. TurnsOK'
  BY <1>1 DEF IInv, TurnsOK
<1> QED
  BY <1>1, <1>2, EndInv DEF IInv, TypeOK

LEMMA AnswerInv ==
    ASSUME IInv, NEW e \in Engines, NEW c \in BOOLEAN, Answer(e, c)
    PROVE  IInv'
<1> DEFINE t == [by |-> e, token |-> IF c THEN TurnToken(e) ELSE "none"]
<1>1. /\ stage = "calling" /\ turns' = Append(turns, t) /\ Ends(200)
      /\ built' = IF chained THEN [built EXCEPT ![engine] = @ \cup {e}] ELSE built
  BY DEF Answer
<1>2. t \in Turn
  BY DEF Turn, Versions, TurnToken
<1>3. Len(turns) < MaxTurns /\ turns \in Seq(Turn) /\ engine \in Engines
  BY <1>1 DEF IInv, StageOK, TypeOK
<1>4. /\ turns' \in Seq(Turn) /\ Len(turns') <= MaxTurns
      /\ DOMAIN turns' = 1 .. Len(turns) + 1 /\ turns'[Len(turns) + 1] = t
      /\ \A i \in DOMAIN turns : turns'[i] = turns[i]
  BY <1>1, <1>2, <1>3, TurnsAssumption
<1>5. e \in Tools => t.token # "v1"
  BY DEF TurnToken
<1>6. TurnsOK'
  BY <1>1, <1>3, <1>4, <1>5 DEF IInv, TurnsOK
<1>7. built \in [Engines -> SUBSET Engines] /\ built[engine] \cup {e} \in SUBSET Engines
  BY <1>3 DEF IInv, TypeOK
<1>8. built' \in [Engines -> SUBSET Engines]
  BY <1>1, <1>7
<1> QED
  BY <1>1, <1>4, <1>6, <1>8, EndInv

LEMMA RestartInv == IInv /\ Restart => IInv'
<1> SUFFICES ASSUME IInv, Restart PROVE IInv'
  OBVIOUS
<1>1. built' \in [Engines -> SUBSET Engines] /\ Ends(0) /\ UNCHANGED turns
  BY DEF Restart
<1>2. TurnsOK'
  BY <1>1 DEF IInv, TurnsOK
<1> QED
  BY <1>1, <1>2, EndInv DEF IInv, TypeOK

-----------------------------------------------------------------------------
(* The history *)

\* What the invariant says of one message of the history.
LEMMA HistoryFacts ==
    ASSUME IInv, NEW i \in DOMAIN history
    PROVE  /\ history[i] \in Entries
           /\ history[i].src \in DOMAIN request
           /\ history[i].good = request[history[i].src].good
           /\ history[i].kind \in {"plain", "result"} => history[i].shape = NoShape
           /\ history[i].shape # NoShape => Concerned(history[i].shape)
           /\ history[i].kind = "turn" =>
                  LET turn == turns[request[history[i].src].turn]
                  IN turn.by \in Tools => history[i].shape = turn.by
<1> DEFINE k == history[i].src
           p == history[i].part
<1>1. history[i] \in Entries /\ k \in 1 .. taken /\ history[i] = Entry(k, p)
  BY DEF IInv, TypeOK, InPlace
<1>2. k \in DOMAIN request /\ p \in Nat /\ (request[k].kind = "token" => request[k].good)
  <2>1. p \in Nat
    BY <1>1 DEF Entries
  <2>2. taken \in 0 .. Len(request) /\ Len(request) \in Nat /\ DOMAIN request = 1 .. Len(request)
    BY DEF IInv, TypeOK
  <2>3. k \in DOMAIN request
    BY <1>1, <2>2
  <2> QED
    BY <1>1, <2>1, <2>3 DEF IInv, StageOK
<1>3. TypeOK /\ TurnsOK /\ RequestOK
  BY DEF IInv
<1>4. /\ Entry(k, p).good = request[k].good
      /\ Entry(k, p).kind \in {"plain", "result"} => Entry(k, p).shape = NoShape
      /\ Entry(k, p).shape # NoShape =>
             request[k].turn > 0 /\ Entry(k, p).shape = turns[request[k].turn].by
      /\ Entry(k, p).kind = "turn" =>
             (turns[request[k].turn].by \in Tools => Entry(k, p).shape = turns[request[k].turn].by)
  BY <1>2, <1>3, EntryFacts
<1>5. history[i].shape # NoShape => Concerned(history[i].shape)
  BY <1>1, <1>2, <1>4 DEF Concerned
<1> QED
  BY <1>1, <1>2, <1>4, <1>5

LEMMA ExpandInv ==
    ASSUME IInv, stage = "expanding", taken < Len(request),
           request[taken + 1].kind = "token" => Decodes(request[taken + 1]),
           history' = Replay(taken + 1), taken' = taken + 1,
           UNCHANGED <<built, turns, stage, engine, chained, request, shaped, done, in_run,
                       known, reply>>
    PROVE  IInv'
<1> DEFINE k == taken + 1
           n == Parts(request[k])
           f == [p \in 1 .. n |-> Entry(k, p)]
           len == Len(history)
<1>1. /\ k \in DOMAIN request /\ taken \in Nat /\ k \in Nat /\ taken' = k
      /\ len \in Nat /\ history \in Seq(Entries) /\ k \in 0 .. Len(request)
  BY DEF IInv, TypeOK
<1>2. request[k].kind = "token" => request[k].good
  BY DEF Decodes
<1>3. n \in Nat \ {0} /\ \A p \in Nat : /\ Entry(k, p) \in Entries
                                         /\ Entry(k, p).src = k /\ Entry(k, p).part = p
  BY <1>1, <1>2, EntryFacts DEF IInv
<1>4. f \in [1 .. n -> Entries]
  BY <1>3
<1>5. history' = history \o f
  BY DEF Replay
<1>6. /\ history' \in Seq(Entries) /\ Len(history') = len + n
      /\ \A i \in 1 .. len : history'[i] = history[i]
      /\ \A i \in len + 1 .. len + n : history'[i] = f[i - len]
  <2> HIDE DEF f, n
  <2>1. history \in Seq(Entries) /\ n \in Nat
    BY <1>1, <1>3
  <2> DEFINE g == history \o f
  <2>2. g \in Seq(Entries) /\ Len(g) = Len(history) + n
    BY <1>4, <2>1, Spliced
  <2>3. \A i \in 1 .. Len(history) : g[i] = history[i]
    BY <1>4, <2>1, Spliced
  <2>4. \A i \in Len(history) + 1 .. Len(history) + n : g[i] = f[i - Len(history)]
    BY <1>4, <2>1, Spliced
  <2>5. history' = g
    BY <1>5
  <2> HIDE DEF g
  <2> QED
    BY <2>2, <2>3, <2>4, <2>5
<1>7. /\ DOMAIN history = 1 .. len /\ DOMAIN history' = 1 .. len + n
      /\ \A i \in len + 1 .. len + n : i - len \in 1 .. n /\ history'[i] = Entry(k, i - len)
  <2>1. \A i \in len + 1 .. len + n : i - len \in 1 .. n
    BY <1>1, <1>3
  <2>2. \A i \in 1 .. n : f[i] = Entry(k, i)
    OBVIOUS
  <2>3. DOMAIN history = 1 .. len /\ DOMAIN history' = 1 .. len + n
    <3> HIDE DEF n
    <3> QED
      BY <1>1, <1>6, LenProperties
  <2> HIDE DEF f, n, len, k
  <2> QED
    BY <1>6, <2>1, <2>2, <2>3
<1>8. \A i \in len + 1 .. len + n : /\ history'[i].src = k /\ history'[i].part = i - len
                                   /\ history'[i] = Entry(k, i - len)
  BY <1>3, <1>7
<1>9. \A j, p : Entry(j, p)' = Entry(j, p)
  BY DEF Entry, ReplayShape
<1>10. \A m : Parts(m)' = Parts(m)
  BY DEF Parts
<1>11. InPlace'
  <2> HIDE DEF n, len
  <2>1. \A i \in 1 .. len : /\ history[i].src \in 1 .. taken
                             /\ history[i].part \in 1 .. Parts(request[history[i].src])
                             /\ history[i] = Entry(history[i].src, history[i].part)
    BY <1>7 DEF IInv, InPlace
  <2>2. \A i, j \in DOMAIN history' : i < j => Before(history'[i], history'[j])
    <3>1. SUFFICES ASSUME NEW i \in 1 .. len + n, NEW j \in 1 .. len + n, i < j
                   PROVE  Before(history'[i], history'[j])
      BY <1>7
    <3>2. CASE j <= len
      <4>1. i \in 1 .. len /\ j \in 1 .. len
        BY <1>1, <1>3, <3>1, <3>2
      <4> QED
        BY <1>6, <1>7, <3>1, <4>1 DEF IInv, InPlace
    <3>3. CASE i <= len /\ j > len
      <4>1. i \in 1 .. len /\ j \in len + 1 .. len + n
        BY <1>1, <1>3, <3>1, <3>3
      <4>2. history'[i].src \in 1 .. taken /\ history'[j].src = taken + 1
        BY <1>6, <1>8, <2>1, <4>1
      <4> QED
        BY <1>1, <4>2 DEF Before
    <3>4. CASE i > len
      <4>1. i \in len + 1 .. len + n /\ j \in len + 1 .. len + n
        BY <1>1, <1>3, <3>1, <3>4
      <4>2. /\ history'[i].src = k /\ history'[j].src = k
            /\ history'[i].part = i - len /\ history'[j].part = j - len
        BY <1>8, <4>1
      <4>3. i - len < j - len
        BY <1>1, <3>1
      <4> QED
        BY <4>2, <4>3 DEF Before
    <3> QED
      BY <1>1, <1>3, <3>1, <3>2, <3>3, <3>4
  <2>3. \A i \in DOMAIN history' :
            /\ history'[i].src \in 1 .. taken'
            /\ history'[i].part \in 1 .. Parts(request[history'[i].src])
            /\ history'[i] = Entry(history'[i].src, history'[i].part)
    <3>1. SUFFICES ASSUME NEW i \in 1 .. len + n
                   PROVE  /\ history'[i].src \in 1 .. k
                          /\ history'[i].part \in 1 .. Parts(request[history'[i].src])
                          /\ history'[i] = Entry(history'[i].src, history'[i].part)
      BY <1>7
    <3>2. CASE i <= len
      <4>1. i \in 1 .. len
        BY <3>2, <1>1
      <4>2. \A x \in 1 .. taken : x \in 1 .. k
        BY <1>1
      <4> QED
        BY <1>6, <2>1, <4>1, <4>2
    <3>3. CASE i > len
      <4>1. i \in len + 1 .. len + n /\ k \in 1 .. k
        BY <1>1, <1>3, <3>3
      <4> QED
        BY <1>7, <1>8, <4>1 DEF n
    <3> QED
      BY <1>1, <3>2, <3>3
  <2>4. \A x \in 1 .. taken' : \A p \in 1 .. Parts(request[x]) :
            \E i \in DOMAIN history' : history'[i].src = x /\ history'[i].part = p
    <3> HIDE DEF k
    <3>0. taken' = k /\ DOMAIN history' = 1 .. len + n
      BY <1>1, <1>7
    <3> SUFFICES ASSUME NEW x \in 1 .. taken', NEW p \in 1 .. Parts(request[x])
                 PROVE  \E i \in DOMAIN history' : history'[i].src = x /\ history'[i].part = p
      OBVIOUS
    <3> USE DEF k
    <3>1. x \in 1 .. k
      BY <3>0
    <3>2. CASE x \in 1 .. taken
      <4>1. PICK i \in 1 .. len : history[i].src = x /\ history[i].part = p
        BY <1>7, <3>2 DEF IInv, InPlace
      <4>2. i \in 1 .. len + n
        BY <1>1, <1>3
      <4> QED
        BY <1>6, <3>0, <4>1, <4>2
    <3>3. CASE x = k
      <4>1. p \in 1 .. n
        BY <3>3 DEF n
      <4>2. len + p \in len + 1 .. len + n /\ len + p \in 1 .. len + n /\ (len + p) - len = p
        BY <1>1, <1>3, <4>1
      <4> QED
        BY <1>8, <3>0, <3>3, <4>2
    <3> QED
      BY <1>1, <3>1, <3>2, <3>3
  <2> QED
    BY <1>9, <1>10, <2>2, <2>3, <2>4 DEF InPlace
<1>12. shaped = <<>> /\ done = 0 /\ DOMAIN shaped = {} /\ Len(shaped) = 0
  BY DEF IInv, StageOK
<1>13. TypeOK'
  <2>1. Len(history') \in Nat
    BY <1>6
  <2> QED
    BY <1>1, <1>6, <1>12, <2>1 DEF IInv, TypeOK
<1>14. TurnsOK' /\ RequestOK'
  BY DEF IInv, TurnsOK, RequestOK
<1>15. StageOK'
  <2>1. \A x \in 1 .. k : x \in 1 .. taken \/ x = k
    BY <1>1
  <2> QED
    BY <1>1, <1>2, <1>12, <2>1 DEF IInv, StageOK
<1>16. ShapedOK' /\ OneMessagePerRun' /\ ShapesOK' /\ ResultsFit'
  BY <1>12 DEF IInv, ShapedOK, OneMessagePerRun, ShapesOK, ResultsFit
<1>17. LastsOK'
  <2>1. \A j \in 1 .. Len(shaped) + 1 : TurnsBefore(j)' = {}
    BY <1>12 DEF TurnsBefore
  <2>2. \A B : ShapedFor(B)' = {}
    BY <1>12 DEF ShapedFor
  <2> QED
    BY <1>12, <2>1, <2>2 DEF LastsOK
<1> QED
  BY <1>11, <1>13, <1>14, <1>15, <1>16, <1>17 DEF IInv

LEMMA CheckInv ==
    ASSUME IInv, stage = "expanding", taken = Len(request), WellFormed,
           built' = IF chained THEN [built EXCEPT ![engine] = @ \cup {engine}] ELSE built,
           known' = Pooled', stage' = "shaping",
           UNCHANGED <<turns, engine, chained, request, taken, history, shaped, done, in_run, reply>>
    PROVE  IInv'
<1>0. /\ engine \in Engines
      /\ built' \in [Engines -> SUBSET Engines] /\ known' \in SUBSET Engines
  BY DEF IInv, StageOK, TypeOK, Pooled
<1>1. shaped = <<>> /\ done = 0 /\ DOMAIN shaped = {} /\ Len(shaped) = 0
  BY DEF IInv, StageOK
<1>2. TypeOK' /\ TurnsOK' /\ RequestOK'
  <2>1. TypeOK'
    BY <1>0 DEF IInv, TypeOK
  <2>2. TurnsOK'
    BY DEF IInv, TurnsOK
  <2>3. RequestOK'
    BY DEF IInv, RequestOK
  <2> QED
    BY <2>1, <2>2, <2>3
<1>3. StageOK'
  BY <1>0 DEF IInv, StageOK, WellFormed
<1>4. InPlace'
  BY <1>0 DEF IInv, InPlace, Entry, ReplayShape, Parts
<1>5. ShapedOK' /\ OneMessagePerRun' /\ ShapesOK' /\ ResultsFit'
  BY <1>1 DEF IInv, ShapedOK, OneMessagePerRun, ShapesOK, ResultsFit
<1>6. LastsOK'
  <2>1. \A j \in 1 .. Len(shaped) + 1 : TurnsBefore(j)' = {}
    BY <1>1 DEF TurnsBefore
  <2>2. \A B : ShapedFor(B)' = {}
    BY <1>1 DEF ShapedFor
  <2> QED
    BY <1>1, <2>1, <2>2 DEF LastsOK
<1> QED
  BY <1>2, <1>3, <1>4, <1>5, <1>6 DEF IInv

-----------------------------------------------------------------------------
(* What is sent *)

\* The engine that builds a result is the one asked for or a turn's, and the last
\* turn's if the chain has built that.
LEMMA BuilderFits ==
    ASSUME IInv, stage = "shaping"
    PROVE  /\ Builder(shaped) \in Engines /\ Concerned(Builder(shaped))
           /\ TurnsBefore(Len(shaped) + 1) # {} =>
                  LET turn == shaped[LastOf(TurnsBefore(Len(shaped) + 1))]
                  IN turn.shape \in known => Builder(shaped) = turn.shape
<1> DEFINE e == Builder(shaped)
           n == Len(shaped)
           T == TurnsBefore(n + 1)
<1>1. /\ n \in Nat /\ DOMAIN shaped = 1 .. n /\ engine \in Engines
      /\ Pooled \subseteq Engines /\ known \subseteq Pooled
      /\ chained \in BOOLEAN /\ shaped \in Seq(Sent)
  BY DEF IInv, TypeOK, StageOK, Pooled
<1>2. NoShape \notin Pooled /\ Concerned(engine)
  BY <1>1, TurnsAssumption DEF Concerned
<1>3. ASSUME NEW t \in 1 .. n, IsLast(T, t)
      PROVE  /\ LastOf(T) = t /\ shaped[t].shape # NoShape /\ Concerned(shaped[t].shape)
             /\ \A j \in T : j <= t
  <2>1. T \in SUBSET Int
    BY <1>1 DEF TurnsBefore
  <2>2. t \in T /\ \A j \in T : j <= t
    BY <1>3 DEF IsLast
  <2>3. shaped[t].shape # NoShape
    BY <2>2 DEF TurnsBefore
  <2>4. Concerned(shaped[t].shape)
    BY <1>1, <2>3 DEF IInv, ShapesOK
  <2> HIDE DEF T
  <2> QED
    BY <1>3, <2>1, <2>2, <2>3, <2>4, LastIs
<1>4. T # {} => \E t \in 1 .. n : IsLast(T, t)
  <2>1. n + 1 \in 1 .. n + 1
    BY <1>1
  <2> QED
    BY <2>1 DEF IInv, LastsOK
<1>5. CASE ~chained
  <2>1. e = engine /\ known \subseteq {engine}
    BY <1>1, <1>5 DEF Builder, Pooled
  <2> QED
    BY <1>1, <1>2, <2>1
<1>6. CASE chained /\ Readable(shaped) = {}
  <2>1. e = engine
    BY <1>6 DEF Builder
  <2>2. ASSUME T # {}
        PROVE  shaped[LastOf(T)].shape \notin known
    <3>1. PICK t \in 1 .. n : IsLast(T, t)
      BY <1>4, <2>2
    <3>2. LastOf(T) = t /\ t \in DOMAIN shaped
      BY <1>1, <1>3, <3>1
    <3> QED
      BY <1>1, <1>6, <3>2 DEF Readable
  <2> QED
    BY <1>1, <1>2, <2>1, <2>2
<1>7. CASE chained /\ Readable(shaped) # {}
  <2>1. PICK r \in 1 .. n : IsLast(Readable(shaped), r)
    <3>1. Readable(shaped) = ShapedFor(Pooled)
      BY DEF Readable, ShapedFor
    <3> QED
      BY <1>1, <1>7, <3>1 DEF IInv, LastsOK
  <2>2. r \in Readable(shaped) /\ \A j \in Readable(shaped) : j <= r
    BY <2>1 DEF IsLast
  <2>3. Readable(shaped) \in SUBSET Int
    BY <1>1 DEF Readable
  <2>4. e = shaped[r].shape
    BY <1>7, <2>1, <2>3, LastIs DEF Builder
  <2>5. e \in Pooled
    BY <2>2, <2>4 DEF Readable
  <2>6. Concerned(e)
    BY <1>1, <1>2, <2>4, <2>5 DEF IInv, ShapesOK
  <2>7. ASSUME T # {}, shaped[LastOf(T)].shape \in known
        PROVE  e = shaped[LastOf(T)].shape
    <3>1. PICK t \in 1 .. n : IsLast(T, t)
      BY <1>4, <2>7
    <3>2. LastOf(T) = t /\ t \in T /\ \A j \in T : j <= t
      BY <1>3, <3>1 DEF IsLast
    <3>3. t \in Readable(shaped) /\ t <= r
      BY <1>1, <2>2, <2>7, <3>2 DEF Readable
    <3>4. CASE t = r
      BY <2>4, <3>2, <3>4
    <3>5. CASE t # r
      <4>1. t < r
        BY <1>1, <3>3, <3>5
      <4>2. r \notin T
        BY <3>2, <4>1
      <4>3. shaped[r].kind \notin {"turn", "native"}
        <5>1. r \in 1 .. (n + 1) - 1
          BY <1>1
        <5>2. shaped[r].shape # NoShape
          BY <1>2, <2>4, <2>5
        <5> QED
          BY <4>2, <5>1, <5>2 DEF TurnsBefore
      <4>4. shaped[r].kind = "result"
        <5>1. SUFFICES ASSUME shaped[r].kind # "result" PROVE FALSE
          OBVIOUS
        <5>2. /\ shaped[r].kind = history[shaped[r].first].kind
              /\ shaped[r].shape = history[shaped[r].first].shape
              /\ shaped[r].first \in 1 .. done
          BY <1>1, <5>1 DEF IInv, ShapedOK
        <5>3. shaped[r].first \in DOMAIN history
          BY <5>2 DEF IInv, TypeOK
        <5>4. shaped[r].kind \in {"plain", "native", "turn", "result"}
          <6>1. shaped[r] \in Sent
            BY <1>1
          <6> QED
            BY <6>1 DEF Sent
        <5>5. history[shaped[r].first].kind \in {"plain", "result"} =>
                  history[shaped[r].first].shape = NoShape
          BY <5>3, HistoryFacts
        <5> QED
          BY <1>2, <2>4, <2>5, <4>3, <5>1, <5>2, <5>4, <5>5
      <4>5. IsLast(TurnsBefore(r), t) /\ TurnsBefore(r) \in SUBSET Int
        <5>1. TurnsBefore(r) \subseteq T
          BY <1>1 DEF TurnsBefore
        <5>2. t \in TurnsBefore(r)
          BY <1>1, <3>2, <4>1 DEF TurnsBefore
        <5>3. TurnsBefore(r) \in SUBSET Int
          BY DEF TurnsBefore
        <5> HIDE DEF T
        <5> QED
          BY <3>2, <5>1, <5>2, <5>3 DEF IsLast
      <4>6. TurnsBefore(r) # {} /\ LastOf(TurnsBefore(r)) = t
        BY <4>5, LastIs DEF IsLast
      <4>7. shaped[t].shape \in known
        BY <2>7, <3>2
      <4> QED
        BY <1>1, <2>4, <3>2, <4>4, <4>6, <4>7 DEF IInv, ResultsFit
    <3> QED
      BY <3>4, <3>5
  <2> QED
    BY <1>1, <2>5, <2>6, <2>7
<1> QED
  BY <1>1, <1>5, <1>6, <1>7

LEMMA AppendInv ==
    ASSUME IInv, stage = "shaping", done < Len(history), NEW x \in Sent,
           x.first = done + 1, x.last = done + 1,
           (x.kind = "result") <=> (history[done + 1].kind = "result"),
           x.kind = "result" =>
               x.shape = Builder(shaped) /\ ~Merges(shaped, Builder(shaped)),
           x.kind # "result" =>
               x.kind = history[done + 1].kind /\ x.shape = history[done + 1].shape,
           shaped' = Append(shaped, x), done' = done + 1,
           in_run' = (history[done + 1].kind = "result"),
           UNCHANGED <<built, turns, stage, engine, chained, request, taken, history, known,
                       reply>>
    PROVE  IInv'
<1> DEFINE d == done + 1
<1>0. PICK n \in Nat : n = Len(shaped)
  BY DEF IInv, TypeOK
<1>1. /\ n = Len(shaped) /\ n \in Nat /\ done \in Nat /\ d \in Nat /\ d > 0 /\ d \in 1 .. Len(history)
      /\ d \in 0 .. Len(history) /\ shaped \in Seq(Sent) /\ DOMAIN shaped = 1 .. n
      /\ d \in DOMAIN history
  BY <1>0 DEF IInv, TypeOK
<1>2. /\ shaped' \in Seq(Sent) /\ Len(shaped') = n + 1 /\ DOMAIN shaped' = 1 .. n + 1
      /\ shaped'[n + 1] = x /\ \A j \in 1 .. n : shaped'[j] = shaped[j]
  BY <1>1
<1>3. \A j \in 1 .. n + 1 : j \in 1 .. n \/ j = n + 1
  BY <1>1
<1>4. TypeOK'
  BY <1>1, <1>2 DEF IInv, TypeOK
<1>5. TurnsOK' /\ RequestOK' /\ StageOK'
  <2>1. TurnsOK'
    BY DEF IInv, TurnsOK
  <2>2. RequestOK'
    BY DEF IInv, RequestOK
  <2>3. StageOK'
    BY DEF IInv, StageOK, Pooled
  <2> QED
    BY <2>1, <2>2, <2>3
<1>6. InPlace'
  BY DEF IInv, InPlace, Entry, ReplayShape, Parts
<1>7. ShapedOK'
  <2>1. shaped' # <<>> /\ done' # 0
    BY <1>1, <1>2
  <2>2. in_run' <=> shaped'[Len(shaped')].kind = "result"
    BY <1>2
  <2>3. ASSUME NEW j \in 1 .. n
        PROVE  /\ shaped'[j].first \in 1 .. d /\ shaped'[j].last \in 1 .. d
               /\ shaped'[j].kind = "result" => shaped'[j].shape \in Engines
               /\ shaped'[j].kind # "result" =>
                      shaped'[j].kind = history[shaped'[j].first].kind
                      /\ shaped'[j].shape = history[shaped'[j].first].shape
    <3>1. \A i \in 1 .. done : i \in 1 .. d
      BY <1>1
    <3>2. j \in DOMAIN shaped /\ shaped'[j] = shaped[j]
      BY <1>1, <1>2
    <3> QED
      BY <3>1, <3>2 DEF IInv, ShapedOK
  <2>4. /\ x.first \in 1 .. d /\ x.last \in 1 .. d
        /\ x.kind = "result" => x.shape \in Engines
        /\ x.kind # "result" => x.kind = history[x.first].kind /\ x.shape = history[x.first].shape
    BY <1>1, BuilderFits
  <2> HIDE DEF d
  <2> QED
    BY <1>2, <1>3, <2>1, <2>2, <2>3, <2>4 DEF ShapedOK, d
<1>8. OneMessagePerRun'
  <2>1. shaped'[1].first = 1 /\ shaped'[Len(shaped')].last = d
    <3>1. CASE n = 0
      <4>1. done = 0
        BY <1>1, <3>1 DEF IInv, ShapedOK
      <4> QED
        BY <1>2, <3>1, <4>1
    <3>2. CASE n > 0
      <4>1. shaped[1].first = 1 /\ 1 \in 1 .. n
        BY <1>1, <3>2 DEF IInv, OneMessagePerRun
      <4> QED
        BY <1>2, <4>1
    <3> QED
      BY <1>1, <3>1, <3>2
  <2>2. n > 0 => shaped[n].last = done
    BY <1>1 DEF IInv, OneMessagePerRun
  <2>3. ASSUME NEW j \in 1 .. n
        PROVE  /\ shaped'[j].first <= shaped'[j].last
               /\ j > 1 => shaped'[j].first = shaped'[j - 1].last + 1
               /\ shaped'[j].first < shaped'[j].last =>
                      shaped'[j].kind = "result" /\ shaped'[j].shape \in Joins
               /\ \A i \in shaped'[j].first .. shaped'[j].last :
                      (history[i].kind = "result") <=> (shaped'[j].kind = "result")
               /\ j > 1 =>
                   ~(/\ shaped'[j].kind = "result" /\ shaped'[j - 1].kind = "result"
                     /\ shaped'[j].shape = shaped'[j - 1].shape /\ shaped'[j].shape \in Joins)
    <3>1. j \in DOMAIN shaped /\ shaped'[j] = shaped[j]
          /\ (j > 1 => j - 1 \in 1 .. n /\ shaped'[j - 1] = shaped[j - 1])
      BY <1>1, <1>2
    <3> QED
      BY <3>1 DEF IInv, OneMessagePerRun
  <2>4. /\ x.first <= x.last /\ ~(x.first < x.last)
        /\ n + 1 > 1 => x.first = shaped'[(n + 1) - 1].last + 1
        /\ \A i \in x.first .. x.last : (history[i].kind = "result") <=> (x.kind = "result")
    <3>1. \A i \in x.first .. x.last : i = d
      BY <1>1
    <3>2. n > 0 => n \in 1 .. n /\ (n + 1) - 1 = n
      BY <1>1
    <3>3. n + 1 > 1 => x.first = shaped'[(n + 1) - 1].last + 1
      BY <1>1, <1>2, <2>2, <3>2
    <3>4. x.first <= x.last /\ ~(x.first < x.last)
      BY <1>1
    <3> QED
      BY <3>1, <3>3, <3>4
  <2>5. n + 1 > 1 =>
            ~(/\ x.kind = "result" /\ shaped'[(n + 1) - 1].kind = "result"
              /\ x.shape = shaped'[(n + 1) - 1].shape /\ x.shape \in Joins)
    <3>1. SUFFICES ASSUME n > 0, x.kind = "result", shaped[n].kind = "result",
                          x.shape = shaped[n].shape, x.shape \in Joins
                   PROVE  FALSE
      <4>1. n + 1 > 1 => n > 0 /\ shaped'[(n + 1) - 1] = shaped[n]
        BY <1>1, <1>2
      <4> QED
        BY <4>1
    <3>2. in_run
      BY <1>1, <3>1 DEF IInv, ShapedOK
    <3> QED
      BY <1>0, <3>1, <3>2 DEF Merges
  <2> QED
    <3> HIDE DEF d
    <3>1. \A j \in DOMAIN shaped' :
              /\ shaped'[j].first <= shaped'[j].last
              /\ j > 1 => shaped'[j].first = shaped'[j - 1].last + 1
              /\ shaped'[j].first < shaped'[j].last =>
                     shaped'[j].kind = "result" /\ shaped'[j].shape \in Joins
              /\ \A i \in shaped'[j].first .. shaped'[j].last :
                     (history[i].kind = "result") <=> (shaped'[j].kind = "result")
      BY <1>2, <1>3, <2>3, <2>4
    <3>2. \A j \in DOMAIN shaped' : j > 1 =>
              ~(/\ shaped'[j].kind = "result" /\ shaped'[j - 1].kind = "result"
                /\ shaped'[j].shape = shaped'[j - 1].shape /\ shaped'[j].shape \in Joins)
      BY <1>2, <1>3, <2>3, <2>5
    <3> QED
      BY <2>1, <3>1, <3>2 DEF OneMessagePerRun, d
<1>9. \A e : Concerned(e)' <=> Concerned(e)
  BY DEF Concerned
<1>10. ShapesOK'
  <2>1. x.shape # NoShape => Concerned(x.shape)
    BY <1>1, BuilderFits, HistoryFacts
  <2>2. \A j \in 1 .. n : shaped'[j].shape # NoShape => Concerned(shaped'[j].shape)
    BY <1>1, <1>2 DEF IInv, ShapesOK
  <2> HIDE DEF d
  <2> QED
    BY <1>2, <1>3, <1>9, <2>1, <2>2 DEF ShapesOK
<1>11. \A j \in 1 .. n + 1 : TurnsBefore(j)' = TurnsBefore(j)
  <2>1. \A j \in 1 .. n + 1 : \A i \in 1 .. j - 1 : shaped'[i] = shaped[i]
    BY <1>1, <1>2
  <2> QED
    BY <2>1 DEF TurnsBefore
<1>12. LastsOK'
  <2>1. ASSUME NEW j \in 1 .. n + 1, TurnsBefore(j)' # {}
        PROVE  \E m \in 1 .. n + 1 : IsLast(TurnsBefore(j)', m)
    <3>1. TurnsBefore(j) # {}
      BY <1>11, <2>1
    <3>2. PICK m \in 1 .. n : IsLast(TurnsBefore(j), m)
      BY <1>0, <3>1 DEF IInv, LastsOK
    <3>3. m \in 1 .. n + 1
      BY <1>1
    <3> QED
      BY <1>11, <3>2, <3>3
  <2>2. ASSUME TurnsBefore(n + 2)' # {}
        PROVE  \E m \in 1 .. n + 1 : IsLast(TurnsBefore(n + 2)', m)
    <3>1. /\ \A i \in TurnsBefore(n + 2)' : i \in 1 .. n + 1
          /\ \A i \in 1 .. n : i \in TurnsBefore(n + 2)' <=> i \in TurnsBefore(n + 1)
          /\ TurnsBefore(n + 1) \subseteq 1 .. n
      <4>1. \A i \in 1 .. n : shaped'[i] = shaped[i]
        BY <1>2
      <4>2. 1 .. (n + 2) - 1 = 1 .. n + 1 /\ 1 .. (n + 1) - 1 = 1 .. n
        BY <1>1
      <4>3. \A i \in 1 .. n : i \in 1 .. n + 1
        BY <1>1
      <4> QED
        BY <4>1, <4>2, <4>3 DEF TurnsBefore
    <3>2. CASE n + 1 \in TurnsBefore(n + 2)'
      <4>1. \A j \in TurnsBefore(n + 2)' : j <= n + 1
        BY <1>1, <3>1
      <4>2. n + 1 \in 1 .. n + 1
        BY <1>1
      <4> QED
        BY <3>2, <4>1, <4>2 DEF IsLast
    <3>3. CASE n + 1 \notin TurnsBefore(n + 2)'
      <4>1. \A i \in TurnsBefore(n + 2)' : i \in 1 .. n
        BY <1>3, <3>1, <3>3
      <4>2. TurnsBefore(n + 1) # {} /\ n + 1 \in 1 .. n + 1
        BY <1>1, <2>2, <3>1, <4>1
      <4>3. PICK m \in 1 .. n : IsLast(TurnsBefore(n + 1), m)
        BY <1>0, <4>2 DEF IInv, LastsOK
      <4>4. m \in 1 .. n + 1
        BY <1>1
      <4> QED
        BY <3>1, <4>1, <4>3, <4>4 DEF IsLast
    <3> QED
      BY <3>2, <3>3
  <2>3. ASSUME NEW B \in SUBSET Engines, ShapedFor(B)' # {}
        PROVE  \E m \in 1 .. n + 1 : IsLast(ShapedFor(B)', m)
    <3>1. /\ ShapedFor(B)' \subseteq 1 .. n + 1
          /\ \A i \in 1 .. n : i \in ShapedFor(B)' <=> i \in ShapedFor(B)
          /\ ShapedFor(B) \subseteq 1 .. n
      <4>1. \A i \in 1 .. n : shaped'[i] = shaped[i] /\ i \in 1 .. n + 1
        BY <1>1, <1>2
      <4> QED
        BY <1>1, <1>2, <4>1 DEF ShapedFor
    <3>2. CASE n + 1 \in ShapedFor(B)'
      <4>1. \A j \in ShapedFor(B)' : j <= n + 1
        BY <1>1, <3>1
      <4>2. n + 1 \in 1 .. n + 1
        BY <1>1
      <4> QED
        BY <3>2, <4>1, <4>2 DEF IsLast
    <3>3. CASE n + 1 \notin ShapedFor(B)'
      <4>1. \A i \in ShapedFor(B)' : i \in 1 .. n
        BY <1>3, <3>1, <3>3
      <4>2. ShapedFor(B) # {}
        BY <2>3, <3>1, <4>1
      <4>3. PICK m \in 1 .. n : IsLast(ShapedFor(B), m)
        BY <1>0, <4>2 DEF IInv, LastsOK
      <4>4. m \in 1 .. n + 1
        BY <1>1
      <4> QED
        BY <3>1, <4>1, <4>3, <4>4 DEF IsLast
    <3> QED
      BY <3>2, <3>3
  <2>4. \A j \in 1 .. Len(shaped') + 1 : j \in 1 .. n + 1 \/ j = n + 2
    BY <1>1, <1>2
  <2> QED
    BY <1>2, <2>1, <2>2, <2>3, <2>4 DEF LastsOK
<1>13. ResultsFit'
  <2>1. ASSUME NEW j \in 1 .. n, shaped'[j].kind = "result", TurnsBefore(j)' # {},
               shaped'[LastOf(TurnsBefore(j)')].shape \in known
        PROVE  shaped'[j].shape = shaped'[LastOf(TurnsBefore(j)')].shape
    <3>1. j \in 1 .. n + 1 /\ j \in 1 .. Len(shaped) + 1
      BY <1>1
    <3>2. TurnsBefore(j)' = TurnsBefore(j) /\ TurnsBefore(j) # {}
      BY <1>11, <2>1, <3>1
    <3>3. PICK m \in 1 .. n : IsLast(TurnsBefore(j), m)
      BY <1>0, <3>1, <3>2 DEF IInv, LastsOK
    <3>4. TurnsBefore(j) \in SUBSET Int
      BY DEF TurnsBefore
    <3>5. LastOf(TurnsBefore(j)) = m
      BY <3>3, <3>4, LastIs
    <3>6. shaped'[j] = shaped[j] /\ shaped'[m] = shaped[m] /\ j \in DOMAIN shaped
      BY <1>1, <1>2
    <3> QED
      BY <2>1, <3>2, <3>5, <3>6 DEF IInv, ResultsFit
  <2>2. ASSUME x.kind = "result", TurnsBefore(n + 1)' # {},
               shaped'[LastOf(TurnsBefore(n + 1)')].shape \in known
        PROVE  x.shape = shaped'[LastOf(TurnsBefore(n + 1)')].shape
    <3>1. n + 1 \in 1 .. n + 1
      BY <1>1
    <3>2. TurnsBefore(n + 1)' = TurnsBefore(n + 1) /\ TurnsBefore(n + 1) # {}
      BY <1>11, <2>2, <3>1
    <3>3. PICK m \in 1 .. n : IsLast(TurnsBefore(n + 1), m)
      BY <1>0, <3>1, <3>2 DEF IInv, LastsOK
    <3>4. TurnsBefore(n + 1) \in SUBSET Int
      BY DEF TurnsBefore
    <3>5. LastOf(TurnsBefore(n + 1)) = m
      BY <3>3, <3>4, LastIs
    <3>6. shaped'[m] = shaped[m]
      BY <1>2
    <3>7. x.shape = Builder(shaped)
      BY <2>2
    <3> QED
      BY <2>2, <3>2, <3>5, <3>6, <3>7, <1>0, BuilderFits
  <2> HIDE DEF d
  <2> QED
    BY <1>2, <1>3, <2>1, <2>2 DEF ResultsFit
<1> QED
  BY <1>4, <1>5, <1>6, <1>7, <1>8, <1>10, <1>12, <1>13 DEF IInv

\* Joining a result to the last message moves only where that ends.
LEMMA MergeInv ==
    ASSUME IInv, stage = "shaping", done < Len(history),
           history[done + 1].kind = "result", Merges(shaped, Builder(shaped)),
           shaped' \in Seq(Sent), Len(shaped') = Len(shaped),
           \A j \in DOMAIN shaped :
               /\ shaped'[j].kind = shaped[j].kind /\ shaped'[j].shape = shaped[j].shape
               /\ shaped'[j].first = shaped[j].first
               /\ shaped'[j].last = IF j = Len(shaped) THEN done + 1 ELSE shaped[j].last,
           done' = done + 1, in_run' = TRUE,
           UNCHANGED <<built, turns, stage, engine, chained, request, taken, history, known,
                       reply>>
    PROVE  IInv'
<1> DEFINE d == done + 1
<1>0. PICK n \in Nat : n = Len(shaped)
  <2>1. shaped \in Seq(Sent)
    BY DEF IInv, TypeOK
  <2> QED
    BY <2>1, LenProperties
<1>1. /\ n = Len(shaped) /\ n \in Nat /\ done \in Nat /\ d \in Nat /\ d \in 0 .. Len(history)
      /\ shaped \in Seq(Sent) /\ DOMAIN shaped = 1 .. n
  BY <1>0 DEF IInv, TypeOK
<1>2. /\ in_run /\ n > 0 /\ n \in 1 .. n /\ shaped[n].kind = "result" /\ shaped[n].shape \in Joins
      /\ shaped[n].last = done
  BY <1>1 DEF IInv, ShapedOK, OneMessagePerRun, Merges
<1>4. Len(shaped') = n /\ DOMAIN shaped' = 1 .. n
  BY <1>1
<1>5. \A j \in 1 .. n : /\ shaped'[j].kind = shaped[j].kind /\ shaped'[j].shape = shaped[j].shape
                         /\ shaped'[j].first = shaped[j].first
                         /\ shaped'[j].last = IF j = n THEN d ELSE shaped[j].last
  BY <1>1
<1>6. TypeOK'
  BY <1>1, <1>4 DEF IInv, TypeOK
<1>7. TurnsOK' /\ RequestOK' /\ StageOK'
  BY <1>2, <1>4 DEF IInv, TurnsOK, RequestOK, StageOK, Pooled
<1>8. InPlace'
  BY DEF IInv, InPlace, Entry, ReplayShape, Parts
<1>9. ShapedOK'
  <2>1. \A i \in 1 .. done : i \in 1 .. d
    BY <1>1
  <2>2. d \in 1 .. d /\ done' # 0 /\ shaped' # <<>>
    BY <1>1, <1>2, <1>4
  <2>3. in_run' <=> shaped'[Len(shaped')].kind = "result"
    BY <1>2, <1>4, <1>5
  <2>4. ASSUME NEW j \in 1 .. n
        PROVE  /\ shaped'[j].first \in 1 .. d /\ shaped'[j].last \in 1 .. d
               /\ shaped'[j].kind = "result" => shaped'[j].shape \in Engines
               /\ shaped'[j].kind # "result" =>
                      shaped'[j].kind = history[shaped'[j].first].kind
                      /\ shaped'[j].shape = history[shaped'[j].first].shape
    <3>1. /\ shaped[j].first \in 1 .. done /\ shaped[j].last \in 1 .. done
          /\ shaped[j].kind = "result" => shaped[j].shape \in Engines
          /\ shaped[j].kind # "result" =>
                 shaped[j].kind = history[shaped[j].first].kind
                 /\ shaped[j].shape = history[shaped[j].first].shape
      BY <1>1 DEF IInv, ShapedOK
    <3> QED
      BY <1>5, <2>1, <2>2, <3>1
  <2> QED
    BY <1>4, <2>2, <2>3, <2>4 DEF ShapedOK
<1>10. OneMessagePerRun'
  <2>1. shaped'[1].first = 1 /\ shaped'[Len(shaped')].last = d
    <3>1. 1 \in 1 .. n /\ shaped[1].first = 1
      BY <1>1, <1>2 DEF IInv, OneMessagePerRun
    <3> QED
      BY <1>1, <1>2, <1>4, <1>5, <3>1
  <2>2. \A j \in 1 .. n :
            /\ shaped'[j].first <= shaped'[j].last
            /\ j > 1 => shaped'[j].first = shaped'[j - 1].last + 1
            /\ shaped'[j].first < shaped'[j].last =>
                   shaped'[j].kind = "result" /\ shaped'[j].shape \in Joins
            /\ \A i \in shaped'[j].first .. shaped'[j].last :
                   (history[i].kind = "result") <=> (shaped'[j].kind = "result")
    <3>1. SUFFICES ASSUME NEW j \in 1 .. n
                   PROVE  /\ shaped'[j].first <= shaped'[j].last
                          /\ j > 1 => shaped'[j].first = shaped'[j - 1].last + 1
                          /\ shaped'[j].first < shaped'[j].last =>
                                 shaped'[j].kind = "result" /\ shaped'[j].shape \in Joins
                          /\ \A i \in shaped'[j].first .. shaped'[j].last :
                              (history[i].kind = "result") <=> (shaped'[j].kind = "result")
      OBVIOUS
    <3>2. /\ shaped[j].first <= shaped[j].last
          /\ j > 1 => shaped[j].first = shaped[j - 1].last + 1
          /\ shaped[j].first < shaped[j].last =>
                 shaped[j].kind = "result" /\ shaped[j].shape \in Joins
          /\ \A i \in shaped[j].first .. shaped[j].last :
                 (history[i].kind = "result") <=> (shaped[j].kind = "result")
      BY <1>1 DEF IInv, OneMessagePerRun
    <3>3. j > 1 => j - 1 \in 1 .. n /\ j - 1 # n
      BY <1>1
    <3>4. j > 1 => shaped'[j].first = shaped'[j - 1].last + 1
      BY <1>5, <3>2, <3>3
    <3>5. CASE j # n
      BY <1>5, <3>2, <3>4, <3>5
    <3>6. CASE j = n
      <4>0. shaped[n] \in Sent
        BY <1>1, <1>2
      <4>1. shaped[n].first \in Nat
        BY <4>0 DEF Sent
      <4>2. shaped'[j].first = shaped[n].first /\ shaped'[j].last = d
            /\ shaped'[j].kind = "result" /\ shaped'[j].shape \in Joins
        BY <1>2, <1>5, <3>6
      <4>3. shaped'[j].first <= shaped'[j].last
        BY <1>1, <1>2, <3>2, <3>6, <4>1, <4>2
      <4>4. \A i \in shaped[n].first .. d : i \in shaped[n].first .. done \/ i = d
        BY <1>1, <4>1
      <4>5. \A i \in shaped'[j].first .. shaped'[j].last : history[i].kind = "result"
        BY <1>2, <3>2, <3>6, <4>2, <4>4
      <4> QED
        BY <3>4, <4>2, <4>3, <4>5
    <3> QED
      BY <3>5, <3>6
  <2>3. \A j \in 1 .. n : j > 1 =>
            ~(/\ shaped'[j].kind = "result" /\ shaped'[j - 1].kind = "result"
              /\ shaped'[j].shape = shaped'[j - 1].shape /\ shaped'[j].shape \in Joins)
    <3>1. \A j \in 1 .. n : j > 1 => j - 1 \in 1 .. n
      BY <1>1
    <3> QED
      BY <1>1, <1>5, <3>1 DEF IInv, OneMessagePerRun
  <2> HIDE DEF d
  <2> QED
    BY <1>4, <2>1, <2>2, <2>3 DEF OneMessagePerRun, d
<1>11. ShapesOK'
  <2>1. \A e : Concerned(e)' <=> Concerned(e)
    BY DEF Concerned
  <2> QED
    BY <1>1, <1>4, <1>5, <2>1 DEF IInv, ShapesOK
<1>12. \A j \in 1 .. n + 1 : TurnsBefore(j)' = TurnsBefore(j)
  <2>1. \A j \in 1 .. n + 1 : \A i \in 1 .. j - 1 :
            shaped'[i].kind = shaped[i].kind /\ shaped'[i].shape = shaped[i].shape
    BY <1>1, <1>5
  <2> QED
    BY <2>1 DEF TurnsBefore
<1>13. \A B : ShapedFor(B)' = ShapedFor(B)
  BY <1>1, <1>4, <1>5 DEF ShapedFor
<1>14. LastsOK'
  <2>1. \A j \in 1 .. n + 1 :
            TurnsBefore(j)' # {} => \E m \in 1 .. n : IsLast(TurnsBefore(j)', m)
    BY <1>0, <1>12 DEF IInv, LastsOK
  <2>2. \A B \in SUBSET Engines :
            ShapedFor(B)' # {} => \E m \in 1 .. n : IsLast(ShapedFor(B)', m)
    BY <1>0, <1>13 DEF IInv, LastsOK
  <2> QED
    BY <1>4, <2>1, <2>2 DEF LastsOK
<1>15. ResultsFit'
  <2>1. ASSUME NEW j \in 1 .. n, shaped'[j].kind = "result", TurnsBefore(j)' # {},
               shaped'[LastOf(TurnsBefore(j)')].shape \in known
        PROVE  shaped'[j].shape = shaped'[LastOf(TurnsBefore(j)')].shape
    <3>1. j \in 1 .. n + 1
      BY <1>1
    <3>2. TurnsBefore(j)' = TurnsBefore(j) /\ TurnsBefore(j) # {}
      BY <1>12, <2>1, <3>1
    <3>3. PICK m \in 1 .. n : IsLast(TurnsBefore(j), m)
      BY <1>0, <3>1, <3>2 DEF IInv, LastsOK
    <3>4. TurnsBefore(j) \in SUBSET Int
      BY DEF TurnsBefore
    <3>5. LastOf(TurnsBefore(j)) = m
      BY <3>3, <3>4, LastIs
    <3> QED
      BY <1>1, <1>5, <2>1, <3>2, <3>5 DEF IInv, ResultsFit
  <2> QED
    BY <1>4, <2>1 DEF ResultsFit
<1> QED
  BY <1>6, <1>7, <1>8, <1>9, <1>10, <1>11, <1>14, <1>15 DEF IInv

LEMMA ShapeInv == IInv /\ Shape => IInv'
<1> SUFFICES ASSUME IInv, Shape PROVE IInv'
  OBVIOUS
<1> DEFINE i == done + 1
           e == Builder(shaped)
<1>1. stage = "shaping" /\ done < Len(history)
  BY DEF Shape
<1>2. CASE history[i].kind = "result" /\ e \notin Tools
  <2>1. Refuse(400)
    BY <1>2 DEF Shape
  <2> QED
    BY <2>1, RefuseInv
<1>3. CASE ~(history[i].kind = "result" /\ e \notin Tools)
  <2>1. /\ shaped' = IF history[i].kind = "result" THEN WithResult(shaped, i, e)
                                                  ELSE PassedOn(shaped, i)
        /\ in_run' = (history[i].kind = "result") /\ done' = i
        /\ UNCHANGED <<built, turns, stage, engine, chained, request, taken, history, known, reply>>
    BY <1>3 DEF Shape, asking
  <2>2. i \in DOMAIN history /\ i \in Nat
    BY <1>1 DEF IInv, TypeOK
  <2>3. CASE history[i].kind = "result" /\ Merges(shaped, e)
    <3>1. shaped' = [shaped EXCEPT ![Len(shaped)] = [@ EXCEPT !.last = i]]
      BY <2>1, <2>3 DEF WithResult
    <3>2. /\ shaped \in Seq(Sent) /\ Len(shaped) \in Nat /\ DOMAIN shaped = 1 .. Len(shaped)
          /\ in_run
      BY <2>3 DEF IInv, TypeOK, Merges
    <3>3. Len(shaped) \in DOMAIN shaped
      BY <3>2 DEF IInv, ShapedOK
    <3> DEFINE y == [shaped[Len(shaped)] EXCEPT !.last = i]
    <3>4. /\ y \in Sent /\ y.first = shaped[Len(shaped)].first /\ y.last = i
          /\ y.kind = shaped[Len(shaped)].kind /\ y.shape = shaped[Len(shaped)].shape
      <4>1. shaped[Len(shaped)] \in Sent
        BY <3>2, <3>3
      <4> QED
        BY <2>2, <4>1 DEF Sent
    <3>5. shaped' = [shaped EXCEPT ![Len(shaped)] = y]
      BY <3>1
    <3> HIDE DEF y
    <3>6. /\ shaped' \in Seq(Sent) /\ Len(shaped') = Len(shaped)
          /\ shaped'[Len(shaped)] = y
          /\ \A j \in DOMAIN shaped : j # Len(shaped) => shaped'[j] = shaped[j]
      BY <3>2, <3>3, <3>4, <3>5
    <3>7. \A j \in DOMAIN shaped :
              /\ shaped'[j].kind = shaped[j].kind /\ shaped'[j].shape = shaped[j].shape
              /\ shaped'[j].first = shaped[j].first
              /\ shaped'[j].last = IF j = Len(shaped) THEN done + 1 ELSE shaped[j].last
      BY <3>4, <3>6
    <3> QED
      BY <1>1, <2>1, <2>3, <3>6, <3>7, MergeInv
  <2>4. CASE history[i].kind = "result" /\ ~Merges(shaped, e)
    <3> DEFINE x == [first |-> i, last |-> i, kind |-> "result", shape |-> e]
    <3>1. x \in Sent
      BY <1>1, <2>2, BuilderFits DEF Sent
    <3>2. shaped' = Append(shaped, x)
      BY <2>1, <2>4 DEF WithResult
    <3>3. x.first = i /\ x.last = i /\ x.kind = "result" /\ x.shape = e
      OBVIOUS
    <3> HIDE DEF x
    <3> QED
      BY <1>1, <2>1, <2>4, <3>1, <3>2, <3>3, AppendInv
  <2>5. CASE history[i].kind # "result"
    <3> DEFINE x == [first |-> i, last |-> i, kind |-> history[i].kind,
                     shape |-> history[i].shape]
    <3>1. x \in Sent
      <4>1. history[i] \in Entries
        BY <2>2 DEF IInv, TypeOK
      <4> QED
        BY <2>2, <4>1 DEF Sent, Entries
    <3>2. shaped' = Append(shaped, x)
      BY <2>1, <2>5 DEF PassedOn
    <3>3. x.first = i /\ x.last = i /\ x.kind = history[i].kind /\ x.shape = history[i].shape
      OBVIOUS
    <3> HIDE DEF x
    <3> QED
      BY <1>1, <2>1, <2>5, <3>1, <3>2, <3>3, AppendInv
  <2> QED
    BY <2>3, <2>4, <2>5
<1> QED
  BY <1>2, <1>3

\* Steps that leave what is being sent alone.
LEMMA KeptInv ==
    ASSUME IInv, built' \in [Engines -> SUBSET Engines],
           \A p \in Engines : built[p] \subseteq built'[p],
           stage' = stage \/ (stage = "shaping" /\ stage' = "calling"),
           UNCHANGED <<turns, asking, taken, sending, reply>>
    PROVE  IInv'
<1>1. UNCHANGED <<engine, chained, request, history, shaped, done, in_run, known>>
  BY DEF asking, sending
<1>2. TypeOK' /\ TurnsOK' /\ RequestOK'
  BY <1>1 DEF IInv, TypeOK, TurnsOK, RequestOK
<1>3. StageOK'
  BY <1>1 DEF IInv, StageOK, Pooled
<1>4. InPlace'
  BY <1>1 DEF IInv, InPlace, Entry, ReplayShape, Parts
<1>5. ShapedOK' /\ OneMessagePerRun'
  BY <1>1 DEF IInv, ShapedOK, OneMessagePerRun
<1>6. \A j : TurnsBefore(j)' = TurnsBefore(j)
  BY <1>1 DEF TurnsBefore
<1>7. LastsOK'
  BY <1>1, <1>6 DEF IInv, LastsOK, ShapedFor
<1>8. ShapesOK'
  BY <1>1 DEF IInv, ShapesOK, Concerned
<1>9. ResultsFit'
  BY <1>1, <1>6 DEF IInv, ResultsFit
<1> QED
  BY <1>2, <1>3, <1>4, <1>5, <1>7, <1>8, <1>9 DEF IInv

LEMMA StutterInv == IInv /\ UNCHANGED vars => IInv'
<1> SUFFICES ASSUME IInv, UNCHANGED vars PROVE IInv'
  OBVIOUS
<1>1. UNCHANGED <<built, turns, stage, engine, chained, request, taken, reply, history, shaped,
                  done, in_run, known>>
  BY DEF vars, asking, sending
<1>2. \A j : TurnsBefore(j)' = TurnsBefore(j)
  BY <1>1 DEF TurnsBefore
<1>3. TypeOK' /\ TurnsOK' /\ RequestOK' /\ StageOK'
  BY <1>1 DEF IInv, TypeOK, TurnsOK, RequestOK, StageOK, Pooled
<1>4. InPlace' /\ ShapedOK' /\ OneMessagePerRun'
  BY <1>1 DEF IInv, InPlace, ShapedOK, OneMessagePerRun, Entry, ReplayShape, Parts
<1>5. LastsOK'
  BY <1>1, <1>2 DEF IInv, LastsOK, ShapedFor
<1>6. ShapesOK' /\ ResultsFit'
  BY <1>1, <1>2 DEF IInv, ShapesOK, Concerned, ResultsFit
<1> QED
  BY <1>3, <1>4, <1>5, <1>6 DEF IInv

LEMMA NextInv == IInv /\ [Next]_vars => IInv'
<1> SUFFICES ASSUME IInv, [Next]_vars PROVE IInv'
  OBVIOUS
<1>1. CASE Ask
  BY <1>1, AskInv
<1>2. CASE Expand
  <2>1. CASE request[taken + 1].kind = "token" /\ ~Decodes(request[taken + 1])
    BY <1>2, <2>1, RefuseInv DEF Expand
  <2>2. CASE ~(request[taken + 1].kind = "token" /\ ~Decodes(request[taken + 1]))
    BY <1>2, <2>2, ExpandInv DEF Expand, asking
  <2> QED
    BY <2>1, <2>2
<1>3. CASE Check
  <2>1. CASE ~WellFormed
    BY <1>3, <2>1, RefuseInv DEF Check
  <2>2. CASE WellFormed
    BY <1>3, <2>2, CheckInv DEF Check, asking
  <2> QED
    BY <2>1, <2>2
<1>4. CASE Shape
  BY <1>4, ShapeInv
<1>5. CASE Call
  BY <1>5, KeptInv DEF Call, IInv, TypeOK
<1>6. CASE \E e \in Engines, c \in BOOLEAN : Answer(e, c)
  BY <1>6, AnswerInv
<1>7. CASE Fail
  BY <1>7, RefuseInv DEF Fail
<1>8. CASE \E p \in Engines, e \in Backups : BuildBackup(p, e)
  <2>1. PICK p \in Engines, e \in Backups : BuildBackup(p, e)
    BY <1>8
  <2>2. /\ stage' = stage /\ built' = [built EXCEPT ![p] = @ \cup {e}]
        /\ UNCHANGED <<turns, asking, taken, sending, reply>>
    BY <2>1 DEF BuildBackup
  <2>3. /\ built' \in [Engines -> SUBSET Engines]
        /\ \A q \in Engines : built[q] \subseteq built'[q]
    BY <2>2, TurnsAssumption DEF IInv, TypeOK
  <2> QED
    BY <2>2, <2>3, KeptInv
<1>9. CASE Restart
  BY <1>9, RestartInv
<1>10. CASE UNCHANGED vars
  BY <1>10, StutterInv
<1> QED
  BY <1>1, <1>2, <1>3, <1>4, <1>5, <1>6, <1>7, <1>8, <1>9, <1>10 DEF Next, Handle, Over

\* IInv is an invariant of Turns (every action of Next).
THEOREM Invariant == Spec => []IInv
<1>1. Init => IInv
  BY InitInv
<1>2. IInv /\ [Next]_vars => IInv'
  BY NextInv
<1> QED
  BY <1>1, <1>2, PTL DEF Spec

-----------------------------------------------------------------------------
(* Theorems *)

\* Every variable keeps its type (every action of Turns).
THEOREM TypeCorrect == Spec => []TypeOK
<1>1. IInv => TypeOK
  BY DEF IInv
<1> QED
  BY <1>1, Invariant, PTL

\* The history holds what each message stands for, whole, once and in the
\* caller's order (Replay).
THEOREM InPlaceCorrect == Spec => []InPlace
<1>1. IInv => InPlace
  BY DEF IInv
<1> QED
  BY <1>1, Invariant, PTL

\* Each message of the history is sent once, in order, and results join only
\* the results of their own run (Merges, WithResult).
THEOREM OneMessagePerRunCorrect == Spec => []OneMessagePerRun
<1>1. IInv => OneMessagePerRun
  BY DEF IInv
<1> QED
  BY <1>1, Invariant, PTL

\* Results have the shape of the turn they answer, if the chain has built that
\* turn's engine (Builder).
THEOREM ResultsFitCorrect == Spec => []ResultsFit
<1>1. IInv => ResultsFit
  BY DEF IInv
<1> QED
  BY <1>1, Invariant, PTL

\* Turns come back as their engine wrote them, whatever the version of their
\* token (TurnToken, ReplayShape).
THEOREM TurnsKeepTheirShapeCorrect == Spec => []TurnsKeepTheirShape
<1>1. IInv => TurnsKeepTheirShape
  BY HistoryFacts DEF TurnsKeepTheirShape
<1> QED
  BY <1>1, Invariant, PTL

\* Nothing malformed is past the check (Decodes, WellFormed).
THEOREM CheckedCorrect == Spec => []CheckedBeforeThePool
<1>1. IInv => CheckedBeforeThePool
  <2>1. SUFFICES ASSUME IInv, stage \in {"shaping", "calling"}, NEW k \in DOMAIN request
                 PROVE  request[k].good
    BY DEF CheckedBeforeThePool
  <2>2. k \in 1 .. taken
    BY <2>1 DEF IInv, StageOK, TypeOK
  <2>3. request[k].kind = "token" => request[k].good
    BY <2>1, <2>2 DEF IInv, StageOK
  <2>4. Parts(request[k]) \in Nat \ {0}
    BY <2>1, <2>3, EntryFacts DEF IInv
  <2>5. 1 \in 1 .. Parts(request[k])
    BY <2>4
  <2>6. PICK i \in DOMAIN history : history[i].src = k
    BY <2>1, <2>2, <2>5 DEF IInv, InPlace
  <2>7. history[i].good
    BY <2>1 DEF IInv, StageOK
  <2> QED
    BY <2>1, <2>6, <2>7, HistoryFacts
<1> QED
  BY <1>1, Invariant, PTL

\* Before its engine is called, a request is refused only for what is wrong with
\* it (Decodes, WellFormed, Shape).
THEOREM RefusedForCauseCorrect == Spec => RefusedForCause
<1> DEFINE A == (stage # "calling" /\ reply' = 400) => (reply = 400 \/ HasCause)
<1>1. IInv /\ [Next]_vars => [A]_vars
  <2>1. SUFFICES ASSUME IInv, Next, stage # "calling", reply # 400, reply' = 400
                 PROVE  HasCause
    OBVIOUS
  <2>2. /\ ~Ask /\ ~Call /\ ~(\E e \in Engines, c \in BOOLEAN : Answer(e, c)) /\ ~Fail
        /\ ~(\E p \in Engines, e \in Backups : BuildBackup(p, e)) /\ ~Restart /\ ~Over
    BY <2>1 DEF Ask, Call, Answer, Fail, Ends, BuildBackup, Restart, Over, vars
  <2>3. CASE Expand
    <3>1. request[taken + 1].kind = "token" /\ ~Decodes(request[taken + 1])
      BY <2>1, <2>3 DEF Expand
    <3>2. taken + 1 \in DOMAIN request
      BY <2>1, <2>3 DEF Expand, IInv, TypeOK
    <3>3. ASSUME request[taken + 1].good PROVE FALSE
      <4>1. /\ request[taken + 1] \in Messages /\ request[taken + 1].turn > 0
            /\ request[taken + 1].turn <= Len(turns)
            /\ turns[request[taken + 1].turn].token # "none"
        BY <2>1, <3>1, <3>2, <3>3 DEF IInv, TypeOK, RequestOK
      <4>2. request[taken + 1].turn \in DOMAIN turns
        BY <2>1, <4>1, MessageFacts, TurnsAssumption DEF IInv, TypeOK
      <4>3. turns[request[taken + 1].turn] \in Turn
        BY <2>1, <4>2 DEF IInv, TypeOK
      <4> QED
        BY <3>1, <3>3, <4>1, <4>3 DEF Decodes, Accepted, Turn, Versions
    <3> QED
      BY <3>2, <3>3 DEF HasCause
  <2>4. CASE Check
    <3>1. ~WellFormed
      BY <2>1, <2>4 DEF Check
    <3>2. PICK i \in DOMAIN history : ~history[i].good
      BY <3>1 DEF WellFormed
    <3> QED
      BY <2>1, <3>2, HistoryFacts DEF HasCause
  <2>5. CASE Shape
    <3>1. /\ history[done + 1].kind = "result" /\ Builder(shaped) \notin Tools
          /\ stage = "shaping" /\ done < Len(history)
      BY <2>1, <2>5 DEF Shape
    <3>2. done + 1 \in DOMAIN history
      BY <2>1, <3>1 DEF IInv, TypeOK
    <3>3. PICK k \in DOMAIN request : request[k].kind = "result"
      <4>1. /\ history[done + 1].src \in 1 .. taken
            /\ history[done + 1] = Entry(history[done + 1].src, history[done + 1].part)
        BY <2>1, <3>2 DEF IInv, InPlace
      <4>2. history[done + 1].src \in DOMAIN request
        BY <2>1, <3>2, HistoryFacts
      <4>3. Entry(history[done + 1].src, history[done + 1].part).kind = "result"
        BY <3>1, <4>1
      <4>4. request[history[done + 1].src].kind = "result"
        BY <4>3 DEF Entry
      <4> QED
        BY <4>2, <4>4
    <3>4. Concerned(Builder(shaped))
      BY <2>1, <3>1, BuilderFits
    <3> QED
      BY <3>1, <3>3, <3>4 DEF Concerned, HasCause
  <2> QED
    BY <2>1, <2>2, <2>3, <2>4, <2>5 DEF Next, Handle
<1>2. Spec => [][A]_vars
  BY <1>1, Invariant, PTL DEF Spec
<1> QED
  BY <1>2 DEF RefusedForCause
=============================================================================
