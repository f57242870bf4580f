------------------------------- MODULE Turns -------------------------------
(***************************************************************************)
(* One conversation over several turns: conversation_token.py,             *)
(* tool_results.py and the part of conversation_turn (routes_v1.py) that   *)
(* makes of a caller's messages what an engine is sent.                    *)
(*                                                                         *)
(* The caller keeps the history and composes each request from what it was *)
(* given.  Tokens are replayed where they stand, everything is checked     *)
(* before the client pool is touched, and each neutral tool result takes   *)
(* the shape of the engine that serves, next to the ones before it.  Both  *)
(* loops are taken a message at a time, since the steps are what is proved *)
(* about.  The fallback chain is the library's.  It knows an engine's      *)
(* shape only once it has built that engine, and a restart, or another     *)
(* worker, has a chain that has built none.                                *)
(***************************************************************************)
EXTENDS Integers, Sequences, FiniteSets

CONSTANTS
    Engines,        \* each reads and writes turns in a shape of its own
    Asked,          \* what a request may ask for: an engine, with a chain or without
    Backups,        \* engines behind it in a chain
    Tools,          \* engines that take tools
    Joins,          \* engines whose results are a list inside a user message
    Blocks,         \* engines whose raw content is an assistant's content
    Items,          \* how many messages an engine's turn is replayed as
    NoShape,        \* of a message no engine owns
    MaxTurns, MaxMessages

ASSUME TurnsAssumption ==
    /\ Asked \subseteq [engine: Engines, chained: BOOLEAN] /\ Backups \subseteq Engines
    /\ Tools \subseteq Engines /\ Joins \subseteq Engines /\ Blocks \subseteq Engines
    /\ Items \in [Engines -> Nat \ {0}] /\ NoShape \notin Engines
    /\ MaxTurns \in Nat \ {0} /\ MaxMessages \in Nat

Versions == {"none", "v1", "v2"}

\* What the caller holds of a turn: who served it and the token it came with.
Turn == [by: Engines, token: Versions]

\* A caller's messages.  A bad token is cut, or of a version not accepted; a
\* bad result lacks a field or has one too many.
Messages == [kind: {"plain"}, turn: {0}, good: {TRUE}]
       \cup [kind: {"native"}, turn: 1 .. MaxTurns, good: {TRUE}]
       \cup [kind: {"token"}, turn: 0 .. MaxTurns, good: BOOLEAN]
       \cup [kind: {"result"}, turn: {0}, good: BOOLEAN]

VARIABLES
    built,          \* per engine asked for: what its pooled chain has built
    turns,          \* the turns the caller was answered with
    stage,          \* idle, expanding, shaping, calling
    engine,         \* the engine the request asks for
    chained,        \* its fallback flag, and backups are configured
    request,        \* its messages
    taken,          \* how many of them have been expanded
    history,        \* the messages they stand for
    shaped,         \* what the engine is sent
    done,           \* how many messages of history that covers
    in_run,
    known,          \* history variable: what was built when shaping began
    reply           \* status of the last request: 0 if it has none

asking  == <<engine, chained, request>>
sending == <<history, shaped, done, in_run, known>>
vars == <<built, turns, stage, asking, taken, sending, reply>>

-----------------------------------------------------------------------------
(* Tokens *)

\* Mutant of TurnToken: every turn as raw content, as before service 1.11.0.
TokenOfContent(e) == "v1"

\* _turn_token: an engine without tools refuses extend_messages_with_turn.
TurnToken(e) == IF e \in Tools THEN "v2" ELSE "v1"

\* Mutant of Accepted: what is no longer written is no longer read.
OnlyCurrent == {"v2"}

\* ACCEPTED_VERSIONS.
Accepted == {"v1", "v2"}

\* looks_like_conversation_token, decode_conversation_token.
Decodes(m) == m.good /\ turns[m.turn].token \in Accepted

\* How many messages of the history a request's message stands for.
Parts(m) == IF m.kind = "token" /\ turns[m.turn].token = "v2"
            THEN Items[turns[m.turn].by] ELSE 1

\* A v1 token's content is wrapped in an assistant message, which is what
\* only some engines send.
ReplayShape(t) == IF t.token = "v2" \/ t.by \in Blocks THEN t.by ELSE NoShape

\* A message of the history: which of the request it comes from.
Entries == [src: Nat, part: Nat, good: BOOLEAN, kind: {"plain", "native", "turn", "result"},
            shape: Engines \cup {NoShape}]

\* The p-th message that the k-th of the request stands for.
Entry(k, p) ==
    LET m == request[k]
    IN [src |-> k, part |-> p, good |-> m.good,
        kind |-> IF m.kind = "token" THEN "turn" ELSE m.kind,
        shape |-> CASE m.kind = "token"  -> ReplayShape(turns[m.turn])
                    [] m.kind = "native" -> turns[m.turn].by
                    [] OTHER             -> NoShape]

\* Mutant of Replay: the turns put after what the caller sent.
ReplayAtEnd(k) ==
    IF request[k].kind = "token"
    THEN history \o [p \in 1 .. Parts(request[k]) |-> Entry(k, p)]
    ELSE <<Entry(k, 1)>> \o history

\* replay_messages, spliced in by _expand_conversation_tokens.
Replay(k) == history \o [p \in 1 .. Parts(request[k]) |-> Entry(k, p)]

-----------------------------------------------------------------------------
(* Tool results *)

\* A message the engine is sent: the messages of history it holds, first to
\* last, and whether the service built it.
Sent == [first: Nat, last: Nat, kind: {"plain", "native", "turn", "result"},
         shape: Engines \cup {NoShape}]

\* What the request's client has built: one without a chain is another client.
Pooled == IF chained THEN built[engine] ELSE {engine}

\* Places of what is in the shape of an engine the chain has built.
Readable(s) == {i \in DOMAIN s : s[i].shape \in Pooled}

LastOf(S) == CHOOSE i \in S : \A j \in S : j <= i

\* Mutant of Builder: the chain is not given the history.
BuilderUntold(s) == engine

\* _build: a chain goes by the history it is given, as far as it can read it.
Builder(s) ==
    IF chained /\ Readable(s) # {} THEN s[LastOf(Readable(s))].shape ELSE engine

\* Mutant of Merges: with whatever stands before it.
MergesWithAny(s, e) == s # <<>> /\ s[Len(s)].shape = e /\ e \in Joins

\* _merged, inside a run: both are a user message holding a list.
Merges(s, e) == in_run /\ s[Len(s)].shape = e /\ e \in Joins

WithResult(s, i, e) ==
    IF Merges(s, e)
    THEN [s EXCEPT ![Len(s)] = [@ EXCEPT !.last = i]]
    ELSE Append(s, [first |-> i, last |-> i, kind |-> "result", shape |-> e])

PassedOn(s, i) ==
    Append(s, [first |-> i, last |-> i, kind |-> history[i].kind, shape |-> history[i].shape])

-----------------------------------------------------------------------------
(* conversation_turn *)

\* A conversation may have begun before service 1.11.0, whose tokens are v1.
Init ==
    /\ built = [e \in Engines |-> {}]
    /\ turns \in {<<>>} \cup {<<t>> : t \in [by: Blocks \cap {a.engine : a \in Asked}, token: {"v1"}]}
    /\ stage = "idle" /\ engine = NoShape /\ chained = FALSE /\ request = <<>> /\ taken = 0
    /\ reply = 0
    /\ history = <<>> /\ shaped = <<>> /\ done = 0 /\ in_run = FALSE /\ known = {}

\* Nothing of a request is kept.
Ends(status) ==
    /\ stage' = "idle" /\ engine' = NoShape /\ chained' = FALSE /\ request' = <<>> /\ taken' = 0
    /\ reply' = status
    /\ history' = <<>> /\ shaped' = <<>> /\ done' = 0 /\ in_run' = FALSE /\ known' = {}

\* The caller sends what it likes of what it was given.
CanSend(m) ==
    /\ m \in Messages /\ m.turn <= Len(turns)
    /\ m.kind = "token" => IF m.good THEN m.turn > 0 /\ turns[m.turn].token # "none"
                                     ELSE m.turn = 0
    /\ m.kind = "native" => m.turn = Len(turns) /\ turns[m.turn].by \in Tools

Requests == UNION {[1 .. n -> {m \in Messages : CanSend(m)}] : n \in 0 .. MaxMessages}

\* Each request names its engine, and may do without the chain.
Ask ==
    /\ stage = "idle" /\ Len(turns) < MaxTurns
    /\ \E a \in Asked : engine' = a.engine /\ chained' = a.chained
    /\ request' \in Requests /\ taken' = 0 /\ reply' = 0
    /\ stage' = "expanding"
    /\ UNCHANGED <<built, turns, sending>>

Refuse(status) == Ends(status) /\ UNCHANGED <<built, turns>>

Expand ==
    /\ stage = "expanding" /\ taken < Len(request)
    /\ IF request[taken + 1].kind = "token" /\ ~Decodes(request[taken + 1])
       THEN Refuse(400)
       ELSE /\ history' = Replay(taken + 1) /\ taken' = taken + 1
            /\ UNCHANGED <<built, turns, stage, asking, shaped, done, in_run, known, reply>>

\* Mutant of WellFormed: as long as one of them is.
SomeWellFormed == \E i \in DOMAIN history : history[i].good

\* validate_tool_results.
WellFormed == \A i \in DOMAIN history : history[i].good

\* get_completions_client: a new client has its primary built.
Check ==
    /\ stage = "expanding" /\ taken = Len(request)
    /\ IF ~WellFormed
       THEN Refuse(400)
       ELSE /\ built' = IF chained THEN [built EXCEPT ![engine] = @ \cup {engine}] ELSE built
            /\ stage' = "shaping"
            /\ UNCHANGED asking /\ known' = Pooled'
            /\ UNCHANGED <<turns, taken, history, shaped, done, in_run, reply>>

\* shape_tool_results: an engine without tools refuses to build a result.
Shape ==
    /\ stage = "shaping" /\ done < Len(history)
    /\ LET i == done + 1
       IN IF history[i].kind = "result" /\ Builder(shaped) \notin Tools
          THEN Refuse(400)
          ELSE /\ shaped' = IF history[i].kind = "result"
                            THEN WithResult(shaped, i, Builder(shaped))
                            ELSE PassedOn(shaped, i)
               /\ in_run' = (history[i].kind = "result")
               /\ done' = i
               /\ UNCHANGED <<built, turns, stage, asking, taken, history, known, reply>>

Call ==
    /\ stage = "shaping" /\ done = Len(history)
    /\ stage' = "calling"
    /\ UNCHANGED <<built, turns, asking, taken, sending, reply>>

-----------------------------------------------------------------------------
(* The library, the providers and the process *)

\* Who may serve: a chain goes by the history again, and once that holds an
\* engine's own messages stays with that engine.
MayServe ==
    IF ~chained THEN {engine}
    ELSE IF Readable(shaped) # {} THEN {shaped[LastOf(Readable(shaped))].shape}
    ELSE {engine} \cup Backups

\* e answers; a chain has built it by then.  A turn without content has no
\* token.
Answer(e, content) ==
    /\ stage = "calling" /\ e \in MayServe
    /\ built' = IF chained THEN [built EXCEPT ![engine] = @ \cup {e}] ELSE built
    /\ turns' = Append(turns, [by |-> e,
                               token |-> IF content THEN TurnToken(e) ELSE "none"])
    /\ Ends(200)

\* The provider fails, or refuses what it is sent or asked to force.
Fail == stage = "calling" /\ \E status \in {400, 502} : Refuse(status)

\* Another request, on its own thread, makes a pooled chain build a backup.
BuildBackup(p, e) ==
    /\ built[p] # {} /\ e \notin built[p]
    /\ built' = [built EXCEPT ![p] = @ \cup {e}]
    /\ UNCHANGED <<turns, stage, asking, taken, sending, reply>>

\* The process is replaced, or the next request reaches another worker.
Restart ==
    /\ \E p \in Engines : built[p] # {}
    /\ built' = [p \in Engines |-> {}]
    /\ Ends(0)
    /\ UNCHANGED turns

\* The bound on a conversation's turns.
Over == stage = "idle" /\ Len(turns) = MaxTurns /\ UNCHANGED vars

Handle == Expand \/ Check \/ Shape \/ Call

Next ==
    \/ Ask
    \/ Handle
    \/ \E e \in Engines, c \in BOOLEAN : Answer(e, c)
    \/ Fail
    \/ \E p \in Engines, e \in Backups : BuildBackup(p, e)
    \/ Restart
    \/ Over

Spec == Init /\ [][Next]_vars

-----------------------------------------------------------------------------
(* Properties *)

TypeOK ==
    /\ built \in [Engines -> SUBSET Engines] /\ known \in SUBSET Engines
    /\ engine \in Engines \cup {NoShape} /\ chained \in BOOLEAN
    /\ turns \in Seq(Turn) /\ Len(turns) <= MaxTurns
    /\ stage \in {"idle", "expanding", "shaping", "calling"}
    /\ request \in Seq(Messages) /\ taken \in 0 .. Len(request)
    /\ history \in Seq(Entries)
    /\ shaped \in Seq(Sent) /\ done \in 0 .. Len(history) /\ in_run \in BOOLEAN
    /\ reply \in {0, 200, 400, 502}

Before(a, b) == a.src < b.src \/ (a.src = b.src /\ a.part < b.part)

\* The history holds what each message of the request stands for, whole, once
\* and in the caller's order: the service never says where a turn belongs
\* (_expand_conversation_tokens).
InPlace ==
    /\ \A i, j \in DOMAIN history : i < j => Before(history[i], history[j])
    /\ \A i \in DOMAIN history :
           /\ history[i].src \in 1 .. taken
           /\ history[i].part \in 1 .. Parts(request[history[i].src])
           /\ history[i] = Entry(history[i].src, history[i].part)
    /\ \A k \in 1 .. taken : \A p \in 1 .. Parts(request[k]) :
           \E i \in DOMAIN history : history[i].src = k /\ history[i].part = p

\* Nothing malformed gets past the check, wherever it stands, so it costs no
\* client and no provider call (conversation_turn, validate_tool_results).
CheckedBeforeThePool ==
    stage \in {"shaping", "calling"} => \A k \in DOMAIN request : request[k].good

\* What is sent covers the history in order, each message once.  Results that
\* stand together go out as one message where their engine wants that, and
\* never join a message the caller built or the results of another turn
\* (shape_tool_results).
OneMessagePerRun ==
    /\ shaped # <<>> => shaped[1].first = 1 /\ shaped[Len(shaped)].last = done
    /\ \A j \in DOMAIN shaped :
           /\ shaped[j].first <= shaped[j].last
           /\ j > 1 => shaped[j].first = shaped[j - 1].last + 1
           /\ shaped[j].first < shaped[j].last =>
                  shaped[j].kind = "result" /\ shaped[j].shape \in Joins
           /\ \A i \in shaped[j].first .. shaped[j].last :
                  (history[i].kind = "result") <=> (shaped[j].kind = "result")
    /\ \A j \in DOMAIN shaped : j > 1 =>
           ~(/\ shaped[j].kind = "result" /\ shaped[j - 1].kind = "result"
             /\ shaped[j].shape = shaped[j - 1].shape /\ shaped[j].shape \in Joins)

\* The turns of engines before the j-th message sent.
TurnsBefore(j) ==
    {i \in 1 .. j - 1 : shaped[i].kind \in {"turn", "native"} /\ shaped[i].shape # NoShape}

\* A result has the shape of the turn it answers, whoever served that, if
\* this process's chain has built the engine (_build, the messages argument).
ResultsFit ==
    \A j \in DOMAIN shaped :
        shaped[j].kind = "result" /\ TurnsBefore(j) # {} =>
            LET turn == shaped[LastOf(TurnsBefore(j))]
            IN turn.shape \in known => shaped[j].shape = turn.shape

\* A turn of an engine with tools is replayed as that engine wrote it: with a
\* token of before service 1.11.0 too, where that could be replayed at all
\* (_turn_token, replay_messages).
TurnsKeepTheirShape ==
    \A i \in DOMAIN history :
        history[i].kind = "turn" =>
            LET turn == turns[request[history[i].src].turn]
            IN turn.by \in Tools => history[i].shape = turn.by

HasCause ==
    \/ \E k \in DOMAIN request : ~request[k].good
    \/ \E k \in DOMAIN request :
           /\ request[k].kind = "result"
           /\ \/ engine \notin Tools
              \/ \E l \in DOMAIN request :
                     request[l].turn > 0 /\ turns[request[l].turn].by \notin Tools

\* Before its engine is called, a caller that sends back what it was given is
\* not refused, unless it answers an engine that takes no tools
\* (decode_conversation_token, ACCEPTED_VERSIONS, shape_tool_results).
RefusedForCause ==
    [][(stage # "calling" /\ reply' = 400) => (reply = 400 \/ HasCause)]_vars
=============================================================================
