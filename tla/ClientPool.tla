----------------------------- MODULE ClientPool -----------------------------
(***************************************************************************)
(* clients.py: provider clients, one per key, for the life of the process. *)
(* A lookup reads the dict without the lock, the client is built outside   *)
(* it (which may take a network round trip, and may fail), and setdefault  *)
(* under it keeps whichever client came first.  The module promises this   *)
(* to threads; each action is what one thread does without the others      *)
(* seeing it half done.                                                    *)
(***************************************************************************)
EXTENDS Naturals

CONSTANTS
    Callers,        \* threads
    Engines,        \* engine tokens a request may carry
    Models,         \* model names a request may carry
    Requests,       \* what callers ask for, out of AllRequests
    Clients,        \* client objects, one per construction
    Default,        \* the token "default"
    None,           \* Python's None
    NoClient, NoKey

VARIABLES
    pool,       \* the three pools; a key names its pool
    pc, req,    \* per caller: next step, and what it asked for
    built,      \* per caller: the client it has constructed
    answer,     \* per caller: the client it was last given
    made        \* history: the factory arguments of each client

vars == <<pool, pc, req, built, answer, made>>

-----------------------------------------------------------------------------
(* Requests, keys and factory arguments *)

Named == Models \cup {None}

AllRequests ==
    [kind: {"completions"}, engine: Engines, model: Named, fallback: BOOLEAN]
    \cup [kind: {"embeddings"}, engine: Engines, model: Named]
    \cup [kind: {"images"}, model: Named]
    \cup [kind: {"video"}, engine: Engines \cup {None}, model: Named]
    \cup [kind: {"voice"}]

NoRequest == [kind |-> "none"]

\* Mutant of KeyOf: the chain flag is not part of the key.
KeyWithoutChain(r) ==
    CASE r.kind \in {"completions", "embeddings"} ->
            [pool |-> r.kind, engine |-> r.engine, model |-> r.model]
      [] r.kind = "images" -> [pool |-> "media", for |-> "images", model |-> r.model]
      [] r.kind = "video"  ->
            [pool |-> "media", for |-> "video", model |-> r.model,
             engine |-> IF r.engine = None THEN Default ELSE r.engine]
      [] r.kind = "voice"  -> [pool |-> "media", for |-> "voice", model |-> None]

\* The pool and the key in it.  Images, video and voice share the media pool;
\* only video's key spells out an absent engine.
KeyOf(r) ==
    CASE r.kind = "completions" ->
            [pool |-> "completions", engine |-> r.engine, model |-> r.model,
             chain |-> r.fallback]
      [] r.kind = "embeddings" ->
            [pool |-> "embeddings", engine |-> r.engine, model |-> r.model]
      [] r.kind = "images" -> [pool |-> "media", for |-> "images", model |-> r.model]
      [] r.kind = "video"  ->
            [pool |-> "media", for |-> "video", model |-> r.model,
             engine |-> IF r.engine = None THEN Default ELSE r.engine]
      [] r.kind = "voice"  -> [pool |-> "media", for |-> "voice", model |-> None]

PoolKeys == {KeyOf(r) : r \in Requests}

ASSUME PoolAssumption == /\ None \notin Engines \cup Models
                         /\ NoClient \notin Clients
                         /\ Requests \subseteq AllRequests
                         /\ NoKey \notin PoolKeys

Made(x) == made[x] # NoRequest

-----------------------------------------------------------------------------
Init == /\ pool   = [k \in PoolKeys |-> NoClient]
        /\ pc     = [c \in Callers |-> "idle"]
        /\ req    = [c \in Callers |-> NoRequest]
        /\ built  = [c \in Callers |-> NoClient]
        /\ answer = [c \in Callers |-> NoClient]
        /\ made   = [x \in Clients |-> NoRequest]

Call(c) ==
    /\ pc[c] = "idle"
    /\ pc' = [pc EXCEPT ![c] = "lookup"]
    /\ \E r \in Requests : req' = [req EXCEPT ![c] = r]
    /\ answer' = [answer EXCEPT ![c] = NoClient]
    /\ UNCHANGED <<pool, built, made>>

Leave(c) == /\ pc'    = [pc EXCEPT ![c] = "idle"]
            /\ req'   = [req EXCEPT ![c] = NoRequest]
            /\ built' = [built EXCEPT ![c] = NoClient]

\* Without the lock.
Lookup(c) ==
    /\ pc[c] = "lookup"
    /\ LET x == pool[KeyOf(req[c])]
       IN \/ /\ x # NoClient
             /\ answer' = [answer EXCEPT ![c] = x]
             /\ Leave(c)
             /\ UNCHANGED <<pool, made>>
          \/ /\ x = NoClient
             /\ pc' = [pc EXCEPT ![c] = "build"]
             /\ UNCHANGED <<pool, req, built, answer, made>>

\* Bound: constructions stop when Clients is used up.
Build(c) ==
    /\ pc[c] = "build"
    /\ \E x \in Clients :
        /\ ~Made(x)
        /\ made'  = [made EXCEPT ![x] = req[c]]
        /\ built' = [built EXCEPT ![c] = x]
    /\ pc' = [pc EXCEPT ![c] = "install"]
    /\ UNCHANGED <<pool, req, answer>>

\* _build: a missing credential, a rejected value, or the library's own error.
BuildFails(c) ==
    /\ pc[c] = "build"
    /\ Leave(c)
    /\ UNCHANGED <<pool, answer, made>>

\* Mutant of Kept: assignment instead of setdefault.
Latest(old, new) == new

\* dict.setdefault
Kept(old, new) == IF old = NoClient THEN new ELSE old

\* Under the lock.
Install(c) ==
    /\ pc[c] = "install"
    /\ LET k == KeyOf(req[c])
           x == Kept(pool[k], built[c])
       IN /\ pool'   = [pool EXCEPT ![k] = x]
          /\ answer' = [answer EXCEPT ![c] = x]
    /\ Leave(c)
    /\ UNCHANGED made

\* reset_pools, which only tests call.
Reset ==
    /\ pool' = [k \in PoolKeys |-> NoClient]
    /\ UNCHANGED <<pc, req, built, answer, made>>

Step(c) == Lookup(c) \/ Build(c) \/ BuildFails(c) \/ Install(c)

Next == \/ \E c \in Callers : Call(c) \/ Step(c)
        \/ Reset

Spec == Init /\ [][Next]_vars

-----------------------------------------------------------------------------
(* Properties *)

\* Every variable has its type; a caller past the lookup has a request, and
\* one about to install holds a client made for it.
TypeOK ==
    /\ pool \in [PoolKeys -> Clients \cup {NoClient}]
    /\ pc \in [Callers -> {"idle", "lookup", "build", "install"}]
    /\ req \in [Callers -> Requests \cup {NoRequest}]
    /\ built \in [Callers -> Clients \cup {NoClient}]
    /\ answer \in [Callers -> Clients \cup {NoClient}]
    /\ made \in [Clients -> Requests \cup {NoRequest}]
    /\ \A c \in Callers :
          /\ pc[c] # "idle" => req[c] \in Requests
          /\ pc[c] = "install" => built[c] \in Clients /\ made[built[c]] = req[c]

\* Video's two spellings of the configured engine.
SameVideo(a, b) == /\ a.kind = "video" /\ b.kind = "video"
                   /\ a.model = b.model
                   /\ {a.engine, b.engine} \subseteq {None, Default}

\* A pooled client was constructed with the arguments of every request its
\* key stands for: a chain never answers for a plain engine, nor one kind of
\* client for another in the shared media pool (clients.py:41-54).  The one
\* exception is a video request that names the engine "default".
PooledForItsKey ==
    \A r \in Requests : LET x == pool[KeyOf(r)] IN
        x # NoClient => made[x] = r \/ SameVideo(made[x], r)

\* All callers of one key converge on one client (clients.py:99), a client
\* answers for one key only, and a failed construction leaves the key cold.
Promise == INSTANCE PoolPromise WITH
    stands <- pool,
    asking <- [c \in Callers |-> IF pc[c] = "idle" THEN NoKey ELSE KeyOf(req[c])]
PromiseKept == Promise!Spec
=============================================================================
