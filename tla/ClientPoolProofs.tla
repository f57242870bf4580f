-------------------------- MODULE ClientPoolProofs --------------------------
(***************************************************************************)
(* ClientPool keeps PoolPromise, for any number of threads, any requests   *)
(* and any clients.  The invariant: every pooled client was made for its   *)
(* key.  Hence no client stands for two keys, which is what First asks of  *)
(* the step that installs one.                                             *)
(***************************************************************************)
EXTENDS ClientPool, TLAPS

\* Every pooled client was constructed for a request of its key.
MadeForItsKey ==
    \A k \in PoolKeys :
        pool[k] # NoClient => /\ made[pool[k]] \in Requests
                              /\ KeyOf(made[pool[k]]) = k

IInv == TypeOK /\ MadeForItsKey

LEMMA RequestsHaveKeys ==
    ASSUME NEW r \in Requests PROVE KeyOf(r) \in PoolKeys /\ r # NoRequest
<1>1. KeyOf(r) \in PoolKeys
  BY DEF PoolKeys
<1>2. r.kind \in {"completions", "embeddings", "images", "video", "voice"}
  BY PoolAssumption DEF AllRequests
<1> QED
  BY <1>1, <1>2 DEF NoRequest

\* KeyOf tells apart every two requests for which the factory is called
\* differently, but for the two spellings of the configured video engine.
LEMMA KeysAreDistinct ==
    ASSUME NEW a \in Requests, NEW b \in Requests, KeyOf(a) = KeyOf(b)
    PROVE  a = b \/ SameVideo(a, b)
<1>1. a \in AllRequests /\ b \in AllRequests
  BY PoolAssumption
<1>2. a.kind = b.kind
  <2>1. \A r \in {a, b} :
          \/ r.kind \in {"completions", "embeddings"} /\ KeyOf(r).pool = r.kind
          \/ r.kind \in {"images", "video", "voice"}
             /\ KeyOf(r).pool = "media" /\ KeyOf(r).for = r.kind
    BY <1>1 DEF AllRequests, KeyOf
  <2> QED
    BY <2>1
<1>3. CASE a.kind = "completions"
  <2>1. \A r \in {a, b} :
          /\ r = [kind |-> "completions", engine |-> r.engine, model |-> r.model,
                  fallback |-> r.fallback]
          /\ KeyOf(r).engine = r.engine
          /\ KeyOf(r).model = r.model
          /\ KeyOf(r).chain = r.fallback
    BY <1>1, <1>2, <1>3 DEF AllRequests, KeyOf
  <2> QED
    BY <2>1
<1>4. CASE a.kind = "embeddings"
  <2>1. \A r \in {a, b} :
          /\ r = [kind |-> "embeddings", engine |-> r.engine, model |-> r.model]
          /\ KeyOf(r).engine = r.engine
          /\ KeyOf(r).model = r.model
    BY <1>1, <1>2, <1>4 DEF AllRequests, KeyOf
  <2> QED
    BY <2>1
<1>5. CASE a.kind = "images"
  <2>1. \A r \in {a, b} :
          /\ r = [kind |-> "images", model |-> r.model]
          /\ KeyOf(r).model = r.model
    BY <1>1, <1>2, <1>5 DEF AllRequests, KeyOf
  <2> QED
    BY <2>1
<1>6. CASE a.kind = "video"
  <2>1. \A r \in {a, b} :
          /\ r = [kind |-> "video", engine |-> r.engine, model |-> r.model]
          /\ KeyOf(r).engine = IF r.engine = None THEN Default ELSE r.engine
          /\ KeyOf(r).model = r.model
    BY <1>1, <1>2, <1>6 DEF AllRequests, KeyOf
  <2>2. CASE a.engine = b.engine
    BY <2>1, <2>2
  <2>3. CASE a.engine # b.engine
    BY <2>1, <2>3, <1>2, <1>6 DEF SameVideo
  <2> QED
    BY <2>2, <2>3
<1>7. CASE a.kind = "voice"
  <2>1. \A r \in {a, b} : r \in [kind : {"voice"}]
    BY <1>1, <1>2, <1>7 DEF AllRequests
  <2>2. \A r \in {a, b} : r = [kind |-> r.kind]
    BY <2>1
  <2> QED
    BY <2>2, <1>2
<1>8. a.kind \in {"completions", "embeddings", "images", "video", "voice"}
  BY <1>1 DEF AllRequests
<1> QED
  BY <1>3, <1>4, <1>5, <1>6, <1>7, <1>8

-----------------------------------------------------------------------------
(* The invariant *)

LEMMA InitIInv == Init => IInv
<1> SUFFICES ASSUME Init PROVE IInv
  OBVIOUS
<1>1. TypeOK
  BY PoolAssumption DEF Init, TypeOK
<1>2. MadeForItsKey
  BY DEF Init, MadeForItsKey
<1> QED
  BY <1>1, <1>2 DEF IInv

LEMMA NextIInv == IInv /\ [Next]_vars => IInv'
<1> SUFFICES ASSUME IInv, [Next]_vars PROVE IInv'
  OBVIOUS
<1> USE PoolAssumption DEF IInv
<1> DEFINE Unpooled == pool' = pool /\ made' = made
<1>0. Unpooled => MadeForItsKey'
  BY DEF MadeForItsKey
<1>1. ASSUME NEW c \in Callers, Call(c) PROVE IInv'
  <2>1. TypeOK'
    BY <1>1 DEF TypeOK, Call
  <2> QED
    BY <2>1, <1>1, <1>0 DEF Call
<1>2. ASSUME NEW c \in Callers, Lookup(c) PROVE IInv'
  <2> DEFINE x == pool[KeyOf(req[c])]
  <2>1. x \in Clients \cup {NoClient}
    BY <1>2, RequestsHaveKeys DEF TypeOK, Lookup
  <2>2. TypeOK'
    <3>1. CASE x # NoClient
      BY <1>2, <2>1, <3>1 DEF TypeOK, Lookup, Leave
    <3>2. CASE x = NoClient
      BY <1>2, <3>2 DEF TypeOK, Lookup
    <3> QED
      BY <3>1, <3>2
  <2>3. Unpooled
    BY <1>2 DEF Lookup
  <2> QED
    BY <2>2, <2>3, <1>0
<1>3. ASSUME NEW c \in Callers, Build(c) PROVE IInv'
  <2> PICK x \in Clients : /\ ~Made(x)
                           /\ made'  = [made EXCEPT ![x] = req[c]]
                           /\ built' = [built EXCEPT ![c] = x]
    BY <1>3 DEF Build
  <2>1. req[c] \in Requests /\ req[c] # NoRequest /\ made[x] = NoRequest
    BY <1>3, RequestsHaveKeys DEF TypeOK, Build, Made
  <2>2. TypeOK'
    <3>1. \A d \in Callers \ {c} : pc'[d] = "install" =>
            built'[d] \in Clients /\ made'[built'[d]] = req'[d]
      <4> SUFFICES ASSUME NEW d \in Callers \ {c}, pc'[d] = "install"
                   PROVE  built'[d] \in Clients /\ made'[built'[d]] = req'[d]
        OBVIOUS
      <4>1. pc[d] = "install" /\ built'[d] = built[d] /\ req'[d] = req[d]
        BY <1>3 DEF TypeOK, Build
      <4>2. built[d] \in Clients /\ made[built[d]] = req[d] /\ req[d] \in Requests
        BY <4>1 DEF TypeOK
      <4>3. built[d] # x
        BY <4>2, <2>1, RequestsHaveKeys
      <4> QED
        BY <4>1, <4>2, <4>3 DEF TypeOK
    <3> QED
      BY <1>3, <2>1, <3>1 DEF TypeOK, Build
  <2>3. MadeForItsKey'
    <3> SUFFICES ASSUME NEW k \in PoolKeys, pool'[k] # NoClient
                 PROVE  made'[pool'[k]] \in Requests /\ KeyOf(made'[pool'[k]]) = k
      BY DEF MadeForItsKey
    <3>1. pool'[k] = pool[k] /\ pool[k] \in Clients
      BY <1>3 DEF Build, TypeOK
    <3>2. made[pool[k]] \in Requests /\ KeyOf(made[pool[k]]) = k
      BY <3>1 DEF MadeForItsKey
    <3>3. pool[k] # x
      BY <3>2, <2>1, RequestsHaveKeys
    <3> QED
      BY <3>1, <3>2, <3>3 DEF TypeOK
  <2> QED
    BY <2>2, <2>3
<1>4. ASSUME NEW c \in Callers, BuildFails(c) PROVE IInv'
  <2>1. TypeOK'
    BY <1>4 DEF TypeOK, BuildFails, Leave
  <2> QED
    BY <2>1, <1>4, <1>0 DEF BuildFails
<1>5. ASSUME NEW c \in Callers, Install(c) PROVE IInv'
  <2> DEFINE k == KeyOf(req[c])
             x == Kept(pool[k], built[c])
  <2>1. /\ k \in PoolKeys
        /\ req[c] \in Requests
        /\ built[c] \in Clients
        /\ made[built[c]] = req[c]
    BY <1>5, RequestsHaveKeys DEF TypeOK, Install
  <2>2. x \in Clients /\ made[x] \in Requests /\ KeyOf(made[x]) = k
    <3>1. CASE pool[k] = NoClient
      BY <2>1, <3>1 DEF Kept
    <3>2. CASE pool[k] # NoClient
      BY <2>1, <3>2 DEF Kept, MadeForItsKey, TypeOK
    <3> QED
      BY <3>1, <3>2
  <2>3. pool' = [pool EXCEPT ![k] = x] /\ answer' = [answer EXCEPT ![c] = x]
    BY <1>5 DEF Install
  <2>4. TypeOK'
    BY <1>5, <2>1, <2>2, <2>3 DEF TypeOK, Install, Leave
  <2>5. MadeForItsKey'
    BY <1>5, <2>1, <2>2, <2>3 DEF MadeForItsKey, TypeOK, Install
  <2> QED
    BY <2>4, <2>5
<1>6. CASE Reset
  <2>1. TypeOK'
    BY <1>6 DEF TypeOK, Reset
  <2>2. MadeForItsKey'
    BY <1>6 DEF MadeForItsKey, Reset
  <2> QED
    BY <2>1, <2>2
<1>7. CASE UNCHANGED vars
  BY <1>7, <1>0 DEF TypeOK, vars
<1> QED
  BY <1>1, <1>2, <1>3, <1>4, <1>5, <1>6, <1>7 DEF Next, Step

\* The inductive invariant of the pool (clients.py:77-101).
THEOREM PoolInvariant == Spec => []IInv
<1> QED
  BY InitIInv, NextIInv, PTL DEF Spec

\* Every variable keeps its type, and a caller about to install holds a
\* client made for its request.
THEOREM TypeCorrect == Spec => []TypeOK
<1>1. IInv => TypeOK
  BY DEF IInv
<1> QED
  BY <1>1, PoolInvariant, PTL

\* A pooled client was constructed with the arguments of every request its
\* key stands for (clients.py:41-54), but for the engine token "default".
THEOREM PooledClientsFitTheirKey == Spec => []PooledForItsKey
<1>1. IInv => PooledForItsKey
  <2> SUFFICES ASSUME IInv, NEW r \in Requests, pool[KeyOf(r)] # NoClient
               PROVE  made[pool[KeyOf(r)]] = r \/ SameVideo(made[pool[KeyOf(r)]], r)
    BY DEF PooledForItsKey
  <2>1. /\ made[pool[KeyOf(r)]] \in Requests
        /\ KeyOf(made[pool[KeyOf(r)]]) = KeyOf(r)
    BY RequestsHaveKeys DEF IInv, MadeForItsKey
  <2> QED
    BY <2>1, KeysAreDistinct
<1> QED
  BY <1>1, PoolInvariant, PTL

-----------------------------------------------------------------------------
(* Refinement *)

asking == [c \in Callers |-> IF pc[c] = "idle" THEN NoKey ELSE KeyOf(req[c])]

LEMMA InitKept == Init => Promise!Init
<1> QED
  BY DEF Init, Promise!Init

\* Every step of the pool is a step of the promise, or none.
LEMMA StepKept == IInv /\ [Next]_vars => [Promise!Next]_<<pool, asking, answer>>
<1> SUFFICES ASSUME IInv, [Next]_vars PROVE [Promise!Next]_<<pool, asking, answer>>
  OBVIOUS
<1> USE PoolAssumption DEF IInv, TypeOK
<1> DEFINE Key(c) == KeyOf(req[c])
<1>0. \A c \in Callers :
        /\ asking[c] = IF pc[c] = "idle" THEN NoKey ELSE Key(c)
        /\ pc[c] # "idle" => Key(c) \in PoolKeys /\ asking[c] # NoKey
  BY RequestsHaveKeys DEF asking
<1>1. ASSUME NEW c \in Callers, Call(c) PROVE Promise!Next
  <2> PICK r \in Requests : req' = [req EXCEPT ![c] = r]
    BY <1>1 DEF Call
  <2>1. KeyOf(r) \in PoolKeys
    BY RequestsHaveKeys
  <2>2. asking' = [asking EXCEPT ![c] = KeyOf(r)]
    BY <1>1 DEF Call, asking
  <2>3. Promise!Ask(c, KeyOf(r))
    BY <1>1, <1>0, <2>2 DEF Call, Promise!Ask, asking
  <2> QED
    BY <2>1, <2>3 DEF Promise!Next
<1>2. ASSUME NEW c \in Callers, Leave(c) PROVE asking' = [asking EXCEPT ![c] = NoKey]
  BY <1>2 DEF Leave, asking
<1>3. ASSUME NEW c \in Callers, Lookup(c)
      PROVE  Promise!Next \/ UNCHANGED <<pool, asking, answer>>
  <2>1. CASE pool[Key(c)] # NoClient
    <3>1. Promise!Again(c)
      BY <1>3, <1>2, <1>0, <2>1 DEF Lookup, Promise!Again, asking
    <3> QED
      BY <3>1 DEF Promise!Next
  <2>2. CASE pool[Key(c)] = NoClient
    BY <1>3, <2>2 DEF Lookup, asking
  <2> QED
    BY <2>1, <2>2
<1>4. ASSUME NEW c \in Callers, Build(c) PROVE UNCHANGED <<pool, asking, answer>>
  BY <1>4 DEF Build, asking
<1>5. ASSUME NEW c \in Callers, BuildFails(c) PROVE Promise!Next
  <2>1. Promise!Fail(c)
    BY <1>5, <1>2, <1>0 DEF BuildFails, Promise!Fail, asking
  <2> QED
    BY <2>1 DEF Promise!Next
<1>6. ASSUME NEW c \in Callers, Install(c) PROVE Promise!Next
  <2>1. asking[c] = Key(c) /\ Key(c) \in PoolKeys /\ asking[c] # NoKey
    BY <1>6, <1>0 DEF Install
  <2>2. CASE pool[Key(c)] = NoClient
    <3> PICK x \in Clients : x = built[c]
      BY <1>6 DEF Install
    <3>1. made[x] = req[c]
      BY <1>6 DEF Install
    <3>2. \A k \in PoolKeys : pool[k] # x
      BY <3>1, <2>2 DEF MadeForItsKey
    <3>3. Kept(pool[Key(c)], built[c]) = x
      BY <2>2 DEF Kept
    <3>4. Promise!First(c, x)
      BY <1>6, <1>2, <2>1, <2>2, <3>2, <3>3 DEF Install, Promise!First, asking
    <3> QED
      BY <3>4 DEF Promise!Next
  <2>3. CASE pool[Key(c)] # NoClient
    <3>1. Kept(pool[Key(c)], built[c]) = pool[Key(c)]
      BY <2>3 DEF Kept
    <3>2. pool' = pool
      BY <1>6, <2>1, <3>1 DEF Install
    <3>3. Promise!Again(c)
      BY <1>6, <1>2, <2>1, <2>3, <3>1, <3>2 DEF Install, Promise!Again, asking
    <3> QED
      BY <3>3 DEF Promise!Next
  <2> QED
    BY <2>2, <2>3
<1>7. CASE Reset
  BY <1>7 DEF Reset, Promise!Next, Promise!Reset, asking
<1>8. CASE UNCHANGED vars
  BY <1>8 DEF vars, asking
<1> QED
  BY <1>1, <1>3, <1>4, <1>5, <1>6, <1>7, <1>8 DEF Next, Step

\* The pool keeps its promise: callers of one key converge on one client
\* (clients.py:99), a client answers for one key, a failure leaves nothing.
THEOREM PoolKeepsItsPromise == Spec => PromiseKept
<1> QED
  BY InitKept, StepKept, PoolInvariant, PTL DEF Spec, PromiseKept, Promise!Spec, asking
=============================================================================
