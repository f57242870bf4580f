------------------------------ MODULE RunGrants ------------------------------
(***************************************************************************)
(* Run grants: model access for one agent run, with a pinned model, a      *)
(* spend limit and an expiry.  Several service processes share one Redis;  *)
(* a handler is a sequence of Redis round trips (one action each) and      *)
(* every other handler, the clocks and a failure may come in between.      *)
(*                                                                         *)
(* Redis holds four keys per grant, each with its own expiry.  An absent   *)
(* key has exp = 0.  Two clocks: `now` is the service's (RunGrant.expired, *)
(* grant_ttl_end), `rnow` is the one Redis drops keys by.                  *)
(***************************************************************************)
EXTENDS Integers, FiniteSets

CONSTANTS
    Procs,      \* request slots: at most one request in progress in each
    Runs,       \* run ids, chosen by issuers
    Issuers,    \* API key labels
    Terms,      \* what a grant pins: engine and model
    Keys,       \* grant keys, 256 bits of randomness each: never drawn twice
    Ids,        \* identities of grant records, one per record ever stored
    Limits,     \* spend limits, in picodollars
    Costs,      \* what a priced turn may cost, in picodollars
    MaxCost,    \* the dearest turn
    TTLs,       \* requested lifetimes, in seconds
    MaxTime,    \* bound: both clocks stop here
    Skew,       \* bound: how far the two clocks may be apart
    NoId, NoRun \* "no grant record", "no run"

ASSUME SetsAssumption == /\ NoId \notin Ids
                         /\ NoRun \notin Runs
                         /\ IsFiniteSet(Procs)
ASSUME MoneyAssumption == /\ MaxCost \in Nat
                          /\ Costs \subseteq 0..MaxCost
                          /\ Limits \subseteq Nat \ {0}
ASSUME TimeAssumption == /\ TTLs \subseteq Nat \ {0}
                         /\ MaxTime \in Nat
                         /\ Skew \in Nat

VARIABLES
    now, rnow,          \* the service's clock and Redis's
    grant,              \* grant:<run>       the record stored for the run
    keyRun,             \* grant-key:<sha>   the run a key belongs to
    keySet,             \* grant-keys:<run>  the digests of the grant's keys
    spend,              \* grant-spend:<run> picodollars so far
    pc, req,            \* per request: next step, and what was asked
    held,               \* per request: the grant record it works with
    digests,            \* per request: what revoke read with SMEMBERS
    minted,             \* history: every grant record ever stored
    keyFor,             \* history: the grant each key was made for
    charged,            \* history: what turns under each grant added up to
    revoked,            \* history: grants a revoke took out of Redis
    stray               \* history: grants whose run a request begun under an
                        \* earlier grant wrote to while they were live

clocks  == <<now, rnow>>
redis   == <<grant, keyRun, keySet, spend>>
local   == <<pc, req, held, digests>>
history == <<minted, keyFor, charged, revoked, stray>>
vars    == <<clocks, redis, local, history>>

-----------------------------------------------------------------------------
(* Types *)

Grant == [run: Runs, issuer: Issuers, terms: Terms, limit: Limits, exp: Nat \ {0}]

NoReq == [op |-> "none"]
IssueReq  == [op: {"issue"}, want: Grant]
RevokeReq == [op: {"revoke"}, run: Runs, issuer: Issuers]
TurnReq   == [op: {"turn"}, key: Keys, run: Runs \cup {NoRun}]

IssueSteps  == {"set", "get", "set2", "get2", "key"}
RevokeSteps == {"own", "members", "delete"}
TurnSteps   == {"find", "grant", "check", "provider"}

\* Where a handler works with a grant record it has found or made.
Holding == {"key", "members", "delete", "check", "provider"}

NoGrant  == [id |-> NoId, exp |-> 0]
NoKey    == [run |-> NoRun, exp |-> 0]
NoKeySet == [keys |-> {}, exp |-> 0]
NoSpend  == [total |-> 0, exp |-> 0]
NotMinted == [exp |-> 0]

Minted(g) == minted[g].exp # 0

-----------------------------------------------------------------------------
(* Redis, as run_grants.py uses it *)

\* SET ... EXAT and EXPIREAT: a time already past leaves no key behind.
Keep(entry, none) == IF entry.exp > rnow THEN entry ELSE none

\* What is left of an entry when Redis's clock moves on.
Drop(entry, none) == IF entry.exp <= rnow + 1 THEN none ELSE entry

\* Mutant of SameTerms: the issuer is not compared.
SameTermsAnyIssuer(a, b) == a.terms = b.terms /\ a.limit = b.limit

\* RunGrant.same_terms: everything but the expiry.
SameTerms(a, b) == /\ a.issuer = b.issuer
                   /\ a.terms  = b.terms
                   /\ a.limit  = b.limit

\* RunGrant.expired, on the service's clock.
Expired(g) == minted[g].exp <= now

\* RunGrantStore.get: the live grant of a run, or NoId.
Get(r) == IF grant[r].id # NoId /\ ~Expired(grant[r].id) THEN grant[r].id
          ELSE NoId

\* RunGrantStore.spent_picodollars
Spent(r) == spend[r].total

\* Mutant of Vacant: SET without NX.
Always(r) == TRUE

\* SET ... NX stores only where nothing is stored.
Vacant(r) == grant[r].id = NoId

\* Mutant of WithKey: the set is written, not added to.
OnlyKey(r, k) == {k}

\* SADD
WithKey(r, k) == keySet[r].keys \cup {k}

\* Mutant of Increased: the counter is written, not added to.
Overwritten(r, c) == c

\* INCRBY
Increased(r, c) == spend[r].total + c

Init ==
    /\ now = 0 /\ rnow = 0
    /\ grant  = [r \in Runs |-> NoGrant]
    /\ keyRun = [k \in Keys |-> NoKey]
    /\ keySet = [r \in Runs |-> NoKeySet]
    /\ spend  = [r \in Runs |-> NoSpend]
    /\ pc      = [p \in Procs |-> "idle"]
    /\ req     = [p \in Procs |-> NoReq]
    /\ held    = [p \in Procs |-> NoId]
    /\ digests = [p \in Procs |-> {}]
    /\ minted  = [g \in Ids |-> NotMinted]
    /\ keyFor  = [k \in Keys |-> NoId]
    /\ charged = [g \in Ids |-> 0]
    /\ revoked = {}
    /\ stray   = {}

-----------------------------------------------------------------------------
(* Request life cycle *)

Goto(p, step) == pc' = [pc EXCEPT ![p] = step]

\* The handler answers, or dies: its locals are gone.
Finish(p) ==
    /\ pc'      = [pc EXCEPT ![p] = "idle"]
    /\ req'     = [req EXCEPT ![p] = NoReq]
    /\ held'    = [held EXCEPT ![p] = NoId]
    /\ digests' = [digests EXCEPT ![p] = {}]

Start(p, step, request) ==
    /\ pc[p] = "idle"
    /\ Goto(p, step)
    /\ req' = [req EXCEPT ![p] = request]
    /\ UNCHANGED <<clocks, redis, held, digests, history>>

\* The grant record the handler works with from here on, whatever becomes of
\* it in Redis.
Hold(p, g) == held' = [held EXCEPT ![p] = g]

-----------------------------------------------------------------------------
(* POST /v1/run-grants *)

\* Bound: a request is made only while records and keys are left for it and
\* for every request already on its way.
Room == LET issuing == Cardinality({p \in Procs : pc[p] \in IssueSteps})
        IN /\ Cardinality({g \in Ids : ~Minted(g)}) > issuing
           /\ Cardinality({k \in Keys : keyFor[k] = NoId}) > issuing

\* The expiry is grant_ttl_end's; bound: it must fit the clock.
StartIssue(p) ==
    /\ Room
    /\ \E r \in Runs, i \in Issuers, t \in Terms, l \in Limits, ttl \in TTLs :
         /\ now + ttl <= MaxTime
         /\ Start(p, "set",
                  [op |-> "issue",
                   want |-> [run |-> r, issuer |-> i, terms |-> t, limit |-> l,
                             exp |-> now + ttl]])

\* SET NX EXAT that finds no grant: a new record is stored.
Create(p, r) ==
    /\ Vacant(r)
    /\ \E g \in Ids :
        /\ ~Minted(g)
        /\ minted' = [minted EXCEPT ![g] = req[p].want]
        /\ grant' = [grant EXCEPT
                       ![r] = Keep([id |-> g, exp |-> req[p].want.exp], NoGrant)]
        /\ Hold(p, g)
    /\ Goto(p, "key")
    /\ UNCHANGED <<clocks, keyRun, keySet, spend, req, digests,
                   keyFor, charged, revoked, stray>>

\* SET NX that finds one: nothing is stored.
Occupied(p, r, step) ==
    /\ grant[r].id # NoId
    /\ Goto(p, step)
    /\ UNCHANGED <<clocks, redis, req, held, digests, history>>

IssueSet(p) ==
    /\ pc[p] = "set"
    /\ \/ Create(p, req[p].want.run)
       \/ Occupied(p, req[p].want.run, "get")

\* A live grant answers: a key for it when the terms match, else 409.
Join(p, g) ==
    \/ /\ SameTerms(minted[g], req[p].want)
       /\ Hold(p, g)
       /\ Goto(p, "key")
       /\ UNCHANGED <<clocks, redis, req, digests, history>>
    \/ /\ ~SameTerms(minted[g], req[p].want)
       /\ Finish(p)
       /\ UNCHANGED <<clocks, redis, history>>

IssueGet(p) ==
    /\ pc[p] = "get"
    /\ LET g == Get(req[p].want.run)
       IN \/ /\ g # NoId
             /\ Join(p, g)
          \/ /\ g = NoId
             /\ Goto(p, "set2")
             /\ UNCHANGED <<clocks, redis, req, held, digests, history>>

IssueSetAgain(p) ==
    /\ pc[p] = "set2"
    /\ \/ Create(p, req[p].want.run)
       \/ Occupied(p, req[p].want.run, "get2")

\* A second miss is a conflict too.
IssueGetAgain(p) ==
    /\ pc[p] = "get2"
    /\ LET g == Get(req[p].want.run)
       IN \/ /\ g # NoId
             /\ Join(p, g)
          \/ /\ g = NoId
             /\ Finish(p)
             /\ UNCHANGED <<clocks, redis, history>>

\* Mutant of KeyExpiry: the lifetime this request asked for.
RequestedExpiry(p) == req[p].want.exp

\* A key expires with its grant, not with the request that asked for it.
KeyExpiry(p) == minted[held[p]].exp

\* The MULTI: the key, its digest in the grant's set, the set's expiry.  It
\* does not look at the grant again.  The answer also reads the spend, which
\* nobody acts on.
IssueKey(p) ==
    /\ pc[p] = "key"
    /\ LET g == held[p]
           r == minted[g].run
           e == KeyExpiry(p)
       IN /\ \E k \in Keys :
               /\ keyFor[k] = NoId
               /\ keyRun' = [keyRun EXCEPT
                               ![k] = Keep([run |-> r, exp |-> e], NoKey)]
               /\ keySet' = [keySet EXCEPT
                               ![r] = Keep([keys |-> WithKey(r, k),
                                            exp |-> e], NoKeySet)]
               /\ keyFor' = [keyFor EXCEPT ![k] = g]
          /\ stray' = IF grant[r].id \in {g, NoId} THEN stray
                      ELSE stray \cup {grant[r].id}
    /\ Finish(p)
    /\ UNCHANGED <<clocks, grant, spend, minted, charged, revoked>>

Issue(p) == \/ StartIssue(p) \/ IssueSet(p) \/ IssueGet(p)
            \/ IssueSetAgain(p) \/ IssueGetAgain(p)
            \/ IssueKey(p)

-----------------------------------------------------------------------------
(* DELETE /v1/run-grants/{run_id} *)

StartRevoke(p) ==
    \E r \in Runs, i \in Issuers :
        Start(p, "own", [op |-> "revoke", run |-> r, issuer |-> i])

\* The route's own read: 404 for another issuer's grant, nothing to do when
\* there is none.
RevokeOwn(p) ==
    /\ pc[p] = "own"
    /\ LET g == Get(req[p].run)
           own == g # NoId /\ minted[g].issuer = req[p].issuer
       IN \/ /\ own
             /\ Hold(p, g)
             /\ Goto(p, "members")
             /\ UNCHANGED <<clocks, redis, req, digests, history>>
          \/ /\ ~own
             /\ Finish(p)
             /\ UNCHANGED <<clocks, redis, history>>

\* SMEMBERS; the spend read that follows is only reported.
RevokeMembers(p) ==
    /\ pc[p] = "members"
    /\ digests' = [digests EXCEPT ![p] = keySet[req[p].run].keys]
    /\ Goto(p, "delete")
    /\ UNCHANGED <<clocks, redis, req, held, history>>

\* The MULTI deletes by run id, whatever is stored there by now.
RevokeDelete(p) ==
    /\ pc[p] = "delete"
    /\ LET r == req[p].run
       IN /\ grant'  = [grant EXCEPT ![r] = NoGrant]
          /\ keySet' = [keySet EXCEPT ![r] = NoKeySet]
          /\ spend'  = [spend EXCEPT ![r] = NoSpend]
          /\ revoked' = revoked \cup ({grant[r].id} \ {NoId})
    /\ keyRun' = [k \in Keys |-> IF k \in digests[p] THEN NoKey ELSE keyRun[k]]
    /\ Finish(p)
    /\ UNCHANGED <<clocks, minted, keyFor, charged, stray>>

Revoke(p) == \/ StartRevoke(p) \/ RevokeOwn(p) \/ RevokeMembers(p)
             \/ RevokeDelete(p)

-----------------------------------------------------------------------------
(* POST /v1/conversations/turn with a grant key *)

StartTurn(p) ==
    \E k \in Keys :
        /\ keyFor[k] # NoId
        /\ Start(p, "find", [op |-> "turn", key |-> k, run |-> NoRun])

\* RunGrantStore.find, first read: the key's run, or 401.
TurnFind(p) ==
    /\ pc[p] = "find"
    /\ LET r == keyRun[req[p].key].run
       IN \/ /\ r # NoRun
             /\ req' = [req EXCEPT ![p].run = r]
             /\ Goto(p, "grant")
             /\ UNCHANGED <<clocks, redis, held, digests, history>>
          \/ /\ r = NoRun
             /\ Finish(p)
             /\ UNCHANGED <<clocks, redis, history>>

\* RunGrantStore.find, second read: the run's live grant, or 401.
TurnGrant(p) ==
    /\ pc[p] = "grant"
    /\ LET g == Get(req[p].run)
       IN \/ /\ g # NoId
             /\ Hold(p, g)
             /\ Goto(p, "check")
             /\ UNCHANGED <<clocks, redis, req, digests, history>>
          \/ /\ g = NoId
             /\ Finish(p)
             /\ UNCHANGED <<clocks, redis, history>>

\* Mutant of LimitReached: the limit itself still lets a turn through.
LimitPassed(p) == Spent(minted[held[p]].run) > minted[held[p]].limit

\* The spend read before the turn: 402 once the limit is reached.
LimitReached(p) == Spent(minted[held[p]].run) >= minted[held[p]].limit

TurnAdmit(p) ==
    /\ pc[p] = "check"
    /\ ~LimitReached(p)
    /\ Goto(p, "provider")
    /\ UNCHANGED <<clocks, redis, req, held, digests, history>>

TurnRefuse(p) ==
    /\ pc[p] = "check"
    /\ LimitReached(p)
    /\ Finish(p)
    /\ UNCHANGED <<clocks, redis, history>>

\* The provider fails, or a fallback serves the turn on a model that has no
\* price: nothing is added.
TurnUnpriced(p) ==
    /\ pc[p] = "provider"
    /\ Finish(p)
    /\ UNCHANGED <<clocks, redis, history>>

\* Mutant of SpendExpiry: INCRBY without EXPIREAT.
NoExpiry(g) == MaxTime + 1

\* EXPIREAT, to the expiry of the grant that is charged.
SpendExpiry(g) == minted[g].exp

\* The provider answers at a price (a cache hit costs nothing), and add_spend
\* sends INCRBY and EXPIREAT in one MULTI, with the grant the request was
\* authenticated by.
TurnCharge(p) ==
    /\ pc[p] = "provider"
    /\ \E c \in Costs :
        LET g == held[p]
            r == minted[g].run
        IN /\ spend' = [spend EXCEPT
                          ![r] = Keep([total |-> Increased(r, c),
                                       exp |-> SpendExpiry(g)], NoSpend)]
           /\ charged' = [charged EXCEPT ![g] = @ + c]
           /\ stray' = IF grant[r].id \in {g, NoId} THEN stray
                       ELSE stray \cup {grant[r].id}
    /\ Finish(p)
    /\ UNCHANGED <<clocks, grant, keyRun, keySet, minted, keyFor, revoked>>

Turn(p) == \/ StartTurn(p) \/ TurnFind(p) \/ TurnGrant(p)
           \/ TurnAdmit(p) \/ TurnRefuse(p)
           \/ TurnUnpriced(p) \/ TurnCharge(p)

-----------------------------------------------------------------------------
(* The environment *)

\* A Redis call fails (the request answers 503), or the process dies.  A lost
\* reply is the call followed by this.
Abort(p) ==
    /\ pc[p] # "idle"
    /\ Finish(p)
    /\ UNCHANGED <<clocks, redis, history>>

Tick ==
    /\ now < MaxTime
    /\ now + 1 <= rnow + Skew
    /\ now' = now + 1
    /\ UNCHANGED <<rnow, redis, local, history>>

\* Redis drops every key whose time has come.
RedisTick ==
    /\ rnow < MaxTime
    /\ rnow + 1 <= now + Skew
    /\ rnow' = rnow + 1
    /\ grant'  = [r \in Runs |-> Drop(grant[r], NoGrant)]
    /\ keyRun' = [k \in Keys |-> Drop(keyRun[k], NoKey)]
    /\ keySet' = [r \in Runs |-> Drop(keySet[r], NoKeySet)]
    /\ spend'  = [r \in Runs |-> Drop(spend[r], NoSpend)]
    /\ UNCHANGED <<now, local, history>>

Next == \/ \E p \in Procs : Issue(p) \/ Revoke(p) \/ Turn(p) \/ Abort(p)
        \/ Tick \/ RedisTick

Spec == Init /\ [][Next]_vars

-----------------------------------------------------------------------------
(* Properties *)

StoreOK ==
    /\ now \in Nat /\ rnow \in Nat
    /\ grant  \in [Runs -> [id: Ids \cup {NoId}, exp: Nat]]
    /\ keyRun \in [Keys -> [run: Runs \cup {NoRun}, exp: Nat]]
    /\ keySet \in [Runs -> [keys: SUBSET Keys, exp: Nat]]
    /\ spend  \in [Runs -> [total: Nat, exp: Nat]]
    /\ minted \in [Ids -> {NotMinted} \cup Grant]
    /\ keyFor \in [Keys -> Ids \cup {NoId}]
    /\ charged \in [Ids -> Nat]
    /\ revoked \subseteq Ids /\ stray \subseteq Ids

HandlersOK ==
    /\ pc \in [Procs -> {"idle"} \cup IssueSteps \cup RevokeSteps \cup TurnSteps]
    /\ req \in [Procs -> {NoReq} \cup IssueReq \cup RevokeReq \cup TurnReq]
    /\ held \in [Procs -> Ids \cup {NoId}]
    /\ digests \in [Procs -> SUBSET Keys]
    /\ \A p \in Procs :
          /\ pc[p] \in IssueSteps => req[p] \in IssueReq
          /\ pc[p] \in RevokeSteps => req[p] \in RevokeReq
          /\ pc[p] \in TurnSteps => req[p] \in TurnReq
          /\ pc[p] = "grant" => req[p].run \in Runs
          /\ pc[p] \in Holding => held[p] \in Ids /\ Minted(held[p])

\* Every variable has its type, and a handler between two steps holds what
\* its next step needs: the request it is about and a grant record.
TypeOK == StoreOK /\ HandlersOK

\* The grant record g is what Redis stores for its run.
Live(g) == Minted(g) /\ grant[minted[g].run].id = g

\* Turns admitted under g whose cost is not in yet.
InFlight(g) == {p \in Procs : pc[p] = "provider" /\ held[p] = g}

\* A run passes its limit by no more than the turns in flight when it crossed
\* it could cost (run_grants.py:36-39): what is charged, plus the dearest
\* outcome of what is in flight, stays below the limit plus one turn for each
\* request slot.  It holds while the grant is stored and no request begun
\* under an earlier grant of the run id has written to the run.
OvershootBound ==
    \A g \in Ids : Live(g) /\ g \notin stray =>
        charged[g] + MaxCost * Cardinality(InFlight(g))
            < minted[g].limit + MaxCost * Cardinality(Procs)

\* The 402 check lets a turn through.
Admitted(p) == pc[p] = "check" /\ pc'[p] = "provider"

\* No turn is admitted once the turns under its grant have cost the limit
\* (conversation_turn's 402), again while the grant is stored and undisturbed:
\* Redis never drops or resets a counter before the grant it counts for.
LimitEnforced ==
    [][\A p \in Procs :
          Admitted(p) /\ Live(held[p]) /\ held[p] \notin stray =>
              charged[held[p]] < minted[held[p]].limit]_vars

\* The set revoke reads names every key of the stored grant that works
\* (run_grants.py issue, the MULTI; revoke, SMEMBERS), unless a request begun
\* under an earlier grant of the run id wrote to the run.
LiveKeysListed ==
    \A k \in Keys : LET g == keyFor[k] IN
        g # NoId /\ keyRun[k].run # NoRun /\ Live(g) /\ g \notin stray =>
            k \in keySet[minted[g].run].keys

\* A key that works opens the grant it was handed out for, unless that grant
\* was revoked: a grant that merely expires takes its keys with it, so a later
\* grant of the same run id has no old keys.
UnrevokedKeyOpensItsGrant ==
    \A k \in Keys :
        keyRun[k].run # NoRun /\ keyFor[k] \notin revoked =>
            grant[keyRun[k].run].id = keyFor[k]

\* Once the last grant of a run id is past its expiry on Redis's clock, Redis
\* holds nothing of the run, whatever was abandoned half-way
\* (RunGrantStore: "all expiring at the grant's expires_at").
RunsCleanUp ==
    \A r \in Runs :
        (\A g \in Ids : Minted(g) /\ minted[g].run = r => minted[g].exp <= rnow)
            => /\ grant[r] = NoGrant
               /\ keySet[r] = NoKeySet
               /\ spend[r] = NoSpend
               /\ \A k \in Keys : keyRun[k].run # r

\* A stored grant is never replaced, only removed: of two issuers racing for
\* one run id, one creates it and the other meets it (SET NX, twice).
GrantNeverReplaced ==
    [][\A r \in Runs : grant[r].id # NoId /\ grant[r]'.id # NoId =>
          grant[r]' = grant[r]]_vars

stands == [r \in Runs |-> grant[r].id]

good == {k \in Keys : keyRun[k].run # NoRun}

turns == [g \in Ids |-> InFlight(g)]

Promise == INSTANCE GrantPromise WITH
    Deeds <- Grant, Turns <- Procs, Unborn <- NotMinted,
    deed <- minted, opens <- keyFor, bill <- charged

\* Whatever requests, clocks and failures come between the round trips, the
\* grants of a run id stand one after another, keys go with them, and each
\* turn let in is billed once and below the limit (run_grants.py:17-39).
GrantKept == Promise!Spec

\* A caller is handed a key only for a grant with the issuer, model and limit
\* it asked for, on whichever of issue's four ways it got there.
KeyOnAgreedTerms ==
    \A p \in Procs : pc[p] = "key" =>
        LET got == minted[held[p]]
            asked == req[p].want
        IN /\ got.run = asked.run /\ got.issuer = asked.issuer
           /\ got.terms = asked.terms /\ got.limit = asked.limit

-----------------------------------------------------------------------------
(* What the documentation says, and the code does not do *)

\* run_grants.py:38-39, "a run can pass its limit by the cost of the turns
\* already in flight when it crossed, never by more": no admission past the
\* limit while the grant is stored.
LimitWhileStored ==
    [][\A p \in Procs : Admitted(p) /\ Live(held[p]) =>
          charged[held[p]] < minted[held[p]].limit]_vars

\* routes_run_grants.py: an API key revokes only the grants it issued.
RevokesOnlyOwn ==
    [][\A p \in Procs :
          /\ pc[p] = "delete"
          /\ grant[req[p].run].id # NoId
          /\ grant'[req[p].run].id = NoId
          /\ pc'[p] = "idle"
          => minted[grant[req[p].run].id].issuer = req[p].issuer]_vars
=============================================================================
