--------------------------- MODULE RunGrantsProofs ---------------------------
(***************************************************************************)
(* Theorems about RunGrants, for every number of request slots, runs,      *)
(* issuers, keys and grants, every limit, cost and lifetime, and clocks    *)
(* that may drift apart by any Skew.                                       *)
(***************************************************************************)
EXTENDS RunGrants, FiniteSetTheorems, TLAPS

\* The steps that leave Redis, the clocks and the history alone.
Quiet == UNCHANGED <<clocks, redis, history>>

-----------------------------------------------------------------------------
(* The inductive invariant *)

\* What is stored for a run is a record minted for it, not yet expired, and
\* stored until that record's expiry.
GrantsOK ==
    \A r \in Runs : LET g == grant[r].id IN
        /\ g = NoId => grant[r] = NoGrant
        /\ g # NoId => /\ Minted(g) /\ minted[g].run = r
                       /\ grant[r].exp = minted[g].exp
                       /\ grant[r].exp > rnow

\* A record leaves Redis by expiring or by a revoke.
NeverLost ==
    \A g \in Ids : Minted(g) /\ minted[g].exp > rnow /\ g \notin revoked =>
                    grant[minted[g].run].id = g

\* A key belongs to the run of the grant it was made for, and expires with it.
KeysOK ==
    \A k \in Keys :
        /\ keyFor[k] # NoId => Minted(keyFor[k])
        /\ keyRun[k].run = NoRun => keyRun[k] = NoKey
        /\ keyRun[k].run # NoRun => /\ keyFor[k] # NoId
                                    /\ minted[keyFor[k]].run = keyRun[k].run
                                    /\ keyRun[k].exp = minted[keyFor[k]].exp
                                    /\ keyRun[k].exp > rnow

\* e is when some grant of run r expires, and that is still to come.
ExpiryOf(r, e) == /\ e > rnow
                  /\ \E g \in Ids : /\ Minted(g)
                                    /\ minted[g].run = r
                                    /\ minted[g].exp = e

\* A run's counter and key set expire with some grant of the run.
EntriesOK ==
    \A r \in Runs : /\ spend[r] # NoSpend => ExpiryOf(r, spend[r].exp)
                    /\ keySet[r] # NoKeySet => ExpiryOf(r, keySet[r].exp)

\* Nothing has happened yet to a record that was not stored.
FreshOK == \A g \in Ids : ~Minted(g) =>
              charged[g] = 0 /\ g \notin stray /\ g \notin revoked

\* The counter covers what the stored grant's turns cost, until it expires.
CounterOK ==
    \A g \in Ids : Live(g) /\ g \notin stray /\ charged[g] > 0 =>
        LET s == spend[minted[g].run]
        IN s.total >= charged[g] /\ s.exp = minted[g].exp

\* The key set lists the stored grant's working keys, until it expires.
ListedOK ==
    \A k \in Keys : LET g == keyFor[k] IN
        g # NoId /\ keyRun[k].run # NoRun /\ Live(g) /\ g \notin stray =>
            /\ k \in keySet[minted[g].run].keys
            /\ keySet[minted[g].run].exp = minted[g].exp

Parts == GrantsOK /\ NeverLost /\ KeysOK /\ EntriesOK /\ FreshOK
         /\ CounterOK /\ ListedOK

StoreInv == TypeOK /\ Parts

-----------------------------------------------------------------------------
(* What a step can do *)

\* A step changes what is stored in one of six ways, or not at all.
LEMMA NextCases ==
    ASSUME Next
    PROVE  \/ \E p \in Procs : /\ pc[p] \in {"set", "set2"}
                               /\ Create(p, req[p].want.run)
           \/ \E p \in Procs : IssueKey(p)
           \/ \E p \in Procs : RevokeDelete(p)
           \/ \E p \in Procs : TurnCharge(p)
           \/ Tick \/ RedisTick
           \/ Quiet
  <1>1. ASSUME NEW p \in Procs, Issue(p)
        PROVE  \/ pc[p] \in {"set", "set2"} /\ Create(p, req[p].want.run)
               \/ IssueKey(p)
               \/ Quiet
    BY <1>1 DEF Issue, StartIssue, Start, IssueSet, Occupied, IssueGet, Join,
                IssueSetAgain, IssueGetAgain, Quiet
  <1>2. ASSUME NEW p \in Procs, Revoke(p)
        PROVE  RevokeDelete(p) \/ Quiet
    BY <1>2 DEF Revoke, StartRevoke, Start, RevokeOwn, RevokeMembers, Quiet
  <1>3. ASSUME NEW p \in Procs, Turn(p)
        PROVE  TurnCharge(p) \/ Quiet
    BY <1>3 DEF Turn, StartTurn, Start, TurnFind, TurnGrant, TurnAdmit,
                TurnRefuse, TurnUnpriced, Quiet
  <1>4. ASSUME NEW p \in Procs, Abort(p)
        PROVE  Quiet
    BY <1>4 DEF Abort, Quiet
  <1>5. QED
    BY <1>1, <1>2, <1>3, <1>4 DEF Next

-----------------------------------------------------------------------------
(* Types *)

LEMMA InitTypeOK == Init => TypeOK
  BY SetsAssumption
  DEF Init, TypeOK, StoreOK, HandlersOK, NoGrant, NoKey, NoKeySet, NoSpend,
      NotMinted, NoReq, IssueSteps, RevokeSteps, TurnSteps, Holding, Minted

\* What is stored keeps its type.
LEMMA StoreStep ==
    ASSUME TypeOK, [Next]_vars
    PROVE  StoreOK'
  <1> USE DEF TypeOK, StoreOK
  <1>1. ASSUME NEW p \in Procs, pc[p] \in {"set", "set2"},
               Create(p, req[p].want.run)
        PROVE  StoreOK'
    <2>1. req[p].want \in Grant
      BY <1>1 DEF HandlersOK, IssueSteps, IssueReq
    <2>2. req[p].want.run \in Runs /\ req[p].want.exp \in Nat
      BY <2>1 DEF Grant
    <2>3. QED
      BY <1>1, <2>1, <2>2, SetsAssumption DEF Create, Keep, NoGrant, clocks
  <1>2. ASSUME NEW p \in Procs, IssueKey(p)
        PROVE  StoreOK'
    <2>1. /\ held[p] \in Ids /\ minted[held[p]].run \in Runs
          /\ minted[held[p]].exp \in Nat
      BY <1>2 DEF IssueKey, HandlersOK, Holding, Minted, NotMinted, Grant
    <2>2. \A r \in Runs : grant[r].id \in Ids \cup {NoId}
      OBVIOUS
    <2>3. QED
      BY <1>2, <2>1, <2>2, SetsAssumption
      DEF IssueKey, Keep, NoKey, NoKeySet, WithKey, KeyExpiry, clocks
  <1>3. ASSUME NEW p \in Procs, RevokeDelete(p)
        PROVE  StoreOK'
    <2>1. req[p].run \in Runs
      BY <1>3 DEF RevokeDelete, HandlersOK, RevokeSteps, RevokeReq
    <2>2. grant[req[p].run].id \in Ids \cup {NoId}
      BY <2>1
    <2>3. QED
      BY <1>3, <2>1, <2>2, SetsAssumption
      DEF RevokeDelete, NoGrant, NoKeySet, NoSpend, NoKey, clocks
  <1>4. ASSUME NEW p \in Procs, TurnCharge(p)
        PROVE  StoreOK'
    <2>1. /\ held[p] \in Ids /\ minted[held[p]].run \in Runs
          /\ minted[held[p]].exp \in Nat
      BY <1>4 DEF TurnCharge, HandlersOK, Holding, Minted, NotMinted, Grant
    <2>2. Costs \subseteq Nat
      BY MoneyAssumption
    <2>3. \A r \in Runs : grant[r].id \in Ids \cup {NoId}
      OBVIOUS
    <2>4. QED
      BY <1>4, <2>1, <2>2, <2>3, SetsAssumption
      DEF TurnCharge, Keep, NoSpend, Increased, SpendExpiry, clocks
  <1>5. ASSUME Tick PROVE StoreOK'
    BY <1>5 DEF Tick, redis, history
  <1>6. ASSUME RedisTick PROVE StoreOK'
    BY <1>6, SetsAssumption
    DEF RedisTick, Drop, NoGrant, NoKey, NoKeySet, NoSpend, history
  <1>7. ASSUME Quiet PROVE StoreOK'
    BY <1>7 DEF Quiet, clocks, redis, history
  <1>8. CASE UNCHANGED vars
    BY <1>8 DEF vars, clocks, redis, history
  <1>9. QED
    BY <1>1, <1>2, <1>3, <1>4, <1>5, <1>6, <1>7, <1>8, NextCases

\* A grant record, once stored, is never changed.
LEMMA MintedStays ==
    ASSUME TypeOK, [Next]_vars, NEW g \in Ids, Minted(g)
    PROVE  minted'[g] = minted[g]
  <1>1. ASSUME NEW p \in Procs, NEW r \in Runs, Create(p, r)
        PROVE  minted'[g] = minted[g]
    BY <1>1 DEF Create, TypeOK, StoreOK
  <1>2. ASSUME NEW p \in Procs, pc[p] \in {"set", "set2"}
        PROVE  req[p].want.run \in Runs
    BY <1>2 DEF TypeOK, HandlersOK, IssueSteps, IssueReq, Grant
  <1>3. CASE UNCHANGED minted
    BY <1>3
  <1>4. CASE UNCHANGED vars
    BY <1>4 DEF vars, history
  <1>5. QED
    BY <1>1, <1>2, <1>3, <1>4, NextCases
    DEF IssueKey, RevokeDelete, TurnCharge, Tick, RedisTick, Quiet, history

\* A handler that ends leaves the others as they were.
LEMMA FinishOK ==
    ASSUME TypeOK, NEW p \in Procs, Finish(p),
           \A g \in Ids : Minted(g) => Minted(g)'
    PROVE  HandlersOK'
  <1>1. "idle" \notin IssueSteps \cup RevokeSteps \cup TurnSteps \cup Holding
    BY DEF IssueSteps, RevokeSteps, TurnSteps, Holding
  <1>2. "grant" # "idle"
    OBVIOUS
  <1>3. QED
    BY <1>1, <1>2 DEF Finish, TypeOK, HandlersOK

\* A live grant that Get finds is a stored record.
LEMMA GetMinted ==
    ASSUME TypeOK, GrantsOK, NEW r \in Runs, Get(r) # NoId
    PROVE  Get(r) \in Ids /\ Minted(Get(r)) /\ Get(r) = grant[r].id
  <1>1. Get(r) = grant[r].id /\ grant[r].id # NoId
    BY DEF Get
  <1>2. grant[r].id \in Ids /\ Minted(grant[r].id)
    BY <1>1 DEF TypeOK, StoreOK, GrantsOK
  <1>3. QED
    BY <1>1, <1>2

\* Handlers keep their types and what their next step needs.
LEMMA HandlersStep ==
    ASSUME TypeOK, GrantsOK, [Next]_vars
    PROVE  HandlersOK'
  <1>m. \A g \in Ids : Minted(g) => Minted(g)'
    BY MintedStays DEF Minted
  <1> USE DEF TypeOK, HandlersOK
  <1>r. ASSUME NEW p \in Procs
        PROVE  /\ pc[p] \in IssueSteps =>
                    /\ req[p] \in IssueReq /\ req[p].want \in Grant
                    /\ req[p].want.run \in Runs /\ req[p].want.exp # 0
               /\ pc[p] \in RevokeSteps => req[p] \in RevokeReq /\ req[p].run \in Runs
               /\ pc[p] \in TurnSteps => req[p] \in TurnReq /\ req[p].key \in Keys
    BY DEF IssueReq, RevokeReq, TurnReq, Grant
  <1> DEFINE Steps == {"idle"} \cup IssueSteps \cup RevokeSteps \cup TurnSteps
  <1>1. ASSUME NEW p \in Procs, NEW step \in Steps, NEW request,
               Start(p, step, request),
               step \notin Holding, step # "grant",
               \/ step \in IssueSteps /\ request \in IssueReq
               \/ step \in RevokeSteps /\ request \in RevokeReq
               \/ step \in TurnSteps /\ request \in TurnReq
        PROVE  HandlersOK'
    BY <1>1, <1>m DEF Start, Goto, IssueSteps, RevokeSteps, TurnSteps
  <1>2. ASSUME NEW p \in Procs, Issue(p)
        PROVE  HandlersOK'
    <2>1. CASE StartIssue(p)
      <3>1. PICK r \in Runs, i \in Issuers, t \in Terms, l \in Limits, ttl \in TTLs :
               Start(p, "set",
                  [op |-> "issue",
                   want |-> [run |-> r, issuer |-> i, terms |-> t, limit |-> l,
                             exp |-> now + ttl]])
        BY <2>1 DEF StartIssue
      <3>2. now + ttl \in Nat \ {0}
        BY TimeAssumption DEF StoreOK
      <3>3. [op |-> "issue",
             want |-> [run |-> r, issuer |-> i, terms |-> t, limit |-> l,
                       exp |-> now + ttl]] \in IssueReq
        BY <3>2 DEF IssueReq, Grant
      <3>4. "set" \in IssueSteps /\ "set" \notin Holding
        BY DEF IssueSteps, Holding
      <3>5. QED
        BY <3>1, <3>3, <3>4, <1>1
    <2>2. ASSUME Create(p, req[p].want.run), pc[p] \in {"set", "set2"}
          PROVE  HandlersOK'
      <3>1. PICK g \in Ids : minted' = [minted EXCEPT ![g] = req[p].want] /\ Hold(p, g)
        BY <2>2 DEF Create
      <3>2. pc[p] \in IssueSteps
        BY <2>2 DEF IssueSteps
      <3>3. Minted(g)'
        BY <3>1, <3>2, <1>r DEF Minted, StoreOK
      <3>4. QED
        BY <2>2, <3>1, <3>2, <3>3, <1>m, <1>r
        DEF Create, Goto, Hold, IssueSteps, RevokeSteps, TurnSteps
    <2>3. ASSUME NEW step \in {"get", "get2"}, Occupied(p, req[p].want.run, step),
                 pc[p] \in {"set", "set2"}
          PROVE  HandlersOK'
      BY <2>3, <1>m, <1>r DEF Occupied, Goto, IssueSteps, RevokeSteps, TurnSteps, Holding
    <2>4. ASSUME NEW g \in Ids, Minted(g), Join(p, g), pc[p] \in {"get", "get2"}
          PROVE  HandlersOK'
      <3>1. CASE Finish(p)
        BY <3>1, <1>m, FinishOK
      <3>2. CASE Hold(p, g) /\ Goto(p, "key") /\ UNCHANGED <<req, digests>>
        BY <2>4, <3>2, <1>m, <1>r DEF Goto, Hold, IssueSteps, RevokeSteps, TurnSteps
      <3>3. QED
        BY <2>4, <3>1, <3>2 DEF Join
    <2>5. ASSUME NEW r \in Runs, Get(r) # NoId
          PROVE  Get(r) \in Ids /\ Minted(Get(r))
      BY <2>5, GetMinted
    <2>6. CASE IssueGet(p)
      <3>1. req[p].want.run \in Runs
        BY <2>6, <1>r DEF IssueGet, IssueSteps
      <3>2. CASE Goto(p, "set2") /\ UNCHANGED <<req, held, digests>>
        BY <2>6, <3>2, <1>m, <1>r
        DEF IssueGet, Goto, IssueSteps, RevokeSteps, TurnSteps, Holding
      <3>3. QED
        BY <2>6, <2>4, <2>5, <3>1, <3>2 DEF IssueGet
    <2>7. CASE IssueGetAgain(p)
      <3>1. req[p].want.run \in Runs
        BY <2>7, <1>r DEF IssueGetAgain, IssueSteps
      <3>2. QED
        BY <2>7, <2>4, <2>5, <3>1, <1>m, FinishOK DEF IssueGetAgain
    <2>8. CASE IssueKey(p)
      BY <2>8, <1>m, FinishOK DEF IssueKey
    <2>9. QED
      BY <1>2, <2>1, <2>2, <2>3, <2>6, <2>7, <2>8 DEF Issue, IssueSet, IssueSetAgain
  <1>3. ASSUME NEW p \in Procs, Revoke(p)
        PROVE  HandlersOK'
    <2>1. CASE StartRevoke(p)
      <3>1. PICK r \in Runs, i \in Issuers :
               Start(p, "own", [op |-> "revoke", run |-> r, issuer |-> i])
        BY <2>1 DEF StartRevoke
      <3>2. [op |-> "revoke", run |-> r, issuer |-> i] \in RevokeReq
        BY DEF RevokeReq
      <3>3. "own" \in RevokeSteps /\ "own" \notin Holding
        BY DEF RevokeSteps, Holding
      <3>4. QED
        BY <3>1, <3>2, <3>3, <1>1
    <2>2. CASE RevokeOwn(p)
      <3>1. CASE Finish(p)
        BY <3>1, <1>m, FinishOK
      <3>2. CASE ~Finish(p)
        <4>1. req[p].run \in Runs
          BY <2>2, <1>r DEF RevokeOwn, RevokeSteps
        <4>2. Get(req[p].run) \in Ids /\ Minted(Get(req[p].run))
          BY <2>2, <3>2, <4>1, GetMinted DEF RevokeOwn
        <4>3. QED
          BY <2>2, <3>2, <4>2, <1>m, <1>r
          DEF RevokeOwn, Goto, Hold, IssueSteps, RevokeSteps, TurnSteps
      <3>3. QED
        BY <3>1, <3>2
    <2>3. CASE RevokeMembers(p)
      BY <2>3, <1>m, <1>r
      DEF RevokeMembers, Goto, IssueSteps, RevokeSteps, TurnSteps, Holding, StoreOK
    <2>4. CASE RevokeDelete(p)
      BY <2>4, <1>m, FinishOK DEF RevokeDelete
    <2>5. QED
      BY <1>3, <2>1, <2>2, <2>3, <2>4 DEF Revoke
  <1>4. ASSUME NEW p \in Procs, Turn(p)
        PROVE  HandlersOK'
    <2>1. CASE StartTurn(p)
      <3>1. PICK k \in Keys : Start(p, "find", [op |-> "turn", key |-> k, run |-> NoRun])
        BY <2>1 DEF StartTurn
      <3>2. [op |-> "turn", key |-> k, run |-> NoRun] \in TurnReq
        BY DEF TurnReq
      <3>3. "find" \in TurnSteps /\ "find" \notin Holding
        BY DEF TurnSteps, Holding
      <3>4. QED
        BY <3>1, <3>2, <3>3, <1>1
    <2>2. CASE TurnFind(p)
      <3>1. CASE Finish(p)
        BY <3>1, <1>m, FinishOK
      <3>2. CASE ~Finish(p)
        <4> DEFINE r == keyRun[req[p].key].run
        <4>1. req[p] \in TurnReq /\ req[p].key \in Keys
          BY <2>2, <1>r DEF TurnFind, TurnSteps
        <4>2. r \in Runs
          BY <2>2, <3>2, <4>1 DEF TurnFind, StoreOK
        <4>3. req' = [req EXCEPT ![p].run = r] /\ Goto(p, "grant")
              /\ UNCHANGED <<held, digests>>
          BY <2>2, <3>2 DEF TurnFind
        <4>4. req'[p] \in TurnReq /\ req'[p].run = r
          BY <4>1, <4>2, <4>3 DEF TurnReq
        <4>5. \A q \in Procs : q # p => req'[q] = req[q]
          BY <4>3
        <4>6. req' \in [Procs -> {NoReq} \cup IssueReq \cup RevokeReq \cup TurnReq]
          BY <4>1, <4>2, <4>3, <4>4, <4>5
        <4> HIDE DEF r
        <4>7. QED
          BY <4>2, <4>3, <4>4, <4>5, <4>6, <1>m
          DEF Goto, IssueSteps, RevokeSteps, TurnSteps, Holding
      <3>3. QED
        BY <3>1, <3>2
    <2>3. CASE TurnGrant(p)
      <3>1. CASE Finish(p)
        BY <3>1, <1>m, FinishOK
      <3>2. CASE ~Finish(p)
        <4>1. req[p].run \in Runs
          BY <2>3 DEF TurnGrant
        <4>2. Get(req[p].run) \in Ids /\ Minted(Get(req[p].run))
          BY <2>3, <3>2, <4>1, GetMinted DEF TurnGrant
        <4>3. QED
          BY <2>3, <3>2, <4>2, <1>m, <1>r
          DEF TurnGrant, Goto, Hold, IssueSteps, RevokeSteps, TurnSteps
      <3>3. QED
        BY <3>1, <3>2
    <2>4. CASE TurnAdmit(p)
      BY <2>4, <1>m, <1>r
      DEF TurnAdmit, Goto, IssueSteps, RevokeSteps, TurnSteps, Holding
    <2>5. CASE Finish(p)
      BY <2>5, <1>m, FinishOK
    <2>6. QED
      BY <1>4, <2>1, <2>2, <2>3, <2>4, <2>5 DEF Turn, TurnRefuse, TurnUnpriced, TurnCharge
  <1>5. ASSUME NEW p \in Procs, Abort(p)
        PROVE  HandlersOK'
    BY <1>5, <1>m, FinishOK DEF Abort
  <1>6. ASSUME UNCHANGED local
        PROVE  HandlersOK'
    BY <1>6, <1>m DEF local
  <1>7. QED
    BY <1>2, <1>3, <1>4, <1>5, <1>6 DEF Next, Tick, RedisTick, vars

LEMMA TypeStep ==
    ASSUME StoreInv, [Next]_vars
    PROVE  TypeOK'
  BY StoreStep, HandlersStep DEF StoreInv, Parts, TypeOK

-----------------------------------------------------------------------------
(* Every step keeps the parts of the invariant *)

\* A stored record is a grant.
LEMMA MintedGrant ==
    ASSUME StoreOK, NEW g \in Ids, Minted(g)
    PROVE  /\ minted[g] \in Grant
           /\ minted[g].run \in Runs
           /\ minted[g].exp \in Nat \ {0}
           /\ minted[g].limit \in Nat \ {0}
  <1>1. minted[g] \in Grant
    BY DEF StoreOK, Minted, NotMinted
  <1>2. QED
    BY <1>1, MoneyAssumption DEF Grant

\* A new record is stored where there was none.
LEMMA CreateParts ==
    ASSUME StoreInv, TypeOK', NEW p \in Procs, pc[p] \in {"set", "set2"},
           Create(p, req[p].want.run)
    PROVE  Parts'
  <1> DEFINE w == req[p].want
  <1>1. w \in Grant /\ w.run \in Runs /\ w.exp \in Nat \ {0}
    BY DEF StoreInv, TypeOK, HandlersOK, IssueSteps, IssueReq, Grant
  <1>2. PICK g \in Ids :
          /\ ~Minted(g)
          /\ minted' = [minted EXCEPT ![g] = w]
          /\ grant' = [grant EXCEPT ![w.run] = Keep([id |-> g, exp |-> w.exp], NoGrant)]
    BY DEF Create
  <1>3. /\ grant[w.run].id = NoId
        /\ UNCHANGED <<now, rnow, keyRun, keySet, spend, keyFor, charged, revoked, stray>>
    BY DEF Create, Vacant, clocks
  <1>4. /\ minted'[g] = w /\ Minted(g)'
        /\ \A h \in Ids : h # g => minted'[h] = minted[h]
        /\ \A h \in Ids : Minted(h) => h # g /\ Minted(h)' /\ minted'[h] = minted[h]
    BY <1>1, <1>2 DEF Minted, StoreInv, TypeOK, StoreOK
  <1>5. /\ grant'[w.run] = IF w.exp > rnow THEN [id |-> g, exp |-> w.exp] ELSE NoGrant
        /\ \A r \in Runs : r # w.run => grant'[r] = grant[r]
    BY <1>1, <1>2 DEF Keep, StoreInv, TypeOK, StoreOK
  <1> HIDE DEF w
  <1> USE SetsAssumption
  <1>6. GrantsOK'
    <2>1. ASSUME NEW r \in Runs, r # w.run
          PROVE  grant'[r].id # NoId => /\ grant'[r].id \in Ids
                                        /\ Minted(grant[r].id)
                                        /\ minted'[grant[r].id] = minted[grant[r].id]
      BY <2>1, <1>4, <1>5 DEF StoreInv, Parts, TypeOK, StoreOK, GrantsOK
    <2>2. ASSUME NEW r \in Runs, r # w.run
          PROVE  GrantsOK!(r)'
      BY <2>1, <2>2, <1>3, <1>4, <1>5 DEF StoreInv, Parts, GrantsOK
    <2>3. CASE w.exp > rnow
      BY <2>2, <2>3, <1>1, <1>3, <1>4, <1>5 DEF GrantsOK
    <2>4. CASE ~(w.exp > rnow)
      BY <2>2, <2>4, <1>1, <1>3, <1>4, <1>5 DEF GrantsOK, NoGrant
    <2>5. QED
      BY <2>3, <2>4
  <1>7. NeverLost'
    <2>1. ASSUME NEW h \in Ids, Minted(h)', minted'[h].exp > rnow, h \notin revoked
          PROVE  grant'[minted'[h].run].id = h
      <3>1. CASE h = g
        BY <3>1, <2>1, <1>1, <1>4, <1>5
      <3>2. CASE h # g
        <4>1. Minted(h) /\ minted'[h] = minted[h]
          BY <3>2, <2>1, <1>4 DEF Minted
        <4>2. grant[minted[h].run].id = h /\ minted[h].run \in Runs
          BY <4>1, <2>1, MintedGrant DEF StoreInv, Parts, TypeOK, NeverLost
        <4>3. minted[h].run # w.run
          BY <4>2, <1>3
        <4>4. QED
          BY <4>1, <4>2, <4>3, <1>5
      <3>3. QED
        BY <3>1, <3>2
    <2>2. QED
      BY <2>1, <1>3 DEF NeverLost
  <1>8. KeysOK'
    BY <1>3, <1>4 DEF StoreInv, Parts, TypeOK, StoreOK, KeysOK
  <1>9. EntriesOK'
    <2>1. ASSUME NEW r \in Runs, NEW e, ExpiryOf(r, e)
          PROVE  ExpiryOf(r, e)'
      BY <2>1, <1>3, <1>4 DEF ExpiryOf
    <2>2. QED
      BY <2>1, <1>3 DEF StoreInv, Parts, EntriesOK
  <1>10. FreshOK'
    BY <1>3, <1>4 DEF StoreInv, Parts, FreshOK, Minted
  <1>11. ASSUME NEW h \in Ids, Live(h)'
         PROVE  Live(h) \/ h = g
    BY <1>1, <1>3, <1>4, <1>5, <1>11
    DEF Live, Minted, NoGrant, StoreInv, TypeOK, StoreOK, Grant, NotMinted
  <1>12. CounterOK'
    BY <1>2, <1>3, <1>4, <1>11 DEF StoreInv, Parts, CounterOK, FreshOK, Live
  <1>13. ListedOK'
    BY <1>2, <1>3, <1>4, <1>11
    DEF StoreInv, Parts, TypeOK, StoreOK, ListedOK, KeysOK, Live
  <1>14. QED
    BY <1>6, <1>7, <1>8, <1>9, <1>10, <1>12, <1>13 DEF Parts

\* A request ends, or moves on, without touching what is stored.
LEMMA QuietParts ==
    ASSUME StoreInv, UNCHANGED <<rnow, redis, history>>
    PROVE  Parts'
  BY DEF StoreInv, Parts, GrantsOK, NeverLost, KeysOK, EntriesOK, ExpiryOf,
         FreshOK, CounterOK, ListedOK, Minted, Live, redis, history

\* A key is added: to the grant it is for, which may be gone, or while another
\* grant of the run is stored, which is then marked.
LEMMA KeyParts ==
    ASSUME StoreInv, TypeOK', NEW p \in Procs, IssueKey(p)
    PROVE  Parts'
  <1> DEFINE g == held[p]
             r == minted[g].run
             e == minted[g].exp
  <1>1. g \in Ids /\ Minted(g) /\ r \in Runs /\ e \in Nat \ {0}
    <2>1. g \in Ids /\ Minted(g)
      BY DEF IssueKey, StoreInv, TypeOK, HandlersOK, Holding
    <2>2. QED
      BY <2>1, MintedGrant DEF StoreInv, TypeOK
  <1>2. PICK k \in Keys :
          /\ keyFor[k] = NoId
          /\ keyRun' = [keyRun EXCEPT ![k] = Keep([run |-> r, exp |-> e], NoKey)]
          /\ keySet' = [keySet EXCEPT
                          ![r] = Keep([keys |-> WithKey(r, k), exp |-> e], NoKeySet)]
          /\ keyFor' = [keyFor EXCEPT ![k] = g]
    BY DEF IssueKey, KeyExpiry
  <1>3. /\ UNCHANGED <<now, rnow, grant, spend, minted, charged, revoked>>
        /\ stray' = IF grant[r].id \in {g, NoId} THEN stray
                    ELSE stray \cup {grant[r].id}
    BY DEF IssueKey, clocks
  <1>4. /\ keyRun'[k] = IF e > rnow THEN [run |-> r, exp |-> e] ELSE NoKey
        /\ keySet'[r] = IF e > rnow THEN [keys |-> keySet[r].keys \cup {k}, exp |-> e]
                        ELSE NoKeySet
        /\ keyFor'[k] = g
        /\ \A h \in Keys : h # k => keyRun'[h] = keyRun[h] /\ keyFor'[h] = keyFor[h]
        /\ \A q \in Runs : q # r => keySet'[q] = keySet[q]
    BY <1>1, <1>2 DEF Keep, WithKey, StoreInv, TypeOK, StoreOK
  <1>m. \A h \in Ids : Minted(h)' = Minted(h) /\ Live(h)' = Live(h)
    BY <1>3 DEF Minted, Live
  <1> HIDE DEF g
  <1> USE SetsAssumption
  <1>5. GrantsOK' /\ NeverLost'
    BY <1>3 DEF StoreInv, Parts, GrantsOK, NeverLost, Minted
  <1>6. KeysOK'
    <2>1. KeysOK!(k)'
      BY <1>1, <1>3, <1>4, <1>m DEF NoKey
    <2>2. ASSUME NEW h \in Keys, h # k
          PROVE  KeysOK!(h)'
      BY <2>2, <1>3, <1>4 DEF StoreInv, Parts, KeysOK, Minted
    <2>3. QED
      BY <2>1, <2>2 DEF KeysOK
  <1>7. EntriesOK'
    <2>1. ASSUME NEW q \in Runs, NEW x
          PROVE  ExpiryOf(q, x) => (/\ x > rnow'
                                    /\ \E h \in Ids : /\ Minted(h)'
                                                     /\ minted'[h].run = q
                                                     /\ minted'[h].exp = x)
      BY <1>3 DEF ExpiryOf, Minted
    <2>2. e > rnow => ExpiryOf(r, e)
      BY <1>1 DEF ExpiryOf
    <2>3. keySet'[r] # NoKeySet => ExpiryOf(r, keySet'[r].exp)
      BY <2>2, <1>4
    <2>4. \A q \in Runs : keySet'[q] # NoKeySet => ExpiryOf(q, keySet'[q].exp)
      BY <2>3, <1>4 DEF StoreInv, Parts, EntriesOK
    <2>5. \A q \in Runs : spend'[q] # NoSpend => ExpiryOf(q, spend'[q].exp)
      BY <1>3 DEF StoreInv, Parts, EntriesOK
    <2>6. QED
      BY <2>1, <2>4, <2>5 DEF EntriesOK, ExpiryOf
  <1>8. FreshOK'
    <2>1. grant[r].id # NoId => Minted(grant[r].id)
      BY <1>1 DEF StoreInv, Parts, GrantsOK
    <2>2. QED
      BY <2>1, <1>3, <1>m DEF StoreInv, Parts, FreshOK
  <1>9. CounterOK'
    BY <1>3, <1>m DEF StoreInv, Parts, CounterOK
  <1>10. ListedOK'
    <2>1. ASSUME NEW h \in Keys, keyFor'[h] # NoId, keyRun'[h].run # NoRun,
                 Live(keyFor'[h]), keyFor'[h] \notin stray'
          PROVE  /\ h \in keySet'[minted[keyFor'[h]].run].keys
                 /\ keySet'[minted[keyFor'[h]].run].exp = minted[keyFor'[h]].exp
      <3>1. CASE h = k
        BY <3>1, <2>1, <1>1, <1>4 DEF NoKey
      <3>2. CASE h # k
        <4> DEFINE f == keyFor[h]
        <4>1. f = keyFor'[h] /\ f \in Ids /\ keyRun'[h] = keyRun[h] /\ f \notin stray
          BY <3>2, <2>1, <1>3, <1>4 DEF StoreInv, TypeOK, StoreOK
        <4>2. /\ h \in keySet[minted[f].run].keys
              /\ keySet[minted[f].run].exp = minted[f].exp
              /\ minted[f].run \in Runs
          BY <4>1, <2>1, MintedGrant DEF StoreInv, Parts, TypeOK, ListedOK, Live
        <4>3. CASE minted[f].run # r
          BY <4>1, <4>2, <4>3, <1>4
        <4>4. CASE minted[f].run = r
          <5>1. grant[r].id = f
            BY <4>1, <4>4, <2>1 DEF Live
          <5>2. f = g
            BY <5>1, <4>1, <2>1, <1>3
          <5>3. e > rnow
            BY <5>1, <5>2, <4>1, <1>1 DEF StoreInv, Parts, GrantsOK
          <5>4. keySet'[r].keys = keySet[r].keys \cup {k} /\ keySet'[r].exp = e
            BY <5>3, <1>4
          <5>5. h \in keySet'[r].keys /\ keySet'[r].exp = minted[f].exp
            BY <5>2, <5>4, <4>2, <4>4
          <5>6. QED
            BY <5>5, <4>1, <4>4
        <4>5. QED
          BY <4>3, <4>4
      <3>3. QED
        BY <3>1, <3>2
    <2>2. QED
      BY <2>1, <1>3, <1>4, <1>m DEF ListedOK, TypeOK, StoreOK
  <1>11. QED
    BY <1>5, <1>6, <1>7, <1>8, <1>9, <1>10 DEF Parts

\* A revoke empties the run, whatever grant is stored for it by then.
LEMMA RevokeParts ==
    ASSUME StoreInv, TypeOK', NEW p \in Procs, RevokeDelete(p)
    PROVE  Parts'
  <1> DEFINE r == req[p].run
  <1>1. r \in Runs
    BY DEF RevokeDelete, StoreInv, TypeOK, HandlersOK, RevokeSteps, RevokeReq
  <1>2. /\ grant' = [grant EXCEPT ![r] = NoGrant]
        /\ keySet' = [keySet EXCEPT ![r] = NoKeySet]
        /\ spend' = [spend EXCEPT ![r] = NoSpend]
        /\ revoked' = revoked \cup ({grant[r].id} \ {NoId})
        /\ UNCHANGED <<now, rnow, minted, keyFor, charged, stray>>
    BY DEF RevokeDelete, clocks
  <1>3. /\ grant'[r] = NoGrant /\ keySet'[r] = NoKeySet /\ spend'[r] = NoSpend
        /\ \A q \in Runs : q # r => /\ grant'[q] = grant[q]
                                     /\ keySet'[q] = keySet[q]
                                     /\ spend'[q] = spend[q]
    BY <1>1, <1>2 DEF StoreInv, TypeOK, StoreOK
  <1>4. \A k \in Keys : keyRun'[k] = keyRun[k] \/ keyRun'[k] = NoKey
    BY DEF RevokeDelete
  <1> HIDE DEF r
  <1> USE SetsAssumption
  <1>5. \A g \in Ids : /\ Minted(g)' = Minted(g)
                       /\ minted'[g] = minted[g]
                       /\ Live(g)' => Live(g) /\ minted[g].run # r
    <2>1. ASSUME NEW g \in Ids, Live(g)'
          PROVE  Live(g) /\ minted[g].run # r
      <3>1. Minted(g) /\ grant'[minted[g].run].id = g
        BY <2>1, <1>2 DEF Live, Minted
      <3>2. minted[g].run \in Runs
        BY <3>1, MintedGrant DEF StoreInv, TypeOK
      <3>3. QED
        BY <3>1, <3>2, <1>3 DEF Live, NoGrant
    <2>2. QED
      BY <2>1, <1>2 DEF Minted
  <1>6. GrantsOK'
    <2>1. ASSUME NEW q \in Runs
          PROVE  GrantsOK!(q)'
      <3>1. CASE q = r
        BY <3>1, <1>3 DEF NoGrant
      <3>2. CASE q # r
        BY <3>2, <1>2, <1>3 DEF StoreInv, Parts, GrantsOK, Minted
      <3>3. QED
        BY <3>1, <3>2
    <2>2. QED
      BY <2>1 DEF GrantsOK
  <1>7. NeverLost'
    <2>1. ASSUME NEW g \in Ids, Minted(g), minted[g].exp > rnow, g \notin revoked'
          PROVE  grant'[minted[g].run].id = g
      <3>1. grant[minted[g].run].id = g /\ minted[g].run \in Runs
        BY <2>1, <1>2, MintedGrant DEF StoreInv, Parts, TypeOK, NeverLost
      <3>2. minted[g].run # r
        BY <3>1, <2>1, <1>2
      <3>3. QED
        BY <3>1, <3>2, <1>3
    <2>2. QED
      BY <2>1, <1>2, <1>5 DEF NeverLost
  <1>8. KeysOK'
    <2>1. ASSUME NEW k \in Keys
          PROVE  KeysOK!(k)'
      <3>1. CASE keyRun'[k] = NoKey
        BY <3>1, <1>2 DEF StoreInv, Parts, KeysOK, NoKey, Minted
      <3>2. CASE keyRun'[k] = keyRun[k]
        BY <3>2, <1>2 DEF StoreInv, Parts, KeysOK, Minted
      <3>3. QED
        BY <3>1, <3>2, <1>4
    <2>2. QED
      BY <2>1 DEF KeysOK
  <1>9. EntriesOK'
    <2>1. ASSUME NEW q \in Runs
          PROVE  /\ spend'[q] # NoSpend => ExpiryOf(q, spend'[q].exp)
                 /\ keySet'[q] # NoKeySet => ExpiryOf(q, keySet'[q].exp)
      BY <1>3 DEF StoreInv, Parts, EntriesOK
    <2>2. QED
      BY <2>1, <1>2 DEF EntriesOK, ExpiryOf, Minted
  <1>10. FreshOK'
    <2>1. grant[r].id # NoId => Minted(grant[r].id)
      BY <1>1 DEF StoreInv, Parts, GrantsOK
    <2>2. QED
      BY <2>1, <1>2, <1>5 DEF StoreInv, Parts, FreshOK
  <1>11. CounterOK'
    <2>1. ASSUME NEW g \in Ids, Live(g)', g \notin stray, charged[g] > 0
          PROVE  /\ spend'[minted[g].run].total >= charged[g]
                 /\ spend'[minted[g].run].exp = minted[g].exp
      <3>1. Live(g) /\ minted[g].run # r /\ minted[g].run \in Runs
        BY <2>1, <1>5, MintedGrant DEF StoreInv, TypeOK, Live
      <3>2. QED
        BY <2>1, <3>1, <1>3 DEF StoreInv, Parts, CounterOK
    <2>2. QED
      BY <2>1, <1>2 DEF CounterOK
  <1>12. ListedOK'
    <2>1. ASSUME NEW k \in Keys, keyFor[k] # NoId, keyRun'[k].run # NoRun,
                 Live(keyFor[k])', keyFor[k] \notin stray
          PROVE  /\ k \in keySet'[minted[keyFor[k]].run].keys
                 /\ keySet'[minted[keyFor[k]].run].exp = minted[keyFor[k]].exp
      <3>1. keyRun'[k] = keyRun[k] /\ keyFor[k] \in Ids
        BY <2>1, <1>4 DEF NoKey, StoreInv, TypeOK, StoreOK
      <3>2. /\ Live(keyFor[k]) /\ minted[keyFor[k]].run # r
            /\ minted[keyFor[k]].run \in Runs
        <4>1. \A g \in Ids : g = keyFor[k] => Live(g)'
          BY <2>1, <1>2 DEF Live, Minted
        <4>2. QED
          BY <3>1, <4>1, <1>5, MintedGrant DEF StoreInv, TypeOK, Live
      <3>3. QED
        BY <2>1, <3>1, <3>2, <1>3 DEF StoreInv, Parts, ListedOK
    <2>2. QED
      BY <2>1, <1>2 DEF ListedOK
  <1>13. QED
    BY <1>6, <1>7, <1>8, <1>9, <1>10, <1>11, <1>12 DEF Parts

\* A turn is charged: to the grant it was admitted under, which may be gone,
\* or while another grant of the run is stored, which is then marked.
LEMMA ChargeParts ==
    ASSUME StoreInv, TypeOK', NEW p \in Procs, TurnCharge(p)
    PROVE  Parts'
  <1> DEFINE g == held[p]
             r == minted[g].run
             e == minted[g].exp
  <1>1. g \in Ids /\ Minted(g) /\ r \in Runs /\ e \in Nat \ {0}
    <2>1. g \in Ids /\ Minted(g)
      BY DEF TurnCharge, StoreInv, TypeOK, HandlersOK, Holding
    <2>2. QED
      BY <2>1, MintedGrant DEF StoreInv, TypeOK
  <1>2. PICK c \in Costs :
          /\ spend' = [spend EXCEPT
                         ![r] = Keep([total |-> Increased(r, c), exp |-> e], NoSpend)]
          /\ charged' = [charged EXCEPT ![g] = @ + c]
    BY DEF TurnCharge, SpendExpiry
  <1>3. /\ UNCHANGED <<now, rnow, grant, keyRun, keySet, minted, keyFor, revoked>>
        /\ stray' = IF grant[r].id \in {g, NoId} THEN stray
                    ELSE stray \cup {grant[r].id}
    BY DEF TurnCharge, clocks
  <1>4. /\ spend'[r] = IF e > rnow THEN [total |-> spend[r].total + c, exp |-> e]
                       ELSE NoSpend
        /\ \A q \in Runs : q # r => spend'[q] = spend[q]
        /\ charged'[g] = charged[g] + c
        /\ \A h \in Ids : h # g => charged'[h] = charged[h]
    BY <1>1, <1>2 DEF Keep, Increased, StoreInv, TypeOK, StoreOK
  <1>c. /\ c \in Nat /\ spend[r].total \in Nat /\ charged \in [Ids -> Nat]
    BY <1>1, MoneyAssumption DEF StoreInv, TypeOK, StoreOK
  <1>m. \A h \in Ids : /\ Minted(h)' = Minted(h)
                       /\ minted'[h] = minted[h]
                       /\ Live(h)' = Live(h)
    BY <1>3 DEF Minted, Live
  <1> HIDE DEF g
  <1> USE SetsAssumption
  <1>5. GrantsOK' /\ NeverLost' /\ KeysOK'
    BY <1>3 DEF StoreInv, Parts, GrantsOK, NeverLost, KeysOK, Minted
  <1>6. EntriesOK'
    <2>1. e > rnow => ExpiryOf(r, e)
      BY <1>1 DEF ExpiryOf
    <2>2. ASSUME NEW q \in Runs
          PROVE  /\ spend'[q] # NoSpend => ExpiryOf(q, spend'[q].exp)
                 /\ keySet'[q] # NoKeySet => ExpiryOf(q, keySet'[q].exp)
      <3>1. spend'[r] # NoSpend => ExpiryOf(r, spend'[r].exp)
        BY <2>1, <1>4
      <3>2. QED
        BY <3>1, <1>3, <1>4 DEF StoreInv, Parts, EntriesOK
    <2>3. QED
      BY <2>2, <1>3 DEF EntriesOK, ExpiryOf, Minted
  <1>7. FreshOK'
    <2>1. grant[r].id # NoId => Minted(grant[r].id)
      BY <1>1 DEF StoreInv, Parts, GrantsOK
    <2>2. QED
      BY <2>1, <1>1, <1>3, <1>4, <1>m DEF StoreInv, Parts, FreshOK
  <1>8. CounterOK'
    <2>1. ASSUME NEW h \in Ids, Live(h), h \notin stray', charged'[h] > 0
          PROVE  /\ spend'[minted[h].run].total >= charged'[h]
                 /\ spend'[minted[h].run].exp = minted[h].exp
      <3>1. minted[h].run \in Runs /\ h \notin stray /\ Minted(h)
        BY <2>1, <1>3, MintedGrant DEF StoreInv, TypeOK, Live
      <3>2. CASE minted[h].run # r
        BY <2>1, <3>1, <3>2, <1>4 DEF StoreInv, Parts, CounterOK
      <3>3. CASE minted[h].run = r
        <4>1. grant[r].id = h
          BY <2>1, <3>3 DEF Live
        <4>2. h = g
          BY <2>1, <4>1, <1>3
        <4>3. e > rnow
          BY <4>1, <4>2, <1>1 DEF StoreInv, Parts, GrantsOK
        <4>4. spend[r].total >= charged[g]
          <5>1. CASE charged[g] > 0
            BY <5>1, <2>1, <3>1, <4>2 DEF StoreInv, Parts, CounterOK
          <5>2. CASE ~(charged[g] > 0)
            BY <5>2, <1>1, <1>c
          <5>3. QED
            BY <5>1, <5>2
        <4>5. spend'[r].total >= charged'[g] /\ spend'[r].exp = e
          BY <4>3, <4>4, <1>1, <1>4, <1>c
        <4>6. QED
          BY <4>2, <4>5
      <3>4. QED
        BY <3>2, <3>3
    <2>2. QED
      BY <2>1, <1>3, <1>m DEF CounterOK
  <1>9. ListedOK'
    BY <1>3, <1>m DEF StoreInv, Parts, ListedOK, TypeOK, StoreOK
  <1>10. QED
    BY <1>5, <1>6, <1>7, <1>8, <1>9 DEF Parts

\* Redis's clock moves: what expires together goes together.
LEMMA RedisTickParts ==
    ASSUME StoreInv, TypeOK', RedisTick
    PROVE  Parts'
  <1>1. /\ rnow' = rnow + 1 /\ rnow \in Nat
        /\ \A r \in Runs : /\ grant'[r] = IF grant[r].exp <= rnow + 1 THEN NoGrant ELSE grant[r]
                           /\ keySet'[r] = IF keySet[r].exp <= rnow + 1 THEN NoKeySet ELSE keySet[r]
                           /\ spend'[r] = IF spend[r].exp <= rnow + 1 THEN NoSpend ELSE spend[r]
        /\ \A k \in Keys : keyRun'[k] = IF keyRun[k].exp <= rnow + 1 THEN NoKey ELSE keyRun[k]
        /\ UNCHANGED <<now, minted, keyFor, charged, revoked, stray>>
    BY DEF RedisTick, Drop, history, StoreInv, TypeOK, StoreOK
  <1>2. /\ \A r \in Runs : grant[r].exp \in Nat /\ keySet[r].exp \in Nat /\ spend[r].exp \in Nat
        /\ \A k \in Keys : keyRun[k].exp \in Nat
    BY DEF StoreInv, TypeOK, StoreOK
  <1>3. \A g \in Ids : /\ Minted(g)' = Minted(g)
                       /\ minted'[g] = minted[g]
                       /\ Minted(g) => minted[g].exp \in Nat \ {0} /\ minted[g].run \in Runs
    BY <1>1, MintedGrant DEF Minted, StoreInv, TypeOK
  <1> USE SetsAssumption
  <1>4. \A g \in Ids : Live(g)' => Live(g) /\ minted[g].exp > rnow + 1
    <2>1. ASSUME NEW g \in Ids, Live(g)'
          PROVE  Live(g) /\ minted[g].exp > rnow + 1
      <3>1. Minted(g) /\ grant'[minted[g].run].id = g /\ minted[g].run \in Runs
        BY <2>1, <1>3 DEF Live
      <3>2. ~(grant[minted[g].run].exp <= rnow + 1) /\ grant[minted[g].run].id = g
        BY <3>1, <1>1 DEF NoGrant
      <3>3. grant[minted[g].run].exp = minted[g].exp
        BY <3>1, <3>2 DEF StoreInv, Parts, GrantsOK
      <3>4. QED
        BY <3>1, <3>2, <3>3, <1>1, <1>3 DEF Live
    <2>2. QED
      BY <2>1
  <1>5. GrantsOK'
    <2>1. ASSUME NEW r \in Runs
          PROVE  GrantsOK!(r)'
      <3>1. CASE grant[r].exp <= rnow + 1
        BY <3>1, <1>1 DEF NoGrant
      <3>2. CASE ~(grant[r].exp <= rnow + 1)
        BY <3>2, <1>1, <1>2 DEF StoreInv, Parts, GrantsOK, Minted
      <3>3. QED
        BY <3>1, <3>2
    <2>2. QED
      BY <2>1 DEF GrantsOK
  <1>6. NeverLost'
    <2>1. ASSUME NEW g \in Ids, Minted(g), minted[g].exp > rnow + 1, g \notin revoked
          PROVE  grant'[minted[g].run].id = g
      <3>1. grant[minted[g].run].id = g
        BY <2>1, <1>1, <1>3 DEF StoreInv, Parts, NeverLost
      <3>2. grant[minted[g].run].exp = minted[g].exp
        BY <2>1, <3>1, <1>3 DEF StoreInv, Parts, GrantsOK
      <3>3. QED
        BY <2>1, <3>1, <3>2, <1>1, <1>3
    <2>2. QED
      BY <2>1, <1>1, <1>3 DEF NeverLost
  <1>7. KeysOK'
    <2>1. ASSUME NEW k \in Keys
          PROVE  KeysOK!(k)'
      <3>1. CASE keyRun[k].exp <= rnow + 1
        BY <3>1, <1>1 DEF StoreInv, Parts, KeysOK, NoKey, Minted
      <3>2. CASE ~(keyRun[k].exp <= rnow + 1)
        BY <3>2, <1>1, <1>2 DEF StoreInv, Parts, KeysOK, Minted
      <3>3. QED
        BY <3>1, <3>2
    <2>2. QED
      BY <2>1 DEF KeysOK
  <1>8. EntriesOK'
    <2>1. ASSUME NEW r \in Runs, NEW e \in Nat, ExpiryOf(r, e), ~(e <= rnow + 1)
          PROVE  ExpiryOf(r, e)'
      BY <2>1, <1>1, <1>3 DEF ExpiryOf
    <2>2. QED
      BY <2>1, <1>1, <1>2 DEF StoreInv, Parts, EntriesOK
  <1>9. FreshOK'
    BY <1>1, <1>3 DEF StoreInv, Parts, FreshOK
  <1>10. CounterOK'
    <2>1. ASSUME NEW g \in Ids, Live(g)', g \notin stray, charged[g] > 0
          PROVE  spend'[minted[g].run] = spend[minted[g].run]
      <3>1. /\ Live(g) /\ minted[g].exp > rnow + 1 /\ minted[g].run \in Runs
            /\ spend[minted[g].run].exp = minted[g].exp
        BY <2>1, <1>3, <1>4 DEF StoreInv, Parts, CounterOK, Live
      <3>2. QED
        BY <3>1, <1>1, <1>2
    <2>2. QED
      BY <2>1, <1>1, <1>3, <1>4 DEF StoreInv, Parts, CounterOK
  <1>11. ListedOK'
    <2>1. ASSUME NEW k \in Keys, keyFor[k] # NoId, keyRun'[k].run # NoRun,
                 Live(keyFor[k])', keyFor[k] \notin stray
          PROVE  /\ k \in keySet'[minted[keyFor[k]].run].keys
                 /\ keySet'[minted[keyFor[k]].run].exp = minted[keyFor[k]].exp
      <3>1. keyFor[k] \in Ids /\ keyRun[k].run # NoRun
        BY <2>1, <1>1 DEF NoKey, StoreInv, TypeOK, StoreOK
      <3>2. /\ Live(keyFor[k]) /\ minted[keyFor[k]].exp > rnow + 1
            /\ minted[keyFor[k]].run \in Runs
        <4>1. \A g \in Ids : g = keyFor[k] => Live(g)'
          BY <2>1, <1>1 DEF Live, Minted
        <4>2. QED
          BY <3>1, <4>1, <1>3, <1>4 DEF Live
      <3>3. /\ k \in keySet[minted[keyFor[k]].run].keys
            /\ keySet[minted[keyFor[k]].run].exp = minted[keyFor[k]].exp
        BY <2>1, <3>1, <3>2 DEF StoreInv, Parts, ListedOK
      <3>4. QED
        BY <3>2, <3>3, <1>1, <1>2
    <2>2. QED
      BY <2>1, <1>1 DEF ListedOK
  <1>12. QED
    BY <1>5, <1>6, <1>7, <1>8, <1>9, <1>10, <1>11 DEF Parts

-----------------------------------------------------------------------------
(* Theorems *)

LEMMA StoreInvInit == Init => StoreInv
  <1> SUFFICES ASSUME Init
               PROVE  StoreInv
    OBVIOUS
  <1>1. \A g \in Ids : ~Minted(g)
    BY DEF Init, Minted, NotMinted
  <1>2. GrantsOK
    BY DEF Init, GrantsOK, NoGrant
  <1>3. NeverLost /\ FreshOK /\ CounterOK
    BY <1>1 DEF Init, NeverLost, FreshOK, CounterOK, Live
  <1>4. KeysOK /\ ListedOK
    BY DEF Init, KeysOK, ListedOK, NoKey
  <1>5. EntriesOK
    BY DEF Init, EntriesOK
  <1>6. TypeOK
    BY InitTypeOK
  <1>7. QED
    BY <1>2, <1>3, <1>4, <1>5, <1>6 DEF StoreInv, Parts

LEMMA StoreInvStep == StoreInv /\ [Next]_vars => StoreInv'
  <1> SUFFICES ASSUME StoreInv, [Next]_vars
               PROVE  StoreInv'
    OBVIOUS
  <1>1. TypeOK'
    BY TypeStep
  <1>2. ASSUME UNCHANGED <<rnow, redis, history>>
        PROVE  Parts'
    BY <1>2, QuietParts
  <1>3. ASSUME UNCHANGED vars
        PROVE  Parts'
    BY <1>2, <1>3 DEF vars, clocks
  <1>4. ASSUME Next
        PROVE  Parts'
    BY <1>1, <1>2, <1>4, NextCases, CreateParts, KeyParts, RevokeParts,
       ChargeParts, RedisTickParts
    DEF Tick, Quiet, clocks
  <1>5. Parts'
    BY <1>3, <1>4
  <1>6. QED
    BY <1>1, <1>5 DEF StoreInv

\* The inductive invariant holds in every reachable state.
THEOREM StoreInvariant == Spec => []StoreInv
  BY StoreInvInit, StoreInvStep, PTL DEF Spec

\* Type correctness of the run grant protocol.
THEOREM TypeCorrect == Spec => []TypeOK
  <1>1. StoreInv => TypeOK
    BY DEF StoreInv
  <1>2. QED
    BY <1>1, StoreInvariant, PTL

\* Revoke's SMEMBERS names every working key of an undisturbed stored grant.
THEOREM LiveKeysAreListed == Spec => []LiveKeysListed
  <1>1. StoreInv => LiveKeysListed
    BY DEF StoreInv, Parts, ListedOK, LiveKeysListed
  <1>2. QED
    BY <1>1, StoreInvariant, PTL

\* A working key of a grant that was not revoked opens that very grant.
THEOREM KeysOpenTheirGrant == Spec => []UnrevokedKeyOpensItsGrant
  <1>1. ASSUME StoreInv, NEW k \in Keys, keyRun[k].run # NoRun, keyFor[k] \notin revoked
        PROVE  grant[keyRun[k].run].id = keyFor[k]
    <2>1. keyFor[k] \in Ids /\ Minted(keyFor[k])
      BY <1>1 DEF StoreInv, Parts, TypeOK, StoreOK, KeysOK
    <2>2. /\ minted[keyFor[k]].exp > rnow
          /\ minted[keyFor[k]].run = keyRun[k].run
      BY <1>1 DEF StoreInv, Parts, KeysOK
    <2>3. QED
      BY <1>1, <2>1, <2>2 DEF StoreInv, Parts, NeverLost
  <1>2. StoreInv => UnrevokedKeyOpensItsGrant
    BY <1>1 DEF UnrevokedKeyOpensItsGrant
  <1>3. QED
    BY <1>2, StoreInvariant, PTL

\* After the expiry of the last grant of a run id, Redis holds nothing of it.
THEOREM EveryRunCleansUp == Spec => []RunsCleanUp
  <1>1. ASSUME StoreInv, NEW r \in Runs,
               \A g \in Ids : Minted(g) /\ minted[g].run = r => minted[g].exp <= rnow
        PROVE  /\ grant[r] = NoGrant /\ keySet[r] = NoKeySet /\ spend[r] = NoSpend
               /\ \A k \in Keys : keyRun[k].run # r
    <2>0. rnow \in Nat /\ \A g \in Ids : Minted(g) => minted[g].exp \in Nat
      BY <1>1, MintedGrant DEF StoreInv, TypeOK, StoreOK
    <2>1. grant[r] = NoGrant
      BY <1>1, <2>0 DEF StoreInv, Parts, TypeOK, StoreOK, GrantsOK
    <2>2. keySet[r] = NoKeySet /\ spend[r] = NoSpend
      BY <1>1, <2>0 DEF StoreInv, Parts, EntriesOK, ExpiryOf
    <2>3. ASSUME NEW k \in Keys, keyRun[k].run = r
          PROVE  FALSE
      <3>1. keyRun[k].run # NoRun
        BY <2>3, SetsAssumption
      <3>2. /\ keyFor[k] \in Ids /\ Minted(keyFor[k])
            /\ minted[keyFor[k]].run = r
            /\ minted[keyFor[k]].exp > rnow
        BY <1>1, <2>3, <3>1 DEF StoreInv, Parts, TypeOK, StoreOK, KeysOK
      <3>3. QED
        BY <1>1, <2>0, <3>2
    <2>4. QED
      BY <2>1, <2>2, <2>3
  <1>2. StoreInv => RunsCleanUp
    BY <1>1 DEF RunsCleanUp
  <1>3. QED
    BY <1>2, StoreInvariant, PTL

\* A stored grant stays what it is until it leaves Redis.
THEOREM StoredGrantsStay == Spec => GrantNeverReplaced
  <1>1. StoreInv /\ [Next]_vars =>
          [\A r \in Runs : grant[r].id # NoId /\ grant[r]'.id # NoId =>
             grant[r]' = grant[r]]_vars
    <2> SUFFICES ASSUME StoreInv, [Next]_vars, NEW r \in Runs,
                        grant[r].id # NoId, grant'[r].id # NoId
                 PROVE  grant'[r] = grant[r]
      OBVIOUS
    <2>1. ASSUME NEW p \in Procs, pc[p] \in {"set", "set2"},
                 Create(p, req[p].want.run)
          PROVE  grant'[r] = grant[r]
      <3>1. req[p].want.run \in Runs
        BY <2>1 DEF StoreInv, TypeOK, HandlersOK, IssueSteps, IssueReq, Grant
      <3>2. grant[req[p].want.run].id = NoId
        BY <2>1 DEF Create, Vacant
      <3>3. QED
        BY <2>1, <3>1, <3>2 DEF Create, StoreInv, TypeOK, StoreOK
    <2>2. ASSUME NEW p \in Procs, RevokeDelete(p)
          PROVE  grant'[r] = grant[r]
      BY <2>2 DEF RevokeDelete, NoGrant, StoreInv, TypeOK, StoreOK
    <2>3. CASE RedisTick
      BY <2>3 DEF RedisTick, Drop, NoGrant
    <2>4. CASE UNCHANGED vars
      BY <2>4 DEF vars, redis
    <2>5. QED
      BY <2>1, <2>2, <2>3, <2>4, NextCases DEF IssueKey, TurnCharge, Tick, Quiet, redis
  <1>2. QED
    BY <1>1, StoreInvariant, PTL DEF Spec, GrantNeverReplaced

\* A handler reaches the provider by passing the 402 check, and works on with
\* the same grant.
LEMMA ToProvider ==
    ASSUME TypeOK, [Next]_vars, NEW p \in Procs, pc'[p] = "provider"
    PROVE  \/ pc[p] = "provider" /\ held'[p] = held[p]
           \/ TurnAdmit(p) /\ pc[p] = "check" /\ held'[p] = held[p]
  <1> USE DEF TypeOK, HandlersOK
  <1>1. ASSUME NEW q \in Procs, NEW step, step # "provider", Goto(q, step),
               \/ held' = held
               \/ \E g : Hold(q, g)
        PROVE  pc[p] = "provider" /\ held'[p] = held[p]
    BY <1>1 DEF Goto, Hold
  <1>2. ASSUME NEW q \in Procs, Finish(q)
        PROVE  pc[p] = "provider" /\ held'[p] = held[p]
    BY <1>2 DEF Finish
  <1>3. ASSUME NEW q \in Procs, Issue(q)
        PROVE  pc[p] = "provider" /\ held'[p] = held[p]
    <2>1. ASSUME NEW r, Create(q, r)
          PROVE  pc[p] = "provider" /\ held'[p] = held[p]
      BY <2>1, <1>1 DEF Create
    <2>2. ASSUME NEW g, Join(q, g)
          PROVE  pc[p] = "provider" /\ held'[p] = held[p]
      BY <2>2, <1>1, <1>2 DEF Join
    <2>3. CASE StartIssue(q)
      BY <2>3, <1>1 DEF StartIssue, Start
    <2>4. CASE IssueSet(q) \/ IssueSetAgain(q)
      BY <2>4, <2>1, <1>1 DEF IssueSet, IssueSetAgain, Occupied
    <2>5. CASE IssueGet(q) \/ IssueGetAgain(q)
      BY <2>5, <2>2, <1>1, <1>2 DEF IssueGet, IssueGetAgain
    <2>6. CASE IssueKey(q)
      BY <2>6, <1>2 DEF IssueKey
    <2>7. QED
      BY <1>3, <2>3, <2>4, <2>5, <2>6 DEF Issue
  <1>4. ASSUME NEW q \in Procs, Revoke(q)
        PROVE  pc[p] = "provider" /\ held'[p] = held[p]
    BY <1>4, <1>1, <1>2
    DEF Revoke, StartRevoke, Start, RevokeOwn, RevokeMembers, RevokeDelete
  <1>5. ASSUME NEW q \in Procs, Turn(q)
        PROVE  \/ pc[p] = "provider" /\ held'[p] = held[p]
               \/ TurnAdmit(p) /\ pc[p] = "check" /\ held'[p] = held[p]
    <2>1. CASE TurnAdmit(q)
      BY <2>1 DEF TurnAdmit, Goto
    <2>2. CASE ~TurnAdmit(q)
      BY <2>2, <1>5, <1>1, <1>2
      DEF Turn, StartTurn, Start, TurnFind, TurnGrant, TurnRefuse, TurnUnpriced, TurnCharge
    <2>3. QED
      BY <2>1, <2>2
  <1>6. QED
    BY <1>2, <1>3, <1>4, <1>5 DEF Next, Abort, Tick, RedisTick, vars, local

\* The 402 check lets a turn through only below the limit, as long as the
\* counter covers what was charged.
LEMMA AdmitBelowLimit ==
    ASSUME StoreInv, NEW p \in Procs, TurnAdmit(p),
           Live(held[p]), held[p] \notin stray
    PROVE  /\ held[p] \in Ids
           /\ charged[held[p]] < minted[held[p]].limit
  <1>1. held[p] \in Ids /\ Minted(held[p])
    BY DEF TurnAdmit, StoreInv, TypeOK, HandlersOK, Holding
  <1>2. /\ charged[held[p]] \in Nat
        /\ minted[held[p]].limit \in Nat \ {0}
        /\ minted[held[p]].run \in Runs
        /\ spend[minted[held[p]].run].total \in Nat
    BY <1>1, MintedGrant DEF StoreInv, TypeOK, StoreOK
  <1>3. spend[minted[held[p]].run].total < minted[held[p]].limit
    BY <1>2 DEF TurnAdmit, LimitReached, Spent
  <1>4. CASE charged[held[p]] > 0
    BY <1>1, <1>2, <1>3, <1>4 DEF StoreInv, Parts, CounterOK
  <1>5. CASE ~(charged[held[p]] > 0)
    BY <1>1, <1>2, <1>5
  <1>6. QED
    BY <1>4, <1>5

\* No turn is admitted once its stored, undisturbed grant's limit is charged.
THEOREM LimitIsEnforced == Spec => LimitEnforced
  <1>1. StoreInv /\ [Next]_vars =>
          [\A p \in Procs :
             Admitted(p) /\ Live(held[p]) /\ held[p] \notin stray =>
                charged[held[p]] < minted[held[p]].limit]_vars
    <2> SUFFICES ASSUME StoreInv, [Next]_vars, NEW p \in Procs,
                        Admitted(p), Live(held[p]), held[p] \notin stray
                 PROVE  charged[held[p]] < minted[held[p]].limit
      OBVIOUS
    <2>1. TurnAdmit(p)
      BY ToProvider DEF Admitted, StoreInv
    <2>2. QED
      BY <2>1, AdmitBelowLimit
  <1>2. QED
    BY <1>1, StoreInvariant, PTL DEF Spec, LimitEnforced

-----------------------------------------------------------------------------
(* How far a run can pass its limit *)

\* Counting turns in flight.
LEMMA InFlightCount ==
    ASSUME NEW g
    PROVE  /\ IsFiniteSet(InFlight(g)) /\ Cardinality(InFlight(g)) \in Nat
           /\ Cardinality(Procs) \in Nat
           /\ Cardinality(InFlight(g)) <= Cardinality(Procs)
           /\ \A S \in SUBSET InFlight(g) :
                 Cardinality(S) \in Nat /\ Cardinality(S) <= Cardinality(InFlight(g))
           /\ \A p \in InFlight(g) :
                 Cardinality(InFlight(g) \ {p}) = Cardinality(InFlight(g)) - 1
  <1>1. InFlight(g) \subseteq Procs
    BY DEF InFlight
  <1>2. IsFiniteSet(Procs) /\ IsFiniteSet(InFlight(g))
    BY <1>1, SetsAssumption, FS_Subset
  <1>3. /\ Cardinality(InFlight(g)) \in Nat /\ Cardinality(Procs) \in Nat
        /\ Cardinality(InFlight(g)) <= Cardinality(Procs)
    BY <1>1, <1>2, FS_CardinalityType, FS_Subset
  <1>4. \A S \in SUBSET InFlight(g) :
           Cardinality(S) \in Nat /\ Cardinality(S) <= Cardinality(InFlight(g))
    BY <1>2, FS_CardinalityType, FS_Subset
  <1>5. \A p \in InFlight(g) :
           Cardinality(InFlight(g) \ {p}) = Cardinality(InFlight(g)) - 1
    BY <1>2, FS_RemoveElement
  <1>6. QED
    BY <1>2, <1>3, <1>4, <1>5

\* Products with MaxCost are monotone.
LEMMA Dearest ==
    ASSUME NEW a \in Nat, NEW b \in Nat, a <= b
    PROVE  /\ MaxCost * a \in Nat /\ MaxCost * b \in Nat
           /\ MaxCost * a <= MaxCost * b
           /\ b > 0 => MaxCost * (b - 1) = MaxCost * b - MaxCost
  <1>1. MaxCost \in Nat
    BY MoneyAssumption
  <1>2. QED
    BY <1>1

\* g has spent less than its limit plus one turn per request slot, counting
\* the turns in flight at the dearest.
Bounded(g) == charged[g] + MaxCost * Cardinality(InFlight(g))
                 < minted[g].limit + MaxCost * Cardinality(Procs)

\* What a step does to a record that is stored and undisturbed after it.
LEMMA LiveBefore ==
    ASSUME StoreInv, TypeOK', [Next]_vars, NEW g \in Ids, Live(g)', g \notin stray'
    PROVE  \/ Live(g) /\ g \notin stray /\ minted'[g] = minted[g]
           \/ ~Minted(g) /\ charged'[g] = 0
  <1>1. CASE ~Minted(g)
    <2>1. charged[g] = 0 /\ Minted(g)'
      BY <1>1 DEF StoreInv, Parts, FreshOK, Live
    <2>2. UNCHANGED minted => FALSE
      BY <1>1, <2>1 DEF Minted
    <2>3. \E p \in Procs : pc[p] \in {"set", "set2"} /\ Create(p, req[p].want.run)
      BY <2>2, NextCases
      DEF vars, history, IssueKey, RevokeDelete, TurnCharge, Tick, RedisTick, Quiet
    <2>4. QED
      BY <1>1, <2>1, <2>3 DEF Create
  <1>2. CASE Minted(g)
    <2>1. minted'[g] = minted[g] /\ minted[g].run \in Runs
      BY <1>2, MintedStays, MintedGrant DEF StoreInv, TypeOK
    <2>2. grant'[minted[g].run].id = g
      BY <2>1 DEF Live
    <2>3. stray \subseteq stray'
      <3>1. \A p \in Procs, r \in Runs : Create(p, r) => UNCHANGED stray
        BY DEF Create
      <3>2. QED
        BY <3>1, NextCases
        DEF vars, history, Create, IssueKey, RevokeDelete, TurnCharge, Tick, RedisTick, Quiet
    <2>4. grant[minted[g].run].id = g
      <3>1. ASSUME NEW p \in Procs, pc[p] \in {"set", "set2"},
                   Create(p, req[p].want.run)
            PROVE  grant[minted[g].run].id = g
        <4>1. req[p].want.run \in Runs
          BY <3>1 DEF StoreInv, TypeOK, HandlersOK, IssueSteps, IssueReq, Grant
        <4>2. PICK h \in Ids : /\ ~Minted(h)
                               /\ grant' = [grant EXCEPT ![req[p].want.run] =
                                     Keep([id |-> h, exp |-> req[p].want.exp], NoGrant)]
          BY <3>1 DEF Create
        <4>3. grant'[req[p].want.run].id \in {h, NoId}
          BY <4>1, <4>2 DEF Keep, NoGrant, StoreInv, TypeOK, StoreOK
        <4>4. QED
          BY <4>1, <4>2, <4>3, <1>2, <2>1, <2>2, SetsAssumption
          DEF StoreInv, TypeOK, StoreOK
      <3>2. ASSUME NEW p \in Procs, RevokeDelete(p)
            PROVE  grant[minted[g].run].id = g
        BY <3>2, <2>1, <2>2, SetsAssumption
        DEF RevokeDelete, NoGrant, StoreInv, TypeOK, StoreOK
      <3>3. CASE RedisTick
        BY <3>3, <2>1, <2>2, SetsAssumption DEF RedisTick, Drop, NoGrant
      <3>4. CASE UNCHANGED grant
        BY <3>4, <2>2
      <3>5. QED
        BY <3>1, <3>2, <3>3, <3>4, NextCases
        DEF vars, redis, IssueKey, TurnCharge, Tick, Quiet
    <2>5. QED
      BY <1>2, <2>1, <2>3, <2>4 DEF Live
  <1>3. QED
    BY <1>1, <1>2

LEMMA OvershootStep == StoreInv /\ OvershootBound /\ [Next]_vars => OvershootBound'
  <1> SUFFICES ASSUME StoreInv, OvershootBound, [Next]_vars,
                      NEW g \in Ids, Live(g)', g \notin stray'
               PROVE  Bounded(g)'
    BY DEF OvershootBound, Bounded
  <1>t. TypeOK' /\ StoreOK'
    BY TypeStep DEF TypeOK
  <1>0. Minted(g)'
    BY DEF Live
  <1>l. minted'[g].limit \in Nat \ {0} /\ charged'[g] \in Nat
    <2>1. minted'[g] \in {NotMinted} \cup Grant /\ charged'[g] \in Nat
      BY <1>t DEF StoreOK
    <2>2. minted'[g] # NotMinted
      BY <1>0 DEF Minted, NotMinted
    <2>3. minted'[g].limit \in Limits
      BY <2>1, <2>2 DEF Grant
    <2>4. QED
      BY <2>1, <2>3, MoneyAssumption
  <1>b. charged'[g] < minted'[g].limit => Bounded(g)'
    <2>1. charged'[g] \in Nat /\ minted'[g].limit \in Nat
      BY <1>l
    <2>2. /\ MaxCost * Cardinality(InFlight(g)') <= MaxCost * Cardinality(Procs)
          /\ MaxCost * Cardinality(InFlight(g)') \in Nat
          /\ MaxCost * Cardinality(Procs) \in Nat
      <3>1. InFlight(g)' \subseteq Procs
        BY DEF InFlight
      <3>2. /\ Cardinality(InFlight(g)') \in Nat /\ Cardinality(Procs) \in Nat
            /\ Cardinality(InFlight(g)') <= Cardinality(Procs)
        BY <3>1, SetsAssumption, FS_Subset, FS_CardinalityType
      <3>3. QED
        BY <3>2, Dearest
    <2>3. QED
      BY <2>1, <2>2 DEF Bounded
  <1>1. CASE ~Minted(g) /\ charged'[g] = 0
    BY <1>1, <1>b, <1>l
  <1>2. CASE Live(g) /\ g \notin stray /\ minted'[g] = minted[g]
    <2>1. Bounded(g) /\ charged[g] \in Nat /\ minted[g].limit \in Nat
      BY <1>2, MintedGrant DEF OvershootBound, Bounded, Live, StoreInv, TypeOK, StoreOK
    <2>2. CASE \E p \in Procs : TurnAdmit(p) /\ held[p] = g
      <3>1. charged[g] < minted[g].limit
        BY <2>2, <1>2, AdmitBelowLimit
      <3>2. charged'[g] = charged[g]
        BY <2>2 DEF TurnAdmit, history
      <3>3. QED
        BY <3>1, <3>2, <1>2, <1>b
    <2>3. CASE ~ \E p \in Procs : TurnAdmit(p) /\ held[p] = g
      <3>1. InFlight(g)' \subseteq InFlight(g)
        BY <2>3, ToProvider DEF InFlight, StoreInv
      <3>2. CASE charged'[g] = charged[g]
        <4>1. /\ Cardinality(InFlight(g)') \in Nat
              /\ Cardinality(InFlight(g)') <= Cardinality(InFlight(g))
              /\ Cardinality(InFlight(g)) \in Nat /\ Cardinality(Procs) \in Nat
          BY <3>1, InFlightCount
        <4>2. /\ MaxCost * Cardinality(InFlight(g)') <= MaxCost * Cardinality(InFlight(g))
              /\ MaxCost * Cardinality(InFlight(g)') \in Nat
              /\ MaxCost * Cardinality(InFlight(g)) \in Nat
              /\ MaxCost * Cardinality(Procs) \in Nat
          BY <4>1, Dearest
        <4>3. QED
          BY <4>2, <3>2, <2>1, <1>2 DEF Bounded
      <3>3. ASSUME NEW p \in Procs, TurnCharge(p), held[p] = g
            PROVE  Bounded(g)'
        <4>1. PICK c \in Costs : charged' = [charged EXCEPT ![g] = @ + c]
          BY <3>3 DEF TurnCharge
        <4>2. c \in Nat /\ c <= MaxCost /\ MaxCost \in Nat /\ charged'[g] = charged[g] + c
          BY <4>1, MoneyAssumption DEF StoreInv, TypeOK, StoreOK
        <4>3. p \in InFlight(g) /\ InFlight(g)' = InFlight(g) \ {p}
          BY <3>3 DEF TurnCharge, Finish, InFlight, StoreInv, TypeOK, HandlersOK
        <4> DEFINE n == Cardinality(InFlight(g))
        <4>4. /\ Cardinality(InFlight(g)') = n - 1
              /\ n \in Nat /\ n - 1 \in Nat /\ n > 0 /\ Cardinality(Procs) \in Nat
          <5>1. /\ Cardinality(InFlight(g) \ {p}) = n - 1 /\ n \in Nat
                /\ Cardinality(Procs) \in Nat
            BY <4>3, InFlightCount
          <5>2. Cardinality(InFlight(g) \ {p}) \in Nat
            <6>1. InFlight(g) \ {p} \in SUBSET InFlight(g)
              OBVIOUS
            <6>2. QED
              BY <6>1, InFlightCount
          <5>3. QED
            BY <5>1, <5>2, <4>3
        <4>5. /\ MaxCost * (n - 1) = MaxCost * n - MaxCost
              /\ MaxCost * n \in Nat /\ MaxCost * Cardinality(Procs) \in Nat
          <5> HIDE DEF n
          <5>1. QED
            BY <4>4, Dearest
        <4>6. charged[g] + MaxCost * n < minted[g].limit + MaxCost * Cardinality(Procs)
          BY <2>1 DEF Bounded
        <4>7. Cardinality(Procs)' = Cardinality(Procs)
          OBVIOUS
        <4> HIDE DEF n
        <4>8. charged'[g] + (MaxCost * n - MaxCost)
                 < minted'[g].limit + MaxCost * Cardinality(Procs)
          BY <4>2, <4>5, <4>6, <2>1, <1>2
        <4>9. QED
          BY <4>4, <4>5, <4>8 DEF Bounded
      <3>4. charged'[g] = charged[g] \/ \E p \in Procs : TurnCharge(p) /\ held[p] = g
        <4>1. ASSUME NEW p \in Procs, TurnCharge(p), held[p] # g
              PROVE  charged'[g] = charged[g]
          BY <4>1 DEF TurnCharge, StoreInv, TypeOK, StoreOK
        <4>2. QED
          BY <4>1, NextCases
          DEF vars, history, Create, IssueKey, RevokeDelete, Tick, RedisTick, Quiet
      <3>5. QED
        BY <3>2, <3>3, <3>4
    <2>4. QED
      BY <2>2, <2>3
  <1>3. QED
    BY <1>1, <1>2, <1>t, LiveBefore

\* A run passes its limit by less than one turn per request slot: what was in
\* flight when it crossed.
THEOREM OvershootIsBounded == Spec => []OvershootBound
  <1>1. Init => OvershootBound
    BY DEF Init, OvershootBound, Live, Minted, NotMinted
  <1>2. QED
    BY <1>1, OvershootStep, StoreInvariant, PTL DEF Spec

-----------------------------------------------------------------------------
(* What a caller asked for is what its key opens *)

\* The record handler p holds has the terms it asked for.
Agreed(p) ==
    LET got == minted[held[p]]
        asked == req[p].want
    IN /\ got.run = asked.run /\ got.issuer = asked.issuer
       /\ got.terms = asked.terms /\ got.limit = asked.limit

\* A handler is at "key" because it was, with the same record, or because it
\* has just stored the record or compared the one it found.
LEMMA ToKey ==
    ASSUME TypeOK, GrantsOK, [Next]_vars, NEW p \in Procs, pc'[p] = "key"
    PROVE  \/ pc[p] = "key" /\ held'[p] = held[p] /\ req'[p] = req[p]
           \/ Agreed(p)'
  <1> USE DEF TypeOK, HandlersOK
  <1> DEFINE Same == pc[p] = "key" /\ held'[p] = held[p] /\ req'[p] = req[p]
  <1>1. ASSUME NEW q \in Procs, NEW step, step # "key", Goto(q, step),
               held' = held \/ \E g : Hold(q, g),
               req' = req \/ \E x : req' = [req EXCEPT ![q] = x]
        PROVE  Same
    BY <1>1 DEF Goto, Hold
  <1>2. ASSUME NEW q \in Procs, Finish(q)
        PROVE  Same
    BY <1>2 DEF Finish
  <1>3. ASSUME NEW q \in Procs, NEW g, Hold(q, g), Goto(q, "key"), q # p, req' = req
        PROVE  Same
    BY <1>3 DEF Hold, Goto
  <1>4. ASSUME NEW q \in Procs, pc[q] \in IssueSteps
        PROVE  req[q].want \in Grant /\ req[q].want.run \in Runs
    BY <1>4 DEF IssueReq, Grant
  <1>5. ASSUME NEW q \in Procs, pc[q] \in {"set", "set2"},
               Create(q, req[q].want.run)
        PROVE  Same \/ Agreed(p)'
    <2>1. PICK g \in Ids : minted' = [minted EXCEPT ![g] = req[q].want] /\ Hold(q, g)
      BY <1>5 DEF Create
    <2>2. Goto(q, "key") /\ req' = req
      BY <1>5 DEF Create
    <2>3. CASE q = p
      <3>1. held'[p] = g /\ minted'[g] = req'[p].want
        BY <2>1, <2>2, <2>3 DEF Hold, StoreOK
      <3>2. QED
        BY <3>1 DEF Agreed
    <2>4. QED
      BY <2>1, <2>2, <2>3, <1>3
  <1>6. ASSUME NEW q \in Procs, pc[q] \in {"get", "get2"},
               Get(req[q].want.run) # NoId, Join(q, Get(req[q].want.run))
        PROVE  Same \/ Agreed(p)'
    <2> DEFINE r == req[q].want.run
               g == Get(r)
    <2>1. r \in Runs /\ g # NoId /\ Join(q, g)
      BY <1>4, <1>6 DEF IssueSteps
    <2>2. g \in Ids /\ minted[g].run = r
      BY <2>1, GetMinted DEF GrantsOK
    <2> HIDE DEF g
    <2>3. CASE Finish(q)
      BY <2>3, <1>2
    <2>4. CASE /\ SameTerms(minted[g], req[q].want) /\ Hold(q, g) /\ Goto(q, "key")
               /\ req' = req /\ minted' = minted
      <3>1. CASE q = p
        <4>1. held'[p] = g /\ minted'[g] = minted[g] /\ req'[p] = req[p]
          BY <2>4, <3>1 DEF Hold
        <4>2. QED
          BY <2>2, <2>4, <3>1, <4>1 DEF Agreed, SameTerms
      <3>2. QED
        BY <2>4, <3>1, <1>3
    <2>5. QED
      BY <2>1, <2>3, <2>4 DEF Join, history
  <1>7. ASSUME NEW q \in Procs, Issue(q)
        PROVE  Same \/ Agreed(p)'
    <2>1. CASE StartIssue(q)
      BY <2>1, <1>1 DEF StartIssue, Start
    <2>2. CASE IssueSet(q) \/ IssueSetAgain(q)
      BY <2>2, <1>5, <1>1 DEF IssueSet, IssueSetAgain, Occupied
    <2>3. CASE IssueGet(q)
      <3>1. CASE Goto(q, "set2") /\ UNCHANGED <<req, held>>
        BY <3>1, <1>1
      <3>2. QED
        BY <2>3, <3>1, <1>6 DEF IssueGet
    <2>4. CASE IssueGetAgain(q)
      BY <2>4, <1>6, <1>2 DEF IssueGetAgain
    <2>5. CASE IssueKey(q)
      BY <2>5, <1>2 DEF IssueKey
    <2>6. QED
      BY <1>7, <2>1, <2>2, <2>3, <2>4, <2>5 DEF Issue
  <1>8. ASSUME NEW q \in Procs, Revoke(q)
        PROVE  Same
    BY <1>8, <1>1, <1>2
    DEF Revoke, StartRevoke, Start, RevokeOwn, RevokeMembers, RevokeDelete
  <1>9. ASSUME NEW q \in Procs, Turn(q)
        PROVE  Same
    <2>1. CASE TurnFind(q)
      BY <2>1, <1>1, <1>2 DEF TurnFind
    <2>2. QED
      BY <2>1, <1>9, <1>1, <1>2
      DEF Turn, StartTurn, Start, TurnGrant, TurnAdmit, TurnRefuse,
          TurnUnpriced, TurnCharge
  <1>10. QED
    BY <1>2, <1>7, <1>8, <1>9 DEF Next, Abort, Tick, RedisTick, vars, local

\* A caller gets a key only for the issuer, model and limit it asked for.
THEOREM KeysAreForAgreedTerms == Spec => []KeyOnAgreedTerms
  <1>1. Init => KeyOnAgreedTerms
    BY DEF Init, KeyOnAgreedTerms
  <1>2. StoreInv /\ KeyOnAgreedTerms /\ [Next]_vars => KeyOnAgreedTerms'
    <2> SUFFICES ASSUME StoreInv, KeyOnAgreedTerms, [Next]_vars,
                        NEW p \in Procs, pc'[p] = "key"
                 PROVE  Agreed(p)'
      BY DEF KeyOnAgreedTerms, Agreed
    <2>1. CASE pc[p] = "key" /\ held'[p] = held[p] /\ req'[p] = req[p]
      <3>1. held[p] \in Ids /\ Minted(held[p])
        BY <2>1 DEF StoreInv, TypeOK, HandlersOK, Holding
      <3>2. minted'[held[p]] = minted[held[p]]
        BY <3>1, MintedStays DEF StoreInv
      <3>3. QED
        BY <2>1, <3>2 DEF KeyOnAgreedTerms, Agreed
    <2>2. QED
      BY <2>1, ToKey DEF StoreInv, Parts
  <1>3. QED
    BY <1>1, <1>2, StoreInvariant, PTL DEF Spec

-----------------------------------------------------------------------------
(* Keys belong to their run *)

\* The keys in S were made for grants of run r.
MadeFor(S, r) == \A k \in S : keyFor[k] # NoId /\ minted[keyFor[k]].run = r

\* The set Redis keeps for a run, and what a revoke has read of it, are keys
\* of that run.
OwnKeys == /\ \A r \in Runs : MadeFor(keySet[r].keys, r)
           /\ \A p \in Procs : pc[p] = "delete" => MadeFor(digests[p], req[p].run)

\* A key that was handed out is never made for another grant.
LEMMA KeyForStays ==
    ASSUME TypeOK, [Next]_vars, NEW k \in Keys, keyFor[k] # NoId
    PROVE  keyFor'[k] = keyFor[k]
  <1>1. ASSUME NEW p \in Procs, IssueKey(p)
        PROVE  keyFor'[k] = keyFor[k]
    BY <1>1 DEF IssueKey, TypeOK, StoreOK
  <1>2. QED
    BY <1>1, NextCases
    DEF Create, RevokeDelete, TurnCharge, Tick, RedisTick, Quiet, vars, history

LEMMA MadeForStays ==
    ASSUME StoreInv, [Next]_vars, NEW S \in SUBSET Keys, NEW r, MadeFor(S, r)
    PROVE  MadeFor(S, r)'
  <1>1. ASSUME NEW k \in S
        PROVE  keyFor'[k] # NoId /\ minted'[keyFor'[k]].run = r
    <2>1. keyFor[k] # NoId /\ keyFor[k] \in Ids /\ minted[keyFor[k]].run = r
      BY DEF MadeFor, StoreInv, TypeOK, StoreOK
    <2>2. Minted(keyFor[k])
      BY <2>1 DEF StoreInv, Parts, KeysOK
    <2>3. QED
      BY <2>1, <2>2, KeyForStays, MintedStays DEF StoreInv
  <1>2. QED
    BY <1>1 DEF MadeFor

\* A revoke comes to its MULTI from its SMEMBERS.
LEMMA ToDelete ==
    ASSUME TypeOK, [Next]_vars, NEW p \in Procs, pc'[p] = "delete"
    PROVE  \/ pc[p] = "delete" /\ digests'[p] = digests[p] /\ req'[p] = req[p]
           \/ RevokeMembers(p)
  <1> USE DEF TypeOK, HandlersOK
  <1> DEFINE Same == pc[p] = "delete" /\ digests'[p] = digests[p] /\ req'[p] = req[p]
  <1>1. ASSUME NEW q \in Procs, NEW step, step # "delete", Goto(q, step),
               digests' = digests,
               req' = req \/ \E x : req' = [req EXCEPT ![q] = x]
        PROVE  Same
    BY <1>1 DEF Goto
  <1>2. ASSUME NEW q \in Procs, Finish(q)
        PROVE  Same
    BY <1>2 DEF Finish
  <1>3. ASSUME NEW q \in Procs, Issue(q)
        PROVE  Same
    <2>1. ASSUME NEW r, Create(q, r)
          PROVE  Same
      BY <2>1, <1>1 DEF Create
    <2>2. ASSUME NEW g, Join(q, g)
          PROVE  Same
      BY <2>2, <1>1, <1>2 DEF Join
    <2>3. CASE StartIssue(q)
      BY <2>3, <1>1 DEF StartIssue, Start
    <2>4. CASE IssueSet(q) \/ IssueSetAgain(q)
      BY <2>4, <2>1, <1>1 DEF IssueSet, IssueSetAgain, Occupied
    <2>5. CASE IssueGet(q) \/ IssueGetAgain(q)
      BY <2>5, <2>2, <1>1, <1>2 DEF IssueGet, IssueGetAgain
    <2>6. CASE IssueKey(q)
      BY <2>6, <1>2 DEF IssueKey
    <2>7. QED
      BY <1>3, <2>3, <2>4, <2>5, <2>6 DEF Issue
  <1>4. ASSUME NEW q \in Procs, Revoke(q)
        PROVE  Same \/ RevokeMembers(p)
    <2>1. CASE RevokeMembers(q)
      BY <2>1 DEF RevokeMembers, Goto
    <2>2. CASE ~RevokeMembers(q)
      BY <2>2, <1>4, <1>1, <1>2 DEF Revoke, StartRevoke, Start, RevokeOwn, RevokeDelete
    <2>3. QED
      BY <2>1, <2>2
  <1>5. ASSUME NEW q \in Procs, Turn(q)
        PROVE  Same
    <2>1. CASE TurnFind(q)
      BY <2>1, <1>1, <1>2 DEF TurnFind
    <2>2. QED
      BY <2>1, <1>5, <1>1, <1>2
      DEF Turn, StartTurn, Start, TurnGrant, TurnAdmit, TurnRefuse,
          TurnUnpriced, TurnCharge
  <1>6. QED
    BY <1>2, <1>3, <1>4, <1>5 DEF Next, Abort, Tick, RedisTick, vars, local

\* A key enters its run's set when it is made for a grant of the run.
LEMMA NextKeySet ==
    ASSUME StoreInv, [Next]_vars, NEW r \in Runs, MadeFor(keySet[r].keys, r)
    PROVE  MadeFor(keySet[r].keys, r)'
  <1> DEFINE S == keySet[r].keys
  <1>1. S \in SUBSET Keys
    BY DEF StoreInv, TypeOK, StoreOK
  <1>2. ASSUME NEW k \in S
        PROVE  keyFor'[k] # NoId /\ minted'[keyFor'[k]].run = r
    <2>1. MadeFor({k}, r)
      BY <1>2 DEF MadeFor
    <2>2. MadeFor({k}, r)'
      BY <1>1, <2>1, MadeForStays
    <2>3. QED
      BY <2>2 DEF MadeFor
  <1>3. CASE keySet'[r].keys \subseteq S
    BY <1>2, <1>3 DEF MadeFor
  <1>4. ASSUME NEW p \in Procs, IssueKey(p)
        PROVE  MadeFor(keySet[r].keys, r)'
    <2>1. /\ held[p] \in Ids /\ Minted(held[p]) /\ minted' = minted
          /\ minted[held[p]].run \in Runs
      BY <1>4, MintedGrant
      DEF IssueKey, StoreInv, TypeOK, HandlersOK, Holding
    <2>2. PICK k \in Keys :
             /\ keySet' = [keySet EXCEPT ![minted[held[p]].run] =
                              Keep([keys |-> WithKey(minted[held[p]].run, k),
                                    exp |-> minted[held[p]].exp], NoKeySet)]
             /\ keyFor' = [keyFor EXCEPT ![k] = held[p]]
      BY <1>4 DEF IssueKey, KeyExpiry
    <2>3. keyFor'[k] = held[p] /\ held[p] # NoId
      BY <2>1, <2>2, SetsAssumption DEF StoreInv, TypeOK, StoreOK
    <2>4. CASE minted[held[p]].run = r
      <3>1. keySet'[r].keys \subseteq S \cup {k}
        BY <2>2, <2>4 DEF Keep, WithKey, NoKeySet, StoreInv, TypeOK, StoreOK
      <3>2. QED
        BY <1>2, <2>1, <2>3, <2>4, <3>1 DEF MadeFor
    <2>5. CASE minted[held[p]].run # r
      BY <1>3, <2>2, <2>5 DEF StoreInv, TypeOK, StoreOK
    <2>6. QED
      BY <2>4, <2>5
  <1>5. ASSUME NEW p \in Procs, RevokeDelete(p)
        PROVE  keySet'[r].keys \subseteq S
    BY <1>5 DEF RevokeDelete, NoKeySet, StoreInv, TypeOK, StoreOK
  <1>6. CASE RedisTick
    BY <1>3, <1>6 DEF RedisTick, Drop, NoKeySet
  <1>7. CASE UNCHANGED keySet
    BY <1>3, <1>7
  <1>8. QED
    BY <1>3, <1>4, <1>5, <1>6, <1>7, NextCases
    DEF Create, TurnCharge, Tick, Quiet, redis, vars

LEMMA NextOwnKeys == StoreInv /\ OwnKeys /\ [Next]_vars => OwnKeys'
  <1> SUFFICES ASSUME StoreInv, OwnKeys, [Next]_vars
               PROVE  OwnKeys'
    OBVIOUS
  <1>1. ASSUME NEW r \in Runs
        PROVE  MadeFor(keySet[r].keys, r)'
    BY NextKeySet DEF OwnKeys
  <1>2. ASSUME NEW p \in Procs, pc'[p] = "delete"
        PROVE  MadeFor(digests[p], req[p].run)'
    <2>1. CASE pc[p] = "delete" /\ digests'[p] = digests[p] /\ req'[p] = req[p]
      <3>1. digests[p] \in SUBSET Keys /\ MadeFor(digests[p], req[p].run)
        BY <2>1 DEF OwnKeys, StoreInv, TypeOK, HandlersOK
      <3>2. \A k \in digests[p] : keyFor'[k] # NoId /\ minted'[keyFor'[k]].run = req[p].run
        BY <3>1, MadeForStays DEF MadeFor
      <3>3. QED
        BY <2>1, <3>2 DEF MadeFor
    <2>2. CASE RevokeMembers(p)
      <3>1. /\ req[p].run \in Runs /\ digests'[p] = keySet[req[p].run].keys
            /\ req' = req /\ UNCHANGED <<keySet, minted, keyFor>>
        BY <2>2 DEF RevokeMembers, RevokeSteps, RevokeReq, StoreInv, TypeOK, HandlersOK,
                    redis, history
      <3>2. QED
        BY <3>1 DEF MadeFor, OwnKeys
    <2>3. QED
      BY <1>2, <2>1, <2>2, ToDelete DEF StoreInv
  <1>3. QED
    BY <1>1, <1>2 DEF OwnKeys

-----------------------------------------------------------------------------
(* The promise *)

promised == <<minted, stands, keyFor, good, charged, turns, revoked, stray>>

LEMMA InitPromise == Init => Promise!Init
  <1> SUFFICES ASSUME Init
               PROVE  Promise!Init
    OBVIOUS
  <1>1. stands = [r \in Runs |-> NoId]
    BY DEF Init, stands, NoGrant
  <1>2. good = {}
    BY DEF Init, good, NoKey
  <1>3. turns = [g \in Ids |-> {}]
    BY DEF Init, turns, InFlight
  <1>4. QED
    BY <1>1, <1>2, <1>3 DEF Init, Promise!Init

\* What a step does not touch looks the same from outside.
LEMMA SameStands == grant' = grant => stands' = stands
  BY DEF stands

LEMMA SameGood == keyRun' = keyRun => good' = good
  BY DEF good

\* Only a step from or to the provider shows in the turns.
LEMMA SameTurns ==
    ASSUME TypeOK, NEW p \in Procs, pc[p] # "provider", pc'[p] # "provider",
           \A q \in Procs \ {p} : pc'[q] = pc[q] /\ held'[q] = held[q]
    PROVE  turns' = turns
  <1>1. ASSUME NEW g \in Ids
        PROVE  InFlight(g)' = InFlight(g)
    BY DEF InFlight
  <1>2. QED
    BY <1>1 DEF turns

\* A turn that ends leaves those of its grant.
LEMMA TurnEnds ==
    ASSUME TypeOK, NEW p \in Procs, pc[p] = "provider", Finish(p)
    PROVE  /\ held[p] \in Ids /\ p \in turns[held[p]]
           /\ turns' = [turns EXCEPT ![held[p]] = @ \ {p}]
  <1>1. held[p] \in Ids
    BY DEF TypeOK, HandlersOK, Holding
  <1>2. \A q \in Procs \ {p} : pc'[q] = pc[q] /\ held'[q] = held[q]
    BY DEF Finish, TypeOK, HandlersOK
  <1>3. pc'[p] = "idle"
    BY DEF Finish, TypeOK, HandlersOK
  <1>4. ASSUME NEW g \in Ids
        PROVE  InFlight(g)' = IF g = held[p] THEN InFlight(g) \ {p} ELSE InFlight(g)
    BY <1>2, <1>3 DEF InFlight
  <1>5. turns'= [g \in Ids |-> IF g = held[p] THEN InFlight(g) \ {p} ELSE InFlight(g)]
    BY <1>4 DEF turns
  <1>6. QED
    BY <1>1, <1>5 DEF turns, InFlight

LEMMA FinishTurns ==
    ASSUME TypeOK, NEW p \in Procs, pc[p] # "provider", Finish(p)
    PROVE  turns' = turns
  <1>1. pc'[p] # "provider" /\ \A q \in Procs \ {p} : pc'[q] = pc[q] /\ held'[q] = held[q]
    BY DEF Finish, TypeOK, HandlersOK
  <1>2. QED
    BY <1>1, SameTurns

LEMMA GrantKeeps ==
    ASSUME StoreInv, NEW p \in Procs, pc[p] \in {"set", "set2"},
           Create(p, req[p].want.run)
    PROVE  Promise!Next
  <1> DEFINE w == req[p].want
  <1>1. w \in Grant /\ w.run \in Runs /\ w.exp \in Nat \ {0}
    BY DEF StoreInv, TypeOK, HandlersOK, IssueSteps, IssueReq, Grant
  <1>2. PICK g \in Ids :
          /\ ~Minted(g) /\ Hold(p, g)
          /\ minted' = [minted EXCEPT ![g] = w]
          /\ grant' = [grant EXCEPT ![w.run] = Keep([id |-> g, exp |-> w.exp], NoGrant)]
    BY DEF Create
  <1>3. /\ grant[w.run].id = NoId /\ Goto(p, "key")
        /\ UNCHANGED <<keyRun, keyFor, charged, revoked, stray>>
    BY DEF Create, Vacant
  <1>4. minted[g] = NotMinted /\ minted'[g] = w
    BY <1>2, <1>1 DEF Minted, StoreInv, TypeOK, StoreOK, Grant
  <1>5. turns' = turns
    <2>1. pc'[p] # "provider" /\ \A q \in Procs \ {p} : pc'[q] = pc[q] /\ held'[q] = held[q]
      BY <1>2, <1>3 DEF Goto, Hold, StoreInv, TypeOK, HandlersOK
    <2>2. QED
      BY <2>1, SameTurns DEF StoreInv
  <1> HIDE DEF w
  <1>6. stands[w.run] = NoId
    BY <1>1, <1>3 DEF stands
  <1>7. stands' \in {stands, [stands EXCEPT ![w.run] = g]}
    <2>1. grant'[w.run].id \in {g, NoId}
      BY <1>1, <1>2 DEF Keep, NoGrant, StoreInv, TypeOK, StoreOK
    <2>2. \A r \in Runs \ {w.run} : grant'[r] = grant[r]
      BY <1>2 DEF StoreInv, TypeOK, StoreOK
    <2>3. stands' = [r \in Runs |-> grant'[r].id]
      BY DEF stands
    <2>4. CASE grant'[w.run].id = g
      BY <2>2, <2>3, <2>4, <1>1 DEF stands
    <2>5. CASE grant'[w.run].id = NoId
      BY <2>2, <2>3, <2>5, <1>3 DEF stands
    <2>6. QED
      BY <2>1, <2>4, <2>5
  <1>8. Promise!Grant(g)
    BY <1>1, <1>2, <1>3, <1>4, <1>5, <1>6, <1>7, SameGood DEF Promise!Grant
  <1>9. QED
    BY <1>8 DEF Promise!Next

\* What is stored for the run of g, as the promise sees it.
LEMMA StandsIs ==
    ASSUME StoreInv, NEW g \in Ids, Minted(g)
    PROVE  /\ minted[g] # NotMinted /\ minted[g].run \in Runs
           /\ stands[minted[g].run] = grant[minted[g].run].id
           /\ Live(g) <=> Promise!Stands(g)
  <1>1. minted[g].run \in Runs
    BY MintedGrant DEF StoreInv, TypeOK
  <1>2. QED
    BY <1>1 DEF Minted, NotMinted, stands, Live, Promise!Stands

LEMMA HandOutKeeps ==
    ASSUME StoreInv, NEW p \in Procs, IssueKey(p)
    PROVE  Promise!Next
  <1> DEFINE g == held[p]
  <1>1. /\ g \in Ids /\ Minted(g) /\ pc[p] = "key"
        /\ UNCHANGED <<rnow, grant, minted, charged, revoked>> /\ Finish(p)
    BY DEF IssueKey, StoreInv, TypeOK, HandlersOK, Holding, clocks
  <1>2. PICK k \in Keys :
          /\ keyFor[k] = NoId /\ keyFor' = [keyFor EXCEPT ![k] = g]
          /\ keyRun' = [keyRun EXCEPT
                          ![k] = Keep([run |-> minted[g].run, exp |-> minted[g].exp], NoKey)]
    BY DEF IssueKey, KeyExpiry
  <1>3. stray' = IF grant[minted[g].run].id \in {g, NoId} THEN stray
                 ELSE stray \cup {grant[minted[g].run].id}
    BY DEF IssueKey
  <1>4. turns' = turns
    BY <1>1, FinishTurns DEF StoreInv
  <1> HIDE DEF g
  <1>5. Promise!WrittenFor(g)
    BY <1>1, <1>3, StandsIs DEF Promise!WrittenFor
  <1>6. /\ keyRun[k] = NoKey
        /\ \A j \in Keys \ {k} : keyRun'[j] = keyRun[j]
        /\ keyRun'[k] = IF minted[g].exp > rnow
                        THEN [run |-> minted[g].run, exp |-> minted[g].exp] ELSE NoKey
    BY <1>2 DEF Keep, StoreInv, TypeOK, StoreOK, Parts, KeysOK
  <1>7. \/ good' = good
        \/ (Promise!Stands(g) \/ g \in revoked) /\ good' = good \cup {k}
    <2>1. CASE minted[g].exp > rnow
      <3>1. Promise!Stands(g) \/ g \in revoked
        BY <1>1, <2>1, StandsIs DEF StoreInv, Parts, NeverLost, Live
      <3>2. keyRun'[k].run # NoRun
        BY <1>1, <1>6, <2>1, StandsIs, SetsAssumption
      <3>3. good' = good \cup {k}
        BY <1>6, <3>2 DEF good
      <3>4. QED
        BY <3>1, <3>3
    <2>2. CASE ~(minted[g].exp > rnow)
      <3>1. \A j \in Keys : keyRun'[j] = keyRun[j]
        BY <1>6, <2>2
      <3>2. QED
        BY <3>1 DEF good
    <2>3. QED
      BY <2>1, <2>2
  <1>8. Promise!HandOut(k, g)
    BY <1>1, <1>2, <1>4, <1>5, <1>7, SameStands, StandsIs DEF Promise!HandOut
  <1>9. QED
    BY <1>1, <1>8 DEF Promise!Next

LEMMA RevokeKeeps ==
    ASSUME StoreInv, OwnKeys, NEW p \in Procs, RevokeDelete(p)
    PROVE  Promise!Next
  <1> DEFINE r == req[p].run
  <1>1. /\ r \in Runs /\ pc[p] = "delete" /\ Finish(p)
        /\ UNCHANGED <<minted, keyFor, charged, stray>>
    BY DEF RevokeDelete, StoreInv, TypeOK, HandlersOK, RevokeSteps, RevokeReq
  <1>2. /\ grant' = [grant EXCEPT ![r] = NoGrant]
        /\ revoked' = revoked \cup ({grant[r].id} \ {NoId})
        /\ keyRun' = [k \in Keys |-> IF k \in digests[p] THEN NoKey ELSE keyRun[k]]
    BY DEF RevokeDelete
  <1>3. MadeFor(digests[p], r)
    BY <1>1 DEF OwnKeys
  <1> HIDE DEF r
  <1>4. turns' = turns
    BY <1>1, FinishTurns DEF StoreInv
  <1>5. stands' = [stands EXCEPT ![r] = NoId]
    <2>1. \A s \in Runs : grant'[s].id = IF s = r THEN NoId ELSE grant[s].id
      BY <1>1, <1>2 DEF NoGrant, StoreInv, TypeOK, StoreOK
    <2>2. QED
      BY <2>1, <1>1 DEF stands
  <1>6. good' = good \ digests[p]
    BY <1>2 DEF good, NoKey
  <1>7. stands[r] = grant[r].id
    BY <1>1 DEF stands
  <1>8. Promise!Revoke(r)
    BY <1>1, <1>2, <1>3, <1>4, <1>5, <1>6, <1>7 DEF Promise!Revoke, MadeFor
  <1>9. QED
    BY <1>1, <1>8 DEF Promise!Next

LEMMA BillKeeps ==
    ASSUME StoreInv, NEW p \in Procs, TurnCharge(p)
    PROVE  Promise!Next
  <1> DEFINE g == held[p]
  <1>1. /\ g \in Ids /\ Minted(g) /\ pc[p] = "provider" /\ Finish(p)
        /\ UNCHANGED <<grant, keyRun, minted, keyFor, revoked>>
    BY DEF TurnCharge, StoreInv, TypeOK, HandlersOK, Holding
  <1>2. PICK c \in Costs : charged' = [charged EXCEPT ![g] = @ + c]
    BY DEF TurnCharge
  <1>3. stray' = IF grant[minted[g].run].id \in {g, NoId} THEN stray
                 ELSE stray \cup {grant[minted[g].run].id}
    BY DEF TurnCharge
  <1>4. p \in turns[g] /\ turns' = [turns EXCEPT ![g] = @ \ {p}]
    BY <1>1, TurnEnds DEF StoreInv
  <1> HIDE DEF g
  <1>5. Promise!WrittenFor(g)
    BY <1>1, <1>3, StandsIs DEF Promise!WrittenFor
  <1>6. Promise!Bill(p, g, c)
    BY <1>1, <1>2, <1>4, <1>5, SameStands, SameGood DEF Promise!Bill
  <1>7. QED
    BY <1>1, <1>6 DEF Promise!Next

LEMMA LetInKeeps ==
    ASSUME StoreInv, NEW p \in Procs, TurnAdmit(p)
    PROVE  Promise!Next
  <1> DEFINE g == held[p]
  <1>1. /\ g \in Ids /\ Minted(g) /\ pc[p] = "check"
        /\ pc' = [pc EXCEPT ![p] = "provider"] /\ held' = held
        /\ UNCHANGED <<grant, keyRun, minted, keyFor, charged, revoked, stray>>
    BY DEF TurnAdmit, Goto, StoreInv, TypeOK, HandlersOK, Holding, redis, history
  <1>2. Promise!Stands(g) /\ g \notin stray => charged[g] < minted[g].limit
    BY <1>1, AdmitBelowLimit, StandsIs
  <1> HIDE DEF g
  <1>3. \A h \in Ids : p \notin turns[h]
    BY <1>1 DEF turns, InFlight
  <1>4. turns' = [turns EXCEPT ![g] = @ \cup {p}]
    <2>1. ASSUME NEW h \in Ids
          PROVE  InFlight(h)' = IF h = g THEN InFlight(h) \cup {p} ELSE InFlight(h)
      BY <1>1 DEF InFlight, g, StoreInv, TypeOK, HandlersOK
    <2>2. turns' = [h \in Ids |-> IF h = g THEN InFlight(h) \cup {p} ELSE InFlight(h)]
      BY <2>1 DEF turns
    <2>3. QED
      BY <2>2, <1>1 DEF turns
  <1>5. Promise!LetIn(p, g)
    BY <1>1, <1>2, <1>3, <1>4, SameStands, SameGood, StandsIs DEF Promise!LetIn
  <1>6. QED
    BY <1>1, <1>5 DEF Promise!Next

\* A key and its grant have one expiry.
LEMMA ExpireKeeps ==
    ASSUME StoreInv, RedisTick
    PROVE  Promise!Next
  <1> DEFINE R == {r \in Runs : grant[r].exp <= rnow + 1}
  <1>1. /\ rnow \in Nat /\ UNCHANGED <<minted, keyFor, charged, revoked, stray>>
        /\ UNCHANGED <<pc, held>>
    BY DEF RedisTick, StoreInv, TypeOK, StoreOK, local, history
  <1>2. stands' = [r \in Runs |-> IF r \in R THEN NoId ELSE stands[r]]
    BY DEF RedisTick, Drop, NoGrant, stands
  <1>3. turns' = turns
    BY <1>1 DEF turns, InFlight
  <1>4. \A k \in Keys : keyRun'[k] = IF keyRun[k].exp <= rnow + 1 THEN NoKey ELSE keyRun[k]
    BY DEF RedisTick, Drop
  <1>5. good' \in SUBSET good
    BY <1>4 DEF good, NoKey
  <1>6. ASSUME NEW k \in good
        PROVE  LET stays == stands'[minted[keyFor[k]].run] = keyFor[k]
               IN /\ stays => k \in good'
                  /\ k \in good' => stays \/ keyFor[k] \in revoked
    <2> DEFINE g == keyFor[k]
    <2>1. /\ k \in Keys /\ keyRun[k].run # NoRun
          /\ g \in Ids /\ g # NoId /\ Minted(g)
          /\ keyRun[k].exp = minted[g].exp /\ minted[g].exp > rnow
      BY SetsAssumption DEF good, StoreInv, TypeOK, StoreOK, Parts, KeysOK
    <2> HIDE DEF g
    <2>2. minted[g].run \in Runs /\ minted[g].exp \in Nat
      BY <2>1, MintedGrant DEF StoreInv, TypeOK
    <2>3. k \in good' <=> ~(minted[g].exp <= rnow + 1)
      BY <2>1, <1>4 DEF good, NoKey
    <2>4. stands'[minted[g].run] = IF grant[minted[g].run].exp <= rnow + 1 THEN NoId
                                   ELSE grant[minted[g].run].id
      BY <1>2, <2>2 DEF stands
    <2>5. Live(g) => grant[minted[g].run].exp = minted[g].exp
      BY <2>1, <2>2 DEF Live, StoreInv, Parts, GrantsOK
    <2>6. stands'[minted[g].run] = g => k \in good'
      BY <2>1, <2>3, <2>4, <2>5 DEF Live
    <2>7. k \in good' /\ g \notin revoked => stands'[minted[g].run] = g
      BY <2>1, <2>3, <2>4, <2>5 DEF Live, StoreInv, Parts, NeverLost
    <2>8. QED
      BY <2>6, <2>7 DEF g
  <1>7. R \in SUBSET Runs
    OBVIOUS
  <1> HIDE DEF R
  <1>8. Promise!Expire
    BY <1>1, <1>2, <1>3, <1>5, <1>6, <1>7 DEF Promise!Expire
  <1>9. QED
    BY <1>8 DEF Promise!Next

\* What a request does on its own shows outside only if a turn is let in, or
\* ends without a bill.
LEMMA QuietKeeps ==
    ASSUME StoreInv, NEW p \in Procs, Quiet, Issue(p) \/ Revoke(p) \/ Turn(p) \/ Abort(p)
    PROVE  [Promise!Next]_promised
  <1>1. /\ UNCHANGED <<minted, keyFor, charged, revoked, stray>>
        /\ stands' = stands /\ good' = good
    BY SameStands, SameGood DEF Quiet, redis, history
  <1>2. CASE turns' = turns
    BY <1>1, <1>2 DEF promised
  <1>3. CASE TurnAdmit(p)
    BY <1>3, LetInKeeps
  <1>4. CASE Finish(p)
    <2>1. CASE pc[p] = "provider"
      <3>1. Promise!Drop(p, held[p]) /\ held[p] \in Ids
        BY <1>1, <1>4, <2>1, TurnEnds DEF Promise!Drop, StoreInv
      <3>2. QED
        BY <3>1 DEF Promise!Next
    <2>2. CASE pc[p] # "provider"
      BY <1>2, <1>4, <2>2, FinishTurns DEF StoreInv
    <2>3. QED
      BY <2>1, <2>2
  <1>5. ASSUME pc[p] # "provider", NEW step, step # "provider", Goto(p, step),
               held' = held \/ \E g : Hold(p, g)
        PROVE  turns' = turns
    <2>1. pc'[p] # "provider" /\ \A q \in Procs \ {p} : pc'[q] = pc[q] /\ held'[q] = held[q]
      BY <1>5 DEF Goto, Hold, StoreInv, TypeOK, HandlersOK
    <2>2. QED
      BY <1>5, <2>1, SameTurns DEF StoreInv
  <1>6. CASE Issue(p)
    <2>1. ASSUME NEW r, Create(p, r), pc[p] # "provider"
          PROVE  turns' = turns
      BY <2>1, <1>5 DEF Create
    <2>2. ASSUME NEW g, Join(p, g), pc[p] # "provider"
          PROVE  turns' = turns \/ Finish(p)
      BY <2>2, <1>5 DEF Join
    <2>3. CASE StartIssue(p)
      BY <2>3, <1>2, <1>5 DEF StartIssue, Start
    <2>4. CASE IssueSet(p) \/ IssueSetAgain(p)
      BY <2>4, <2>1, <1>2, <1>5 DEF IssueSet, IssueSetAgain, Occupied
    <2>5. CASE IssueGet(p) \/ IssueGetAgain(p)
      BY <2>5, <2>2, <1>2, <1>4, <1>5 DEF IssueGet, IssueGetAgain
    <2>6. CASE IssueKey(p)
      BY <2>6, <1>4 DEF IssueKey
    <2>7. QED
      BY <1>6, <2>3, <2>4, <2>5, <2>6 DEF Issue
  <1>7. CASE Revoke(p)
    BY <1>7, <1>2, <1>4, <1>5
    DEF Revoke, StartRevoke, Start, RevokeOwn, RevokeMembers, RevokeDelete
  <1>8. CASE Turn(p)
    BY <1>8, <1>2, <1>3, <1>4, <1>5
    DEF Turn, StartTurn, Start, TurnFind, TurnGrant, TurnRefuse, TurnUnpriced, TurnCharge
  <1>9. CASE Abort(p)
    BY <1>9, <1>4 DEF Abort
  <1>10. QED
    BY <1>6, <1>7, <1>8, <1>9

LEMMA StepKeepsPromise == StoreInv /\ OwnKeys /\ [Next]_vars => [Promise!Next]_promised
  <1> SUFFICES ASSUME StoreInv, OwnKeys, [Next]_vars
               PROVE  [Promise!Next]_promised
    OBVIOUS
  <1>1. CASE UNCHANGED vars \/ Tick
    BY <1>1 DEF vars, Tick, redis, local, history, promised, stands, good, turns, InFlight
  <1>2. ASSUME Next, Quiet
        PROVE  [Promise!Next]_promised
    BY <1>1, <1>2, ExpireKeeps, QuietKeeps DEF Next
  <1>3. QED
    BY <1>1, <1>2, NextCases, GrantKeeps, HandOutKeeps, RevokeKeeps, BillKeeps, ExpireKeeps

\* The four kinds of key in Redis, and every request that reads and writes
\* them, are what GrantPromise says of grants, keys and bills.
THEOREM GrantsKeepTheirPromise == Spec => GrantKept
  <1>1. Init => OwnKeys
    BY DEF Init, OwnKeys, MadeFor, NoKeySet
  <1>2. QED
    BY <1>1, InitPromise, NextOwnKeys, StepKeepsPromise, StoreInvariant, PTL
    DEF Spec, GrantKept, Promise!Spec, promised
=============================================================================
