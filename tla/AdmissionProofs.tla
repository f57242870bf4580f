-------------------------- MODULE AdmissionProofs --------------------------
(***************************************************************************)
(* The budgets of the rate limiter, for any names, limit and window.  A    *)
(* caller's count is the number of its own hits, because no two callers    *)
(* have one bucket; so what is let through is what the count allows.       *)
(***************************************************************************)
EXTENDS Admission, TLAPS

\* What was let through is part of what was counted, and within the limit.
ServedCounted == \A c \in Callers : served[c] <= spent[c] /\ served[c] <= Limit

\* A caller told to wait is told long enough, and the clock runs for both.
WaitCovers == told => wait >= Length - elapsed

\* What was let through in the last ago + 1 ticks is this window's, and one
\* budget more if that reaches back to where the window started.
RecentCovered ==
    \A ago \in 0 .. Length - 1 :
        recent[ago] <= served[Watched] + (IF ago >= elapsed THEN Limit ELSE 0)

IInv == TypeOK /\ BudgetsAreSeparate /\ ServedCounted /\ WaitCovers /\ RecentCovered

-----------------------------------------------------------------------------
(* The counter *)

\* No two callers share a bucket.
LEMMA BucketsDiffer ==
    ASSUME NEW c \in Callers, NEW d \in Callers, Bucket(c) = Bucket(d)
    PROVE  c = d
<1>1. ASSUME NEW x \in Callers
      PROVE  \/ x = Anonymous /\ Bucket(x) = <<"", "anonymous">>
             \/ /\ x.name \in Names
                /\ x = [kind |-> x.kind, name |-> x.name]
                /\ \/ x.kind = "ip"    /\ Bucket(x) = <<"ip:", x.name>>
                   \/ x.kind = "run"   /\ Bucket(x) = <<"run:", x.name>>
                   \/ x.kind = "label" /\ Bucket(x) = <<"", x.name>>
  <2>1. CASE x = Anonymous
    BY <2>1 DEF Anonymous, Bucket
  <2>2. CASE x \in [kind : {"ip", "label", "run"}, name : Names]
    <3>1. CASE x.kind = "ip"
      BY <2>2, <3>1 DEF Bucket
    <3>2. CASE x.kind = "run"
      BY <2>2, <3>2 DEF Bucket
    <3>3. CASE x.kind = "label"
      BY <2>2, <3>3 DEF Bucket
    <3> QED
      BY <2>2, <3>1, <3>2, <3>3
  <2> QED
    BY <2>1, <2>2 DEF Callers
<1>2. \A p, q, r, t : <<p, q>> = <<r, t>> => p = r /\ q = t
  OBVIOUS
<1>3. \A n \in Names : n # "anonymous"
  BY AdmissionAssumption
<1>4. CASE c = Anonymous
  <2>1. ASSUME d # Anonymous
        PROVE  FALSE
    <3>1. PICK k \in {"ip:", "run:", ""} : Bucket(d) = <<k, d.name>>
      BY <1>1, <2>1
    <3>2. Bucket(c) = <<"", "anonymous">>
      BY <1>1, <1>4 DEF Anonymous, Bucket
    <3>3. d.name = "anonymous"
      BY <1>2, <3>1, <3>2
    <3> QED
      BY <1>1, <1>3, <2>1, <3>3
  <2> QED
    BY <1>4, <2>1
<1>5. CASE c # Anonymous
  <2>1. d # Anonymous
    <3>1. SUFFICES ASSUME d = Anonymous
                   PROVE  FALSE
      OBVIOUS
    <3>2. PICK k \in {"ip:", "run:", ""} : Bucket(c) = <<k, c.name>>
      BY <1>1, <1>5
    <3>3. Bucket(d) = <<"", "anonymous">>
      BY <3>1 DEF Anonymous, Bucket
    <3>4. c.name = "anonymous"
      BY <1>2, <3>2, <3>3
    <3> QED
      BY <1>1, <1>3, <1>5, <3>4
  <2>2. PICK k \in {"ip:", "run:", ""} : Bucket(c) = <<k, c.name>>
    BY <1>1, <1>5
  <2>3. PICK l \in {"ip:", "run:", ""} : Bucket(d) = <<l, d.name>>
    BY <1>1, <2>1
  <2>4. k = l /\ c.name = d.name
    BY <1>2, <2>2, <2>3
  <2>5. ASSUME NEW x \in Callers, NEW j, NEW n, x # Anonymous, Bucket(x) = <<j, n>>
        PROVE  \/ x.kind = "ip"    /\ j = "ip:"
               \/ x.kind = "run"   /\ j = "run:"
               \/ x.kind = "label" /\ j = ""
    <3>1. CASE x.kind = "ip" /\ Bucket(x) = <<"ip:", x.name>>
      <4>1. <<"ip:", x.name>> = <<j, n>>
        BY <2>5, <3>1
      <4> QED
        BY <1>2, <3>1, <4>1
    <3>2. CASE x.kind = "run" /\ Bucket(x) = <<"run:", x.name>>
      <4>1. <<"run:", x.name>> = <<j, n>>
        BY <2>5, <3>2
      <4> QED
        BY <1>2, <3>2, <4>1
    <3>3. CASE x.kind = "label" /\ Bucket(x) = <<"", x.name>>
      <4>1. <<"", x.name>> = <<j, n>>
        BY <2>5, <3>3
      <4> QED
        BY <1>2, <3>3, <4>1
    <3> QED
      BY <1>1, <2>5, <3>1, <3>2, <3>3
  <2>6. c.kind = d.kind
    <3>1. \/ c.kind = "ip"    /\ k = "ip:"
          \/ c.kind = "run"   /\ k = "run:"
          \/ c.kind = "label" /\ k = ""
      BY <1>5, <2>2, <2>5
    <3>2. \/ d.kind = "ip"    /\ l = "ip:"
          \/ d.kind = "run"   /\ l = "run:"
          \/ d.kind = "label" /\ l = ""
      BY <2>1, <2>3, <2>5
    <3> QED
      BY <2>4, <3>1, <3>2
  <2>7. /\ c = [kind |-> c.kind, name |-> c.name]
        /\ d = [kind |-> d.kind, name |-> d.name]
    BY <1>1, <1>5, <2>1
  <2> QED
    BY <2>4, <2>6, <2>7
<1> QED
  BY <1>4, <1>5

LEMMA LengthPositive == Length \in Nat /\ Length >= 1
<1>1. \A x, y \in Nat \ {0} : x * y \in Nat /\ x * y >= 1
  OBVIOUS
<1> QED
  BY <1>1, AdmissionAssumption DEF Length

\* A hit moves the hitter's count and no other caller's.
LEMMA HitKeepsBudgets ==
    ASSUME TypeOK, BudgetsAreSeparate, ServedCounted, NEW c \in Callers, Hit(c)
    PROVE  /\ BudgetsAreSeparate' /\ ServedCounted'
           /\ counts' \in [Buckets -> 0 .. Limit + 1]
           /\ spent' \in [Callers -> 0 .. Limit + 1]
           /\ served' \in [Callers -> 0 .. Limit + 1]
<1> USE AdmissionAssumption
<1>1. \A d \in Callers : Bucket(d) \in Buckets
  BY DEF Buckets
<1>2. \A d \in Callers : /\ Held(counts, Bucket(d)) = Held(spent, d)
                         /\ Held(spent, d) \in 0 .. Limit + 1
                         /\ Held(served, d) \in 0 .. Limit
                         /\ Held(served, d) <= Held(spent, d)
  BY <1>1 DEF Held, TypeOK, BudgetsAreSeparate, ServedCounted
<1>3. Used(c) = Smaller(Held(spent, c) + 1, Limit + 1) /\ Used(c) \in 0 .. Limit + 1
  BY <1>2 DEF Used, Smaller
<1>4. ASSUME NEW d \in Callers
      PROVE  /\ counts'[Bucket(d)] = spent'[d]
             /\ spent'[d] \in 0 .. Limit + 1
             /\ served'[d] \in 0 .. Limit
             /\ served'[d] <= spent'[d]
  <2>1. CASE d = c
    <3>1. counts'[Bucket(d)] = Used(c)
      BY <1>1, <2>1 DEF Hit
    <3>2. spent'[d] = Smaller(Held(spent, c) + 1, Limit + 1)
      BY <2>1 DEF Hit
    <3>3. served'[d] = Held(served, c) + (IF Used(c) <= Limit THEN 1 ELSE 0)
      BY <2>1 DEF Hit, Allowed
    <3> QED
      BY <1>2, <1>3, <3>1, <3>2, <3>3 DEF Smaller
  <2>2. CASE d # c
    <3>1. Bucket(d) # Bucket(c)
      BY <2>2, BucketsDiffer
    <3>2. counts'[Bucket(d)] = Held(counts, Bucket(d))
      BY <1>1, <3>1 DEF Hit
    <3>3. spent'[d] = Smaller(Held(spent, d), Limit + 1) /\ served'[d] = Held(served, d)
      BY <1>2, <2>2 DEF Hit
    <3> QED
      BY <1>2, <3>2, <3>3 DEF Smaller
  <2> QED
    BY <2>1, <2>2
<1>5. \A b \in Buckets : Held(counts, b) \in 0 .. Limit + 1
  BY DEF Held, TypeOK
<1>6. counts' \in [Buckets -> 0 .. Limit + 1]
  BY <1>3, <1>5 DEF Hit
<1>7. DOMAIN spent' = Callers /\ DOMAIN served' = Callers
      /\ spent' = [d \in Callers |-> spent'[d]] /\ served' = [d \in Callers |-> served'[d]]
  BY DEF Hit
<1> QED
  BY <1>4, <1>6, <1>7 DEF BudgetsAreSeparate, ServedCounted

\* A hit keeps the window and Watched's past well formed.
LEMMA HitTypes ==
    ASSUME TypeOK, NEW c \in Callers, Hit(c)
    PROVE  /\ elapsed' \in 0 .. Length
           /\ recent' \in [0 .. Length - 1 -> Nat]
           /\ told' \in BOOLEAN /\ wait' \in 0 .. Length + Second
           /\ WaitCovers => WaitCovers'
<1> USE AdmissionAssumption, LengthPositive
<1>1. elapsed' \in 0 .. Length
  BY DEF Hit, Restarted, TypeOK
<1>2. recent' \in [0 .. Length - 1 -> Nat]
  BY DEF Hit, TypeOK
<1>3. told' \in BOOLEAN
  BY DEF Hit, TypeOK, Allowed
<1>4. Restarted \in 0 .. Length
  BY DEF Restarted, TypeOK
<1>5. \A x \in Nat : /\ x \div Second \in Nat /\ (x \div Second) * Second <= x
                     /\ x < (x \div Second + 1) * Second
                     /\ (x \div Second + 1) * Second = (x \div Second) * Second + Second
  OBVIOUS
<1>6. Second <= Length
  <2>1. \A x, y \in Nat \ {0} : y <= x * y
    OBVIOUS
  <2> QED
    BY <2>1 DEF Length
<1>7. /\ (ResetsIn + 1) * Second \in 0 .. Length + Second
      /\ (ResetsIn + 1) * Second >= Length - Restarted
  <2> DEFINE left == Length - Restarted
             secs == left \div Second
  <2>1. left \in Nat /\ left <= Length
    BY <1>4
  <2> HIDE DEF left
  <2>2. /\ secs \in Nat /\ secs * Second <= left /\ left < (secs + 1) * Second
        /\ (secs + 1) * Second = secs * Second + Second /\ secs * Second \in Nat
    BY <1>5, <2>1
  <2>3. ResetsIn = IF secs > 1 THEN secs ELSE 1
    BY DEF ResetsIn, Larger, left
  <2> HIDE DEF secs
  <2>4. CASE ResetsIn = secs
    BY <2>1, <2>2, <2>4 DEF left
  <2>5. CASE ResetsIn = 1
    <3>1. secs \in {0, 1}
      BY <2>2, <2>3, <2>5
    <3>2. (secs + 1) * Second <= 2 * Second
      BY <3>1
    <3>3. (1 + 1) * Second = Second + Second
      OBVIOUS
    <3> QED
      BY <1>6, <2>1, <2>2, <2>5, <3>2, <3>3 DEF left
  <2> QED
    BY <2>2, <2>3, <2>4, <2>5
<1>8. wait' \in 0 .. Length + Second
  BY <1>7 DEF Hit, TypeOK
<1>9. ASSUME WaitCovers
      PROVE  WaitCovers'
  <2>1. CASE c = Watched
    BY <1>7, <2>1 DEF Hit, WaitCovers
  <2>2. CASE c # Watched
    <3>1. wait' = wait /\ (told' => told /\ ~WindowOver)
      BY <2>2, Zenon DEF Hit
    <3>2. ~WindowOver => elapsed' = elapsed
      BY DEF Hit, Restarted
    <3> QED
      BY <1>9, <3>1, <3>2 DEF WaitCovers
  <2> QED
    BY <2>1, <2>2
<1> QED
  BY <1>1, <1>2, <1>3, <1>8, <1>9

\* A hit adds no more to Watched's past than to its window, and a window
\* starts when everything of the last one is older than this tick.
LEMMA HitKeepsRecent ==
    ASSUME TypeOK, ServedCounted, RecentCovered, NEW c \in Callers, Hit(c)
    PROVE  RecentCovered'
<1> USE AdmissionAssumption, LengthPositive
<1> DEFINE more == IF c = Watched /\ Allowed(c) THEN 1 ELSE 0
<1>1. SUFFICES ASSUME NEW ago \in 0 .. Length - 1
               PROVE  recent'[ago] <= served'[Watched]
                                      + (IF ago >= elapsed' THEN Limit ELSE 0)
  BY DEF RecentCovered
<1>2. recent'[ago] = recent[ago] + more
  BY DEF Hit, TypeOK
<1>3. served'[Watched] = Held(served, Watched) + more
  BY DEF Hit
<1>4. /\ recent[ago] \in Nat /\ elapsed \in 0 .. Length /\ more \in {0, 1}
      /\ served[Watched] \in 0 .. Limit
      /\ recent[ago] <= served[Watched] + (IF ago >= elapsed THEN Limit ELSE 0)
  BY DEF TypeOK, ServedCounted, RecentCovered
<1> HIDE DEF more
<1>5. CASE WindowOver
  <2>1. Held(served, Watched) = 0 /\ elapsed' = 0
    BY <1>5 DEF Held, Hit, Restarted
  <2>2. recent[ago] <= Limit
    BY <1>4, <1>5 DEF WindowOver
  <2> QED
    BY <1>2, <1>3, <1>4, <2>1, <2>2
<1>6. CASE ~WindowOver
  <2>1. Held(served, Watched) = served[Watched] /\ elapsed' = elapsed
    BY <1>6 DEF Held, Hit, Restarted
  <2> QED
    BY <1>2, <1>3, <1>4, <2>1
<1> QED
  BY <1>5, <1>6

-----------------------------------------------------------------------------
(* The steps *)

LEMMA InitIInv == Init => IInv
<1> SUFFICES ASSUME Init PROVE IInv
  OBVIOUS
<1> USE AdmissionAssumption, LengthPositive DEF Init
<1>1. \A c \in Callers : Bucket(c) \in Buckets
  BY DEF Buckets
<1>2. TypeOK
  <2>1. elapsed \in 0 .. Length /\ wait \in 0 .. Length + Second
    OBVIOUS
  <2>2. recent \in [0 .. Length - 1 -> Nat]
    OBVIOUS
  <2>3. /\ counts \in [Buckets -> 0 .. Limit + 1]
        /\ spent \in [Callers -> 0 .. Limit + 1]
        /\ served \in [Callers -> 0 .. Limit + 1]
    OBVIOUS
  <2>4. /\ stage \in [Slots -> {"free", "auth", "find", "limit", "handle"}]
        /\ req \in [Slots -> Requests \cup {Nobody}]
        /\ caller \in [Slots -> Callers \cup {Nobody}]
    OBVIOUS
  <2>5. \A s \in Slots : /\ stage[s] # "free" => req[s] \in Requests
                         /\ stage[s] = "limit" => caller[s] \in Callers
    OBVIOUS
  <2>6. told \in BOOLEAN
    BY Zenon
  <2> QED
    <3>1. config \in [disabled: BOOLEAN, admin: BOOLEAN]
      OBVIOUS
    <3> HIDE DEF Init
    <3> QED
      BY <3>1, <2>1, <2>2, <2>3, <2>4, <2>5, <2>6, Zenon DEF TypeOK
<1>3. BudgetsAreSeparate /\ ServedCounted /\ WaitCovers /\ RecentCovered
  BY <1>1 DEF BudgetsAreSeparate, ServedCounted, WaitCovers, RecentCovered
<1> QED
  BY <1>2, <1>3 DEF IInv

\* The part of the state a request moves, typed.
SlotsTyped ==
    /\ config \in [disabled: BOOLEAN, admin: BOOLEAN]
    /\ stage \in [Slots -> {"free", "auth", "find", "limit", "handle"}]
    /\ req \in [Slots -> Requests \cup {Nobody}]
    /\ caller \in [Slots -> Callers \cup {Nobody}]
    /\ \A s \in Slots : /\ stage[s] # "free" => req[s] \in Requests
                        /\ stage[s] = "limit" => caller[s] \in Callers

\* Only a hit and the clock touch the counter.
LEMMA CountersStay ==
    ASSUME IInv, SlotsTyped', UNCHANGED countVars
    PROVE  IInv'
BY DEF IInv, TypeOK, SlotsTyped, BudgetsAreSeparate, ServedCounted, WaitCovers, RecentCovered,
       countVars

LEMMA HitPreserves ==
    ASSUME IInv, SlotsTyped', NEW c \in Callers, Hit(c)
    PROVE  IInv'
<1>1. TypeOK /\ BudgetsAreSeparate /\ ServedCounted /\ WaitCovers /\ RecentCovered
  BY DEF IInv
<1>2. TypeOK'
  BY <1>1, HitKeepsBudgets, HitTypes DEF TypeOK, SlotsTyped
<1> QED
  BY <1>1, <1>2, HitKeepsBudgets, HitTypes, HitKeepsRecent DEF IInv

LEMMA CallersKnown ==
    ASSUME NEW r \in Requests
    PROVE  /\ AddressOf(r) \in Callers /\ Anonymous \in Callers
           /\ Named("label", r) \in Callers /\ Named("run", r) \in Callers
BY AdmissionAssumption DEF AllRequests, AddressOf, Named, Callers

LEMMA RespondTypes ==
    ASSUME TypeOK, NEW s \in Slots, Respond(s), config' = config
    PROVE  SlotsTyped'
BY DEF TypeOK, SlotsTyped, Respond

LEMMA MoveTypes ==
    ASSUME TypeOK, NEW s \in Slots, NEW t \in {"auth", "find", "handle"},
           stage' = [stage EXCEPT ![s] = t], stage[s] # "free", UNCHANGED <<config, req, caller>>
    PROVE  SlotsTyped'
BY DEF TypeOK, SlotsTyped

LEMMA RefusePreserves ==
    ASSUME IInv, NEW s \in Slots, stage[s] # "free", Refuse(s), config' = config
    PROVE  IInv'
<1>1. SlotsTyped'
  BY RespondTypes DEF IInv, Refuse
<1>2. CASE Limit = 0
  BY <1>1, <1>2, CountersStay DEF Refuse
<1>3. CASE Limit # 0
  <2>1. AddressOf(req[s]) \in Callers
    BY CallersKnown DEF IInv, TypeOK
  <2> QED
    BY <1>1, <1>3, <2>1, HitPreserves DEF Refuse
<1> QED
  BY <1>2, <1>3

LEMMA AdmitPreserves ==
    ASSUME IInv, NEW s \in Slots, stage[s] # "free", NEW c \in Callers,
           Admit(s, c), config' = config
    PROVE  IInv'
<1>1. SlotsTyped'
  BY DEF IInv, TypeOK, SlotsTyped, Admit
<1> QED
  BY <1>1, CountersStay DEF Admit

LEMMA ForbidPreserves ==
    ASSUME IInv, NEW s \in Slots, Forbid(s), config' = config
    PROVE  IInv'
<1>1. SlotsTyped'
  BY RespondTypes DEF IInv, Forbid
<1> QED
  BY <1>1, CountersStay DEF Forbid

LEMMA AuthenticatePreserves ==
    ASSUME IInv, NEW s \in Slots, Authenticate(s)
    PROVE  IInv'
<1>1. stage[s] = "auth" /\ req[s] \in Requests /\ config' = config
  BY DEF Authenticate, IInv, TypeOK
<1>2. CASE /\ stage' = [stage EXCEPT ![s] = "handle"] \/ stage' = [stage EXCEPT ![s] = "find"]
           /\ UNCHANGED <<req, caller, countVars>>
  <2>1. SlotsTyped'
    BY <1>1, <1>2, MoveTypes DEF IInv
  <2> QED
    BY <1>2, <2>1, CountersStay
<1>3. CASE Refuse(s)
  BY <1>1, <1>3, RefusePreserves
<1>4. CASE Forbid(s)
  BY <1>1, <1>4, ForbidPreserves
<1>5. CASE Admit(s, Anonymous) \/ Admit(s, Named("label", req[s]))
  BY <1>1, <1>5, AdmitPreserves, CallersKnown
<1> QED
  BY <1>2, <1>3, <1>4, <1>5 DEF Authenticate

LEMMA FindGrantPreserves ==
    ASSUME IInv, NEW s \in Slots, FindGrant(s)
    PROVE  IInv'
<1>1. stage[s] = "find" /\ req[s] \in Requests /\ config' = config
  BY DEF FindGrant, IInv, TypeOK
<1>2. CASE Forbid(s)
  BY <1>1, <1>2, ForbidPreserves
<1>3. CASE Refuse(s)
  BY <1>1, <1>3, RefusePreserves
<1>4. CASE Admit(s, Named("run", req[s]))
  BY <1>1, <1>4, AdmitPreserves, CallersKnown
<1> QED
  BY <1>2, <1>3, <1>4 DEF FindGrant

LEMMA RateLimitPreserves ==
    ASSUME IInv, NEW s \in Slots, RateLimit(s)
    PROVE  IInv'
<1>1. stage[s] = "limit" /\ caller[s] \in Callers /\ config' = config
  BY DEF RateLimit, IInv, TypeOK
<1>2. SlotsTyped'
  <2>1. CASE Respond(s)
    BY <1>1, <2>1, RespondTypes DEF IInv
  <2>2. CASE stage' = [stage EXCEPT ![s] = "handle"] /\ UNCHANGED <<req, caller>>
    BY <1>1, <2>2, MoveTypes DEF IInv
  <2> QED
    BY <2>1, <2>2 DEF RateLimit
<1>3. Hit(caller[s]) \/ UNCHANGED countVars
  BY DEF RateLimit
<1> QED
  BY <1>1, <1>2, <1>3, HitPreserves, CountersStay

LEMMA ArrivePreserves ==
    ASSUME IInv, NEW s \in Slots, Arrive(s)
    PROVE  IInv'
<1>1. SlotsTyped'
  BY DEF Arrive, IInv, TypeOK, SlotsTyped
<1> QED
  BY <1>1, CountersStay DEF Arrive

LEMMA HandlePreserves ==
    ASSUME IInv, NEW s \in Slots, Handle(s)
    PROVE  IInv'
<1>1. SlotsTyped'
  BY RespondTypes DEF Handle, IInv
<1> QED
  BY <1>1, CountersStay DEF Handle

LEMMA TickPreserves == IInv /\ Tick => IInv'
<1> SUFFICES ASSUME IInv, Tick PROVE IInv'
  OBVIOUS
<1> USE LengthPositive
<1>1. elapsed' \in 0 .. Length
  BY DEF Tick, IInv, TypeOK, Smaller
<1>2. recent' \in [0 .. Length - 1 -> Nat]
  BY DEF Tick, IInv, TypeOK
<1>3. wait' \in 0 .. Length + Second
  BY AdmissionAssumption DEF Tick, IInv, TypeOK
<1>4. TypeOK'
  BY <1>1, <1>2, <1>3 DEF Tick, IInv, TypeOK, slotVars
<1>5. WaitCovers'
  BY AdmissionAssumption DEF Tick, IInv, TypeOK, WaitCovers, Smaller
<1>6. RecentCovered'
  <2>1. SUFFICES ASSUME NEW ago \in 0 .. Length - 1
                 PROVE  recent'[ago] <= served'[Watched]
                                        + (IF ago >= elapsed' THEN Limit ELSE 0)
    BY DEF RecentCovered
  <2>2. /\ served' = served /\ served[Watched] \in Nat /\ Limit \in Nat
        /\ elapsed \in 0 .. Length
    BY AdmissionAssumption DEF Tick, IInv, TypeOK
  <2>3. CASE ago = 0
    BY <2>2, <2>3 DEF Tick
  <2>4. CASE ago # 0
    <3>1. ago - 1 \in 0 .. Length - 1 /\ recent'[ago] = recent[ago - 1]
      BY <2>4 DEF Tick
    <3>2. recent[ago - 1] <= served[Watched] + (IF ago - 1 >= elapsed THEN Limit ELSE 0)
      BY <3>1 DEF IInv, RecentCovered
    <3>3. recent[ago - 1] \in Nat
      BY <3>1 DEF IInv, TypeOK
    <3>4. ago - 1 >= elapsed => ago >= elapsed'
      BY <2>2, <2>4 DEF Tick, Smaller
    <3> QED
      BY <2>2, <3>1, <3>2, <3>3, <3>4
  <2> QED
    BY <2>3, <2>4
<1> QED
  BY <1>4, <1>5, <1>6 DEF Tick, IInv, BudgetsAreSeparate, ServedCounted

LEMMA NextPreserves == IInv /\ [Next]_vars => IInv'
<1> SUFFICES ASSUME IInv, [Next]_vars PROVE IInv'
  OBVIOUS
<1>1. CASE UNCHANGED vars
  <2>1. SlotsTyped' /\ UNCHANGED countVars
    BY <1>1 DEF vars, slotVars, IInv, TypeOK, SlotsTyped
  <2> QED
    BY <2>1, CountersStay
<1>2. CASE Next
  BY <1>2, ArrivePreserves, AuthenticatePreserves, FindGrantPreserves,
     RateLimitPreserves, HandlePreserves, TickPreserves DEF Next
<1> QED
  BY <1>1, <1>2

-----------------------------------------------------------------------------
(* The theorems *)

\* What is counted for a caller is what it asked, and what is let through is
\* within it, after every request and whatever comes between.
THEOREM AdmissionInvariant == Spec => []IInv
BY InitIInv, NextPreserves, PTL DEF Spec

\* Every variable keeps its type; a request at the limiter has its caller.
THEOREM TypeCorrect == Spec => []TypeOK
<1>1. IInv => TypeOK
  BY DEF IInv
<1> QED
  BY <1>1, AdmissionInvariant, PTL

\* No caller has more than Limit requests let through in one window.
THEOREM WindowBudgetHolds == Spec => []WindowBudget
<1>1. IInv => WindowBudget
  BY DEF IInv, ServedCounted, WindowBudget
<1> QED
  BY <1>1, AdmissionInvariant, PTL

\* Whatever addresses, labels and runs are called, nobody uses up the budget
\* of another.
THEOREM BudgetsStaySeparate == Spec => []BudgetsAreSeparate
<1>1. IInv => BudgetsAreSeparate
  BY DEF IInv
<1> QED
  BY <1>1, AdmissionInvariant, PTL

\* No stretch of one window's length, wherever it lies, lets more than two
\* budgets of one caller through.
THEOREM BurstBoundHolds == Spec => []BurstBound
<1>1. IInv => BurstBound
  <2> SUFFICES ASSUME IInv
               PROVE  recent[Length - 1] <= 2 * Limit
    BY DEF BurstBound
  <2>1. Length - 1 \in 0 .. Length - 1
    BY LengthPositive
  <2>2. recent[Length - 1] \in Nat /\ served[Watched] \in 0 .. Limit /\ Limit \in Nat
    BY <2>1, AdmissionAssumption DEF IInv, TypeOK, ServedCounted
  <2>3. recent[Length - 1]
           <= served[Watched] + (IF Length - 1 >= elapsed THEN Limit ELSE 0)
    BY <2>1 DEF IInv, RecentCovered
  <2> QED
    BY <2>2, <2>3
<1> QED
  BY <1>1, AdmissionInvariant, PTL

\* Whoever waits out a 429 and a second more is in a new window.
THEOREM RetryAfterIsNearEnough == Spec => []RetryAfterIsClose
<1>1. IInv => RetryAfterIsClose
  BY LengthPositive DEF IInv, TypeOK, WaitCovers, RetryAfterIsClose, WindowOver
<1> QED
  BY <1>1, AdmissionInvariant, PTL
=============================================================================
