------------------------------ MODULE Admission ------------------------------
(***************************************************************************)
(* Who may call, and how often: auth.py and rate_limit.py.  A request      *)
(* passes ApiKeyAuthMiddleware and then RateLimitMiddleware; other         *)
(* requests run between the two and during a grant lookup.  The counter's  *)
(* hit has no await in it and runs on the event loop, so it is one step.   *)
(*                                                                         *)
(* Time is counted in ticks, several to a second; the fixed window is kept *)
(* as the ticks since it started, and the past by ticks ago: recent[ago]   *)
(* is what was let through in this tick and the ago ticks before it.       *)
(***************************************************************************)
EXTENDS Naturals

CONSTANTS
    Slots,          \* requests in progress at a time
    Names,          \* what addresses, labels and runs are called: they may agree
    Requests,       \* what is asked, out of AllRequests
    Limit,          \* HTTP_RATE_LIMIT
    Window,         \* HTTP_RATE_LIMIT_WINDOW_SECONDS
    Second,         \* ticks in a second
    Watched         \* the caller whose past is kept

VARIABLES
    config,         \* the environment: authentication off, admin keys set
    stage, req,     \* per slot: where the request is, and the request
    caller,         \* per slot: whom authentication found
    elapsed,        \* ticks since the window started; Length and more are one
    counts,         \* hits per bucket; everything over the limit is one
    spent,          \* history: hits per caller in this window
    served,         \* history: those allowed
    recent,         \* history: Watched's allowed hits in the last 1, 2, ... ticks
    told, wait      \* history: Watched had a 429, and is to wait so long

slotVars  == <<stage, req, caller>>
countVars == <<elapsed, counts, spent, served, recent, told, wait>>
vars      == <<config, slotVars, countVars>>

-----------------------------------------------------------------------------
(* Requests and callers *)

Bearers == {"none", "unknown", "client", "admin", "grant", "dead_grant"}
Paths   == {"public", "v1", "turn", "admin"}

\* A key that works names a label, a grant key a run.  A preflight is let
\* through wherever a public path is, and counts as one here.
AllRequests == [address: Names, bearer: Bearers, name: Names, path: Paths]

Anonymous == [kind |-> "anonymous"]

\* Whose budget a request is counted against.
Callers == [kind: {"ip", "label", "run"}, name: Names] \cup {Anonymous}

Nobody == [kind |-> "nobody"]

Length == Window * Second

ASSUME AdmissionAssumption ==
    /\ Limit \in Nat /\ Window \in Nat \ {0} /\ Second \in Nat \ {0}
    /\ Requests \subseteq AllRequests
    /\ Watched \in Callers
    \* The bucket of a deployment without authentication, which has no labels.
    /\ "anonymous" \notin Names

\* Mutant of Bucket: no namespace.
BareName(c) == <<"", IF c = Anonymous THEN "anonymous" ELSE c.name>>

\* The counter's key.  A label holds no colon, so no label reads "ip:...".
Bucket(c) == CASE c.kind = "ip"    -> <<"ip:", c.name>>
               [] c.kind = "run"   -> <<"run:", c.name>>
               [] c.kind = "label" -> <<"", c.name>>
               [] OTHER            -> <<"", "anonymous">>

Buckets == {Bucket(c) : c \in Callers}

AddressOf(r)     == [kind |-> "ip", name |-> r.address]
Named(kind, r)   == [kind |-> kind, name |-> r.name]

Smaller(a, b) == IF a < b THEN a ELSE b
Larger(a, b)  == IF a > b THEN a ELSE b

-----------------------------------------------------------------------------
Init == /\ config \in [disabled: BOOLEAN, admin: BOOLEAN]
        /\ stage  = [s \in Slots |-> "free"]
        /\ req    = [s \in Slots |-> Nobody]
        /\ caller = [s \in Slots |-> Nobody]
        /\ elapsed = 0
        /\ counts = [b \in Buckets |-> 0]
        /\ spent  = [c \in Callers |-> 0]
        /\ served = [c \in Callers |-> 0]
        /\ recent = [ago \in 0 .. Length - 1 |-> 0]
        /\ told = FALSE /\ wait = 0

-----------------------------------------------------------------------------
(* FixedWindowCounter.hit *)

WindowOver == elapsed >= Length

\* What the dict holds once an old window is cleared.
Held(f, x) == IF WindowOver THEN 0 ELSE f[x]

Used(c) == Smaller(Held(counts, Bucket(c)) + 1, Limit + 1)

\* Mutant of Allowed: one too many.
AllowedPast(c) == Used(c) <= Limit + 1

Allowed(c) == Used(c) <= Limit

\* Mutant of Restarted: a window, once over, is never begun anew.
NeverRestarted == elapsed

\* _window_started
Restarted == IF WindowOver THEN 0 ELSE elapsed

\* Mutant of ResetsIn: the part of the window gone, not the part to come.
SinceReset == Restarted \div Second

\* Seconds until the window resets, as the code has it: rounded down.
ResetsIn == Larger((Length - Restarted) \div Second, 1)

Hit(c) ==
    /\ counts' = [b \in Buckets |-> IF b = Bucket(c) THEN Used(c) ELSE Held(counts, b)]
    /\ elapsed' = Restarted
    /\ spent' = [d \in Callers |->
                    Smaller(Held(spent, d) + (IF d = c THEN 1 ELSE 0), Limit + 1)]
    /\ served' = [d \in Callers |->
                    Held(served, d) + (IF d = c /\ Allowed(c) THEN 1 ELSE 0)]
    /\ IF c = Watched
       THEN /\ recent' = [ago \in 0 .. Length - 1 |->
                             recent[ago] + (IF Allowed(c) THEN 1 ELSE 0)]
            /\ told' = ~Allowed(c)
            /\ wait' = IF Allowed(c) THEN 0 ELSE (ResetsIn + 1) * Second
       ELSE /\ told' = (told /\ ~WindowOver)
            /\ UNCHANGED <<recent, wait>>

-----------------------------------------------------------------------------
(* ApiKeyAuthMiddleware, then RateLimitMiddleware *)

Arrive(s) ==
    /\ stage[s] = "free"
    /\ \E r \in Requests : req' = [req EXCEPT ![s] = r]
    /\ stage' = [stage EXCEPT ![s] = "auth"]
    /\ UNCHANGED <<config, caller, countVars>>

Respond(s) == /\ stage'  = [stage EXCEPT ![s] = "free"]
              /\ req'    = [req EXCEPT ![s] = Nobody]
              /\ caller' = [caller EXCEPT ![s] = Nobody]

\* _refuse: a 401, or a 429 once the address is over budget.
Refuse(s) ==
    /\ Respond(s)
    /\ IF Limit = 0 THEN UNCHANGED countVars ELSE Hit(AddressOf(req[s]))

\* _forbidden, and the 503 of a store that cannot be reached: not counted.
Forbid(s) == Respond(s) /\ UNCHANGED countVars

Admit(s, c) == /\ stage'  = [stage EXCEPT ![s] = "limit"]
               /\ caller' = [caller EXCEPT ![s] = c]
               /\ UNCHANGED <<req, countVars>>

GrantLike(r) == r.bearer \in {"grant", "dead_grant"}

\* The key a path asks for.
RightKey(r) == r.bearer = IF r.path = "admin" THEN "admin" ELSE "client"

Authenticate(s) ==
    LET r == req[s] IN
    /\ stage[s] = "auth"
    /\ \/ /\ r.path = "public"
          /\ stage' = [stage EXCEPT ![s] = "handle"]
          /\ UNCHANGED <<req, caller, countVars>>
       \/ /\ r.path # "public" /\ GrantLike(r)
          /\ stage' = [stage EXCEPT ![s] = "find"]
          /\ UNCHANGED <<req, caller, countVars>>
       \/ /\ r.path # "public" /\ ~GrantLike(r)
          /\ \/ config.disabled /\ Admit(s, Anonymous)
             \/ ~config.disabled /\ r.bearer = "none" /\ Refuse(s)
             \/ /\ ~config.disabled /\ r.bearer # "none"
                /\ r.path = "admin" /\ ~config.admin
                /\ Forbid(s)
             \/ /\ ~config.disabled /\ r.bearer # "none"
                /\ r.path = "admin" => config.admin
                /\ IF RightKey(r) THEN Admit(s, Named("label", r)) ELSE Refuse(s)
    /\ UNCHANGED config

\* _dispatch_grant_key, after the lookup.
FindGrant(s) ==
    LET r == req[s] IN
    /\ stage[s] = "find"
    /\ \/ Forbid(s)
       \/ r.bearer = "dead_grant" /\ Refuse(s)
       \/ r.bearer = "grant" /\ r.path = "turn" /\ Admit(s, Named("run", r))
    /\ UNCHANGED config

RateLimit(s) ==
    /\ stage[s] = "limit"
    /\ IF Limit = 0
       THEN stage' = [stage EXCEPT ![s] = "handle"] /\ UNCHANGED <<req, caller, countVars>>
       ELSE /\ Hit(caller[s])
            /\ IF Allowed(caller[s])
               THEN stage' = [stage EXCEPT ![s] = "handle"] /\ UNCHANGED <<req, caller>>
               ELSE Respond(s)
    /\ UNCHANGED config

Handle(s) == stage[s] = "handle" /\ Respond(s) /\ UNCHANGED <<config, countVars>>

Tick ==
    /\ elapsed' = Smaller(elapsed + 1, Length)
    /\ recent' = [ago \in 0 .. Length - 1 |-> IF ago = 0 THEN 0 ELSE recent[ago - 1]]
    /\ wait' = IF wait = 0 THEN 0 ELSE wait - 1
    /\ UNCHANGED <<config, slotVars, counts, spent, served, told>>

Next == \/ \E s \in Slots : \/ Arrive(s) \/ Authenticate(s) \/ FindGrant(s)
                            \/ RateLimit(s) \/ Handle(s)
        \/ Tick

Spec == Init /\ [][Next]_vars

-----------------------------------------------------------------------------
(* Properties *)

\* Every variable has its type, and a request past authentication a caller.
TypeOK ==
    /\ config \in [disabled: BOOLEAN, admin: BOOLEAN]
    /\ stage \in [Slots -> {"free", "auth", "find", "limit", "handle"}]
    /\ req \in [Slots -> Requests \cup {Nobody}]
    /\ caller \in [Slots -> Callers \cup {Nobody}]
    /\ \A s \in Slots : /\ stage[s] # "free" => req[s] \in Requests
                        /\ stage[s] = "limit" => caller[s] \in Callers
    /\ elapsed \in 0 .. Length
    /\ counts \in [Buckets -> 0 .. Limit + 1]
    /\ spent \in [Callers -> 0 .. Limit + 1]
    /\ served \in [Callers -> 0 .. Limit + 1]
    /\ recent \in [0 .. Length - 1 -> Nat]
    /\ told \in BOOLEAN /\ wait \in 0 .. Length + Second

\* No caller has more than Limit requests handled in one window, and no
\* address more than Limit refusals that are not 429 (auth.py:278-284).
WindowBudget == \A c \in Callers : served[c] <= Limit

\* A caller's count is that of its own requests: nobody else's, whatever
\* they are called, brings it nearer the limit (rate_limit.py:54-55).
BudgetsAreSeparate == \A c \in Callers : counts[Bucket(c)] = spent[c]

\* A burst across a boundary is at most two budgets (rate_limit.py:20-23):
\* no stretch of one window's length lets more through.
BurstBound == recent[Length - 1] <= 2 * Limit

\* A caller that waits the Retry-After of its 429 and a second more finds a
\* new window, whoever called in between: what hit rounds down at
\* rate_limit.py:123 is less than a second.
RetryAfterIsClose == told /\ wait = 0 => WindowOver
=============================================================================
