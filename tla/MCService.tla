----------------------------- MODULE MCService -----------------------------
(***************************************************************************)
(* Service with two requests at a time: of an application that names its   *)
(* users, of a run whose grant names one, and of callers without a key.    *)
(***************************************************************************)
EXTENDS Service

CONSTANTS s1, s2, webapp, ann, bob, run

NoBearer(kind) == [kind |-> kind, label |-> NoName, id |-> NoName, run |-> NoName]

Key == [kind |-> "key", label |-> webapp, id |-> NoName, run |-> NoName]

Grant == [kind |-> "grant", label |-> webapp, id |-> ann, run |-> run]

Ask(bearer, header, size, route) ==
    [bearer |-> bearer, header |-> header, size |-> size, route |-> route]

MCRequests ==
    {Ask(Key, ann, "fits", route) : route \in Routes \ {"turn"}}
    \cup {Ask(Key, bob, "undeclared", "stream"), Ask(Key, NoName, "over", "turn"),
          Ask(Key, ann, "garbled", "threaded"), Ask(Grant, bob, "fits", "turn"),
          Ask(Grant, NoName, "fits", "stream")}
    \cup {Ask(NoBearer(k), bob, "fits", "threaded") : k \in {"none", "unknown", "dead"}}

Shipped == [profile |-> "shipped", keys |-> TRUE, disabled |-> FALSE,
            chain_ok |-> TRUE, sized |-> TRUE, limited |-> TRUE]

MCDeployments ==
    {[Shipped EXCEPT !.profile = profile] : profile \in Profiles \ {"own_emits"}}
    \cup {[Shipped EXCEPT !.profile = "own_emits", !.limited = FALSE],
          [Shipped EXCEPT !.keys = FALSE],
          [Shipped EXCEPT !.keys = FALSE, !.disabled = TRUE],
          [Shipped EXCEPT !.chain_ok = FALSE],
          [Shipped EXCEPT !.sized = FALSE]}
=============================================================================
