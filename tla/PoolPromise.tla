----------------------------- MODULE PoolPromise -----------------------------
(***************************************************************************)
(* What the client pool promises its callers: all who ask for one key get  *)
(* one client, and no client answers for two keys.  A call may fail, and   *)
(* a failure leaves nothing behind.  Reset starts over (test isolation).   *)
(***************************************************************************)
CONSTANTS Callers, PoolKeys, Clients,
          NoClient, NoKey

VARIABLES
    stands,     \* per key: the client that answers for it
    asking,     \* per caller: the key it asks for
    answer      \* per caller: the client it was last given

Init == /\ stands = [k \in PoolKeys |-> NoClient]
        /\ asking = [c \in Callers |-> NoKey]
        /\ answer = [c \in Callers |-> NoClient]

Ask(c, k) == /\ asking[c] = NoKey
             /\ asking' = [asking EXCEPT ![c] = k]
             /\ answer' = [answer EXCEPT ![c] = NoClient]
             /\ UNCHANGED stands

\* The first answer for a key settles which client stands for it.
First(c, x) == /\ asking[c] # NoKey
               /\ stands[asking[c]] = NoClient
               /\ \A k \in PoolKeys : stands[k] # x
               /\ stands' = [stands EXCEPT ![asking[c]] = x]
               /\ asking' = [asking EXCEPT ![c] = NoKey]
               /\ answer' = [answer EXCEPT ![c] = x]

\* Every later one is the same client.
Again(c) == /\ asking[c] # NoKey
            /\ stands[asking[c]] # NoClient
            /\ asking' = [asking EXCEPT ![c] = NoKey]
            /\ answer' = [answer EXCEPT ![c] = stands[asking[c]]]
            /\ UNCHANGED stands

Fail(c) == /\ asking[c] # NoKey
           /\ asking' = [asking EXCEPT ![c] = NoKey]
           /\ UNCHANGED <<stands, answer>>

Reset == /\ stands' = [k \in PoolKeys |-> NoClient]
         /\ UNCHANGED <<asking, answer>>

Next == \/ \E c \in Callers : \/ \E k \in PoolKeys : Ask(c, k)
                              \/ \E x \in Clients : First(c, x)
                              \/ Again(c)
                              \/ Fail(c)
        \/ Reset

Spec == Init /\ [][Next]_<<stands, asking, answer>>
=============================================================================
