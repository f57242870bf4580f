----------------------------- MODULE GrantPromise -----------------------------
(***************************************************************************)
(* What run grants promise whoever pays for a run.  The grants of a run id *)
(* stand one at a time and each stands once.  A key is handed out once, is *)
(* good as long as its grant stands, and is outlived by it; only a revoke  *)
(* may miss one.  A turn let in is billed once at most, to the grant it    *)
(* was let in under, and none is let in once the bill has come to the      *)
(* limit.  That last part is not promised of a grant that is stray: one    *)
(* whose run was written to in the name of an earlier grant.               *)
(***************************************************************************)
EXTENDS Naturals

CONSTANTS Runs, Keys, Ids, Deeds, Turns, Costs,
          NoId, Unborn

VARIABLES
    deed,       \* per grant: its run, limit and terms, or Unborn
    stands,     \* per run: the grant that stands
    opens,      \* per key: the grant it was handed out for
    good,       \* the keys that work
    bill,       \* per grant: what its turns came to
    turns,      \* per grant: the turns let in and not billed yet
    revoked,    \* grants that a revoke ended
    stray

Stands(g) == stands[deed[g].run] = g

\* A run is written to in the name of g, while another grant of it stands.
WrittenFor(g) ==
    stray' = IF stands[deed[g].run] \in {g, NoId} THEN stray
             ELSE stray \cup {stands[deed[g].run]}

Init == /\ deed   = [g \in Ids |-> Unborn]
        /\ stands = [r \in Runs |-> NoId]
        /\ opens  = [k \in Keys |-> NoId]
        /\ good   = {}
        /\ bill   = [g \in Ids |-> 0]
        /\ turns  = [g \in Ids |-> {}]
        /\ revoked = {} /\ stray = {}

\* A grant made out for a time already past never stands.
Grant(g) ==
    /\ deed[g] = Unborn /\ deed'[g] \in Deeds
    /\ deed' = [deed EXCEPT ![g] = deed'[g]]
    /\ LET r == deed'[g].run
       IN stands[r] = NoId /\ stands' \in {stands, [stands EXCEPT ![r] = g]}
    /\ UNCHANGED <<opens, good, bill, turns, revoked, stray>>

HandOut(k, g) ==
    /\ opens[k] = NoId /\ opens' = [opens EXCEPT ![k] = g]
    /\ deed[g] # Unborn
    /\ \/ good' = good
       \/ (Stands(g) \/ g \in revoked) /\ good' = good \cup {k}
    /\ WrittenFor(g)
    /\ UNCHANGED <<deed, stands, bill, turns, revoked>>

LetIn(t, g) ==
    /\ turns' = [turns EXCEPT ![g] = @ \cup {t}]
    /\ deed[g] # Unborn /\ \A h \in Ids : t \notin turns[h]
    /\ Stands(g) /\ g \notin stray => bill[g] < deed[g].limit
    /\ UNCHANGED <<deed, stands, opens, good, bill, revoked, stray>>

Bill(t, g, cost) ==
    /\ t \in turns[g]
    /\ turns' = [turns EXCEPT ![g] = @ \ {t}]
    /\ bill'  = [bill EXCEPT ![g] = @ + cost]
    /\ WrittenFor(g)
    /\ UNCHANGED <<deed, stands, opens, good, revoked>>

\* A turn that failed, or has no price.
Drop(t, g) ==
    /\ t \in turns[g]
    /\ turns' = [turns EXCEPT ![g] = @ \ {t}]
    /\ UNCHANGED <<deed, stands, opens, good, bill, revoked, stray>>

\* It may miss keys of the run, and stops none of another's.
Revoke(r) ==
    /\ stands' = [stands EXCEPT ![r] = NoId]
    /\ revoked' = revoked \cup ({stands[r]} \ {NoId})
    /\ good' \in SUBSET good
    /\ \A k \in good \ good' : deed[opens[k]].run = r
    /\ UNCHANGED <<deed, opens, bill, turns, stray>>

\* Grants expire, and with each the keys it was not outlived by.
Expire ==
    /\ \E R \in SUBSET Runs : stands' = [r \in Runs |-> IF r \in R THEN NoId ELSE stands[r]]
    /\ good' \in SUBSET good
    /\ \A k \in good : LET stays == stands'[deed[opens[k]].run] = opens[k]
                       IN /\ stays => k \in good'
                          /\ k \in good' => stays \/ opens[k] \in revoked
    /\ UNCHANGED <<deed, opens, bill, turns, revoked, stray>>

Next == \/ \E g \in Ids : \/ Grant(g)
                          \/ \E k \in Keys : HandOut(k, g)
                          \/ \E t \in Turns : \/ LetIn(t, g) \/ Drop(t, g)
                                              \/ \E cost \in Costs : Bill(t, g, cost)
        \/ \E r \in Runs : Revoke(r)
        \/ Expire

Spec == Init /\ [][Next]_<<deed, stands, opens, good, bill, turns, revoked, stray>>
=============================================================================
