---------------------------- MODULE AnswerPromise ----------------------------
(***************************************************************************)
(* What a generation route promises each of its callers: the pieces of one *)
(* model, then one closing, and nothing after it.  A closing that claims an *)
(* answer names the model that spoke, and says how much was sent before.   *)
(* No caller's part depends on another's.                                  *)
(***************************************************************************)
EXTENDS Naturals

CONSTANTS Requests, Models, Nobody

VARIABLES
    speaker,    \* per request: the model whose pieces or answer it has
    heard,      \* per request: the pieces sent on
    closing     \* per request: open, or how it ended

Open == [how |-> "open", by |-> Nobody, after |-> 0]
Gone == [how |-> "gone", by |-> Nobody, after |-> 0]

Init == /\ speaker = [r \in Requests |-> Nobody]
        /\ heard   = [r \in Requests |-> 0]
        /\ closing = [r \in Requests |-> Open]

\* One model speaks, the same as before if there was one.
SpeaksAs(r, m) == /\ speaker[r] \in {Nobody, m}
                  /\ speaker' = [speaker EXCEPT ![r] = m]

Speak(r, m) == /\ closing[r] = Open
               /\ SpeaksAs(r, m)
               /\ heard' \in {heard, [heard EXCEPT ![r] = @ + 1]}
               /\ UNCHANGED closing

Answer(r, m) ==
    /\ closing[r] = Open
    /\ SpeaksAs(r, m)
    /\ closing' = [closing EXCEPT ![r] = [how |-> "answered", by |-> m, after |-> heard[r]]]
    /\ UNCHANGED heard

\* A failure names nobody, even when a model has spoken.
Fail(r) ==
    /\ closing[r] = Open
    /\ UNCHANGED speaker \/ \E m \in Models : SpeaksAs(r, m)
    /\ closing' = [closing EXCEPT ![r] = [how |-> "failed", by |-> Nobody, after |-> heard[r]]]
    /\ UNCHANGED heard

Leave(r) == /\ closing[r] = Open
            /\ closing' = [closing EXCEPT ![r] = Gone]
            /\ UNCHANGED <<speaker, heard>>

Next == \E r \in Requests : \/ \E m \in Models : Speak(r, m) \/ Answer(r, m)
                            \/ Fail(r) \/ Leave(r)

Spec == Init /\ [][Next]_<<speaker, heard, closing>>
=============================================================================
