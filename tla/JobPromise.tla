------------------------------ MODULE JobPromise ------------------------------
(***************************************************************************)
(* What a video job promises the callers that hold its id: what they read  *)
(* of it goes forward, an outcome is the last word, and a job that says    *)
(* ready lists artifacts that are all there.  An artifact can be read once *)
(* it is complete and until it is deleted, and does not come back.         *)
(***************************************************************************)
CONSTANTS Artifacts, Readers

VARIABLES
    word,       \* the record last published: its status and its artifacts
    open,       \* whether it can be found just now
    shelf,      \* artifacts that can be read
    gone,       \* artifacts that were deleted
    heard       \* per reader: the status it was last told

Outcomes == {"ready", "failed"}

Init == /\ word = [status |-> "queued", ids |-> {}]
        /\ open = FALSE
        /\ shelf = {} /\ gone = {}
        /\ heard = [r \in Readers |-> "none"]

Follows(new, old) == \/ new = old
                     \/ new = "generating" /\ old = "queued"
                     \/ new \in Outcomes /\ old \notin Outcomes

\* A word that is no outcome yet may be followed by one, and found again.
Publish(status, ids) ==
    /\ word.status \notin Outcomes
    /\ Follows(status, word.status)
    /\ status = "ready" => ids # {} /\ ids \subseteq shelf
    /\ word' = [status |-> status, ids |-> ids]
    /\ open' = TRUE
    /\ UNCHANGED <<shelf, gone, heard>>

\* It is being rewritten, or was deleted.
Hide == open' = FALSE /\ UNCHANGED <<word, shelf, gone, heard>>

Shelve(a) == /\ a \notin gone
             /\ shelf' = shelf \cup {a}
             /\ UNCHANGED <<word, open, gone, heard>>

Remove(a) == /\ shelf' = shelf \ {a}
             /\ gone' = gone \cup {a}
             /\ UNCHANGED <<word, open, heard>>

Tell(r) == /\ open
           /\ heard' = [heard EXCEPT ![r] = word.status]
           /\ UNCHANGED <<word, open, shelf, gone>>

Next == \/ \E status \in Outcomes \cup {"queued", "generating"}, ids \in SUBSET Artifacts :
               Publish(status, ids)
        \/ Hide
        \/ \E a \in Artifacts : Shelve(a) \/ Remove(a)
        \/ \E r \in Readers : Tell(r)

Spec == Init /\ [][Next]_<<word, open, shelf, gone, heard>>
=============================================================================
