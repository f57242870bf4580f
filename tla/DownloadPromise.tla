--------------------------- MODULE DownloadPromise ---------------------------
(***************************************************************************)
(* What the delivery of an artifact promises a client that saves it: its   *)
(* copy is always a beginning of the artifact and only gets longer, what   *)
(* it has at the end is the whole, and it is turned away only when the     *)
(* artifact is no longer kept.  Then nothing more is sent.                 *)
(***************************************************************************)
EXTENDS Naturals, Sequences

CONSTANT MaxSize

VARIABLES
    size,
    copy,       \* what the client has
    there,      \* whether the artifact is still kept
    end         \* open, done or failed

\* The first n bytes of the artifact, each named by its position.
Beginning(n) == [i \in 1 .. n |-> i - 1]

Init == /\ size \in 0 .. MaxSize
        /\ copy = <<>>
        /\ there = TRUE
        /\ end = "open"

\* More arrives, or the same again; with the last byte the copy is complete.
Receive(n) == /\ end = "open"
              /\ copy' = Beginning(n)
              /\ end' = "open" \/ (n = size /\ end' = "done")
              /\ UNCHANGED <<size, there>>

Vanish == there' = FALSE /\ UNCHANGED <<size, copy, end>>

Refuse == /\ end = "open" /\ ~there
          /\ end' = "failed"
          /\ UNCHANGED <<size, copy, there>>

Next == \/ \E n \in Len(copy) .. size : Receive(n)
        \/ Vanish
        \/ Refuse

Spec == Init /\ [][Next]_<<size, copy, there, end>>
=============================================================================
