----------------------------- MODULE MCRunGrants -----------------------------
(***************************************************************************)
(* Instances of RunGrants for TLC.  The request slots, the issuers, the    *)
(* keys and the identities of grant records are interchangeable.           *)
(***************************************************************************)
EXTENDS RunGrants, TLC

Symmetry == Permutations(Procs) \cup Permutations(Issuers)
            \cup Permutations(Keys) \cup Permutations(Ids)
=============================================================================
