---------------------------- MODULE MCAdmission ----------------------------
(***************************************************************************)
(* An instance of Admission for TLC: one name for an address, a label and  *)
(* a run, and one request of each kind that is treated differently.        *)
(***************************************************************************)
EXTENDS Admission

CONSTANT App

MCRequests ==
    {[address |-> App, name |-> App, bearer |-> k[1], path |-> k[2]] :
        k \in {<<"none", "public">>, <<"unknown", "v1">>, <<"client", "v1">>,
               <<"admin", "admin">>, <<"grant", "turn">>, <<"dead_grant", "turn">>}}

MCWatched == [kind |-> "label", name |-> App]
=============================================================================
