---------------------------- MODULE MCClientPool ----------------------------
(***************************************************************************)
(* An instance of ClientPool for TLC: a plain engine and its chain, voice, *)
(* and video with and without an engine.                                   *)
(***************************************************************************)
EXTENDS ClientPool

MCRequests ==
    {[kind |-> "completions", engine |-> e, model |-> None, fallback |-> f] :
        e \in Engines \ {Default}, f \in BOOLEAN}
    \cup {[kind |-> "voice"]}
    \cup {[kind |-> "video", engine |-> e, model |-> None] : e \in {None, Default}}
=============================================================================
