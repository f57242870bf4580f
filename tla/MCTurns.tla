------------------------------ MODULE MCTurns ------------------------------
(***************************************************************************)
(* Turns with an engine that joins results and one that does not, whose    *)
(* turns are two messages, and behind them one without tools.              *)
(***************************************************************************)
EXTENDS Turns, TLC

CONSTANTS claude, openai, basic

MCEngines == {claude, openai, basic}

\* The same engine with its chain and without, and one without tools.
MCAsked == {[engine |-> claude, chained |-> TRUE], [engine |-> claude, chained |-> FALSE],
            [engine |-> basic, chained |-> FALSE]}

MCItems == (claude :> 1) @@ (openai :> 2) @@ (basic :> 1)
=============================================================================
