--------------------------- MODULE MCCompletions ---------------------------
(***************************************************************************)
(* Completions with two requests at a time and one worker thread.  One     *)
(* engine's default model is also the first fallback, and another engine   *)
(* has a model of the same name behind it.                                 *)
(***************************************************************************)
EXTENDS Completions, TLC

CONSTANTS claude, bedrock, opus, mini

MCEngines == {claude, bedrock}

MCNames == {opus, mini}

MCDefaultOf == (claude :> opus) @@ (bedrock :> mini)

MCChain == <<[engine |-> claude, name |-> opus], [engine |-> bedrock, name |-> opus]>>

MCPriced == {[engine |-> claude, name |-> opus]}

Plain == [engine |-> claude, odd |-> FALSE]

Odd == [engine |-> claude, odd |-> TRUE]

A(kind, token, name, fallback) ==
    [kind |-> kind, token |-> token, name |-> name, fallback |-> fallback, bad |-> FALSE]

\* Every kind, spelling, default and named model, with and without the chain,
\* but for a stream behind the chain, which has each of these in one of two,
\* and a plain one; one refusal of each kind that has one.
MCAsks ==
    {A("text", Plain, Default, FALSE), A("text", Plain, opus, FALSE),
     A("stream", Plain, Default, FALSE)}
    \cup {A("stream", Plain, opus, TRUE), A("stream", Odd, Default, TRUE)}
    \cup {A("text", Plain, opus, TRUE), A("text", Odd, Default, TRUE),
          A("structured", Plain, mini, TRUE),
          A("turn", [engine |-> bedrock, odd |-> FALSE], opus, TRUE)}
    \cup {[A(k, Plain, opus, TRUE) EXCEPT !.bad = TRUE] : k \in {"structured", "turn", "stream"}}
=============================================================================
