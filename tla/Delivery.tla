------------------------------ MODULE Delivery ------------------------------
(***************************************************************************)
(* Fetching an artifact: delivery.py, artifacts.read_record and            *)
(* artifacts.read_range, behind GET /v1/artifacts/{id}/content.  The       *)
(* client either saves the artifact, asking for the rest after a broken    *)
(* transfer as the README tells it to, or looks, with any Range header.    *)
(* Between two steps the connection may break and the bucket may delete.   *)
(*                                                                         *)
(* Bytes are named by their position in the artifact.                      *)
(***************************************************************************)
EXTENDS Integers, Sequences

CONSTANTS
    MaxSize,        \* the largest artifact
    Chunk,          \* CHUNK_BYTES
    MaxBreaks       \* how often the connection breaks

ASSUME DeliveryAssumption ==
    MaxSize \in Nat /\ Chunk \in Nat \ {0} /\ MaxBreaks \in Nat

VARIABLES
    size,           \* of the stored artifact
    file,           \* "live", "expired" (too old to serve) or "gone"
    goal,           \* of the client: "save" or "look"
    stage,          \* of the request: idle, asked, headers, sending, done, failed
    header,         \* the Range header it carries
    resp,           \* status and headers of the response
    cursor, left,   \* read_range: where the file is read, bytes still to read
    body,           \* what has arrived of this response
    kept,           \* what a saving client has of the earlier ones
    breaks

fileVars   == <<size, file, goal>>
serverVars == <<resp, cursor, left>>
vars       == <<fileVars, stage, header, serverVars, body, kept, breaks>>

-----------------------------------------------------------------------------
(* Ranges *)

Blank == -1

\* "bytes=first-last", either number left out.  Without both it is a header
\* that is ignored, and stands for none and for a malformed one.
Headers == [first: {Blank} \cup 0 .. MaxSize + 1, last: {Blank} \cup 0 .. MaxSize + 1]

NoRange == [first |-> Blank, last |-> Blank]

Smaller(a, b) == IF a < b THEN a ELSE b
Larger(a, b)  == IF a > b THEN a ELSE b

Spans == [partial: BOOLEAN, first: Int, last: Int]

Whole(n) == [partial |-> FALSE, first |-> 0, last |-> Larger(n - 1, 0)]

Part(a, b) == [partial |-> TRUE, first |-> a, last |-> b]

\* Mutants of Span: an open end is not understood; a suffix is a prefix; a
\* range may begin past the end.
SpanWithoutOpenEnd(h, n) ==
    IF n = 0 \/ h.last = Blank \/ h.first >= n THEN Whole(n)
    ELSE IF h.first = Blank THEN Part(n - Smaller(h.last, n), n - 1)
    ELSE Part(h.first, Smaller(h.last, n - 1))

SpanFromStart(h, n) ==
    IF n = 0 \/ h = NoRange \/ h.first >= n THEN Whole(n)
    ELSE IF h.first = Blank THEN Part(0, Smaller(h.last, n) - 1)
    ELSE Part(h.first, IF h.last = Blank THEN n - 1 ELSE Smaller(h.last, n - 1))

\* parse_range: what is sent of n bytes.
Span(h, n) ==
    IF n = 0 \/ h = NoRange \/ h.first >= n THEN Whole(n)
    ELSE IF h.first = Blank THEN Part(n - Smaller(h.last, n), n - 1)
    ELSE Part(h.first, IF h.last = Blank THEN n - 1 ELSE Smaller(h.last, n - 1))

\* Mutant of ContentLength: an inclusive end taken for an exclusive one.
LengthOffByOne(s, n) == IF n = 0 THEN 0 ELSE s.last - s.first

ContentLength(s, n) == IF n = 0 THEN 0 ELSE s.last - s.first + 1

\* The n positions from a on.
Bytes(a, n) == [i \in 1 .. n |-> a + i - 1]

-----------------------------------------------------------------------------
Responses == [span: Spans, length: Int]

NoResponse == [span |-> Whole(0), length |-> 0]

Init == /\ size \in 0 .. MaxSize /\ file = "live"
        /\ goal \in {"save", "look"}
        /\ stage = "idle" /\ header = NoRange
        /\ resp = NoResponse
        /\ cursor = 0 /\ left = 0
        /\ body = <<>> /\ kept = <<>>
        /\ breaks = 0

\* What the client has of the artifact: a 206 goes on, a 200 starts anew.
Held == IF stage \notin {"headers", "sending"} THEN kept
        ELSE IF resp.span.partial THEN kept \o body ELSE body

\* The response ends here, with the bytes `arrived`, whole or not.
Over(arrived, whole) ==
    LET held == IF resp.span.partial THEN kept \o arrived ELSE arrived
        has  == whole \/ (goal = "save" /\ Len(held) = size /\ size > 0)
    IN /\ body' = arrived
       /\ kept' = IF goal = "save" THEN held ELSE <<>>
       /\ stage' = IF has THEN "done" ELSE "idle"
       /\ UNCHANGED <<header, serverVars>>

-----------------------------------------------------------------------------
(* The client *)

Request(h) == /\ header' = h
              /\ stage' = "asked"
              /\ body' = <<>>
              /\ UNCHANGED <<fileVars, serverVars, kept, breaks>>

\* A client that kept what it received asks for the rest.
AskForRest == /\ goal = "save" /\ stage = "idle"
              /\ Request(IF kept = <<>> THEN NoRange
                         ELSE [first |-> Len(kept), last |-> Blank])

AskForAny == /\ goal = "look" /\ stage \in {"idle", "done"}
             /\ \E h \in Headers : Request(h)

-----------------------------------------------------------------------------
(* artifact_content, artifact_response and read_range *)

\* read_record finds nothing: a 404, and the client gives up.
NotFound == /\ stage = "asked" /\ file # "live"
            /\ stage' = "failed"
            /\ UNCHANGED <<fileVars, header, serverVars, body, kept, breaks>>

Respond == /\ stage = "asked" /\ file = "live"
           /\ LET s == Span(header, size)
              IN resp' = [span |-> s, length |-> ContentLength(s, size)]
           /\ stage' = "headers"
           /\ UNCHANGED <<fileVars, header, cursor, left, body, kept, breaks>>

\* Mutant of Open: read from the beginning.
OpenWithoutSeek == /\ stage = "headers" /\ file # "gone"
                   /\ cursor' = 0
                   /\ left' = resp.span.last - resp.span.first + 1
                   /\ stage' = "sending"
                   /\ UNCHANGED <<fileVars, header, resp, body, kept, breaks>>

\* The file is opened when the first chunk is pulled, after the headers went.
Open == /\ stage = "headers" /\ file # "gone"
        /\ cursor' = resp.span.first
        /\ left' = resp.span.last - resp.span.first + 1
        /\ stage' = "sending"
        /\ UNCHANGED <<fileVars, header, resp, body, kept, breaks>>

\* A file that is gone cannot be opened, and may not be read to its end:
\* the exception breaks the response off.
ReadFails == /\ stage \in {"headers", "sending"} /\ file = "gone"
             /\ Over(body, FALSE)
             /\ UNCHANGED <<fileVars, breaks>>

\* A chunk is never more than is left to send, nor than the file holds.
ChunkSize == Smaller(Smaller(Chunk, left), size - cursor)

ReadChunk == /\ stage = "sending" /\ left > 0 /\ ChunkSize > 0
             /\ body' = body \o Bytes(cursor, ChunkSize)
             /\ cursor' = cursor + ChunkSize
             /\ left' = left - ChunkSize
             /\ UNCHANGED <<fileVars, stage, header, resp, kept, breaks>>

\* Mutant of ReadNothing: an empty chunk is tried again.
ReadNothingAgain == /\ stage = "sending" /\ left > 0
                    /\ ChunkSize <= 0 \/ file = "gone"
                    /\ UNCHANGED vars

\* An empty chunk: the file ends, or shrank, before what was asked for.
ReadNothing == /\ stage = "sending" /\ left > 0
               /\ ChunkSize <= 0 \/ file = "gone"
               /\ Over(body, Len(body) = resp.length)
               /\ UNCHANGED <<fileVars, breaks>>

\* All is read.  The server closes the connection of a response that is not
\* as long as its Content-Length, and the client sees it broken.
Finish == /\ stage = "sending" /\ left <= 0
          /\ Over(body, Len(body) = resp.length)
          /\ UNCHANGED <<fileVars, breaks>>

Serve == NotFound \/ Respond \/ Open \/ ReadFails \/ ReadChunk \/ ReadNothing \/ Finish

-----------------------------------------------------------------------------
(* The world *)

\* The connection breaks, with a part of the next chunk on its way.
BreakBefore == /\ stage = "asked"
               /\ stage' = "idle"
               /\ UNCHANGED <<header, serverVars, body, kept>>

BreakWithin ==
    \/ stage = "headers" /\ Over(body, FALSE)
    \/ /\ stage = "sending"
       /\ \E n \in 0 .. Larger(ChunkSize, 0) : Over(body \o Bytes(cursor, n), FALSE)

Break == /\ breaks < MaxBreaks
         /\ breaks' = breaks + 1
         /\ BreakBefore \/ BreakWithin
         /\ UNCHANGED fileVars

Age == /\ file # "gone"
       /\ file' = IF file = "live" THEN "expired" ELSE "gone"
       /\ UNCHANGED <<size, goal, stage, header, serverVars, body, kept, breaks>>

\* The client has no more to ask.
Terminating == /\ stage = "failed" \/ (stage = "done" /\ goal = "save")
               /\ UNCHANGED vars

Next == AskForRest \/ AskForAny \/ Serve \/ Break \/ Age \/ Terminating

Spec == Init /\ [][Next]_vars

\* The event loop serves every request it has, and a saving client goes on
\* asking.
FairSpec == Spec /\ WF_vars(Serve) /\ WF_vars(AskForRest)

-----------------------------------------------------------------------------
(* Properties *)

\* Every variable has its type.
TypeOK ==
    /\ size \in 0 .. MaxSize /\ file \in {"live", "expired", "gone"}
    /\ goal \in {"save", "look"}
    /\ stage \in {"idle", "asked", "headers", "sending", "done", "failed"}
    /\ header \in Headers
    /\ resp \in Responses
    /\ cursor \in 0 .. MaxSize /\ left \in Int
    /\ body \in Seq(0 .. MaxSize) /\ kept \in Seq(0 .. MaxSize)
    /\ breaks \in 0 .. MaxBreaks

\* The positions a header asks for, as RFC 9110 has it.
Asked(h, n) ==
    {i \in 0 .. n - 1 : IF h.first = Blank THEN h.last = Blank \/ i >= n - h.last
                        ELSE i >= h.first /\ (h.last = Blank \/ i <= h.last)}

Satisfiable == Asked(header, size) # {}

\* A saved artifact is the artifact: however often the transfer broke, and
\* wherever, what is held is its beginning without gap or repetition, and all
\* of it when the client stops (delivery.py:11-14).
SavedIsTheArtifact ==
    goal = "save" => /\ \A i \in 1 .. Len(Held) : Held[i] = i - 1
                     /\ stage = "done" => Len(kept) = size

\* "bytes=5-2", which gets a 206 all the same, of a negative length.
Reversed == /\ resp.span.partial
            /\ header.first # Blank /\ header.last # Blank
            /\ header.last < header.first

\* The length sent first is the length of what follows: while the file is
\* there, the answer to any Range but a reversed one ends neither before nor
\* after it (delivery.py:6-9).  For reversed ones line 88 breaks what lines 8-9
\* and 49-50 say.
HonestLength ==
    stage = "sending" /\ file # "gone" /\ ~Reversed =>
        resp.length = Len(body) + Larger(Smaller(left, size - cursor), 0)

\* A response that ends whole has the bytes its Range asks for, all of them
\* and no other (delivery.py:40-69 against RFC 9110).
AnswersRange ==
    goal = "look" /\ stage = "done" /\ Satisfiable =>
        /\ {body[i] : i \in 1 .. Len(body)} = Asked(header, size)
        /\ \A i \in 1 .. Len(body) - 1 : body[i] < body[i + 1]

\* No transfer costs again what was already received.
NeverStartsOver == [][goal = "save" => Len(Held') >= Len(Held)]_vars

copy == IF goal = "save" THEN Held ELSE <<>>

end == IF goal = "save" /\ stage \in {"done", "failed"} THEN stage ELSE "open"

Promise == INSTANCE DownloadPromise WITH there <- file = "live"

\* The README's resumed download, over ranges, chunks and broken connections,
\* is one transfer that only grows, to the whole, unless the artifact has
\* expired (delivery.py:11-14).
DownloadKept == Promise!Spec

\* A client that goes on asking gets the artifact, or learns that it is not
\* to be had; a file that shrank holds nobody up (artifacts.py:247-251).
DownloadEnds == goal = "save" ~> stage \in {"done", "failed"}
=============================================================================
