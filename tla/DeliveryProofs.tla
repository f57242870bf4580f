--------------------------- MODULE DeliveryProofs ---------------------------
(***************************************************************************)
(* Delivery for any size, chunk and number of breaks.  A response in       *)
(* progress has sent a run of positions from where its span begins, and    *)
(* the reader stands where that run ends; a saving client holds a run from *)
(* 0, and asks from where it ends.                                         *)
(***************************************************************************)
EXTENDS Delivery, SequenceTheorems, TLAPS

\* s is the run of positions from a on.
Run(s, a) == \A i \in 1 .. Len(s) : s[i] = a + i - 1

\* What a saving client asks.
RestOf(n) == IF n = 0 THEN NoRange ELSE [first |-> n, last |-> Blank]

Pending == {"asked", "headers", "sending"}

Total == resp.span.last - resp.span.first + 1

KeptOK == /\ Run(kept, 0) /\ Len(kept) <= size
          /\ goal = "look" => Len(kept) = 0
          /\ goal = "save" /\ stage \in Pending => header = RestOf(Len(kept))
          /\ goal = "save" /\ stage \in Pending \cup {"idle"} =>
                 Len(kept) < size \/ size = 0
          /\ goal = "save" /\ stage = "done" => Len(kept) = size

AnswerOK ==
    /\ stage \in {"headers", "sending"} \/ (goal = "look" /\ stage = "done") =>
           /\ resp.span = Span(header, size)
           /\ resp.length = ContentLength(resp.span, size)
           /\ Run(body, resp.span.first)
    /\ stage \in {"asked", "headers"} => body = <<>>
    /\ stage = "sending" => /\ cursor = resp.span.first + Len(body) /\ cursor <= size
                            /\ left = Total - Len(body)
                            /\ left >= 0 \/ Len(body) = 0
    /\ goal = "look" /\ stage = "done" => Len(body) = resp.length

IInv == TypeOK /\ KeptOK /\ AnswerOK

-----------------------------------------------------------------------------
(* Ranges and runs *)

LEMMA SpanFacts ==
    ASSUME NEW h \in Headers, NEW n \in 0 .. MaxSize
    PROVE  LET s == Span(h, n)
           IN /\ s \in Spans
              /\ s.first \in 0 .. n /\ s.last \in Int /\ s.last <= Larger(n - 1, 0)
              /\ s.partial => n > 0 /\ s.last <= n - 1
              /\ ~s.partial => s = Whole(n)
<1> USE DeliveryAssumption DEF Headers, NoRange, Blank, Smaller, Larger
<1>1. h.first \in Int /\ h.last \in Int
  OBVIOUS
<1>2. CASE n = 0 \/ h = NoRange \/ h.first >= n
  <2>1. Span(h, n) = [partial |-> FALSE, first |-> 0, last |-> Larger(n - 1, 0)]
    BY <1>2 DEF Span, Whole
  <2> QED
    BY <2>1 DEF Spans, Whole
<1>3. CASE ~(n = 0 \/ h = NoRange \/ h.first >= n) /\ h.first = Blank
  <2>1. Span(h, n) = [partial |-> TRUE, first |-> n - Smaller(h.last, n), last |-> n - 1]
    BY <1>3 DEF Span, Part
  <2>2. h.last \in 0 .. MaxSize + 1
    BY <1>3
  <2> QED
    <3>1. n - Smaller(h.last, n) \in 0 .. n
      BY <2>2
    <3>2. n \in Nat \ {0}
      BY <1>3
    <3> QED
      BY <2>1, <3>1, <3>2 DEF Spans
<1>4. CASE ~(n = 0 \/ h = NoRange \/ h.first >= n) /\ h.first # Blank
  <2>1. Span(h, n) = [partial |-> TRUE, first |-> h.first,
                      last |-> IF h.last = Blank THEN n - 1 ELSE Smaller(h.last, n - 1)]
    BY <1>4 DEF Span, Part
  <2>2. h.first \in 0 .. n - 1
    BY <1>4
  <2> QED
    BY <1>1, <2>1, <2>2 DEF Spans
<1> QED
  BY <1>2, <1>3, <1>4

\* The positions of a satisfiable range are those of its span.
LEMMA SpanIsAsked ==
    ASSUME NEW h \in Headers, NEW n \in 0 .. MaxSize, Asked(h, n) # {}
    PROVE  LET s == Span(h, n)
           IN /\ n > 0 /\ s.first <= s.last /\ s.last <= n - 1
              /\ Asked(h, n) = s.first .. s.last
<1> USE DeliveryAssumption DEF Headers, NoRange, Blank, Smaller, Larger
<1>1. h.first \in Int /\ h.last \in Int /\ h = [first |-> h.first, last |-> h.last]
  OBVIOUS
<1>2. PICK i \in 0 .. n - 1 : IF h.first = Blank THEN h.last = Blank \/ i >= n - h.last
                              ELSE i >= h.first /\ (h.last = Blank \/ i <= h.last)
  BY DEF Asked
<1>3. CASE h = NoRange
  <2>1. Span(h, n) = [partial |-> FALSE, first |-> 0, last |-> n - 1]
    <3>1. n >= 1 /\ Larger(n - 1, 0) = n - 1
      BY <1>2
    <3>2. Span(h, n) = Whole(n)
      BY <1>3 DEF Span
    <3> QED
      BY <3>1, <3>2 DEF Whole
  <2>2. Asked(h, n) = 0 .. n - 1
    BY <1>3 DEF Asked
  <2> QED
    BY <1>2, <2>1, <2>2
<1>4. CASE h # NoRange /\ h.first = Blank
  <2>1. h.last \in 1 .. MaxSize + 1
    BY <1>1, <1>2, <1>4
  <2>2. Span(h, n) = [partial |-> TRUE, first |-> n - Smaller(h.last, n), last |-> n - 1]
    BY <1>2, <1>4 DEF Span, Part
  <2>3. Asked(h, n) = (n - Smaller(h.last, n)) .. (n - 1)
    BY <1>4, <2>1 DEF Asked
  <2> QED
    BY <1>2, <2>1, <2>2, <2>3
<1>5. CASE h # NoRange /\ h.first # Blank
  <2> DEFINE e == IF h.last = Blank THEN n - 1 ELSE Smaller(h.last, n - 1)
  <2>1. h.first \in 0 .. n - 1 /\ h.first <= e /\ e <= n - 1
    BY <1>1, <1>2, <1>5
  <2>2. Span(h, n) = [partial |-> TRUE, first |-> h.first, last |-> e]
    BY <1>5, <2>1 DEF Span, Part
  <2>3. Asked(h, n) = h.first .. e
    BY <1>1, <1>5, <2>1 DEF Asked
  <2> QED
    BY <1>2, <2>1, <2>2, <2>3
<1> QED
  BY <1>3, <1>4, <1>5

\* A client that asks for the rest is sent the rest.
LEMMA RestIsSent ==
    ASSUME NEW n \in 0 .. MaxSize, NEW k \in Nat, k < n \/ (k = 0 /\ n = 0)
    PROVE  LET s == Span(RestOf(k), n)
           IN /\ RestOf(k) \in Headers
              /\ s.first = k /\ s.last = Larger(n - 1, 0) /\ (s.partial <=> k > 0)
<1> USE DeliveryAssumption DEF NoRange, Blank, Smaller, Larger
<1>1. RestOf(k) \in Headers
  BY DEF RestOf, Headers
<1>2. CASE k = 0
  BY <1>1, <1>2 DEF RestOf, Span, Whole
<1>3. CASE k > 0
  <2>1. Span(RestOf(k), n) = Part(k, n - 1)
    BY <1>3 DEF RestOf, Span
  <2> QED
    BY <1>1, <1>3, <2>1 DEF Part
<1> QED
  BY <1>2, <1>3

\* A run and the bytes that follow it are a run.
LEMMA RunGrows ==
    ASSUME NEW a \in Nat, NEW m \in Nat, NEW s \in Seq(0 .. MaxSize), Run(s, a),
           a + Len(s) + m <= MaxSize
    PROVE  LET t == s \o Bytes(a + Len(s), m)
           IN t \in Seq(0 .. MaxSize) /\ Run(t, a) /\ Len(t) = Len(s) + m
<1> USE DeliveryAssumption
<1> DEFINE b == Bytes(a + Len(s), m)
<1>1. Len(s) \in Nat
  OBVIOUS
<1>2. b \in Seq(0 .. MaxSize) /\ Len(b) = m /\ \A i \in 1 .. m : b[i] = a + Len(s) + i - 1
  BY <1>1 DEF Bytes
<1> HIDE DEF b
<1>3. /\ Len(s \o b) = Len(s) + m /\ s \o b \in Seq(0 .. MaxSize)
      /\ \A i \in 1 .. Len(s) + m :
            (s \o b)[i] = IF i <= Len(s) THEN s[i] ELSE b[i - Len(s)]
  BY <1>2, ConcatProperties
<1>4. Run(s \o b, a)
  BY <1>1, <1>2, <1>3 DEF Run
<1> QED
  BY <1>3, <1>4 DEF b

\* The client's run and the one it is sent meet.
LEMMA RunsMeet ==
    ASSUME NEW s \in Seq(0 .. MaxSize), NEW t \in Seq(0 .. MaxSize),
           Run(s, 0), Run(t, Len(s))
    PROVE  /\ s \o t \in Seq(0 .. MaxSize) /\ Run(s \o t, 0)
           /\ Len(s \o t) = Len(s) + Len(t)
<1>1. Len(s) \in Nat /\ Len(t) \in Nat
  OBVIOUS
<1>2. /\ Len(s \o t) = Len(s) + Len(t) /\ s \o t \in Seq(0 .. MaxSize)
      /\ \A i \in 1 .. Len(s) + Len(t) :
            (s \o t)[i] = IF i <= Len(s) THEN s[i] ELSE t[i - Len(s)]
  BY ConcatProperties
<1> QED
  BY <1>1, <1>2 DEF Run

\* What the client would hold if the response ended with `arrived`.
HeldWith(arrived) == IF resp.span.partial THEN kept \o arrived ELSE arrived

LEMMA HeldIsRun ==
    ASSUME IInv, goal = "save", stage \in {"headers", "sending"},
           NEW arrived \in Seq(0 .. MaxSize), Run(arrived, resp.span.first),
           resp.span.first + Len(arrived) <= size
    PROVE  /\ HeldWith(arrived) \in Seq(0 .. MaxSize) /\ Run(HeldWith(arrived), 0)
           /\ Len(HeldWith(arrived)) = Len(kept) + Len(arrived)
           /\ Len(HeldWith(arrived)) <= size
           /\ resp.span.first = Len(kept)
<1>1. /\ Len(kept) \in Nat /\ Len(arrived) \in Nat /\ kept \in Seq(0 .. MaxSize)
      /\ size \in 0 .. MaxSize /\ Run(kept, 0)
  BY DEF IInv, TypeOK, KeptOK
<1>2. Len(kept) < size \/ (Len(kept) = 0 /\ size = 0)
  BY <1>1 DEF IInv, TypeOK, KeptOK, Pending
<1>3. resp.span = Span(RestOf(Len(kept)), size)
  BY DEF IInv, KeptOK, AnswerOK, Pending
<1>4. resp.span.first = Len(kept) /\ (resp.span.partial <=> Len(kept) > 0)
  BY <1>1, <1>2, <1>3, RestIsSent
<1>5. CASE Len(kept) > 0
  <2>1. HeldWith(arrived) = kept \o arrived
    BY <1>4, <1>5 DEF HeldWith
  <2>2. Run(arrived, Len(kept))
    BY <1>4
  <2>3. /\ kept \o arrived \in Seq(0 .. MaxSize) /\ Run(kept \o arrived, 0)
        /\ Len(kept \o arrived) = Len(kept) + Len(arrived)
    BY <1>1, <2>2, RunsMeet
  <2> QED
    BY <1>1, <1>4, <2>1, <2>3
<1>6. CASE Len(kept) = 0
  <2>1. HeldWith(arrived) = arrived
    BY <1>4, <1>6 DEF HeldWith
  <2>2. Run(arrived, 0)
    BY <1>4, <1>6
  <2> QED
    BY <1>1, <1>4, <1>6, <2>1, <2>2
<1> QED
  BY <1>5, <1>6, <1>1

\* However a response ends, what is held is as it should be.
LEMMA OverPreserves ==
    ASSUME IInv, stage \in {"headers", "sending"}, NEW whole \in BOOLEAN,
           NEW arrived \in Seq(0 .. MaxSize), Run(arrived, resp.span.first),
           resp.span.first + Len(arrived) <= size,
           whole => Len(arrived) = resp.length,
           Over(arrived, whole), UNCHANGED fileVars, breaks' \in 0 .. MaxBreaks
    PROVE  IInv'
<1> DEFINE held == HeldWith(arrived)
<1> USE DEF fileVars, serverVars
<1>1. /\ body' = arrived /\ UNCHANGED <<size, file, goal, header, resp, cursor, left>>
      /\ kept' = IF goal = "save" THEN held ELSE <<>>
      /\ stage' = IF whole \/ (goal = "save" /\ Len(held) = size /\ size > 0)
                  THEN "done" ELSE "idle"
  BY DEF Over, HeldWith
<1>2. /\ size \in 0 .. MaxSize /\ Len(arrived) \in Nat /\ Len(kept) \in Nat
      /\ goal \in {"save", "look"}
      /\ resp.span = Span(header, size) /\ resp.length = ContentLength(resp.span, size)
  BY DEF IInv, TypeOK, AnswerOK
<1>3. CASE goal = "save"
  <2>1. /\ held \in Seq(0 .. MaxSize) /\ Run(held, 0) /\ Len(held) <= size
        /\ Len(held) = Len(kept) + Len(arrived) /\ resp.span.first = Len(kept)
    BY <1>3, HeldIsRun
  <2>2. whole => Len(held) = size
    <3>1. SUFFICES ASSUME whole PROVE Len(held) = size
      OBVIOUS
    <3>2. CASE size = 0
      BY <1>2, <2>1, <3>2
    <3>3. CASE size > 0
      <4>1. resp.span = Span(RestOf(Len(kept)), size) /\ Len(kept) < size
        BY <1>3, <3>3 DEF IInv, KeptOK, AnswerOK, Pending
      <4>2. resp.span.last = size - 1
        BY <1>2, <3>3, <4>1, RestIsSent DEF Larger
      <4> QED
        BY <1>2, <2>1, <3>1, <3>3, <4>2 DEF ContentLength
    <3> QED
      BY <1>2, <3>2, <3>3
  <2> HIDE DEF held
  <2>3. TypeOK'
    BY <1>1, <1>3, <2>1 DEF IInv, TypeOK
  <2>4. KeptOK'
    <3>1. kept' = held /\ size' = size /\ goal' = "save" /\ stage' \in {"idle", "done"}
      BY <1>1, <1>3
    <3>2. Len(held) \in Nat /\ size \in Nat
      BY <1>2, <2>1, DeliveryAssumption
    <3>3. stage' = "idle" => Len(held) < size \/ size = 0
      BY <1>1, <1>3, <2>1, <3>2
    <3>4. stage' = "done" => Len(held) = size
      BY <1>1, <2>2
    <3> QED
      BY <2>1, <3>1, <3>3, <3>4 DEF KeptOK, Pending, Run
  <2>5. AnswerOK'
    BY <1>1, <1>3 DEF AnswerOK
  <2> QED
    BY <2>3, <2>4, <2>5 DEF IInv
<1>4. CASE goal = "look"
  <2> HIDE DEF held
  <2>1. kept' = <<>> /\ stage' = IF whole THEN "done" ELSE "idle"
    BY <1>1, <1>4
  <2>2. TypeOK'
    BY <1>1, <1>4, <2>1 DEF IInv, TypeOK
  <2>3. KeptOK'
    BY <1>1, <1>2, <1>4, <2>1 DEF KeptOK, Pending, Run
  <2>4. AnswerOK'
    BY <1>1, <1>2, <1>4, <2>1 DEF AnswerOK, Run
  <2> QED
    BY <2>2, <2>3, <2>4 DEF IInv
<1> QED
  BY <1>2, <1>3, <1>4

-----------------------------------------------------------------------------
(* The steps *)

LEMMA InitIInv == Init => IInv
<1> SUFFICES ASSUME Init PROVE IInv
  OBVIOUS
<1> USE DeliveryAssumption DEF Init
<1>1. NoResponse \in Responses
  BY DEF NoResponse, Responses, Whole, Spans, Larger
<1>2. NoRange \in Headers
  BY DEF NoRange, Headers, Blank
<1>3. TypeOK
  BY <1>1, <1>2 DEF TypeOK
<1>4. KeptOK /\ AnswerOK
  BY DEF KeptOK, AnswerOK, Run, Pending
<1> QED
  BY <1>3, <1>4 DEF IInv

LEMMA AskPreserves ==
    ASSUME IInv, AskForRest \/ AskForAny
    PROVE  IInv'
<1> USE DEF IInv, TypeOK, KeptOK, Request, fileVars, serverVars
<1>1. Len(kept) \in Nat /\ size \in 0 .. MaxSize
  OBVIOUS
<1>2. CASE AskForRest
  <2>1. header' = RestOf(Len(kept)) /\ RestOf(Len(kept)) \in Headers
    <3>1. header' = RestOf(Len(kept))
      BY <1>2, EmptySeq DEF AskForRest, RestOf
    <3>2. RestOf(Len(kept)) \in Headers
      BY <1>1, DeliveryAssumption DEF RestOf, Headers, NoRange, Blank
    <3> QED
      BY <3>1, <3>2
  <2> QED
    BY <1>2, <2>1 DEF AskForRest, AnswerOK, Pending
<1>3. CASE AskForAny
  BY <1>3 DEF AskForAny, AnswerOK, Pending
<1> QED
  BY <1>2, <1>3

LEMMA RespondPreserves ==
    ASSUME IInv, Respond
    PROVE  IInv'
<1> USE DEF fileVars
<1> DEFINE s == Span(header, size)
<1>1. header \in Headers /\ size \in 0 .. MaxSize
  BY DEF IInv, TypeOK
<1>2. s \in Spans /\ s.first \in Int /\ s.last \in Int
  BY <1>1, SpanFacts
<1> HIDE DEF s
<1>3. resp' = [span |-> s, length |-> ContentLength(s, size)]
  BY DEF Respond, s
<1>4. resp' \in Responses
  BY <1>2, <1>3 DEF Responses, ContentLength
<1>5. TypeOK'
  BY <1>4 DEF Respond, IInv, TypeOK
<1>6. KeptOK'
  BY DEF Respond, IInv, KeptOK, Pending
<1>7. AnswerOK'
  BY <1>3 DEF Respond, IInv, AnswerOK, Run, s
<1> QED
  BY <1>5, <1>6, <1>7 DEF IInv

LEMMA OpenPreserves ==
    ASSUME IInv, Open
    PROVE  IInv'
<1> USE DEF fileVars
<1>1. header \in Headers /\ size \in 0 .. MaxSize /\ resp \in Responses /\ body = <<>>
      /\ resp.span = Span(header, size)
  BY DEF Open, IInv, TypeOK, AnswerOK
<1>2. resp.span.first \in 0 .. size /\ resp.span.last \in Int
  BY <1>1, SpanFacts
<1>3. TypeOK'
  <2>1. cursor' \in 0 .. MaxSize /\ left' \in Int
    BY <1>1, <1>2, DeliveryAssumption DEF Open
  <2> QED
    BY <2>1 DEF Open, IInv, TypeOK
<1>4. KeptOK'
  BY DEF Open, IInv, KeptOK, Pending
<1>5. AnswerOK'
  BY <1>1, <1>2 DEF Open, IInv, AnswerOK, Total, Run
<1> QED
  BY <1>3, <1>4, <1>5 DEF IInv

\* Where a response in progress stands.
LEMMA Sending ==
    ASSUME IInv, stage = "sending"
    PROVE  /\ header \in Headers /\ size \in 0 .. MaxSize
           /\ resp.span = Span(header, size) /\ resp.span.first \in 0 .. size
           /\ resp.span.last \in Int
           /\ body \in Seq(0 .. MaxSize) /\ Len(body) \in Nat
           /\ Run(body, resp.span.first)
           /\ cursor = resp.span.first + Len(body) /\ cursor <= size
           /\ left = Total - Len(body) /\ left \in Int
           /\ ChunkSize \in Int /\ ChunkSize <= left /\ cursor + ChunkSize <= size
<1>1. /\ header \in Headers /\ size \in 0 .. MaxSize
      /\ resp.span = Span(header, size) /\ body \in Seq(0 .. MaxSize) /\ Len(body) \in Nat
      /\ Run(body, resp.span.first) /\ left \in Int
      /\ cursor = resp.span.first + Len(body) /\ cursor <= size
      /\ left = Total - Len(body)
  BY DEF IInv, TypeOK, AnswerOK
<1>2. resp.span.first \in 0 .. size /\ resp.span.last \in Int
  BY <1>1, SpanFacts
<1>3. ChunkSize \in Int /\ ChunkSize <= left /\ cursor + ChunkSize <= size
  BY <1>1, <1>2, DeliveryAssumption DEF ChunkSize, Smaller
<1> QED
  BY <1>1, <1>2, <1>3

LEMMA SentRunGrows ==
    ASSUME IInv, stage = "sending", NEW n \in Nat, cursor + n <= size
    PROVE  LET t == body \o Bytes(cursor, n)
           IN t \in Seq(0 .. MaxSize) /\ Run(t, resp.span.first) /\ Len(t) = Len(body) + n
<1> DEFINE a == resp.span.first
<1>1. /\ a \in Nat /\ body \in Seq(0 .. MaxSize) /\ Run(body, a) /\ Len(body) \in Nat
      /\ cursor = a + Len(body) /\ size \in 0 .. MaxSize
  BY Sending
<1> HIDE DEF a
<1>2. a + Len(body) + n <= MaxSize
  BY <1>1, DeliveryAssumption
<1>3. LET t == body \o Bytes(a + Len(body), n)
      IN t \in Seq(0 .. MaxSize) /\ Run(t, a) /\ Len(t) = Len(body) + n
  BY <1>1, <1>2, RunGrows
<1> QED
  BY <1>1, <1>3 DEF a

LEMMA ReadChunkPreserves ==
    ASSUME IInv, ReadChunk
    PROVE  IInv'
<1> USE DEF fileVars
<1> DEFINE n == ChunkSize
           t == body \o Bytes(cursor, n)
<1>1. stage = "sending" /\ n > 0 /\ left > 0
  BY DEF ReadChunk
<1>2. /\ n \in Nat /\ n <= left /\ cursor + n <= size /\ cursor \in Nat
      /\ size \in 0 .. MaxSize /\ left \in Int /\ left = Total - Len(body)
      /\ resp.span.first \in 0 .. size /\ resp.span.last \in Int /\ Len(body) \in Nat
      /\ cursor = resp.span.first + Len(body)
  BY <1>1, Sending
<1>3. t \in Seq(0 .. MaxSize) /\ Run(t, resp.span.first) /\ Len(t) = Len(body) + n
  BY <1>1, <1>2, SentRunGrows
<1> HIDE DEF n, t
<1>4. /\ body' = t /\ cursor' = cursor + n /\ left' = left - n
      /\ UNCHANGED <<fileVars, stage, header, resp, kept, breaks>>
  BY DEF ReadChunk, n, t
<1>5. TypeOK'
  <2>1. cursor + n \in 0 .. MaxSize /\ left - n \in Int
    <3>1. n \in Nat /\ cursor \in Nat /\ left \in Int /\ size \in 0 .. MaxSize
      BY <1>2
    <3>2. cursor + n <= size
      BY <1>2
    <3> QED
      BY <3>1, <3>2, DeliveryAssumption
  <2>2. cursor' \in 0 .. MaxSize
    BY <1>4, <2>1
  <2>3. left' \in Int
    BY <1>4, <2>1
  <2>4. body' \in Seq(0 .. MaxSize)
    BY <1>3, <1>4
  <2> QED
    BY <1>4, <2>2, <2>3, <2>4 DEF IInv, TypeOK
<1>6. KeptOK'
  BY <1>4 DEF IInv, KeptOK, Pending
<1>7. AnswerOK'
  <2>1. /\ cursor' = resp.span.first + Len(body') /\ cursor' <= size
        /\ left' = Total - Len(body') /\ left' >= 0
    <3>1. Len(body') = Len(body) + n /\ Total \in Int
      <4>1. Len(body') = Len(body) + n
        BY <1>3, <1>4
      <4>2. Total \in Int
        BY <1>2 DEF Total
      <4> QED
        BY <4>1, <4>2
    <3>2. cursor + n = resp.span.first + (Len(body) + n) /\ cursor + n <= size
      BY <1>2
    <3>3. left - n = Total - (Len(body) + n) /\ left - n >= 0
      BY <1>2, <3>1
    <3> QED
      BY <1>4, <3>1, <3>2, <3>3
  <2>2. Run(body', resp.span.first) /\ Total' = Total
    BY <1>3, <1>4 DEF Total
  <2> QED
    BY <1>1, <1>4, <2>1, <2>2 DEF IInv, AnswerOK
<1> QED
  BY <1>5, <1>6, <1>7 DEF IInv

\* A response that ends with what has arrived.
LEMMA EndPreserves ==
    ASSUME IInv, stage \in {"headers", "sending"}, NEW whole \in BOOLEAN,
           whole => Len(body) = resp.length,
           Over(body, whole), UNCHANGED fileVars, breaks' \in 0 .. MaxBreaks
    PROVE  IInv'
<1>1. /\ header \in Headers /\ size \in 0 .. MaxSize /\ body \in Seq(0 .. MaxSize)
      /\ resp.span = Span(header, size) /\ Run(body, resp.span.first)
      /\ stage = "headers" => body = <<>>
  BY DEF IInv, TypeOK, AnswerOK
<1>2. resp.span.first \in 0 .. size
  BY <1>1, SpanFacts
<1>3. resp.span.first + Len(body) <= size
  BY <1>1, <1>2, Sending
<1> QED
  BY <1>1, <1>3, OverPreserves

LEMMA BreakPreserves ==
    ASSUME IInv, Break
    PROVE  IInv'
<1>1. breaks' \in 0 .. MaxBreaks /\ UNCHANGED fileVars
  BY DeliveryAssumption DEF Break, IInv, TypeOK
<1>2. CASE BreakBefore
  BY <1>1, <1>2 DEF BreakBefore, IInv, TypeOK, KeptOK, AnswerOK, Pending, fileVars, serverVars
<1>3. CASE stage = "headers" /\ Over(body, FALSE)
  BY <1>1, <1>3, EndPreserves
<1>4. ASSUME stage = "sending", NEW n \in 0 .. Larger(ChunkSize, 0),
             Over(body \o Bytes(cursor, n), FALSE)
      PROVE  IInv'
  <2>1. n \in Nat /\ cursor + n <= size
    BY <1>4, Sending DEF Larger
  <2>2. /\ body \o Bytes(cursor, n) \in Seq(0 .. MaxSize)
        /\ Run(body \o Bytes(cursor, n), resp.span.first)
        /\ Len(body \o Bytes(cursor, n)) = Len(body) + n
    BY <1>4, <2>1, SentRunGrows
  <2>3. resp.span.first + Len(body \o Bytes(cursor, n)) <= size
    BY <1>4, <2>1, <2>2, Sending
  <2> QED
    BY <1>1, <1>4, <2>2, <2>3, OverPreserves
<1> QED
  BY <1>2, <1>3, <1>4 DEF Break, BreakWithin

LEMMA NextPreserves == IInv /\ [Next]_vars => IInv'
<1> SUFFICES ASSUME IInv, [Next]_vars PROVE IInv'
  OBVIOUS
<1> USE DEF fileVars, serverVars
<1>1. CASE UNCHANGED vars
  BY <1>1 DEF vars, IInv, TypeOK, KeptOK, AnswerOK, Pending, Run, Total
<1>2. CASE NotFound
  BY <1>2 DEF NotFound, IInv, TypeOK, KeptOK, AnswerOK, Pending, Run
<1>3. CASE ReadFails
  BY <1>3, EndPreserves DEF ReadFails, IInv, TypeOK
<1>4. CASE ReadNothing
  BY <1>4, EndPreserves DEF ReadNothing, IInv, TypeOK
<1>5. CASE Finish
  BY <1>5, EndPreserves DEF Finish, IInv, TypeOK
<1>6. CASE Age
  BY <1>6 DEF Age, IInv, TypeOK, KeptOK, AnswerOK, Pending, Run, Total
<1>7. CASE Terminating
  BY <1>1, <1>7 DEF Terminating
<1> QED
  BY <1>1, <1>2, <1>3, <1>4, <1>5, <1>6, <1>7, AskPreserves, RespondPreserves,
     OpenPreserves, ReadChunkPreserves, BreakPreserves DEF Next, Serve

-----------------------------------------------------------------------------
(* The theorems *)

\* What a response has sent and where its reader stands, and what a client
\* holds, at every step and break.
THEOREM DeliveryInvariant == Spec => []IInv
BY InitIInv, NextPreserves, PTL DEF Spec

\* Every variable keeps its type; the reader stays within the file.
THEOREM TypeCorrect == Spec => []TypeOK
<1>1. IInv => TypeOK
  BY DEF IInv
<1> QED
  BY <1>1, DeliveryInvariant, PTL

\* What a client saved over any number of broken transfers is the beginning
\* of the artifact, and all of it when it stops.
THEOREM SavedIsWhatWasStored == Spec => []SavedIsTheArtifact
<1>1. IInv => SavedIsTheArtifact
  <2> SUFFICES ASSUME IInv, goal = "save"
               PROVE  Run(Held, 0) /\ (stage = "done" => Len(kept) = size)
    BY DEF SavedIsTheArtifact, Run
  <2>1. CASE stage \in {"headers", "sending"}
    <3>1. /\ header \in Headers /\ size \in 0 .. MaxSize /\ body \in Seq(0 .. MaxSize)
          /\ resp.span = Span(header, size) /\ Run(body, resp.span.first)
          /\ stage = "headers" => body = <<>>
      BY <2>1 DEF IInv, TypeOK, AnswerOK
    <3>2. resp.span.first \in 0 .. size
      BY <3>1, SpanFacts
    <3>3. resp.span.first + Len(body) <= size
      BY <2>1, <3>1, <3>2, Sending
    <3>4. Run(HeldWith(body), 0)
      BY <2>1, <3>1, <3>3, HeldIsRun
    <3> QED
      BY <2>1, <3>4 DEF Held, HeldWith
  <2>2. CASE stage \notin {"headers", "sending"}
    BY <2>2 DEF Held, IInv, KeptOK
  <2> QED
    BY <2>1, <2>2
<1> QED
  BY <1>1, DeliveryInvariant, PTL

\* The Content-Length of an answer is the number of bytes that follow, whatever
\* the Range, unless that ends before it begins: then the code breaks its word.
THEOREM LengthIsHonest == Spec => []HonestLength
<1>1. IInv => HonestLength
  <2> SUFFICES ASSUME IInv, stage = "sending", ~Reversed
               PROVE  resp.length = Len(body) + Larger(Smaller(left, size - cursor), 0)
    BY DEF HonestLength
  <2>1. /\ header \in Headers /\ size \in 0 .. MaxSize /\ resp.span = Span(header, size)
        /\ resp.span.first \in 0 .. size /\ resp.span.last \in Int /\ Len(body) \in Nat
        /\ cursor = resp.span.first + Len(body) /\ cursor <= size
        /\ left = (resp.span.last - resp.span.first + 1) - Len(body)
    <3>1. /\ header \in Headers /\ size \in 0 .. MaxSize /\ resp.span = Span(header, size)
          /\ resp.span.first \in 0 .. size /\ resp.span.last \in Int /\ Len(body) \in Nat
          /\ cursor = resp.span.first + Len(body) /\ cursor <= size
      BY Sending
    <3>2. left = Total - Len(body)
      BY Sending
    <3>3. left = (resp.span.last - resp.span.first + 1) - Len(body)
      BY <3>2 DEF Total
    <3> QED
      BY <3>1, <3>3
  <2>2. /\ resp.length = ContentLength(resp.span, size)
        /\ left >= 0 \/ Len(body) = 0
    BY DEF IInv, AnswerOK
  <2>3. CASE size = 0
    <3>1. header \in Headers /\ 0 \in 0 .. MaxSize /\ resp.span = Span(header, 0)
      BY <2>1, <2>3
    <3>2. resp.span = Whole(0)
      BY <3>1, Zenon DEF Span
    <3>3. resp.span.last = 0 /\ resp.span.first = 0
      BY <3>2 DEF Whole, Larger
    <3>4. Len(body) = 0 /\ cursor = 0 /\ left = 1
      BY <2>1, <2>3, <3>3
    <3>5. resp.length = 0
      BY <2>2, <2>3 DEF ContentLength
    <3> QED
      BY <2>3, <3>4, <3>5 DEF Larger, Smaller
  <2>4. CASE size > 0
    <3>1. resp.span.first <= resp.span.last + 1 /\ resp.span.last <= size - 1
      <4>1. CASE resp.span.partial
        <5>1. header.first \in Int /\ header.last \in Int
          BY <2>1, DeliveryAssumption DEF Headers, Blank
        <5>2. header.first = Blank => header.last # Blank /\ header.last >= 0
          BY <2>1, <4>1, DeliveryAssumption DEF Headers, NoRange, Blank, Span, Whole
        <5> QED
          BY <2>1, <2>4, <4>1, <5>1, <5>2
          DEF Reversed, Span, Part, Whole, Blank, Smaller
      <4>2. CASE ~resp.span.partial
        BY <2>1, <2>4, <4>2, SpanFacts DEF Whole, Larger
      <4> QED
        BY <4>1, <4>2
    <3>2. left >= 0 /\ left <= size - cursor
      BY <2>1, <2>2, <3>1
    <3>3. resp.length = Len(body) + left
      BY <2>1, <2>2, <2>4 DEF ContentLength
    <3>4. left \in Int /\ size - cursor \in Int
      BY <2>1
    <3>5. Larger(Smaller(left, size - cursor), 0) = left
      BY <3>2, <3>4 DEF Larger, Smaller
    <3> QED
      BY <3>3, <3>5
  <2> QED
    BY <2>1, <2>3, <2>4
<1> QED
  BY <1>1, DeliveryInvariant, PTL

\* A looking client that is answered whole has the positions it asked for.
THEOREM RangesAreAnswered == Spec => []AnswersRange
<1>1. IInv => AnswersRange
  <2> SUFFICES ASSUME IInv, goal = "look", stage = "done", Satisfiable
               PROVE  /\ {body[i] : i \in 1 .. Len(body)} = Asked(header, size)
                      /\ \A i \in 1 .. Len(body) - 1 : body[i] < body[i + 1]
    BY DEF AnswersRange
  <2> DEFINE a == resp.span.first
             z == resp.span.last
  <2>1. /\ header \in Headers /\ size \in 0 .. MaxSize /\ resp.span = Span(header, size)
        /\ resp.length = ContentLength(resp.span, size) /\ Len(body) = resp.length
        /\ Run(body, a)
    BY DEF IInv, TypeOK, AnswerOK
  <2>2. size > 0 /\ a <= z /\ Asked(header, size) = a .. z
    BY <2>1, SpanIsAsked DEF Satisfiable
  <2>3. a \in Nat /\ z \in Int
    BY <2>1, SpanFacts
  <2>4. Len(body) = z - a + 1
    BY <2>1, <2>2 DEF ContentLength
  <2>5. \A i \in 1 .. z - a + 1 : body[i] = a + i - 1
    BY <2>1, <2>4 DEF Run
  <2> HIDE DEF a, z
  <2>6. {body[i] : i \in 1 .. z - a + 1} = a .. z
    <3>1. ASSUME NEW x \in a .. z
          PROVE  \E i \in 1 .. z - a + 1 : body[i] = x
      <4>1. x - a + 1 \in 1 .. z - a + 1 /\ a + (x - a + 1) - 1 = x
        BY <2>3
      <4> QED
        BY <2>5, <4>1
    <3>2. ASSUME NEW i \in 1 .. z - a + 1
          PROVE  body[i] \in a .. z
      BY <2>3, <2>5
    <3> QED
      BY <3>1, <3>2
  <2>7. \A i \in 1 .. z - a : body[i] < body[i + 1]
    BY <2>3, <2>5
  <2>8. Len(body) - 1 = z - a
    BY <2>3, <2>4
  <2> QED
    BY <2>2, <2>4, <2>6, <2>7, <2>8
<1> QED
  BY <1>1, DeliveryInvariant, PTL

\* How much a saving client has.
Has == Len(kept) + (IF stage \in {"headers", "sending"} THEN Len(body) ELSE 0)

LEMMA HeldLength == IInv /\ goal = "save" => Len(Held) = Has
<1> SUFFICES ASSUME IInv, goal = "save" PROVE Len(Held) = Has
  OBVIOUS
<1>1. CASE stage \in {"headers", "sending"}
  <2>1. /\ header \in Headers /\ size \in 0 .. MaxSize /\ body \in Seq(0 .. MaxSize)
        /\ resp.span = Span(header, size) /\ Run(body, resp.span.first)
        /\ stage = "headers" => body = <<>>
    BY <1>1 DEF IInv, TypeOK, AnswerOK
  <2>2. resp.span.first \in 0 .. size
    BY <2>1, SpanFacts
  <2>3. resp.span.first + Len(body) <= size
    BY <1>1, <2>1, <2>2, Sending
  <2>4. Len(HeldWith(body)) = Len(kept) + Len(body)
    BY <1>1, <2>1, <2>3, HeldIsRun
  <2> QED
    BY <1>1, <2>4 DEF Held, HeldWith, Has
<1>2. CASE stage \notin {"headers", "sending"}
  BY <1>2 DEF Held, Has, IInv, TypeOK
<1> QED
  BY <1>1, <1>2

\* A response that ends leaves what it brought.
LEMMA OverKeeps ==
    ASSUME IInv, goal = "save", stage \in {"headers", "sending"}, NEW whole,
           NEW arrived \in Seq(0 .. MaxSize), Run(arrived, resp.span.first),
           resp.span.first + Len(arrived) <= size, Len(arrived) >= Len(body),
           Over(arrived, whole)
    PROVE  Has' >= Has
<1>1. Len(HeldWith(arrived)) = Len(kept) + Len(arrived)
  BY HeldIsRun
<1>2. kept' = HeldWith(arrived) /\ stage' \in {"done", "idle"}
  BY DEF Over, HeldWith
<1>3. Len(kept) \in Nat /\ Len(body) \in Nat /\ Len(arrived) \in Nat
  BY DEF IInv, TypeOK
<1>4. Has = Len(kept) + Len(body)
  BY DEF Has
<1>5. Len(kept') \in Nat /\ Has' = Len(kept')
  BY <1>1, <1>2, <1>3 DEF Has
<1> QED
  BY <1>1, <1>2, <1>3, <1>4, <1>5

LEMMA EndKeeps ==
    ASSUME IInv, goal = "save", stage \in {"headers", "sending"}, NEW whole,
           Over(body, whole)
    PROVE  Has' >= Has
<1>1. /\ header \in Headers /\ size \in 0 .. MaxSize /\ body \in Seq(0 .. MaxSize)
      /\ resp.span = Span(header, size) /\ Run(body, resp.span.first)
      /\ stage = "headers" => body = <<>>
  BY DEF IInv, TypeOK, AnswerOK
<1>2. resp.span.first \in 0 .. size
  BY <1>1, SpanFacts
<1>3. resp.span.first + Len(body) <= size /\ Len(body) \in Nat
  BY <1>1, <1>2, Sending
<1> QED
  BY <1>1, <1>3, OverKeeps

LEMMA HasGrows ==
    ASSUME IInv, [Next]_vars, goal = "save"
    PROVE  Has' >= Has
<1> USE DEF fileVars, serverVars
<1>1. Len(kept) \in Nat /\ Len(body) \in Nat /\ Has \in Nat
  BY DEF Has, IInv, TypeOK
<1>2. CASE UNCHANGED vars \/ Terminating \/ Age
  BY <1>1, <1>2 DEF vars, Terminating, Age, Has
<1>3. CASE AskForRest \/ AskForAny
  BY <1>1, <1>3 DEF AskForRest, AskForAny, Request, Has
<1>4. CASE NotFound
  BY <1>1, <1>4 DEF NotFound, Has
<1>5. CASE Respond
  BY <1>1, <1>5 DEF Respond, Has
<1>6. CASE Open
  BY <1>1, <1>6 DEF Open, Has
<1>7. CASE ReadFails \/ ReadNothing \/ Finish
  BY <1>7, EndKeeps DEF ReadFails, ReadNothing, Finish
<1>8. CASE ReadChunk
  <2>1. stage = "sending" /\ ChunkSize > 0
    BY <1>8 DEF ReadChunk
  <2>2. ChunkSize \in Nat /\ cursor + ChunkSize <= size
    BY <2>1, Sending
  <2>3. Len(body \o Bytes(cursor, ChunkSize)) = Len(body) + ChunkSize
    BY <2>1, <2>2, SentRunGrows
  <2>4. Len(body') = Len(body) + ChunkSize /\ kept' = kept /\ stage' = stage
    BY <1>8, <2>3 DEF ReadChunk
  <2> QED
    BY <1>1, <2>1, <2>2, <2>4 DEF Has
<1>9. CASE Break
  <2>1. CASE BreakBefore
    BY <1>1, <2>1 DEF BreakBefore, Has
  <2>2. CASE stage = "headers" /\ Over(body, FALSE)
    BY <2>2, EndKeeps
  <2>3. ASSUME stage = "sending", NEW n \in 0 .. Larger(ChunkSize, 0),
               Over(body \o Bytes(cursor, n), FALSE)
        PROVE  Has' >= Has
    <3>1. n \in Nat /\ cursor + n <= size
      BY <2>3, Sending DEF Larger
    <3>2. /\ body \o Bytes(cursor, n) \in Seq(0 .. MaxSize)
          /\ Run(body \o Bytes(cursor, n), resp.span.first)
          /\ Len(body \o Bytes(cursor, n)) = Len(body) + n
      BY <2>3, <3>1, SentRunGrows
    <3>3. resp.span.first + Len(body \o Bytes(cursor, n)) <= size
      BY <2>3, <3>1, <3>2, Sending
    <3>4. Len(body \o Bytes(cursor, n)) >= Len(body)
      BY <1>1, <3>1, <3>2
    <3> QED
      BY <2>3, <3>2, <3>3, <3>4, OverKeeps
  <2> QED
    BY <1>9, <2>1, <2>2, <2>3 DEF Break, BreakWithin
<1> QED
  BY <1>2, <1>3, <1>4, <1>5, <1>6, <1>7, <1>8, <1>9 DEF Next, Serve

LEMMA GoalStays == [Next]_vars => goal' = goal
BY DEF Next, vars, fileVars, serverVars, AskForRest, AskForAny, Request, Serve, NotFound,
       Respond, Open, ReadFails, ReadChunk, ReadNothing, Finish, Break, Age, Terminating

\* Whatever breaks, a saving client never has less than before.
THEOREM TransfersGoOn == Spec => NeverStartsOver
<1>1. (IInv /\ goal = "save" => Len(Held) = Has)'
  BY HeldLength, PTL
<1>2. IInv /\ IInv' /\ [Next]_vars => [goal = "save" => Len(Held') >= Len(Held)]_vars
  BY <1>1, HeldLength, HasGrows, GoalStays
<1> QED
  BY <1>2, DeliveryInvariant, PTL DEF Spec, NeverStartsOver

-----------------------------------------------------------------------------
(* The promise *)

promised == <<size, copy, file = "live", end>>

\* A saving client's copy is the first Has bytes.
LEMMA CopyIs ==
    IInv /\ goal = "save" => Held = Promise!Beginning(Has) /\ Has \in 0 .. size
<1> SUFFICES ASSUME IInv, goal = "save"
             PROVE  Held = Promise!Beginning(Has) /\ Has \in 0 .. size
  OBVIOUS
<1>1. Held \in Seq(0 .. MaxSize) /\ Run(Held, 0) /\ Len(Held) <= size
  <2>1. CASE stage \in {"headers", "sending"}
    <3>1. /\ header \in Headers /\ size \in 0 .. MaxSize /\ body \in Seq(0 .. MaxSize)
          /\ resp.span = Span(header, size) /\ Run(body, resp.span.first)
          /\ stage = "headers" => body = <<>>
      BY <2>1 DEF IInv, TypeOK, AnswerOK
    <3>2. resp.span.first \in 0 .. size
      BY <3>1, SpanFacts
    <3>3. resp.span.first + Len(body) <= size
      BY <2>1, <3>1, <3>2, Sending
    <3> QED
      BY <2>1, <3>1, <3>3, HeldIsRun DEF Held, HeldWith
  <2>2. CASE stage \notin {"headers", "sending"}
    BY <2>2 DEF Held, IInv, TypeOK, KeptOK
  <2> QED
    BY <2>1, <2>2
<1>2. Len(Held) = Has
  BY HeldLength
<1>3. Held = [i \in 1 .. Len(Held) |-> i - 1]
  <2>1. Held = [i \in 1 .. Len(Held) |-> Held[i]]
    BY <1>1
  <2>2. \A i \in 1 .. Len(Held) : Held[i] = i - 1
    BY <1>1 DEF Run
  <2> QED
    BY <2>1, <2>2
<1>4. size \in Nat /\ Len(Held) \in Nat
  BY <1>1, DeliveryAssumption DEF IInv, TypeOK
<1> QED
  BY <1>1, <1>2, <1>3, <1>4 DEF Promise!Beginning

LEMMA CopyIsNext ==
    (IInv /\ goal = "save")' => (Held = Promise!Beginning(Has) /\ Has \in 0 .. size)'
BY CopyIs, PTL

LEMMA InitPromise == Init => Promise!Init
<1> SUFFICES ASSUME Init PROVE Promise!Init
  OBVIOUS
<1>1. copy = <<>> /\ end = "open"
  BY DEF Init, copy, Held, end
<1> QED
  BY <1>1 DEF Init, Promise!Init

\* A client that is done, or was turned away, asks no more.
LEMMA EndsForGood ==
    ASSUME IInv, [Next]_vars, goal = "save", stage \in {"done", "failed"}
    PROVE  UNCHANGED <<size, goal, stage, kept>>
<1> USE DEF fileVars, serverVars
<1>1. CASE Age \/ Terminating \/ UNCHANGED vars
  BY <1>1 DEF Age, Terminating, vars
<1> QED
  BY <1>1 DEF Next, AskForRest, AskForAny, Serve, NotFound, Respond, Open, ReadFails,
              ReadChunk, ReadNothing, Finish, Break, BreakBefore, BreakWithin

\* Only an artifact that is not kept any more turns a client away.
LEMMA TurnedAway ==
    ASSUME [Next]_vars, stage # "failed", stage' = "failed"
    PROVE  stage = "asked" /\ file # "live" /\ UNCHANGED <<fileVars, kept>>
<1> USE DEF fileVars, serverVars
<1>1. ASSUME NEW arrived, NEW whole, Over(arrived, whole)
      PROVE  stage' # "failed"
  BY <1>1 DEF Over
<1>2. ~Break
  BY <1>1 DEF Break, BreakBefore, BreakWithin
<1>3. ~(ReadFails \/ ReadNothing \/ Finish)
  BY <1>1 DEF ReadFails, ReadNothing, Finish
<1> QED
  BY <1>2, <1>3 DEF vars, Next, AskForRest, AskForAny, Request, Serve, NotFound, Respond,
                    Open, ReadChunk, Age, Terminating

\* An artifact does not come back, and ages in steps of its own.
LEMMA FileAges ==
    ASSUME [Next]_vars
    PROVE  /\ size' = size /\ goal' = goal
           /\ \/ file' = file
              \/ file = "live" /\ file' = "expired" /\ UNCHANGED <<stage, body, kept, resp>>
              \/ file # "live" /\ file' # "live"
<1> USE DEF fileVars, serverVars
<1>1. CASE Age
  BY <1>1 DEF Age
<1>2. CASE ~Age
  <2>1. UNCHANGED <<size, file, goal>>
    BY <1>2 DEF Next, vars, AskForRest, AskForAny, Request, Serve, NotFound, Respond, Open,
                ReadFails, ReadChunk, ReadNothing, Finish, Break, Terminating
  <2> QED
    BY <2>1
<1> QED
  BY <1>1, <1>2

LEMMA SaveKeeps ==
    ASSUME IInv, IInv', [Next]_vars, goal = "save"
    PROVE  [Promise!Next]_promised
<1>1. size' = size /\ goal' = "save" /\ size \in Nat
  BY FileAges, DeliveryAssumption DEF IInv, TypeOK
<1>2. /\ copy = Promise!Beginning(Has) /\ copy' = Promise!Beginning(Has') /\ Len(copy) = Has
      /\ Has \in 0 .. size /\ Has' \in 0 .. size /\ Has' >= Has
  <2>1. Held = Promise!Beginning(Has) /\ Has \in 0 .. size /\ Len(Held) = Has
    BY CopyIs, HeldLength
  <2>2. Held' = Promise!Beginning(Has') /\ Has' \in 0 .. size
    BY <1>1, CopyIsNext DEF Promise!Beginning
  <2>3. copy = Held /\ copy' = Held'
    BY <1>1 DEF copy
  <2> QED
    BY <2>1, <2>2, <2>3, HasGrows
<1>3. CASE stage \in {"done", "failed"}
  <2>1. UNCHANGED <<size, goal, stage, kept>>
    BY <1>3, EndsForGood
  <2>2. copy' = copy /\ end' = end
    BY <1>3, <2>1 DEF copy, Held, end
  <2>3. (file' = "live") = (file = "live") \/ (file' = "live") = FALSE
    BY FileAges
  <2> QED
    BY <1>1, <2>2, <2>3 DEF Promise!Next, Promise!Vanish, promised
<1>4. CASE stage \notin {"done", "failed"} /\ stage' = "failed"
  <2>1. stage = "asked" /\ file # "live" /\ file' = file /\ kept' = kept
    BY <1>4, TurnedAway DEF fileVars
  <2>2. copy' = copy /\ end = "open" /\ end' = "failed"
    BY <1>1, <1>4, <2>1 DEF copy, Held, end
  <2>3. Promise!Refuse
    BY <1>1, <2>1, <2>2 DEF Promise!Refuse
  <2> QED
    BY <2>3 DEF Promise!Next
<1>5. CASE stage \notin {"done", "failed"} /\ stage' # "failed"
  <2>1. end = "open" /\ end' = IF stage' = "done" THEN "done" ELSE "open"
    BY <1>1, <1>5 DEF end
  <2>2. stage' = "done" => Has' = size
    BY <1>1 DEF IInv, KeptOK, Has
  <2>3. CASE file' # file
    <3>1. CASE file = "live" /\ file' = "expired" /\ UNCHANGED <<stage, body, kept, resp>>
      <4>1. copy' = copy /\ end' = end
        BY <1>1, <3>1 DEF copy, Held, end
      <4> QED
        BY <1>1, <3>1, <4>1 DEF Promise!Next, Promise!Vanish
    <3>2. CASE file # "live" /\ file' # "live"
      <4>1. Promise!Receive(Has')
        BY <1>1, <1>2, <2>1, <2>2, <3>2 DEF Promise!Receive
      <4>2. Has' \in Len(copy) .. size
        BY <1>1, <1>2
      <4> QED
        BY <4>1, <4>2 DEF Promise!Next
    <3> QED
      BY <2>3, <3>1, <3>2, FileAges
  <2>4. CASE file' = file
    <3>1. Promise!Receive(Has')
      BY <1>1, <1>2, <2>1, <2>2, <2>4 DEF Promise!Receive
    <3>2. Has' \in Len(copy) .. size
      BY <1>1, <1>2
    <3> QED
      BY <3>1, <3>2 DEF Promise!Next
  <2> QED
    BY <2>3, <2>4
<1> QED
  BY <1>3, <1>4, <1>5

LEMMA StepKeepsPromise == IInv /\ IInv' /\ [Next]_vars => [Promise!Next]_promised
<1> SUFFICES ASSUME IInv, IInv', [Next]_vars PROVE [Promise!Next]_promised
  OBVIOUS
<1>1. CASE goal = "save"
  BY <1>1, SaveKeeps
<1>2. CASE goal # "save"
  <2>1. copy' = copy /\ end' = end /\ size' = size
    BY <1>2, FileAges DEF copy, end
  <2>2. (file' = "live") = (file = "live") \/ (file' = "live") = FALSE
    BY FileAges
  <2> QED
    BY <2>1, <2>2 DEF Promise!Next, Promise!Vanish, promised
<1> QED
  BY <1>1, <1>2

\* Ranges that resume, chunks, breaks and an ageing store together transfer
\* one artifact, once, from its first byte to its last.
THEOREM DownloadsKeepTheirPromise == Spec => DownloadKept
<1> QED
  BY InitPromise, StepKeepsPromise, NextPreserves, DeliveryInvariant, PTL
  DEF Spec, DownloadKept, Promise!Spec, promised

-----------------------------------------------------------------------------
(* How far a saving client is from the end *)

\* The steps that are still to be made without a break at most: a file that is
\* gone needs no more than a request that says so.
Remains ==
    IF stage \in {"done", "failed"} THEN 0
    ELSE IF stage = "sending" THEN Larger(left, 0) + 3
    ELSE IF stage = "headers" THEN size + 5
    ELSE IF stage = "asked"   THEN IF file = "gone" THEN 1 ELSE size + 6
    ELSE IF file = "gone" THEN 2 ELSE size + 7

RemainsCounted == goal = "save" => /\ Remains \in Nat
                                   /\ Remains = 0 <=> stage \in {"done", "failed"}

\* Only a break sets a saving client back, and there are no more than MaxBreaks
\* of them; every step of the server and of the client brings it nearer the end.
TransferRunsOut ==
    [][goal = "save" =>
          \/ breaks' > breaks
          \/ /\ Remains' <= Remains
             /\ Serve \/ AskForRest => Remains' < Remains]_vars

LEMMA RemainsType == IInv => RemainsCounted
<1> SUFFICES ASSUME IInv
             PROVE  Remains \in Nat /\ (Remains = 0 <=> stage \in {"done", "failed"})
  BY DEF RemainsCounted
<1>1. size \in Nat /\ left \in Int
  BY DeliveryAssumption DEF IInv, TypeOK
<1>2. Larger(left, 0) \in Nat
  BY <1>1 DEF Larger
<1> QED
  BY <1>1, <1>2 DEF Remains

\* While the file is there, the rest that was asked for is sent to its end.
LEMMA RestIsWhole ==
    ASSUME IInv, goal = "save", file # "gone", ReadNothing \/ Finish
    PROVE  Len(body) = resp.length
<1> DEFINE k == Len(kept)
<1>1. stage = "sending"
  BY DEF ReadNothing, Finish
<1>2. /\ size \in 0 .. MaxSize /\ k \in Nat /\ (k < size \/ (k = 0 /\ size = 0))
      /\ resp.span = Span(RestOf(k), size)
      /\ resp.length = ContentLength(resp.span, size)
  BY <1>1, DeliveryAssumption DEF IInv, TypeOK, KeptOK, AnswerOK, Pending
<1> HIDE DEF k
<1>3. resp.span.first = k /\ resp.span.last = Larger(size - 1, 0)
  BY <1>2, RestIsSent
<1>4. /\ Len(body) \in Nat /\ cursor = k + Len(body) /\ cursor <= size
      /\ left = Larger(size - 1, 0) - k + 1 - Len(body)
  BY <1>1, <1>3, Sending DEF Total
<1>5. CASE size = 0
  BY <1>2, <1>4, <1>5, DeliveryAssumption DEF ContentLength
<1>6. CASE size > 0
  <2>1. resp.length = size - k
    BY <1>2, <1>3, <1>6, DeliveryAssumption DEF ContentLength, Larger
  <2>2. left = size - cursor
    BY <1>2, <1>4, <1>6, DeliveryAssumption DEF Larger
  <2>3. left \in Int /\ (left > 0 => ~(ChunkSize <= 0))
    BY <1>2, <1>4, <2>2, DeliveryAssumption DEF ChunkSize, Smaller
  <2>4. ~(left > 0)
    BY <1>2, <1>4, <2>2, <2>3 DEF ReadNothing, Finish
  <2> QED
    BY <1>2, <1>4, <2>1, <2>2, <2>4
<1> QED
  BY <1>2, <1>5, <1>6

LEMMA StepRunsOut ==
    ASSUME IInv, [Next]_vars, goal = "save"
    PROVE  \/ breaks' > breaks
           \/ /\ Remains' <= Remains
              /\ Serve \/ AskForRest => Remains' < Remains
<1> USE DEF fileVars, serverVars
<1>1. size \in Nat /\ left \in Int /\ Larger(left, 0) \in Nat
  BY DeliveryAssumption DEF IInv, TypeOK, Larger
<1>2. Remains \in Nat
  BY RemainsType DEF RemainsCounted
<1>3. CASE AskForRest
  BY <1>1, <1>3 DEF AskForRest, Request, Remains
<1>4. CASE NotFound
  BY <1>1, <1>4 DEF NotFound, Remains
<1>5. CASE Respond
  BY <1>1, <1>5 DEF Respond, Remains
<1>6. CASE Open
  <2>1. /\ header \in Headers /\ size \in 0 .. MaxSize /\ resp.span = Span(header, size)
    BY <1>6 DEF Open, IInv, TypeOK, AnswerOK
  <2>2. /\ resp.span.first \in 0 .. size /\ resp.span.last \in Int
        /\ resp.span.last <= Larger(size - 1, 0)
    BY <2>1, SpanFacts
  <2>3. left' \in Int /\ left' <= size + 1
    BY <1>1, <1>6, <2>2 DEF Open, Larger
  <2>4. Larger(left', 0) \in Int /\ Larger(left', 0) <= size + 1
    BY <1>1, <2>3 DEF Larger
  <2>5. Remains = size + 5 /\ Remains' = Larger(left', 0) + 3
    BY <1>6 DEF Open, Remains
  <2> QED
    BY <1>1, <2>4, <2>5
<1>7. CASE ReadFails
  <2>1. stage' \in {"done", "idle"} /\ file' = "gone"
    BY <1>7 DEF ReadFails, Over
  <2>2. Remains' \in {0, 2} /\ Remains \in Nat /\ Remains >= 3
    BY <1>1, <1>7, <2>1 DEF ReadFails, Remains
  <2> QED
    BY <2>2
<1>8. CASE ReadChunk
  <2>1. stage = "sending" /\ ChunkSize \in Int /\ ChunkSize > 0 /\ ChunkSize <= left
    BY <1>8, Sending DEF ReadChunk
  <2>2. left' = left - ChunkSize /\ stage' = "sending"
    BY <1>8, <2>1 DEF ReadChunk
  <2>3. Larger(left', 0) \in Nat /\ Larger(left', 0) < Larger(left, 0)
    BY <1>1, <2>1, <2>2 DEF Larger
  <2> QED
    BY <1>1, <2>1, <2>2, <2>3 DEF Remains
<1>9. CASE ReadNothing \/ Finish
  <2>1. /\ stage = "sending" /\ file' = file
        /\ Over(body, Len(body) = resp.length)
    BY <1>9 DEF ReadNothing, Finish
  <2>2. stage' \in {"done", "idle"} /\ (file # "gone" => stage' = "done")
    BY <1>9, <2>1, RestIsWhole DEF Over
  <2>3. Remains' \in {0, 2}
    BY <2>1, <2>2 DEF Remains
  <2>4. Remains = Larger(left, 0) + 3
    BY <2>1 DEF Remains
  <2> QED
    BY <1>1, <2>3, <2>4
<1>10. CASE Break
  <2>1. breaks \in Nat /\ breaks' = breaks + 1
    BY <1>10, DeliveryAssumption DEF Break, IInv, TypeOK
  <2> QED
    BY <2>1
<1>11. CASE (Age \/ Terminating \/ UNCHANGED vars) /\ ~Serve /\ ~AskForRest
  BY <1>1, <1>2, <1>11 DEF Age, Terminating, vars, Remains
<1>12. ~AskForAny
  BY DEF AskForAny
<1> QED
  BY <1>3, <1>4, <1>5, <1>6, <1>7, <1>8, <1>9, <1>10, <1>11, <1>12, Zenon DEF Next, Serve

\* The half of DownloadEnds that needs no fairness, for any size, chunk and
\* number of breaks.
THEOREM DownloadsRunOut == Spec => []RemainsCounted /\ TransferRunsOut
<1>1. IInv /\ [Next]_vars =>
        (goal = "save" =>
            \/ breaks' > breaks
            \/ /\ Remains' <= Remains
               /\ Serve \/ AskForRest => Remains' < Remains)
  BY StepRunsOut
<1> QED
  BY <1>1, RemainsType, DeliveryInvariant, PTL DEF Spec, TransferRunsOut
=============================================================================
