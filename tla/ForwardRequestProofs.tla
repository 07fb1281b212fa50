------------------------ MODULE ForwardRequestProofs ------------------------
(***************************************************************************)
(* Proofs about one call of forward_request, for any number of addresses,  *)
(* any answers of the origin and any way they are cut.                     *)
(***************************************************************************)
EXTENDS ForwardRequest, HttpMessageProofs

(* The place of the call tells which socket is open, how the call has      *)
(* ended, and whether the origin can have answered.                        *)
CallInv ==
  /\ pc \in {"resolve", "connect", "send", "recv", "done"}
  /\ addresses \in Nat
  /\ open = IF pc \in {"send", "recv"} \/ result.how = "exception"
            THEN {addresses} ELSE {}
  /\ \E r : result = Result(result.how, r)
  /\ result.how \in Reason \cup {"none", "response", "exception"}
  /\ pc = "done" <=> result.how # "none"
  /\ pc \in {"resolve", "connect", "send"} => answer = NoAnswer
  /\ answer = NoAnswer => incoming = <<>>

LEMMA CallInvInit == Init => CallInv
<1> SUFFICES ASSUME Init PROVE CallInv
  OBVIOUS
<1>1. result = Result("none", <<>>) /\ result.how = "none"
  BY DEF Init, Result
<1> QED
  BY <1>1 DEF Init, CallInv

LEMMA CallInvStep == CallInv /\ [Next]_vars => CallInv'
<1> SUFFICES ASSUME CallInv, [Next]_vars PROVE CallInv'
  OBVIOUS
<1> USE DEF CallInv, Returns, Result, CloseSocket
<1>0. \A how, r : Result(how, r).how = how
  BY DEF Result
<1>1. CASE Resolve
  BY <1>1, AnswerAssumption DEF Resolve, Reason, AnswerAssumption
<1>2. CASE TryAddress
  BY <1>2 DEF TryAddress
<1>3. CASE OutOfAddresses
  BY <1>3 DEF OutOfAddresses, Reason
<1>4. CASE Send
  BY <1>4 DEF Send, Reason
<1>5. CASE Receive
  BY <1>5 DEF Receive, Reason
<1>6. CASE ReceiveNothing \/ ReceiveFails
  BY <1>6 DEF ReceiveNothing, ReceiveFails, Reason
<1>7. CASE OriginAnswers
  BY <1>7 DEF OriginAnswers, NoAnswer
<1>8. CASE OriginCloses
  BY <1>8 DEF OriginCloses
<1>9. CASE Returned \/ UNCHANGED vars
  BY <1>9 DEF Returned, vars
<1> QED
  BY <1>1, <1>2, <1>3, <1>4, <1>5, <1>6, <1>7, <1>8, <1>9 DEF Next, forward_request

(* The rest of the type invariant. *)
DataInv ==
  /\ addresses \in 0 .. MaxAddress
  /\ answer \in Answer \cup {NoAnswer}
  /\ incoming \in Seq(Pieces) /\ curr_message \in Seq(Pieces)
  /\ ended \in BOOLEAN

LEMMA DataInvInit == Init => DataInv
<1>1. <<>> \in Seq(Pieces)
  BY EmptySeq
<1>2. 0 \in 0 .. MaxAddress
  BY AnswerAssumption DEF AnswerAssumption
<1> QED
  BY <1>1, <1>2, Zenon DEF Init, DataInv

LEMMA DataInvStep == CallInv /\ DataInv /\ [Next]_vars => DataInv'
<1> SUFFICES ASSUME CallInv, DataInv, [Next]_vars PROVE DataInv'
  OBVIOUS
<1> USE DEF DataInv
<1>1. CASE Resolve
  BY <1>1, AnswerAssumption DEF Resolve, AnswerAssumption
<1>2. CASE TryAddress
  BY <1>2, AnswerAssumption DEF TryAddress, AnswerAssumption
<1>3. CASE OutOfAddresses \/ Send \/ ReceiveNothing \/ ReceiveFails
  BY <1>3 DEF OutOfAddresses, Send, ReceiveNothing, ReceiveFails
<1>4. CASE Receive
  <2>1. PICK n \in 1 .. Len(incoming) :
          /\ incoming' = SubSeq(incoming, n + 1, Len(incoming))
          /\ curr_message' = parse_response(curr_message \o SubSeq(incoming, 1, n)).rest
    BY <1>4 DEF Receive
  <2>2. UNCHANGED <<addresses, answer, ended>>
    BY <1>4 DEF Receive
  <2>3. n \in 0 .. Len(incoming)
    BY EmptySeq
  <2>4. /\ SubSeq(incoming, n + 1, Len(incoming)) \in Seq(Pieces)
        /\ SubSeq(incoming, 1, n) \in Seq(Pieces)
    BY <2>3, Cut
  <2>5. curr_message \o SubSeq(incoming, 1, n) \in Seq(Pieces)
    BY <2>4, ConcatProperties
  <2>6. curr_message' \in Seq(Pieces)
    BY <2>1, <2>5, ResponseIsCutOff
  <2> QED
    BY <2>1, <2>2, <2>4, <2>6
<1>5. CASE OriginAnswers
  BY <1>5, AnswerAssumption DEF OriginAnswers, AnswerAssumption
<1>6. CASE OriginCloses
  <2>1. PICK n \in 0 .. Len(incoming) : incoming' = SubSeq(incoming, 1, n)
    BY <1>6 DEF OriginCloses
  <2>2. incoming' \in Seq(Pieces)
    BY <2>1, Cut
  <2> QED
    BY <1>6, <2>2 DEF OriginCloses
<1>7. CASE Returned \/ UNCHANGED vars
  BY <1>7 DEF Returned, vars
<1> QED
  BY <1>1, <1>2, <1>3, <1>4, <1>5, <1>6, <1>7 DEF Next, forward_request

(* The socket that is open is the one of the address that is tried, it is  *)
(* closed on return unless an exception has left the function, and what    *)
(* the parser leaves to be looked at again is text that was received.      *)
THEOREM CallTypes == Spec => []TypeOK
<1>1. Init => CallInv /\ DataInv
  BY CallInvInit, DataInvInit
<1>2. CallInv /\ DataInv /\ [Next]_vars => CallInv' /\ DataInv'
  BY CallInvStep, DataInvStep
<1>3. CallInv /\ DataInv => TypeOK
  BY DEF CallInv, DataInv, TypeOK
<1> QED
  BY <1>1, <1>2, <1>3, PTL DEF Spec

-----------------------------------------------------------------------------
(* The response in a text, as HTTP and as the parser finds it.             *)

(* What can be counted of a text can be counted of a part of it.           *)
LEMMA CountablePart ==
  ASSUME NEW s \in Seq(Pieces), Countable(s),
         NEW a \in 1 .. Len(s) + 1, NEW b \in a - 1 .. Len(s)
  PROVE  Countable(SubSeq(s, a, b))
<1> DEFINE m == SubSeq(s, a, b)
<1>1. Len(s) \in Nat /\ DOMAIN s = 1 .. Len(s) /\ MaxInt \in Nat
  BY LenProperties, MaxIntAssumption
<1>2. Len(s) <= MaxInt /\ \A i \in 1 .. Len(s) : s[i].is \in {"length", "size"} => s[i].n <= MaxInt
  BY <1>1 DEF Countable
<1>3. /\ Len(m) = b - a + 1 /\ DOMAIN m = 1 .. b - a + 1
      /\ \A i \in 1 .. b - a + 1 : m[i] = s[a + i - 1]
  BY Part
<1> HIDE DEF m
<1>4. Len(m) <= MaxInt
  BY <1>1, <1>2, <1>3
<1>5. \A i \in DOMAIN m : a + i - 1 \in 1 .. Len(s) /\ m[i] = s[a + i - 1]
  BY <1>1, <1>3
<1>6. Countable(m)
  BY <1>2, <1>4, <1>5 DEF Countable
<1> QED
  BY <1>6 DEF m

(* Where nothing of a body has come the parser waits for it.               *)
LEMMA NoneOfTheBody ==
  ASSUME NEW m \in Seq(Pieces), Len(m) <= MaxInt, NEW start, start = Len(m) + 1,
         NEW n \in 0 .. MaxInt
  PROVE  LengthBody(m, start, n) \in {Incomplete, Complete(Len(m))}
<1>1. Len(m) \in Nat /\ MaxInt \in Nat /\ Word = 2 * (MaxInt + 1)
  BY LenProperties, MaxIntAssumption DEF Word
<1>2. start \in Nat /\ n \in Nat
  BY <1>1
<1> DEFINE e == start - 1 + n
<1>3. e \in Int /\ e = Len(m) + n
  BY <1>1
<1>4. LengthBody(m, start, n) =
        IF Overruns(m, e) THEN Overrun ELSE IF e > Len(m) THEN Incomplete ELSE Complete(e)
  BY <1>2, LengthBodyIs
<1> HIDE DEF e
<1>5. ~Overruns(m, e)
  BY <1>1, <1>3 DEF Overruns
<1>6. ~(e > Len(m)) => e = Len(m)
  BY <1>1, <1>3
<1> QED
  BY <1>4, <1>5, <1>6

(* A response is found in its text when it is the first thing there, and   *)
(* all of it is taken unless its end cannot be seen.  One without a header *)
(* line is refused; a 304 with a length is waited for in vain.             *)
LEMMA ResponseEndsWhereItDoes ==
  ASSUME NEW m \in Seq(Pieces), NEW z \in Seq(Pieces), IsResponse(m, z), Countable(m),
         Bodiless(m) /\ ~Unframed(m) => z = <<>>
  PROVE  LET k == Min(HeaderEnds(m))
             f == ResponseEnd(m \o z)
         IN  /\ m # <<>> /\ m[1].is = "status"
             /\ HeaderEnds(m) # {} /\ k + 1 \in 2 .. Len(m)
             /\ k = 1 => f = Malformed
             /\ k # 1 => f \in {Incomplete, Complete(IF Unframed(m) THEN k + 1 ELSE Len(m))}
<1>1. PICK k \in 1 .. Len(m) - 1 :
        /\ m[1].is = "status" /\ m[k + 1].is = "crlf"
        /\ HeadersOK(SubSeq(m, 2, k)) /\ "badage" \notin Kinds(SubSeq(m, 2, k))
        /\ \/ "chunked" \in Kinds(SubSeq(m, 2, k))
           \/ Kinds(SubSeq(m, 2, k)) \cap {"gzip", "badlength"} = {}
        /\ BodyEnds(m, SubSeq(m, 2, k), z)
  BY DEF IsResponse
<1> DEFINE h == HeaderLines(m)
           f == ResponseEnd(m)
           g == ResponseEnd(m \o z)
<1>2. /\ HeaderEnds(m) # {} /\ Min(HeaderEnds(m)) = k
      /\ h = SubSeq(m, 2, k) /\ Len(h) = k - 1 /\ h \in Seq(Pieces)
  BY <1>1, HeadOfMessage DEF StartLine
<1>3. /\ HeadersOK(h) /\ BodyEnds(m, h, z)
      /\ "chunked" \in Kinds(h) \/ Kinds(h) \cap {"gzip", "badlength"} = {}
  BY <1>1, <1>2
<1>4. Len(m) \in Nat /\ k \in Nat /\ k + 1 \in 2 .. Len(m) /\ m # <<>> /\ Len(h) + 3 = k + 2
  BY <1>2, LenProperties, EmptySeq
<1>5. /\ HeaderEnds(m \o z) # {} /\ HeaderLines(m \o z) = h
  BY <1>2, HeaderEndStays, HeaderLinesStay
<1>6. ASSUME k = 1 PROVE g = Malformed
  <2>1. h = <<>>
    BY <1>2, <1>6, EmptySeq
  <2> QED
    BY <1>5, <2>1 DEF ResponseEnd
<1>7. ASSUME k # 1
      PROVE  g \in {Incomplete, Complete(IF Unframed(m) THEN k + 1 ELSE Len(m))}
  <2>1. h # <<>>
    <3>1. Len(h) # 0
      BY <1>2, <1>4, <1>7
    <3> QED
      BY <3>1
  <2>2. f = Framing(m)
    BY <1>2, <1>3, <2>1 DEF ResponseEnd
  <2>3. Framing(m) =
          IF "chunked" \in Kinds(h) THEN ChunkedBody(m, Len(h) + 3)
          ELSE IF {"gzip", "badlength"} \cap Kinds(h) # {} THEN Malformed
          ELSE IF "length" \in Kinds(h)
               THEN LengthBody(m, Len(h) + 3, DeclaredLength(h))
               ELSE Complete(Len(h) + 3 - 1)
    BY <1>2, FramingIs
  <2> HIDE DEF h
  <2>4. \/ f = Complete(IF Unframed(m) THEN k + 1 ELSE Len(m))
        \/ f = Incomplete /\ z = <<>>
    <3>1. Unframed(m) <=> "chunked" \notin Kinds(h) /\ "length" \notin Kinds(h)
      BY DEF Unframed, h
    <3>2. CASE Unframed(m)
      <4>1. Framing(m) = Complete(Len(h) + 3 - 1)
        BY <1>3, <2>3, <3>1, <3>2
      <4>2. Len(h) + 3 - 1 = k + 1
        BY <1>4, <1>2
      <4> QED
        BY <2>2, <3>2, <4>1, <4>2
    <3>3. CASE ~Unframed(m) /\ ~Bodiless(m) /\ "chunked" \in Kinds(h)
      <4>1. ChunksFrom(m, k + 2)
        BY <1>3, <1>4, <3>3 DEF BodyEnds
      <4>2. k + 2 \in 1 .. Len(m)
        <5>1. \E starts \in SUBSET (k + 2 .. Len(m)) : k + 2 \in starts
          BY <4>1 DEF ChunksFrom
        <5> QED
          BY <1>4, <5>1
      <4>3. ChunkedBody(m, k + 2) = Complete(Len(m))
        BY <4>1, <4>2, ChunksAreTaken DEF Countable
      <4> QED
        BY <1>4, <2>2, <2>3, <3>3, <4>3
    <3>4. CASE ~Unframed(m) /\ ~Bodiless(m) /\ "chunked" \notin Kinds(h)
      <4>1. PICK i \in DOMAIN h : h[i].is = "length" /\ Len(m) = Len(h) + 3 - 1 + h[i].n
        BY <1>3, <3>1, <3>4 DEF BodyEnds
      <4>2. DeclaredLength(h) = h[i].n /\ h[i].n \in Nat
        <5>1. h[i].n \in Nat /\ (h[i].n <= MaxInt => DeclaredLength(h) = h[i].n)
          BY <1>2, <1>3, <4>1, LengthIs
        <5>2. Len(m) <= MaxInt /\ MaxInt \in Nat
          BY MaxIntAssumption DEF Countable
        <5>3. Len(m) = k + 1 + h[i].n
          BY <1>4, <4>1, <5>1
        <5> QED
          BY <1>4, <5>1, <5>2, <5>3
      <4>3. Framing(m) = LengthBody(m, Len(h) + 3, DeclaredLength(h))
        BY <1>3, <2>3, <3>1, <3>4
      <4>4. LengthBody(m, Len(h) + 3, DeclaredLength(h)) = Complete(Len(m))
        <5> DEFINE start == Len(h) + 3
                   n == DeclaredLength(h)
        <5>1. start \in Nat /\ n \in Nat /\ start - 1 + n = Len(m) /\ Len(m) <= MaxInt
          BY <1>4, <4>1, <4>2 DEF Countable
        <5> HIDE DEF start, n
        <5>2. LengthBody(m, start, n) = Complete(Len(m))
          BY <5>1, WholeLength
        <5> QED
          BY <5>2 DEF start, n
      <4> QED
        BY <2>2, <3>4, <4>3, <4>4
    <3>5. CASE ~Unframed(m) /\ Bodiless(m)
      <4>1. Len(m) = Len(h) + 3 - 1
        BY <1>3, <3>5 DEF BodyEnds
      <4>2. Len(m) + 1 = Len(h) + 3 /\ Len(h) + 3 \in 1 .. Len(m) + 1
        BY <1>4, <4>1
      <4>3. CASE "chunked" \in Kinds(h)
        <5>1. ~IsChunk(m, Len(m) + 1)
          <6>1. NextLine(m, Len(m) + 1) = 0
            BY <1>4, NextLineIs
          <6> QED
            BY <1>4, <6>1 DEF IsChunk, IsSize
        <5>2. NextLine(m, Len(m) + 1) = 0
          BY <1>4, NextLineIs
        <5>3. Len(m) + 1 \in 1 .. Len(m) + 1
          BY <1>4
        <5>4. ChunkedBody(m, Len(m) + 1) = Incomplete
          BY <5>1, <5>2, <5>3, ChunksRound, ChunksEndIs
        <5>5. ChunkedBody(m, Len(h) + 3) = Incomplete
          BY <4>2, <5>4
        <5>6. f = Incomplete
          BY <2>2, <2>3, <4>3, <5>5
        <5> QED
          BY <3>5, <5>6
      <4>4. CASE "chunked" \notin Kinds(h)
        <5>1. Framing(m) = LengthBody(m, Len(h) + 3, DeclaredLength(h))
          BY <1>3, <2>3, <3>1, <3>5, <4>4
        <5>2. DeclaredLength(h) \in 0 .. MaxInt
          <6>1. PICK i \in DOMAIN h : h[i].is = "length"
            BY <3>1, <3>5, <4>4 DEF Kinds
          <6>2. h[i].n \in Nat /\ (h[i].n <= MaxInt => DeclaredLength(h) = h[i].n)
            BY <1>2, <1>3, <6>1, LengthIs
          <6>3. Countable(h)
            <7>1. 2 \in 1 .. Len(m) + 1 /\ k \in 2 - 1 .. Len(m)
              BY <1>4
            <7> QED
              BY <1>2, <7>1, CountablePart
          <6>4. h[i].n <= MaxInt
            BY <6>1, <6>3 DEF Countable
          <6> QED
            BY <6>2, <6>4, MaxIntAssumption
        <5>3. LengthBody(m, Len(h) + 3, DeclaredLength(h)) \in {Incomplete, Complete(Len(m))}
          BY <1>4, <4>1, <5>2, NoneOfTheBody DEF Countable
        <5> QED
          BY <2>2, <3>5, <5>1, <5>3
      <4> QED
        BY <4>3, <4>4
    <3> QED
      BY <3>2, <3>3, <3>4, <3>5
  <2>5. CASE f = Incomplete
    <3>1. f # Complete(IF Unframed(m) THEN k + 1 ELSE Len(m))
      BY <2>5, OutcomesDiffer
    <3>2. m \o z = m
      BY <2>4, <2>5, <3>1, ConcatEmptySeq
    <3> QED
      BY <2>5, <3>2
  <2>6. CASE f # Incomplete
    <3>1. g = f
      BY <1>2, <2>6, ResponseEndStays
    <3> QED
      BY <2>4, <3>1
  <2> QED
    BY <2>5, <2>6
<1> QED
  BY <1>1, <1>2, <1>4, <1>6, <1>7

(* The beginning of a text is a response when the header section is in     *)
(* order and the body ends there.                                          *)
LEMMA ResponseUpTo ==
  ASSUME NEW s \in Seq(Pieces), s[1].is = "status", HeaderEnds(s) # {},
         NEW e \in Min(HeaderEnds(s)) + 1 .. Len(s),
         LET h == HeaderLines(s)
         IN  /\ HeadersOK(h) /\ "badage" \notin Kinds(h)
             /\ "chunked" \in Kinds(h) \/ Kinds(h) \cap {"gzip", "badlength"} = {}
             /\ BodyEnds(SubSeq(s, 1, e), h, SubSeq(s, e + 1, Len(s)))
  PROVE  IsResponse(SubSeq(s, 1, e), SubSeq(s, e + 1, Len(s)))
<1> DEFINE k == Min(HeaderEnds(s))
           m == SubSeq(s, 1, e)
           h == HeaderLines(s)
<1>1. k \in 1 .. Len(s) - 1 /\ k \in HeaderEnds(s) /\ Len(s) \in Nat
  BY HeaderEndIs, LenProperties
<1>2. s[k + 1].is = "crlf"
  BY <1>1 DEF HeaderEnds
<1>3. h = SubSeq(s, 2, k) /\ e \in k + 1 .. Len(s)
  BY DEF HeaderLines
<1> HIDE DEF k
<1>4. Len(m) = e /\ \A i \in 1 .. e : m[i] = s[i]
  <2>1. 1 \in 1 .. Len(s) + 1 /\ e \in 1 - 1 .. Len(s) /\ e - 1 + 1 = e
    BY <1>1, <1>3
  <2> QED
    BY <2>1, Part
<1>5. SubSeq(m, 2, k) = h
  <2>1. /\ 1 \in 1 .. Len(s) + 1 /\ e \in 1 - 1 .. Len(s)
        /\ 2 \in 1 .. e - 1 + 2 /\ k \in 2 - 1 .. e - 1 + 1
        /\ 1 + 2 - 1 = 2 /\ 1 + k - 1 = k
    BY <1>1, <1>3
  <2>2. SubSeq(SubSeq(s, 1, e), 2, k) = SubSeq(s, 1 + 2 - 1, 1 + k - 1)
    BY <2>1, PartOfPart
  <2> QED
    BY <1>3, <2>1, <2>2
<1>6. k \in 1 .. Len(m) - 1 /\ m[1].is = "status" /\ m[k + 1].is = "crlf"
  BY <1>1, <1>2, <1>3, <1>4
<1> QED
  <2> HIDE DEF m, h
  <2>1. /\ HeadersOK(h) /\ "badage" \notin Kinds(h)
        /\ "chunked" \in Kinds(h) \/ Kinds(h) \cap {"gzip", "badlength"} = {}
        /\ BodyEnds(m, h, SubSeq(s, e + 1, Len(s)))
    BY DEF m, h
  <2>2. IsResponse(m, SubSeq(s, e + 1, Len(s)))
    BY <1>5, <1>6, <2>1 DEF IsResponse
  <2> QED
    BY <2>2 DEF m

(* How the body of m can end. *)
LEMMA BodyIsEnded ==
  ASSUME NEW m, m # <<>>, NEW h, NEW z, NEW start, start = Len(h) + 3
  PROVE  /\ m[1].n = 304 /\ Len(m) = start - 1 => BodyEnds(m, h, z)
         /\ /\ m[1].n # 304 /\ "chunked" \in Kinds(h)
            /\ ChunksFrom(m, start) /\ "badage" \notin Kinds(m)
            => BodyEnds(m, h, z)
         /\ /\ m[1].n # 304 /\ "chunked" \notin Kinds(h) /\ "length" \in Kinds(h)
            /\ \E i \in DOMAIN h : h[i].is = "length" /\ Len(m) = start - 1 + h[i].n
            => BodyEnds(m, h, z)
         /\ m[1].n # 304 /\ {"chunked", "length"} \cap Kinds(h) = {} /\ z = <<>>
            => BodyEnds(m, h, z)
<1>1. CASE m[1].n = 304
  BY <1>1 DEF BodyEnds, Bodiless
<1>2. CASE m[1].n # 304 /\ "chunked" \in Kinds(h)
  BY <1>2 DEF BodyEnds, Bodiless
<1>3. CASE m[1].n # 304 /\ "chunked" \notin Kinds(h)
  BY <1>3 DEF BodyEnds, Bodiless
<1> QED
  BY <1>1, <1>2, <1>3

(* What is taken for a response is one, or its beginning. *)
LEMMA ResponseTakenIsOne ==
  ASSUME NEW s \in Seq(Pieces), s # <<>>, s[1].is = "status", Countable(s),
         ResponseEnd(s).outcome = "parsed",
         "badage" \notin Kinds(SubSeq(s, 1, ResponseEnd(s).at))
  PROVE  \E e \in 0 .. Len(s) : IsResponse(SubSeq(s, 1, e), SubSeq(s, e + 1, Len(s)))
<1> DEFINE h == HeaderLines(s)
           k == Min(HeaderEnds(s))
           f == ResponseEnd(s)
           start == Len(h) + 3
<1>1. /\ HeaderEnds(s) # {} /\ h # <<>> /\ HeadersOK(h) /\ f = Framing(s)
  BY OutcomesDiffer DEF ResponseEnd
<1>2. /\ Len(s) \in Nat /\ k \in 1 .. Len(s) - 1
      /\ Len(h) = k - 1 /\ start = k + 2 /\ h \in Seq(Pieces)
      /\ \A i \in 1 .. k - 1 : h[i] = s[i + 1]
  BY <1>1, HeaderEndIs, HeaderLinesAre, LenProperties
<1>3. f = Complete(f.at) /\ f.at \in k + 1 .. Len(s)
  <2>1. f \in Verdict(s, k + 1) /\ k + 1 \in Nat
    BY <1>1, <1>2, FramingVerdict
  <2> QED
    BY <2>1, VerdictIs
<1>4. f = IF "chunked" \in Kinds(h) THEN ChunkedBody(s, start)
          ELSE IF {"gzip", "badlength"} \cap Kinds(h) # {} THEN Malformed
          ELSE IF "length" \in Kinds(h) THEN LengthBody(s, start, DeclaredLength(h))
          ELSE Complete(start - 1)
  BY <1>1, FramingIs
<1> DEFINE at == f.at
<1>5. "badage" \notin Kinds(SubSeq(s, 1, at))
  OBVIOUS
<1>6. /\ Complete(at) # Malformed /\ Complete(at) # Incomplete
      /\ \A x : Complete(x) = Complete(at) => x = at
  BY OutcomesDiffer
<1>7. f = Complete(at) /\ at \in k + 1 .. Len(s)
  BY <1>3
<1>8. \A e \in k + 1 .. Len(s) :
        /\ SubSeq(s, 1, e) \in Seq(Pieces) /\ Len(SubSeq(s, 1, e)) = e
        /\ DOMAIN SubSeq(s, 1, e) = 1 .. e /\ \A i \in 1 .. e : SubSeq(s, 1, e)[i] = s[i]
        /\ SubSeq(s, 1, e) # <<>> /\ SubSeq(s, 1, e)[1] = s[1]
  <2> SUFFICES ASSUME NEW e \in k + 1 .. Len(s)
               PROVE  /\ SubSeq(s, 1, e) \in Seq(Pieces) /\ Len(SubSeq(s, 1, e)) = e
                      /\ DOMAIN SubSeq(s, 1, e) = 1 .. e
                      /\ \A i \in 1 .. e : SubSeq(s, 1, e)[i] = s[i]
                      /\ SubSeq(s, 1, e) # <<>> /\ SubSeq(s, 1, e)[1] = s[1]
    OBVIOUS
  <2>1. 1 \in 1 .. Len(s) + 1 /\ e \in 1 - 1 .. Len(s) /\ e - 1 + 1 = e /\ 1 \in 1 .. e
    BY <1>2
  <2> DEFINE m == SubSeq(s, 1, e)
  <2>2. /\ m \in Seq(Pieces) /\ Len(m) = e - 1 + 1 /\ DOMAIN m = 1 .. e - 1 + 1
        /\ \A i \in 1 .. e - 1 + 1 : m[i] = s[1 + i - 1]
    BY <2>1, Part
  <2> HIDE DEF m
  <2>3. \A i \in 1 .. e : m[i] = s[i]
    BY <2>1, <2>2
  <2>4. m # <<>>
    BY <2>1, <2>2, EmptySeq
  <2>5. /\ m \in Seq(Pieces) /\ Len(m) = e /\ DOMAIN m = 1 .. e
        /\ m # <<>> /\ m[1] = s[1]
    BY <2>1, <2>2, <2>3, <2>4
  <2> QED
    BY <2>3, <2>5 DEF m
<1> HIDE DEF at, f, h, k, start
<1>9. "badage" \notin Kinds(h)
  <2>1. SUFFICES ASSUME NEW i \in DOMAIN h, h[i].is = "badage" PROVE FALSE
    BY DEF Kinds
  <2>2. i \in 1 .. k - 1
    BY <1>2, LenProperties
  <2>3. i + 1 \in 1 .. at
    BY <1>2, <1>7, <2>2
  <2>4. s[i + 1].is = "badage"
    BY <1>2, <2>1, <2>2
  <2> QED
    BY <1>5, <1>7, <1>8, <2>3, <2>4 DEF Kinds
<1>10. "chunked" \in Kinds(h) \/ Kinds(h) \cap {"gzip", "badlength"} = {}
  BY <1>4, <1>6, <1>7
<1>11. ASSUME NEW e \in k + 1 .. Len(s), BodyEnds(SubSeq(s, 1, e), h, SubSeq(s, e + 1, Len(s)))
       PROVE  \E x \in 0 .. Len(s) : IsResponse(SubSeq(s, 1, x), SubSeq(s, x + 1, Len(s)))
  <2>1. IsResponse(SubSeq(s, 1, e), SubSeq(s, e + 1, Len(s)))
    BY <1>1, <1>9, <1>10, <1>11, ResponseUpTo DEF h, k
  <2>2. e \in 0 .. Len(s)
    BY <1>2
  <2> QED
    BY <2>1, <2>2
<1>12. start = Len(h) + 3
  BY DEF start
<1>13. CASE s[1].n = 304
  <2>1. k + 1 \in k + 1 .. Len(s) /\ k + 1 = start - 1
    BY <1>2
  <2>2. BodyEnds(SubSeq(s, 1, k + 1), h, SubSeq(s, k + 1 + 1, Len(s)))
    <3> DEFINE m == SubSeq(s, 1, k + 1)
    <3>1. m # <<>> /\ m[1].n = 304 /\ Len(m) = start - 1
      BY <1>8, <1>13, <2>1
    <3> HIDE DEF m
    <3>2. \A z : BodyEnds(m, h, z)
      BY <1>12, <3>1, BodyIsEnded
    <3> QED
      BY <3>2 DEF m
  <2> QED
    BY <1>11, <2>1, <2>2
<1>14. CASE s[1].n # 304 /\ "chunked" \in Kinds(h)
  <2>1. ChunkedBody(s, start) = Complete(at) /\ start \in 1 .. Len(s) + 1 /\ at \in Nat
    BY <1>2, <1>4, <1>7, <1>14
  <2>2. ChunksFrom(SubSeq(s, 1, at), start)
    <3>1. \A i \in 1 .. Len(s) : s[i].is = "size" => s[i].n <= MaxInt
      BY LenProperties DEF Countable
    <3> QED
      BY <1>7, <1>8, <2>1, <3>1, ChunksTakenAreSome
  <2>3. BodyEnds(SubSeq(s, 1, at), h, SubSeq(s, at + 1, Len(s)))
    <3> DEFINE m == SubSeq(s, 1, at)
    <3>1. m # <<>> /\ m[1].n # 304
      BY <1>7, <1>8, <1>14
    <3>2. ChunksFrom(m, start) /\ "badage" \notin Kinds(m)
      BY <1>5, <2>2
    <3> HIDE DEF m
    <3>3. \A z : BodyEnds(m, h, z)
      BY <1>14, <1>12, <3>1, <3>2, BodyIsEnded
    <3> QED
      BY <3>3 DEF m
  <2> QED
    BY <1>7, <1>11, <2>3
<1>15. CASE s[1].n # 304 /\ "chunked" \notin Kinds(h) /\ "length" \in Kinds(h)
  <2>1. PICK i \in DOMAIN h : h[i].is = "length"
    BY <1>15 DEF Kinds
  <2>2. DeclaredLength(h) = h[i].n /\ h[i].n \in Nat
    <3>1. h[i].n \in Nat /\ (h[i].n <= MaxInt => DeclaredLength(h) = h[i].n)
      BY <1>1, <1>2, <2>1, LengthIs
    <3>2. i + 1 \in 1 .. Len(s) /\ h[i] = s[i + 1]
      <4>1. i \in 1 .. k - 1
        BY <1>2, LenProperties
      <4> QED
        BY <1>2, <4>1
    <3>3. h[i].n <= MaxInt
      BY <2>1, <3>2, LenProperties DEF Countable
    <3> QED
      BY <3>1, <3>3
  <2>3. LengthBody(s, start, h[i].n) = Complete(at)
    BY <1>4, <1>6, <1>7, <1>15, <2>2
  <2>4. at = start - 1 + h[i].n
    <3> DEFINE n == h[i].n
               e == start - 1 + n
    <3>1. start \in Nat /\ n \in Nat /\ LengthBody(s, start, n) = Complete(at)
      BY <1>2, <2>2, <2>3
    <3>2. LengthBody(s, start, n) =
            IF Overruns(s, e) THEN Overrun ELSE IF e > Len(s) THEN Incomplete ELSE Complete(e)
      <4> HIDE DEF n
      <4> QED
        BY <3>1, LengthBodyIs
    <3> HIDE DEF n, e
    <3>3. Complete(at) # Overrun
      BY OutcomesDiffer
    <3>4. at = e
      BY <1>6, <3>1, <3>2, <3>3
    <3> QED
      BY <3>4 DEF n, e
  <2>5. BodyEnds(SubSeq(s, 1, at), h, SubSeq(s, at + 1, Len(s)))
    <3> DEFINE m == SubSeq(s, 1, at)
    <3>1. m # <<>> /\ m[1].n # 304 /\ Len(m) = start - 1 + h[i].n
      BY <1>7, <1>8, <1>15, <2>4
    <3> HIDE DEF m
    <3>2. \A z : BodyEnds(m, h, z)
      BY <1>15, <1>12, <2>1, <3>1, BodyIsEnded
    <3> QED
      BY <3>2 DEF m
  <2> QED
    BY <1>7, <1>11, <2>5
<1>16. CASE s[1].n # 304 /\ {"chunked", "length"} \cap Kinds(h) = {}
  <2>1. Len(s) \in k + 1 .. Len(s)
    BY <1>2
  <2>2. SubSeq(s, Len(s) + 1, Len(s)) = <<>>
    BY <1>2, SubSeqEmpty
  <2>3. BodyEnds(SubSeq(s, 1, Len(s)), h, SubSeq(s, Len(s) + 1, Len(s)))
    <3> DEFINE m == SubSeq(s, 1, Len(s))
    <3>1. m # <<>> /\ m[1].n # 304
      BY <1>8, <1>16, <2>1
    <3> HIDE DEF m
    <3>2. BodyEnds(m, h, <<>>)
      BY <1>16, <1>12, <3>1, BodyIsEnded
    <3> QED
      BY <2>2, <3>2 DEF m
  <2> QED
    BY <1>11, <2>1, <2>3
<1> QED
  BY <1>13, <1>14, <1>15, <1>16

(* What is parsed has a response in it, and no status line before that.    *)
LEMMA ParsedIsThere ==
  ASSUME NEW r \in Seq(Pieces), Countable(r), parse_response(r).outcome = "parsed"
  PROVE  \E i, e \in 0 .. Len(r) :
           "status" \notin Kinds(SubSeq(r, 1, i)) /\ ResponseAt(r, i, e)
<1> DEFINE s == From(r, {"status"})
           f == ResponseEnd(s)
<1>1. HeaderEnds(r) # {} /\ Kinds(r) \cap {"status"} # {}
  BY DEF parse_response
<1>2. parse_response(r) = ResponseOf(s, f)
  BY <1>1, ParseResponseIs
<1>3. PICK k \in 1 .. Len(r) :
        /\ s = SubSeq(r, k, Len(r)) /\ s \in Seq(Pieces) /\ Len(s) = Len(r) - k + 1
        /\ \A i \in 1 .. Len(r) - k + 1 : s[i] = r[k + i - 1]
        /\ r[k].is = "status"
        /\ \A i \in 1 .. k - 1 : r[i].is # "status"
  <2>1. \E k \in 1 .. Len(r) :
           /\ From(r, {"status"}) = SubSeq(r, k, Len(r))
           /\ From(r, {"status"}) \in Seq(Pieces)
           /\ Len(From(r, {"status"})) = Len(r) - k + 1
           /\ \A i \in 1 .. Len(r) - k + 1 : From(r, {"status"})[i] = r[k + i - 1]
           /\ r[k].is \in {"status"}
           /\ \A i \in 1 .. k - 1 : r[i].is \notin {"status"}
    BY <1>1, FromIs
  <2> QED
    BY <2>1
<1> HIDE DEF s, f
<1>4. Len(r) \in Nat
  BY LenProperties
<1>5. s # <<>> /\ s[1].is = "status"
  BY <1>3, <1>4, FromBegins, <1>1 DEF s
<1>6. f.outcome = "parsed" /\ "badage" \notin Kinds(SubSeq(s, 1, f.at))
  BY <1>2 DEF ResponseOf
<1>13. Countable(s)
  <2>1. k \in 1 .. Len(r) + 1 /\ Len(r) \in k - 1 .. Len(r)
    BY <1>3, <1>4
  <2> QED
    BY <1>3, <2>1, CountablePart
<1>7. PICK x \in 0 .. Len(s) : IsResponse(SubSeq(s, 1, x), SubSeq(s, x + 1, Len(s)))
  BY <1>3, <1>5, <1>6, <1>13, ResponseTakenIsOne DEF f
<1> DEFINE i == k - 1
           e == i + x
<1>8. i \in 0 .. Len(r) /\ e \in 0 .. Len(r)
  BY <1>3, <1>4
<1>9. SubSeq(s, 1, x) = SubSeq(r, i + 1, e)
  <2>1. /\ k \in 1 .. Len(r) + 1 /\ Len(r) \in k - 1 .. Len(r)
        /\ 1 \in 1 .. Len(r) - k + 2 /\ x \in 1 - 1 .. Len(r) - k + 1
        /\ k + 1 - 1 = i + 1 /\ k + x - 1 = e
    BY <1>3, <1>4
  <2>2. SubSeq(SubSeq(r, k, Len(r)), 1, x) = SubSeq(r, k + 1 - 1, k + x - 1)
    BY <2>1, PartOfPart
  <2> HIDE DEF i, e
  <2> QED
    BY <1>3, <2>1, <2>2
<1>10. SubSeq(s, x + 1, Len(s)) = SubSeq(r, e + 1, Len(r))
  <2> DEFINE y == x + 1
             l == Len(s)
  <2>1. /\ k \in 1 .. Len(r) + 1 /\ Len(r) \in k - 1 .. Len(r)
        /\ y \in 1 .. Len(r) - k + 2 /\ l \in y - 1 .. Len(r) - k + 1
        /\ k + y - 1 = e + 1 /\ k + l - 1 = Len(r)
    BY <1>3, <1>4
  <2> HIDE DEF y, l, i, e
  <2>2. SubSeq(SubSeq(r, k, Len(r)), y, l) = SubSeq(r, k + y - 1, k + l - 1)
    BY <2>1, PartOfPart
  <2>3. SubSeq(s, y, l) = SubSeq(r, e + 1, Len(r))
    BY <1>3, <2>1, <2>2
  <2> QED
    BY <2>3 DEF y, l
<1>11. "status" \notin Kinds(SubSeq(r, 1, i))
  <2>1. /\ 1 \in 1 .. Len(r) + 1 /\ i \in 1 - 1 .. Len(r)
        /\ i - 1 + 1 = i
    BY <1>8, <1>4
  <2>2. /\ DOMAIN SubSeq(r, 1, i) = 1 .. i - 1 + 1
        /\ \A j \in 1 .. i - 1 + 1 : SubSeq(r, 1, i)[j] = r[1 + j - 1]
    <3> HIDE DEF i
    <3> QED
      BY <2>1, Part
  <2>3. \A j \in 1 .. i : SubSeq(r, 1, i)[j].is # "status"
    BY <1>3, <2>1, <2>2
  <2> QED
    BY <2>1, <2>2, <2>3 DEF Kinds
<1> HIDE DEF i, e
<1>12. ResponseAt(r, i, e)
  BY <1>7, <1>9, <1>10 DEF ResponseAt
<1> QED
  BY <1>8, <1>11, <1>12

(* The text of an answer from its first response on. *)
LEMMA FirstResponse ==
  ASSUME NEW sent \in Seq(Pieces), NEW i \in 0 .. Len(sent), NEW e \in 0 .. Len(sent),
         ResponseAt(sent, i, e), Kinds(SubSeq(sent, 1, i)) \cap Line = {}
  PROVE  LET m == SubSeq(sent, i + 1, e)
             z == SubSeq(sent, e + 1, Len(sent))
             s == From(sent, {"status"})
         IN  /\ m \in Seq(Pieces) /\ z \in Seq(Pieces) /\ s = m \o z
             /\ IsResponse(m, z)
             /\ sent = SubSeq(sent, 1, i) \o s
             /\ i + 1 \in 1 .. Len(sent) /\ sent[i + 1].is = "status"
             /\ \A j \in 1 .. i : sent[j].is \notin Line
<1> DEFINE m == SubSeq(sent, i + 1, e)
           z == SubSeq(sent, e + 1, Len(sent))
           s == SubSeq(sent, i + 1, Len(sent))
<1>1. Len(sent) \in Nat /\ IsResponse(m, z)
  BY LenProperties DEF ResponseAt
<1>2. i + 1 \in 1 .. Len(sent) /\ e \in i + 1 .. Len(sent)
  <2>1. SUFFICES ASSUME e < i + 1 PROVE FALSE
    BY <1>1
  <2>2. m = <<>>
    BY <1>1, <2>1, SubSeqEmpty
  <2>3. Len(m) = 0
    BY <2>2
  <2> QED
    BY <1>1, <2>3 DEF IsResponse
<1>3. /\ m \in Seq(Pieces) /\ Len(m) = e - i
      /\ \A j \in 1 .. e - i : m[j] = sent[i + j]
  <2> DEFINE a == i + 1
  <2>1. a \in 1 .. Len(sent) + 1 /\ e \in a - 1 .. Len(sent) /\ e - a + 1 = e - i
        /\ \A j \in 1 .. e - i : a + j - 1 = i + j
    BY <1>1, <1>2
  <2> HIDE DEF a
  <2>2. /\ SubSeq(sent, a, e) \in Seq(Pieces) /\ Len(SubSeq(sent, a, e)) = e - a + 1
        /\ \A j \in 1 .. e - a + 1 : SubSeq(sent, a, e)[j] = sent[a + j - 1]
    BY <2>1, Part
  <2>3. m = SubSeq(sent, a, e)
    BY DEF a
  <2> QED
    BY <2>1, <2>2, <2>3
<1>4. sent[i + 1].is = "status"
  <2>1. m[1].is = "status" /\ 1 \in 1 .. e - i
    BY <1>1, <1>2 DEF IsResponse
  <2> QED
    BY <1>3, <2>1
<1>5. ASSUME NEW j \in 1 .. i PROVE sent[j].is \notin Line
  <2>1. /\ 1 \in 1 .. Len(sent) + 1 /\ i \in 1 - 1 .. Len(sent) /\ i - 1 + 1 = i
        /\ 1 + j - 1 = j
    BY <1>1
  <2>2. j \in DOMAIN SubSeq(sent, 1, i) /\ SubSeq(sent, 1, i)[j] = sent[j]
    BY <2>1, Part
  <2> QED
    BY <2>2 DEF Kinds
<1>6. From(sent, {"status"}) = s
  <2> DEFINE a == i + 1
  <2>1. a \in 1 .. Len(sent) /\ sent[a].is \in {"status"}
    BY <1>2, <1>4
  <2>2. \A j \in 1 .. a - 1 : sent[j].is \notin {"status"}
    <3>1. a - 1 = i /\ "status" \in Line
      BY <1>1 DEF Line, StartLine
    <3> QED
      BY <1>5, <3>1
  <2>3. From(sent, {"status"}) = SubSeq(sent, a, Len(sent))
    <3> HIDE DEF a
    <3> QED
      BY <2>1, <2>2, FromIsFrom
  <2> QED
    BY <2>3
<1>7. s \in Seq(Pieces) /\ sent = SubSeq(sent, 1, i) \o s
  BY Cut
<1>8. s = m \o z /\ z \in Seq(Pieces)
  <2> DEFINE a == i + 1
             d == e - i
  <2>1. /\ a \in 1 .. Len(sent) + 1 /\ Len(sent) \in a - 1 .. Len(sent)
        /\ 1 \in 1 .. Len(sent) - a + 2 /\ d \in 1 - 1 .. Len(sent) - a + 1
        /\ d + 1 \in 1 .. Len(sent) - a + 2
        /\ Len(sent) - a + 1 \in (d + 1) - 1 .. Len(sent) - a + 1
        /\ a + 1 - 1 = a /\ a + d - 1 = e /\ a + (d + 1) - 1 = e + 1
        /\ a + (Len(sent) - a + 1) - 1 = Len(sent)
    BY <1>1, <1>2
  <2> HIDE DEF a, d
  <2> DEFINE x == SubSeq(sent, a, Len(sent))
  <2>2. x \in Seq(Pieces) /\ Len(x) = Len(sent) - a + 1
    BY <2>1, Part
  <2>3. SubSeq(x, 1, d) = SubSeq(sent, a, e)
    <3>1. SubSeq(x, 1, d) = SubSeq(sent, a + 1 - 1, a + d - 1)
      BY <2>1, PartOfPart
    <3> HIDE DEF x
    <3> QED
      BY <2>1, <3>1
  <2>4. SubSeq(x, d + 1, Len(x)) = SubSeq(sent, e + 1, Len(sent))
    <3> DEFINE p == d + 1
               q == Len(sent) - a + 1
    <3>1. /\ p \in 1 .. Len(sent) - a + 2 /\ q \in p - 1 .. Len(sent) - a + 1
          /\ a + p - 1 = e + 1 /\ a + q - 1 = Len(sent)
      BY <2>1
    <3>2. SubSeq(x, p, q) = SubSeq(sent, a + p - 1, a + q - 1)
      <4> HIDE DEF p, q
      <4> QED
        BY <2>1, <3>1, PartOfPart
    <3>3. SubSeq(x, p, q) = SubSeq(sent, e + 1, Len(sent))
      <4> HIDE DEF p, q, x
      <4> QED
        BY <3>1, <3>2
    <3>4. q = Len(x)
      BY <2>2
    <3> HIDE DEF x, q
    <3> QED
      BY <3>3, <3>4
  <2>5. SubSeq(x, 1, d) \o SubSeq(x, d + 1, Len(x)) = x /\ SubSeq(x, d + 1, Len(x)) \in Seq(Pieces)
    <3>1. d \in 0 .. Len(x)
      BY <2>1, <2>2
    <3> HIDE DEF x
    <3> QED
      BY <2>2, <3>1, Cut
  <2>6. x = SubSeq(sent, a, e) \o z /\ z \in Seq(Pieces)
    BY <2>3, <2>4, <2>5
  <2> QED
    BY <2>6 DEF a
<1> QED
  BY <1>1, <1>2, <1>3, <1>4, <1>5, <1>6, <1>7, <1>8

-----------------------------------------------------------------------------
(* The verdict on what has been received, for the answers of an origin.    *)

Begins(r, sent) == \E t \in Seq(Pieces) : sent = r \o t

(* A status line that is the first line of the answer is found as soon as  *)
(* there is an empty line: what is malformed then is the response.         *)
LEMMA MalformedResponse ==
  ASSUME NEW sent \in Seq(Pieces), NEW r \in Seq(Pieces), Begins(r, sent),
         NEW i \in Nat, i + 1 \in 1 .. Len(sent), sent[i + 1].is = "status",
         \A j \in 1 .. i : sent[j].is \notin Line,
         parse_response(r).outcome = "malformed"
  PROVE  ResponseEnd(From(sent, {"status"})) = Malformed
<1> DEFINE s == From(r, {"status"})
           f == ResponseEnd(s)
<1>1. PICK t \in Seq(Pieces) : sent = r \o t
  BY DEF Begins
<1>2. /\ Len(r) \in Nat /\ Len(sent) \in Nat /\ Len(r) <= Len(sent)
      /\ DOMAIN r = 1 .. Len(r) /\ \A j \in 1 .. Len(r) : r[j] = sent[j]
  BY <1>1, ConcatProperties, LenProperties
<1>3. HeaderEnds(r) # {}
  BY DEF parse_response
<1>4. PICK x \in 1 .. Len(r) - 1 : r[x].is \in Line /\ r[x + 1].is = "crlf"
  BY <1>3 DEF HeaderEnds
<1>5. i + 1 \in 1 .. x
  <2>1. x \in 1 .. Len(r)
    BY <1>2, <1>4
  <2>2. ~(x \in 1 .. i)
    BY <1>2, <1>4, <2>1
  <2> QED
    BY <2>1, <2>2
<1>6. r[i + 1].is = "status" /\ i + 1 \in 1 .. Len(r)
  BY <1>2, <1>4, <1>5
<1>7. Kinds(r) \cap {"status"} # {}
  BY <1>2, <1>6 DEF Kinds
<1>8. PICK k \in 1 .. Len(r) :
        /\ s \in Seq(Pieces) /\ Len(s) = Len(r) - k + 1
        /\ \A j \in 1 .. Len(r) - k + 1 : s[j] = r[k + j - 1]
        /\ \A j \in 1 .. k - 1 : r[j].is # "status"
  <2>1. \E k \in 1 .. Len(r) :
           /\ From(r, {"status"}) = SubSeq(r, k, Len(r))
           /\ From(r, {"status"}) \in Seq(Pieces)
           /\ Len(From(r, {"status"})) = Len(r) - k + 1
           /\ \A j \in 1 .. Len(r) - k + 1 : From(r, {"status"})[j] = r[k + j - 1]
           /\ r[k].is \in {"status"}
           /\ \A j \in 1 .. k - 1 : r[j].is \notin {"status"}
    BY <1>7, FromIs
  <2> QED
    BY <2>1
<1>9. parse_response(r) = ResponseOf(s, f)
  BY <1>3, <1>7, ParseResponseIs
<1>10. From(sent, {"status"}) = s \o t
  BY <1>1, <1>7, FromStays
<1> HIDE DEF s, f
<1>11. HeaderEnds(s) # {}
  <2> DEFINE y == x - k + 1
  <2>1. k <= x
    BY <1>5, <1>6, <1>8
  <2>2. /\ y \in 1 .. Len(s) - 1 /\ y \in 1 .. Len(r) - k + 1 /\ y + 1 \in 1 .. Len(r) - k + 1
        /\ k + y - 1 = x /\ k + (y + 1) - 1 = x + 1
    BY <1>2, <1>4, <1>8, <2>1
  <2> HIDE DEF y
  <2>3. s[y] = r[x] /\ s[y + 1] = r[x + 1]
    BY <1>8, <2>2
  <2> QED
    BY <1>4, <2>2, <2>3 DEF HeaderEnds
<1>12. f \in Verdict(s, 2)
  BY <1>8, ResponseEndVerdict DEF f
<1>13. f.outcome = "malformed"
  BY <1>9 DEF ResponseOf
<1>14. f = Malformed
  BY <1>8, <1>12, <1>13, VerdictIs
<1>15. ResponseEnd(s \o t) = f
  <2>1. f # Incomplete
    BY <1>14, OutcomesDiffer
  <2> QED
    BY <1>8, <1>11, <2>1, ResponseEndStays DEF f
<1> QED
  BY <1>10, <1>14, <1>15

(* An answer with a response in it, from there on. *)
LEMMA AnswerWithResponse ==
  ASSUME NEW a \in Answer, Countable(a.sent),
         NEW i \in 0 .. Len(a.sent), NEW e \in 0 .. Len(a.sent),
         a.message = SubSeq(a.sent, i + 1, e), ResponseAt(a.sent, i, e),
         Kinds(SubSeq(a.sent, 1, i)) \cap Line = {},
         Bodiless(a.message) /\ ~Unframed(a.message) => e = Len(a.sent)
  PROVE  \E z \in Seq(Pieces) :
           LET m == a.message
               k == Min(HeaderEnds(m))
               f == ResponseEnd(m \o z)
           IN  /\ From(a.sent, {"status"}) = m \o z
               /\ Kinds(a.sent) \cap {"status"} # {}
               /\ m \in Seq(Pieces) /\ m # <<>>
               /\ i + 1 \in 1 .. Len(a.sent) /\ a.sent[i + 1].is = "status"
               /\ \A j \in 1 .. i : a.sent[j].is \notin Line
               /\ k + 1 \in 2 .. Len(m)
               /\ k = 1 => f = Malformed
               /\ k # 1 => f \in {Incomplete, Complete(IF Unframed(m) THEN k + 1 ELSE Len(m))}
<1>1. a.sent \in Seq(Pieces)
  BY AnswerAssumption DEF AnswerAssumption
<1> DEFINE sent == a.sent
           m == SubSeq(sent, i + 1, e)
           z == SubSeq(sent, e + 1, Len(sent))
<1>2. /\ m \in Seq(Pieces) /\ z \in Seq(Pieces) /\ From(sent, {"status"}) = m \o z
      /\ IsResponse(m, z)
      /\ i + 1 \in 1 .. Len(sent) /\ sent[i + 1].is = "status"
      /\ \A j \in 1 .. i : sent[j].is \notin Line
  BY <1>1, FirstResponse
<1>3. Bodiless(m) /\ ~Unframed(m) => z = <<>>
  <2>1. e = Len(sent) => z = <<>>
    <3>1. Len(sent) \in Nat
      BY <1>1, LenProperties
    <3> QED
      BY <3>1, SubSeqEmpty
  <2> QED
    BY <2>1
<1>4. Kinds(sent) \cap {"status"} # {}
  <2>1. i + 1 \in DOMAIN sent
    BY <1>1, <1>2, LenProperties
  <2> QED
    BY <1>2, <2>1 DEF Kinds
<1>5. a.message = m
  OBVIOUS
<1>7. Countable(m)
  <2> DEFINE b == i + 1
  <2>1. Len(sent) \in Nat /\ b \in 1 .. Len(sent) + 1 /\ b - 1 = i
    BY <1>1, LenProperties
  <2>2. CASE e < b - 1
    <3>1. m = <<>>
      BY <2>1, <2>2, SubSeqEmpty
    <3> QED
      BY <3>1, MaxIntAssumption DEF Countable
  <2>3. CASE ~(e < b - 1)
    <3>1. e \in b - 1 .. Len(sent)
      BY <2>1, <2>3
    <3> HIDE DEF b
    <3>2. Countable(SubSeq(sent, b, e))
      BY <1>1, <2>1, <3>1, CountablePart
    <3> QED
      BY <3>2 DEF b
  <2> QED
    BY <2>2, <2>3
<1> HIDE DEF m, z
<1>6. LET k == Min(HeaderEnds(m))
          f == ResponseEnd(m \o z)
      IN  /\ m # <<>> /\ m[1].is = "status"
          /\ HeaderEnds(m) # {} /\ k + 1 \in 2 .. Len(m)
          /\ k = 1 => f = Malformed
          /\ k # 1 => f \in {Incomplete, Complete(IF Unframed(m) THEN k + 1 ELSE Len(m))}
  BY <1>2, <1>3, <1>7, ResponseEndsWhereItDoes
<1> QED
  BY <1>2, <1>4, <1>5, <1>6

(* What is parsed of an answer is the response that is in it. *)
LEMMA ParsedOfAnswer ==
  ASSUME NEW a \in Answer, Countable(a.sent), NEW r \in Seq(Pieces), Begins(r, a.sent),
         parse_response(r).outcome = "parsed"
  PROVE  /\ a.message \in Seq(Pieces) /\ a.message # <<>>
         /\ \/ /\ ~Unframed(a.message)
               /\ parse_response(r).response = a.message
            \/ /\ Unframed(a.message)
               /\ \E k \in 1 .. Len(a.message) :
                    parse_response(r).response = SubSeq(a.message, 1, k)
<1>1. a.sent \in Seq(Pieces) /\ Delimited(a)
  BY AnswerAssumption DEF AnswerAssumption
<1>2. /\ parse_response(a.sent).outcome = "parsed"
      /\ parse_response(a.sent).response = parse_response(r).response
  <2>1. PICK t \in Seq(Pieces) : a.sent = r \o t
    BY DEF Begins
  <2> QED
    BY <2>1, ResponseStays
<1>3. PICK x \in 0 .. Len(a.sent), y \in 0 .. Len(a.sent) :
        "status" \notin Kinds(SubSeq(a.sent, 1, x)) /\ ResponseAt(a.sent, x, y)
  BY <1>1, <1>2, ParsedIsThere
<1>4. PICK i \in 0 .. Len(a.sent), e \in 0 .. Len(a.sent) :
        /\ a.message = SubSeq(a.sent, i + 1, e) /\ ResponseAt(a.sent, i, e)
        /\ Kinds(SubSeq(a.sent, 1, i)) \cap Line = {}
        /\ Bodiless(a.message) /\ ~Unframed(a.message) => e = Len(a.sent)
  BY <1>1, <1>3 DEF Delimited
<1> DEFINE m == a.message
           k == Min(HeaderEnds(m))
<1>5. PICK z \in Seq(Pieces) :
        /\ From(a.sent, {"status"}) = m \o z
        /\ Kinds(a.sent) \cap {"status"} # {}
        /\ m \in Seq(Pieces) /\ m # <<>>
        /\ k + 1 \in 2 .. Len(m)
        /\ k = 1 => ResponseEnd(m \o z) = Malformed
        /\ k # 1 =>
             ResponseEnd(m \o z) \in {Incomplete, Complete(IF Unframed(m) THEN k + 1 ELSE Len(m))}
  BY <1>4, AnswerWithResponse
<1> DEFINE s == m \o z
           f == ResponseEnd(s)
<1>6. HeaderEnds(a.sent) # {}
  BY <1>2 DEF parse_response
<1>7. parse_response(a.sent) = ResponseOf(s, f)
  BY <1>5, <1>6, ParseResponseIs
<1> HIDE DEF f, s
<1>8. f.outcome = "parsed" /\ parse_response(a.sent).response = SubSeq(s, 1, f.at)
  <2> DEFINE p == parse_response(a.sent)
  <2>1. p.outcome = "parsed" /\ p = ResponseOf(s, f)
    BY <1>2, <1>7
  <2> HIDE DEF p
  <2>2. f.outcome = "parsed" /\ p.response = SubSeq(s, 1, f.at)
    BY <2>1 DEF ResponseOf
  <2> QED
    BY <2>2 DEF p
<1>9. f # Malformed /\ f # Incomplete
  BY <1>8, OutcomesDiffer
<1>10. f = Complete(IF Unframed(m) THEN k + 1 ELSE Len(m))
  BY <1>5, <1>9 DEF f, s
<1> HIDE DEF m, k
<1>11. Len(m) \in Nat
  BY <1>5, LenProperties
<1>12. CASE Unframed(m)
  <2>1. f.at = k + 1 /\ k + 1 \in 0 .. Len(m) /\ k + 1 \in 1 .. Len(m)
    BY <1>5, <1>10, <1>11, <1>12, OutcomesDiffer
  <2>2. SubSeq(s, 1, f.at) = SubSeq(m, 1, f.at)
    BY <1>5, <2>1, CutOfMore DEF s
  <2> QED
    BY <1>2, <1>5, <1>8, <1>12, <2>1, <2>2 DEF m
<1>13. CASE ~Unframed(m)
  <2>1. f.at = Len(m)
    BY <1>10, <1>13, OutcomesDiffer
  <2>2. SubSeq(s, 1, f.at) = m
    BY <1>5, <2>1, Halves DEF s
  <2> QED
    BY <1>2, <1>5, <1>8, <1>13, <2>2 DEF m
<1> QED
  BY <1>12, <1>13

(* An answer with a response in it is malformed only if that has no header *)
(* line.                                                                   *)
LEMMA MalformedOfAnswer ==
  ASSUME NEW a \in Answer, Countable(a.sent), NEW r \in Seq(Pieces), Begins(r, a.sent),
         parse_response(r).outcome = "malformed", a.message # <<>>
  PROVE  Len(HeadOf(a.message)) = 2
<1>1. a.sent \in Seq(Pieces) /\ Delimited(a)
  BY AnswerAssumption DEF AnswerAssumption
<1>2. PICK i \in 0 .. Len(a.sent), e \in 0 .. Len(a.sent) :
        /\ a.message = SubSeq(a.sent, i + 1, e) /\ ResponseAt(a.sent, i, e)
        /\ Kinds(SubSeq(a.sent, 1, i)) \cap Line = {}
        /\ Bodiless(a.message) /\ ~Unframed(a.message) => e = Len(a.sent)
  BY <1>1 DEF Delimited
<1> DEFINE m == a.message
           k == Min(HeaderEnds(m))
<1>3. PICK z \in Seq(Pieces) :
        /\ From(a.sent, {"status"}) = m \o z
        /\ m \in Seq(Pieces)
        /\ i + 1 \in 1 .. Len(a.sent) /\ a.sent[i + 1].is = "status"
        /\ \A j \in 1 .. i : a.sent[j].is \notin Line
        /\ k + 1 \in 2 .. Len(m)
        /\ k # 1 =>
             ResponseEnd(m \o z) \in {Incomplete, Complete(IF Unframed(m) THEN k + 1 ELSE Len(m))}
  BY <1>2, AnswerWithResponse
<1>4. i \in Nat
  BY <1>1, LenProperties
<1>5. ResponseEnd(From(a.sent, {"status"})) = Malformed
  BY <1>1, <1>3, <1>4, MalformedResponse
<1>6. k = 1
  <2>1. ResponseEnd(m \o z) = Malformed
    BY <1>3, <1>5
  <2> QED
    BY <1>3, <2>1, OutcomesDiffer
<1>7. HeadOf(m) = SubSeq(m, 1, 2)
  BY <1>6 DEF HeadOf
<1> HIDE DEF m, k
<1>8. 2 \in 0 .. Len(m)
  BY <1>3, <1>6, LenProperties
<1>9. Len(SubSeq(m, 1, 2)) = 2
  BY <1>3, <1>8, Cut
<1> QED
  BY <1>7, <1>9 DEF m

(* The string that is kept between two calls of recv stands for all that   *)
(* has been received: with more after it, it parses alike.                 *)
ParsesAs(c, r) == \A x \in Seq(Pieces) : parse_response(c \o x) = parse_response(r \o x)

(* The origin sends r, next, and what it may still keep to itself. *)
ConsistsOf(sent, r, next) == \E t \in Seq(Pieces) : sent = r \o (next \o t)

Verdicts == {"response", "malformed"}

HeardInv ==
  /\ pc \in {"resolve", "connect", "send"} => curr_message = <<>>
  /\ pc = "recv" => \E r \in Seq(Pieces) :
                      ConsistsOf(answer.sent, r, incoming) /\ ParsesAs(curr_message, r)
  /\ pc = "done" /\ result.how \in Verdicts =>
       \E r \in Seq(Pieces) :
         /\ Begins(r, answer.sent)
         /\ result.how = "response" =>
              parse_response(r).outcome = "parsed" /\ result.response = parse_response(r).response
         /\ result.how = "malformed" => parse_response(r).outcome = "malformed"

(* One more segment. *)
LEMMA MoreIsHeard ==
  ASSUME NEW sent, NEW r \in Seq(Pieces), NEW next \in Seq(Pieces), ConsistsOf(sent, r, next),
         NEW n \in 0 .. Len(next)
  PROVE  LET a == SubSeq(next, 1, n)
             b == SubSeq(next, n + 1, Len(next))
         IN  /\ ConsistsOf(sent, r \o a, b) /\ ConsistsOf(sent, r, a)
             /\ Begins(r \o a, sent)
             /\ a \in Seq(Pieces) /\ b \in Seq(Pieces) /\ r \o a \in Seq(Pieces)
<1> DEFINE a == SubSeq(next, 1, n)
           b == SubSeq(next, n + 1, Len(next))
           c == r \o a
<1>1. a \in Seq(Pieces) /\ b \in Seq(Pieces) /\ a \o b = next
  BY Cut
<1>2. PICK t \in Seq(Pieces) : sent = r \o (next \o t)
  BY DEF ConsistsOf
<1> HIDE DEF a, b
<1> DEFINE d == b \o t
<1>3. d \in Seq(Pieces) /\ c \in Seq(Pieces) /\ t \in Seq(Pieces)
  BY <1>1, <1>2, ConcatProperties
<1> HIDE DEF c, d
<1>4. next \o t = a \o d
  <2>1. next = a \o b
    BY <1>1
  <2>2. a \in Seq(Pieces) /\ b \in Seq(Pieces) /\ t \in Seq(Pieces)
    BY <1>1, <1>3
  <2>3. next \o t = a \o (b \o t)
    BY <2>1, <2>2, Regroup
  <2> QED
    BY <2>3 DEF d
<1>5. c \o d = r \o (a \o d)
  <2>1. c = r \o a
    BY DEF c
  <2>2. Join(Join(r, a), d) = Join(r, Join(a, d))
    BY <1>1, <1>3, JoinAssociates
  <2> QED
    BY <2>1, <2>2 DEF Join
<1>6. sent = c \o d
  BY <1>2, <1>4, <1>5
<1>7. ConsistsOf(sent, c, b)
  BY <1>6 DEF ConsistsOf, d
<1>8. ConsistsOf(sent, r, a)
  BY <1>2, <1>3, <1>4 DEF ConsistsOf
<1>9. Begins(c, sent)
  BY <1>3, <1>6 DEF Begins
<1> QED
  BY <1>1, <1>3, <1>7, <1>8, <1>9 DEF a, b, c

LEMMA HeardInvInit == Init => HeardInv
BY DEF Init, HeardInv, Result, Verdicts

LEMMA NoVerdict ==
  ASSUME NEW how \in (Reason \ Verdicts) \cup {"exception"}, Returns(how, <<>>)
  PROVE  HeardInv'
<1>1. pc' = "done" /\ result'.how = how /\ how \notin Verdicts
  BY DEF Returns, Result, Verdicts
<1> QED
  BY <1>1 DEF HeardInv

LEMMA HeardInvStep == CallInv /\ DataInv /\ HeardInv /\ [Next]_vars => HeardInv'
<1> SUFFICES ASSUME CallInv, DataInv, HeardInv, [Next]_vars PROVE HeardInv'
  OBVIOUS
<1>1. CASE Resolve
  <2>1. CASE Returns("resolve", <<>>)
    BY <2>1, NoVerdict DEF Reason, Verdicts
  <2>2. CASE pc' = "connect"
    <3>1. curr_message' = <<>>
      BY <1>1 DEF Resolve, HeardInv
    <3> QED
      BY <2>2, <3>1 DEF HeardInv
  <2> QED
    BY <1>1, <2>1, <2>2 DEF Resolve
<1>2. CASE TryAddress
  <2>1. pc' \in {"connect", "send"} /\ curr_message' = <<>>
    BY <1>2 DEF TryAddress, HeardInv
  <2> QED
    BY <2>1 DEF HeardInv
<1>3. CASE OutOfAddresses
  BY <1>3, NoVerdict DEF OutOfAddresses, Reason, Verdicts
<1>4. CASE Send
  <2>1. CASE pc' = "recv"
    <3>1. /\ curr_message' = <<>> /\ answer' = NoAnswer /\ incoming' = <<>>
      BY <1>4 DEF Send, HeardInv, CallInv
    <3>2. /\ <<>> \in Seq(Pieces) /\ NoAnswer.sent = <<>>
          /\ <<>> = <<>> \o (<<>> \o <<>>)
      BY EmptySeq, ConcatEmptySeq DEF NoAnswer
    <3>3. ConsistsOf(<<>>, <<>>, <<>>) /\ ParsesAs(<<>>, <<>>)
      BY <3>2 DEF ConsistsOf, ParsesAs
    <3> QED
      BY <2>1, <3>1, <3>2, <3>3 DEF HeardInv
  <2>2. CASE Returns("send", <<>>)
    BY <2>2, NoVerdict DEF Reason, Verdicts
  <2> QED
    BY <1>4, <2>1, <2>2 DEF Send
<1>5. CASE Receive
  <2>1. PICK n \in 1 .. Len(incoming) :
          \E p \in {parse_response(curr_message \o SubSeq(incoming, 1, n))} :
            /\ incoming' = SubSeq(incoming, n + 1, Len(incoming))
            /\ curr_message' = p.rest
            /\ \/ p.outcome = "incomplete" /\ UNCHANGED <<pc, open, result>>
               \/ p.outcome = "malformed" /\ Returns("malformed", <<>>) /\ CloseSocket
               \/ p.outcome = "parsed" /\ Returns("response", p.response) /\ CloseSocket
               \/ p.outcome = "throws" /\ Returns("exception", <<>>) /\ UNCHANGED open
    BY <1>5 DEF Receive
  <2> DEFINE a == SubSeq(incoming, 1, n)
             b == SubSeq(incoming, n + 1, Len(incoming))
  <2>2. PICK r \in Seq(Pieces) :
          ConsistsOf(answer.sent, r, incoming) /\ ParsesAs(curr_message, r)
    BY <1>5 DEF Receive, HeardInv
  <2>3. n \in 0 .. Len(incoming) /\ incoming \in Seq(Pieces)
    BY DEF DataInv
  <2>4. /\ ConsistsOf(answer.sent, r \o a, b) /\ Begins(r \o a, answer.sent)
        /\ a \in Seq(Pieces) /\ r \o a \in Seq(Pieces)
    BY <2>2, <2>3, MoreIsHeard
  <2> DEFINE c == r \o a
             p == parse_response(c)
  <2>5. parse_response(curr_message \o a) = p
    BY <2>2, <2>4 DEF ParsesAs
  <2>6. /\ incoming' = b /\ curr_message' = p.rest /\ answer' = answer
        /\ \/ p.outcome = "incomplete" /\ pc' = pc
           \/ p.outcome = "malformed" /\ Returns("malformed", <<>>)
           \/ p.outcome = "parsed" /\ Returns("response", p.response)
           \/ p.outcome = "throws" /\ Returns("exception", <<>>)
    BY <1>5, <2>1, <2>5 DEF Receive
  <2>7. pc = "recv"
    BY <1>5 DEF Receive
  <2> HIDE DEF a, b, c
  <2>8. CASE p.outcome = "incomplete"
    <3>1. ParsesAs(p.rest, c)
      BY <2>4, <2>8, ResponseWaits DEF ParsesAs, c
    <3>2. pc' = "recv"
      BY <2>6, <2>7, <2>8
    <3> HIDE DEF p
    <3>3. answer'.sent = answer.sent /\ ConsistsOf(answer.sent, c, b) /\ c \in Seq(Pieces)
      BY <2>4, <2>6 DEF c
    <3> QED
      BY <2>6, <3>1, <3>2, <3>3 DEF HeardInv
  <2>9. CASE p.outcome = "malformed"
    <3>1. Returns("malformed", <<>>)
      BY <2>6, <2>9
    <3>2. pc' = "done" /\ result'.how = "malformed"
      BY <3>1 DEF Returns, Result
    <3>3. answer'.sent = answer.sent /\ Begins(c, answer.sent) /\ c \in Seq(Pieces)
      BY <2>4, <2>6 DEF c
    <3> QED
      BY <2>9, <3>2, <3>3 DEF HeardInv
  <2>10. CASE p.outcome = "parsed"
    <3>1. Returns("response", p.response)
      BY <2>6, <2>10
    <3>2. pc' = "done" /\ result'.how = "response" /\ result'.response = p.response
      BY <3>1 DEF Returns, Result
    <3>3. answer'.sent = answer.sent /\ Begins(c, answer.sent) /\ c \in Seq(Pieces)
      BY <2>4, <2>6 DEF c
    <3> QED
      BY <2>10, <3>2, <3>3 DEF HeardInv
  <2>11. CASE p.outcome = "throws"
    <3>1. Returns("exception", <<>>)
      BY <2>6, <2>11
    <3> QED
      BY <3>1, NoVerdict
  <2> QED
    BY <2>6, <2>8, <2>9, <2>10, <2>11
<1>6. CASE ReceiveNothing \/ ReceiveFails
  BY <1>6, NoVerdict DEF ReceiveNothing, ReceiveFails, Reason, Verdicts
<1>7. CASE OriginAnswers
  <2>1. PICK r \in Seq(Pieces) :
          ConsistsOf(answer.sent, r, incoming) /\ ParsesAs(curr_message, r)
    BY <1>7 DEF OriginAnswers, HeardInv
  <2>2. answer.sent = <<>> /\ incoming = <<>>
    BY <1>7 DEF OriginAnswers, CallInv, NoAnswer
  <2>3. r = <<>>
    <3>1. PICK t \in Seq(Pieces) : <<>> = r \o (<<>> \o t)
      BY <2>1, <2>2 DEF ConsistsOf
    <3> DEFINE u == <<>> \o t
    <3>2. u \in Seq(Pieces)
      BY EmptySeq, ConcatProperties
    <3> HIDE DEF u
    <3>3. r \o u = <<>>
      BY <3>1 DEF u
    <3> QED
      BY <3>2, <3>3, ConcatSimplifications
  <2>4. /\ answer' \in Answer /\ incoming' = answer'.sent
        /\ pc' = pc /\ pc = "recv" /\ curr_message' = curr_message /\ result' = result
    BY <1>7 DEF OriginAnswers
  <2>5. ConsistsOf(answer'.sent, <<>>, answer'.sent) /\ <<>> \in Seq(Pieces)
    <3>1. answer'.sent \in Seq(Pieces) /\ <<>> \in Seq(Pieces)
      BY <2>4, AnswerAssumption, EmptySeq DEF AnswerAssumption
    <3>2. answer'.sent = <<>> \o (answer'.sent \o <<>>)
      BY <3>1, ConcatEmptySeq
    <3> QED
      BY <3>1, <3>2 DEF ConsistsOf
  <2> QED
    BY <2>1, <2>3, <2>4, <2>5 DEF HeardInv
<1>8. CASE OriginCloses
  <2>1. PICK n \in 0 .. Len(incoming) : incoming' = SubSeq(incoming, 1, n)
    BY <1>8 DEF OriginCloses
  <2>2. /\ pc' = pc /\ pc = "recv" /\ curr_message' = curr_message /\ answer' = answer
    BY <1>8 DEF OriginCloses
  <2>3. PICK r \in Seq(Pieces) :
          ConsistsOf(answer.sent, r, incoming) /\ ParsesAs(curr_message, r)
    BY <2>2 DEF HeardInv
  <2>4. ConsistsOf(answer.sent, r, incoming')
    BY <2>1, <2>3, MoreIsHeard DEF DataInv
  <2> QED
    BY <2>2, <2>3, <2>4 DEF HeardInv
<1>9. CASE Returned \/ UNCHANGED vars
  BY <1>9 DEF Returned, vars, HeardInv
<1> QED
  BY <1>1, <1>2, <1>3, <1>4, <1>5, <1>6, <1>7, <1>8, <1>9 DEF Next, forward_request

(* What a call has returned is a verdict on the beginning of an answer. *)
LEMMA VerdictOnAnswer ==
  ASSUME CallInv, DataInv, HeardInv, result.how \in Verdicts
  PROVE  /\ answer \in Answer
         /\ \E r \in Seq(Pieces) :
              /\ Begins(r, answer.sent)
              /\ result.how = "response" =>
                   /\ parse_response(r).outcome = "parsed"
                   /\ result.response = parse_response(r).response
              /\ result.how = "malformed" => parse_response(r).outcome = "malformed"
<1>1. pc = "done"
  BY DEF CallInv, Verdicts
<1>2. PICK r \in Seq(Pieces) :
        /\ Begins(r, answer.sent)
        /\ result.how = "response" =>
             parse_response(r).outcome = "parsed" /\ result.response = parse_response(r).response
        /\ result.how = "malformed" => parse_response(r).outcome = "malformed"
  BY <1>1 DEF HeardInv
<1>3. ASSUME answer = NoAnswer PROVE FALSE
  <2>1. PICK t \in Seq(Pieces) : <<>> = r \o t
    BY <1>2, <1>3 DEF Begins, NoAnswer
  <2>2. r = <<>>
    BY <2>1, ConcatSimplifications
  <2>3. HeaderEnds(r) = {}
    BY <2>2 DEF HeaderEnds
  <2>4. parse_response(r).outcome = "incomplete"
    BY <2>3 DEF parse_response
  <2> QED
    BY <1>2, <2>4 DEF Verdicts
<1> QED
  BY <1>2, <1>3 DEF DataInv

LEMMA CallIsHeard == Spec => [](CallInv /\ DataInv /\ HeardInv)
<1>1. Init => CallInv /\ DataInv /\ HeardInv
  BY CallInvInit, DataInvInit, HeardInvInit
<1>2. CallInv /\ DataInv /\ HeardInv /\ [Next]_vars => CallInv' /\ DataInv' /\ HeardInv'
  BY CallInvStep, DataInvStep, HeardInvStep
<1> QED
  BY <1>1, <1>2, PTL DEF Spec

(* However the answer is cut and wherever it breaks off, the response that *)
(* is returned is the one HTTP finds in what the origin sent: all of it    *)
(* when it is delimited by a length or in chunks, and otherwise a          *)
(* beginning of it (the code drops the body), as long as an int can count  *)
(* the answer and the lengths in it.                                       *)
THEOREM ReturnsTheWholeResponse == Spec => []ResponseIsWhole
<1>1. CallInv /\ DataInv /\ HeardInv => ResponseIsWhole
  <2> SUFFICES ASSUME CallInv, DataInv, HeardInv, result.how = "response",
                      Countable(answer.sent)
               PROVE  /\ answer.message # <<>>
                      /\ IF Unframed(answer.message)
                         THEN IsPrefix(result.response, answer.message)
                         ELSE result.response = answer.message
    BY DEF ResponseIsWhole
  <2>1. PICK r \in Seq(Pieces) :
          /\ Begins(r, answer.sent) /\ answer \in Answer
          /\ parse_response(r).outcome = "parsed" /\ result.response = parse_response(r).response
    BY VerdictOnAnswer DEF Verdicts
  <2> DEFINE m == answer.message
             x == result.response
  <2>2. /\ m \in Seq(Pieces) /\ m # <<>>
        /\ \/ ~Unframed(m) /\ x = m
           \/ Unframed(m) /\ \E k \in 1 .. Len(m) : x = SubSeq(m, 1, k)
    BY <2>1, ParsedOfAnswer
  <2> HIDE DEF m, x
  <2>3. ASSUME NEW k \in 1 .. Len(m), x = SubSeq(m, 1, k)
        PROVE  IsPrefix(x, m)
    <3>1. Len(m) \in Nat /\ k \in 0 .. Len(m)
      BY <2>2, LenProperties
    <3>2. Len(x) = k
      BY <2>2, <2>3, <3>1, Cut
    <3> QED
      BY <2>3, <3>1, <3>2 DEF IsPrefix
  <2> QED
    BY <2>2, <2>3 DEF m, x
<1> QED
  BY <1>1, CallIsHeard, PTL

(* Whatever the segments, a response that HTTP finds in the answer is not  *)
(* taken for a malformed one, unless it has no header line, as long as an  *)
(* int can count the answer and the lengths in it.                         *)
THEOREM RefusesOnlyTheMalformed == Spec => []OnlyMalformedIsRefused
<1>1. CallInv /\ DataInv /\ HeardInv => OnlyMalformedIsRefused
  <2> SUFFICES ASSUME CallInv, DataInv, HeardInv, result.how = "malformed",
                      Countable(answer.sent), answer.message # <<>>
               PROVE  Len(HeadOf(answer.message)) = 2
    BY DEF OnlyMalformedIsRefused
  <2>1. PICK r \in Seq(Pieces) :
          /\ Begins(r, answer.sent) /\ answer \in Answer
          /\ parse_response(r).outcome = "malformed"
    BY VerdictOnAnswer DEF Verdicts
  <2> QED
    BY <2>1, MalformedOfAnswer
<1> QED
  BY <1>1, CallIsHeard, PTL

-----------------------------------------------------------------------------
(* A page that the origin sends is not the one made up, and neither is the *)
(* null pointer.                                                           *)
LEMMA PagesDiffer == OnePage # Nil /\ Error502 # Nil
<1>1. OnePage.body = "page" /\ Nil.body = "nil" /\ Error502.body = "error"
  BY DEF OnePage, Nil, Error502, Response
<1> QED
  BY <1>1

(* The functions RequestHandler has of its threads, with one thread. *)
LEMMA OneThread ==
  ASSUME NEW x, NEW y
  PROVE  [[t \in {"t"} |-> x] EXCEPT !["t"] = y] = [t \in {"t"} |-> y]
OBVIOUS

(* HttpResponse() is the same on both sides. *)
LEMMA Made502 == Call!BadGateway = Error502
BY DEF Call!BadGateway, Call!MadeUp, Error502, Response

(* What RequestHandler sees of a call, and its steps in those terms. *)
LEMMA NothingChanges ==
  ASSUME UNCHANGED <<Stage, ResponseSoFar, Processed, open, Outcome>>
  PROVE  UNCHANGED Call!vars
BY Zenon DEF Call!vars, Call!local_vars

LEMMA StepConnects ==
  ASSUME Stage = "forward", Stage' = "forwarding", ResponseSoFar' = Nil, open' # {},
         UNCHANGED <<Processed, Outcome>>
  PROVE  Call!Connects("t", "forward", "forwarding")
<1>1. (open' # {}) = TRUE
  OBVIOUS
<1> QED
  BY <1>1, OneThread, Zenon DEF Call!Connects, Call!Goes, Call!cache_unchanged

LEMMA StepConnectFails ==
  ASSUME Stage = "forward", Stage' = "reply", ResponseSoFar' = Error502,
         UNCHANGED <<Processed, Outcome, open>>
  PROVE  Call!ConnectFails("t", "forward", "reply")
BY OneThread, Made502, Zenon DEF Call!ConnectFails, Call!Goes, Call!cache_unchanged

LEMMA StepReceives ==
  ASSUME Stage = "forwarding", Stage' = "reply", ResponseSoFar # Nil, open' = {},
         UNCHANGED <<ResponseSoFar, Processed, Outcome>>
  PROVE  Call!Receives("t", "forwarding", "reply")
<1>1. (open' # {}) = FALSE
  OBVIOUS
<1> QED
  BY <1>1, OneThread, Zenon DEF Call!Receives, Call!Goes, Call!cache_unchanged

LEMMA StepReceiveFails ==
  ASSUME Stage = "forwarding", Stage' = "reply", ResponseSoFar' = Error502, open' = {},
         UNCHANGED <<Processed, Outcome>>
  PROVE  Call!ReceiveFails("t", "forwarding", "reply")
<1>1. (open' # {}) = FALSE
  OBVIOUS
<1> QED
  BY <1>1, OneThread, Made502, Zenon DEF Call!ReceiveFails, Call!Goes, Call!cache_unchanged

LEMMA StepParseThrows ==
  ASSUME Stage = "forwarding", Stage' = "idle", ResponseSoFar # Nil, ResponseSoFar' = Nil,
         Outcome' = "exception", UNCHANGED <<Processed, open>>
  PROVE  Call!ParseThrows("t", "forwarding")
BY OneThread, Zenon DEF Call!ParseThrows, Call!Returns, Call!Goes, Call!cache_unchanged

LEMMA StepOriginAnswers ==
  ASSUME Stage = "forwarding", Stage' = Stage, ResponseSoFar = Nil, ResponseSoFar' = OnePage,
         Processed' = Processed + 1, UNCHANGED <<Outcome, open>>
  PROVE  Call!OriginAnswers("t")
<1>1. Get.method = "GET" /\ Get.url = "u" /\ OnePage.validator = "none"
  BY DEF Get, OnePage, Response
<1>2. <<OnePage>>[1] = OnePage
  OBVIOUS
<1>3. /\ [t \in {"t"} |-> Get]["t"] = Get
      /\ [a \in OneSite |-> <<OnePage>>][<<"h", "u">>] = <<OnePage>>
      /\ [a \in OneSite |-> 1][<<"h", "u">>] = 1
  BY DEF OneSite
<1>4. Call!Target(Get) = <<"h", "u">>
  BY DEF Call!Target, Get
<1> QED
  BY <1>1, <1>2, <1>3, <1>4, OneThread, Zenon DEF Call!OriginAnswers, Call!cache_unchanged

(* A step of forward_request as RequestHandler has it, or none. *)
CallStep ==
  \/ Call!ForwardRequest("t", "forward", "forwarding", "reply")
  \/ Call!OriginAnswers("t")
  \/ UNCHANGED Call!vars

(* Of a loop, only the step that leaves it shows.  A segment that comes     *)
(* before the origin has answered cannot be: there is nothing to receive.  *)
LEMMA StepIsOfTheCall ==
  ASSUME CallInv, CallInv', [Next]_vars
  PROVE  CallStep
<1> USE DEF CallInv, Result, CloseSocket, Returns
<1> DEFINE Same == UNCHANGED <<answer, open, pc, result>>
<1>0. \A how, r : Result(how, r).how = how
  BY DEF Result
<1>1. CASE Resolve
  <2>1. UNCHANGED <<answer, open>> /\ pc = "resolve" /\ result.how = "none"
    BY <1>1 DEF Resolve
  <2>2. CASE pc' = "connect" /\ UNCHANGED result
    <3>1. Stage = "forward" /\ Stage' = "forward"
      BY <2>1, <2>2 DEF Stage
    <3>2. UNCHANGED <<ResponseSoFar, Processed, Outcome>>
      BY <2>1, <2>2 DEF ResponseSoFar, Processed, Outcome
    <3>3. UNCHANGED Call!vars
      BY <2>1, <3>1, <3>2, NothingChanges
    <3> QED
      BY <3>3 DEF CallStep
  <2>3. CASE pc' = "done" /\ result' = Result("resolve", <<>>)
    <3>1. result'.how = "resolve" /\ "resolve" \in Reason
      BY <2>3, <1>0 DEF Reason
    <3>2. Stage = "forward" /\ Stage' = "reply"
      BY <2>1, <2>3, <3>1 DEF Stage
    <3>4. ResponseSoFar' = Error502 /\ UNCHANGED <<Processed, Outcome>>
      BY <2>1, <2>3, <3>1 DEF ResponseSoFar, Processed, Outcome
    <3>3. Call!ConnectFails("t", "forward", "reply")
      BY <2>1, <3>2, <3>4, StepConnectFails
    <3> QED
      BY <3>3 DEF CallStep, Call!ForwardRequest
  <2> QED
    BY <1>1, <2>2, <2>3 DEF Resolve
<1>2. CASE TryAddress
  <2>1. pc = "connect" /\ result.how = "none" /\ UNCHANGED <<answer, result>>
    BY <1>2 DEF TryAddress
  <2>2. UNCHANGED <<Processed, Outcome>>
    BY <2>1 DEF Processed, Outcome
  <2>3. CASE pc' = "send" /\ open' # {}
    <3>1. Stage = "forward" /\ Stage' = "forwarding" /\ ResponseSoFar' = Nil
      BY <2>1, <2>3 DEF Stage, ResponseSoFar, Reason
    <3> QED
      BY <2>2, <2>3, <3>1, StepConnects DEF CallStep, Call!ForwardRequest
  <2>4. CASE UNCHANGED <<pc, open>>
    <3>1. UNCHANGED <<Stage, ResponseSoFar>>
      BY <2>1, <2>4 DEF Stage, ResponseSoFar
    <3> QED
      BY <2>2, <2>4, <3>1, NothingChanges DEF CallStep
  <2> QED
    BY <1>2, <2>3, <2>4 DEF TryAddress
<1>3. CASE OutOfAddresses
  <2>1. pc = "connect" /\ pc' = "done" /\ result.how = "none" /\ result'.how = "connect"
        /\ UNCHANGED <<answer, open>>
    BY <1>0, <1>3 DEF OutOfAddresses
  <2>2. Stage = "forward" /\ Stage' = "reply" /\ ResponseSoFar' = Error502
        /\ UNCHANGED <<Processed, Outcome>>
    BY <2>1 DEF Stage, ResponseSoFar, Reason, Processed, Outcome
  <2> QED
    BY <2>1, <2>2, StepConnectFails DEF CallStep, Call!ForwardRequest
<1>4. ASSUME pc \in {"send", "recv"}, pc' = "done", result'.how \in Reason, CloseSocket,
             UNCHANGED <<answer, addresses>>
      PROVE  CallStep
  <2>1. result.how = "none" /\ open' = {}
    BY <1>4
  <2>2. Stage = "forwarding" /\ Stage' = "reply" /\ ResponseSoFar' = Error502
        /\ UNCHANGED <<Processed, Outcome>>
    BY <1>4, <2>1 DEF Stage, ResponseSoFar, Reason, Processed, Outcome
  <2> QED
    BY <2>1, <2>2, StepReceiveFails DEF CallStep, Call!ForwardRequest
<1>5. ASSUME pc \in {"send", "recv"}, pc' \in {"send", "recv"},
             UNCHANGED <<answer, open, result>>
      PROVE  CallStep
  <2>1. UNCHANGED <<Stage, ResponseSoFar, Processed, Outcome>>
    BY <1>5 DEF Stage, ResponseSoFar, Processed, Outcome
  <2> QED
    BY <1>5, <2>1, NothingChanges DEF CallStep
<1>7. CASE Send
  BY <1>0, <1>4, <1>5, <1>7 DEF Send, Reason
<1>8. CASE ReceiveNothing \/ ReceiveFails
  BY <1>0, <1>4, <1>8 DEF ReceiveNothing, ReceiveFails, Reason
<1>9. CASE Receive
  <2>1. PICK n \in 1 .. Len(incoming) :
          \E p \in {parse_response(curr_message \o SubSeq(incoming, 1, n))} :
            \/ p.outcome = "incomplete" /\ UNCHANGED <<pc, open, result>>
            \/ p.outcome = "malformed" /\ Returns("malformed", <<>>) /\ CloseSocket
            \/ p.outcome = "parsed" /\ Returns("response", p.response) /\ CloseSocket
            \/ p.outcome = "throws" /\ Returns("exception", <<>>) /\ UNCHANGED open
    BY <1>9 DEF Receive
  <2>2. pc = "recv" /\ result.how = "none" /\ UNCHANGED <<answer, addresses>>
    BY <1>9 DEF Receive
  <2>3. answer # NoAnswer
    BY <2>1
  <2>4. ResponseSoFar = OnePage /\ ResponseSoFar # Nil /\ Stage = "forwarding"
    BY <2>2, <2>3, PagesDiffer DEF ResponseSoFar, Reason, Stage
  <2>5. CASE UNCHANGED <<pc, open, result>>
    BY <1>5, <2>2, <2>5
  <2>6. CASE Returns("malformed", <<>>) /\ CloseSocket
    BY <1>0, <1>4, <2>2, <2>6 DEF Reason
  <2>7. ASSUME NEW r, Returns("response", r), CloseSocket
        PROVE  CallStep
    <3>1. result'.how = "response" /\ pc' = "done" /\ open' = {}
      BY <1>0, <2>2, <2>7
    <3>2. Stage' = "reply" /\ UNCHANGED <<ResponseSoFar, Processed, Outcome>>
      BY <2>2, <2>3, <2>4, <3>1 DEF Stage, ResponseSoFar, Reason, Processed, Outcome
    <3> QED
      BY <2>4, <3>1, <3>2, StepReceives DEF CallStep, Call!ForwardRequest
  <2>8. CASE Returns("exception", <<>>) /\ UNCHANGED open
    <3>1. result'.how = "exception" /\ pc' = "done"
      BY <1>0, <2>8
    <3>2. Stage' = "idle" /\ ResponseSoFar' = Nil /\ Outcome' = "exception"
          /\ UNCHANGED Processed
      BY <2>2, <3>1 DEF Stage, ResponseSoFar, Reason, Processed, Outcome
    <3> QED
      BY <2>4, <2>8, <3>2, StepParseThrows DEF CallStep, Call!ForwardRequest
  <2> QED
    BY <2>1, <2>5, <2>6, <2>7, <2>8
<1>10. CASE OriginAnswers
  <2>1. pc = "recv" /\ answer = NoAnswer /\ result.how = "none"
        /\ UNCHANGED <<pc, open, result>>
    BY <1>10 DEF OriginAnswers
  <2>2. CASE answer' = NoAnswer
    BY <1>5, <2>1, <2>2
  <2>3. CASE answer' # NoAnswer
    <3>1. Stage = "forwarding" /\ Stage' = Stage /\ UNCHANGED Outcome
      BY <2>1 DEF Stage, Outcome
    <3>2. ResponseSoFar = Nil /\ ResponseSoFar' = OnePage
      BY <2>1, <2>3 DEF ResponseSoFar, Reason
    <3>3. Processed' = Processed + 1
      BY <2>1, <2>3 DEF Processed
    <3> QED
      BY <2>1, <3>1, <3>2, <3>3, StepOriginAnswers DEF CallStep
  <2> QED
    BY <2>2, <2>3
<1>6. CASE OriginCloses \/ Returned \/ UNCHANGED vars
  <2>1. Same
    BY <1>6 DEF OriginCloses, Returned, vars
  <2>2. UNCHANGED <<Stage, ResponseSoFar, Processed, Outcome>>
    BY <2>1 DEF Stage, ResponseSoFar, Processed, Outcome
  <2>3. UNCHANGED Call!vars
    BY <2>1, <2>2, NothingChanges
  <2> QED
    BY <2>3 DEF CallStep
<1> QED
  BY <1>1, <1>2, <1>3, <1>6, <1>7, <1>8, <1>9, <1>10 DEF Next, forward_request

(* The loop over addresses and segments does what RequestHandler says      *)
(* forward_request does, for any answer, cut in any way.                   *)
THEOREM CallIsImplemented == Spec => ImplementsTheCall
<1>1. CallInv /\ CallInv' /\ [Next]_vars
        => [\/ Call!ForwardRequest("t", "forward", "forwarding", "reply")
            \/ Call!OriginAnswers("t")]_(Call!vars)
  BY StepIsOfTheCall DEF CallStep
<1> QED
  BY <1>1, CallInvInit, CallInvStep, PTL DEF Spec, ImplementsTheCall

=============================================================================
