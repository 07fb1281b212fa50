------------------------- MODULE HttpMessageProofs -------------------------
(***************************************************************************)
(* Proofs about the parsers of requests and responses, for any text.       *)
(*                                                                         *)
(* The loops over chunks and trailer lines are recursive functions.  What  *)
(* they compute is shown by induction over the set of the positions where  *)
(* the statement fails: a set of natural numbers that is not empty has a   *)
(* least element.                                                          *)
(***************************************************************************)
EXTENDS HttpGrammar, HttpRequest, ResponseParser, SequenceTheorems,
        WellFoundedInduction, TLAPS

(* The natural numbers are well-founded. *)
LEMMA LeastNat ==
  ASSUME NEW T \in SUBSET Nat, T # {}
  PROVE  \E m \in T : \A k \in T : m <= k
<1> DEFINE R == OpToRel(<, Nat)
<1>1. IsWellFoundedOn(R, Nat)
  BY NatLessThanWellFounded
<1>2. PICK m \in T : \A k \in T : <<k, m>> \notin R
  <2> HIDE DEF R
  <2> QED
    BY <1>1, WFMin
<1>3. \A k \in T : ~(k < m)
  BY <1>2 DEF OpToRel
<1> QED
  BY <1>3

LEMMA MinOfNats ==
  ASSUME NEW T \in SUBSET Nat, T # {}
  PROVE  Min(T) \in T /\ \A k \in T : Min(T) <= k
<1>1. \E m \in T : \A k \in T : m <= k
  BY LeastNat
<1> QED
  BY <1>1 DEF Min

LEMMA MinIs ==
  ASSUME NEW T \in SUBSET Nat, NEW m \in T, \A k \in T : m <= k
  PROVE  Min(T) = m
<1>1. Min(T) \in T /\ \A k \in T : Min(T) <= k
  BY MinOfNats
<1>2. Min(T) <= m /\ m <= Min(T)
  BY <1>1
<1>3. Min(T) \in Nat /\ m \in Nat
  BY <1>1
<1> QED
  BY <1>2, <1>3

(* What holds of a position when it holds of all later ones holds of all.  *)
LEMMA FromTheEnd ==
  ASSUME NEW N \in Nat, NEW S,
         \A p \in 1 .. N : (\A q \in p + 1 .. N : q \in S) => p \in S
  PROVE  \A p \in 1 .. N : p \in S
<1> DEFINE T == {k \in 0 .. N - 1 : N - k \notin S}
<1>1. SUFFICES ASSUME NEW p \in 1 .. N, p \notin S
               PROVE  FALSE
  OBVIOUS
<1>2. N - p \in T /\ T \in SUBSET Nat
  <2>1. N - p \in 0 .. N - 1 /\ N - (N - p) = p
    OBVIOUS
  <2> QED
    BY <1>1, <2>1
<1>3. PICK k \in T : \A j \in T : k <= j
  <2> HIDE DEF T
  <2> QED
    BY <1>2, LeastNat
<1>4. N - k \in 1 .. N
  OBVIOUS
<1>5. ASSUME NEW q \in N - k + 1 .. N PROVE q \in S
  <2>1. N - q \in 0 .. N - 1 /\ N - q < k /\ N - (N - q) = q
    OBVIOUS
  <2>2. N - q \notin T
    BY <1>3, <2>1
  <2> QED
    BY <2>1, <2>2
<1> QED
  BY <1>4, <1>5

(* The same from the other end. *)
LEMMA FromTheStart ==
  ASSUME NEW N \in Nat, NEW S, 0 \in S,
         \A p \in 0 .. N - 1 : p \in S => p + 1 \in S
  PROVE  \A p \in 0 .. N : p \in S
<1> DEFINE T == {k \in 0 .. N : k \notin S}
<1>1. SUFFICES ASSUME T # {} PROVE FALSE
  OBVIOUS
<1>2. PICK k \in T : \A j \in T : k <= j
  <2>1. T \in SUBSET Nat
    OBVIOUS
  <2> HIDE DEF T
  <2> QED
    BY <1>1, <2>1, LeastNat
<1>3. k \in 1 .. N /\ k - 1 \in 0 .. N - 1 /\ k - 1 + 1 = k
  OBVIOUS
<1>4. k - 1 \notin T
  BY <1>2, <1>3
<1> QED
  BY <1>3, <1>4

(* The recursive function of a loop over the positions 1 .. N.             *)
IsLoop(f, N, ends, value, next) ==
  f = [p \in 1 .. N |-> IF p \in ends THEN value[p] ELSE f[next[p]]]

(* There is one if the loop only goes forward.                             *)
LEMMA LoopIsDefined ==
  ASSUME NEW N \in Nat, NEW ends, NEW value, NEW next,
         \A p \in (1 .. N) \ ends : next[p] \in p + 1 .. N
  PROVE  \E f : IsLoop(f, N, ends, value, next)
<1> DEFINE Body(f, p) == IF p \in ends THEN value[p] ELSE f[next[p]]
           Has(k) == \E f : f = [p \in k .. N |-> Body(f, p)]
           S == {k \in 1 .. N : Has(k)}
<1>1. Has(N + 1)
  <2>1. [p \in N + 1 .. N |-> value[p]] = [p \in N + 1 .. N |-> Body([r \in N + 1 .. N |-> value[r]], p)]
    OBVIOUS
  <2> QED
    BY <2>1
<1>2. ASSUME NEW k \in 1 .. N, Has(k + 1) PROVE Has(k)
  <2>1. PICK g : g = [p \in k + 1 .. N |-> Body(g, p)]
    BY <1>2
  <2> DEFINE f == [p \in k .. N |-> IF p = k THEN Body(g, k) ELSE g[p]]
  <2>2. ASSUME NEW p \in k .. N PROVE f[p] = Body(f, p)
    <3>1. \A q \in k + 1 .. N : f[q] = g[q]
      OBVIOUS
    <3>2. p \notin ends => next[p] \in k + 1 .. N
      OBVIOUS
    <3>3. Body(f, p) = Body(g, p)
      BY <3>1, <3>2
    <3>4. p # k => g[p] = Body(g, p)
      BY <2>1
    <3> QED
      BY <3>3, <3>4
  <2>3. f = [p \in k .. N |-> Body(f, p)]
    <3> HIDE DEF Body
    <3>1. \A p \in k .. N : f[p] = Body(f, p)
      BY <2>2
    <3>2. f = [p \in k .. N |-> f[p]]
      OBVIOUS
    <3> HIDE DEF f
    <3> QED
      BY <3>1, <3>2
  <2> QED
    BY <2>3
<1> HIDE DEF Has
<1>3. \A k \in 1 .. N : (\A q \in k + 1 .. N : q \in S) => k \in S
  BY <1>1, <1>2
<1>4. \A k \in 1 .. N : k \in S
  <2> HIDE DEF S
  <2> QED
    BY <1>3, FromTheEnd
<1>5. Has(1)
  BY <1>1, <1>4
<1> QED
  BY <1>5 DEF Has, IsLoop

-----------------------------------------------------------------------------
(* Positions in a text. *)

LEMMA PieceTypes ==
  ASSUME NEW s \in Seq(Pieces), NEW p \in 1 .. Len(s)
  PROVE  s[p] \in Pieces /\ s[p].is \in Kind /\ s[p].n \in Nat
<1>1. s[p] \in Pieces
  BY ElementOfSeq
<1> QED
  BY <1>1 DEF Pieces

LEMMA NextLineIs ==
  ASSUME NEW s \in Seq(Pieces), NEW p \in Nat \ {0}
  PROVE  LET l == NextLine(s, p)
         IN  \/ /\ l = 0
                /\ \A i \in p .. Len(s) : s[i].is \notin Line
             \/ /\ l \in p .. Len(s) /\ s[l].is \in Line
                /\ \A i \in p .. l - 1 : s[i].is \notin Line
<1> DEFINE ends == {i \in p .. Len(s) : s[i].is \in Line}
<1>1. Len(s) \in Nat /\ ends \in SUBSET Nat
  BY LenProperties
<1>2. CASE ends = {}
  BY <1>2 DEF NextLine
<1>3. CASE ends # {}
  <2>1. NextLine(s, p) = Min(ends)
    BY <1>3 DEF NextLine
  <2>2. Min(ends) \in ends /\ \A k \in ends : Min(ends) <= k
    <3> HIDE DEF ends
    <3> QED
      BY <1>1, <1>3, MinOfNats
  <2>3. ASSUME NEW i \in p .. Min(ends) - 1 PROVE s[i].is \notin Line
    <3>1. i \in p .. Len(s) /\ ~(Min(ends) <= i)
      BY <1>1, <2>2
    <3> QED
      BY <2>2, <3>1
  <2> QED
    BY <2>1, <2>2, <2>3
<1> QED
  BY <1>2, <1>3

(* What is stored of a number is a word, and the number when that is one.  *)
LEMMA StoredIs ==
  ASSUME NEW x, x.n \in Nat
  PROVE  /\ Stored(x) \in Nat /\ Word \in Nat
         /\ x.n <= MaxInt => Stored(x) = x.n /\ x.n < Word
<1>1. Word \in Nat \ {0} /\ MaxInt \in Nat /\ MaxInt < Word
  BY MaxIntAssumption DEF Word
<1> DEFINE w == Word
           n == x.n
<1>2. Stored(x) = n % w
  BY DEF Stored
<1>3. n \in Nat /\ w \in Nat \ {0} /\ MaxInt \in Nat /\ MaxInt < w
  BY <1>1
<1> HIDE DEF n, w
<1>4. n % w \in 0 .. w - 1
  BY <1>3
<1>5. n < w => n % w = n
  BY <1>3
<1>6. n % w \in Nat
  BY <1>3, <1>4
<1>7. n <= MaxInt => n < w
  BY <1>3
<1> QED
  BY <1>2, <1>3, <1>5, <1>6, <1>7 DEF n, w

LEMMA StoredTypes ==
  ASSUME NEW s \in Seq(Pieces), NEW p \in 1 .. Len(s)
  PROVE  Stored(s[p]) \in Nat
BY PieceTypes, StoredIs

(* One round of the loop over the lines of the trailer. *)
LEMMA TrailerRound ==
  ASSUME NEW s \in Seq(Pieces), NEW p \in 1 .. Len(s) + 1
  PROVE  Trailer(s, p) = IF IsTrailerLine(s, p) THEN Trailer(s, p + 1) ELSE TrailerEnd(s, p)
<1> DEFINE N == Len(s) + 1
           Body(f, q) == IF IsTrailerLine(s, q) THEN f[q + 1] ELSE TrailerEnd(s, q)
           ends == {q \in 1 .. N : ~IsTrailerLine(s, q)}
           value == [q \in 1 .. N |-> TrailerEnd(s, q)]
           next == [q \in 1 .. N |-> q + 1]
           f == CHOOSE g : g = [q \in 1 .. N |-> Body(g, q)]
<1>1. Len(s) \in Nat /\ N \in Nat
  BY LenProperties
<1>2. ASSUME NEW q \in 1 .. N, IsTrailerLine(s, q) PROVE q + 1 \in q + 1 .. N
  <2>1. q \in 1 .. Len(s)
    BY <1>1, <1>2, NextLineIs DEF IsTrailerLine
  <2> QED
    BY <1>1, <2>1
<1>3. PICK g : IsLoop(g, N, ends, value, next)
  <2>1. \A q \in (1 .. N) \ ends : next[q] \in q + 1 .. N
    BY <1>2
  <2> HIDE DEF N, ends, value, next
  <2> QED
    BY <1>1, <2>1, LoopIsDefined
<1>4. g = [q \in 1 .. N |-> Body(g, q)]
  BY <1>3 DEF IsLoop
<1>5. f = [q \in 1 .. N |-> Body(f, q)]
  <2> HIDE DEF Body, N
  <2> QED
    BY <1>4
<1>6. ASSUME NEW q PROVE Trailer(s, q) = f[q]
  BY Zenon DEF Trailer
<1>7. Trailer(s, p) = Body(f, p)
  <2> HIDE DEF Body, f
  <2> QED
    BY <1>5, <1>6
<1> QED
  <2> HIDE DEF f
  <2> QED
    BY <1>6, <1>7

(* One round of the loop over the chunks. *)
LEMMA ChunksRound ==
  ASSUME NEW s \in Seq(Pieces), NEW p \in 1 .. Len(s) + 1
  PROVE  /\ IsChunk(s, p) => ChunkEnd(s, p) \in p + 2 .. Len(s)
         /\ ChunkedBody(s, p) =
              IF IsChunk(s, p) THEN ChunkedBody(s, ChunkEnd(s, p) + 1) ELSE ChunksEnd(s, p)
<1> DEFINE N == Len(s) + 1
           Body(f, q) == IF IsChunk(s, q) THEN f[ChunkEnd(s, q) + 1] ELSE ChunksEnd(s, q)
           ends == {q \in 1 .. N : ~IsChunk(s, q)}
           value == [q \in 1 .. N |-> ChunksEnd(s, q)]
           next == [q \in 1 .. N |-> ChunkEnd(s, q) + 1]
           f == CHOOSE g : g = [q \in 1 .. N |-> Body(g, q)]
<1>1. Len(s) \in Nat /\ N \in Nat
  BY LenProperties
<1>2. ASSUME NEW q \in 1 .. N, IsChunk(s, q) PROVE ChunkEnd(s, q) \in q + 2 .. Len(s)
  <2>1. q \in 1 .. Len(s)
    BY <1>1, <1>2, NextLineIs DEF IsChunk, IsSize
  <2>2. Stored(s[q]) \in Nat
    BY <2>1, StoredTypes
  <2> QED
    BY <1>1, <1>2, <2>1, <2>2 DEF IsChunk, ChunkEnd
<1>3. PICK g : IsLoop(g, N, ends, value, next)
  <2>1. \A q \in (1 .. N) \ ends : next[q] \in q + 1 .. N
    <3>1. \A q \in 1 .. N : IsChunk(s, q) => ChunkEnd(s, q) + 1 \in q + 1 .. N
      BY <1>1, <1>2
    <3> QED
      BY <3>1
  <2> HIDE DEF N, ends, value, next
  <2> QED
    BY <1>1, <2>1, LoopIsDefined
<1>4. g = [q \in 1 .. N |-> Body(g, q)]
  BY <1>3 DEF IsLoop
<1>5. f = [q \in 1 .. N |-> Body(f, q)]
  <2> HIDE DEF Body, N
  <2> QED
    BY <1>4
<1>6. ASSUME NEW q PROVE ChunkedBody(s, q) = f[q]
  BY Zenon DEF ChunkedBody
<1>7. ChunkedBody(s, p) = Body(f, p)
  <2> HIDE DEF Body, f
  <2> QED
    BY <1>5, <1>6
<1> QED
  <2> HIDE DEF f
  <2> QED
    BY <1>2, <1>6, <1>7

-----------------------------------------------------------------------------
(* What the loops come to, and that more text makes no difference to it    *)
(* unless they wait for more.                                              *)

(* A message that goes on at p is waited for, refused, out of the reach of *)
(* the parser, or ends within s.                                           *)
Verdict(s, p) ==
  {Incomplete, Malformed, Throws, Overrun} \cup {Complete(e) : e \in p .. Len(s)}

LEMMA VerdictGrows ==
  ASSUME NEW s \in Seq(Pieces), NEW p \in Nat, NEW q \in Nat, p <= q
  PROVE  Verdict(s, q) \subseteq Verdict(s, p)
<1>1. Len(s) \in Nat
  BY LenProperties
<1>2. q .. Len(s) \subseteq p .. Len(s)
  BY <1>1
<1> QED
  BY <1>2 DEF Verdict

Outcomes == {"parsed", "incomplete", "malformed", "throws", "overrun"}

LEMMA OutcomesDiffer ==
  ASSUME NEW e
  PROVE  /\ Incomplete.outcome = "incomplete" /\ Incomplete.at = 0
         /\ Malformed.outcome = "malformed" /\ Malformed.at = 0
         /\ Throws.outcome = "throws" /\ Throws.at = 0
         /\ Overrun.outcome = "overrun" /\ Overrun.at = 0
         /\ Complete(e).outcome = "parsed" /\ Complete(e).at = e
BY DEF Incomplete, Malformed, Throws, Overrun, Complete

LEMMA VerdictIs ==
  ASSUME NEW s \in Seq(Pieces), NEW p \in Nat, NEW f \in Verdict(s, p)
  PROVE  /\ f.at \in 0 .. Len(s)
         /\ f.outcome \in Outcomes
         /\ f.outcome = "parsed" => f = Complete(f.at) /\ f.at \in p .. Len(s)
         /\ f.outcome # "parsed" => f.at = 0
         /\ f.outcome = "incomplete" <=> f = Incomplete
         /\ f.outcome = "malformed" <=> f = Malformed
<1>1. Len(s) \in Nat
  BY LenProperties
<1>2. CASE f \in {Incomplete, Malformed, Throws, Overrun}
  BY <1>1, <1>2, OutcomesDiffer DEF Outcomes
<1>3. CASE f \notin {Incomplete, Malformed, Throws, Overrun}
  <2>1. PICK e \in p .. Len(s) : f = Complete(e)
    BY <1>3 DEF Verdict
  <2>2. f.at = e /\ f.outcome = "parsed"
    BY <2>1, OutcomesDiffer
  <2>3. e \in 0 .. Len(s)
    BY <1>1, <2>1
  <2> QED
    BY <1>3, <2>1, <2>2, <2>3 DEF Outcomes
<1> QED
  BY <1>2, <1>3

LEMMA TrailerVerdict ==
  ASSUME NEW s \in Seq(Pieces), NEW p \in 1 .. Len(s) + 1
  PROVE  Trailer(s, p) \in Verdict(s, p)
<1> DEFINE N == Len(s) + 1
           S == {q \in 1 .. N : Trailer(s, q) \in Verdict(s, q)}
<1>1. Len(s) \in Nat /\ N \in Nat
  BY LenProperties
<1>2. ASSUME NEW q \in 1 .. N, \A r \in q + 1 .. N : r \in S PROVE q \in S
  <2>1. CASE IsTrailerLine(s, q)
    <3>1. q \in 1 .. Len(s)
      BY <1>1, <2>1, NextLineIs DEF IsTrailerLine
    <3>2. Trailer(s, q) = Trailer(s, q + 1)
      BY <2>1, TrailerRound
    <3>3. Trailer(s, q + 1) \in Verdict(s, q + 1)
      BY <1>1, <1>2, <3>1
    <3>4. Verdict(s, q + 1) \subseteq Verdict(s, q)
      BY <3>1, VerdictGrows
    <3> QED
      BY <3>2, <3>3, <3>4
  <2>2. CASE ~IsTrailerLine(s, q)
    <3>1. Trailer(s, q) = TrailerEnd(s, q)
      BY <2>2, TrailerRound
    <3>2. NextLine(s, q) = q => q \in q .. Len(s)
      BY <1>1, NextLineIs
    <3> QED
      BY <3>1, <3>2 DEF TrailerEnd, Verdict
  <2> QED
    BY <2>1, <2>2
<1>3. \A q \in 1 .. N : q \in S
  <2> HIDE DEF N, S
  <2> QED
    BY <1>1, <1>2, FromTheEnd
<1> QED
  BY <1>3

LEMMA ChunksEndIs ==
  ASSUME NEW s \in Seq(Pieces), NEW p \in 1 .. Len(s) + 1
  PROVE  /\ NextLine(s, p) = 0 => ChunksEnd(s, p) = Incomplete
         /\ NextLine(s, p) # 0 =>
              /\ ~IsSize(s, p) => ChunksEnd(s, p) = Throws
              /\ IsSize(s, p) =>
                   /\ p \in 1 .. Len(s) /\ Stored(s[p]) \in Nat
                   /\ Stored(s[p]) = 0 => ChunksEnd(s, p) = Trailer(s, p + 1)
                   /\ Stored(s[p]) > 0 => ChunksEnd(s, p) = DataEnd(s, p)
<1> DEFINE n == Stored(s[p])
<1>1. NextLine(s, p) # 0 /\ IsSize(s, p) => p \in 1 .. Len(s) /\ n \in Nat
  BY NextLineIs, StoredTypes DEF IsSize
<1>2. CASE NextLine(s, p) = 0
  <2>1. ~IsSize(s, p)
    BY <1>2 DEF IsSize
  <2> QED
    BY <1>2, <2>1 DEF ChunksEnd
<1>3. CASE NextLine(s, p) # 0 /\ ~IsSize(s, p)
  BY <1>3 DEF ChunksEnd
<1>4. CASE NextLine(s, p) # 0 /\ IsSize(s, p) /\ n = 0
  BY <1>1, <1>4 DEF ChunksEnd
<1>5. CASE NextLine(s, p) # 0 /\ IsSize(s, p) /\ n > 0
  <2>1. n # 0
    BY <1>1, <1>5
  <2> QED
    BY <1>1, <1>5, <2>1 DEF ChunksEnd
<1> HIDE DEF n
<1> QED
  BY <1>1, <1>2, <1>3, <1>4, <1>5 DEF n

(* What comes after the line of a size that is not 0, by the first that    *)
(* applies.                                                                *)
LEMMA DataEndIs ==
  ASSUME NEW s, NEW p
  PROVE  DataEnd(s, p) = IF Overruns(s, ChunkEnd(s, p)) THEN Overrun
                         ELSE IF IsCutOff(s, p) THEN Incomplete ELSE Malformed
<1>1. CASE Overruns(s, ChunkEnd(s, p))
  BY <1>1 DEF DataEnd
<1>2. CASE ~Overruns(s, ChunkEnd(s, p)) /\ IsCutOff(s, p)
  BY <1>2 DEF DataEnd
<1>3. CASE ~Overruns(s, ChunkEnd(s, p)) /\ ~IsCutOff(s, p)
  BY <1>3 DEF DataEnd
<1> QED
  BY <1>1, <1>2, <1>3

LEMMA ChunksVerdict ==
  ASSUME NEW s \in Seq(Pieces), NEW p \in 1 .. Len(s) + 1
  PROVE  ChunkedBody(s, p) \in Verdict(s, p)
<1> DEFINE N == Len(s) + 1
           S == {q \in 1 .. N : ChunkedBody(s, q) \in Verdict(s, q)}
<1>1. Len(s) \in Nat /\ N \in Nat
  BY LenProperties
<1>2. ASSUME NEW q \in 1 .. N, \A r \in q + 1 .. N : r \in S PROVE q \in S
  <2>1. CASE IsChunk(s, q)
    <3> DEFINE r == ChunkEnd(s, q) + 1
    <3>1. r \in q + 1 .. N /\ ChunkedBody(s, q) = ChunkedBody(s, r)
      BY <1>1, <2>1, ChunksRound
    <3>2. ChunkedBody(s, r) \in Verdict(s, r)
      BY <1>2, <3>1
    <3>3. Verdict(s, r) \subseteq Verdict(s, q)
      BY <1>1, <3>1, VerdictGrows
    <3> QED
      BY <3>1, <3>2, <3>3
  <2>2. CASE ~IsChunk(s, q)
    <3>1. ChunkedBody(s, q) = ChunksEnd(s, q)
      BY <2>2, ChunksRound
    <3>2. CASE IsSize(s, q) /\ Stored(s[q]) = 0 /\ NextLine(s, q) # 0
      <4>1. q \in 1 .. Len(s) /\ ChunksEnd(s, q) = Trailer(s, q + 1)
        BY <3>2, ChunksEndIs
      <4>2. Trailer(s, q + 1) \in Verdict(s, q + 1)
        BY <1>1, <4>1, TrailerVerdict
      <4>3. Verdict(s, q + 1) \subseteq Verdict(s, q)
        BY <4>1, VerdictGrows
      <4> QED
        BY <3>1, <4>1, <4>2, <4>3
    <3>3. CASE ~(IsSize(s, q) /\ Stored(s[q]) = 0 /\ NextLine(s, q) # 0)
      <4>1. ChunksEnd(s, q) \in {Incomplete, Malformed, Throws, Overrun}
        BY <3>3, ChunksEndIs, DataEndIs
      <4> QED
        BY <3>1, <4>1 DEF Verdict
    <3> QED
      BY <3>2, <3>3
  <2> QED
    BY <2>1, <2>2
<1>3. \A q \in 1 .. N : q \in S
  <2> HIDE DEF N, S
  <2> QED
    BY <1>1, <1>2, FromTheEnd
<1> QED
  BY <1>3

(* s is what has been received of s \o t. *)
LEMMA NextLineStays ==
  ASSUME NEW s \in Seq(Pieces), NEW t \in Seq(Pieces), NEW p \in Nat \ {0},
         NextLine(s, p) # 0
  PROVE  NextLine(s \o t, p) = NextLine(s, p)
<1> DEFINE u == s \o t
           l == NextLine(s, p)
           k == NextLine(u, p)
<1>1. /\ u \in Seq(Pieces) /\ Len(s) \in Nat /\ Len(u) \in Nat /\ Len(s) <= Len(u)
      /\ \A i \in 1 .. Len(s) : u[i] = s[i]
  BY ConcatProperties, LenProperties
<1>2. l \in p .. Len(s) /\ s[l].is \in Line /\ \A i \in p .. l - 1 : s[i].is \notin Line
  BY NextLineIs
<1>3. \/ k = 0 /\ \A i \in p .. Len(u) : u[i].is \notin Line
      \/ k \in p .. Len(u) /\ u[k].is \in Line /\ \A i \in p .. k - 1 : u[i].is \notin Line
  BY <1>1, NextLineIs
<1> HIDE DEF u, l, k
<1>4. l \in 1 .. Len(s) /\ l \in p .. Len(u) /\ u[l].is \in Line
  BY <1>1, <1>2
<1>5. k \in p .. Len(u) /\ u[k].is \in Line /\ \A i \in p .. k - 1 : u[i].is \notin Line
  BY <1>3, <1>4
<1>6. ~(l < k)
  BY <1>4, <1>5
<1>7. ~(k < l)
  <2>1. SUFFICES ASSUME k < l PROVE FALSE
    OBVIOUS
  <2>2. k \in p .. l - 1 /\ k \in 1 .. Len(s)
    BY <1>2, <1>5, <2>1
  <2> QED
    BY <1>1, <1>2, <1>5, <2>2
<1> QED
  BY <1>4, <1>5, <1>6, <1>7 DEF u, l, k

LEMMA TrailerStays ==
  ASSUME NEW s \in Seq(Pieces), NEW t \in Seq(Pieces), NEW p \in 1 .. Len(s) + 1,
         Trailer(s, p) # Incomplete
  PROVE  Trailer(s \o t, p) = Trailer(s, p)
<1> DEFINE N == Len(s) + 1
           u == s \o t
           S == {q \in 1 .. N : Trailer(s, q) # Incomplete => Trailer(u, q) = Trailer(s, q)}
<1>1. /\ u \in Seq(Pieces) /\ Len(s) \in Nat /\ N \in Nat /\ Len(u) \in Nat /\ Len(s) <= Len(u)
      /\ \A i \in 1 .. Len(s) : u[i] = s[i]
  BY ConcatProperties, LenProperties
<1>2. ASSUME NEW q \in 1 .. N, \A r \in q + 1 .. N : r \in S PROVE q \in S
  <2>1. SUFFICES ASSUME Trailer(s, q) # Incomplete PROVE Trailer(u, q) = Trailer(s, q)
    OBVIOUS
  <2>2. /\ Trailer(s, q) = IF IsTrailerLine(s, q) THEN Trailer(s, q + 1) ELSE TrailerEnd(s, q)
        /\ Trailer(u, q) = IF IsTrailerLine(u, q) THEN Trailer(u, q + 1) ELSE TrailerEnd(u, q)
    <3>1. q \in 1 .. Len(u) + 1
      BY <1>1
    <3> QED
      BY <1>1, <3>1, TrailerRound
  <2>3. CASE NextLine(s, q) = 0
    <3>1. ~IsTrailerLine(s, q) /\ TrailerEnd(s, q) = Incomplete
      BY <2>3 DEF IsTrailerLine, TrailerEnd
    <3> QED
      BY <2>1, <2>2, <3>1
  <2>4. CASE NextLine(s, q) # 0
    <3>1. NextLine(u, q) = NextLine(s, q)
      BY <1>1, <2>4, NextLineStays
    <3>2. NextLine(s, q) = q => q \in 1 .. Len(s) /\ u[q] = s[q]
      BY <1>1, <2>4, NextLineIs
    <3>3. IsTrailerLine(u, q) <=> IsTrailerLine(s, q)
      BY <3>1, <3>2 DEF IsTrailerLine
    <3>4. TrailerEnd(u, q) = TrailerEnd(s, q)
      BY <3>1, <3>2 DEF TrailerEnd
    <3>5. IsTrailerLine(s, q) => q + 1 \in q + 1 .. N
      BY <1>1, <3>2 DEF IsTrailerLine
    <3>6. IsTrailerLine(s, q) => q + 1 \in S
      BY <1>2, <3>5
    <3> QED
      BY <2>1, <2>2, <3>3, <3>4, <3>6
  <2> QED
    BY <2>3, <2>4
<1>3. \A q \in 1 .. N : q \in S
  <2> HIDE DEF N, S
  <2> QED
    BY <1>1, <1>2, FromTheEnd
<1> QED
  BY <1>3

LEMMA ChunksStay ==
  ASSUME NEW s \in Seq(Pieces), NEW t \in Seq(Pieces), NEW p \in 1 .. Len(s) + 1,
         ChunkedBody(s, p) # Incomplete
  PROVE  ChunkedBody(s \o t, p) = ChunkedBody(s, p)
<1> DEFINE N == Len(s) + 1
           u == s \o t
           S == {q \in 1 .. N :
                   ChunkedBody(s, q) # Incomplete => ChunkedBody(u, q) = ChunkedBody(s, q)}
<1>1. /\ u \in Seq(Pieces) /\ Len(s) \in Nat /\ N \in Nat /\ Len(u) \in Nat /\ Len(s) <= Len(u)
      /\ \A i \in 1 .. Len(s) : u[i] = s[i]
  BY ConcatProperties, LenProperties
<1>2. ASSUME NEW q \in 1 .. N, \A r \in q + 1 .. N : r \in S PROVE q \in S
  <2>1. SUFFICES ASSUME ChunkedBody(s, q) # Incomplete
                 PROVE  ChunkedBody(u, q) = ChunkedBody(s, q)
    OBVIOUS
  <2>2. /\ IsChunk(s, q) => ChunkEnd(s, q) \in q + 2 .. Len(s)
        /\ ChunkedBody(s, q) =
             IF IsChunk(s, q) THEN ChunkedBody(s, ChunkEnd(s, q) + 1) ELSE ChunksEnd(s, q)
        /\ ChunkedBody(u, q) =
             IF IsChunk(u, q) THEN ChunkedBody(u, ChunkEnd(u, q) + 1) ELSE ChunksEnd(u, q)
    <3>1. q \in 1 .. Len(u) + 1
      BY <1>1
    <3> QED
      BY <1>1, <3>1, ChunksRound
  <2> HIDE DEF u
  <2>5. q \in 1 .. Len(s) + 1 /\ q \in 1 .. Len(u) + 1
    BY <1>1
  <2>3. CASE NextLine(s, q) = 0
    <3>1. ~IsChunk(s, q) /\ ChunksEnd(s, q) = Incomplete
      BY <2>3, <2>5, ChunksEndIs DEF IsChunk, IsSize
    <3> QED
      BY <2>1, <2>2, <3>1
  <2>4. CASE NextLine(s, q) # 0
    <3>1. NextLine(u, q) = NextLine(s, q)
      BY <1>1, <2>4, NextLineStays DEF u
    <3>2. NextLine(s, q) = q => q \in 1 .. Len(s) /\ u[q] = s[q] /\ Stored(s[q]) \in Nat
      BY <1>1, <2>4, NextLineIs, StoredTypes
    <3>3. (IsSize(u, q) <=> IsSize(s, q)) /\ (IsSize(s, q) => u[q] = s[q])
      BY <3>1, <3>2 DEF IsSize
    <3>4. CASE ~IsSize(s, q)
      <4>1. ChunksEnd(s, q) = Throws /\ ChunksEnd(u, q) = Throws
        BY <1>1, <2>4, <2>5, <3>1, <3>3, <3>4, ChunksEndIs
      <4>2. ~IsChunk(s, q) /\ ~IsChunk(u, q)
        BY <3>3, <3>4 DEF IsChunk
      <4> QED
        BY <2>2, <4>1, <4>2
    <3>5. CASE IsSize(s, q) /\ Stored(s[q]) = 0
      <4>1. ChunksEnd(u, q) = Trailer(u, q + 1) /\ ChunksEnd(s, q) = Trailer(s, q + 1)
        BY <1>1, <2>4, <2>5, <3>1, <3>3, <3>5, ChunksEndIs
      <4>2. ~IsChunk(s, q) /\ ~IsChunk(u, q)
        <5>1. ~(0 > 0)
          OBVIOUS
        <5> QED
          BY <3>3, <3>5, <5>1 DEF IsChunk
      <4>3. q + 1 \in 1 .. Len(s) + 1
        BY <1>1, <3>2, <3>5 DEF IsSize
      <4> QED
        BY <2>1, <2>2, <4>1, <4>2, <4>3, TrailerStays DEF u
    <3>6. CASE IsSize(s, q) /\ Stored(s[q]) > 0
      <4> DEFINE e == ChunkEnd(s, q)
      <4>1. ChunkEnd(u, q) = e /\ e \in Nat /\ e > q
        BY <3>2, <3>3, <3>6 DEF ChunkEnd, IsSize
      <4>2. ChunksEnd(s, q) = DataEnd(s, q) /\ ChunksEnd(u, q) = DataEnd(u, q)
        BY <1>1, <2>4, <2>5, <3>1, <3>3, <3>6, ChunksEndIs
      <4> HIDE DEF e
      <4>3. CASE Overruns(s, e)
        <5>1. Overruns(u, e)
          BY <1>1, <4>1, <4>3, MaxIntAssumption DEF Overruns
        <5>2. ~IsChunk(s, q) /\ ~IsChunk(u, q)
          BY <4>1, <4>3, <5>1 DEF IsChunk, e
        <5>3. DataEnd(s, q) = Overrun /\ DataEnd(u, q) = Overrun
          BY <4>1, <4>3, <5>1, DataEndIs DEF e
        <5> QED
          BY <2>2, <4>2, <5>2, <5>3
      <4>4. CASE ~Overruns(s, e)
        <5>1. e \in 1 .. Len(s)
          BY <1>1, <2>1, <2>2, <4>1, <4>2, <4>4, DataEndIs DEF IsCutOff, e
        <5>2. u[e] = s[e] /\ e \in 1 .. Len(u)
          BY <1>1, <5>1
        <5>3. ~Overruns(u, e)
          BY <4>4, <5>1, <5>2 DEF Overruns
        <5>4. IsChunk(u, q) <=> IsChunk(s, q)
          BY <1>1, <3>3, <3>6, <4>1, <4>4, <5>1, <5>2, <5>3 DEF IsChunk, e
        <5>5. CASE IsChunk(s, q)
          <6>1. e + 1 \in q + 1 .. N
            BY <1>1, <4>1, <5>1
          <6>2. e + 1 \in S
            BY <1>2, <6>1
          <6> QED
            BY <2>1, <2>2, <4>1, <5>4, <5>5, <6>2 DEF e
        <5>6. CASE ~IsChunk(s, q)
          <6>1. ~IsCutOff(s, q)
            BY <2>1, <2>2, <4>2, <4>4, <5>6, DataEndIs DEF e
          <6>2. ~IsCutOff(u, q)
            BY <1>1, <4>1, <5>1, <5>2, <6>1 DEF IsCutOff, e
          <6>3. DataEnd(s, q) = Malformed /\ DataEnd(u, q) = Malformed
            BY <4>1, <4>4, <5>3, <6>1, <6>2, DataEndIs DEF e
          <6> QED
            BY <2>2, <4>2, <5>4, <5>6, <6>3
        <5> QED
          BY <5>5, <5>6
      <4> QED
        BY <4>3, <4>4
    <3> QED
      BY <3>2, <3>4, <3>5, <3>6 DEF IsSize
  <2> QED
    BY <2>3, <2>4
<1>3. \A q \in 1 .. N : q \in S
  <2> HIDE DEF N, S
  <2> QED
    BY <1>1, <1>2, FromTheEnd
<1> QED
  BY <1>3

-----------------------------------------------------------------------------
(* The header section and the framing of the body. *)

LEMMA HeaderEndIs ==
  ASSUME NEW s \in Seq(Pieces), HeaderEnds(s) # {}
  PROVE  LET m == Min(HeaderEnds(s))
         IN  /\ m \in 1 .. Len(s) - 1 /\ m \in HeaderEnds(s)
             /\ \A k \in HeaderEnds(s) : m <= k
<1>1. Len(s) \in Nat
  BY LenProperties
<1>2. HeaderEnds(s) \in SUBSET (1 .. Len(s) - 1)
  BY DEF HeaderEnds
<1>3. HeaderEnds(s) \in SUBSET Nat
  BY <1>1, <1>2
<1> QED
  BY <1>2, <1>3, MinOfNats

LEMMA HeaderEndStays ==
  ASSUME NEW s \in Seq(Pieces), NEW t \in Seq(Pieces), HeaderEnds(s) # {}
  PROVE  /\ HeaderEnds(s) \subseteq HeaderEnds(s \o t)
         /\ Min(HeaderEnds(s \o t)) = Min(HeaderEnds(s))
<1> DEFINE u == s \o t
           m == Min(HeaderEnds(s))
<1>1. /\ u \in Seq(Pieces) /\ Len(s) \in Nat /\ Len(u) \in Nat /\ Len(s) <= Len(u)
      /\ \A i \in 1 .. Len(s) : u[i] = s[i]
  BY ConcatProperties, LenProperties
<1>2. m \in 1 .. Len(s) - 1 /\ m \in HeaderEnds(s) /\ \A k \in HeaderEnds(s) : m <= k
  BY HeaderEndIs
<1> HIDE DEF u, m
<1>3. \A k \in 1 .. Len(s) - 1 : k \in HeaderEnds(u) <=> k \in HeaderEnds(s)
  BY <1>1 DEF HeaderEnds
<1>4. HeaderEnds(u) \in SUBSET Nat /\ HeaderEnds(s) \subseteq 1 .. Len(s) - 1
  BY <1>1 DEF HeaderEnds
<1>5. ASSUME NEW k \in HeaderEnds(u) PROVE m <= k
  <2>1. CASE k < Len(s)
    <3>1. k \in 1 .. Len(s) - 1
      BY <1>1, <1>5, <2>1 DEF HeaderEnds
    <3> QED
      BY <1>2, <1>3, <3>1
  <2>2. CASE ~(k < Len(s))
    BY <1>1, <1>2, <1>4, <2>2
  <2> QED
    BY <2>1, <2>2
<1>6. m \in HeaderEnds(u)
  BY <1>2, <1>3
<1>7. Min(HeaderEnds(u)) = m
  BY <1>4, <1>5, <1>6, MinIs
<1> QED
  BY <1>3, <1>4, <1>7 DEF u, m

LEMMA HeaderLinesAre ==
  ASSUME NEW s \in Seq(Pieces), HeaderEnds(s) # {}
  PROVE  /\ HeaderLines(s) \in Seq(Pieces)
         /\ Len(HeaderLines(s)) = Min(HeaderEnds(s)) - 1
         /\ \A i \in 1 .. Min(HeaderEnds(s)) - 1 : HeaderLines(s)[i] = s[i + 1]
<1> DEFINE m == Min(HeaderEnds(s))
<1>1. m \in 1 .. Len(s) - 1 /\ Len(s) \in Nat
  BY HeaderEndIs, LenProperties
<1>2. HeaderLines(s) = SubSeq(s, 2, m)
  BY DEF HeaderLines
<1> HIDE DEF m
<1>3. \A i \in 2 .. m : s[i] \in Pieces
  BY <1>1, ElementOfSeq
<1>4. /\ SubSeq(s, 2, m) \in Seq(Pieces)
      /\ Len(SubSeq(s, 2, m)) = IF 2 <= m THEN m - 2 + 1 ELSE 0
      /\ \A i \in 1 .. m - 2 + 1 : SubSeq(s, 2, m)[i] = s[2 + i - 1]
  BY <1>1, <1>3, SubSeqProperties
<1>5. Len(SubSeq(s, 2, m)) = m - 1 /\ \A i \in 1 .. m - 1 : SubSeq(s, 2, m)[i] = s[i + 1]
  BY <1>1, <1>4
<1> QED
  BY <1>2, <1>4, <1>5 DEF m

LEMMA HeaderLinesStay ==
  ASSUME NEW s \in Seq(Pieces), NEW t \in Seq(Pieces), HeaderEnds(s) # {}
  PROVE  HeaderLines(s \o t) = HeaderLines(s)
<1> DEFINE m == Min(HeaderEnds(s))
           u == s \o t
<1>1. m \in 1 .. Len(s) - 1 /\ Len(s) \in Nat
  BY HeaderEndIs, LenProperties
<1>2. HeaderEnds(u) # {} /\ Min(HeaderEnds(u)) = m /\ u \in Seq(Pieces)
  BY HeaderEndStays, ConcatProperties
<1>3. \A i \in 1 .. Len(s) : u[i] = s[i]
  BY ConcatProperties, LenProperties
<1> HIDE DEF u
<1>4. /\ HeaderLines(u) \in Seq(Pieces) /\ HeaderLines(s) \in Seq(Pieces)
      /\ Len(HeaderLines(u)) = m - 1 /\ Len(HeaderLines(s)) = m - 1
      /\ \A i \in 1 .. m - 1 : HeaderLines(u)[i] = u[i + 1] /\ HeaderLines(s)[i] = s[i + 1]
  BY <1>2, HeaderLinesAre
<1> HIDE DEF m
<1>5. \A i \in 1 .. m - 1 : HeaderLines(u)[i] = HeaderLines(s)[i]
  BY <1>1, <1>3, <1>4
<1>6. HeaderLines(u) = HeaderLines(s)
  BY <1>4, <1>5, SeqEqual
<1> QED
  BY <1>6 DEF u

(* The one length a header section in order may give. *)
DeclaredLength(h) == Max({Stored(h[i]) : i \in {j \in DOMAIN h : h[j].is = "length"}})

LEMMA OneLength ==
  ASSUME NEW h \in Seq(Pieces), HeadersOK(h), "length" \in Kinds(h)
  PROVE  DeclaredLength(h) \in Nat
<1>1. PICK i \in DOMAIN h : h[i].is = "length"
  BY DEF Kinds
<1>2. \A j \in DOMAIN h : h[j].is = "length" => j = i
  BY <1>1 DEF HeadersOK
<1>3. {Stored(h[k]) : k \in {j \in DOMAIN h : h[j].is = "length"}} = {Stored(h[i])}
  BY <1>1, <1>2
<1>4. Stored(h[i]) \in Nat
  BY <1>1, LenProperties, StoredTypes
<1>5. Max({Stored(h[i])}) = Stored(h[i])
  BY <1>4 DEF Max
<1> QED
  BY <1>3, <1>4, <1>5 DEF DeclaredLength

(* How a body is delimited, by the first that applies. *)
LEMMA FramingIs ==
  ASSUME NEW s \in Seq(Pieces), HeaderEnds(s) # {}
  PROVE  LET h == HeaderLines(s)
         IN  Framing(s) =
               IF "chunked" \in Kinds(h) THEN ChunkedBody(s, Len(h) + 3)
               ELSE IF {"gzip", "badlength"} \cap Kinds(h) # {} THEN Malformed
               ELSE IF "length" \in Kinds(h)
                    THEN LengthBody(s, Len(h) + 3, DeclaredLength(h))
                    ELSE Complete(Len(h) + 3 - 1)
<1> DEFINE h == HeaderLines(s)
           length == {Stored(h[i]) : i \in {j \in DOMAIN h : h[j].is = "length"}}
<1>1. "length" \in Kinds(h) <=> length # {}
  BY DEF Kinds
<1>2. DeclaredLength(h) = Max(length)
  BY DEF DeclaredLength
<1>3. Framing(s) =
        CASE "chunked" \in Kinds(h) -> ChunkedBody(s, Len(h) + 3)
          [] "chunked" \notin Kinds(h) /\ "gzip" \in Kinds(h) -> Malformed
          [] Kinds(h) \cap {"chunked", "gzip"} = {} /\ "badlength" \in Kinds(h) -> Malformed
          [] Kinds(h) \cap {"chunked", "gzip", "badlength"} = {} /\ length # {} ->
               LengthBody(s, Len(h) + 3, Max(length))
          [] OTHER -> Complete(Len(h) + 3 - 1)
  BY DEF Framing
<1> HIDE DEF h, length
<1>4. CASE "chunked" \in Kinds(h)
  BY <1>3, <1>4 DEF h
<1>5. CASE "chunked" \notin Kinds(h) /\ "gzip" \in Kinds(h)
  BY <1>3, <1>5 DEF h
<1>6. CASE {"chunked", "gzip"} \cap Kinds(h) = {} /\ "badlength" \in Kinds(h)
  BY <1>3, <1>6 DEF h
<1>7. CASE {"chunked", "gzip", "badlength"} \cap Kinds(h) = {}
  BY <1>1, <1>2, <1>3, <1>7 DEF h
<1> QED
  BY <1>4, <1>5, <1>6, <1>7

(* A body by its length, by the first that applies. *)
LEMMA LengthBodyIs ==
  ASSUME NEW s \in Seq(Pieces), NEW start \in Nat, NEW n \in Nat
  PROVE  LengthBody(s, start, n) =
           IF Overruns(s, start - 1 + n) THEN Overrun
           ELSE IF start - 1 + n > Len(s) THEN Incomplete ELSE Complete(start - 1 + n)
<1> DEFINE e == start - 1 + n
<1>0. Len(s) \in Nat /\ e \in Int
  BY LenProperties
<1>1. LengthBody(s, start, n) =
        CASE Overruns(s, e) -> Overrun
          [] ~Overruns(s, e) /\ e > Len(s) -> Incomplete
          [] ~Overruns(s, e) /\ e <= Len(s) -> Complete(e)
  BY DEF LengthBody
<1> HIDE DEF e
<1>2. CASE Overruns(s, e)
  BY <1>1, <1>2 DEF e
<1>3. CASE ~Overruns(s, e) /\ e > Len(s)
  BY <1>1, <1>3 DEF e
<1>4. CASE ~Overruns(s, e) /\ ~(e > Len(s))
  <2>1. e <= Len(s)
    BY <1>0, <1>4
  <2> QED
    BY <1>1, <1>4, <2>1 DEF e
<1> QED
  BY <1>2, <1>3, <1>4

LEMMA FramingVerdict ==
  ASSUME NEW s \in Seq(Pieces), HeaderEnds(s) # {}, HeadersOK(HeaderLines(s))
  PROVE  Framing(s) \in Verdict(s, Min(HeaderEnds(s)) + 1)
<1> DEFINE m == Min(HeaderEnds(s))
           h == HeaderLines(s)
<1>1. m \in 1 .. Len(s) - 1 /\ Len(s) \in Nat
  BY HeaderEndIs, LenProperties
<1>2. h \in Seq(Pieces) /\ Len(h) = m - 1
  BY HeaderLinesAre
<1>3. /\ Framing(s) =
           IF "chunked" \in Kinds(h) THEN ChunkedBody(s, Len(h) + 3)
           ELSE IF {"gzip", "badlength"} \cap Kinds(h) # {} THEN Malformed
           ELSE IF "length" \in Kinds(h)
                THEN LengthBody(s, Len(h) + 3, DeclaredLength(h))
                ELSE Complete(Len(h) + 3 - 1)
      /\ "length" \in Kinds(h) => DeclaredLength(h) \in Nat
  BY <1>2, FramingIs, OneLength
<1> HIDE DEF m, h
<1>4. Len(h) + 3 \in 1 .. Len(s) + 1 /\ Len(h) + 3 = m + 2 /\ Len(h) + 3 - 1 = m + 1
  BY <1>1, <1>2
<1>5. ChunkedBody(s, Len(h) + 3) \in Verdict(s, m + 1)
  <2>1. Verdict(s, m + 2) \subseteq Verdict(s, m + 1)
    BY <1>1, VerdictGrows
  <2> QED
    BY <1>4, <2>1, ChunksVerdict
<1>6. ASSUME NEW n \in Nat PROVE LengthBody(s, Len(h) + 3, n) \in Verdict(s, m + 1)
  <2> DEFINE e == Len(h) + 3 - 1 + n
  <2>1. Len(h) + 3 \in Nat /\ e = m + 1 + n
    BY <1>1, <1>4
  <2>2. LengthBody(s, Len(h) + 3, n) =
          IF Overruns(s, e) THEN Overrun ELSE IF e > Len(s) THEN Incomplete ELSE Complete(e)
    <3> DEFINE start == Len(h) + 3
    <3>1. start \in Nat /\ e = start - 1 + n
      BY <2>1
    <3> HIDE DEF start, e
    <3>2. LengthBody(s, start, n) =
            IF Overruns(s, e) THEN Overrun ELSE IF e > Len(s) THEN Incomplete ELSE Complete(e)
      BY <3>1, LengthBodyIs
    <3> QED
      BY <3>2 DEF start
  <2> HIDE DEF e
  <2>3. e > Len(s) \/ e \in m + 1 .. Len(s)
    BY <1>1, <2>1
  <2> QED
    BY <2>2, <2>3 DEF Verdict
<1>7. Complete(Len(h) + 3 - 1) \in Verdict(s, m + 1) /\ Malformed \in Verdict(s, m + 1)
  <2>1. m + 1 \in m + 1 .. Len(s)
    BY <1>1
  <2> QED
    BY <1>4, <2>1 DEF Verdict
<1> QED
  BY <1>3, <1>5, <1>6, <1>7 DEF m

LEMMA FramingStays ==
  ASSUME NEW s \in Seq(Pieces), NEW t \in Seq(Pieces),
         HeaderEnds(s) # {}, HeadersOK(HeaderLines(s)), Framing(s) # Incomplete
  PROVE  Framing(s \o t) = Framing(s)
<1> DEFINE u == s \o t
           h == HeaderLines(s)
           m == Min(HeaderEnds(s))
<1>1. m \in 1 .. Len(s) - 1 /\ Len(s) \in Nat /\ h \in Seq(Pieces) /\ Len(h) = m - 1
  BY HeaderEndIs, HeaderLinesAre, LenProperties
<1>2. u \in Seq(Pieces) /\ Len(u) \in Nat /\ Len(s) <= Len(u)
  BY ConcatProperties, LenProperties
<1>3. HeaderEnds(u) # {} /\ HeaderLines(u) = h
  BY HeaderEndStays, HeaderLinesStay
<1>4. ASSUME NEW v \in {s, u}
      PROVE  Framing(v) =
               IF "chunked" \in Kinds(h) THEN ChunkedBody(v, Len(h) + 3)
               ELSE IF {"gzip", "badlength"} \cap Kinds(h) # {} THEN Malformed
               ELSE IF "length" \in Kinds(h)
                    THEN LengthBody(v, Len(h) + 3, DeclaredLength(h))
                    ELSE Complete(Len(h) + 3 - 1)
  <2>1. v \in Seq(Pieces) /\ HeaderEnds(v) # {} /\ HeaderLines(v) = h
    BY <1>2, <1>3
  <2> HIDE DEF u, h
  <2> QED
    BY <2>1, FramingIs
<1>5. "length" \in Kinds(h) => DeclaredLength(h) \in Nat
  BY <1>1, OneLength
<1>6. Len(h) + 3 \in 1 .. Len(s) + 1
  BY <1>1
<1>7. ChunkedBody(s, Len(h) + 3) # Incomplete
        => ChunkedBody(u, Len(h) + 3) = ChunkedBody(s, Len(h) + 3)
  <2> HIDE DEF h
  <2> QED
    BY <1>6, ChunksStay
<1>8. ASSUME NEW n \in Nat, LengthBody(s, Len(h) + 3, n) # Incomplete
      PROVE  LengthBody(u, Len(h) + 3, n) = LengthBody(s, Len(h) + 3, n)
  <2> DEFINE start == Len(h) + 3
  <2>1. start \in Nat /\ Len(s) \in Nat /\ Len(u) \in Nat /\ Len(s) <= Len(u)
    BY <1>1, <1>2
  <2> DEFINE e == start - 1 + n
  <2>2. ASSUME NEW v \in {s, u}
        PROVE  LengthBody(v, start, n) =
                 IF Overruns(v, e) THEN Overrun
                 ELSE IF e > Len(v) THEN Incomplete ELSE Complete(e)
    <3>1. v \in Seq(Pieces)
      BY <1>2
    <3> HIDE DEF u, start
    <3> QED
      BY <2>1, <3>1, LengthBodyIs
  <2>3. e \in Int /\ LengthBody(s, start, n) # Incomplete
    BY <1>8, <2>1
  <2> HIDE DEF h, u, start, e
  <2>4. Overruns(s, e) \/ e <= Len(s)
    BY <2>1, <2>2, <2>3
  <2>5. Overruns(s, e) <=> Overruns(u, e)
    BY <2>1, <2>3, <2>4, MaxIntAssumption DEF Overruns
  <2>6. ~Overruns(s, e) => ~(e > Len(s)) /\ ~(e > Len(u))
    BY <2>1, <2>3, <2>4
  <2>7. LengthBody(u, start, n) = LengthBody(s, start, n)
    BY <2>2, <2>5, <2>6
  <2> QED
    BY <2>7 DEF start
<1> HIDE DEF u, h
<1> QED
  <2>1. Framing(u) = Framing(s)
    BY <1>4, <1>5, <1>7, <1>8
  <2> QED
    BY <2>1 DEF u

-----------------------------------------------------------------------------
(* What is before the first start line. *)

LEMMA FromIs ==
  ASSUME NEW s \in Seq(Pieces), NEW kinds, Kinds(s) \cap kinds # {}
  PROVE  \E k \in 1 .. Len(s) :
           /\ From(s, kinds) = SubSeq(s, k, Len(s))
           /\ From(s, kinds) \in Seq(Pieces)
           /\ Len(From(s, kinds)) = Len(s) - k + 1
           /\ \A i \in 1 .. Len(s) - k + 1 : From(s, kinds)[i] = s[k + i - 1]
           /\ s[k].is \in kinds
           /\ \A i \in 1 .. k - 1 : s[i].is \notin kinds
<1> DEFINE at == {i \in DOMAIN s : s[i].is \in kinds}
           k == Min(at)
<1>1. Len(s) \in Nat /\ DOMAIN s = 1 .. Len(s)
  BY LenProperties
<1>2. at # {} /\ at \in SUBSET Nat
  BY <1>1 DEF Kinds
<1>3. k \in at /\ \A i \in at : k <= i
  <2> HIDE DEF at
  <2> QED
    BY <1>2, MinOfNats
<1>4. From(s, kinds) = SubSeq(s, k, Len(s))
  BY DEF From
<1> HIDE DEF k
<1>5. k \in 1 .. Len(s) /\ s[k].is \in kinds
  BY <1>1, <1>3
<1>6. ASSUME NEW i \in 1 .. k - 1 PROVE s[i].is \notin kinds
  <2>1. i \in 1 .. Len(s) /\ ~(k <= i)
    BY <1>1, <1>5
  <2> QED
    BY <1>1, <1>3, <2>1
<1>7. \A i \in k .. Len(s) : s[i] \in Pieces
  BY <1>1, <1>5, ElementOfSeq
<1>8. /\ SubSeq(s, k, Len(s)) \in Seq(Pieces)
      /\ Len(SubSeq(s, k, Len(s))) = Len(s) - k + 1
      /\ \A i \in 1 .. Len(s) - k + 1 : SubSeq(s, k, Len(s))[i] = s[k + i - 1]
  BY <1>1, <1>5, <1>7, SubSeqProperties
<1> QED
  BY <1>4, <1>5, <1>6, <1>8

LEMMA FromIsFrom ==
  ASSUME NEW s \in Seq(Pieces), NEW kinds, NEW k \in 1 .. Len(s),
         s[k].is \in kinds, \A i \in 1 .. k - 1 : s[i].is \notin kinds
  PROVE  From(s, kinds) = SubSeq(s, k, Len(s))
<1> DEFINE at == {i \in DOMAIN s : s[i].is \in kinds}
<1>1. Len(s) \in Nat /\ DOMAIN s = 1 .. Len(s)
  BY LenProperties
<1>2. k \in at /\ at \in SUBSET Nat
  BY <1>1
<1>3. ASSUME NEW i \in at PROVE k <= i
  BY <1>1, <1>3
<1>4. Min(at) = k
  <2> HIDE DEF at
  <2> QED
    BY <1>2, <1>3, MinIs
<1> QED
  BY <1>4 DEF From

(* A text that begins with a start line stays as it is. *)
LEMMA FromStart ==
  ASSUME NEW s \in Seq(Pieces), NEW kinds, s # <<>>, s[1].is \in kinds
  PROVE  From(s, kinds) = s /\ Kinds(s) \cap kinds # {}
<1>1. 1 \in 1 .. Len(s) /\ DOMAIN s = 1 .. Len(s)
  BY EmptySeq, LenProperties
<1>2. From(s, kinds) = SubSeq(s, 1, Len(s))
  BY <1>1, FromIsFrom
<1>3. Kinds(s) \cap kinds # {}
  BY <1>1 DEF Kinds
<1> QED
  BY <1>2, <1>3, SubSeqFull

LEMMA FromBegins ==
  ASSUME NEW s \in Seq(Pieces), NEW kinds, Kinds(s) \cap kinds # {}
  PROVE  /\ From(s, kinds) \in Seq(Pieces) /\ From(s, kinds) # <<>>
         /\ From(s, kinds)[1].is \in kinds
         /\ From(From(s, kinds), kinds) = From(s, kinds)
<1> DEFINE f == From(s, kinds)
<1>1. PICK k \in 1 .. Len(s) :
        /\ f \in Seq(Pieces)
        /\ Len(f) = Len(s) - k + 1
        /\ \A i \in 1 .. Len(s) - k + 1 : f[i] = s[k + i - 1]
        /\ s[k].is \in kinds
  <2> HIDE DEF f
  <2> QED
    BY FromIs DEF f
<1> HIDE DEF f
<1>2. Len(s) \in Nat
  BY LenProperties
<1>3. Len(f) >= 1 /\ f[1] = s[k]
  BY <1>1, <1>2
<1>4. f # <<>>
  BY <1>3
<1>5. From(f, kinds) = f
  BY <1>1, <1>3, <1>4, FromStart
<1> QED
  BY <1>1, <1>3, <1>4, <1>5 DEF f

LEMMA KindsStay ==
  ASSUME NEW s \in Seq(Pieces), NEW t \in Seq(Pieces)
  PROVE  Kinds(s) \subseteq Kinds(s \o t)
<1>1. /\ Len(s) \in Nat /\ Len(s \o t) \in Nat /\ Len(s) <= Len(s \o t)
      /\ DOMAIN s = 1 .. Len(s) /\ DOMAIN (s \o t) = 1 .. Len(s \o t)
      /\ \A i \in 1 .. Len(s) : (s \o t)[i] = s[i]
  BY ConcatProperties, LenProperties
<1>2. ASSUME NEW i \in DOMAIN s PROVE i \in DOMAIN (s \o t) /\ s[i].is = (s \o t)[i].is
  BY <1>1
<1> QED
  BY <1>2 DEF Kinds

LEMMA FromStays ==
  ASSUME NEW s \in Seq(Pieces), NEW t \in Seq(Pieces), NEW kinds, Kinds(s) \cap kinds # {}
  PROVE  From(s \o t, kinds) = From(s, kinds) \o t
<1> DEFINE u == s \o t
<1>1. PICK k \in 1 .. Len(s) :
        /\ From(s, kinds) = SubSeq(s, k, Len(s))
        /\ From(s, kinds) \in Seq(Pieces)
        /\ Len(From(s, kinds)) = Len(s) - k + 1
        /\ \A i \in 1 .. Len(s) - k + 1 : From(s, kinds)[i] = s[k + i - 1]
        /\ s[k].is \in kinds
        /\ \A i \in 1 .. k - 1 : s[i].is \notin kinds
  BY FromIs
<1>2. /\ u \in Seq(Pieces) /\ Len(s) \in Nat /\ Len(t) \in Nat /\ Len(u) = Len(s) + Len(t)
      /\ \A i \in 1 .. Len(s) + Len(t) : u[i] = IF i <= Len(s) THEN s[i] ELSE t[i - Len(s)]
  BY ConcatProperties, LenProperties
<1> HIDE DEF u
<1>3. k \in 1 .. Len(u) /\ u[k].is \in kinds /\ \A i \in 1 .. k - 1 : u[i].is \notin kinds
  BY <1>1, <1>2
<1>4. From(u, kinds) = SubSeq(u, k, Len(u))
  BY <1>2, <1>3, FromIsFrom
<1>5. \A i \in k .. Len(u) : u[i] \in Pieces
  BY <1>2, <1>3, ElementOfSeq
<1>6. /\ SubSeq(u, k, Len(u)) \in Seq(Pieces)
      /\ Len(SubSeq(u, k, Len(u))) = Len(u) - k + 1
      /\ \A i \in 1 .. Len(u) - k + 1 : SubSeq(u, k, Len(u))[i] = u[k + i - 1]
  BY <1>2, <1>3, <1>5, SubSeqProperties
<1> DEFINE f == From(s, kinds)
           g == SubSeq(u, k, Len(u))
<1>7. /\ f \o t \in Seq(Pieces) /\ Len(f \o t) = Len(f) + Len(t)
      /\ \A i \in 1 .. Len(f) + Len(t) : (f \o t)[i] = IF i <= Len(f) THEN f[i] ELSE t[i - Len(f)]
  BY <1>1, ConcatProperties
<1> HIDE DEF f, g
<1>8. Len(g) = Len(f \o t)
  BY <1>1, <1>2, <1>6, <1>7 DEF f, g
<1>9. ASSUME NEW i \in 1 .. Len(g) PROVE g[i] = (f \o t)[i]
  <2> DEFINE j == k + i - 1
  <2>1. i \in 1 .. Len(u) - k + 1 /\ g[i] = u[j]
    BY <1>6 DEF g
  <2>2. Len(f) = Len(s) - k + 1 /\ i \in 1 .. Len(f) + Len(t)
    BY <1>1, <1>7, <1>8 DEF f
  <2>3. CASE i <= Len(f)
    <3>1. j \in 1 .. Len(s) + Len(t) /\ j <= Len(s) /\ i \in 1 .. Len(s) - k + 1
      BY <1>2, <2>2, <2>3
    <3>2. f[i] = s[j]
      BY <1>1, <3>1 DEF f
    <3>3. g[i] = s[j]
      <4> HIDE DEF j
      <4> QED
        BY <1>2, <2>1, <3>1
    <3> QED
      BY <1>7, <2>2, <2>3, <3>2, <3>3
  <2>4. CASE ~(i <= Len(f))
    <3>1. j \in 1 .. Len(s) + Len(t) /\ ~(j <= Len(s)) /\ j - Len(s) = i - Len(f)
      BY <1>2, <2>2, <2>4
    <3>2. g[i] = t[i - Len(f)]
      <4>1. u[j] = t[j - Len(s)]
        <5> HIDE DEF j
        <5> QED
          BY <1>2, <3>1
      <4> QED
        BY <2>1, <3>1, <4>1
    <3> QED
      BY <1>7, <2>2, <2>4, <3>2
  <2> QED
    BY <2>3, <2>4
<1>10. g = f \o t
  BY <1>6, <1>7, <1>8, <1>9, SeqEqual DEF g
<1> QED
  BY <1>4, <1>10 DEF f, g, u

-----------------------------------------------------------------------------
(* Cutting a text in two. *)

(* \o as the provers are to see it when there are several of them.         *)
Join(a, b) == a \o b

LEMMA JoinAssociates ==
  ASSUME NEW S, NEW a \in Seq(S), NEW b \in Seq(S), NEW x \in Seq(S)
  PROVE  Join(Join(a, b), x) = Join(a, Join(b, x))
BY ConcatAssociative DEF Join

LEMMA Cut ==
  ASSUME NEW S, NEW s \in Seq(S), NEW n \in 0 .. Len(s)
  PROVE  /\ SubSeq(s, 1, n) \in Seq(S) /\ Len(SubSeq(s, 1, n)) = n
         /\ SubSeq(s, n + 1, Len(s)) \in Seq(S)
         /\ SubSeq(s, 1, n) \o SubSeq(s, n + 1, Len(s)) = s
         /\ n = 0 => SubSeq(s, 1, n) = <<>> /\ SubSeq(s, n + 1, Len(s)) = s
<1>1. Len(s) \in Nat
  BY LenProperties
<1>2. SubSeq(s, 1, n) \in Seq(S) /\ Len(SubSeq(s, 1, n)) = n
  <2>1. \A i \in 1 .. n : s[i] \in S
    BY <1>1, ElementOfSeq
  <2>2. /\ SubSeq(s, 1, n) \in Seq(S)
        /\ Len(SubSeq(s, 1, n)) = IF 1 <= n THEN n - 1 + 1 ELSE 0
    BY <1>1, <2>1, SubSeqProperties
  <2> QED
    BY <2>2
<1>3. SubSeq(s, n + 1, Len(s)) \in Seq(S)
  <2>1. \A i \in n + 1 .. Len(s) : s[i] \in S
    BY <1>1, ElementOfSeq
  <2> QED
    BY <1>1, <2>1, SubSeqProperties
<1>4. SubSeq(s, 1, n) \o SubSeq(s, n + 1, Len(s)) = SubSeq(s, 1, Len(s))
  <2>1. 1 \in 1 .. Len(s) + 1 /\ n \in 1 - 1 .. Len(s) /\ Len(s) \in n .. Len(s)
    BY <1>1
  <2> QED
    BY <2>1, ConcatAdjacentSubSeq
<1>5. SubSeq(s, 1, Len(s)) = s
  BY SubSeqFull
<1>6. n = 0 => SubSeq(s, 1, n) = <<>> /\ SubSeq(s, n + 1, Len(s)) = s
  <2>1. SubSeq(s, 1, 0) = <<>>
    BY SubSeqEmpty
  <2>2. 0 + 1 = 1
    OBVIOUS
  <2> QED
    BY <1>5, <2>1, <2>2, Zenon
<1> QED
  BY <1>2, <1>3, <1>4, <1>5, <1>6

LEMMA Halves ==
  ASSUME NEW S, NEW a \in Seq(S), NEW b \in Seq(S)
  PROVE  /\ SubSeq(a \o b, 1, Len(a)) = a
         /\ SubSeq(a \o b, Len(a) + 1, Len(a \o b)) = b
<1> DEFINE u == a \o b
           n == Len(a)
<1>1. /\ u \in Seq(S) /\ n \in Nat /\ Len(b) \in Nat /\ Len(u) = n + Len(b)
      /\ \A i \in 1 .. n + Len(b) : u[i] = IF i <= n THEN a[i] ELSE b[i - n]
  BY ConcatProperties, LenProperties
<1> HIDE DEF u, n
<1>2. /\ SubSeq(u, 1, n) \in Seq(S) /\ Len(SubSeq(u, 1, n)) = n
      /\ SubSeq(u, n + 1, Len(u)) \in Seq(S)
      /\ SubSeq(u, 1, n) \o SubSeq(u, n + 1, Len(u)) = u
  <2>1. n \in 0 .. Len(u)
    BY <1>1
  <2> QED
    BY <1>1, <2>1, Cut
<1>3. SubSeq(u, 1, n) = a
  <2>1. \A i \in 1 .. n : u[i] = a[i] /\ u[i] \in S
    BY <1>1, ElementOfSeq DEF n
  <2>2. \A i \in 1 .. n - 1 + 1 : SubSeq(u, 1, n)[i] = u[1 + i - 1]
    BY <1>1, <2>1, SubSeqProperties
  <2>3. \A i \in 1 .. n : SubSeq(u, 1, n)[i] = a[i]
    BY <1>1, <2>1, <2>2
  <2> QED
    BY <1>2, <2>3, SeqEqual DEF n
<1>4. a \o SubSeq(u, n + 1, Len(u)) = a \o b
  BY <1>2, <1>3 DEF u
<1>5. SubSeq(u, n + 1, Len(u)) = b
  <2> DEFINE v == SubSeq(u, n + 1, Len(u))
  <2>1. v \in Seq(S)
    BY <1>2
  <2>2. a \o v = a \o b
    BY <1>4
  <2> HIDE DEF u, v
  <2>3. v = b
    BY <2>1, <2>2, ConcatSimplifications, Zenon
  <2> QED
    BY <2>3 DEF v
<1> QED
  BY <1>3, <1>5 DEF u, n

LEMMA CutOfMore ==
  ASSUME NEW S, NEW s \in Seq(S), NEW t \in Seq(S), NEW n \in 0 .. Len(s)
  PROVE  /\ SubSeq(s \o t, 1, n) = SubSeq(s, 1, n)
         /\ SubSeq(s \o t, n + 1, Len(s \o t)) = SubSeq(s, n + 1, Len(s)) \o t
<1> DEFINE a == SubSeq(s, 1, n)
           b == SubSeq(s, n + 1, Len(s))
<1>1. a \in Seq(S) /\ b \in Seq(S) /\ Len(a) = n /\ a \o b = s
  BY Cut
<1> HIDE DEF a, b
<1>2. s \o t = a \o (b \o t)
  <2>1. (a \o b) \o t = a \o (b \o t)
    <3>1. a \in Seq(S) /\ b \in Seq(S)
      BY <1>1
    <3> QED
      <4>1. Join(Join(a, b), t) = Join(a, Join(b, t))
        BY <3>1, JoinAssociates
      <4> QED
        BY <4>1 DEF Join
  <2> QED
    BY <1>1, <2>1
<1>3. b \o t \in Seq(S)
  BY <1>1, ConcatProperties
<1>4. /\ SubSeq(a \o (b \o t), 1, Len(a)) = a
      /\ SubSeq(a \o (b \o t), Len(a) + 1, Len(a \o (b \o t))) = b \o t
  BY <1>1, <1>3, Halves
<1> QED
  BY <1>1, <1>2, <1>4 DEF a, b

-----------------------------------------------------------------------------
(* parse_request. *)

LEMMA RequestEndVerdict ==
  ASSUME NEW s \in Seq(Pieces)
  PROVE  /\ RequestEnd(s) \in Verdict(s, 2)
         /\ RequestEnd(s) # Malformed => HeaderEnds(s) # {}
<1>1. CASE RequestEnd(s) = Malformed
  BY <1>1 DEF Verdict
<1>2. CASE RequestEnd(s) # Malformed
  <2>1. /\ HeaderEnds(s) # {} /\ HeadersOK(HeaderLines(s))
        /\ RequestEnd(s) = Framing(s)
    BY <1>2 DEF RequestEnd
  <2>2. Framing(s) \in Verdict(s, Min(HeaderEnds(s)) + 1)
    BY <2>1, FramingVerdict
  <2>3. Min(HeaderEnds(s)) + 1 \in Nat /\ 2 <= Min(HeaderEnds(s)) + 1
    BY <2>1, HeaderEndIs
  <2>4. Verdict(s, Min(HeaderEnds(s)) + 1) \subseteq Verdict(s, 2)
    BY <2>3, VerdictGrows
  <2> QED
    BY <2>1, <2>2, <2>4
<1> QED
  BY <1>1, <1>2

LEMMA RequestEndStays ==
  ASSUME NEW s \in Seq(Pieces), NEW t \in Seq(Pieces),
         HeaderEnds(s) # {}, RequestEnd(s) # Incomplete
  PROVE  RequestEnd(s \o t) = RequestEnd(s)
<1>1. HeaderEnds(s \o t) # {} /\ HeaderLines(s \o t) = HeaderLines(s)
  BY HeaderEndStays, HeaderLinesStay
<1>2. (s \o t)[1] = s[1]
  <2>1. Len(s) \in Nat /\ 1 \in 1 .. Len(s)
    BY HeaderEndIs, LenProperties
  <2> QED
    BY <2>1, ConcatProperties, LenProperties
<1>3. CASE \/ s[1].is = "badline" \/ ~HeadersOK(HeaderLines(s))
           \/ "Host" \notin Kinds(HeaderLines(s))
  BY <1>1, <1>2, <1>3 DEF RequestEnd
<1>4. CASE ~(\/ s[1].is = "badline" \/ ~HeadersOK(HeaderLines(s))
             \/ "Host" \notin Kinds(HeaderLines(s)))
  <2>1. RequestEnd(s) = Framing(s) /\ RequestEnd(s \o t) = Framing(s \o t)
    BY <1>1, <1>2, <1>4 DEF RequestEnd
  <2> QED
    BY <1>4, <2>1, FramingStays
<1> QED
  BY <1>3, <1>4

(* The three cases of parse_request. *)
LEMMA RequestCases ==
  ASSUME NEW r \in Seq(Pieces)
  PROVE  LET s == From(r, RequestLine)
             f == RequestEnd(s)
         IN  \/ /\ HeaderEnds(r) = {}
                /\ parse_request(r) =
                     [outcome |-> "incomplete", request |-> <<>>, rest |-> r]
             \/ /\ HeaderEnds(r) # {} /\ Kinds(r) \cap RequestLine = {}
                /\ parse_request(r) =
                     [outcome |-> "malformed", request |-> <<>>, rest |-> r]
             \/ /\ HeaderEnds(r) # {} /\ Kinds(r) \cap RequestLine # {}
                /\ s \in Seq(Pieces) /\ s # <<>> /\ s[1].is \in RequestLine
                /\ f \in Verdict(s, 2) /\ f.at \in 0 .. Len(s)
                /\ parse_request(r) =
                     [outcome |-> f.outcome, request |-> SubSeq(s, 1, f.at),
                      rest |-> SubSeq(s, f.at + 1, Len(s))]
<1> DEFINE s == From(r, RequestLine)
           f == RequestEnd(s)
<1>1. CASE HeaderEnds(r) = {}
  BY <1>1 DEF parse_request
<1>2. CASE HeaderEnds(r) # {} /\ Kinds(r) \cap RequestLine = {}
  BY <1>2 DEF parse_request
<1>3. CASE HeaderEnds(r) # {} /\ Kinds(r) \cap RequestLine # {}
  <2>1. parse_request(r) = [outcome |-> f.outcome, request |-> SubSeq(s, 1, f.at),
                            rest |-> SubSeq(s, f.at + 1, Len(s))]
    BY <1>3 DEF parse_request
  <2>2. s \in Seq(Pieces) /\ s # <<>> /\ s[1].is \in RequestLine
    BY <1>3, FromBegins
  <2> HIDE DEF s
  <2>3. f \in Verdict(s, 2)
    BY <2>2, RequestEndVerdict
  <2>4. f.at \in 0 .. Len(s)
    <3> HIDE DEF f
    <3> QED
      BY <2>2, <2>3, VerdictIs
  <2> QED
    BY <1>3, <2>1, <2>2, <2>3, <2>4 DEF s
<1> QED
  BY <1>1, <1>2, <1>3

(* What comes out of parse_request: of a text r, what is before the first   *)
(* method is dropped, and the rest is cut into the request and what follows. *)
LEMMA RequestIsCutOff ==
  ASSUME NEW r \in Seq(Pieces)
  PROVE  LET p == parse_request(r)
         IN  /\ p.outcome \in Outcomes
             /\ p.request \in Seq(Pieces) /\ p.rest \in Seq(Pieces)
             /\ p.outcome # "parsed" <=> p.request = <<>>
             /\ r # <<>> /\ r[1].is \in RequestLine => r = p.request \o p.rest
<1> DEFINE s == From(r, RequestLine)
           f == RequestEnd(s)
           p == parse_request(r)
<1>1. ASSUME p.request = <<>>, p.rest = r, p.outcome \in {"incomplete", "malformed"}
      PROVE  /\ p.outcome \in Outcomes
             /\ p.request \in Seq(Pieces) /\ p.rest \in Seq(Pieces)
             /\ p.outcome # "parsed" <=> p.request = <<>>
             /\ r = p.request \o p.rest
  <2>1. <<>> \in Seq(Pieces) /\ <<>> \o r = r
    BY EmptySeq, ConcatEmptySeq
  <2> HIDE DEF p
  <2> QED
    BY <1>1, <2>1 DEF Outcomes
<1>2. ASSUME s \in Seq(Pieces), s # <<>>, f \in Verdict(s, 2), f.at \in 0 .. Len(s),
             p = [outcome |-> f.outcome, request |-> SubSeq(s, 1, f.at),
                  rest |-> SubSeq(s, f.at + 1, Len(s))]
      PROVE  /\ p.outcome \in Outcomes
             /\ p.request \in Seq(Pieces) /\ p.rest \in Seq(Pieces)
             /\ p.outcome # "parsed" <=> p.request = <<>>
             /\ s = p.request \o p.rest
  <2> HIDE DEF s, f, p
  <2>1. /\ p.outcome = f.outcome /\ p.request = SubSeq(s, 1, f.at)
        /\ p.rest = SubSeq(s, f.at + 1, Len(s))
    BY <1>2
  <2>2. /\ f.outcome \in Outcomes
        /\ f.outcome = "parsed" => f.at \in 2 .. Len(s)
        /\ f.outcome # "parsed" => f.at = 0
    BY <1>2, VerdictIs
  <2>3. /\ p.request \in Seq(Pieces) /\ p.rest \in Seq(Pieces)
        /\ p.request \o p.rest = s /\ Len(p.request) = f.at
        /\ f.at = 0 => p.request = <<>>
    <3> DEFINE n == f.at
    <3>1. /\ SubSeq(s, 1, n) \in Seq(Pieces) /\ Len(SubSeq(s, 1, n)) = n
          /\ SubSeq(s, n + 1, Len(s)) \in Seq(Pieces)
          /\ SubSeq(s, 1, n) \o SubSeq(s, n + 1, Len(s)) = s
          /\ n = 0 => SubSeq(s, 1, n) = <<>>
      <4>1. n \in 0 .. Len(s) /\ s \in Seq(Pieces)
        BY <1>2
      <4> HIDE DEF n
      <4>2. /\ SubSeq(s, 1, n) \in Seq(Pieces) /\ Len(SubSeq(s, 1, n)) = n
            /\ SubSeq(s, n + 1, Len(s)) \in Seq(Pieces)
        BY <4>1, Cut
      <4>3. SubSeq(s, 1, n) \o SubSeq(s, n + 1, Len(s)) = s
        BY <4>1, Cut
      <4>4. n = 0 => SubSeq(s, 1, n) = <<>>
        BY <4>1, Cut
      <4> QED
        BY <4>2, <4>3, <4>4
    <3> QED
      BY <2>1, <3>1
  <2>4. f.outcome = "parsed" => p.request # <<>>
    BY <2>2, <2>3, EmptySeq
  <2> QED
    BY <2>1, <2>2, <2>3, <2>4
<1>3. r # <<>> /\ r[1].is \in RequestLine => s = r
  BY FromStart
<1>4. \/ p.request = <<>> /\ p.rest = r /\ p.outcome \in {"incomplete", "malformed"}
      \/ /\ s \in Seq(Pieces) /\ s # <<>> /\ f \in Verdict(s, 2) /\ f.at \in 0 .. Len(s)
         /\ p = [outcome |-> f.outcome, request |-> SubSeq(s, 1, f.at),
                 rest |-> SubSeq(s, f.at + 1, Len(s))]
  <2> HIDE DEF s, f, p
  <2>1. \/ p = [outcome |-> "incomplete", request |-> <<>>, rest |-> r]
        \/ p = [outcome |-> "malformed", request |-> <<>>, rest |-> r]
        \/ /\ s \in Seq(Pieces) /\ s # <<>> /\ f \in Verdict(s, 2) /\ f.at \in 0 .. Len(s)
           /\ p = [outcome |-> f.outcome, request |-> SubSeq(s, 1, f.at),
                   rest |-> SubSeq(s, f.at + 1, Len(s))]
    BY RequestCases DEF s, f, p
  <2> QED
    BY <2>1
<1> HIDE DEF s, f
<1> QED
  BY <1>1, <1>2, <1>3, <1>4

(* A request that has been recognised, and an exception, stay when more is  *)
(* received; so does the refusal of a text that begins with a request line. *)
THEOREM RequestStays ==
  ASSUME NEW r \in Seq(Pieces), NEW t \in Seq(Pieces),
         parse_request(r).outcome # "incomplete",
         \/ parse_request(r).outcome # "malformed"
         \/ r # <<>> /\ r[1].is \in RequestLine
  PROVE  parse_request(r \o t) =
           [outcome |-> parse_request(r).outcome, request |-> parse_request(r).request,
            rest |-> parse_request(r).rest \o t]
<1> DEFINE s == From(r, RequestLine)
           f == RequestEnd(s)
           p == parse_request(r)
<1>1. /\ HeaderEnds(r) # {} /\ Kinds(r) \cap RequestLine # {}
      /\ s \in Seq(Pieces) /\ f \in Verdict(s, 2) /\ f.at \in 0 .. Len(s)
      /\ p = [outcome |-> f.outcome, request |-> SubSeq(s, 1, f.at),
              rest |-> SubSeq(s, f.at + 1, Len(s))]
  <2>1. r # <<>> /\ r[1].is \in RequestLine => Kinds(r) \cap RequestLine # {}
    BY FromStart
  <2>2. /\ p # [outcome |-> "incomplete", request |-> <<>>, rest |-> r]
        /\ Kinds(r) \cap RequestLine = {}
             => p # [outcome |-> "malformed", request |-> <<>>, rest |-> r]
    BY <2>1
  <2> HIDE DEF s, f, p
  <2> QED
    BY <2>2, RequestCases DEF s, f, p
<1>2. HeaderEnds(s) # {} /\ f # Incomplete
  <2>1. f.outcome # "incomplete"
    BY <1>1
  <2>2. CASE f.outcome = "malformed"
    <3>1. s = r
      BY <1>1, <2>2, FromStart
    <3> QED
      BY <1>1, <2>1, <3>1, OutcomesDiffer
  <2>3. CASE f.outcome # "malformed"
    <3>1. f # Malformed
      BY <2>3, OutcomesDiffer
    <3> QED
      BY <1>1, <2>1, <3>1, RequestEndVerdict, OutcomesDiffer
  <2> QED
    BY <2>2, <2>3
<1>3. RequestEnd(s \o t) = f
  <2> HIDE DEF s
  <2> QED
    BY <1>1, <1>2, RequestEndStays
<1>4. /\ HeaderEnds(r \o t) # {} /\ Kinds(r \o t) \cap RequestLine # {}
      /\ From(r \o t, RequestLine) = s \o t
  BY <1>1, HeaderEndStays, KindsStay, FromStays
<1>5. parse_request(r \o t) =
        [outcome |-> f.outcome, request |-> SubSeq(s \o t, 1, f.at),
         rest |-> SubSeq(s \o t, f.at + 1, Len(s \o t))]
  <2> HIDE DEF s, f
  <2> QED
    BY <1>3, <1>4 DEF parse_request
<1>6. /\ SubSeq(s \o t, 1, f.at) = SubSeq(s, 1, f.at)
      /\ SubSeq(s \o t, f.at + 1, Len(s \o t)) = SubSeq(s, f.at + 1, Len(s)) \o t
  <2> HIDE DEF s, f
  <2> QED
    BY <1>1, CutOfMore
<1>7. /\ p.outcome = f.outcome /\ p.request = SubSeq(s, 1, f.at)
      /\ p.rest = SubSeq(s, f.at + 1, Len(s))
  <2> HIDE DEF s, f, p
  <2> QED
    BY <1>1
<1> HIDE DEF s, f
<1> QED
  BY <1>5, <1>6, <1>7, Zenon

(* While more is waited for, it makes no difference that the text has been  *)
(* looked at before.                                                        *)
LEMMA RequestWaits ==
  ASSUME NEW r \in Seq(Pieces), NEW t \in Seq(Pieces),
         parse_request(r).outcome = "incomplete"
  PROVE  /\ parse_request(parse_request(r).rest \o t) = parse_request(r \o t)
         /\ r # <<>> /\ r[1].is \in RequestLine => parse_request(r).rest = r
<1> DEFINE s == From(r, RequestLine)
           f == RequestEnd(s)
           p == parse_request(r)
<1>1. CASE HeaderEnds(r) = {}
  BY <1>1 DEF parse_request
<1>2. CASE HeaderEnds(r) # {}
  <2>1. /\ Kinds(r) \cap RequestLine # {}
        /\ s \in Seq(Pieces) /\ f \in Verdict(s, 2)
        /\ p = [outcome |-> f.outcome, request |-> SubSeq(s, 1, f.at),
                rest |-> SubSeq(s, f.at + 1, Len(s))]
    <3>1. p # [outcome |-> "malformed", request |-> <<>>, rest |-> r]
      OBVIOUS
    <3> HIDE DEF s, f, p
    <3> QED
      BY <1>2, <3>1, RequestCases DEF s, f, p
  <2>2. f.outcome = "incomplete"
    BY <2>1
  <2>3. f = Incomplete /\ f.at = 0 /\ HeaderEnds(s) # {}
    <3> HIDE DEF s
    <3>1. f = Incomplete /\ f.at = 0
      BY <2>1, <2>2, VerdictIs
    <3> QED
      BY <2>1, <3>1, RequestEndVerdict, OutcomesDiffer
  <2>4. p.rest = s
    <3> HIDE DEF s, f
    <3>1. SubSeq(s, 0 + 1, Len(s)) = s
      BY <2>1, SubSeqFull
    <3> QED
      BY <2>1, <2>3, <3>1
  <2>5. /\ HeaderEnds(r \o t) # {} /\ Kinds(r \o t) \cap RequestLine # {}
        /\ From(r \o t, RequestLine) = s \o t
    BY <1>2, <2>1, HeaderEndStays, KindsStay, FromStays
  <2>6. From(s, RequestLine) = s /\ Kinds(s) \cap RequestLine # {}
    <3>1. s \in Seq(Pieces) /\ s # <<>> /\ s[1].is \in RequestLine
      BY <2>1, FromBegins
    <3> HIDE DEF s
    <3> QED
      BY <3>1, FromStart
  <2>7. /\ HeaderEnds(s \o t) # {} /\ Kinds(s \o t) \cap RequestLine # {}
        /\ From(s \o t, RequestLine) = s \o t
    <3> HIDE DEF s, f
    <3>1. HeaderEnds(s \o t) # {}
      BY <2>1, <2>3, HeaderEndStays
    <3>2. Kinds(s \o t) \cap RequestLine # {}
      BY <2>1, <2>6, KindsStay
    <3>3. From(s \o t, RequestLine) = From(s, RequestLine) \o t
      BY <2>1, <2>6, FromStays
    <3> QED
      BY <2>6, <3>1, <3>2, <3>3, Zenon
  <2>8. parse_request(s \o t) = parse_request(r \o t)
    <3> HIDE DEF s
    <3> QED
      BY <2>5, <2>7 DEF parse_request
  <2>9. r # <<>> /\ r[1].is \in RequestLine => s = r
    BY FromStart
  <2> QED
    BY <2>4, <2>8, <2>9
<1> QED
  BY <1>1, <1>2

-----------------------------------------------------------------------------
(* parse_response, the same way. *)

LEMMA ResponseEndVerdict ==
  ASSUME NEW s \in Seq(Pieces)
  PROVE  /\ ResponseEnd(s) \in Verdict(s, 2)
         /\ ResponseEnd(s) # Malformed => HeaderEnds(s) # {}
<1>1. CASE ResponseEnd(s) = Malformed
  BY <1>1 DEF Verdict
<1>2. CASE ResponseEnd(s) # Malformed
  <2>1. /\ HeaderEnds(s) # {} /\ HeadersOK(HeaderLines(s))
        /\ ResponseEnd(s) = Framing(s)
    BY <1>2 DEF ResponseEnd
  <2>2. Framing(s) \in Verdict(s, Min(HeaderEnds(s)) + 1)
    BY <2>1, FramingVerdict
  <2>3. Min(HeaderEnds(s)) + 1 \in Nat /\ 2 <= Min(HeaderEnds(s)) + 1
    BY <2>1, HeaderEndIs
  <2>4. Verdict(s, Min(HeaderEnds(s)) + 1) \subseteq Verdict(s, 2)
    BY <2>3, VerdictGrows
  <2> QED
    BY <2>1, <2>2, <2>4
<1> QED
  BY <1>1, <1>2

LEMMA ResponseEndStays ==
  ASSUME NEW s \in Seq(Pieces), NEW t \in Seq(Pieces),
         HeaderEnds(s) # {}, ResponseEnd(s) # Incomplete
  PROVE  ResponseEnd(s \o t) = ResponseEnd(s)
<1>1. HeaderEnds(s \o t) # {} /\ HeaderLines(s \o t) = HeaderLines(s)
  BY HeaderEndStays, HeaderLinesStay
<1>2. CASE HeaderLines(s) = <<>> \/ ~HeadersOK(HeaderLines(s))
  BY <1>1, <1>2 DEF ResponseEnd
<1>3. CASE ~(HeaderLines(s) = <<>> \/ ~HeadersOK(HeaderLines(s)))
  <2>1. ResponseEnd(s) = Framing(s) /\ ResponseEnd(s \o t) = Framing(s \o t)
    BY <1>1, <1>3 DEF ResponseEnd
  <2> QED
    BY <1>3, <2>1, FramingStays
<1> QED
  BY <1>2, <1>3

(* What is made of a text that has been found to be framed by f. *)
ResponseOf(s, f) ==
  IF "badage" \in Kinds(SubSeq(s, 1, f.at))
  THEN [outcome |-> "throws", response |-> <<>>, rest |-> s]
  ELSE [outcome |-> f.outcome, response |-> SubSeq(s, 1, f.at), rest |-> s]

LEMMA ResponseCases ==
  ASSUME NEW r \in Seq(Pieces)
  PROVE  LET s == From(r, {"status"})
             f == ResponseEnd(s)
         IN  \/ /\ HeaderEnds(r) = {}
                /\ parse_response(r) =
                     [outcome |-> "incomplete", response |-> <<>>, rest |-> r]
             \/ /\ HeaderEnds(r) # {} /\ Kinds(r) \cap {"status"} = {}
                /\ parse_response(r) =
                     [outcome |-> "malformed", response |-> <<>>, rest |-> r]
             \/ /\ HeaderEnds(r) # {} /\ Kinds(r) \cap {"status"} # {}
                /\ s \in Seq(Pieces) /\ s # <<>> /\ s[1].is = "status"
                /\ f \in Verdict(s, 2) /\ f.at \in 0 .. Len(s)
                /\ "badage" \in Kinds(SubSeq(s, 1, f.at)) => f.outcome = "parsed"
                /\ parse_response(r) = ResponseOf(s, f)
<1> DEFINE s == From(r, {"status"})
           f == ResponseEnd(s)
<1>1. CASE HeaderEnds(r) = {}
  BY <1>1 DEF parse_response
<1>2. CASE HeaderEnds(r) # {} /\ Kinds(r) \cap {"status"} = {}
  <2>1. "status" \notin Kinds(r)
    BY <1>2
  <2>2. parse_response(r) =
          [outcome |-> "malformed", response |-> <<>>, rest |-> r]
    BY <1>2, <2>1 DEF parse_response
  <2> QED
    BY <1>2, <2>2
<1>3. CASE HeaderEnds(r) # {} /\ Kinds(r) \cap {"status"} # {}
  <2>1. parse_response(r) = ResponseOf(s, f)
    <3>1. "status" \in Kinds(r)
      BY <1>3
    <3> QED
      BY <1>3, <3>1 DEF parse_response, ResponseOf
  <2>2. s \in Seq(Pieces) /\ s # <<>> /\ s[1].is \in {"status"}
    BY <1>3, FromBegins
  <2> HIDE DEF s
  <2>3. f \in Verdict(s, 2)
    BY <2>2, ResponseEndVerdict
  <2> HIDE DEF f
  <2>4. f.at \in 0 .. Len(s) /\ (f.outcome # "parsed" => f.at = 0)
    BY <2>2, <2>3, VerdictIs
  <2>5. f.at = 0 => Kinds(SubSeq(s, 1, f.at)) = {}
    BY SubSeqEmpty DEF Kinds
  <2> QED
    BY <1>3, <2>1, <2>2, <2>3, <2>4, <2>5 DEF s, f
<1> QED
  BY <1>1, <1>2, <1>3

LEMMA ParseResponseIs ==
  ASSUME NEW r, HeaderEnds(r) # {}, Kinds(r) \cap {"status"} # {}
  PROVE  parse_response(r) =
           ResponseOf(From(r, {"status"}), ResponseEnd(From(r, {"status"})))
<1>1. "status" \in Kinds(r)
  OBVIOUS
<1> QED
  BY <1>1 DEF parse_response, ResponseOf

(* What parse_response returns, whatever it is given. *)
LEMMA ResponseIsCutOff ==
  ASSUME NEW r \in Seq(Pieces)
  PROVE  LET p == parse_response(r)
         IN  /\ p.outcome \in Outcomes
             /\ p.response \in Seq(Pieces) /\ p.rest \in Seq(Pieces)
             /\ r # <<>> /\ r[1].is = "status" => p.rest = r
<1> DEFINE s == From(r, {"status"})
           f == ResponseEnd(s)
           p == parse_response(r)
<1>1. r # <<>> /\ r[1].is = "status" => s = r
  BY FromStart
<1>2. \/ p = [outcome |-> "incomplete", response |-> <<>>, rest |-> r]
      \/ p = [outcome |-> "malformed", response |-> <<>>, rest |-> r]
      \/ /\ s \in Seq(Pieces) /\ f \in Verdict(s, 2) /\ f.at \in 0 .. Len(s)
         /\ p = ResponseOf(s, f)
  <2> HIDE DEF s, f, p
  <2> QED
    BY ResponseCases DEF s, f, p
<1>3. <<>> \in Seq(Pieces)
  BY EmptySeq
<1>4. ASSUME s \in Seq(Pieces), f \in Verdict(s, 2), f.at \in 0 .. Len(s),
             p = ResponseOf(s, f)
      PROVE  /\ p.outcome \in Outcomes
             /\ p.response \in Seq(Pieces) /\ p.rest = s
  <2> HIDE DEF s, f, p
  <2>1. /\ f.outcome \in Outcomes
        /\ SubSeq(s, 1, f.at) \in Seq(Pieces)
    <3> DEFINE n == f.at
    <3>1. n \in 0 .. Len(s)
      BY <1>4
    <3>2. SubSeq(s, 1, n) \in Seq(Pieces)
      <4> HIDE DEF n
      <4> QED
        BY <1>4, <3>1, Cut
    <3>3. f.outcome \in Outcomes
      BY <1>4, VerdictIs
    <3> QED
      BY <3>2, <3>3
  <2> QED
    BY <1>3, <1>4, <2>1 DEF ResponseOf, Outcomes
<1>5. /\ p.outcome \in Outcomes
      /\ p.response \in Seq(Pieces) /\ p.rest \in Seq(Pieces)
      /\ p.rest \in {r, s}
  <2> HIDE DEF s, f, p
  <2>1. CASE p = [outcome |-> "incomplete", response |-> <<>>, rest |-> r]
    BY <1>3, <2>1 DEF Outcomes
  <2>2. CASE p = [outcome |-> "malformed", response |-> <<>>, rest |-> r]
    BY <1>3, <2>2 DEF Outcomes
  <2> QED
    BY <1>2, <1>4, <2>1, <2>2
<1> HIDE DEF s, f
<1> QED
  BY <1>1, <1>5

(* A response that has been recognised stays the same when more is          *)
(* received, and so does the refusal of one that begins with a status line. *)
THEOREM ResponseStays ==
  ASSUME NEW r \in Seq(Pieces), NEW t \in Seq(Pieces),
         parse_response(r).outcome # "incomplete",
         \/ parse_response(r).outcome # "malformed"
         \/ r # <<>> /\ r[1].is = "status"
  PROVE  /\ parse_response(r \o t).outcome = parse_response(r).outcome
         /\ parse_response(r \o t).response = parse_response(r).response
<1> DEFINE s == From(r, {"status"})
           f == ResponseEnd(s)
           p == parse_response(r)
<1>1. /\ HeaderEnds(r) # {} /\ Kinds(r) \cap {"status"} # {}
      /\ s \in Seq(Pieces) /\ s # <<>> /\ s[1].is = "status"
      /\ f \in Verdict(s, 2) /\ f.at \in 0 .. Len(s)
      /\ "badage" \in Kinds(SubSeq(s, 1, f.at)) => f.outcome = "parsed"
      /\ p = ResponseOf(s, f)
  <2>1. r # <<>> /\ r[1].is = "status" => Kinds(r) \cap {"status"} # {}
    BY FromStart
  <2>2. /\ p # [outcome |-> "incomplete", response |-> <<>>, rest |-> r]
        /\ Kinds(r) \cap {"status"} = {}
             => p # [outcome |-> "malformed", response |-> <<>>, rest |-> r]
    BY <2>1
  <2> HIDE DEF s, f, p
  <2> QED
    BY <2>2, ResponseCases DEF s, f, p
<1>2. HeaderEnds(s) # {} /\ f # Incomplete
  <2> HIDE DEF s, f, p
  <2>1. f.outcome # "incomplete" /\ (f.outcome = "malformed" => p.outcome = "malformed")
    BY <1>1 DEF ResponseOf, p
  <2>2. CASE f.outcome = "malformed"
    <3>1. s = r
      BY <1>1, <2>1, <2>2, FromStart DEF p, s
    <3> QED
      BY <1>1, <2>1, <3>1, OutcomesDiffer
  <2>3. CASE f.outcome # "malformed"
    <3>1. f # Malformed
      BY <2>3, OutcomesDiffer
    <3>2. HeaderEnds(s) # {}
      BY <1>1, <3>1, ResponseEndVerdict DEF f
    <3> QED
      BY <2>1, <3>2, OutcomesDiffer
  <2> QED
    BY <2>2, <2>3
<1>3. ResponseEnd(s \o t) = f
  <2> HIDE DEF s
  <2> QED
    BY <1>1, <1>2, ResponseEndStays
<1>4. /\ HeaderEnds(r \o t) # {} /\ Kinds(r \o t) \cap {"status"} # {}
      /\ From(r \o t, {"status"}) = s \o t
  BY <1>1, HeaderEndStays, KindsStay, FromStays
<1>5. parse_response(r \o t) = ResponseOf(s \o t, f)
  <2> HIDE DEF s, f
  <2> QED
    BY <1>3, <1>4, ParseResponseIs
<1>6. SubSeq(s \o t, 1, f.at) = SubSeq(s, 1, f.at)
  <2> HIDE DEF s, f
  <2> QED
    BY <1>1, CutOfMore
<1>7. p = ResponseOf(s, f)
  BY <1>1
<1> HIDE DEF s, f
<1>8. CASE "badage" \in Kinds(SubSeq(s, 1, f.at))
  <2>1. /\ parse_response(r \o t) = [outcome |-> "throws", response |-> <<>>, rest |-> s \o t]
        /\ parse_response(r) = [outcome |-> "throws", response |-> <<>>, rest |-> s]
    BY <1>5, <1>6, <1>7, <1>8 DEF ResponseOf
  <2> QED
    BY <2>1
<1>9. CASE "badage" \notin Kinds(SubSeq(s, 1, f.at))
  <2> DEFINE m == SubSeq(s, 1, f.at)
  <2>1. /\ parse_response(r \o t) = [outcome |-> f.outcome, response |-> m, rest |-> s \o t]
        /\ parse_response(r) = [outcome |-> f.outcome, response |-> m, rest |-> s]
    BY <1>5, <1>6, <1>7, <1>9 DEF ResponseOf
  <2> HIDE DEF m
  <2> QED
    BY <2>1
<1> QED
  BY <1>8, <1>9

(* While more is waited for, it makes no difference that the text has been  *)
(* looked at before.                                                        *)
LEMMA ResponseWaits ==
  ASSUME NEW r \in Seq(Pieces), NEW t \in Seq(Pieces),
         parse_response(r).outcome = "incomplete"
  PROVE  parse_response(parse_response(r).rest \o t) = parse_response(r \o t)
<1> DEFINE s == From(r, {"status"})
           f == ResponseEnd(s)
           p == parse_response(r)
<1>1. CASE HeaderEnds(r) = {}
  BY <1>1 DEF parse_response
<1>2. CASE HeaderEnds(r) # {}
  <2>1. /\ Kinds(r) \cap {"status"} # {}
        /\ s \in Seq(Pieces) /\ s # <<>> /\ s[1].is = "status"
        /\ f \in Verdict(s, 2) /\ p = ResponseOf(s, f)
    <3>1. p # [outcome |-> "malformed", response |-> <<>>, rest |-> r]
      OBVIOUS
    <3> HIDE DEF s, f, p
    <3> QED
      BY <1>2, <3>1, ResponseCases DEF s, f, p
  <2>2. f.outcome = "incomplete" /\ p.rest = s
    <3>1. p.outcome = "incomplete"
      OBVIOUS
    <3> HIDE DEF s, f, p
    <3> QED
      BY <2>1, <3>1 DEF ResponseOf
  <2>3. HeaderEnds(s) # {}
    <3> HIDE DEF s
    <3>1. f = Incomplete
      BY <2>1, <2>2, VerdictIs
    <3> QED
      BY <2>1, <3>1, ResponseEndVerdict, OutcomesDiffer
  <2>4. /\ HeaderEnds(r \o t) # {} /\ Kinds(r \o t) \cap {"status"} # {}
        /\ From(r \o t, {"status"}) = s \o t
    BY <1>2, <2>1, HeaderEndStays, KindsStay, FromStays
  <2>5. From(s, {"status"}) = s /\ Kinds(s) \cap {"status"} # {}
    <3> HIDE DEF s
    <3> QED
      BY <2>1, FromStart
  <2>6. /\ HeaderEnds(s \o t) # {} /\ Kinds(s \o t) \cap {"status"} # {}
        /\ From(s \o t, {"status"}) = s \o t
    <3> HIDE DEF s, f
    <3>1. HeaderEnds(s \o t) # {}
      BY <2>1, <2>3, HeaderEndStays
    <3>2. Kinds(s \o t) \cap {"status"} # {}
      BY <2>1, <2>5, KindsStay
    <3>3. From(s \o t, {"status"}) = From(s, {"status"}) \o t
      BY <2>1, <2>5, FromStays
    <3> QED
      BY <2>5, <3>1, <3>2, <3>3, Zenon
  <2>7. parse_response(s \o t) = parse_response(r \o t)
    <3> HIDE DEF s
    <3> QED
      BY <2>4, <2>6, ParseResponseIs
  <2> QED
    BY <2>2, <2>7
<1> QED
  BY <1>1, <1>2

-----------------------------------------------------------------------------
(* FlattenSeq, which is defined by recursion, too. *)

IsFlat(f, ms) ==
  f = [i \in 1 .. Len(ms) |-> IF i = 1 THEN ms[i] ELSE f[i - 1] \o ms[i]]

LEMMA FlatExists ==
  ASSUME NEW S, NEW ms \in Seq(S)
  PROVE  \E f : IsFlat(f, ms)
<1> DEFINE Body(f, i) == IF i = 1 THEN ms[i] ELSE f[i - 1] \o ms[i]
           Has(k) == \E f : f = [i \in 1 .. k |-> Body(f, i)]
           N == Len(ms)
           T == {k \in 0 .. N : Has(k)}
<1>0. N \in Nat
  BY LenProperties
<1> HIDE DEF N
<1>1. Has(0)
  <2>1. [i \in 1 .. 0 |-> ms[i]] = [i \in 1 .. 0 |-> Body([j \in 1 .. 0 |-> ms[j]], i)]
    OBVIOUS
  <2> QED
    BY <2>1
<1>2. ASSUME NEW k \in 0 .. N - 1, Has(k) PROVE Has(k + 1)
  <2>0. k \in Nat
    BY <1>0
  <2>1. PICK g : g = [i \in 1 .. k |-> Body(g, i)]
    BY <1>2
  <2> DEFINE f == [i \in 1 .. k + 1 |-> IF i = k + 1 THEN Body(g, k + 1) ELSE g[i]]
  <2>2. ASSUME NEW i \in 1 .. k + 1 PROVE f[i] = Body(f, i)
    <3>1. i # 1 => i - 1 \in 1 .. k /\ i - 1 # k + 1 /\ i - 1 \in 1 .. k + 1
      BY <2>0
    <3>2. i # 1 => f[i - 1] = g[i - 1]
      BY <3>1
    <3>3. Body(f, i) = Body(g, i)
      BY <3>2
    <3>4. i # k + 1 => g[i] = Body(g, i)
      <4>1. i # k + 1 => i \in 1 .. k
        BY <2>0
      <4> HIDE DEF Body
      <4> QED
        BY <2>1, <4>1
    <3>5. f[i] = IF i = k + 1 THEN Body(g, k + 1) ELSE g[i]
      OBVIOUS
    <3> HIDE DEF Body, f
    <3> QED
      BY <3>3, <3>4, <3>5
  <2>3. f = [i \in 1 .. k + 1 |-> Body(f, i)]
    <3> HIDE DEF Body
    <3>1. \A i \in 1 .. k + 1 : f[i] = Body(f, i)
      BY <2>2
    <3>2. f = [i \in 1 .. k + 1 |-> f[i]]
      OBVIOUS
    <3> HIDE DEF f
    <3> QED
      BY <3>1, <3>2
  <2> QED
    BY <2>3
<1>3. \A k \in 0 .. N : k \in T
  <2> HIDE DEF Has
  <2>1. 0 \in T
    BY <1>0, <1>1
  <2>2. \A k \in 0 .. N - 1 : k \in T => k + 1 \in T
    BY <1>0, <1>2
  <2> HIDE DEF T
  <2> QED
    BY <1>0, <2>1, <2>2, FromTheStart
<1>4. Has(N)
  <2> HIDE DEF Has
  <2> QED
    BY <1>0, <1>3
<1> QED
  BY <1>4, Zenon DEF IsFlat, N

LEMMA FlattenIs ==
  ASSUME NEW S, NEW ms \in Seq(S), ms # <<>>
  PROVE  \E f : IsFlat(f, ms) /\ FlattenSeq(ms) = f[Len(ms)]
<1> DEFINE f == CHOOSE g : g = [i \in 1 .. Len(ms) |->
                                  IF i = 1 THEN ms[i] ELSE g[i - 1] \o ms[i]]
<1>1. IsFlat(f, ms)
  <2>1. \E g : g = [i \in 1 .. Len(ms) |-> IF i = 1 THEN ms[i] ELSE g[i - 1] \o ms[i]]
    BY FlatExists, Zenon DEF IsFlat
  <2> QED
    BY <2>1, Zenon DEF IsFlat
<1>2. Len(ms) # 0
  BY EmptySeq
<1>3. FlattenSeq(ms) = f[Len(ms)]
  BY <1>2, Zenon DEF FlattenSeq
<1> QED
  BY <1>1, <1>3, Zenon
LEMMA FlatAt ==
  ASSUME NEW ms, NEW f, IsFlat(f, ms), NEW i \in 1 .. Len(ms)
  PROVE  f[i] = IF i = 1 THEN ms[i] ELSE f[i - 1] \o ms[i]
<1> DEFINE h == [j \in 1 .. Len(ms) |-> IF j = 1 THEN ms[j] ELSE f[j - 1] \o ms[j]]
<1>1. f = h
  BY Zenon DEF IsFlat
<1>2. h[i] = IF i = 1 THEN ms[i] ELSE f[i - 1] \o ms[i]
  BY Zenon
<1>3. f[i] = h[i]
  <2> HIDE DEF h
  <2> QED
    BY <1>1
<1> QED
  BY <1>2, <1>3

LEMMA FlatAgrees ==
  ASSUME NEW S, NEW ms \in Seq(S), NEW ns \in Seq(S), NEW f, NEW g,
         IsFlat(f, ms), IsFlat(g, ns), NEW n \in 1 .. Len(ms), n <= Len(ns),
         \A i \in 1 .. n : ms[i] = ns[i]
  PROVE  f[n] = g[n]
<1> USE LenProperties
<1> DEFINE T == {k \in 0 .. n : k = 0 \/ f[k] = g[k]}
<1>1. ASSUME NEW k \in 0 .. n - 1, k \in T PROVE k + 1 \in T
  <2> DEFINE j == k + 1
  <2>1. /\ j \in 1 .. Len(ms) /\ j \in 1 .. Len(ns) /\ j \in 1 .. n /\ j \in 0 .. n
        /\ j - 1 = k /\ (j = 1 <=> k = 0)
    OBVIOUS
  <2> HIDE DEF j
  <2>2. /\ f[j] = IF j = 1 THEN ms[j] ELSE f[j - 1] \o ms[j]
        /\ g[j] = IF j = 1 THEN ns[j] ELSE g[j - 1] \o ns[j]
    BY <2>1, FlatAt
  <2>3. ms[j] = ns[j]
    BY <2>1
  <2>4. j # 1 => f[k] = g[k]
    BY <1>1, <2>1
  <2>5. f[j] = g[j]
    BY <2>1, <2>2, <2>3, <2>4
  <2> QED
    BY <2>1, <2>5 DEF j
<1>2. 0 \in T
  OBVIOUS
<1>3. \A k \in 0 .. n : k \in T
  <2>1. n \in Nat
    OBVIOUS
  <2> HIDE DEF T
  <2> QED
    BY <1>1, <1>2, <2>1, FromTheStart
<1> QED
  BY <1>3

LEMMA FlatStep ==
  ASSUME NEW S, NEW ms \in Seq(S), NEW f, IsFlat(f, ms)
  PROVE  /\ Len(ms) > 0 => f[1] = ms[1]
         /\ \A k \in 1 .. Len(ms) - 1 : f[k + 1] = f[k] \o ms[k + 1]
<1>1. Len(ms) \in Nat
  BY LenProperties
<1>2. ASSUME NEW k \in 1 .. Len(ms) - 1 PROVE f[k + 1] = f[k] \o ms[k + 1]
  <2> DEFINE j == k + 1
  <2>1. j \in 1 .. Len(ms) /\ j - 1 = k /\ j # 1
    BY <1>1
  <2> HIDE DEF j
  <2>2. f[j] = IF j = 1 THEN ms[j] ELSE f[j - 1] \o ms[j]
    BY <2>1, FlatAt
  <2>3. f[j] = f[k] \o ms[j]
    BY <2>1, <2>2
  <2> QED
    BY <2>3 DEF j
<1>3. Len(ms) > 0 => f[1] = ms[1]
  <2>1. Len(ms) > 0 => 1 \in 1 .. Len(ms)
    BY <1>1
  <2> QED
    BY <2>1 DEF IsFlat
<1> QED
  BY <1>2, <1>3

LEMMA FlatTyped ==
  ASSUME NEW S, NEW ms \in Seq(Seq(S)), NEW f, IsFlat(f, ms)
  PROVE  \A k \in 1 .. Len(ms) : f[k] \in Seq(S)
<1> DEFINE N == Len(ms)
           T == {k \in 0 .. N : k = 0 \/ f[k] \in Seq(S)}
<1>0. N \in Nat /\ \A k \in 1 .. N : ms[k] \in Seq(S)
  BY LenProperties, ElementOfSeq
<1>1. ASSUME NEW k \in 0 .. N - 1, k \in T PROVE k + 1 \in T
  <2>1. k + 1 \in 1 .. N
    BY <1>0
  <2>2. CASE k = 0
    <3>1. f[1] = ms[1] /\ 1 \in 1 .. N
      <4>1. N > 0 /\ 1 \in 1 .. N
        BY <1>0, <2>1, <2>2
      <4> QED
        BY <4>1, FlatStep
    <3> QED
      BY <1>0, <2>1, <2>2, <3>1
  <2>3. CASE k # 0
    <3>1. k \in 1 .. N - 1 /\ f[k] \in Seq(S)
      BY <1>0, <1>1, <2>3
    <3>2. f[k + 1] = f[k] \o ms[k + 1]
      BY <3>1, FlatStep
    <3>3. f[k] \o ms[k + 1] \in Seq(S)
      BY <1>0, <2>1, <3>1, ConcatProperties
    <3>4. f[k + 1] \in Seq(S) /\ k + 1 \in 0 .. N
      BY <1>0, <2>1, <3>2, <3>3
    <3> QED
      BY <3>4
  <2> QED
    BY <2>2, <2>3
<1>2. 0 \in T
  BY <1>0
<1>3. \A k \in 0 .. N : k \in T
  <2> HIDE DEF T, N
  <2> QED
    BY <1>0, <1>1, <1>2, FromTheStart
<1> QED
  BY <1>0, <1>3

LEMMA FlattenTyped ==
  ASSUME NEW S, NEW ms \in Seq(Seq(S))
  PROVE  FlattenSeq(ms) \in Seq(S) /\ (ms = <<>> => FlattenSeq(ms) = <<>>)
<1>1. CASE ms = <<>>
  <2>1. Len(ms) = 0
    BY <1>1, EmptySeq
  <2> QED
    BY <1>1, <2>1, EmptySeq DEF FlattenSeq
<1>2. CASE ms # <<>>
  <2>1. PICK f : IsFlat(f, ms) /\ FlattenSeq(ms) = f[Len(ms)]
    BY <1>2, FlattenIs
  <2>2. Len(ms) \in 1 .. Len(ms)
    BY <1>2, EmptySeq
  <2> QED
    BY <1>2, <2>1, <2>2, FlatTyped
<1> QED
  BY <1>1, <1>2

LEMMA FlattenOfMore ==
  ASSUME NEW S, NEW ms \in Seq(Seq(S)), NEW m \in Seq(S)
  PROVE  FlattenSeq(Append(ms, m)) = FlattenSeq(ms) \o m
<1> DEFINE ns == Append(ms, m)
           N == Len(ms)
<1>1. /\ N \in Nat /\ ns \in Seq(Seq(S)) /\ ns # <<>> /\ Len(ns) = N + 1
      /\ \A i \in 1 .. N : ns[i] = ms[i]
      /\ ns[N + 1] = m
  BY AppendProperties, LenProperties
<1> HIDE DEF ns, N
<1>2. PICK g : IsFlat(g, ns) /\ FlattenSeq(ns) = g[N + 1]
  BY <1>1, FlattenIs
<1>3. CASE ms = <<>>
  <2>1. N = 0
    BY <1>3, EmptySeq DEF N
  <2>2. g[1] = m
    <3>1. g[1] = ns[1]
      <4>1. Len(ns) > 0
        BY <1>1
      <4> QED
        BY <1>1, <1>2, <4>1, FlatStep
    <3> QED
      BY <1>1, <2>1, <3>1
  <2>3. FlattenSeq(ms) \o m = m
    BY <1>3, FlattenTyped, ConcatEmptySeq
  <2> QED
    BY <1>2, <2>1, <2>2, <2>3 DEF ns
<1>4. CASE ms # <<>>
  <2>1. PICK f : IsFlat(f, ms) /\ FlattenSeq(ms) = f[N]
    BY <1>4, FlattenIs DEF N
  <2>2. N \in 1 .. N /\ N \in 1 .. Len(ns) - 1
    BY <1>1, <1>4, EmptySeq DEF N
  <2>3. f[N] = g[N]
    <3>1. /\ N \in 1 .. Len(ms) /\ N <= Len(ns) /\ \A i \in 1 .. N : ms[i] = ns[i]
          /\ ms \in Seq(Seq(S)) /\ IsFlat(f, ms) /\ IsFlat(g, ns)
      BY <1>1, <1>2, <2>1, <2>2 DEF N
    <3> QED
      BY <1>1, <3>1, FlatAgrees
  <2>4. g[N + 1] = g[N] \o m
    BY <1>1, <1>2, <2>2, FlatStep
  <2> QED
    BY <1>2, <2>1, <2>3, <2>4 DEF ns
<1> QED
  BY <1>3, <1>4

LEMMA PrefixOfMore ==
  ASSUME NEW S, NEW s \in Seq(S), NEW k \in 0 .. Len(s) - 1
  PROVE  /\ SubSeq(s, 1, k + 1) = Append(SubSeq(s, 1, k), s[k + 1])
         /\ SubSeq(s, 1, k) \in Seq(S) /\ s[k + 1] \in S
<1>1. Len(s) \in Nat /\ k + 1 \in 1 .. Len(s) /\ k + 1 - 1 = k /\ 1 \in 1 .. Len(s)
      /\ k + 1 \in 1 .. Len(s)
  BY LenProperties
<1>2. s[k + 1] \in S
  BY <1>1, ElementOfSeq
<1>3. SubSeq(s, 1, k) \in Seq(S)
  BY <1>1, Cut
<1> DEFINE j == k + 1
<1>4. SubSeq(s, 1, j) = SubSeq(s, 1, j - 1) \o <<s[j]>>
  <2>1. 1 \in 1 .. Len(s) /\ j \in 1 .. Len(s)
    BY <1>1
  <2> HIDE DEF j
  <2> QED
    BY <2>1, SubSeqRecursiveSecond
<1>5. Append(SubSeq(s, 1, k), s[k + 1]) = SubSeq(s, 1, k) \o <<s[k + 1]>>
  BY <1>2, <1>3, AppendIsConcat
<1> QED
  BY <1>1, <1>2, <1>3, <1>4, <1>5

(* One sequence fewer up to the cut is one more after it. *)
LEMMA OneFewer ==
  ASSUME NEW S, NEW ms \in Seq(Seq(S)), NEW j \in 0 .. Len(ms) - 1, NEW tail \in Seq(S),
         FlattenSeq(ms) = FlattenSeq(SubSeq(ms, 1, j + 1)) \o tail
  PROVE  FlattenSeq(ms) = FlattenSeq(SubSeq(ms, 1, j)) \o (ms[j + 1] \o tail)
<1>1. /\ SubSeq(ms, 1, j + 1) = Append(SubSeq(ms, 1, j), ms[j + 1])
      /\ SubSeq(ms, 1, j) \in Seq(Seq(S)) /\ ms[j + 1] \in Seq(S)
  BY PrefixOfMore
<1> DEFINE a == FlattenSeq(SubSeq(ms, 1, j))
           b == ms[j + 1]
<1>2. FlattenSeq(SubSeq(ms, 1, j + 1)) = a \o b /\ a \in Seq(S) /\ b \in Seq(S)
  BY <1>1, FlattenOfMore, FlattenTyped
<1> HIDE DEF a, b
<1>3. (a \o b) \o tail = a \o (b \o tail)
  <2>1. a \in Seq(S) /\ b \in Seq(S)
    BY <1>2
  <2> QED
    <3>1. Join(Join(a, b), tail) = Join(a, Join(b, tail))
      BY <2>1, JoinAssociates
    <3> QED
      BY <3>1 DEF Join
<1>4. FlattenSeq(ms) = a \o (b \o tail)
  BY <1>2, <1>3
<1> QED
  BY <1>4 DEF a, b

(* What the sequences up to the k-th make is how all of them begin. *)
LEMMA FlattenBegins ==
  ASSUME NEW S, NEW ms \in Seq(Seq(S)), NEW k \in 0 .. Len(ms)
  PROVE  \E tail \in Seq(S) :
           /\ FlattenSeq(ms) = FlattenSeq(SubSeq(ms, 1, k)) \o tail
           /\ k = Len(ms) => tail = <<>>
<1> DEFINE N == Len(ms)
           Fl(j) == FlattenSeq(SubSeq(ms, 1, j))
           Begins(j) == \E tail \in Seq(S) : FlattenSeq(ms) = Fl(j) \o tail /\ (j = N => tail = <<>>)
           T == {p \in 1 .. N + 1 : Begins(p - 1)}
<1>0. N \in Nat
  BY LenProperties
<1>1. Begins(N)
  <2>1. Fl(N) = FlattenSeq(ms)
    BY SubSeqFull
  <2>2. FlattenSeq(ms) \in Seq(S) /\ <<>> \in Seq(S)
    BY FlattenTyped, EmptySeq
  <2>3. FlattenSeq(ms) \o <<>> = FlattenSeq(ms)
    BY <2>2, ConcatEmptySeq
  <2> HIDE DEF Fl, N
  <2> QED
    BY <2>1, <2>2, <2>3
<1>2. ASSUME NEW j \in 0 .. N - 1, Begins(j + 1) PROVE Begins(j)
  <2>1. PICK tail \in Seq(S) : FlattenSeq(ms) = Fl(j + 1) \o tail
    BY <1>2
  <2>2. FlattenSeq(ms) = Fl(j) \o (ms[j + 1] \o tail)
    BY <2>1, OneFewer
  <2>5. ms[j + 1] \o tail \in Seq(S)
    BY PrefixOfMore, ConcatProperties
  <2>6. j # N
    BY <1>0
  <2> HIDE DEF Fl, N
  <2> QED
    BY <2>2, <2>5, <2>6
<1> HIDE DEF Begins
<1>3. \A p \in 1 .. N + 1 : p \in T
  <2>1. ASSUME NEW p \in 1 .. N + 1, \A q \in p + 1 .. N + 1 : q \in T
        PROVE  p \in T
    <3>1. CASE p = N + 1
      BY <1>0, <1>1, <3>1
    <3>2. CASE p # N + 1
      <4>0. p + 1 \in p + 1 .. N + 1 /\ p - 1 \in 0 .. N - 1 /\ p - 1 + 1 = p /\ p + 1 - 1 = p
        BY <1>0, <3>2
      <4>1. p + 1 \in T
        <5> HIDE DEF T, N
        <5> QED
          BY <2>1, <4>0
      <4>2. Begins(p)
        BY <4>0, <4>1
      <4>3. Begins(p - 1)
        <5>1. Begins(p - 1 + 1)
          BY <4>0, <4>2
        <5> QED
          BY <1>2, <4>0, <5>1
      <4> QED
        BY <4>3
    <3> QED
      BY <3>1, <3>2
  <2>2. N + 1 \in Nat
    BY <1>0
  <2> HIDE DEF T, N
  <2> QED
    BY <2>1, <2>2, FromTheEnd
<1>5. Begins(k)
  <2> DEFINE j == k + 1
  <2>1. j \in 1 .. N + 1 /\ j - 1 = k
    BY <1>0
  <2> HIDE DEF j
  <2>2. j \in T
    BY <1>3, <2>1
  <2> QED
    BY <2>1, <2>2
<1> QED
  BY <1>5 DEF Begins

LEMMA CancelLeft ==
  ASSUME NEW S, NEW a \in Seq(S), NEW x \in Seq(S), NEW y \in Seq(S), a \o x = a \o y
  PROVE  x = y
BY ConcatSimplifications

LEMMA Regroup ==
  ASSUME NEW S, NEW a \in Seq(S), NEW b \in Seq(S), NEW c, NEW x \in Seq(S), c = a \o b
  PROVE  c \o x = a \o (b \o x)
BY ConcatAssociative

(* Two texts that begin the same way begin with the same piece. *)
LEMMA FirstPiece ==
  ASSUME NEW S, NEW r \in Seq(S), NEW t \in Seq(S), NEW m \in Seq(S), NEW z \in Seq(S),
         r # <<>>, m # <<>>, r \o t = m \o z
  PROVE  r[1] = m[1]
<1>1. /\ Len(r) \in Nat /\ Len(r) > 0 /\ Len(m) \in Nat /\ Len(m) > 0
      /\ Len(t) \in Nat /\ Len(z) \in Nat
  BY LenProperties, EmptySeq
<1>2. (r \o t)[1] = r[1]
  <2>1. 1 \in 1 .. Len(r) + Len(t) /\ 1 <= Len(r)
    BY <1>1
  <2> QED
    BY <2>1, ConcatProperties
<1>3. (m \o z)[1] = m[1]
  <2>1. 1 \in 1 .. Len(m) + Len(z) /\ 1 <= Len(m)
    BY <1>1
  <2> QED
    BY <2>1, ConcatProperties
<1> QED
  BY <1>2, <1>3

(* Nothing makes a request. *)
LEMMA NothingIsIncomplete ==
  /\ parse_request(<<>>).outcome = "incomplete"
  /\ parse_request(<<>>).rest = <<>>
<1>1. HeaderEnds(<<>>) = {}
  BY EmptySeq DEF HeaderEnds
<1> QED
  BY <1>1 DEF parse_request

(* What is made of the beginning of a stream that begins with a message is *)
(* what is made of the message alone.                                      *)
LEMMA SameVerdict ==
  ASSUME NEW r \in Seq(Pieces), NEW t \in Seq(Pieces),
         NEW m \in Seq(Pieces), NEW z \in Seq(Pieces),
         r # <<>>, r \o t = m \o z,
         IsMessage(m), parse_request(m).outcome = "incomplete" => z = <<>>,
         parse_request(r).outcome # "incomplete"
  PROVE  /\ parse_request(m).outcome = parse_request(r).outcome
         /\ parse_request(m).request = parse_request(r).request
         /\ r[1].is \in RequestLine
<1>1. m # <<>> /\ r[1].is \in RequestLine /\ m[1].is \in RequestLine
  <2>1. m # <<>> /\ m[1].is \in RequestLine
    BY DEF IsMessage
  <2>2. r[1] = m[1]
    BY <2>1, FirstPiece
  <2> QED
    BY <2>1, <2>2
<1>2. /\ parse_request(r \o t).outcome = parse_request(r).outcome
      /\ parse_request(r \o t).request = parse_request(r).request
  <2>1. parse_request(r \o t) =
          [outcome |-> parse_request(r).outcome, request |-> parse_request(r).request,
           rest |-> parse_request(r).rest \o t]
    BY <1>1, RequestStays
  <2> QED
    BY <2>1
<1>3. parse_request(m).outcome # "incomplete"
  <2>1. ASSUME z = <<>> PROVE parse_request(m) = parse_request(r \o t)
    <3>1. m \o z = m
      BY <2>1, ConcatEmptySeq
    <3> QED
      BY <3>1
  <2> QED
    BY <1>2, <2>1
<1>4. /\ parse_request(m \o z).outcome = parse_request(m).outcome
      /\ parse_request(m \o z).request = parse_request(m).request
  BY <1>1, <1>3, RequestStays
<1> QED
  BY <1>1, <1>2, <1>4

(* x is what comes after the first k of the messages ms. *)
ComesAfter(x, ms, k) == FlattenSeq(ms) = FlattenSeq(SubSeq(ms, 1, k)) \o x

(* It begins with the next message, and is empty if there is none.         *)
LEMMA NothingComesAfter ==
  ASSUME NEW S, NEW ms \in Seq(Seq(S)), NEW x \in Seq(S), ComesAfter(x, ms, Len(ms))
  PROVE  x = <<>>
<1> DEFINE all == FlattenSeq(ms)
<1>1. SubSeq(ms, 1, Len(ms)) = ms
  BY SubSeqFull
<1>2. all \in Seq(S) /\ all = all \o x
  BY <1>1, FlattenTyped DEF ComesAfter
<1> HIDE DEF all
<1> QED
  BY <1>2, ConcatSimplifications

LEMMA MessageComesAfter ==
  ASSUME NEW S, NEW ms \in Seq(Seq(S)), NEW k \in 0 .. Len(ms) - 1, NEW x \in Seq(S),
         ComesAfter(x, ms, k)
  PROVE  \E z \in Seq(S) :
           /\ x = ms[k + 1] \o z
           /\ ComesAfter(z, ms, k + 1)
           /\ k + 1 = Len(ms) => z = <<>>
<1>0. Len(ms) \in Nat
  BY LenProperties
<1>1. SubSeq(ms, 1, k) \in Seq(Seq(S))
  BY <1>0, Cut
<1> DEFINE n == k + 1
           a == FlattenSeq(SubSeq(ms, 1, k))
           b == ms[n]
           c == FlattenSeq(SubSeq(ms, 1, n))
           all == FlattenSeq(ms)
<1>2. a \in Seq(S) /\ all = a \o x
  BY <1>1, FlattenTyped DEF ComesAfter
<1>3. PICK z \in Seq(S) : all = c \o z /\ (n = Len(ms) => z = <<>>)
  <2>1. n \in 0 .. Len(ms)
    BY <1>0
  <2> HIDE DEF n
  <2> QED
    BY <2>1, FlattenBegins
<1>4. all = a \o (b \o z) /\ b \in Seq(S)
  <2>1. FlattenSeq(ms) = FlattenSeq(SubSeq(ms, 1, k + 1)) \o z
    BY <1>3
  <2> QED
    BY <2>1, OneFewer, PrefixOfMore
<1>5. x = b \o z
  <2>1. b \o z \in Seq(S)
    BY <1>4, ConcatProperties
  <2>2. a \o x = a \o (b \o z)
    BY <1>2, <1>4
  <2> HIDE DEF a, b, all
  <2> QED
    BY <1>2, <2>1, <2>2, CancelLeft
<1>6. ComesAfter(z, ms, n)
  BY <1>3 DEF ComesAfter
<1> QED
  BY <1>3, <1>5, <1>6

(* x is cut into a and b. *)
CutInto(x, a, b) == x = a \o b

LEMMA BehindTheFirst ==
  ASSUME NEW S, NEW m \in Seq(S), NEW q \in Seq(S), NEW t \in Seq(S), NEW z \in Seq(S),
         NEW r, NEW x, CutInto(r, m, q), CutInto(x, r, t), CutInto(x, m, z)
  PROVE  CutInto(z, q, t)
<1>1. r \o t = m \o (q \o t)
  <2>1. r = m \o q
    BY DEF CutInto
  <2> QED
    BY <2>1, Regroup
<1>2. q \o t \in Seq(S) /\ m \o z = m \o (q \o t)
  BY <1>1, ConcatProperties DEF CutInto
<1>3. z = q \o t
  BY <1>2, CancelLeft
<1> QED
  BY <1>3 DEF CutInto

(* Of a conversation, the first k messages taken off: the next one is      *)
(* taken whole, or refused, or not there yet, whatever of it has arrived.  *)
LEMMA NextMessage ==
  ASSUME NEW ms \in Seq(Seq(Pieces)), IsConversation(ms), NEW k \in 0 .. Len(ms),
         NEW r \in Seq(Pieces), NEW t \in Seq(Pieces), ComesAfter(r \o t, ms, k)
  PROVE  LET p == parse_request(r)
         IN  /\ p.outcome # "parsed" => p.rest = r
             /\ p.outcome = "parsed" =>
                  /\ k < Len(ms) /\ p.request = ms[k + 1]
                  /\ parse_request(ms[k + 1]).outcome = "parsed"
                  /\ ComesAfter(p.rest \o t, ms, k + 1)
             /\ p.outcome = "malformed" =>
                  k < Len(ms) /\ parse_request(ms[k + 1]).outcome = "malformed"
<1> DEFINE p == parse_request(r)
<1>0. Len(ms) \in Nat /\ r \o t \in Seq(Pieces)
  BY LenProperties, ConcatProperties
<1>1. CASE r = <<>>
  BY <1>1, NothingIsIncomplete
<1>2. CASE r # <<>>
  <2>1. k < Len(ms) /\ k \in 0 .. Len(ms) - 1
    <3>1. ASSUME k = Len(ms) PROVE FALSE
      <4>1. r \o t = <<>>
        BY <1>0, <3>1, NothingComesAfter
      <4> QED
        BY <1>2, <4>1, ConcatSimplifications, Zenon
    <3> QED
      BY <1>0, <3>1
  <2> DEFINE n == k + 1
             m == ms[n]
  <2>2. PICK z \in Seq(Pieces) :
          /\ r \o t = m \o z
          /\ ComesAfter(z, ms, n)
          /\ n = Len(ms) => z = <<>>
    BY <1>0, <2>1, MessageComesAfter
  <2>3. /\ n \in 1 .. Len(ms) /\ m \in Seq(Pieces) /\ IsMessage(m)
        /\ parse_request(m).outcome = "incomplete" => n = Len(ms)
    <3>1. n \in 1 .. Len(ms)
      BY <1>0, <2>1
    <3>2. m \in Seq(Pieces) /\ n \in DOMAIN ms
      BY <3>1, ElementOfSeq, LenProperties
    <3> HIDE DEF n
    <3> QED
      BY <3>1, <3>2 DEF IsConversation
  <2>4. p.outcome # "incomplete" =>
          /\ parse_request(m).outcome = p.outcome /\ parse_request(m).request = p.request
    <3> HIDE DEF m
    <3> QED
      BY <1>2, <2>2, <2>3, SameVerdict
  <2>5. r[1].is \in RequestLine /\ r = p.request \o p.rest
        /\ p.request \in Seq(Pieces) /\ p.rest \in Seq(Pieces)
        /\ (p.outcome # "parsed" <=> p.request = <<>>)
    <3>1. m # <<>> /\ m[1].is \in RequestLine
      BY <2>3 DEF IsMessage
    <3>2. r[1] = m[1]
      <4> HIDE DEF m
      <4> QED
        BY <1>2, <2>2, <2>3, <3>1, FirstPiece
    <3> QED
      BY <1>2, <3>1, <3>2, RequestIsCutOff
  <2>6. ASSUME p.outcome # "parsed" PROVE p.rest = r
    <3> HIDE DEF p
    <3> QED
      BY <2>5, <2>6, ConcatEmptySeq
  <2>7. ASSUME p.outcome = "parsed" PROVE p.request = m /\ ComesAfter(p.rest \o t, ms, n)
    <3>1. p.request = m
      BY <2>3, <2>4, <2>7 DEF IsMessage
    <3>2. z = p.rest \o t
      <4> DEFINE q == p.rest
      <4>1. r = m \o q /\ q \in Seq(Pieces)
        BY <2>5, <3>1
      <4> HIDE DEF m, q
      <4>2. /\ CutInto(r, m, q) /\ CutInto(r \o t, r, t) /\ CutInto(r \o t, m, z)
            /\ m \in Seq(Pieces)
        BY <2>2, <2>3, <4>1 DEF CutInto
      <4>3. CutInto(z, q, t)
        BY <4>1, <4>2, BehindTheFirst
      <4> QED
        BY <4>3 DEF q, CutInto
    <3> QED
      BY <2>2, <3>1, <3>2
  <2> QED
    BY <2>1, <2>4, <2>6, <2>7
<1> QED
  BY <1>1, <1>2

LEMMA KindsOfEnd ==
  ASSUME NEW s \in Seq(Pieces), NEW t \in Seq(Pieces)
  PROVE  Kinds(t) \subseteq Kinds(s \o t)
<1>1. /\ Len(s) \in Nat /\ Len(t) \in Nat
      /\ DOMAIN t = 1 .. Len(t) /\ DOMAIN (s \o t) = 1 .. Len(s) + Len(t)
      /\ \A i \in 1 .. Len(s) + Len(t) : (s \o t)[i] = IF i <= Len(s) THEN s[i] ELSE t[i - Len(s)]
  BY ConcatProperties, LenProperties
<1>2. ASSUME NEW i \in DOMAIN t
      PROVE  i + Len(s) \in DOMAIN (s \o t) /\ t[i].is = (s \o t)[i + Len(s)].is
  <2> DEFINE j == i + Len(s)
  <2>1. j \in 1 .. Len(s) + Len(t) /\ ~(j <= Len(s)) /\ j - Len(s) = i
    BY <1>1
  <2> HIDE DEF j
  <2>2. (s \o t)[j] = t[i]
    BY <1>1, <2>1
  <2> QED
    BY <1>1, <2>1, <2>2 DEF j
<1> QED
  BY <1>2 DEF Kinds

(* What the messages hold, all of them hold together. *)
LEMMA KindsOfMessages ==
  ASSUME NEW ms \in Seq(Seq(Pieces)), NEW k \in 0 .. Len(ms) - 1
  PROVE  Kinds(ms[k + 1]) \subseteq Kinds(FlattenSeq(ms))
<1> DEFINE a == FlattenSeq(SubSeq(ms, 1, k))
           m == ms[k + 1]
<1>0. Len(ms) \in Nat /\ k \in 0 .. Len(ms)
  BY LenProperties
<1>1. a \in Seq(Pieces) /\ m \in Seq(Pieces)
  BY PrefixOfMore, FlattenTyped
<1>2. PICK x \in Seq(Pieces) : FlattenSeq(ms) = a \o x
  BY <1>0, FlattenBegins
<1>3. PICK z \in Seq(Pieces) : x = m \o z
  <2>1. ComesAfter(x, ms, k)
    BY <1>2 DEF ComesAfter
  <2>2. PICK z \in Seq(Pieces) :
          /\ x = ms[k + 1] \o z
          /\ ComesAfter(z, ms, k + 1)
          /\ k + 1 = Len(ms) => z = <<>>
    BY <2>1, MessageComesAfter
  <2> QED
    BY <2>2
<1> HIDE DEF a, m
<1>4. Kinds(m) \subseteq Kinds(m \o z)
  BY <1>1, KindsStay
<1>5. Kinds(x) \subseteq Kinds(a \o x)
  BY <1>1, KindsOfEnd
<1>6. Kinds(m) \subseteq Kinds(FlattenSeq(ms))
  BY <1>2, <1>3, <1>4, <1>5
<1> QED
  BY <1>6 DEF m

(* The messages ms have been taken off up to x, one for one; the last one  *)
(* may have been refused, and then nothing was.                            *)
IsTaken(taken, x, ms, refused) ==
  \E k \in 0 .. Len(ms) :
    /\ ComesAfter(x, ms, k)
    /\ \A j \in 1 .. k : parse_request(ms[j]).outcome = "parsed"
    /\ \/ taken = SubSeq(ms, 1, k)
       \/ /\ refused /\ k < Len(ms) /\ parse_request(ms[k + 1]).outcome = "malformed"
          /\ taken = Append(SubSeq(ms, 1, k), <<>>)

LEMMA NothingIsTaken ==
  ASSUME NEW ms \in Seq(Seq(Pieces)) PROVE IsTaken(<<>>, FlattenSeq(ms), ms, FALSE)
<1>1. 0 \in 0 .. Len(ms) /\ SubSeq(ms, 1, 0) = <<>>
  BY LenProperties, SubSeqEmpty
<1>2. FlattenSeq(<<>>) \o FlattenSeq(ms) = FlattenSeq(ms)
  <2>1. <<>> \in Seq(Seq(Pieces))
    BY EmptySeq
  <2>2. FlattenSeq(<<>>) = <<>>
    BY <2>1, FlattenTyped
  <2> QED
    BY <2>2, FlattenTyped, ConcatEmptySeq
<1>3. ComesAfter(FlattenSeq(ms), ms, 0)
  BY <1>1, <1>2 DEF ComesAfter
<1>4. \A j \in 1 .. 0 : parse_request(ms[j]).outcome = "parsed"
  OBVIOUS
<1> QED
  BY <1>1, <1>3, <1>4 DEF IsTaken

LEMMA ParseTakes ==
  ASSUME NEW ms \in Seq(Seq(Pieces)), IsConversation(ms),
         NEW r \in Seq(Pieces), NEW t \in Seq(Pieces), NEW taken,
         IsTaken(taken, r \o t, ms, FALSE)
  PROVE  LET p == parse_request(r)
         IN  /\ p.outcome # "parsed" => p.rest = r
             /\ p.outcome = "parsed" =>
                  /\ IsTaken(Append(taken, p.request), p.rest \o t, ms, FALSE)
                  /\ Kinds(p.request) \subseteq Kinds(FlattenSeq(ms))
             /\ p.outcome = "malformed" =>
                  IsTaken(Append(taken, <<>>), p.rest \o t, ms, TRUE)
<1> DEFINE p == parse_request(r)
<1>0. Len(ms) \in Nat
  BY LenProperties
<1>1. PICK k \in 0 .. Len(ms) :
        /\ ComesAfter(r \o t, ms, k) /\ taken = SubSeq(ms, 1, k)
        /\ \A j \in 1 .. k : parse_request(ms[j]).outcome = "parsed"
  BY DEF IsTaken
<1>2. /\ p.outcome # "parsed" => p.rest = r
      /\ p.outcome = "parsed" =>
           /\ k < Len(ms) /\ p.request = ms[k + 1]
           /\ parse_request(ms[k + 1]).outcome = "parsed"
           /\ ComesAfter(p.rest \o t, ms, k + 1)
      /\ p.outcome = "malformed" =>
           k < Len(ms) /\ parse_request(ms[k + 1]).outcome = "malformed"
  BY <1>1, NextMessage
<1> HIDE DEF p
<1>3. ASSUME p.outcome = "parsed"
      PROVE  /\ IsTaken(Append(taken, p.request), p.rest \o t, ms, FALSE)
             /\ Kinds(p.request) \subseteq Kinds(FlattenSeq(ms))
  <2>1. k \in 0 .. Len(ms) - 1 /\ k + 1 \in 0 .. Len(ms)
    BY <1>0, <1>2, <1>3
  <2>2. Append(taken, p.request) = SubSeq(ms, 1, k + 1)
    BY <1>1, <1>2, <1>3, <2>1, PrefixOfMore
  <2>3. Kinds(p.request) \subseteq Kinds(FlattenSeq(ms))
    BY <1>2, <1>3, <2>1, KindsOfMessages
  <2>4. \A j \in 1 .. k + 1 : parse_request(ms[j]).outcome = "parsed"
    <3>1. \A j \in 1 .. k + 1 : j \in 1 .. k \/ j = k + 1
      BY <2>1
    <3> QED
      BY <1>1, <1>2, <1>3, <3>1
  <2> QED
    BY <1>2, <1>3, <2>1, <2>2, <2>3, <2>4 DEF IsTaken
<1>4. ASSUME p.outcome = "malformed" PROVE IsTaken(Append(taken, <<>>), p.rest \o t, ms, TRUE)
  <2>1. p.rest = r
    BY <1>2, <1>4
  <2> QED
    BY <1>1, <1>2, <1>4, <2>1 DEF IsTaken
<1> QED
  BY <1>2, <1>3, <1>4 DEF p

LEMMA TakenAreMessages ==
  ASSUME NEW ms \in Seq(Seq(Pieces)), IsConversation(ms), NEW taken, NEW x, NEW b,
         IsTaken(taken, x, ms, b), NEW i \in 1 .. Len(taken)
  PROVE  /\ i \in DOMAIN ms
         /\ IF taken[i] = <<>> THEN parse_request(ms[i]).outcome = "malformed"
            ELSE taken[i] = ms[i] /\ parse_request(ms[i]).outcome = "parsed"
<1>0. Len(ms) \in Nat /\ DOMAIN ms = 1 .. Len(ms)
  BY LenProperties
<1>1. PICK k \in 0 .. Len(ms) :
        /\ \A j \in 1 .. k : parse_request(ms[j]).outcome = "parsed"
        /\ \/ taken = SubSeq(ms, 1, k)
           \/ /\ k < Len(ms) /\ parse_request(ms[k + 1]).outcome = "malformed"
              /\ taken = Append(SubSeq(ms, 1, k), <<>>)
  BY DEF IsTaken
<1> DEFINE u == SubSeq(ms, 1, k)
<1>2. /\ u \in Seq(Seq(Pieces)) /\ Len(u) = k
      /\ \A j \in 1 .. k : u[j] = ms[j] /\ j \in DOMAIN ms
  <2>1. \A j \in 1 .. k : ms[j] \in Seq(Pieces)
    BY <1>0, ElementOfSeq
  <2>2. /\ u \in Seq(Seq(Pieces)) /\ Len(u) = IF 1 <= k THEN k - 1 + 1 ELSE 0
        /\ \A j \in 1 .. k - 1 + 1 : u[j] = ms[1 + j - 1]
    BY <1>0, <2>1, SubSeqProperties
  <2> QED
    BY <1>0, <2>2
<1> HIDE DEF u
<1>3. \A j \in DOMAIN ms : ms[j] # <<>>
  BY DEF IsConversation, IsMessage
<1>4. CASE taken = u
  BY <1>1, <1>2, <1>3, <1>4
<1>5. CASE /\ k < Len(ms) /\ parse_request(ms[k + 1]).outcome = "malformed"
           /\ taken = Append(u, <<>>)
  <2>1. <<>> \in Seq(Pieces)
    BY EmptySeq
  <2>2. /\ Len(taken) = k + 1 /\ taken[k + 1] = <<>>
        /\ \A j \in 1 .. k : taken[j] = u[j]
    BY <1>2, <1>5, <2>1, AppendProperties
  <2>3. CASE i = k + 1
    BY <1>0, <1>5, <2>2, <2>3
  <2>4. CASE i # k + 1
    <3>1. i \in 1 .. k
      BY <2>2, <2>4
    <3> QED
      BY <1>1, <1>2, <1>3, <2>2, <3>1
  <2> QED
    BY <2>3, <2>4
<1> QED
  BY <1>1, <1>4, <1>5 DEF u

LEMMA TakenIsAll ==
  ASSUME NEW ms \in Seq(Seq(Pieces)), NEW taken, NEW x, NEW b, IsTaken(taken, x, ms, b)
  PROVE  FlattenSeq(ms) = FlattenSeq(taken) \o x
<1>1. PICK k \in 0 .. Len(ms) :
        /\ ComesAfter(x, ms, k)
        /\ taken = SubSeq(ms, 1, k) \/ taken = Append(SubSeq(ms, 1, k), <<>>)
  BY DEF IsTaken
<1> DEFINE u == SubSeq(ms, 1, k)
<1>2. u \in Seq(Seq(Pieces)) /\ <<>> \in Seq(Pieces) /\ FlattenSeq(ms) = FlattenSeq(u) \o x
  BY <1>1, Cut, EmptySeq, LenProperties DEF ComesAfter
<1> HIDE DEF u
<1>3. FlattenSeq(Append(u, <<>>)) = FlattenSeq(u)
  <2>1. FlattenSeq(Append(u, <<>>)) = FlattenSeq(u) \o <<>>
    BY <1>2, FlattenOfMore
  <2>2. FlattenSeq(u) \in Seq(Pieces)
    BY <1>2, FlattenTyped
  <2> QED
    BY <2>1, <2>2, ConcatEmptySeq
<1> QED
  BY <1>1, <1>2, <1>3 DEF u

-----------------------------------------------------------------------------
(* The parsers and the grammar of HTTP.                                    *)

(* The loop over the trailer ends where a trailer does. *)
LEMMA TrailerIsTaken ==
  ASSUME NEW s \in Seq(Pieces), NEW e \in 1 .. Len(s), s[e].is = "crlf",
         NEW p \in 1 .. e, \A i \in p .. e - 1 : s[i].is \in FreeField
  PROVE  Trailer(s, p) = Complete(e)
<1> DEFINE S == {q \in 1 .. e : q < p \/ Trailer(s, q) = Complete(e)}
<1>1. Len(s) \in Nat
  BY LenProperties
<1>2. ASSUME NEW q \in 1 .. e, \A r \in q + 1 .. e : r \in S PROVE q \in S
  <2>1. SUFFICES ASSUME p <= q PROVE Trailer(s, q) = Complete(e)
    BY <1>1
  <2>2. q \in 1 .. Len(s) + 1 /\ q \in Nat \ {0} /\ q \in q .. Len(s)
    BY <1>1
  <2>3. s[q].is \in Line
    BY <1>1, <2>1, <2>2 DEF FreeField, FieldLine, Line
  <2>4. NextLine(s, q) = q
    BY <1>1, <2>2, <2>3, NextLineIs
  <2>5. CASE q = e
    <3>1. ~IsTrailerLine(s, q)
      BY <2>5 DEF IsTrailerLine, FreeField
    <3>2. TrailerEnd(s, q) = Complete(q)
      BY <2>2, <2>4, <2>5 DEF TrailerEnd
    <3> QED
      BY <2>2, <2>5, <3>1, <3>2, TrailerRound
  <2>6. CASE q # e
    <3>1. IsTrailerLine(s, q)
      BY <2>1, <2>4, <2>6 DEF IsTrailerLine
    <3>2. Trailer(s, q) = Trailer(s, q + 1)
      BY <2>2, <3>1, TrailerRound
    <3>3. q + 1 \in q + 1 .. e
      BY <1>1, <2>6
    <3>4. q + 1 \in S /\ ~(q + 1 < p)
      BY <1>2, <2>1, <3>3
    <3> QED
      BY <3>2, <3>4
  <2> QED
    BY <2>5, <2>6
<1>3. \A q \in 1 .. e : q \in S
  <2>1. e \in Nat
    BY <1>1
  <2> HIDE DEF S
  <2> QED
    BY <1>2, <2>1, FromTheEnd
<1> QED
  BY <1>3

(* What the loop takes for a trailer is one. *)
LEMMA TrailerTakenIsOne ==
  ASSUME NEW s \in Seq(Pieces), NEW p \in 1 .. Len(s) + 1, NEW e \in Nat,
         Trailer(s, p) = Complete(e)
  PROVE  /\ e \in p .. Len(s) /\ s[e].is = "crlf"
         /\ \A i \in p .. e - 1 : s[i].is \in FreeField
<1> DEFINE N == Len(s) + 1
           IsOne(q) == /\ e \in q .. Len(s) /\ s[e].is = "crlf"
                       /\ \A i \in q .. e - 1 : s[i].is \in FreeField
           S == {q \in 1 .. N : Trailer(s, q) = Complete(e) => IsOne(q)}
<1>1. Len(s) \in Nat /\ N \in Nat
  BY LenProperties
<1>2. ASSUME NEW q \in 1 .. N, \A r \in q + 1 .. N : r \in S PROVE q \in S
  <2>1. SUFFICES ASSUME Trailer(s, q) = Complete(e) PROVE IsOne(q)
    OBVIOUS
  <2>2. q \in Nat \ {0}
    BY <1>1
  <2>3. CASE IsTrailerLine(s, q)
    <3>1. q \in 1 .. Len(s) /\ s[q].is \in FreeField
      BY <1>1, <2>2, <2>3, NextLineIs DEF IsTrailerLine
    <3>2. q + 1 \in q + 1 .. N
      BY <1>1, <3>1
    <3>3. Trailer(s, q + 1) = Complete(e)
      BY <2>1, <2>3, TrailerRound
    <3>4. IsOne(q + 1)
      BY <1>2, <3>2, <3>3
    <3>5. \A i \in q .. e - 1 : i = q \/ i \in q + 1 .. e - 1
      BY <1>1
    <3> QED
      BY <1>1, <3>1, <3>4, <3>5
  <2>4. CASE ~IsTrailerLine(s, q)
    <3>1. TrailerEnd(s, q) = Complete(e)
      BY <2>1, <2>4, TrailerRound
    <3>2. /\ Complete(e) # Incomplete /\ Complete(e) # Malformed
          /\ \A x : Complete(x) = Complete(e) => x = e
      BY OutcomesDiffer
    <3>3. NextLine(s, q) = q /\ s[q].is = "crlf" /\ e = q
      BY <3>1, <3>2 DEF TrailerEnd
    <3>4. q \in 1 .. Len(s)
      BY <1>1, <2>2, <3>3, NextLineIs
    <3> QED
      BY <1>1, <3>3, <3>4
  <2> QED
    BY <2>3, <2>4
<1>3. \A q \in 1 .. N : q \in S
  <2> HIDE DEF S, N
  <2> QED
    BY <1>1, <1>2, FromTheEnd
<1> QED
  BY <1>3

(* A message that ends where an int can point to is followed to its end.   *)
LEMMA ShortEnough ==
  ASSUME NEW s, NEW e \in Int, e <= MaxInt
  PROVE  ~Overruns(s, e)
BY MaxIntAssumption DEF Overruns, Word

(* Chunk after chunk, the loop comes to the end of a chunked body. *)
LEMMA ChunksAreTaken ==
  ASSUME NEW m \in Seq(Pieces), NEW start \in 1 .. Len(m), ChunksFrom(m, start),
         Len(m) <= MaxInt
  PROVE  ChunkedBody(m, start) = Complete(Len(m))
<1>1. Len(m) \in Nat /\ DOMAIN m = 1 .. Len(m)
  BY LenProperties
<1>2. PICK starts \in SUBSET (start .. Len(m)) :
        /\ start \in starts
        /\ \A p \in starts :
             /\ m[p].is = "size"
             /\ IF m[p].n = 0 THEN TrailerFrom(m, p + 1)
                ELSE /\ p + 1 + m[p].n \in DOMAIN m /\ m[p + 1 + m[p].n].is = "crlf"
                     /\ p + 2 + m[p].n \in starts
  BY DEF ChunksFrom
<1> DEFINE S == {q \in 1 .. Len(m) : q \in starts => ChunkedBody(m, q) = Complete(Len(m))}
<1>3. ASSUME NEW q \in 1 .. Len(m), \A r \in q + 1 .. Len(m) : r \in S PROVE q \in S
  <2>1. SUFFICES ASSUME q \in starts PROVE ChunkedBody(m, q) = Complete(Len(m))
    OBVIOUS
  <2>2. q \in 1 .. Len(m) + 1 /\ q \in Nat \ {0} /\ q \in q .. Len(m) /\ m[q].n \in Nat
    BY <1>1, PieceTypes
  <2>3. m[q].is = "size" /\ m[q].is \in Line
    BY <1>2, <2>1 DEF Line
  <2>4. NextLine(m, q) = q /\ IsSize(m, q)
    <3>1. NextLine(m, q) = q
      BY <1>1, <2>2, <2>3, NextLineIs
    <3> QED
      BY <2>3, <3>1 DEF IsSize
  <2>5. CASE m[q].n = 0
    <3>1. TrailerFrom(m, q + 1)
      BY <1>2, <2>1, <2>5
    <3>2. Trailer(m, q + 1) = Complete(Len(m))
      BY <1>1, <3>1, TrailerIsTaken DEF TrailerFrom
    <3>0. Stored(m[q]) = 0
      BY <2>2, <2>5, StoredIs, MaxIntAssumption
    <3>3. ~IsChunk(m, q)
      BY <3>0 DEF IsChunk
    <3>4. ChunksEnd(m, q) = Trailer(m, q + 1)
      BY <2>2, <2>4, <3>0, ChunksEndIs
    <3> QED
      BY <2>2, <3>2, <3>3, <3>4, ChunksRound
  <2>6. CASE m[q].n # 0
    <3> DEFINE r == ChunkEnd(m, q) + 1
    <3>1. q + 1 + m[q].n \in DOMAIN m /\ m[q + 1 + m[q].n].is = "crlf" /\ q + 2 + m[q].n \in starts
      BY <1>2, <2>1, <2>6
    <3>0. q + 1 + m[q].n \in 1 .. Len(m) /\ m[q].n <= MaxInt
      BY <1>1, <2>2, <3>1, MaxIntAssumption
    <3>7. Stored(m[q]) = m[q].n
      BY <2>2, <3>0, StoredIs
    <3>8. ChunkEnd(m, q) = q + 1 + m[q].n
      BY <3>7 DEF ChunkEnd
    <3>2. r = q + 2 + m[q].n
      BY <2>2, <3>8
    <3>9. ~Overruns(m, ChunkEnd(m, q))
      <4> DEFINE e == ChunkEnd(m, q)
      <4>1. e \in Int /\ e <= MaxInt
        BY <1>1, <3>0, <3>8, MaxIntAssumption
      <4> HIDE DEF e
      <4>2. ~Overruns(m, e)
        BY <4>1, ShortEnough
      <4> QED
        BY <4>2 DEF e
    <3>3. IsChunk(m, q)
      BY <1>1, <2>2, <2>4, <2>6, <3>1, <3>7, <3>8, <3>9 DEF IsChunk
    <3>4. ChunkedBody(m, q) = ChunkedBody(m, r)
      BY <2>2, <3>3, ChunksRound
    <3>5. r \in starts /\ r \in q + 1 .. Len(m)
      BY <1>1, <2>2, <3>1, <3>2
    <3>6. r \in S
      BY <1>3, <3>5
    <3> HIDE DEF r
    <3> QED
      BY <3>4, <3>5, <3>6
  <2> QED
    BY <2>5, <2>6
<1>4. \A q \in 1 .. Len(m) : q \in S
  <2> HIDE DEF S
  <2> QED
    BY <1>1, <1>3, FromTheEnd
<1> QED
  BY <1>2, <1>4

(* What the loop takes for a chunked body is one. *)
LEMMA ChunksTakenAreSome ==
  ASSUME NEW s \in Seq(Pieces), NEW start \in 1 .. Len(s) + 1, NEW e \in Nat,
         ChunkedBody(s, start) = Complete(e),
         \A i \in 1 .. Len(s) : s[i].is = "size" => s[i].n <= MaxInt,
         NEW m \in Seq(Pieces), Len(m) = e, \A i \in 1 .. e : m[i] = s[i]
  PROVE  e \in start .. Len(s) /\ ChunksFrom(m, start)
<1> DEFINE starts == {p \in start .. e : ChunkedBody(s, p) = Complete(e) /\ IsSize(s, p)}
<1>1. Len(s) \in Nat /\ DOMAIN m = 1 .. e
  BY LenProperties
<1>2. /\ Complete(e) # Incomplete /\ Complete(e) # Malformed /\ Complete(e) # Throws
      /\ Complete(e) # Overrun
      /\ Complete(e).at = e /\ Complete(e).outcome = "parsed"
  BY OutcomesDiffer
<1>3. ASSUME NEW p \in start .. Len(s) + 1, ChunkedBody(s, p) = Complete(e)
      PROVE  /\ p \in starts /\ p \in 1 .. Len(s) /\ e \in p .. Len(s)
             /\ s[p].is = "size" /\ s[p].n \in Nat
             /\ s[p].n = 0 => Trailer(s, p + 1) = Complete(e)
             /\ s[p].n # 0 => /\ IsChunk(s, p)
                              /\ ChunkedBody(s, ChunkEnd(s, p) + 1) = Complete(e)
  <2>1. p \in 1 .. Len(s) + 1 /\ p \in Nat
    BY <1>1
  <2>2. Complete(e) \in Verdict(s, p)
    BY <1>3, <2>1, ChunksVerdict
  <2>3. e \in p .. Len(s)
    BY <1>2, <2>1, <2>2, VerdictIs
  <2>4. CASE IsChunk(s, p)
    <3>1. IsSize(s, p) /\ s[p].is = "size" /\ Stored(s[p]) > 0
      BY <2>4 DEF IsChunk, IsSize
    <3>2. p \in 1 .. Len(s)
      BY <1>1, <2>1, <2>3
    <3>3. s[p].n \in Nat /\ Stored(s[p]) = s[p].n
      BY <3>1, <3>2, PieceTypes, StoredIs
    <3>4. ChunkedBody(s, ChunkEnd(s, p) + 1) = Complete(e)
      BY <1>3, <2>1, <2>4, ChunksRound
    <3> QED
      BY <1>1, <1>3, <2>3, <2>4, <3>1, <3>2, <3>3, <3>4
  <2>5. CASE ~IsChunk(s, p)
    <3>1. ChunksEnd(s, p) = Complete(e)
      BY <1>3, <2>1, <2>5, ChunksRound
    <3>2. IsSize(s, p) /\ p \in 1 .. Len(s) /\ ~(Stored(s[p]) > 0) /\ Stored(s[p]) \in Nat
      BY <1>2, <2>1, <3>1, ChunksEndIs, DataEndIs
    <3>3. s[p].is = "size" /\ Stored(s[p]) = 0 /\ Trailer(s, p + 1) = Complete(e)
      BY <2>1, <3>1, <3>2, ChunksEndIs DEF IsSize
    <3>4. s[p].n \in Nat /\ s[p].n = 0
      BY <3>2, <3>3, PieceTypes, StoredIs
    <3> QED
      BY <1>1, <1>3, <2>3, <3>2, <3>3, <3>4
  <2> QED
    BY <2>4, <2>5
<1>4. start \in start .. Len(s) + 1
  BY <1>1
<1>5. start \in starts /\ e \in start .. Len(s)
  BY <1>3, <1>4
<1>6. ASSUME NEW p \in starts
      PROVE  /\ m[p].is = "size"
             /\ IF m[p].n = 0 THEN TrailerFrom(m, p + 1)
                ELSE /\ p + 1 + m[p].n \in DOMAIN m /\ m[p + 1 + m[p].n].is = "crlf"
                     /\ p + 2 + m[p].n \in starts
  <2>1. p \in start .. Len(s) + 1 /\ ChunkedBody(s, p) = Complete(e)
    BY <1>1, <1>5
  <2>2. /\ p \in 1 .. Len(s) /\ e \in p .. Len(s)
        /\ s[p].is = "size" /\ s[p].n \in Nat
        /\ s[p].n = 0 => Trailer(s, p + 1) = Complete(e)
        /\ s[p].n # 0 => /\ IsChunk(s, p)
                         /\ ChunkedBody(s, ChunkEnd(s, p) + 1) = Complete(e)
    BY <1>3, <2>1
  <2>3. m[p] = s[p]
    BY <1>1, <2>2
  <2>4. CASE s[p].n = 0
    <3>1. p + 1 \in 1 .. Len(s) + 1
      BY <1>1, <2>2
    <3>2. /\ e \in p + 1 .. Len(s) /\ s[e].is = "crlf"
          /\ \A i \in p + 1 .. e - 1 : s[i].is \in FreeField
      BY <2>2, <2>4, <3>1, TrailerTakenIsOne
    <3>3. TrailerFrom(m, p + 1)
      <4>1. e \in 1 .. e /\ p + 1 <= e
        BY <1>1, <2>2, <3>2
      <4>2. ASSUME NEW i \in p + 1 .. e - 1 PROVE m[i].is \in FreeField
        <5>1. i \in 1 .. e
          BY <1>1, <2>2, <3>2
        <5> QED
          BY <1>1, <3>2, <5>1
      <4>3. Len(m) = e /\ m[e] = s[e]
        BY <1>1, <4>1
      <4> QED
        BY <3>2, <4>1, <4>2, <4>3 DEF TrailerFrom
    <3> QED
      BY <2>2, <2>3, <2>4, <3>3
  <2>5. CASE s[p].n # 0
    <3> DEFINE r == ChunkEnd(s, p) + 1
    <3>1. IsChunk(s, p) /\ ChunkedBody(s, r) = Complete(e)
      BY <2>2, <2>5
    <3>2. ChunkEnd(s, p) \in p + 2 .. Len(s) /\ s[ChunkEnd(s, p)].is = "crlf"
      <4>1. p \in 1 .. Len(s) + 1
        BY <1>1, <2>2
      <4> QED
        BY <3>1, <4>1, ChunksRound DEF IsChunk
    <3>3. r \in start .. Len(s) + 1
      BY <1>1, <2>1, <3>2
    <3>4. r \in starts /\ e \in r .. Len(s)
      <4> HIDE DEF r, starts
      <4> QED
        BY <1>3, <3>1, <3>3
    <3>5. ChunkEnd(s, p) \in 1 .. e
      BY <1>1, <2>2, <3>2, <3>4
    <3>6. m[ChunkEnd(s, p)].is = "crlf"
      BY <3>2, <3>5
    <3>7. ChunkEnd(s, p) = p + 1 + m[p].n /\ r = p + 2 + m[p].n
      <4>1. Stored(s[p]) = m[p].n
        BY <2>2, <2>3, StoredIs
      <4> QED
        BY <2>2, <2>3, <4>1 DEF ChunkEnd
    <3> HIDE DEF r, starts
    <3> QED
      BY <1>1, <2>2, <2>3, <2>5, <3>4, <3>5, <3>6, <3>7
  <2> QED
    BY <2>4, <2>5
<1>7. starts \in SUBSET (start .. Len(m))
  OBVIOUS
<1> QED
  <2> HIDE DEF starts
  <2> QED
    BY <1>5, <1>6, <1>7 DEF ChunksFrom

(* The length a header section gives. *)
LEMMA LengthIs ==
  ASSUME NEW h \in Seq(Pieces), HeadersOK(h), NEW i \in DOMAIN h, h[i].is = "length"
  PROVE  /\ DeclaredLength(h) = Stored(h[i]) /\ Stored(h[i]) \in Nat
         /\ h[i].n \in Nat
         /\ h[i].n <= MaxInt => DeclaredLength(h) = h[i].n
<1>1. \A j \in DOMAIN h : h[j].is = "length" => j = i
  BY DEF HeadersOK
<1>2. {Stored(h[k]) : k \in {j \in DOMAIN h : h[j].is = "length"}} = {Stored(h[i])}
  BY <1>1
<1>3. /\ Stored(h[i]) \in Nat /\ h[i].n \in Nat
      /\ h[i].n <= MaxInt => Stored(h[i]) = h[i].n
  BY LenProperties, PieceTypes, StoredIs
<1>4. Max({Stored(h[i])}) = Stored(h[i])
  BY <1>3 DEF Max
<1> QED
  BY <1>2, <1>3, <1>4 DEF DeclaredLength

(* The header lines of a message are those between its first line and the  *)
(* empty line.                                                             *)
LEMMA HeadOfMessage ==
  ASSUME NEW m \in Seq(Pieces), NEW k \in 1 .. Len(m) - 1,
         m[1].is \in StartLine, m[k + 1].is = "crlf", HeadersOK(SubSeq(m, 2, k))
  PROVE  /\ HeaderEnds(m) # {} /\ Min(HeaderEnds(m)) = k
         /\ HeaderLines(m) = SubSeq(m, 2, k)
         /\ Len(HeaderLines(m)) = k - 1 /\ HeaderLines(m) \in Seq(Pieces)
<1> DEFINE h == SubSeq(m, 2, k)
<1>1. Len(m) \in Nat /\ \A i \in 2 .. k : m[i] \in Pieces
  BY LenProperties, ElementOfSeq
<1>2. Len(h) = k - 1 /\ \A i \in 1 .. k - 1 : h[i] = m[i + 1]
  <2>1. CASE k = 1
    <3>1. h = <<>>
      BY <2>1, SubSeqEmpty
    <3> QED
      BY <1>1, <2>1, <3>1, EmptySeq
  <2>2. CASE k # 1
    <3>1. 2 \in 1 .. Len(m) + 1 /\ k \in 2 - 1 .. Len(m)
      BY <1>1
    <3>2. /\ Len(h) = IF 2 <= k THEN k - 2 + 1 ELSE 0
          /\ \A i \in 1 .. k - 2 + 1 : h[i] = m[2 + i - 1]
      BY <1>1, <3>1, SubSeqProperties
    <3> QED
      BY <1>1, <2>2, <3>2
  <2> QED
    BY <2>1, <2>2
<1>3. ASSUME NEW i \in 1 .. k - 1 PROVE m[i + 1].is \in FieldLine
  <2>1. k \in Nat /\ k # 1
    BY <1>1
  <2>2. 2 \in 1 .. Len(m) + 1 /\ k \in 2 - 1 .. Len(m)
    BY <1>1
  <2>3. h \in Seq(Pieces)
    BY <1>1, <2>2, SubSeqProperties
  <2>4. i \in DOMAIN h
    BY <1>2, <2>3, LenProperties
  <2>5. h[i].is \in Kinds(h) /\ Kinds(h) \subseteq FieldLine
    BY <2>4 DEF Kinds, HeadersOK
  <2> QED
    BY <1>2, <2>5
<1>4. k \in HeaderEnds(m)
  <2>1. CASE k = 1
    BY <2>1 DEF HeaderEnds, Line
  <2>2. CASE k # 1
    <3>1. k - 1 \in 1 .. k - 1 /\ k - 1 + 1 = k
      BY <1>1, <2>2
    <3> QED
      BY <1>3, <3>1 DEF HeaderEnds, Line
  <2> QED
    BY <2>1, <2>2
<1>5. ASSUME NEW i \in HeaderEnds(m) PROVE k <= i
  <2>1. i \in 1 .. Len(m) - 1 /\ m[i + 1].is = "crlf"
    BY DEF HeaderEnds
  <2>2. ~(i \in 1 .. k - 1)
    BY <1>3, <2>1 DEF FieldLine, FreeField
  <2> QED
    BY <1>1, <2>1, <2>2
<1>6. HeaderEnds(m) \in SUBSET Nat
  BY <1>1 DEF HeaderEnds
<1>7. Min(HeaderEnds(m)) = k
  BY <1>4, <1>5, <1>6, MinIs
<1> QED
  BY <1>4, <1>7, HeaderLinesAre DEF HeaderLines

LEMMA WholeLength ==
  ASSUME NEW m \in Seq(Pieces), Len(m) <= MaxInt, NEW start \in Nat, NEW n \in Nat,
         start - 1 + n = Len(m)
  PROVE  LengthBody(m, start, n) = Complete(Len(m))
<1>1. Len(m) \in Nat
  BY LenProperties
<1> DEFINE e == start - 1 + n
<1>2. e \in Int /\ e = Len(m)
  BY <1>1
<1>3. LengthBody(m, start, n) =
        IF Overruns(m, e) THEN Overrun ELSE IF e > Len(m) THEN Incomplete ELSE Complete(e)
  BY LengthBodyIs
<1> HIDE DEF e
<1>4. ~Overruns(m, e)
  BY <1>2, ShortEnough
<1>5. ~(e > Len(m))
  BY <1>1, <1>2
<1> QED
  BY <1>2, <1>3, <1>4, <1>5

(* A request is taken whole, and so is nothing but a request: of one that  *)
(* breaks off the parser waits for the rest, or refuses it.                *)
LEMMA RequestIsTaken ==
  ASSUME NEW m \in Seq(Pieces), IsRequest(m), Len(m) <= MaxInt
  PROVE  /\ m # <<>> /\ m[1].is \in RequestLine
         /\ parse_request(m) = [outcome |-> "parsed", request |-> m, rest |-> <<>>]
<1>1. PICK k \in 1 .. Len(m) - 1 :
        LET h == SubSeq(m, 2, k)
        IN  /\ m[1].is \in {"GET", "POST", "CONNECT"} /\ m[k + 1].is = "crlf"
            /\ HeadersOK(h) /\ "Host" \in Kinds(h)
            /\ "chunked" \in Kinds(h) \/ Kinds(h) \cap {"gzip", "badlength"} = {}
            /\ RequestBodyEnds(m, h)
  BY DEF IsRequest
<1> DEFINE h == HeaderLines(m)
           f == RequestEnd(m)
<1>2. /\ HeaderEnds(m) # {} /\ Min(HeaderEnds(m)) = k
      /\ h = SubSeq(m, 2, k) /\ Len(h) = k - 1 /\ h \in Seq(Pieces)
  BY <1>1, HeadOfMessage DEF StartLine
<1>3. /\ HeadersOK(h) /\ "Host" \in Kinds(h) /\ RequestBodyEnds(m, h)
      /\ "chunked" \in Kinds(h) \/ Kinds(h) \cap {"gzip", "badlength"} = {}
  BY <1>1, <1>2
<1>4. Len(m) \in Nat /\ k \in Nat /\ k + 1 \in 2 .. Len(m) /\ m # <<>> /\ Len(h) + 3 = k + 2
  BY <1>2, LenProperties, EmptySeq
<1>5. m[1].is \in RequestLine /\ m[1].is # "badline"
  BY <1>1 DEF RequestLine
<1>6. f = Framing(m)
  BY <1>2, <1>3, <1>5 DEF RequestEnd
<1>7. Framing(m) =
        IF "chunked" \in Kinds(h) THEN ChunkedBody(m, Len(h) + 3)
        ELSE IF {"gzip", "badlength"} \cap Kinds(h) # {} THEN Malformed
        ELSE IF "length" \in Kinds(h)
             THEN LengthBody(m, Len(h) + 3, DeclaredLength(h))
             ELSE Complete(Len(h) + 3 - 1)
  BY <1>2, FramingIs
<1> HIDE DEF h
<1>8. Framing(m) = Complete(Len(m))
  <2>1. CASE "chunked" \in Kinds(h)
    <3>1. ChunksFrom(m, k + 2)
      BY <1>3, <1>4, <2>1 DEF RequestBodyEnds
    <3>2. k + 2 \in 1 .. Len(m)
      <4>1. \E starts \in SUBSET (k + 2 .. Len(m)) : k + 2 \in starts
        BY <3>1 DEF ChunksFrom
      <4> QED
        BY <1>4, <4>1
    <3>3. ChunkedBody(m, k + 2) = Complete(Len(m))
      BY <3>1, <3>2, ChunksAreTaken
    <3> QED
      BY <1>4, <1>7, <2>1, <3>3
  <2>2. CASE "chunked" \notin Kinds(h) /\ "length" \in Kinds(h)
    <3>1. PICK i \in DOMAIN h : h[i].is = "length" /\ Len(m) = Len(h) + 2 + h[i].n
      BY <1>3, <2>2 DEF RequestBodyEnds
    <3>2. DeclaredLength(h) = h[i].n /\ h[i].n \in Nat
      <4>1. h[i].n \in Nat /\ (h[i].n <= MaxInt => DeclaredLength(h) = h[i].n)
        BY <1>2, <1>3, <3>1, LengthIs
      <4>2. h[i].n <= MaxInt
        <5>1. Len(m) \in Nat /\ Len(h) \in Nat /\ Len(m) = Len(h) + 2 + h[i].n
          BY <1>2, <1>4, <3>1
        <5> QED
          BY <4>1, <5>1, MaxIntAssumption
      <4> QED
        BY <4>1, <4>2
    <3>3. Framing(m) = LengthBody(m, Len(h) + 3, DeclaredLength(h))
      BY <1>3, <1>7, <2>2
    <3>4. LengthBody(m, Len(h) + 3, DeclaredLength(h)) = Complete(Len(m))
      <4> DEFINE start == Len(h) + 3
                 n == DeclaredLength(h)
      <4>1. start \in Nat /\ n \in Nat /\ start - 1 + n = Len(m)
        BY <1>2, <1>4, <3>1, <3>2
      <4> HIDE DEF start, n
      <4>2. LengthBody(m, start, n) = Complete(Len(m))
        BY <4>1, WholeLength
      <4> QED
        BY <4>2 DEF start, n
    <3> QED
      BY <3>3, <3>4
  <2>3. CASE {"chunked", "length"} \cap Kinds(h) = {}
    <3>1. Len(m) = Len(h) + 2
      BY <1>3, <2>3 DEF RequestBodyEnds
    <3>2. Len(h) + 3 - 1 = Len(m)
      BY <1>2, <3>1
    <3>3. Framing(m) = Complete(Len(h) + 3 - 1)
      BY <1>3, <1>7, <2>3
    <3> QED
      BY <3>2, <3>3
  <2> QED
    BY <2>1, <2>2, <2>3
<1>9. f.outcome = "parsed" /\ f.at = Len(m)
  BY <1>6, <1>8, OutcomesDiffer
<1>10. From(m, RequestLine) = m /\ Kinds(m) \cap RequestLine # {}
  BY <1>4, <1>5, FromStart
<1>11. parse_request(m) = [outcome |-> f.outcome, request |-> SubSeq(m, 1, f.at),
                            rest |-> SubSeq(m, f.at + 1, Len(m))]
  BY <1>2, <1>10 DEF parse_request
<1>12. SubSeq(m, 1, Len(m)) = m /\ SubSeq(m, Len(m) + 1, Len(m)) = <<>>
  BY <1>4, SubSeqFull, SubSeqEmpty
<1> HIDE DEF f
<1>13. parse_request(m) = [outcome |-> "parsed", request |-> m, rest |-> <<>>]
  BY <1>9, <1>11, <1>12
<1> QED
  BY <1>4, <1>5, <1>13

LEMMA Part ==
  ASSUME NEW S, NEW s \in Seq(S), NEW a \in 1 .. Len(s) + 1, NEW b \in a - 1 .. Len(s)
  PROVE  /\ SubSeq(s, a, b) \in Seq(S) /\ Len(SubSeq(s, a, b)) = b - a + 1
         /\ DOMAIN SubSeq(s, a, b) = 1 .. b - a + 1
         /\ \A i \in 1 .. b - a + 1 : SubSeq(s, a, b)[i] = s[a + i - 1]
<1>1. Len(s) \in Nat
  BY LenProperties
<1>2. \A i \in a .. b : s[i] \in S
  BY <1>1, ElementOfSeq
<1>3. /\ SubSeq(s, a, b) \in Seq(S)
      /\ Len(SubSeq(s, a, b)) = IF a <= b THEN b - a + 1 ELSE 0
      /\ \A i \in 1 .. b - a + 1 : SubSeq(s, a, b)[i] = s[a + i - 1]
  BY <1>1, <1>2, SubSeqProperties
<1>4. Len(SubSeq(s, a, b)) = b - a + 1
  BY <1>1, <1>3
<1>5. DOMAIN SubSeq(s, a, b) = 1 .. Len(SubSeq(s, a, b))
  BY <1>3, LenProperties
<1> QED
  BY <1>3, <1>4, <1>5

(* A part of a part. *)
LEMMA PartOfPart ==
  ASSUME NEW S, NEW s \in Seq(S), NEW a \in 1 .. Len(s) + 1, NEW b \in a - 1 .. Len(s),
         NEW c \in 1 .. b - a + 2, NEW d \in c - 1 .. b - a + 1
  PROVE  SubSeq(SubSeq(s, a, b), c, d) = SubSeq(s, a + c - 1, a + d - 1)
<1> DEFINE x == SubSeq(s, a, b)
           y == SubSeq(x, c, d)
           z == SubSeq(s, a + c - 1, a + d - 1)
<1>1. Len(s) \in Nat
  BY LenProperties
<1>2. x \in Seq(S) /\ Len(x) = b - a + 1 /\ \A i \in 1 .. b - a + 1 : x[i] = s[a + i - 1]
  BY Part
<1>3. c \in 1 .. Len(x) + 1 /\ d \in c - 1 .. Len(x)
  BY <1>1, <1>2
<1> HIDE DEF x
<1>4. y \in Seq(S) /\ Len(y) = d - c + 1 /\ \A i \in 1 .. d - c + 1 : y[i] = x[c + i - 1]
  BY <1>2, <1>3, Part
<1>5. a + c - 1 \in 1 .. Len(s) + 1 /\ a + d - 1 \in (a + c - 1) - 1 .. Len(s)
  BY <1>1
<1>6. /\ z \in Seq(S) /\ Len(z) = d - c + 1
      /\ \A i \in 1 .. d - c + 1 : z[i] = s[a + c - 1 + i - 1]
  <2> DEFINE p == a + c - 1
             q == a + d - 1
  <2>1. q - p + 1 = d - c + 1
    BY <1>1
  <2>2. p \in 1 .. Len(s) + 1 /\ q \in p - 1 .. Len(s) /\ p = a + c - 1
    BY <1>5
  <2>3. z = SubSeq(s, p, q)
    OBVIOUS
  <2> HIDE DEF p, q, z
  <2>4. /\ z \in Seq(S) /\ Len(z) = q - p + 1
        /\ \A i \in 1 .. q - p + 1 : z[i] = s[p + i - 1]
    BY <2>2, <2>3, Part
  <2> QED
    BY <2>1, <2>2, <2>4
<1>7. ASSUME NEW i \in 1 .. d - c + 1 PROVE y[i] = z[i]
  <2>1. c + i - 1 \in 1 .. b - a + 1 /\ a + (c + i - 1) - 1 = a + c - 1 + i - 1
    BY <1>1
  <2>2. x[c + i - 1] = s[a + (c + i - 1) - 1]
    BY <1>2, <2>1
  <2>3. y[i] = x[c + i - 1] /\ z[i] = s[a + c - 1 + i - 1]
    BY <1>4, <1>6
  <2> QED
    BY <2>1, <2>2, <2>3
<1> HIDE DEF y, z
<1>8. y = z
  BY <1>4, <1>6, <1>7, SeqEqual
<1> QED
  BY <1>8 DEF x, y, z

(* A request that is no longer than an int can count is taken when its     *)
(* last piece is there, and not before.                                    *)
THEOREM RequestIsTakenWhole ==
  ASSUME NEW m \in Seq(Pieces), IsRequest(m), Len(m) <= MaxInt, NEW n \in 1 .. Len(m) - 1
  PROVE  /\ parse_request(m) = [outcome |-> "parsed", request |-> m, rest |-> <<>>]
         /\ parse_request(SubSeq(m, 1, n)).outcome = "incomplete"
<1> DEFINE r == SubSeq(m, 1, n)
           t == SubSeq(m, n + 1, Len(m))
           p == parse_request(r)
<1>1. /\ m # <<>> /\ m[1].is \in RequestLine
      /\ parse_request(m) = [outcome |-> "parsed", request |-> m, rest |-> <<>>]
  BY RequestIsTaken
<1>2. Len(m) \in Nat
  BY LenProperties
<1>3. r \in Seq(Pieces) /\ Len(r) = n /\ t \in Seq(Pieces) /\ r \o t = m
  <2>1. n \in 0 .. Len(m)
    BY <1>2
  <2> QED
    BY <2>1, Cut
<1>4. r # <<>> /\ r[1] = m[1]
  <2>1. n # 0 /\ 1 \in 1 .. n
    BY <1>2
  <2>2. r # <<>>
    BY <1>3, <2>1, EmptySeq
  <2>3. 1 \in 1 .. Len(m) + 1 /\ n \in 1 - 1 .. Len(m) /\ 1 \in 1 .. n - 1 + 1
    BY <1>2
  <2>4. r[1] = m[1 + 1 - 1]
    BY <2>3, Part
  <2> QED
    BY <2>2, <2>4
<1>5. ASSUME p.outcome # "incomplete" PROVE FALSE
  <2>1. parse_request(r \o t) =
          [outcome |-> p.outcome, request |-> p.request, rest |-> p.rest \o t]
    <3> HIDE DEF r, t
    <3> QED
      BY <1>1, <1>3, <1>4, <1>5, RequestStays
  <2>2. p.request = m
    <3> DEFINE w == parse_request(m)
    <3>1. w.request = p.request
      <4>1. w = [outcome |-> p.outcome, request |-> p.request, rest |-> p.rest \o t]
        BY <1>3, <2>1, Zenon
      <4> HIDE DEF w, p, t
      <4> QED
        BY <4>1
    <3>2. w.request = m
      BY <1>1
    <3> QED
      BY <3>1, <3>2
  <2>3. r = m \o p.rest /\ p.rest \in Seq(Pieces)
    <3>1. r = p.request \o p.rest /\ p.rest \in Seq(Pieces)
      BY <1>1, <1>3, <1>4, RequestIsCutOff
    <3> QED
      BY <2>2, <3>1
  <2>4. Len(r) = Len(m) + Len(p.rest) /\ Len(p.rest) \in Nat
    <3> DEFINE q == p.rest
    <3> HIDE DEF r, q
    <3>1. Len(m \o q) = Len(m) + Len(q) /\ Len(q) \in Nat
      BY <2>3, ConcatProperties, LenProperties DEF q
    <3> QED
      BY <2>3, <3>1 DEF q
  <2> HIDE DEF p, r
  <2> QED
    BY <1>2, <1>3, <2>4
<1> QED
  BY <1>1, <1>5

(* What a peer that keeps to HTTP says is a conversation: its requests one *)
(* after the other, and perhaps a part of one more.                        *)
LEMMA HttpIsParsed ==
  ASSUME NEW ms \in Seq(Seq(Pieces)), SpeaksHttp(ms), NEW i \in DOMAIN ms
  PROVE  /\ IsMessage(ms[i])
         /\ parse_request(ms[i]).outcome \in {"parsed", "incomplete"}
         /\ parse_request(ms[i]).outcome = "incomplete" => i = Len(ms)
         /\ parse_request(ms[i]).outcome = "parsed" => IsRequest(ms[i])
<1>0. ms[i] \in Seq(Pieces)
  BY LenProperties, ElementOfSeq
<1>1. CASE IsRequest(ms[i]) /\ Len(ms[i]) <= MaxInt
  <2> DEFINE m == ms[i]
  <2>1. /\ m # <<>> /\ m[1].is \in RequestLine
        /\ parse_request(m) = [outcome |-> "parsed", request |-> m, rest |-> <<>>]
    BY <1>0, <1>1, RequestIsTaken
  <2> HIDE DEF m
  <2>2. IsMessage(m) /\ parse_request(m).outcome = "parsed"
    BY <2>1 DEF IsMessage
  <2> QED
    BY <1>1, <2>2 DEF m
<1>2. CASE ~(IsRequest(ms[i]) /\ Len(ms[i]) <= MaxInt)
  <2>0. PICK m \in Seq(Pieces) :
          /\ i = Len(ms) /\ IsRequest(m) /\ Len(m) <= MaxInt
          /\ \E n \in 1 .. Len(m) - 1 : ms[i] = SubSeq(m, 1, n)
    BY <1>2 DEF SpeaksHttp
  <2>1. PICK n \in 1 .. Len(m) - 1 : ms[i] = SubSeq(m, 1, n)
    BY <2>0
  <2>2. parse_request(ms[i]).outcome = "incomplete"
    BY <2>0, <2>1, RequestIsTakenWhole
  <2>3. ms[i] # <<>> /\ ms[i][1] = m[1]
    <3>1. /\ 1 \in 1 .. Len(m) + 1 /\ n \in 1 - 1 .. Len(m) /\ 1 \in 1 .. n - 1 + 1
          /\ n - 1 + 1 # 0
      BY LenProperties
    <3>2. Len(SubSeq(m, 1, n)) = n - 1 + 1 /\ SubSeq(m, 1, n)[1] = m[1 + 1 - 1]
      BY <3>1, Part
    <3>3. SubSeq(m, 1, n) # <<>>
      BY <3>1, <3>2, EmptySeq
    <3>4. 1 + 1 - 1 = 1
      OBVIOUS
    <3> DEFINE r == SubSeq(m, 1, n)
    <3>5. r # <<>> /\ r[1] = m[1]
      BY <3>2, <3>3, <3>4
    <3>6. ms[i] = r
      BY <2>1
    <3> HIDE DEF r
    <3> QED
      BY <3>5, <3>6, Zenon
  <2>4. m[1].is \in RequestLine
    BY <2>0, RequestIsTaken
  <2> QED
    BY <2>0, <2>2, <2>3, <2>4 DEF IsMessage
<1> QED
  BY <1>1, <1>2

LEMMA HttpIsConversation ==
  ASSUME NEW ms \in Seq(Seq(Pieces)), SpeaksHttp(ms)
  PROVE  IsConversation(ms)
BY HttpIsParsed DEF IsConversation
=============================================================================
