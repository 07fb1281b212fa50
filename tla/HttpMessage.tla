---------------------------- MODULE HttpMessage ----------------------------
(***************************************************************************)
(* What the parsers of requests and responses have in common               *)
(* (HttpRequest.cpp and HttpResponse.cpp hold the same code twice): the    *)
(* header section and the framing of the body.                             *)
(*                                                                         *)
(* The text is a sequence of pieces.  A piece is a whole line with its     *)
(* CRLF, or one byte of a body.  What a line says is its kind; the ones    *)
(* of size and length carry a number, a status line its code.  A kind that *)
(* begins with "bad" is a line the parser refuses in that place, for       *)
(* whichever of its reasons ("badline" has one of the three methods in it, *)
(* "badlength" is one std::stoul throws on, "badage" a Cache-Control whose *)
(* max-age is no number, refused in responses).  "field" is any other line *)
(* that may occur more than once: a header field, and where a request      *)
(* should begin a line without a method in it.  "junk" is text that holds  *)
(* neither a line end nor what a message begins with.  A piece is received *)
(* whole: the parsers wait for the empty line, and a part of a line before *)
(* it makes no difference to that.                                         *)
(***************************************************************************)
EXTENDS SequencesExt, Integers

(* The greatest int, 2^31 - 1 in the code: the parsers keep the position   *)
(* they have come to in an int, a length in a uint32_t, and add the two as *)
(* uint32_t.                                                               *)
CONSTANT MaxInt

ASSUME MaxIntAssumption == MaxInt \in Nat

Word == 2 * (MaxInt + 1)

Piece(kind, n) == [is |-> kind, n |-> n]

StartLine == {"GET", "POST", "CONNECT", "badline", "status"}

FreeField == {"field", "badage"}

FieldLine == FreeField \cup {"Host", "badfield", "length", "badlength", "chunked", "gzip"}

(* "crlf" is the empty line, and the CRLF at the end of a chunk's data. *)
Line == StartLine \cup FieldLine \cup {"size", "badsize", "crlf"}

Kind == Line \cup {"byte", "junk"}

Pieces == [is : Kind, n : Nat]

Kinds(s) == {s[i].is : i \in DOMAIN s}

(* Where the pieces end that are followed by an empty line: "\r\n\r\n". *)
HeaderEnds(s) == {i \in 1 .. Len(s) - 1 : s[i].is \in Line /\ s[i + 1].is = "crlf"}

(* The end of the first line at or after p, 0 if there is none. *)
NextLine(s, p) ==
  LET ends == {i \in p .. Len(s) : s[i].is \in Line}
  IN  IF ends = {} THEN 0 ELSE Min(ends)

(* From the first line of one of the kinds on. *)
From(s, kinds) == SubSeq(s, Min({i \in DOMAIN s : s[i].is \in kinds}), Len(s))

-----------------------------------------------------------------------------
(* What a call can come to: the message is complete and ends at piece      *)
(* "at", more has to be received, the message is malformed (400 or 502),   *)
(* or an exception leaves the function.  After "overrun" the position is   *)
(* not the one in the text: it has wrapped, back over what has been read,  *)
(* or is negative.  What becomes of such a connection is not followed.     *)
Complete(at) == [outcome |-> "parsed", at |-> at]
Incomplete == [outcome |-> "incomplete", at |-> 0]
Malformed == [outcome |-> "malformed", at |-> 0]
Throws == [outcome |-> "throws", at |-> 0]
Overrun == [outcome |-> "overrun", at |-> 0]

(* What the uint32_t holds of the number in a line: std::stoul returns 64  *)
(* bits.                                                                   *)
Stored(piece) == piece.n % Word

(* A message that goes on to e, and s has been received. *)
Overruns(s, e) == e >= Word \/ (e > MaxInt /\ e <= Len(s))

(* The header lines of s, between its first line and the empty line. *)
HeaderLines(s) == SubSeq(s, 2, Min(HeaderEnds(s)))

(* Host and Content-Length may not occur twice. *)
HeadersOK(h) ==
  /\ Kinds(h) \subseteq FieldLine \ {"badfield"}
  /\ \A i, j \in DOMAIN h :
       /\ {h[i].is, h[j].is} \subseteq {"length", "badlength"} => i = j
       /\ h[i].is = "Host" /\ h[j].is = "Host" => i = j

(* Seeded fault: a part of the body will do. *)
LengthBodyBegun(s, start, n) ==
  IF start > Len(s) THEN Incomplete ELSE Complete(Min({start - 1 + n, Len(s)}))

(* A body of n bytes, the first at start. *)
LengthBody(s, start, n) ==
  LET e == start - 1 + n
  IN  CASE Overruns(s, e) -> Overrun
        [] ~Overruns(s, e) /\ e > Len(s) -> Incomplete
        [] ~Overruns(s, e) /\ e <= Len(s) -> Complete(e)

(* The optional trailer: header lines up to an empty line. *)
IsTrailerLine(s, p) == NextLine(s, p) = p /\ s[p].is \in FreeField

TrailerEnd(s, p) ==
  CASE NextLine(s, p) = 0 -> Incomplete
    [] NextLine(s, p) = p /\ s[p].is = "crlf" -> Complete(p)
    [] OTHER -> Malformed

Trailer(s, start) ==
  LET from[p \in 1 .. Len(s) + 1] ==
        IF IsTrailerLine(s, p) THEN from[p + 1] ELSE TrailerEnd(s, p)
  IN  from[start]

(* A chunk at p: the line with its size, the data, a CRLF. *)
IsSize(s, p) == NextLine(s, p) = p /\ s[p].is = "size"

ChunkEnd(s, p) == p + 1 + Stored(s[p])

IsChunk(s, p) ==
  /\ IsSize(s, p) /\ Stored(s[p]) > 0
  /\ ChunkEnd(s, p) <= Len(s) /\ ~Overruns(s, ChunkEnd(s, p))
  /\ s[ChunkEnd(s, p)].is = "crlf"

(* Seeded fault: the data of the last chunk need not have arrived. *)
ChunksEndUnchecked(s, p) ==
  CASE NextLine(s, p) = 0 -> Incomplete
    [] IsSize(s, p) /\ Stored(s[p]) = 0 -> Trailer(s, p + 1)
    [] IsSize(s, p) /\ Stored(s[p]) > 0 -> Malformed
    [] OTHER -> Throws

(* Less than the two bytes there have to be after the data of a chunk. *)
IsCutOff(s, p) ==
  LET e == ChunkEnd(s, p)
  IN  e > Len(s) \/ (e = Len(s) /\ s[e].is = "byte")

(* What comes behind a size with data that are not a chunk. *)
DataEnd(s, p) ==
  CASE Overruns(s, ChunkEnd(s, p)) -> Overrun
    [] ~Overruns(s, ChunkEnd(s, p)) /\ IsCutOff(s, p) -> Incomplete
    [] ~Overruns(s, ChunkEnd(s, p)) /\ ~IsCutOff(s, p) -> Malformed

(* At the chunk of size 0, or what reads as 0, the trailer follows.  A     *)
(* line that does not begin with a number makes std::stoul throw (the      *)
(* bytes of a body are not digits).                                        *)
ChunksEnd(s, p) ==
  CASE NextLine(s, p) = 0 -> Incomplete
    [] IsSize(s, p) /\ Stored(s[p]) = 0 -> Trailer(s, p + 1)
    [] IsSize(s, p) /\ Stored(s[p]) > 0 -> DataEnd(s, p)
    [] OTHER -> Throws

ChunkedBody(s, start) ==
  LET from[p \in 1 .. Len(s) + 1] ==
        IF IsChunk(s, p) THEN from[ChunkEnd(s, p) + 1] ELSE ChunksEnd(s, p)
  IN  from[start]

(* Where the message s ends, its header section being in order.            *)
(* Transfer-Encoding overrides Content-Length; with neither there is no    *)
(* body.                                                                   *)
Framing(s) ==
  LET h == HeaderLines(s)
      start == Len(h) + 3
      length == {Stored(h[i]) : i \in {j \in DOMAIN h : h[j].is = "length"}}
  IN  CASE "chunked" \in Kinds(h) -> ChunkedBody(s, start)
        [] "chunked" \notin Kinds(h) /\ "gzip" \in Kinds(h) -> Malformed
        [] Kinds(h) \cap {"chunked", "gzip"} = {} /\ "badlength" \in Kinds(h) -> Malformed
        [] Kinds(h) \cap {"chunked", "gzip", "badlength"} = {} /\ length # {} ->
             LengthBody(s, start, Max(length))
        [] OTHER -> Complete(start - 1)
=============================================================================
