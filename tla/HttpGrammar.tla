---------------------------- MODULE HttpGrammar ----------------------------
(***************************************************************************)
(* Which texts are HTTP messages (RFC 7230, 3): what the parsers are       *)
(* measured against.  Nothing here is code of the proxy.                   *)
(***************************************************************************)
EXTENDS HttpMessage

(* From p to its end m is a trailer. *)
TrailerFrom(m, p) ==
  /\ p <= Len(m) /\ m[Len(m)].is = "crlf"
  /\ \A i \in p .. Len(m) - 1 : m[i].is \in FreeField

(* From p to its end m is a chunked body: there are chunks one after the   *)
(* other, the last one of size 0.                                          *)
ChunksFrom(m, start) ==
  \E starts \in SUBSET (start .. Len(m)) :
    /\ start \in starts
    /\ \A p \in starts :
         /\ m[p].is = "size"
         /\ IF m[p].n = 0 THEN TrailerFrom(m, p + 1)
            ELSE /\ p + 1 + m[p].n \in DOMAIN m /\ m[p + 1 + m[p].n].is = "crlf"
                 /\ p + 2 + m[p].n \in starts

-----------------------------------------------------------------------------
(* The body of a request with headers h ends with m; there is none without *)
(* a length.                                                               *)
RequestBodyEnds(m, h) ==
  CASE "chunked" \in Kinds(h) -> ChunksFrom(m, Len(h) + 3)
    [] "chunked" \notin Kinds(h) /\ "length" \in Kinds(h) ->
         \E i \in DOMAIN h : h[i].is = "length" /\ Len(m) = Len(h) + 2 + h[i].n
    [] OTHER -> Len(m) = Len(h) + 2

IsRequest(m) ==
  \E k \in 1 .. Len(m) - 1 :
    LET h == SubSeq(m, 2, k)
    IN  /\ m[1].is \in {"GET", "POST", "CONNECT"} /\ m[k + 1].is = "crlf"
        /\ HeadersOK(h) /\ "Host" \in Kinds(h)
        /\ "chunked" \in Kinds(h) \/ Kinds(h) \cap {"gzip", "badlength"} = {}
        /\ RequestBodyEnds(m, h)

(* A peer's requests, one after the other; the last may break off.  Each   *)
(* is no longer than an int can count, the broken one with what is missing *)
(* of it.                                                                  *)
SpeaksHttp(ms) ==
  \A i \in DOMAIN ms :
    \/ IsRequest(ms[i]) /\ Len(ms[i]) <= MaxInt
    \/ /\ i = Len(ms)
       /\ \E m \in Seq(Pieces) :
            /\ IsRequest(m) /\ Len(m) <= MaxInt
            /\ \E n \in 1 .. Len(m) - 1 : ms[i] = SubSeq(m, 1, n)

-----------------------------------------------------------------------------
(* Neither the text nor a length stated in it is more than an int can count. *)
Countable(s) ==
  /\ Len(s) <= MaxInt
  /\ \A i \in DOMAIN s : s[i].is \in {"length", "size"} => s[i].n <= MaxInt

(* A response to which HTTP gives no body whatever its headers say.        *)
Bodiless(message) == message # <<>> /\ message[1].n = 304

(* What a response with headers h has for a body ends with m, and z is     *)
(* what the peer sends after it; without a length it goes on to the end.   *)
BodyEnds(m, h, z) ==
  LET start == Len(h) + 3
  IN  CASE Bodiless(m) -> Len(m) = start - 1
        [] ~Bodiless(m) /\ "chunked" \in Kinds(h) ->
             ChunksFrom(m, start) /\ "badage" \notin Kinds(m)
        [] ~Bodiless(m) /\ "chunked" \notin Kinds(h) /\ "length" \in Kinds(h) ->
             \E i \in DOMAIN h : h[i].is = "length" /\ Len(m) = start - 1 + h[i].n
        [] OTHER -> z = <<>>

(* m is a response when z follows it.                                      *)
IsResponse(m, z) ==
  \E k \in 1 .. Len(m) - 1 :
    LET h == SubSeq(m, 2, k)
    IN  /\ m[1].is = "status" /\ m[k + 1].is = "crlf"
        /\ HeadersOK(h) /\ "badage" \notin Kinds(h)
        /\ "chunked" \in Kinds(h) \/ Kinds(h) \cap {"gzip", "badlength"} = {}
        /\ BodyEnds(m, h, z)

(* A piece of sent is a response, of what is before it and after it.       *)
ResponseAt(sent, i, e) ==
  IsResponse(SubSeq(sent, i + 1, e), SubSeq(sent, e + 1, Len(sent)))
=============================================================================
