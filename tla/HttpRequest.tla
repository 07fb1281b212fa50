---------------------------- MODULE HttpRequest ----------------------------
(***************************************************************************)
(* parse_request (HttpRequest.h/.cpp): how the bytes received on a         *)
(* connection are cut into requests.                                       *)
(***************************************************************************)
EXTENDS HttpMessage

(* The lines that have one of the three methods in them, which is all that *)
(* is looked for (HttpRequest.cpp:83-98): a "badline" has one and is       *)
(* refused for what else it says.  A line without one (PUT) is a "field"   *)
(* here: alone it is malformed, but when a method follows it in the text   *)
(* it is erased, and nobody is told.                                       *)
RequestLine == {"GET", "POST", "CONNECT", "badline"}

(* The end of the request that begins with the first piece of s.  Host has *)
(* to be there.                                                            *)
RequestEnd(s) ==
  IF \/ HeaderEnds(s) = {}
     \/ s[1].is = "badline"
     \/ ~HeadersOK(HeaderLines(s)) \/ "Host" \notin Kinds(HeaderLines(s))
  THEN Malformed ELSE Framing(s)

(* What parse_request makes of the string it is given, and leaves in it:   *)
(* what is before the first method is erased as soon as there is an empty  *)
(* line somewhere, the request itself only when it is complete.            *)
parse_request(request_str) ==
  LET s == From(request_str, RequestLine)
      f == RequestEnd(s)
  IN  CASE HeaderEnds(request_str) = {} ->
             [outcome |-> "incomplete", request |-> <<>>, rest |-> request_str]
        [] HeaderEnds(request_str) # {} /\ Kinds(request_str) \cap RequestLine = {} ->
             [outcome |-> "malformed", request |-> <<>>, rest |-> request_str]
        [] OTHER ->
             [outcome |-> f.outcome,
              request |-> SubSeq(s, 1, f.at),
              rest    |-> SubSeq(s, f.at + 1, Len(s))]

-----------------------------------------------------------------------------
(* One message of a peer: it begins with a method, and parse_request takes *)
(* all of it when there is nothing else, if it takes it.                   *)
IsMessage(m) ==
  /\ m # <<>> /\ m[1].is \in RequestLine
  /\ parse_request(m).outcome = "parsed" => parse_request(m).request = m

(* What a peer says in the course of a connection: only the last message   *)
(* may break off.                                                          *)
IsConversation(ms) ==
  \A i \in DOMAIN ms :
    /\ IsMessage(ms[i])
    /\ parse_request(ms[i]).outcome = "incomplete" => i = Len(ms)
=============================================================================
