--------------------------- MODULE ResponseParser ---------------------------
(***************************************************************************)
(* HttpResponse::parse_response (HttpResponse.cpp): whether what has been  *)
(* received of an origin holds a response, and which.                      *)
(***************************************************************************)
EXTENDS HttpMessage

(* The end of the response that begins with the first piece of s.  Any     *)
(* status line will do, but there has to be a header line: the loop over   *)
(* them takes the empty line for one without a colon.                      *)
ResponseEnd(s) ==
  IF \/ HeaderEnds(s) = {}
     \/ HeaderLines(s) = <<>> \/ ~HeadersOK(HeaderLines(s))
  THEN Malformed ELSE Framing(s)

(* Seeded fault: the empty line is not waited for. *)
parse_response_eagerly(response_str) ==
  LET s == From(response_str, {"status"})
      f == ResponseEnd(s)
      response == SubSeq(s, 1, f.at)
  IN  CASE "status" \notin Kinds(response_str) ->
             [outcome |-> "malformed", response |-> <<>>, rest |-> response_str]
        [] "status" \in Kinds(response_str) /\ "badage" \in Kinds(response) ->
             [outcome |-> "throws", response |-> <<>>, rest |-> s]
        [] OTHER -> [outcome |-> f.outcome, response |-> response, rest |-> s]

(* A max-age is looked at last, when the response is complete, and         *)
(* std::stoi throws on one that is no number (a body is made of bytes: the *)
(* line is in the header or the trailer).  What is before the status line  *)
(* is erased from the string, the response is not.                         *)
parse_response(response_str) ==
  LET s == From(response_str, {"status"})
      f == ResponseEnd(s)
      response == SubSeq(s, 1, f.at)
  IN  CASE HeaderEnds(response_str) = {} ->
             [outcome |-> "incomplete", response |-> <<>>, rest |-> response_str]
        [] HeaderEnds(response_str) # {} /\ "status" \notin Kinds(response_str) ->
             [outcome |-> "malformed", response |-> <<>>, rest |-> response_str]
        [] /\ HeaderEnds(response_str) # {}
           /\ "status" \in Kinds(response_str) /\ "badage" \in Kinds(response) ->
             [outcome |-> "throws", response |-> <<>>, rest |-> s]
        [] OTHER -> [outcome |-> f.outcome, response |-> response, rest |-> s]
=============================================================================
