--------------------------- MODULE ForwardRequest ---------------------------
(***************************************************************************)
(* One call of RequestHandler::forward_request: the host is resolved, its  *)
(* addresses are tried, the request is sent and the answer received, in    *)
(* segments of any size, until parse_response finds a response in it.  The *)
(* origin sends one of its answers and may close at any time.              *)
(***************************************************************************)
EXTENDS ResponseParser, HttpGrammar, FiniteSets

CONSTANTS
  MaxAddress,   \* the most addresses a host name leads to
  Answer        \* what an origin may send, and the response that is in it

(* What the parser makes of a response it cannot see the end of: one       *)
(* without a length has no body for it (HttpResponse.cpp:310).             *)
Unframed(message) == Kinds(HeaderLines(message)) \cap {"length", "chunked"} = {}

(* message is the first response in sent, as HTTP delimits it, and before  *)
(* it is no line: <<>> when there is none.  (A 304 may have a length, of a *)
(* body that it does not have: nothing follows it then.)                   *)
Delimited(a) ==
  \/ \E i, e \in 0 .. Len(a.sent) :
       /\ a.message = SubSeq(a.sent, i + 1, e) /\ ResponseAt(a.sent, i, e)
       /\ Kinds(SubSeq(a.sent, 1, i)) \cap Line = {}
       /\ Bodiless(a.message) /\ ~Unframed(a.message) => e = Len(a.sent)
  \/ /\ a.message = <<>>
     /\ \A i, e \in 0 .. Len(a.sent) :
          "status" \notin Kinds(SubSeq(a.sent, 1, i)) => ~ResponseAt(a.sent, i, e)

AnswerAssumption ==
  /\ MaxAddress \in Nat
  /\ Answer \subseteq [sent : Seq(Pieces), message : Seq(Pieces)]
  /\ \A a \in Answer : Delimited(a)
ASSUME AnswerAssumption

VARIABLES
  pc,
  addresses,      \* how many are still to be tried
  open,           \* the sockets that are open, by the address they are for
  answer,         \* what the origin sends, NoAnswer before it does
  incoming,       \* what of it has not been received
  ended,          \* the origin has closed its side
  curr_message,
  result          \* how the call ended, and the response it returned

vars == <<pc, addresses, open, answer, incoming, ended, curr_message, result>>

NoAnswer == [sent |-> <<>>, message |-> <<>>]

Result(how, response) == [how |-> how, response |-> response]

(* A bad gateway is returned for one of these reasons, which go to the log. *)
Reason == {"resolve", "connect", "send", "recv", "closed", "malformed"}

-----------------------------------------------------------------------------
Init ==
  /\ pc = "resolve"
  /\ addresses = 0
  /\ open = {}
  /\ answer = NoAnswer
  /\ incoming = <<>>
  /\ ended = FALSE
  /\ curr_message = <<>>
  /\ result = Result("none", <<>>)

Returns(how, response) ==
  /\ pc' = "done"
  /\ result' = Result(how, response)

(* getaddrinfo. *)
Resolve ==
  /\ pc = "resolve"
  /\ \/ /\ Returns("resolve", <<>>)
        /\ UNCHANGED addresses
     \/ /\ pc' = "connect"
        /\ addresses' \in 1 .. MaxAddress
        /\ UNCHANGED result
  /\ UNCHANGED <<open, answer, incoming, ended, curr_message>>

(* Seeded fault: the socket of an address that does not answer is kept. *)
TryAddressKeeping ==
  /\ pc = "connect" /\ addresses > 0
  /\ \/ pc' = "send" /\ UNCHANGED addresses
     \/ addresses' = addresses - 1 /\ UNCHANGED pc
  /\ open' = open \cup {addresses}
  /\ UNCHANGED <<answer, incoming, ended, curr_message, result>>

(* socket and connect; when connect fails the socket is closed again. *)
TryAddress ==
  /\ pc = "connect" /\ addresses > 0
  /\ \/ /\ pc' = "send"
        /\ open' = open \cup {addresses}
        /\ UNCHANGED addresses
     \/ /\ addresses' = addresses - 1
        /\ UNCHANGED <<pc, open>>
  /\ UNCHANGED <<answer, incoming, ended, curr_message, result>>

OutOfAddresses ==
  /\ pc = "connect" /\ addresses = 0
  /\ Returns("connect", <<>>)
  /\ UNCHANGED <<addresses, open, answer, incoming, ended, curr_message>>

CloseSocket == open' = open \ {addresses}

Send ==
  /\ pc = "send"
  /\ \/ /\ pc' = "recv"
        /\ UNCHANGED <<open, result>>
     \/ /\ Returns("send", <<>>)
        /\ CloseSocket
  /\ UNCHANGED <<addresses, answer, incoming, ended, curr_message>>

(* Seeded fault: nothing is parsed before the origin closes. *)
ReceiveToTheEnd ==
  /\ pc = "recv"
  /\ \E n \in 1 .. Len(incoming) :
       /\ curr_message' = curr_message \o SubSeq(incoming, 1, n)
       /\ incoming' = SubSeq(incoming, n + 1, Len(incoming))
  /\ UNCHANGED <<pc, addresses, open, answer, ended, result>>

(* recv returns the next n pieces, and all there is is parsed.  The socket *)
(* is closed in both cases that return, not when an exception is thrown.   *)
(* A position that has overrun is not followed: no step receives it.       *)
Receive ==
  /\ pc = "recv"
  /\ \E n \in 1 .. Len(incoming) :
       \E p \in {parse_response(curr_message \o SubSeq(incoming, 1, n))} :
         /\ incoming' = SubSeq(incoming, n + 1, Len(incoming))
         /\ curr_message' = p.rest
         /\ \/ p.outcome = "incomplete" /\ UNCHANGED <<pc, open, result>>
            \/ p.outcome = "malformed" /\ Returns("malformed", <<>>) /\ CloseSocket
            \/ p.outcome = "parsed" /\ Returns("response", p.response) /\ CloseSocket
            \/ p.outcome = "throws" /\ Returns("exception", <<>>) /\ UNCHANGED open
  /\ UNCHANGED <<addresses, answer, ended>>

(* Seeded fault: an early return without close. *)
ReceiveNothingOpen ==
  /\ pc = "recv" /\ ended /\ incoming = <<>>
  /\ Returns("closed", <<>>)
  /\ UNCHANGED <<addresses, open, answer, incoming, ended, curr_message>>

(* The origin has closed, and there was no whole response. *)
ReceiveNothing ==
  /\ pc = "recv" /\ ended /\ incoming = <<>>
  /\ Returns("closed", <<>>)
  /\ CloseSocket
  /\ UNCHANGED <<addresses, answer, incoming, ended, curr_message>>

ReceiveFails ==
  /\ pc = "recv"
  /\ Returns("recv", <<>>)
  /\ CloseSocket
  /\ UNCHANGED <<addresses, answer, incoming, ended, curr_message>>

-----------------------------------------------------------------------------
OriginAnswers ==
  /\ pc = "recv" /\ answer = NoAnswer /\ ~ended
  /\ answer' \in Answer
  /\ incoming' = answer'.sent
  /\ UNCHANGED <<pc, addresses, open, ended, curr_message, result>>

(* The origin closes, having sent a part of its answer or nothing. *)
OriginCloses ==
  /\ pc = "recv" /\ ~ended
  /\ ended' = TRUE
  /\ \E n \in 0 .. Len(incoming) : incoming' = SubSeq(incoming, 1, n)
  /\ UNCHANGED <<pc, addresses, open, answer, curr_message, result>>

Returned == pc = "done" /\ UNCHANGED vars

forward_request ==
  Resolve \/ TryAddress \/ OutOfAddresses \/ Send \/ Receive \/ ReceiveNothing
    \/ ReceiveFails

Next == forward_request \/ OriginAnswers \/ OriginCloses \/ Returned

Spec == Init /\ [][Next]_vars

(* recv does not wait. *)
Arrived == incoming # <<>> \/ ended

(* The thread goes on whenever recv does not keep it.  Nothing is assumed  *)
(* of the origin.                                                          *)
FairSpec ==
  /\ Spec
  /\ \/ []<>(pc = "done" \/ (pc = "recv" /\ ~Arrived))
     \/ []<><<forward_request>>_vars

-----------------------------------------------------------------------------
(* There is one socket at a time, and it is closed on return unless an     *)
(* exception was thrown.                                                   *)
TypeOK ==
  /\ pc \in {"resolve", "connect", "send", "recv", "done"}
  /\ addresses \in 0 .. MaxAddress
  /\ open = IF pc \in {"send", "recv"} \/ result.how = "exception"
            THEN {addresses} ELSE {}
  /\ answer \in Answer \cup {NoAnswer}
  /\ {incoming, curr_message} \subseteq Seq(Pieces)
  /\ ended \in BOOLEAN
  /\ result.how \in Reason \cup {"none", "response", "exception"}
  /\ pc = "done" <=> result.how # "none"

HeadOf(message) == SubSeq(message, 1, Min(HeaderEnds(message)) + 1)

(* However an answer is cut into segments and wherever it breaks off, what *)
(* is returned as the response is the one HTTP finds in what the origin    *)
(* sent: a body with a length or in chunks is never taken for complete     *)
(* before it is (and then cached), and nothing that is not of the response *)
(* gets into it.  A body that only the end of the connection delimits is   *)
(* dropped by this code (HttpResponse.cpp:310): of such a response it only *)
(* says that no more than the response is returned.  A length that an int  *)
(* cannot count is outside of it.                                          *)
ResponseIsWhole ==
  result.how = "response" /\ Countable(answer.sent) =>
    /\ answer.message # <<>>
    /\ IF Unframed(answer.message) THEN IsPrefix(result.response, answer.message)
       ELSE result.response = answer.message

(* An answer is called malformed on account of what the origin sent, not   *)
(* of how it arrived: one that has a well-formed response is refused only  *)
(* when that response has no header line (HttpResponse.cpp:109-112).       *)
OnlyMalformedIsRefused ==
  result.how = "malformed" /\ Countable(answer.sent) /\ answer.message # <<>> =>
    Len(HeadOf(answer.message)) = 2

(* The call returns once a whole response has been sent, even if the       *)
(* origin keeps the connection open, and once the origin has closed.  The  *)
(* exceptions are a 304 with a length, whose body the parser waits for,    *)
(* and a length that an int cannot count.                                  *)
AnswerEndsTheCall ==
  /\ Countable(answer.sent)
  /\ \/ ended
     \/ answer.message # <<>> /\ ~(Bodiless(answer.message) /\ ~Unframed(answer.message))
  ~> pc = "done"

-----------------------------------------------------------------------------
(* RequestHandler, with one thread that fetches one page. *)
Response(status, body) ==
  [status |-> status, cache_control |-> {}, max_age |-> 0, expires |-> "none",
   vary |-> "none", validator |-> "none", body |-> body]

OnePage == Response("200 OK", "page")

(* The null pointer: something of the form of a response but none. *)
Nil == Response("200 OK", "nil")

(* HttpResponse(). *)
Error502 == Response("502 Bad Gateway", "error")

Get == [method |-> "GET", url |-> "u", host |-> "h", validator |-> "none",
        client_error_code |-> 0]

OneSite == {<<"h", "u">>}

Stage ==
  CASE pc \in {"resolve", "connect"} -> "forward"
    [] pc \in {"send", "recv"} -> "forwarding"
    [] pc = "done" /\ result.how # "exception" -> "reply"
    [] pc = "done" /\ result.how = "exception" -> "idle"

ResponseSoFar ==
  CASE result.how \in Reason -> Error502
    [] result.how \in {"none", "response"} /\ answer # NoAnswer -> OnePage
    [] OTHER -> Nil

Processed == IF answer = NoAnswer THEN 0 ELSE 1

Outcome == IF result.how = "exception" THEN "exception" ELSE "0"

Call == INSTANCE RequestHandler WITH
  NoHeader <- "none", BadDate <- "bad", Body <- {"page", "error"}, Validator <- {},
  VaryValue <- {}, Thread <- {"t"}, Url <- {"u"}, Node <- {}, Capacity <- 0, Day <- 0,
  Host <- {"h"}, Changing <- {}, MaxTime <- 0, MaxVersion <- 1,
  Page <- [a \in OneSite |-> <<OnePage>>], PostPage <- [a \in OneSite |-> OnePage],
  Request <- {Get}, ErrorBody <- "error",
  NoResponse <- Nil, cache_map <- <<>>, cache_list <- <<>>, now <- 0,
  origin <- [a \in OneSite |-> 1], alive <- TRUE,
  request <- [t \in {"t"} |-> Get],
  client_validator <- [t \in {"t"} |-> "none"],
  cached_response <- [t \in {"t"} |-> Nil],
  answer <- [t \in {"t"} |-> Nil],
  pc <- [t \in {"t"} |-> Stage],
  response <- [t \in {"t"} |-> ResponseSoFar],
  processed <- [t \in {"t"} |-> Processed],
  upstream <- [t \in {"t"} |-> open # {}],
  result <- [t \in {"t"} |-> Outcome]

(* Each step is one that RequestHandler has of its forward_request, or     *)
(* none at all: what that module shows of the socket, the answer and the   *)
(* request that is not repeated holds with this loop in the place of its   *)
(* steps.                                                                  *)
ImplementsTheCall ==
  [][\/ Call!ForwardRequest("t", "forward", "forwarding", "reply")
     \/ Call!OriginAnswers("t")]_(Call!vars)
=============================================================================
