--------------------------- MODULE ClientHandler ---------------------------
(***************************************************************************)
(* The loop that serves a connection (ClientHandler.h/.cpp), several       *)
(* connections side by side, each with a thread of its own.  The peer of   *)
(* a connection sends the messages of its script back to back, cut into    *)
(* segments of any size.  Handling a request (RequestHandler) is one step  *)
(* with the three ways handle_request can end, except that a CONNECT goes  *)
(* through the steps of its tunnel (ConnectTunnel), which reads the same   *)
(* stream.                                                                 *)
(***************************************************************************)
EXTENDS HttpRequest

CONSTANTS
  Conn,
  Script,    \* what the peers may send: functions from Conn to messages
  Garbage,   \* the values an uninitialized client_error_code may hold
  Replies    \* what an origin may send through a tunnel

VARIABLES
  script,          \* what the peer of each connection sends, as messages
  incoming,        \* what of it has not been received
  curr_message,    \* received and not yet parsed off
  pc,
  request,         \* the request between parse_request and handle_request
  handled,         \* the requests handle_request was called with, in order
  answers,         \* the answers sent, as the number of the request answered
  interrupted,     \* the last round of the loop was ended by an exception
  curr_request_id, \* shared by all connections
  stop_flag,
  replies, tunnel, ready, buffer, relayed, stream, gone, remote_socket \* ConnectTunnel's

Tunnel == INSTANCE ConnectTunnel WITH Data <- Pieces

(* Back to back the messages of a peer are a stream of pieces. *)
ASSUME ScriptAssumption ==
  /\ Script \subseteq [Conn -> Seq(Seq(Pieces))]
  /\ Garbage \subseteq Int
  /\ Tunnel!TunnelAssumption

conn_vars == <<script, incoming, curr_message, pc, request, handled, answers,
               interrupted>>
tunnel_vars == <<replies, tunnel, ready, buffer, relayed, stream, gone, remote_socket>>
vars == <<conn_vars, curr_request_id, stop_flag, tunnel_vars>>

NoRequest == [pieces |-> <<>>, client_error_code |-> 0]

-----------------------------------------------------------------------------
Init ==
  /\ Tunnel!NoTunnels
  /\ script \in Script
  /\ incoming = [c \in Conn |-> FlattenSeq(script[c])]
  /\ curr_message = [c \in Conn |-> <<>>]
  /\ pc = [c \in Conn |-> "test"]
  /\ request = [c \in Conn |-> NoRequest]
  /\ handled = [c \in Conn |-> <<>>]
  /\ answers = [c \in Conn |-> <<>>]
  /\ interrupted = [c \in Conn |-> FALSE]
  /\ curr_request_id = 0
  /\ stop_flag = FALSE

Goes(c, from, to) ==
  /\ pc[c] = from
  /\ pc' = [pc EXCEPT ![c] = to]

Test(c) ==
  /\ Goes(c, "test", IF stop_flag THEN "closed" ELSE "recv")
  /\ UNCHANGED <<script, incoming, curr_message, request, handled, answers,
                 interrupted, curr_request_id, stop_flag, tunnel_vars>>

(* Seeded fault: = for +=. *)
ReceiveOver(c) ==
  /\ Goes(c, "recv", "parse")
  /\ \E n \in 1 .. Len(incoming[c]) :
       /\ curr_message' = [curr_message EXCEPT ![c] = SubSeq(incoming[c], 1, n)]
       /\ incoming' = [incoming EXCEPT ![c] = SubSeq(@, n + 1, Len(@))]
  /\ interrupted' = [interrupted EXCEPT ![c] = FALSE]
  /\ UNCHANGED <<script, request, handled, answers, curr_request_id, stop_flag, tunnel_vars>>

(* recv returns the next n pieces. *)
Receive(c) ==
  /\ Goes(c, "recv", "parse")
  /\ \E n \in 1 .. Len(incoming[c]) :
       /\ curr_message' = [curr_message EXCEPT ![c] = @ \o SubSeq(incoming[c], 1, n)]
       /\ incoming' = [incoming EXCEPT ![c] = SubSeq(@, n + 1, Len(@))]
  /\ interrupted' = [interrupted EXCEPT ![c] = FALSE]
  /\ UNCHANGED <<script, request, handled, answers, curr_request_id, stop_flag, tunnel_vars>>

(* Seeded fault: the end of the stream is taken for an empty segment. *)
ReceiveNothingAndGoOn(c) ==
  /\ Goes(c, "recv", "test")
  /\ incoming[c] = <<>>
  /\ UNCHANGED <<script, incoming, curr_message, request, handled, answers,
                 interrupted, curr_request_id, stop_flag, tunnel_vars>>

(* The peer has closed. *)
ReceiveNothing(c) ==
  /\ Goes(c, "recv", "closed")
  /\ incoming[c] = <<>>
  /\ UNCHANGED <<script, incoming, curr_message, request, handled, answers,
                 interrupted, curr_request_id, stop_flag, tunnel_vars>>

(* recv fails: the string made of -1 bytes throws, the handler catches it. *)
ReceiveFails(c) ==
  /\ Goes(c, "recv", "test")
  /\ interrupted' = [interrupted EXCEPT ![c] = TRUE]
  /\ UNCHANGED <<script, incoming, curr_message, request, handled, answers,
                 curr_request_id, stop_flag, tunnel_vars>>

(* Seeded fault: back to recv after one request. *)
ParseOnce(c) ==
  /\ pc[c] = "parse"
  /\ \E p \in {parse_request(curr_message[c])} :
       /\ p.outcome # "overrun"
       /\ Goes(c, "parse", IF p.outcome \in {"parsed", "malformed"} /\ request[c] = NoRequest
                           THEN "take_id" ELSE "test")
       /\ IF pc'[c] = "take_id"
          THEN /\ curr_message' = [curr_message EXCEPT ![c] = p.rest]
               /\ request' = [request EXCEPT ![c] =
                                [pieces |-> p.request,
                                 client_error_code |-> IF p.outcome = "malformed" THEN 400 ELSE 0]]
          ELSE /\ request' = [request EXCEPT ![c] = NoRequest]
               /\ UNCHANGED curr_message
       /\ interrupted' = [interrupted EXCEPT ![c] = p.outcome = "throws"]
       /\ UNCHANGED <<script, incoming, handled, answers, curr_request_id, stop_flag, tunnel_vars>>

(* client_error_code is set for a malformed request only: for any other it *)
(* holds what the stack held.  A position that has overrun is not followed *)
(* (the thread stops here).                                                *)
Parse(c) ==
  /\ pc[c] = "parse"
  /\ \E p \in {parse_request(curr_message[c])} :
       /\ p.outcome # "overrun"
       /\ Goes(c, "parse", IF p.outcome \in {"parsed", "malformed"}
                           THEN "take_id" ELSE "test")
       /\ curr_message' = [curr_message EXCEPT ![c] = p.rest]
       /\ \E code \in IF p.outcome = "malformed" THEN {400} ELSE Garbage :
            request' = [request EXCEPT ![c] =
                          IF p.outcome \in {"parsed", "malformed"}
                          THEN [pieces |-> p.request, client_error_code |-> code]
                          ELSE NoRequest]
       /\ interrupted' = [interrupted EXCEPT ![c] = p.outcome = "throws"]
       /\ UNCHANGED <<script, incoming, handled, answers, curr_request_id, stop_flag, tunnel_vars>>

(* request_id = curr_request_id++; the value is not used. *)
TakeId(c) ==
  /\ Goes(c, "take_id", "handle")
  /\ curr_request_id' = curr_request_id + 1
  /\ UNCHANGED <<script, incoming, curr_message, request, handled, answers,
                 interrupted, stop_flag, tunnel_vars>>

(* handle_request is called with what curr_request_id is by then. *)
Handle(c) ==
  /\ Goes(c, "handle", "handling")
  /\ handled' = [handled EXCEPT ![c] =
                   Append(@, [pieces |-> request[c].pieces,
                              client_error_code |-> request[c].client_error_code,
                              request_id |-> curr_request_id])]
  /\ UNCHANGED <<script, incoming, curr_message, request, answers, interrupted,
                 curr_request_id, stop_flag, tunnel_vars>>

IsConnect(c) == Kinds(request[c].pieces) \cap {"CONNECT"} # {}

Answered(c) == answers' = [answers EXCEPT ![c] = Append(@, Len(handled[c]))]

(* Seeded fault: the connection is kept after a malformed request. *)
RejectsAndGoesOn(c) ==
  /\ request[c].client_error_code # 0
  /\ Goes(c, "handling", "test")
  /\ Answered(c) \/ UNCHANGED answers
  /\ UNCHANGED <<script, incoming, curr_message, request, handled, interrupted,
                 curr_request_id, stop_flag, tunnel_vars>>

(* 400 is sent, or cannot be, and the connection is closed. *)
Rejects(c) ==
  /\ request[c].client_error_code # 0
  /\ Goes(c, "handling", "closed")
  /\ Answered(c) \/ UNCHANGED answers
  /\ UNCHANGED <<script, incoming, curr_message, request, handled, interrupted,
                 curr_request_id, stop_flag, tunnel_vars>>

(* Seeded fault: the tunnel is left to a thread of its own. *)
TunnelOpensAside(c) ==
  /\ request[c].client_error_code = 0 /\ IsConnect(c)
  /\ Goes(c, "handling", "parse")
  /\ Tunnel!Opens(c)
  /\ Answered(c) \/ UNCHANGED answers
  /\ UNCHANGED <<script, curr_message, request, handled, interrupted,
                 curr_request_id, stop_flag>>

(* A CONNECT is answered with 200 and the tunnel runs, or with 502; how    *)
(* sending that ends is not looked at.  The tunnel takes from the socket:  *)
(* what is in curr_message already stays there, and is parsed afterwards.  *)
TunnelOpens(c) ==
  /\ request[c].client_error_code = 0 /\ IsConnect(c)
  /\ Goes(c, "handling", "tunnel")
  /\ Tunnel!Opens(c)
  /\ Answered(c) \/ UNCHANGED answers
  /\ UNCHANGED <<script, curr_message, request, handled, interrupted,
                 curr_request_id, stop_flag>>

(* No address, or none that takes the connection. *)
TunnelFails(c) ==
  /\ request[c].client_error_code = 0 /\ IsConnect(c)
  /\ Goes(c, "handling", "parse")
  /\ Answered(c) \/ UNCHANGED answers
  /\ UNCHANGED <<script, incoming, curr_message, request, handled, interrupted,
                 curr_request_id, stop_flag, tunnel_vars>>

TunnelRelays(c) ==
  /\ Tunnel!Relays(c)
  /\ Goes(c, "tunnel", IF tunnel'[c] = "none" THEN "parse" ELSE "tunnel")
  /\ UNCHANGED <<script, curr_message, request, handled, answers, interrupted,
                 curr_request_id, stop_flag>>

TunnelPeerGoes(c) ==
  /\ \E s \in Tunnel!Side : Tunnel!PeerGoes(c, s)
  /\ UNCHANGED <<script, curr_message, pc, request, handled, answers, interrupted,
                 curr_request_id, stop_flag>>

(* Seeded fault: no return after the cached answer, the origin's follows. *)
AnswersTwice(c) ==
  /\ request[c].client_error_code = 0 /\ ~IsConnect(c)
  /\ Goes(c, "handling", "parse")
  /\ answers' = [answers EXCEPT ![c] = @ \o <<Len(handled[c]), Len(handled[c])>>]
  /\ UNCHANGED <<script, incoming, curr_message, request, handled, interrupted,
                 curr_request_id, stop_flag, tunnel_vars>>

(* An answer is sent: on to the next request in curr_message. *)
Answers(c) ==
  /\ request[c].client_error_code = 0 /\ ~IsConnect(c)
  /\ Goes(c, "handling", "parse")
  /\ Answered(c)
  /\ UNCHANGED <<script, incoming, curr_message, request, handled, interrupted,
                 curr_request_id, stop_flag, tunnel_vars>>

(* The answer cannot be sent. *)
AnswerFails(c) ==
  /\ request[c].client_error_code = 0 /\ ~IsConnect(c)
  /\ Goes(c, "handling", "closed")
  /\ UNCHANGED <<script, incoming, curr_message, request, handled, answers,
                 interrupted, curr_request_id, stop_flag, tunnel_vars>>

(* An exception, of the parser of the origin's response for one: nothing   *)
(* is sent, and the loop goes back to recv whatever curr_message holds.    *)
HandlerThrows(c) ==
  /\ request[c].client_error_code = 0 /\ ~IsConnect(c)
  /\ Goes(c, "handling", "test")
  /\ interrupted' = [interrupted EXCEPT ![c] = TRUE]
  /\ UNCHANGED <<script, incoming, curr_message, request, handled, answers,
                 curr_request_id, stop_flag, tunnel_vars>>

(* ~ProxyServer *)
SetStopFlag ==
  /\ ~stop_flag
  /\ stop_flag' = TRUE
  /\ UNCHANGED <<conn_vars, curr_request_id, tunnel_vars>>

Finished ==
  /\ \A c \in Conn : pc[c] = "closed"
  /\ UNCHANGED vars

Serve(c) ==
  \/ Test(c) \/ Receive(c) \/ ReceiveNothing(c) \/ ReceiveFails(c) \/ Parse(c)
  \/ TakeId(c) \/ Handle(c) \/ Rejects(c) \/ Answers(c) \/ AnswerFails(c)
  \/ TunnelOpens(c) \/ TunnelFails(c) \/ TunnelRelays(c) \/ HandlerThrows(c)

Next ==
  \/ \E c \in Conn : Serve(c) \/ TunnelPeerGoes(c)
  \/ SetStopFlag
  \/ Finished

Spec == Init /\ [][Next]_vars

(* The peers send their scripts and close, and so does at least one end of *)
(* every tunnel; the threads get to run.  This is WF_vars(Serve(c)):       *)
(* Serve(c) is possible unless c is closed, or its parser has overrun (a   *)
(* case that no property with this specification is checked for).          *)
FairSpec ==
  Spec /\ \A c \in Conn : []<>(pc[c] = "closed") \/ []<><<Serve(c)>>_vars

-----------------------------------------------------------------------------
Handled == [pieces : Seq(Pieces), client_error_code : Int, request_id : Nat]

(* Each thread is at one of the places of its loop, and an answer is to a  *)
(* request that was handled, to each at most once and in their order (the  *)
(* client tells the answers of a connection apart by nothing else).        *)
TypeOK ==
  /\ Tunnel!TypeOK
  /\ script \in Script
  /\ \A c \in Conn :
       /\ {incoming[c], curr_message[c], request[c].pieces} \subseteq Seq(Pieces)
       /\ request[c].client_error_code \in {0, 400} \cup Garbage
       /\ pc[c] \in {"test", "recv", "parse", "take_id", "handle", "handling", "tunnel",
                     "closed"}
       /\ pc[c] = "tunnel" <=> remote_socket[c]
       /\ handled[c] \in Seq(Handled)
       /\ interrupted[c] \in BOOLEAN
       /\ \A i \in DOMAIN answers[c] :
            /\ answers[c][i] \in DOMAIN handled[c]
            /\ i > 1 => answers[c][i - 1] < answers[c][i]
  /\ curr_request_id \in Nat
  /\ stop_flag \in BOOLEAN

(* However the bytes of a connection are cut into segments, the requests   *)
(* handled are the messages the peer sent, one for one: a 400 stands for a *)
(* message that is malformed taken by itself.  (A message here begins with *)
(* a method: of text before one the parser makes what the segments make    *)
(* it, HttpRequest.cpp:90-98, and no script has any.  It ends where the    *)
(* parser ends it: only one that an int can count does so in HTTP, see     *)
(* RequestsOfHttpAreHandled.)                                              *)
RequestsAreTheMessages ==
  \A c \in Conn :
    "CONNECT" \notin Kinds(FlattenSeq(script[c])) =>
      \A i \in DOMAIN handled[c] :
        /\ i \in DOMAIN script[c]
        /\ IF handled[c][i].pieces = <<>>
           THEN parse_request(script[c][i]).outcome = "malformed"
           ELSE handled[c][i].pieces = script[c][i]

(* What is left of a stream is the stream without one part, and that part  *)
(* went through the tunnel.                                                *)
LosesNothing(c) ==
  LET sent == FlattenSeq(script[c])
      parsed == FlattenSeq([i \in DOMAIN handled[c] |-> handled[c][i].pieces])
      pending == IF pc[c] \in {"take_id", "handle"} THEN request[c].pieces ELSE <<>>
      here == parsed \o pending \o curr_message[c] \o incoming[c]
      tunnelled == relayed[c]["client"] \o Tunnel!InBuffer(c, "client")
      n == Len(sent) - Len(here)
  IN  \E p \in 0 .. Len(here) :
        LET taken == SubSeq(sent, p + 1, p + n)
        IN  /\ here = SubSeq(sent, 1, p) \o SubSeq(sent, p + n + 1, Len(sent))
            /\ IsPrefix(relayed[c]["client"], taken)
            /\ "origin" \notin gone[c] => tunnelled = taken

(* Every byte the peer sent is in a request, or in curr_message, or has    *)
(* not been received, in the order it was sent in: none is skipped, none   *)
(* is taken twice, also when an exception ends a round of the loop.  What  *)
(* a tunnel has taken in between is one part of the stream, and that is    *)
(* what the origin gets.  (No script has two tunnels, nor text before a    *)
(* method, which the parser would erase.  That what is kept is answered at *)
(* last is not said: parse_request may throw on it again and again.)       *)
NothingIsLost == \A c \in Conn : LosesNothing(c)

(* ConnectTunnel, whose tunnels are the ones of the connections. *)
RelaysInOrder == Tunnel!RelaysInOrder

(* The handler keeps to what ConnectTunnel assumes of its surroundings:    *)
(* nobody else touches the stream of a client while its tunnel runs.       *)
UsesTheTunnel == Tunnel!Spec

(* After a malformed request nothing more of the connection is handled     *)
(* (ClientHandler.cpp:71-73): what follows it may be a part of it.         *)
NothingAfterRejection ==
  \A c \in Conn : \A i \in DOMAIN handled[c] :
    handled[c][i].client_error_code # 0 =>
      i = Len(handled[c]) /\ pc[c] \in {"handling", "closed"}

(* A thread waits in recv with a complete request in curr_message only     *)
(* when an exception ended the last round of the loop: a peer that         *)
(* pipelines its requests and waits for the answers is not kept waiting.   *)
NoRequestLeftBehind ==
  \A c \in Conn :
    pc[c] = "recv" /\ ~interrupted[c] =>
      parse_request(curr_message[c]).outcome = "incomplete"

(* A connection whose peer sends all it has to say and closes comes to its *)
(* end, or recv, parse_request (on the size of a chunk) or handle_request  *)
(* has thrown (recv may fail again and again, and what parse_request threw *)
(* on is still in curr_message: the loop then need not end).               *)
ConnectionsEnd == \A c \in Conn : <>(pc[c] = "closed" \/ interrupted[c])

(* README.md:4: the proxy "logs all requests with unique IDs".             *)
UniqueIds ==
  \A c, d \in Conn : \A i \in DOMAIN handled[c], j \in DOMAIN handled[d] :
    handled[c][i].request_id = handled[d][j].request_id => c = d /\ i = j
=============================================================================
