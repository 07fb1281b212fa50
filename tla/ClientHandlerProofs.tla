------------------------ MODULE ClientHandlerProofs ------------------------
(***************************************************************************)
(* Proofs about the loop that serves a connection, for any number of       *)
(* connections, any scripts of their peers and whatever an uninitialized   *)
(* client_error_code holds.                                                *)
(***************************************************************************)
EXTENDS ClientHandler, HttpMessageProofs

TunnelProofs == INSTANCE ConnectTunnelProofs WITH Data <- Pieces

-----------------------------------------------------------------------------
Pc == {"test", "recv", "parse", "take_id", "handle", "handling", "tunnel", "closed"}

TunnelPlace == {"none", "select", "send_origin", "send_client"} \cup Tunnel!Side

(* A connection is in the loop of handle_connect exactly while it has a    *)
(* tunnel.                                                                 *)
PlacesAgree ==
  /\ pc \in [Conn -> Pc]
  /\ tunnel \in [Conn -> TunnelPlace]
  /\ \A c \in Conn : pc[c] = "tunnel" <=> tunnel[c] # "none"

LEMMA InitPlaces == Init => PlacesAgree /\ Tunnel!Init
<1> SUFFICES ASSUME Init PROVE PlacesAgree /\ Tunnel!Init
  OBVIOUS
<1>1. PlacesAgree
  BY DEF Init, PlacesAgree, Pc, TunnelPlace, Tunnel!NoTunnels
<1>2. incoming \in [Conn -> Seq(Pieces)]
  <2>1. Script \subseteq [Conn -> Seq(Seq(Pieces))]
    BY ScriptAssumption, Zenon
  <2>2. \A c \in Conn : script[c] \in Seq(Seq(Pieces))
    BY <2>1 DEF Init
  <2>3. \A c \in Conn : FlattenSeq(script[c]) \in Seq(Pieces)
    BY <2>2, FlattenTyped, Zenon
  <2> QED
    BY <2>3, Zenon DEF Init
<1> QED
  BY <1>1, <1>2 DEF Init, Tunnel!Init

(* The steps of the loop that do not concern the tunnel. *)
LoopStep(c) ==
  \/ Test(c) \/ Receive(c) \/ ReceiveNothing(c) \/ ReceiveFails(c) \/ Parse(c)
  \/ TakeId(c) \/ Handle(c) \/ Rejects(c) \/ Answers(c) \/ AnswerFails(c)
  \/ TunnelFails(c) \/ HandlerThrows(c)

LEMMA LoopPlaces ==
  ASSUME PlacesAgree, NEW c \in Conn, LoopStep(c)
  PROVE  /\ UNCHANGED tunnel_vars
         /\ pc[c] # "tunnel"
         /\ \E to \in Pc \ {"tunnel"} : pc' = [pc EXCEPT ![c] = to]
<1> USE DEF Pc, Goes
<1>1. CASE Test(c)
  BY <1>1 DEF Test
<1>2. CASE Receive(c)
  BY <1>2 DEF Receive
<1>3. CASE ReceiveNothing(c)
  BY <1>3 DEF ReceiveNothing
<1>4. CASE ReceiveFails(c)
  BY <1>4 DEF ReceiveFails
<1>5. CASE Parse(c)
  <2>1. PICK p : Goes(c, "parse", IF p.outcome \in {"parsed", "malformed"}
                                  THEN "take_id" ELSE "test")
    BY <1>5 DEF Parse
  <2>2. UNCHANGED tunnel_vars
    BY <1>5 DEF Parse
  <2> QED
    BY <2>1, <2>2
<1>6. CASE TakeId(c)
  BY <1>6 DEF TakeId
<1>7. CASE Handle(c)
  BY <1>7 DEF Handle
<1>8. CASE Rejects(c)
  BY <1>8 DEF Rejects
<1>9. CASE Answers(c)
  BY <1>9 DEF Answers
<1>10. CASE AnswerFails(c)
  BY <1>10 DEF AnswerFails
<1>11. CASE TunnelFails(c)
  BY <1>11 DEF TunnelFails
<1>12. CASE HandlerThrows(c)
  BY <1>12 DEF HandlerThrows
<1> QED
  BY <1>1, <1>2, <1>3, <1>4, <1>5, <1>6, <1>7, <1>8, <1>9, <1>10, <1>11, <1>12
     DEF LoopStep

LEMMA PlacesStep ==
  ASSUME PlacesAgree, [Next]_vars
  PROVE  PlacesAgree'
<1>1. ASSUME NEW c \in Conn, LoopStep(c) PROVE PlacesAgree'
  BY <1>1, LoopPlaces DEF PlacesAgree, tunnel_vars
<1>2. ASSUME NEW c \in Conn, TunnelOpens(c) PROVE PlacesAgree'
  BY <1>2 DEF TunnelOpens, Goes, Tunnel!Opens, Tunnel!Goes, PlacesAgree, Pc, TunnelPlace
<1>3. ASSUME NEW c \in Conn, TunnelRelays(c) PROVE PlacesAgree'
  <2>1. \E to \in TunnelPlace : tunnel' = [tunnel EXCEPT ![c] = to]
    <3> USE DEF TunnelPlace, Tunnel!Side, Tunnel!Goes
    <3>1. CASE Tunnel!Select(c)
      BY <3>1 DEF Tunnel!Select
    <3>2. CASE Tunnel!Ends(c)
      BY <3>2 DEF Tunnel!Ends
    <3>3. ASSUME NEW s \in Tunnel!Side, Tunnel!Receive(c, s)
          PROVE  \E to \in TunnelPlace : tunnel' = [tunnel EXCEPT ![c] = to]
      BY <3>3 DEF Tunnel!Receive, Tunnel!SendingOn
    <3>4. ASSUME NEW s \in Tunnel!Side, Tunnel!SendOn(c, s)
          PROVE  \E to \in TunnelPlace : tunnel' = [tunnel EXCEPT ![c] = to]
      BY <3>4 DEF Tunnel!SendOn
    <3> QED
      BY <1>3, <3>1, <3>2, <3>3, <3>4 DEF TunnelRelays, Tunnel!Relays
  <2>2. pc' = [pc EXCEPT ![c] = IF tunnel'[c] = "none" THEN "parse" ELSE "tunnel"]
    BY <1>3 DEF TunnelRelays, Goes
  <2> QED
    BY <2>1, <2>2 DEF PlacesAgree, Pc
<1>4. ASSUME NEW c \in Conn, TunnelPeerGoes(c) PROVE PlacesAgree'
  BY <1>4 DEF TunnelPeerGoes, Tunnel!PeerGoes, PlacesAgree
<1>5. CASE SetStopFlag \/ Finished \/ UNCHANGED vars
  BY <1>5 DEF SetStopFlag, Finished, vars, conn_vars, tunnel_vars, PlacesAgree
<1> QED
  BY <1>1, <1>2, <1>3, <1>4, <1>5 DEF Next, Serve, LoopStep

-----------------------------------------------------------------------------
(* The handler and the tunnel share the client's stream. *)

LEMMA TunnelStepOrNone ==
  ASSUME PlacesAgree, [Next]_vars
  PROVE  [Tunnel!Next]_(Tunnel!vars)
<1> DEFINE Stutters == UNCHANGED Tunnel!vars
<1>1. ASSUME NEW c \in Conn, Receive(c) PROVE Tunnel!ReadElsewhere(c)
  <2>1. tunnel[c] = "none"
    BY <1>1 DEF Receive, Goes, PlacesAgree
  <2> QED
    BY <1>1, <2>1 DEF Receive, Tunnel!ReadElsewhere, tunnel_vars, Tunnel!tunnel_vars
<1>2. ASSUME NEW c \in Conn, LoopStep(c), ~Receive(c) PROVE Stutters
  <2>1. UNCHANGED tunnel_vars
    BY <1>2, LoopPlaces
  <2>2. UNCHANGED incoming
    BY <1>2 DEF LoopStep, Test, ReceiveNothing, ReceiveFails, Parse, TakeId, Handle,
                Rejects, Answers, AnswerFails, TunnelFails, HandlerThrows
  <2> QED
    BY <2>1, <2>2 DEF tunnel_vars, Tunnel!vars, Tunnel!tunnel_vars
<1>3. ASSUME NEW c \in Conn, TunnelOpens(c) PROVE Tunnel!Opens(c)
  BY <1>3 DEF TunnelOpens
<1>4. ASSUME NEW c \in Conn, TunnelRelays(c) PROVE Tunnel!Relays(c)
  BY <1>4 DEF TunnelRelays
<1>5. ASSUME NEW c \in Conn, TunnelPeerGoes(c)
      PROVE  \E s \in Tunnel!Side : Tunnel!PeerGoes(c, s)
  BY <1>5 DEF TunnelPeerGoes
<1>6. CASE SetStopFlag \/ Finished \/ UNCHANGED vars
  BY <1>6 DEF SetStopFlag, Finished, vars, conn_vars, tunnel_vars, Tunnel!vars,
              Tunnel!tunnel_vars
<1> QED
  <2>1. CASE SetStopFlag \/ Finished \/ UNCHANGED vars
    BY <1>6, <2>1
  <2>2. ASSUME NEW c \in Conn, LoopStep(c) PROVE [Tunnel!Next]_(Tunnel!vars)
    BY <1>1, <1>2, <2>2 DEF Tunnel!Next
  <2>3. ASSUME NEW c \in Conn, TunnelOpens(c) \/ TunnelRelays(c) \/ TunnelPeerGoes(c)
        PROVE  Tunnel!Next
    BY <1>3, <1>4, <1>5, <2>3 DEF Tunnel!Next
  <2> QED
    BY <2>1, <2>2, <2>3 DEF Next, Serve, LoopStep

(* A connection is in handle_connect exactly while it has a tunnel. *)
THEOREM PlacesAlwaysAgree == Spec => []PlacesAgree
BY InitPlaces, PlacesStep, PTL DEF Spec

(* The loop of handle_client_requests keeps to what ConnectTunnel assumes  *)
(* of its surroundings: nobody else touches the stream of a client while   *)
(* its tunnel runs, and each of its steps is one of a tunnel or of none.   *)
THEOREM HandlerUsesTheTunnel == Spec => UsesTheTunnel
<1>1. PlacesAgree /\ [Next]_vars => [Tunnel!Next]_(Tunnel!vars)
  BY TunnelStepOrNone
<1> QED
  BY <1>1, InitPlaces, PlacesAlwaysAgree, PTL DEF Spec, UsesTheTunnel, Tunnel!Spec

(* The tunnels of the server are tunnels that the theorems about           *)
(* ConnectTunnel are about.                                                *)
LEMMA ServerRunsTunnels == Spec => TunnelProofs!Spec
<1>1. Tunnel!Init => TunnelProofs!Init
  BY DEF Tunnel!Init, TunnelProofs!Init, Tunnel!NoTunnels, TunnelProofs!NoTunnels,
         Tunnel!Side, TunnelProofs!Side
<1>2. [Tunnel!Next]_(Tunnel!vars) => [TunnelProofs!Next]_(TunnelProofs!vars)
  <2> USE DEF Tunnel!Side, TunnelProofs!Side, Tunnel!Goes, TunnelProofs!Goes
  <2>1. ASSUME NEW c \in Conn, Tunnel!Opens(c) PROVE TunnelProofs!Opens(c)
    BY <2>1 DEF Tunnel!Opens, TunnelProofs!Opens
  <2>2. ASSUME NEW c \in Conn, Tunnel!Select(c) PROVE TunnelProofs!Select(c)
    BY <2>2, Zenon DEF Tunnel!Select, TunnelProofs!Select
  <2>3. ASSUME NEW c \in Conn, NEW s \in Tunnel!Side, Tunnel!Receive(c, s)
        PROVE  TunnelProofs!Receive(c, s)
    <3>1. /\ Tunnel!Unread(c, s) = TunnelProofs!Unread(c, s)
          /\ Tunnel!SendingOn(s) = TunnelProofs!SendingOn(s)
      BY DEF Tunnel!Unread, TunnelProofs!Unread, Tunnel!SendingOn, TunnelProofs!SendingOn
    <3> QED
      BY <2>3, <3>1, Zenon DEF Tunnel!Receive, TunnelProofs!Receive
  <2>4. ASSUME NEW c \in Conn, NEW s \in Tunnel!Side, Tunnel!SendOn(c, s)
        PROVE  TunnelProofs!SendOn(c, s)
    <3>1. /\ Tunnel!Other(s) = TunnelProofs!Other(s)
          /\ Tunnel!SendingOn(s) = TunnelProofs!SendingOn(s)
      BY DEF Tunnel!Other, TunnelProofs!Other, Tunnel!SendingOn, TunnelProofs!SendingOn
    <3> QED
      BY <2>4, <3>1, Zenon DEF Tunnel!SendOn, TunnelProofs!SendOn
  <2>5. ASSUME NEW c \in Conn, Tunnel!Ends(c) PROVE TunnelProofs!Ends(c)
    <3>1. \A s : Tunnel!Unread(c, s) = TunnelProofs!Unread(c, s)
      BY DEF Tunnel!Unread, TunnelProofs!Unread
    <3> QED
      BY <2>5, <3>1, Zenon DEF Tunnel!Ends, TunnelProofs!Ends
  <2>6. ASSUME NEW c \in Conn, NEW s \in Tunnel!Side, Tunnel!PeerGoes(c, s)
        PROVE  TunnelProofs!PeerGoes(c, s)
    BY <2>6, Zenon DEF Tunnel!PeerGoes, TunnelProofs!PeerGoes
  <2>7. ASSUME NEW c \in Conn, Tunnel!ReadElsewhere(c)
        PROVE  TunnelProofs!ReadElsewhere(c)
    BY <2>7, Zenon DEF Tunnel!ReadElsewhere, TunnelProofs!ReadElsewhere,
                       Tunnel!tunnel_vars, TunnelProofs!tunnel_vars
  <2>8. Tunnel!Next => TunnelProofs!Next
    BY <2>1, <2>2, <2>3, <2>4, <2>5, <2>6, <2>7
       DEF Tunnel!Next, TunnelProofs!Next, Tunnel!Relays, TunnelProofs!Relays
  <2>9. UNCHANGED Tunnel!vars => UNCHANGED TunnelProofs!vars
    BY DEF Tunnel!vars, TunnelProofs!vars, Tunnel!tunnel_vars, TunnelProofs!tunnel_vars
  <2> QED
    BY <2>8, <2>9
<1> QED
  BY <1>1, <1>2, HandlerUsesTheTunnel, PTL
     DEF UsesTheTunnel, Tunnel!Spec, TunnelProofs!Spec

LEMMA TunnelsAssumed == TunnelProofs!TunnelAssumption
<1>1. Tunnel!TunnelAssumption
  BY ScriptAssumption
<1> QED
  BY <1>1 DEF Tunnel!TunnelAssumption, TunnelProofs!TunnelAssumption

(* So every tunnel of the server relays what it is given in order and      *)
(* without a hole.                                                         *)
THEOREM ServerRelaysInOrder == Spec => []RelaysInOrder
<1>1. TunnelProofs!Spec => []TunnelProofs!RelaysInOrder
  BY TunnelsAssumed, TunnelProofs!TunnelsRelayInOrder
<1>2. TunnelProofs!RelaysInOrder <=> RelaysInOrder
  <2>1. \A s, l : Tunnel!IsPrefix(s, l) <=> TunnelProofs!IsPrefix(s, l)
    BY DEF Tunnel!IsPrefix, TunnelProofs!IsPrefix
  <2>2. \A c, s : Tunnel!NothingIsDropped(c, s) <=> TunnelProofs!NothingIsDropped(c, s)
    BY DEF Tunnel!NothingIsDropped, TunnelProofs!NothingIsDropped, Tunnel!InBuffer,
           TunnelProofs!InBuffer, Tunnel!Unread, TunnelProofs!Unread, Tunnel!Other,
           TunnelProofs!Other, Tunnel!SendingOn, TunnelProofs!SendingOn
  <2>3. Tunnel!Side = TunnelProofs!Side
    BY DEF Tunnel!Side, TunnelProofs!Side
  <2> QED
    BY <2>1, <2>2, <2>3, Zenon
       DEF RelaysInOrder, Tunnel!RelaysInOrder, TunnelProofs!RelaysInOrder
<1> QED
  BY <1>1, <1>2, ServerRunsTunnels, PTL

-----------------------------------------------------------------------------
(* What follows a malformed request. *)

(* The request being handled is the last one, and the only one that may    *)
(* have been malformed.                                                    *)
LastIsHandled(c) ==
  /\ \E S : handled[c] \in Seq(S)
  /\ pc[c] = "handling" =>
       /\ Len(handled[c]) \in DOMAIN handled[c]
       /\ handled[c][Len(handled[c])].client_error_code = request[c].client_error_code
  /\ \A i \in DOMAIN handled[c] :
       handled[c][i].client_error_code # 0 =>
         i = Len(handled[c]) /\ pc[c] \in {"handling", "closed"}

RejectionInv ==
  /\ PlacesAgree
  /\ DOMAIN request = Conn
  /\ DOMAIN handled = Conn
  /\ \A c \in Conn : LastIsHandled(c)

AllAccepted(c) == \A i \in DOMAIN handled[c] : handled[c][i].client_error_code = 0

(* The loop goes on only while all requests have been accepted. *)
LEMMA GoesOnIfAccepted ==
  ASSUME NEW c, LastIsHandled(c),
         \/ pc[c] \notin {"handling", "closed"}
         \/ pc[c] = "handling" /\ request[c].client_error_code = 0
  PROVE  AllAccepted(c)
BY DEF LastIsHandled, AllAccepted

LEMMA InitRejection == Init => RejectionInv
<1> SUFFICES ASSUME Init PROVE RejectionInv
  OBVIOUS
<1>1. PlacesAgree
  BY InitPlaces
<1>2. DOMAIN request = Conn /\ DOMAIN handled = Conn
  BY DEF Init
<1>3. ASSUME NEW c \in Conn PROVE LastIsHandled(c)
  <2>1. handled[c] = <<>> /\ pc[c] = "test"
    BY DEF Init
  <2>2. <<>> \in Seq({}) /\ DOMAIN <<>> = {}
    BY EmptySeq
  <2> QED
    BY <2>1, <2>2 DEF LastIsHandled
<1> QED
  BY <1>1, <1>2, <1>3 DEF RejectionInv

(* handle_request is called with one request more. *)
LEMMA HandleAppends ==
  ASSUME RejectionInv, NEW c \in Conn, Handle(c)
  PROVE  LastIsHandled(c)'
<1> DEFINE new == [pieces |-> request[c].pieces,
                   client_error_code |-> request[c].client_error_code,
                   request_id |-> curr_request_id]
<1>1. PICK S : handled[c] \in Seq(S)
  BY DEF RejectionInv, LastIsHandled
<1>2. /\ pc[c] = "handle" /\ pc'[c] = "handling"
      /\ handled'[c] = Append(handled[c], new)
      /\ request'[c] = request[c]
  BY DEF Handle, Goes, RejectionInv, PlacesAgree
<1>3. new.client_error_code = request[c].client_error_code
  OBVIOUS
<1> HIDE DEF new
<1>4. /\ Len(handled[c]) \in Nat /\ DOMAIN handled[c] = 1 .. Len(handled[c])
      /\ handled[c] \in Seq(S \cup {new}) /\ new \in S \cup {new}
  <2>1. S \subseteq S \cup {new}
    OBVIOUS
  <2>2. \A i \in 1 .. Len(handled[c]) : handled[c][i] \in S
    BY <1>1, ElementOfSeq
  <2> QED
    BY <1>1, <2>1, <2>2, LenProperties
<1>5. /\ handled'[c] \in Seq(S \cup {new})
      /\ Len(handled'[c]) = Len(handled[c]) + 1
      /\ \A i \in 1 .. Len(handled[c]) : handled'[c][i] = handled[c][i]
      /\ handled'[c][Len(handled[c]) + 1] = new
  BY <1>2, <1>4, AppendProperties
<1>6. DOMAIN handled'[c] = 1 .. Len(handled[c]) + 1
  BY <1>5, LenProperties
<1>7. AllAccepted(c)
  BY <1>2, GoesOnIfAccepted DEF RejectionInv
<1> QED
  BY <1>2, <1>3, <1>4, <1>5, <1>6, <1>7 DEF LastIsHandled, AllAccepted

LEMMA RejectsLast ==
  ASSUME RejectionInv, NEW c \in Conn, Rejects(c)
  PROVE  LastIsHandled(c)'
BY DEF Rejects, Goes, RejectionInv, PlacesAgree, LastIsHandled

(* Any other step is taken with all requests accepted. *)
LEMMA RestAccepts ==
  ASSUME RejectionInv, NEW c \in Conn,
         LoopStep(c) \/ TunnelOpens(c) \/ TunnelRelays(c), ~Handle(c), ~Rejects(c)
  PROVE  LastIsHandled(c)'
<1> SUFFICES ASSUME TRUE
             PROVE  /\ handled' = handled /\ pc'[c] # "handling"
                    /\ \/ pc[c] \notin {"handling", "closed"}
                       \/ pc[c] = "handling" /\ request[c].client_error_code = 0
  BY GoesOnIfAccepted DEF RejectionInv, LastIsHandled, AllAccepted
<1> USE DEF Goes, RejectionInv, PlacesAgree
<1>1. CASE Test(c)
  BY <1>1 DEF Test
<1>2. CASE Receive(c)
  BY <1>2 DEF Receive
<1>3. CASE ReceiveNothing(c)
  BY <1>3 DEF ReceiveNothing
<1>4. CASE ReceiveFails(c)
  BY <1>4 DEF ReceiveFails
<1>5. CASE Parse(c)
  <2>1. PICK p : Goes(c, "parse", IF p.outcome \in {"parsed", "malformed"}
                                  THEN "take_id" ELSE "test")
    BY <1>5 DEF Parse
  <2>2. UNCHANGED handled
    BY <1>5 DEF Parse
  <2> QED
    BY <2>1, <2>2
<1>6. CASE TakeId(c)
  BY <1>6 DEF TakeId
<1>7. CASE Answers(c)
  BY <1>7 DEF Answers
<1>8. CASE AnswerFails(c)
  BY <1>8 DEF AnswerFails
<1>9. CASE TunnelFails(c)
  BY <1>9 DEF TunnelFails
<1>10. CASE HandlerThrows(c)
  BY <1>10 DEF HandlerThrows
<1>11. CASE TunnelOpens(c)
  BY <1>11 DEF TunnelOpens
<1>12. CASE TunnelRelays(c)
  BY <1>12 DEF TunnelRelays
<1> QED
  BY <1>1, <1>2, <1>3, <1>4, <1>5, <1>6, <1>7, <1>8, <1>9, <1>10, <1>11, <1>12
     DEF LoopStep

(* A step of one connection leaves what was handled of the others. *)
LEMMA OneConnection ==
  ASSUME RejectionInv, NEW c \in Conn,
         LoopStep(c) \/ TunnelOpens(c) \/ TunnelRelays(c)
  PROVE  /\ DOMAIN request' = Conn /\ DOMAIN handled' = Conn
         /\ \A d \in Conn \ {c} : /\ pc'[d] = pc[d]
                                  /\ request'[d] = request[d]
                                  /\ handled'[d] = handled[d]
<1> USE DEF RejectionInv
<1>1. CASE LoopStep(c)
  <2>1. \A d \in Conn \ {c} : pc'[d] = pc[d]
    BY <1>1, LoopPlaces DEF PlacesAgree
  <2>2. DOMAIN handled' = Conn /\ \A d \in Conn \ {c} : handled'[d] = handled[d]
    BY <1>1 DEF LoopStep, Test, Receive, ReceiveNothing, ReceiveFails, Parse, TakeId,
                Handle, Rejects, Answers, AnswerFails, TunnelFails, HandlerThrows
  <2>3. CASE Parse(c)
    <3>1. \E v : request' = [request EXCEPT ![c] = v]
      <4> DEFINE v(p, code) == IF p.outcome \in {"parsed", "malformed"}
                               THEN [pieces |-> p.request, client_error_code |-> code]
                               ELSE NoRequest
      <4>1. \E p, code : request' = [request EXCEPT ![c] = v(p, code)]
        BY <2>3, Zenon DEF Parse
      <4> HIDE DEF v
      <4> QED
        BY <4>1
    <3>2. DOMAIN request' = Conn /\ \A d \in Conn \ {c} : request'[d] = request[d]
      BY <3>1
    <3> QED
      BY <2>1, <2>2, <3>2
  <2>4. CASE ~Parse(c)
    <3>1. request' = request
      BY <1>1, <2>4 DEF LoopStep, Test, Receive, ReceiveNothing, ReceiveFails, TakeId,
                Handle, Rejects, Answers, AnswerFails, TunnelFails, HandlerThrows
    <3> QED
      BY <2>1, <2>2, <3>1
  <2> QED
    BY <2>3, <2>4
<1>2. CASE TunnelOpens(c)
  BY <1>2 DEF TunnelOpens, Goes, PlacesAgree
<1>3. CASE TunnelRelays(c)
  BY <1>3 DEF TunnelRelays, Goes, PlacesAgree
<1> QED
  BY <1>1, <1>2, <1>3

LEMMA RejectionStep ==
  ASSUME RejectionInv, [Next]_vars
  PROVE  RejectionInv'
<1>1. PlacesAgree'
  BY PlacesStep DEF RejectionInv
<1>2. ASSUME NEW c \in Conn, LoopStep(c) \/ TunnelOpens(c) \/ TunnelRelays(c)
      PROVE  RejectionInv'
  <2>1. LastIsHandled(c)'
    BY <1>2, HandleAppends, RejectsLast, RestAccepts
  <2>2. ASSUME NEW d \in Conn, d # c PROVE LastIsHandled(d)'
    <3>1. pc'[d] = pc[d] /\ request'[d] = request[d] /\ handled'[d] = handled[d]
      BY <1>2, <2>2, OneConnection
    <3> QED
      BY <3>1 DEF RejectionInv, LastIsHandled
  <2>3. DOMAIN request' = Conn /\ DOMAIN handled' = Conn
    BY <1>2, OneConnection
  <2> QED
    BY <1>1, <2>1, <2>2, <2>3 DEF RejectionInv
<1>3. ASSUME UNCHANGED <<pc, request, handled>> PROVE RejectionInv'
  BY <1>1, <1>3 DEF RejectionInv, LastIsHandled
<1>4. ASSUME NEW c \in Conn, TunnelPeerGoes(c) PROVE UNCHANGED <<pc, request, handled>>
  BY <1>4 DEF TunnelPeerGoes
<1>5. SetStopFlag \/ Finished \/ UNCHANGED vars => UNCHANGED <<pc, request, handled>>
  BY DEF SetStopFlag, Finished, vars, conn_vars
<1> QED
  BY <1>2, <1>3, <1>4, <1>5 DEF Next, Serve, LoopStep

(* After a malformed request nothing more of the connection is handled:    *)
(* what follows it may be a part of it (ClientHandler.cpp:71-73).          *)
THEOREM NothingIsHandledAfterRejection == Spec => []NothingAfterRejection
<1>1. RejectionInv => NothingAfterRejection
  BY DEF RejectionInv, LastIsHandled, NothingAfterRejection
<1> QED
  BY <1>1, InitRejection, RejectionStep, PTL DEF Spec

-----------------------------------------------------------------------------
(* The state of a connection is what its type says. *)

(* What a step of the loop leaves alone. *)
LEMMA WhatMoves ==
  ASSUME NEW c \in Conn, Serve(c)
  PROVE  /\ UNCHANGED <<script, stop_flag>>
         /\ Handle(c) \/ handled' = handled
         /\ Handle(c) \/ \E to \in Pc \ {"handling"} : pc' = [pc EXCEPT ![c] = to]
         /\ Parse(c) \/ request' = request
         /\ Parse(c) \/ Receive(c) \/ curr_message' = curr_message
         /\ TakeId(c) \/ curr_request_id' = curr_request_id
         /\ \/ answers' = answers
            \/ Answered(c) /\ \E to \in Pc \ {"handling"} : Goes(c, "handling", to)
         /\ \/ interrupted' = interrupted
            \/ \E b \in BOOLEAN : interrupted' = [interrupted EXCEPT ![c] = b]
<1> USE DEF Goes, Pc
<1>1. CASE Test(c)
  BY <1>1 DEF Test
<1>2. CASE Receive(c)
  BY <1>2 DEF Receive
<1>3. CASE ReceiveNothing(c)
  BY <1>3 DEF ReceiveNothing
<1>4. CASE ReceiveFails(c)
  BY <1>4 DEF ReceiveFails
<1>5. CASE TakeId(c)
  BY <1>5 DEF TakeId
<1>6. CASE Handle(c)
  BY <1>6 DEF Handle
<1>7. CASE Rejects(c)
  BY <1>7 DEF Rejects
<1>8. CASE Answers(c)
  BY <1>8 DEF Answers
<1>9. CASE AnswerFails(c)
  BY <1>9 DEF AnswerFails
<1>10. CASE TunnelOpens(c)
  BY <1>10 DEF TunnelOpens
<1>11. CASE TunnelFails(c)
  BY <1>11 DEF TunnelFails
<1>12. CASE TunnelRelays(c)
  BY <1>12 DEF TunnelRelays
<1>13. CASE HandlerThrows(c)
  BY <1>13 DEF HandlerThrows
<1>14. CASE Parse(c)
  BY <1>14 DEF Parse
<1> QED
  BY <1>1, <1>2, <1>3, <1>4, <1>5, <1>6, <1>7, <1>8, <1>9, <1>10, <1>11, <1>12, <1>13, <1>14 DEF Serve

LEMMA ServerTunnelsTyped == Spec => []Tunnel!TypeOK
<1>1. TunnelProofs!Spec => []TunnelProofs!TypeOK
  BY TunnelsAssumed, TunnelProofs!TunnelStateIsTyped
<1>2. TunnelProofs!TypeOK => Tunnel!TypeOK
  BY DEF TunnelProofs!TypeOK, Tunnel!TypeOK, TunnelProofs!Side, Tunnel!Side
<1> QED
  BY <1>1, <1>2, ServerRunsTunnels, PTL

Requests == [pieces : Seq(Pieces), client_error_code : {0, 400} \cup Garbage]

(* An answer is to a request handled before, and to a later one than the   *)
(* answer sent before it; the request being handled has none yet.          *)
AnswersInOrder(c) ==
  /\ answers[c] \in Seq(Nat \ {0})
  /\ \A i \in DOMAIN answers[c] :
       /\ answers[c][i] <= Len(handled[c])
       /\ pc[c] = "handling" => answers[c][i] < Len(handled[c])
       /\ i > 1 => answers[c][i - 1] < answers[c][i]

HandlerTypes ==
  /\ PlacesAgree
  /\ script \in Script
  /\ curr_message \in [Conn -> Seq(Pieces)]
  /\ request \in [Conn -> Requests]
  /\ handled \in [Conn -> Seq(Handled)]
  /\ interrupted \in [Conn -> BOOLEAN]
  /\ DOMAIN answers = Conn
  /\ \A c \in Conn : AnswersInOrder(c) /\ (pc[c] = "handling" => handled[c] # <<>>)
  /\ curr_request_id \in Nat
  /\ stop_flag \in BOOLEAN

LEMMA InitHandlerTypes == Init => HandlerTypes
<1> SUFFICES ASSUME Init PROVE HandlerTypes
  OBVIOUS
<1>1. PlacesAgree
  BY InitPlaces
<1>2. /\ <<>> \in Seq(Pieces) /\ <<>> \in Seq(Handled)
      /\ <<>> \in Seq(Nat \ {0}) /\ DOMAIN <<>> = {}
  BY EmptySeq
<1>3. NoRequest \in Requests
  BY <1>2 DEF NoRequest, Requests
<1>4. \A c \in Conn : AnswersInOrder(c) /\ pc[c] # "handling"
  BY <1>2 DEF Init, AnswersInOrder
<1> QED
  BY <1>1, <1>2, <1>3, <1>4 DEF Init, HandlerTypes

(* What Receive and Parse do to the text of a connection. *)
LEMMA ReceiveIs ==
  ASSUME HandlerTypes, Tunnel!TypeOK, NEW c \in Conn, Receive(c)
  PROVE  /\ curr_message' \in [Conn -> Seq(Pieces)]
         /\ curr_message[c] \in Seq(Pieces)
         /\ \A d \in Conn \ {c} :
              curr_message'[d] = curr_message[d] /\ incoming'[d] = incoming[d]
         /\ \E s \in Seq(Pieces), r \in Seq(Pieces) :
              /\ s \o r = incoming[c]
              /\ curr_message'[c] = curr_message[c] \o s
              /\ incoming'[c] = r
<1>1. incoming \in [Conn -> Seq(Pieces)] /\ curr_message \in [Conn -> Seq(Pieces)]
  BY DEF HandlerTypes, Tunnel!TypeOK
<1>2. PICK n \in 1 .. Len(incoming[c]) :
        /\ curr_message' = [curr_message EXCEPT ![c] = @ \o SubSeq(incoming[c], 1, n)]
        /\ incoming' = [incoming EXCEPT ![c] = SubSeq(@, n + 1, Len(@))]
  BY DEF Receive
<1>3. n \in 0 .. Len(incoming[c]) /\ incoming[c] \in Seq(Pieces)
  BY <1>1, EmptySeq
<1> DEFINE s == SubSeq(incoming[c], 1, n)
           r == SubSeq(incoming[c], n + 1, Len(incoming[c]))
<1>4. s \in Seq(Pieces) /\ r \in Seq(Pieces) /\ s \o r = incoming[c]
  BY <1>3, Cut
<1>5. curr_message[c] \o s \in Seq(Pieces)
  BY <1>1, <1>4, ConcatProperties
<1>6. /\ curr_message' = [curr_message EXCEPT ![c] = curr_message[c] \o s]
      /\ incoming' = [incoming EXCEPT ![c] = r]
  BY <1>1, <1>2
<1> HIDE DEF s, r
<1> QED
  BY <1>1, <1>4, <1>5, <1>6

LEMMA ParseIs ==
  ASSUME HandlerTypes, NEW c \in Conn, Parse(c)
  PROVE  LET p == parse_request(curr_message[c])
         IN  /\ pc[c] = "parse" /\ p.outcome # "overrun"
             /\ pc' = [pc EXCEPT ![c] = IF p.outcome \in {"parsed", "malformed"}
                                       THEN "take_id" ELSE "test"]
             /\ curr_message' = [curr_message EXCEPT ![c] = p.rest]
             /\ \E q \in Requests :
                  /\ request' = [request EXCEPT ![c] = q]
                  /\ p.outcome \in {"parsed", "malformed"} => q.pieces = p.request
                  /\ p.outcome = "malformed" => q.client_error_code = 400
                  /\ p.outcome \notin {"parsed", "malformed"} => q = NoRequest
             /\ interrupted' = [interrupted EXCEPT ![c] = p.outcome = "throws"]
             /\ p.rest \in Seq(Pieces)
<1> DEFINE p == parse_request(curr_message[c])
<1>1. curr_message[c] \in Seq(Pieces)
  BY DEF HandlerTypes
<1>2. p.rest \in Seq(Pieces) /\ p.request \in Seq(Pieces)
  BY <1>1, RequestIsCutOff
<1>3. /\ p.outcome # "overrun"
      /\ Goes(c, "parse", IF p.outcome \in {"parsed", "malformed"}
                          THEN "take_id" ELSE "test")
      /\ curr_message' = [curr_message EXCEPT ![c] = p.rest]
      /\ \E code \in IF p.outcome = "malformed" THEN {400} ELSE Garbage :
           request' = [request EXCEPT ![c] =
                         IF p.outcome \in {"parsed", "malformed"}
                         THEN [pieces |-> p.request, client_error_code |-> code]
                         ELSE NoRequest]
      /\ interrupted' = [interrupted EXCEPT ![c] = p.outcome = "throws"]
  <2> DEFINE Takes(r) ==
        /\ r.outcome # "overrun"
        /\ Goes(c, "parse", IF r.outcome \in {"parsed", "malformed"}
                            THEN "take_id" ELSE "test")
        /\ curr_message' = [curr_message EXCEPT ![c] = r.rest]
        /\ \E code \in IF r.outcome = "malformed" THEN {400} ELSE Garbage :
             request' = [request EXCEPT ![c] =
                           IF r.outcome \in {"parsed", "malformed"}
                           THEN [pieces |-> r.request, client_error_code |-> code]
                           ELSE NoRequest]
        /\ interrupted' = [interrupted EXCEPT ![c] = r.outcome = "throws"]
  <2>1. \E r \in {p} : Takes(r)
    BY Zenon DEF Parse
  <2> HIDE DEF p, Takes
  <2>2. Takes(p)
    BY <2>1
  <2> QED
    BY <2>2, Zenon DEF Takes
<1> HIDE DEF p
<1>4. PICK code \in IF p.outcome = "malformed" THEN {400} ELSE Garbage :
        request' = [request EXCEPT ![c] =
                      IF p.outcome \in {"parsed", "malformed"}
                      THEN [pieces |-> p.request, client_error_code |-> code]
                      ELSE NoRequest]
  BY <1>3
<1> DEFINE q == IF p.outcome \in {"parsed", "malformed"}
                THEN [pieces |-> p.request, client_error_code |-> code]
                ELSE NoRequest
<1>5. /\ q \in Requests /\ request' = [request EXCEPT ![c] = q]
      /\ p.outcome \in {"parsed", "malformed"} => q.pieces = p.request
      /\ p.outcome = "malformed" => q.client_error_code = 400
      /\ p.outcome \notin {"parsed", "malformed"} => q = NoRequest
  <2>1. <<>> \in Seq(Pieces)
    BY EmptySeq
  <2>2. q \in Requests
    BY <1>2, <1>4, <2>1 DEF Requests, NoRequest
  <2> QED
    BY <1>4, <2>2
<1> HIDE DEF q
<1>6. \E z \in Requests :
        /\ request' = [request EXCEPT ![c] = z]
        /\ p.outcome \in {"parsed", "malformed"} => z.pieces = p.request
        /\ p.outcome = "malformed" => z.client_error_code = 400
        /\ p.outcome \notin {"parsed", "malformed"} => z = NoRequest
  BY <1>5
<1> QED
  BY <1>2, <1>3, <1>6 DEF Goes, p

(* One request more has been handled, and it is not answered yet. *)
(* What handle_request is called with. *)
Asked(c) == [pieces |-> request[c].pieces,
             client_error_code |-> request[c].client_error_code,
             request_id |-> curr_request_id]

LEMMA HandledIs ==
  ASSUME HandlerTypes, NEW c \in Conn
  PROVE  Asked(c) \in Handled
<1>1. request[c] \in Requests /\ curr_request_id \in Nat
  BY DEF HandlerTypes
<1>2. /\ request[c].pieces \in Seq(Pieces)
      /\ request[c].client_error_code \in {0, 400} \cup Garbage
  BY <1>1 DEF Requests
<1>3. request[c].client_error_code \in Int
  <2>1. Garbage \subseteq Int
    BY ScriptAssumption, Zenon
  <2> DEFINE n == request[c].client_error_code
  <2>2. n \in {0, 400} \cup Garbage
    BY <1>2
  <2> HIDE DEF n
  <2>3. n \in Int
    BY <2>1, <2>2
  <2> QED
    BY <2>3 DEF n
<1> DEFINE pieces == request[c].pieces
           code == request[c].client_error_code
<1>4. pieces \in Seq(Pieces) /\ code \in Int /\ curr_request_id \in Nat
  BY <1>1, <1>2, <1>3
<1> HIDE DEF pieces, code
<1>5. [pieces |-> pieces, client_error_code |-> code, request_id |-> curr_request_id]
        \in Handled
  BY <1>4 DEF Handled
<1> QED
  BY <1>5 DEF Asked, pieces, code

LEMMA HandleTypes ==
  ASSUME HandlerTypes, NEW c \in Conn, Handle(c)
  PROVE  /\ handled' \in [Conn -> Seq(Handled)]
         /\ \A d \in Conn :
              /\ AnswersInOrder(d)'
              /\ pc'[d] = "handling" => handled'[d] # <<>>
<1> DEFINE new == [pieces |-> request[c].pieces,
                   client_error_code |-> request[c].client_error_code,
                   request_id |-> curr_request_id]
<1>1. /\ handled \in [Conn -> Seq(Handled)] /\ pc \in [Conn -> Pc]
      /\ request[c] \in Requests /\ curr_request_id \in Nat
      /\ \A d \in Conn : AnswersInOrder(d) /\ (pc[d] = "handling" => handled[d] # <<>>)
  BY DEF HandlerTypes, PlacesAgree
<1>2. new \in Handled
  BY HandledIs DEF Asked
<1>3. /\ handled' = [handled EXCEPT ![c] = Append(handled[c], new)]
      /\ answers' = answers /\ pc' = [pc EXCEPT ![c] = "handling"] /\ pc[c] = "handle"
  BY <1>1 DEF Handle, Goes
<1> HIDE DEF new
<1>4. /\ handled[c] \in Seq(Handled) /\ Len(handled[c]) \in Nat
      /\ Append(handled[c], new) \in Seq(Handled)
      /\ Append(handled[c], new) # <<>>
      /\ Len(Append(handled[c], new)) = Len(handled[c]) + 1
  BY <1>1, <1>2, AppendProperties, LenProperties
<1>5. handled' \in [Conn -> Seq(Handled)]
  BY <1>1, <1>3, <1>4
<1>6. /\ handled'[c] # <<>> /\ Len(handled'[c]) = Len(handled[c]) + 1
      /\ \A d \in Conn \ {c} : handled'[d] = handled[d] /\ pc'[d] = pc[d]
  BY <1>1, <1>3, <1>4
<1>7. AnswersInOrder(c)'
  <2>1. DOMAIN answers[c] = 1 .. Len(answers[c]) /\ answers[c] \in Seq(Nat \ {0})
    BY <1>1, LenProperties DEF AnswersInOrder
  <2>2. \A i \in DOMAIN answers[c] : answers[c][i] \in Nat
    BY <2>1, ElementOfSeq
  <2>3. \A i \in DOMAIN answers[c] :
          /\ answers[c][i] <= Len(handled[c])
          /\ i > 1 => answers[c][i - 1] < answers[c][i]
    BY <1>1 DEF AnswersInOrder
  <2>4. \A i \in DOMAIN answers[c] :
          /\ answers[c][i] <= Len(handled[c]) + 1
          /\ answers[c][i] < Len(handled[c]) + 1
    <3>1. \A k, n \in Nat : k <= n => k <= n + 1 /\ k < n + 1
      OBVIOUS
    <3>2. Len(handled[c]) \in Nat
      BY <1>4
    <3> QED
      BY <2>2, <2>3, <3>1, <3>2
  <2> QED
    BY <1>3, <1>6, <2>1, <2>3, <2>4 DEF AnswersInOrder
<1>8. \A d \in Conn \ {c} : AnswersInOrder(d)'
  BY <1>1, <1>3, <1>6 DEF AnswersInOrder
<1> QED
  BY <1>1, <1>5, <1>6, <1>7, <1>8

(* An increasing sequence, and a number that is larger than the ones in it. *)
LEMMA AppendLarger ==
  ASSUME NEW a \in Seq(Nat \ {0}), NEW n \in Nat \ {0},
         \A i \in DOMAIN a : a[i] < n /\ (i > 1 => a[i - 1] < a[i])
  PROVE  /\ Append(a, n) \in Seq(Nat \ {0})
         /\ \A i \in DOMAIN Append(a, n) :
              /\ Append(a, n)[i] <= n
              /\ i > 1 => Append(a, n)[i - 1] < Append(a, n)[i]
<1> DEFINE b == Append(a, n)
<1>1. /\ DOMAIN a = 1 .. Len(a) /\ Len(a) \in Nat
      /\ \A i \in 1 .. Len(a) : a[i] \in Nat
  BY LenProperties, ElementOfSeq
<1>2. /\ b \in Seq(Nat \ {0}) /\ Len(b) = Len(a) + 1
      /\ \A i \in 1 .. Len(a) : b[i] = a[i]
      /\ b[Len(a) + 1] = n
  BY AppendProperties
<1>3. DOMAIN b = 1 .. Len(a) + 1
  BY <1>2, LenProperties
<1> HIDE DEF b
<1>4. ASSUME NEW i \in 1 .. Len(a) + 1
      PROVE  b[i] <= n /\ (i > 1 => b[i - 1] < b[i])
  <2>1. CASE i \in 1 .. Len(a)
    <3>1. b[i] = a[i] /\ a[i] < n /\ a[i] \in Nat
      BY <1>1, <1>2, <2>1
    <3>2. ASSUME i > 1 PROVE b[i - 1] = a[i - 1] /\ a[i - 1] < a[i]
      <4>1. i - 1 \in 1 .. Len(a)
        BY <1>1, <2>1, <3>2
      <4> QED
        BY <1>1, <1>2, <2>1, <3>2, <4>1
    <3> QED
      BY <3>1, <3>2
  <2>2. CASE i = Len(a) + 1
    <3>1. b[i] = n
      BY <1>2, <2>2
    <3>2. ASSUME i > 1 PROVE b[i - 1] < n
      <4>1. i - 1 \in 1 .. Len(a)
        BY <1>1, <2>2, <3>2
      <4> QED
        BY <1>1, <1>2, <4>1
    <3> QED
      BY <3>1, <3>2
  <2> QED
    BY <1>1, <2>1, <2>2
<1> QED
  BY <1>2, <1>3, <1>4 DEF b

(* An answer is sent to the request being handled. *)
LEMMA AnsweredTypes ==
  ASSUME HandlerTypes, NEW c \in Conn, Answered(c), handled' = handled,
         NEW to \in Pc \ {"handling"}, pc[c] = "handling", pc' = [pc EXCEPT ![c] = to]
  PROVE  DOMAIN answers' = Conn /\ \A d \in Conn : AnswersInOrder(d)'
<1>1. /\ handled[c] \in Seq(Handled) /\ handled[c] # <<>> /\ pc \in [Conn -> Pc]
      /\ DOMAIN answers = Conn /\ \A d \in Conn : AnswersInOrder(d)
  BY DEF HandlerTypes, PlacesAgree
<1>2. Len(handled[c]) \in Nat \ {0}
  BY <1>1, EmptySeq
<1>3. /\ answers[c] \in Seq(Nat \ {0})
      /\ \A i \in DOMAIN answers[c] :
           /\ answers[c][i] < Len(handled[c])
           /\ i > 1 => answers[c][i - 1] < answers[c][i]
  BY <1>1 DEF AnswersInOrder
<1>4. /\ answers' = [answers EXCEPT ![c] = Append(answers[c], Len(handled[c]))]
      /\ pc'[c] # "handling"
  BY <1>1 DEF Answered
<1>5. /\ DOMAIN answers' = Conn
      /\ answers'[c] = Append(answers[c], Len(handled[c]))
      /\ \A d \in Conn \ {c} : answers'[d] = answers[d] /\ pc'[d] = pc[d]
  BY <1>1, <1>4
<1>6. AnswersInOrder(c)'
  <2>1. /\ answers'[c] \in Seq(Nat \ {0})
        /\ \A i \in DOMAIN answers'[c] :
             /\ answers'[c][i] <= Len(handled[c])
             /\ i > 1 => answers'[c][i - 1] < answers'[c][i]
    BY <1>2, <1>3, <1>5, AppendLarger
  <2> QED
    BY <1>4, <2>1 DEF AnswersInOrder
<1>7. \A d \in Conn \ {c} : AnswersInOrder(d)'
  BY <1>1, <1>5 DEF AnswersInOrder
<1> QED
  BY <1>5, <1>6, <1>7

LEMMA HandlerTypesServe ==
  ASSUME HandlerTypes, Tunnel!TypeOK, PlacesAgree', NEW c \in Conn, Serve(c)
  PROVE  HandlerTypes'
<1>1. script' \in Script /\ stop_flag' \in BOOLEAN
  BY WhatMoves DEF HandlerTypes
<1>2. curr_message' \in [Conn -> Seq(Pieces)]
  <2>1. CASE Receive(c)
    BY <2>1, ReceiveIs
  <2>2. CASE Parse(c)
    <3>1. \E r \in Seq(Pieces) : curr_message' = [curr_message EXCEPT ![c] = r]
      BY <2>2, ParseIs
    <3> QED
      BY <3>1 DEF HandlerTypes
  <2> QED
    BY <2>1, <2>2, WhatMoves DEF HandlerTypes
<1>3. request' \in [Conn -> Requests]
  <2>1. CASE Parse(c)
    <3>1. \E q \in Requests : request' = [request EXCEPT ![c] = q]
      BY <2>1, ParseIs
    <3> QED
      BY <3>1 DEF HandlerTypes
  <2> QED
    BY <2>1, WhatMoves DEF HandlerTypes
<1>4. interrupted' \in [Conn -> BOOLEAN]
  BY WhatMoves DEF HandlerTypes
<1>5. curr_request_id' \in Nat
  <2>1. CASE TakeId(c)
    BY <2>1 DEF TakeId, HandlerTypes
  <2> QED
    BY <2>1, WhatMoves DEF HandlerTypes
<1>6. /\ handled' \in [Conn -> Seq(Handled)] /\ DOMAIN answers' = Conn
      /\ \A d \in Conn :
           /\ AnswersInOrder(d)'
           /\ pc'[d] = "handling" => handled'[d] # <<>>
  <2>1. CASE Handle(c)
    <3>1. answers' = answers
      BY <2>1 DEF Handle
    <3> QED
      BY <2>1, <3>1, HandleTypes DEF HandlerTypes
  <2>2. CASE ~Handle(c)
    <3>1. PICK to \in Pc \ {"handling"} : pc' = [pc EXCEPT ![c] = to]
      BY <2>2, WhatMoves
    <3>2. handled' = handled
      BY <2>2, WhatMoves
    <3>3. /\ pc \in [Conn -> Pc] /\ DOMAIN answers = Conn
          /\ handled \in [Conn -> Seq(Handled)]
          /\ \A d \in Conn : AnswersInOrder(d) /\ (pc[d] = "handling" => handled[d] # <<>>)
      BY DEF HandlerTypes, PlacesAgree
    <3>4. \A d \in Conn : pc'[d] = "handling" => pc[d] = "handling"
      BY <3>1, <3>3
    <3>5. CASE answers' = answers
      BY <3>2, <3>3, <3>4, <3>5 DEF AnswersInOrder
    <3>6. ASSUME Answered(c), NEW z \in Pc \ {"handling"}, Goes(c, "handling", z)
          PROVE  DOMAIN answers' = Conn /\ \A d \in Conn : AnswersInOrder(d)'
      BY <3>2, <3>6, AnsweredTypes DEF Goes
    <3> QED
      BY <3>2, <3>3, <3>4, <3>5, <3>6, WhatMoves
  <2> QED
    BY <2>1, <2>2
<1> QED
  BY <1>1, <1>2, <1>3, <1>4, <1>5, <1>6 DEF HandlerTypes

LEMMA HandlerTypesStep ==
  ASSUME HandlerTypes, Tunnel!TypeOK, [Next]_vars
  PROVE  HandlerTypes'
<1>1. PlacesAgree'
  BY PlacesStep DEF HandlerTypes
<1>2. ASSUME NEW c \in Conn, Serve(c) PROVE HandlerTypes'
  BY <1>1, <1>2, HandlerTypesServe
<1>3. ASSUME UNCHANGED <<script, curr_message, pc, request, handled, answers, interrupted,
                         curr_request_id>>,
             stop_flag' \in BOOLEAN
      PROVE  HandlerTypes'
  BY <1>1, <1>3 DEF HandlerTypes, AnswersInOrder
<1>4. ASSUME NEW c \in Conn, TunnelPeerGoes(c) PROVE HandlerTypes'
  BY <1>3, <1>4 DEF TunnelPeerGoes, HandlerTypes
<1>5. CASE SetStopFlag
  BY <1>3, <1>5 DEF SetStopFlag, conn_vars
<1>6. CASE Finished \/ UNCHANGED vars
  BY <1>3, <1>6 DEF Finished, vars, conn_vars, HandlerTypes
<1> QED
  BY <1>2, <1>4, <1>5, <1>6 DEF Next

LEMMA HandlerTyped == Spec => []HandlerTypes
<1>1. HandlerTypes /\ Tunnel!TypeOK /\ [Next]_vars => HandlerTypes'
  BY HandlerTypesStep
<1> QED
  BY <1>1, InitHandlerTypes, ServerTunnelsTyped, PTL DEF Spec

(* Every answer is to a request that was handled, to each at most once and *)
(* in their order; a thread is in its tunnel exactly while the socket to   *)
(* the origin is open.                                                     *)
THEOREM HandlerStateIsTyped == Spec => []TypeOK
<1>1. ASSUME HandlerTypes, Tunnel!TypeOK PROVE TypeOK
  <2>1. ASSUME NEW c \in Conn
        PROVE  /\ {incoming[c], curr_message[c], request[c].pieces} \subseteq Seq(Pieces)
               /\ request[c].client_error_code \in {0, 400} \cup Garbage
               /\ handled[c] \in Seq(Handled)
               /\ interrupted[c] \in BOOLEAN
    BY <1>1 DEF HandlerTypes, Requests, Tunnel!TypeOK
  <2>2. ASSUME NEW c \in Conn
        PROVE  pc[c] \in Pc /\ (pc[c] = "tunnel" <=> remote_socket[c])
    BY <1>1 DEF HandlerTypes, PlacesAgree, Tunnel!TypeOK
  <2>3. ASSUME NEW c \in Conn, NEW i \in DOMAIN answers[c]
        PROVE  /\ answers[c][i] \in DOMAIN handled[c]
               /\ i > 1 => answers[c][i - 1] < answers[c][i]
    <3>1. answers[c] \in Seq(Nat \ {0}) /\ handled[c] \in Seq(Handled) /\ AnswersInOrder(c)
      BY <1>1 DEF HandlerTypes, AnswersInOrder
    <3>2. /\ DOMAIN answers[c] = 1 .. Len(answers[c])
          /\ DOMAIN handled[c] = 1 .. Len(handled[c]) /\ Len(handled[c]) \in Nat
      BY <3>1, LenProperties
    <3>3. answers[c][i] \in Nat \ {0}
      BY <3>1, <3>2, ElementOfSeq
    <3> QED
      BY <3>1, <3>2, <3>3 DEF AnswersInOrder
  <2> QED
    BY <1>1, <2>1, <2>2, <2>3 DEF TypeOK, HandlerTypes, Pc
<1> QED
  BY <1>1, HandlerTyped, ServerTunnelsTyped, PTL

-----------------------------------------------------------------------------
(* No request is left in curr_message.  On the way to recv it has been     *)
(* looked at already, and looking again changes nothing.                   *)

NothingLeft(c) ==
  pc[c] \in {"test", "recv"} /\ ~interrupted[c] =>
    parse_request(curr_message[c]).outcome = "incomplete"

LEMMA InitNothingLeft == Init => \A c \in Conn : NothingLeft(c)
<1> SUFFICES ASSUME Init, NEW c \in Conn PROVE NothingLeft(c)
  OBVIOUS
<1>1. curr_message[c] = <<>>
  BY DEF Init
<1>2. HeaderEnds(<<>>) = {}
  BY EmptySeq DEF HeaderEnds
<1> QED
  BY <1>1, <1>2 DEF NothingLeft, parse_request

(* Only Parse comes back to the top of the loop with no exception, and     *)
(* Test goes from the top to recv.                                         *)
LEMMA NothingLeftServe ==
  ASSUME HandlerTypes, Tunnel!TypeOK, NEW c \in Conn, Serve(c), NothingLeft(c)
  PROVE  NothingLeft(c)'
<1> USE DEF Goes, Pc
<1>0. pc \in [Conn -> Pc] /\ interrupted \in [Conn -> BOOLEAN]
  BY DEF HandlerTypes, PlacesAgree
<1>1. CASE Test(c)
  BY <1>0, <1>1 DEF Test, NothingLeft
<1>2. CASE Parse(c)
  <2> DEFINE r == curr_message[c]
             p == parse_request(r)
  <2>1. /\ pc[c] = "parse" /\ curr_message'[c] = p.rest /\ p.outcome # "overrun"
        /\ pc'[c] = IF p.outcome \in {"parsed", "malformed"} THEN "take_id" ELSE "test"
        /\ interrupted'[c] = (p.outcome = "throws")
    BY <1>0, <1>2, ParseIs DEF HandlerTypes
  <2>2. r \in Seq(Pieces) /\ p.rest \in Seq(Pieces) /\ <<>> \in Seq(Pieces)
        /\ p.outcome \in Outcomes
    BY RequestIsCutOff, EmptySeq DEF HandlerTypes
  <2>3. p.outcome = "incomplete" => parse_request(p.rest).outcome = "incomplete"
    <3>1. p.rest \o <<>> = p.rest /\ r \o <<>> = r
      BY <2>2, ConcatEmptySeq
    <3>2. p.outcome = "incomplete" =>
            parse_request(p.rest \o <<>>) = parse_request(r \o <<>>)
      BY <2>2, RequestWaits
    <3> HIDE DEF r
    <3> QED
      BY <3>1, <3>2
  <2> HIDE DEF p
  <2> QED
    BY <2>1, <2>2, <2>3 DEF NothingLeft, Outcomes
<1>3. CASE ReceiveFails(c) \/ HandlerThrows(c)
  BY <1>0, <1>3 DEF ReceiveFails, HandlerThrows, NothingLeft
<1>4. CASE /\ ~Test(c) /\ ~Parse(c) /\ ~ReceiveFails(c) /\ ~HandlerThrows(c)
  <2>1. pc'[c] \notin {"test", "recv"}
    <3>1. CASE Receive(c) \/ ReceiveNothing(c) \/ TakeId(c) \/ Handle(c)
      BY <1>0, <3>1 DEF Receive, ReceiveNothing, TakeId, Handle
    <3>2. CASE Rejects(c) \/ Answers(c) \/ AnswerFails(c)
      BY <1>0, <3>2 DEF Rejects, Answers, AnswerFails
    <3>3. CASE TunnelOpens(c) \/ TunnelFails(c)
      BY <1>0, <3>3 DEF TunnelOpens, TunnelFails
    <3>4. CASE TunnelRelays(c)
      BY <1>0, <3>4 DEF TunnelRelays
    <3> QED
      BY <1>4, <3>1, <3>2, <3>3, <3>4 DEF Serve
  <2> QED
    BY <2>1 DEF NothingLeft
<1> QED
  BY <1>1, <1>2, <1>3, <1>4

(* A step of one connection leaves the others as they are. *)
LEMMA OtherConnections ==
  ASSUME HandlerTypes, Tunnel!TypeOK, NEW c \in Conn, Serve(c), NEW d \in Conn \ {c}
  PROVE  /\ pc'[d] = pc[d] /\ request'[d] = request[d] /\ handled'[d] = handled[d]
         /\ interrupted'[d] = interrupted[d] /\ curr_message'[d] = curr_message[d]
<1>1. /\ pc \in [Conn -> Pc] /\ request \in [Conn -> Requests]
      /\ handled \in [Conn -> Seq(Handled)] /\ interrupted \in [Conn -> BOOLEAN]
      /\ curr_message \in [Conn -> Seq(Pieces)]
  BY DEF HandlerTypes, PlacesAgree
<1>2. interrupted'[d] = interrupted[d]
  <2>1. interrupted' = interrupted \/ \E b : interrupted' = [interrupted EXCEPT ![c] = b]
    BY WhatMoves
  <2> QED
    BY <1>1, <2>1
<1>3. CASE Parse(c)
  <2>1. \E q, m, to : /\ request' = [request EXCEPT ![c] = q]
                      /\ curr_message' = [curr_message EXCEPT ![c] = m]
                      /\ pc' = [pc EXCEPT ![c] = to]
    <3>1. PICK q \in Requests : request' = [request EXCEPT ![c] = q]
      BY <1>3, ParseIs
    <3> DEFINE p == parse_request(curr_message[c])
               t == IF p.outcome \in {"parsed", "malformed"} THEN "take_id" ELSE "test"
    <3>2. /\ curr_message' = [curr_message EXCEPT ![c] = p.rest]
          /\ pc' = [pc EXCEPT ![c] = t]
      BY <1>3, ParseIs
    <3> HIDE DEF p, t
    <3> QED
      BY <3>1, <3>2
  <2>2. handled' = handled
    BY <1>3 DEF Parse
  <2> QED
    BY <1>1, <1>2, <2>1, <2>2
<1>4. CASE Handle(c)
  BY <1>1, <1>4 DEF Handle, Goes
<1>5. CASE ~Parse(c) /\ ~Handle(c)
  <2>1. /\ request' = request /\ handled' = handled
        /\ \E to \in Pc : pc' = [pc EXCEPT ![c] = to]
    BY <1>5, WhatMoves
  <2>2. curr_message'[d] = curr_message[d]
    BY <1>1, <1>5, WhatMoves, ReceiveIs
  <2> QED
    BY <1>1, <1>2, <2>1, <2>2
<1> QED
  BY <1>3, <1>4, <1>5

LEMMA NothingLeftStep ==
  ASSUME HandlerTypes, Tunnel!TypeOK, [Next]_vars, \A c \in Conn : NothingLeft(c)
  PROVE  \A c \in Conn : NothingLeft(c)'
<1>1. ASSUME NEW c \in Conn, Serve(c), NEW d \in Conn PROVE NothingLeft(d)'
  <2>1. CASE d = c
    BY <1>1, <2>1, NothingLeftServe
  <2>2. CASE d # c
    <3>1. /\ pc'[d] = pc[d] /\ interrupted'[d] = interrupted[d]
          /\ curr_message'[d] = curr_message[d]
      BY <1>1, <2>2, OtherConnections
    <3> QED
      BY <3>1 DEF NothingLeft
  <2> QED
    BY <2>1, <2>2
<1>2. ASSUME UNCHANGED <<pc, interrupted, curr_message>>
      PROVE  \A c \in Conn : NothingLeft(c)'
  BY <1>2 DEF NothingLeft
<1>3. ASSUME NEW c \in Conn, TunnelPeerGoes(c)
      PROVE  UNCHANGED <<pc, interrupted, curr_message>>
  BY <1>3 DEF TunnelPeerGoes
<1>4. SetStopFlag \/ Finished \/ UNCHANGED vars
        => UNCHANGED <<pc, interrupted, curr_message>>
  BY DEF SetStopFlag, Finished, vars, conn_vars
<1> QED
  BY <1>1, <1>2, <1>3, <1>4 DEF Next

(* A thread waits in recv with a complete request in curr_message only     *)
(* when an exception ended the last round of the loop: a peer that         *)
(* pipelines its requests and waits for the answers is not kept waiting.   *)
THEOREM NoRequestIsLeftBehind == Spec => []NoRequestLeftBehind
<1> DEFINE Inv == \A c \in Conn : NothingLeft(c)
<1>1. Inv /\ HandlerTypes /\ Tunnel!TypeOK /\ [Next]_vars => Inv'
  BY NothingLeftStep
<1>2. Inv => NoRequestLeftBehind
  BY DEF NothingLeft, NoRequestLeftBehind
<1>3. Init => Inv
  BY InitNothingLeft
<1> HIDE DEF Inv
<1> QED
  BY <1>1, <1>2, <1>3, HandlerTyped, ServerTunnelsTyped, PTL DEF Spec

-----------------------------------------------------------------------------
(* However the stream of a connection is cut. *)

OfHandled(h) == [i \in DOMAIN h |-> h[i].pieces]

LEMMA OfHandledIs ==
  ASSUME NEW h \in Seq(Handled)
  PROVE  /\ OfHandled(h) \in Seq(Seq(Pieces))
         /\ Len(OfHandled(h)) = Len(h) /\ DOMAIN h = 1 .. Len(h)
         /\ \A i \in DOMAIN h : OfHandled(h)[i] = h[i].pieces
<1>1. Len(h) \in Nat /\ DOMAIN h = 1 .. Len(h)
  BY LenProperties
<1>2. \A i \in 1 .. Len(h) : h[i].pieces \in Seq(Pieces)
  <2>1. \A i \in 1 .. Len(h) : h[i] \in Handled
    BY ElementOfSeq
  <2> QED
    BY <2>1 DEF Handled
<1>3. OfHandled(h) = [i \in 1 .. Len(h) |-> h[i].pieces]
  BY <1>1 DEF OfHandled
<1>4. OfHandled(h) \in Seq(Seq(Pieces))
  BY <1>1, <1>2, <1>3, IsASeq
<1>5. Len(OfHandled(h)) = Len(h)
  BY <1>1, <1>3, <1>4, LenProperties
<1> QED
  BY <1>1, <1>3, <1>4, <1>5

LEMMA OfOneMore ==
  ASSUME NEW h \in Seq(Handled), NEW e \in Handled
  PROVE  OfHandled(Append(h, e)) = Append(OfHandled(h), e.pieces)
<1> DEFINE g == Append(h, e)
           u == OfHandled(h)
           v == Append(u, e.pieces)
           w == OfHandled(g)
<1>1. /\ g \in Seq(Handled) /\ Len(g) = Len(h) + 1 /\ g[Len(h) + 1] = e
      /\ \A i \in 1 .. Len(h) : g[i] = h[i]
  BY AppendProperties
<1>2. /\ u \in Seq(Seq(Pieces)) /\ Len(u) = Len(h) /\ Len(h) \in Nat
      /\ \A i \in 1 .. Len(h) : u[i] = h[i].pieces
  BY OfHandledIs, LenProperties
<1> HIDE DEF g, u
<1>3. /\ w \in Seq(Seq(Pieces)) /\ Len(w) = Len(h) + 1
      /\ \A i \in 1 .. Len(h) + 1 : w[i] = g[i].pieces
  BY <1>1, OfHandledIs
<1>4. e.pieces \in Seq(Pieces)
  BY DEF Handled
<1>5. /\ v \in Seq(Seq(Pieces)) /\ Len(v) = Len(h) + 1 /\ v[Len(h) + 1] = e.pieces
      /\ \A i \in 1 .. Len(h) : v[i] = u[i]
  BY <1>2, <1>4, AppendProperties
<1> HIDE DEF v, w
<1>6. ASSUME NEW i \in 1 .. Len(h) + 1 PROVE w[i] = v[i]
  <2>1. CASE i = Len(h) + 1
    BY <1>1, <1>3, <1>5, <2>1
  <2>2. CASE i # Len(h) + 1
    <3>1. i \in 1 .. Len(h)
      BY <1>2, <2>2
    <3> QED
      BY <1>1, <1>2, <1>3, <1>5, <3>1
  <2> QED
    BY <2>1, <2>2
<1>7. w = v
  BY <1>3, <1>5, <1>6, SeqEqual
<1> QED
  BY <1>7 DEF g, u, v, w

(* What has been taken off the stream, and what has not. *)
Taken(c) ==
  IF pc[c] \in {"take_id", "handle"} THEN Append(OfHandled(handled[c]), request[c].pieces)
  ELSE OfHandled(handled[c])

Left(c) == curr_message[c] \o incoming[c]

Refused(c) ==
  pc[c] \in {"take_id", "handle", "handling", "closed"} /\ request[c].client_error_code # 0

(* The loop is where it should be in what the peer says. *)
Follows(c) ==
  /\ pc[c] # "tunnel" /\ relayed[c]["client"] = <<>> /\ ~IsConnect(c)
  /\ \/ IsTaken(Taken(c), Left(c), script[c], FALSE)
     \/ Refused(c) /\ IsTaken(Taken(c), Left(c), script[c], TRUE)

Converses(c) == IsConversation(script[c]) /\ "CONNECT" \notin Kinds(FlattenSeq(script[c]))

LEMMA ScriptTyped ==
  ASSUME HandlerTypes, NEW c \in Conn
  PROVE  script[c] \in Seq(Seq(Pieces))
<1>1. Script \subseteq [Conn -> Seq(Seq(Pieces))]
  BY ScriptAssumption, Zenon
<1> QED
  BY <1>1 DEF HandlerTypes

LEMMA InitFollows ==
  ASSUME Init, HandlerTypes, NEW c \in Conn
  PROVE  Follows(c)
<1>1. /\ script[c] \in Seq(Seq(Pieces)) /\ incoming[c] = FlattenSeq(script[c])
      /\ curr_message[c] = <<>> /\ pc[c] = "test" /\ handled[c] = <<>>
      /\ request[c].pieces = <<>>
  BY ScriptTyped DEF Init, NoRequest
<1>2. relayed[c]["client"] = <<>>
  BY DEF Init, Tunnel!NoTunnels, Tunnel!Side
<1>3. ~IsConnect(c)
  BY <1>1, EmptySeq DEF IsConnect, Kinds
<1>4. Taken(c) = <<>>
  <2>1. OfHandled(<<>>) = <<>>
    <3>1. <<>> \in Seq(Handled) /\ Len(<<>>) = 0
      BY EmptySeq
    <3>2. Len(OfHandled(<<>>)) = 0 /\ OfHandled(<<>>) \in Seq(Seq(Pieces))
      BY <3>1, OfHandledIs
    <3> QED
      BY <3>2, EmptySeq
  <2> QED
    BY <1>1, <2>1 DEF Taken
<1>5. Left(c) = FlattenSeq(script[c])
  BY <1>1, FlattenTyped, ConcatEmptySeq DEF Left
<1> QED
  BY <1>1, <1>2, <1>3, <1>4, <1>5, NothingIsTaken DEF Follows

(* A step that only moves the loop on. *)
LEMMA FollowsMoves ==
  ASSUME NEW c \in Conn, Follows(c), script' = script, NEW to, to # "tunnel",
         pc'[c] = to, pc[c] \in {"take_id", "handle"} <=> to \in {"take_id", "handle"},
         Refused(c) => to \in {"take_id", "handle", "handling", "closed"},
         relayed'[c] = relayed[c], request'[c] = request[c],
         curr_message'[c] = curr_message[c], incoming'[c] = incoming[c],
         handled'[c] = handled[c]
  PROVE  Follows(c)'
<1>1. Taken(c)' = Taken(c) /\ Left(c)' = Left(c) /\ IsConnect(c)' = IsConnect(c)
  BY DEF Taken, Left, IsConnect
<1>2. Refused(c) => Refused(c)'
  BY DEF Refused
<1> QED
  BY <1>1, <1>2 DEF Follows

LEMMA FollowsStays ==
  ASSUME NEW c \in Conn, Follows(c), script' = script, pc'[c] = pc[c],
         relayed'[c] = relayed[c], request'[c] = request[c],
         curr_message'[c] = curr_message[c], incoming'[c] = incoming[c],
         handled'[c] = handled[c]
  PROVE  Follows(c)'
<1>1. Taken(c)' = Taken(c) /\ Left(c)' = Left(c) /\ IsConnect(c)' = IsConnect(c)
  BY DEF Taken, Left, IsConnect
<1>2. Refused(c) => Refused(c)'
  BY DEF Refused
<1> QED
  BY <1>1, <1>2 DEF Follows

LEMMA FollowsReceive ==
  ASSUME HandlerTypes, Tunnel!TypeOK, NEW c \in Conn, Receive(c), Follows(c)
  PROVE  Follows(c)'
<1>1. /\ pc[c] = "recv" /\ pc'[c] = "parse" /\ script' = script /\ handled' = handled
      /\ request' = request /\ relayed' = relayed
  BY DEF Receive, Goes, tunnel_vars, HandlerTypes, PlacesAgree
<1>2. Left(c)' = Left(c)
  <2>1. PICK s \in Seq(Pieces), r \in Seq(Pieces) :
          /\ s \o r = incoming[c]
          /\ curr_message'[c] = curr_message[c] \o s
          /\ incoming'[c] = r
    BY ReceiveIs
  <2>2. curr_message[c] \in Seq(Pieces)
    BY DEF HandlerTypes
  <2> DEFINE m == curr_message[c]
             m1 == curr_message'[c]
  <2>3. m1 \o r = m \o (s \o r)
    <3>1. m1 = m \o s /\ m \in Seq(Pieces)
      BY <2>1, <2>2
    <3> HIDE DEF m, m1
    <3> QED
      BY <3>1, Regroup
  <2> QED
    BY <2>1, <2>3 DEF Left
<1>3. Taken(c)' = Taken(c) /\ IsConnect(c)' = IsConnect(c) /\ ~Refused(c)
  BY <1>1 DEF Taken, IsConnect, Refused
<1> QED
  BY <1>1, <1>2, <1>3 DEF Follows

LEMMA FollowsParse ==
  ASSUME HandlerTypes, Tunnel!TypeOK, NEW c \in Conn, Parse(c), Follows(c), Converses(c)
  PROVE  Follows(c)'
<1> DEFINE r == curr_message[c]
           t == incoming[c]
           p == parse_request(r)
           ms == script[c]
<1>1. /\ pc[c] = "parse" /\ script' = script /\ handled' = handled /\ incoming' = incoming
      /\ relayed' = relayed
  BY DEF Parse, tunnel_vars
<1>2. PICK q \in Requests :
        /\ request' = [request EXCEPT ![c] = q]
        /\ p.outcome \in {"parsed", "malformed"} => q.pieces = p.request
        /\ p.outcome = "malformed" => q.client_error_code = 400
        /\ p.outcome \notin {"parsed", "malformed"} => q = NoRequest
  BY ParseIs
<1>3. /\ pc' = [pc EXCEPT ![c] = IF p.outcome \in {"parsed", "malformed"}
                                THEN "take_id" ELSE "test"]
      /\ curr_message' = [curr_message EXCEPT ![c] = p.rest]
  BY ParseIs
<1>4. /\ pc \in [Conn -> Pc] /\ request \in [Conn -> Requests]
      /\ curr_message \in [Conn -> Seq(Pieces)] /\ r \in Seq(Pieces)
  BY DEF HandlerTypes, PlacesAgree
<1>5. /\ pc'[c] = IF p.outcome \in {"parsed", "malformed"} THEN "take_id" ELSE "test"
      /\ curr_message'[c] = p.rest /\ request'[c] = q
  BY <1>2, <1>3, <1>4
<1>6. IsTaken(OfHandled(handled[c]), r \o t, ms, FALSE) /\ relayed[c]["client"] = <<>>
  BY <1>1 DEF Follows, Taken, Left, Refused
<1>7. /\ p.outcome # "parsed" => p.rest = r
      /\ p.outcome = "parsed" =>
           /\ IsTaken(Append(OfHandled(handled[c]), p.request), p.rest \o t, ms, FALSE)
           /\ Kinds(p.request) \subseteq Kinds(FlattenSeq(ms))
      /\ p.outcome = "malformed" =>
           IsTaken(Append(OfHandled(handled[c]), <<>>), p.rest \o t, ms, TRUE)
  <2>1. /\ ms \in Seq(Seq(Pieces)) /\ IsConversation(ms)
        /\ r \in Seq(Pieces) /\ t \in Seq(Pieces)
    BY <1>4, ScriptTyped DEF Converses, Tunnel!TypeOK
  <2> DEFINE taken == OfHandled(handled[c])
  <2> HIDE DEF r, t, ms, taken
  <2> QED
    BY <1>6, <2>1, ParseTakes DEF taken
<1>8. "CONNECT" \notin Kinds(FlattenSeq(ms))
  BY DEF Converses
<1>9. p.request = <<>> \/ p.outcome = "parsed"
  BY <1>4, RequestIsCutOff
<1>10. Kinds(<<>>) = {}
  BY EmptySeq DEF Kinds
<1> HIDE DEF p, r, t, ms
<1>11. CASE p.outcome = "parsed"
  <2>1. /\ pc'[c] = "take_id" /\ request'[c].pieces = p.request
        /\ Taken(c)' = Append(OfHandled(handled[c]), p.request)
        /\ Left(c)' = p.rest \o t
    BY <1>1, <1>2, <1>5, <1>11 DEF Taken, Left, t
  <2>2. ~IsConnect(c)'
    BY <1>7, <1>8, <1>11, <2>1 DEF IsConnect
  <2> QED
    BY <1>1, <1>6, <1>7, <1>11, <2>1, <2>2 DEF Follows, ms
<1>12. CASE p.outcome = "malformed"
  <2>1. /\ pc'[c] = "take_id" /\ request'[c].pieces = <<>>
        /\ Taken(c)' = Append(OfHandled(handled[c]), <<>>)
        /\ Left(c)' = p.rest \o t
        /\ Refused(c)'
    BY <1>1, <1>2, <1>5, <1>9, <1>12 DEF Taken, Left, Refused, t
  <2>2. ~IsConnect(c)'
    BY <1>10, <2>1 DEF IsConnect
  <2> QED
    BY <1>1, <1>6, <1>7, <1>12, <2>1, <2>2 DEF Follows, ms
<1>13. CASE p.outcome \notin {"parsed", "malformed"}
  <2>1. /\ pc'[c] = "test" /\ request'[c].pieces = <<>>
        /\ Taken(c)' = OfHandled(handled[c])
        /\ Left(c)' = r \o t
    <3>1. pc'[c] = "test" /\ request'[c] = NoRequest /\ curr_message'[c] = r
      BY <1>2, <1>5, <1>7, <1>13
    <3> QED
      BY <1>1, <3>1 DEF Taken, Left, NoRequest, t
  <2>2. ~IsConnect(c)'
    BY <1>10, <2>1 DEF IsConnect
  <2> QED
    BY <1>1, <1>6, <2>1, <2>2 DEF Follows, ms
<1> QED
  BY <1>11, <1>12, <1>13

LEMMA FollowsHandle ==
  ASSUME HandlerTypes, NEW c \in Conn, Handle(c), Follows(c)
  PROVE  Follows(c)'
<1>1. /\ handled' = [handled EXCEPT ![c] = Append(handled[c], Asked(c))]
      /\ pc[c] = "handle" /\ pc'[c] = "handling"
      /\ UNCHANGED <<script, incoming, curr_message, request, relayed>>
  BY DEF Handle, Asked, Goes, tunnel_vars, HandlerTypes, PlacesAgree
<1>2. handled \in [Conn -> Seq(Handled)] /\ Asked(c) \in Handled
  BY HandledIs DEF HandlerTypes
<1>3. Asked(c).pieces = request[c].pieces
  BY DEF Asked
<1> HIDE DEF Asked
<1>4. handled'[c] = Append(handled[c], Asked(c))
  BY <1>1, <1>2
<1>5. OfHandled(handled'[c]) = Append(OfHandled(handled[c]), request[c].pieces)
  BY <1>2, <1>3, <1>4, OfOneMore
<1>6. /\ Taken(c)' = Taken(c) /\ Left(c)' = Left(c) /\ IsConnect(c)' = IsConnect(c)
      /\ Refused(c)' = Refused(c)
  BY <1>1, <1>5 DEF Taken, Left, IsConnect, Refused
<1> QED
  BY <1>1, <1>6 DEF Follows

(* The other steps of a connection that has no tunnel.                     *)
LEMMA FollowsServe ==
  ASSUME HandlerTypes, Tunnel!TypeOK, NEW c \in Conn, Serve(c), Follows(c), Converses(c)
  PROVE  Follows(c)'
<1>0. /\ pc \in [Conn -> Pc] /\ pc[c] # "tunnel" /\ ~IsConnect(c)
  BY DEF HandlerTypes, PlacesAgree, Follows
<1> USE DEF Goes, tunnel_vars
<1>1. CASE Receive(c)
  BY <1>1, FollowsReceive
<1>2. CASE Parse(c)
  BY <1>2, FollowsParse
<1>3. CASE Handle(c)
  BY <1>3, FollowsHandle
<1>4. CASE TunnelOpens(c) \/ TunnelFails(c) \/ TunnelRelays(c)
  BY <1>0, <1>4 DEF TunnelOpens, TunnelFails, TunnelRelays
<1>5. ASSUME /\ UNCHANGED <<script, relayed, request, curr_message, incoming, handled>>
             /\ \E to \in {"test", "recv", "closed", "parse"} : pc'[c] = to
             /\ pc[c] \in {"test", "recv", "handling"}
             /\ Refused(c) => pc'[c] = "closed"
      PROVE  Follows(c)'
  BY <1>5, FollowsMoves
<1>6. CASE Test(c) \/ ReceiveNothing(c) \/ ReceiveFails(c)
  <2>1. /\ UNCHANGED <<script, relayed, request, curr_message, incoming, handled>>
        /\ \E to \in {"test", "recv", "closed", "parse"} : pc'[c] = to
        /\ pc[c] \in {"test", "recv"}
    BY <1>0, <1>6 DEF Test, ReceiveNothing, ReceiveFails
  <2>2. ~Refused(c)
    BY <2>1 DEF Refused
  <2> QED
    BY <1>5, <2>1, <2>2
<1>7. CASE Rejects(c)
  <2>1. /\ UNCHANGED <<script, relayed, request, curr_message, incoming, handled>>
        /\ pc'[c] = "closed" /\ pc[c] = "handling"
    BY <1>0, <1>7 DEF Rejects
  <2> QED
    BY <1>5, <2>1
<1>8. CASE Answers(c) \/ AnswerFails(c) \/ HandlerThrows(c)
  <2>1. /\ UNCHANGED <<script, relayed, request, curr_message, incoming, handled>>
        /\ \E to \in {"test", "recv", "closed", "parse"} : pc'[c] = to
        /\ pc[c] = "handling" /\ request[c].client_error_code = 0
    BY <1>0, <1>8 DEF Answers, AnswerFails, HandlerThrows
  <2>2. ~Refused(c)
    BY <2>1 DEF Refused
  <2> QED
    BY <1>5, <2>1, <2>2
<1>9. CASE TakeId(c)
  <2>1. /\ UNCHANGED <<script, relayed, request, curr_message, incoming, handled>>
        /\ pc'[c] = "handle" /\ pc[c] = "take_id"
    BY <1>0, <1>9 DEF TakeId
  <2> QED
    BY <2>1, FollowsMoves
<1> QED
  BY <1>1, <1>2, <1>3, <1>4, <1>6, <1>7, <1>8, <1>9 DEF Serve

(* The stream of a connection is not touched by the others. *)
LEMMA OtherStreams ==
  ASSUME HandlerTypes, Tunnel!TypeOK, NEW c \in Conn, Serve(c), NEW d \in Conn \ {c}
  PROVE  incoming'[d] = incoming[d] /\ relayed'[d] = relayed[d]
<1>1. incoming \in [Conn -> Seq(Pieces)] /\ DOMAIN relayed = Conn
  BY DEF Tunnel!TypeOK
<1>2. CASE Receive(c)
  BY <1>2, ReceiveIs DEF Receive, tunnel_vars
<1>3. CASE TunnelOpens(c)
  BY <1>1, <1>3 DEF TunnelOpens, Tunnel!Opens
<1>4. CASE TunnelRelays(c)
  <2>1. Tunnel!Relays(c)
    BY <1>4 DEF TunnelRelays
  <2>2. CASE Tunnel!Select(c)
    BY <2>2 DEF Tunnel!Select
  <2>3. CASE Tunnel!Ends(c)
    BY <2>3 DEF Tunnel!Ends
  <2>4. ASSUME NEW s \in Tunnel!Side, Tunnel!Receive(c, s)
        PROVE  incoming'[d] = incoming[d] /\ relayed' = relayed
    <3>1. /\ \E u : incoming' = [incoming EXCEPT ![c] = u] \/ incoming' = incoming
          /\ relayed' = relayed
      BY <2>4 DEF Tunnel!Receive
    <3> QED
      BY <1>1, <3>1
  <2>5. ASSUME NEW s \in Tunnel!Side, Tunnel!SendOn(c, s)
        PROVE  incoming' = incoming /\ relayed'[d] = relayed[d]
    BY <1>1, <2>5 DEF Tunnel!SendOn
  <2> QED
    BY <2>1, <2>2, <2>3, <2>4, <2>5 DEF Tunnel!Relays
<1>5. CASE ~Receive(c) /\ ~TunnelOpens(c) /\ ~TunnelRelays(c)
  <2>1. incoming' = incoming /\ relayed' = relayed
    <3> USE DEF tunnel_vars
    <3>1. CASE Test(c) \/ ReceiveNothing(c) \/ ReceiveFails(c) \/ Parse(c)
      BY <3>1 DEF Test, ReceiveNothing, ReceiveFails, Parse
    <3>2. CASE TakeId(c) \/ Handle(c) \/ Rejects(c) \/ Answers(c)
      BY <3>2 DEF TakeId, Handle, Rejects, Answers
    <3>3. CASE AnswerFails(c) \/ TunnelFails(c) \/ HandlerThrows(c)
      BY <3>3 DEF AnswerFails, TunnelFails, HandlerThrows
    <3> QED
      BY <1>5, <3>1, <3>2, <3>3 DEF Serve
  <2> QED
    BY <2>1
<1> QED
  BY <1>2, <1>3, <1>4, <1>5

LEMMA FollowsStep ==
  ASSUME HandlerTypes, Tunnel!TypeOK, [Next]_vars,
         \A c \in Conn : Converses(c) => Follows(c)
  PROVE  \A c \in Conn : Converses(c)' => Follows(c)'
<1>0. script' = script
  BY WhatMoves DEF Next, vars, conn_vars, SetStopFlag, Finished, TunnelPeerGoes
<1>1. SUFFICES ASSUME NEW d \in Conn, Converses(d), Follows(d)
               PROVE  Follows(d)'
  BY <1>0 DEF Converses
<1>2. ASSUME pc'[d] = pc[d], relayed'[d] = relayed[d], request'[d] = request[d],
             curr_message'[d] = curr_message[d], incoming'[d] = incoming[d],
             handled'[d] = handled[d]
      PROVE  Follows(d)'
  BY <1>0, <1>1, <1>2, FollowsStays
<1>3. ASSUME NEW c \in Conn, Serve(c) PROVE Follows(d)'
  <2>1. CASE c = d
    BY <1>1, <1>3, <2>1, FollowsServe
  <2>2. CASE c # d
    BY <1>2, <1>3, <2>2, OtherConnections, OtherStreams
  <2> QED
    BY <2>1, <2>2
<1>4. ASSUME NEW c \in Conn, TunnelPeerGoes(c) PROVE Follows(d)'
  <2>1. UNCHANGED <<pc, relayed, request, curr_message, incoming, handled>>
    BY <1>4 DEF TunnelPeerGoes, Tunnel!PeerGoes
  <2> QED
    BY <1>2, <2>1
<1>5. CASE SetStopFlag \/ Finished \/ UNCHANGED vars
  BY <1>2, <1>5 DEF SetStopFlag, Finished, vars, conn_vars, tunnel_vars
<1> QED
  BY <1>3, <1>4, <1>5 DEF Next

(* However the bytes are cut into segments and whatever becomes of the     *)
(* requests, the loop is where it should be in the stream of a connection. *)
THEOREM StreamsAreFollowed == Spec => [](\A c \in Conn : Converses(c) => Follows(c))
<1> DEFINE Inv == \A c \in Conn : Converses(c) => Follows(c)
<1>1. Inv /\ HandlerTypes /\ Tunnel!TypeOK /\ [Next]_vars => Inv'
  BY FollowsStep
<1>2. Init /\ HandlerTypes => Inv
  BY InitFollows
<1> HIDE DEF Inv
<1>3. Spec => []Inv
  BY <1>1, <1>2, HandlerTyped, ServerTunnelsTyped, PTL DEF Spec
<1> QED
  BY <1>3 DEF Inv

(* What has been handled is at its place in what has been taken.           *)
LEMMA HandledIsTaken ==
  ASSUME NEW c \in Conn, handled[c] \in Seq(Handled), request[c].pieces \in Seq(Pieces),
         NEW i \in DOMAIN handled[c]
  PROVE  i \in 1 .. Len(Taken(c)) /\ Taken(c)[i] = handled[c][i].pieces
<1> DEFINE u == OfHandled(handled[c])
<1>1. /\ u \in Seq(Seq(Pieces)) /\ i \in 1 .. Len(u) /\ u[i] = handled[c][i].pieces
  BY OfHandledIs
<1> HIDE DEF u
<1>2. /\ i \in 1 .. Len(Append(u, request[c].pieces))
      /\ Append(u, request[c].pieces)[i] = u[i]
  BY <1>1, AppendProperties
<1> QED
  BY <1>1, <1>2 DEF Taken, u

(* However the bytes of a connection are cut into segments, the requests   *)
(* handled are the messages the peer sent, one for one: a 400 stands for a *)
(* message that is malformed taken by itself.                              *)
THEOREM RequestsHandledAreTheMessages ==
  ASSUME \A s \in Script : \A c \in Conn : IsConversation(s[c])
  PROVE  Spec => []RequestsAreTheMessages
<1>1. ASSUME HandlerTypes, \A c \in Conn : Converses(c) => Follows(c)
      PROVE  RequestsAreTheMessages
  <2>1. ASSUME NEW c \in Conn, "CONNECT" \notin Kinds(FlattenSeq(script[c])),
               NEW i \in DOMAIN handled[c]
        PROVE  /\ i \in DOMAIN script[c]
               /\ IF handled[c][i].pieces = <<>>
                  THEN parse_request(script[c][i]).outcome = "malformed"
                  ELSE handled[c][i].pieces = script[c][i]
    <3>1. /\ script[c] \in Seq(Seq(Pieces)) /\ IsConversation(script[c])
          /\ handled[c] \in Seq(Handled) /\ request[c].pieces \in Seq(Pieces)
      BY <1>1, ScriptTyped DEF HandlerTypes, Requests
    <3>2. Follows(c)
      BY <1>1, <2>1, <3>1 DEF Converses
    <3>3. i \in 1 .. Len(Taken(c)) /\ Taken(c)[i] = handled[c][i].pieces
      BY <2>1, <3>1, HandledIsTaken
    <3>4. \E x, b : IsTaken(Taken(c), x, script[c], b)
      BY <3>2 DEF Follows
    <3> HIDE DEF Taken
    <3> QED
      BY <3>1, <3>3, <3>4, TakenAreMessages
  <2> QED
    BY <2>1 DEF RequestsAreTheMessages
<1> QED
  BY <1>1, HandlerTyped, StreamsAreFollowed, PTL

(* The requests handled on c are those its peer sent, each as it was sent. *)
HandlesTheRequests(c) ==
  "CONNECT" \notin Kinds(FlattenSeq(script[c])) =>
    \A i \in DOMAIN handled[c] :
      /\ i \in DOMAIN script[c] /\ IsRequest(script[c][i])
      /\ handled[c][i].pieces = script[c][i]

(* The requests of a peer that keeps to HTTP, none of them longer than an  *)
(* int can count (which holds of the length a broken-off one states as     *)
(* well), are handled as it sent them, however they are cut into segments: *)
(* each begins where the one before it ended, none is handled before its   *)
(* end has come, and none is taken for a malformed one.                    *)
THEOREM RequestsOfHttpAreHandled ==
  ASSUME \A s \in Script : \A c \in Conn : SpeaksHttp(s[c])
  PROVE  Spec => [](\A c \in Conn : HandlesTheRequests(c))
<1>1. ASSUME NEW s \in Script, NEW c \in Conn PROVE s[c] \in Seq(Seq(Pieces))
  <2>1. Script \subseteq [Conn -> Seq(Seq(Pieces))]
    BY ScriptAssumption, Zenon
  <2> QED
    BY <2>1
<1>2. \A s \in Script : \A c \in Conn : IsConversation(s[c])
  BY <1>1, HttpIsConversation
<1>3. ASSUME HandlerTypes, \A c \in Conn : Converses(c) => Follows(c)
      PROVE  \A c \in Conn : HandlesTheRequests(c)
  <2>1. ASSUME NEW c \in Conn, "CONNECT" \notin Kinds(FlattenSeq(script[c])),
               NEW i \in DOMAIN handled[c]
        PROVE  /\ i \in DOMAIN script[c] /\ IsRequest(script[c][i])
               /\ handled[c][i].pieces = script[c][i]
    <3>1. /\ script[c] \in Seq(Seq(Pieces)) /\ SpeaksHttp(script[c])
          /\ IsConversation(script[c])
          /\ handled[c] \in Seq(Handled) /\ request[c].pieces \in Seq(Pieces)
      BY <1>2, <1>3, ScriptTyped DEF HandlerTypes, Requests
    <3>2. \E x, b : IsTaken(Taken(c), x, script[c], b)
      BY <1>3, <2>1, <3>1 DEF Converses, Follows
    <3>3. i \in 1 .. Len(Taken(c)) /\ Taken(c)[i] = handled[c][i].pieces
      BY <2>1, <3>1, HandledIsTaken
    <3> HIDE DEF Taken
    <3>4. /\ i \in DOMAIN script[c]
          /\ \/ parse_request(script[c][i]).outcome = "malformed"
             \/ /\ handled[c][i].pieces = script[c][i]
                /\ parse_request(script[c][i]).outcome = "parsed"
      BY <3>1, <3>2, <3>3, TakenAreMessages
    <3>5. /\ parse_request(script[c][i]).outcome \in {"parsed", "incomplete"}
          /\ parse_request(script[c][i]).outcome = "parsed" => IsRequest(script[c][i])
      BY <3>1, <3>4, HttpIsParsed
    <3> QED
      BY <3>4, <3>5
  <2> QED
    BY <2>1 DEF HandlesTheRequests
<1> QED
  BY <1>2, <1>3, HandlerTyped, StreamsAreFollowed, PTL

(* Every byte of a peer that opens no tunnel is in a request, or in        *)
(* curr_message, or has not been received, in the order it was sent in.    *)
LEMMA FollowersLoseNothing ==
  ASSUME HandlerTypes, Tunnel!TypeOK, NEW c \in Conn, Follows(c)
  PROVE  LET parsed == FlattenSeq([i \in DOMAIN handled[c] |-> handled[c][i].pieces])
             pending == IF pc[c] \in {"take_id", "handle"} THEN request[c].pieces ELSE <<>>
             here == parsed \o pending \o curr_message[c] \o incoming[c]
         IN  here = FlattenSeq(script[c]) /\ here \in Seq(Pieces)
<1> DEFINE u == OfHandled(handled[c])
           parsed == FlattenSeq(u)
           pending == IF pc[c] \in {"take_id", "handle"} THEN request[c].pieces ELSE <<>>
           m == curr_message[c]
           t == incoming[c]
<1>1. /\ m \in Seq(Pieces) /\ t \in Seq(Pieces) /\ pending \in Seq(Pieces)
      /\ u \in Seq(Seq(Pieces)) /\ parsed \in Seq(Pieces)
      /\ script[c] \in Seq(Seq(Pieces))
  BY EmptySeq, OfHandledIs, FlattenTyped, ScriptTyped DEF HandlerTypes, Requests, Tunnel!TypeOK
<1>2. FlattenSeq(Taken(c)) = parsed \o pending
  <2>1. CASE pc[c] \in {"take_id", "handle"}
    <3>1. request[c].pieces \in Seq(Pieces)
      BY <1>1, <2>1
    <3>2. FlattenSeq(Append(u, request[c].pieces)) = parsed \o request[c].pieces
      BY <1>1, <3>1, FlattenOfMore
    <3> QED
      BY <2>1, <3>2 DEF Taken
  <2>2. CASE pc[c] \notin {"take_id", "handle"}
    <3>1. parsed \o <<>> = parsed
      BY <1>1, ConcatEmptySeq
    <3> QED
      BY <2>2, <3>1 DEF Taken
  <2> QED
    BY <2>1, <2>2
<1>3. FlattenSeq(script[c]) = FlattenSeq(Taken(c)) \o (m \o t)
  <2>1. \E b : IsTaken(Taken(c), m \o t, script[c], b)
    BY DEF Follows, Left
  <2> HIDE DEF m, t
  <2> QED
    BY <1>1, <2>1, TakenIsAll
<1> DEFINE q == parsed \o pending
           sent == FlattenSeq(script[c])
<1>4. q \in Seq(Pieces)
  <2> HIDE DEF parsed, pending
  <2> QED
    BY <1>1, ConcatProperties
<1> DEFINE w == q \o m
<1>5. w \o t = q \o (m \o t) /\ w \o t \in Seq(Pieces)
  <2> HIDE DEF q, m, t
  <2>1. w \in Seq(Pieces)
    BY <1>1, <1>4, ConcatProperties
  <2>2. w = q \o m
    OBVIOUS
  <2>3. Join(Join(q, m), t) = Join(q, Join(m, t))
    BY <1>1, <1>4, JoinAssociates
  <2>4. w \o t = q \o (m \o t)
    BY <2>3 DEF Join
  <2> HIDE DEF w
  <2>5. w \o t \in Seq(Pieces)
    BY <1>1, <2>1, ConcatProperties
  <2> QED
    BY <2>4, <2>5 DEF w
<1>6. sent = q \o (m \o t)
  BY <1>2, <1>3
<1> HIDE DEF sent
<1>7. w \o t = sent /\ w \o t \in Seq(Pieces)
  BY <1>5, <1>6
<1> QED
  BY <1>7, Zenon DEF OfHandled, sent

LEMMA NoTunnelLosesNothing ==
  ASSUME HandlerTypes, Tunnel!TypeOK, NEW c \in Conn, Follows(c)
  PROVE  LosesNothing(c)
<1> DEFINE sent == FlattenSeq(script[c])
           parsed == FlattenSeq([i \in DOMAIN handled[c] |-> handled[c][i].pieces])
           pending == IF pc[c] \in {"take_id", "handle"} THEN request[c].pieces ELSE <<>>
           here == parsed \o pending \o curr_message[c] \o incoming[c]
           n == Len(sent) - Len(here)
           tunnelled == relayed[c]["client"] \o Tunnel!InBuffer(c, "client")
           taken(p) == SubSeq(sent, p + 1, p + n)
<1>1. here = sent /\ here \in Seq(Pieces)
  BY FollowersLoseNothing, Zenon
<1>2. relayed[c]["client"] = <<>> /\ pc[c] # "tunnel"
  BY DEF Follows
<1>3. Tunnel!InBuffer(c, "client") = <<>>
  <2>1. tunnel[c] = "none"
    BY <1>2 DEF HandlerTypes, PlacesAgree
  <2> QED
    BY <2>1 DEF Tunnel!InBuffer, Tunnel!SendingOn
<1> HIDE DEF sent, here
<1>4. n = 0 /\ Len(sent) \in Nat /\ Len(here) \in Nat
  BY <1>1, LenProperties
<1>5. taken(0) = <<>>
  <2>1. taken(0) = SubSeq(sent, 1, 0)
    BY <1>4
  <2> QED
    BY <2>1, SubSeqEmpty
<1>6. here = SubSeq(sent, 1, 0) \o SubSeq(sent, 0 + n + 1, Len(sent))
  <2>1. SubSeq(sent, 1, 0) = <<>> /\ SubSeq(sent, 1, Len(sent)) = sent
    BY <1>1, SubSeqEmpty, SubSeqFull
  <2>2. 0 + n + 1 = 1
    BY <1>4
  <2>3. <<>> \o sent = sent
    BY <1>1, ConcatEmptySeq
  <2> HIDE DEF n
  <2> QED
    BY <1>1, <2>1, <2>2, <2>3
<1>7. IsPrefix(relayed[c]["client"], taken(0)) /\ tunnelled = taken(0)
  <2>1. <<>> \o <<>> = <<>> /\ IsPrefix(<<>>, <<>>)
    BY EmptySeq, ConcatEmptySeq DEF IsPrefix
  <2> HIDE DEF taken
  <2> QED
    BY <1>2, <1>3, <1>5, <2>1
<1>8. 0 \in 0 .. Len(here)
  BY <1>4
<1> HIDE DEF n, tunnelled
<1>9. \E p \in 0 .. Len(here) :
        /\ here = SubSeq(sent, 1, p) \o SubSeq(sent, p + n + 1, Len(sent))
        /\ IsPrefix(relayed[c]["client"], taken(p))
        /\ "origin" \notin gone[c] => tunnelled = taken(p)
  <2> HIDE DEF taken
  <2> QED
    BY <1>6, <1>7, <1>8
<1> QED
  BY <1>9, Zenon DEF LosesNothing, n, tunnelled, here, sent

(* Every byte of a peer that asks for no tunnel is in a request, or in      *)
(* curr_message, or has not been received, in the order it was sent in,    *)
(* whatever the other connections do.                                      *)
THEOREM NoByteOfAConversationIsLost ==
  Spec => [](\A c \in Conn : Converses(c) => LosesNothing(c))
<1>1. ASSUME HandlerTypes, Tunnel!TypeOK, \A c \in Conn : Converses(c) => Follows(c)
      PROVE  \A c \in Conn : Converses(c) => LosesNothing(c)
  BY <1>1, NoTunnelLosesNothing
<1> QED
  BY <1>1, HandlerTyped, ServerTunnelsTyped, StreamsAreFollowed, PTL

(* So no byte is lost when no peer asks for a tunnel.  (What is left of a   *)
(* stream after a tunnel may begin in the middle of a message;             *)
(* parse_request drops that part.)                                         *)
THEOREM NoByteIsLost ==
  ASSUME \A s \in Script : \A c \in Conn :
           IsConversation(s[c]) /\ "CONNECT" \notin Kinds(FlattenSeq(s[c]))
  PROVE  Spec => []NothingIsLost
<1>1. ASSUME HandlerTypes, \A c \in Conn : Converses(c) => LosesNothing(c)
      PROVE  NothingIsLost
  BY <1>1 DEF HandlerTypes, Converses, NothingIsLost
<1> QED
  BY <1>1, HandlerTyped, NoByteOfAConversationIsLost, PTL
=============================================================================
