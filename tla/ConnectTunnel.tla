--------------------------- MODULE ConnectTunnel ---------------------------
(***************************************************************************)
(* The tunnel of a CONNECT request (RequestHandler::handle_connect): bytes *)
(* are relayed between the client and the origin until one of them has     *)
(* nothing more to say.  Each connection can have a tunnel, one after the  *)
(* other, and is used for something else in between.                       *)
(***************************************************************************)
EXTENDS SequencesExt, Integers

CONSTANTS
  Conn,
  Data,      \* what the streams are made of
  Replies    \* the streams an origin may send through a tunnel

TunnelAssumption == Replies \subseteq Seq(Data)

VARIABLES
  incoming,       \* what each client has sent and nobody has received
  replies,        \* the same of the origin
  tunnel,         \* where handle_connect is, "none" when it does not run
  ready,          \* the sides select has found readable and nobody looked at
  buffer,
  relayed,        \* relayed[c][s]: what of side s was sent on to the other
  stream,         \* history: what side s had to send when the tunnel opened
  gone,           \* the sides that can be sent nothing any more
  remote_socket   \* TRUE while it is open

tunnel_vars == <<replies, tunnel, ready, buffer, relayed, stream, gone, remote_socket>>
vars == <<incoming, tunnel_vars>>

Side == {"client", "origin"}

Other(s) == IF s = "client" THEN "origin" ELSE "client"

(* Where the tunnel is once something of side s is in the buffer. *)
SendingOn(s) == IF s = "client" THEN "send_origin" ELSE "send_client"

Unread(c, s) == IF s = "client" THEN incoming[c] ELSE replies[c]

-----------------------------------------------------------------------------
NoTunnels ==
  /\ replies = [c \in Conn |-> <<>>]
  /\ tunnel = [c \in Conn |-> "none"]
  /\ ready = [c \in Conn |-> {}]
  /\ buffer = [c \in Conn |-> <<>>]
  /\ relayed = [c \in Conn |-> [s \in Side |-> <<>>]]
  /\ stream = [c \in Conn |-> [s \in Side |-> <<>>]]
  /\ gone = [c \in Conn |-> {}]
  /\ remote_socket = [c \in Conn |-> FALSE]

Init == incoming \in [Conn -> Seq(Data)] /\ NoTunnels

Goes(c, from, to) ==
  /\ tunnel[c] = from
  /\ tunnel' = [tunnel EXCEPT ![c] = to]

(* The origin is connected and the client told so; how that send ends is   *)
(* not looked at.                                                          *)
Opens(c) ==
  /\ Goes(c, "none", "select")
  /\ \E r \in Replies :
       /\ replies' = [replies EXCEPT ![c] = r]
       /\ stream' = [stream EXCEPT ![c] = [s \in Side |-> IF s = "client" THEN incoming[c]
                                                                         ELSE r]]
  /\ relayed' = [relayed EXCEPT ![c] = [s \in Side |-> <<>>]]
  /\ gone' = [gone EXCEPT ![c] = {}]
  /\ remote_socket' = [remote_socket EXCEPT ![c] = TRUE]
  /\ UNCHANGED <<incoming, ready, buffer>>

(* Each side has something to read, or its end, when it likes; the client  *)
(* is looked at first.                                                     *)
Select(c) ==
  /\ \E r \in SUBSET Side \ {{}} :
       /\ Goes(c, "select", IF "client" \in r THEN "client" ELSE "origin")
       /\ ready' = [ready EXCEPT ![c] = r]
  /\ UNCHANGED <<incoming, replies, buffer, relayed, stream, gone, remote_socket>>

(* Seeded fault: both sides are read before anything is sent on. *)
ReceiveBoth(c, s) ==
  /\ Goes(c, s, IF s = "client" /\ "origin" \in ready[c] THEN "origin" ELSE SendingOn(s))
  /\ \E n \in 1 .. Len(Unread(c, s)) :
       LET rest == SubSeq(Unread(c, s), n + 1, Len(Unread(c, s)))
       IN  /\ buffer' = [buffer EXCEPT ![c] = SubSeq(Unread(c, s), 1, n)]
           /\ incoming' = IF s = "client" THEN [incoming EXCEPT ![c] = rest] ELSE incoming
           /\ replies' = IF s = "origin" THEN [replies EXCEPT ![c] = rest] ELSE replies
  /\ ready' = [ready EXCEPT ![c] = @ \ {s}]
  /\ UNCHANGED <<relayed, stream, gone, remote_socket>>

(* recv on side s. *)
Receive(c, s) ==
  /\ Goes(c, s, SendingOn(s))
  /\ \E n \in 1 .. Len(Unread(c, s)) :
       LET rest == SubSeq(Unread(c, s), n + 1, Len(Unread(c, s)))
       IN  /\ buffer' = [buffer EXCEPT ![c] = SubSeq(Unread(c, s), 1, n)]
           /\ incoming' = IF s = "client" THEN [incoming EXCEPT ![c] = rest] ELSE incoming
           /\ replies' = IF s = "origin" THEN [replies EXCEPT ![c] = rest] ELSE replies
  /\ ready' = [ready EXCEPT ![c] = @ \ {s}]
  /\ UNCHANGED <<relayed, stream, gone, remote_socket>>

(* send to the other side: the whole buffer, or nothing if that side has   *)
(* gone.  The result is not looked at, and the buffer not read again.      *)
SendOn(c, s) ==
  /\ Goes(c, SendingOn(s), IF "origin" \in ready[c] THEN "origin" ELSE "select")
  /\ relayed' = IF Other(s) \in gone[c] THEN relayed
                ELSE [relayed EXCEPT ![c][s] = @ \o buffer[c]]
  /\ buffer' = [buffer EXCEPT ![c] = <<>>]
  /\ UNCHANGED <<incoming, replies, ready, stream, gone, remote_socket>>

(* recv returns 0 or an error, or select does: the other direction is over *)
(* as well, whatever there is left of it.                                  *)
Ends(c) ==
  /\ \/ Goes(c, "select", "none")
     \/ \E s \in Side :
          /\ Goes(c, s, "none")
          /\ Unread(c, s) = <<>> \/ s \in gone[c]
  /\ remote_socket' = [remote_socket EXCEPT ![c] = FALSE]
  /\ ready' = [ready EXCEPT ![c] = {}]
  /\ replies' = [replies EXCEPT ![c] = <<>>]
  /\ UNCHANGED <<incoming, buffer, relayed, stream, gone>>

(* A side resets its connection. *)
PeerGoes(c, s) ==
  /\ tunnel[c] # "none"
  /\ gone' = [gone EXCEPT ![c] = @ \cup {s}]
  /\ UNCHANGED <<incoming, replies, tunnel, ready, buffer, relayed, stream, remote_socket>>

(* The connection is read by the rest of the server. *)
ReadElsewhere(c) ==
  /\ tunnel[c] = "none"
  /\ \E n \in 1 .. Len(incoming[c]) :
       incoming' = [incoming EXCEPT ![c] = SubSeq(@, n + 1, Len(@))]
  /\ UNCHANGED tunnel_vars

Relays(c) ==
  \/ Select(c) \/ Ends(c)
  \/ \E s \in Side : Receive(c, s) \/ SendOn(c, s)

Next ==
  \E c \in Conn :
    \/ Opens(c) \/ Relays(c) \/ ReadElsewhere(c)
    \/ \E s \in Side : PeerGoes(c, s)

Spec == Init /\ [][Next]_vars

-----------------------------------------------------------------------------
(* The socket to the origin is open exactly while the tunnel runs. *)
TypeOK ==
  /\ incoming \in [Conn -> Seq(Data)]
  /\ replies \in [Conn -> Seq(Data)]
  /\ tunnel \in [Conn -> {"none", "select", "send_origin", "send_client"} \cup Side]
  /\ ready \in [Conn -> SUBSET Side]
  /\ buffer \in [Conn -> Seq(Data)]
  /\ relayed \in [Conn -> [Side -> Seq(Data)]]
  /\ stream \in [Conn -> [Side -> Seq(Data)]]
  /\ gone \in [Conn -> SUBSET Side]
  /\ remote_socket = [c \in Conn |-> tunnel[c] # "none"]

(* What was received of side s and not sent on yet. *)
InBuffer(c, s) ==
  IF tunnel[c] = SendingOn(s) THEN buffer[c] ELSE <<>>

(* While a tunnel runs, no byte of a side is skipped, repeated or moved,   *)
(* unless the other side can be sent nothing any more.                     *)
NothingIsDropped(c, s) ==
  tunnel[c] # "none" /\ Other(s) \notin gone[c] =>
    (relayed[c][s] \o InBuffer(c, s)) \o Unread(c, s) = stream[c][s]

(* What comes out of a tunnel at one end is the beginning of what went in  *)
(* at the other, and nothing of it is missing while both ends are there:   *)
(* the one buffer, the two directions that share it and the failures of    *)
(* send the code ignores leave no hole in a stream.                        *)
RelaysInOrder ==
  \A c \in Conn : \A s \in Side :
    /\ IsPrefix(relayed[c][s], stream[c][s])
    /\ NothingIsDropped(c, s)
=============================================================================
