------------------------ MODULE ConnectTunnelProofs ------------------------
(***************************************************************************)
(* Proofs about the tunnels of CONNECT requests: what they relay is in     *)
(* order and without a hole, for any number of connections, any streams    *)
(* and any way of cutting them.                                            *)
(***************************************************************************)
EXTENDS ConnectTunnel, SequenceTheorems, TLAPS

-----------------------------------------------------------------------------
(* What recv takes and what it leaves. *)
LEMMA SplitAt ==
  ASSUME NEW S, NEW s \in Seq(S), NEW n \in 1 .. Len(s)
  PROVE  /\ SubSeq(s, 1, n) \in Seq(S)
         /\ SubSeq(s, n + 1, Len(s)) \in Seq(S)
         /\ SubSeq(s, 1, n) \o SubSeq(s, n + 1, Len(s)) = s
<1>1. Len(s) \in Nat /\ \A i \in 1 .. Len(s) : s[i] \in S
  BY LenProperties, ElementOfSeq
<1>2. SubSeq(s, 1, n) \in Seq(S)
  BY <1>1, SubSeqProperties
<1>3. SubSeq(s, n + 1, Len(s)) \in Seq(S)
  BY <1>1, SubSeqProperties
<1>4. SubSeq(s, 1, n) \o SubSeq(s, n + 1, Len(s)) = SubSeq(s, 1, Len(s))
  <2>1. /\ 1 \in 1 .. Len(s) + 1
        /\ n \in 1 - 1 .. Len(s)
        /\ Len(s) \in n .. Len(s)
    BY <1>1
  <2> QED
    BY <2>1, ConcatAdjacentSubSeq
<1> QED
  BY <1>2, <1>3, <1>4, SubSeqFull

LEMMA PrefixOfConcat ==
  ASSUME NEW S, NEW s \in Seq(S), NEW t \in Seq(S)
  PROVE  IsPrefix(s, s \o t)
<1>1. /\ Len(s) \in Nat /\ Len(t) \in Nat
      /\ Len(s \o t) = Len(s) + Len(t)
      /\ \A i \in 1 .. Len(s) + Len(t) :
           (s \o t)[i] = IF i <= Len(s) THEN s[i] ELSE t[i - Len(s)]
      /\ \A i \in 1 .. Len(s) : s[i] \in S
  BY LenProperties, ConcatProperties, ElementOfSeq
<1>2. SubSeq(s \o t, 1, Len(s)) = SubSeq(s, 1, Len(s))
  <2>1. /\ SubSeq(s, 1, Len(s)) \in Seq(S)
        /\ Len(SubSeq(s, 1, Len(s))) = Len(s)
        /\ \A i \in 1 .. Len(s) : SubSeq(s, 1, Len(s))[i] = s[i]
    BY SubSeqFull
  <2>2. \A i \in 1 .. Len(s) : (s \o t)[i] = s[i]
    BY <1>1
  <2>3. \A i \in 1 .. Len(s) : (s \o t)[i] \in S
    BY <1>1, <2>2
  <2> DEFINE u == s \o t
             m == Len(s)
  <2>4. m \in Int /\ 1 \in Int /\ \A i \in 1 .. m : u[i] \in S
    BY <1>1, <2>3
  <2>5. /\ SubSeq(u, 1, m) \in Seq(S)
        /\ Len(SubSeq(u, 1, m)) = IF 1 <= m THEN m - 1 + 1 ELSE 0
        /\ \A i \in 1 .. m - 1 + 1 : SubSeq(u, 1, m)[i] = u[1 + i - 1]
    <3> HIDE DEF u, m
    <3> QED
      BY <2>4, SubSeqProperties
  <2>6. /\ Len(SubSeq(u, 1, m)) = m
        /\ \A i \in 1 .. m : SubSeq(u, 1, m)[i] = s[i]
    <3>1. m \in Nat
      BY <1>1
    <3>2. \A i \in 1 .. m : u[1 + i - 1] = s[i]
      BY <2>2, <3>1
    <3> HIDE DEF u, m
    <3> QED
      BY <2>5, <3>1, <3>2
  <2> QED
    BY <2>1, <2>5, <2>6, SeqEqual
<1> QED
  BY <1>1, <1>2 DEF IsPrefix

-----------------------------------------------------------------------------
(* Types. *)

LEMMA InitTyped == Init => TypeOK
<1> SUFFICES ASSUME Init PROVE TypeOK
  OBVIOUS
<1>1. <<>> \in Seq(Data)
  BY EmptySeq
<1>2. /\ replies \in [Conn -> Seq(Data)]
      /\ buffer \in [Conn -> Seq(Data)]
  BY <1>1 DEF Init, NoTunnels
<1>3. /\ relayed \in [Conn -> [Side -> Seq(Data)]]
      /\ stream \in [Conn -> [Side -> Seq(Data)]]
  BY <1>1 DEF Init, NoTunnels
<1>4. /\ ready \in [Conn -> SUBSET Side]
      /\ gone \in [Conn -> SUBSET Side]
  BY DEF Init, NoTunnels
<1>5. /\ tunnel \in [Conn -> {"none", "select", "send_origin", "send_client"} \cup Side]
      /\ remote_socket = [c \in Conn |-> tunnel[c] # "none"]
      /\ incoming \in [Conn -> Seq(Data)]
  BY DEF Init, NoTunnels
<1> QED
  BY <1>2, <1>3, <1>4, <1>5 DEF TypeOK

LEMMA TypeStep ==
  ASSUME TunnelAssumption, TypeOK, [Next]_vars
  PROVE  TypeOK'
<1> USE DEF TypeOK, Side
<1>1. ASSUME NEW c \in Conn, Opens(c) PROVE TypeOK'
  <2>1. PICK r \in Replies :
          /\ replies' = [replies EXCEPT ![c] = r]
          /\ stream' = [stream EXCEPT ![c] =
                          [s \in Side |-> IF s = "client" THEN incoming[c] ELSE r]]
    BY <1>1 DEF Opens
  <2>2. r \in Seq(Data) /\ incoming[c] \in Seq(Data)
    BY DEF TunnelAssumption
  <2>3. stream' \in [Conn -> [Side -> Seq(Data)]] /\ replies' \in [Conn -> Seq(Data)]
    BY <2>1, <2>2
  <2>4. relayed' \in [Conn -> [Side -> Seq(Data)]]
    BY <1>1, EmptySeq DEF Opens
  <2> QED
    BY <1>1, <2>3, <2>4 DEF Opens, Goes
<1>2. ASSUME NEW c \in Conn, Select(c) PROVE TypeOK'
  BY <1>2 DEF Select, Goes
<1>3. ASSUME NEW c \in Conn, NEW s \in Side, Receive(c, s) PROVE TypeOK'
  <2>1. Unread(c, s) \in Seq(Data)
    BY DEF Unread
  <2>2. PICK n \in 1 .. Len(Unread(c, s)) :
          LET rest == SubSeq(Unread(c, s), n + 1, Len(Unread(c, s)))
          IN  /\ buffer' = [buffer EXCEPT ![c] = SubSeq(Unread(c, s), 1, n)]
              /\ incoming' = IF s = "client" THEN [incoming EXCEPT ![c] = rest] ELSE incoming
              /\ replies' = IF s = "origin" THEN [replies EXCEPT ![c] = rest] ELSE replies
    BY <1>3 DEF Receive
  <2>3. /\ SubSeq(Unread(c, s), 1, n) \in Seq(Data)
        /\ SubSeq(Unread(c, s), n + 1, Len(Unread(c, s))) \in Seq(Data)
    BY <2>1, SplitAt
  <2>4. /\ buffer' \in [Conn -> Seq(Data)]
        /\ incoming' \in [Conn -> Seq(Data)]
        /\ replies' \in [Conn -> Seq(Data)]
    BY <2>2, <2>3
  <2> QED
    BY <1>3, <2>4 DEF Receive, Goes, SendingOn
<1>4. ASSUME NEW c \in Conn, NEW s \in Side, SendOn(c, s) PROVE TypeOK'
  <2>1. relayed[c][s] \o buffer[c] \in Seq(Data)
    <3>1. relayed[c][s] \in Seq(Data) /\ buffer[c] \in Seq(Data)
      OBVIOUS
    <3> QED
      BY <3>1, ConcatProperties
  <2>2. relayed' \in [Conn -> [Side -> Seq(Data)]]
    BY <1>4, <2>1 DEF SendOn
  <2>3. buffer' \in [Conn -> Seq(Data)]
    BY <1>4, EmptySeq DEF SendOn
  <2> QED
    BY <1>4, <2>2, <2>3 DEF SendOn, Goes, SendingOn
<1>5. ASSUME NEW c \in Conn, Ends(c) PROVE TypeOK'
  <2>1. replies' \in [Conn -> Seq(Data)]
    BY <1>5, EmptySeq DEF Ends
  <2>2. tunnel' = [tunnel EXCEPT ![c] = "none"]
    BY <1>5 DEF Ends, Goes
  <2> QED
    BY <1>5, <2>1, <2>2 DEF Ends
<1>6. ASSUME NEW c \in Conn, NEW s \in Side, PeerGoes(c, s) PROVE TypeOK'
  BY <1>6 DEF PeerGoes
<1>7. ASSUME NEW c \in Conn, ReadElsewhere(c) PROVE TypeOK'
  <2>1. PICK n \in 1 .. Len(incoming[c]) :
          incoming' = [incoming EXCEPT ![c] = SubSeq(@, n + 1, Len(@))]
    BY <1>7 DEF ReadElsewhere
  <2>2. SubSeq(incoming[c], n + 1, Len(incoming[c])) \in Seq(Data)
    BY SplitAt
  <2> QED
    BY <1>7, <2>1, <2>2 DEF ReadElsewhere, tunnel_vars
<1>8. CASE UNCHANGED vars
  BY <1>8 DEF vars, tunnel_vars
<1> QED
  BY <1>1, <1>2, <1>3, <1>4, <1>5, <1>6, <1>7, <1>8 DEF Next, Relays

-----------------------------------------------------------------------------
(* Order. *)

InOrder(c, s) ==
  /\ IsPrefix(relayed[c][s], stream[c][s])
  /\ NothingIsDropped(c, s)

(* A step of one tunnel leaves the others as they are. *)
Undisturbed(c) ==
  /\ incoming'[c] = incoming[c] /\ replies'[c] = replies[c]
  /\ tunnel'[c] = tunnel[c] /\ buffer'[c] = buffer[c]
  /\ relayed'[c] = relayed[c] /\ stream'[c] = stream[c]
  /\ gone'[c] = gone[c]

(* What holds of a tunnel that a step does not touch still holds after it. *)
LEMMA UndisturbedInOrder ==
  ASSUME NEW c, NEW s, InOrder(c, s), Undisturbed(c)
  PROVE  InOrder(c, s)'
BY DEF InOrder, NothingIsDropped, Undisturbed, InBuffer, Unread

(* handle_connect starts with nothing relayed and both streams unread. *)
LEMMA OpensInOrder ==
  ASSUME TunnelAssumption, TypeOK, NEW c \in Conn, NEW s \in Side, Opens(c)
  PROVE  InOrder(c, s)'
<1>1. PICK r \in Replies :
        /\ replies' = [replies EXCEPT ![c] = r]
        /\ stream' = [stream EXCEPT ![c] =
                        [t \in Side |-> IF t = "client" THEN incoming[c] ELSE r]]
  BY DEF Opens
<1>2. r \in Seq(Data) /\ incoming[c] \in Seq(Data)
  BY DEF TunnelAssumption, TypeOK
<1> DEFINE all == IF s = "client" THEN incoming[c] ELSE r
<1>3. all \in Seq(Data) /\ <<>> \in Seq(Data)
  BY <1>2, EmptySeq
<1>4. stream'[c][s] = all
  BY <1>1 DEF TypeOK
<1>5. relayed'[c][s] = <<>>
  BY DEF Opens, TypeOK
<1>6. Unread(c, s)' = all
  <2>1. incoming' = incoming /\ replies'[c] = r
    BY <1>1 DEF Opens, TypeOK
  <2> QED
    BY <2>1 DEF Unread
<1>7. InBuffer(c, s)' = <<>>
  <2>1. tunnel'[c] = "select"
    BY DEF Opens, Goes, TypeOK
  <2> QED
    BY <2>1 DEF InBuffer, SendingOn
<1>8. <<>> \o all = all /\ <<>> \o <<>> = <<>>
  <2> HIDE DEF all
  <2>1. \A t \in Seq(Data) : <<>> \o t = t
    BY ConcatEmptySeq
  <2> QED
    BY <1>3, <2>1
<1>9. IsPrefix(<<>>, all)
  <2> HIDE DEF all
  <2>1. IsPrefix(<<>>, <<>> \o all)
    BY <1>3, PrefixOfConcat
  <2> QED
    BY <1>8, <2>1
<1> HIDE DEF all
<1>10. (relayed'[c][s] \o InBuffer(c, s)') \o Unread(c, s)' = stream'[c][s]
  BY <1>4, <1>5, <1>6, <1>7, <1>8
<1>11. IsPrefix(relayed'[c][s], stream'[c][s])
  BY <1>4, <1>5, <1>9
<1> QED
  BY <1>10, <1>11 DEF InOrder, NothingIsDropped

(* recv moves the beginning of what one side sent into the buffer, which   *)
(* was empty; the other direction stays as it is.                          *)
LEMMA ReceiveInOrder ==
  ASSUME TypeOK, NEW c \in Conn, NEW s \in Side, NEW t \in Side,
         Receive(c, s), InOrder(c, t)
  PROVE  InOrder(c, t)'
<1> USE DEF Side
<1>1. Unread(c, s) \in Seq(Data)
  BY DEF TypeOK, Unread
<1>2. PICK n \in 1 .. Len(Unread(c, s)) :
        LET rest == SubSeq(Unread(c, s), n + 1, Len(Unread(c, s)))
        IN  /\ buffer' = [buffer EXCEPT ![c] = SubSeq(Unread(c, s), 1, n)]
            /\ incoming' = IF s = "client" THEN [incoming EXCEPT ![c] = rest] ELSE incoming
            /\ replies' = IF s = "origin" THEN [replies EXCEPT ![c] = rest] ELSE replies
  BY DEF Receive
<1> DEFINE taken == SubSeq(Unread(c, s), 1, n)
           rest == SubSeq(Unread(c, s), n + 1, Len(Unread(c, s)))
<1>3. taken \in Seq(Data) /\ rest \in Seq(Data) /\ taken \o rest = Unread(c, s)
  BY <1>1, SplitAt
<1>4. buffer'[c] = taken /\ Unread(c, s)' = rest
  BY <1>2 DEF TypeOK, Unread
<1> HIDE DEF taken, rest
<1>5. /\ tunnel[c] = s /\ tunnel'[c] = SendingOn(s)
      /\ relayed' = relayed /\ stream' = stream /\ gone' = gone
  BY DEF Receive, Goes, TypeOK
<1>6. InBuffer(c, t) = <<>>
  BY <1>5 DEF InBuffer, SendingOn
<1>7. relayed[c][t] \in Seq(Data) /\ Unread(c, t) \in Seq(Data)
  BY DEF TypeOK, Unread
<1>8. relayed[c][t] \o <<>> = relayed[c][t]
  BY <1>7, ConcatEmptySeq
<1>9. CASE t = s
  <2>1. InBuffer(c, t)' = taken
    BY <1>4, <1>5, <1>9 DEF InBuffer
  <2>2. (relayed[c][t] \o taken) \o rest = relayed[c][t] \o (taken \o rest)
    <3>1. \A x, y, z \in Seq(Data) : (x \o y) \o z = x \o (y \o z)
      BY ConcatAssociative
    <3> QED
      BY <1>3, <1>7, <3>1, Zenon
  <2> QED
    BY <1>3, <1>4, <1>5, <1>6, <1>8, <1>9, <2>1, <2>2 DEF InOrder, NothingIsDropped, Other
<1>10. CASE t # s
  <2>1. InBuffer(c, t)' = <<>>
    BY <1>5, <1>10 DEF InBuffer, SendingOn
  <2>2. Unread(c, t)' = Unread(c, t)
    BY <1>2, <1>10 DEF Unread
  <2> QED
    BY <1>5, <1>6, <2>1, <2>2 DEF InOrder, NothingIsDropped, Other
<1> QED
  BY <1>9, <1>10

(* send moves the whole buffer behind what was relayed before; when the    *)
(* other side has gone, nothing more is claimed of that direction.         *)
LEMMA SendOnInOrder ==
  ASSUME TypeOK, NEW c \in Conn, NEW s \in Side, NEW t \in Side,
         SendOn(c, s), InOrder(c, t)
  PROVE  InOrder(c, t)'
<1> USE DEF Side
<1>1. /\ tunnel[c] = SendingOn(s) /\ tunnel'[c] \in {"origin", "select"}
      /\ stream' = stream /\ gone' = gone
      /\ Unread(c, t)' = Unread(c, t)
  BY DEF SendOn, Goes, TypeOK, Unread
<1>2. InBuffer(c, t)' = <<>>
  BY <1>1 DEF InBuffer, SendingOn
<1>3. /\ relayed[c][t] \in Seq(Data) /\ buffer[c] \in Seq(Data)
      /\ Unread(c, t) \in Seq(Data)
  BY DEF TypeOK, Unread
<1>4. CASE t = s /\ Other(s) \notin gone[c]
  <2> DEFINE sent == relayed[c][t] \o buffer[c]
  <2>1. sent \in Seq(Data)
    BY <1>3, ConcatProperties
  <2>2. relayed'[c][t] = sent
    BY <1>4 DEF SendOn, TypeOK
  <2>3. InBuffer(c, t) = buffer[c]
    BY <1>1, <1>4 DEF InBuffer
  <2>4. tunnel[c] # "none"
    BY <1>1 DEF SendingOn
  <2>5. sent \o Unread(c, t) = stream[c][t]
    BY <1>4, <2>3, <2>4 DEF InOrder, NothingIsDropped
  <2> HIDE DEF sent
  <2>6. sent \o <<>> = sent /\ IsPrefix(sent, sent \o Unread(c, t))
    BY <1>3, <2>1, ConcatEmptySeq, PrefixOfConcat
  <2> QED
    BY <1>1, <1>2, <2>2, <2>5, <2>6 DEF InOrder, NothingIsDropped
<1>5. CASE t = s /\ Other(s) \in gone[c]
  BY <1>1, <1>5 DEF SendOn, InOrder, NothingIsDropped
<1>6. CASE t # s
  <2>1. relayed'[c][t] = relayed[c][t]
    BY <1>6 DEF SendOn, TypeOK
  <2>2. InBuffer(c, t) = <<>> /\ tunnel[c] # "none"
    BY <1>1, <1>6 DEF InBuffer, SendingOn
  <2> QED
    BY <1>1, <1>2, <2>1, <2>2 DEF InOrder, NothingIsDropped
<1> QED
  BY <1>4, <1>5, <1>6

(* The other steps of a tunnel relay nothing. *)
LEMMA RestInOrder ==
  ASSUME TypeOK, NEW c \in Conn, NEW t \in Side, InOrder(c, t),
         \/ Select(c) \/ Ends(c) \/ ReadElsewhere(c)
         \/ \E s \in Side : PeerGoes(c, s)
  PROVE  InOrder(c, t)'
<1> USE DEF Side, TypeOK
<1>1. CASE Select(c)
  <2>1. tunnel[c] = "select" /\ tunnel'[c] \in Side
    BY <1>1 DEF Select, Goes
  <2>2. InBuffer(c, t) = <<>> /\ InBuffer(c, t)' = <<>>
    BY <2>1 DEF InBuffer, SendingOn
  <2>3. /\ Unread(c, t)' = Unread(c, t)
        /\ relayed' = relayed /\ stream' = stream /\ gone' = gone
    BY <1>1 DEF Select, Unread
  <2> QED
    BY <2>1, <2>2, <2>3 DEF InOrder, NothingIsDropped
<1>2. CASE Ends(c)
  <2>1. tunnel'[c] = "none" /\ relayed' = relayed /\ stream' = stream
    BY <1>2 DEF Ends, Goes
  <2> QED
    BY <2>1 DEF InOrder, NothingIsDropped
<1>3. CASE ReadElsewhere(c)
  BY <1>3 DEF ReadElsewhere, tunnel_vars, InOrder, NothingIsDropped
<1>4. ASSUME NEW s \in Side, PeerGoes(c, s) PROVE InOrder(c, t)'
  <2>1. /\ Unread(c, t)' = Unread(c, t) /\ InBuffer(c, t)' = InBuffer(c, t)
        /\ relayed' = relayed /\ stream' = stream /\ tunnel' = tunnel
    BY <1>4 DEF PeerGoes, Unread, InBuffer
  <2>2. Other(t) \notin gone'[c] => Other(t) \notin gone[c]
    BY <1>4 DEF PeerGoes
  <2> QED
    BY <2>1, <2>2 DEF InOrder, NothingIsDropped
<1> QED
  BY <1>1, <1>2, <1>3, <1>4

(* A step is one of one tunnel, and touches no other. *)
LEMMA OneAtATime ==
  ASSUME TypeOK, Next
  PROVE  \E c \in Conn :
           /\ \/ Opens(c) \/ Relays(c) \/ ReadElsewhere(c)
              \/ \E s \in Side : PeerGoes(c, s)
           /\ \A d \in Conn \ {c} : Undisturbed(d)
<1> USE DEF TypeOK, Side
<1>1. PICK c \in Conn :
        \/ Opens(c) \/ Relays(c) \/ ReadElsewhere(c)
        \/ \E s \in Side : PeerGoes(c, s)
  BY DEF Next
<1> SUFFICES ASSUME NEW d \in Conn, d # c PROVE Undisturbed(d)
  BY <1>1
<1> USE DEF Undisturbed
<1>2. CASE Opens(c)
  BY <1>2 DEF Opens, Goes
<1>3. CASE Select(c)
  BY <1>3 DEF Select, Goes
<1>4. CASE Ends(c)
  <2>1. /\ tunnel' = [tunnel EXCEPT ![c] = "none"]
        /\ replies' = [replies EXCEPT ![c] = <<>>]
    BY <1>4 DEF Ends, Goes
  <2> QED
    BY <1>4, <2>1 DEF Ends
<1>5. ASSUME NEW s \in Side, Receive(c, s) PROVE Undisturbed(d)
  <2>1. /\ incoming'[d] = incoming[d] /\ replies'[d] = replies[d]
        /\ buffer'[d] = buffer[d]
    BY <1>5 DEF Receive
  <2> QED
    BY <1>5, <2>1 DEF Receive, Goes
<1>6. ASSUME NEW s \in Side, SendOn(c, s) PROVE Undisturbed(d)
  BY <1>6 DEF SendOn, Goes
<1>7. CASE ReadElsewhere(c)
  BY <1>7 DEF ReadElsewhere, tunnel_vars
<1>8. ASSUME NEW s \in Side, PeerGoes(c, s) PROVE Undisturbed(d)
  BY <1>8 DEF PeerGoes
<1> QED
  BY <1>1, <1>2, <1>3, <1>4, <1>5, <1>6, <1>7, <1>8 DEF Relays

-----------------------------------------------------------------------------
(* The inductive invariant of the tunnels. *)
TunnelInv == TypeOK /\ RelaysInOrder

LEMMA InitTunnelInv == Init => TunnelInv
<1> SUFFICES ASSUME Init PROVE RelaysInOrder
  BY InitTyped DEF TunnelInv
<1> SUFFICES ASSUME NEW c \in Conn, NEW s \in Side
             PROVE  IsPrefix(relayed[c][s], stream[c][s]) /\ NothingIsDropped(c, s)
  BY DEF RelaysInOrder
<1>1. relayed[c][s] = <<>> /\ stream[c][s] = <<>> /\ tunnel[c] = "none"
  BY DEF Init, NoTunnels
<1>2. <<>> \o <<>> = <<>> /\ IsPrefix(<<>>, <<>> \o <<>>)
  <2>1. <<>> \in Seq(Data)
    BY EmptySeq
  <2> QED
    BY <2>1, ConcatEmptySeq, PrefixOfConcat
<1> QED
  BY <1>1, <1>2 DEF NothingIsDropped

LEMMA TunnelStep ==
  ASSUME TunnelAssumption, TunnelInv, [Next]_vars
  PROVE  TunnelInv'
<1>1. TypeOK' /\ TypeOK
  BY TypeStep DEF TunnelInv
<1>2. CASE UNCHANGED vars
  BY <1>1, <1>2 DEF TunnelInv, RelaysInOrder, NothingIsDropped, InBuffer, Unread,
                    vars, tunnel_vars
<1>3. CASE Next
  <2> SUFFICES ASSUME NEW d \in Conn, NEW t \in Side PROVE InOrder(d, t)'
    BY <1>1 DEF TunnelInv, RelaysInOrder, InOrder
  <2>1. InOrder(d, t)
    BY DEF TunnelInv, RelaysInOrder, InOrder
  <2>2. PICK c \in Conn :
          /\ \/ Opens(c) \/ Relays(c) \/ ReadElsewhere(c)
             \/ \E s \in Side : PeerGoes(c, s)
          /\ \A e \in Conn \ {c} : Undisturbed(e)
    BY <1>1, <1>3, OneAtATime
  <2>3. CASE d # c
    BY <2>1, <2>2, <2>3, UndisturbedInOrder
  <2>4. CASE d = c /\ Opens(c)
    BY <1>1, <2>4, OpensInOrder
  <2>5. ASSUME d = c, NEW s \in Side, Receive(c, s) PROVE InOrder(d, t)'
    BY <1>1, <2>1, <2>5, ReceiveInOrder
  <2>6. ASSUME d = c, NEW s \in Side, SendOn(c, s) PROVE InOrder(d, t)'
    BY <1>1, <2>1, <2>6, SendOnInOrder
  <2>7. ASSUME d = c,
               \/ Select(c) \/ Ends(c) \/ ReadElsewhere(c)
               \/ \E s \in Side : PeerGoes(c, s)
        PROVE  InOrder(d, t)'
    BY <1>1, <2>1, <2>7, RestInOrder
  <2> QED
    BY <2>2, <2>3, <2>4, <2>5, <2>6, <2>7 DEF Relays
<1> QED
  BY <1>2, <1>3

(* TunnelInv holds in every state of the tunnels. *)
THEOREM TunnelIsSound == ASSUME TunnelAssumption PROVE Spec => []TunnelInv
BY InitTunnelInv, TunnelStep, PTL DEF Spec

(* The socket to the origin is open exactly while handle_connect runs, and *)
(* nothing but data of the two sides is ever in the buffer.                *)
THEOREM TunnelStateIsTyped == ASSUME TunnelAssumption PROVE Spec => []TypeOK
<1>1. TunnelInv => TypeOK
  BY DEF TunnelInv
<1> QED
  BY <1>1, TunnelIsSound, PTL

(* What comes out of a tunnel at one end is the beginning of what went in  *)
(* at the other, without a hole while both ends are there, however recv    *)
(* cuts the streams and whichever side select finds readable.              *)
THEOREM TunnelsRelayInOrder == ASSUME TunnelAssumption PROVE Spec => []RelaysInOrder
<1>1. TunnelInv => RelaysInOrder
  BY DEF TunnelInv
<1> QED
  BY <1>1, TunnelIsSound, PTL
=============================================================================
