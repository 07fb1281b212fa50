------------------------- MODULE ProxyServerProofs -------------------------
(***************************************************************************)
(* Proofs about the server's threads, for any number of connections and of *)
(* list nodes.                                                             *)
(***************************************************************************)
EXTENDS ProxyServer, TLAPS

(* Where main is tells which connection it has, whether it holds the lock  *)
(* of the list and who is running.                                         *)
MainInv ==
  /\ main_pc \in {"construct", "listen", "spawn_reaper", "accept"} => conn = NoConn
  /\ main_pc \in {"add_node", "start_thread", "assign"} => conn \in Conn
  /\ main_pc \in {"start_thread", "assign"} => client_threads_lock
  /\ main_pc # "assign" /\ conn # NoConn => thread_pc[conn] = "none"
  /\ main_pc \in {"construct", "listen", "spawn_reaper"}
       => reaper_pc = "none" /\ \A c \in Conn : thread_pc[c] = "none"
  /\ main_pc \in {"~lock", "~join_clients"} => reaper_pc = "exited"

(* The reaper has a node while it works on one, and it goes to join a      *)
(* handle only if there is one.                                            *)
ReaperInv ==
  /\ reaper_pc \in {"joinable", "join", "erase"} <=> reaper_it # NoNode
  /\ reaper_pc = "join" => Joinable(reaper_it)

(* A thread that is not joined has a handle: in the list, or still in      *)
(* main's hands.  main puts it in a node that is there and has none.       *)
HandleInv ==
  /\ \A c \in Conn : thread_pc[c] # "none" =>
       \/ main_pc = "assign" /\ c = conn
       \/ \E n \in DOMAIN client_threads : client_threads[n] = c
  /\ main_pc \in {"start_thread", "assign"} =>
       it[conn] \in DOMAIN client_threads /\ ~Joinable(it[conn])

(* The thread of c, running or about to be, has still to queue its node. *)
Owes(c) ==
  \/ thread_pc[c] \in {"test", "recv", "close", "enqueue"}
  \/ main_pc = "start_thread" /\ c = conn

(* A node is owed by one thread, queued, or in the hands of the reaper,    *)
(* and only one of these.                                                  *)
NodeInv ==
  /\ \A i \in DOMAIN reaper_q :
       reaper_q[i] \in DOMAIN client_threads /\ reaper_q[i] # reaper_it
  /\ \A i, j \in DOMAIN reaper_q : reaper_q[i] = reaper_q[j] => i = j
  /\ reaper_it # NoNode => reaper_it \in DOMAIN client_threads
  /\ \A c \in Conn : Owes(c) =>
       /\ it[c] \in DOMAIN client_threads /\ it[c] # reaper_it
       /\ \A i \in DOMAIN reaper_q : it[c] # reaper_q[i]
       /\ \A d \in Conn : Owes(d) /\ it[c] = it[d] => c = d

ServerInv ==
  /\ TypeOK /\ MainInv /\ ReaperInv /\ HandleInv /\ NodeInv
  /\ SocketOwnership /\ NoThreadOutlivesServer

LEMMA ServerInvInit == Init => ServerInv
<1> SUFFICES ASSUME Init PROVE ServerInv
  OBVIOUS
<1> USE ServerAssumption DEF Init, ServerAssumption
<1>1. TypeOK
  <2>1. DOMAIN client_threads = {}
    OBVIOUS
  <2>2. client_threads \in [DOMAIN client_threads -> Conn \cup {NoConn}]
    OBVIOUS
  <2>3. it \in [Conn -> Node \cup {NoNode}] /\ thread_pc \in [Conn -> ThreadPc]
    BY DEF ThreadPc
  <2>4. main_pc \in MainPc /\ reaper_pc \in ReaperPc
    BY DEF MainPc, ReaperPc
  <2>5. reaper_q \in Seq(Node)
    OBVIOUS
  <2>6. open_sockets \subseteq Conn /\ terminated \in {"no", "join", "erase"}
    OBVIOUS
  <2>7. conn \in Conn \cup {NoConn} /\ reaper_it \in Node \cup {NoNode}
    OBVIOUS
  <2> QED
    BY <2>1, <2>2, <2>3, <2>4, <2>5, <2>6, <2>7, Zenon DEF TypeOK
<1>2. MainInv /\ ReaperInv /\ HandleInv
  BY DEF MainInv, ReaperInv, HandleInv
<1>3. NodeInv
  BY DEF NodeInv, Owes
<1>4. SocketOwnership /\ NoThreadOutlivesServer
  BY DEF Serves, SettingUp, SocketOwnership, NoThreadOutlivesServer
<1> QED
  BY <1>1, <1>2, <1>3, <1>4 DEF ServerInv

(* The iterator main puts in a thread's hands is of a new node, so nobody  *)
(* else has it.  The handle it assigns later finds that node still there   *)
(* and empty: the reaper may have taken the iterator by then, but it has   *)
(* no handle to join and waits to erase for the lock main holds.  At the   *)
(* end no handle is joinable, so no thread is left.                        *)
LEMMA MainStep ==
  ASSUME ServerInv, Main \/ \E c \in Conn : Accept(c)
  PROVE  ServerInv'
<1> USE ServerAssumption
    DEF ServerInv, TypeOK, MainPc, ReaperPc, ThreadPc, MainInv, ReaperInv, HandleInv,
        NodeInv, Joinable, Owes, Serves, SettingUp, SetupFailed, SocketOwnership,
        NoThreadOutlivesServer, ServerAssumption, main_vars, reaper_vars,
        list_vars, queue_vars, client_vars, MainGoes
<1>1. CASE Construct
  BY <1>1 DEF Construct
<1>2. CASE Listen
  BY <1>2 DEF Listen
<1>3. CASE SpawnReaper
  BY <1>3 DEF SpawnReaper
<1>4. ASSUME NEW c \in Conn, Accept(c) PROVE ServerInv'
  BY <1>4 DEF Accept
<1>5. ASSUME NEW n \in Node, AddNode(n) PROVE ServerInv'
  <2>1. TypeOK'
    BY <1>5 DEF AddNode, WithNode
  <2>2. MainInv'
    BY <1>5 DEF AddNode, WithNode
  <2>3. ReaperInv'
    BY <1>5 DEF AddNode, WithNode
  <2>4. HandleInv'
    BY <1>5 DEF AddNode, WithNode
  <2>5. NodeInv'
    BY <1>5 DEF AddNode, WithNode
  <2>6. SocketOwnership'
    BY <1>5 DEF AddNode, WithNode
  <2>7. NoThreadOutlivesServer'
    BY <1>5 DEF AddNode, WithNode
  <2> QED
    BY <2>1, <2>2, <2>3, <2>4, <2>5, <2>6, <2>7
<1>6. CASE StartThread
  <2>1. TypeOK'
    <3>1. conn \in Conn
      BY <1>6 DEF StartThread
    <3>2. CASE thread_pc' = [thread_pc EXCEPT ![conn] = "test"]
      BY <1>6, <3>1, <3>2 DEF StartThread
    <3>3. CASE UNCHANGED thread_pc
      BY <1>6, <3>3 DEF StartThread
    <3> QED
      BY <1>6, <3>2, <3>3 DEF StartThread
  <2>2. MainInv'
    BY <1>6 DEF StartThread
  <2>3. ReaperInv'
    BY <1>6 DEF StartThread
  <2>4. HandleInv'
    BY <1>6 DEF StartThread
  <2>5. NodeInv'
    BY <1>6 DEF StartThread
  <2>6. SocketOwnership'
    <3>1. conn \in Conn /\ thread_pc[conn] = "none"
      BY <1>6 DEF StartThread
    <3>2. CASE main_pc' = "assign" /\ thread_pc' = [thread_pc EXCEPT ![conn] = "test"]
      <4> SUFFICES ASSUME NEW c \in Conn
                   PROVE  /\ Serves(c)' \/ SettingUp(c)' => c \in open_sockets'
                          /\ c \in open_sockets' =>
                               Serves(c)' \/ SettingUp(c)' \/ SetupFailed(c)'
        BY Zenon DEF SocketOwnership
      <4>1. CASE c = conn
        BY <1>6, <3>1, <3>2, <4>1 DEF StartThread
      <4>2. CASE c # conn
        BY <1>6, <3>1, <3>2, <4>2 DEF StartThread
      <4> QED
        BY <4>1, <4>2
    <3>3. CASE main_pc' = "~close" /\ UNCHANGED thread_pc
      BY <1>6, <3>1, <3>3 DEF StartThread
    <3> QED
      BY <1>6, <3>2, <3>3 DEF StartThread
  <2>7. NoThreadOutlivesServer'
    BY <1>6 DEF StartThread
  <2> QED
    BY <2>1, <2>2, <2>3, <2>4, <2>5, <2>6, <2>7
<1>7. CASE AssignHandle
  <2>1. TypeOK'
    BY <1>7 DEF AssignHandle
  <2>2. MainInv'
    BY <1>7 DEF AssignHandle
  <2>3. ReaperInv'
    BY <1>7 DEF AssignHandle
  <2>4. HandleInv'
    BY <1>7 DEF AssignHandle
  <2>5. NodeInv'
    BY <1>7 DEF AssignHandle
  <2>6. SocketOwnership'
    BY <1>7 DEF AssignHandle
  <2>7. NoThreadOutlivesServer'
    BY <1>7 DEF AssignHandle
  <2> QED
    BY <2>1, <2>2, <2>3, <2>4, <2>5, <2>6, <2>7
<1>8. CASE CloseListener
  BY <1>8 DEF CloseListener
<1>9. CASE SetStopFlag
  BY <1>9 DEF SetStopFlag
<1>10. CASE NotifyReaper
  BY <1>10 DEF NotifyReaper, NotifyOne
<1>11. CASE JoinReaper
  BY <1>11 DEF JoinReaper
<1>12. CASE LockList
  BY <1>12 DEF LockList
<1>13. ASSUME NEW n \in Node, JoinClient(n) PROVE ServerInv'
  BY <1>13 DEF JoinClient
<1>14. CASE Destroy
  <2>1. TypeOK'
    BY <1>14 DEF Destroy
  <2>2. MainInv'
    BY <1>14 DEF Destroy
  <2>3. ReaperInv'
    BY <1>14 DEF Destroy
  <2>4. HandleInv'
    BY <1>14 DEF Destroy
  <2>5. NodeInv'
    BY <1>14 DEF Destroy
  <2>6. SocketOwnership'
    BY <1>14 DEF Destroy
  <2>7. NoThreadOutlivesServer'
    BY <1>14 DEF Destroy
  <2> QED
    BY <2>1, <2>2, <2>3, <2>4, <2>5, <2>6, <2>7
<1> QED
  BY <1>1, <1>2, <1>3, <1>4, <1>5, <1>6, <1>7, <1>8, <1>9, <1>10, <1>11, <1>12, <1>13, <1>14 DEF Main

(* The node that is erased is in nobody else's hands.  The handle that is  *)
(* joined is that of the thread that ends, in whatever node.               *)
LEMMA ReaperStep ==
  ASSUME ServerInv, Reaper \/ SpuriousWakeup
  PROVE  ServerInv'
<1> USE ServerAssumption
    DEF ServerInv, TypeOK, MainPc, ReaperPc, ThreadPc, MainInv, ReaperInv, HandleInv,
        NodeInv, Joinable, Owes, Serves, SettingUp, SetupFailed, SocketOwnership,
        NoThreadOutlivesServer, ServerAssumption, main_vars, reaper_vars,
        list_vars, queue_vars, client_vars, ReaperGoes
<1>1. CASE TestStopFlag
  BY <1>1 DEF TestStopFlag
<1>2. CASE LockQueue
  BY <1>2 DEF LockQueue
<1>3. CASE CheckPredicate
  BY <1>3 DEF CheckPredicate
<1>4. CASE Block
  <2>1. TypeOK'
    BY <1>4 DEF Block
  <2>2. MainInv'
    BY <1>4 DEF Block
  <2>3. ReaperInv'
    BY <1>4 DEF Block
  <2>4. HandleInv'
    BY <1>4 DEF Block
  <2>5. NodeInv'
    BY <1>4 DEF Block
  <2>6. SocketOwnership'
    BY <1>4 DEF Block
  <2>7. NoThreadOutlivesServer'
    BY <1>4 DEF Block
  <2> QED
    BY <2>1, <2>2, <2>3, <2>4, <2>5, <2>6, <2>7
<1>5. CASE TakeFront
  BY <1>5 DEF TakeFront
<1>6. CASE UnlockQueue
  <2>1. TypeOK'
    BY <1>6 DEF UnlockQueue
  <2>2. MainInv'
    BY <1>6 DEF UnlockQueue
  <2>3. ReaperInv'
    BY <1>6 DEF UnlockQueue
  <2>4. HandleInv'
    BY <1>6 DEF UnlockQueue
  <2>5. NodeInv'
    BY <1>6 DEF UnlockQueue
  <2>6. SocketOwnership'
    BY <1>6 DEF UnlockQueue
  <2>7. NoThreadOutlivesServer'
    BY <1>6 DEF UnlockQueue
  <2> QED
    BY <2>1, <2>2, <2>3, <2>4, <2>5, <2>6, <2>7
<1>7. CASE TestJoinable
  BY <1>7 DEF TestJoinable
<1>8. CASE Join
  BY <1>8 DEF Join
<1>9. CASE Erase
  BY <1>9 DEF Erase
<1>10. CASE SpuriousWakeup
  BY <1>10 DEF SpuriousWakeup
<1> QED
  BY <1>1, <1>2, <1>3, <1>4, <1>5, <1>6, <1>7, <1>8, <1>9, <1>10 DEF Reaper

(* A thread hands its node over exactly once, and closes the socket that   *)
(* only it serves.                                                         *)
LEMMA ClientStep ==
  ASSUME ServerInv, \E c \in Conn : Client(c) \/ PeerSends(c)
  PROVE  ServerInv'
<1> USE ServerAssumption
    DEF ServerInv, TypeOK, MainPc, ReaperPc, ThreadPc, MainInv, ReaperInv, HandleInv,
        NodeInv, Joinable, Owes, Serves, SettingUp, SetupFailed, SocketOwnership,
        NoThreadOutlivesServer, ServerAssumption, main_vars, reaper_vars,
        list_vars, queue_vars, client_vars, ThreadGoes
<1>1. ASSUME NEW c \in Conn, Test(c) PROVE ServerInv'
  BY <1>1 DEF Test
<1>2. ASSUME NEW c \in Conn, PeerSends(c) PROVE ServerInv'
  <2>1. TypeOK'
    BY <1>2 DEF PeerSends
  <2>2. MainInv'
    BY <1>2 DEF PeerSends
  <2>3. ReaperInv'
    BY <1>2 DEF PeerSends
  <2>4. HandleInv'
    BY <1>2 DEF PeerSends
  <2>5. NodeInv'
    BY <1>2 DEF PeerSends
  <2>6. SocketOwnership'
    BY <1>2 DEF PeerSends
  <2>7. NoThreadOutlivesServer'
    BY <1>2 DEF PeerSends
  <2> QED
    BY <2>1, <2>2, <2>3, <2>4, <2>5, <2>6, <2>7
<1>3. ASSUME NEW c \in Conn, CloseSocket(c) PROVE ServerInv'
  BY <1>3 DEF CloseSocket
<1>4. ASSUME NEW c \in Conn, Enqueue(c) PROVE ServerInv'
  BY <1>4 DEF Enqueue, NotifyOne
<1>5. ASSUME NEW c \in Conn, Return(c) PROVE ServerInv'
  BY <1>5 DEF Return
<1> QED
  BY <1>1, <1>2, <1>3, <1>4, <1>5 DEF Client

(* The life of a list node, whatever the order of main, the reaper and the *)
(* client threads.                                                         *)
THEOREM ServerIsSound == Spec => []ServerInv
<1>1. ServerInv /\ [Next]_vars => ServerInv'
  <2> SUFFICES ASSUME ServerInv, [Next]_vars PROVE ServerInv'
    OBVIOUS
  <2>1. CASE Finished \/ UNCHANGED vars
    BY <2>1
    DEF Finished, vars, ServerInv, TypeOK, MainInv, ReaperInv, HandleInv, NodeInv, Owes,
        Joinable, Serves, SettingUp, SetupFailed, SocketOwnership,
        NoThreadOutlivesServer
  <2> QED
    BY <2>1, MainStep, ReaperStep, ClientStep DEF Next, Environment
<1> QED
  BY <1>1, ServerInvInit, PTL DEF Spec

(* The places of the threads, the list, the queue and the handles have     *)
(* their types.                                                            *)
THEOREM ServerStateIsTyped == Spec => []TypeOK
<1>1. ServerInv => TypeOK
  BY DEF ServerInv
<1> QED
  BY <1>1, ServerIsSound, PTL

(* The reaper never touches a node that is gone and erases none twice.     *)
THEOREM ReaperUsesLiveNodes == Spec => []NoStaleIterator
<1>1. ServerInv => NoStaleIterator
  <2> SUFFICES ASSUME ServerInv PROVE NoStaleIterator
    OBVIOUS
  <2> USE DEF ServerInv, TypeOK, NodeInv
  <2> DEFINE queued == reaper_q \o IF reaper_it = NoNode THEN <<>> ELSE <<reaper_it>>
  <2>1. CASE reaper_it = NoNode
    <3>1. queued = reaper_q
      BY <2>1
    <3> QED
      BY <3>1 DEF NoStaleIterator, ToSet, IsInjective
  <2>2. CASE reaper_it # NoNode
    <3>1. queued = Append(reaper_q, reaper_it)
      BY <2>2
    <3> QED
      BY <2>2, <3>1 DEF NoStaleIterator, ToSet, IsInjective
  <2> QED
    BY <2>1, <2>2
<1> QED
  BY <1>1, ServerIsSound, PTL

(* A socket is served while it is open and only then: an open one is       *)
(* served by the thread that will close it, or start() is about to start   *)
(* that thread, unless starting it failed.                                 *)
THEOREM SocketsHaveOneOwner == Spec => []SocketOwnership
<1>1. ServerInv => SocketOwnership
  BY DEF ServerInv
<1> QED
  BY <1>1, ServerIsSound, PTL

(* When the server is destroyed every thread that used it has been joined. *)
THEOREM ServerOutlivesItsThreads == Spec => []NoThreadOutlivesServer
<1>1. ServerInv => NoThreadOutlivesServer
  BY DEF ServerInv
<1> QED
  BY <1>1, ServerIsSound, PTL

=============================================================================
