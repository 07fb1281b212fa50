---------------------------- MODULE ProxyServer ----------------------------
(***************************************************************************)
(* The life of the server's threads (ProxyServer.h/.cpp, proxy.cpp): main  *)
(* accepts connections and starts one thread for each, every client thread *)
(* queues its own list node when it is done, a reaper thread joins and     *)
(* erases the queued ones, and the destructor stops and joins them all.    *)
(*                                                                         *)
(* What a client thread does for its peer is one of two outcomes here, go  *)
(* on or close (handle_client_requests is ClientHandler.tla).  A           *)
(* connection names its socket and, once it has one, its thread; it can be *)
(* accepted anew when both are gone.  A list node's address can be used    *)
(* again once the node is erased.  A critical section no other thread can  *)
(* see into is one action; client_threads_lock and reaper_q_lock are       *)
(* variables because their holders block, or are read past, while they     *)
(* hold them.                                                              *)
(***************************************************************************)
EXTENDS SequencesExt

CONSTANTS Conn, Node, NoConn, NoNode

ASSUME ServerAssumption == NoConn \notin Conn /\ NoNode \notin Node

VARIABLES
  main_pc,              \* where main is; "~..." names steps of ~ProxyServer
  conn,                 \* the connection start() is setting up a thread for
  client_threads,       \* the list: node -> the thread its handle refers to
  client_threads_lock,  \* TRUE while main holds it
  stop_flag,
  reaper_q,             \* list nodes of finished threads
  reaper_q_lock,        \* TRUE while the reaper holds it
  reaper_pc,
  reaper_it,            \* the node the reaper is working on
  thread_pc,            \* where each client thread is
  it,                   \* the node each client thread will queue
  open_sockets,         \* the connections whose socket is not closed
  terminated            \* "no", or the join or the erase that called
                        \* std::terminate

main_vars == <<main_pc, conn>>
reaper_vars == <<reaper_pc, reaper_it>>
list_vars == <<client_threads, client_threads_lock>>
queue_vars == <<reaper_q, reaper_q_lock>>
client_vars == <<thread_pc, it>>
vars == <<main_pc, conn, client_threads, client_threads_lock, stop_flag,
          reaper_q, reaper_q_lock, reaper_pc, reaper_it, thread_pc, it,
          open_sockets, terminated>>

MainPc == {"construct", "listen", "spawn_reaper", "accept", "add_node",
           "start_thread", "assign", "~close", "~stop", "~notify",
           "~join_reaper", "~lock", "~join_clients", "exited"}

ReaperPc == {"none", "test", "lock", "check", "block", "waiting", "drain",
             "joinable", "join", "erase", "exited"}

ThreadPc == {"none", "test", "recv", "close", "enqueue", "return", "exited"}

Running == terminated = "no"

Joinable(n) == client_threads[n] # NoConn

-----------------------------------------------------------------------------
Init ==
  /\ main_pc = "construct"
  /\ conn = NoConn
  /\ client_threads = [n \in {} |-> NoConn]
  /\ client_threads_lock = FALSE
  /\ stop_flag = FALSE
  /\ reaper_q = <<>>
  /\ reaper_q_lock = FALSE
  /\ reaper_pc = "none"
  /\ reaper_it = NoNode
  /\ thread_pc = [c \in Conn |-> "none"]
  /\ it = [c \in Conn |-> NoNode]
  /\ open_sockets = {}
  /\ terminated = "no"

-----------------------------------------------------------------------------
(* Main: the constructor and start(). *)

MainGoes(from, to) ==
  /\ Running
  /\ main_pc = from
  /\ main_pc' = to

(* A constructor that fails has no destructor run. *)
Construct ==
  /\ MainGoes("construct", "listen") \/ MainGoes("construct", "exited")
  /\ UNCHANGED <<conn, list_vars, stop_flag, queue_vars, reaper_vars,
                 client_vars, open_sockets, terminated>>

(* An exception leaves start(); main's handler runs after ~ProxyServer.    *)
Listen ==
  /\ MainGoes("listen", "spawn_reaper") \/ MainGoes("listen", "~close")
  /\ UNCHANGED <<conn, list_vars, stop_flag, queue_vars, reaper_vars,
                 client_vars, open_sockets, terminated>>

SpawnReaper ==
  /\ \/ /\ MainGoes("spawn_reaper", "accept")
        /\ reaper_pc' = "test"
     \/ /\ MainGoes("spawn_reaper", "~close")
        /\ UNCHANGED reaper_pc
  /\ UNCHANGED <<conn, list_vars, stop_flag, queue_vars, reaper_it,
                 client_vars, open_sockets, terminated>>

Accept(c) ==
  /\ MainGoes("accept", "add_node")
  /\ thread_pc[c] = "none" /\ c \notin open_sockets
  /\ conn' = c
  /\ open_sockets' = open_sockets \cup {c}
  /\ UNCHANGED <<list_vars, stop_flag, queue_vars, reaper_vars, client_vars,
                 terminated>>

(* emplace_back of a default-constructed handle. *)
WithNode(n) ==
  [m \in DOMAIN client_threads \cup {n} |->
     IF m = n THEN NoConn ELSE client_threads[m]]

(* Seeded fault: the iterator is taken before the node is appended, as in  *)
(* the call the source keeps commented out.                                *)
AddNodeTooLate(n) ==
  /\ MainGoes("add_node", "start_thread")
  /\ ~client_threads_lock
  /\ client_threads_lock' = TRUE
  /\ n \notin DOMAIN client_threads
  /\ client_threads' = WithNode(n)
  /\ it' = [it EXCEPT ![conn] = IF DOMAIN client_threads = {} THEN NoNode
                                ELSE CHOOSE m \in DOMAIN client_threads : TRUE]
  /\ UNCHANGED <<conn, stop_flag, queue_vars, reaper_vars, thread_pc,
                 open_sockets, terminated>>

(* Takes client_threads_lock and appends a default-constructed handle. *)
AddNode(n) ==
  /\ MainGoes("add_node", "start_thread")
  /\ ~client_threads_lock
  /\ client_threads_lock' = TRUE
  /\ n \notin DOMAIN client_threads
  /\ client_threads' = WithNode(n)
  /\ it' = [it EXCEPT ![conn] = n]
  /\ UNCHANGED <<conn, stop_flag, queue_vars, reaper_vars, thread_pc,
                 open_sockets, terminated>>

(* The std::thread constructor: the new thread runs from here on, with its *)
(* handle still a temporary of main's.  When the constructor throws, the   *)
(* lock guard is unwound; the socket has no owner.                         *)
StartThread ==
  /\ \/ /\ MainGoes("start_thread", "assign")
        /\ thread_pc' = [thread_pc EXCEPT ![conn] = "test"]
        /\ UNCHANGED client_threads_lock
     \/ /\ MainGoes("start_thread", "~close")
        /\ client_threads_lock' = FALSE
        /\ UNCHANGED thread_pc
  /\ UNCHANGED <<conn, client_threads, stop_flag, queue_vars, reaper_vars, it,
                 open_sockets, terminated>>

(* Move-assigns the handle into the node and releases the lock. *)
AssignHandle ==
  /\ MainGoes("assign", "accept")
  /\ client_threads' = [client_threads EXCEPT ![it[conn]] = conn]
  /\ client_threads_lock' = FALSE
  /\ conn' = NoConn
  /\ UNCHANGED <<stop_flag, queue_vars, reaper_vars, client_vars,
                 open_sockets, terminated>>

-----------------------------------------------------------------------------
(* ~ProxyServer *)

CloseListener ==
  /\ MainGoes("~close", "~stop")
  /\ UNCHANGED <<conn, list_vars, stop_flag, queue_vars, reaper_vars,
                 client_vars, open_sockets, terminated>>

SetStopFlag ==
  /\ MainGoes("~stop", "~notify")
  /\ stop_flag' = TRUE
  /\ UNCHANGED <<conn, list_vars, queue_vars, reaper_vars, client_vars,
                 open_sockets, terminated>>

(* reaper_q_cv.notify_one(): only the reaper ever waits.  A woken thread   *)
(* has to get the lock back.                                               *)
NotifyOne == reaper_pc' = IF reaper_pc = "waiting" THEN "lock" ELSE reaper_pc

(* Seeded fault: notify_one without reaper_q_lock. *)
NotifyReaperUnlocked ==
  /\ MainGoes("~notify", "~join_reaper")
  /\ NotifyOne
  /\ UNCHANGED <<conn, list_vars, stop_flag, queue_vars, reaper_it,
                 client_vars, open_sockets, terminated>>

NotifyReaper ==
  /\ MainGoes("~notify", "~join_reaper")
  /\ ~reaper_q_lock
  /\ NotifyOne
  /\ UNCHANGED <<conn, list_vars, stop_flag, queue_vars, reaper_it,
                 client_vars, open_sockets, terminated>>

(* join() on a thread that was never started throws, in a destructor. *)
JoinReaper ==
  /\ \/ /\ reaper_pc = "exited"
        /\ MainGoes("~join_reaper", "~lock")
        /\ UNCHANGED terminated
     \/ /\ reaper_pc = "none"
        /\ MainGoes("~join_reaper", "~join_reaper")
        /\ terminated' = "join"
  /\ UNCHANGED <<conn, list_vars, stop_flag, queue_vars, reaper_vars,
                 client_vars, open_sockets>>

LockList ==
  /\ MainGoes("~lock", "~join_clients")
  /\ ~client_threads_lock
  /\ client_threads_lock' = TRUE
  /\ UNCHANGED <<conn, client_threads, stop_flag, queue_vars, reaper_vars,
                 client_vars, open_sockets, terminated>>

(* The handles are joined in list order; as nobody else is left to look at *)
(* the list, any order is as good.                                         *)
JoinClient(n) ==
  /\ MainGoes("~join_clients", "~join_clients")
  /\ n \in DOMAIN client_threads
  /\ Joinable(n)
  /\ thread_pc[client_threads[n]] = "exited"
  /\ thread_pc' = [thread_pc EXCEPT ![client_threads[n]] = "none"]
  /\ client_threads' = [client_threads EXCEPT ![n] = NoConn]
  /\ UNCHANGED <<conn, client_threads_lock, stop_flag, queue_vars,
                 reaper_vars, it, open_sockets, terminated>>

(* Seeded fault: the last handle is left to the list's destructor, as if   *)
(* it had been detached.                                                   *)
DestroyEarly ==
  /\ MainGoes("~join_clients", "exited")
  /\ \A m, n \in DOMAIN client_threads : Joinable(m) /\ Joinable(n) => m = n
  /\ client_threads_lock' = FALSE
  /\ UNCHANGED <<conn, client_threads, stop_flag, queue_vars, reaper_vars,
                 client_vars, open_sockets, terminated>>

(* The end of the destructor and of the members' lives. *)
Destroy ==
  /\ MainGoes("~join_clients", "exited")
  /\ \A n \in DOMAIN client_threads : ~Joinable(n)
  /\ client_threads_lock' = FALSE
  /\ UNCHANGED <<conn, client_threads, stop_flag, queue_vars, reaper_vars,
                 client_vars, open_sockets, terminated>>

-----------------------------------------------------------------------------
(* The reaper: cleanup_threads *)

ReaperGoes(from, to) ==
  /\ Running
  /\ reaper_pc = from
  /\ reaper_pc' = to

TestStopFlag ==
  /\ ReaperGoes("test", IF stop_flag THEN "exited" ELSE "lock")
  /\ UNCHANGED <<main_vars, list_vars, stop_flag, queue_vars, reaper_it,
                 client_vars, open_sockets, terminated>>

LockQueue ==
  /\ ReaperGoes("lock", "check")
  /\ ~reaper_q_lock
  /\ reaper_q_lock' = TRUE
  /\ UNCHANGED <<main_vars, list_vars, stop_flag, reaper_q, reaper_it,
                 client_vars, open_sockets, terminated>>

(* The predicate of the wait. *)
CheckPredicate ==
  /\ ReaperGoes("check", IF reaper_q # <<>> \/ stop_flag THEN "drain" ELSE "block")
  /\ UNCHANGED <<main_vars, list_vars, stop_flag, queue_vars, reaper_it,
                 client_vars, open_sockets, terminated>>

(* Releases the lock and starts to wait, in one step. *)
Block ==
  /\ ReaperGoes("block", "waiting")
  /\ reaper_q_lock' = FALSE
  /\ UNCHANGED <<main_vars, list_vars, stop_flag, reaper_q, reaper_it,
                 client_vars, open_sockets, terminated>>

SpuriousWakeup ==
  /\ ReaperGoes("waiting", "lock")
  /\ UNCHANGED <<main_vars, list_vars, stop_flag, queue_vars, reaper_it,
                 client_vars, open_sockets, terminated>>

(* Seeded fault: front() without pop(). *)
TakeFrontKept ==
  /\ ReaperGoes("drain", "joinable")
  /\ reaper_q # <<>>
  /\ reaper_it' = Head(reaper_q)
  /\ UNCHANGED <<main_vars, list_vars, stop_flag, queue_vars,
                 client_vars, open_sockets, terminated>>

TakeFront ==
  /\ ReaperGoes("drain", "joinable")
  /\ reaper_q # <<>>
  /\ reaper_it' = Head(reaper_q)
  /\ reaper_q' = Tail(reaper_q)
  /\ UNCHANGED <<main_vars, list_vars, stop_flag, reaper_q_lock,
                 client_vars, open_sockets, terminated>>

UnlockQueue ==
  /\ ReaperGoes("drain", "test")
  /\ reaper_q = <<>>
  /\ reaper_q_lock' = FALSE
  /\ UNCHANGED <<main_vars, list_vars, stop_flag, reaper_q, reaper_it,
                 client_vars, open_sockets, terminated>>

(* Reads the handle without client_threads_lock: main may not have         *)
(* assigned it yet, so both what it was and what it becomes can be read.   *)
TestJoinable ==
  /\ ReaperGoes("joinable", IF Joinable(reaper_it) THEN "join" ELSE "erase")
  /\ UNCHANGED <<main_vars, list_vars, stop_flag, queue_vars, reaper_it,
                 client_vars, open_sockets, terminated>>

Join ==
  /\ ReaperGoes("join", "erase")
  /\ thread_pc[client_threads[reaper_it]] = "exited"
  /\ thread_pc' = [thread_pc EXCEPT ![client_threads[reaper_it]] = "none"]
  /\ client_threads' = [client_threads EXCEPT ![reaper_it] = NoConn]
  /\ UNCHANGED <<main_vars, client_threads_lock, stop_flag, queue_vars,
                 reaper_it, it, open_sockets, terminated>>

(* Destroying a handle that is joinable calls std::terminate. *)
Erase ==
  /\ reaper_pc = "erase"
  /\ ~client_threads_lock
  /\ \/ /\ ~Joinable(reaper_it)
        /\ ReaperGoes("erase", "drain")
        /\ client_threads' = [n \in DOMAIN client_threads \ {reaper_it} |->
                                client_threads[n]]
        /\ reaper_it' = NoNode
        /\ UNCHANGED terminated
     \/ /\ Joinable(reaper_it)
        /\ ReaperGoes("erase", "erase")
        /\ terminated' = "erase"
        /\ UNCHANGED <<client_threads, reaper_it>>
  /\ UNCHANGED <<main_vars, client_threads_lock, stop_flag, queue_vars,
                 client_vars, open_sockets>>

-----------------------------------------------------------------------------
(* A client thread: handle_client *)

ThreadGoes(c, from, to) ==
  /\ Running
  /\ thread_pc[c] = from
  /\ thread_pc' = [thread_pc EXCEPT ![c] = to]

(* Seeded fault: only a forced close ends the loop. *)
TestForcedCloseOnly(c) ==
  /\ ThreadGoes(c, "test", "recv")
  /\ UNCHANGED <<main_vars, list_vars, stop_flag, queue_vars, reaper_vars,
                 it, open_sockets, terminated>>

(* The loop test of handle_client_requests. *)
Test(c) ==
  /\ ThreadGoes(c, "test", IF stop_flag THEN "close" ELSE "recv")
  /\ UNCHANGED <<main_vars, list_vars, stop_flag, queue_vars, reaper_vars,
                 it, open_sockets, terminated>>

(* recv returns: there are bytes to work on, which may end in a forced     *)
(* close, or the peer has closed.                                          *)
PeerSends(c) ==
  /\ ThreadGoes(c, "recv", "test") \/ ThreadGoes(c, "recv", "close")
  /\ UNCHANGED <<main_vars, list_vars, stop_flag, queue_vars, reaper_vars,
                 it, open_sockets, terminated>>

(* Seeded fault: the socket is never closed. *)
KeepSocket(c) ==
  /\ ThreadGoes(c, "close", "enqueue")
  /\ UNCHANGED <<main_vars, list_vars, stop_flag, queue_vars, reaper_vars,
                 it, open_sockets, terminated>>

CloseSocket(c) ==
  /\ ThreadGoes(c, "close", "enqueue")
  /\ open_sockets' = open_sockets \ {c}
  /\ UNCHANGED <<main_vars, list_vars, stop_flag, queue_vars, reaper_vars,
                 it, terminated>>

(* Seeded fault: no notify_one. *)
EnqueueSilently(c) ==
  /\ ThreadGoes(c, "enqueue", "return")
  /\ ~reaper_q_lock
  /\ reaper_q' = Append(reaper_q, it[c])
  /\ UNCHANGED <<main_vars, list_vars, stop_flag, reaper_q_lock, reaper_vars,
                 it, open_sockets, terminated>>

(* The push and the notification, under reaper_q_lock. *)
Enqueue(c) ==
  /\ ThreadGoes(c, "enqueue", "return")
  /\ ~reaper_q_lock
  /\ reaper_q' = Append(reaper_q, it[c])
  /\ NotifyOne
  /\ UNCHANGED <<main_vars, list_vars, stop_flag, reaper_q_lock, reaper_it,
                 it, open_sockets, terminated>>

Return(c) ==
  /\ ThreadGoes(c, "return", "exited")
  /\ UNCHANGED <<main_vars, list_vars, stop_flag, queue_vars, reaper_vars,
                 it, open_sockets, terminated>>

-----------------------------------------------------------------------------
Main ==
  \/ Construct \/ Listen \/ SpawnReaper
  \/ \E n \in Node : AddNode(n)
  \/ StartThread \/ AssignHandle
  \/ CloseListener \/ SetStopFlag \/ NotifyReaper \/ JoinReaper \/ LockList
  \/ \E n \in Node : JoinClient(n)
  \/ Destroy

Reaper ==
  \/ TestStopFlag \/ LockQueue \/ CheckPredicate \/ Block \/ TakeFront
  \/ UnlockQueue \/ TestJoinable \/ Join \/ Erase

Client(c) == Test(c) \/ CloseSocket(c) \/ Enqueue(c) \/ Return(c)

(* The steps the outside decides. *)
Environment ==
  \/ \E c \in Conn : Accept(c) \/ PeerSends(c)
  \/ SpuriousWakeup

(* The process is over. *)
Over == terminated # "no" \/ main_pc = "exited"

Finished == Over /\ UNCHANGED vars

Next ==
  \/ Main
  \/ Reaper
  \/ \E c \in Conn : Client(c)
  \/ Environment
  \/ Finished

Spec == Init /\ [][Next]_vars

(* Every thread that can run does, and a thread that waits for a mutex     *)
(* that is released again and again gets it in the end.  Nothing is        *)
(* assumed of the peers nor of spurious wakeups.                           *)
Fairness ==
  /\ WF_vars(Main) /\ SF_vars(\E n \in Node : AddNode(n)) /\ SF_vars(NotifyReaper)
  /\ WF_vars(Reaper) /\ SF_vars(LockQueue) /\ SF_vars(Erase)
  /\ \A c \in Conn : WF_vars(Client(c)) /\ SF_vars(Enqueue(c))

FairSpec == Spec /\ Fairness

-----------------------------------------------------------------------------
TypeOK ==
  /\ main_pc \in MainPc
  /\ conn \in Conn \cup {NoConn}
  /\ DOMAIN client_threads \subseteq Node
  /\ client_threads \in [DOMAIN client_threads -> Conn \cup {NoConn}]
  /\ client_threads_lock \in BOOLEAN
  /\ stop_flag \in BOOLEAN
  /\ reaper_q \in Seq(Node)
  /\ reaper_q_lock \in BOOLEAN
  /\ reaper_pc \in ReaperPc
  /\ reaper_it \in Node \cup {NoNode}
  /\ thread_pc \in [Conn -> ThreadPc]
  /\ it \in [Conn -> Node \cup {NoNode}]
  /\ open_sockets \subseteq Conn
  /\ terminated \in {"no", "join", "erase"}

(* Every iterator that waits in reaper_q, and the one the reaper works on, *)
(* refers to a node that is still in client_threads, and no two are the    *)
(* same: the reaper never dereferences or erases a node that is gone, nor  *)
(* one twice.                                                              *)
NoStaleIterator ==
  LET queued == reaper_q \o IF reaper_it = NoNode THEN <<>> ELSE <<reaper_it>>
  IN  /\ ToSet(queued) \subseteq DOMAIN client_threads
      /\ IsInjective(queued)

(* The socket's thread uses it, or will close it next. *)
Serves(c) == thread_pc[c] \in {"test", "recv", "close"}

(* start() has the socket and has not started the thread yet. *)
SettingUp(c) == c = conn /\ main_pc \in {"add_node", "start_thread"}

(* start() has ended by an exception while it set up the thread of c. *)
SetupFailed(c) == c = conn /\ ~SettingUp(c) /\ main_pc # "assign"

(* A socket is served only while it is open, and a socket that is open is  *)
(* served by its thread, which will close it, or start() is about to give  *)
(* it one: no descriptor is used after its close and none is left behind   *)
(* by a connection that got its thread.  What becomes of the socket when   *)
(* there is no thread for it is left to AllSocketsAreClosed.               *)
SocketOwnership ==
  \A c \in Conn :
    /\ Serves(c) \/ SettingUp(c) => c \in open_sockets
    /\ c \in open_sockets => Serves(c) \/ SettingUp(c) \/ SetupFailed(c)

(* "All socket fds get properly closed", also by exceptions that end the   *)
(* program; "all client sockets should get closed by respective thread":   *)
(* none is open when the server is gone.                                   *)
AllSocketsAreClosed == main_pc = "exited" => open_sockets = {}

(* Nobody is left when the server's members (the cache, the locks, the     *)
(* queue, the stop flag) are destroyed: ~ProxyServer has joined every      *)
(* thread that uses them.                                                  *)
NoThreadOutlivesServer ==
  main_pc = "exited" => /\ reaper_pc \in {"none", "exited"}
                        /\ \A c \in Conn : thread_pc[c] = "none"

(* "can now remove thread from client_threads (destructs it) since join    *)
(* called": the reaper destroys no joinable handle.                        *)
NeverErasesJoinable == terminated # "erase"

(* "All active threads get properly joined for graceful shutdown" and "all *)
(* necessary destructors are called": the destructor itself ends.          *)
DestructorDoesNotThrow == terminated # "join"

(* "guaranteed to see stop flag once done": the wakeup of the destructor   *)
(* is not lost between the reaper's test of its predicate and its wait.    *)
StopWakesReaper == stop_flag ~> Over \/ reaper_pc = "exited"

(* A thread that has ended is joined, by the reaper or the destructor.     *)
FinishedThreadsAreJoined ==
  \A c \in Conn : thread_pc[c] = "exited" ~> Over \/ thread_pc[c] = "none"

(* If no peer keeps a thread in recv for ever, a server that begins to     *)
(* shut down ends: no deadlock among the destructor, the reaper and the    *)
(* clients over the two locks and the joins.                               *)
ShutdownCompletes ==
  (\A c \in Conn : thread_pc[c] = "recv" ~> thread_pc[c] # "recv")
    => (stop_flag ~> Over)
=============================================================================
