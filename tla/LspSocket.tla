----------------------------- MODULE LspSocket ------------------------------
(***************************************************************************)
(* The sockets of lsp_socket.c, over the ports and the connection pool.    *)
(*                                                                         *)
(* Openers call lsp_socket and Closers the other functions.  (A thread     *)
(* that calls both does what an opener and a closer do in turn.)           *)
(*                                                                         *)
(* The layer of the library that would give sockets their ports and open   *)
(* their connections is not written yet.  It is external here, and does    *)
(* what the fields and the tests of the code leave to it: Configure,       *)
(* Establish, Offer and RxqPush.                                           *)
(***************************************************************************)
EXTENDS LspPort

CONSTANTS
  Priorities,   \* the priorities of sockets
  MaxOpen       \* bound: the connections not closed at one time

ASSUME SocketAssumption == Priorities \subseteq Nat /\ MaxOpen \in Nat

vars == <<alive, conf, pool>>

Init == ConfInit /\ ConnInit /\ PortInit

(* lsp_socket; wrong arguments are refused at once.                        *)
Socket(t) == CallAlloc(t)

(* lsp_closesocket.                                                        *)
CloseSocket(t) == CallFree(t)

(* Mutant: lsp_accept leaves the child in the queue.                       *)
AcceptPeek(s) ==
  \E c \in kin[s].conns :
    /\ type' = [type EXCEPT ![c] = CONN_CHILD]
    /\ kin' = [kin EXCEPT ![c] = Parent(s)]
    /\ holder' = [holder EXCEPT ![c] = "user"]
    /\ UNCHANGED alive

(* lsp_accept, of a listening socket, once its pop returns.                *)
AcceptChild(s) ==
  \E c \in kin[s].conns :
    /\ type' = [type EXCEPT ![c] = CONN_CHILD]
    /\ kin' = [kin EXCEPT ![s].conns = @ \ {c}, ![c] = Parent(s)]
    /\ holder' = [holder EXCEPT ![c] = "user"]
    /\ UNCHANGED alive

(* When the pop gives nothing, as none came in time or the lock of the     *)
(* queue was refused, the child is a null pointer, and is written to.      *)
AcceptNothing ==
  /\ alive' = FALSE
  /\ UNCHANGED <<type, kin, holder>>

Accept(t) ==
  /\ \E s \in Held(t) :
       /\ type[s] = CONN_SERVER /\ state[s] = CONN_LISTEN
       /\ AcceptChild(s) \/ AcceptNothing
  /\ UNCHANGED <<conf, links, state, attr, rx_queue, conn_mutex, calls, spare,
                 linked>>

(* lsp_connect: a valid port is not stored.                                *)
Connect(t) ==
  /\ \E c \in Held(t) :
       attr' \in {attr, [attr EXCEPT ![c].rport = AnyPort]}
  /\ UNCHANGED <<alive, conf, links, state, type, rx_queue, kin, conn_mutex,
                 calls, ghosts>>

(* The applications call lsp_listen on a socket that is not listening.     *)
ListenOnce(t) ==
  \E c \in Held(t) :
    state[c] = CONN_CLOSED /\ kin[c] = NoKin /\ Listen(t, c)

-----------------------------------------------------------------------------
(* The layer that is not written.  It acts on connections that their users *)
(* hold and have closed.                                                   *)

Closed == {c \in Node : alive /\ holder[c] = "user" /\ state[c] = CONN_CLOSED}

Configure ==
  /\ \E c \in Closed, p \in Head, n \in Priorities :
       attr' = [attr EXCEPT ![c].priority = n, ![c].lport = p]
  /\ UNCHANGED <<alive, conf, links, state, type, rx_queue, kin, conn_mutex,
                 calls, ghosts>>

(* Listening is what type records after lsp_listen, and what lsp_accept    *)
(* looks for in state.                                                     *)
EstablishServer(c) ==
  /\ type[c] = CONN_LISTEN /\ kin[c].kind = "children"
  /\ state' = [state EXCEPT ![c] = CONN_LISTEN]
  /\ type' = [type EXCEPT ![c] = CONN_SERVER]

EstablishClient(c) ==
  /\ type[c] # CONN_LISTEN
  /\ state' = [state EXCEPT ![c] = CONN_CONNECTED]
  /\ UNCHANGED type

Establish ==
  /\ Cardinality({c \in Node : state[c] > CONN_CLOSED}) < MaxOpen
  /\ \E c \in Closed : EstablishServer(c) \/ EstablishClient(c)
  /\ UNCHANGED <<alive, conf, links, attr, rx_queue, kin, conn_mutex, calls,
                 ghosts>>

Offer ==
  /\ alive
  /\ \E s, c \in Node :
       /\ s # c /\ holder[s] = "user" /\ holder[c] = "user"
       /\ state[s] = CONN_LISTEN /\ kin[c] = NoKin
       /\ kin' = [kin EXCEPT ![s].conns = @ \cup {c}]
       /\ holder' = [holder EXCEPT ![c] = "queue"]
  /\ UNCHANGED <<alive, conf, links, state, type, attr, rx_queue, conn_mutex,
                 calls, spare, linked>>

-----------------------------------------------------------------------------

Next ==
  \/ \E t \in Openers : Socket(t)
  \/ \E t \in Closers : CloseSocket(t) \/ Bind(t) \/ ListenOnce(t) \/ Accept(t)
                         \/ Connect(t)
  \/ \E t \in Thread : ConnStep(t)
  \/ Configure \/ Establish \/ Offer \/ RxqPush

Spec == Init /\ [][Next]_vars

-----------------------------------------------------------------------------
(* Each field holds what its C type and the calls put there; no queue of   *)
(* received buffers is longer than it was made.                            *)
TypeOK ==
  /\ alive \in BOOLEAN
  /\ conf \in Confs \cup {DefaultConf}
  /\ next \in [Cell -> Cell \cup {Nil}] /\ prev \in [Cell -> Cell \cup {Nil}]
  /\ state \in [Node -> CONN_FREE .. CONN_CONNECTED]
  /\ type \in [Node -> {CONN_CLIENT, CONN_SERVER, CONN_CHILD, CONN_LISTEN}]
  /\ attr \in [Node -> [priority : Nat, lport : Nat \cup Head, rport : Nat]]
  /\ rx_queue \in [Node -> {Nil} \cup 0 .. conf.conn_queuelen]
  /\ kin \in [Node -> [kind : {"null", "children", "parent"},
                       conns : SUBSET Node]]
  /\ conn_mutex \in Thread \cup {NoThread}
  /\ pc \in [Thread -> {"idle", "lock", "search", "unlock", "queue", "mark",
                        "free", "flush", "children"}]
  /\ conn \in [Thread -> Node \cup {Nil}]
  /\ i \in [Thread -> 0 .. MaxConnections]
  /\ outer \in [Node -> Node \cup {Nil}]
  /\ holder \in [Node -> {"pool", "user", "call", "queue", "lost"}]
  /\ spare \in [Thread -> SUBSET Node]
  /\ linked \in [Head -> SUBSET Node]

(* Threads that own a frame of lsp_conn_free for c, the recursive ones     *)
(* included.                                                               *)
BeingFreed(c) ==
  \/ \E t \in Thread : conn[t] = c /\ pc[t] \in {"free", "flush", "children"}
  \/ \E x \in Node : outer[x] = c

(* The servers in whose queue c waits.                                     *)
WaitsAt(c) ==
  {s \in Node : kin[s].kind = "children" /\ c \in kin[s].conns}

(* Each connection is in exactly one place: free in the pool, with a user, *)
(* in the queue of one server, or in one call of lsp_conn_free; and state  *)
(* says whether it is free.  Only the unassigned rc of lsp_conn_free lets  *)
(* one go to no place at all.                                              *)
OnePlace ==
  \A c \in Node :
    /\ (holder[c] = "pool") = (state[c] = CONN_FREE)
    /\ (holder[c] = "call") = BeingFreed(c)
    /\ holder[c] = "queue" => \E s \in Node : WaitsAt(c) = {s}
    /\ holder[c] # "queue" => WaitsAt(c) = {}

(* lsp_conn_alloc finds a connection if one was free throughout its        *)
(* search, whatever other threads gave back or took meanwhile.             *)
NoSpareMissed ==
  \A t \in Thread : pc[t] = "unlock" /\ conn[t] = Nil => spare[t] = {}

(* The sockets allocated, accepted and closed by different threads follow  *)
(* the promise of the pool, as long as one thread allocates: a slot that   *)
(* another thread has is not handed out, and a server is free only after   *)
(* all its children.                                                       *)
Pool == INSTANCE ConnPool WITH
  Connection <- Node,
  out        <- {c \in Node : holder[c] # "pool"},
  waiting    <- [c \in Node |-> IF holder[c] # "pool" /\ kin[c].kind = "children"
                                THEN kin[c].conns ELSE {}]

PoolSpec == Pool!Spec

(* The slot that lsp_conn_alloc is about to mark is not another's.         *)
UniqueOwner == \A t \in Thread : pc[t] = "mark" => holder[conn[t]] = "pool"

(* The list of a port is a whole ring through the sockets linked to it and *)
(* not unlinked since, whatever the order of the calls of lsp_listen and   *)
(* lsp_conn_close on it, as long as each links an unlinked socket and      *)
(* unlinks a linked one.                                                   *)
PortLists ==
  alive => \A p \in Head : RingThrough(p, linked[p]) /\ Mirrored(p, linked[p])
=============================================================================
