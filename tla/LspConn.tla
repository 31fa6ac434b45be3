------------------------------ MODULE LspConn -------------------------------
(***************************************************************************)
(* The connection pool of lsp_conn.c: the connections of the program, by   *)
(* their index in conn_pool.  Threads allocate them and give them back;    *)
(* pc[t] is the point that the call of t has reached:                      *)
(*                                                                         *)
(*   alloc:  idle -> lock -> search -> unlock -> queue -> mark -> idle     *)
(*   free:   idle -> free -> (flush) -> children -> idle                   *)
(*                     ^                   |                               *)
(*                     +-- for a child ----+                               *)
(*                                                                         *)
(* Only the search is made under conn_mutex.  alive turns false when a     *)
(* call uses memory that is not its own (a null or unassigned pointer, a   *)
(* slot beyond the pool), gives back again what it has given back, or      *)
(* writes to the links of others, linking what is linked or unlinking what *)
(* is not: nothing is modelled after that.                                 *)
(*                                                                         *)
(* lsp_conn_init releases the pool on its way out, through its error       *)
(* labels, and keeps the pointers.  The released block is taken to keep    *)
(* its contents; the README says what hangs on this.                       *)
(*                                                                         *)
(* Left out: the addresses, flags and options that nothing reads.          *)
(***************************************************************************)
EXTENDS LspList, LspTypes

CONSTANTS
  Openers,          \* the threads that allocate
  Closers,          \* other threads, that only give back
  MaxConnections,   \* LSP_DEFAULT_MAX_CONNECTIONS
  ConnQueueLen,     \* LSP_DEFAULT_CONN_QUEUELEN
  Confs,            \* the configurations lsp_conf_init may be given
  NoThread          \* the owner of a free mutex

Thread == Openers \cup Closers

ASSUME PoolAssumption ==
  /\ MaxConnections \in Nat /\ ConnQueueLen \in Nat
  /\ 0 .. MaxConnections - 1 \subseteq Node /\ Node \subseteq Nat
  /\ Nil \notin Nat
(* lsp_conf_s, but its address and names.                                  *)
Conf == [conn_max : Nat, conn_queuelen : Nat]

ASSUME ConfAssumption == Confs \subseteq Conf
ASSUME ThreadAssumption == NoThread \notin Thread

(* lsp_conn_state_e; an enumerator is an int, and they are compared.       *)
CONN_FREE      == 0
CONN_CLOSED    == 1
CONN_OPEN      == 2
CONN_LISTEN    == 3
CONN_CONNECTED == 4

(* lsp_conn_type_e.                                                        *)
CONN_CLIENT == 0
CONN_SERVER == 1
CONN_CHILD  == 2

(* The attributes of a new connection, but its addresses and flags.        *)
def_conn_attr == [priority |-> LSP_CONN_PRIO_DEF,
                  lport |-> LSP_PORT_ANY, rport |-> LSP_PORT_ANY]

(* The union of children, a queue, and parent.  Nothing depends on the     *)
(* order in which LspQueue gives out the children.                         *)
NoKin        == [kind |-> "null", conns |-> {}]
Children(S)  == [kind |-> "children", conns |-> S]
Parent(c)    == [kind |-> "parent", conns |-> {c}]

VARIABLES
  alive,
  conf,                                 \* lsp_conf
  state, type, attr, rx_queue, kin,     \* the fields of each connection;
                                        \* rx_queue: NULL, or its length
  conn_mutex,                           \* the thread that owns it
  pc, conn, i,                          \* each thread's locals
  outer,     \* the connection from whose children this one is being freed
  holder,    \* history: who has the connection
  spare,     \* history: the slots free throughout a search so far
  linked     \* history: the connections linked to each port

fields == <<state, type, attr, rx_queue, kin>>
calls  == <<pc, conn, i, outer>>
ghosts == <<holder, spare, linked>>
pool   == <<links, fields, conn_mutex, calls, ghosts>>

At(t, p) == alive /\ pc[t] = p

(* What the block of the pool holds.                                       *)
Slots == 0 .. conf.conn_max - 1

(* lsp_conf_init: no configuration leaves the defaults.  An lsp_addr_t     *)
(* cannot exceed LSP_PACKET_ADDR_MAX.                                      *)
DefaultConf == [conn_max |-> MaxConnections,
                conn_queuelen |-> ConnQueueLen]

ConfInit == conf \in Confs \cup {DefaultConf}

(* No call has been made, but those that a run's initial state says.       *)
CallsInit ==
  /\ alive = TRUE
  /\ type = [c \in Node |-> CONN_CLIENT]
  /\ kin = [c \in Node |-> NoKin]
  /\ conn_mutex = NoThread
  /\ pc = [t \in Thread |-> "idle"]
  /\ conn = [t \in Thread |-> Nil]
  /\ i = [t \in Thread |-> 0]
  /\ outer = [c \in Node |-> Nil]
  /\ spare = [t \in Thread |-> {}]
  /\ linked = [h \in Head |-> {}]

(* lsp_conn_init with an allocation that succeeds: the block is zeroed.    *)
ConnInit ==
  /\ CallsInit
  /\ state = [c \in Node |-> CONN_FREE]
  /\ attr = [c \in Node |-> [priority |-> 0, lport |-> 0, rport |-> 0]]
  /\ rx_queue = [c \in Node |-> Nil]
  /\ holder = [c \in Node |-> "pool"]

-----------------------------------------------------------------------------
(* lsp_conn_alloc.                                                         *)

AllocReturn(t) ==
  /\ pc' = [pc EXCEPT ![t] = "idle"]
  /\ conn' = [conn EXCEPT ![t] = Nil]
  /\ i' = [i EXCEPT ![t] = 0]

CallAlloc(t) ==
  /\ At(t, "idle")
  /\ pc' = [pc EXCEPT ![t] = "lock"]
  /\ UNCHANGED <<alive, conf, links, fields, conn_mutex, conn, i, outer,
                 ghosts>>

Lock(t) ==
  /\ At(t, "lock")
  /\ conn_mutex = NoThread
  /\ conn_mutex' = t
  /\ spare' = [spare EXCEPT ![t] = {c \in Slots : /\ c < MaxConnections
                                                  /\ state[c] = CONN_FREE}]
  /\ pc' = [pc EXCEPT ![t] = "search"]
  /\ UNCHANGED <<alive, conf, links, fields, conn, i, outer, holder, linked>>

(* Mutant: the first slot is never looked at.                              *)
IsFreeLate(c) == c \in Slots \ {0} /\ state[c] = CONN_FREE

(* What the search finds in slot c.                                        *)
IsFree(c) == c \in Slots /\ state[c] = CONN_FREE

(* One turn of the loop, which goes up to LSP_DEFAULT_MAX_CONNECTIONS      *)
(* whatever the size of the pool.  The memory beyond the pool may look     *)
(* like a free connection.                                                 *)
Search(t) ==
  /\ At(t, "search")
  /\ \/ /\ i[t] < MaxConnections /\ IsFree(i[t])
        /\ conn' = [conn EXCEPT ![t] = i[t]]
        /\ pc' = [pc EXCEPT ![t] = "unlock"]
        /\ UNCHANGED <<alive, i>>
     \/ /\ i[t] < MaxConnections /\ ~IsFree(i[t])
        /\ i' = [i EXCEPT ![t] = @ + 1]
        /\ alive' \in IF i[t] \in Slots THEN {TRUE} ELSE BOOLEAN
        /\ UNCHANGED <<conn, pc>>
     \/ /\ i[t] = MaxConnections
        /\ pc' = [pc EXCEPT ![t] = "unlock"]
        /\ UNCHANGED <<alive, conn, i>>
  /\ UNCHANGED <<conf, links, fields, conn_mutex, outer, ghosts>>

Unlock(t) ==
  /\ At(t, "unlock")
  /\ conn_mutex' = NoThread
  /\ \/ conn[t] = Nil /\ AllocReturn(t)
     \/ /\ conn[t] # Nil
        /\ pc' = [pc EXCEPT ![t] = "queue"]
        /\ UNCHANGED <<conn, i>>
  /\ spare' = [spare EXCEPT ![t] = {}]
  /\ UNCHANGED <<alive, conf, links, fields, outer, holder, linked>>

(* The queue of received buffers is made when the slot is first used.      *)
MakeQueue(t) ==
  /\ At(t, "queue")
  /\ \/ /\ rx_queue' = [rx_queue EXCEPT ![conn[t]] = IF @ = Nil THEN 0 ELSE @]
        /\ pc' = [pc EXCEPT ![t] = "mark"]
        /\ UNCHANGED <<conn, i>>
     \/ rx_queue[conn[t]] = Nil /\ AllocReturn(t) /\ UNCHANGED rx_queue
  /\ UNCHANGED <<alive, conf, links, state, type, attr, kin, conn_mutex,
                 outer, ghosts>>

(* The slot is taken, without the mutex, and returned.  Its type stays     *)
(* what its last use made it.                                              *)
Mark(t) ==
  /\ At(t, "mark")
  /\ state' = [state EXCEPT ![conn[t]] = CONN_CLOSED]
  /\ kin' = [kin EXCEPT ![conn[t]] = NoKin]
  /\ attr' = [attr EXCEPT ![conn[t]] = def_conn_attr]
  /\ holder' = [holder EXCEPT ![conn[t]] = "user"]
  /\ spare' = [u \in Thread |-> spare[u] \ {conn[t]}]
  /\ AllocReturn(t)
  /\ UNCHANGED <<alive, conf, links, type, rx_queue, conn_mutex, outer,
                 linked>>

-----------------------------------------------------------------------------
(* lsp_conn_free and, under it, lsp_conn_close.                            *)

CallFree(t) ==
  /\ At(t, "idle")
  /\ \E c \in Node :
       /\ holder[c] = "user"
       /\ holder' = [holder EXCEPT ![c] = "call"]
       /\ conn' = [conn EXCEPT ![t] = c]
  /\ pc' = [pc EXCEPT ![t] = "free"]
  /\ UNCHANGED <<alive, conf, links, fields, conn_mutex, i, outer,
                 spare, linked>>

(* The end of one lsp_conn_free: of the call, or of the recursive call     *)
(* that the loop over the children of outer[c] made.                       *)
FreeReturn(t, c, to) ==
  /\ holder' = [holder EXCEPT ![c] = to]
  /\ conn' = [conn EXCEPT ![t] = outer[c]]
  /\ outer' = [outer EXCEPT ![c] = Nil]
  /\ pc' = [pc EXCEPT ![t] = IF outer[c] = Nil THEN "idle" ELSE "children"]

(* A connection in state CONN_CLOSED is not closed again, and rc, never    *)
(* assigned, decides whether it is freed or left as it is.                 *)
FreeClosed(t, c) ==
  /\ state[c] <= CONN_CLOSED
  /\ \/ /\ pc' = [pc EXCEPT ![t] = "children"]
        /\ UNCHANGED <<conn, outer, holder>>
     \/ /\ state[c] = CONN_CLOSED
        /\ FreeReturn(t, c, "lost")
  /\ UNCHANGED <<alive, links, state, linked>>

(* Mutant: a closed connection stays in the list of its port.              *)
CloseLinked(t, c) ==
  /\ state[c] > CONN_CLOSED
  /\ state' = [state EXCEPT ![c] = CONN_CLOSED]
  /\ linked' = [h \in Head |-> linked[h] \ {c}]
  /\ pc' = [pc EXCEPT ![t] = "flush"]
  /\ UNCHANGED <<alive, links, conn, outer, holder>>

(* lsp_conn_close, up to the flush.  It unlinks the connection whether or  *)
(* not it is linked: one that never listened has null links, and a slot    *)
(* used before has those of its last use.                                  *)
Close(t, c) ==
  /\ state[c] > CONN_CLOSED
  /\ state' = [state EXCEPT ![c] = CONN_CLOSED]
  /\ \/ next[c] = Nil /\ alive' = FALSE /\ UNCHANGED <<links, linked>>
     \/ /\ next[c] # Nil
        /\ ListDel(c)
        /\ linked' = [h \in Head |-> linked[h] \ {c}]
        /\ alive' = (linked' # linked)
  /\ pc' = [pc EXCEPT ![t] = "flush"]
  /\ UNCHANGED <<conn, outer, holder>>

Free(t) ==
  /\ At(t, "free")
  /\ FreeClosed(t, conn[t]) \/ Close(t, conn[t])
  /\ UNCHANGED <<conf, type, attr, rx_queue, kin, conn_mutex, i, spare>>

(* lsp_conn_rxq_flush: the loop ends with the first buffer popped.  After  *)
(* a pop that gives nothing, the queue being empty or its lock refused, it *)
(* goes on, with a free of an unassigned pointer.                          *)
Flush(t) ==
  /\ At(t, "flush")
  /\ \/ /\ rx_queue[conn[t]] > 0
        /\ rx_queue' = [rx_queue EXCEPT ![conn[t]] = @ - 1]
        /\ pc' = [pc EXCEPT ![t] = "children"]
        /\ UNCHANGED alive
     \/ /\ alive' = FALSE
        /\ UNCHANGED <<rx_queue, pc>>
  /\ UNCHANGED <<conf, links, state, type, attr, kin, conn_mutex, conn, i,
                 outer, ghosts>>

(* A server's children are freed one by one, until a pop says that the     *)
(* queue is empty.  The pointer to it may be no queue; and after a pop     *)
(* whose lock is refused the child freed is that of the pop before, or an  *)
(* unassigned pointer.                                                     *)
FreeChild(t, c) ==
  /\ type[c] = CONN_SERVER
  /\ \/ /\ alive' = FALSE
        /\ UNCHANGED <<kin, pc, conn, outer, holder>>
     \/ /\ kin[c].kind = "children"
        /\ \E x \in kin[c].conns :
             /\ kin' = [kin EXCEPT ![c].conns = @ \ {x}]
             /\ conn' = [conn EXCEPT ![t] = x]
             /\ outer' = [outer EXCEPT ![x] = c]
             /\ holder' = [holder EXCEPT ![x] = "call"]
        /\ pc' = [pc EXCEPT ![t] = "free"]
        /\ UNCHANGED alive
  /\ UNCHANGED state

(* Mutant: a server is freed with its children still in the queue.         *)
FreeSlotEarly(t, c) ==
  /\ state' = [state EXCEPT ![c] = CONN_FREE]
  /\ FreeReturn(t, c, "pool")
  /\ UNCHANGED <<alive, kin>>

(* The queue of the children is destroyed; a refusal is ignored, and the   *)
(* pointer stays in either case.                                           *)
FreeSlot(t, c) ==
  /\ type[c] = CONN_SERVER => kin[c] = Children({})
  /\ state' = [state EXCEPT ![c] = CONN_FREE]
  /\ FreeReturn(t, c, "pool")
  /\ UNCHANGED <<alive, kin>>

FreeChildren(t) ==
  /\ At(t, "children")
  /\ FreeChild(t, conn[t]) \/ FreeSlot(t, conn[t])
  /\ UNCHANGED <<conf, links, type, attr, rx_queue, conn_mutex, i, spare,
                 linked>>

-----------------------------------------------------------------------------

(* Mutant: one buffer more than the queue was made for.                    *)
RxqPushOver ==
  /\ alive
  /\ \E c \in Node :
       /\ holder[c] = "user" /\ state[c] > CONN_CLOSED
       /\ rx_queue[c] <= conf.conn_queuelen
       /\ rx_queue' = [rx_queue EXCEPT ![c] = @ + 1]
  /\ UNCHANGED <<alive, conf, links, state, type, attr, kin, conn_mutex,
                 calls, ghosts>>

(* lsp_conn_rxq_push, by whoever receives; a full queue changes nothing.   *)
RxqPush ==
  /\ alive
  /\ \E c \in Node :
       /\ holder[c] = "user" /\ state[c] > CONN_CLOSED
       /\ rx_queue[c] < conf.conn_queuelen
       /\ rx_queue' = [rx_queue EXCEPT ![c] = @ + 1]
  /\ UNCHANGED <<alive, conf, links, state, type, attr, kin, conn_mutex,
                 calls, ghosts>>

(* What a thread inside a call of the pool does next.                      *)
ConnStep(t) ==
  \/ Lock(t) \/ Search(t) \/ Unlock(t) \/ MakeQueue(t) \/ Mark(t)
  \/ Free(t) \/ Flush(t) \/ FreeChildren(t)
=============================================================================
