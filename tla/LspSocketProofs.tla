-------------------------- MODULE LspSocketProofs ---------------------------
(***************************************************************************)
(* What holds of the sockets for every size of the pool, every             *)
(* configuration and any number of threads.  The promise of the pool and   *)
(* what it rests on are proved for one allocating thread, as UniqueOwner   *)
(* fails with two.                                                         *)
(***************************************************************************)
EXTENDS LspSocket, TLAPS

OneOpener == \A a, b \in Openers : a = b

Freeing == {"free", "flush", "children"}

(* A thread that has not found a connection has none; one that has found   *)
(* it marks it while it still is in the pool.                              *)
Allocating ==
  \A t \in Thread :
    /\ pc[t] \in {"idle", "lock", "search"} => conn[t] = Nil
    /\ pc[t] \notin {"idle"} \cup Freeing => t \in Openers
    /\ pc[t] \in {"queue", "mark"} => conn[t] # Nil
    /\ pc[t] \in {"unlock", "queue", "mark"} /\ conn[t] # Nil =>
         holder[conn[t]] = "pool"

StateTells == \A c \in Node : (holder[c] = "pool") = (state[c] = CONN_FREE)

(* A connection has at most one frame of lsp_conn_free.                    *)
Frames ==
  /\ \A t \in Thread : pc[t] \in Freeing => conn[t] # Nil
  /\ \A t \in Thread : pc[t] \in Freeing => holder[conn[t]] = "call"
  /\ \A t \in Thread : pc[t] \in Freeing => \A x \in Node : outer[x] # conn[t]
  /\ \A t, u \in Thread : pc[t] \in Freeing /\ pc[u] \in Freeing
                          /\ conn[t] = conn[u] => t = u

(* Nor is it freed for two servers at once.                                *)
Outers ==
  /\ \A x \in Node : outer[x] # Nil => /\ holder[x] = "call"
                                       /\ holder[outer[x]] = "call"
  /\ \A x, y \in Node : outer[x] # Nil /\ outer[x] = outer[y] => x = y

CalledIsFreed == \A c \in Node : holder[c] = "call" => BeingFreed(c)

(* Who waits has no kin yet and is in one queue, that of a server.         *)
Queues ==
  /\ \A c \in Node : holder[c] = "queue" => kin[c] = NoKin
  /\ \A c \in Node : holder[c] = "queue" => WaitsAt(c) # {}
  /\ \A c, s \in Node : s \in WaitsAt(c) => holder[c] = "queue"
  /\ \A c, r, s \in Node : r \in WaitsAt(c) /\ s \in WaitsAt(c) => r = s

(* Only listening sockets get a queue, and it is empty before they are     *)
(* given back.                                                             *)
Servers ==
  /\ \A c, s \in Node : s \in WaitsAt(c) => type[s] = CONN_SERVER
  /\ \A s \in Node : state[s] = CONN_LISTEN =>
       type[s] = CONN_SERVER /\ kin[s].kind = "children"
  /\ \A c, s \in Node : s \in WaitsAt(c) => holder[s] # "pool"

(* Every connection that is out has its queue of received buffers.         *)
HasQueue ==
  /\ \A c \in Node : holder[c] # "pool" => rx_queue[c] # Nil
  /\ \A t \in Thread : pc[t] = "mark" => rx_queue[conn[t]] # Nil

(* What a search has to find still lies ahead of it.                       *)
SpareAhead ==
  \A t \in Thread :
    /\ pc[t] \in {"idle", "lock"} \cup Freeing => i[t] = 0
    /\ \A c \in spare[t] : state[c] = CONN_FREE
    /\ pc[t] = "search" =>
         \A c \in spare[t] : c \in Slots /\ i[t] <= c /\ c < MaxConnections
    /\ pc[t] = "unlock" /\ conn[t] = Nil => spare[t] = {}

(* The inductive invariant.                                                *)
IInv ==
  /\ Allocating /\ StateTells /\ Frames /\ Outers /\ CalledIsFreed
  /\ Queues /\ Servers /\ HasQueue /\ SpareAhead

Inv == TypeOK /\ IInv

(* What the assumptions on the constants give.                            *)
LEMMA Constants ==
  /\ Nil \notin Node /\ Nil \notin Nat /\ Node \subseteq Nat
  /\ 0 .. MaxConnections - 1 \subseteq Node
  /\ MaxConnections \in Nat /\ ConnQueueLen \in Nat
  /\ NoThread \notin Thread
  /\ Openers \subseteq Thread /\ Closers \subseteq Thread
  /\ Confs \subseteq Conf
  /\ Priorities \subseteq Nat
  /\ Node \subseteq Cell /\ Head \subseteq Cell /\ Node \cap Head = {}
  BY NodeAssumption, PoolAssumption, ConfAssumption, ThreadAssumption,
     SocketAssumption DEF Thread, Cell

USE DEF CONN_FREE, CONN_CLOSED, CONN_OPEN, CONN_LISTEN, CONN_CONNECTED,
        CONN_CLIENT, CONN_SERVER, CONN_CHILD,
        LSP_CONN_PRIO_DEF, LSP_PORT_ANY, LSP_PACKET_PORT_MAX

(* lsp_conf_init leaves lsp_conf a configuration.                          *)
LEMMA ConfType == ASSUME conf \in Confs \cup {DefaultConf} PROVE conf \in Conf
  BY Constants DEF DefaultConf, Conf

(* The pool that lsp_conn_init makes.                                      *)
LEMMA InvInit == Init => Inv
<1> SUFFICES ASSUME Init PROVE Inv
  OBVIOUS
<1> USE Constants DEF Init, ConfInit, ConnInit, CallsInit, PortInit, LinksInit
<1>1. TypeOK
  BY ConfType DEF TypeOK, NoKin, Conf, Cell
<1>2. Allocating /\ StateTells /\ Frames /\ Outers /\ HasQueue /\ SpareAhead
  BY DEF Allocating, StateTells, Frames, Outers, HasQueue, SpareAhead, Freeing
<1>3. CalledIsFreed /\ Queues /\ Servers
  BY DEF CalledIsFreed, Queues, Servers, WaitsAt, NoKin
<1> QED BY <1>1, <1>2, <1>3 DEF Inv, IInv

(* The writes to the links keep them links, whatever the list.             *)
LEMMA ListAddType ==
  ASSUME next \in [Cell -> Cell \cup {Nil}], prev \in [Cell -> Cell \cup {Nil}],
         NEW n \in Cell, NEW before \in Cell \cup {Nil},
         NEW after \in Cell \cup {Nil}, ListAdd(n, before, after)
  PROVE  next' \in [Cell -> Cell \cup {Nil}] /\ prev' \in [Cell -> Cell \cup {Nil}]
  BY DEF ListAdd

(* The same of a deletion.                                                 *)
LEMMA ListDelType ==
  ASSUME next \in [Cell -> Cell \cup {Nil}], prev \in [Cell -> Cell \cup {Nil}],
         NEW n \in Cell, ListDel(n)
  PROVE  next' \in [Cell -> Cell \cup {Nil}] /\ prev' \in [Cell -> Cell \cup {Nil}]
  BY DEF ListDel

Kin == [kind : {"null", "children", "parent"}, conns : SUBSET Node]

(* The queue of a server after a child has come or gone.                   *)
LEMMA KinUpdate ==
  ASSUME NEW k \in [Node -> Kin], NEW s \in Node, k[s].kind = "children",
         NEW S \in SUBSET Node
  PROVE  /\ [k EXCEPT ![s].conns = S] =
              [y \in Node |-> IF y = s THEN Children(S) ELSE k[y]]
         /\ [k EXCEPT ![s].conns = S] \in [Node -> Kin]
<1>1. [k[s] EXCEPT !.conns = S] = Children(S)
  BY DEF Kin, Children
<1>2. [k EXCEPT ![s].conns = S] = [k EXCEPT ![s] = [k[s] EXCEPT !.conns = S]]
  OBVIOUS
<1>3. [k EXCEPT ![s].conns = S] =
        [y \in Node |-> IF y = s THEN Children(S) ELSE k[y]]
  BY <1>1, <1>2
<1>4. Children(S) \in Kin
  BY DEF Kin, Children
<1> QED BY <1>3, <1>4

-----------------------------------------------------------------------------
(* What a step does to who is out of the pool and who waits where.         *)

Out     == {c \in Node : holder[c] # "pool"}
Waiting == [c \in Node |-> IF holder[c] # "pool" /\ kin[c].kind = "children"
                           THEN kin[c].conns ELSE {}]

SameOut    == \A x \in Node : holder'[x] = "pool" <=> holder[x] = "pool"
SameQueues == \A x \in Node : WaitsAt(x)' = WaitsAt(x)

Granted(c) ==
  /\ holder[c] = "pool" /\ holder'[c] # "pool"
  /\ \A x \in Node \ {c} : holder'[x] = "pool" <=> holder[x] = "pool"
  /\ SameQueues

Returned(c) ==
  /\ holder[c] # "pool" /\ holder'[c] = "pool"
  /\ \A x \in Node \ {c} : holder'[x] = "pool" <=> holder[x] = "pool"
  /\ WaitsAt(c) = {} /\ \A x \in Node : c \notin WaitsAt(x)
  /\ SameQueues

Left(s, c) ==
  /\ s \in WaitsAt(c)
  /\ \A x \in Node : WaitsAt(x)' = IF x = c THEN {} ELSE WaitsAt(x)
  /\ SameOut

Joined(s, c) ==
  /\ s # c /\ holder[s] # "pool" /\ holder[c] # "pool" /\ WaitsAt(c) = {}
  /\ \A x \in Node : WaitsAt(x)' = IF x = c THEN {s} ELSE WaitsAt(x)
  /\ SameOut

Moves ==
  \/ SameOut /\ SameQueues
  \/ \E c \in Node : Granted(c) \/ Returned(c)
  \/ \E s, c \in Node : Left(s, c) \/ Joined(s, c)

(* Who waits at a server, seen from those who wait.                        *)
LEMMA WaitingIs ==
  Inv => Waiting = [s \in Node |-> {x \in Node : s \in WaitsAt(x)}]
<1> SUFFICES ASSUME Inv, NEW s \in Node
             PROVE  (IF holder[s] # "pool" /\ kin[s].kind = "children"
                     THEN kin[s].conns ELSE {}) = {x \in Node : s \in WaitsAt(x)}
  BY DEF Waiting
<1>1. kin[s].conns \in SUBSET Node
  BY DEF Inv, TypeOK
<1>2. CASE kin[s].kind = "children" /\ holder[s] # "pool"
  BY <1>1, <1>2 DEF WaitsAt
<1>3. CASE kin[s].kind = "children" /\ holder[s] = "pool"
  BY <1>1, <1>3 DEF WaitsAt, Inv, IInv, Servers
<1>4. CASE kin[s].kind # "children"
  BY <1>4 DEF WaitsAt
<1> QED BY <1>2, <1>3, <1>4

(* Each such change is a step of the promise, or none.                     *)
LEMMA MovesRefine ==
  ASSUME Inv, Inv', Moves
  PROVE  [Pool!Next]_(Pool!vars)
<1> DEFINE Q(s) == {x \in Node : s \in WaitsAt(x)}
<1>1. /\ Waiting = [s \in Node |-> Q(s)]
      /\ Waiting' = [s \in Node |-> {x \in Node : s \in WaitsAt(x)'}]
  <2>1. Waiting = [s \in Node |-> Q(s)]
    BY WaitingIs
  <2>2. (Waiting = [s \in Node |-> {x \in Node : s \in WaitsAt(x)}])'
    BY WaitingIs, PTL
  <2> QED BY <2>1, <2>2
<1>2. /\ \A c \in Node : c \in Out <=> holder[c] # "pool"
      /\ \A c \in Node : c \in Out' <=> holder'[c] # "pool"
      /\ Out \subseteq Node /\ Out' \subseteq Node
  BY DEF Out
<1>3. SameQueues => Waiting' = Waiting
  BY <1>1 DEF SameQueues
<1>4. SameOut => Out' = Out
  BY <1>2 DEF SameOut
<1>5. ASSUME NEW c \in Node, Granted(c) PROVE Pool!Grant(c)
  BY <1>2, <1>3, <1>5 DEF Granted, Pool!Grant, Out, Waiting
<1>6. ASSUME NEW c \in Node, Returned(c) PROVE Pool!GiveBack(c)
  BY <1>1, <1>2, <1>3, <1>6 DEF Returned, Pool!GiveBack, Out, Waiting
<1>7. ASSUME NEW s \in Node, NEW c \in Node, Left(s, c) PROVE Pool!Leave(s, c)
  <2>1. \A r, x \in Node : r \in WaitsAt(x)' <=> r \in WaitsAt(x) /\ ~(r = s /\ x = c)
    BY <1>7 DEF Left, Inv, IInv, Queues
  <2>2. \A r \in Node : {x \in Node : r \in WaitsAt(x)'}
                         = IF r = s THEN Q(s) \ {c} ELSE Q(r)
    BY <2>1
  <2>3. Waiting' = [Waiting EXCEPT ![s] = @ \ {c}] /\ c \in Waiting[s]
    BY <1>1, <1>7, <2>2 DEF Left
  <2> QED BY <1>4, <1>7, <2>3 DEF Left, Pool!Leave, Out, Waiting
<1>8. ASSUME NEW s \in Node, NEW c \in Node, Joined(s, c) PROVE Pool!Join(s, c)
  <2>1. \A r, x \in Node : r \in WaitsAt(x)' <=> r \in WaitsAt(x) \/ (r = s /\ x = c)
    BY <1>8 DEF Joined
  <2>2. \A r \in Node : {x \in Node : r \in WaitsAt(x)'}
                         = IF r = s THEN Q(s) \cup {c} ELSE Q(r)
    BY <2>1
  <2>3. Waiting' = [Waiting EXCEPT ![s] = @ \cup {c}]
        /\ \A x \in Node : c \notin Waiting[x]
    BY <1>1, <1>8, <2>2 DEF Joined
  <2>4. {s, c} \subseteq Out /\ s # c
    BY <1>2, <1>8 DEF Joined
  <2> QED BY <1>4, <1>8, <2>3, <2>4 DEF Joined, Pool!Join, Out, Waiting
<1> QED BY <1>3, <1>4, <1>5, <1>6, <1>7, <1>8
        DEF Moves, Pool!Next, Pool!vars, Out, Waiting

-----------------------------------------------------------------------------
(* The invariant, call by call.                                            *)

(* lsp_conn_alloc, step by step.                                           *)
LEMMA CallAllocStep == ASSUME Inv, NEW t \in Openers, CallAlloc(t) PROVE Inv'
<1> USE Constants DEF Inv, IInv, fields, ghosts, links
<1>1. /\ pc[t] = "idle" /\ pc' = [pc EXCEPT ![t] = "lock"]
      /\ UNCHANGED <<alive, conf, next, prev, state, type, attr, rx_queue, kin,
                     conn_mutex, conn, i, outer, holder, spare, linked>>
  BY DEF CallAlloc, At
<1>2. UNCHANGED <<StateTells, Outers, Queues, Servers>>
  BY <1>1 DEF StateTells, Outers, Queues, Servers, WaitsAt
<1>3. TypeOK' /\ Allocating' /\ HasQueue'
  BY <1>1 DEF TypeOK, Allocating, Freeing, HasQueue
<1>4. Frames' /\ CalledIsFreed'
  BY <1>1 DEF TypeOK, Frames, CalledIsFreed, BeingFreed, Freeing
<1>5. SpareAhead'
  BY <1>1 DEF TypeOK, SpareAhead, Slots, Freeing
<1> QED BY <1>2, <1>3, <1>4, <1>5

(* The search begins with the slots that are free.                         *)
LEMMA LockStep == ASSUME Inv, NEW t \in Thread, Lock(t) PROVE Inv'
<1> USE Constants DEF Inv, IInv, fields, ghosts, links
<1> DEFINE S == {c \in Slots : c < MaxConnections /\ state[c] = CONN_FREE}
<1>1. /\ pc[t] = "lock" /\ pc' = [pc EXCEPT ![t] = "search"]
      /\ conn_mutex' = t /\ spare' = [spare EXCEPT ![t] = S]
      /\ UNCHANGED <<alive, conf, next, prev, state, type, attr, rx_queue, kin,
                     conn, i, outer, holder, linked>>
  BY DEF Lock, At
<1>2. S \subseteq Node /\ \A c \in S : 0 <= c
  BY ConfType DEF TypeOK, Slots, Conf
<1>3. S \subseteq Slots
      /\ \A c \in S : state[c] = CONN_FREE /\ c < MaxConnections
  OBVIOUS
<1> HIDE DEF S
<1>4. UNCHANGED <<StateTells, Outers, Queues, Servers>>
  BY <1>1 DEF StateTells, Outers, Queues, Servers, WaitsAt
<1>5. TypeOK' /\ Allocating' /\ HasQueue'
  BY <1>1, <1>2 DEF TypeOK, Allocating, Freeing, HasQueue
<1>6. Frames' /\ CalledIsFreed'
  BY <1>1 DEF TypeOK, Frames, CalledIsFreed, BeingFreed, Freeing
<1>7. SpareAhead'
  BY <1>1, <1>2, <1>3 DEF TypeOK, SpareAhead, Slots, Freeing
<1> QED BY <1>4, <1>5, <1>6, <1>7

(* The mutex is given up before the slot is marked.                        *)
LEMMA UnlockStep == ASSUME Inv, NEW t \in Thread, Unlock(t) PROVE Inv'
<1> USE Constants DEF Inv, IInv, fields, ghosts, links
<1>1. /\ pc[t] = "unlock" /\ conn_mutex' = NoThread
      /\ spare' = [spare EXCEPT ![t] = {}]
      /\ UNCHANGED <<alive, conf, next, prev, state, type, attr, rx_queue, kin,
                     outer, holder, linked>>
  BY DEF Unlock, At
<1>2. UNCHANGED <<StateTells, Outers, Queues, Servers>>
  BY <1>1 DEF StateTells, Outers, Queues, Servers, WaitsAt
<1>3. \/ conn[t] = Nil /\ AllocReturn(t)
      \/ /\ conn[t] # Nil /\ pc' = [pc EXCEPT ![t] = "queue"]
         /\ conn' = conn /\ i' = i
  BY DEF Unlock
<1>4. TypeOK'
  BY <1>1, <1>3 DEF TypeOK, AllocReturn
<1>5. Allocating' /\ HasQueue'
  BY <1>1, <1>3 DEF TypeOK, Allocating, AllocReturn, Freeing, HasQueue
<1>6. \A u \in Thread : \/ pc'[u] = pc[u] /\ conn'[u] = conn[u]
                        \/ pc[u] \notin Freeing /\ pc'[u] \notin Freeing
  BY <1>1, <1>3 DEF TypeOK, AllocReturn, Freeing
<1>7. Frames'
  BY <1>1, <1>6 DEF Frames
<1>8. CalledIsFreed'
  BY <1>1, <1>6 DEF CalledIsFreed, BeingFreed, Freeing
<1>9. SpareAhead'
  BY <1>1, <1>3 DEF TypeOK, AllocReturn, SpareAhead, Slots, Freeing
<1> QED BY <1>2, <1>4, <1>5, <1>7, <1>9, <1>8

(* A turn of the search that leaves a slot behind has found it taken.      *)
LEMMA SearchStep == ASSUME Inv, NEW t \in Thread, Search(t) PROVE Inv'
<1> USE Constants DEF Inv, IInv, fields, ghosts, links
<1>1. pc[t] = "search" /\ i[t] \in 0 .. MaxConnections /\ conn[t] = Nil
  BY DEF Search, At, TypeOK, Allocating
<1>2. UNCHANGED <<conf, next, prev, state, type, attr, rx_queue, kin,
                  conn_mutex, outer, holder, spare, linked>>
  BY DEF Search
<1>3. alive' \in BOOLEAN
  BY Zenon DEF Search, TypeOK
<1>4. UNCHANGED <<StateTells, Outers, Queues, Servers>>
  BY <1>2 DEF StateTells, Outers, Queues, Servers, WaitsAt
<1>5. CASE i[t] < MaxConnections /\ IsFree(i[t])
           /\ conn' = [conn EXCEPT ![t] = i[t]]
           /\ pc' = [pc EXCEPT ![t] = "unlock"] /\ i' = i
  <2>1. i[t] \in Node /\ i[t] # Nil
    BY <1>1, <1>5 DEF TypeOK
  <2>2. TypeOK'
    BY <1>2, <1>3, <1>5, <2>1 DEF TypeOK
  <2>3. Allocating'
    BY <1>1, <1>2, <1>5, <2>1 DEF TypeOK, Allocating, StateTells, IsFree, Freeing
  <2>4. Frames' /\ CalledIsFreed' /\ HasQueue'
    BY <1>1, <1>2, <1>5 DEF TypeOK, Frames, CalledIsFreed, BeingFreed, HasQueue, Freeing
  <2>5. SpareAhead'
    BY <1>1, <1>2, <1>5, <2>1 DEF TypeOK, SpareAhead, Slots, Freeing
  <2> QED BY <1>4, <2>2, <2>3, <2>4, <2>5
<1>6. CASE i[t] < MaxConnections /\ ~IsFree(i[t])
           /\ i' = [i EXCEPT ![t] = @ + 1] /\ conn' = conn /\ pc' = pc
  <2>1. TypeOK'
    BY <1>1, <1>2, <1>3, <1>6 DEF TypeOK
  <2>2. Allocating' /\ Frames' /\ CalledIsFreed' /\ HasQueue'
    BY <1>2, <1>6 DEF Allocating, Frames, CalledIsFreed, BeingFreed, HasQueue
  <2>3. \A c \in spare[t] : i[t] + 1 <= c
    <3> SUFFICES ASSUME NEW c \in spare[t] PROVE i[t] + 1 <= c
      OBVIOUS
    <3>1. c \in Nat /\ i[t] <= c
      BY <1>1 DEF TypeOK, SpareAhead
    <3>2. c # i[t]
      BY <1>1, <1>6 DEF SpareAhead, IsFree
    <3> QED BY <1>1, <3>1, <3>2
  <2>4. i' = [u \in Thread |-> IF u = t THEN i[t] + 1 ELSE i[u]]
    BY <1>6 DEF TypeOK
  <2>5. SpareAhead'
    BY <1>1, <1>2, <1>6, <2>3, <2>4 DEF SpareAhead, Slots, Freeing
  <2> QED BY <1>4, <2>1, <2>2, <2>5
<1>7. CASE i[t] = MaxConnections
           /\ pc' = [pc EXCEPT ![t] = "unlock"] /\ conn' = conn /\ i' = i
  <2>1. TypeOK'
    BY <1>1, <1>2, <1>3, <1>7 DEF TypeOK
  <2>2. Allocating'
    BY <1>1, <1>2, <1>7 DEF TypeOK, Allocating, Freeing
  <2>3. Frames' /\ CalledIsFreed' /\ HasQueue'
    BY <1>1, <1>2, <1>7 DEF TypeOK, Frames, CalledIsFreed, BeingFreed, HasQueue, Freeing
  <2>4. spare[t] = {}
    <3> SUFFICES ASSUME NEW c \in spare[t] PROVE FALSE
      OBVIOUS
    <3>1. c \in Nat /\ i[t] <= c /\ c < MaxConnections
      BY <1>1 DEF TypeOK, SpareAhead
    <3> QED BY <1>7, <3>1
  <2>5. SpareAhead'
    BY <1>1, <1>2, <1>7, <2>4 DEF TypeOK, SpareAhead, Slots, Freeing
  <2> QED BY <1>4, <2>1, <2>2, <2>3, <2>5
<1> QED BY <1>1, <1>5, <1>6, <1>7 DEF Search

(* The slot that is being given its queue is not in use yet.               *)
LEMMA MakeQueueStep == ASSUME Inv, NEW t \in Thread, MakeQueue(t) PROVE Inv'
<1> USE Constants DEF Inv, IInv, fields, ghosts, links
<1>1. /\ pc[t] = "queue" /\ conn[t] \in Node /\ holder[conn[t]] = "pool"
      /\ UNCHANGED <<alive, conf, next, prev, state, type, attr, kin,
                     conn_mutex, outer, holder, spare, linked>>
  BY DEF MakeQueue, At, TypeOK, Allocating
<1>2. UNCHANGED <<StateTells, Outers, Queues, Servers>>
  BY <1>1 DEF StateTells, Outers, Queues, Servers, WaitsAt
<1>3. CASE /\ rx_queue' = [rx_queue EXCEPT ![conn[t]] = IF @ = Nil THEN 0 ELSE @]
           /\ pc' = [pc EXCEPT ![t] = "mark"] /\ UNCHANGED <<conn, i>>
  <2>1. TypeOK'
    <3>1. 0 \in 0 .. conf.conn_queuelen
      BY ConfType DEF TypeOK, Conf
    <3> QED BY <1>1, <1>3, <3>1 DEF TypeOK
  <2>2. Allocating' /\ Frames' /\ CalledIsFreed'
    BY <1>1, <1>3 DEF TypeOK, Allocating, Frames, CalledIsFreed, BeingFreed, Freeing
  <2>3. HasQueue'
    BY <1>1, <1>3 DEF TypeOK, Allocating, HasQueue
  <2>4. SpareAhead'
    BY <1>1, <1>3 DEF TypeOK, SpareAhead, Slots, Freeing
  <2> QED BY <1>2, <2>1, <2>2, <2>3, <2>4
<1>4. CASE AllocReturn(t) /\ UNCHANGED rx_queue
  <2>1. TypeOK'
    BY <1>1, <1>4 DEF TypeOK, AllocReturn
  <2>2. Allocating' /\ Frames' /\ CalledIsFreed' /\ HasQueue'
    BY <1>1, <1>4 DEF TypeOK, AllocReturn, Allocating, Frames, CalledIsFreed,
                      BeingFreed, Freeing, HasQueue
  <2>3. SpareAhead'
    BY <1>1, <1>4 DEF TypeOK, AllocReturn, SpareAhead, Slots, Freeing
  <2> QED BY <1>2, <2>1, <2>2, <2>3
<1> QED BY <1>3, <1>4 DEF MakeQueue

(* The slot that is marked is free: with one opener, no other thread can   *)
(* have found it.                                                          *)
LEMMA MarkStep == ASSUME Inv, OneOpener, NEW t \in Thread, Mark(t) PROVE Inv' /\ Moves
<1> USE Constants DEF Inv, IInv, ghosts, links
<1> DEFINE c == conn[t]
<1>1. /\ pc[t] = "mark" /\ c \in Node /\ holder[c] = "pool" /\ state[c] = CONN_FREE
      /\ rx_queue[c] # Nil
  BY DEF Mark, At, TypeOK, Allocating, StateTells, HasQueue
<1>2. /\ UNCHANGED <<alive, conf, next, prev, type, rx_queue, conn_mutex,
                     outer, linked>>
      /\ state' = [state EXCEPT ![c] = CONN_CLOSED]
      /\ kin' = [kin EXCEPT ![c] = NoKin]
      /\ attr' = [attr EXCEPT ![c] = def_conn_attr]
      /\ holder' = [holder EXCEPT ![c] = "user"]
      /\ spare' = [u \in Thread |-> spare[u] \ {c}]
      /\ pc' = [pc EXCEPT ![t] = "idle"]
      /\ conn' = [conn EXCEPT ![t] = Nil]
      /\ i' = [i EXCEPT ![t] = 0]
  BY DEF Mark, AllocReturn
<1> HIDE DEF c
<1>3. TypeOK'
  <2>1. attr' \in [Node -> [priority : Nat, lport : Nat \cup Head, rport : Nat]]
    BY <1>1, <1>2 DEF TypeOK, def_conn_attr
  <2>2. kin' \in [Node -> [kind : {"null", "children", "parent"}, conns : SUBSET Node]]
    BY <1>1, <1>2 DEF TypeOK, NoKin
  <2> QED BY <1>1, <1>2, <2>1, <2>2 DEF TypeOK
<1>4. \A u \in Thread \ {t} : pc[u] \notin {"unlock", "queue", "mark"}
  BY <1>1, OneOpener DEF Allocating, OneOpener, Freeing
<1>5. Allocating' /\ StateTells'
  BY <1>1, <1>2, <1>4 DEF TypeOK, Allocating, StateTells, Freeing
<1>6. Frames' /\ Outers'
  BY <1>1, <1>2 DEF TypeOK, Frames, Outers, Freeing
<1>7. CalledIsFreed'
  BY <1>1, <1>2 DEF TypeOK, CalledIsFreed, BeingFreed
<1>8. \A x \in Node : WaitsAt(x)' = WaitsAt(x) /\ c \notin WaitsAt(x)
  BY <1>1, <1>2 DEF TypeOK, Servers, WaitsAt, NoKin
<1>9. Queues'
  BY <1>1, <1>2, <1>8 DEF TypeOK, Queues
<1>10. Servers' /\ HasQueue'
  BY <1>1, <1>2, <1>4, <1>8 DEF TypeOK, Servers, HasQueue
<1>11. SpareAhead'
  BY <1>1, <1>2 DEF TypeOK, SpareAhead, Slots, Freeing
<1>12. Moves
  BY <1>1, <1>2, <1>8 DEF TypeOK, Moves, Granted, SameQueues
<1> QED BY <1>3, <1>5, <1>6, <1>7, <1>9, <1>10, <1>11, <1>12

(* lsp_conn_free of a connection that its user holds.                      *)
LEMMA CallFreeStep == ASSUME Inv, NEW t \in Thread, CallFree(t) PROVE Inv' /\ Moves
<1> USE Constants DEF Inv, IInv, fields, ghosts, links
<1>1. PICK c \in Node : /\ holder[c] = "user"
                        /\ holder' = [holder EXCEPT ![c] = "call"]
                        /\ conn' = [conn EXCEPT ![t] = c]
  BY DEF CallFree
<1>2. /\ pc[t] = "idle" /\ pc' = [pc EXCEPT ![t] = "free"]
      /\ UNCHANGED <<alive, conf, next, prev, state, type, attr, rx_queue, kin,
                     conn_mutex, i, outer, spare, linked>>
  BY DEF CallFree, At
<1>3. TypeOK' /\ StateTells'
  BY <1>1, <1>2 DEF TypeOK, StateTells
<1>4. Allocating' /\ HasQueue'
  BY <1>1, <1>2 DEF TypeOK, Allocating, HasQueue, Freeing
<1>5. Frames'
  BY <1>1, <1>2 DEF TypeOK, Frames, Outers, Freeing
<1>6. Outers' /\ CalledIsFreed'
  BY <1>1, <1>2 DEF TypeOK, Outers, CalledIsFreed, BeingFreed
<1>7. \A x \in Node : WaitsAt(x)' = WaitsAt(x)
  BY <1>2 DEF WaitsAt
<1>8. Queues' /\ Servers'
  BY <1>1, <1>2, <1>7 DEF TypeOK, Queues, Servers
<1>9. SpareAhead'
  BY <1>1, <1>2 DEF TypeOK, SpareAhead, Slots, Freeing
<1>10. Moves
  BY <1>1, <1>2, <1>7 DEF TypeOK, Moves, SameOut, SameQueues
<1> QED BY <1>3, <1>4, <1>5, <1>6, <1>8, <1>9, <1>10

(* lsp_conn_free ends for a connection, and goes on with the server in     *)
(* whose queue it was, if any.                                             *)
LEMMA ReturnStep ==
  ASSUME Inv, NEW t \in Thread, pc[t] \in Freeing,
         NEW to \in {"pool", "lost"}, FreeReturn(t, conn[t], to),
         to = "pool" => \A x \in Node : conn[t] \notin WaitsAt(x),
         state' = IF to = "pool" THEN [state EXCEPT ![conn[t]] = CONN_FREE]
                                 ELSE state,
         UNCHANGED <<alive, conf, links, type, attr, rx_queue, kin, conn_mutex,
                     i, spare, linked>>
  PROVE  Inv' /\ Moves
<1> USE Constants DEF Inv, IInv, links
<1> DEFINE c == conn[t]
<1>1. /\ c \in Node /\ c # Nil /\ holder[c] = "call"
      /\ holder' = [holder EXCEPT ![c] = to]
      /\ conn' = [conn EXCEPT ![t] = outer[c]]
      /\ outer' = [outer EXCEPT ![c] = Nil]
      /\ pc' = [pc EXCEPT ![t] = IF outer[c] = Nil THEN "idle" ELSE "children"]
  BY DEF FreeReturn, Frames, TypeOK
<1>2. to = "pool" => \A x \in Node : c \notin WaitsAt(x)
  OBVIOUS
<1>3. state' = IF to = "pool" THEN [state EXCEPT ![c] = CONN_FREE] ELSE state
  OBVIOUS
<1>4. outer[c] # c
  BY <1>1 DEF Frames
<1>5. /\ \A x \in Node : outer[x] # c
      /\ \A u \in Thread : u # t /\ pc[u] \in Freeing => conn[u] # c
  BY <1>1 DEF Frames
<1> HIDE DEF c
<1>6. TypeOK'
  <2>1. state' \in [Node -> CONN_FREE .. CONN_CONNECTED]
    <3>1. [state EXCEPT ![c] = CONN_FREE] \in [Node -> CONN_FREE .. CONN_CONNECTED]
      BY <1>1 DEF TypeOK
    <3> QED BY <1>3, <3>1 DEF TypeOK
  <2>2. /\ outer' \in [Node -> Node \cup {Nil}]
        /\ conn' \in [Thread -> Node \cup {Nil}]
    BY <1>1 DEF TypeOK
  <2>3. pc' \in [Thread -> {"idle", "lock", "search", "unlock", "queue", "mark",
                           "free", "flush", "children"}]
    BY <1>1 DEF TypeOK
  <2>4. holder' \in [Node -> {"pool", "user", "call", "queue", "lost"}]
    BY <1>1 DEF TypeOK
  <2> QED BY <2>1, <2>2, <2>3, <2>4 DEF TypeOK
<1>7. StateTells'
  BY <1>1, <1>3 DEF TypeOK, StateTells
<1>8. Allocating' /\ HasQueue'
  BY <1>1 DEF TypeOK, Allocating, HasQueue, Freeing
<1>9. Frames'
  BY <1>1, <1>4, <1>5 DEF TypeOK, Frames, Outers, Freeing
<1>10. Outers'
  BY <1>1, <1>5 DEF TypeOK, Outers
<1>11. CalledIsFreed'
  <2> SUFFICES ASSUME NEW d \in Node, holder'[d] = "call" PROVE BeingFreed(d)'
    BY DEF CalledIsFreed
  <2>1. d # c /\ holder[d] = "call"
    BY <1>1 DEF TypeOK
  <2>2. \/ \E u \in Thread : conn[u] = d /\ pc[u] \in Freeing
        \/ \E x \in Node : outer[x] = d
    BY <2>1 DEF CalledIsFreed, BeingFreed, Freeing
  <2> QED BY <1>1, <2>1, <2>2, c = conn[t] DEF TypeOK, BeingFreed, Freeing, c
<1>12. \A x \in Node : WaitsAt(x)' = WaitsAt(x)
  BY DEF WaitsAt
<1>13. Queues'
  BY <1>1, <1>12 DEF TypeOK, Queues
<1>14. Servers'
  BY <1>1, <1>2, <1>3, <1>12 DEF TypeOK, Servers, WaitsAt
<1>15. SpareAhead'
  BY <1>1, <1>3 DEF TypeOK, SpareAhead, Slots, Freeing
<1>16. Moves
  <2>1. CASE to = "pool"
    <3>1. WaitsAt(c) = {}
      BY <1>1 DEF Queues, WaitsAt
    <3>2. Returned(c)
      BY <1>1, <1>2, <1>12, <2>1, <3>1 DEF TypeOK, Returned, SameQueues
    <3> QED BY <1>1, <3>2 DEF Moves
  <2>2. CASE to = "lost"
    BY <1>1, <1>12, <2>2 DEF TypeOK, Moves, SameOut, SameQueues
  <2> QED BY <2>1, <2>2
<1> QED BY <1>6, <1>7, <1>8, <1>9, <1>10, <1>11, <1>13, <1>14, <1>15, <1>16

(* lsp_conn_free up to the flush, with lsp_conn_close.                     *)
LEMMA FreeStep == ASSUME Inv, NEW t \in Thread, Free(t) PROVE Inv' /\ Moves
<1> USE Constants DEF Inv, IInv
<1> DEFINE c == conn[t]
<1>1. /\ pc[t] = "free" /\ pc[t] \in Freeing
      /\ c \in Node /\ c # Nil /\ holder[c] = "call"
      /\ UNCHANGED <<conf, type, attr, rx_queue, kin, conn_mutex, i, spare>>
  BY DEF Free, At, Frames, TypeOK, Freeing
<1>2. CASE /\ pc' = [pc EXCEPT ![t] = "children"]
           /\ UNCHANGED <<conn, outer, holder, alive, links, state, linked>>
  <2>1. TypeOK' /\ Allocating' /\ HasQueue'
    BY <1>1, <1>2 DEF links, TypeOK, Allocating, HasQueue, Freeing
  <2>2. Frames' /\ CalledIsFreed'
    BY <1>1, <1>2 DEF TypeOK, Frames, CalledIsFreed, BeingFreed, Freeing
  <2>3. UNCHANGED <<StateTells, Outers, Queues, Servers>>
    BY <1>1, <1>2 DEF StateTells, Outers, Queues, Servers, WaitsAt
  <2>4. SpareAhead'
    BY <1>1, <1>2 DEF TypeOK, SpareAhead, Slots, Freeing
  <2>5. Moves
    BY <1>1, <1>2 DEF Moves, SameOut, SameQueues, WaitsAt
  <2> QED BY <2>1, <2>2, <2>3, <2>4, <2>5
<1>3. CASE FreeReturn(t, c, "lost") /\ UNCHANGED <<alive, links, state, linked>>
  BY <1>1, <1>3, ReturnStep
<1>4. CASE Close(t, c)
  <2>1. /\ state[c] > CONN_CLOSED /\ state' = [state EXCEPT ![c] = CONN_CLOSED]
        /\ pc' = [pc EXCEPT ![t] = "flush"] /\ UNCHANGED <<conn, outer, holder>>
    BY <1>4 DEF Close
  <2>2. /\ next' \in [Cell -> Cell \cup {Nil}] /\ prev' \in [Cell -> Cell \cup {Nil}]
        /\ alive' \in BOOLEAN
    BY <1>1, <1>4, ListDelType DEF Close, links, TypeOK
  <2>3. linked' \in [Head -> SUBSET Node]
    BY <1>4 DEF Close, TypeOK
  <2> HIDE DEF c
  <2>4. TypeOK'
    BY <1>1, <2>1, <2>2, <2>3 DEF TypeOK
  <2>5. Allocating' /\ HasQueue' /\ StateTells'
    BY <1>1, <2>1 DEF TypeOK, Allocating, HasQueue, StateTells, Freeing
  <2>6. Frames' /\ CalledIsFreed'
    BY <1>1, <2>1 DEF TypeOK, Frames, CalledIsFreed, BeingFreed, Freeing
  <2>7. Outers' /\ Queues'
    BY <1>1, <2>1 DEF Outers, Queues, WaitsAt
  <2>8. Servers'
    BY <1>1, <2>1 DEF TypeOK, Servers, WaitsAt
  <2>9. \A u \in Thread : c \notin spare[u]
    BY <1>1, <2>1 DEF TypeOK, SpareAhead
  <2>10. SpareAhead'
    BY <1>1, <2>1, <2>9 DEF TypeOK, SpareAhead, Slots, Freeing
  <2>11. Moves
    BY <1>1, <2>1 DEF Moves, SameOut, SameQueues, WaitsAt
  <2> QED BY <2>4, <2>5, <2>6, <2>7, <2>8, <2>10, <2>11
<1> QED BY <1>2, <1>3, <1>4 DEF Free, FreeClosed

(* A child taken from its server's queue to be freed waits nowhere else.   *)
LEMMA FreeChildStep ==
  ASSUME Inv, NEW t \in Thread, NEW x \in Node,
         pc[t] = "children", x \in kin[conn[t]].conns,
         kin[conn[t]].kind = "children",
         kin' = [kin EXCEPT ![conn[t]].conns = @ \ {x}],
         conn' = [conn EXCEPT ![t] = x],
         outer' = [outer EXCEPT ![x] = conn[t]],
         holder' = [holder EXCEPT ![x] = "call"],
         pc' = [pc EXCEPT ![t] = "free"],
         UNCHANGED <<alive, conf, links, state, type, attr, rx_queue,
                     conn_mutex, i, spare, linked>>
  PROVE  Inv' /\ Moves
<1> USE Constants DEF Inv, IInv, links
<1> DEFINE c == conn[t]
<1>1. c \in Node /\ c # Nil /\ holder[c] = "call"
  BY DEF Frames, TypeOK, Freeing
<1>2. c \in WaitsAt(x)
  BY <1>1 DEF WaitsAt
<1>3. /\ holder[x] = "queue" /\ x # c /\ x # Nil /\ outer[x] = Nil
      /\ WaitsAt(x) = {c}
  BY <1>1, <1>2 DEF Queues, Outers, WaitsAt
<1>4. /\ \A y \in Node : outer[y] # c /\ outer[y] # x
      /\ \A u \in Thread : pc[u] \in Freeing /\ conn[u] = c => u = t
      /\ \A u \in Thread : pc[u] \in Freeing => conn[u] # x
  BY <1>1, <1>3 DEF Frames, Outers, Freeing
<1>5. /\ conn' = [conn EXCEPT ![t] = x]
      /\ outer' = [outer EXCEPT ![x] = c]
      /\ kin' = [kin EXCEPT ![c].conns = @ \ {x}]
      /\ kin[c] \in [kind : {"null", "children", "parent"}, conns : SUBSET Node]
      /\ kin[c].kind = "children" /\ c = conn[t]
  BY <1>1 DEF TypeOK
<1> HIDE DEF c
<1>6. kin \in [Node -> Kin] /\ kin[c].conns \ {x} \in SUBSET Node
  BY <1>5 DEF TypeOK, Kin
<1>7. /\ kin' = [y \in Node |-> IF y = c THEN Children(kin[c].conns \ {x}) ELSE kin[y]]
      /\ kin' \in [Node -> Kin]
  <2> DEFINE k == [kin EXCEPT ![c].conns = kin[c].conns \ {x}]
  <2>1. /\ k = [y \in Node |-> IF y = c THEN Children(kin[c].conns \ {x}) ELSE kin[y]]
        /\ k \in [Node -> Kin]
    <3>1. c \in Node /\ kin[c].kind = "children"
      BY <1>1, <1>5
    <3> HIDE DEF Inv, IInv
    <3> QED BY <1>6, <3>1, KinUpdate
  <2>2. kin' = k
    BY <1>5
  <2> QED BY <2>1, <2>2
<1>8. TypeOK'
  BY <1>1, <1>5, <1>7 DEF TypeOK, Kin
<1>9. StateTells' /\ HasQueue'
  BY <1>3, <1>5 DEF TypeOK, StateTells, HasQueue
<1>10. Allocating'
  BY <1>3, <1>5 DEF TypeOK, Allocating, Freeing
<1>11. Frames'
  BY <1>1, <1>3, <1>4, <1>5 DEF TypeOK, Frames, Freeing
<1>12. Outers'
  BY <1>1, <1>3, <1>4, <1>5 DEF TypeOK, Outers
<1>13. CalledIsFreed'
  <2> SUFFICES ASSUME NEW d \in Node, holder'[d] = "call" PROVE BeingFreed(d)'
    BY DEF CalledIsFreed
  <2>1. CASE d = x
    BY <1>5, <2>1 DEF TypeOK, BeingFreed, Freeing
  <2>2. CASE d = c
    BY <1>5, <2>2 DEF TypeOK, BeingFreed, Freeing
  <2>3. CASE d # x /\ d # c
    <3>1. BeingFreed(d)
      BY <2>3 DEF TypeOK, CalledIsFreed
    <3> QED BY <1>3, <1>5, <2>3, <3>1 DEF TypeOK, BeingFreed, Freeing
  <2> QED BY <2>1, <2>2, <2>3
<1>14. \A y \in Node : WaitsAt(y)' = IF y = x THEN {} ELSE WaitsAt(y)
  <2>1. \A y, s \in Node : s \in WaitsAt(y)' <=> s \in WaitsAt(y)
                             /\ ~(s = c /\ y = x)
    BY <1>5, <1>7 DEF WaitsAt, Children
  <2> QED BY <1>3, <2>1 DEF WaitsAt
<1>15. Queues'
  <2>1. \A y \in Node : holder'[y] = "queue" =>
          holder[y] = "queue" /\ y # x /\ y # c
    BY <1>1 DEF TypeOK
  <2>2. \A y \in Node : y # x => holder'[y] = holder[y]
    BY <1>5 DEF TypeOK
  <2> QED BY <1>3, <1>7, <1>14, <2>1, <2>2 DEF Queues, Children
<1>16. Servers'
  <2>1. \A y \in Node : /\ kin'[y].kind = kin[y].kind
                       /\ holder'[y] = "pool" => holder[y] = "pool"
    BY <1>5, <1>7 DEF TypeOK, Children
  <2>2. \A y, s \in Node : s \in WaitsAt(y)' => s \in WaitsAt(y)
    BY <1>14
  <2> QED BY <2>1, <2>2 DEF Servers
<1>17. SpareAhead'
  BY <1>5 DEF TypeOK, SpareAhead, Slots, Freeing
<1>18. Moves
  <2>1. SameOut
    BY <1>3, <1>5 DEF TypeOK, SameOut
  <2>2. Left(c, x)
    BY <1>2, <1>14, <2>1 DEF Left
  <2> QED BY <1>1, <2>2 DEF Moves
<1> QED BY <1>8, <1>9, <1>10, <1>11, <1>12, <1>13, <1>15, <1>16, <1>17, <1>18

(* The end of lsp_conn_free: a server goes back only after its children.   *)
LEMMA FreeChildrenStep == ASSUME Inv, NEW t \in Thread, FreeChildren(t) PROVE Inv' /\ Moves
<1> USE Constants
<1> DEFINE c == conn[t]
<1>1. /\ pc[t] = "children" /\ pc[t] \in Freeing /\ c \in Node
      /\ UNCHANGED <<conf, links, type, attr, rx_queue, conn_mutex, i, spare,
                     linked>>
  BY DEF Inv, IInv, TypeOK, Frames, FreeChildren, At, Freeing
<1>2. CASE /\ alive' = FALSE /\ UNCHANGED <<state, kin, pc, conn, outer, holder>>
  <2> USE DEF Inv, IInv
  <2>1. TypeOK'
    BY <1>1, <1>2 DEF TypeOK, links
  <2>2. UNCHANGED <<Allocating, StateTells, Frames, Outers, CalledIsFreed>>
    BY <1>1, <1>2 DEF Allocating, StateTells, Frames, Outers, CalledIsFreed,
                      BeingFreed
  <2>3. UNCHANGED <<Queues, Servers, HasQueue, SpareAhead>>
    BY <1>1, <1>2 DEF Queues, Servers, HasQueue, SpareAhead, WaitsAt, Slots
  <2>4. Moves
    BY <1>2 DEF Moves, SameOut, SameQueues, WaitsAt
  <2> QED BY <2>1, <2>2, <2>3, <2>4
<1>3. CASE /\ kin[c].kind = "children"
           /\ \E x \in kin[c].conns :
                /\ kin' = [kin EXCEPT ![c].conns = @ \ {x}]
                /\ conn' = [conn EXCEPT ![t] = x]
                /\ outer' = [outer EXCEPT ![x] = c]
                /\ holder' = [holder EXCEPT ![x] = "call"]
           /\ pc' = [pc EXCEPT ![t] = "free"]
           /\ UNCHANGED <<alive, state>>
  <2>1. PICK x \in kin[c].conns :
                /\ kin' = [kin EXCEPT ![c].conns = @ \ {x}]
                /\ conn' = [conn EXCEPT ![t] = x]
                /\ outer' = [outer EXCEPT ![x] = c]
                /\ holder' = [holder EXCEPT ![x] = "call"]
    BY <1>3
  <2>2. x \in Node
    BY <1>1 DEF Inv, TypeOK
  <2> QED BY <1>1, <1>3, <2>1, <2>2, FreeChildStep
<1>4. CASE FreeSlot(t, c)
  <2>1. \A x \in Node : c \notin WaitsAt(x)
    <3> SUFFICES ASSUME NEW x \in Node, c \in WaitsAt(x) PROVE FALSE
      OBVIOUS
    <3>1. type[c] = CONN_SERVER /\ x \in kin[c].conns
      BY <1>1 DEF Inv, IInv, Servers, WaitsAt
    <3>2. kin[c] = Children({})
      BY <1>4, <3>1 DEF FreeSlot
    <3> QED BY <3>1, <3>2 DEF Children
  <2> QED BY <1>1, <1>4, <2>1, ReturnStep DEF FreeSlot
<1> QED BY <1>2, <1>3, <1>4 DEF FreeChildren, FreeChild

(* The calls that change nothing but attributes.                           *)
LEMMA AttrStep ==
  ASSUME Inv,
         attr' \in [Node -> [priority : Nat, lport : Nat \cup Head, rport : Nat]],
         alive' \in BOOLEAN,
         UNCHANGED <<conf, links, state, type, rx_queue, kin, conn_mutex,
                     calls, ghosts>>
  PROVE  Inv'
<1> USE DEF Inv, IInv, links, calls, ghosts
<1>1. TypeOK'
  BY DEF TypeOK
<1>2. UNCHANGED <<Allocating, StateTells, Frames, Outers, CalledIsFreed>>
  BY DEF Allocating, StateTells, Frames, Outers, CalledIsFreed, BeingFreed
<1>3. UNCHANGED <<Queues, Servers, HasQueue, SpareAhead>>
  BY DEF Queues, Servers, HasQueue, SpareAhead, WaitsAt, Slots
<1> QED BY <1>1, <1>2, <1>3

(* Among them those that store a port.                                     *)
LEMMA AttrActions ==
  ASSUME Inv, Configure \/ \E t \in Thread : Bind(t) \/ Connect(t)
  PROVE  Inv'
<1> USE Constants DEF Inv
<1> DEFINE A == [priority : Nat, lport : Nat \cup Head, rport : Nat]
<1>1. attr \in [Node -> A]
  BY DEF TypeOK
<1>2. ASSUME NEW t \in Thread, Bind(t) PROVE Inv'
  <2>1. PICK c \in Node : attr' \in {attr, [attr EXCEPT ![c].lport = AnyPort]}
    BY <1>2 DEF Bind, Held
  <2>2. [attr EXCEPT ![c].lport = AnyPort] \in [Node -> A]
    BY <1>1 DEF AnyPort
  <2>3. alive' \in BOOLEAN
    BY <1>2 DEF Bind, TypeOK
  <2> QED BY <1>1, <1>2, <2>1, <2>2, <2>3, AttrStep DEF Bind
<1>3. ASSUME NEW t \in Thread, Connect(t) PROVE Inv'
  <2>1. PICK c \in Node : attr' \in {attr, [attr EXCEPT ![c].rport = AnyPort]}
    BY <1>3 DEF Connect, Held
  <2>2. [attr EXCEPT ![c].rport = AnyPort] \in [Node -> A]
    BY <1>1 DEF AnyPort
  <2>3. alive' \in BOOLEAN
    BY <1>3 DEF Connect, TypeOK
  <2> QED BY <1>1, <1>3, <2>1, <2>2, <2>3, AttrStep DEF Connect
<1>4. CASE Configure
  <2>1. PICK c \in Node, p \in Head, n \in Priorities :
          attr' = [attr EXCEPT ![c].priority = n, ![c].lport = p]
    BY <1>4 DEF Configure, Closed
  <2>2. attr' \in [Node -> A]
    BY <1>1, <2>1
  <2>3. alive' \in BOOLEAN
    BY <1>4 DEF Configure, TypeOK
  <2> QED BY <1>4, <2>2, <2>3, AttrStep DEF Configure
<1> QED BY <1>2, <1>3, <1>4

(* The queue of received buffers, filled and flushed.                      *)
LEMMA RxqStep == ASSUME Inv, RxqPush PROVE Inv'
<1> USE Constants DEF Inv, IInv, links, calls, ghosts
<1>1. PICK c \in Node : /\ holder[c] = "user" /\ rx_queue[c] < conf.conn_queuelen
                        /\ rx_queue' = [rx_queue EXCEPT ![c] = @ + 1]
  BY DEF RxqPush
<1>2. UNCHANGED <<alive, conf, next, prev, state, type, attr, kin, conn_mutex,
                  pc, conn, i, outer, holder, spare, linked>>
  BY DEF RxqPush
<1>3. rx_queue[c] \in Nat /\ conf.conn_queuelen \in Nat
  BY <1>1, ConfType DEF TypeOK, HasQueue, Conf
<1>4. TypeOK'
  BY <1>1, <1>2, <1>3 DEF TypeOK
<1>5. HasQueue'
  BY <1>1, <1>2, <1>3 DEF TypeOK, HasQueue
<1>6. UNCHANGED <<Allocating, StateTells, Frames, Outers, CalledIsFreed>>
  BY <1>2 DEF Allocating, StateTells, Frames, Outers, CalledIsFreed, BeingFreed
<1>7. UNCHANGED <<Queues, Servers, SpareAhead>>
  BY <1>2 DEF Queues, Servers, SpareAhead, WaitsAt, Slots
<1> QED BY <1>4, <1>5, <1>6, <1>7

(* A flush of an empty queue never returns.                                *)
LEMMA FlushStep == ASSUME Inv, NEW t \in Thread, Flush(t) PROVE Inv'
<1> USE Constants DEF Inv, IInv, links, ghosts
<1>1. /\ pc[t] = "flush" /\ conn[t] \in Node /\ holder[conn[t]] = "call"
      /\ UNCHANGED <<conf, next, prev, state, type, attr, kin, conn_mutex, conn,
                     i, outer, holder, spare, linked>>
  BY DEF Flush, At, Frames, TypeOK, Freeing
<1>2. /\ conf.conn_queuelen \in Nat
      /\ rx_queue[conn[t]] \in 0 .. conf.conn_queuelen
  <2>1. conf.conn_queuelen \in Nat
    BY ConfType DEF TypeOK, Conf
  <2>2. rx_queue[conn[t]] \in {Nil} \cup 0 .. conf.conn_queuelen
    BY <1>1 DEF TypeOK
  <2>3. rx_queue[conn[t]] # Nil
    BY <1>1 DEF HasQueue
  <2> QED BY <2>1, <2>2, <2>3
<1>3. UNCHANGED <<StateTells, Outers, Queues, Servers>>
  BY <1>1 DEF StateTells, Outers, Queues, Servers, WaitsAt
<1>4. CASE /\ rx_queue[conn[t]] > 0 /\ alive' = alive
           /\ rx_queue' = [rx_queue EXCEPT ![conn[t]] = @ - 1]
           /\ pc' = [pc EXCEPT ![t] = "children"]
  <2>1. TypeOK'
    BY <1>1, <1>2, <1>4 DEF TypeOK
  <2>2. Allocating' /\ HasQueue'
    BY <1>1, <1>2, <1>4 DEF TypeOK, Allocating, HasQueue, Freeing
  <2>3. Frames' /\ CalledIsFreed'
    BY <1>1, <1>4 DEF TypeOK, Frames, CalledIsFreed, BeingFreed, Freeing
  <2>4. SpareAhead'
    BY <1>1, <1>4 DEF TypeOK, SpareAhead, Slots, Freeing
  <2> QED BY <1>3, <2>1, <2>2, <2>3, <2>4
<1>5. CASE alive' = FALSE /\ rx_queue' = rx_queue /\ pc' = pc
  <2>1. TypeOK'
    BY <1>1, <1>5 DEF TypeOK
  <2>2. UNCHANGED <<Allocating, Frames, CalledIsFreed, HasQueue, SpareAhead>>
    BY <1>1, <1>5 DEF Allocating, Frames, CalledIsFreed, BeingFreed, HasQueue,
                      SpareAhead, Slots
  <2> QED BY <1>3, <2>1, <2>2
<1> QED BY <1>4, <1>5 DEF Flush

(* lsp_listen, where no one waits yet.                                     *)
LEMMA ListenStep == ASSUME Inv, NEW t \in Thread, ListenOnce(t) PROVE Inv' /\ Moves
<1> USE Constants DEF Inv, IInv, links, calls
<1>1. PICK c \in Node : /\ holder[c] = "user" /\ state[c] = CONN_CLOSED
                        /\ kin[c] = NoKin /\ Listen(t, c)
  BY DEF ListenOnce, Held
<1>2. UNCHANGED <<conf, state, attr, rx_queue, conn_mutex, pc, conn, i, outer,
                  holder, spare>>
  BY <1>1 DEF Listen
<1>3. UNCHANGED <<Allocating, StateTells, Frames, Outers, CalledIsFreed>>
  BY <1>2 DEF Allocating, StateTells, Frames, Outers, CalledIsFreed, BeingFreed
<1>4. UNCHANGED <<HasQueue, SpareAhead>>
  BY <1>2 DEF HasQueue, SpareAhead, Slots
<1>5. CASE UNCHANGED <<alive, next, prev, type, kin, linked>>
  <2>1. TypeOK'
    BY <1>2, <1>5 DEF TypeOK
  <2>2. UNCHANGED <<Queues, Servers>>
    BY <1>2, <1>5 DEF Queues, Servers, WaitsAt
  <2>3. Moves
    BY <1>2, <1>5 DEF Moves, SameOut, SameQueues, WaitsAt
  <2> QED BY <1>3, <1>4, <2>1, <2>2, <2>3
<1>6. CASE /\ attr[c].lport \in Head
           /\ type' = [type EXCEPT ![c] = CONN_LISTEN]
           /\ ListenQueue(c, attr[c].lport) \/ NoQueue(c)
  <2> DEFINE p == attr[c].lport
  <2>1. /\ p \in Head /\ p \in Cell /\ c \in Cell
        /\ type' = [type EXCEPT ![c] = CONN_LISTEN]
        /\ ListenQueue(c, p) \/ NoQueue(c)
    BY <1>1, <1>6
  <2> HIDE DEF p
  <2>2. kin' = [kin EXCEPT ![c] = Children({})] \/ kin' = [kin EXCEPT ![c] = NoKin]
    BY <2>1 DEF ListenQueue, NoQueue
  <2>3. \/ LinkFirst(c, p) \/ LinkByPriority(c, p)
        \/ UNCHANGED <<alive, next, prev, linked>>
    BY <2>1 DEF ListenQueue, NoQueue, LinkNowhere
  <2>4. /\ next' \in [Cell -> Cell \cup {Nil}] /\ prev' \in [Cell -> Cell \cup {Nil}]
        /\ alive' \in BOOLEAN /\ linked' \in [Head -> SUBSET Node]
    <3>1. CASE LinkFirst(c, p)
      <4>1. next[p] \in Cell \cup {Nil} /\ ListAdd(c, p, next[p])
        BY <2>1, <3>1 DEF LinkFirst, AddFront, TypeOK
      <4>2. /\ next' \in [Cell -> Cell \cup {Nil}]
            /\ prev' \in [Cell -> Cell \cup {Nil}]
        BY <2>1, <4>1, ListAddType DEF TypeOK
      <4> QED BY <2>1, <3>1, <4>2 DEF LinkFirst, LinkAt, TypeOK
    <3>2. CASE LinkByPriority(c, p)
      <4>1. PICK k \in Lower(c, p) : InsertBefore(c, Walk(p)[k])
        BY <3>2 DEF LinkByPriority
      <4>2. Walk(p)[k] \in Cell
        BY DEF Lower
      <4>3. ListAdd(c, prev[Walk(p)[k]], Walk(p)[k])
        BY <4>1 DEF InsertBefore
      <4>4. /\ next' \in [Cell -> Cell \cup {Nil}]
            /\ prev' \in [Cell -> Cell \cup {Nil}]
        BY <2>1, <4>2, <4>3, ListAddType DEF TypeOK
      <4> QED BY <2>1, <3>2, <4>4 DEF LinkByPriority, LinkAt, TypeOK
    <3> QED BY <2>3, <3>1, <3>2 DEF TypeOK
  <2>5. kin' \in [Node -> [kind : {"null", "children", "parent"}, conns : SUBSET Node]]
    BY <2>2 DEF TypeOK, NoKin, Children
  <2>6. TypeOK'
    BY <1>2, <2>1, <2>4, <2>5 DEF TypeOK
  <2>7. \A x \in Node : WaitsAt(x)' = WaitsAt(x) /\ c \notin WaitsAt(x)
    <3>1. /\ \A r \in Node : r # c => kin'[r] = kin[r]
          /\ kin'[c].conns = {} /\ kin[c].conns = {}
      BY <1>1, <2>2 DEF TypeOK, NoKin, Children
    <3> QED BY <3>1 DEF WaitsAt
  <2>8. Queues'
    BY <1>1, <1>2, <2>2, <2>7 DEF TypeOK, Queues
  <2>9. Servers'
    BY <1>1, <1>2, <2>1, <2>2, <2>7 DEF TypeOK, Servers
  <2>10. Moves
    BY <1>2, <2>7 DEF Moves, SameOut, SameQueues
  <2> QED BY <1>3, <1>4, <2>6, <2>8, <2>9, <2>10
<1> QED BY <1>1, <1>5, <1>6 DEF Listen

(* lsp_accept: the child leaves the queue of the server.                   *)
LEMMA AcceptStep == ASSUME Inv, NEW t \in Thread, Accept(t) PROVE Inv' /\ Moves
<1> USE Constants DEF Inv, IInv, links, calls
<1>1. PICK s \in Node : /\ holder[s] = "user" /\ type[s] = CONN_SERVER
                        /\ state[s] = CONN_LISTEN
                        /\ AcceptChild(s) \/ AcceptNothing
  BY DEF Accept, Held
<1>2. UNCHANGED <<conf, next, prev, state, attr, rx_queue, conn_mutex, pc, conn,
                  i, outer, spare, linked>>
  BY DEF Accept
<1>3. CASE alive' = FALSE /\ UNCHANGED <<type, kin, holder>>
  <2>1. TypeOK'
    BY <1>2, <1>3 DEF TypeOK
  <2>2. UNCHANGED <<Allocating, StateTells, Frames, Outers, CalledIsFreed>>
    BY <1>2, <1>3 DEF Allocating, StateTells, Frames, Outers, CalledIsFreed,
                      BeingFreed
  <2>3. UNCHANGED <<Queues, Servers, HasQueue, SpareAhead>>
    BY <1>2, <1>3 DEF Queues, Servers, HasQueue, SpareAhead, WaitsAt, Slots
  <2>4. Moves
    BY <1>3 DEF Moves, SameOut, SameQueues, WaitsAt
  <2> QED BY <2>1, <2>2, <2>3, <2>4
<1>4. CASE AcceptChild(s)
  <2>1. kin[s].kind = "children" /\ kin[s].conns \in SUBSET Node
    BY <1>1 DEF TypeOK, Servers
  <2>2. PICK c \in kin[s].conns :
          /\ type' = [type EXCEPT ![c] = CONN_CHILD]
          /\ kin' = [kin EXCEPT ![s].conns = @ \ {c}, ![c] = Parent(s)]
          /\ holder' = [holder EXCEPT ![c] = "user"] /\ alive' = alive
    BY <1>4 DEF AcceptChild
  <2>3. /\ c \in Node /\ s \in WaitsAt(c) /\ holder[c] = "queue" /\ c # s
        /\ WaitsAt(c) = {s} /\ kin[c] = NoKin
    BY <1>1, <2>1, <2>2 DEF Queues, WaitsAt
  <2>4. /\ kin' = [y \in Node |-> IF y = c THEN Parent(s)
                                 ELSE IF y = s THEN Children(kin[s].conns \ {c})
                                 ELSE kin[y]]
        /\ kin' \in [Node -> Kin]
    <3> DEFINE k == [kin EXCEPT ![s].conns = kin[s].conns \ {c}]
    <3>1. kin \in [Node -> Kin]
      BY DEF TypeOK, Kin
    <3>2. /\ k = [y \in Node |-> IF y = s THEN Children(kin[s].conns \ {c})
                                 ELSE kin[y]]
          /\ k \in [Node -> Kin]
      BY <1>1, <2>1, <3>1, KinUpdate
    <3>3. kin' = [k EXCEPT ![c] = Parent(s)]
      BY <2>2
    <3>4. Parent(s) \in Kin
      BY <1>1 DEF Parent, Kin
    <3> HIDE DEF k
    <3> QED BY <2>3, <3>2, <3>3, <3>4
  <2>5. TypeOK'
    BY <1>2, <2>2, <2>3, <2>4 DEF TypeOK, Kin
  <2>6. \A x \in Node : WaitsAt(x)' = IF x = c THEN {} ELSE WaitsAt(x)
    <3>1. \A x, r \in Node : r \in WaitsAt(x)' <=> r \in WaitsAt(x) /\ x # c
      BY <2>1, <2>3, <2>4 DEF WaitsAt, NoKin, Parent, Children
    <3> QED BY <3>1 DEF WaitsAt
  <2>7. \A x \in Node : /\ x # c => holder'[x] = holder[x] /\ type'[x] = type[x]
                        /\ holder'[c] = "user"
    BY <2>2, <2>3 DEF TypeOK
  <2>8. /\ \A x \in Node : holder'[x] = "pool" <=> holder[x] = "pool"
        /\ \A x \in Node : holder'[x] = "call" <=> holder[x] = "call"
    BY <2>3, <2>7
  <2> HIDE DEF Inv, IInv
  <2>9. StateTells' /\ Outers' /\ HasQueue'
    <3>1. StateTells'
      BY <1>2, <2>8 DEF Inv, IInv, StateTells
    <3>2. Outers'
      <4>1. outer \in [Node -> Node \cup {Nil}]
        BY DEF Inv, TypeOK
      <4> QED BY <1>2, <2>8, <4>1 DEF Inv, IInv, Outers
    <3>3. HasQueue'
      BY <1>2, <2>8 DEF Inv, IInv, HasQueue
    <3> QED BY <3>1, <3>2, <3>3
  <2> USE DEF Inv, IInv
  <2>10. Allocating' /\ Frames'
    <3>1. Allocating'
      BY <1>2, <2>8 DEF TypeOK, Allocating, Freeing
    <3>2. Frames'
      <4>1. conn \in [Thread -> Node \cup {Nil}]
        BY DEF TypeOK
      <4> QED BY <1>2, <2>8, <4>1 DEF Frames, Freeing
    <3> QED BY <3>1, <3>2
  <2>11. CalledIsFreed'
    BY <1>2, <2>7 DEF CalledIsFreed, BeingFreed
  <2>12. Queues'
    BY <1>1, <2>3, <2>4, <2>6, <2>7 DEF Queues, Parent, Children
  <2>13. Servers'
    <3>1. state[c] # CONN_LISTEN /\ \A x \in Node : c \notin WaitsAt(x)
      <4>1. c \in Node /\ kin[c].kind # "children"
        BY <2>3 DEF NoKin
      <4>2. state[c] # CONN_LISTEN
        BY <4>1 DEF Servers
      <4> QED BY <4>1, <4>2 DEF WaitsAt
    <3>2. \A x, r \in Node : r \in WaitsAt(x)' => r \in WaitsAt(x) /\ r # c
      BY <2>6, <3>1
    <3>3. \A x \in Node : x # c => kin'[x].kind = kin[x].kind
      BY <2>1, <2>4 DEF Children
    <3> QED BY <1>2, <2>7, <3>1, <3>2, <3>3 DEF Servers
  <2>14. UNCHANGED SpareAhead
    BY <1>2 DEF SpareAhead, Slots
  <2>15. Moves
    BY <1>1, <2>3, <2>6, <2>8 DEF Moves, Left, SameOut
  <2> QED BY <2>15, <2>5, <2>9, <2>10, <2>11, <2>12, <2>13, <2>14
<1> QED BY <1>1, <1>3, <1>4 DEF AcceptNothing

(* The layer that is not written.                                          *)
LEMMA EstablishStep == ASSUME Inv, Establish PROVE Inv'
<1> USE Constants DEF Inv, IInv, links, calls, ghosts
<1>1. PICK c \in Closed : EstablishServer(c) \/ EstablishClient(c)
  BY DEF Establish
<1>2. UNCHANGED <<alive, conf, next, prev, attr, rx_queue, kin, conn_mutex, pc,
                  conn, i, outer, holder, spare, linked>>
  BY DEF Establish
<1>3. c \in Node /\ holder[c] = "user" /\ state[c] = CONN_CLOSED
  BY DEF Closed
<1>4. \/ /\ kin[c].kind = "children" /\ type' = [type EXCEPT ![c] = CONN_SERVER]
         /\ state' = [state EXCEPT ![c] = CONN_LISTEN]
      \/ type' = type /\ state' = [state EXCEPT ![c] = CONN_CONNECTED]
  BY <1>1 DEF EstablishServer, EstablishClient
<1>5. TypeOK'
  BY <1>2, <1>3, <1>4 DEF TypeOK
<1>6. StateTells'
  BY <1>2, <1>3, <1>4 DEF TypeOK, StateTells
<1>7. UNCHANGED <<Allocating, Frames, Outers, CalledIsFreed, Queues, HasQueue>>
  BY <1>2 DEF Allocating, Frames, Outers, CalledIsFreed, BeingFreed, Queues,
              WaitsAt, HasQueue
<1>8. Servers'
  BY <1>2, <1>3, <1>4 DEF TypeOK, Servers, WaitsAt
<1>9. \A u \in Thread : c \notin spare[u]
  BY <1>3 DEF SpareAhead
<1>10. SpareAhead'
  BY <1>2, <1>3, <1>4, <1>9 DEF TypeOK, SpareAhead, Slots
<1> QED BY <1>5, <1>6, <1>7, <1>8, <1>10

(* A connection that joins a queue was its user's until then.              *)
LEMMA OfferStep == ASSUME Inv, Offer PROVE Inv' /\ Moves
<1> USE Constants DEF Inv, IInv, links, calls
<1>1. PICK s \in Node, c \in Node :
        /\ s # c /\ holder[s] = "user" /\ holder[c] = "user"
        /\ state[s] = CONN_LISTEN /\ kin[c] = NoKin
        /\ kin' = [kin EXCEPT ![s].conns = @ \cup {c}]
        /\ holder' = [holder EXCEPT ![c] = "queue"]
  BY DEF Offer
<1>2. UNCHANGED <<alive, conf, next, prev, state, type, attr, rx_queue,
                  conn_mutex, pc, conn, i, outer, spare, linked>>
  BY DEF Offer
<1>3. /\ kin[s].kind = "children" /\ type[s] = CONN_SERVER
      /\ kin[s] \in [kind : {"null", "children", "parent"}, conns : SUBSET Node]
  BY <1>1 DEF TypeOK, Servers
<1>4. /\ kin' = [y \in Node |-> IF y = s THEN Children(kin[s].conns \cup {c})
                                ELSE kin[y]]
      /\ kin' \in [Node -> Kin]
  <2>1. kin \in [Node -> Kin] /\ kin[s].conns \cup {c} \in SUBSET Node
    BY <1>3 DEF TypeOK, Kin
  <2> DEFINE k == [kin EXCEPT ![s].conns = kin[s].conns \cup {c}]
  <2>2. /\ k = [y \in Node |-> IF y = s THEN Children(kin[s].conns \cup {c})
                               ELSE kin[y]]
        /\ k \in [Node -> Kin]
    BY <1>1, <1>3, <2>1, KinUpdate
  <2>3. kin' = k
    BY <1>1
  <2> QED BY <2>2, <2>3
<1>5. TypeOK'
  BY <1>1, <1>2, <1>4 DEF TypeOK, Kin
<1>6. WaitsAt(c) = {}
  BY <1>1 DEF Queues, WaitsAt
<1>7. \A x \in Node : WaitsAt(x)' = IF x = c THEN {s} ELSE WaitsAt(x)
  <2>1. \A x, r \in Node : r \in WaitsAt(x)' <=> r \in WaitsAt(x) \/ (x = c /\ r = s)
    BY <1>3, <1>4 DEF WaitsAt, Children
  <2>2. \A x \in Node : WaitsAt(x) \subseteq Node /\ WaitsAt(x)' \subseteq Node
    BY DEF WaitsAt
  <2>3. WaitsAt(c)' = {s}
    BY <1>6, <2>1, <2>2
  <2>4. \A x \in Node : x # c => WaitsAt(x)' = WaitsAt(x)
    BY <2>1, <2>2
  <2> QED BY <2>3, <2>4
<1>8. /\ holder' \in [Node -> {"pool", "user", "call", "queue", "lost"}]
      /\ \A x \in Node : x # c => holder'[x] = holder[x]
      /\ holder'[c] = "queue" /\ holder[c] = "user"
  BY <1>1 DEF TypeOK
<1>9. StateTells' /\ HasQueue'
  BY <1>2, <1>8 DEF StateTells, HasQueue, TypeOK
<1>10. Allocating' /\ Frames'
  <2>1. conn \in [Thread -> Node \cup {Nil}]
    BY DEF TypeOK
  <2>2. Allocating'
    BY <1>2, <1>8, <2>1 DEF Allocating, Freeing
  <2>3. Frames'
    BY <1>2, <1>8, <2>1 DEF Frames, Freeing
  <2> QED BY <2>2, <2>3
<1>11. Outers'
  <2>1. outer \in [Node -> Node \cup {Nil}]
    BY DEF TypeOK
  <2> QED BY <1>2, <1>8, <2>1 DEF Outers
<1>12. CalledIsFreed'
  BY <1>2, <1>8 DEF CalledIsFreed, BeingFreed
<1>13. Queues'
  BY <1>1, <1>4, <1>7, <1>8 DEF Queues, Children
<1>14. Servers'
  BY <1>1, <1>2, <1>3, <1>4, <1>7, <1>8 DEF Servers, Children
<1>15. UNCHANGED SpareAhead
  BY <1>2 DEF SpareAhead, Slots
<1>16. Moves
  <2>1. SameOut
    BY <1>8 DEF SameOut
  <2>2. Joined(s, c)
    BY <1>1, <1>6, <1>7, <2>1 DEF Joined
  <2> QED BY <1>1, <2>2 DEF Moves
<1> QED BY <1>16, <1>5, <1>9, <1>10, <1>11, <1>12, <1>13, <1>14, <1>15

-----------------------------------------------------------------------------
(* The theorems.                                                           *)

(* Every step keeps the invariant and is one of the moves.                 *)
LEMMA InvNext == ASSUME Inv, OneOpener, [Next]_vars PROVE Inv' /\ Moves
<1> USE Constants
<1>1. UNCHANGED <<holder, kin>> => Moves
  BY DEF Moves, SameOut, SameQueues, WaitsAt
<1>2. CASE UNCHANGED vars
  <2> USE DEF vars, pool, links, fields, calls, ghosts, Inv, IInv
  <2>1. TypeOK'
    BY <1>2 DEF TypeOK
  <2>2. UNCHANGED <<Allocating, StateTells, Frames, Outers, CalledIsFreed>>
    BY <1>2 DEF Allocating, StateTells, Frames, Outers, CalledIsFreed, BeingFreed
  <2>3. UNCHANGED <<Queues, Servers, HasQueue, SpareAhead>>
    BY <1>2 DEF Queues, Servers, HasQueue, SpareAhead, WaitsAt, Slots
  <2>4. Moves
    BY <1>2 DEF Moves, SameOut, SameQueues, WaitsAt
  <2> QED BY <2>1, <2>2, <2>3, <2>4
<1>3. CASE Configure \/ Establish \/ RxqPush
  <2>1. Inv'
    BY <1>3, AttrActions, EstablishStep, RxqStep
  <2> QED BY <1>1, <1>3, <2>1 DEF Configure, Establish, RxqPush, ghosts
<1>4. CASE Offer
  BY <1>4, OfferStep
<1>5. ASSUME NEW t \in Thread,
             Mark(t) \/ CallFree(t) \/ Free(t) \/ FreeChildren(t)
             \/ ListenOnce(t) \/ Accept(t)
      PROVE  Inv' /\ Moves
  BY <1>5, MarkStep, CallFreeStep, FreeStep, FreeChildrenStep, ListenStep,
     AcceptStep
<1>6. ASSUME NEW t \in Thread,
             (t \in Openers /\ CallAlloc(t)) \/ Lock(t) \/ Search(t)
             \/ Unlock(t) \/ MakeQueue(t) \/ Flush(t) \/ Bind(t) \/ Connect(t)
      PROVE  Inv' /\ Moves
  <2>1. Inv'
    BY <1>6, CallAllocStep, LockStep, SearchStep, UnlockStep, MakeQueueStep,
       FlushStep, AttrActions
  <2>2. UNCHANGED <<holder, kin>>
    BY <1>6 DEF CallAlloc, Lock, Search, Unlock, MakeQueue, Flush, Bind,
                Connect, fields, ghosts
  <2> QED BY <1>1, <2>1, <2>2
<1> QED
  BY <1>2, <1>3, <1>4, <1>5, <1>6 DEF Next, Socket, CloseSocket, ConnStep

(* The invariant holds of every behaviour with one opener.                 *)
LEMMA Invariance == ASSUME OneOpener PROVE Spec => []Inv
<1>1. Init => Inv
  BY InvInit
<1>2. Inv /\ [Next]_vars => Inv'
  BY InvNext
<1> QED BY <1>1, <1>2, PTL DEF Spec

(* The fields hold what their types and the calls put there, and no queue  *)
(* of received buffers outgrows its length, in a pool and a configuration  *)
(* of any size.                                                            *)
THEOREM TypeCorrect == ASSUME OneOpener PROVE Spec => []TypeOK
<1>1. Inv => TypeOK
  BY DEF Inv
<1> QED BY <1>1, Invariance, PTL

(* With one opener, the slot that lsp_conn_alloc marks without the mutex   *)
(* is still free.                                                          *)
THEOREM OwnerCorrect == ASSUME OneOpener PROVE Spec => []UniqueOwner
<1>1. Inv => UniqueOwner
  BY DEF Inv, IInv, Allocating, UniqueOwner
<1> QED BY <1>1, Invariance, PTL

(* Each connection is in one place, and state says whether it is free:     *)
(* lsp_conn_free never frees one twice, nor one that still waits.          *)
THEOREM OnePlaceCorrect == ASSUME OneOpener PROVE Spec => []OnePlace
<1>1. Inv => OnePlace
  <2> SUFFICES ASSUME Inv, NEW c \in Node
               PROVE  /\ (holder[c] = "pool") = (state[c] = CONN_FREE)
                      /\ (holder[c] = "call") = BeingFreed(c)
                      /\ holder[c] = "queue" => \E s \in Node : WaitsAt(c) = {s}
                      /\ holder[c] # "queue" => WaitsAt(c) = {}
    BY DEF OnePlace
  <2>1. (holder[c] = "pool") = (state[c] = CONN_FREE)
    BY DEF Inv, IInv, StateTells
  <2>2. holder[c] = "call" => BeingFreed(c)
    BY DEF Inv, IInv, CalledIsFreed
  <2>3. BeingFreed(c) => holder[c] = "call"
    BY Constants DEF Inv, IInv, BeingFreed, Frames, Outers, Freeing
  <2>4. holder[c] = "queue" => \E s \in Node : WaitsAt(c) = {s}
    <3> SUFFICES ASSUME holder[c] = "queue"
                 PROVE  \E s \in Node : WaitsAt(c) = {s}
      OBVIOUS
    <3>1. PICK s \in WaitsAt(c) : TRUE
      BY DEF Inv, IInv, Queues
    <3>2. WaitsAt(c) \subseteq Node
      BY DEF WaitsAt
    <3>3. WaitsAt(c) = {s}
      BY <3>1, <3>2 DEF Inv, IInv, Queues
    <3> QED BY <3>2, <3>3
  <2>5. holder[c] # "queue" => WaitsAt(c) = {}
    BY DEF Inv, IInv, Queues, WaitsAt
  <2>6. (holder[c] = "call") = BeingFreed(c)
    BY <2>2, <2>3 DEF BeingFreed
  <2> QED BY <2>1, <2>4, <2>5, <2>6
<1> QED BY <1>1, Invariance, PTL

(* A free slot is found, whatever is given back during the search.         *)
THEOREM SpareCorrect == ASSUME OneOpener PROVE Spec => []NoSpareMissed
<1>1. Inv => NoSpareMissed
  BY DEF Inv, IInv, SpareAhead, NoSpareMissed
<1> QED BY <1>1, Invariance, PTL

(* The calls of lsp_socket, lsp_accept and lsp_closesocket, interleaved by *)
(* any number of threads of which one allocates, keep the promise of the   *)
(* pool.                                                                   *)
THEOREM PoolCorrect == ASSUME OneOpener PROVE Spec => PoolSpec
<1>1. Init => Pool!Init
  BY DEF Init, ConfInit, ConnInit, CallsInit, Pool!Init
<1>2. Inv /\ Inv' /\ [Next]_vars => [Pool!Next]_(Pool!vars)
  BY InvNext, MovesRefine
<1> QED BY <1>1, <1>2, Invariance, PTL DEF Spec, PoolSpec, Pool!Spec
=============================================================================
