------------------------------ MODULE LspPort -------------------------------
(***************************************************************************)
(* The ports of lsp_port.c.  Head is the set of ports that one may listen  *)
(* on, each with the list of its listening sockets.  The calls take no     *)
(* lock.  Each is one step here: where two threads make them at once, the  *)
(* model says nothing of what their writes do to each other.               *)
(*                                                                         *)
(* Left out: the codes that the calls return, and with them the state of a *)
(* port, which only decides the code of lsp_bind; lsp_port_free and        *)
(* lsp_port_get, which nothing calls.                                      *)
(***************************************************************************)
EXTENDS LspConn

(* The port that lsp_bind takes for LSP_PORT_ANY.                          *)
AnyPort == LSP_PACKET_PORT_MAX + 1

ASSUME PortAssumption == {AnyPort, LSP_PORT_ANY} \cap Head = {}

(* The lists that lsp_port_init makes.                                     *)
PortInit == LinksInit

(* The connections whose owner may pass them to a call of thread t.        *)
Held(t) == {c \in Node : At(t, "idle") /\ holder[c] = "user"}

(* lsp_bind: a valid port is not stored, and the state that is looked up   *)
(* is that of the socket's old port, which for a new socket, whose port is *)
(* LSP_PORT_ANY, is far beyond the array of ports.                         *)
Bind(t) ==
  /\ \E c \in Held(t) :
       \/ /\ attr' = [attr EXCEPT ![c].lport = AnyPort]
          /\ UNCHANGED alive
       \/ /\ alive' \in IF attr[c].lport = LSP_PORT_ANY THEN BOOLEAN ELSE {TRUE}
          /\ UNCHANGED attr
  /\ UNCHANGED <<conf, links, state, type, rx_queue, kin, conn_mutex,
                 calls, ghosts>>

-----------------------------------------------------------------------------
(* lsp_listen.                                                             *)

(* Where on the list of p the search for the place of c stops.             *)
Lower(c, p) ==
  {k \in DOMAIN Walk(p) : /\ Walk(p)[k] \in Node
                          /\ attr[Walk(p)[k]].priority < attr[c].priority}

(* A connection that already is in a list must not be linked.              *)
LinkAt(c, p) ==
  /\ linked' = [linked EXCEPT ![p] = @ \cup {c}]
  /\ alive' = (\A q \in Head : c \notin linked[q])

(* A list of one socket, too, looks empty: the new one goes to the front.  *)
LinkFirst(c, p) == ListIsEmpty(p) /\ AddFront(c, p) /\ LinkAt(c, p)

LinkByPriority(c, p) ==
  /\ ~ListIsEmpty(p)
  /\ \E k \in Lower(c, p) : /\ \A l \in Lower(c, p) : k <= l
                            /\ InsertBefore(c, Walk(p)[k])
  /\ LinkAt(c, p)

(* None has a lower priority: the socket is linked nowhere.                *)
LinkNowhere(c, p) ==
  /\ ~ListIsEmpty(p)
  /\ Lower(c, p) = {}
  /\ UNCHANGED <<alive, links, linked>>

(* The type ends as CONN_LISTEN, a state, and the state stays what it was. *)
ListenQueue(c, p) ==
  /\ kin' = [kin EXCEPT ![c] = Children({})]
  /\ LinkFirst(c, p) \/ LinkByPriority(c, p) \/ LinkNowhere(c, p)

NoQueue(c) ==
  /\ kin' = [kin EXCEPT ![c] = NoKin]
  /\ UNCHANGED <<alive, links, linked>>

Listen(t, c) ==
  /\ c \in Held(t)
  /\ \/ /\ attr[c].lport \notin Head
        /\ UNCHANGED <<alive, links, type, kin, linked>>
     \/ /\ attr[c].lport \in Head
        /\ type' = [type EXCEPT ![c] = CONN_LISTEN]
        /\ ListenQueue(c, attr[c].lport) \/ NoQueue(c)
  /\ UNCHANGED <<conf, state, attr, rx_queue, conn_mutex, calls, holder, spare>>
=============================================================================
