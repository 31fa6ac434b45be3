---------------------------- MODULE MCLspSocket -----------------------------
(* Instances of LspSocket for model checking.                              *)
EXTENDS LspSocket

TwoSlots   == 0 .. 1
ThreeSlots == 0 .. 2

(* A pool smaller than LSP_DEFAULT_MAX_CONNECTIONS.                        *)
SmallConf == {[conn_max |-> 1, conn_queuelen |-> 1]}

(* For the lists: every connection has been allocated and connected, and   *)
(* has its local port and priority.                                        *)
HeldInit ==
  /\ ConfInit /\ PortInit /\ CallsInit
  /\ state = [c \in Node |-> CONN_CLOSED]
  /\ attr \in [Node -> [priority : Priorities, lport : Head,
                       rport : {AnyPort}]]
  /\ rx_queue = [c \in Node |-> 0]
  /\ holder = [c \in Node |-> "user"]

HeldSpec == HeldInit /\ [][Next]_vars

=============================================================================
