------------------------------ MODULE ConnPool ------------------------------
(***************************************************************************)
(* What the connection pool promises.  A connection that is out belongs to *)
(* one user or waits for one at one server; it comes back once, and a      *)
(* server comes back only after all who waited at it have left.            *)
(***************************************************************************)
EXTENDS FiniteSets

CONSTANT Connection

VARIABLES
  out,       \* the connections handed out and not given back
  waiting    \* the connections waiting to be accepted at each

vars == <<out, waiting>>

Init ==
  /\ out = {}
  /\ waiting = [c \in Connection |-> {}]

Grant(c) ==
  /\ c \notin out
  /\ out' = out \cup {c}
  /\ UNCHANGED waiting

GiveBack(c) ==
  /\ c \in out
  /\ waiting[c] = {}
  /\ \A s \in Connection : c \notin waiting[s]
  /\ out' = out \ {c}
  /\ UNCHANGED waiting

Join(s, c) ==
  /\ {s, c} \subseteq out /\ s # c
  /\ \A x \in Connection : c \notin waiting[x]
  /\ waiting' = [waiting EXCEPT ![s] = @ \cup {c}]
  /\ UNCHANGED out

Leave(s, c) ==
  /\ c \in waiting[s]
  /\ waiting' = [waiting EXCEPT ![s] = @ \ {c}]
  /\ UNCHANGED out

Next ==
  \/ \E c \in Connection : Grant(c) \/ GiveBack(c)
  \/ \E s, c \in Connection : Join(s, c) \/ Leave(s, c)

Spec == Init /\ [][Next]_vars
=============================================================================
