------------------------------ MODULE LspList -------------------------------
(***************************************************************************)
(* The circular doubly linked lists of lsp_list.h.  A list is a head and   *)
(* the nodes linked to it.  An insertion is several writes, kept apart     *)
(* here because the users of a list may read it while another thread       *)
(* inserts.  The order is that of the source: the build asks for no        *)
(* optimisation.                                                           *)
(***************************************************************************)
EXTENDS Integers, FiniteSets

CONSTANTS
  Node,      \* what may be linked
  Head,      \* the heads of lists
  Nil        \* a null pointer, or a link never assigned

ASSUME NodeAssumption ==
  /\ IsFiniteSet(Node)
  /\ Node \cap Head = {}
  /\ Nil \notin Node \cup Head

VARIABLES next, prev

links == <<next, prev>>
Cell  == Node \cup Head

(* LSP_LIST_HEAD_INIT for every head; the nodes are not linked.            *)
LinksInit ==
  /\ next = [c \in Cell |-> IF c \in Head THEN c ELSE Nil]
  /\ prev = next

(* The writes of _lsp_list_add(n, before, after).                          *)
LinkBack(n, after) ==
  prev' = [prev EXCEPT ![after] = n] /\ UNCHANGED next

LinkNode(n, before, after) ==
  /\ next' = [next EXCEPT ![n] = after]
  /\ prev' = [prev EXCEPT ![n] = before]

LinkForth(n, before) ==
  next' = [next EXCEPT ![before] = n] /\ UNCHANGED prev

(* The same writes in one step, for a list that one thread uses at a time. *)
(* They are listed in the source's order, which matters when before, after *)
(* and n are not three different cells.                                    *)
ListAdd(n, before, after) ==
  /\ next' = [next EXCEPT ![n] = after, ![before] = n]
  /\ prev' = [prev EXCEPT ![after] = n, ![n] = before]

AddFront(n, head)    == ListAdd(n, head, next[head])
AddTail(n, head)     == ListAdd(n, prev[head], head)
InsertAfter(n, c)    == ListAdd(n, c, next[c])
InsertBefore(n, c)   == ListAdd(n, prev[c], c)

(* lsp_list_del: the node keeps its own links.                             *)
ListDel(n) ==
  /\ prev' = [prev EXCEPT ![next[n]] = prev[n]]
  /\ next' = [next EXCEPT ![prev[n]] = next[n]]

(* lsp_list_is_empty, which also holds of a list with one node.            *)
ListIsEmpty(head) == next[head] = prev[head]

(* The cells met by following the forward links from c, up to a head or to *)
(* a link never assigned; the nodes among them.                            *)
Walk(c) ==
  LET step[k \in 0 .. Cardinality(Node)] ==
        IF k = 0 THEN next[c]
        ELSE IF step[k - 1] \in Node THEN next[step[k - 1]] ELSE step[k - 1]
  IN  step

Ahead(c) == {Walk(c)[k] : k \in DOMAIN Walk(c)} \cap Node

(* The list h is a ring through exactly the nodes of S, each once.         *)
RingThrough(h, S) == Ahead(h) = S /\ Walk(h)[Cardinality(S)] = h

(* The backward links of the list are the inverse of the forward ones.     *)
Mirrored(h, S) == \A c \in S \cup {h} : next[c] \in Cell /\ prev[next[c]] = c
=============================================================================
