--------------------------- MODULE LspPortProofs ----------------------------
(***************************************************************************)
(* What holds of the lists of the ports, for any number of ports,          *)
(* connections and threads: those that allocate at once included, as the   *)
(* lists do not depend on who owns a slot.                                 *)
(***************************************************************************)
EXTENDS LspSocket, LspListProofs, TLAPS

Kin == [kind : {"null", "children", "parent"}, conns : SUBSET Node]

Points == {"idle", "lock", "search", "unlock", "queue", "mark", "free", "flush",
           "children"}

(* What the steps of lsp_conn_free need to unlink a connection and not     *)
(* something else.                                                         *)
Typed ==
  /\ next \in Links /\ prev \in Links
  /\ linked \in [Head -> SUBSET Node]
  /\ kin \in [Node -> Kin]
  /\ pc \in [Thread -> Points]
  /\ conn \in [Thread -> Node \cup {Nil}]
  /\ outer \in [Node -> Node \cup {Nil}]
  /\ \A t \in Thread : pc[t] \in {"free", "flush", "children"} => conn[t] \in Node

(* No connection is in two lists, and each list is whole both ways.        *)
Disjoint == \A p, q \in Head : p # q => linked[p] \cap linked[q] = {}

Whole(p) == Ring(next, p, linked[p]) /\ Mirrored(p, linked[p])

Lists == alive => Disjoint /\ \A p \in Head : Whole(p)

Inv == Typed /\ Lists

(* The lists at the start are empty, whoever has the connections.          *)
Start == CallsInit /\ PortInit

(* What the assumptions on the constants give.                             *)
LEMMA Constants == Nil \notin Node /\ Node \cap Head = {} /\ Nil \notin Cell
BY NodeAssumption DEF Cell

(* A cell of a list is a cell.                                             *)
LEMMA ListCells ==
  ASSUME Typed, NEW p \in Head
  PROVE  linked[p] \subseteq Node /\ linked[p] \cup {p} \subseteq Cell /\ p \notin Node
BY Constants DEF Typed, Cell

(* A mirrored ring: where the links of a cell lead.                        *)
LEMMA Neighbours ==
  ASSUME Typed, NEW p \in Head, Whole(p)
  PROVE  /\ \A d \in linked[p] \cup {p} : next[d] \in linked[p] \cup {p}
         /\ \A d \in linked[p] \cup {p} : prev[next[d]] = d
         /\ \A d \in linked[p] : next[d] # d
         /\ \A d \in linked[p] : prev[d] \in linked[p] \cup {p} /\ next[prev[d]] = d
<1>1. next \in Links /\ linked[p] \subseteq Node /\ Ring(next, p, linked[p])
  BY ListCells DEF Typed, Whole
<1>2. \A d \in linked[p] \cup {p} : next[d] \in linked[p] \cup {p} /\ prev[next[d]] = d
  BY <1>1, RingClosed DEF Whole, Mirrored
<1>3. \A d \in linked[p] : next[d] # d
  BY <1>1, RingClosed
<1>4. \A d \in linked[p] : \E b \in linked[p] \cup {p} : next[b] = d
  BY <1>1, RingBefore
<1> QED BY <1>2, <1>3, <1>4

-----------------------------------------------------------------------------
(* An insertion behind a cell of a list of a connection that is in none.   *)
LEMMA Inserted ==
  ASSUME Typed, Disjoint, \A q \in Head : Whole(q),
         NEW c \in Node, \A q \in Head : c \notin linked[q],
         NEW p \in Head, NEW b \in linked[p] \cup {p}, ListAdd(c, b, next[b]),
         linked' = [linked EXCEPT ![p] = @ \cup {c}]
  PROVE  Disjoint' /\ \A q \in Head : Whole(q)'
<1> DEFINE a == next[b]
<1>1. a \in linked[p] \cup {p}
  BY Neighbours
<1>2. b \in Cell /\ a \in Cell /\ c \in Cell /\ c # a /\ c # b
  BY <1>1, ListCells, Constants DEF Cell
<1>3. /\ next' = [next EXCEPT ![c] = a, ![b] = c]
      /\ prev' = [prev EXCEPT ![a] = c, ![c] = b]
  BY DEF ListAdd
<1>4. next \in Links /\ prev \in Links
  BY DEF Typed
<1> HIDE DEF a
<1>5. /\ next' \in Links /\ prev' \in Links
      /\ next'[b] = c /\ next'[c] = a
      /\ \A d \in Cell \ {b, c} : next'[d] = next[d]
      /\ prev'[a] = c /\ prev'[c] = b
      /\ \A d \in Cell \ {a, c} : prev'[d] = prev[d]
  BY <1>2, <1>3, <1>4 DEF Links
<1>6. /\ linked'[p] = linked[p] \cup {c}
      /\ \A q \in Head \ {p} : linked'[q] = linked[q]
  BY DEF Typed
<1>7. Disjoint'
  BY <1>6 DEF Disjoint
<1>8. ASSUME NEW q \in Head \ {p} PROVE Whole(q)'
  <2>1. \A d \in linked[q] \cup {q} : d \in Cell \ {a, b, c}
    BY <1>1, ListCells, Constants DEF Disjoint
  <2>2. Ring(next', q, linked[q])
    BY <1>4, <1>5, <2>1, ListCells, RingSame DEF Whole
  <2>3. \A d \in linked[q] \cup {q} : next'[d] \in Cell /\ prev'[next'[d]] = d
    BY <1>5, <2>1, Neighbours
  <2> QED BY <1>6, <2>2, <2>3 DEF Whole, Mirrored
<1>9. Whole(p)'
  <2>1. Ring(next', p, linked[p] \cup {c})
    <3>1. \A d \in (linked[p] \cup {p}) \ {b} : next'[d] = next[d]
      BY <1>5, ListCells
    <3>2. c \in Node \ linked[p] /\ next'[c] = next[b] /\ Ring(next, p, linked[p])
          /\ linked[p] \subseteq Node
      BY <1>5, ListCells DEF Whole, a
    <3> QED BY <1>4, <1>5, <3>1, <3>2, RingInsert
  <2>2. ASSUME NEW d \in linked[p] \cup {p}, d # b
        PROVE  next'[d] \in Cell /\ prev'[next'[d]] = d
    <3>1. d \in Cell \ {b, c} /\ next[d] \in Cell \ {a, c} /\ prev[next[d]] = d
      BY <2>2, ListCells, Constants, Neighbours DEF a
    <3> QED BY <1>5, <3>1
  <2>3. \A d \in {b, c} : next'[d] \in Cell /\ prev'[next'[d]] = d
    BY <1>2, <1>5
  <2> QED BY <1>6, <2>1, <2>2, <2>3 DEF Whole, Mirrored
<1> QED BY <1>7, <1>8, <1>9

(* The unlinking of a connection that is in a list.                        *)
LEMMA Unlinked ==
  ASSUME Typed, Disjoint, \A q \in Head : Whole(q),
         NEW p \in Head, NEW c \in linked[p], ListDel(c),
         linked' = [q \in Head |-> linked[q] \ {c}]
  PROVE  Disjoint' /\ \A q \in Head : Whole(q)'
<1> DEFINE a == next[c]
           b == prev[c]
<1>1. /\ a \in linked[p] \cup {p} /\ b \in linked[p] \cup {p}
      /\ next[b] = c /\ prev[a] = c /\ a # c /\ b # c
  BY Neighbours
<1>2. b \in Cell /\ a \in Cell /\ c \in Cell /\ c \in Node
  BY <1>1, ListCells DEF Cell
<1>3. next' = [next EXCEPT ![b] = a] /\ prev' = [prev EXCEPT ![a] = b]
  BY DEF ListDel
<1>4. next \in Links /\ prev \in Links
  BY DEF Typed
<1>5. next[c] = a
  OBVIOUS
<1> HIDE DEF a, b
<1>6. /\ next' \in Links /\ prev' \in Links
      /\ next'[b] = a /\ \A d \in Cell \ {b} : next'[d] = next[d]
      /\ prev'[a] = b /\ \A d \in Cell \ {a} : prev'[d] = prev[d]
  BY <1>2, <1>3, <1>4 DEF Links
<1>7. \A q \in Head : linked'[q] = linked[q] \ {c}
  OBVIOUS
<1>8. Disjoint'
  BY <1>7 DEF Disjoint
<1>9. ASSUME NEW q \in Head \ {p} PROVE Whole(q)'
  <2>1. c \notin linked[q] /\ \A d \in linked[q] \cup {q} : d \in Cell \ {a, b}
    BY <1>1, ListCells, Constants DEF Disjoint
  <2>2. Ring(next', q, linked[q])
    BY <1>4, <1>6, <2>1, ListCells, RingSame DEF Whole
  <2>3. \A d \in linked[q] \cup {q} : next'[d] \in Cell /\ prev'[next'[d]] = d
    BY <1>6, <2>1, Neighbours
  <2>4. linked'[q] = linked[q]
    BY <1>7, <2>1
  <2> QED BY <2>2, <2>3, <2>4 DEF Whole, Mirrored
<1>10. Whole(p)'
  <2>1. Ring(next', p, linked[p] \ {c})
    <3>1. \A d \in (linked[p] \cup {p}) \ {b, c} : next'[d] = next[d]
      BY <1>6, ListCells
    <3>2. Ring(next, p, linked[p]) /\ linked[p] \subseteq Node
      BY ListCells DEF Whole
    <3> QED BY <1>1, <1>4, <1>5, <1>6, <3>1, <3>2, RingDelete
  <2>2. ASSUME NEW d \in (linked[p] \cup {p}) \ {b, c}
        PROVE  next'[d] \in Cell /\ prev'[next'[d]] = d
    <3>1. d \in Cell \ {b} /\ next[d] \in Cell /\ prev[next[d]] = d
      BY ListCells, Neighbours
    <3>2. next[d] # a
      BY <1>1, <3>1
    <3> QED BY <1>6, <3>1, <3>2
  <2>3. next'[b] \in Cell /\ prev'[next'[b]] = b
    BY <1>2, <1>6
  <2>4. linked'[p] \cup {p} = (linked[p] \cup {p}) \ {c}
    BY <1>2, <1>7, ListCells
  <2> QED BY <1>7, <2>1, <2>2, <2>3, <2>4 DEF Whole, Mirrored
<1> QED BY <1>8, <1>9, <1>10

-----------------------------------------------------------------------------
(* lsp_listen on a connection that is in no list links it behind the head  *)
(* of its port's list or before the socket of a lower priority; one that   *)
(* is in a list, the code does not look at.                                *)
LEMMA ListenLists ==
  ASSUME Inv, alive, NEW c \in Node, NEW p \in Head,
         LinkFirst(c, p) \/ LinkByPriority(c, p) \/ LinkNowhere(c, p)
  PROVE  Lists'
<1> SUFFICES ASSUME alive' PROVE Disjoint' /\ \A q \in Head : Whole(q)'
  BY DEF Lists
<1>1. Typed /\ Disjoint /\ \A q \in Head : Whole(q)
  BY DEF Inv, Lists
<1>2. CASE LinkFirst(c, p)
  BY <1>1, <1>2, Inserted DEF LinkFirst, LinkAt, AddFront
<1>3. CASE LinkByPriority(c, p)
  <2>1. PICK k \in DOMAIN Walk(p) : Walk(p)[k] \in Node /\ InsertBefore(c, Walk(p)[k])
    BY <1>3 DEF LinkByPriority, Lower
  <2> DEFINE d == Walk(p)[k]
             b == prev[d]
  <2>2. d \in linked[p]
    <3>1. d \in Ahead(p)
      BY <2>1 DEF Ahead
    <3>2. Ahead(p) = AheadOf(next, p) /\ AheadOf(next, p) = linked[p]
      BY <1>1, ListOperators, ListCells DEF Typed, Whole, Ring
    <3> QED BY <3>1, <3>2
  <2>3. ListAdd(c, b, d)
    BY <2>1 DEF InsertBefore
  <2> HIDE DEF d
  <2>4. b \in linked[p] \cup {p} /\ next[b] = d
    BY <1>1, <2>2, Neighbours
  <2> HIDE DEF b
  <2>5. /\ linked' = [linked EXCEPT ![p] = @ \cup {c}]
        /\ \A q \in Head : c \notin linked[q]
    BY <1>3 DEF LinkByPriority, LinkAt
  <2> QED BY <1>1, <2>3, <2>4, <2>5, Inserted
<1>4. CASE LinkNowhere(c, p)
  <2>1. UNCHANGED <<next, prev, linked>>
    BY <1>4 DEF LinkNowhere, links
  <2> QED BY <1>1, <2>1 DEF Disjoint, Whole, Mirrored
<1> QED BY <1>2, <1>3, <1>4

(* The writes to the links keep them links.                                *)
LEMMA LinksKept ==
  ASSUME Typed, NEW c \in Node, NEW b, NEW a,
         \/ ListAdd(c, b, a) /\ b \in Cell \cup {Nil} /\ a \in Cell \cup {Nil}
         \/ ListDel(c)
  PROVE  next' \in Links /\ prev' \in Links
<1>1. c \in Cell
  BY DEF Cell
<1>2. CASE ListAdd(c, b, a) /\ b \in Cell \cup {Nil} /\ a \in Cell \cup {Nil}
  BY <1>1, <1>2 DEF ListAdd, Typed, Links
<1>3. CASE ListDel(c)
  <2>1. next[c] \in Cell \cup {Nil} /\ prev[c] \in Cell \cup {Nil}
    BY <1>1 DEF Typed, Links
  <2> QED BY <1>3, <2>1 DEF ListDel, Typed, Links
<1> QED BY <1>2, <1>3

(* A step that leaves the lists alone.                                     *)
LEMMA Elsewhere ==
  ASSUME Inv, alive, UNCHANGED <<links, linked>>, Typed' PROVE Inv'
<1>1. UNCHANGED <<next, prev, linked>>
  BY DEF links
<1> QED BY <1>1 DEF Inv, Lists, Disjoint, Whole, Mirrored

(* lsp_listen.                                                             *)
LEMMA ListenStep == ASSUME Inv, NEW t \in Thread, ListenOnce(t) PROVE Inv'
<1>1. PICK c \in Held(t) : Listen(t, c)
  BY DEF ListenOnce
<1>2. alive /\ c \in Node /\ UNCHANGED <<pc, conn, outer>>
  BY <1>1 DEF Held, At, Listen, calls
<1>3. CASE UNCHANGED <<links, kin, linked>>
  BY <1>2, <1>3, Elsewhere DEF Inv, Typed, links
<1>4. CASE NoQueue(c)
  <2>1. kin' \in [Node -> Kin]
    BY <1>4 DEF NoQueue, Inv, Typed, Kin, NoKin
  <2> QED BY <1>2, <1>4, <2>1, Elsewhere DEF NoQueue, Inv, Typed, links
<1>5. CASE attr[c].lport \in Head /\ ListenQueue(c, attr[c].lport)
  <2> DEFINE p == attr[c].lport
  <2>1. LinkFirst(c, p) \/ LinkByPriority(c, p) \/ LinkNowhere(c, p)
    BY <1>5 DEF ListenQueue
  <2>2. kin' \in [Node -> Kin]
    BY <1>5 DEF ListenQueue, Inv, Typed, Kin, Children
  <2>3. p \in Head
    BY <1>5
  <2> HIDE DEF p
  <2>4. Lists'
    BY <1>2, <2>1, <2>3, ListenLists
  <2>5. linked' \in [Head -> SUBSET Node]
    <3>1. CASE LinkNowhere(c, p)
      BY <3>1 DEF LinkNowhere, Inv, Typed
    <3>2. CASE LinkFirst(c, p) \/ LinkByPriority(c, p)
      <4>1. linked' = [linked EXCEPT ![p] = @ \cup {c}]
        BY <3>2 DEF LinkFirst, LinkByPriority, LinkAt
      <4> QED BY <1>2, <2>3, <4>1 DEF Inv, Typed
    <3> QED BY <2>1, <3>1, <3>2
  <2>6. next' \in Links /\ prev' \in Links
    <3>1. CASE LinkFirst(c, p)
      <4>1. p \in Cell /\ next[p] \in Cell \cup {Nil}
        BY <2>3 DEF Inv, Typed, Links, Cell
      <4> QED BY <1>2, <3>1, <4>1, LinksKept DEF LinkFirst, AddFront, Inv
    <3>2. CASE LinkByPriority(c, p)
      <4>1. PICK d \in Node : InsertBefore(c, d)
        BY <3>2 DEF LinkByPriority, Lower
      <4>2. d \in Cell /\ prev[d] \in Cell \cup {Nil}
        BY <4>1 DEF Inv, Typed, Links, Cell
      <4> QED BY <1>2, <4>1, <4>2, LinksKept DEF InsertBefore, Inv
    <3>3. CASE LinkNowhere(c, p)
      BY <3>3 DEF LinkNowhere, links, Inv, Typed
    <3> QED BY <2>1, <3>1, <3>2, <3>3
  <2>7. Typed'
    BY <1>2, <2>2, <2>5, <2>6 DEF Inv, Typed
  <2> QED BY <2>4, <2>7 DEF Inv
<1> QED BY <1>1, <1>3, <1>4, <1>5 DEF Listen

(* lsp_conn_close unlinks the connection by what its links say.            *)
LEMMA CloseLists ==
  ASSUME Inv, alive, NEW t \in Thread, NEW c \in Node, Close(t, c)
  PROVE  /\ Lists' /\ next' \in Links /\ prev' \in Links
         /\ linked' \in [Head -> SUBSET Node]
<1>1. Typed /\ Disjoint /\ \A q \in Head : Whole(q)
  BY DEF Inv, Lists
<1>2. CASE alive' = FALSE /\ UNCHANGED <<links, linked>>
  BY <1>1, <1>2 DEF Lists, Typed, links
<1>3. CASE /\ ListDel(c) /\ linked' = [h \in Head |-> linked[h] \ {c}]
           /\ alive' = (linked' # linked)
  <2>1. ASSUME alive' PROVE Disjoint' /\ \A q \in Head : Whole(q)'
    <3>1. PICK p \in Head : c \in linked[p]
      <4>1. linked' # linked
        BY <1>3, <2>1
      <4>2. linked = [h \in Head |-> linked[h]]
        BY <1>1 DEF Typed
      <4> QED BY <1>3, <4>1, <4>2
    <3> QED BY <1>1, <1>3, <3>1, Unlinked
  <2>2. next' \in Links /\ prev' \in Links
    BY <1>1, <1>3, LinksKept
  <2> QED BY <1>1, <1>3, <2>1, <2>2 DEF Lists, Typed
<1> QED BY <1>2, <1>3 DEF Close

(* The end of a recursive lsp_conn_free is in the call that made it.       *)
LEMMA ReturnTyped ==
  ASSUME Typed, NEW t \in Thread, NEW c \in Node, NEW to, FreeReturn(t, c, to)
  PROVE  /\ pc' \in [Thread -> Points] /\ conn' \in [Thread -> Node \cup {Nil}]
         /\ outer' \in [Node -> Node \cup {Nil}]
         /\ \A u \in Thread : pc'[u] \in {"free", "flush", "children"} => conn'[u] \in Node
BY Constants DEF Typed, FreeReturn, Points

(* lsp_conn_free, up to the flush.                                         *)
LEMMA FreeStep == ASSUME Inv, NEW t \in Thread, Free(t) PROVE Inv'
<1>1. alive /\ pc[t] = "free" /\ UNCHANGED kin /\ conn[t] \in Node /\ Typed
  BY DEF Free, At, Inv, Typed
<1>2. CASE FreeClosed(t, conn[t])
  <2>1. UNCHANGED <<next, prev, linked>>
    BY <1>2 DEF FreeClosed, links
  <2>2. CASE pc' = [pc EXCEPT ![t] = "children"] /\ UNCHANGED <<conn, outer>>
    <3>1. Typed'
      BY <1>1, <2>1, <2>2 DEF Typed, Points
    <3> QED BY <1>1, <2>1, <3>1, Elsewhere DEF links
  <2>3. CASE FreeReturn(t, conn[t], "lost")
    <3>1. Typed'
      BY <1>1, <2>1, <2>3, ReturnTyped DEF Typed
    <3> QED BY <1>1, <2>1, <3>1, Elsewhere DEF links
  <2> QED BY <1>2, <2>2, <2>3 DEF FreeClosed
<1>3. CASE Close(t, conn[t])
  <2>1. /\ Lists' /\ next' \in Links /\ prev' \in Links
        /\ linked' \in [Head -> SUBSET Node]
    BY <1>1, <1>3, CloseLists
  <2>2. pc' = [pc EXCEPT ![t] = "flush"] /\ UNCHANGED <<conn, outer>>
    BY <1>3 DEF Close
  <2>3. Typed'
    BY <1>1, <2>1, <2>2 DEF Typed, Points
  <2> QED BY <2>1, <2>3 DEF Inv
<1> QED BY <1>2, <1>3 DEF Free

-----------------------------------------------------------------------------
(* The other steps leave the lists alone.                                  *)
LEMMA AllocSteps ==
  ASSUME Inv, NEW t \in Thread,
         CallAlloc(t) \/ Lock(t) \/ Search(t) \/ Unlock(t) \/ MakeQueue(t) \/ Mark(t)
  PROVE  Inv'
<1>1. /\ alive /\ UNCHANGED <<links, linked, outer>>
      /\ pc[t] \notin {"free", "flush", "children"} /\ Typed
  BY DEF CallAlloc, Lock, Search, Unlock, MakeQueue, Mark, At, ghosts, Inv
<1>2. kin' \in [Node -> Kin]
  <2>1. CASE Mark(t)
    BY <1>1, <2>1 DEF Mark, Typed, Kin, NoKin
  <2>2. CASE kin' = kin
    BY <1>1, <2>2 DEF Typed
  <2> QED BY <2>1, <2>2 DEF CallAlloc, Lock, Search, Unlock, MakeQueue, fields
<1>3. \/ UNCHANGED <<pc, conn>>
      \/ /\ \E q \in Points \ {"free", "flush", "children"} : pc' = [pc EXCEPT ![t] = q]
         /\ UNCHANGED conn \/ \E x \in Node \cup {Nil} : conn' = [conn EXCEPT ![t] = x]
  <2>1. CASE Search(t)
    <3>1. i[t] < MaxConnections /\ IsFree(i[t]) => i[t] \in Node
      BY PoolAssumption DEF IsFree, Slots
    <3> QED BY <2>1, <3>1 DEF Search, Points
  <2>2. CASE CallAlloc(t) \/ Lock(t) \/ Unlock(t) \/ MakeQueue(t) \/ Mark(t)
    BY <2>2 DEF CallAlloc, Lock, Unlock, MakeQueue, Mark, AllocReturn, Points
  <2> QED BY <2>1, <2>2
<1>4. Typed'
  <2>1. UNCHANGED <<next, prev, linked, outer>>
    BY <1>1 DEF links
  <2>2. /\ pc' \in [Thread -> Points] /\ conn' \in [Thread -> Node \cup {Nil}]
        /\ \A u \in Thread : pc'[u] \in {"free", "flush", "children"} => conn'[u] \in Node
    BY <1>1, <1>3 DEF Typed
  <2> QED BY <1>1, <1>2, <2>1, <2>2 DEF Typed
<1> QED BY <1>1, <1>4, Elsewhere

(* lsp_conn_free before and after the part that unlinks.                   *)
LEMMA FreeSteps ==
  ASSUME Inv, NEW t \in Thread, CallFree(t) \/ Flush(t) \/ FreeChildren(t)
  PROVE  Inv'
<1>1. alive /\ UNCHANGED <<links, linked>> /\ Typed
  BY DEF CallFree, Flush, FreeChildren, At, ghosts, Inv
<1>2. UNCHANGED <<next, prev, linked>>
  BY <1>1 DEF links
<1>3. CASE CallFree(t)
  <2>1. UNCHANGED <<kin, outer>> /\ pc' = [pc EXCEPT ![t] = "free"]
    BY <1>3 DEF CallFree, fields
  <2>2. PICK c \in Node : conn' = [conn EXCEPT ![t] = c]
    BY <1>3 DEF CallFree
  <2>3. Typed'
    BY <1>1, <1>2, <2>1, <2>2 DEF Typed, Points
  <2> QED BY <1>1, <2>3, Elsewhere
<1>4. CASE Flush(t)
  <2>1. UNCHANGED <<kin, outer, conn>> /\ pc[t] = "flush"
        /\ (UNCHANGED pc \/ pc' = [pc EXCEPT ![t] = "children"])
    BY <1>4 DEF Flush, At
  <2>2. Typed'
    BY <1>1, <1>2, <2>1 DEF Typed, Points
  <2> QED BY <1>1, <2>2, Elsewhere
<1>5. CASE FreeChildren(t)
  <2>1. pc[t] = "children" /\ conn[t] \in Node
    BY <1>1, <1>5 DEF FreeChildren, At, Typed
  <2>2. CASE UNCHANGED <<kin, pc, conn, outer>>
    <3>1. Typed'
      BY <1>1, <1>2, <2>2 DEF Typed
    <3> QED BY <1>1, <3>1, Elsewhere
  <2>3. CASE FreeSlot(t, conn[t])
    <3>1. UNCHANGED kin /\ FreeReturn(t, conn[t], "pool")
      BY <2>3 DEF FreeSlot
    <3>2. Typed'
      BY <1>1, <1>2, <2>1, <3>1, ReturnTyped DEF Typed
    <3> QED BY <1>1, <3>2, Elsewhere
  <2>4. ASSUME NEW x \in kin[conn[t]].conns,
               kin' = [kin EXCEPT ![conn[t]].conns = @ \ {x}],
               conn' = [conn EXCEPT ![t] = x],
               outer' = [outer EXCEPT ![x] = conn[t]],
               pc' = [pc EXCEPT ![t] = "free"]
        PROVE  Inv'
    <3>1. x \in Node /\ kin' \in [Node -> Kin]
      BY <1>1, <2>1, <2>4 DEF Typed, Kin
    <3>2. Typed'
      BY <1>1, <1>2, <2>1, <2>4, <3>1 DEF Typed, Points
    <3> QED BY <1>1, <3>2, Elsewhere
  <2> QED BY <1>5, <2>2, <2>3, <2>4 DEF FreeChildren, FreeChild
<1> QED BY <1>3, <1>4, <1>5

(* The other calls on sockets, and the layer that is not written.          *)
LEMMA OtherSteps ==
  ASSUME Inv,
         \/ \E t \in Thread : Bind(t) \/ Connect(t) \/ Accept(t)
         \/ Configure \/ Establish \/ Offer \/ RxqPush
  PROVE  Inv'
<1>1. /\ alive /\ UNCHANGED <<next, prev, linked, pc, conn, outer>> /\ Typed
  BY DEF Bind, Connect, Accept, Held, At, Configure, Establish, Closed, Offer, RxqPush,
         ghosts, calls, links, Inv
<1>2. kin' \in [Node -> Kin]
  <2>1. CASE \E t \in Thread : Accept(t)
    <3>1. PICK s \in Node : AcceptChild(s) \/ UNCHANGED kin
      BY <2>1 DEF Accept, AcceptNothing, Held
    <3>2. CASE AcceptChild(s)
      <4>1. PICK c \in kin[s].conns :
              kin' = [kin EXCEPT ![s].conns = @ \ {c}, ![c] = Parent(s)]
        BY <3>2 DEF AcceptChild
      <4> DEFINE k == [kin EXCEPT ![s].conns = @ \ {c}]
      <4>2. k \in [Node -> Kin]
        BY <1>1 DEF Typed, Kin
      <4>3. kin' = [k EXCEPT ![c] = Parent(s)]
        BY <4>1
      <4>4. Parent(s) \in Kin
        BY DEF Parent, Kin
      <4> HIDE DEF k
      <4> QED BY <4>2, <4>3, <4>4
    <3> QED BY <1>1, <3>1, <3>2 DEF Typed
  <2>2. CASE Offer
    <3>1. PICK s \in Node, c \in Node : kin' = [kin EXCEPT ![s].conns = @ \cup {c}]
      BY <2>2 DEF Offer
    <3> QED BY <1>1, <3>1 DEF Typed, Kin
  <2>3. CASE UNCHANGED kin
    BY <1>1, <2>3 DEF Typed
  <2> QED BY <2>1, <2>2, <2>3 DEF Bind, Connect, Configure, Establish, RxqPush
<1>3. Typed'
  BY <1>1, <1>2 DEF Typed
<1> QED BY <1>1, <1>3, Elsewhere DEF links

-----------------------------------------------------------------------------
(* Every step keeps the lists.                                             *)
LEMMA InvNext == Inv /\ [Next]_vars => Inv'
<1> SUFFICES ASSUME Inv, [Next]_vars PROVE Inv'
  OBVIOUS
<1>1. CASE Next
  <2>1. Openers \subseteq Thread /\ Closers \subseteq Thread
    BY DEF Thread
  <2>2. CASE \E t \in Thread : CallAlloc(t) \/ ConnStep(t) \/ CallFree(t)
    BY <2>2, AllocSteps, FreeSteps, FreeStep DEF ConnStep
  <2>3. CASE \E t \in Thread : ListenOnce(t)
    BY <2>3, ListenStep
  <2>4. CASE \/ \E t \in Thread : Bind(t) \/ Connect(t) \/ Accept(t)
             \/ Configure \/ Establish \/ Offer \/ RxqPush
    BY <2>4, OtherSteps
  <2> QED BY <1>1, <2>1, <2>2, <2>3, <2>4 DEF Next, Socket, CloseSocket
<1>2. CASE UNCHANGED vars
  <2>1. UNCHANGED <<alive, next, prev, linked, kin, pc, conn, outer>>
    BY <1>2 DEF vars, pool, links, fields, calls, ghosts
  <2> QED BY <2>1 DEF Inv, Typed, Lists, Disjoint, Whole, Mirrored
<1> QED BY <1>1, <1>2

(* The lists are empty, and each head is linked to itself.                 *)
LEMMA InvInit == Start => Inv
<1> SUFFICES ASSUME Start PROVE Inv
  OBVIOUS
<1>1. Typed
  BY DEF Start, CallsInit, PortInit, LinksInit, Typed, Links, Cell, Kin, NoKin, Points
<1>2. ASSUME NEW p \in Head PROVE Whole(p)
  <2>1. next[p] = p /\ prev[p] = p /\ linked[p] = {} /\ p \in Cell /\ p \notin Node
    BY Constants DEF Start, CallsInit, PortInit, LinksInit, Cell
  <2>2. Ring(next, p, {})
    <3> DEFINE w == [k \in 0 .. 0 |-> p]
    <3>1. Order(next, p, {}, w)
      BY <2>1, FS_EmptySet DEF Order, Path
    <3> HIDE DEF w
    <3> QED BY <1>1, <3>1, OrderRing DEF Typed
  <2> QED BY <2>1, <2>2 DEF Whole, Mirrored
<1>3. Disjoint
  BY DEF Start, CallsInit, Disjoint
<1> QED BY <1>1, <1>2, <1>3 DEF Inv, Lists

(* What the inductive invariant is for.                                    *)
LEMMA InvLists == Inv => PortLists
<1> SUFFICES ASSUME Inv, alive, NEW p \in Head
             PROVE  RingThrough(p, linked[p]) /\ Mirrored(p, linked[p])
  BY DEF PortLists
<1>1. next \in Links /\ Whole(p)
  BY DEF Inv, Lists, Typed
<1> QED BY <1>1, ListOperators DEF Whole

(* From any state in which the lists are empty and no call has been made,  *)
(* whoever has the connections, the list of every port stays a whole ring  *)
(* both ways, through the sockets linked to it and not unlinked since,     *)
(* as long as each call links an unlinked socket or unlinks a linked one.  *)
THEOREM ListsFromEmpty == Start /\ [][Next]_vars => []PortLists
BY InvInit, InvNext, InvLists, PTL

(* So it does from the start of the program.                               *)
THEOREM PortListsCorrect == Spec => []PortLists
<1>1. Init => Start
  BY DEF Init, ConnInit, Start
<1> QED BY <1>1, ListsFromEmpty, PTL DEF Spec
=============================================================================
