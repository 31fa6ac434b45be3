-------------------------- MODULE LspRoutingProofs --------------------------
(***************************************************************************)
(* What holds of the routing table for any number of threads, routes and   *)
(* addresses: what the searches, which take no lock, may rely on.          *)
(***************************************************************************)
EXTENDS LspRouting, LspListProofs, TLAPS

Inserting == {"lockInsert", "back", "node", "forth"}
Holding   == {"back", "node", "forth", "replace", "unlock"}

(* Only the thread that owns rtable_mutex is between lock and unlock.      *)
MutualExclusion == \A t \in Thread : pc[t] \in Holding => mutex = t

(* The route that a thread is about to link is its own; the one that it    *)
(* is about to replace is in the table.                                    *)
OwnRoutes ==
  /\ \A t \in Thread : pc[t] \in Inserting => route[t] \in allocated
  /\ \A t, u \in Thread : pc[t] \in Inserting /\ pc[u] \in Inserting
                          /\ route[t] = route[u] => t = u
  /\ \A t \in Thread : pc[t] \in {"lockReplace", "replace"} => route[t] \in Linked

(* Reading on from what can be reached leads to what can be reached, and   *)
(* only an empty table's head leads to the head.                           *)
Reached == Linked \cup {rtable}

Forward ==
  /\ \A c \in Reached : next[c] \in Reached
  /\ next[rtable] = rtable => Linked = {}
  /\ \A t \in Thread : pc[t] = "forth" => next[route[t]] \in Reached

(* A search never leaves the table, and comes to the head only if it knows *)
(* of nothing to come across.                                              *)
Searches ==
  /\ \A t \in Thread : pc[t] = "visit" => route[t] \in Reached
  /\ \A t \in Thread : known[t] \subseteq Linked
  /\ \A t \in Thread : pc[t] = "visit" /\ route[t] = rtable => known[t] = {}

(* The inductive invariant.                                                *)
IInv == MutualExclusion /\ OwnRoutes /\ Forward /\ Searches

Inv == TypeOK /\ IInv

Constants ==
  /\ Head = {rtable} /\ MaxSpeed \in Nat /\ NoThread \notin Thread
  /\ Node \cap Head = {} /\ Nil \notin Node \cup Head

(* What the modules assume of their constants, for the steps below.        *)
LEMMA ConstantsHold == Constants
BY HeadAssumption, SpeedAssumption, ThreadAssumption, NodeAssumption
   DEF Constants

-----------------------------------------------------------------------------
(* A node is in the table when it is allocated and nobody's to link.       *)
LEMMA LinkedIs ==
  \A n : n \in Linked <=> n \in allocated
                          /\ \A u \in Thread : pc[u] \in Inserting => route[u] # n
BY DEF Linked, Inserting

(* The table is the same after a step in which the same threads hold the   *)
(* same routes to link, and nothing is allocated.                          *)
LEMMA SameTable ==
  ASSUME allocated' = allocated,
         \A u \in Thread : pc'[u] \in Inserting <=> pc[u] \in Inserting,
         \A u \in Thread : pc[u] \in Inserting => route'[u] = route[u]
  PROVE  Linked' = Linked /\ Reached' = Reached
<1>1. \A n : n \in Linked' <=> n \in allocated'
             /\ \A u \in Thread : pc'[u] \in Inserting => route'[u] # n
  BY LinkedIs DEF Linked, Inserting
<1>2. \A n : n \in Linked' <=> n \in Linked
  BY <1>1, LinkedIs
<1>3. Linked' = Linked
  BY <1>2 DEF Linked
<1> QED BY <1>3 DEF Reached

(* At the start the table is empty and nobody is in a call.                *)
LEMMA InvInit == Init => Inv
<1> SUFFICES ASSUME Init PROVE Inv
  OBVIOUS
<1> USE ConstantsHold DEF Constants
<1>1. TypeOK
  BY DEF Init, LinksInit, TypeOK, Cell, Speed, NoCall
<1>2. Linked = {} /\ \A t \in Thread : pc[t] = "idle"
  BY DEF Init, Linked
<1>3. MutualExclusion /\ OwnRoutes
  BY <1>2 DEF MutualExclusion, OwnRoutes, Holding, Inserting
<1>4. next[rtable] = rtable /\ known = [t \in Thread |-> {}]
  BY DEF Init, LinksInit, Cell
<1>5. Forward
  BY <1>2, <1>4 DEF Forward, Reached
<1>6. Searches
  BY <1>2, <1>4 DEF Searches
<1> QED BY <1>1, <1>3, <1>5, <1>6 DEF Inv, IInv

(* A call begins.                                                          *)
LEMMA CallStep ==
  ASSUME Inv, NEW t \in Thread, CallFind(t) \/ CallAdd(t)
  PROVE  Inv'
<1> USE ConstantsHold DEF Constants
<1>1. /\ pc[t] = "idle" /\ pc' = [pc EXCEPT ![t] = "first"]
      /\ UNCHANGED <<next, prev, allocated, addr, iface, linkspeed, mutex,
                     route, known, result>>
  BY DEF CallFind, CallAdd, At, links, fields
<1>2. TypeOK
  BY DEF Inv
<1>3. call' \in [Thread -> [op : {"none", "find", "add"}, addr : Addr \cup {Nil},
                            iface : Iface \cup {Nil}, linkspeed : Speed]]
  <2>1. CASE CallFind(t)
    BY <1>2, <2>1 DEF TypeOK, CallFind, Speed
  <2>2. CASE CallAdd(t)
    BY <1>2, <2>2 DEF TypeOK, CallAdd
  <2> QED BY <2>1, <2>2
<1>4. TypeOK'
  BY <1>1, <1>2, <1>3 DEF TypeOK
<1>5. \A u \in Thread : u # t => pc'[u] = pc[u]
  BY <1>1, <1>2 DEF TypeOK
<1>6. pc'[t] = "first"
  BY <1>1, <1>2 DEF TypeOK
<1>7. Linked' = Linked /\ Reached' = Reached
  BY <1>1, <1>5, <1>6, SameTable DEF Inserting
<1>8. MutualExclusion'
  BY <1>1, <1>5, <1>6 DEF Inv, IInv, MutualExclusion, Holding
<1>9. OwnRoutes'
  BY <1>1, <1>5, <1>6, <1>7 DEF Inv, IInv, OwnRoutes, Inserting
<1>10. Forward'
  BY <1>1, <1>5, <1>6, <1>7 DEF Inv, IInv, Forward
<1>11. Searches'
  BY <1>1, <1>5, <1>6, <1>7 DEF Inv, IInv, Searches
<1> QED BY <1>4, <1>8, <1>9, <1>10, <1>11 DEF Inv, IInv

(* What a thread at t alone may do without the others' parts noticing:     *)
(* nothing of the table changes, and t itself comes to a point where it    *)
(* neither holds the mutex nor has a route to link.                        *)
LEMMA SearchStep ==
  ASSUME Inv, NEW t \in Thread, TypeOK',
         UNCHANGED <<next, prev, allocated, addr, iface, linkspeed, mutex>>,
         pc[t] \notin Inserting, pc'[t] \notin Inserting \cup Holding,
         \A u \in Thread : u # t => pc'[u] = pc[u] /\ route'[u] = route[u]
                                    /\ known'[u] = known[u],
         pc'[t] = "lockReplace" => route'[t] \in Linked,
         pc'[t] = "visit" => route'[t] \in Reached,
         pc'[t] = "visit" /\ route'[t] = rtable => known'[t] = {},
         known'[t] \subseteq Linked
  PROVE  Inv'
<1>1. Linked' = Linked /\ Reached' = Reached
  BY SameTable
<1>2. MutualExclusion'
  BY DEF Inv, IInv, MutualExclusion
<1>3. OwnRoutes'
  BY <1>1 DEF Inv, IInv, OwnRoutes, Inserting, Holding
<1>4. Forward'
  <2>1. \A u \in Thread : pc'[u] = "forth" => u # t
    BY DEF Inserting
  <2> QED BY <1>1, <2>1 DEF Inv, IInv, Forward
<1>5. Searches'
  BY <1>1 DEF Inv, IInv, Searches
<1> QED BY <1>2, <1>3, <1>4, <1>5 DEF Inv, IInv

(* The two reads with which a search begins.                               *)
LEMMA FirstStep ==
  ASSUME Inv, NEW t \in Thread, First(t)
  PROVE  Inv'
<1> USE ConstantsHold DEF Constants
<1>1. /\ pc[t] = "first" /\ pc' = [pc EXCEPT ![t] = "test"]
      /\ route' = [route EXCEPT ![t] = next[rtable]]
      /\ known' = [known EXCEPT ![t] = IF Cardinality(Linked) > 1 THEN Linked ELSE {}]
      /\ UNCHANGED <<next, prev, allocated, addr, iface, linkspeed, mutex,
                     call, result>>
  BY DEF First, At, links, fields
<1>2. TypeOK
  BY DEF Inv
<1>3. Linked \subseteq Node
  BY <1>2 DEF TypeOK, Linked
<1>4. next[rtable] \in Cell \cup {Nil}
  BY <1>2 DEF TypeOK, Cell
<1>5. known' \in [Thread -> SUBSET Node] /\ known'[t] \subseteq Linked
  BY <1>1, <1>2, <1>3 DEF TypeOK
<1>6. TypeOK'
  BY <1>1, <1>2, <1>4, <1>5 DEF TypeOK
<1>7. pc'[t] = "test"
  BY <1>1, <1>2 DEF TypeOK
<1>8. \A u \in Thread : u # t => pc'[u] = pc[u] /\ route'[u] = route[u]
                                 /\ known'[u] = known[u]
  BY <1>1, <1>2 DEF TypeOK
<1> QED BY <1>1, <1>5, <1>6, <1>7, <1>8, SearchStep DEF Inserting, Holding

(* What a call that leaves its search does to its own frame.               *)
LEMMA MissTypes ==
  ASSUME TypeOK, NEW t \in Thread, Miss(t)
  PROVE  /\ pc' \in [Thread -> {"idle", "first", "test", "visit", "wild",
                        "alloc", "lockInsert", "lockReplace", "back", "node",
                        "forth", "replace", "unlock"}]
         /\ pc'[t] \in {"idle", "alloc"}
         /\ route' = [route EXCEPT ![t] = Nil]
         /\ route' \in [Thread -> Cell \cup {Nil}]
         /\ \A u \in Thread : u # t => pc'[u] = pc[u]
         /\ call' \in [Thread -> [op : {"none", "find", "add"},
              addr : Addr \cup {Nil}, iface : Iface \cup {Nil}, linkspeed : Speed]]
         /\ result' \in [Thread -> Iface \cup {Nil}]
<1> USE ConstantsHold DEF Constants
<1>1. NoCall \in [op : {"none", "find", "add"}, addr : Addr \cup {Nil},
                  iface : Iface \cup {Nil}, linkspeed : Speed]
  BY DEF NoCall, Speed
<1>2. CASE Find(t) /\ result' = [result EXCEPT ![t] = Nil] /\ Return(t, "idle")
  BY <1>1, <1>2 DEF TypeOK, Return
<1>3. CASE pc' = [pc EXCEPT ![t] = "alloc"] /\ route' = [route EXCEPT ![t] = Nil]
           /\ UNCHANGED <<call, result>>
  BY <1>3 DEF TypeOK
<1> QED BY <1>2, <1>3 DEF Miss

(* The test for an empty list.                                             *)
LEMMA TestStep ==
  ASSUME Inv, NEW t \in Thread, Test(t)
  PROVE  Inv'
<1> USE ConstantsHold DEF Constants
<1>1. /\ pc[t] = "test"
      /\ UNCHANGED <<next, prev, allocated, addr, iface, linkspeed, mutex>>
  BY DEF Test, At, links, fields
<1>2. TypeOK
  BY DEF Inv
<1>3. CASE Miss(t) /\ known' = [known EXCEPT ![t] = {}]
  <2>1. TypeOK'
    BY <1>1, <1>2, <1>3, MissTypes DEF TypeOK
  <2>2. /\ pc'[t] \in {"idle", "alloc"} /\ known'[t] = {}
        /\ \A u \in Thread : u # t => pc'[u] = pc[u] /\ route'[u] = route[u]
                                      /\ known'[u] = known[u]
    BY <1>2, <1>3, MissTypes DEF TypeOK
  <2> QED BY <1>1, <2>1, <2>2, SearchStep DEF Inserting, Holding
<1>4. CASE /\ route' = [route EXCEPT ![t] = next[rtable]]
           /\ pc' = [pc EXCEPT ![t] = "visit"]
           /\ UNCHANGED <<call, known, result>>
  <2>1. next[rtable] \in Reached
    BY DEF Inv, IInv, Forward, Reached
  <2>2. Reached \subseteq Cell
    BY <1>2 DEF Reached, Linked, TypeOK, Cell
  <2>3. TypeOK'
    BY <1>1, <1>2, <1>4, <2>1, <2>2 DEF TypeOK
  <2>4. /\ pc'[t] = "visit" /\ route'[t] = next[rtable]
        /\ \A u \in Thread : u # t => pc'[u] = pc[u] /\ route'[u] = route[u]
                                      /\ known'[u] = known[u]
    BY <1>2, <1>4 DEF TypeOK
  <2>5. known'[t] \subseteq Linked
    BY <1>4 DEF Inv, IInv, Searches
  <2>6. route'[t] = rtable => known'[t] = {}
    BY <2>4, <2>5 DEF Inv, IInv, Forward
  <2> QED BY <1>1, <2>1, <2>3, <2>4, <2>5, <2>6, SearchStep DEF Inserting, Holding
<1> QED BY <1>3, <1>4 DEF Test

(* The body of the loop and its step to the next node.                     *)
LEMMA VisitStep ==
  ASSUME Inv, NEW t \in Thread, Visit(t)
  PROVE  Inv'
<1> USE ConstantsHold DEF Constants
<1>1. /\ pc[t] = "visit"
      /\ UNCHANGED <<next, prev, allocated, addr, iface, linkspeed, mutex>>
  BY DEF Visit, At, links, fields
<1>2. TypeOK
  BY DEF Inv
<1>3. route[t] \in Reached /\ Reached \subseteq Cell
  BY <1>1, <1>2 DEF Inv, IInv, Searches, Reached, Linked, TypeOK, Cell
<1>4. NoCall \in [op : {"none", "find", "add"}, addr : Addr \cup {Nil},
                  iface : Iface \cup {Nil}, linkspeed : Speed]
  BY DEF NoCall, Speed
<1>5. CASE /\ next[route[t]] # rtable
           /\ route' = [route EXCEPT ![t] = next[route[t]]]
           /\ UNCHANGED <<pc, call, known, result>>
  <2>1. next[route[t]] \in Reached
    BY <1>3 DEF Inv, IInv, Forward
  <2>2. TypeOK'
    BY <1>1, <1>2, <1>3, <1>5, <2>1 DEF TypeOK
  <2>3. /\ route'[t] = next[route[t]] /\ pc'[t] = "visit"
        /\ \A u \in Thread : u # t => route'[u] = route[u]
    BY <1>1, <1>2, <1>5 DEF TypeOK
  <2>4. known'[t] \subseteq Linked
    BY <1>5 DEF Inv, IInv, Searches
  <2> QED BY <1>1, <1>5, <2>1, <2>2, <2>3, <2>4, SearchStep DEF Inserting, Holding
<1>6. CASE Last(t) /\ known' = [known EXCEPT ![t] = {}]
  <2>1. Miss(t)
    BY <1>6 DEF Last
  <2>2. TypeOK'
    BY <1>1, <1>2, <1>6, <2>1, MissTypes DEF TypeOK
  <2>3. /\ pc'[t] \in {"idle", "alloc"} /\ known'[t] = {}
        /\ \A u \in Thread : u # t => pc'[u] = pc[u] /\ route'[u] = route[u]
                                      /\ known'[u] = known[u]
    BY <1>2, <1>6, <2>1, MissTypes DEF TypeOK
  <2> QED BY <1>1, <2>2, <2>3, SearchStep DEF Inserting, Holding
<1>7. CASE Wild(t) /\ known' = [known EXCEPT ![t] = {}]
  <2>1. TypeOK'
    BY <1>1, <1>2, <1>4, <1>7 DEF TypeOK, Wild, Return
  <2>2. /\ pc'[t] = "wild" /\ known'[t] = {}
        /\ \A u \in Thread : u # t => pc'[u] = pc[u] /\ route'[u] = route[u]
                                      /\ known'[u] = known[u]
    BY <1>2, <1>7 DEF TypeOK, Wild, Return
  <2> QED BY <1>1, <2>1, <2>2, SearchStep DEF Inserting, Holding
<1>8. CASE Found(t) /\ known' = [known EXCEPT ![t] = {}]
  <2>1. route[t] \in Node /\ route[t] \in Linked /\ Hit(t)
    BY <1>3, <1>8 DEF Found, Matches, Reached
  <2>2. known' \in [Thread -> SUBSET Node] /\ known'[t] = {}
        /\ \A u \in Thread : u # t => known'[u] = known[u]
    BY <1>2, <1>8 DEF TypeOK
  <2>3. CASE /\ pc' = [pc EXCEPT ![t] = "lockReplace"]
             /\ UNCHANGED <<route, call, result>>
    <3>1. TypeOK'
      BY <1>1, <1>2, <2>2, <2>3 DEF TypeOK
    <3>2. /\ pc'[t] = "lockReplace" /\ route'[t] \in Linked
          /\ \A u \in Thread : u # t => pc'[u] = pc[u] /\ route'[u] = route[u]
      BY <1>2, <2>1, <2>3 DEF TypeOK
    <3> QED BY <1>1, <2>2, <3>1, <3>2, SearchStep DEF Inserting, Holding
  <2>4. CASE /\ Return(t, "idle")
             /\ result' = [result EXCEPT ![t] = iface[route[t]]] \/ UNCHANGED result
    <3>1. iface[route[t]] \in Iface \cup {Nil}
      BY <1>2, <2>1 DEF TypeOK
    <3>2. result' \in [Thread -> Iface \cup {Nil}]
      BY <1>2, <2>4, <3>1 DEF TypeOK
    <3>3. TypeOK'
      BY <1>1, <1>2, <1>4, <2>2, <2>4, <3>2 DEF TypeOK, Return
    <3>4. /\ pc'[t] = "idle"
          /\ \A u \in Thread : u # t => pc'[u] = pc[u] /\ route'[u] = route[u]
      BY <1>2, <2>4 DEF TypeOK, Return
    <3> QED BY <1>1, <2>2, <3>3, <3>4, SearchStep DEF Inserting, Holding
  <2> QED BY <2>1, <2>3, <2>4 DEF Hit
<1> QED BY <1>5, <1>6, <1>7, <1>8 DEF Visit

-----------------------------------------------------------------------------
(* A new route is not in the table.                                        *)
LEMMA NewRoute ==
  ASSUME Inv, NEW t \in Thread, NEW n \in Node \ allocated, pc[t] = "alloc",
         allocated' = allocated \cup {n}, pc'[t] = "lockInsert", route'[t] = n,
         \A u \in Thread : u # t => pc'[u] = pc[u] /\ route'[u] = route[u]
  PROVE  Linked' = Linked
<1>1. \A u \in Thread : pc[u] \in Inserting => route[u] \in allocated
  BY DEF Inv, IInv, OwnRoutes
<1>2. \A m : m \in Linked' <=> m \in allocated'
             /\ \A u \in Thread : pc'[u] \in Inserting => route'[u] # m
  BY LinkedIs DEF Linked, Inserting
<1>3. \A u \in Thread : pc'[u] \in Inserting <=> u = t \/ pc[u] \in Inserting
  BY DEF Inserting
<1>4. pc[t] \notin Inserting
  BY DEF Inserting
<1>5. \A m : m \in Linked' <=> m \in Linked
  BY <1>1, <1>2, <1>3, <1>4, LinkedIs
<1> QED BY <1>5 DEF Linked

(* A new route is nobody else's and not yet in the table; or there is none.*)
LEMMA AllocStep ==
  ASSUME Inv, NEW t \in Thread, Alloc(t)
  PROVE  Inv'
<1> USE ConstantsHold DEF Constants
<1>1. pc[t] = "alloc" /\ UNCHANGED <<next, prev, mutex, known, result>>
  BY DEF Alloc, At, links
<1>2. TypeOK
  BY DEF Inv
<1>3. CASE Return(t, "idle") /\ UNCHANGED <<allocated, fields>>
  <2>1. NoCall \in [op : {"none", "find", "add"}, addr : Addr \cup {Nil},
                    iface : Iface \cup {Nil}, linkspeed : Speed]
    BY DEF NoCall, Speed
  <2>2. TypeOK'
    BY <1>1, <1>2, <1>3, <2>1 DEF TypeOK, Return, fields
  <2>3. /\ pc'[t] = "idle" /\ UNCHANGED <<addr, iface, linkspeed>>
        /\ \A u \in Thread : u # t => pc'[u] = pc[u] /\ route'[u] = route[u]
    BY <1>2, <1>3 DEF TypeOK, Return, fields
  <2>4. known'[t] \subseteq Linked
    BY <1>1 DEF Inv, IInv, Searches
  <2> QED BY <1>1, <1>3, <2>2, <2>3, <2>4, SearchStep DEF Inserting, Holding
<1>4. ASSUME NEW n \in Node \ allocated, NEW garbage \in Speed,
             allocated' = allocated \cup {n},
             route' = [route EXCEPT ![t] = n],
             addr' = [addr EXCEPT ![n] = call[t].addr],
             iface' = [iface EXCEPT ![n] = call[t].iface],
             linkspeed' = [linkspeed EXCEPT ![n] = garbage],
             pc' = [pc EXCEPT ![t] = "lockInsert"],
             call' = call
      PROVE  Inv'
  <2>1. TypeOK'
    BY <1>1, <1>2, <1>4 DEF TypeOK, Cell
  <2>2. /\ pc'[t] = "lockInsert" /\ route'[t] = n
        /\ \A u \in Thread : u # t => pc'[u] = pc[u] /\ route'[u] = route[u]
    BY <1>2, <1>4 DEF TypeOK
  <2>3. \A u \in Thread : pc[u] \in Inserting => route[u] \in allocated
    BY DEF Inv, IInv, OwnRoutes
  <2>4. Linked' = Linked
    BY <1>1, <1>4, <2>2, NewRoute
  <2>5. Reached' = Reached
    BY <2>4 DEF Reached
  <2>6. MutualExclusion'
    BY <1>1, <2>2 DEF Inv, IInv, MutualExclusion, Holding
  <2>7. OwnRoutes'
    <3>1. \A u \in Thread : pc'[u] \in Inserting => route'[u] \in allocated'
      BY <1>4, <2>2, <2>3
    <3>2. \A u, v \in Thread : pc'[u] \in Inserting /\ pc'[v] \in Inserting
                               /\ route'[u] = route'[v] => u = v
      BY <1>4, <2>2, <2>3 DEF Inv, IInv, OwnRoutes
    <3>3. \A u \in Thread : pc'[u] \in {"lockReplace", "replace"} => route'[u] \in Linked'
      BY <2>2, <2>4 DEF Inv, IInv, OwnRoutes
    <3> QED BY <3>1, <3>2, <3>3 DEF OwnRoutes, Inserting
  <2>8. Forward'
    BY <1>1, <2>2, <2>4, <2>5 DEF Inv, IInv, Forward
  <2>9. Searches'
    BY <1>1, <2>2, <2>4, <2>5 DEF Inv, IInv, Searches
  <2> QED BY <2>1, <2>6, <2>7, <2>8, <2>9 DEF Inv, IInv
<1> QED BY <1>3, <1>4 DEF Alloc

(* The mutex is taken when nobody holds it.                                *)
LEMMA LockStep ==
  ASSUME Inv, NEW t \in Thread, Lock(t)
  PROVE  Inv'
<1> USE ConstantsHold DEF Constants
<1>1. /\ mutex = NoThread /\ mutex' = t
      /\ UNCHANGED <<next, prev, allocated, addr, iface, linkspeed,
                     call, route, known, result>>
  BY DEF Lock, links, fields, frame
<1>2. TypeOK
  BY DEF Inv
<1>3. /\ \/ pc[t] = "lockInsert" /\ pc' = [pc EXCEPT ![t] = "back"]
         \/ pc[t] = "lockReplace" /\ pc' = [pc EXCEPT ![t] = "replace"]
      /\ \A u \in Thread : u # t => pc'[u] = pc[u]
  BY <1>2 DEF Lock, At, TypeOK
<1>4. TypeOK'
  BY <1>1, <1>2, <1>3 DEF TypeOK
<1>5. \/ pc[t] = "lockInsert" /\ pc'[t] = "back"
      \/ pc[t] = "lockReplace" /\ pc'[t] = "replace"
  BY <1>2, <1>3 DEF TypeOK
<1>6. Linked' = Linked /\ Reached' = Reached
  BY <1>1, <1>3, <1>5, SameTable DEF Inserting
<1>7. MutualExclusion'
  BY <1>1, <1>3 DEF Inv, IInv, MutualExclusion
<1>8. OwnRoutes'
  BY <1>1, <1>3, <1>5, <1>6 DEF Inv, IInv, OwnRoutes, Inserting
<1>9. Forward'
  BY <1>1, <1>3, <1>5, <1>6 DEF Inv, IInv, Forward
<1>10. Searches'
  BY <1>1, <1>3, <1>5, <1>6 DEF Inv, IInv, Searches
<1> QED BY <1>4, <1>7, <1>8, <1>9, <1>10 DEF Inv, IInv

(* The mutex is given back.                                                *)
LEMMA UnlockStep ==
  ASSUME Inv, NEW t \in Thread, Unlock(t)
  PROVE  Inv'
<1> USE ConstantsHold DEF Constants
<1>1. /\ pc[t] = "unlock" /\ mutex' = NoThread /\ Return(t, "idle")
      /\ UNCHANGED <<next, prev, allocated, addr, iface, linkspeed, known, result>>
  BY DEF Unlock, At, links, fields
<1>2. TypeOK
  BY DEF Inv
<1>3. NoCall \in [op : {"none", "find", "add"}, addr : Addr \cup {Nil},
                  iface : Iface \cup {Nil}, linkspeed : Speed]
  BY DEF NoCall, Speed
<1>4. TypeOK'
  BY <1>1, <1>2, <1>3 DEF TypeOK, Return
<1>5. /\ pc'[t] = "idle"
      /\ \A u \in Thread : u # t => pc'[u] = pc[u] /\ route'[u] = route[u]
  BY <1>1, <1>2 DEF TypeOK, Return
<1>6. Linked' = Linked /\ Reached' = Reached
  BY <1>1, <1>5, SameTable DEF Inserting
<1>7. MutualExclusion'
  BY <1>1, <1>5 DEF Inv, IInv, MutualExclusion, Holding
<1>8. OwnRoutes'
  BY <1>1, <1>5, <1>6 DEF Inv, IInv, OwnRoutes, Inserting
<1>9. Forward'
  BY <1>1, <1>5, <1>6 DEF Inv, IInv, Forward
<1>10. Searches'
  BY <1>1, <1>5, <1>6 DEF Inv, IInv, Searches
<1> QED BY <1>4, <1>7, <1>8, <1>9, <1>10 DEF Inv, IInv

-----------------------------------------------------------------------------
(* The route that a thread is linking is a node, and not in the table.     *)
LEMMA OwnNode ==
  ASSUME Inv, NEW t \in Thread, pc[t] \in Inserting
  PROVE  route[t] \in Node /\ route[t] \notin Reached /\ route[t] # rtable
BY ConstantsHold, LinkedIs DEF Constants, Inv, IInv, OwnRoutes, TypeOK, Reached

(* The cell after the head is a cell.                                      *)
LEMMA AfterHead == Inv => next[rtable] \in Reached /\ Reached \subseteq Cell
BY ConstantsHold DEF Constants, Inv, IInv, Forward, Reached, Linked, TypeOK, Cell

(* The first write of an insertion: the node after points back.            *)
LEMMA BackStep ==
  ASSUME Inv, NEW t \in Thread, Back(t)
  PROVE  Inv'
<1> USE ConstantsHold DEF Constants
<1>1. /\ pc[t] = "back" /\ pc' = [pc EXCEPT ![t] = "node"]
      /\ prev' = [prev EXCEPT ![next[rtable]] = route[t]]
      /\ UNCHANGED <<next, allocated, addr, iface, linkspeed, mutex,
                     call, route, known, result>>
  BY DEF Back, At, LinkBack, fields, frame
<1>2. TypeOK /\ route[t] \in Node /\ next[rtable] \in Cell
  BY <1>1, OwnNode, AfterHead DEF Inv, Inserting
<1>3. TypeOK'
  BY <1>1, <1>2 DEF TypeOK, Cell
<1>4. pc'[t] = "node" /\ \A u \in Thread : u # t => pc'[u] = pc[u]
  BY <1>1, <1>2 DEF TypeOK
<1>5. Linked' = Linked /\ Reached' = Reached
  BY <1>1, <1>4, SameTable DEF Inserting
<1>6. MutualExclusion'
  BY <1>1, <1>4 DEF Inv, IInv, MutualExclusion, Holding
<1>7. OwnRoutes'
  BY <1>1, <1>4, <1>5 DEF Inv, IInv, OwnRoutes, Inserting
<1>8. Forward'
  BY <1>1, <1>4, <1>5 DEF Inv, IInv, Forward
<1>9. Searches'
  BY <1>1, <1>4, <1>5 DEF Inv, IInv, Searches
<1> QED BY <1>3, <1>6, <1>7, <1>8, <1>9 DEF Inv, IInv

(* The writes of the node's own links: no search can have come to it.      *)
LEMMA BetweenStep ==
  ASSUME Inv, NEW t \in Thread, Between(t)
  PROVE  Inv'
<1> USE ConstantsHold DEF Constants
<1>1. /\ pc[t] = "node" /\ pc' = [pc EXCEPT ![t] = "forth"]
      /\ next' = [next EXCEPT ![route[t]] = next[rtable]]
      /\ prev' = [prev EXCEPT ![route[t]] = rtable]
      /\ UNCHANGED <<allocated, addr, iface, linkspeed, mutex,
                     call, route, known, result>>
  BY DEF Between, At, LinkNode, fields, frame
<1>2. /\ TypeOK /\ route[t] \in Node /\ route[t] \notin Reached
      /\ route[t] # rtable /\ next[rtable] \in Cell
  BY <1>1, OwnNode, AfterHead DEF Inv, Inserting
<1>3. TypeOK'
  BY <1>1, <1>2 DEF TypeOK, Cell
<1>4. pc'[t] = "forth" /\ \A u \in Thread : u # t => pc'[u] = pc[u]
  BY <1>1, <1>2 DEF TypeOK
<1>5. Linked' = Linked /\ Reached' = Reached
  BY <1>1, <1>4, SameTable DEF Inserting
<1>6. MutualExclusion'
  BY <1>1, <1>4 DEF Inv, IInv, MutualExclusion, Holding
<1>7. OwnRoutes'
  BY <1>1, <1>4, <1>5 DEF Inv, IInv, OwnRoutes, Inserting
<1>8. Forward'
  <2>1. next'[route[t]] = next[rtable] /\ \A c \in Reached : next'[c] = next[c]
    BY <1>1, <1>2, AfterHead DEF TypeOK, Cell
  <2>2. rtable \in Reached
    BY DEF Reached
  <2>3. \A u \in Thread : pc'[u] = "forth" => u = t
    BY <1>1, <1>4 DEF Inv, IInv, MutualExclusion, Holding
  <2> QED BY <1>1, <1>5, <2>1, <2>2, <2>3, AfterHead DEF Inv, IInv, Forward
<1>9. Searches'
  BY <1>1, <1>4, <1>5 DEF Inv, IInv, Searches
<1> QED BY <1>3, <1>6, <1>7, <1>8, <1>9 DEF Inv, IInv

(* The table after an insertion.                                           *)
LEMMA LinkedRoute ==
  ASSUME Inv, NEW t \in Thread, pc[t] = "forth", pc'[t] = "unlock",
         \A u \in Thread : u # t => pc'[u] = pc[u],
         UNCHANGED <<allocated, route>>
  PROVE  Linked' = Linked \cup {route[t]}
<1>1. \A m : m \in Linked' <=> m \in allocated'
             /\ \A u \in Thread : pc'[u] \in Inserting => route'[u] # m
  BY LinkedIs DEF Linked, Inserting
<1>2. \A u \in Thread : pc'[u] \in Inserting <=> pc[u] \in Inserting /\ u # t
  BY DEF Inserting
<1>3. /\ pc[t] \in Inserting /\ route[t] \in allocated
      /\ \A u \in Thread : pc[u] \in Inserting /\ u # t => route[u] # route[t]
  BY DEF Inv, IInv, OwnRoutes, Inserting
<1>4. \A m : m \in Linked' <=> m \in Linked \/ m = route[t]
  BY <1>1, <1>2, <1>3, LinkedIs
<1> QED BY <1>4 DEF Linked

(* The last write makes the route visible, with its own links in place.    *)
LEMMA ForthStep ==
  ASSUME Inv, NEW t \in Thread, Forth(t)
  PROVE  Inv'
<1> USE ConstantsHold DEF Constants
<1>1. /\ pc[t] = "forth" /\ pc' = [pc EXCEPT ![t] = "unlock"]
      /\ next' = [next EXCEPT ![rtable] = route[t]]
      /\ UNCHANGED <<prev, allocated, addr, iface, linkspeed, mutex,
                     call, route, known, result>>
  BY DEF Forth, At, LinkForth, fields, frame
<1>2. /\ TypeOK /\ route[t] \in Node /\ route[t] \notin Reached
      /\ route[t] # rtable
  BY <1>1, OwnNode DEF Inv, Inserting
<1>3. TypeOK'
  BY <1>1, <1>2 DEF TypeOK, Cell
<1>4. pc'[t] = "unlock" /\ \A u \in Thread : u # t => pc'[u] = pc[u]
  BY <1>1, <1>2 DEF TypeOK
<1>5. Linked' = Linked \cup {route[t]}
  BY <1>1, <1>4, LinkedRoute
<1>6. Reached' = Reached \cup {route[t]}
  BY <1>5 DEF Reached
<1>7. MutualExclusion'
  BY <1>1, <1>4 DEF Inv, IInv, MutualExclusion, Holding
<1>8. OwnRoutes'
  BY <1>1, <1>4, <1>5 DEF Inv, IInv, OwnRoutes, Inserting
<1>9. Forward'
  <2>1. next'[rtable] = route[t] /\ \A c \in Cell : c # rtable => next'[c] = next[c]
    BY <1>1, <1>2 DEF TypeOK, Cell
  <2>2. next'[route[t]] \in Reached
    BY <1>1, <1>2, <2>1 DEF Inv, IInv, Forward, Cell
  <2>3. \A c \in Reached' : next'[c] \in Reached'
    BY <1>6, <2>1, <2>2, AfterHead DEF Inv, IInv, Forward
  <2>4. \A u \in Thread : pc'[u] # "forth"
    BY <1>1, <1>4 DEF Inv, IInv, MutualExclusion, Holding
  <2> QED BY <1>2, <2>1, <2>3, <2>4 DEF Forward
<1>10. Searches'
  BY <1>1, <1>4, <1>5, <1>6 DEF Inv, IInv, Searches
<1> QED BY <1>3, <1>7, <1>8, <1>9, <1>10 DEF Inv, IInv

(* A route is replaced in place.                                           *)
LEMMA ReplaceStep ==
  ASSUME Inv, NEW t \in Thread, Replace(t)
  PROVE  Inv'
<1> USE ConstantsHold DEF Constants
<1>1. /\ pc[t] = "replace" /\ pc' = [pc EXCEPT ![t] = "unlock"]
      /\ iface' = [iface EXCEPT ![route[t]] = call[t].iface]
      /\ linkspeed' = [linkspeed EXCEPT ![route[t]] = call[t].linkspeed]
      /\ UNCHANGED <<next, prev, allocated, addr, mutex, call, route, known, result>>
  BY DEF Replace, At, links, frame
<1>2. TypeOK
  BY DEF Inv
<1>3. TypeOK'
  BY <1>1, <1>2 DEF TypeOK
<1>4. pc'[t] = "unlock" /\ \A u \in Thread : u # t => pc'[u] = pc[u]
  BY <1>1, <1>2 DEF TypeOK
<1>5. Linked' = Linked /\ Reached' = Reached
  BY <1>1, <1>4, SameTable DEF Inserting
<1>6. MutualExclusion'
  BY <1>1, <1>4 DEF Inv, IInv, MutualExclusion, Holding
<1>7. OwnRoutes'
  BY <1>1, <1>4, <1>5 DEF Inv, IInv, OwnRoutes, Inserting
<1>8. Forward'
  BY <1>1, <1>4, <1>5 DEF Inv, IInv, Forward
<1>9. Searches'
  BY <1>1, <1>4, <1>5 DEF Inv, IInv, Searches
<1> QED BY <1>3, <1>6, <1>7, <1>8, <1>9 DEF Inv, IInv

-----------------------------------------------------------------------------
(* Every step keeps the invariant.                                         *)
LEMMA InvNext == Inv /\ [Next]_vars => Inv'
<1> SUFFICES ASSUME Inv, [Next]_vars PROVE Inv'
  OBVIOUS
<1>1. CASE Next
  <2>1. PICK t \in Thread : CallFind(t) \/ CallAdd(t) \/ Proceed(t)
    BY <1>1 DEF Next
  <2> QED BY <2>1, CallStep, FirstStep, TestStep, VisitStep, AllocStep, LockStep,
             UnlockStep, BackStep, BetweenStep, ForthStep, ReplaceStep DEF Proceed
<1>2. CASE UNCHANGED vars
  BY <1>2 DEF vars, links, fields, frame, Inv, IInv, TypeOK, MutualExclusion,
              OwnRoutes, Forward, Searches, Reached, Linked
<1> QED BY <1>1, <1>2

(* The inductive invariant holds of every behaviour of the table.          *)
LEMMA Invariance == Spec => []Inv
BY InvInit, InvNext, PTL DEF Spec

(* Whatever is inserted meanwhile, a cursor is on a cell of the list, and  *)
(* every field of a route keeps its type.                                  *)
THEOREM TypeCorrect == Spec => []TypeOK
BY Invariance, PTL DEF Inv

(* Only one thread at a time is between the lock and the unlock.           *)
THEOREM MutexCorrect == Spec => []MutualExclusion
BY Invariance, PTL DEF Inv, IInv

(* No search takes the head of the list for a route if it began with two   *)
(* routes in the table, for any number of threads and routes.              *)
THEOREM HeadCorrect == Spec => []HeadOnlyAtFirst
<1>1. Inv => HeadOnlyAtFirst
  BY DEF Inv, IInv, Searches, HeadOnlyAtFirst
<1> QED BY <1>1, Invariance, PTL

-----------------------------------------------------------------------------
(* What the other invariants need of the links at every moment: the routes *)
(* in the table point back to each other, and the head back to the last    *)
(* one; the node after the head points back to the head, or to the route   *)
(* that is being inserted.                                                 *)
Linking == {"node", "forth"}

Backward ==
  /\ \A c \in Linked : prev[next[c]] = c
  /\ Linked # {} => prev[rtable] \in Linked /\ next[prev[rtable]] = rtable
  /\ (\A t \in Thread : pc[t] \notin Linking) => prev[next[rtable]] = rtable
  /\ \A t \in Thread : pc[t] \in Linking => prev[next[rtable]] = route[t]
  /\ \A t \in Thread : pc[t] = "forth" => /\ next[route[t]] = next[rtable]
                                          /\ prev[route[t]] = rtable

ListInv == RingThrough(rtable, Linked) /\ Backward

(* Steps that neither change the links nor the table.                      *)
Quiet(t) ==
  /\ UNCHANGED <<next, prev>> /\ Linked' = Linked
  /\ \A u \in Thread : u # t => /\ pc'[u] = pc[u] /\ route'[u] = route[u]
                                /\ known'[u] = known[u] /\ call'[u] = call[u]
  /\ \A n \in Linked : addr'[n] = addr[n]
  /\ {pc[t], pc'[t]} \cap Linking = {}

(* They are all but the three writes of an insertion.                      *)
LEMMA QuietFirst ==
  ASSUME Inv, NEW t \in Thread, CallFind(t) \/ CallAdd(t) \/ First(t)
  PROVE  Quiet(t)
<1> USE ConstantsHold DEF Constants
<1>1. /\ UNCHANGED <<next, prev, allocated, addr>>
      /\ pc[t] \in {"idle", "first"} /\ \E p \in {"first", "test"} : pc' = [pc EXCEPT ![t] = p]
      /\ \A u \in Thread : u # t => route'[u] = route[u] /\ known'[u] = known[u]
                                    /\ call'[u] = call[u]
  BY DEF Inv, TypeOK, CallFind, CallAdd, First, At, links, fields
<1>2. /\ pc'[t] \in {"first", "test"} /\ \A u \in Thread : u # t => pc'[u] = pc[u]
  BY <1>1 DEF Inv, TypeOK
<1>3. Linked' = Linked
  BY <1>1, <1>2, SameTable DEF Inserting
<1> QED BY <1>1, <1>2, <1>3 DEF Quiet, Linking

(* A search writes nothing.                                                *)
LEMMA QuietSearch ==
  ASSUME Inv, NEW t \in Thread, Test(t) \/ Visit(t)
  PROVE  Quiet(t)
<1> USE ConstantsHold DEF Constants
<1>1. UNCHANGED <<next, prev, allocated, addr>> /\ pc[t] \in {"test", "visit"}
  BY DEF Test, Visit, At, links, fields
<1>2. \A u \in Thread : u # t => known'[u] = known[u]
  BY DEF Test, Visit, Inv, TypeOK
<1>3. ASSUME Miss(t) \/ Hit(t) \/ Wild(t)
      PROVE  /\ pc'[t] \in {"idle", "alloc", "lockReplace", "wild"}
             /\ \A u \in Thread : u # t => /\ pc'[u] = pc[u] /\ route'[u] = route[u]
                                           /\ call'[u] = call[u]
  BY <1>3 DEF Miss, Hit, Wild, Return, Inv, TypeOK
<1>4. /\ pc'[t] \in {"idle", "alloc", "lockReplace", "wild", "visit"}
      /\ \A u \in Thread : u # t => /\ pc'[u] = pc[u] /\ route'[u] = route[u]
                                    /\ call'[u] = call[u]
  <2>1. CASE Test(t)
    <3>1. CASE Miss(t)
      BY <1>3, <3>1
    <3>2. CASE route' = [route EXCEPT ![t] = next[rtable]]
               /\ pc' = [pc EXCEPT ![t] = "visit"] /\ UNCHANGED call
      BY <3>2 DEF Inv, TypeOK
    <3> QED BY <2>1, <3>1, <3>2 DEF Test
  <2>2. CASE Visit(t)
    <3>1. CASE Found(t) \/ Last(t) \/ Wild(t)
      BY <1>3, <3>1 DEF Found, Last
    <3>2. CASE route' = [route EXCEPT ![t] = next[route[t]]] /\ UNCHANGED <<pc, call>>
      BY <1>1, <2>2, <3>2 DEF Visit, At, Inv, TypeOK
    <3> QED BY <2>2, <3>1, <3>2 DEF Visit
  <2> QED BY <2>1, <2>2
<1>5. Linked' = Linked
  BY <1>1, <1>4, SameTable DEF Inserting
<1> QED BY <1>1, <1>2, <1>4, <1>5 DEF Quiet, Linking

(* An allocation writes no field of a route in the table.                  *)
LEMMA QuietAlloc ==
  ASSUME Inv, NEW t \in Thread, Alloc(t)
  PROVE  Quiet(t)
<1> USE ConstantsHold DEF Constants
<1>1. pc[t] = "alloc" /\ UNCHANGED <<next, prev, known>>
  BY DEF Alloc, At, links
<1>2. CASE Return(t, "idle") /\ UNCHANGED <<allocated, fields>>
  <2>1. /\ pc'[t] = "idle" /\ UNCHANGED addr
        /\ \A u \in Thread : u # t => /\ pc'[u] = pc[u] /\ route'[u] = route[u]
                                      /\ call'[u] = call[u]
    BY <1>2 DEF Return, fields, Inv, TypeOK
  <2>2. Linked' = Linked
    BY <1>1, <1>2, <2>1, SameTable DEF Inserting
  <2> QED BY <1>1, <2>1, <2>2 DEF Quiet, Linking
<1>3. ASSUME NEW n \in Node \ allocated,
             allocated' = allocated \cup {n},
             route' = [route EXCEPT ![t] = n],
             addr' = [addr EXCEPT ![n] = call[t].addr],
             pc' = [pc EXCEPT ![t] = "lockInsert"],
             call' = call
      PROVE  Quiet(t)
  <2>1. /\ pc'[t] = "lockInsert" /\ route'[t] = n
        /\ \A u \in Thread : u # t => pc'[u] = pc[u] /\ route'[u] = route[u]
    BY <1>3 DEF Inv, TypeOK
  <2>2. Linked' = Linked
    BY <1>1, <1>3, <2>1, NewRoute
  <2>3. \A m \in Linked : addr'[m] = addr[m]
    BY <1>3 DEF Linked, Inv, TypeOK
  <2> QED BY <1>1, <1>3, <2>1, <2>2, <2>3 DEF Quiet, Linking
<1> QED BY <1>2, <1>3 DEF Alloc

(* Nor do the lock, the unlock and the replacement of a route.             *)
LEMMA QuietMutex ==
  ASSUME Inv, NEW t \in Thread, Lock(t) \/ Unlock(t) \/ Replace(t)
  PROVE  Quiet(t)
<1> USE ConstantsHold DEF Constants
<1>1. UNCHANGED <<next, prev, allocated, addr, known>>
  BY DEF Lock, Unlock, Replace, links, fields, frame
<1>2. /\ \/ pc[t] = "lockInsert" /\ pc'[t] = "back" /\ route' = route
         \/ pc[t] \notin Inserting /\ pc'[t] \in {"replace", "unlock", "idle"}
      /\ \A u \in Thread : u # t => /\ pc'[u] = pc[u] /\ route'[u] = route[u]
                                    /\ call'[u] = call[u]
  <2>1. CASE Lock(t)
    BY <2>1 DEF Lock, At, frame, Inv, TypeOK, Inserting
  <2>2. CASE Unlock(t)
    BY <2>2 DEF Unlock, At, Return, Inv, TypeOK, Inserting
  <2>3. CASE Replace(t)
    BY <2>3 DEF Replace, At, frame, Inv, TypeOK, Inserting
  <2> QED BY <2>1, <2>2, <2>3
<1>3. Linked' = Linked
  BY <1>1, <1>2, SameTable DEF Inserting
<1> QED BY <1>1, <1>2, <1>3 DEF Quiet, Linking, Inserting

(* Every step is quiet or writes links.                                    *)
LEMMA QuietOrNot ==
  ASSUME Inv, NEW t \in Thread, CallFind(t) \/ CallAdd(t) \/ Proceed(t)
  PROVE  Quiet(t) \/ Back(t) \/ Between(t) \/ Forth(t)
BY QuietFirst, QuietSearch, QuietAlloc, QuietMutex DEF Proceed

-----------------------------------------------------------------------------
(* The links, in the terms of LspListProofs.                               *)
TableLinks ==
  /\ next \in Links /\ Linked \subseteq Node
  /\ RingThrough(rtable, Linked) <=> Ring(next, rtable, Linked)
  /\ \A c \in Cell : Ahead(c) = AheadOf(next, c)

LEMMA TableLinksHold == Inv => TableLinks
<1> SUFFICES ASSUME Inv PROVE TableLinks
  OBVIOUS
<1>1. next \in Links /\ rtable \in Head /\ Linked \subseteq Node
  BY ConstantsHold DEF Constants, Inv, TypeOK, Links, Cell, Linked
<1> QED BY <1>1, ListOperators DEF TableLinks

(* The same of the next state.                                             *)
LEMMA TableLinksNext == Inv' => TableLinks'
BY TableLinksHold, PTL

(* The head is one.                                                        *)
LEMMA HeadIs == rtable \in Head /\ rtable \in Cell /\ rtable \notin Node
BY ConstantsHold DEF Constants, Cell

(* A quiet step leaves the list as it is.                                  *)
LEMMA ListQuiet ==
  ASSUME Inv, Inv', ListInv, NEW t \in Thread, Quiet(t)
  PROVE  ListInv'
<1>1. TableLinks /\ TableLinks'
  BY TableLinksHold, TableLinksNext
<1>2. UNCHANGED <<next, prev>> /\ Linked' = Linked
  BY DEF Quiet
<1>3. RingThrough(rtable, Linked)'
  BY <1>1, <1>2 DEF TableLinks, ListInv
<1>4. \A u \in Thread : /\ pc'[u] \in Linking <=> pc[u] \in Linking
                        /\ pc'[u] = "forth" => pc[u] = "forth"
                        /\ pc[u] \in Linking => route'[u] = route[u]
  BY DEF Quiet, Linking
<1>5. Backward'
  BY <1>2, <1>4 DEF ListInv, Backward, Linking
<1> QED BY <1>3, <1>5 DEF ListInv

(* The first write of an insertion changes what the node after the head    *)
(* points back to, which is the head, or else no node's next.              *)
LEMMA ListBack ==
  ASSUME Inv, Inv', ListInv, NEW t \in Thread, Back(t)
  PROVE  ListInv'
<1>1. /\ pc[t] = "back" /\ pc' = [pc EXCEPT ![t] = "node"]
      /\ prev' = [prev EXCEPT ![next[rtable]] = route[t]]
      /\ UNCHANGED <<next, allocated, route>>
  BY DEF Back, At, LinkBack, frame
<1>2. pc'[t] = "node" /\ \A u \in Thread : u # t => pc'[u] = pc[u]
  BY <1>1 DEF Inv, TypeOK
<1>3. Linked' = Linked
  BY <1>1, <1>2, SameTable DEF Inserting
<1>4. TableLinks /\ TableLinks' /\ next[rtable] \in Cell
  BY TableLinksHold, TableLinksNext, AfterHead
<1>5. RingThrough(rtable, Linked)'
  BY <1>1, <1>3, <1>4 DEF TableLinks, ListInv
<1>6. \A u \in Thread : u # t => pc[u] \notin Linking
  BY <1>1 DEF Inv, IInv, MutualExclusion, Holding, Linking
<1>7. prev[next[rtable]] = rtable
  BY <1>1, <1>6 DEF ListInv, Backward, Linking
<1>8. /\ prev'[next[rtable]] = route[t]
      /\ \A c \in Cell : c # next[rtable] => prev'[c] = prev[c]
  BY <1>1, <1>4 DEF Inv, TypeOK
<1>9. \A c \in Linked : next[c] \in Cell /\ next[c] # next[rtable] /\ c # rtable
  <2> TAKE c \in Linked
  <2>1. next[c] \in Reached /\ Reached \subseteq Cell /\ c # rtable
    BY AfterHead, <1>4, HeadIs DEF Inv, IInv, Forward, Reached, TableLinks
  <2>2. prev[next[c]] = c
    BY DEF ListInv, Backward
  <2> QED BY <1>7, <2>1, <2>2
<1>10. Linked # {} => next[rtable] # rtable
  BY <1>4, HeadIs, RingFirst DEF ListInv, TableLinks
<1>11. Backward'
  <2>1. \A c \in Linked' : prev'[next'[c]] = c
    BY <1>1, <1>3, <1>8, <1>9 DEF ListInv, Backward
  <2>2. Linked' # {} => prev'[rtable] \in Linked' /\ next'[prev'[rtable]] = rtable
    BY <1>1, <1>3, <1>8, <1>10, HeadIs DEF ListInv, Backward
  <2>3. \A u \in Thread : pc'[u] \in Linking => u = t /\ pc'[u] # "forth"
    BY <1>2, <1>6
  <2> QED BY <1>1, <1>2, <1>8, <2>1, <2>2, <2>3 DEF Backward, Linking
<1> QED BY <1>5, <1>11 DEF ListInv

(* The second write is to links that are not yet in the list.              *)
LEMMA ListBetween ==
  ASSUME Inv, Inv', ListInv, NEW t \in Thread, Between(t)
  PROVE  ListInv'
<1>1. /\ pc[t] = "node" /\ pc' = [pc EXCEPT ![t] = "forth"]
      /\ next' = [next EXCEPT ![route[t]] = next[rtable]]
      /\ prev' = [prev EXCEPT ![route[t]] = rtable]
      /\ UNCHANGED <<allocated, route>>
  BY DEF Between, At, LinkNode, frame
<1>2. pc'[t] = "forth" /\ \A u \in Thread : u # t => pc'[u] = pc[u]
  BY <1>1 DEF Inv, TypeOK
<1>3. Linked' = Linked
  BY <1>1, <1>2, SameTable DEF Inserting
<1>4. TableLinks /\ TableLinks' /\ next[rtable] \in Reached /\ Reached \subseteq Cell
  BY TableLinksHold, TableLinksNext, AfterHead
<1>5. route[t] \in Node /\ route[t] \notin Reached
  BY <1>1, OwnNode DEF Inserting
<1>6. /\ next'[route[t]] = next[rtable] /\ prev'[route[t]] = rtable
      /\ \A c \in Cell : c # route[t] => next'[c] = next[c] /\ prev'[c] = prev[c]
  BY <1>1, <1>5 DEF Inv, TypeOK, Cell
<1>7. \A c \in Reached : next'[c] = next[c] /\ prev'[c] = prev[c]
  BY <1>4, <1>5, <1>6
<1>8. RingThrough(rtable, Linked)'
  BY <1>3, <1>4, <1>7, HeadIs, RingSame DEF TableLinks, ListInv, Reached
<1>9. \A c \in Linked : next[c] \in Reached
  BY DEF Inv, IInv, Forward, Reached
<1>10. \A u \in Thread : u # t => pc[u] \notin Linking
  BY <1>1 DEF Inv, IInv, MutualExclusion, Holding, Linking
<1>11. Backward'
  <2>1. \A c \in Linked' : prev'[next'[c]] = c
    BY <1>3, <1>7, <1>9 DEF ListInv, Backward, Reached
  <2>2. Linked' # {} => prev'[rtable] \in Linked' /\ next'[prev'[rtable]] = rtable
    BY <1>3, <1>7 DEF ListInv, Backward, Reached
  <2>3. next'[rtable] = next[rtable] /\ prev'[next'[rtable]] = route[t]
    BY <1>1, <1>4, <1>7 DEF ListInv, Backward, Reached, Linking
  <2>4. \A u \in Thread : pc'[u] \in Linking => u = t
    BY <1>2, <1>10
  <2> QED BY <1>1, <1>2, <1>6, <2>1, <2>2, <2>3, <2>4 DEF Backward, Linking
<1> QED BY <1>8, <1>11 DEF ListInv

(* The last write puts the node between the head and the first node, the   *)
(* links of which were made before.                                        *)
LEMMA ListForth ==
  ASSUME Inv, Inv', ListInv, NEW t \in Thread, Forth(t)
  PROVE  ListInv'
<1>1. /\ pc[t] = "forth" /\ pc' = [pc EXCEPT ![t] = "unlock"]
      /\ next' = [next EXCEPT ![rtable] = route[t]]
      /\ UNCHANGED <<prev, allocated, route>>
  BY DEF Forth, At, LinkForth, frame
<1>2. pc'[t] = "unlock" /\ \A u \in Thread : u # t => pc'[u] = pc[u]
  BY <1>1 DEF Inv, TypeOK
<1>3. Linked' = Linked \cup {route[t]}
  BY <1>1, <1>2, LinkedRoute
<1>4. TableLinks /\ TableLinks' /\ next[rtable] \in Reached /\ Reached \subseteq Cell
  BY TableLinksHold, TableLinksNext, AfterHead
<1>5. route[t] \in Node /\ route[t] \notin Reached /\ route[t] # rtable
  BY <1>1, OwnNode DEF Inserting
<1>6. next'[rtable] = route[t] /\ \A c \in Cell : c # rtable => next'[c] = next[c]
  BY <1>1, HeadIs DEF Inv, TypeOK, Cell
<1>7. /\ prev[next[rtable]] = route[t] /\ next[route[t]] = next[rtable]
      /\ prev[route[t]] = rtable
  BY <1>1 DEF ListInv, Backward, Linking
<1>8. next'[route[t]] = next[rtable]
  BY <1>5, <1>6, <1>7 DEF Cell
<1>9. \A c \in Linked : next'[c] = next[c]
  BY <1>4, <1>6, HeadIs DEF Reached, TableLinks
<1>10. Ring(next', rtable, Linked \cup {route[t]})
  <2>1. route[t] \in Node \ Linked /\ Ring(next, rtable, Linked)
        /\ next \in Links /\ next' \in Links /\ Linked \subseteq Node
    BY <1>4, <1>5 DEF Reached, TableLinks, ListInv
  <2>2. \A d \in (Linked \cup {rtable}) \ {rtable} : next'[d] = next[d]
    BY <1>9
  <2> QED BY <1>6, <1>8, <2>1, <2>2, HeadIs, RingInsert
<1>11. RingThrough(rtable, Linked)'
  BY <1>3, <1>4, <1>10 DEF TableLinks
<1>12. \A u \in Thread : pc'[u] \notin Linking
  BY <1>1, <1>2 DEF Inv, IInv, MutualExclusion, Holding, Linking
<1>13. Backward'
  <2>1. \A c \in Linked' : prev'[next'[c]] = c
    BY <1>1, <1>3, <1>7, <1>8, <1>9 DEF ListInv, Backward
  <2>2. Linked' # {} => prev'[rtable] \in Linked' /\ next'[prev'[rtable]] = rtable
    <3>1. CASE Linked = {}
      <4>1. next[rtable] = rtable
        BY <1>4, <3>1, HeadIs, RingFirst DEF ListInv, TableLinks
      <4> QED BY <1>1, <1>3, <1>7, <1>8, <4>1
    <3>2. CASE Linked # {}
      BY <1>1, <1>3, <1>9, <3>2 DEF ListInv, Backward
    <3> QED BY <3>1, <3>2
  <2>3. prev'[next'[rtable]] = rtable
    BY <1>1, <1>6, <1>7
  <2> QED BY <1>12, <2>1, <2>2, <2>3 DEF Backward, Linking
<1> QED BY <1>11, <1>13 DEF ListInv

(* At the start the head is linked to itself.                              *)
LEMMA ListInit == Init => ListInv
<1> SUFFICES ASSUME Init PROVE ListInv
  OBVIOUS
<1>1. Inv
  BY InvInit
<1>2. TableLinks /\ Linked = {} /\ \A t \in Thread : pc[t] = "idle"
  BY <1>1, TableLinksHold DEF Init, Linked
<1>3. next[rtable] = rtable /\ prev[rtable] = rtable
  BY HeadIs DEF Init, LinksInit
<1>4. Ring(next, rtable, {})
  <2> DEFINE w == [k \in 0 .. 0 |-> rtable]
  <2>1. Cardinality({}) = 0
    BY FS_EmptySet
  <2>2. Order(next, rtable, {}, w)
    BY <1>3, <2>1, HeadIs DEF Order, Path
  <2> HIDE DEF w
  <2> QED BY <1>2, <2>2, HeadIs, OrderRing DEF TableLinks
<1>5. Backward
  BY <1>2, <1>3 DEF Backward, Linking
<1> QED BY <1>2, <1>4, <1>5 DEF ListInv, TableLinks

(* Every step leaves the list intact.                                      *)
LEMMA ListNext == Inv /\ Inv' /\ ListInv /\ [Next]_vars => ListInv'
<1> SUFFICES ASSUME Inv, Inv', ListInv, [Next]_vars PROVE ListInv'
  OBVIOUS
<1>1. CASE Next
  <2>1. PICK t \in Thread : CallFind(t) \/ CallAdd(t) \/ Proceed(t)
    BY <1>1 DEF Next
  <2> QED BY <2>1, QuietOrNot, ListQuiet, ListBack, ListBetween, ListForth
<1>2. CASE UNCHANGED vars
  <2>1. UNCHANGED <<next, prev>> /\ Linked' = Linked /\ UNCHANGED <<pc, route>>
    BY <1>2 DEF vars, links, frame, Linked
  <2>2. RingThrough(rtable, Linked)'
    BY <2>1, TableLinksHold, TableLinksNext DEF TableLinks, ListInv
  <2>3. Backward'
    BY <2>1 DEF ListInv, Backward
  <2> QED BY <2>2, <2>3 DEF ListInv
<1> QED BY <1>1, <1>2

(* The forward links are a ring through the table's routes at any moment,  *)
(* and the backward links agree when nobody inserts.                       *)
LEMMA ListInvariance == Spec => [](Inv /\ ListInv)
BY InvInit, InvNext, ListInit, ListNext, PTL DEF Spec

(* However the insertions and the searches of any number of threads        *)
(* interleave, whoever follows the links finds a list that ends: the       *)
(* forward links are a ring through the routes in the table, and when the  *)
(* mutex is free the backward links are those of the same ring.            *)
THEOREM ListCorrect == Spec => []ListIntact
<1>1. Inv /\ ListInv => ListIntact
  <2> SUFFICES ASSUME Inv, ListInv PROVE ListIntact
    OBVIOUS
  <2>1. mutex = NoThread => \A t \in Thread : pc[t] \notin Linking
    BY ConstantsHold DEF Constants, Inv, IInv, MutualExclusion, Holding, Linking
  <2>2. \A c \in Linked \cup {rtable} : next[c] \in Cell
    BY AfterHead DEF Inv, IInv, Forward, Reached
  <2> QED BY <2>1, <2>2 DEF ListInv, Backward, ListIntact, Mirrored
<1> QED BY <1>1, ListInvariance, PTL

-----------------------------------------------------------------------------
(* What the others do to the list does not touch what a search has ahead:  *)
(* the forward links of the routes in the table stay.                      *)
LEMMA LinkedLinks ==
  ASSUME Inv, NEW u \in Thread, CallFind(u) \/ CallAdd(u) \/ Proceed(u)
  PROVE  \A c \in Linked : next'[c] = next[c]
<1>1. CASE Quiet(u) \/ Back(u)
  BY <1>1 DEF Quiet, Back, LinkBack
<1>2. CASE Between(u)
  <2>1. next' = [next EXCEPT ![route[u]] = next[rtable]] /\ route[u] \notin Linked
    BY <1>2, OwnNode DEF Between, At, LinkNode, Inserting, Reached
  <2> QED BY <2>1, TableLinksHold DEF TableLinks, Links, Cell
<1>3. CASE Forth(u)
  <2>1. next' = [next EXCEPT ![rtable] = route[u]] /\ rtable \notin Linked
    BY <1>3, TableLinksHold, HeadIs DEF Forth, LinkForth, TableLinks
  <2> QED BY <2>1, TableLinksHold DEF TableLinks, Links, Cell
<1> QED BY <1>1, <1>2, <1>3, QuietOrNot

(* Nor do they touch its frame, nor the addresses of the routes.           *)
LEMMA OthersFrames ==
  ASSUME Inv, NEW u \in Thread, CallFind(u) \/ CallAdd(u) \/ Proceed(u)
  PROVE  /\ \A t \in Thread : t # u => /\ pc'[t] = pc[t] /\ route'[t] = route[t]
                                       /\ known'[t] = known[t] /\ call'[t] = call[t]
         /\ \A n \in Linked : addr'[n] = addr[n]
<1>1. CASE Quiet(u)
  BY <1>1 DEF Quiet
<1>2. CASE Back(u) \/ Between(u) \/ Forth(u)
  <2>1. /\ UNCHANGED <<route, known, call, addr>>
        /\ \E p \in {"node", "forth", "unlock"} : pc' = [pc EXCEPT ![u] = p]
    BY <1>2 DEF Back, Between, Forth, fields, frame
  <2> QED BY <2>1 DEF Inv, TypeOK
<1> QED BY <1>1, <1>2, QuietOrNot

(* The last route does not change while there is one.                      *)
LEMMA LastStays ==
  ASSUME Inv, ListInv, NEW u \in Thread, CallFind(u) \/ CallAdd(u) \/ Proceed(u),
         Linked # {}
  PROVE  prev'[rtable] = prev[rtable]
<1>1. CASE Quiet(u) \/ Forth(u)
  BY <1>1 DEF Quiet, Forth, LinkForth
<1>2. CASE Between(u)
  <2>1. prev' = [prev EXCEPT ![route[u]] = rtable] /\ route[u] # rtable
    BY <1>2, OwnNode DEF Between, At, LinkNode, Inserting
  <2> QED BY <2>1, HeadIs DEF Inv, TypeOK
<1>3. CASE Back(u)
  <2>1. next[rtable] # rtable
    BY HeadIs, TableLinksHold, RingFirst DEF ListInv, TableLinks
  <2>2. prev' = [prev EXCEPT ![next[rtable]] = route[u]]
    BY <1>3 DEF Back, LinkBack
  <2> QED BY <2>1, <2>2, HeadIs DEF Inv, TypeOK
<1> QED BY <1>1, <1>2, <1>3, QuietOrNot

(* A search in the loop of which goes on has taken no step, or the loop's. *)
Moves(t) ==
  /\ ~Matches(t) /\ next[route[t]] # rtable
  /\ route'[t] = next[route[t]] /\ known'[t] = known[t] /\ call'[t] = call[t]

LEMMA StillVisiting ==
  ASSUME Inv, NEW t \in Thread, NEW u \in Thread,
         CallFind(u) \/ CallAdd(u) \/ Proceed(u), pc[t] = "visit", pc'[t] = "visit"
  PROVE  \/ route'[t] = route[t] /\ known'[t] = known[t] /\ call'[t] = call[t]
         \/ Moves(t)
<1>1. CASE t # u
  BY <1>1, OthersFrames
<1>2. CASE t = u
  <2>1. Visit(t)
    BY <1>2 DEF CallFind, CallAdd, Proceed, First, Test, Alloc, Lock, Unlock, Back,
                Between, Forth, Replace, At
  <2>2. CASE Found(t) \/ Last(t) \/ Wild(t)
    BY <2>2 DEF Found, Last, Wild, Hit, Miss, Return, Inv, TypeOK
  <2>3. CASE /\ ~Matches(t) /\ next[route[t]] # rtable
             /\ route' = [route EXCEPT ![t] = next[route[t]]]
             /\ UNCHANGED <<known, call>>
    BY <2>3 DEF Moves, Inv, TypeOK
  <2> QED BY <2>1, <2>2, <2>3 DEF Visit
<1> QED BY <1>1, <1>2

(* The routes ahead of a cursor, before and after a step.                  *)
LEMMA AheadStep ==
  ASSUME Inv, Inv', ListInv, NEW t \in Thread, NEW u \in Thread,
         CallFind(u) \/ CallAdd(u) \/ Proceed(u), pc[t] = "visit", pc'[t] = "visit",
         route[t] \in Node
  PROVE  /\ route[t] \in Linked /\ route'[t] \in Linked
         /\ route'[t] = route[t] => Ahead(route[t])' = Ahead(route[t])
         /\ Moves(t) => /\ route'[t] \notin Ahead(route[t])'
                        /\ Ahead(route[t]) = Ahead(route[t])' \cup {route'[t]}
<1>1. TableLinks /\ TableLinks' /\ Ring(next, rtable, Linked)
  BY TableLinksHold, TableLinksNext DEF ListInv, TableLinks
<1>2. route[t] \in Linked
  BY HeadIs DEF Inv, IInv, Searches, Reached
<1>3. route'[t] = route[t] \/ Moves(t)
  BY StillVisiting
<1>4. /\ Moves(t) => route'[t] \in Linked
      /\ Moves(t) => /\ route'[t] \notin AheadOf(next, route'[t])
                     /\ AheadOf(next, route[t])
                          = AheadOf(next, route'[t]) \cup {route'[t]}
  BY <1>1, <1>2, HeadIs, RingStep DEF Moves, TableLinks
<1>5. route'[t] \in Linked
  BY <1>2, <1>3, <1>4
<1>6. AheadOf(next', route'[t]) = AheadOf(next, route'[t])
  BY <1>1, <1>5, HeadIs, LinkedLinks, RingAgree DEF TableLinks
<1>7. Ahead(route[t]) = AheadOf(next, route[t])
  BY <1>1, <1>2 DEF TableLinks, Cell
<1>8. Ahead(route[t])' = AheadOf(next', route'[t])
  BY <1>1, <1>5 DEF TableLinks, Cell
<1> QED BY <1>2, <1>3, <1>4, <1>5, <1>6, <1>7, <1>8

(* A search ends whatever is inserted meanwhile: what is ahead of its      *)
(* cursor never grows, and shrinks when the cursor moves.                  *)
THEOREM SearchesEnd == Spec => SearchEnds
<1>1. Inv /\ Inv' /\ ListInv /\ [Next]_vars => [\A t \in Thread : CursorAdvances(t)]_vars
  <2> SUFFICES ASSUME Inv, Inv', ListInv, Next, NEW t \in Thread
               PROVE  CursorAdvances(t)
    OBVIOUS
  <2>1. PICK u \in Thread : CallFind(u) \/ CallAdd(u) \/ Proceed(u)
    BY DEF Next
  <2> SUFFICES ASSUME pc[t] = "visit", pc'[t] = "visit", route[t] \in Node
               PROVE  /\ route'[t] \in Cell
                      /\ Ahead(route[t])' \subseteq Ahead(route[t])
                      /\ route'[t] # route[t] => Ahead(route[t])' # Ahead(route[t])
    BY DEF CursorAdvances
  <2>2. route'[t] = route[t] \/ Moves(t)
    BY <2>1, StillVisiting
  <2>3. /\ route'[t] \in Linked
        /\ route'[t] = route[t] => Ahead(route[t])' = Ahead(route[t])
        /\ Moves(t) => /\ route'[t] \notin Ahead(route[t])'
                       /\ Ahead(route[t]) = Ahead(route[t])' \cup {route'[t]}
    BY <2>1, AheadStep
  <2>4. route'[t] \in Cell
    BY <2>3, TableLinksHold DEF TableLinks, Cell
  <2> QED BY <2>2, <2>3, <2>4
<1> QED BY <1>1, ListInvariance, PTL DEF SearchEnds, Spec

-----------------------------------------------------------------------------
(* Who makes or replaces a route is in lsp_route_add; its route has the    *)
(* address that it was called with, and a route has an interface.          *)
Adding == Inserting \cup {"alloc", "lockReplace", "replace"}

CallsInv ==
  /\ \A t \in Thread : Add(t) => call[t].iface \in Iface
  /\ \A t \in Thread : pc[t] \in Adding => Add(t)
  /\ \A n \in allocated : iface[n] \in Iface
  /\ \A t \in Thread : pc[t] \in Inserting => addr[route[t]] = call[t].addr

(* A step that writes no field of a route needs only to be right about the *)
(* thread that takes it.                                                   *)
LEMMA CallsKept ==
  ASSUME Inv, CallsInv, NEW t \in Thread, UNCHANGED <<allocated, addr>>,
         \A n \in allocated : iface'[n] \in Iface,
         \A u \in Thread : u # t => /\ pc'[u] = pc[u] /\ route'[u] = route[u]
                                    /\ call'[u] = call[u],
         call'[t].op = "add" => call'[t].iface \in Iface,
         pc'[t] \in Adding => call'[t].op = "add",
         pc'[t] \in Inserting => addr[route'[t]] = call'[t].addr
  PROVE  CallsInv'
BY DEF CallsInv, Add

(* The parts of a search, of which only that of a call changes call.       *)
LEMMA CallsSearch ==
  ASSUME Inv, CallsInv, NEW t \in Thread,
         CallFind(t) \/ CallAdd(t) \/ First(t) \/ Test(t) \/ Visit(t)
  PROVE  CallsInv'
<1>1. /\ UNCHANGED <<allocated, addr, iface>>
      /\ pc[t] \in {"idle", "first", "test", "visit"}
  BY DEF CallFind, CallAdd, First, Test, Visit, At, fields
<1>2. Quiet(t)
  BY QuietFirst, QuietSearch
<1>3. \A n \in allocated : iface'[n] \in Iface
  BY <1>1 DEF CallsInv
<1>4. ASSUME Miss(t) \/ Hit(t) \/ Wild(t)
      PROVE  /\ call'[t] = call[t] \/ call'[t] = NoCall
             /\ pc'[t] \in {"idle", "wild", "alloc", "lockReplace"}
             /\ pc'[t] \in {"alloc", "lockReplace"} => call'[t] = call[t] /\ Add(t)
  BY <1>4 DEF Miss, Hit, Wild, Return, Inv, TypeOK
<1>5. /\ call'[t].op = "add" => call'[t].iface \in Iface
      /\ pc'[t] \in Adding => call'[t].op = "add"
      /\ pc'[t] \notin Inserting
  <2>1. CASE CallFind(t)
    <3>1. call'[t].op = "find" /\ pc'[t] = "first"
      BY <2>1 DEF CallFind, Inv, TypeOK
    <3> QED BY <3>1 DEF Adding, Inserting
  <2>2. CASE CallAdd(t)
    <3>1. call'[t].iface \in Iface /\ pc'[t] = "first"
      BY <2>2 DEF CallAdd, Inv, TypeOK
    <3> QED BY <3>1 DEF Adding, Inserting
  <2>3. CASE Miss(t) \/ Hit(t) \/ Wild(t)
    BY <1>4, <2>3 DEF CallsInv, Add, NoCall, Adding, Inserting
  <2>4. CASE call' = call /\ pc'[t] \in {"test", "visit"}
    BY <2>4 DEF CallsInv, Add, Adding, Inserting
  <2>5. First(t) => call' = call /\ pc'[t] \in {"test", "visit"}
    BY DEF First, Inv, TypeOK
  <2>6. Test(t) => Miss(t) \/ (call' = call /\ pc'[t] \in {"test", "visit"})
    BY DEF Test, Inv, TypeOK
  <2>7. Visit(t) => \/ Miss(t) \/ Hit(t) \/ Wild(t)
                    \/ call' = call /\ pc'[t] \in {"test", "visit"}
    BY DEF Visit, Found, Last, At
  <2> QED BY <2>1, <2>2, <2>3, <2>4, <2>5, <2>6, <2>7
<1> QED BY <1>1, <1>2, <1>3, <1>5, CallsKept DEF Quiet

(* A new route gets the address and the interface of the call.             *)
LEMMA CallsAlloc ==
  ASSUME Inv, CallsInv, NEW t \in Thread, Alloc(t)
  PROVE  CallsInv'
<1>1. pc[t] = "alloc" /\ Add(t) /\ call[t].iface \in Iface
  BY DEF Alloc, At, CallsInv, Adding
<1>2. CASE Return(t, "idle") /\ UNCHANGED <<allocated, fields>>
  <2>1. /\ UNCHANGED <<allocated, addr, iface>>
        /\ pc'[t] = "idle" /\ call'[t] = NoCall
        /\ \A u \in Thread : u # t => /\ pc'[u] = pc[u] /\ route'[u] = route[u]
                                      /\ call'[u] = call[u]
    BY <1>2 DEF Return, fields, Inv, TypeOK
  <2>2. \A n \in allocated : iface'[n] \in Iface
    BY <2>1 DEF CallsInv
  <2> QED BY <2>1, <2>2, CallsKept DEF NoCall, Adding, Inserting
<1>3. ASSUME NEW n \in Node \ allocated,
             allocated' = allocated \cup {n},
             route' = [route EXCEPT ![t] = n],
             addr' = [addr EXCEPT ![n] = call[t].addr],
             iface' = [iface EXCEPT ![n] = call[t].iface],
             pc' = [pc EXCEPT ![t] = "lockInsert"],
             call' = call
      PROVE  CallsInv'
  <2>1. /\ pc'[t] = "lockInsert" /\ route'[t] = n
        /\ \A u \in Thread : u # t => pc'[u] = pc[u] /\ route'[u] = route[u]
    BY <1>3 DEF Inv, TypeOK
  <2>2. \A m \in allocated : m # n /\ addr'[m] = addr[m] /\ iface'[m] = iface[m]
    BY <1>3 DEF Inv, TypeOK
  <2>3. addr'[n] = call[t].addr /\ iface'[n] = call[t].iface
    BY <1>3 DEF Inv, TypeOK
  <2>4. \A u \in Thread : pc[u] \in Inserting => route[u] \in allocated
    BY DEF Inv, IInv, OwnRoutes
  <2>5. \A u \in Thread : call'[u].op = "add" => call'[u].iface \in Iface
    BY <1>3 DEF CallsInv, Add
  <2>6. \A u \in Thread : pc'[u] \in Adding => call'[u].op = "add"
    BY <1>1, <1>3, <2>1 DEF CallsInv, Add
  <2>7. \A m \in allocated' : iface'[m] \in Iface
    BY <1>1, <1>3, <2>2, <2>3 DEF CallsInv
  <2>8. \A u \in Thread : pc'[u] \in Inserting => addr'[route'[u]] = call'[u].addr
    BY <1>3, <2>1, <2>2, <2>3, <2>4 DEF CallsInv
  <2> QED BY <2>5, <2>6, <2>7, <2>8 DEF CallsInv, Add
<1> QED BY <1>2, <1>3 DEF Alloc

(* The other steps of lsp_route_add keep the frame, or end the call.       *)
LEMMA CallsWrites ==
  ASSUME Inv, CallsInv, NEW t \in Thread,
         Lock(t) \/ Unlock(t) \/ Back(t) \/ Between(t) \/ Forth(t) \/ Replace(t)
  PROVE  CallsInv'
<1>1. UNCHANGED <<allocated, addr>>
  BY DEF Lock, Unlock, Back, Between, Forth, Replace, fields
<1>2. \A u \in Thread : u # t => /\ pc'[u] = pc[u] /\ route'[u] = route[u]
                                 /\ call'[u] = call[u]
  BY OthersFrames DEF Proceed
<1>3. \A n \in allocated : iface'[n] \in Iface
  <2>1. CASE Replace(t)
    <3>1. iface' = [iface EXCEPT ![route[t]] = call[t].iface] /\ call[t].iface \in Iface
      BY <2>1 DEF Replace, At, CallsInv, Adding
    <3> QED BY <3>1 DEF CallsInv, Inv, TypeOK
  <2>2. CASE iface' = iface
    BY <2>2 DEF CallsInv
  <2> QED BY <2>1, <2>2 DEF Lock, Unlock, Back, Between, Forth, fields
<1>4. \/ call'[t] = NoCall /\ pc'[t] = "idle"
      \/ /\ call'[t] = call[t] /\ route'[t] = route[t]
         /\ pc[t] \in Adding
         /\ pc'[t] \in Adding \cup {"unlock"}
         /\ pc'[t] \in Inserting => pc[t] \in Inserting
  <2>1. CASE Unlock(t)
    BY <2>1 DEF Unlock, Return, Inv, TypeOK
  <2>2. CASE Lock(t)
    BY <2>2 DEF Lock, At, frame, Inv, TypeOK, Adding, Inserting
  <2>3. CASE Back(t) \/ Between(t) \/ Forth(t) \/ Replace(t)
    BY <2>3 DEF Back, Between, Forth, Replace, At, frame, Inv, TypeOK, Adding, Inserting
  <2> QED BY <2>1, <2>2, <2>3
<1>5. /\ call'[t].op = "add" => call'[t].iface \in Iface
      /\ pc'[t] \in Adding => call'[t].op = "add"
      /\ pc'[t] \in Inserting => addr[route'[t]] = call'[t].addr
  BY <1>4 DEF CallsInv, Add, NoCall, Adding, Inserting
<1> QED BY <1>1, <1>2, <1>3, <1>5, CallsKept

(* It holds at the start, and every step keeps it.                         *)
LEMMA CallsInvariance == Spec => []CallsInv
<1>1. Init => CallsInv
  <2> SUFFICES ASSUME Init PROVE CallsInv
    OBVIOUS
  <2>1. /\ allocated = {}
        /\ \A t \in Thread : pc[t] = "idle" /\ call[t].op = "none"
    BY DEF Init, NoCall
  <2> QED BY <2>1 DEF CallsInv, Add, Adding, Inserting
<1>2. Inv /\ CallsInv /\ [Next]_vars => CallsInv'
  <2> SUFFICES ASSUME Inv, CallsInv, [Next]_vars PROVE CallsInv'
    OBVIOUS
  <2>1. CASE Next
    <3>1. PICK t \in Thread : CallFind(t) \/ CallAdd(t) \/ Proceed(t)
      BY <2>1 DEF Next
    <3> QED BY <3>1, CallsSearch, CallsAlloc, CallsWrites DEF Proceed
  <2>2. CASE UNCHANGED vars
    BY <2>2 DEF vars, fields, frame, CallsInv, Add
  <2> QED BY <2>1, <2>2
<1> QED BY <1>1, <1>2, Invariance, PTL DEF Spec

-----------------------------------------------------------------------------
(* A search that knows of routes does not take the table for empty, and    *)
(* has those with its address at its cursor or ahead of it.                *)
SearchInv == \A t \in Thread :
  /\ pc[t] = "test" /\ known[t] # {} => route[t] # prev[rtable]
  /\ pc[t] = "visit" => \A n \in known[t] : addr[n] = call[t].addr
                                            => n \in Ahead(route[t]) \cup {route[t]}

(* The first and the last of two routes are different ones.                *)
LEMMA FirstNotLast ==
  ASSUME Inv, ListInv, Cardinality(Linked) > 1
  PROVE  next[rtable] # prev[rtable]
<1> SUFFICES ASSUME next[rtable] = prev[rtable] PROVE FALSE
  OBVIOUS
<1>1. Linked # {}
  BY FS_EmptySet
<1>2. /\ next[rtable] \in Linked /\ next[next[rtable]] = rtable
  BY <1>1 DEF ListInv, Backward
<1>3. TableLinks /\ Ring(next, rtable, Linked)
  BY TableLinksHold DEF ListInv, TableLinks
<1>4. AheadOf(next, next[rtable]) = {}
  BY <1>2, <1>3, HeadIs, RingStep DEF TableLinks
<1>5. Linked = {next[rtable]}
  BY <1>1, <1>3, <1>4, HeadIs, RingFirst DEF TableLinks
<1>6. Cardinality(Linked) = 1
  BY <1>5, FS_Singleton
<1> QED BY <1>6

(* A search begins to visit with every route at its cursor or ahead.       *)
LEMMA AllAhead ==
  ASSUME Inv, ListInv
  PROVE  Linked \subseteq Ahead(next[rtable]) \cup {next[rtable]}
<1>1. TableLinks /\ Ring(next, rtable, Linked)
  BY TableLinksHold DEF ListInv, TableLinks
<1> QED BY <1>1, HeadIs, RingFirst DEF TableLinks, Cell

(* What a search knows is in the table.                                    *)
LEMMA KnownLinked ==
  ASSUME Inv, NEW t \in Thread
  PROVE  /\ known[t] \subseteq Linked
         /\ pc[t] = "visit" /\ known[t] # {} => route[t] \in Node /\ route[t] \in Linked
BY TableLinksHold DEF Inv, IInv, Searches, Reached, TableLinks

(* What the thread at t may not do of SearchInv, one step at a time.       *)
LEMMA SearchTest ==
  ASSUME Inv, ListInv, SearchInv, NEW t \in Thread, NEW u \in Thread,
         CallFind(u) \/ CallAdd(u) \/ Proceed(u), pc'[t] = "test", known'[t] # {}
  PROVE  route'[t] # prev'[rtable]
<1>1. CASE t # u
  <2>1. pc[t] = "test" /\ known[t] # {} /\ route'[t] = route[t]
    BY <1>1, OthersFrames
  <2>2. prev'[rtable] = prev[rtable]
    BY <2>1, KnownLinked, LastStays
  <2> QED BY <2>1, <2>2 DEF SearchInv
<1>2. CASE t = u
  <2>1. First(t)
    <3>1. CASE CallFind(t) \/ CallAdd(t) \/ Alloc(t) \/ Lock(t) \/ Unlock(t)
               \/ Back(t) \/ Between(t) \/ Forth(t) \/ Replace(t)
      BY <3>1 DEF CallFind, CallAdd, Alloc, Lock, Unlock, Back, Between, Forth,
                  Replace, Return, Inv, TypeOK
    <3>2. CASE Test(t)
      BY <3>2 DEF Test, Miss, Return, Inv, TypeOK
    <3>3. CASE Visit(t)
      BY <3>3 DEF Visit, At, Found, Last, Wild, Hit, Miss, Return, Inv, TypeOK
    <3> QED BY <1>2, <3>1, <3>2, <3>3 DEF Proceed
  <2>2. /\ prev' = prev /\ route'[t] = next[rtable]
        /\ known'[t] = IF Cardinality(Linked) > 1 THEN Linked ELSE {}
    BY <2>1 DEF First, links, Inv, TypeOK
  <2> QED BY <2>2, FirstNotLast
<1> QED BY <1>1, <1>2

(* The same of a search that visits.                                       *)
LEMMA SearchVisit ==
  ASSUME Inv, Inv', ListInv, SearchInv, NEW t \in Thread, NEW u \in Thread,
         CallFind(u) \/ CallAdd(u) \/ Proceed(u), pc'[t] = "visit",
         NEW n \in known'[t], addr'[n] = call'[t].addr
  PROVE  n \in Ahead(route[t])' \cup {route'[t]}
<1>1. CASE pc[t] = "visit"
  <2>1. known'[t] = known[t] /\ call'[t] = call[t]
    BY <1>1, StillVisiting DEF Moves
  <2>2. n \in known[t] /\ n \in Linked /\ route[t] \in Node
    BY <1>1, <2>1, KnownLinked
  <2>3. addr[n] = call[t].addr
    BY <2>1, <2>2, OthersFrames
  <2>4. n \in Ahead(route[t]) \cup {route[t]}
    BY <1>1, <2>2, <2>3 DEF SearchInv
  <2>5. CASE route'[t] = route[t]
    BY <1>1, <2>2, <2>4, <2>5, AheadStep
  <2>6. CASE Moves(t)
    <3>1. n # route[t]
      BY <2>2, <2>3, <2>6 DEF Moves, Matches
    <3> QED BY <1>1, <2>2, <2>4, <2>6, <3>1, AheadStep
  <2> QED BY <1>1, <2>5, <2>6, StillVisiting
<1>2. CASE pc[t] # "visit"
  <2>1. t = u
    BY <1>2, OthersFrames
  <2>2. Test(t)
    <3>1. CASE CallFind(t) \/ CallAdd(t) \/ First(t) \/ Alloc(t) \/ Lock(t) \/ Unlock(t)
               \/ Back(t) \/ Between(t) \/ Forth(t) \/ Replace(t)
      BY <3>1 DEF CallFind, CallAdd, First, Alloc, Lock, Unlock, Back, Between, Forth,
                  Replace, Return, Inv, TypeOK
    <3>2. CASE Visit(t)
      BY <1>2, <3>2 DEF Visit, At
    <3> QED BY <2>1, <3>1, <3>2 DEF Proceed
  <2>3. /\ next' = next /\ known'[t] = known[t] /\ route'[t] = next[rtable]
    BY <2>2 DEF Test, Miss, Return, links, Inv, TypeOK
  <2>4. n \in Ahead(next[rtable]) \cup {next[rtable]}
    BY <2>3, KnownLinked, AllAhead
  <2>5. next[rtable] \in Cell
    BY AfterHead
  <2>6. Ahead(route[t])' = Ahead(next[rtable])
    BY <2>3, <2>5, TableLinksHold, TableLinksNext DEF TableLinks
  <2> QED BY <2>3, <2>4, <2>6
<1> QED BY <1>1, <1>2

(* Together they hold at the start and are kept.                           *)
LEMMA SearchInvariance == Spec => []SearchInv
<1>1. Init => SearchInv
  BY DEF Init, SearchInv
<1>2. Inv /\ Inv' /\ ListInv /\ SearchInv /\ [Next]_vars => SearchInv'
  <2> SUFFICES ASSUME Inv, Inv', ListInv, SearchInv, [Next]_vars PROVE SearchInv'
    OBVIOUS
  <2>1. CASE Next
    <3>1. PICK u \in Thread : CallFind(u) \/ CallAdd(u) \/ Proceed(u)
      BY <2>1 DEF Next
    <3>2. \A t \in Thread : pc'[t] = "test" /\ known'[t] # {} => route'[t] # prev'[rtable]
      BY <3>1, SearchTest
    <3>3. \A t \in Thread : pc'[t] = "visit" =>
            \A n \in known'[t] : addr'[n] = call'[t].addr
                                 => n \in Ahead(route[t])' \cup {route'[t]}
      BY <3>1, SearchVisit
    <3> QED BY <3>2, <3>3 DEF SearchInv
  <2>2. CASE UNCHANGED vars
    <3>1. UNCHANGED <<next, prev, pc, known, route, addr, call>>
      BY <2>2 DEF vars, links, fields, frame
    <3>2. \A t \in Thread : pc[t] = "visit" => route[t] \in Cell
      BY AfterHead DEF Inv, IInv, Searches
    <3>3. \A t \in Thread : pc[t] = "visit" => Ahead(route[t])' = Ahead(route[t])
      BY <3>1, <3>2, TableLinksHold, TableLinksNext DEF TableLinks
    <3> QED BY <3>1, <3>3 DEF SearchInv
  <2> QED BY <2>1, <2>2
<1> QED BY <1>1, <1>2, Invariance, ListInvariance, PTL DEF Spec

-----------------------------------------------------------------------------
(* Whatever ends a search without a route has missed none that it knew of. *)
LEMMA MissStep ==
  ASSUME Inv, ListInv, CallsInv, SearchInv, NEW t \in Thread, NEW u \in Thread,
         CallFind(u) \/ CallAdd(u) \/ Proceed(u), pc[t] \in {"test", "visit"},
         pc'[t] = "alloc" \/ (Find(t) /\ pc'[t] = "idle" /\ result'[t] = Nil),
         NEW n \in known[t], addr[n] = call[t].addr
  PROVE  FALSE
<1>1. t = u
  BY OthersFrames
<1>2. CASE Test(t)
  <2>1. ASSUME pc' = [pc EXCEPT ![t] = "visit"] PROVE FALSE
    BY <2>1 DEF Inv, TypeOK
  <2>2. pc[t] = "test" /\ route[t] = prev[rtable]
    BY <1>2, <2>1 DEF Test, At
  <2> QED BY <2>2 DEF SearchInv
<1>3. CASE Visit(t)
  <2>1. pc[t] = "visit" /\ route[t] \in Node /\ route[t] \in Linked
    BY <1>3, KnownLinked DEF Visit, At
  <2>2. n \in Ahead(route[t]) \cup {route[t]}
    BY <2>1 DEF SearchInv
  <2>3. CASE Last(t)
    <3>1. next[route[t]] = rtable /\ n # route[t]
      BY <2>1, <2>3 DEF Last, Matches
    <3>2. AheadOf(next, route[t]) = {}
      BY <2>1, <3>1, TableLinksHold, HeadIs, RingStep DEF ListInv, TableLinks
    <3> QED BY <2>1, <2>2, <3>1, <3>2, TableLinksHold DEF TableLinks, Cell
  <2>4. CASE Found(t)
    <3>1. pc'[t] # "alloc" /\ (Find(t) => result'[t] = iface[route[t]])
      BY <2>4 DEF Found, Hit, Return, Find, Add, Inv, TypeOK
    <3>2. iface[route[t]] \in Iface
      BY <2>1, LinkedIs DEF CallsInv
    <3> QED BY <3>1, <3>2, IfaceAssumption
  <2>5. CASE Wild(t)
    BY <2>5 DEF Wild, Return, Inv, TypeOK
  <2>6. CASE UNCHANGED pc
    BY <2>1, <2>6
  <2> QED BY <1>3, <2>3, <2>4, <2>5, <2>6 DEF Visit
<1>4. CASE ~(Test(t) \/ Visit(t))
  BY <1>1, <1>4 DEF CallFind, CallAdd, Proceed, First, Alloc, Lock, Unlock, Back,
                    Between, Forth, Replace, At
<1> QED BY <1>2, <1>3, <1>4

(* The invariants of the table, all of them.                               *)
LEMMA TableInvariance == Spec => [](Inv /\ ListInv /\ CallsInv /\ SearchInv)
BY Invariance, ListInvariance, CallsInvariance, SearchInvariance, PTL

(* A search that ends without a route has missed none that was in the      *)
(* table when it began, if they were at least two, however many routes are *)
(* inserted while it walks.                                                *)
THEOREM NoRouteMissed == Spec => NothingMissed
<1>1. Inv /\ ListInv /\ CallsInv /\ SearchInv /\ [Next]_vars
        => [\A t \in Thread : NoneMissed(t)]_vars
  <2> SUFFICES ASSUME Inv, ListInv, CallsInv, SearchInv, Next, NEW t \in Thread
               PROVE  NoneMissed(t)
    OBVIOUS
  <2>1. PICK u \in Thread : CallFind(u) \/ CallAdd(u) \/ Proceed(u)
    BY DEF Next
  <2> QED BY <2>1, MissStep DEF NoneMissed
<1> QED BY <1>1, TableInvariance, PTL DEF NothingMissed, Spec

-----------------------------------------------------------------------------
(* The threads that may still add a route for a: they make or link one, or *)
(* search without knowing of any.                                          *)
Unaware(t) == /\ pc[t] \in {"test", "visit"}
              /\ \A n \in known[t] : addr[n] # call[t].addr

Late(a) == {t \in Thread : /\ call[t].addr = a
                           /\ pc[t] \in Inserting \cup {"alloc"} \/ Unaware(t)}

(* Each of them can add one route at most, and a thread that begins to     *)
(* search is one of them only while the table has one route at most, or    *)
(* none for a.                                                             *)
Counted == \A a \in Addr :
  Cardinality(Routes(a)) + Cardinality(Late(a)) <= Cardinality(Thread) + 1

(* The sets are finite.                                                    *)
LEMMA Counts ==
  ASSUME Inv, NEW a
  PROVE  /\ IsFiniteSet(Linked) /\ IsFiniteSet(Routes(a)) /\ IsFiniteSet(Late(a))
         /\ Cardinality(Routes(a)) \in Nat /\ Cardinality(Late(a)) \in Nat
         /\ Cardinality(Thread) \in Nat /\ Cardinality(Linked) \in Nat
         /\ Cardinality(Late(a)) <= Cardinality(Thread)
         /\ Cardinality(Routes(a)) <= Cardinality(Linked)
<1>1. IsFiniteSet(Linked)
  BY TableLinksHold, NodesFinite DEF TableLinks
<1>2. Routes(a) \subseteq Linked /\ Late(a) \subseteq Thread
  BY DEF Routes, Late
<1>3. /\ IsFiniteSet(Routes(a)) /\ Cardinality(Routes(a)) <= Cardinality(Linked)
      /\ IsFiniteSet(Late(a)) /\ Cardinality(Late(a)) <= Cardinality(Thread)
  BY <1>1, <1>2, FS_Subset, ThreadAssumption
<1> QED BY <1>1, <1>3, FS_CardinalityType, ThreadAssumption

(* Who may be late after a step has been before, or begins to search.      *)
LEMMA LateStep ==
  ASSUME Inv, ListInv, CallsInv, SearchInv, NEW u \in Thread,
         CallFind(u) \/ CallAdd(u) \/ Proceed(u), NEW a, NEW t \in Thread,
         t \in Late(a)'
  PROVE  t \in Late(a) \/ (t = u /\ First(t))
<1>1. /\ call'[t].addr = a
      /\ pc'[t] \in Inserting \cup {"alloc"} \/ Unaware(t)'
  BY DEF Late
<1>2. known[t] \subseteq Linked
  BY KnownLinked
<1>3. CASE t # u
  <2>1. /\ pc'[t] = pc[t] /\ call'[t] = call[t] /\ known'[t] = known[t]
        /\ \A n \in known[t] : addr'[n] = addr[n]
    BY <1>2, <1>3, OthersFrames
  <2> QED BY <1>1, <2>1 DEF Late, Unaware
<1>4. CASE t = u /\ ~First(t)
  <2>1. CASE Test(t) \/ Visit(t)
    <3>1. pc[t] \in {"test", "visit"}
      BY <2>1 DEF Test, Visit, At
    <3>2. CASE pc'[t] = "alloc"
      <4>1. call'[t] = call[t]
        BY <2>1, <3>2 DEF Test, Visit, At, Found, Last, Wild, Hit, Miss, Return, Inv,
                          TypeOK
      <4>2. \A n \in known[t] : addr[n] # call[t].addr
        BY <1>4, <3>1, <3>2, MissStep
      <4> QED BY <1>1, <3>1, <4>1, <4>2 DEF Late, Unaware
    <3>3. CASE pc'[t] = "visit"
      <4>1. call'[t] = call[t] /\ known'[t] = known[t] /\ addr' = addr
        BY <2>1, <3>3 DEF Test, Visit, At, Found, Last, Wild, Hit, Miss, Return, fields,
                          Inv, TypeOK
      <4>2. Unaware(t)'
        BY <1>1, <3>3 DEF Inserting
      <4> QED BY <1>1, <3>1, <4>1, <4>2 DEF Late, Unaware
    <3>4. pc'[t] \in {"idle", "alloc", "visit", "wild", "lockReplace"}
      BY <2>1 DEF Test, Visit, At, Found, Last, Wild, Hit, Miss, Return, Inv, TypeOK
    <3> QED BY <1>1, <3>2, <3>3, <3>4 DEF Unaware, Inserting
  <2>2. CASE CallFind(t) \/ CallAdd(t) \/ Unlock(t) \/ Replace(t) \/ Forth(t)
    <3>1. pc'[t] \in {"first", "idle", "unlock"}
      BY <2>2 DEF CallFind, CallAdd, Unlock, Return, Replace, Forth, Inv, TypeOK
    <3> QED BY <1>1, <3>1 DEF Unaware, Inserting
  <2>3. CASE Alloc(t) \/ Back(t) \/ Between(t)
    <3>1. pc[t] \in Inserting \cup {"alloc"}
      BY <2>3 DEF Alloc, Back, Between, At, Inserting
    <3>2. pc'[t] = "idle" \/ call'[t] = call[t]
      BY <2>3 DEF Alloc, Back, Between, Return, frame, Inv, TypeOK
    <3> QED BY <1>1, <3>1, <3>2 DEF Late, Unaware, Inserting
  <2>4. CASE Lock(t)
    <3>1. call' = call /\ (pc[t] \in Inserting \/ pc'[t] = "replace")
      BY <2>4 DEF Lock, At, frame, Inv, TypeOK, Inserting
    <3> QED BY <1>1, <3>1 DEF Late, Unaware, Inserting
  <2> QED BY <1>4, <2>1, <2>2, <2>3, <2>4 DEF Proceed
<1> QED BY <1>3, <1>4

(* A step that adds no route and makes nobody late.                        *)
LEMMA CountKept ==
  ASSUME Inv, Inv', NEW a \in Addr, Routes(a)' = Routes(a), Late(a)' \subseteq Late(a),
         Cardinality(Routes(a)) + Cardinality(Late(a)) <= Cardinality(Thread) + 1
  PROVE  Cardinality(Routes(a))' + Cardinality(Late(a))' <= Cardinality(Thread) + 1
<1>1. Cardinality(Late(a)') <= Cardinality(Late(a)) /\ IsFiniteSet(Late(a)')
  BY Counts, FS_Subset
<1>2. Cardinality(Late(a)') \in Nat
  BY <1>1, FS_CardinalityType
<1> QED BY <1>1, <1>2, Counts

(* A search that begins.                                                   *)
LEMMA CountFirst ==
  ASSUME Inv, Inv', ListInv, CallsInv, SearchInv, NEW u \in Thread, First(u),
         NEW a \in Addr,
         Cardinality(Routes(a)) + Cardinality(Late(a)) <= Cardinality(Thread) + 1
  PROVE  Cardinality(Routes(a))' + Cardinality(Late(a))' <= Cardinality(Thread) + 1
<1>1. /\ addr' = addr /\ pc'[u] = "test"
      /\ known'[u] = IF Cardinality(Linked) > 1 THEN Linked ELSE {}
  BY DEF First, fields, Inv, TypeOK
<1>2. Routes(a)' = Routes(a)
  BY <1>1, QuietFirst DEF Quiet, Routes
<1>3. Cardinality(Late(a)') \in Nat /\ Cardinality(Late(a)') <= Cardinality(Thread)
  <2>1. Late(a)' \subseteq Thread
    BY DEF Late
  <2>2. IsFiniteSet(Late(a)') /\ Cardinality(Late(a)') <= Cardinality(Thread)
    BY <2>1, FS_Subset, ThreadAssumption
  <2> QED BY <2>2, FS_CardinalityType
<1>4. CASE Routes(a) = {} \/ Cardinality(Linked) <= 1
  <2>1. Cardinality(Routes(a)) <= 1
    BY <1>4, Counts, FS_EmptySet
  <2> QED BY <1>2, <1>3, <2>1, Counts
<1>5. CASE Routes(a) # {} /\ Cardinality(Linked) > 1
  <2>1. PICK n \in Linked : addr[n] = a
    BY <1>5 DEF Routes
  <2>2. u \notin Late(a)'
    BY <1>1, <1>5, <2>1 DEF Late, Unaware, Inserting
  <2>3. Late(a)' \subseteq Late(a)
    <3>1. \A t \in Thread : t \in Late(a)' => t \in Late(a) \/ t = u
      BY LateStep DEF Proceed
    <3>2. Late(a)' \subseteq Thread
      BY DEF Late
    <3> QED BY <2>2, <3>1, <3>2
  <2> QED BY <1>2, <2>3, CountKept
<1> QED BY <1>4, <1>5, Counts

(* An insertion into the list turns a late thread into a route.            *)
LEMMA CountForth ==
  ASSUME Inv, Inv', ListInv, CallsInv, SearchInv, NEW u \in Thread, Forth(u),
         NEW a \in Addr,
         Cardinality(Routes(a)) + Cardinality(Late(a)) <= Cardinality(Thread) + 1
  PROVE  Cardinality(Routes(a))' + Cardinality(Late(a))' <= Cardinality(Thread) + 1
<1>1. /\ pc[u] = "forth" /\ pc' = [pc EXCEPT ![u] = "unlock"]
      /\ UNCHANGED <<addr, route, allocated>>
  BY DEF Forth, At, fields, frame
<1>2. pc'[u] = "unlock" /\ \A t \in Thread : t # u => pc'[t] = pc[t]
  BY <1>1 DEF Inv, TypeOK
<1>3. Linked' = Linked \cup {route[u]}
  BY <1>1, <1>2, LinkedRoute
<1>4. Late(a)' \subseteq Late(a) \ {u}
  <2>1. \A t \in Thread : t \in Late(a)' => t \in Late(a) \/ (t = u /\ First(u))
    BY LateStep DEF Proceed
  <2>2. ~First(u)
    BY <1>1 DEF First, At
  <2>3. Late(a)' \subseteq Thread /\ u \notin Late(a)'
    BY <1>2 DEF Late, Unaware, Inserting
  <2> QED BY <2>1, <2>2, <2>3
<1>5. CASE addr[route[u]] # a
  <2>1. Routes(a)' = Routes(a)
    BY <1>1, <1>3, <1>5 DEF Routes
  <2> QED BY <1>4, <2>1, CountKept
<1>6. CASE addr[route[u]] = a
  <2>1. route[u] \notin Linked
    BY <1>1, OwnNode DEF Inserting, Reached
  <2>2. Routes(a)' = Routes(a) \cup {route[u]} /\ route[u] \notin Routes(a)
    BY <1>1, <1>3, <1>6, <2>1 DEF Routes
  <2>3. Cardinality(Routes(a)') = Cardinality(Routes(a)) + 1
    BY <2>2, Counts, FS_AddElement
  <2>4. u \in Late(a)
    BY <1>1, <1>6 DEF Late, CallsInv, Inserting
  <2>5. /\ Cardinality(Late(a) \ {u}) = Cardinality(Late(a)) - 1
        /\ IsFiniteSet(Late(a) \ {u})
    BY <2>4, Counts, FS_RemoveElement
  <2>6. Cardinality(Late(a)') <= Cardinality(Late(a)) - 1 /\ IsFiniteSet(Late(a)')
    BY <1>4, <2>5, FS_Subset
  <2>7. Cardinality(Late(a)') \in Nat
    BY <2>6, FS_CardinalityType
  <2> QED BY <2>3, <2>6, <2>7, Counts
<1> QED BY <1>5, <1>6

(* Every step keeps the count.                                             *)
LEMMA CountedNext ==
  Inv /\ Inv' /\ ListInv /\ CallsInv /\ SearchInv /\ Counted /\ [Next]_vars => Counted'
<1> SUFFICES ASSUME Inv, Inv', ListInv, CallsInv, SearchInv, Counted, [Next]_vars,
                    NEW a \in Addr
             PROVE  Cardinality(Routes(a))' + Cardinality(Late(a))'
                      <= Cardinality(Thread) + 1
  BY DEF Counted
<1>1. Cardinality(Routes(a)) + Cardinality(Late(a)) <= Cardinality(Thread) + 1
  BY DEF Counted
<1>2. CASE Next
  <2>1. PICK u \in Thread : CallFind(u) \/ CallAdd(u) \/ Proceed(u)
    BY <1>2 DEF Next
  <2>2. CASE First(u)
    BY <1>1, <2>2, CountFirst
  <2>3. CASE Forth(u)
    BY <1>1, <2>3, CountForth
  <2>4. CASE ~First(u) /\ ~Forth(u)
    <3>1. Late(a)' \subseteq Late(a)
      <4>1. \A t \in Thread : t \in Late(a)' => t \in Late(a)
        BY <2>1, <2>4, LateStep
      <4>2. Late(a)' \subseteq Thread
        BY DEF Late
      <4> QED BY <4>1, <4>2
    <3>2. Linked' = Linked
      <4>1. CASE Quiet(u)
        BY <4>1 DEF Quiet
      <4>2. CASE Back(u) \/ Between(u)
        <5>1. /\ UNCHANGED <<allocated, route>> /\ pc[u] \in Inserting
              /\ \E p \in Inserting : pc' = [pc EXCEPT ![u] = p]
          BY <4>2 DEF Back, Between, At, frame, Inserting
        <5>2. pc'[u] \in Inserting /\ \A t \in Thread : t # u => pc'[t] = pc[t]
          BY <5>1 DEF Inv, TypeOK
        <5> QED BY <5>1, <5>2, SameTable
      <4> QED BY <2>1, <2>4, <4>1, <4>2, QuietOrNot
    <3>3. Routes(a)' = Routes(a)
      BY <2>1, <3>2, OthersFrames DEF Routes
    <3> QED BY <1>1, <3>1, <3>3, CountKept
  <2> QED BY <2>2, <2>3, <2>4
<1>3. CASE UNCHANGED vars
  <2>1. Routes(a)' = Routes(a) /\ Late(a)' = Late(a)
    BY <1>3 DEF vars, fields, frame, Routes, Linked, Late, Unaware
  <2> QED BY <1>1, <2>1
<1> QED BY <1>2, <1>3

(* At the start there is no route, and nobody is late.                     *)
LEMMA CountedInit == Init => Counted
<1> SUFFICES ASSUME Init, NEW a \in Addr
             PROVE  Cardinality(Routes(a)) + Cardinality(Late(a))
                      <= Cardinality(Thread) + 1
  BY DEF Counted
<1>1. Inv
  BY InvInit
<1>2. Routes(a) = {}
  BY DEF Init, Routes, Linked
<1>3. Cardinality(Routes(a)) = 0
  BY <1>2, FS_EmptySet
<1> QED BY <1>1, <1>3, Counts

(* The search that decides whether to make a route is not made under the   *)
(* mutex, and takes a table with one route for an empty one; even so, for  *)
(* any number of threads an address never has more than one route more     *)
(* than there are threads.                                                 *)
THEOREM DuplicatesCorrect == Spec => []DuplicatesBounded
<1>1. Inv /\ Counted => DuplicatesBounded
  BY Counts DEF Counted, DuplicatesBounded
<1> QED BY <1>1, CountedInit, CountedNext, TableInvariance, PTL DEF Spec
=============================================================================
