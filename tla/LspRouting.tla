----------------------------- MODULE LspRouting -----------------------------
(***************************************************************************)
(* The routing table of lsp_routing.c: a list of routes, to which threads  *)
(* add and in which threads find.  Only the writes are made under          *)
(* rtable_mutex; every search walks the list without it.  pc[t] is the     *)
(* point that the call of t has reached:                                   *)
(*                                                                         *)
(*   search:   idle -> first -> test -> visit -> visit ... -> idle         *)
(*   new:      (search fails) -> alloc -> lock -> back -> node -> forth    *)
(*                            -> unlock -> idle                            *)
(*   replace:  (search succeeds) -> lock -> replace -> unlock -> idle      *)
(*                                                                         *)
(* A thread that takes the head of the list for a route and finds in the   *)
(* memory after it the address it looks for is "wild": its call returns,   *)
(* or overwrites, what is no route, and it is not followed any further.    *)
(* The time stamps, which nothing reads, are left out.                     *)
(***************************************************************************)
EXTENDS LspList

CONSTANTS
  Thread,               \* who adds and finds
  Addr, Iface,          \* addresses and interfaces
  MaxSpeed,             \* the speed -1 of an unknown link, as an unsigned
  rtable,               \* the head of the list
  NoThread              \* the owner of a free mutex

Speed == 0 .. MaxSpeed

ASSUME HeadAssumption   == Head = {rtable}
ASSUME SpeedAssumption  == MaxSpeed \in Nat
ASSUME ThreadAssumption ==
  IsFiniteSet(Thread) /\ NoThread \notin Thread
ASSUME IfaceAssumption  == Nil \notin Iface

VARIABLES
  allocated,                \* the routes obtained from lsp_malloc
  addr, iface, linkspeed,   \* their fields
  mutex,                    \* the thread that owns rtable_mutex
  pc,
  call,                     \* the arguments of each thread's last call
  route,                    \* the local variable of that name
  result,                   \* what the thread's last find returned
  known                     \* history: the routes a search must come across

fields == <<addr, iface, linkspeed>>
frame  == <<call, route, known>>
vars   == <<links, allocated, fields, mutex, pc, frame, result>>

NoCall  == [op |-> "none", addr |-> Nil, iface |-> Nil, linkspeed |-> 0]
Find(t) == call[t].op = "find"
Add(t)  == call[t].op = "add"

(* Thread t has reached the point p of its call.                           *)
At(t, p) == pc[t] = p

(* The routes in the table: those that no thread is about to link.         *)
Linked ==
  allocated \ {route[t] : t \in {u \in Thread :
                 pc[u] \in {"lockInsert", "back", "node", "forth"}}}

Routes(a) == {n \in Linked : addr[n] = a}

(* The table at the start of the program.                                  *)
Init ==
  /\ LinksInit
  /\ allocated = {}
  /\ addr = [n \in Node |-> Nil]
  /\ iface = [n \in Node |-> Nil]
  /\ linkspeed = [n \in Node |-> 0]
  /\ mutex = NoThread
  /\ pc = [t \in Thread |-> "idle"]
  /\ call = [t \in Thread |-> NoCall]
  /\ route = [t \in Thread |-> Nil]
  /\ result = [t \in Thread |-> Nil]
  /\ known = [t \in Thread |-> {}]

-----------------------------------------------------------------------------
(* The calls.                                                              *)

CallFind(t) ==
  /\ At(t, "idle")
  /\ \E a \in Addr :
       call' = [call EXCEPT ![t] = [op |-> "find", addr |-> a, iface |-> Nil,
                                    linkspeed |-> 0]]
  /\ pc' = [pc EXCEPT ![t] = "first"]
  /\ UNCHANGED <<links, allocated, fields, mutex, route, known, result>>

CallAdd(t) ==
  /\ At(t, "idle")
  /\ \E a \in Addr, i \in Iface, s \in Speed :
       call' = [call EXCEPT ![t] = [op |-> "add", addr |-> a, iface |-> i,
                                    linkspeed |-> s]]
  /\ pc' = [pc EXCEPT ![t] = "first"]
  /\ UNCHANGED <<links, allocated, fields, mutex, route, known, result>>

-----------------------------------------------------------------------------
(* The search: lsp_list_for with the test of the address, and no mutex.    *)

(* The call ends, and its frame with it.                                   *)
Return(t, p) ==
  /\ pc' = [pc EXCEPT ![t] = p]
  /\ route' = [route EXCEPT ![t] = Nil]
  /\ call' = [call EXCEPT ![t] = NoCall]

(* The search ends without a route: find returns NULL, add makes one.      *)
Miss(t) ==
  \/ /\ Find(t)
     /\ result' = [result EXCEPT ![t] = Nil]
     /\ Return(t, "idle")
  \/ /\ Add(t)
     /\ pc' = [pc EXCEPT ![t] = "alloc"]
     /\ route' = [route EXCEPT ![t] = Nil]
     /\ UNCHANGED <<call, result>>

(* It ends with a route: find returns its interface, add replaces a worse  *)
(* one.                                                                    *)
Hit(t) ==
  \/ /\ Find(t)
     /\ result' = [result EXCEPT ![t] = iface[route[t]]]
     /\ Return(t, "idle")
  \/ /\ Add(t)
     /\ call[t].linkspeed < linkspeed[route[t]]
     /\ pc' = [pc EXCEPT ![t] = "lockReplace"]
     /\ UNCHANGED <<route, call, result>>
  \/ /\ Add(t)
     /\ call[t].linkspeed >= linkspeed[route[t]]
     /\ Return(t, "idle")
     /\ UNCHANGED result

(* The condition of the ternary reads head->next, then head->prev, and the *)
(* cursor starts from a second read of head->next.  A table of two routes  *)
(* or more cannot be taken for empty: known records what it holds.         *)
First(t) ==
  /\ At(t, "first")
  /\ route' = [route EXCEPT ![t] = next[rtable]]
  /\ known' = [known EXCEPT ![t] =
                 IF Cardinality(Linked) > 1 THEN Linked ELSE {}]
  /\ pc' = [pc EXCEPT ![t] = "test"]
  /\ UNCHANGED <<links, allocated, fields, mutex, call, result>>

(* The read of head->prev and the second one of head->next are one step:   *)
(* head->prev is written only by the first insertion into the table, so it *)
(* has its last value when it is found different from the first read, and  *)
(* the insertions made before the second read change no outcome.           *)
Test(t) ==
  /\ At(t, "test")
  /\ \/ /\ route[t] = prev[rtable]
        /\ Miss(t)
        /\ known' = [known EXCEPT ![t] = {}]
     \/ /\ route[t] # prev[rtable]
        /\ route' = [route EXCEPT ![t] = next[rtable]]
        /\ pc' = [pc EXCEPT ![t] = "visit"]
        /\ UNCHANGED <<call, known, result>>
  /\ UNCHANGED <<links, allocated, fields, mutex>>

(* Mutants: the address is compared with the interface; the loop ends      *)
(* before the last route.                                                  *)
MatchesIface(t) == route[t] \in Node /\ iface[route[t]] = call[t].addr
LastEarly(t) ==
  /\ route[t] \in Node /\ addr[route[t]] # call[t].addr
  /\ next[route[t]] \in {rtable, prev[rtable]}
  /\ Miss(t)

(* The body of the loop, then its step to the next node.                   *)
Matches(t) == route[t] \in Node /\ addr[route[t]] = call[t].addr

Found(t) == Matches(t) /\ Hit(t)
Last(t)  == ~Matches(t) /\ next[route[t]] = rtable /\ Miss(t)
Wild(t)  == route[t] = rtable /\ Return(t, "wild") /\ UNCHANGED result

(* Mutant: the loop goes one step too far.                                 *)
VisitPast(t) ==
  /\ At(t, "visit") /\ route[t] \in Node /\ ~Matches(t)
  /\ route' = [route EXCEPT ![t] = next[route[t]]]
  /\ UNCHANGED <<links, allocated, fields, mutex, pc, call, known, result>>

Visit(t) ==
  /\ At(t, "visit")
  /\ \/ /\ ~Matches(t) /\ next[route[t]] # rtable
        /\ route' = [route EXCEPT ![t] = next[route[t]]]
        /\ UNCHANGED <<pc, call, known, result>>
     \/ /\ Found(t) \/ Last(t) \/ Wild(t)
        /\ known' = [known EXCEPT ![t] = {}]
  /\ UNCHANGED <<links, allocated, fields, mutex>>

-----------------------------------------------------------------------------
(* The rest of lsp_route_add.                                              *)

(* The block is not zeroed, and route->linkspeed is not assigned.          *)
Alloc(t) ==
  /\ At(t, "alloc")
  /\ \/ /\ \E n \in Node \ allocated, garbage \in Speed :
             /\ allocated' = allocated \cup {n}
             /\ route' = [route EXCEPT ![t] = n]
             /\ addr' = [addr EXCEPT ![n] = call[t].addr]
             /\ iface' = [iface EXCEPT ![n] = call[t].iface]
             /\ linkspeed' = [linkspeed EXCEPT ![n] = garbage]
        /\ pc' = [pc EXCEPT ![t] = "lockInsert"]
        /\ UNCHANGED call
     \/ Return(t, "idle") /\ UNCHANGED <<allocated, fields>>
  /\ UNCHANGED <<links, mutex, known, result>>

(* Mutant: a lock does not wait for the mutex to be free.                  *)
LockOwned(t) ==
  /\ mutex' = t
  /\ \/ At(t, "lockInsert") /\ pc' = [pc EXCEPT ![t] = "back"]
     \/ At(t, "lockReplace") /\ pc' = [pc EXCEPT ![t] = "replace"]
  /\ UNCHANGED <<links, allocated, fields, frame, result>>

Lock(t) ==
  /\ mutex = NoThread
  /\ mutex' = t
  /\ \/ At(t, "lockInsert") /\ pc' = [pc EXCEPT ![t] = "back"]
     \/ At(t, "lockReplace") /\ pc' = [pc EXCEPT ![t] = "replace"]
  /\ UNCHANGED <<links, allocated, fields, frame, result>>

Unlock(t) ==
  /\ At(t, "unlock")
  /\ mutex' = NoThread
  /\ Return(t, "idle")
  /\ UNCHANGED <<links, allocated, fields, known, result>>

(* Mutant: the route is made visible before its own links are set.         *)
BackForth(t) ==
  /\ At(t, "back")
  /\ LinkForth(route[t], rtable)
  /\ pc' = [pc EXCEPT ![t] = "node"]
  /\ UNCHANGED <<allocated, fields, mutex, frame, result>>

(* lsp_list_add(&route->rlist, &rtable): nobody else writes the links, so  *)
(* that next[rtable] is still what it was when the insertion began.        *)
Back(t) ==
  /\ At(t, "back")
  /\ LinkBack(route[t], next[rtable])
  /\ pc' = [pc EXCEPT ![t] = "node"]
  /\ UNCHANGED <<allocated, fields, mutex, frame, result>>

Between(t) ==
  /\ At(t, "node")
  /\ LinkNode(route[t], rtable, next[rtable])
  /\ pc' = [pc EXCEPT ![t] = "forth"]
  /\ UNCHANGED <<allocated, fields, mutex, frame, result>>

Forth(t) ==
  /\ At(t, "forth")
  /\ LinkForth(route[t], rtable)
  /\ pc' = [pc EXCEPT ![t] = "unlock"]
  /\ UNCHANGED <<allocated, fields, mutex, frame, result>>

(* Mutant: the difference of the speeds is stored.                         *)
ReplaceDelta(t) ==
  /\ At(t, "replace")
  /\ linkspeed' = [linkspeed EXCEPT ![route[t]] = call[t].linkspeed - @]
  /\ pc' = [pc EXCEPT ![t] = "unlock"]
  /\ UNCHANGED <<links, allocated, addr, iface, mutex, frame, result>>

(* The comparison that led here was made before the lock.                  *)
Replace(t) ==
  /\ At(t, "replace")
  /\ iface' = [iface EXCEPT ![route[t]] = call[t].iface]
  /\ linkspeed' = [linkspeed EXCEPT ![route[t]] = call[t].linkspeed]
  /\ pc' = [pc EXCEPT ![t] = "unlock"]
  /\ UNCHANGED <<links, allocated, addr, mutex, frame, result>>

-----------------------------------------------------------------------------

Proceed(t) ==
  \/ First(t) \/ Test(t) \/ Visit(t) \/ Alloc(t) \/ Lock(t) \/ Unlock(t)
  \/ Back(t) \/ Between(t) \/ Forth(t) \/ Replace(t)

Next == \E t \in Thread : CallFind(t) \/ CallAdd(t) \/ Proceed(t)

Spec == Init /\ [][Next]_vars

-----------------------------------------------------------------------------

TypeOK ==
  /\ next \in [Cell -> Cell \cup {Nil}] /\ prev \in [Cell -> Cell \cup {Nil}]
  /\ allocated \subseteq Node
  /\ addr \in [Node -> Addr \cup {Nil}]
  /\ iface \in [Node -> Iface \cup {Nil}]
  /\ linkspeed \in [Node -> Speed]
  /\ mutex \in Thread \cup {NoThread}
  /\ pc \in [Thread -> {"idle", "first", "test", "visit", "wild", "alloc",
                        "lockInsert", "lockReplace", "back", "node", "forth",
                        "replace", "unlock"}]
  /\ call \in [Thread -> [op : {"none", "find", "add"}, addr : Addr \cup {Nil},
                          iface : Iface \cup {Nil}, linkspeed : Speed]]
  /\ route \in [Thread -> Cell \cup {Nil}]
  /\ result \in [Thread -> Iface \cup {Nil}]
  /\ known \in [Thread -> SUBSET Node]

(* Whoever searches at whatever moment finds a list that ends: between any *)
(* two writes of an insertion the forward links are a ring through the     *)
(* routes that are in the table, and the backward links agree with them    *)
(* when nobody inserts.                                                    *)
ListIntact ==
  /\ RingThrough(rtable, Linked)
  /\ mutex = NoThread => Mirrored(rtable, Linked)

(* A search that ends without a route has missed none: none of the routes  *)
(* in the table when it began, if they were at least two, has its address. *)
NoneMissed(t) ==
  /\ pc[t] \in {"test", "visit"}
  /\ pc'[t] = "alloc" \/ (Find(t) /\ pc'[t] = "idle" /\ result'[t] = Nil)
  => \A n \in known[t] : addr[n] # call[t].addr

NothingMissed == [][\A t \in Thread : NoneMissed(t)]_vars

(* The test for an existing route is not made under the mutex, and misses  *)
(* a table's only route; even so an address gets at most one route more    *)
(* than there are threads.                                                 *)
DuplicatesBounded ==
  \A a \in Addr : Cardinality(Routes(a)) <= Cardinality(Thread) + 1

(* A search ends whatever is inserted meanwhile: the routes ahead of its   *)
(* cursor are never more than before, and fewer when the cursor moves.     *)
CursorAdvances(t) ==
  pc[t] = "visit" /\ pc'[t] = "visit" /\ route[t] \in Node =>
    /\ route'[t] \in Cell
    /\ Ahead(route[t])' \subseteq Ahead(route[t])
    /\ route'[t] # route[t] => Ahead(route[t])' # Ahead(route[t])

SearchEnds == [][\A t \in Thread : CursorAdvances(t)]_vars

(* The first insertion into an empty table, half done, makes a search take *)
(* the head of the list for a route; no search that begins with two routes *)
(* in the table does.                                                      *)
HeadOnlyAtFirst == \A t \in Thread :
  pc[t] = "visit" /\ route[t] = rtable => known[t] = {}
=============================================================================
