--------------------------- MODULE LspListProofs ----------------------------
(***************************************************************************)
(* What an insertion and a deletion do to a list, for any number of nodes. *)
(* The lemmas are about any forward links nx, so that they can be used of  *)
(* the links before a step and of those after it.                          *)
(***************************************************************************)
EXTENDS LspList, FiniteSetTheorems, WellFoundedInduction, TLAPS

NodeCount == Cardinality(Node)

(* The number of nodes is one.                                             *)
LEMMA NodesCount == NodeCount \in Nat
BY NodeAssumption, FS_CardinalityType DEF NodeCount

(* A set of naturals has a least element: the initial segments up to its   *)
(* elements are ordered by inclusion.                                      *)
LEMMA Least ==
  ASSUME NEW T, T \subseteq Nat, T # {}
  PROVE  \E m \in T : \A k \in T : m <= k
<1> DEFINE Below == {0 .. k : k \in T}
<1>1. Below \subseteq FiniteSubsetsOf(Nat) /\ Below # {}
  <2>1. ASSUME NEW k \in T PROVE 0 .. k \in SUBSET Nat /\ IsFiniteSet(0 .. k)
    BY FS_Interval
  <2>2. \A B \in Below : B \in SUBSET Nat /\ IsFiniteSet(B)
    BY <2>1
  <2> QED BY <2>2 DEF FiniteSubsetsOf
<1>2. \E x \in Below : \A y \in Below : <<y, x>> \notin StrictSubsetOrdering(Nat)
  <2> HIDE DEF Below
  <2> QED BY <1>1, FS_StrictSubsetOrderingWellFounded, WFMin
<1>3. PICK m \in T : \A k \in T : <<0 .. k, 0 .. m>> \notin StrictSubsetOrdering(Nat)
  BY <1>2
<1>4. ASSUME NEW k \in T, k < m PROVE FALSE
  <2>1. 0 .. k \subseteq 0 .. m /\ m \in 0 .. m /\ m \notin 0 .. k
    BY <1>4
  <2>2. <<0 .. k, 0 .. m>> \in StrictSubsetOrdering(Nat)
    BY <2>1 DEF StrictSubsetOrdering
  <2> QED BY <2>2, <1>3
<1> QED BY <1>4

(* Hence induction up to n, with a set in place of a predicate.            *)
LEMMA Induct ==
  ASSUME NEW n \in Nat, NEW S, 0 \in S, \A k \in 0 .. n - 1 : k \in S => k + 1 \in S
  PROVE  0 .. n \subseteq S
<1> SUFFICES ASSUME (0 .. n) \ S # {} PROVE FALSE
  OBVIOUS
<1> DEFINE T == (0 .. n) \ S
<1>1. T \subseteq Nat /\ T # {}
  OBVIOUS
<1>2. PICK m \in T : \A k \in T : m <= k
  <2> HIDE DEF T
  <2> QED BY <1>1, Least
<1>3. m # 0 /\ m - 1 \in 0 .. n - 1
  BY <1>2
<1>4. m - 1 \in S
  BY <1>2, <1>3
<1> QED BY <1>2, <1>3, <1>4

-----------------------------------------------------------------------------
(* Walk, Ahead and RingThrough of the links nx.                            *)

Links == [Cell -> Cell \cup {Nil}]

WalkOf(nx, c) ==
  CHOOSE f : f = [k \in 0 .. NodeCount |->
                    IF k = 0 THEN nx[c]
                    ELSE IF f[k - 1] \in Node THEN nx[f[k - 1]] ELSE f[k - 1]]

AheadOf(nx, c) == {WalkOf(nx, c)[k] : k \in 0 .. NodeCount} \cap Node

Ring(nx, h, S) == AheadOf(nx, h) = S /\ WalkOf(nx, h)[Cardinality(S)] = h

(* They are what the recursive function of LspList computes.               *)
LEMMA WalkIs == \A c : Walk(c) = WalkOf(next, c)
BY DEF Walk, WalkOf, NodeCount

(* The first m steps of a walk from c.                                     *)
IsWalk(nx, c, m, f) ==
  /\ f \in [0 .. m -> Cell \cup {Nil}]
  /\ f[0] = nx[c]
  /\ \A k \in 1 .. m : f[k] = IF f[k - 1] \in Node THEN nx[f[k - 1]] ELSE f[k - 1]

(* There is such a walk, of any length.                                    *)
LEMMA WalkExists ==
  ASSUME NEW nx \in Links, NEW c \in Cell, NEW n \in Nat
  PROVE  \E f : IsWalk(nx, c, n, f)
<1> DEFINE S == {m \in Nat : \E f : IsWalk(nx, c, m, f)}
<1>1. 0 \in S
  <2>1. IsWalk(nx, c, 0, [k \in 0 .. 0 |-> nx[c]])
    BY DEF IsWalk, Links
  <2> QED BY <2>1
<1>2. ASSUME NEW m \in Nat, m \in S PROVE m + 1 \in S
  <2>1. PICK f : IsWalk(nx, c, m, f)
    BY <1>2
  <2> DEFINE g == [k \in 0 .. m + 1 |->
                     IF k <= m THEN f[k]
                     ELSE IF f[m] \in Node THEN nx[f[m]] ELSE f[m]]
  <2>2. f[m] \in Cell \cup {Nil} /\ (f[m] \in Node => nx[f[m]] \in Cell \cup {Nil})
    BY <2>1 DEF IsWalk, Links, Cell
  <2>3. g \in [0 .. m + 1 -> Cell \cup {Nil}]
    BY <2>1, <2>2 DEF IsWalk
  <2>4. \A k \in 0 .. m : g[k] = f[k]
    OBVIOUS
  <2>5. g[m + 1] = IF g[m] \in Node THEN nx[g[m]] ELSE g[m]
    BY <2>4
  <2> HIDE DEF g
  <2>6. \A k \in 1 .. m : g[k] = IF g[k - 1] \in Node THEN nx[g[k - 1]] ELSE g[k - 1]
    BY <2>1, <2>4 DEF IsWalk
  <2>7. IsWalk(nx, c, m + 1, g)
    BY <2>1, <2>3, <2>4, <2>5, <2>6 DEF IsWalk
  <2> QED BY <2>7
<1> HIDE DEF S
<1>3. 0 .. n \subseteq S
  BY <1>1, <1>2, Induct
<1> QED BY <1>3 DEF S

(* So the recursive function has the values of its definition.             *)
LEMMA WalkOfIs ==
  ASSUME NEW nx \in Links, NEW c \in Cell
  PROVE  IsWalk(nx, c, NodeCount, WalkOf(nx, c))
<1> DEFINE Body(f) == [k \in 0 .. NodeCount |->
                         IF k = 0 THEN nx[c]
                         ELSE IF f[k - 1] \in Node THEN nx[f[k - 1]] ELSE f[k - 1]]
<1>1. PICK f : IsWalk(nx, c, NodeCount, f)
  BY WalkExists, NodesCount
<1>2. f = Body(f)
  BY <1>1, NodesCount DEF IsWalk
<1>3. WalkOf(nx, c) = Body(WalkOf(nx, c))
  <2>1. WalkOf(nx, c) = CHOOSE g : g = Body(g)
    BY DEF WalkOf
  <2> HIDE DEF Body
  <2> QED BY <1>2, <2>1
<1> DEFINE w == WalkOf(nx, c)
<1>4. \A k \in 0 .. NodeCount : w[k] = IF k = 0 THEN nx[c]
                               ELSE IF w[k - 1] \in Node THEN nx[w[k - 1]] ELSE w[k - 1]
  BY <1>3
<1>5. w = [k \in 0 .. NodeCount |-> w[k]]
  BY <1>3
<1> HIDE DEF w
<1>6. w[0] = nx[c]
  BY <1>4, NodesCount
<1>7. \A k \in 1 .. NodeCount : w[k] = IF w[k - 1] \in Node THEN nx[w[k - 1]] ELSE w[k - 1]
  BY <1>4, NodesCount
<1>8. \A k \in 0 .. NodeCount : w[k] \in Cell \cup {Nil}
  <2> DEFINE S == {k \in Nat : k <= NodeCount => w[k] \in Cell \cup {Nil}}
  <2>1. 0 \in S
    BY <1>6 DEF Links
  <2>2. ASSUME NEW k \in 0 .. NodeCount - 1, k \in S PROVE k + 1 \in S
    <3>1. w[k + 1] = IF w[k] \in Node THEN nx[w[k]] ELSE w[k]
      BY <1>7, NodesCount
    <3> QED BY <2>2, <3>1, NodesCount DEF Links, Cell
  <2>3. 0 .. NodeCount \subseteq S
    <3> HIDE DEF S
    <3> QED BY <2>1, <2>2, Induct, NodesCount
  <2> QED BY <2>3
<1>9. w \in [0 .. NodeCount -> Cell \cup {Nil}]
  BY <1>5, <1>8
<1> QED BY <1>6, <1>7, <1>9 DEF IsWalk, w

-----------------------------------------------------------------------------
(* n nodes after c, and then what is no node.                              *)
Path(nx, c, n, w) ==
  /\ w[0] = nx[c] /\ w[n] \notin Node
  /\ \A k \in 0 .. n - 1 : w[k] \in Node /\ w[k + 1] = nx[w[k]]

(* A walk follows the path there is, and stays at its end.                 *)
LEMMA WalkAlong ==
  ASSUME NEW nx \in Links, NEW c \in Cell, NEW n \in 0 .. NodeCount, NEW w,
         Path(nx, c, n, w)
  PROVE  /\ \A k \in 0 .. n : WalkOf(nx, c)[k] = w[k]
         /\ \A k \in n .. NodeCount : WalkOf(nx, c)[k] = w[n]
         /\ AheadOf(nx, c) = {w[k] : k \in 0 .. n - 1}
<1> USE NodesCount
<1> DEFINE v == WalkOf(nx, c)
<1>1. IsWalk(nx, c, NodeCount, v)
  BY WalkOfIs
<1> HIDE DEF v
<1>2. v[0] = w[0]
  BY <1>1 DEF IsWalk, Path
<1>3. \A k \in 0 .. NodeCount - 1 : v[k + 1] = IF v[k] \in Node THEN nx[v[k]] ELSE v[k]
  <2> TAKE k \in 0 .. NodeCount - 1
  <2>1. k + 1 \in 1 .. NodeCount /\ (k + 1) - 1 = k
    OBVIOUS
  <2> QED BY <1>1, <2>1 DEF IsWalk
<1> DEFINE S == {k \in Nat : v[k] = IF k <= n THEN w[k] ELSE w[n]}
<1>4. 0 \in S
  BY <1>2
<1>5. ASSUME NEW k \in 0 .. NodeCount - 1, k \in S PROVE k + 1 \in S
  <2>1. CASE k < n
    BY <1>3, <1>5, <2>1 DEF Path
  <2>2. CASE k >= n
    BY <1>3, <1>5, <2>2 DEF Path
  <2> QED BY <2>1, <2>2
<1>6. 0 .. NodeCount \subseteq S
  <2> HIDE DEF S
  <2> QED BY <1>4, <1>5, Induct
<1>7. \A k \in 0 .. NodeCount : v[k] = IF k <= n THEN w[k] ELSE w[n]
  BY <1>6
<1>8. /\ \A k \in 0 .. n : v[k] = w[k]
      /\ \A k \in n .. NodeCount : v[k] = w[n]
  BY <1>7
<1>9. {v[k] : k \in 0 .. NodeCount} \cap Node = {w[k] : k \in 0 .. n - 1}
  <2>1. ASSUME NEW x \in Node, NEW k \in 0 .. NodeCount, x = v[k]
        PROVE  \E j \in 0 .. n - 1 : x = w[j]
    BY <1>8, <2>1 DEF Path
  <2>2. ASSUME NEW j \in 0 .. n - 1 PROVE w[j] \in Node /\ j \in 0 .. NodeCount /\ v[j] = w[j]
    BY <1>8 DEF Path
  <2> QED BY <2>1, <2>2
<1> QED BY <1>8, <1>9 DEF AheadOf, v

-----------------------------------------------------------------------------
(* The cells of a list h in their order, up to h: w[i] is the node of S    *)
(* with i nodes before it.                                                 *)
Order(nx, h, S, w) ==
  /\ Path(nx, h, Cardinality(S), w)
  /\ w[Cardinality(S)] = h
  /\ {w[k] : k \in 0 .. Cardinality(S) - 1} = S

(* A set of nodes is finite, and no greater than Node.                     *)
LEMMA NodesFinite ==
  ASSUME NEW S, S \subseteq Node
  PROVE  IsFiniteSet(S) /\ Cardinality(S) \in 0 .. NodeCount
<1>1. IsFiniteSet(S) /\ Cardinality(S) <= NodeCount
  BY NodeAssumption, FS_Subset DEF NodeCount
<1>2. Cardinality(S) \in Nat
  BY <1>1, FS_CardinalityType
<1> QED BY <1>1, <1>2, NodesCount

(* The values of a function on its first n arguments are at most n.        *)
LEMMA FirstValues ==
  ASSUME NEW n \in Nat, NEW v, NEW T, T \subseteq {v[k] : k \in 0 .. n - 1}
  PROVE  IsFiniteSet(T) /\ Cardinality(T) <= n
<1> DEFINE D == 0 .. n - 1
           V == {v[k] : k \in D}
           f == [k \in D |-> v[k]]
<1>1. IsFiniteSet(D) /\ Cardinality(D) = n
  BY FS_Interval
<1>2. f \in Surjection(D, V)
  BY DEF Surjection
<1>3. IsFiniteSet(V) /\ Cardinality(V) <= n
  <2> HIDE DEF D, V, f
  <2> QED BY <1>1, <1>2, FS_Surjection
<1>4. IsFiniteSet(T) /\ Cardinality(T) <= Cardinality(V)
  <2>1. T \subseteq V
    OBVIOUS
  <2> HIDE DEF V
  <2> QED BY <1>3, <2>1, FS_Subset
<1>5. Cardinality(T) \in Nat /\ Cardinality(V) \in Nat
  <2> HIDE DEF V
  <2> QED BY <1>3, <1>4, FS_CardinalityType
<1> QED BY <1>3, <1>4, <1>5

(* A list with an order is a ring.                                         *)
LEMMA OrderRing ==
  ASSUME NEW nx \in Links, NEW h \in Head, NEW S, S \subseteq Node, NEW w,
         Order(nx, h, S, w)
  PROVE  Ring(nx, h, S)
<1> DEFINE n == Cardinality(S)
<1>1. n \in 0 .. NodeCount
  BY NodesFinite
<1>2. AheadOf(nx, h) = {w[k] : k \in 0 .. n - 1} /\ WalkOf(nx, h)[n] = w[n]
  <2> HIDE DEF n
  <2> USE NodesCount
  <2>1. Path(nx, h, n, w) /\ h \in Cell
    BY DEF Order, n, Cell
  <2> QED BY <1>1, <2>1, WalkAlong
<1> QED BY <1>2 DEF Order, Ring

(* A ring has an order, that of a walk around it.                          *)
LEMMA RingOrder ==
  ASSUME NEW nx \in Links, NEW h \in Head, NEW S, S \subseteq Node,
         Ring(nx, h, S)
  PROVE  Order(nx, h, S, WalkOf(nx, h))
<1> USE NodesCount
<1> DEFINE n == Cardinality(S)
           w == WalkOf(nx, h)
<1>1. n \in 0 .. NodeCount /\ IsFiniteSet(S)
  BY NodesFinite
<1>2. IsWalk(nx, h, NodeCount, w)
  BY WalkOfIs DEF Cell
<1>3. {w[k] : k \in 0 .. NodeCount} \cap Node = S /\ w[n] = h
  BY DEF Ring, AheadOf
<1>4. h \notin Node
  BY NodeAssumption
<1> HIDE DEF n, w
<1>5. \A k \in 0 .. NodeCount - 1 : w[k + 1] = IF w[k] \in Node THEN nx[w[k]] ELSE w[k]
  <2> TAKE k \in 0 .. NodeCount - 1
  <2>1. k + 1 \in 1 .. NodeCount /\ (k + 1) - 1 = k
    OBVIOUS
  <2> QED BY <1>2, <2>1 DEF IsWalk
<1>6. ASSUME NEW m \in 0 .. n, w[m] \notin Node
      PROVE  m = n
  <2> DEFINE T == {k \in Nat : m + k <= NodeCount => w[m + k] = w[m]}
  <2>1. 0 \in T
    OBVIOUS
  <2>2. ASSUME NEW k \in 0 .. NodeCount - 1, k \in T PROVE k + 1 \in T
    <3>1. CASE m + (k + 1) <= NodeCount
      <4>1. m + k \in 0 .. NodeCount - 1 /\ m + (k + 1) = (m + k) + 1
        BY <1>1, <3>1
      <4>2. w[m + k] = w[m]
        BY <2>2, <4>1
      <4>3. w[(m + k) + 1] = w[m]
        BY <1>5, <1>6, <4>1, <4>2
      <4> QED BY <4>1, <4>3
    <3>2. CASE ~(m + (k + 1) <= NodeCount)
      BY <3>2
    <3> QED BY <3>1, <3>2
  <2>3. 0 .. NodeCount \subseteq T
    <3> HIDE DEF T
    <3> QED BY <2>1, <2>2, Induct
  <2>4. \A k \in m .. NodeCount : w[k] = w[m]
    <3> TAKE k \in m .. NodeCount
    <3>1. k - m \in 0 .. NodeCount /\ m + (k - m) = k
      BY <1>1
    <3> QED BY <2>3, <3>1
  <2>5. S \subseteq {w[k] : k \in 0 .. m - 1}
    <3> SUFFICES ASSUME NEW x \in S PROVE \E k \in 0 .. m - 1 : x = w[k]
      OBVIOUS
    <3>1. PICK k \in 0 .. NodeCount : x = w[k] /\ x \in Node
      BY <1>3
    <3>2. k < m
      BY <1>6, <2>4, <3>1
    <3> QED BY <3>1, <3>2
  <2>6. Cardinality(S) <= m
    BY <2>5, FirstValues, <1>1
  <2> QED BY <1>1, <2>6 DEF n
<1>7. \A k \in 0 .. n - 1 : w[k] \in Node /\ w[k + 1] = nx[w[k]]
  BY <1>1, <1>5, <1>6
<1>8. Path(nx, h, n, w)
  BY <1>2, <1>3, <1>4, <1>7 DEF Path, IsWalk
<1>9. {w[k] : k \in 0 .. n - 1} = S
  <2>1. n \in 0 .. NodeCount /\ h \in Cell
    BY <1>1 DEF Cell
  <2>2. AheadOf(nx, h) = {w[k] : k \in 0 .. n - 1}
    BY <1>8, <2>1, WalkAlong
  <2> QED BY <2>2 DEF Ring
<1> QED BY <1>3, <1>8, <1>9 DEF Order, n, w

(* No node comes twice.                                                    *)
LEMMA OrderInjective ==
  ASSUME NEW nx, NEW h, NEW S, S \subseteq Node, NEW w, Order(nx, h, S, w),
         NEW j \in 0 .. Cardinality(S) - 1, NEW k \in 0 .. Cardinality(S) - 1,
         w[j] = w[k]
  PROVE  j = k
<1> DEFINE D == 0 .. Cardinality(S) - 1
           f == [i \in D |-> w[i]]
<1>1. Cardinality(S) \in Nat /\ IsFiniteSet(S)
  BY NodesFinite
<1>2. IsFiniteSet(D) /\ Cardinality(D) = Cardinality(S)
  BY <1>1, FS_Interval
<1>3. f \in Surjection(D, S)
  BY DEF Surjection, Order
<1>4. f \in Injection(D, S)
  <2> HIDE DEF D, f
  <2> QED BY <1>2, <1>3, FS_SurjSameCardinalityImpliesInj
<1>5. f[j] = f[k] /\ j \in D /\ k \in D
  OBVIOUS
<1> HIDE DEF D, f
<1> QED BY <1>4, <1>5 DEF Injection, IsInjective

-----------------------------------------------------------------------------
Behind(w, i, n) == {w[k] : k \in i + 1 .. n - 1}

(* The nodes ahead of one of the list are those behind it in the order,    *)
(* for all links that agree on the list's nodes.                           *)
LEMMA OrderAhead ==
  ASSUME NEW nx \in Links, NEW h \in Head, NEW S, S \subseteq Node, NEW w,
         Order(nx, h, S, w), NEW ny \in Links, \A c \in S : ny[c] = nx[c],
         NEW i \in 0 .. Cardinality(S) - 1
  PROVE  AheadOf(ny, w[i]) = Behind(w, i, Cardinality(S))
<1> DEFINE n == Cardinality(S)
           m == (n - 1) - i
           v == [k \in 0 .. m |-> w[(i + 1) + k]]
<1>1. n \in 0 .. NodeCount /\ m \in 0 .. NodeCount
  BY NodesFinite, NodesCount
<1>2. w[n] = h /\ \A k \in 0 .. n - 1 : w[k] \in S /\ w[k + 1] = nx[w[k]]
  BY DEF Order, Path
<1>3. h \notin Node
  BY NodeAssumption
<1>4. i \in 0 .. n - 1
  OBVIOUS
<1>5. \A k \in 0 .. m : v[k] = w[(i + 1) + k]
  OBVIOUS
<1>6. (i + 1) + m = n
  BY <1>1
<1> HIDE DEF n, v
<1>7. v[0] = ny[w[i]]
  <2>1. v[0] = w[i + 1]
    BY <1>1, <1>4, <1>5
  <2> QED BY <1>2, <1>4, <2>1
<1>8. v[m] \notin Node
  BY <1>1, <1>2, <1>3, <1>5, <1>6
<1>9. ASSUME NEW k \in 0 .. m - 1 PROVE v[k] \in Node /\ v[k + 1] = ny[v[k]]
  <2>1. (i + 1) + k \in 0 .. n - 1 /\ (i + 1) + (k + 1) = ((i + 1) + k) + 1
        /\ k \in 0 .. m /\ k + 1 \in 0 .. m
    BY <1>1, <1>4
  <2>2. v[k] = w[(i + 1) + k] /\ v[k + 1] = w[((i + 1) + k) + 1]
    BY <1>5, <2>1
  <2> QED BY <1>2, <2>1, <2>2
<1>10. Path(ny, w[i], m, v)
  BY <1>7, <1>8, <1>9 DEF Path
<1>11. w[i] \in Cell
  BY <1>2, <1>4 DEF Cell
<1>12. AheadOf(ny, w[i]) = {v[k] : k \in 0 .. m - 1}
  <2> HIDE DEF m
  <2> QED BY <1>1, <1>10, <1>11, WalkAlong
<1>13. {v[k] : k \in 0 .. m - 1} = {w[k] : k \in i + 1 .. n - 1}
  <2>1. ASSUME NEW k \in 0 .. m - 1
        PROVE  (i + 1) + k \in i + 1 .. n - 1 /\ v[k] = w[(i + 1) + k]
    BY <1>1, <1>4, <1>5
  <2>2. ASSUME NEW k \in i + 1 .. n - 1
        PROVE  k - (i + 1) \in 0 .. m - 1 /\ v[k - (i + 1)] = w[k]
    <3>1. k - (i + 1) \in 0 .. m - 1 /\ (i + 1) + (k - (i + 1)) = k
      BY <1>1, <1>4
    <3>2. k - (i + 1) \in 0 .. m
      BY <1>1, <3>1
    <3>3. v[k - (i + 1)] = w[(i + 1) + (k - (i + 1))]
      BY <1>5, <3>2
    <3> QED BY <3>1, <3>3
  <2> QED BY <2>1, <2>2
<1> QED BY <1>12, <1>13 DEF n, Behind

(* What is ahead of a node of the list depends on the links of its nodes.  *)
LEMMA RingAgree ==
  ASSUME NEW nx \in Links, NEW h \in Head, NEW S, S \subseteq Node, Ring(nx, h, S),
         NEW ny \in Links, \A c \in S : ny[c] = nx[c], NEW c \in S
  PROVE  AheadOf(ny, c) = AheadOf(nx, c)
<1> DEFINE w == WalkOf(nx, h)
<1>1. Order(nx, h, S, w)
  BY RingOrder
<1> HIDE DEF w
<1>2. \A i \in 0 .. Cardinality(S) - 1 :
        AheadOf(ny, w[i]) = Behind(w, i, Cardinality(S))
  BY <1>1, OrderAhead
<1>3. \A i \in 0 .. Cardinality(S) - 1 :
        AheadOf(nx, w[i]) = Behind(w, i, Cardinality(S))
  BY <1>1, OrderAhead
<1>4. PICK i \in 0 .. Cardinality(S) - 1 : c = w[i]
  BY <1>1 DEF Order
<1> QED BY <1>2, <1>3, <1>4

(* The next cell after a node of the list is the head, with no node ahead, *)
(* or a node, with one node less ahead.                                    *)
LEMMA RingStep ==
  ASSUME NEW nx \in Links, NEW h \in Head, NEW S, S \subseteq Node, Ring(nx, h, S),
         NEW c \in S
  PROVE  \/ nx[c] = h /\ AheadOf(nx, c) = {}
         \/ /\ nx[c] \in S /\ nx[c] \notin AheadOf(nx, nx[c])
            /\ AheadOf(nx, c) = AheadOf(nx, nx[c]) \cup {nx[c]}
<1> DEFINE w == WalkOf(nx, h)
           n == Cardinality(S)
<1>1. Order(nx, h, S, w)
  BY RingOrder
<1>2. n \in Nat
  BY NodesFinite
<1>3. \A i \in 0 .. n - 1 : AheadOf(nx, w[i]) = {w[k] : k \in i + 1 .. n - 1}
  <2> HIDE DEF w
  <2> QED BY <1>1, OrderAhead DEF Behind
<1> HIDE DEF w
<1>4. PICK i \in 0 .. n - 1 : c = w[i]
  BY <1>1 DEF Order
<1>5. nx[c] = w[i + 1]
  BY <1>1, <1>4 DEF Order, Path
<1>6. CASE i + 1 = n
  <2>1. nx[c] = h
    BY <1>1, <1>5, <1>6 DEF Order
  <2>2. i + 1 .. n - 1 = {}
    BY <1>2, <1>6
  <2> QED BY <1>3, <1>4, <2>1, <2>2
<1>7. CASE i + 1 # n
  <2>1. i + 1 \in 0 .. n - 1
    BY <1>2, <1>7
  <2>2. nx[c] \in S
    BY <1>1, <1>5, <2>1 DEF Order
  <2>3. AheadOf(nx, nx[c]) = {w[k] : k \in (i + 1) + 1 .. n - 1}
    BY <1>3, <1>5, <2>1
  <2>4. i + 1 .. n - 1 = ((i + 1) + 1 .. n - 1) \cup {i + 1}
    BY <1>2, <2>1
  <2>5. AheadOf(nx, c) = AheadOf(nx, nx[c]) \cup {nx[c]}
    <3> HIDE DEF n
    <3> QED BY <1>3, <1>4, <1>5, <2>3, <2>4
  <2>6. ASSUME NEW k \in (i + 1) + 1 .. n - 1, w[k] = w[i + 1] PROVE FALSE
    <3>1. k \in 0 .. n - 1 /\ k # i + 1
      BY <1>2, <2>6
    <3> QED BY <1>1, <2>1, <2>6, <3>1, OrderInjective
  <2> QED BY <1>5, <2>2, <2>3, <2>5, <2>6
<1> QED BY <1>6, <1>7

(* The first node of the list, if there is one.                            *)
LEMMA RingFirst ==
  ASSUME NEW nx \in Links, NEW h \in Head, NEW S, S \subseteq Node, Ring(nx, h, S)
  PROVE  \/ S = {} /\ nx[h] = h
         \/ nx[h] \in S /\ S = AheadOf(nx, nx[h]) \cup {nx[h]}
<1> DEFINE w == WalkOf(nx, h)
           n == Cardinality(S)
<1>1. Order(nx, h, S, w)
  BY RingOrder
<1>2. n \in Nat
  BY NodesFinite
<1>3. \A i \in 0 .. n - 1 : AheadOf(nx, w[i]) = {w[k] : k \in i + 1 .. n - 1}
  <2> HIDE DEF w
  <2> QED BY <1>1, OrderAhead DEF Behind
<1> HIDE DEF w
<1>4. nx[h] = w[0] /\ w[n] = h /\ S = {w[k] : k \in 0 .. n - 1}
  BY <1>1 DEF Order, Path
<1>5. CASE n = 0
  <2>1. 0 .. n - 1 = {}
    BY <1>5
  <2> QED BY <1>4, <1>5, <2>1
<1>6. CASE n # 0
  <2>1. 0 \in 0 .. n - 1 /\ 0 .. n - 1 = (0 + 1 .. n - 1) \cup {0}
    BY <1>2, <1>6
  <2>2. AheadOf(nx, w[0]) = {w[k] : k \in 0 + 1 .. n - 1}
    BY <1>3, <2>1
  <2> HIDE DEF n
  <2>3. {w[k] : k \in 0 .. n - 1} = {w[k] : k \in 0 + 1 .. n - 1} \cup {w[0]}
    BY <2>1
  <2>4. w[0] \in S
    BY <1>4, <2>1
  <2> QED BY <1>4, <2>2, <2>3, <2>4
<1> QED BY <1>5, <1>6

(* Whoever is at a cell of the list goes on to one, and a node is not      *)
(* linked to itself.                                                       *)
LEMMA RingClosed ==
  ASSUME NEW nx \in Links, NEW h \in Head, NEW S, S \subseteq Node, Ring(nx, h, S)
  PROVE  /\ \A c \in S \cup {h} : nx[c] \in S \cup {h}
         /\ \A c \in S : nx[c] # c
<1>1. \A c \in S : nx[c] \in S \cup {h}
  BY RingStep
<1>2. nx[h] \in S \cup {h}
  BY RingFirst
<1>3. ASSUME NEW c \in S, nx[c] = c PROVE FALSE
  <2>1. c # h
    BY NodeAssumption
  <2>2. c \notin AheadOf(nx, c) /\ AheadOf(nx, c) = AheadOf(nx, c) \cup {c}
    BY <1>3, <2>1, RingStep
  <2> QED BY <2>2
<1> QED BY <1>1, <1>2, <1>3

(* Every node of the list is next to some cell of it.                      *)
LEMMA RingBefore ==
  ASSUME NEW nx \in Links, NEW h \in Head, NEW S, S \subseteq Node, Ring(nx, h, S),
         NEW c \in S
  PROVE  \E b \in S \cup {h} : nx[b] = c
<1> DEFINE w == WalkOf(nx, h)
           n == Cardinality(S)
<1>1. Order(nx, h, S, w)
  BY RingOrder
<1>2. n \in Nat
  BY NodesFinite
<1> HIDE DEF w
<1>3. /\ w[0] = nx[h]
      /\ \A k \in 0 .. n - 1 : w[k] \in S /\ w[k + 1] = nx[w[k]]
      /\ S = {w[k] : k \in 0 .. n - 1}
  BY <1>1 DEF Order, Path
<1>4. PICK k \in 0 .. n - 1 : c = w[k]
  BY <1>3
<1>5. CASE k = 0
  BY <1>3, <1>4, <1>5
<1>6. CASE k # 0
  <2>1. k - 1 \in 0 .. n - 1 /\ (k - 1) + 1 = k
    BY <1>2, <1>6
  <2> QED BY <1>3, <1>4, <2>1
<1> QED BY <1>5, <1>6

-----------------------------------------------------------------------------
(* A ring is one for all links that agree on its cells.                    *)
LEMMA RingSame ==
  ASSUME NEW nx \in Links, NEW ny \in Links, NEW h \in Head,
         NEW S, S \subseteq Node, Ring(nx, h, S),
         \A d \in S \cup {h} : ny[d] = nx[d]
  PROVE  Ring(ny, h, S)
<1> DEFINE w == WalkOf(nx, h)
<1>1. Order(nx, h, S, w)
  BY RingOrder
<1> HIDE DEF w
<1>2. Order(ny, h, S, w)
  BY <1>1 DEF Order, Path
<1> QED BY <1>2, OrderRing

(* A node c linked behind the cell b of a list becomes one of the list's.  *)
LEMMA RingInsert ==
  ASSUME NEW nx \in Links, NEW ny \in Links, NEW h \in Head,
         NEW S, S \subseteq Node, Ring(nx, h, S),
         NEW c \in Node \ S, NEW b \in S \cup {h},
         ny[b] = c, ny[c] = nx[b], \A d \in (S \cup {h}) \ {b} : ny[d] = nx[d]
  PROVE  Ring(ny, h, S \cup {c})
<1> DEFINE w == WalkOf(nx, h)
           n == Cardinality(S)
<1>1. Order(nx, h, S, w)
  BY RingOrder
<1>2. n \in Nat /\ IsFiniteSet(S)
  BY NodesFinite
<1>3. Cardinality(S \cup {c}) = n + 1
  BY <1>2, FS_AddElement
<1>4. h \notin Node
  BY NodeAssumption
<1>5. \A j, k \in 0 .. n - 1 : w[j] = w[k] => j = k
  <2> HIDE DEF w
  <2> QED BY <1>1, OrderInjective
<1> HIDE DEF w
<1>6. /\ w[0] = nx[h] /\ w[n] = h
      /\ \A k \in 0 .. n - 1 : w[k] \in S /\ w[k + 1] = nx[w[k]]
      /\ S = {w[k] : k \in 0 .. n - 1}
  BY <1>1 DEF Order, Path
<1> HIDE DEF n
<1>7. PICK p \in 0 .. n : /\ p = 0 => b = h
                          /\ p # 0 => b = w[p - 1]
                          /\ w[p] = nx[b]
  <2>1. CASE b = h
    BY <1>2, <1>6, <2>1
  <2>2. CASE b # h
    <3>1. PICK k \in 0 .. n - 1 : b = w[k]
      BY <1>6, <2>2
    <3>2. k + 1 \in 0 .. n /\ k + 1 # 0 /\ (k + 1) - 1 = k
      BY <1>2
    <3> QED BY <1>6, <3>1, <3>2
  <2> QED BY <2>1, <2>2
<1> DEFINE v == [k \in 0 .. n + 1 |-> IF k < p THEN w[k] ELSE IF k = p THEN c ELSE w[k - 1]]
<1>8. /\ \A k \in 0 .. p - 1 : v[k] = w[k]
      /\ v[p] = c
      /\ \A k \in p .. n : v[k + 1] = w[k]
  <2>1. ASSUME NEW k \in p .. n PROVE v[k + 1] = w[k]
    <3>1. k + 1 \in 0 .. n + 1 /\ ~(k + 1 < p) /\ k + 1 # p /\ (k + 1) - 1 = k
      BY <1>2
    <3> QED BY <3>1
  <2> QED BY <1>2, <2>1
<1> HIDE DEF v
<1>9. v[0] = ny[h]
  <2>1. CASE p = 0
    BY <1>7, <1>8, <2>1
  <2>2. CASE p # 0
    <3>1. 0 \in 0 .. p - 1 /\ p - 1 \in 0 .. n - 1
      BY <1>2, <2>2
    <3>2. b # h
      BY <1>4, <1>6, <1>7, <2>2, <3>1
    <3> QED BY <1>6, <1>8, <3>1, <3>2
  <2> QED BY <2>1, <2>2
<1>10. v[n + 1] = h
  BY <1>2, <1>6, <1>8
<1>11. ASSUME NEW k \in 0 .. n PROVE v[k] \in S \cup {c} /\ v[k + 1] = ny[v[k]]
  <2>1. CASE k + 1 < p
    <3>1. k \in 0 .. p - 1 /\ k + 1 \in 0 .. p - 1 /\ k \in 0 .. n - 1
          /\ p - 1 \in 0 .. n - 1 /\ k # p - 1 /\ p # 0
      BY <1>2, <2>1
    <3>2. w[k] # b
      BY <1>5, <1>7, <3>1
    <3> QED BY <1>6, <1>8, <3>1, <3>2
  <2>2. CASE k + 1 = p
    <3>1. k \in 0 .. p - 1 /\ k = p - 1 /\ k \in 0 .. n - 1 /\ p # 0
      BY <1>2, <2>2
    <3>2. v[k] = b /\ b \in S
      BY <1>6, <1>7, <1>8, <3>1
    <3> QED BY <1>8, <2>2, <3>2
  <2>3. CASE k = p
    BY <1>2, <1>7, <1>8, <2>3
  <2>4. CASE k > p
    <3>1. k - 1 \in p .. n /\ k \in p .. n /\ (k - 1) + 1 = k /\ k - 1 \in 0 .. n - 1
      BY <1>2, <2>4
    <3>2. v[k] = w[k - 1] /\ v[k + 1] = w[k] /\ w[k - 1] \in S /\ w[k] = nx[w[k - 1]]
      BY <1>6, <1>8, <3>1
    <3>3. w[k - 1] # b
      <4>1. CASE p = 0
        BY <1>4, <1>7, <3>2, <4>1
      <4>2. CASE p # 0
        <5>1. p - 1 \in 0 .. n - 1 /\ p - 1 # k - 1
          BY <1>2, <2>4, <4>2
        <5> QED BY <1>5, <1>7, <3>1, <4>2, <5>1
      <4> QED BY <4>1, <4>2
    <3> QED BY <3>2, <3>3
  <2> QED BY <1>2, <2>1, <2>2, <2>3, <2>4
<1>12. Path(ny, h, n + 1, v)
  <2>1. (n + 1) - 1 = n
    BY <1>2
  <2>2. \A k \in 0 .. n : v[k] \in Node /\ v[k + 1] = ny[v[k]]
    BY <1>11
  <2> QED BY <1>4, <1>9, <1>10, <2>1, <2>2 DEF Path
<1>13. {v[k] : k \in 0 .. n} = S \cup {c}
  <2>1. ASSUME NEW x \in S PROVE \E k \in 0 .. n : x = v[k]
    <3>1. PICK k \in 0 .. n - 1 : x = w[k]
      BY <1>6
    <3>2. CASE k < p
      BY <1>2, <1>8, <3>1, <3>2
    <3>3. CASE k >= p
      <4>1. k \in p .. n /\ k + 1 \in 0 .. n
        BY <1>2, <3>3
      <4> QED BY <1>8, <3>1, <4>1
    <3> QED BY <3>2, <3>3
  <2> QED BY <1>8, <1>11, <2>1
<1>14. Order(ny, h, S \cup {c}, v)
  <2>1. (n + 1) - 1 = n
    BY <1>2
  <2> QED BY <1>3, <1>10, <1>12, <1>13, <2>1 DEF Order
<1> QED BY <1>14, OrderRing

(* The node c of a list, past which the cell b before it is linked, is     *)
(* none of the list's any more.                                            *)
LEMMA RingDelete ==
  ASSUME NEW nx \in Links, NEW ny \in Links, NEW h \in Head,
         NEW S, S \subseteq Node, Ring(nx, h, S),
         NEW c \in S, NEW b \in S \cup {h},
         nx[b] = c, ny[b] = nx[c], \A d \in (S \cup {h}) \ {b, c} : ny[d] = nx[d]
  PROVE  Ring(ny, h, S \ {c})
<1> DEFINE w == WalkOf(nx, h)
           n == Cardinality(S)
<1>1. Order(nx, h, S, w)
  BY RingOrder
<1>2. n \in Nat /\ IsFiniteSet(S)
  BY NodesFinite
<1>3. Cardinality(S \ {c}) = n - 1
  BY <1>2, FS_RemoveElement
<1>4. h \notin Node
  BY NodeAssumption
<1>5. \A j, k \in 0 .. n - 1 : w[j] = w[k] => j = k
  <2> HIDE DEF w
  <2> QED BY <1>1, OrderInjective
<1> HIDE DEF w
<1>6. /\ w[0] = nx[h] /\ w[n] = h
      /\ \A k \in 0 .. n - 1 : w[k] \in S /\ w[k + 1] = nx[w[k]]
      /\ S = {w[k] : k \in 0 .. n - 1}
  BY <1>1 DEF Order, Path
<1> HIDE DEF n
<1>7. PICK p \in 0 .. n - 1 : w[p] = c
  BY <1>6
<1>8. /\ p = 0 => b = h
      /\ p # 0 => b = w[p - 1]
  <2>1. CASE b = h
    <3>1. 0 \in 0 .. n - 1
      BY <1>2, <1>7
    <3>2. p = 0
      BY <1>5, <1>6, <1>7, <2>1, <3>1
    <3> QED BY <2>1, <3>2
  <2>2. CASE b # h
    <3>1. PICK k \in 0 .. n - 1 : b = w[k]
      BY <1>6, <2>2
    <3>2. w[k + 1] = c
      BY <1>6, <3>1
    <3>3. k + 1 # n
      BY <1>4, <1>6, <3>2
    <3>4. k + 1 \in 0 .. n - 1
      BY <1>2, <3>3
    <3>5. k + 1 = p
      BY <1>5, <1>7, <3>2, <3>4
    <3>6. p # 0 /\ p - 1 = k
      BY <3>5
    <3> QED BY <3>1, <3>6
  <2> QED BY <2>1, <2>2
<1> DEFINE v == [k \in 0 .. n |-> IF k < p THEN w[k] ELSE w[k + 1]]
<1>9. /\ \A k \in 0 .. p - 1 : v[k] = w[k]
      /\ \A k \in p .. n - 1 : v[k] = w[k + 1]
  BY <1>2
<1> HIDE DEF v
<1>10. v[0] = ny[h]
  <2>1. CASE p = 0
    <3>1. v[0] = w[0 + 1] /\ 0 \in 0 .. n - 1
      BY <1>2, <1>9, <2>1
    <3> QED BY <1>6, <1>7, <1>8, <2>1, <3>1
  <2>2. CASE p # 0
    <3>1. 0 \in 0 .. p - 1 /\ p - 1 \in 0 .. n - 1
      BY <1>2, <2>2
    <3>2. b # h /\ c # h
      BY <1>4, <1>6, <1>8, <2>2, <3>1
    <3> QED BY <1>6, <1>9, <3>1, <3>2
  <2> QED BY <2>1, <2>2
<1>11. v[n - 1] = h
  <2>1. n - 1 \in p .. n - 1 /\ (n - 1) + 1 = n
    BY <1>2
  <2> QED BY <1>6, <1>9, <2>1
<1>12. ASSUME NEW k \in 0 .. (n - 1) - 1
       PROVE  v[k] \in S \ {c} /\ v[k + 1] = ny[v[k]]
  <2>1. CASE k + 1 < p
    <3>1. k \in 0 .. p - 1 /\ k + 1 \in 0 .. p - 1 /\ k \in 0 .. n - 1
          /\ p - 1 \in 0 .. n - 1 /\ k # p - 1 /\ p # 0 /\ k # p
      BY <1>2, <2>1
    <3>2. w[k] # b /\ w[k] # c
      BY <1>5, <1>7, <1>8, <3>1
    <3> QED BY <1>6, <1>9, <3>1, <3>2
  <2>2. CASE k + 1 = p
    <3>1. k \in 0 .. p - 1 /\ k = p - 1 /\ k \in 0 .. n - 1 /\ p # 0 /\ p \in p .. n - 1
          /\ k # p
      BY <1>2, <2>2
    <3>2. v[k] = b /\ b \in S /\ b # c
      BY <1>5, <1>6, <1>7, <1>8, <1>9, <3>1
    <3>3. v[k + 1] = w[p + 1] /\ w[p + 1] = nx[c]
      BY <1>6, <1>7, <1>9, <2>2, <3>1
    <3> QED BY <3>2, <3>3
  <2>3. CASE k >= p
    <3>1. k \in p .. n - 1 /\ k + 1 \in p .. n - 1 /\ k + 1 \in 0 .. n - 1 /\ k + 1 # p
      BY <1>2, <2>3
    <3>2. v[k] = w[k + 1] /\ v[k + 1] = w[(k + 1) + 1] /\ w[k + 1] \in S
          /\ w[(k + 1) + 1] = nx[w[k + 1]]
      BY <1>6, <1>9, <3>1
    <3>3. w[k + 1] # c
      BY <1>5, <1>7, <3>1
    <3>4. w[k + 1] # b
      <4>1. CASE p = 0
        BY <1>4, <1>8, <3>2, <4>1
      <4>2. CASE p # 0
        <5>1. p - 1 \in 0 .. n - 1 /\ p - 1 # k + 1
          BY <1>2, <2>3, <4>2
        <5> QED BY <1>5, <1>8, <3>1, <4>2, <5>1
      <4> QED BY <4>1, <4>2
    <3> QED BY <3>2, <3>3, <3>4
  <2> QED BY <1>2, <2>1, <2>2, <2>3
<1>13. Path(ny, h, n - 1, v)
  <2>1. \A k \in 0 .. (n - 1) - 1 : v[k] \in Node /\ v[k + 1] = ny[v[k]]
    BY <1>12
  <2> QED BY <1>4, <1>10, <1>11, <2>1 DEF Path
<1>14. {v[k] : k \in 0 .. (n - 1) - 1} = S \ {c}
  <2>1. ASSUME NEW x \in S \ {c} PROVE \E k \in 0 .. (n - 1) - 1 : x = v[k]
    <3>1. PICK k \in 0 .. n - 1 : x = w[k]
      BY <1>6
    <3>2. CASE k < p
      BY <1>2, <1>9, <3>1, <3>2
    <3>3. CASE k >= p
      <4>1. k # p
        BY <1>7, <3>1
      <4>2. k - 1 \in p .. n - 1 /\ k - 1 \in 0 .. (n - 1) - 1 /\ (k - 1) + 1 = k
        BY <1>2, <3>3, <4>1
      <4>3. v[k - 1] = w[(k - 1) + 1]
        BY <1>9, <4>2
      <4> QED BY <3>1, <4>2, <4>3
    <3> QED BY <3>2, <3>3
  <2> QED BY <1>12, <2>1
<1>15. Order(ny, h, S \ {c}, v)
  BY <1>3, <1>11, <1>13, <1>14 DEF Order
<1> QED BY <1>15, OrderRing

-----------------------------------------------------------------------------
(* The operators of LspList, of the links of a state and of the next one.  *)
LEMMA ListOperators ==
  ASSUME next \in Links
  PROVE  /\ \A c \in Cell : Ahead(c) = AheadOf(next, c)
         /\ \A h \in Head : \A S : RingThrough(h, S) <=> Ring(next, h, S)
<1>1. ASSUME NEW c \in Cell PROVE Ahead(c) = AheadOf(next, c)
  <2>1. Walk(c) = WalkOf(next, c)
    BY WalkIs
  <2>2. DOMAIN WalkOf(next, c) = 0 .. NodeCount
    BY WalkOfIs DEF IsWalk
  <2> QED BY <2>1, <2>2 DEF Ahead, AheadOf
<1>2. ASSUME NEW h \in Head, NEW S
      PROVE  RingThrough(h, S) <=> Ring(next, h, S)
  BY <1>1, WalkIs DEF RingThrough, Ring, Cell
<1> QED BY <1>1, <1>2

=============================================================================
