-------------------------- MODULE LspBufferProofs ---------------------------
(***************************************************************************)
(* What holds of LspBuffer for every width of size_t, every length and     *)
(* every headroom.                                                         *)
(***************************************************************************)
EXTENDS LspBuffer, TLAPS

Inv == TypeOK /\ Layout

(* Arithmetic that does not leave the range of size_t does not wrap.       *)
LEMMA WrapSmall == \A x \in 0 .. Modulus - 1 : Wrap(x) = x
  BY ModulusAssumption DEF Wrap

(* What a caller writes stays inside the block.                            *)
LEMMA FillBlock ==
  ASSUME mem \in [Block -> Byte], end \in Nat, end' = end,
         NEW p \in Int, NEW q \in Int, Fill(p, q)
  PROVE  mem' \in [Block -> Byte]'
<1>1. PICK bs \in [p .. q -> Byte] :
        mem' = [a \in DOMAIN mem |-> IF a \in p .. q THEN bs[a] ELSE mem[a]]
  BY DEF Fill
<1> QED BY <1>1 DEF Block

(* A pull takes no more than there is.                                     *)
LEMMA ClipBound ==
  ASSUME Inv, NEW len \in Lengths
  PROVE  Clip(len) \in 0 .. tail - data
<1>1. Wrap(tail - data) = tail - data
  BY WrapSmall, ModulusAssumption DEF Inv, TypeOK, Layout
<1> QED BY <1>1, LengthAssumption, ModulusAssumption DEF Clip, Inv, TypeOK, Layout

(* No buffer has no bytes.                                                 *)
LEMMA InvInit == Init => Inv
<1> SUFFICES ASSUME Init PROVE Inv
  OBVIOUS
<1>1. mem \in [Block -> Byte]
  BY DEF Init, Block
<1>2. allocated \in BOOLEAN
  BY DEF Init
<1>3. data = 0 /\ tail = 0 /\ end = 0 /\ headroom = 0 /\ tailroom = 0
  BY DEF Init
<1> QED BY <1>1, <1>2, <1>3, ModulusAssumption DEF Inv, TypeOK, Layout

(* A put uses up the room at the back.                                     *)
LEMMA PutStep ==
  ASSUME Inv, NEW len \in Lengths, Put(len)
  PROVE  /\ Inv' /\ end' = end /\ data' = data /\ tail' = tail + len
         /\ tailroom' = tailroom - len /\ headroom' = headroom
<1> USE LengthAssumption, ModulusAssumption DEF Inv, TypeOK, Layout, Put
<1>1. tailroom' = tailroom - len
  BY WrapSmall
<1>2. mem' \in [Block -> Byte]'
  BY FillBlock
<1> QED BY <1>1, <1>2

(* A push uses up the room at the front.                                   *)
LEMMA PushStep ==
  ASSUME Inv, NEW len \in Lengths, Push(len)
  PROVE  /\ Inv' /\ end' = end /\ tail' = tail /\ data' = data - len
         /\ headroom' = headroom - len /\ tailroom' = tailroom
<1> USE LengthAssumption, ModulusAssumption DEF Inv, TypeOK, Layout, Push
<1>1. headroom' = headroom - len
  BY WrapSmall
<1>2. mem' \in [Block -> Byte]'
  BY FillBlock
<1> QED BY <1>1, <1>2

(* A pull gives what it takes to the room at the front, and never moves    *)
(* the tail.                                                               *)
LEMMA PullStep ==
  ASSUME Inv, NEW len \in Lengths, Pull(len)
  PROVE  /\ Inv' /\ mem' = mem /\ tail' = tail /\ data' = data + Clip(len)
         /\ headroom' = headroom + Clip(len) /\ tailroom' = tailroom
<1>1. Clip(len) \in 0 .. tail - data
  BY ClipBound
<1>2. data' = data + Clip(len) /\ ~(data' > tail)
  BY <1>1 DEF Pull, Inv, TypeOK
<1>3. tail' = tail /\ tailroom' = tailroom /\ mem' = mem /\ end' = end
  BY <1>2 DEF Pull
<1>4. headroom' = headroom + Clip(len)
  <2>1. headroom + Clip(len) \in 0 .. Modulus - 1
    BY <1>1, ModulusAssumption DEF Inv, TypeOK, Layout
  <2> QED BY <2>1, WrapSmall DEF Pull
<1> QED BY <1>1, <1>2, <1>3, <1>4, ModulusAssumption
        DEF Pull, Inv, TypeOK, Layout, Block

(* A new buffer is laid out.                                               *)
LEMMA AllocStep ==
  ASSUME Inv, NEW h \in Headrooms, NEW len \in Sizes(h), Alloc(h, len)
  PROVE  Inv'
<1>1. h \in Nat /\ len \in Nat /\ len + h \in 0 .. Modulus - 1
  BY LengthAssumption, ModulusAssumption DEF Sizes
<1>2. end' = len + h
  BY <1>1, WrapSmall DEF Alloc
<1> QED BY <1>1, <1>2, ModulusAssumption DEF Alloc, Inv, TypeOK, Layout, Block

(* Freeing leaves nothing laid out.                                        *)
LEMMA FreeStep == ASSUME Inv, Free PROVE Inv'
<1>1. mem' \in [Block -> Byte]'
  BY DEF Free, Block
<1>2. allocated' \in BOOLEAN
  BY DEF Free
<1>3. /\ data' = 0 /\ tail' = 0 /\ end' = 0
      /\ headroom' = 0 /\ tailroom' = 0
  BY DEF Free
<1> QED BY <1>1, <1>2, <1>3, ModulusAssumption DEF Inv, TypeOK, Layout

(* Every step keeps the layout.                                            *)
LEMMA InvStep == Inv /\ [Next]_vars => Inv'
<1> SUFFICES ASSUME Inv, [Next]_vars PROVE Inv'
  OBVIOUS
<1>1. ASSUME NEW h \in Headrooms, NEW len \in Sizes(h), Alloc(h, len)
      PROVE  Inv'
  BY <1>1, AllocStep
<1>2. ASSUME NEW len \in Lengths, Put(len) \/ Push(len) \/ Pull(len)
      PROVE  Inv'
  BY <1>2, PutStep, PushStep, PullStep
<1>3. CASE Free
  BY <1>3, FreeStep
<1>4. CASE UNCHANGED vars
  BY <1>4 DEF vars, pointers, Inv, TypeOK, Layout, Block
<1> QED BY <1>1, <1>2, <1>3, <1>4 DEF Next

(* Pointers and rooms agree and stay in the block, whatever the lengths.   *)
THEOREM LayoutCorrect == Spec => [](TypeOK /\ Layout)
<1>1. Spec => []Inv
  BY InvInit, InvStep, PTL DEF Spec
<1> QED BY <1>1, PTL DEF Inv

(* The pointers stay naturals and the rooms values of size_t: a difference *)
(* of lengths never comes out below zero.                                  *)
THEOREM TypeCorrect == Spec => []TypeOK
BY LayoutCorrect, PTL

(* No pull moves the tail, whatever its length, for every width of size_t: *)
(* the lines of lsp_buffer_pull that would adjust it never run.            *)
THEOREM TailKept ==
  Spec => [][\A len \in Lengths : Pull(len) => UNCHANGED <<tail, tailroom>>]_vars
<1>1. Spec => []Inv
  BY InvInit, InvStep, PTL DEF Spec
<1>2. Inv => \A len \in Lengths : Pull(len) => UNCHANGED <<tail, tailroom>>
  BY PullStep
<1> QED BY <1>1, <1>2, PTL

-----------------------------------------------------------------------------

(* What the abstraction calls bytes.                                       *)
Bytes == [i \in 1 .. tail - data |-> mem[data + i - 1]]

(* The contents lie in the block after a step.                             *)
LEMMA BytesType == ASSUME Inv' PROVE Bytes' \in [1 .. tail' - data' -> Byte]
<1>1. mem' \in [0 .. end' - 1 -> Byte]
  BY DEF Inv, TypeOK, Block
<1>2. data' \in Nat /\ tail' \in Nat /\ end' \in Nat /\ tail' <= end'
  BY DEF Inv, TypeOK, Layout
<1>3. ASSUME NEW i \in 1 .. tail' - data' PROVE mem'[data' + i - 1] \in Byte
  <2> DEFINE d == data'  t == tail'  e == end'
  <2> d \in Nat /\ t \in Nat /\ e \in Nat /\ t <= e /\ i \in 1 .. t - d
    BY <1>2
  <2> HIDE DEF d, t, e
  <2>1. d + i - 1 \in 0 .. e - 1
    OBVIOUS
  <2> QED BY <1>1, <2>1 DEF d, e
<1> QED BY <1>3 DEF Bytes

(* A fill leaves the bytes outside it alone.                               *)
LEMMA FillFrame ==
  ASSUME mem \in [Block -> Byte], NEW p \in Int, NEW q \in Int, Fill(p, q),
         NEW a \in Block, ~(a \in p .. q)
  PROVE  mem'[a] = mem[a]
  BY DEF Fill

(* A put appends.                                                          *)
LEMMA DequePut ==
  ASSUME Inv, NEW len \in Lengths, Put(len)
  PROVE  len \in 0 .. tailroom /\ Deque!Put(len)
<1>1. /\ Inv' /\ end' = end /\ data' = data /\ tail' = tail + len
      /\ tailroom' = tailroom - len /\ headroom' = headroom
  BY PutStep
<1>2. len \in Nat /\ len <= tailroom
  BY LengthAssumption, ModulusAssumption DEF Put, Inv, TypeOK
<1>3. Bytes' \in [1 .. tail' - data' -> Byte]
  BY <1>1, BytesType
<1>4. ASSUME NEW i \in 1 .. tail - data PROVE Bytes'[i] = Bytes[i]
  <2>1. data + i - 1 \in Block /\ ~(data + i - 1 \in tail .. tail' - 1)
    BY DEF Inv, TypeOK, Layout, Block
  <2>2. mem'[data + i - 1] = mem[data + i - 1]
    BY <1>1, <2>1, FillFrame DEF Put, Inv, TypeOK
  <2>3. i \in 1 .. tail' - data'
    BY <1>1, <1>2 DEF Inv, TypeOK
  <2> QED BY <1>1, <2>2, <2>3 DEF Bytes
<1>5. tail' - data' = (tail - data) + len
  BY <1>1, <1>2 DEF Inv, TypeOK
<1>6. allocated /\ allocated' = allocated
  BY DEF Put
<1>7. /\ allocated /\ (tail - data)' = tail - data + len
      /\ tailroom' = tailroom - len /\ UNCHANGED <<allocated, headroom>>
  BY <1>1, <1>5, <1>6
<1>8. Deque!Put(len)
  BY <1>3, <1>4, <1>7, Zenon DEF Deque!Put, Bytes
<1>9. len \in 0 .. tailroom
  BY <1>2 DEF Inv, TypeOK
<1> QED BY <1>8, <1>9

(* A push prepends.                                                        *)
LEMMA DequePush ==
  ASSUME Inv, NEW len \in Lengths, Push(len)
  PROVE  len \in 0 .. headroom /\ Deque!Push(len)
<1>1. /\ Inv' /\ end' = end /\ tail' = tail /\ data' = data - len
      /\ headroom' = headroom - len /\ tailroom' = tailroom
  BY PushStep
<1>2. len \in Nat /\ len <= headroom
  BY LengthAssumption, ModulusAssumption DEF Push, Inv, TypeOK
<1>3. Bytes' \in [1 .. tail' - data' -> Byte]
  BY <1>1, BytesType
<1>4. ASSUME NEW i \in 1 .. tail - data PROVE Bytes'[len + i] = Bytes[i]
  <2>1. data + i - 1 \in Block /\ ~(data + i - 1 \in data' .. data - 1)
    BY DEF Inv, TypeOK, Layout, Block
  <2>2. mem'[data + i - 1] = mem[data + i - 1]
    BY <1>1, <2>1, FillFrame DEF Push, Inv, TypeOK
  <2>3. len + i \in 1 .. tail' - data' /\ data' + (len + i) - 1 = data + i - 1
    BY <1>1, <1>2 DEF Inv, TypeOK
  <2> QED BY <2>2, <2>3 DEF Bytes
<1>5. tail' - data' = (tail - data) + len
  BY <1>1, <1>2 DEF Inv, TypeOK
<1>6. allocated /\ allocated' = allocated
  BY DEF Push
<1>7. /\ allocated /\ (tail - data)' = tail - data + len
      /\ headroom' = headroom - len /\ UNCHANGED <<allocated, tailroom>>
  BY <1>1, <1>5, <1>6
<1>8. Deque!Push(len)
  BY <1>3, <1>4, <1>7, Zenon DEF Deque!Push, Bytes
<1>9. len \in 0 .. headroom
  BY <1>2 DEF Inv, TypeOK
<1> QED BY <1>8, <1>9

(* A pull removes from the front what it is asked, or all there is.        *)
LEMMA DequePull ==
  ASSUME Inv, NEW len \in Lengths, Pull(len)
  PROVE  \E n \in 0 .. tail - data : Deque!Pull(n)
<1>1. PICK n \in 0 .. tail - data : n = Clip(len)
  BY ClipBound
<1>2. /\ Inv' /\ mem' = mem /\ tail' = tail /\ data' = data + n
      /\ headroom' = headroom + n /\ tailroom' = tailroom
  BY <1>1, PullStep
<1>3. tail' - data' = (tail - data) - n
  BY <1>2 DEF Inv, TypeOK
<1>4. ASSUME NEW i \in 1 .. tail' - data'
      PROVE  mem'[data' + i - 1] = Bytes[n + i]
  <2>1. n + i \in 1 .. tail - data /\ data + (n + i) - 1 = data' + i - 1
    BY <1>2, <1>3 DEF Inv, TypeOK
  <2> QED BY <1>2, <2>1 DEF Bytes
<1>5. Bytes' = [i \in 1 .. tail' - data' |-> Bytes[n + i]]
  BY <1>4 DEF Bytes
<1>6. allocated /\ allocated' = allocated
  BY DEF Pull
<1>7. Deque!Pull(n)
  BY <1>2, <1>3, <1>5, <1>6 DEF Deque!Pull, Bytes
<1> QED BY <1>7

(* No buffer, and a new one, hold no bytes.                                *)
LEMMA DequeEmpty ==
  /\ Inv /\ data = tail => Deque!Empty
  /\ Inv' /\ data' = tail' => Deque!Empty'
<1>1. ASSUME Inv, data = tail PROVE Deque!Empty
  <2>1. tail - data = 0 /\ headroom \in Nat /\ tailroom \in Nat
    BY <1>1, ModulusAssumption DEF Inv, TypeOK, Layout
  <2>2. [i \in 1 .. tail - data |-> mem[data + i - 1]] \in [1 .. 0 -> Byte]
    BY <2>1
  <2> QED BY <2>1, <2>2 DEF Deque!Empty
<1>2. ASSUME Inv', data' = tail' PROVE Deque!Empty'
  <2>1. tail' - data' = 0 /\ headroom' \in Nat /\ tailroom' \in Nat
    <3>1. data' \in Nat /\ tail' \in Nat
      BY <1>2 DEF Inv, TypeOK
    <3>2. headroom' \in 0 .. Modulus - 1 /\ tailroom' \in 0 .. Modulus - 1
      BY <1>2 DEF Inv, TypeOK
    <3>3. tail' - data' = 0
      <4> DEFINE d == data'  t == tail'
      <4> d \in Nat /\ t \in Nat /\ d = t
        BY <1>2, <3>1
      <4> HIDE DEF d, t
      <4>1. t - d = 0
        OBVIOUS
      <4> QED BY <4>1 DEF d, t
    <3> QED BY <3>2, <3>3, ModulusAssumption
  <2>2. [i \in 1 .. tail' - data' |-> mem'[data' + i - 1]] \in [1 .. 0 -> Byte]
    BY <2>1
  <2> QED BY <2>1, <2>2 DEF Deque!Empty
<1> QED BY <1>1, <1>2

(* Every step of the buffer is one of the sequence, or a stutter.          *)
LEMMA DequeStep == Inv /\ [Next]_vars => [Deque!Next]_(Deque!vars)
<1> SUFFICES ASSUME Inv, [Next]_vars PROVE [Deque!Next]_(Deque!vars)
  OBVIOUS
<1>1. ASSUME NEW h \in Headrooms, NEW len \in Sizes(h), Alloc(h, len)
      PROVE  Deque!Next
  <2>1. Inv' /\ data' = tail'
    BY <1>1, AllocStep DEF Alloc
  <2>2. ~allocated /\ allocated'
    BY <1>1 DEF Alloc
  <2>3. Deque!Empty'
    BY <2>1, DequeEmpty
  <2>4. Deque!Open
    BY <2>2, <2>3 DEF Deque!Open
  <2> QED BY <2>4 DEF Deque!Next
<1>2. ASSUME NEW len \in Lengths, Put(len) PROVE Deque!Next
  BY <1>2, DequePut DEF Deque!Next
<1>3. ASSUME NEW len \in Lengths, Push(len) PROVE Deque!Next
  BY <1>3, DequePush DEF Deque!Next
<1>4. ASSUME NEW len \in Lengths, Pull(len) PROVE Deque!Next
  BY <1>4, DequePull DEF Deque!Next
<1>5. CASE Free
  <2>1. Inv' /\ data' = tail'
    BY <1>5, FreeStep DEF Free
  <2>2. allocated /\ ~allocated'
    BY <1>5 DEF Free
  <2>3. Deque!Empty'
    BY <2>1, DequeEmpty
  <2>4. Deque!Close
    BY <2>2, <2>3 DEF Deque!Close
  <2> QED BY <2>4 DEF Deque!Next
<1>6. CASE UNCHANGED vars
  BY <1>6 DEF vars, pointers, Deque!vars
<1> QED BY <1>1, <1>2, <1>3, <1>4, <1>5, <1>6 DEF Next

(* lsp_buffer.c implements the double-ended sequence of bytes, for every   *)
(* width of size_t: no call moves, loses or overwrites a byte in it.       *)
THEOREM DequeCorrect == Spec => DequeSpec
<1>1. Spec => []Inv
  BY InvInit, InvStep, PTL DEF Spec
<1>2. Init => Deque!Init
  <2>1. Init => Inv /\ data = tail /\ ~allocated
    BY InvInit DEF Init
  <2> QED BY <2>1, DequeEmpty DEF Deque!Init
<1> QED BY <1>1, <1>2, DequeStep, PTL DEF Spec, DequeSpec, Deque!Spec
=============================================================================
