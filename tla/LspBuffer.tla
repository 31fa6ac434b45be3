----------------------------- MODULE LspBuffer ------------------------------
(***************************************************************************)
(* The packet buffer of lsp_buffer.c: one descriptor, its block of bytes   *)
(* and the pointers into it, which are offsets from buff->head here.       *)
(* Lengths are of size_t and wrap.  Between two calls the caller fills the *)
(* bytes that a put or a push gave it: the action of the call does that    *)
(* too.                                                                    *)
(***************************************************************************)
EXTENDS Integers

CONSTANTS
  Byte,
  Headrooms,     \* the header lengths of interfaces, and the default
  Lengths,       \* the lengths that callers pass
  Modulus        \* 2^w for a size_t of w bits

ASSUME ModulusAssumption == Modulus \in Nat \ {0}
ASSUME LengthAssumption ==
  /\ Lengths \subseteq 0 .. Modulus - 1
  /\ Headrooms \subseteq 0 .. Modulus - 1

(* The lengths a buffer is asked for: lsp_buffer_alloc adds them up and    *)
(* does not see the sum wrap.                                              *)
Sizes(h) == {l \in Lengths : h + l < Modulus}

VARIABLES
  allocated,             \* lsp_buffer_alloc has returned this buffer
  mem,                   \* the block
  data, tail, end,       \* offsets from buff->head
  headroom, tailroom

pointers == <<data, tail, end>>
vars     == <<allocated, mem, pointers, headroom, tailroom>>

Wrap(x)   == x % Modulus
Block     == 0 .. end - 1

(* No buffer: nothing is in it.                                            *)
Init ==
  /\ allocated = FALSE
  /\ mem \in [0 .. -1 -> Byte]
  /\ data = 0 /\ tail = 0 /\ end = 0
  /\ headroom = 0 /\ tailroom = 0

(* The block is not cleared.  When lsp_malloc fails nothing changes.       *)
Alloc(h, len) ==
  /\ ~allocated
  /\ allocated' = TRUE
  /\ data' = h /\ tail' = h
  /\ end' = Wrap(len + h)
  /\ mem' \in [0 .. end' - 1 -> Byte]
  /\ headroom' = h /\ tailroom' = len

(* The caller writes the bytes from first to last.                         *)
Fill(first, last) ==
  \E bs \in [first .. last -> Byte] :
    mem' = [a \in DOMAIN mem |-> IF a \in first .. last THEN bs[a] ELSE mem[a]]

(* Mutant: the room left is compared with the whole buffer.                *)
PutOver(len) ==
  /\ allocated /\ end - data >= len
  /\ tailroom' = Wrap(tailroom - len)
  /\ tail' = tail + len
  /\ Fill(tail, tail' - 1)
  /\ UNCHANGED <<allocated, data, end, headroom>>

Put(len) ==
  /\ allocated
  /\ tailroom >= len
  /\ tailroom' = Wrap(tailroom - len)
  /\ tail' = tail + len
  /\ Fill(tail, tail' - 1)
  /\ UNCHANGED <<allocated, data, end, headroom>>

(* Mutant: the room of a push is not checked.                              *)
PushOver(len) ==
  /\ allocated
  /\ headroom' = Wrap(headroom - len)
  /\ data' = data - len
  /\ Fill(data', data - 1)
  /\ UNCHANGED <<allocated, tail, end, tailroom>>

(* Mutant: as in put, the pointer returned is the one before it moves.     *)
PushStale(len) ==
  /\ allocated
  /\ headroom >= len
  /\ headroom' = Wrap(headroom - len)
  /\ data' = data - len
  /\ Fill(data, data + len - 1)
  /\ UNCHANGED <<allocated, tail, end, tailroom>>

Push(len) ==
  /\ allocated
  /\ headroom >= len
  /\ headroom' = Wrap(headroom - len)
  /\ data' = data - len
  /\ Fill(data', data - 1)
  /\ UNCHANGED <<allocated, tail, end, tailroom>>

(* A longer pull is clipped to what is there.                              *)
Clip(len) == IF Wrap(tail - data) < len THEN tail - data ELSE len

(* The condition of tailroom and tail never holds after the clip.          *)
Pull(len) ==
  /\ allocated
  /\ data' = data + Clip(len)
  /\ headroom' = Wrap(headroom + Clip(len))
  /\ tailroom' = IF data' > tail THEN Wrap(tailroom - (data' - tail))
                 ELSE tailroom
  /\ tail' = IF data' > tail THEN data' ELSE tail
  /\ UNCHANGED <<allocated, mem, end>>

Free ==
  /\ allocated
  /\ allocated' = FALSE
  /\ mem' \in [0 .. -1 -> Byte]
  /\ data' = 0 /\ tail' = 0 /\ end' = 0
  /\ headroom' = 0 /\ tailroom' = 0

Next ==
  \/ \E h \in Headrooms : \E len \in Sizes(h) : Alloc(h, len)
  \/ \E len \in Lengths : Put(len) \/ Push(len) \/ Pull(len)
  \/ Free

Spec == Init /\ [][Next]_vars

-----------------------------------------------------------------------------

TypeOK ==
  /\ allocated \in BOOLEAN
  /\ data \in Nat /\ tail \in Nat /\ end \in Nat
  /\ mem \in [Block -> Byte]
  /\ headroom \in 0 .. Modulus - 1 /\ tailroom \in 0 .. Modulus - 1

(* The pointers stay in order inside the block, and the two rooms, which   *)
(* are kept beside them and never recomputed, are the distances between    *)
(* them: whatever lengths put, push and pull are called with.              *)
Layout ==
  /\ data <= tail /\ tail <= end
  /\ headroom = data
  /\ tailroom = end - tail
  /\ end < Modulus

(* The buffer implements the double-ended sequence: no call moves, loses   *)
(* or overwrites a byte that is in it.                                     *)
Deque == INSTANCE ByteDeque WITH
           open   <- allocated,
           length <- tail - data,
           bytes  <- [i \in 1 .. tail - data |-> mem[data + i - 1]],
           front  <- headroom,
           back   <- tailroom

DequeSpec == Deque!Spec
=============================================================================
