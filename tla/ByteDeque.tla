----------------------------- MODULE ByteDeque ------------------------------
(***************************************************************************)
(* What lsp_buffer.c makes of a packet buffer: a sequence of bytes that    *)
(* grows at both ends within the room it was given, and shrinks at the     *)
(* front.  The bytes that are added are the caller's, those that stay keep *)
(* their order.                                                            *)
(*                                                                         *)
(* lsp_buffer.h says otherwise of a pull: that it may remove more than     *)
(* there is, and then "adjusts tail".  The code does not do that, nor does *)
(* this: no pull moves the back (LspBufferProofs!TailKept).                *)
(***************************************************************************)
EXTENDS Integers

CONSTANTS Byte

VARIABLES
  open,            \* there is a buffer
  length, bytes,   \* its contents
  front, back      \* the room left at either end

vars == <<open, length, bytes, front, back>>

Empty == length = 0 /\ bytes \in [1 .. 0 -> Byte] /\ front \in Nat /\ back \in Nat

Init == ~open /\ Empty

Open  == ~open /\ open' /\ Empty'
Close == open /\ ~open' /\ Empty'

Put(n) ==
  /\ open
  /\ length' = length + n
  /\ bytes' \in [1 .. length' -> Byte]
  /\ \A i \in 1 .. length : bytes'[i] = bytes[i]
  /\ back' = back - n
  /\ UNCHANGED <<open, front>>

Push(n) ==
  /\ open
  /\ length' = length + n
  /\ bytes' \in [1 .. length' -> Byte]
  /\ \A i \in 1 .. length : bytes'[n + i] = bytes[i]
  /\ front' = front - n
  /\ UNCHANGED <<open, back>>

(* Bytes are removed as far as there are any; they leave their room at the *)
(* front.                                                                  *)
Pull(n) ==
  /\ open
  /\ length' = length - n
  /\ bytes' = [i \in 1 .. length' |-> bytes[n + i]]
  /\ front' = front + n
  /\ UNCHANGED <<open, back>>

Next ==
  \/ Open \/ Close
  \/ \E n \in 0 .. back : Put(n)
  \/ \E n \in 0 .. front : Push(n)
  \/ \E n \in 0 .. length : Pull(n)

Spec == Init /\ [][Next]_vars
=============================================================================
