--------------------------- MODULE LspQueueProofs ---------------------------
(***************************************************************************)
(* What holds of LspQueue for every number of threads, every queue size    *)
(* and every set of timeouts.                                              *)
(***************************************************************************)
EXTENDS LspQueue, FiniteSetTheorems, SequenceTheorems, TLAPS

USE DEF At

(* The codes that the model compares are distinct.                         *)
LEMMA CodesDistinct ==
  /\ LSP_ERR_TIMEOUT # LSP_ERR_NONE /\ LSP_ERR_INVALID # LSP_ERR_NONE
  /\ LSP_ERR_MUTEX # LSP_ERR_NONE
  /\ LSP_ERR_QUEUE_FULL # LSP_ERR_NONE /\ LSP_ERR_QUEUE_EMPTY # LSP_ERR_NONE
  /\ LSP_ERR_RESOURCE_IN_USE = LSP_ERR_INVALID
  BY DEF LSP_ERR_NONE, LSP_ERR_TIMEOUT, LSP_ERR_INVALID, LSP_ERR_MUTEX,
         LSP_ERR_QUEUE_FULL, LSP_ERR_QUEUE_EMPTY, LSP_ERR_RESOURCE_IN_USE

(* Advancing an index of the ring leaves it inside the ring.               *)
LEMMA NextIndexInSlots == ASSUME NEW i \in Slots PROVE NextIndex(i) \in Slots
  BY QueueSizeAssumption DEF Slots, NextIndex

(* The timeouts passed are timeouts.                                       *)
LEMMA TimeoutTypes ==
  /\ LSP_TIMEOUT_MAX \in Timeouts /\ NoTimeout \in Timeouts
  /\ FiniteTimeout \in Timeouts
  /\ PushTimeouts \subseteq Timeouts /\ PopTimeouts \subseteq Timeouts
  BY TimeoutAssumption DEF Timeouts

-----------------------------------------------------------------------------

(* A created queue has the shape TypeOK.                                   *)
LEMMA TypeInit == Init => TypeOK
  BY QueueSizeAssumption, TimeoutTypes DEF Init, TypeOK, Slots, Holding

(* Every step keeps that shape.                                            *)
LEMMA TypeStep == TypeOK /\ [Next]_vars => TypeOK'
<1> SUFFICES ASSUME TypeOK, [Next]_vars PROVE TypeOK'
  OBVIOUS
<1> USE DEF TypeOK, Holding, Asleep, ring, frame
<1>1. ASSUME NEW t \in Thread, Call(t) PROVE TypeOK'
  <2>1. CASE CallPush(t)
    BY <2>1, TimeoutTypes DEF CallPush, Begin
  <2>2. CASE CallPop(t)
    BY <2>2, TimeoutTypes DEF CallPop, Begin
  <2>3. CASE CallClear(t) \/ CallDestroy(t)
    BY <2>3, TimeoutTypes, CodesDistinct DEF CallClear, CallDestroy, Guarded
  <2> QED BY <1>1, <2>1, <2>2, <2>3 DEF Call
<1>2. ASSUME NEW t \in Thread, Proceed(t) PROVE TypeOK'
  <2>1. CASE Probe(t)
    BY <2>1, CodesDistinct DEF Probe
  <2>2. CASE Lock(t) \/ Unlock(t)
    BY <2>2 DEF Lock, Unlock
  <2>3. CASE Reacquire(t) \/ Refused(t)
    BY <2>3 DEF Reacquire, Refused, Count
  <2>4. CASE PushCheck(t)
    BY <2>4, TimeoutTypes DEF PushCheck, Check, Wait, Sleep, Count
  <2>5. CASE PopCheck(t)
    BY <2>5, TimeoutTypes DEF PopCheck, Check, Wait, Sleep, Count
  <2>6. CASE PushTransfer(t)
    BY <2>6, NextIndexInSlots DEF PushTransfer, Signal, CondEmpty
  <2>7. CASE PopTransfer(t)
    BY <2>7, NextIndexInSlots DEF PopTransfer, Signal, CondFull
  <2>8. CASE Clear(t)
    BY <2>8, QueueSizeAssumption DEF Clear, Slots
  <2>9. CASE Destroy(t)
    BY <2>9 DEF Destroy
  <2> QED BY <1>2, <2>1, <2>2, <2>3, <2>4, <2>5, <2>6, <2>7, <2>8, <2>9
      DEF Proceed
<1>3. ASSUME NEW t \in Thread, Disturb(t) PROVE TypeOK'
  BY <1>3 DEF Disturb, LockFail, WaitTimeout, SpuriousWakeup
<1>4. CASE UNCHANGED vars
  BY <1>4 DEF vars
<1> QED BY <1>1, <1>2, <1>3, <1>4 DEF Next

(* Every index of lsp_queue_push and lsp_queue_pop stays inside the block  *)
(* that lsp_queue_create allocates, whoever calls what.                    *)
THEOREM TypeCorrect == Spec => []TypeOK
  BY TypeInit, TypeStep, PTL DEF Spec

-----------------------------------------------------------------------------
(* The mutex.                                                              *)

LEMMA MutexInit == Init => MutualExclusion
  BY ThreadAssumption DEF Init, MutualExclusion, Holding

(* Every step keeps the mutex with the one thread that holds it.           *)
LEMMA MutexStep ==
  TypeOK /\ MutualExclusion /\ [Next]_vars => MutualExclusion'
<1> SUFFICES ASSUME TypeOK, MutualExclusion, [Next]_vars
             PROVE  MutualExclusion'
  OBVIOUS
<1> USE ThreadAssumption DEF TypeOK, MutualExclusion, Holding, Asleep
<1>1. ASSUME NEW t \in Thread, Call(t) PROVE MutualExclusion'
  BY <1>1 DEF Call, CallPush, CallPop, CallClear, CallDestroy, Begin, Guarded
<1>2. ASSUME NEW t \in Thread, Proceed(t) PROVE MutualExclusion'
  <2>1. CASE Probe(t) \/ Destroy(t) \/ Clear(t)
    BY <2>1 DEF Probe, Destroy, Clear
  <2>2. CASE Lock(t) \/ Unlock(t) \/ Refused(t) \/ Reacquire(t)
    BY <2>2 DEF Lock, Unlock, Refused, Reacquire
  <2>3. CASE PushCheck(t) \/ PopCheck(t)
    BY <2>3 DEF PushCheck, PopCheck, Check, Wait, Sleep, Count
  <2>4. CASE PushTransfer(t) \/ PopTransfer(t)
    BY <2>4 DEF PushTransfer, PopTransfer, Signal, CondEmpty, CondFull
  <2> QED BY <1>2, <2>1, <2>2, <2>3, <2>4 DEF Proceed
<1>3. ASSUME NEW t \in Thread, Disturb(t) PROVE MutualExclusion'
  BY <1>3 DEF Disturb, LockFail, WaitTimeout, SpuriousWakeup
<1>4. CASE UNCHANGED vars
  BY <1>4 DEF vars
<1> QED BY <1>1, <1>2, <1>3, <1>4 DEF Next

(* hdl->mutex is owned by the one thread between lock and unlock.          *)
THEOREM MutexCorrect == Spec => []MutualExclusion
  BY TypeInit, TypeStep, MutexInit, MutexStep, PTL DEF Spec

-----------------------------------------------------------------------------
(* The bounds of the ring, in safe use.                                    *)

(* What makes InBounds inductive.  A thread keeps the role of its call; a  *)
(* thread that sleeps is of a side whose calls may sleep; length cannot    *)
(* leave the end at which a thread sleeps, nor the room a wake-up promised *)
(* disappear, before that thread has moved its item.                       *)
Room(t) == /\ op[t] = "push" => length < QueueSize
           /\ op[t] = "pop" => length > 0

Roles == \A t \in Thread :
  /\ op[t] \notin {"clear", "destroy"}
  /\ op[t] = "push" => t \in Producers
  /\ op[t] = "pop" => t \in Consumers
  /\ pc[t] \in {"lock", "check", "refused", "wait", "woken", "transfer"}
       => op[t] \in {"push", "pop"}
  /\ pc[t] \notin {"probe", "clear", "destroy"}

MaySleep == \A t \in Thread :
  /\ pc[t] \in {"lock", "check"} =>
       /\ op[t] = "push" => timeout[t] \in PushTimeouts
       /\ op[t] = "pop" => timeout[t] \in PopTimeouts
  /\ pc[t] \in Asleep =>
       /\ op[t] = "push" => ~(PushTimeouts \subseteq {NoTimeout})
       /\ op[t] = "pop" => ~(PopTimeouts \subseteq {NoTimeout})

Promises == \A t \in Thread :
  /\ pc[t] = "transfer" => Room(t)
  /\ pc[t] = "woken" /\ rc[t] = LSP_ERR_NONE => Room(t)
  /\ pc[t] = "wait" => /\ rc[t] = LSP_ERR_NONE
                       /\ op[t] = "push" => length = QueueSize
                       /\ op[t] = "pop" => length = 0
  /\ pc[t] \in {"lock", "check"} => rc[t] = LSP_ERR_NONE

BoundInv == length \in 0 .. QueueSize /\ Roles /\ MaySleep /\ Promises

(* A created queue is within bounds.                                       *)
LEMMA BoundInit == Init => BoundInv
  BY QueueSizeAssumption
  DEF Init, BoundInv, Roles, MaySleep, Promises, Asleep

(* In the uses of SafeUse every step keeps it within bounds.               *)
LEMMA BoundStep ==
  ASSUME SafeUse, TypeOK, MutualExclusion, BoundInv, [Next]_vars
  PROVE  BoundInv'
<1> USE QueueSizeAssumption, CodesDistinct
    DEF TypeOK, Holding, Asleep, ring, frame, BoundInv, Roles, MaySleep,
        Promises, Room
<1>1. ASSUME NEW t \in Thread, Call(t) PROVE BoundInv'
  <2>1. ~CallClear(t) /\ ~CallDestroy(t)
    BY DEF CallClear, CallDestroy, SafeUse
  <2>2. CASE CallPush(t)
    BY <2>2 DEF CallPush, Begin
  <2>3. CASE CallPop(t)
    BY <2>3 DEF CallPop, Begin
  <2> QED BY <1>1, <2>1, <2>2, <2>3 DEF Call
<1>2. ASSUME NEW t \in Thread, Proceed(t) PROVE BoundInv'
  <2>1. ~Probe(t) /\ ~Clear(t) /\ ~Destroy(t)
    BY DEF Probe, Clear, Destroy
  <2>2. CASE Lock(t)
    BY <2>2 DEF Lock
  <2>3. CASE Unlock(t)
    BY <2>3 DEF Unlock
  <2>4. CASE Reacquire(t) \/ Refused(t)
    BY <2>4 DEF Reacquire, Refused
  <2>5. CASE PushCheck(t)
    BY <2>5, TimeoutTypes DEF PushCheck, Check, Wait, Sleep, Count, IsFull
  <2>6. CASE PopCheck(t)
    BY <2>6, TimeoutTypes DEF PopCheck, Check, Wait, Sleep, Count, IsEmpty
  <2>7. CASE PushTransfer(t)
    BY <2>7 DEF PushTransfer, Signal, CondEmpty, SafeUse, MutualExclusion
  <2>8. CASE PopTransfer(t)
    BY <2>8 DEF PopTransfer, Signal, CondFull, SafeUse, MutualExclusion
  <2> QED BY <1>2, <2>1, <2>2, <2>3, <2>4, <2>5, <2>6, <2>7, <2>8
      DEF Proceed
<1>3. ASSUME NEW t \in Thread, Disturb(t) PROVE BoundInv'
  <2>1. ~SpuriousWakeup(t)
    BY DEF SpuriousWakeup, SafeUse
  <2>2. CASE LockFail(t)
    BY <2>2 DEF LockFail
  <2>3. CASE WaitTimeout(t)
    BY <2>3 DEF WaitTimeout
  <2> QED BY <1>3, <2>1, <2>2, <2>3 DEF Disturb
<1>4. CASE UNCHANGED vars
  BY <1>4 DEF vars
<1> QED BY <1>1, <1>2, <1>3, <1>4 DEF Next

(* Hence it stays there.                                                   *)
LEMMA BoundCorrect == ASSUME SafeUse PROVE Spec => []BoundInv
<1>1. TypeOK /\ MutualExclusion /\ BoundInv /\ [Next]_vars => BoundInv'
  BY BoundStep
<1> QED BY <1>1, BoundInit, TypeCorrect, MutexCorrect, PTL DEF Spec

(* In safe use lsp_queue_push never overwrites an item that has not been   *)
(* popped, and lsp_queue_pop never reads a slot that holds none.           *)
THEOREM BoundsCorrect == ASSUME SafeUse PROVE Spec => []InBounds
<1>1. BoundInv => InBounds
  BY DEF BoundInv, Promises, Room, InBounds
<1> QED BY <1>1, BoundCorrect, PTL

(* In safe use no producer sleeps on cond_full while a slot is free, but   *)
(* for the slots that producers already awake are about to take.           *)
THEOREM FullWakeupCorrect ==
  ASSUME SafeUse PROVE Spec => []NoLostFullWakeup
<1>1. Entitled("push") \subseteq Thread /\ IsFiniteSet(Entitled("push"))
  BY ThreadAssumption, FS_Subset DEF Entitled
<1>2. Cardinality(Entitled("push")) \in Nat
  BY <1>1, FS_CardinalityType
<1>3. BoundInv => NoLostFullWakeup
  BY <1>2, QueueSizeAssumption
  DEF BoundInv, Promises, NoLostFullWakeup, CondFull
<1> QED BY <1>3, BoundCorrect, PTL

-----------------------------------------------------------------------------
(* The ring stays coherent in any use.                                     *)

LEMMA MultipleMod ==
  ASSUME NEW n \in Nat \ {0}, NEW a \in Int
  PROVE  (a % n = 0) <=> \E k \in Int : a = k * n
<1>1. ASSUME a % n = 0 PROVE \E k \in Int : a = k * n
  <2>1. a \div n \in Int /\ a = (a \div n) * n
    BY <1>1
  <2> QED BY <2>1
<1>2. ASSUME NEW k \in Int, a = k * n PROVE a % n = 0
  BY <1>2
<1> QED BY <1>1, <1>2

(* An index advances by one, or wraps from the last slot to 0.             *)
LEMMA NextIndexCases ==
  ASSUME NEW i \in Slots
  PROVE  NextIndex(i) = IF i + 1 = QueueSize THEN 0 ELSE i + 1
  BY QueueSizeAssumption DEF Slots, NextIndex

(* Adding or subtracting the same on both sides of the ring, with or       *)
(* without a wrap, keeps the congruence.                                   *)
LEMMA MultipleShift ==
  ASSUME NEW a \in Int, a % QueueSize = 0
  PROVE  /\ (a + QueueSize) % QueueSize = 0
         /\ (a - QueueSize) % QueueSize = 0
<1>1. PICK k \in Int : a = k * QueueSize
  BY MultipleMod, QueueSizeAssumption
<1>2. a + QueueSize = (k + 1) * QueueSize
  BY <1>1, QueueSizeAssumption
<1>3. a - QueueSize = (k - 1) * QueueSize
  BY <1>1, QueueSizeAssumption
<1> QED BY <1>2, <1>3, MultipleMod, QueueSizeAssumption

(* Every step keeps head, tail and length congruent.                       *)
LEMMA RingStep == TypeOK /\ RingConsistent /\ [Next]_vars => RingConsistent'
<1> SUFFICES ASSUME TypeOK, RingConsistent, [Next]_vars
             PROVE  RingConsistent'
  OBVIOUS
<1> DEFINE a == head + length - tail
<1>1. a \in Int /\ a % QueueSize = 0
  BY QueueSizeAssumption DEF TypeOK, Slots, RingConsistent
<1>2. ASSUME NEW t \in Thread, PushTransfer(t) PROVE RingConsistent'
  <2>1. /\ head' = head /\ length' = length + 1
        /\ tail' = IF tail + 1 = QueueSize THEN 0 ELSE tail + 1
    BY <1>2, NextIndexCases DEF PushTransfer, TypeOK
  <2>2. (head + length - tail)' \in {a, a + QueueSize}
    BY <2>1, QueueSizeAssumption DEF TypeOK, Slots
  <2> QED BY <1>1, <2>2, MultipleShift DEF RingConsistent
<1>3. ASSUME NEW t \in Thread, PopTransfer(t) PROVE RingConsistent'
  <2>1. /\ tail' = tail /\ length' = length - 1
        /\ head' = IF head + 1 = QueueSize THEN 0 ELSE head + 1
    BY <1>3, NextIndexCases DEF PopTransfer, TypeOK
  <2>2. (head + length - tail)' \in {a, a - QueueSize}
    BY <2>1, QueueSizeAssumption DEF TypeOK, Slots
  <2> QED BY <1>1, <2>2, MultipleShift DEF RingConsistent
<1>4. ASSUME NEW t \in Thread, Clear(t) PROVE RingConsistent'
  BY <1>4, QueueSizeAssumption DEF Clear, RingConsistent
<1>5. CASE UNCHANGED ring
  BY <1>5 DEF ring, RingConsistent
<1>6. ASSUME NEW t \in Thread, Call(t) PROVE UNCHANGED ring
  BY <1>6 DEF Call, CallPush, CallPop, CallClear, CallDestroy, Begin, Guarded
<1>7. ASSUME NEW t \in Thread, Disturb(t) PROVE UNCHANGED ring
  BY <1>7 DEF Disturb, LockFail, WaitTimeout, SpuriousWakeup
<1>8. ASSUME NEW t \in Thread, Proceed(t)
      PROVE  PushTransfer(t) \/ PopTransfer(t) \/ Clear(t) \/ UNCHANGED ring
  BY <1>8 DEF Proceed, Probe, Lock, Unlock, Reacquire, Refused,
              PushCheck, PopCheck, Check, Destroy
<1>9. UNCHANGED vars => UNCHANGED ring
  BY DEF vars
<1> QED BY <1>2, <1>3, <1>4, <1>5, <1>6, <1>7, <1>8, <1>9 DEF Next

(* head, tail and length describe one ring in any use, even where length   *)
(* has left its bounds.                                                    *)
THEOREM RingCorrect == Spec => []RingConsistent
<1>1. Init => RingConsistent
  BY QueueSizeAssumption DEF Init, RingConsistent
<1> QED BY <1>1, RingStep, TypeCorrect, PTL DEF Spec

-----------------------------------------------------------------------------
(* No lost wake-up of a consumer, in any use.                              *)

(* A thread that has not failed yet carries no error code.                 *)
Unfailed == \A t \in Thread :
  pc[t] \in {"probe", "lock", "check", "wait"} => rc[t] = LSP_ERR_NONE

(* A call that has not ended its wait has no error yet.                    *)
LEMMA UnfailedStep == TypeOK /\ Unfailed /\ [Next]_vars => Unfailed'
<1> SUFFICES ASSUME TypeOK, Unfailed, [Next]_vars PROVE Unfailed'
  OBVIOUS
<1> USE DEF TypeOK, Unfailed, Holding, Asleep
<1>1. ASSUME NEW t \in Thread, Call(t) PROVE Unfailed'
  BY <1>1 DEF Call, CallPush, CallPop, CallClear, CallDestroy, Begin, Guarded
<1>2. ASSUME NEW t \in Thread, Proceed(t) PROVE Unfailed'
  <2>1. CASE Probe(t) \/ Lock(t) \/ Unlock(t) \/ Refused(t) \/ Reacquire(t)
    BY <2>1 DEF Probe, Lock, Unlock, Refused, Reacquire
  <2>2. CASE PushCheck(t) \/ PopCheck(t)
    BY <2>2 DEF PushCheck, PopCheck, Check, Wait, Sleep, Count
  <2>3. CASE PushTransfer(t) \/ PopTransfer(t)
    BY <2>3 DEF PushTransfer, PopTransfer, Signal, CondEmpty, CondFull
  <2>4. CASE Clear(t) \/ Destroy(t)
    BY <2>4 DEF Clear, Destroy
  <2> QED BY <1>2, <2>1, <2>2, <2>3, <2>4 DEF Proceed
<1>3. ASSUME NEW t \in Thread, Disturb(t) PROVE Unfailed'
  BY <1>3 DEF Disturb, LockFail, WaitTimeout, SpuriousWakeup
<1>4. CASE UNCHANGED vars
  BY <1>4 DEF vars, frame
<1> QED BY <1>1, <1>2, <1>3, <1>4 DEF Next

(* Entitled calls can be counted.                                          *)
LEMMA EntitledFinite ==
  /\ IsFiniteSet(Entitled("pop"))
  /\ Cardinality(Entitled("pop")) \in Nat
<1>1. Entitled("pop") \subseteq Thread
  BY DEF Entitled
<1> QED BY <1>1, ThreadAssumption, FS_Subset, FS_CardinalityType

(* A step that changes neither length nor who sleeps on cond_empty, other  *)
(* than by waking, and takes no entitlement away.                          *)
LEMMA WakeupKept ==
  ASSUME TypeOK, NoLostEmptyWakeup, length' = length,
         CondEmpty' \subseteq CondEmpty,
         Entitled("pop") \subseteq Entitled("pop")',
         IsFiniteSet(Entitled("pop")')
  PROVE  NoLostEmptyWakeup'
<1>1. /\ Cardinality(Entitled("pop")) \in Nat
      /\ Cardinality(Entitled("pop")') \in Nat
      /\ Cardinality(Entitled("pop")) <= Cardinality(Entitled("pop")')
  BY EntitledFinite, FS_Subset, FS_CardinalityType
<1>2. NoLostEmptyWakeup' <=>
        (CondEmpty' # {} => length' <= Cardinality(Entitled("pop")'))
  BY DEF NoLostEmptyWakeup
<1> QED BY <1>1, <1>2 DEF NoLostEmptyWakeup, TypeOK

(* A new member adds one to a cardinality.                                 *)
LEMMA AdditionExact ==
  ASSUME NEW S, NEW x, x \notin S, IsFiniteSet(S)
  PROVE  Cardinality(S \cup {x}) = Cardinality(S) + 1
  BY FS_AddElement

(* A push adds an item and entitles one sleeper to it.                     *)
LEMMA WakeupPushTransfer ==
  ASSUME TypeOK, Unfailed, NoLostEmptyWakeup,
         IsFiniteSet(Entitled("pop")'),
         NEW t \in Thread, PushTransfer(t)
  PROVE  NoLostEmptyWakeup'
<1>1. CASE CondEmpty = {}
  <2>1. CondEmpty' = {}
    BY <1>1 DEF TypeOK, PushTransfer, Signal, CondEmpty, frame
  <2> QED BY <2>1 DEF NoLostEmptyWakeup
<1>2. CASE CondEmpty # {}
  <2>1. PICK w \in CondEmpty :
          pc' = [pc EXCEPT ![t] = "unlock", ![w] = "woken"]
    BY <1>2 DEF PushTransfer, Signal
  <2>2. Entitled("pop")' = Entitled("pop") \cup {w} /\ w \notin Entitled("pop")
    BY <2>1 DEF Unfailed, TypeOK, PushTransfer, CondEmpty, Entitled, frame
  <2>3. Cardinality(Entitled("pop")') = Cardinality(Entitled("pop")) + 1
    BY <2>2, EntitledFinite, AdditionExact
  <2>4. length <= Cardinality(Entitled("pop")) /\ length' = length + 1
    BY <1>2 DEF NoLostEmptyWakeup, PushTransfer
  <2>5. length' <= Cardinality(Entitled("pop")')
    BY <2>3, <2>4, EntitledFinite DEF TypeOK
  <2> QED BY <2>5 DEF NoLostEmptyWakeup
<1> QED BY <1>1, <1>2

(* Removing a member takes at most one from a cardinality.                 *)
LEMMA RemovalBound ==
  ASSUME NEW S, NEW x, IsFiniteSet(S)
  PROVE  Cardinality(S) \in Nat /\ Cardinality(S \ {x}) >= Cardinality(S) - 1
<1>1. Cardinality(S) \in Nat
  BY FS_CardinalityType
<1>2. CASE x \in S
  BY <1>1, <1>2, FS_RemoveElement
<1>3. CASE x \notin S
  BY <1>1, <1>3, FS_RemoveElement
<1> QED BY <1>1, <1>2, <1>3

(* A pop takes an item and uses its own entitlement up.                    *)
LEMMA WakeupPopTransfer ==
  ASSUME TypeOK, NoLostEmptyWakeup, IsFiniteSet(Entitled("pop")'),
         NEW t \in Thread, PopTransfer(t)
  PROVE  NoLostEmptyWakeup'
<1>1. CondEmpty' = CondEmpty /\ length' = length - 1
  BY DEF TypeOK, PopTransfer, Signal, CondEmpty, CondFull
<1>2. Entitled("pop")' = Entitled("pop") \ {t}
  BY DEF TypeOK, PopTransfer, Signal, CondFull, Entitled
<1>3. Cardinality(Entitled("pop")') >= Cardinality(Entitled("pop")) - 1
  BY <1>2, EntitledFinite, RemovalBound
<1>4. Cardinality(Entitled("pop")') \in Nat
  BY FS_CardinalityType
<1>5. CondEmpty # {} => length' <= Cardinality(Entitled("pop")')
  BY <1>1, <1>3, <1>4, EntitledFinite DEF NoLostEmptyWakeup, TypeOK
<1> QED BY <1>1, <1>5 DEF NoLostEmptyWakeup

(* A pop goes to sleep only while there is no item.                        *)
LEMMA WakeupPopCheck ==
  ASSUME TypeOK, NoLostEmptyWakeup, IsFiniteSet(Entitled("pop")'),
         NEW t \in Thread, PopCheck(t)
  PROVE  NoLostEmptyWakeup'
<1>1. CASE Sleep(t)
  <2>1. length' <= 0
    BY <1>1 DEF PopCheck, Check, Sleep, IsEmpty, ring, TypeOK, Wait
  <2>2. length' \in Int
    BY DEF PopCheck, Check, ring, TypeOK
  <2>3. length' <= Cardinality(Entitled("pop")')
    BY <2>1, <2>2, FS_CardinalityType
  <2> QED BY <2>3 DEF NoLostEmptyWakeup
<1>2. CASE ~Sleep(t)
  <2>1. length' = length
    BY DEF PopCheck, Check, ring
  <2>2. /\ CondEmpty' \subseteq CondEmpty
        /\ Entitled("pop") \subseteq Entitled("pop")'
    BY <1>2 DEF PopCheck, Check, Wait, CondEmpty, Entitled, TypeOK
  <2> QED BY <2>1, <2>2, WakeupKept
<1> QED BY <1>1, <1>2

(* Every step keeps the items owed while a consumer sleeps.                *)
LEMMA WakeupStep ==
  TypeOK /\ Unfailed /\ NoLostEmptyWakeup /\ [Next]_vars
    => NoLostEmptyWakeup'
<1> SUFFICES ASSUME TypeOK, Unfailed, NoLostEmptyWakeup, [Next]_vars
             PROVE  NoLostEmptyWakeup'
  OBVIOUS
<1> DEFINE Kept == /\ length' = length
                   /\ CondEmpty' \subseteq CondEmpty
                   /\ Entitled("pop") \subseteq Entitled("pop")'
<1>1. IsFiniteSet(Entitled("pop")')
  <2>1. Entitled("pop")' \subseteq Thread
    BY DEF Entitled
  <2> QED BY <2>1, ThreadAssumption, FS_Subset
<1>2. Kept => NoLostEmptyWakeup'
  BY <1>1, WakeupKept
<1>3. ASSUME NEW t \in Thread, Call(t) PROVE NoLostEmptyWakeup'
  <2>1. Kept
    BY <1>3 DEF Call, CallPush, CallPop, CallClear, CallDestroy, Begin,
                Guarded, CondEmpty, Entitled, TypeOK, ring
  <2> QED BY <1>2, <2>1
<1>4. ASSUME NEW t \in Thread, Proceed(t) PROVE NoLostEmptyWakeup'
  <2>1. CASE \/ Probe(t) \/ Lock(t) \/ Unlock(t) \/ Reacquire(t)
             \/ Refused(t) \/ Destroy(t)
    <3>1. Kept
      BY <2>1 DEF Probe, Lock, Unlock, Reacquire, Refused, Destroy, CondEmpty,
                  Entitled, TypeOK, ring, frame
    <3> QED BY <1>2, <3>1
  <2>2. CASE PushCheck(t)
    <3>1. Kept
      BY <2>2 DEF PushCheck, Check, Wait, Sleep, Count, CondEmpty,
                  Entitled, TypeOK, ring
    <3> QED BY <1>2, <3>1
  <2>3. CASE Clear(t)
    <3>1. length' = 0 /\ Cardinality(Entitled("pop")') \in Nat
      BY <1>1, <2>3, FS_CardinalityType DEF Clear
    <3>2. length' <= Cardinality(Entitled("pop")')
      BY <3>1
    <3> QED BY <3>2 DEF NoLostEmptyWakeup
  <2> QED BY <1>1, <1>4, <2>1, <2>2, <2>3, WakeupPopCheck,
             WakeupPushTransfer, WakeupPopTransfer DEF Proceed
<1>5. ASSUME NEW t \in Thread, Disturb(t) PROVE NoLostEmptyWakeup'
  <2>1. Kept
    BY <1>5 DEF Disturb, LockFail, WaitTimeout, SpuriousWakeup, CondEmpty,
                Entitled, Unfailed, TypeOK, ring, frame
  <2> QED BY <1>2, <2>1
<1>6. CASE UNCHANGED vars
  <2>1. Kept
    BY <1>6 DEF vars, ring, frame, CondEmpty, Entitled
  <2> QED BY <1>2, <2>1
<1> QED BY <1>3, <1>4, <1>5, <1>6 DEF Next

(* In any use no consumer sleeps on cond_empty while the queue holds an    *)
(* item that no consumer already awake is about to take.                   *)
THEOREM EmptyWakeupCorrect == Spec => []NoLostEmptyWakeup
<1>1. Init => Unfailed
  BY DEF Init, Unfailed
<1>2. Init => NoLostEmptyWakeup
  BY DEF Init, NoLostEmptyWakeup, CondEmpty
<1> QED BY <1>1, <1>2, UnfailedStep, WakeupStep, TypeCorrect, PTL DEF Spec

-----------------------------------------------------------------------------
(* The counters of waiting threads, in any use.                            *)

Sleepers(o) == {t \in Thread : pc[t] \in Waiting /\ op[t] = o}

(* Waiting threads can be counted.                                        *)
LEMMA SleepersFinite ==
  ASSUME NEW o PROVE IsFiniteSet(Sleepers(o))
<1>1. Sleepers(o) \subseteq Thread
  BY DEF Sleepers
<1> QED BY <1>1, ThreadAssumption, FS_Subset

(* waiting_full++ or waiting_empty++ counts the thread that starts to      *)
(* wait, whether the wait is refused or not.                               *)
LEMMA CountsWait ==
  ASSUME TypeOK, WaitCounts, NEW t \in Thread, pc[t] = "check",
         op[t] \in {"push", "pop"}, op' = op, Wait(t)
  PROVE  WaitCounts'
<1> USE DEF Wait, Sleep
<1>1. ASSUME NEW o \in {"push", "pop"}
      PROVE  Cardinality(Sleepers(o)') =
               Cardinality(Sleepers(o)) + (IF op[t] = o THEN 1 ELSE 0)
  <2>1. CASE op[t] = o
    <3>1. Sleepers(o)' = Sleepers(o) \cup {t} /\ t \notin Sleepers(o)
      BY <2>1 DEF Sleepers, Waiting, Asleep, TypeOK
    <3> QED BY <2>1, <3>1, SleepersFinite, FS_AddElement
  <2>2. CASE op[t] # o
    <3>1. Sleepers(o)' = Sleepers(o)
      BY <2>2 DEF Sleepers, Waiting, Asleep, TypeOK
    <3>2. Cardinality(Sleepers(o)) \in Nat
      BY SleepersFinite, FS_CardinalityType
    <3> QED BY <2>2, <3>1, <3>2
  <2> QED BY <2>1, <2>2
<1> QED BY <1>1 DEF WaitCounts, Sleepers, Count, TypeOK

(* The counter is decremented once, whatever way the wait has ended.       *)
LEMMA CountsReacquire ==
  ASSUME TypeOK, WaitCounts, NEW t \in Thread, Reacquire(t) \/ Refused(t)
  PROVE  WaitCounts'
<1> USE DEF Refused
<1>1. ASSUME NEW o \in {"push", "pop"}
      PROVE  Cardinality(Sleepers(o)') =
               Cardinality(Sleepers(o)) - (IF op[t] = o THEN 1 ELSE 0)
  <2>1. CASE op[t] = o
    <3>1. Sleepers(o)' = Sleepers(o) \ {t} /\ t \in Sleepers(o)
      BY <2>1 DEF Sleepers, Reacquire, Waiting, Asleep, TypeOK, frame
    <3> QED BY <2>1, <3>1, SleepersFinite, FS_RemoveElement
  <2>2. CASE op[t] # o
    <3>1. Sleepers(o)' = Sleepers(o)
      BY <2>2 DEF Sleepers, Reacquire, Waiting, Asleep, TypeOK, frame
    <3>2. Cardinality(Sleepers(o)) \in Nat
      BY SleepersFinite, FS_CardinalityType
    <3> QED BY <2>2, <3>1, <3>2
  <2> QED BY <2>1, <2>2
<1> QED BY <1>1 DEF WaitCounts, Sleepers, Reacquire, Count, TypeOK

(* Nothing else touches a counter, or puts a thread to sleep or ends its   *)
(* wait: a wake-up only moves it on to the mutex.                          *)
LEMMA CountsStep == TypeOK /\ WaitCounts /\ [Next]_vars => WaitCounts'
<1> SUFFICES ASSUME TypeOK, WaitCounts, [Next]_vars PROVE WaitCounts'
  OBVIOUS
<1> DEFINE Kept == /\ UNCHANGED <<waiting_full, waiting_empty>>
                   /\ \A t \in Thread :
                        \/ pc'[t] \in Waiting /\ op'[t] \in {"push", "pop"}
                        \/ pc[t] \in Waiting /\ op[t] \in {"push", "pop"}
                        => /\ pc[t] \in Waiting <=> pc'[t] \in Waiting
                           /\ op'[t] = op[t]
<1>1. Kept => WaitCounts'
  <2> SUFFICES ASSUME Kept PROVE WaitCounts'
    OBVIOUS
  <2>1. ASSUME NEW o \in {"push", "pop"} PROVE Sleepers(o)' = Sleepers(o)
    <3>1. \A t \in Thread : pc'[t] \in Waiting /\ op'[t] = o
                            <=> pc[t] \in Waiting /\ op[t] = o
      BY <2>1
    <3> QED BY <3>1 DEF Sleepers
  <2> QED BY <2>1 DEF WaitCounts, Sleepers
<1>2. ASSUME NEW t \in Thread, Call(t) PROVE Kept
  BY <1>2 DEF Call, CallPush, CallPop, CallClear, CallDestroy, Begin, Guarded,
              TypeOK, Waiting, Asleep
<1>3. ASSUME NEW t \in Thread, Disturb(t) PROVE Kept
  BY <1>3 DEF Disturb, LockFail, WaitTimeout, SpuriousWakeup, TypeOK,
              Waiting, Asleep, frame
<1>4. ASSUME NEW t \in Thread, Proceed(t) PROVE WaitCounts'
  <2>1. CASE Probe(t) \/ Lock(t) \/ Unlock(t) \/ Clear(t) \/ Destroy(t)
    <3>1. Kept
      BY <2>1 DEF Probe, Lock, Unlock, Clear, Destroy, TypeOK, Waiting,
                  Asleep, frame
    <3> QED BY <1>1, <3>1
  <2>2. CASE PushTransfer(t) \/ PopTransfer(t)
    <3>1. Kept
      BY <2>2 DEF PushTransfer, PopTransfer, Signal, CondEmpty, CondFull,
                  TypeOK, Waiting, Asleep, frame
    <3> QED BY <1>1, <3>1
  <2>3. CASE PushCheck(t) \/ PopCheck(t)
    <3>1. /\ pc[t] = "check" /\ op[t] \in {"push", "pop"} /\ op' = op
          /\ Wait(t) \/ UNCHANGED <<waiting_full, waiting_empty>>
      BY <2>3 DEF PushCheck, PopCheck, Check
    <3>2. CASE ~Wait(t)
      <4>1. Kept
        BY <2>3, <3>2 DEF PushCheck, PopCheck, Check, TypeOK, Waiting, Asleep
      <4> QED BY <1>1, <4>1
    <3> QED BY <3>1, <3>2, CountsWait
  <2> QED BY <1>4, <2>1, <2>2, <2>3, CountsReacquire DEF Proceed
<1>5. CASE UNCHANGED vars
  <2>1. Kept
    BY <1>5 DEF vars, frame
  <2> QED BY <1>1, <2>1
<1> QED BY <1>1, <1>2, <1>3, <1>4, <1>5 DEF Next

(* waiting_full and waiting_empty are the numbers of threads in a wait,    *)
(* whatever ends their waits: what lsp_queue_clear and lsp_queue_destroy   *)
(* read without the mutex is out of date, but never wrong.                 *)
THEOREM CountsCorrect == Spec => []WaitCounts
<1>1. Init => WaitCounts
  <2> SUFFICES ASSUME Init PROVE WaitCounts
    OBVIOUS
  <2>1. /\ {t \in Thread : pc[t] \in Waiting /\ op[t] = "push"} = {}
        /\ {t \in Thread : pc[t] \in Waiting /\ op[t] = "pop"} = {}
    BY DEF Init, Waiting, Asleep
  <2> QED BY <2>1, FS_EmptySet DEF Init, WaitCounts
<1> QED BY <1>1, CountsStep, TypeCorrect, PTL DEF Spec

-----------------------------------------------------------------------------
(* The queue implements the bounded FIFO, in safe use.                     *)

(* The codes that Status tells apart.                                      *)
LEMMA StatusCodes ==
  /\ LSP_ERR_QUEUE_FULL \notin {LSP_ERR_NONE, LSP_ERR_QUEUE_EMPTY}
  /\ LSP_ERR_QUEUE_EMPTY # LSP_ERR_NONE
  /\ \A c \in {LSP_ERR_TIMEOUT, LSP_ERR_INVALID, LSP_ERR_MUTEX} :
       c \notin {LSP_ERR_NONE, LSP_ERR_QUEUE_FULL, LSP_ERR_QUEUE_EMPTY}
  BY DEF LSP_ERR_NONE, LSP_ERR_TIMEOUT, LSP_ERR_INVALID, LSP_ERR_MUTEX,
         LSP_ERR_QUEUE_FULL, LSP_ERR_QUEUE_EMPTY

(* The slot that a position counted from slot 0 wraps to.                  *)
Wrap(x) == x % QueueSize

(* A position less than two turns from slot 0 wraps at most once.          *)
LEMMA WrapIs ==
  ASSUME NEW x \in 0 .. 2 * QueueSize - 1
  PROVE  /\ Wrap(x) = IF x < QueueSize THEN x ELSE x - QueueSize
         /\ Wrap(x) \in Slots
<1>1. CASE x < QueueSize
  BY <1>1, QueueSizeAssumption DEF Slots, Wrap
<1>2. CASE x >= QueueSize
  <2>1. x - QueueSize \in 0 .. QueueSize - 1
    BY <1>2, QueueSizeAssumption
  <2>2. (x - QueueSize) % QueueSize = x - QueueSize
    BY <2>1, QueueSizeAssumption
  <2>3. x % QueueSize = (x - QueueSize) % QueueSize
    BY <1>2, QueueSizeAssumption
  <2> QED BY <1>2, <2>1, <2>2, <2>3, QueueSizeAssumption DEF Slots, Wrap
<1> QED BY <1>1, <1>2, QueueSizeAssumption

(* The slot of the item that has i others before it.                       *)
Slot(i) == Wrap(head + i)

(* That slot is in the ring, and wraps at most once.                       *)
LEMMA SlotIs ==
  ASSUME TypeOK, NEW i \in 0 .. QueueSize
  PROVE  /\ Slot(i) \in Slots
         /\ Slot(i) = IF head + i < QueueSize THEN head + i
                      ELSE head + i - QueueSize
<1>1. head + i \in 0 .. 2 * QueueSize - 1
  BY QueueSizeAssumption DEF TypeOK, Slots
<1> QED BY <1>1, WrapIs, QueueSizeAssumption DEF Slot, TypeOK, Slots

(* A multiple of the size less than a turn back and two turns ahead.       *)
LEMMA SmallMultiple ==
  ASSUME NEW n \in Nat \ {0}, NEW k \in Int, k * n < 2 * n, k * n > -n
  PROVE  k = 0 \/ k = 1
<1>1. ASSUME NEW j \in Nat PROVE j * n >= 0
  BY <1>1
<1>2. CASE k >= 2
  <2>1. (k - 2) * n >= 0
    BY <1>1, <1>2
  <2>2. (k - 2) * n = k * n - 2 * n
    OBVIOUS
  <2> QED BY <2>1, <2>2
<1>3. CASE k <= -1
  <2>1. (-1 - k) * n >= 0
    BY <1>1, <1>3
  <2>2. (-1 - k) * n = -n - k * n
    OBVIOUS
  <2> QED BY <2>1, <2>2
<1> QED BY <1>2, <1>3

(* The next push writes to the slot after the last item.                   *)
LEMMA TailSlot ==
  ASSUME TypeOK, RingConsistent, length \in 0 .. QueueSize
  PROVE  tail = Slot(length)
<1>1. head \in Slots /\ tail \in Slots
  BY DEF TypeOK
<1>2. PICK k \in Int : head + length - tail = k * QueueSize
  BY <1>1, MultipleMod, QueueSizeAssumption DEF Slots, RingConsistent
<1>3. /\ head + length - tail < 2 * QueueSize
      /\ head + length - tail > -QueueSize
  BY <1>1, QueueSizeAssumption DEF Slots
<1>4. k = 0 \/ k = 1
  BY <1>2, <1>3, SmallMultiple, QueueSizeAssumption
<1>5. head + length - tail = 0 \/ head + length - tail = QueueSize
  BY <1>2, <1>4, QueueSizeAssumption
<1> QED BY <1>1, <1>5, SlotIs, QueueSizeAssumption DEF Slots

(* Contents is a sequence of length items.                                 *)
LEMMA ContentsIs ==
  ASSUME TypeOK, length \in 0 .. QueueSize
  PROVE  /\ Contents \in Seq(Item \cup {NoItem})
         /\ Len(Contents) = length
         /\ Contents = <<>> <=> length = 0
         /\ \A i \in 1 .. length : Contents[i] = data[Slot(i - 1)]
<1>1. ASSUME NEW i \in 1 .. length
      PROVE  /\ i - 1 \in 0 .. QueueSize
             /\ head + i - 1 = head + (i - 1)
  BY QueueSizeAssumption DEF TypeOK, Slots
<1>2. ASSUME NEW i \in 1 .. length
      PROVE  /\ data[Wrap(head + i - 1)] = data[Slot(i - 1)]
             /\ data[Slot(i - 1)] \in Item \cup {NoItem}
  <2>1. Slot(i - 1) \in Slots
    BY <1>1, SlotIs
  <2> QED BY <1>1, <2>1 DEF Slot, TypeOK
<1>3. Contents \in [1 .. length -> Item \cup {NoItem}]
  BY <1>2 DEF Contents, Wrap
<1>4. length \in Nat
  BY QueueSizeAssumption
<1>5. Contents \in Seq(Item \cup {NoItem}) /\ Len(Contents) = length
  BY <1>3, <1>4
<1>6. Contents = <<>> <=> length = 0
  BY <1>5
<1> QED BY <1>2, <1>5, <1>6 DEF Contents, Wrap

(* The transfer of lsp_queue_push appends the item it was given.           *)
LEMMA PushAppends ==
  ASSUME TypeOK, RingConsistent, length \in 0 .. QueueSize - 1,
         NEW t \in Thread, PushTransfer(t), TypeOK'
  PROVE  Contents' = Append(Contents, buf[t])
<1>1. length + 1 \in 0 .. QueueSize /\ length \in 0 .. QueueSize
  BY QueueSizeAssumption
<1>2. tail = Slot(length)
  BY <1>1, TailSlot
<1>3. /\ head' = head /\ length' = length + 1
      /\ data' = [data EXCEPT ![tail] = buf[t]]
  BY DEF PushTransfer
<1>4. /\ Contents \in Seq(Item \cup {NoItem}) /\ Len(Contents) = length
      /\ \A i \in 1 .. length : Contents[i] = data[Slot(i - 1)]
  BY <1>1, ContentsIs
<1>5. Contents' = [i \in 1 .. length + 1 |-> data'[Slot(i - 1)]]
  <2>1. \A i \in 1 .. length + 1 : head + i - 1 = head + (i - 1)
    BY <1>1 DEF TypeOK, Slots
  <2> QED BY <1>3, <2>1 DEF Contents, Slot, Wrap
<1>6. data'[Slot(length)] = buf[t]
  BY <1>2, <1>3 DEF TypeOK
<1>7. ASSUME NEW i \in 1 .. length
      PROVE  data'[Slot(i - 1)] = Contents[i]
  <2>1. i - 1 \in 0 .. QueueSize /\ i - 1 # length /\ i - 1 < length
    BY <1>1, QueueSizeAssumption
  <2>2. Slot(i - 1) \in Slots
    BY <2>1, SlotIs
  <2>4. Slot(i - 1) # Slot(length)
    <3>1. /\ Slot(i - 1) = IF head + (i - 1) < QueueSize THEN head + (i - 1)
                           ELSE head + (i - 1) - QueueSize
          /\ Slot(length) = IF head + length < QueueSize THEN head + length
                            ELSE head + length - QueueSize
      BY <1>1, <2>1, SlotIs
    <3> QED BY <1>1, <2>1, <3>1, QueueSizeAssumption DEF TypeOK, Slots
  <2>3. data'[Slot(i - 1)] = data[Slot(i - 1)]
    BY <1>2, <1>3, <2>2, <2>4 DEF TypeOK
  <2> QED BY <1>4, <2>3
<1>8. Append(Contents, buf[t]) =
        [i \in 1 .. length + 1 |-> IF i = length + 1 THEN buf[t]
                                   ELSE Contents[i]]
  BY <1>4
<1>9. ASSUME NEW i \in 1 .. length + 1
      PROVE  data'[Slot(i - 1)] = IF i = length + 1 THEN buf[t]
                                  ELSE Contents[i]
  <2>1. CASE i = length + 1
    <3>1. i - 1 = length
      BY <1>1, <2>1
    <3> QED BY <1>6, <2>1, <3>1
  <2>2. CASE i # length + 1
    <3>1. i \in 1 .. length
      BY <1>1, <2>2
    <3> QED BY <1>7, <2>2, <3>1
  <2> QED BY <2>1, <2>2
<1> QED BY <1>5, <1>8, <1>9

(* What remains of a sequence without its head, item by item.              *)
LEMMA TailIs ==
  ASSUME NEW S, NEW s \in Seq(S), s # <<>>
  PROVE  Tail(s) = [i \in 1 .. Len(s) - 1 |-> s[i + 1]]
<1>1. /\ Tail(s) \in Seq(S) /\ Len(Tail(s)) = Len(s) - 1
      /\ \A i \in 1 .. Len(Tail(s)) : Tail(s)[i] = s[i + 1]
  BY HeadTailProperties
<1>2. Tail(s) = [i \in 1 .. Len(Tail(s)) |-> Tail(s)[i]]
  <2> DEFINE u == Tail(s)
  <2>1. u \in Seq(S)
    BY <1>1
  <2> HIDE DEF u
  <2>2. u = [i \in 1 .. Len(u) |-> u[i]]
    BY <2>1
  <2> QED BY <2>2 DEF u
<1> QED BY <1>1, <1>2, Zenon

(* The transfer of lsp_queue_pop takes the oldest item away.               *)
LEMMA PopTakes ==
  ASSUME TypeOK, length \in 1 .. QueueSize, NEW t \in Thread, PopTransfer(t)
  PROVE  /\ buf' = [buf EXCEPT ![t] = Head(Contents)]
         /\ Contents' = Tail(Contents)
<1>1. length \in 0 .. QueueSize
  BY QueueSizeAssumption
<1>2. /\ head' = NextIndex(head) /\ length' = length - 1 /\ data' = data
      /\ buf' = [buf EXCEPT ![t] = data[head]]
  BY DEF PopTransfer
<1>3. /\ Contents \in Seq(Item \cup {NoItem}) /\ Len(Contents) = length
      /\ Contents # <<>>
      /\ \A i \in 1 .. length : Contents[i] = data[Slot(i - 1)]
  BY <1>1, ContentsIs
<1>4. Slot(0) = head
  BY SlotIs, QueueSizeAssumption DEF TypeOK, Slots
<1>5. Head(Contents) = data[head]
  BY <1>3, <1>4
<1>6. ASSUME NEW i \in 1 .. length - 1
      PROVE  Wrap(NextIndex(head) + i - 1) = Slot(i)
  <2>1. i \in 0 .. QueueSize /\ i - 1 \in 0 .. QueueSize
    BY QueueSizeAssumption
  <2>2. NextIndex(head) = IF head + 1 = QueueSize THEN 0 ELSE head + 1
    BY NextIndexCases DEF TypeOK
  <2>3. NextIndex(head) + i - 1 \in 0 .. 2 * QueueSize - 1
    BY <1>1, <2>2, QueueSizeAssumption DEF TypeOK, Slots
  <2>4. Wrap(NextIndex(head) + i - 1) =
          IF NextIndex(head) + i - 1 < QueueSize THEN NextIndex(head) + i - 1
          ELSE NextIndex(head) + i - 1 - QueueSize
    BY <2>2, <2>3, WrapIs, QueueSizeAssumption DEF TypeOK, Slots
  <2>5. Slot(i) = IF head + i < QueueSize THEN head + i
                  ELSE head + i - QueueSize
    BY <2>1, SlotIs
  <2> QED BY <1>1, <2>2, <2>4, <2>5, QueueSizeAssumption DEF TypeOK, Slots
<1>7. Contents' = [i \in 1 .. length - 1 |-> data[Slot(i)]]
  BY <1>2, <1>6 DEF Contents, Wrap
<1>8. Tail(Contents) = [i \in 1 .. length - 1 |-> Contents[i + 1]]
  BY <1>3, TailIs
<1>9. ASSUME NEW i \in 1 .. length - 1 PROVE Contents[i + 1] = data[Slot(i)]
  <2>1. i + 1 \in 1 .. length /\ (i + 1) - 1 = i
    BY <1>1, QueueSizeAssumption
  <2> QED BY <1>3, <2>1
<1> QED BY <1>2, <1>5, <1>7, <1>8, <1>9

(* What a wait leaves in rc, and that no call that failed transfers.       *)
Codes == \A t \in Thread :
  /\ pc[t] = "woken" => rc[t] \in {LSP_ERR_NONE, LSP_ERR_TIMEOUT}
  /\ pc[t] = "refused" => rc[t] = LSP_ERR_INVALID
  /\ pc[t] = "transfer" => rc[t] = LSP_ERR_NONE

(* Every step keeps that.                                                  *)
LEMMA CodesStep ==
  TypeOK /\ Unfailed /\ Codes /\ [Next]_vars => Codes'
<1> SUFFICES ASSUME TypeOK, Unfailed, Codes, [Next]_vars PROVE Codes'
  OBVIOUS
<1> USE DEF TypeOK, Unfailed, Codes, Holding, Asleep
<1>1. ASSUME NEW t \in Thread, Call(t) PROVE Codes'
  BY <1>1 DEF Call, CallPush, CallPop, CallClear, CallDestroy, Begin, Guarded
<1>2. ASSUME NEW t \in Thread, Proceed(t) PROVE Codes'
  <2>1. CASE Probe(t) \/ Lock(t) \/ Unlock(t) \/ Refused(t) \/ Reacquire(t)
    BY <2>1 DEF Probe, Lock, Unlock, Refused, Reacquire
  <2>2. CASE PushCheck(t) \/ PopCheck(t)
    BY <2>2 DEF PushCheck, PopCheck, Check, Wait, Sleep, Count
  <2>3. CASE PushTransfer(t) \/ PopTransfer(t)
    BY <2>3 DEF PushTransfer, PopTransfer, Signal, CondEmpty, CondFull
  <2>4. CASE Clear(t) \/ Destroy(t)
    BY <2>4 DEF Clear, Destroy
  <2> QED BY <1>2, <2>1, <2>2, <2>3, <2>4 DEF Proceed
<1>3. ASSUME NEW t \in Thread, Disturb(t) PROVE Codes'
  BY <1>3 DEF Disturb, LockFail, WaitTimeout, SpuriousWakeup, frame
<1>4. CASE UNCHANGED vars
  BY <1>4 DEF vars, frame
<1> QED BY <1>1, <1>2, <1>3, <1>4 DEF Next

(* The status of a call at the point p, of the kind o, with the code c.    *)
StatusAt(p, o, c) ==
  CASE p \notin {"idle", "unlock"} -> o
    [] p \in {"idle", "unlock"} /\ o = "none" -> "idle"
    [] OTHER -> CASE c = LSP_ERR_NONE -> "done"
                  [] c = LSP_ERR_QUEUE_FULL -> "full"
                  [] c = LSP_ERR_QUEUE_EMPTY -> "empty"
                  [] OTHER -> "failed"

Statuses == [t \in Thread |-> Status(t)]

(* A call inside the queue has its kind for status, another its outcome.   *)
LEMMA StatusAtIs ==
  ASSUME NEW p, NEW o, NEW c
  PROVE  /\ p \notin {"idle", "unlock"} => StatusAt(p, o, c) = o
         /\ p \in {"idle", "unlock"} =>
              /\ o = "none" => StatusAt(p, o, c) = "idle"
              /\ o # "none" =>
                   /\ c = LSP_ERR_NONE => StatusAt(p, o, c) = "done"
                   /\ c = LSP_ERR_QUEUE_FULL => StatusAt(p, o, c) = "full"
                   /\ c = LSP_ERR_QUEUE_EMPTY => StatusAt(p, o, c) = "empty"
                   /\ c \notin {LSP_ERR_NONE, LSP_ERR_QUEUE_FULL,
                                LSP_ERR_QUEUE_EMPTY}
                        => StatusAt(p, o, c) = "failed"
              /\ StatusAt(p, o, c) \notin {"push", "pop"}
  BY StatusCodes DEF StatusAt

(* A step of one thread that takes its status to s.                        *)
LEMMA StatusMoves ==
  ASSUME NEW t \in Thread, NEW s, StatusAt(pc'[t], op'[t], rc'[t]) = s,
         \A u \in Thread \ {t} :
           StatusAt(pc'[u], op'[u], rc'[u]) = StatusAt(pc[u], op[u], rc[u])
  PROVE  Statuses' = [Statuses EXCEPT ![t] = s]
<1>1. \A u \in Thread : /\ Status(u) = StatusAt(pc[u], op[u], rc[u])
                        /\ Status(u)' = StatusAt(pc'[u], op'[u], rc'[u])
  BY DEF Status, StatusAt
<1>2. \A u \in Thread : Status(u)' = IF u = t THEN s ELSE Status(u)
  BY <1>1
<1> QED BY <1>2 DEF Statuses

(* A step that changes nobody's status.                                    *)
LEMMA StatusStays ==
  ASSUME \A u \in Thread :
           StatusAt(pc'[u], op'[u], rc'[u]) = StatusAt(pc[u], op[u], rc[u])
  PROVE  Statuses' = Statuses
<1>1. \A u \in Thread : /\ Status(u) = StatusAt(pc[u], op[u], rc[u])
                        /\ Status(u)' = StatusAt(pc'[u], op'[u], rc'[u])
  BY DEF Status, StatusAt
<1>2. \A u \in Thread : Status(u)' = Status(u)
  BY <1>1
<1> QED BY <1>2 DEF Statuses

(* What the proof that the queue implements the FIFO knows of a state.     *)
FifoInv == TypeOK /\ MutualExclusion /\ BoundInv /\ RingConsistent /\ Codes

(* In safe use only producers and consumers call.                          *)
LEMMA SafeThreads == SafeUse => Thread = Producers \cup Consumers
  BY DEF SafeUse, Thread

(* The steps of a call that the FIFO does not see.                         *)
Silent == UNCHANGED <<Contents, buf, Statuses>>

(* A call starts in the FIFO when it starts in the queue.                  *)
LEMMA FifoCall ==
  ASSUME SafeUse, FifoInv, NEW t \in Thread, Call(t)
  PROVE  Fifo!StartPush(t) \/ Fifo!StartPop(t)
<1> USE DEF FifoInv, TypeOK
<1>1. CallPush(t) \/ CallPop(t)
  BY DEF Call, CallClear, CallDestroy, SafeUse
<1>2. pc[t] = "idle" /\ UNCHANGED ring
  BY <1>1 DEF CallPush, CallPop, Begin
<1>3. Statuses[t] \notin {"push", "pop"}
  <2>1. Statuses[t] = StatusAt(pc[t], op[t], rc[t])
    BY DEF Statuses, Status, StatusAt
  <2> QED BY <1>2, <2>1, StatusAtIs
<1>4. Contents' = Contents
  BY <1>2 DEF ring, Contents
<1>5. \A u \in Thread \ {t} :
        StatusAt(pc'[u], op'[u], rc'[u]) = StatusAt(pc[u], op[u], rc[u])
  BY <1>1 DEF CallPush, CallPop, Begin
<1>6. CASE CallPush(t)
  <2>1. pc'[t] = "lock" /\ op'[t] = "push"
    BY <1>6 DEF CallPush, Begin
  <2>2. Statuses' = [Statuses EXCEPT ![t] = "push"]
    BY <1>5, <2>1, StatusAtIs, StatusMoves
  <2>3. t \in Producers /\ \E v \in Item : buf' = [buf EXCEPT ![t] = v]
    BY <1>6 DEF CallPush
  <2> QED BY <1>3, <1>4, <2>2, <2>3
          DEF Statuses, Fifo!StartPush, Fifo!Pending
<1>7. CASE CallPop(t)
  <2>1. pc'[t] = "lock" /\ op'[t] = "pop"
    BY <1>7 DEF CallPop, Begin
  <2>2. Statuses' = [Statuses EXCEPT ![t] = "pop"]
    BY <1>5, <2>1, StatusAtIs, StatusMoves
  <2>3. t \in Consumers /\ UNCHANGED buf
    BY <1>7 DEF CallPop
  <2> QED BY <1>3, <1>4, <2>2, <2>3
          DEF Statuses, Fifo!StartPop, Fifo!Pending
<1> QED BY <1>1, <1>6, <1>7

(* The call of t is over, and at most one sleeper wakes.                   *)
Signals(t) ==
  \/ pc' = [pc EXCEPT ![t] = "unlock"]
  \/ \E w \in Thread :
       pc[w] = "wait" /\ pc' = [pc EXCEPT ![t] = "unlock", ![w] = "woken"]

(* The status of a call at the transfer, and of the caller after it.       *)
LEMMA TransferStatus ==
  ASSUME FifoInv, NEW t \in Thread, pc[t] = "transfer", op' = op, rc' = rc,
         op[t] \in {"push", "pop"},
         Signals(t)
  PROVE  Statuses[t] = op[t] /\ Statuses' = [Statuses EXCEPT ![t] = "done"]
<1> USE DEF FifoInv, TypeOK, Signals
<1>1. Statuses[t] = StatusAt(pc[t], op[t], rc[t])
  BY DEF Statuses, Status, StatusAt
<1>2. pc'[t] = "unlock" /\ rc[t] = LSP_ERR_NONE
  BY DEF Codes
<1>3. StatusAt(pc'[t], op'[t], rc'[t]) = "done"
  BY <1>2, StatusAtIs
<1>4. ASSUME NEW u \in Thread \ {t}
      PROVE  StatusAt(pc'[u], op'[u], rc'[u]) = StatusAt(pc[u], op[u], rc[u])
  <2>1. CASE pc'[u] = pc[u]
    BY <2>1
  <2>2. CASE pc'[u] # pc[u]
    <3>1. pc[u] = "wait" /\ pc'[u] = "woken"
      BY <2>2
    <3> QED BY <3>1, StatusAtIs
  <2> QED BY <2>1, <2>2
<1>5. Statuses[t] = op[t]
  BY <1>1, StatusAtIs
<1> QED BY <1>3, <1>4, <1>5, StatusMoves

(* The transfer of a push is the step at which it takes effect.            *)
LEMMA FifoPush ==
  ASSUME SafeUse, FifoInv, TypeOK', NEW t \in Thread, PushTransfer(t)
  PROVE  Fifo!Push(t)
<1>1. /\ pc[t] = "transfer" /\ op[t] = "push" /\ op' = op /\ rc' = rc
      /\ buf' = buf
  BY DEF PushTransfer, frame
<1>2. length \in 0 .. QueueSize /\ length < QueueSize
  BY <1>1 DEF FifoInv, BoundInv, Promises, Room
<1>3. length \in 0 .. QueueSize - 1
  BY <1>2, QueueSizeAssumption
<1>4. Contents' = Append(Contents, buf[t])
  BY <1>3, PushAppends DEF FifoInv
<1>5. Len(Contents) < QueueSize
  BY <1>2, ContentsIs DEF FifoInv
<1>6. Signals(t)
  BY DEF PushTransfer, Signal, Signals, CondEmpty
<1>7. Statuses[t] = "push" /\ Statuses' = [Statuses EXCEPT ![t] = "done"]
  BY <1>1, <1>6, TransferStatus
<1> QED BY <1>1, <1>4, <1>5, <1>7 DEF Statuses, Fifo!Push

(* So is the transfer of a pop.                                            *)
LEMMA FifoPop ==
  ASSUME SafeUse, FifoInv, NEW t \in Thread, PopTransfer(t)
  PROVE  Fifo!Pop(t)
<1>1. pc[t] = "transfer" /\ op[t] = "pop" /\ op' = op /\ rc' = rc
  BY DEF PopTransfer
<1>2. length \in 0 .. QueueSize /\ length > 0
  BY <1>1 DEF FifoInv, BoundInv, Promises, Room
<1>3. length \in 1 .. QueueSize
  BY <1>2, QueueSizeAssumption
<1>4. buf' = [buf EXCEPT ![t] = Head(Contents)] /\ Contents' = Tail(Contents)
  BY <1>3, PopTakes DEF FifoInv
<1>5. Contents # <<>>
  BY <1>2, ContentsIs DEF FifoInv
<1>6. Signals(t)
  BY DEF PopTransfer, Signal, Signals, CondFull
<1>7. Statuses[t] = "pop" /\ Statuses' = [Statuses EXCEPT ![t] = "done"]
  BY <1>1, <1>6, TransferStatus
<1> QED BY <1>4, <1>5, <1>7 DEF Statuses, Fifo!Pop

(* A call that ends without a transfer.                                    *)
Ends(t, p, c) ==
  /\ pc[t] \notin {"idle", "unlock"} /\ p \in {"idle", "unlock"}
  /\ pc' = [pc EXCEPT ![t] = p] /\ rc' = [rc EXCEPT ![t] = c]
  /\ op' = op

(* Its status becomes the name of its code.                                *)
LEMMA EndStatus ==
  ASSUME FifoInv, NEW t \in Thread, NEW p, NEW c, Ends(t, p, c),
         op[t] \in {"push", "pop"}, c # LSP_ERR_NONE
  PROVE  /\ Statuses[t] = op[t]
         /\ Statuses' = [Statuses EXCEPT ![t] =
                           StatusAt("unlock", op[t], c)]
<1> USE DEF FifoInv, TypeOK, Ends
<1>1. Statuses[t] = StatusAt(pc[t], op[t], rc[t])
  BY DEF Statuses, Status, StatusAt
<1>2. Statuses[t] = op[t]
  BY <1>1, StatusAtIs
<1>3. StatusAt(p, op[t], c) = StatusAt("unlock", op[t], c)
  BY DEF StatusAt
<1>4. StatusAt(pc'[t], op'[t], rc'[t]) = StatusAt("unlock", op[t], c)
  BY <1>3
<1>5. \A u \in Thread \ {t} :
        StatusAt(pc'[u], op'[u], rc'[u]) = StatusAt(pc[u], op[u], rc[u])
  OBVIOUS
<1> QED BY <1>2, <1>4, <1>5, StatusMoves

(* "failed" needs no excuse; "full" and "empty" need a full or an empty    *)
(* queue at the moment of the test.                                        *)
LEMMA FifoRefuse ==
  ASSUME FifoInv, NEW t \in Thread, NEW p, NEW c, Ends(t, p, c),
         op[t] \in {"push", "pop"}, UNCHANGED <<ring, buf>>,
         \/ c \in {LSP_ERR_TIMEOUT, LSP_ERR_INVALID, LSP_ERR_MUTEX}
         \/ c = LSP_ERR_QUEUE_FULL /\ op[t] = "push" /\ length = QueueSize
         \/ c = LSP_ERR_QUEUE_EMPTY /\ op[t] = "pop" /\ length = 0
  PROVE  Fifo!Refuse(t)
<1>1. c # LSP_ERR_NONE
  BY StatusCodes
<1>2. /\ Statuses[t] = op[t]
      /\ Statuses' = [Statuses EXCEPT ![t] = StatusAt("unlock", op[t], c)]
  BY <1>1, EndStatus
<1>3. Contents' = Contents /\ buf' = buf
  BY DEF ring, Contents
<1>4. Len(Contents) = length /\ (Contents = <<>> <=> length = 0)
  BY ContentsIs DEF FifoInv, BoundInv
<1>5. CASE c \in {LSP_ERR_TIMEOUT, LSP_ERR_INVALID, LSP_ERR_MUTEX}
  <2>1. StatusAt("unlock", op[t], c) = "failed"
    BY <1>5, StatusCodes, StatusAtIs
  <2> QED BY <1>2, <1>3, <2>1 DEF Statuses, Fifo!Refuse, Fifo!Pending
<1>6. CASE c = LSP_ERR_QUEUE_FULL /\ op[t] = "push" /\ length = QueueSize
  <2>1. StatusAt("unlock", op[t], c) = "full"
    BY <1>6, StatusAtIs
  <2> QED BY <1>2, <1>3, <1>4, <1>6, <2>1 DEF Statuses, Fifo!Refuse
<1>7. CASE c = LSP_ERR_QUEUE_EMPTY /\ op[t] = "pop" /\ length = 0
  <2>1. StatusAt("unlock", op[t], c) = "empty"
    BY <1>7, StatusAtIs
  <2> QED BY <1>2, <1>3, <1>4, <1>7, <2>1 DEF Statuses, Fifo!Refuse
<1> QED BY <1>5, <1>6, <1>7

(* A step of one thread inside its call that leaves the ring alone.        *)
LEMMA FifoSilent ==
  ASSUME FifoInv, NEW t \in Thread, NEW p, UNCHANGED <<ring, buf, op>>,
         pc' = [pc EXCEPT ![t] = p],
         \/ /\ pc[t] \notin {"idle", "unlock"} /\ p \notin {"idle", "unlock"}
            /\ \A u \in Thread \ {t} : rc'[u] = rc[u]
         \/ pc[t] = "unlock" /\ p = "idle" /\ rc' = rc
  PROVE  Silent
<1> USE DEF FifoInv, TypeOK
<1>1. Contents' = Contents /\ buf' = buf
  BY DEF ring, Contents
<1>2. pc'[t] = p /\ op'[t] = op[t]
  OBVIOUS
<1>3. StatusAt(pc'[t], op'[t], rc'[t]) = StatusAt(pc[t], op[t], rc[t])
  <2>1. CASE pc[t] \notin {"idle", "unlock"} /\ p \notin {"idle", "unlock"}
    BY <1>2, <2>1, StatusAtIs
  <2>2. CASE pc[t] = "unlock" /\ p = "idle" /\ rc' = rc
    BY <1>2, <2>2 DEF StatusAt
  <2> QED BY <2>1, <2>2
<1>4. \A u \in Thread \ {t} :
        StatusAt(pc'[u], op'[u], rc'[u]) = StatusAt(pc[u], op[u], rc[u])
  OBVIOUS
<1> QED BY <1>1, <1>3, <1>4, StatusStays DEF Silent

(* Going to sleep, or being refused a wait, at the test of length.         *)
LEMMA FifoWait ==
  ASSUME FifoInv, NEW t \in Thread, pc[t] = "check", Wait(t),
         UNCHANGED <<ring, op, buf>>
  PROVE  Silent
<1>1. CASE Sleep(t)
  BY <1>1, FifoSilent DEF Sleep
<1>2. CASE ~Sleep(t)
  <2>1. /\ pc' = [pc EXCEPT ![t] = "refused"]
        /\ \A u \in Thread \ {t} : rc'[u] = rc[u]
    BY <1>2 DEF Wait, FifoInv, TypeOK
  <2> QED BY <2>1, FifoSilent
<1> QED BY <1>1, <1>2

(* The test of length of a push.                                           *)
LEMMA FifoPushCheck ==
  ASSUME FifoInv, NEW t \in Thread, PushCheck(t)
  PROVE  Silent \/ Fifo!Refuse(t)
<1>1. pc[t] = "check" /\ op[t] = "push" /\ UNCHANGED <<ring, op, buf>>
  BY DEF PushCheck, Check
<1>2. length \in 0 .. QueueSize
  BY DEF FifoInv, BoundInv
<1>3. CASE pc' = [pc EXCEPT ![t] = "transfer"] /\ rc' = rc
  BY <1>1, <1>3, FifoSilent
<1>4. CASE IsFull /\ rc' = [rc EXCEPT ![t] = LSP_ERR_QUEUE_FULL]
           /\ pc' = [pc EXCEPT ![t] = "unlock"]
  <2>1. length = QueueSize
    BY <1>2, <1>4, QueueSizeAssumption DEF IsFull
  <2>2. Ends(t, "unlock", LSP_ERR_QUEUE_FULL)
    BY <1>1, <1>4 DEF Ends
  <2> QED BY <1>1, <2>1, <2>2, FifoRefuse
<1>5. CASE Wait(t)
  BY <1>1, <1>5, FifoWait
<1> QED BY <1>3, <1>4, <1>5 DEF PushCheck, Check

(* The test of length of a pop.                                            *)
LEMMA FifoPopCheck ==
  ASSUME FifoInv, NEW t \in Thread, PopCheck(t)
  PROVE  Silent \/ Fifo!Refuse(t)
<1>1. pc[t] = "check" /\ op[t] = "pop" /\ UNCHANGED <<ring, op, buf>>
  BY DEF PopCheck, Check
<1>2. length \in 0 .. QueueSize
  BY DEF FifoInv, BoundInv
<1>3. CASE pc' = [pc EXCEPT ![t] = "transfer"] /\ rc' = rc
  BY <1>1, <1>3, FifoSilent
<1>4. CASE IsEmpty /\ rc' = [rc EXCEPT ![t] = LSP_ERR_QUEUE_EMPTY]
           /\ pc' = [pc EXCEPT ![t] = "unlock"]
  <2>1. length = 0
    BY <1>2, <1>4, QueueSizeAssumption DEF IsEmpty
  <2>2. Ends(t, "unlock", LSP_ERR_QUEUE_EMPTY)
    BY <1>1, <1>4 DEF Ends
  <2> QED BY <1>1, <2>1, <2>2, FifoRefuse
<1>5. CASE Wait(t)
  BY <1>1, <1>5, FifoWait
<1> QED BY <1>3, <1>4, <1>5 DEF PopCheck, Check

(* The mutex, and the return from a wait.                                  *)
LEMMA FifoMutex ==
  ASSUME FifoInv, NEW t \in Thread,
         Lock(t) \/ Unlock(t) \/ Refused(t) \/ Reacquire(t)
  PROVE  Silent \/ Fifo!Refuse(t)
<1>1. UNCHANGED <<ring, op, buf>> /\ rc' = rc
  BY DEF Lock, Unlock, Refused, Reacquire, frame
<1>2. CASE Lock(t)
  <2> DEFINE p == IF op[t] = "clear" THEN "clear" ELSE "check"
  <2>1. pc[t] = "lock" /\ pc' = [pc EXCEPT ![t] = p]
    BY <1>2 DEF Lock
  <2>2. p \notin {"idle", "unlock"}
    OBVIOUS
  <2> QED BY <1>1, <2>1, <2>2, FifoSilent
<1>3. CASE Unlock(t)
  <2>1. pc[t] = "unlock" /\ pc' = [pc EXCEPT ![t] = "idle"]
    BY <1>3 DEF Unlock
  <2> QED BY <1>1, <2>1, FifoSilent
<1>4. CASE Reacquire(t) /\ rc[t] = LSP_ERR_NONE
  <2>1. pc[t] = "woken" /\ pc' = [pc EXCEPT ![t] = "transfer"]
    BY <1>4 DEF Reacquire
  <2> QED BY <1>1, <2>1, FifoSilent
<1>5. CASE Reacquire(t) /\ rc[t] # LSP_ERR_NONE
  <2>1. pc[t] = "woken" /\ pc' = [pc EXCEPT ![t] = "unlock"]
    BY <1>5 DEF Reacquire
  <2>2. rc[t] = LSP_ERR_TIMEOUT /\ op[t] \in {"push", "pop"}
    BY <1>5, <2>1 DEF FifoInv, Codes, BoundInv, Roles
  <2>3. rc' = [rc EXCEPT ![t] = rc[t]]
    BY <1>1 DEF FifoInv, TypeOK
  <2>4. Ends(t, "unlock", rc[t])
    BY <1>1, <2>1, <2>3 DEF Ends
  <2> QED BY <1>1, <2>2, <2>4, FifoRefuse
<1>6. CASE Refused(t)
  <2>1. pc[t] = "refused" /\ pc' = [pc EXCEPT ![t] = "unlock"]
    BY <1>6 DEF Refused
  <2>2. rc[t] = LSP_ERR_INVALID /\ op[t] \in {"push", "pop"}
    BY <2>1 DEF FifoInv, Codes, BoundInv, Roles
  <2>3. rc' = [rc EXCEPT ![t] = rc[t]]
    BY <1>1 DEF FifoInv, TypeOK
  <2>4. Ends(t, "unlock", rc[t])
    BY <1>1, <2>1, <2>3 DEF Ends
  <2> QED BY <1>1, <2>2, <2>4, FifoRefuse
<1> QED BY <1>2, <1>3, <1>4, <1>5, <1>6

(* A mutex that is not had in time, and the end of a timed wait.           *)
LEMMA FifoDisturb ==
  ASSUME SafeUse, FifoInv, NEW t \in Thread, Disturb(t)
  PROVE  Silent \/ Fifo!Refuse(t)
<1>1. CASE LockFail(t)
  <2>1. pc[t] = "lock" /\ UNCHANGED <<ring, op, buf>>
    BY <1>1 DEF LockFail, frame
  <2>2. Ends(t, "idle", LSP_ERR_MUTEX)
    BY <1>1 DEF LockFail, Ends, frame
  <2>3. op[t] \in {"push", "pop"}
    BY <2>1 DEF FifoInv, BoundInv, Roles
  <2> QED BY <2>1, <2>2, <2>3, FifoRefuse
<1>2. CASE WaitTimeout(t)
  <2>1. /\ UNCHANGED <<ring, buf, op>>
        /\ pc[t] = "wait" /\ pc' = [pc EXCEPT ![t] = "woken"]
        /\ \A u \in Thread \ {t} : rc'[u] = rc[u]
    BY <1>2 DEF WaitTimeout, frame, FifoInv, TypeOK
  <2> QED BY <2>1, FifoSilent
<1>3. ~SpuriousWakeup(t)
  BY DEF SpuriousWakeup, SafeUse, FifoInv, TypeOK
<1> QED BY <1>1, <1>2, <1>3 DEF Disturb

(* Every step of the queue is a step of the FIFO, or none.                 *)
LEMMA FifoStep ==
  ASSUME SafeUse, FifoInv, TypeOK', [Next]_vars
  PROVE  [Fifo!Next]_(Fifo!vars)
<1>1. ASSUME NEW t \in Thread, Call(t)
      PROVE  Fifo!StartPush(t) \/ Fifo!StartPop(t)
  BY <1>1, FifoCall
<1>2. ASSUME NEW t \in Thread, Proceed(t)
      PROVE  Silent \/ Fifo!Push(t) \/ Fifo!Pop(t) \/ Fifo!Refuse(t)
  <2>1. ~Probe(t) /\ ~Clear(t) /\ ~Destroy(t)
    BY DEF Probe, Clear, Destroy, FifoInv, BoundInv, Roles
  <2> QED BY <1>2, <2>1, FifoMutex, FifoPushCheck, FifoPopCheck, FifoPush,
             FifoPop DEF Proceed
<1>3. ASSUME NEW t \in Thread, Disturb(t) PROVE Silent \/ Fifo!Refuse(t)
  BY <1>3, FifoDisturb
<1>4. CASE UNCHANGED vars
  <2>1. Contents' = Contents /\ buf' = buf /\ pc' = pc /\ op' = op /\ rc' = rc
    BY <1>4 DEF vars, ring, frame, Contents
  <2>2. Statuses' = Statuses
    BY <2>1, StatusStays
  <2> QED BY <2>1, <2>2 DEF Statuses, Fifo!vars
<1>5. Silent => UNCHANGED Fifo!vars
  BY DEF Silent, Statuses, Fifo!vars
<1>6. Thread = Fifo!Thread
  BY SafeThreads DEF Fifo!Thread
<1> QED BY <1>1, <1>2, <1>3, <1>4, <1>5, <1>6 DEF Next, Fifo!Next

(* In safe use the queue is a bounded first-in first-out sequence to its   *)
(* callers: every call takes effect in one step, its transfer, or fails    *)
(* without effect, and QUEUE_FULL and QUEUE_EMPTY tell the truth.          *)
THEOREM FifoCorrect == ASSUME SafeUse PROVE Spec => FifoSpec
<1>1. Init => Fifo!Init
  <2> SUFFICES ASSUME Init PROVE Fifo!Init
    OBVIOUS
  <2>1. Contents = <<>>
    BY TypeInit, ContentsIs, QueueSizeAssumption DEF Init
  <2>2. ASSUME NEW t \in Thread PROVE Status(t) = "idle"
    BY DEF Init, Status
  <2>3. Thread = Fifo!Thread
    BY SafeThreads DEF Fifo!Thread
  <2> QED BY <2>1, <2>2, <2>3 DEF Init, Fifo!Init
<1>2. Spec => []Codes
  <2>1. Init => Codes
    BY DEF Init, Codes
  <2>2. Init => Unfailed
    BY DEF Init, Unfailed
  <2> QED BY <2>1, <2>2, CodesStep, UnfailedStep, TypeCorrect, PTL DEF Spec
<1>3. FifoInv /\ TypeOK' /\ [Next]_vars => [Fifo!Next]_(Fifo!vars)
  BY FifoStep
<1>4. Spec => []FifoInv
  BY <1>2, TypeCorrect, MutexCorrect, BoundCorrect, RingCorrect, PTL
  DEF FifoInv
<1> QED BY <1>1, <1>3, <1>4, TypeCorrect, PTL DEF Spec, FifoSpec, Fifo!Spec
=============================================================================
