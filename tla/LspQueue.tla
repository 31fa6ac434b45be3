------------------------------ MODULE LspQueue ------------------------------
(***************************************************************************)
(* The blocking ring queue of arch/posix/lsp_queue.c: one handle, shared   *)
(* by threads that push, pop, clear and destroy it.                        *)
(*                                                                         *)
(* A thread runs one call at a time.  pc[t] is the point its call has      *)
(* reached:                                                                *)
(*                                                                         *)
(*   idle -> lock -> check -> transfer -> unlock -> idle                   *)
(*                     |          ^                                        *)
(*                     +-> wait -> woken       (woken -> unlock on error)  *)
(*                     +-> refused ---> unlock                             *)
(*                                                                         *)
(* The steps between lock and unlock are taken one at a time because       *)
(* lsp_queue_clear and lsp_queue_destroy read the waiting counters without *)
(* the mutex.  The threads of condition variable cond_full (cond_empty)    *)
(* are those of CondFull (CondEmpty): waiting releases the mutex and joins *)
(* that set in one step, as pthread_cond_wait does, and a woken thread     *)
(* needs the mutex again before it continues.  No step is modelled after   *)
(* the handle is freed.                                                    *)
(***************************************************************************)
EXTENDS Integers, FiniteSets, LspTypes

CONSTANTS
  Producers, Consumers, Clearers, Destroyers,   \* who calls what
  Item,            \* the payloads
  NoItem,          \* a zeroed slot, an uninitialised caller buffer
  NoThread,        \* the owner of a free mutex
  QueueSize,       \* hdl->queue_size
  PushTimeouts,    \* the timeouts the pushing threads pass
  PopTimeouts,     \* the timeouts the popping threads pass
  MaxSpurious,     \* bound: spurious wake-ups of pthread_cond_wait
  ClockFails       \* whether clock_gettime may fail

Thread == Producers \cup Consumers \cup Clearers \cup Destroyers

ASSUME QueueSizeAssumption == QueueSize \in Nat \ {0}
ASSUME ThreadAssumption    == NoThread \notin Thread /\ IsFiniteSet(Thread)
ASSUME ItemAssumption      == NoItem \notin Item
ASSUME TimeoutAssumption   == PushTimeouts \subseteq Timeouts
                              /\ PopTimeouts \subseteq Timeouts
ASSUME ClimateAssumption   == MaxSpurious \in Nat /\ ClockFails \in BOOLEAN

VARIABLES
  alive,                           \* the handle is allocated
  head, tail, length, data,        \* the ring
  waiting_full, waiting_empty,     \* the counters of waiting threads
  mutex,                           \* the thread that owns hdl->mutex
  pc, op, timeout, buf, rc,        \* the frame of each thread's call
  spurious                         \* spurious wake-ups so far

ring  == <<head, tail, length, data>>
frame == <<op, timeout, buf>>
vars  == <<alive, ring, waiting_full, waiting_empty, mutex, pc, frame, rc,
           spurious>>

(* Thread t has reached the point p of a handle that is not freed.         *)
At(t, p) == alive /\ pc[t] = p

Slots   == 0 .. QueueSize - 1
Holding == {"check", "refused", "transfer", "clear", "unlock"}
Asleep  == {"wait", "woken"}
Waiting == Asleep \cup {"refused"}   \* between waiting_*++ and waiting_*--

CondFull  == {t \in Thread : pc[t] = "wait" /\ op[t] = "push"}
CondEmpty == {t \in Thread : pc[t] = "wait" /\ op[t] = "pop"}

(* Mutant: a full queue taken for one with a free slot.                    *)
IsFullLate == length > QueueSize

(***************************************************************************)
(* length is an int and queue_size a size_t: a negative length compares as *)
(* a huge one.  The emptiness test compares with the int 0.                *)
(***************************************************************************)
IsFull  == length < 0 \/ length >= QueueSize
IsEmpty == length <= 0

(* Mutant: the index is never reduced modulo queue_size.                   *)
NextIndexUnwrapped(i) == i + 1

(***************************************************************************)
(* tail = ++tail % queue_size; the two writes to tail are unsequenced, and *)
(* every build does the increment first.                                   *)
(***************************************************************************)
NextIndex(i) == (i + 1) % QueueSize

(***************************************************************************)
(* lsp_queue_create, on success: the block is zeroed.                      *)
(***************************************************************************)
Init ==
  /\ alive = TRUE
  /\ head = 0 /\ tail = 0 /\ length = 0
  /\ data = [s \in Slots |-> NoItem]
  /\ waiting_full = 0 /\ waiting_empty = 0
  /\ mutex = NoThread
  /\ pc = [t \in Thread |-> "idle"]
  /\ op = [t \in Thread |-> "none"]
  /\ timeout = [t \in Thread |-> LSP_TIMEOUT_MAX]
  /\ buf = [t \in Thread |-> NoItem]
  /\ rc = [t \in Thread |-> LSP_ERR_NONE]
  /\ spurious = 0

-----------------------------------------------------------------------------
(* The start of a call.                                                    *)

Begin(t, o, w) ==
  /\ At(t, "idle")
  /\ pc' = [pc EXCEPT ![t] = "lock"]
  /\ op' = [op EXCEPT ![t] = o]
  /\ timeout' = [timeout EXCEPT ![t] = w]
  /\ rc' = [rc EXCEPT ![t] = LSP_ERR_NONE]
  /\ UNCHANGED <<alive, ring, waiting_full, waiting_empty, mutex, spurious>>

CallPush(t) ==
  /\ t \in Producers
  /\ \E w \in PushTimeouts : Begin(t, "push", w)
  /\ \E v \in Item : buf' = [buf EXCEPT ![t] = v]

CallPop(t) ==
  /\ t \in Consumers
  /\ \E w \in PopTimeouts : Begin(t, "pop", w)
  /\ UNCHANGED buf

(* clear and destroy read one counter after the other, without the mutex.   *)
Guarded(t, o) ==
  /\ At(t, "idle")
  /\ op' = [op EXCEPT ![t] = o]
  /\ timeout' = [timeout EXCEPT ![t] = LSP_TIMEOUT_MAX]
  /\ \/ /\ waiting_empty # 0
        /\ rc' = [rc EXCEPT ![t] = LSP_ERR_RESOURCE_IN_USE]
        /\ UNCHANGED pc
     \/ /\ waiting_empty = 0
        /\ rc' = [rc EXCEPT ![t] = LSP_ERR_NONE]
        /\ pc' = [pc EXCEPT ![t] = "probe"]
  /\ UNCHANGED <<alive, ring, waiting_full, waiting_empty, mutex, buf,
                 spurious>>

CallClear(t)   == t \in Clearers /\ Guarded(t, "clear")
CallDestroy(t) == t \in Destroyers /\ Guarded(t, "destroy")

Probe(t) ==
  /\ At(t, "probe")
  /\ \/ /\ waiting_full # 0
        /\ rc' = [rc EXCEPT ![t] = LSP_ERR_RESOURCE_IN_USE]
        /\ pc' = [pc EXCEPT ![t] = "idle"]
     \/ /\ waiting_full = 0
        /\ pc' = [pc EXCEPT ![t] = IF op[t] = "clear" THEN "lock"
                                   ELSE "destroy"]
        /\ UNCHANGED rc
  /\ UNCHANGED <<alive, ring, waiting_full, waiting_empty, mutex, frame,
                 spurious>>

-----------------------------------------------------------------------------
(* lsp_mutex_lock and lsp_mutex_unlock on hdl->mutex.                      *)

Lock(t) ==
  /\ At(t, "lock")
  /\ mutex = NoThread
  /\ mutex' = t
  /\ pc' = [pc EXCEPT ![t] = IF op[t] = "clear" THEN "clear" ELSE "check"]
  /\ UNCHANGED <<alive, ring, waiting_full, waiting_empty, frame, rc,
                 spurious>>

(* Any timeout but LSP_TIMEOUT_MAX may expire on an owned mutex.           *)
LockFail(t) ==
  /\ At(t, "lock")
  /\ timeout[t] # LSP_TIMEOUT_MAX
  /\ mutex # NoThread \/ ClockFails
  /\ pc' = [pc EXCEPT ![t] = "idle"]
  /\ rc' = [rc EXCEPT ![t] = LSP_ERR_MUTEX]
  /\ UNCHANGED <<alive, ring, waiting_full, waiting_empty, mutex, frame,
                 spurious>>

Unlock(t) ==
  /\ At(t, "unlock")
  /\ mutex' = NoThread
  /\ pc' = [pc EXCEPT ![t] = "idle"]
  /\ UNCHANGED <<alive, ring, waiting_full, waiting_empty, frame, rc,
                 spurious>>

-----------------------------------------------------------------------------
(* queue_wait_internal, with the caller's increment of the waiting counter *)
(* before it.  pthread_cond_timedwait refuses a deadline whose tv_nsec is  *)
(* not below 1e9: the sum of the clock's and the timeout's sub-second      *)
(* parts, never normalised, so that a finite timeout is refused or not     *)
(* depending on the time of the call.  A refused wait keeps the mutex.     *)

(* The counter of the waiting threads of t's side becomes d more.          *)
Count(t, d) ==
  /\ waiting_full' = waiting_full + (IF op[t] = "push" THEN d ELSE 0)
  /\ waiting_empty' = waiting_empty + (IF op[t] = "pop" THEN d ELSE 0)

Sleep(t) ==
  /\ pc' = [pc EXCEPT ![t] = "wait"]
  /\ mutex' = NoThread
  /\ Count(t, 1)
  /\ UNCHANGED rc

Wait(t) ==
  \/ Sleep(t) /\ UNCHANGED timeout
  \/ /\ timeout[t] = FiniteTimeout
     /\ ClockFails               \* falls back to pthread_cond_wait
     /\ timeout' = [timeout EXCEPT ![t] = LSP_TIMEOUT_MAX]
     /\ Sleep(t)
  \/ /\ timeout[t] = FiniteTimeout
     /\ rc' = [rc EXCEPT ![t] = LSP_ERR_INVALID]
     /\ pc' = [pc EXCEPT ![t] = "refused"]
     /\ Count(t, 1)
     /\ UNCHANGED <<mutex, timeout>>

(* The caller of a refused wait takes its increment back.                  *)
Refused(t) ==
  /\ At(t, "refused")
  /\ Count(t, -1)
  /\ pc' = [pc EXCEPT ![t] = "unlock"]
  /\ UNCHANGED <<alive, ring, mutex, frame, rc, spurious>>

WaitTimeout(t) ==
  /\ At(t, "wait")
  /\ timeout[t] = FiniteTimeout
  /\ pc' = [pc EXCEPT ![t] = "woken"]
  /\ rc' = [rc EXCEPT ![t] = LSP_ERR_TIMEOUT]
  /\ UNCHANGED <<alive, ring, waiting_full, waiting_empty, mutex, frame,
                 spurious>>

SpuriousWakeup(t) ==
  /\ At(t, "wait")
  /\ spurious < MaxSpurious
  /\ spurious' = spurious + 1
  /\ pc' = [pc EXCEPT ![t] = "woken"]
  /\ UNCHANGED <<alive, ring, waiting_full, waiting_empty, mutex, frame, rc>>

(* Mutant: a failed wait goes on to the transfer like a signalled one.     *)
ReacquireAnyway(t) ==
  /\ At(t, "woken") /\ mutex = NoThread
  /\ mutex' = t
  /\ Count(t, -1)
  /\ pc' = [pc EXCEPT ![t] = "transfer"]
  /\ UNCHANGED <<alive, ring, frame, rc, spurious>>

(* Mutant: a failed wait leaves the counter of waiting threads incremented. *)
ReacquireUncounted(t) ==
  /\ At(t, "woken") /\ mutex = NoThread
  /\ mutex' = t
  /\ Count(t, IF rc[t] = LSP_ERR_NONE THEN -1 ELSE 0)
  /\ pc' = [pc EXCEPT ![t] = IF rc[t] = LSP_ERR_NONE THEN "transfer"
                             ELSE "unlock"]
  /\ UNCHANGED <<alive, ring, frame, rc, spurious>>

(* The wait returns with the mutex: a failed one ends the call, any other  *)
(* goes on to the transfer, without a second look at length.               *)
Reacquire(t) ==
  /\ At(t, "woken")
  /\ mutex = NoThread
  /\ mutex' = t
  /\ Count(t, -1)
  /\ pc' = [pc EXCEPT ![t] = IF rc[t] = LSP_ERR_NONE THEN "transfer"
                             ELSE "unlock"]
  /\ UNCHANGED <<alive, ring, frame, rc, spurious>>

-----------------------------------------------------------------------------
(* The protected part of push and pop.                                     *)

(* The test of length, blocked being its outcome and code the error that   *)
(* a call that may not wait returns.                                       *)
Check(t, blocked, code) ==
  /\ At(t, "check")
  /\ \/ /\ ~blocked
        /\ pc' = [pc EXCEPT ![t] = "transfer"]
        /\ UNCHANGED <<waiting_full, waiting_empty, mutex, timeout, rc>>
     \/ /\ blocked
        /\ timeout[t] = NoTimeout
        /\ rc' = [rc EXCEPT ![t] = code]
        /\ pc' = [pc EXCEPT ![t] = "unlock"]
        /\ UNCHANGED <<waiting_full, waiting_empty, mutex, timeout>>
     \/ blocked /\ timeout[t] # NoTimeout /\ Wait(t)
  /\ UNCHANGED <<alive, ring, op, buf, spurious>>

PushCheck(t) == op[t] = "push" /\ Check(t, IsFull, LSP_ERR_QUEUE_FULL)
PopCheck(t)  == op[t] = "pop" /\ Check(t, IsEmpty, LSP_ERR_QUEUE_EMPTY)

(* Mutant: the signal is forgotten.                                        *)
SignalNobody(t, sleepers) == pc' = [pc EXCEPT ![t] = "unlock"]

(* pthread_cond_signal by t, about to unlock: one sleeper, if any, wakes.  *)
Signal(t, sleepers) ==
  \/ /\ sleepers = {}
     /\ pc' = [pc EXCEPT ![t] = "unlock"]
  \/ \E w \in sleepers :
       pc' = [pc EXCEPT ![t] = "unlock", ![w] = "woken"]

(* Mutant: a push signals the producers instead of the consumers.          *)
PushSignalsFull(t) ==
  /\ At(t, "transfer") /\ op[t] = "push"
  /\ data' = [data EXCEPT ![tail] = buf[t]]
  /\ tail' = NextIndex(tail)
  /\ length' = length + 1
  /\ Signal(t, CondFull)
  /\ UNCHANGED <<alive, head, waiting_full, waiting_empty, mutex, frame, rc,
                 spurious>>

PushTransfer(t) ==
  /\ At(t, "transfer")
  /\ op[t] = "push"
  /\ data' = [data EXCEPT ![tail] = buf[t]]
  /\ tail' = NextIndex(tail)
  /\ length' = length + 1
  /\ Signal(t, CondEmpty)
  /\ UNCHANGED <<alive, head, waiting_full, waiting_empty, mutex, frame, rc,
                 spurious>>

PopTransfer(t) ==
  /\ At(t, "transfer")
  /\ op[t] = "pop"
  /\ buf' = [buf EXCEPT ![t] = data[head]]
  /\ head' = NextIndex(head)
  /\ length' = length - 1
  /\ Signal(t, CondFull)
  /\ UNCHANGED <<alive, tail, data, waiting_full, waiting_empty, mutex, op,
                 timeout, rc, spurious>>

-----------------------------------------------------------------------------
(* The bodies of lsp_queue_clear and lsp_queue_destroy.                    *)

(* Mutant: a clear forgets the write index.                                *)
ClearKeepsTail(t) ==
  /\ At(t, "clear")
  /\ head' = 0 /\ length' = 0
  /\ pc' = [pc EXCEPT ![t] = "unlock"]
  /\ UNCHANGED <<alive, tail, data, waiting_full, waiting_empty, mutex, frame,
                 rc, spurious>>

Clear(t) ==
  /\ At(t, "clear")
  /\ head' = 0 /\ tail' = 0 /\ length' = 0
  /\ pc' = [pc EXCEPT ![t] = "unlock"]
  /\ UNCHANGED <<alive, data, waiting_full, waiting_empty, mutex, frame, rc,
                 spurious>>

Destroy(t) ==
  /\ At(t, "destroy")
  /\ alive' = FALSE
  /\ pc' = [pc EXCEPT ![t] = "idle"]
  /\ UNCHANGED <<ring, waiting_full, waiting_empty, mutex, frame, rc,
                 spurious>>

-----------------------------------------------------------------------------

Call(t) == CallPush(t) \/ CallPop(t) \/ CallClear(t) \/ CallDestroy(t)

(* What a thread inside a call does next, left to itself.                  *)
Proceed(t) ==
  \/ Probe(t) \/ Lock(t) \/ Unlock(t) \/ Refused(t) \/ Reacquire(t)
  \/ PushCheck(t) \/ PopCheck(t) \/ PushTransfer(t) \/ PopTransfer(t)
  \/ Clear(t) \/ Destroy(t)

(* What the clock or the system does to it.                                *)
Disturb(t) == LockFail(t) \/ WaitTimeout(t) \/ SpuriousWakeup(t)

Next == \E t \in Thread : Call(t) \/ Proceed(t) \/ Disturb(t)

Spec == Init /\ [][Next]_vars

(***************************************************************************)
(* A thread that can take its next step eventually does.  Nothing obliges  *)
(* a thread to call, nor a timeout to expire.                              *)
(***************************************************************************)
FairSpec == Spec /\ \A t \in Thread : WF_vars(Proceed(t))
-----------------------------------------------------------------------------
(* Correctness of the queue in any use.                                    *)

(* The shape of the state: indexes stay inside the ring, but length is     *)
(* only an int.                                                            *)
TypeOK ==
  /\ alive \in BOOLEAN
  /\ head \in Slots /\ tail \in Slots /\ length \in Int
  /\ data \in [Slots -> Item \cup {NoItem}]
  /\ waiting_full \in Int /\ waiting_empty \in Int
  /\ mutex \in Thread \cup {NoThread}
  /\ pc \in [Thread -> {"idle", "probe", "lock", "destroy"} \cup Holding
                        \cup Asleep]
  /\ op \in [Thread -> {"none", "push", "pop", "clear", "destroy"}]
  /\ timeout \in [Thread -> Timeouts]
  /\ buf \in [Thread -> Item \cup {NoItem}]
  /\ rc \in [Thread -> {LSP_ERR_NONE, LSP_ERR_MUTEX, LSP_ERR_TIMEOUT,
                        LSP_ERR_INVALID, LSP_ERR_QUEUE_FULL,
                        LSP_ERR_QUEUE_EMPTY}]
  /\ spurious \in Nat

(* The thread that owns the mutex is the only one past lsp_mutex_lock and  *)
(* before lsp_mutex_unlock, waits on a condition variable excepted.        *)
MutualExclusion == \A t \in Thread : pc[t] \in Holding <=> mutex = t

(* The counters that clear and destroy rely on are the numbers of threads  *)
(* between waiting_*++ and waiting_*--, whatever way a wait ends.          *)
WaitCounts ==
  /\ waiting_full =
       Cardinality({t \in Thread : pc[t] \in Waiting /\ op[t] = "push"})
  /\ waiting_empty =
       Cardinality({t \in Thread : pc[t] \in Waiting /\ op[t] = "pop"})

(* Even a length that has left 0..QueueSize stays congruent to the         *)
(* distance from head to tail, so that a queue once emptied below zero     *)
(* comes back to a coherent ring when as many items are pushed.            *)
RingConsistent == (head + length - tail) % QueueSize = 0

(* The calls of kind o that a signal, or the test of length, has entitled  *)
(* to a transfer not made yet.                                             *)
Entitled(o) ==
  {t \in Thread : /\ pc[t] \in {"woken", "transfer"}
                  /\ op[t] = o
                  /\ rc[t] = LSP_ERR_NONE}

(* No lost wake-up for consumers: while one sleeps on cond_empty, every    *)
(* item in the queue is owed to a consumer already awake.                  *)
NoLostEmptyWakeup ==
  CondEmpty # {} => length <= Cardinality(Entitled("pop"))

-----------------------------------------------------------------------------
(* Correctness of the queue in the uses that its single test of length     *)
(* allows: the calls that may sleep on one side come from one thread, or   *)
(* no call of that side may sleep; nobody clears; no wake-up is spurious.  *)

SafeUse ==
  /\ PushTimeouts \subseteq {NoTimeout} \/ \A p, q \in Producers : p = q
  /\ PopTimeouts \subseteq {NoTimeout} \/ \A c, d \in Consumers : c = d
  /\ Clearers = {}
  /\ Destroyers = {}
  /\ MaxSpurious = 0

(* The ring never overflows nor underflows, and a thread that is about to  *)
(* write finds a free slot, one about to read an item.                     *)
InBounds ==
  /\ length \in 0 .. QueueSize
  /\ \A t \in Thread : pc[t] = "transfer" =>
       /\ op[t] = "push" => length < QueueSize
       /\ op[t] = "pop" => length > 0

(* No lost wake-up for producers: while one sleeps on cond_full, every     *)
(* free slot is owed to a producer already awake.                          *)
NoLostFullWakeup ==
  CondFull # {} => QueueSize - length <= Cardinality(Entitled("push"))

(* The queue implements the bounded FIFO, the transfer being the step at   *)
(* which a call takes effect.                                              *)
Contents == [i \in 1 .. length |-> data[(head + i - 1) % QueueSize]]

Status(t) ==
  CASE pc[t] \notin {"idle", "unlock"} -> op[t]
    [] pc[t] \in {"idle", "unlock"} /\ op[t] = "none" -> "idle"
    [] OTHER -> CASE rc[t] = LSP_ERR_NONE -> "done"
                  [] rc[t] = LSP_ERR_QUEUE_FULL -> "full"
                  [] rc[t] = LSP_ERR_QUEUE_EMPTY -> "empty"
                  [] OTHER -> "failed"

Fifo == INSTANCE BoundedFifo WITH
          Capacity <- QueueSize,
          queue    <- Contents,
          status   <- [t \in Thread |-> Status(t)]

FifoSpec == Fifo!Spec

(* Once every call waits for ever, a push that finds room, or a pop that   *)
(* finds an item, while it is inside the call, returns: neither starves    *)
(* behind the other, whatever the calls before them timed out on.          *)
Patient == <>[](\A t \in Thread : timeout[t] = LSP_TIMEOUT_MAX)

PushServed == Patient => \A t \in Producers :
  (pc[t] # "idle" /\ op[t] = "push" /\ length < QueueSize)
    ~> (pc[t] = "idle")
PopServed == Patient => \A t \in Consumers :
  (pc[t] # "idle" /\ op[t] = "pop" /\ length > 0) ~> (pc[t] = "idle")

-----------------------------------------------------------------------------
(* What the headers say, and the code does not do in every use.            *)

(* lsp_queue.h, lsp_queue_pop: "pops data from queue".                     *)
PopHasItem == \A t \in Thread :
  pc[t] = "transfer" /\ op[t] = "pop" => length > 0
=============================================================================
