-------------------------- MODULE LspEgroupProofs ---------------------------
(***************************************************************************)
(* What holds of LspEgroup for every set of events, of threads and of      *)
(* calls: the type, no missed event, and the refinement of EventFlags, of  *)
(* its weaker specification in any use and of what the header promises     *)
(* where every wait waits for ever.                                        *)
(***************************************************************************)
EXTENDS LspEgroup, TLAPS

USE DEF At

(* The three classes of timeouts are distinct.                             *)
LEMMA TimeoutsDistinct ==
  /\ LSP_TIMEOUT_MAX \in Timeouts /\ NoTimeout \in Timeouts
  /\ FiniteTimeout \in Timeouts
  /\ LSP_TIMEOUT_MAX # NoTimeout /\ LSP_TIMEOUT_MAX # FiniteTimeout
  /\ NoTimeout # FiniteTimeout
  BY DEF Timeouts, LSP_TIMEOUT_MAX, NoTimeout, FiniteTimeout

(* The arguments of the calls are requests.                                *)
LEMMA RequestTypes ==
  /\ NoRequest \in Requests
  /\ \A t \in Waiters : \A w \in WaitCalls[t] :
       w \in Requests /\ w.timeout \in Timeouts
  /\ \A r \in Requests, m \in SetMasks : [r EXCEPT !.bits = m] \in Requests
  BY CallAssumption, TimeoutsDistinct DEF Requests, NoRequest

(* A created group has the shape TypeOK.                                   *)
LEMMA TypeInit == Init => TypeOK
  BY RequestTypes, TimeoutsDistinct DEF Init, TypeOK

(* Every step keeps that shape.                                            *)
LEMMA TypeStep == TypeOK /\ [Next]_vars => TypeOK'
<1> SUFFICES ASSUME TypeOK, [Next]_vars PROVE TypeOK'
  OBVIOUS
<1> USE DEF TypeOK, Holding
<1>1. ASSUME NEW t \in Thread, CallWait(t) PROVE TypeOK'
  BY <1>1, RequestTypes DEF CallWait
<1>2. ASSUME NEW t \in Thread, CallSet(t) PROVE TypeOK'
  <2>1. PICK m \in SetMasks : request' = [request EXCEPT ![t].bits = m]
    BY <1>2 DEF CallSet
  <2>2. request' \in [Thread -> Requests]
    BY <2>1, RequestTypes
  <2> QED BY <1>2, <2>2 DEF CallSet
<1>3. ASSUME NEW t \in Thread, Destroy(t) PROVE TypeOK'
  BY <1>3 DEF Destroy
<1>4. ASSUME NEW t \in Thread, Lock(t) \/ Unlock(t) PROVE TypeOK'
  BY <1>4 DEF Lock, Unlock
<1>5. ASSUME NEW t \in Thread, Check(t) PROVE TypeOK'
  <2>1. /\ pc' \in [Thread -> {"idle", "lock", "wait", "woken", "read"}
                              \cup Holding]
        /\ mutex' \in Thread \cup {NoThread}
    BY <1>5 DEF Check, Sleep
  <2>2. remaining' \in [Thread -> Timeouts]
    <3>1. \/ UNCHANGED remaining
          \/ \E r \in {NoTimeout, FiniteTimeout} :
               remaining' = [remaining EXCEPT ![t] = r]
      BY <1>5 DEF Check
    <3> QED BY <3>1, TimeoutsDistinct
  <2>3. timed' \in [Thread -> BOOLEAN]
    <3>1. \/ UNCHANGED timed
          \/ \E d \in BOOLEAN : timed' = [timed EXCEPT ![t] = d]
      BY <1>5 DEF Check, Sleep
    <3> QED BY <3>1
  <2> QED BY <1>5, <2>1, <2>2, <2>3 DEF Check
<1>6. ASSUME NEW t \in Thread, Reacquire(t) PROVE TypeOK'
  BY <1>6 DEF Reacquire
<1>7. ASSUME NEW t \in Thread, Finish(t) \/ Read(t) PROVE TypeOK'
  BY <1>7 DEF Finish, Read
<1>8. ASSUME NEW t \in Thread, Raise(t) PROVE TypeOK'
  <2>1. event_bits' \subseteq Bit
    BY <1>8 DEF Raise, Requests
  <2> QED BY <1>8, <2>1 DEF Raise, Broadcast
<1>9. ASSUME NEW t \in Thread, Disturb(t) PROVE TypeOK'
  BY <1>9 DEF Disturb, LockFail, WaitTimeout, SpuriousWakeup
<1>10. CASE UNCHANGED vars
  BY <1>10 DEF vars
<1> QED BY <1>1, <1>2, <1>3, <1>4, <1>5, <1>6, <1>7, <1>8, <1>9, <1>10
    DEF Next, Call, Proceed

(* The shape of the group's state, for every group.                        *)
THEOREM TypeCorrect == Spec => []TypeOK
  BY TypeInit, TypeStep, PTL DEF Spec

-----------------------------------------------------------------------------
(* The inductive invariant: who is where, who owns the mutex, and what a   *)
(* wait for ever knows while it sleeps and when it finishes.               *)

Roles == \A t \in Thread :
  /\ pc[t] \in {"check", "wait", "woken", "finish"} => t \in Waiters
  /\ pc[t] \in {"raise", "read"} => t \in Setters
  /\ pc[t] # "idle" => t \in Waiters \cup Setters

Exclusion == \A t \in Thread : pc[t] \in Holding <=> mutex = t

FinishFulfilled == \A t \in Thread :
  pc[t] = "finish" /\ ForEver(t) => Fulfilled(t)

IndInv == TypeOK /\ Roles /\ Exclusion /\ FinishFulfilled /\ NoMissedEvent

(* A wait not fulfilled stays so when events are taken away.               *)
LEMMA FewerEvents ==
  ASSUME NEW ev, NEW more, ev \subseteq more, NEW w, Fulfils(ev, w)
  PROVE  Fulfils(more, w)
  BY DEF Fulfils

(* A created group satisfies the inductive invariant.                      *)
LEMMA IndInit == Init => IndInv
<1> SUFFICES ASSUME Init PROVE Roles /\ Exclusion /\ FinishFulfilled
                               /\ NoMissedEvent
  BY TypeInit DEF IndInv
<1> QED BY ThreadAssumption
    DEF Init, Roles, Exclusion, Holding, FinishFulfilled, NoMissedEvent,
        Asleep

(* Every step keeps the roles and the mutual exclusion.                    *)
LEMMA ControlStep ==
  ASSUME IndInv, [Next]_vars PROVE Roles' /\ Exclusion'
<1> USE ThreadAssumption DEF IndInv, TypeOK, Roles, Exclusion, Holding
<1>1. ASSUME NEW t \in Thread, Call(t) PROVE Roles' /\ Exclusion'
  BY <1>1 DEF Call, CallWait, CallSet, Destroy
<1>2. ASSUME NEW t \in Thread, Lock(t) PROVE Roles' /\ Exclusion'
  BY <1>2 DEF Lock
<1>3. ASSUME NEW t \in Thread, Unlock(t) PROVE Roles' /\ Exclusion'
  BY <1>3 DEF Unlock
<1>4. ASSUME NEW t \in Thread, Check(t) PROVE Roles' /\ Exclusion'
  BY <1>4 DEF Check, Sleep
<1>5. ASSUME NEW t \in Thread, Reacquire(t) PROVE Roles' /\ Exclusion'
  BY <1>5 DEF Reacquire
<1>6. ASSUME NEW t \in Thread, Finish(t) \/ Read(t) PROVE Roles' /\ Exclusion'
  BY <1>6 DEF Finish, Read
<1>7. ASSUME NEW t \in Thread, Raise(t) PROVE Roles' /\ Exclusion'
  BY <1>7 DEF Raise, Broadcast
<1>8. ASSUME NEW t \in Thread, Disturb(t) PROVE Roles' /\ Exclusion'
  BY <1>8 DEF Disturb, LockFail, WaitTimeout, SpuriousWakeup
<1>9. CASE UNCHANGED vars
  BY <1>9 DEF vars
<1> QED BY <1>1, <1>2, <1>3, <1>4, <1>5, <1>6, <1>7, <1>8, <1>9
    DEF Next, Proceed

(* A step that leaves the events and the requests of the calls in progress *)
(* alone, puts nobody to sleep and lets nobody finish.                     *)
LEMMA EventsKept ==
  ASSUME FinishFulfilled, NoMissedEvent, event_bits' = event_bits,
         \A u \in Thread : pc'[u] \in {"wait", "finish"} =>
           pc'[u] = pc[u] /\ request'[u] = request[u]
  PROVE  FinishFulfilled' /\ NoMissedEvent'
  BY DEF FinishFulfilled, NoMissedEvent, Asleep, Fulfilled, ForEver

(* Every step keeps what the waits know of the events.                     *)
LEMMA EventsStep ==
  ASSUME IndInv, [Next]_vars PROVE FinishFulfilled' /\ NoMissedEvent'
<1> DEFINE Goal == FinishFulfilled' /\ NoMissedEvent'
<1> USE DEF IndInv, TypeOK
<1>1. ASSUME NEW t \in Thread, Call(t) PROVE Goal
  <2>1. /\ event_bits' = event_bits
        /\ \A u \in Thread : pc'[u] \in {"wait", "finish"} =>
             pc'[u] = pc[u] /\ request'[u] = request[u]
    BY <1>1 DEF Call, CallWait, CallSet, Destroy
  <2> QED BY <2>1, EventsKept
<1>2. ASSUME NEW t \in Thread, Lock(t) \/ Unlock(t) \/ Read(t) PROVE Goal
  <2>1. /\ event_bits' = event_bits
        /\ \A u \in Thread : pc'[u] \in {"wait", "finish"} =>
             pc'[u] = pc[u] /\ request'[u] = request[u]
    BY <1>2 DEF Lock, Unlock, Read
  <2> QED BY <2>1, EventsKept
<1>3. ASSUME NEW t \in Thread, Disturb(t) PROVE Goal
  <2>1. /\ event_bits' = event_bits
        /\ \A u \in Thread : pc'[u] \in {"wait", "finish"} =>
             pc'[u] = pc[u] /\ request'[u] = request[u]
    BY <1>3 DEF Disturb, LockFail, WaitTimeout, SpuriousWakeup
  <2> QED BY <2>1, EventsKept
<1>4. ASSUME NEW t \in Thread, Check(t) PROVE Goal
  BY <1>4, TimeoutsDistinct
  DEF Check, Sleep, FinishFulfilled, NoMissedEvent, Asleep, Fulfilled, ForEver
<1>5. ASSUME NEW t \in Thread, Reacquire(t) PROVE Goal
  BY <1>5
  DEF Reacquire, FinishFulfilled, NoMissedEvent, Asleep, Fulfilled, ForEver
<1>6. ASSUME NEW t \in Thread, Finish(t) PROVE Goal
  <2>1. event_bits' \subseteq event_bits /\ request' = request
    BY <1>6 DEF Finish
  <2>2. \A u \in Thread : pc'[u] \in {"wait", "finish"} =>
          u # t /\ pc'[u] = pc[u]
    BY <1>6 DEF Finish
  <2>3. \A u \in Thread : pc'[u] # "finish"
    BY <1>6, <2>2 DEF Exclusion, Holding, Finish
  <2>4. ASSUME NEW u \in Thread, pc'[u] = "wait", ForEver(u)'
        PROVE  ~Fulfilled(u)'
    <3>1. pc[u] = "wait" /\ ForEver(u)
      BY <2>1, <2>2, <2>4 DEF ForEver
    <3>2. ~Fulfils(event_bits, request[u])
      BY <3>1 DEF NoMissedEvent, Asleep, Fulfilled
    <3>3. ~Fulfils(event_bits', request[u])
      BY <2>1, <3>2, FewerEvents
    <3> QED BY <2>1, <3>3 DEF Fulfilled
  <2> QED BY <2>3, <2>4 DEF FinishFulfilled, NoMissedEvent, Asleep
<1>7. ASSUME NEW t \in Thread, Raise(t) PROVE Goal
  <2>1. \A u \in Thread : pc'[u] # "wait"
    BY <1>7 DEF Raise, Broadcast
  <2>2. \A u \in Thread : pc'[u] # "finish"
    BY <1>7 DEF Raise, Broadcast, Exclusion, Holding
  <2> QED BY <2>1, <2>2 DEF FinishFulfilled, NoMissedEvent, Asleep
<1>8. CASE UNCHANGED vars
  <2>1. /\ event_bits' = event_bits
        /\ \A u \in Thread : pc'[u] \in {"wait", "finish"} =>
             pc'[u] = pc[u] /\ request'[u] = request[u]
    BY <1>8 DEF vars
  <2> QED BY <2>1, EventsKept
<1> QED BY <1>1, <1>2, <1>3, <1>4, <1>5, <1>6, <1>7, <1>8
    DEF Next, Proceed

(* Every step keeps the inductive invariant.                               *)
LEMMA IndStep == IndInv /\ [Next]_vars => IndInv'
  BY TypeStep, ControlStep, EventsStep DEF IndInv

(* Hence it always holds.                                                  *)
LEMMA IndCorrect == Spec => []IndInv
  BY IndInit, IndStep, PTL DEF Spec

(* No thread that waits for ever sleeps through the events it waits for.   *)
THEOREM NoMissedEventCorrect == Spec => []NoMissedEvent
<1>1. IndInv => NoMissedEvent
  BY DEF IndInv
<1> QED BY <1>1, IndCorrect, PTL

-----------------------------------------------------------------------------
(* The refinement of EventFlags.                                           *)

(* How the value of Status follows pc.                                     *)
LEMMA StatusValue ==
  ASSUME NEW t \in Waiters \cup Setters
  PROVE  /\ pc[t] = "idle" => Status(t) = "idle"
         /\ pc[t] = "unlock" /\ t \in Waiters => Status(t) = "idle"
         /\ pc[t] = "unlock" /\ t \in Setters => Status(t) = "raised"
         /\ pc[t] = "read" => Status(t) = "raised"
         /\ pc[t] \notin {"idle", "unlock", "read"} => Status(t) = "calling"
  BY ThreadAssumption DEF Status

(* The same of the next state.                                             *)
LEMMA StatusNext ==
  ASSUME NEW t \in Waiters \cup Setters
  PROVE  /\ pc'[t] = "idle" => Status(t)' = "idle"
         /\ pc'[t] = "unlock" /\ t \in Waiters => Status(t)' = "idle"
         /\ pc'[t] = "unlock" /\ t \in Setters => Status(t)' = "raised"
         /\ pc'[t] = "read" => Status(t)' = "raised"
         /\ pc'[t] \notin {"idle", "unlock", "read"} => Status(t)' = "calling"
  BY ThreadAssumption DEF Status

(* The group and its abstraction mean the same wait for ever.              *)
LEMMA TimeoutShared == Flags!LSP_TIMEOUT_MAX = LSP_TIMEOUT_MAX
  BY DEF LSP_TIMEOUT_MAX, Flags!LSP_TIMEOUT_MAX

(* A created group is an initial state of the event flags.                 *)
LEMMA FlagsInit == Init => Flags!Init
  BY StatusValue, TimeoutShared
  DEF Init, Thread, NoRequest, Flags!Init, Flags!Thread, Flags!NoRequest

(* A step after which every thread has the same status, and nothing that   *)
(* the flags show has changed.                                             *)
LEMMA Stutter ==
  ASSUME event_bits' = event_bits, request' = request, ebits' = ebits,
         \A u \in Waiters \cup Setters : Status(u)' = Status(u)
  PROVE  UNCHANGED Flags!vars
  BY DEF Flags!vars

(* A step of t that only moves its pc, without changing its status.        *)
LEMMA StatusKept ==
  ASSUME NEW t \in Thread, TypeOK,
         \A u \in Thread : u # t => pc'[u] = pc[u],
         t \in Waiters \cup Setters => Status(t)' = Status(t)
  PROVE  \A u \in Waiters \cup Setters : Status(u)' = Status(u)
<1> SUFFICES ASSUME NEW u \in Waiters \cup Setters, u # t
             PROVE  Status(u)' = Status(u)
  OBVIOUS
<1>1. pc'[u] = pc[u]
  BY DEF Thread
<1> QED BY <1>1 DEF Status

(* A step of t that moves only its status, to v.                           *)
LEMMA StatusMoved ==
  ASSUME NEW t \in Waiters \cup Setters, TypeOK,
         \A u \in Thread : u # t => pc'[u] = pc[u],
         NEW v, Status(t)' = v
  PROVE  [u \in Waiters \cup Setters |-> Status(u)]' =
           [[u \in Waiters \cup Setters |-> Status(u)] EXCEPT ![t] = v]
<1>1. ASSUME NEW u \in Waiters \cup Setters, u # t
      PROVE  Status(u)' = Status(u)
  <2>1. pc'[u] = pc[u]
    BY <1>1 DEF Thread
  <2> QED BY <2>1 DEF Status
<1> QED BY <1>1

(* Every step of the group is one of the event flags, or a stutter.        *)
LEMMA FlagsStep == IndInv /\ [Next]_vars => [Flags!LapsingNext]_(Flags!vars)
<1> SUFFICES ASSUME IndInv, [Next]_vars
             PROVE  Flags!LapsingNext \/ UNCHANGED Flags!vars
  OBVIOUS
<1> DEFINE Goal == Flags!LapsingNext \/ UNCHANGED Flags!vars
<1> USE DEF IndInv, TypeOK, Flags!LapsingNext
<1>1. ASSUME NEW t \in Thread, CallWait(t) PROVE Goal
  <2>1. t \in Waiters /\ Status(t) = "idle" /\ Status(t)' = "calling"
    BY <1>1, StatusValue, StatusNext DEF CallWait
  <2>2. \A u \in Thread : u # t => pc'[u] = pc[u]
    BY <1>1 DEF CallWait
  <2>3. PICK w \in WaitCalls[t] : request' = [request EXCEPT ![t] = w]
    BY <1>1 DEF CallWait
  <2>4. Flags!Start(t)
    BY <1>1, <2>1, <2>2, <2>3, StatusMoved DEF CallWait, Flags!Start, Thread
  <2> QED BY <2>1, <2>4 DEF Flags!Next, Flags!Thread
<1>2. ASSUME NEW t \in Thread, CallSet(t) PROVE Goal
  <2>1. t \in Setters /\ Status(t) = "idle" /\ Status(t)' = "calling"
    BY <1>2, StatusValue, StatusNext DEF CallSet
  <2>2. \A u \in Thread : u # t => pc'[u] = pc[u]
    BY <1>2 DEF CallSet
  <2>3. PICK m \in SetMasks : request' = [request EXCEPT ![t].bits = m]
    BY <1>2 DEF CallSet
  <2>4. Flags!Start(t)
    BY <1>2, <2>1, <2>2, <2>3, StatusMoved DEF CallSet, Flags!Start, Thread
  <2> QED BY <2>1, <2>4 DEF Flags!Next, Flags!Thread
<1>3. ASSUME NEW t \in Thread,
             Destroy(t) \/ Lock(t) \/ Unlock(t) \/ Check(t) \/ Reacquire(t)
               \/ WaitTimeout(t) \/ SpuriousWakeup(t)
      PROVE  Goal
  <2>1. event_bits' = event_bits /\ request' = request /\ ebits' = ebits
    BY <1>3 DEF Destroy, Lock, Unlock, Check, Reacquire, WaitTimeout,
                SpuriousWakeup
  <2>2. \A u \in Thread : u # t => pc'[u] = pc[u]
    BY <1>3 DEF Destroy, Lock, Unlock, Check, Sleep, Reacquire, WaitTimeout,
                SpuriousWakeup
  <2>3. ASSUME t \in Waiters \cup Setters PROVE Status(t)' = Status(t)
    <3>1. CASE Destroy(t)
      BY <3>1 DEF Destroy, Status
    <3>2. CASE Unlock(t)
      BY <2>3, <3>2, StatusValue, StatusNext, ThreadAssumption DEF Unlock
    <3>3. CASE Lock(t) \/ Check(t) \/ Reacquire(t) \/ WaitTimeout(t)
                 \/ SpuriousWakeup(t)
      <4>1. /\ pc[t] \notin {"idle", "unlock", "read"}
            /\ pc'[t] \notin {"idle", "unlock", "read"}
        BY <3>3 DEF Lock, Check, Sleep, Reacquire, WaitTimeout,
                    SpuriousWakeup
      <4> QED BY <2>3, <4>1, StatusValue, StatusNext
    <3> QED BY <1>3, <3>1, <3>2, <3>3
  <2> QED BY <2>1, <2>2, <2>3, StatusKept, Stutter
<1>4. ASSUME NEW t \in Thread, LockFail(t) PROVE Goal
  <2>1. \A u \in Thread : u # t => pc'[u] = pc[u]
    BY <1>4 DEF LockFail
  <2>2. event_bits' = event_bits /\ request' = request
    BY <1>4 DEF LockFail
  <2>3. CASE t \in Waiters
    <3>1. t \notin Setters
      BY <2>3, ThreadAssumption
    <3>2. PICK garbage \in SUBSET Bit :
            ebits' = [ebits EXCEPT ![t] = garbage]
      BY <1>4, <3>1 DEF LockFail
    <3>3. Status(t) = "calling" /\ Status(t)' = "idle"
      BY <1>4, <2>3, <3>1, StatusValue, StatusNext DEF LockFail
    <3>4. request[t].timeout # LSP_TIMEOUT_MAX
      BY <1>4, <3>1 DEF LockFail, ForEver
    <3>5. Flags!Lapse(t)
      BY <2>1, <2>2, <2>3, <3>2, <3>3, <3>4, StatusMoved,
         TimeoutShared
      DEF Flags!Lapse, Thread
    <3> QED BY <2>3, <3>5 DEF Flags!Thread
  <2>4. CASE t \in Setters
    <3>1. t \notin Waiters
      BY <2>4, ThreadAssumption
    <3>2. ebits' = ebits
      BY <1>4, <3>1 DEF LockFail
    <3>3. Status(t) = "calling" /\ Status(t)' = "raised"
      BY <1>4, <2>4, <3>1, StatusValue, StatusNext DEF LockFail
    <3>4. Flags!Raise(t)
      BY <2>1, <2>2, <2>4, <3>2, <3>3, StatusMoved DEF Flags!Raise
    <3> QED BY <2>4, <3>4 DEF Flags!Next, Flags!Thread
  <2> QED BY <1>4, <2>3, <2>4 DEF LockFail
<1>5. ASSUME NEW t \in Thread, Finish(t) PROVE Goal
  <2>1. t \in Waiters
    BY <1>5 DEF Finish, Roles
  <2>2. \A u \in Thread : u # t => pc'[u] = pc[u]
    BY <1>5 DEF Finish
  <2>3. Status(t) = "calling" /\ Status(t)' = "idle"
    BY <1>5, <2>1, StatusValue, StatusNext DEF Finish
  <2>4. /\ event_bits' = Flags!Remaining(event_bits, request[t])
        /\ ebits' = [ebits EXCEPT ![t] = event_bits]
        /\ request' = request
    BY <1>5 DEF Finish, Flags!Remaining
  <2>5. CASE Fulfilled(t)
    <3>1. Flags!Fulfils(event_bits, request[t])
      BY <2>5 DEF Fulfilled, Fulfils, Flags!Fulfils
    <3>2. Flags!Take(t)
      BY <2>1, <2>2, <2>3, <2>4, <3>1, StatusMoved DEF Flags!Take, Thread
    <3> QED BY <2>1, <3>2 DEF Flags!Next, Flags!Thread
  <2>6. CASE ~Fulfilled(t)
    <3>1. request[t].timeout # LSP_TIMEOUT_MAX
      BY <1>5, <2>6 DEF Finish, FinishFulfilled, ForEver
    <3>2. Flags!Lapse(t)
      BY <2>1, <2>2, <2>3, <2>4, <3>1, StatusMoved, TimeoutShared
      DEF Flags!Lapse, Thread
    <3> QED BY <2>1, <3>2 DEF Flags!Thread
  <2> QED BY <2>5, <2>6
<1>6. ASSUME NEW t \in Thread, Raise(t) PROVE Goal
  <2>1. t \in Setters
    BY <1>6 DEF Raise, Roles
  <2>2. Status(t) = "calling" /\ Status(t)' = "raised"
    BY <1>6, <2>1, StatusValue, StatusNext DEF Raise, Broadcast
  <2>3. ASSUME NEW u \in Waiters \cup Setters, u # t
        PROVE  Status(u)' = Status(u)
    <3>1. pc'[u] = IF pc[u] = "wait" THEN "woken" ELSE pc[u]
      BY <1>6, <2>3 DEF Raise, Broadcast, Thread
    <3> QED BY <3>1 DEF Status
  <2>4. [u \in Waiters \cup Setters |-> Status(u)]' =
          [[u \in Waiters \cup Setters |-> Status(u)] EXCEPT ![t] = "raised"]
    BY <2>1, <2>2, <2>3
  <2>5. Flags!Raise(t)
    BY <1>6, <2>1, <2>2, <2>4 DEF Raise, Flags!Raise
  <2> QED BY <2>1, <2>5 DEF Flags!Next, Flags!Thread
<1>7. ASSUME NEW t \in Thread, Read(t) PROVE Goal
  <2>1. t \in Setters
    BY <1>7 DEF Read, Roles
  <2>2. \A u \in Thread : u # t => pc'[u] = pc[u]
    BY <1>7 DEF Read
  <2>3. Status(t) = "raised" /\ Status(t)' = "idle"
    BY <1>7, <2>1, StatusValue, StatusNext DEF Read
  <2>4. Flags!Return(t)
    BY <1>7, <2>1, <2>2, <2>3, StatusMoved DEF Read, Flags!Return, Thread
  <2> QED BY <2>1, <2>4 DEF Flags!Next, Flags!Thread
<1>8. CASE UNCHANGED vars
  BY <1>8, Stutter DEF vars, Status
<1> QED BY <1>1, <1>2, <1>3, <1>4, <1>5, <1>6, <1>7, <1>8
    DEF Next, Call, Proceed, Disturb

(* In any use lsp_egroup.c implements event flags that a wait takes in one *)
(* step, and no raised event is taken twice or disappears unreturned; only *)
(* waits with a timeout return what does not fulfil them.                  *)
THEOREM LapsingCorrect == Spec => LapsingFlags
<1>1. Spec => Flags!Init /\ [][Flags!LapsingNext]_(Flags!vars)
  BY FlagsInit, FlagsStep, IndCorrect, PTL DEF Spec
<1> QED BY <1>1 DEF LapsingFlags, Flags!LapsingSpec

(* No call has a timeout.                                                  *)
AllForEver == \A t \in Waiters : request[t].timeout = LSP_TIMEOUT_MAX

(* It has none as long as no wait is called with one.                      *)
LEMMA AllForEverStep ==
  ASSUME \A t \in Waiters : \A w \in WaitCalls[t] :
           w.timeout = LSP_TIMEOUT_MAX,
         TypeOK, AllForEver, [Next]_vars
  PROVE  AllForEver'
<1> USE DEF AllForEver, TypeOK
<1>1. ASSUME NEW t \in Thread, CallWait(t) PROVE AllForEver'
  BY <1>1 DEF CallWait
<1>2. ASSUME NEW t \in Thread, CallSet(t) PROVE AllForEver'
  BY <1>2, ThreadAssumption DEF CallSet
<1>3. request' = request => AllForEver'
  OBVIOUS
<1> QED BY <1>1, <1>2, <1>3
    DEF Next, Call, Proceed, Disturb, Destroy, Lock, Unlock, Check, Reacquire,
        Finish, Raise, Read, LockFail, WaitTimeout, SpuriousWakeup, vars

(* Without a timeout no wait lapses.                                       *)
LEMMA NoLapse ==
  AllForEver /\ [Flags!LapsingNext]_(Flags!vars) => [Flags!Next]_(Flags!vars)
<1> SUFFICES ASSUME AllForEver, NEW t \in Flags!Thread, Flags!Lapse(t)
             PROVE  FALSE
  BY DEF Flags!LapsingNext
<1> QED BY TimeoutShared DEF AllForEver, Flags!Lapse

(* Where every wait waits for ever lsp_egroup.c keeps the promise of its   *)
(* header: a wait returns only events that fulfil it, taken in one step.   *)
THEOREM FlagsCorrect ==
  ASSUME \A t \in Waiters : \A w \in WaitCalls[t] :
           w.timeout = LSP_TIMEOUT_MAX
  PROVE  Spec => FlagsSpec
<1>1. Init => AllForEver
  BY DEF Init, AllForEver, NoRequest, Thread
<1>2. IndInv /\ AllForEver /\ [Next]_vars => AllForEver'
  BY AllForEverStep DEF IndInv
<1>3. IndInv /\ AllForEver /\ [Next]_vars => [Flags!Next]_(Flags!vars)
  BY FlagsStep, NoLapse
<1>4. Spec => Flags!Init /\ [][Flags!Next]_(Flags!vars)
  BY <1>1, <1>2, <1>3, FlagsInit, IndCorrect, PTL DEF Spec
<1> QED BY <1>4 DEF FlagsSpec, Flags!Spec
=============================================================================
