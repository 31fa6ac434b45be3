--------------------------- MODULE LspTimeProofs ----------------------------
(***************************************************************************)
(* What holds of LspTime for all units, timeouts and times of the clock.   *)
(***************************************************************************)
EXTENDS LspTime, TLAPS

(* Quotient and remainder are what they should be ...                      *)
LEMMA DivMod ==
  ASSUME NEW n \in Nat, NEW d \in Nat \ {0}
  PROVE  /\ n \div d \in Nat /\ n % d \in 0 .. d - 1
         /\ n = d * (n \div d) + (n % d)
  OBVIOUS

(* ... and only that.                                                      *)
LEMMA QuotientUnique ==
  ASSUME NEW d \in Nat \ {0}, NEW q \in Nat, NEW r \in 0 .. d - 1
  PROVE  (d * q + r) \div d = q /\ (d * q + r) % d = r
  OBVIOUS

(* A second is a number of nanoseconds.                                    *)
LEMMA SecondPositive == NsPerSec \in Nat \ {0}
  BY UnitAssumption DEF NsPerSec

(* The seconds and the nanoseconds that the code adds up.                  *)
Seconds(n, ms) == n \div NsPerSec + ms \div MsPerSec
Nanos(n, ms)   == (n % NsPerSec) + (ms % MsPerSec) * NsPerMs

(* m ms to the second and k ns to the ms, a and c seconds, d ms, b ns.     *)
LEMMA Regroup ==
  ASSUME NEW m \in Nat, NEW k \in Nat, NEW a \in Nat, NEW b \in Nat,
         NEW c \in Nat, NEW d \in Nat
  PROVE  ((m * k) * a + b) + (m * c + d) * k = (m * k) * (a + c) + (b + d * k)
<1>1. (m * c + d) * k = (m * k) * c + d * k
  OBVIOUS
<1>2. (m * k) * (a + c) = (m * k) * a + (m * k) * c
  OBVIOUS
<1> QED BY <1>1, <1>2

(* The sums of the code stand for the instant asked for, with less than    *)
(* two seconds of nanoseconds.                                             *)
LEMMA SumSplit ==
  ASSUME NEW n \in Nat, NEW ms \in Nat
  PROVE  /\ Seconds(n, ms) \in Nat
         /\ Nanos(n, ms) \in 0 .. 2 * NsPerSec - 1
         /\ n + ms * NsPerMs = NsPerSec * Seconds(n, ms) + Nanos(n, ms)
<1> DEFINE a == n \div NsPerSec
           b == n % NsPerSec
           c == ms \div MsPerSec
           d == ms % MsPerSec
<1>1. /\ a \in Nat /\ b \in 0 .. NsPerSec - 1
      /\ n = NsPerSec * a + b
  BY DivMod, SecondPositive
<1>2. /\ c \in Nat /\ d \in 0 .. MsPerSec - 1
      /\ ms = MsPerSec * c + d
  BY DivMod, UnitAssumption
<1>3. d * NsPerMs \in 0 .. NsPerSec - NsPerMs
  <2>1. d * NsPerMs \in Nat
    BY <1>2, UnitAssumption
  <2>2. d <= MsPerSec - 1
    BY <1>2, UnitAssumption
  <2>3. d * NsPerMs <= (MsPerSec - 1) * NsPerMs
    BY <1>2, <2>2, UnitAssumption
  <2>4. (MsPerSec - 1) * NsPerMs = NsPerSec - NsPerMs
    BY UnitAssumption DEF NsPerSec
  <2> QED BY <2>1, <2>3, <2>4, UnitAssumption, SecondPositive
<1>4. Seconds(n, ms) = a + c /\ Nanos(n, ms) = b + d * NsPerMs
  BY DEF Seconds, Nanos
<1>5. (NsPerSec * a + b) + (MsPerSec * c + d) * NsPerMs
        = NsPerSec * (a + c) + (b + d * NsPerMs)
  <2> HIDE DEF a, b, c, d
  <2> QED BY <1>1, <1>2, Regroup, UnitAssumption, SecondPositive DEF NsPerSec
<1>6. b + d * NsPerMs \in 0 .. 2 * NsPerSec - 1
  <2> HIDE DEF a, b, c, d
  <2> QED BY <1>1, <1>3, UnitAssumption, SecondPositive
<1> HIDE DEF a, b, c, d
<1>7. n + ms * NsPerMs = NsPerSec * (a + c) + (b + d * NsPerMs)
  BY <1>1, <1>2, <1>5
<1> QED BY <1>1, <1>2, <1>4, <1>6, <1>7

(* The sums of the code are natural numbers.                               *)
LEMMA SumType ==
  ASSUME NEW n \in Nat, NEW ms \in Nat
  PROVE  Seconds(n, ms) \in Nat /\ Nanos(n, ms) \in Nat
<1> DEFINE r == Nanos(n, ms)
<1>1. Seconds(n, ms) \in Nat /\ r \in 0 .. 2 * NsPerSec - 1
  BY SumSplit
<1> HIDE DEF r
<1>2. r \in Nat
  BY <1>1, SecondPositive
<1> QED BY <1>1, <1>2 DEF r

(* When no second is carried the sums are the instant as they stand.       *)
LEMMA Uncarried ==
  ASSUME NEW n \in Nat, NEW ms \in Nat, Nanos(n, ms) < NsPerSec
  PROVE  /\ Timespec(n + ms * NsPerMs) = [sec |-> Seconds(n, ms), nsec |-> Nanos(n, ms)]
         /\ (n + ms * NsPerMs) \div NsPerSec = Seconds(n, ms)
<1> DEFINE q == Seconds(n, ms)
           r == Nanos(n, ms)
<1>1. q \in Nat /\ r \in 0 .. NsPerSec - 1 /\ n + ms * NsPerMs = NsPerSec * q + r
  BY SumSplit, SecondPositive
<1> HIDE DEF q, r
<1>2. (NsPerSec * q + r) \div NsPerSec = q /\ (NsPerSec * q + r) % NsPerSec = r
  BY <1>1, QuotientUnique, SecondPositive
<1> QED BY <1>1, <1>2 DEF Timespec, q, r

(* When one is, they are after the normalisation that the mutex does.      *)
LEMMA CarriedOne ==
  ASSUME NEW n \in Nat, NEW ms \in Nat, Nanos(n, ms) >= NsPerSec
  PROVE  /\ Timespec(n + ms * NsPerMs)
              = [sec  |-> Seconds(n, ms) + Nanos(n, ms) \div NsPerSec,
                 nsec |-> Nanos(n, ms) % NsPerSec]
         /\ Nanos(n, ms) % NsPerSec \in 0 .. NsPerSec - 1
         /\ (n + ms * NsPerMs) \div NsPerSec = Seconds(n, ms) + 1
<1> DEFINE q == Seconds(n, ms)
           r == Nanos(n, ms)
           s == r - NsPerSec
<1>1. /\ q \in Nat /\ r \in 0 .. 2 * NsPerSec - 1 /\ r >= NsPerSec
      /\ n + ms * NsPerMs = NsPerSec * q + r
  BY SumSplit, SecondPositive
<1> HIDE DEF q, r
<1>2. s \in 0 .. NsPerSec - 1 /\ r = NsPerSec * 1 + s
  BY <1>1, SecondPositive
<1>3. r \div NsPerSec = 1 /\ r % NsPerSec = s
  <2> HIDE DEF s
  <2>1. (NsPerSec * 1 + s) \div NsPerSec = 1 /\ (NsPerSec * 1 + s) % NsPerSec = s
    BY <1>2, QuotientUnique, SecondPositive
  <2> QED BY <1>2, <2>1
<1>4. NsPerSec * q + r = NsPerSec * (q + 1) + s
  BY <1>1, SecondPositive
<1> HIDE DEF s
<1>5. /\ (NsPerSec * (q + 1) + s) \div NsPerSec = q + 1
      /\ (NsPerSec * (q + 1) + s) % NsPerSec = s
  <2>1. q + 1 \in Nat
    BY <1>1
  <2> QED BY <2>1, <1>2, QuotientUnique, SecondPositive
<1> QED BY <1>1, <1>2, <1>3, <1>4, <1>5 DEF Timespec, q, r

-----------------------------------------------------------------------------

(* A call asleep on a queue is one whose seconds were not carried.         *)
OnCarry == Due \div NsPerSec > start \div NsPerSec + timeout \div MsPerSec

Uncrossed == pc = "sleep" /\ op = "queue" => ~OnCarry

(* Only lsp_egroup_wait has a loop, and sleeps without a deadline.         *)
LoopIsEgroup == pc \in {"loop", "wait"} => op = "egroup"

(* The inductive invariant.                                                *)
Inv ==
  TypeOK /\ DeadlineExact /\ RefusedOnCarry /\ Uncrossed /\ LoopIsEgroup

(* What clock_gettime returns.                                             *)
LEMMA TimespecType ==
  ASSUME NEW n \in Nat
  PROVE  /\ Timespec(n) \in [sec : Nat, nsec : Nat]
         /\ Timespec(n).nsec < NsPerSec
  BY DivMod, SecondPositive DEF Timespec

(* Deadline in terms of the sums.                                          *)
LEMMA DeadlineIs ==
  ASSUME NEW ms
  PROVE  Deadline(ms) = [sec |-> Seconds(now, ms), nsec |-> Nanos(now, ms)]
  BY DEF Deadline, Timespec, Seconds, Nanos

(* A deadline is a timespec, perhaps of too many nanoseconds.              *)
LEMMA DeadlineType ==
  ASSUME now \in Nat, NEW ms \in Nat
  PROVE  Deadline(ms) \in [sec : Nat, nsec : Nat]
  BY DeadlineIs, SumSplit, SecondPositive

(* A timeout fits a uint32_t.                                              *)
LEMMA DelayType == Delays \subseteq Nat /\ Delays \subseteq 0 .. UintMod - 1
  BY DelayAssumption, UnitAssumption

(* So do the milliseconds of the clock, and max_time.                      *)
LEMMA ClockType ==
  ASSUME now \in Nat
  PROVE  /\ lsp_gettime_ms \in 0 .. UintMod - 1
         /\ \A ms \in Nat : (lsp_gettime_ms + ms) % UintMod \in 0 .. UintMod - 1
<1>1. Timespec(now).sec * MsPerSec + Timespec(now).nsec * NsPerMs \in Nat
  <2>1. Timespec(now).sec \in Nat /\ Timespec(now).nsec \in Nat
    BY TimespecType
  <2>2. /\ Timespec(now).sec * MsPerSec \in Nat
        /\ Timespec(now).nsec * NsPerMs \in Nat
    BY <2>1, UnitAssumption
  <2> QED BY <2>2
<1>2. lsp_gettime_ms \in 0 .. UintMod - 1
  BY <1>1, DivMod, UnitAssumption DEF lsp_gettime_ms
<1> QED BY <1>2, DivMod, UnitAssumption

(* No call has been made.                                                  *)
LEMMA InvInit == Init => Inv
<1> SUFFICES ASSUME Init PROVE Inv
  OBVIOUS
<1>1. now \in Nat
  BY SecondPositive DEF Init
<1>2. Timespec(0) \in [sec : Nat, nsec : Nat]
  BY TimespecType
<1> QED BY <1>1, <1>2, UnitAssumption
        DEF Init, Inv, TypeOK, DeadlineExact, RefusedOnCarry, Uncrossed,
            LoopIsEgroup

(* A lock of the mutex is never refused, and sleeps until it is due.       *)
LEMMA LockMutexStep == Inv /\ LockMutex => Inv'
<1> SUFFICES ASSUME Inv, LockMutex PROVE Inv'
  OBVIOUS
<1>1. PICK ms \in Delays : /\ Call("mutex", ms)
                           /\ Sleep(Carried(Deadline(ms)))
                           /\ NoLoop
  BY DEF LockMutex
<1>2. ms \in Nat /\ now \in Nat
  BY DelayType DEF Inv, TypeOK
<1>3. /\ start' = now /\ timeout' = ms /\ op' = "mutex" /\ now' = now
      /\ max_time' = 0 /\ remaining_timeout' = 0
  BY <1>1 DEF Call, NoLoop
<1>4. Carried(Deadline(ms)) = Timespec(now + ms * NsPerMs)
  <2>1. CASE Nanos(now, ms) < NsPerSec
    BY <2>1, <1>2, DeadlineIs, Uncarried, SumSplit, SecondPositive DEF Carried
  <2>2. CASE Nanos(now, ms) >= NsPerSec
    BY <2>2, <1>2, DeadlineIs, CarriedOne DEF Carried
  <2> QED BY <2>1, <2>2, <1>2, SumSplit, SecondPositive
<1>5. now + ms * NsPerMs \in Nat
  BY <1>2, UnitAssumption
<1>6. /\ Timespec(now + ms * NsPerMs) \in [sec : Nat, nsec : Nat]
      /\ Timespec(now + ms * NsPerMs).nsec < NsPerSec
  BY <1>5, TimespecType
<1>7. pc' = "sleep" /\ deadline' = Timespec(now + ms * NsPerMs) /\ outcome' = outcome
  BY <1>1, <1>4, <1>6, SecondPositive DEF Sleep
<1>8. Timespec(Due)' = Timespec(now + ms * NsPerMs)
  BY <1>3 DEF Due, Timespec
<1>9. TypeOK'
  BY <1>2, <1>3, <1>6, <1>7, UnitAssumption DEF Inv, TypeOK
<1> QED BY <1>3, <1>7, <1>8, <1>9
        DEF Inv, DeadlineExact, RefusedOnCarry, Uncrossed,
            LoopIsEgroup

(* A wait on a queue sleeps until it is due, or is refused on a carry.     *)
LEMMA WaitQueueStep == Inv /\ WaitQueue => Inv'
<1> SUFFICES ASSUME Inv, WaitQueue PROVE Inv'
  OBVIOUS
<1>1. PICK ms \in Delays : /\ Call("queue", ms)
                           /\ Sleep(Deadline(ms))
                           /\ NoLoop
  BY DEF WaitQueue
<1>2. ms \in Nat /\ now \in Nat
  BY DelayType DEF Inv, TypeOK
<1>3. /\ start' = now /\ timeout' = ms /\ op' = "queue" /\ now' = now
      /\ max_time' = 0 /\ remaining_timeout' = 0
  BY <1>1 DEF Call, NoLoop
<1>4. Deadline(ms) = [sec |-> Seconds(now, ms), nsec |-> Nanos(now, ms)]
  BY DeadlineIs
<1>5. Due' = now + ms * NsPerMs /\ Timespec(Due)' = Timespec(now + ms * NsPerMs)
  BY <1>3 DEF Due, Timespec
<1>6. Seconds(now, ms) \in Nat /\ Nanos(now, ms) \in Nat
  BY <1>2, SumType
<1>7. OnCarry' <=> (now + ms * NsPerMs) \div NsPerSec > Seconds(now, ms)
  BY <1>3, <1>5 DEF OnCarry, Seconds
<1>8. CASE Nanos(now, ms) < NsPerSec
  <2>1. /\ Timespec(now + ms * NsPerMs) = Deadline(ms)
        /\ (now + ms * NsPerMs) \div NsPerSec = Seconds(now, ms)
    BY <1>2, <1>4, <1>8, Uncarried
  <2>2. pc' = "sleep" /\ deadline' = Deadline(ms) /\ outcome' = outcome
    BY <1>1, <1>4, <1>6, <1>8, SecondPositive DEF Sleep
  <2>3. ~OnCarry'
    BY <1>6, <1>7, <2>1
  <2>4. TypeOK'
    BY <1>2, <1>3, <2>2, DeadlineType, UnitAssumption DEF Inv, TypeOK
  <2> QED BY <1>3, <1>5, <2>1, <2>2, <2>3, <2>4
          DEF Inv, DeadlineExact, RefusedOnCarry, Uncrossed,
            LoopIsEgroup
<1>9. CASE Nanos(now, ms) >= NsPerSec
  <2>1. (now + ms * NsPerMs) \div NsPerSec = Seconds(now, ms) + 1
    BY <1>2, <1>9, CarriedOne
  <2>2. pc' = "idle" /\ outcome' = "refused" /\ deadline' = deadline
    BY <1>1, <1>4, <1>6, <1>9, SecondPositive DEF Sleep
  <2>3. OnCarry'
    BY <1>6, <1>7, <2>1
  <2>4. TypeOK'
    BY <1>2, <1>3, <2>2, UnitAssumption DEF Inv, TypeOK
  <2> QED BY <1>3, <2>2, <2>3, <2>4
          DEF Inv, DeadlineExact, RefusedOnCarry, Uncrossed,
            LoopIsEgroup,
            OnCarry
<1> QED BY <1>6, <1>8, <1>9, SecondPositive

(* In an event group nothing but the types of the locals is at stake.      *)
LEMMA WaitEgroupStep == Inv /\ WaitEgroup => Inv'
<1> SUFFICES ASSUME Inv, WaitEgroup PROVE Inv'
  OBVIOUS
<1>1. PICK ms \in Delays : /\ Call("egroup", ms)
                           /\ max_time' = (lsp_gettime_ms + ms) % UintMod
                           /\ remaining_timeout' = ms
                           /\ pc' = "loop"
                           /\ UNCHANGED <<now, deadline, outcome>>
  BY DEF WaitEgroup
<1>2. ms \in Nat /\ ms \in 0 .. UintMod - 1 /\ now \in Nat
  BY DelayType DEF Inv, TypeOK
<1>3. max_time' \in 0 .. UintMod - 1
  BY <1>1, <1>2, ClockType
<1> QED BY <1>1, <1>2, <1>3
        DEF Call, Inv, TypeOK, DeadlineExact, RefusedOnCarry, Uncrossed,
            LoopIsEgroup

(* What the event group believes is left stays within its type.            *)
LEMMA LoopStep == Inv /\ Loop => Inv'
<1> SUFFICES ASSUME Inv, Loop PROVE Inv'
  OBVIOUS
<1> USE DEF Inv, TypeOK
<1>1. /\ op = "egroup" /\ op' = op /\ now' = now /\ timeout' = timeout
      /\ start' = start /\ max_time' = max_time
  BY DEF Loop, LoopIsEgroup
<1>2. /\ remaining_timeout' \in 0 .. UintMod - 1
      /\ deadline' \in [sec : Nat, nsec : Nat]
      /\ pc' \in {"idle", "sleep", "wait"}
      /\ outcome' \in {"none", "done", "timeout", "refused"}
  <2>1. CASE remaining_timeout > 0
    <3>1. remaining_timeout' = Left
      BY <2>1 DEF Loop
    <3>2. Left \in 0 .. UintMod - 1
      BY ClockType, UnitAssumption DEF Left
    <3>3. Deadline(Left) \in [sec : Nat, nsec : Nat]
      BY <3>2, DeadlineType, UnitAssumption
    <3>4. \/ Sleep(Deadline(Left))
          \/ pc' = "wait" /\ UNCHANGED <<deadline, outcome>>
      BY <2>1 DEF Loop
    <3> QED BY <3>1, <3>2, <3>3, <3>4 DEF Sleep
  <2>2. CASE remaining_timeout = 0
    BY <2>2 DEF Loop
  <2> QED BY <2>1, <2>2, UnitAssumption
<1> QED BY <1>1, <1>2
        DEF DeadlineExact, RefusedOnCarry, Uncrossed, LoopIsEgroup

(* The end of a sleep by the clock was not refused.                        *)
LEMMA ExpireStep == Inv /\ Expire => Inv'
<1> SUFFICES ASSUME Inv, Expire PROVE Inv'
  OBVIOUS
<1>1. /\ pc = "sleep"
      /\ UNCHANGED <<now, op, timeout, start, deadline, egroup>>
  BY DEF Expire
<1>2. Due' = Due /\ (OnCarry' <=> OnCarry)
  BY <1>1 DEF Due, OnCarry
<1>3. TypeOK'
  BY <1>1 DEF Expire, Inv, TypeOK, egroup
<1>4. DeadlineExact' /\ Uncrossed' /\ LoopIsEgroup'
  BY <1>1 DEF Expire, DeadlineExact, Uncrossed, LoopIsEgroup
<1>5. RefusedOnCarry'
  BY <1>1, <1>2 DEF Expire, Inv, Uncrossed, RefusedOnCarry, OnCarry
<1> QED BY <1>3, <1>4, <1>5 DEF Inv

(* A call that was served says nothing of time.                            *)
LEMMA WakeStep == Inv /\ Wake => Inv'
<1> SUFFICES ASSUME Inv, Wake PROVE Inv'
  OBVIOUS
<1>1. /\ pc \in {"sleep", "wait"}
      /\ UNCHANGED <<now, op, timeout, start, deadline, egroup>>
  BY DEF Wake
<1>2. Due' = Due /\ (OnCarry' <=> OnCarry)
  BY <1>1 DEF Due, OnCarry
<1>3. TypeOK'
  BY <1>1 DEF Wake, Inv, TypeOK, egroup
<1>4. DeadlineExact' /\ Uncrossed' /\ LoopIsEgroup'
  BY <1>1 DEF Wake, Inv, DeadlineExact, Uncrossed, LoopIsEgroup
<1>5. RefusedOnCarry'
  BY <1>1, <1>2 DEF Wake, Inv, Uncrossed, LoopIsEgroup, RefusedOnCarry, OnCarry
<1> QED BY <1>3, <1>4, <1>5 DEF Inv

(* The passing of time makes nothing early.                                *)
LEMMA TickStep == Inv /\ Tick => Inv'
<1> SUFFICES ASSUME Inv, Tick PROVE Inv'
  OBVIOUS
<1>1. /\ now \in Nat /\ now' = now + 1
      /\ UNCHANGED <<pc, op, timeout, start, deadline, egroup, outcome>>
  BY DEF Tick, Inv, TypeOK
<1>2. Due' = Due /\ Timespec(Due)' = Timespec(Due) /\ Due \in Nat
  BY <1>1, UnitAssumption DEF Due, Timespec, Inv, TypeOK
<1>3. TypeOK'
  BY <1>1 DEF Inv, TypeOK, egroup
<1>4. DeadlineExact' /\ LoopIsEgroup'
  BY <1>1, <1>2 DEF Inv, DeadlineExact, LoopIsEgroup
<1>5. RefusedOnCarry' /\ Uncrossed'
  BY <1>1, <1>2 DEF Inv, RefusedOnCarry, Uncrossed, OnCarry
<1> QED BY <1>3, <1>4, <1>5 DEF Inv

(* Each step preserves the invariant.                                      *)
LEMMA InvStep == Inv /\ [Next]_vars => Inv'
<1> SUFFICES ASSUME Inv, [Next]_vars PROVE Inv'
  OBVIOUS
<1>1. CASE UNCHANGED vars
  BY <1>1 DEF vars, egroup, Inv, TypeOK, DeadlineExact, RefusedOnCarry,
              Uncrossed, LoopIsEgroup, OnCarry, Due, Timespec
<1> QED BY <1>1, LockMutexStep, WaitQueueStep, WaitEgroupStep, LoopStep,
           ExpireStep, WakeStep, TickStep DEF Next

(* It holds in every state.                                                *)
LEMMA Invariance == Spec => []Inv
  BY InvInit, InvStep, PTL DEF Spec

(* Every local keeps its type; the event group's own clock and what it     *)
(* believes is left stay within a uint32_t.                                *)
THEOREM TypeCorrect == Spec => []TypeOK
<1>1. Inv => TypeOK
  BY DEF Inv
<1> QED BY <1>1, Invariance, PTL

(* Whatever the instant of the call and its timeout, the deadline of a     *)
(* thread asleep on a mutex or a queue is that instant plus that timeout.  *)
THEOREM Exact == Spec => []DeadlineExact
<1>1. Inv => DeadlineExact
  BY DEF Inv
<1> QED BY <1>1, Invariance, PTL

(* A lock is never refused, a wait on a queue only on a carry, and then    *)
(* always.                                                                 *)
THEOREM Refusals == Spec => []RefusedOnCarry
<1>1. Inv => RefusedOnCarry
  BY DEF Inv
<1> QED BY <1>1, Invariance, PTL
=============================================================================
