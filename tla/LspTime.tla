------------------------------ MODULE LspTime -------------------------------
(***************************************************************************)
(* How the finite timeouts of arch/posix are reckoned: the deadlines of    *)
(* lsp_mutex_lock, of queue_wait_internal and of egroup_wait_internal, and *)
(* the time that lsp_egroup_wait believes is left.  One thread makes one   *)
(* call after another, and sleeps in it; the clock runs.                   *)
(*                                                                         *)
(* A time of the clock is a number of nanoseconds, and becomes a timespec, *)
(* [sec, nsec], as the code reads it.  The constants stand for 1000 ms,    *)
(* 10^6 ns and 2^32.                                                       *)
(*                                                                         *)
(* CLOCK_REALTIME, which lsp_mutex_lock reads, is never set, and a clock   *)
(* can be read: LspQueue and LspEgroup have the calls whose clock fails.   *)
(***************************************************************************)
EXTENDS Integers

CONSTANTS
  MsPerSec, NsPerMs,   \* 1000 and 1000000
  UintMod,             \* 2^32
  Delays,              \* the finite timeouts, in ms, that calls are given
  MaxNow               \* bound: where the clock stops

ASSUME UnitAssumption ==
  /\ MsPerSec \in Nat \ {0} /\ NsPerMs \in Nat \ {0} /\ UintMod \in Nat \ {0}
ASSUME DelayAssumption == Delays \subseteq 1 .. UintMod - 2
ASSUME NowAssumption == MaxNow \in Nat

NsPerSec == MsPerSec * NsPerMs

VARIABLES
  now,         \* CLOCK_MONOTONIC
  pc,          \* idle, in the loop of lsp_egroup_wait, asleep until the
               \* deadline, or asleep without one ("wait")
  op,          \* the function called last
  timeout,     \* its timeout, in ms
  start,       \* when it was called
  deadline,    \* what pthread_*_timed* was given
  max_time, remaining_timeout,   \* the locals of lsp_egroup_wait
  outcome      \* how the last call ended

egroup == <<max_time, remaining_timeout>>
vars   == <<now, pc, op, timeout, start, deadline, egroup, outcome>>

Timespec(n) == [sec |-> n \div NsPerSec, nsec |-> n % NsPerSec]

(* lsp_gettime_ms: the nanoseconds are multiplied by 10^6.                 *)
lsp_gettime_ms ==
  (Timespec(now).sec * MsPerSec + Timespec(now).nsec * NsPerMs) % UintMod

(* The two additions made to the time of the clock.                        *)
Deadline(ms) ==
  [sec  |-> Timespec(now).sec + ms \div MsPerSec,
   nsec |-> Timespec(now).nsec + (ms % MsPerSec) * NsPerMs]

(* Mutant: only a sum beyond one second is carried.                        *)
CarriedLate(d) ==
  IF d.nsec > NsPerSec
  THEN [sec |-> d.sec + d.nsec \div NsPerSec, nsec |-> d.nsec % NsPerSec]
  ELSE d

(* Mutant: the nanoseconds are reduced and the second is lost.             *)
CarriedLost(d) == [d EXCEPT !.nsec = @ % NsPerSec]

(* What lsp_mutex_lock does next, and the waits do not.                    *)
Carried(d) ==
  IF d.nsec >= NsPerSec
  THEN [sec |-> d.sec + d.nsec \div NsPerSec, nsec |-> d.nsec % NsPerSec]
  ELSE d

Init ==
  /\ now \in 0 .. NsPerSec
  /\ pc = "idle" /\ op = "none" /\ outcome = "none"
  /\ timeout = 0 /\ start = 0
  /\ deadline = Timespec(0)
  /\ max_time = 0 /\ remaining_timeout = 0

-----------------------------------------------------------------------------

(* pthread_mutex_timedlock and pthread_cond_timedwait refuse a tv_nsec of  *)
(* a second or more.                                                       *)
Sleep(d) ==
  \/ /\ d.nsec < NsPerSec
     /\ pc' = "sleep"
     /\ deadline' = d
     /\ UNCHANGED outcome
  \/ /\ d.nsec >= NsPerSec
     /\ pc' = "idle"
     /\ outcome' = "refused"
     /\ UNCHANGED deadline

Call(o, ms) ==
  /\ pc = "idle"
  /\ op' = o /\ timeout' = ms /\ start' = now

NoLoop ==
  /\ max_time' = 0 /\ remaining_timeout' = 0
  /\ UNCHANGED now

LockMutex ==
  \E ms \in Delays : /\ Call("mutex", ms)
                     /\ Sleep(Carried(Deadline(ms)))
                     /\ NoLoop

WaitQueue ==
  \E ms \in Delays : /\ Call("queue", ms)
                     /\ Sleep(Deadline(ms))
                     /\ NoLoop

(* lsp_egroup_wait, up to the loop of its finite waits.                    *)
WaitEgroup ==
  \E ms \in Delays : /\ Call("egroup", ms)
                     /\ max_time' = (lsp_gettime_ms + ms) % UintMod
                     /\ remaining_timeout' = ms
                     /\ pc' = "loop"
                     /\ UNCHANGED <<now, deadline, outcome>>

(* Mutant: a wait past its time has a negative time left.                  *)
LeftSigned == max_time - lsp_gettime_ms

Left == IF max_time > lsp_gettime_ms THEN max_time - lsp_gettime_ms ELSE 0

(* The largest uint32_t is the timeout of a wait for ever.                 *)
LSP_TIMEOUT_MAX == UintMod - 1

(* One turn of the loop, or its end.  A time left that happens to be       *)
(* LSP_TIMEOUT_MAX is slept without a deadline.                            *)
Loop ==
  /\ pc = "loop"
  /\ \/ /\ remaining_timeout > 0
        /\ remaining_timeout' = Left
        /\ Left # LSP_TIMEOUT_MAX
        /\ Sleep(Deadline(Left))
     \/ /\ remaining_timeout > 0
        /\ remaining_timeout' = Left
        /\ Left = LSP_TIMEOUT_MAX
        /\ pc' = "wait"
        /\ UNCHANGED <<deadline, outcome>>
     \/ /\ remaining_timeout = 0
        /\ pc' = "idle"
        /\ outcome' = "timeout"
        /\ UNCHANGED <<remaining_timeout, deadline>>
  /\ UNCHANGED <<now, op, timeout, start, max_time>>

(* The clock has reached the timespec d.                                   *)
Reached(d) ==
  \/ Timespec(now).sec > d.sec
  \/ Timespec(now).sec = d.sec /\ Timespec(now).nsec >= d.nsec

(* ETIMEDOUT: a mutex and a queue give up, an event group looks again.     *)
Expire ==
  /\ pc = "sleep"
  /\ Reached(deadline)
  /\ \/ op # "egroup" /\ pc' = "idle" /\ outcome' = "timeout"
     \/ op = "egroup" /\ pc' = "loop" /\ UNCHANGED outcome
  /\ UNCHANGED <<now, op, timeout, start, deadline, egroup>>

(* The sleep ends with what it was for, or, in an event group, with events *)
(* of others.                                                              *)
Wake ==
  /\ pc \in {"sleep", "wait"}
  /\ \/ pc' = "idle" /\ outcome' = "done"
     \/ op = "egroup" /\ pc' = "loop" /\ UNCHANGED outcome
  /\ UNCHANGED <<now, op, timeout, start, deadline, egroup>>

Tick ==
  /\ now < MaxNow
  /\ now' = now + 1
  /\ UNCHANGED <<pc, op, timeout, start, deadline, egroup, outcome>>

Next == LockMutex \/ WaitQueue \/ WaitEgroup \/ Loop \/ Expire \/ Wake \/ Tick

Spec == Init /\ [][Next]_vars

-----------------------------------------------------------------------------

(* The locals keep their types; the time that the event group believes is  *)
(* left stays within a uint32_t.                                           *)
TypeOK ==
  /\ now \in Nat /\ start \in Nat
  /\ pc \in {"idle", "loop", "sleep", "wait"}
  /\ op \in {"none", "mutex", "queue", "egroup"}
  /\ timeout \in Nat
  /\ deadline \in [sec : Nat, nsec : Nat]
  /\ max_time \in 0 .. UintMod - 1
  /\ remaining_timeout \in 0 .. UintMod - 1
  /\ outcome \in {"none", "done", "timeout", "refused"}

(* The instant that the timeout asks for.                                  *)
Due == start + timeout * NsPerMs

(* A thread asleep on a mutex or on a queue is woken by the clock at the   *)
(* instant its timeout asks for, not earlier and not later: what the code  *)
(* adds to the seconds and to the nanoseconds makes that instant.          *)
DeadlineExact ==
  pc = "sleep" /\ op # "egroup" => deadline = Timespec(Due)

(* lsp_mutex_lock is never refused; a wait on a queue is, exactly when the *)
(* instant it asks for lies in a later second than the seconds of its      *)
(* timeout alone reach.                                                    *)
RefusedOnCarry ==
  pc = "idle" /\ op \in {"mutex", "queue"} =>
    (outcome = "refused") =
      (op = "queue" /\
         Due \div NsPerSec > start \div NsPerSec + timeout \div MsPerSec)

-----------------------------------------------------------------------------

(* lsp_egroup.h, lsp_egroup_wait: "0 if timeout expired".  A wait for      *)
(* events that gives up has waited all its timeout.                        *)
EgroupNeverEarly ==
  pc = "idle" /\ op = "egroup" /\ outcome = "timeout" => now >= Due
=============================================================================
