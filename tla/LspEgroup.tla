----------------------------- MODULE LspEgroup ------------------------------
(***************************************************************************)
(* The event group of arch/posix/lsp_egroup.c: one handle, threads that    *)
(* wait for events and threads that set them.  pc[t] is the point that the *)
(* call of t has reached:                                                  *)
(*                                                                         *)
(*   wait:  idle -> lock -> check -> wait -> woken -> (check | finish)     *)
(*                            +-> finish -> unlock -> idle                 *)
(*   set:   idle -> lock -> raise -> unlock -> read -> idle                *)
(*                                                                         *)
(* The setter's last read of event_bits is made without the mutex.         *)
(***************************************************************************)
EXTENDS Integers, FiniteSets, LspTypes

CONSTANTS
  Waiters, Setters, Destroyers,   \* who calls what
  Bit,             \* the events of the group
  WaitCalls,       \* the arguments each waiter calls its waits with
  SetMasks,        \* the sets of events that are set
  NoThread,        \* the owner of a free mutex
  MaxSpurious,     \* bound: spurious wake-ups of pthread_cond_wait
  ClockFails       \* whether clock_gettime may fail

Thread == Waiters \cup Setters \cup Destroyers

ASSUME ThreadAssumption ==
  /\ NoThread \notin Thread
  /\ Waiters \cap Setters = {}
  /\ Destroyers \cap (Waiters \cup Setters) = {}

(* The arguments of lsp_egroup_wait; of a set only bits has a meaning.     *)
Requests  == [bits : SUBSET Bit, clearOnExit : BOOLEAN, waitAll : BOOLEAN,
              timeout : Timeouts]
NoRequest == [bits |-> {}, clearOnExit |-> FALSE, waitAll |-> FALSE,
              timeout |-> LSP_TIMEOUT_MAX]

ASSUME CallAssumption ==
  /\ WaitCalls \in [Waiters -> SUBSET Requests]
  /\ SetMasks \subseteq SUBSET Bit
ASSUME ClimateAssumption == MaxSpurious \in Nat /\ ClockFails \in BOOLEAN

VARIABLES
  alive,        \* the handle is allocated
  event_bits,   \* handle->event_bits
  mutex,        \* the thread that owns handle->mutex
  pc,
  request,      \* the arguments of each thread's last call
  remaining,    \* remaining_timeout of each wait
  timed,        \* whether the current sleep has a deadline
  ebits,        \* the value each thread's last call returned
  spurious      \* spurious wake-ups so far

vars == <<alive, event_bits, mutex, pc, request, remaining, timed, ebits,
          spurious>>

(* Thread t has reached the point p of a handle that is not freed.         *)
At(t, p) == alive /\ pc[t] = p

Holding == {"check", "finish", "raise", "unlock"}
Asleep  == {t \in Thread : pc[t] = "wait"}

(* The loop condition of lsp_egroup_wait on the events ev.                 *)
Fulfils(ev, w) ==
  IF w.waitAll THEN w.bits \subseteq ev ELSE w.bits \cap ev # {}

Fulfilled(t) == Fulfils(event_bits, request[t])
ForEver(t)   == request[t].timeout = LSP_TIMEOUT_MAX

(* What a group made by lsp_egroup_create or lsp_egroup_init starts with.  *)
Init ==
  /\ alive = TRUE
  /\ event_bits = {}
  /\ mutex = NoThread
  /\ pc = [t \in Thread |-> "idle"]
  /\ request = [t \in Thread |-> NoRequest]
  /\ remaining = [t \in Thread |-> NoTimeout]
  /\ timed = [t \in Thread |-> FALSE]
  /\ ebits = [t \in Thread |-> {}]
  /\ spurious = 0

-----------------------------------------------------------------------------
(* The start of a call, the mutex, the end of a call.                      *)

CallWait(t) ==
  /\ t \in Waiters
  /\ At(t, "idle")
  /\ \E w \in WaitCalls[t] :
       /\ request' = [request EXCEPT ![t] = w]
       /\ remaining' = [remaining EXCEPT ![t] = w.timeout]
  /\ pc' = [pc EXCEPT ![t] = "lock"]
  /\ UNCHANGED <<alive, event_bits, mutex, timed, ebits, spurious>>

CallSet(t) ==
  /\ t \in Setters
  /\ At(t, "idle")
  /\ \E m \in SetMasks : request' = [request EXCEPT ![t].bits = m]
  /\ pc' = [pc EXCEPT ![t] = "lock"]
  /\ UNCHANGED <<alive, event_bits, mutex, remaining, timed, ebits, spurious>>

Lock(t) ==
  /\ At(t, "lock")
  /\ mutex = NoThread
  /\ mutex' = t
  /\ pc' = [pc EXCEPT ![t] = IF t \in Setters THEN "raise" ELSE "check"]
  /\ UNCHANGED <<alive, event_bits, request, remaining, timed, ebits,
                 spurious>>

(* The mutex is not obtained in time.  A wait returns its ebits without    *)
(* ever having assigned it.  A set waits 100 ms for the mutex.             *)
LockFail(t) ==
  /\ At(t, "lock")
  /\ mutex # NoThread \/ ClockFails
  /\ \/ /\ t \in Waiters /\ ~ForEver(t)
        /\ \E garbage \in SUBSET Bit : ebits' = [ebits EXCEPT ![t] = garbage]
        /\ pc' = [pc EXCEPT ![t] = "idle"]
     \/ /\ t \in Setters
        /\ pc' = [pc EXCEPT ![t] = "read"]
        /\ UNCHANGED ebits
  /\ UNCHANGED <<alive, event_bits, mutex, request, remaining, timed,
                 spurious>>

Unlock(t) ==
  /\ At(t, "unlock")
  /\ mutex' = NoThread
  /\ pc' = [pc EXCEPT ![t] = IF t \in Setters THEN "read" ELSE "idle"]
  /\ UNCHANGED <<alive, event_bits, request, remaining, timed, ebits,
                 spurious>>

-----------------------------------------------------------------------------
(* egroup_wait_internal.                                                   *)

Sleep(t, deadline) ==
  /\ timed' = [timed EXCEPT ![t] = deadline]
  /\ mutex' = NoThread
  /\ pc' = [pc EXCEPT ![t] = "wait"]

WaitTimeout(t) ==
  /\ At(t, "wait")
  /\ timed[t]
  /\ pc' = [pc EXCEPT ![t] = "woken"]
  /\ UNCHANGED <<alive, event_bits, mutex, request, remaining, timed, ebits,
                 spurious>>

SpuriousWakeup(t) ==
  /\ At(t, "wait")
  /\ spurious < MaxSpurious
  /\ spurious' = spurious + 1
  /\ pc' = [pc EXCEPT ![t] = "woken"]
  /\ UNCHANGED <<alive, event_bits, mutex, request, remaining, timed, ebits>>

-----------------------------------------------------------------------------
(* lsp_egroup_wait, under the mutex.                                       *)

(* A wait for ever sleeps unless its events are there.  A wait of 0 ms     *)
(* never sleeps.  Any other sleeps before it looks: the time that          *)
(* lsp_gettime_ms leaves it is any, a deadline whose tv_nsec the addition  *)
(* carried past 1e9 is refused (a sleep of 0 ms has none), and without a   *)
(* clock the sleep has no deadline.                                        *)
Check(t) ==
  /\ At(t, "check")
  /\ \/ /\ ForEver(t) /\ ~Fulfilled(t)
        /\ Sleep(t, FALSE)
        /\ UNCHANGED remaining
     \/ /\ ForEver(t) /\ Fulfilled(t)
        /\ pc' = [pc EXCEPT ![t] = "finish"]
        /\ UNCHANGED <<mutex, remaining, timed>>
     \/ /\ request[t].timeout = NoTimeout
        /\ pc' = [pc EXCEPT ![t] = "finish"]
        /\ UNCHANGED <<mutex, remaining, timed>>
     \/ /\ request[t].timeout = FiniteTimeout
        /\ \E r \in {NoTimeout, FiniteTimeout} :
             /\ remaining' = [remaining EXCEPT ![t] = r]
             /\ \/ Sleep(t, TRUE)
                \/ ClockFails /\ Sleep(t, FALSE)
                \/ /\ r = FiniteTimeout
                   /\ pc' = [pc EXCEPT ![t] = "finish"]
                   /\ UNCHANGED <<mutex, timed>>
  /\ UNCHANGED <<alive, event_bits, request, ebits, spurious>>

(* Mutant: a wait for ever takes its first wake-up for its events.         *)
ReacquireTrusting(t) ==
  /\ At(t, "woken") /\ mutex = NoThread
  /\ mutex' = t
  /\ pc' = [pc EXCEPT ![t] =
              IF ~ForEver(t) /\ ~Fulfilled(t) /\ remaining[t] # NoTimeout
              THEN "check" ELSE "finish"]
  /\ UNCHANGED <<alive, event_bits, request, remaining, timed, ebits,
                 spurious>>

(* The sleep returns with the mutex.  A finite wait looks now, and tries   *)
(* again while time remains.                                               *)
Reacquire(t) ==
  /\ At(t, "woken")
  /\ mutex = NoThread
  /\ mutex' = t
  /\ pc' = [pc EXCEPT ![t] =
              IF ForEver(t) \/ (~Fulfilled(t) /\ remaining[t] # NoTimeout)
              THEN "check" ELSE "finish"]
  /\ UNCHANGED <<alive, event_bits, request, remaining, timed, ebits,
                 spurious>>

Finish(t) ==
  /\ At(t, "finish")
  /\ ebits' = [ebits EXCEPT ![t] = event_bits]
  /\ event_bits' = IF request[t].clearOnExit THEN {}
                   ELSE event_bits \ request[t].bits
  /\ pc' = [pc EXCEPT ![t] = "unlock"]
  /\ UNCHANGED <<alive, mutex, request, remaining, timed, spurious>>

-----------------------------------------------------------------------------
(* lsp_egroup_set, lsp_egroup_destroy.                                     *)

(* Mutant: a signal, which wakes one of the sleepers, for the broadcast.   *)
BroadcastToOne(t) ==
  \/ Asleep = {} /\ pc' = [pc EXCEPT ![t] = "unlock"]
  \/ \E w \in Asleep : pc' = [pc EXCEPT ![t] = "unlock", ![w] = "woken"]

(* Mutant: the broadcast is forgotten.                                     *)
BroadcastToNone(t) == pc' = [pc EXCEPT ![t] = "unlock"]

Broadcast(t) ==
  pc' = [u \in Thread |-> IF u = t THEN "unlock"
                          ELSE IF pc[u] = "wait" THEN "woken" ELSE pc[u]]

Raise(t) ==
  /\ At(t, "raise")
  /\ event_bits' = event_bits \cup request[t].bits
  /\ Broadcast(t)
  /\ UNCHANGED <<alive, mutex, request, remaining, timed, ebits, spurious>>

Read(t) ==
  /\ At(t, "read")
  /\ ebits' = [ebits EXCEPT ![t] = event_bits]
  /\ pc' = [pc EXCEPT ![t] = "idle"]
  /\ UNCHANGED <<alive, event_bits, mutex, request, remaining, timed,
                 spurious>>

(* Nothing is looked at before the handle is freed.                        *)
Destroy(t) ==
  /\ t \in Destroyers
  /\ alive
  /\ alive' = FALSE
  /\ UNCHANGED <<event_bits, mutex, pc, request, remaining, timed, ebits,
                 spurious>>

-----------------------------------------------------------------------------

Call(t) == CallWait(t) \/ CallSet(t) \/ Destroy(t)

Proceed(t) ==
  \/ Lock(t) \/ Unlock(t) \/ Check(t) \/ Reacquire(t) \/ Finish(t)
  \/ Raise(t) \/ Read(t)

Disturb(t) == LockFail(t) \/ WaitTimeout(t) \/ SpuriousWakeup(t)

Next == \E t \in Thread : Call(t) \/ Proceed(t) \/ Disturb(t)

Spec == Init /\ [][Next]_vars

(* A thread that can take its next step eventually does.  Nothing orders   *)
(* the claimants of the mutex, so that only a mutex that stays free is     *)
(* sure to be obtained.                                                    *)
FairSpec == Spec /\ \A t \in Thread : WF_vars(Proceed(t))

-----------------------------------------------------------------------------

TypeOK ==
  /\ alive \in BOOLEAN
  /\ event_bits \subseteq Bit
  /\ mutex \in Thread \cup {NoThread}
  /\ pc \in [Thread -> {"idle", "lock", "wait", "woken", "read"} \cup Holding]
  /\ request \in [Thread -> Requests]
  /\ remaining \in [Thread -> Timeouts]
  /\ timed \in [Thread -> BOOLEAN]
  /\ ebits \in [Thread -> SUBSET Bit]
  /\ spurious \in Nat

(* No missed event: a thread that waits for ever is not asleep while the   *)
(* events it waits for are there.                                          *)
NoMissedEvent == \A t \in Asleep : ForEver(t) => ~Fulfilled(t)

(* How the points of a call look to the caller.                            *)
Status(t) ==
  CASE pc[t] = "idle" \/ (pc[t] = "unlock" /\ t \in Waiters) -> "idle"
    [] pc[t] = "read" \/ (pc[t] = "unlock" /\ t \notin Waiters) -> "raised"
    [] OTHER -> "calling"

Flags == INSTANCE EventFlags WITH
           events  <- event_bits,
           request <- [t \in Waiters \cup Setters |-> request[t]],
           result  <- [t \in Waiters \cup Setters |-> ebits[t]],
           status  <- [t \in Waiters \cup Setters |-> Status(t)]

(* lsp_egroup.h, kept where every wait waits for ever: whatever the waits  *)
(* and the sets that interleave, a wait takes its events in one step and   *)
(* returns only with the events it asked for, spurious wake-ups and events *)
(* taken by another wait included.                                         *)
FlagsSpec == Flags!Spec

(* In any use, what is left of it: a wait for ever keeps that promise, and *)
(* the events any wait clears are those it returns, all of them or those   *)
(* it asked for, in one step; only a wait with a timeout may take what     *)
(* does not fulfil it or return what is not raised.                        *)
LapsingFlags == Flags!LapsingSpec

(* lsp_egroup.h, lsp_egroup_wait: "value of bits being waited for became   *)
(* set or 0 if timeout expired".  What a wait that may block returns, from *)
(* under the mutex, are events that fulfil it, or none.                    *)
WaitAnswers == \A t \in Waiters :
  pc[t] = "unlock" /\ request[t].timeout # NoTimeout =>
    ebits[t] = {} \/ Fulfils(ebits[t], request[t])

(* Events that are set reach the waits for them: once no thread sets any   *)
(* more and no wait with a timeout takes turns at the mutex, a wait for    *)
(* ever whose events are there returns, unless another wait takes them or  *)
(* the group is destroyed.                                                 *)
EventDelivered ==
  <>[](/\ \A s \in Setters : pc[s] = "idle"
       /\ \A t \in Waiters : pc[t] = "idle" \/ ForEver(t)) =>
    \A t \in Waiters :
      (pc[t] # "idle" /\ ForEver(t) /\ Fulfilled(t))
        ~> (pc[t] = "idle" \/ ~Fulfilled(t) \/ ~alive)
=============================================================================
