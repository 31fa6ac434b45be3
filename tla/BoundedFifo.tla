----------------------------- MODULE BoundedFifo ----------------------------
(***************************************************************************)
(* What lsp_queue.h promises of a queue: calls of several threads on a     *)
(* first-in first-out sequence of at most Capacity items.  A call takes    *)
(* effect in one step between its start and its return, at most once, or   *)
(* fails without effect; "full" and "empty" are reported only by a call    *)
(* during which the queue was full or empty.                               *)
(***************************************************************************)
EXTENDS Naturals, Sequences

CONSTANTS Producers, Consumers, Item, NoItem, Capacity

VARIABLES
  queue,    \* the items in the queue, oldest first
  buf,      \* each thread's item: the one it pushes, or the last it popped
  status    \* where each thread is in its call

vars == <<queue, buf, status>>

Thread  == Producers \cup Consumers
Pending == {"push", "pop"}

Init ==
  /\ queue = <<>>
  /\ buf = [t \in Thread |-> NoItem]
  /\ status = [t \in Thread |-> "idle"]

StartPush(t) ==
  /\ t \in Producers
  /\ status[t] \notin Pending
  /\ \E v \in Item : buf' = [buf EXCEPT ![t] = v]
  /\ status' = [status EXCEPT ![t] = "push"]
  /\ UNCHANGED queue

StartPop(t) ==
  /\ t \in Consumers
  /\ status[t] \notin Pending
  /\ status' = [status EXCEPT ![t] = "pop"]
  /\ UNCHANGED <<queue, buf>>

Push(t) ==
  /\ status[t] = "push"
  /\ Len(queue) < Capacity
  /\ queue' = Append(queue, buf[t])
  /\ status' = [status EXCEPT ![t] = "done"]
  /\ UNCHANGED buf

Pop(t) ==
  /\ status[t] = "pop"
  /\ queue # <<>>
  /\ buf' = [buf EXCEPT ![t] = Head(queue)]
  /\ queue' = Tail(queue)
  /\ status' = [status EXCEPT ![t] = "done"]

Refuse(t) ==
  /\ \/ status[t] = "push" /\ Len(queue) = Capacity
        /\ status' = [status EXCEPT ![t] = "full"]
     \/ status[t] = "pop" /\ queue = <<>>
        /\ status' = [status EXCEPT ![t] = "empty"]
     \/ status[t] \in Pending
        /\ status' = [status EXCEPT ![t] = "failed"]
  /\ UNCHANGED <<queue, buf>>

Next == \E t \in Thread :
  StartPush(t) \/ StartPop(t) \/ Push(t) \/ Pop(t) \/ Refuse(t)

Spec == Init /\ [][Next]_vars
=============================================================================
