----------------------------- MODULE EventFlags -----------------------------
(***************************************************************************)
(* What lsp_egroup.h promises of an event group: a set of raised events.   *)
(* A set raises events in one step of the call.  A wait returns in one     *)
(* step the raised events, which fulfil it, and clears all of them or      *)
(* those it asked for; or it returns none, its timeout expired.            *)
(*                                                                         *)
(* Spec is that promise.  LapsingSpec is weaker, and no header's: there a  *)
(* wait with a timeout may also lapse, returning what nobody promised.     *)
(***************************************************************************)
EXTENDS LspTypes

CONSTANTS Waiters, Setters, Bit, WaitCalls, SetMasks

VARIABLES
  events,    \* the raised events
  request,   \* what the call of each thread asks for
  result,    \* what the last call of each thread returned
  status     \* "idle", "calling", or "raised": set, not returned yet

vars == <<events, request, result, status>>

Thread == Waiters \cup Setters

NoRequest == [bits |-> {}, clearOnExit |-> FALSE, waitAll |-> FALSE,
              timeout |-> LSP_TIMEOUT_MAX]

(* The events ev fulfil the wait w.                                        *)
Fulfils(ev, w) ==
  IF w.waitAll THEN w.bits \subseteq ev ELSE w.bits \cap ev # {}

Remaining(ev, w) == IF w.clearOnExit THEN {} ELSE ev \ w.bits

Init ==
  /\ events = {}
  /\ request = [t \in Thread |-> NoRequest]
  /\ result = [t \in Thread |-> {}]
  /\ status = [t \in Thread |-> "idle"]

Start(t) ==
  /\ status[t] = "idle"
  /\ status' = [status EXCEPT ![t] = "calling"]
  /\ \/ /\ t \in Waiters
        /\ \E w \in WaitCalls[t] : request' = [request EXCEPT ![t] = w]
     \/ /\ t \in Setters
        /\ \E m \in SetMasks : request' = [request EXCEPT ![t].bits = m]
  /\ UNCHANGED <<events, result>>

(* "Value of bits being waited for became set" ...                         *)
Take(t) ==
  /\ t \in Waiters
  /\ status[t] = "calling"
  /\ Fulfils(events, request[t])
  /\ events' = Remaining(events, request[t])
  /\ result' = [result EXCEPT ![t] = events]
  /\ status' = [status EXCEPT ![t] = "idle"]
  /\ UNCHANGED request

(* ... "or 0 if timeout expired".  Whether clearOnExit, "clears all bits   *)
(* if true on return", is meant of this return too is left open.           *)
Expire(t) ==
  /\ t \in Waiters
  /\ status[t] = "calling"
  /\ request[t].timeout # LSP_TIMEOUT_MAX
  /\ \/ UNCHANGED events
     \/ request[t].clearOnExit /\ events' = {}
  /\ result' = [result EXCEPT ![t] = {}]
  /\ status' = [status EXCEPT ![t] = "idle"]
  /\ UNCHANGED request

(* A set that does not obtain the group raises nothing, and returns too.   *)
Raise(t) ==
  /\ t \in Setters
  /\ status[t] = "calling"
  /\ events' \in {events, events \cup request[t].bits}
  /\ status' = [status EXCEPT ![t] = "raised"]
  /\ UNCHANGED <<request, result>>

Return(t) ==
  /\ t \in Setters
  /\ status[t] = "raised"
  /\ result' = [result EXCEPT ![t] = events]
  /\ status' = [status EXCEPT ![t] = "idle"]
  /\ UNCHANGED <<events, request>>

Next == \E t \in Thread :
  Start(t) \/ Take(t) \/ Expire(t) \/ Raise(t) \/ Return(t)

Spec == Init /\ [][Next]_vars

-----------------------------------------------------------------------------

(* A wait with a timeout takes the raised events though they do not fulfil *)
(* it, or takes none and returns anything.                                 *)
Lapse(t) ==
  /\ t \in Waiters
  /\ status[t] = "calling"
  /\ request[t].timeout # LSP_TIMEOUT_MAX
  /\ \/ /\ events' = Remaining(events, request[t])
        /\ result' = [result EXCEPT ![t] = events]
     \/ /\ UNCHANGED events
        /\ \E ev \in SUBSET Bit : result' = [result EXCEPT ![t] = ev]
  /\ status' = [status EXCEPT ![t] = "idle"]
  /\ UNCHANGED request

LapsingNext == Next \/ \E t \in Thread : Lapse(t)

LapsingSpec == Init /\ [][LapsingNext]_vars
=============================================================================
