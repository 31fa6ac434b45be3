---------------------------- MODULE MCLspEgroup -----------------------------
(* LspEgroup for TLC: threads and events are model values.                 *)
EXTENDS LspEgroup, TLC

CONSTANTS a, b, w1

WaitFor(bits, all, clear, w) ==
  [bits |-> bits, clearOnExit |-> clear, waitAll |-> all, timeout |-> w]

(* Both waits compete for a, for ever; w1 may want b with it, and the      *)
(* other may wait for a time, or not at all.                               *)
ForA        == WaitFor({a}, FALSE, FALSE, LSP_TIMEOUT_MAX)
ForBoth     == WaitFor({a, b}, TRUE, TRUE, LSP_TIMEOUT_MAX)
ForBothTill == WaitFor({a, b}, TRUE, FALSE, FiniteTimeout)
ForANow     == WaitFor({a}, TRUE, FALSE, NoTimeout)

CompetingCalls ==
  [t \in Waiters |-> IF t = w1 THEN {ForA, ForBoth}
                     ELSE {ForA, ForBothTill, ForANow}]
TimedCalls == [t \in Waiters |-> {ForBothTill}]

EachEvent == {{a}, {b}}
=============================================================================
