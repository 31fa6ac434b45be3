----------------------------- MODULE MCLspQueue -----------------------------
(* LspQueue for TLC: threads and items are model values.                   *)
EXTENDS LspQueue, TLC

CONSTANTS p1, p2, c1, c2, k

AllTimeouts     == Timeouts
FiniteOnly      == {FiniteTimeout}
ForEver         == {LSP_TIMEOUT_MAX}

(* The producers are interchangeable, and the consumers; so are the items. *)
Symmetry == Permutations(Producers) \cup Permutations(Consumers)
            \cup Permutations(Item)
=============================================================================
