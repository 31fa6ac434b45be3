---------------------------- MODULE MCLspRouting ----------------------------
(* LspRouting for TLC.                                                     *)
EXTENDS LspRouting, TLC

CONSTANTS t1, t2, n1, n2, n3, n4

(* Routes are interchangeable.                                             *)
RouteSymmetry == Permutations(Node)
=============================================================================
