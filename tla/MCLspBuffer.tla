---------------------------- MODULE MCLspBuffer -----------------------------
(* LspBuffer for TLC: blocks of up to 6 bytes, lengths up to beyond them.  *)
EXTENDS LspBuffer

SmallHeadrooms == {0, 1, 2}
AllLengths == 0 .. Modulus - 1
=============================================================================
