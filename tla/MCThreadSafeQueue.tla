------------------------- MODULE MCThreadSafeQueue -------------------------
(***************************************************************************)
(* Instances of ThreadSafeQueue for TLC: three consumers.                  *)
(***************************************************************************)
EXTENDS ThreadSafeQueue

CONSTANTS c1, c2, c3
=============================================================================
