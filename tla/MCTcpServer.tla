---------------------------- MODULE MCTcpServer ----------------------------
(***************************************************************************)
(* Instances of TcpServer for TLC.                                         *)
(***************************************************************************)
EXTENDS TcpServer, TLC

CONSTANTS s1, s2, wb, nb, nosession, free

\* The clients are alike, and so are the data threads.  (Safety runs only.)
Symmetry == Permutations({s1, s2}) \cup Permutations({wb, nb})
=============================================================================
