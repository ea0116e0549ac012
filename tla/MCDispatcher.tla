---------------------------- MODULE MCDispatcher ----------------------------
(***************************************************************************)
(* Instances of Dispatcher for TLC.                                        *)
(***************************************************************************)
EXTENDS Dispatcher, TLC

CONSTANTS s1, s2

Symmetry == Permutations({s1, s2})

TwoFields == {"SimBW", "FreqRes"}

TheirWrites == [f \in TwoFields |-> IF f = "SimBW" THEN 1 ELSE 2]

C(k, s) == [kind |-> k, set |-> s]

Both(v) == [f \in TwoFields |-> v]

FewCommands == {C("wide", Both(1)), C("wide", [f \in {"SimBW"} |-> 2]), C("narrow", <<>>),
                C("inquiry", <<>>)}

FewLeftovers == {[task |-> 9, kind |-> "self check", set |-> <<>>],
                 [task |-> 0, kind |-> "no number", set |-> <<>>]}
=============================================================================
