---------------------------- MODULE MCWBSpectrum ----------------------------
(***************************************************************************)
(* Instances of WBSpectrum for TLC.                                        *)
(***************************************************************************)
EXTENDS WBSpectrum, TLC

CONSTANTS s1, s2

Symmetry == Permutations({s1, s2})

T(n, v) == [name |-> n, value |-> v]

\* Complete and in order; complete, but SimBW comes last; partial commands;
\* values out of range; one that fails half way.
ManyCommands ==
    { <<T("SimBW", 2), T("CenterFreq", 15000000), T("FreqRes", 13)>>,
      <<T("FreqRes", 12), T("CenterFreq", 10000000), T("SimBW", 8)>>,
      <<T("other", 0), T("FreqRes", 15), T("Feedback", 1)>>,
      <<T("FreqRes", 12), T("SimBW", NaN)>> }

\* The two that differ only in the place of SimBW.
TwoOrders ==
    { <<T("SimBW", 2), T("CenterFreq", 15000000), T("FreqRes", 13)>>,
      <<T("FreqRes", 12), T("CenterFreq", 10000000), T("SimBW", 8)>> }
=============================================================================
