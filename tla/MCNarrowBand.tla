---------------------------- MODULE MCNarrowBand ----------------------------
(***************************************************************************)
(* Instances of NarrowBand for TLC.                                        *)
(***************************************************************************)
EXTENDS NarrowBand, TLC

CONSTANTS s1, s2

Symmetry == Permutations({s1, s2})

T(n, v) == [name |-> n, value |-> v]

\* Channel 0 with two settings that differ only in the demodulation, in order and
\* not; channel 1 with a side band, 261 being 5 in a byte; a band without a bank,
\* and one the table does not know; a frequency below the shift of that side band,
\* and a throw after it was stored; a channel out of range.
FewCommands ==
    { <<T("BankNum", 0), T("DDCBW", 9000), T("DemodType", 4), T("Freq", 6000)>>,
      <<T("BankNum", 0), T("Freq", 6000), T("DDCBW", 9000), T("DemodType", 2)>>,
      <<T("BankNum", 1), T("DDCBW", 9000), T("DemodType", 261), T("Freq", 6000)>>,
      <<T("DDCBW", 2400), T("DDCBW", 2401)>>,
      <<T("BankNum", 1), T("Freq", 4000), T("DemodType", NaN)>>,
      <<T("other", 0), T("BankNum", 2)>> }
=============================================================================
