---------------------------- MODULE MCAcquisition ----------------------------
(***************************************************************************)
(* Instances of Acquisition for TLC: the two channels of the board.        *)
(***************************************************************************)
EXTENDS Acquisition

CONSTANTS CX, ZC
=============================================================================
