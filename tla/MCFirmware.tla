----------------------------- MODULE MCFirmware -----------------------------
(* Two callers and three firmwares, one of which does not fit the board.   *)
EXTENDS Firmware, TLC

CONSTANTS c1, c2, f0, f1, f2

MCCaller == {c1, c2}
MCFw == {f0, f1, f2}
MCFits == {f0, f1}
CallerSymmetry == Permutations(MCCaller)
=============================================================================
