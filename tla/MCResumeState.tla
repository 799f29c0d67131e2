---------------------------- MODULE MCResumeState ----------------------------
(***************************************************************************)
(* ResumeState for TLC.  Nothing tells one cartridge from another except   *)
(* being the same or not, and only safety is checked, so the cartridges    *)
(* may be permuted.                                                        *)
(***************************************************************************)
EXTENDS ResumeState, TLC

CartridgeSymmetry == Permutations(Cartridges)
=============================================================================
