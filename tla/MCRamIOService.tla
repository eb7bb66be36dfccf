--------------------------- MODULE MCRamIOService ---------------------------
(***************************************************************************)
(* Instances of RamIOService for TLC.  Request objects are interchangeable *)
(* (their priorities are chosen by request()), so they are symmetric where *)
(* only safety is checked.                                                 *)
(***************************************************************************)
EXTENDS RamIOService, TLC

ReqSymmetry == Permutations(Req)
=============================================================================
