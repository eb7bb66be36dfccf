------------------------------ MODULE MCCooker ------------------------------
(***************************************************************************)
(* The cooker for TLC: one batch of two resources, the first of which      *)
(* refers to the second, so that the batch and a task call EnsureCooked    *)
(* for the second resource at the same time.                               *)
(***************************************************************************)
EXTENDS Cooker, TLC

CONSTANTS r1, r2, a1, w1

OneBatch == w1 :> <<r1, r2>>
BothImportOne == r1 :> a1 @@ r2 :> a1
FirstRefersToSecond == r1 :> <<r2>> @@ r2 :> <<>>
=============================================================================
