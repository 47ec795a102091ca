---------------------------- MODULE MCChainEdit ----------------------------
(* Small instances of ChainEdit for TLC.                                   *)
EXTENDS ChainEdit, TLC

CONSTANTS step1, step2, step3

(* Two actions and rows that edits may add, or a chain of three.           *)
TwoSteps == (step1 :> 0) @@ (step2 :> 1)
ThreeSteps == TwoSteps @@ (step3 :> 2)

Interchangeable == Permutations(Editor)
=============================================================================
