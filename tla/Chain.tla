-------------------------------- MODULE Chain --------------------------------
(***************************************************************************)
(* The path of a watch as its runs see it: a chain of actions at ranks     *)
(* 1..ChainLength, which every item enters at rank 1, and a run for each   *)
(* action and item.                                                        *)
(***************************************************************************)
EXTENDS Naturals

CONSTANTS
  Items,        \* feed items that enter the chain
  ChainLength,  \* number of actions of the path
  Rejections    \* outcomes that end an item's chain: gated, errored, skipped

ASSUME ChainAssumption ==
  /\ ChainLength \in Nat \ {0}
  /\ Rejections \subseteq {"gated", "errored", "skipped"}

Ranks == 1 .. ChainLength
Runs  == Ranks \X Items

(* The next position of the same item.                                     *)
Successor(r) == <<r[1] + 1, r[2]>>
=============================================================================
