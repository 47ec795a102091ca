----------------------------- MODULE ChainLedger -----------------------------
(***************************************************************************)
(* What the jobs of a watch promise, with no worker, claim, window, clock  *)
(* or retry in sight: one verdict per (chain position, feed item).         *)
(*                                                                         *)
(* A run is "absent" until it is offered.  The head of the chain is        *)
(* offered by the trigger; every later position is offered by the success  *)
(* of the position before it, in the same step as that success.  An open   *)
(* run is settled once and its verdict never changes.                      *)
(***************************************************************************)
EXTENDS Chain

VARIABLE verdict

Final == {"succeeded", "failed"} \cup Rejections

LedgerTypeOK == verdict \in [Runs -> {"absent", "open"} \cup Final]

LedgerInit == verdict = [r \in Runs |-> "absent"]

Offer(i) ==
  /\ verdict[<<1, i>>] = "absent"
  /\ verdict' = [verdict EXCEPT ![<<1, i>>] = "open"]

(* Runs just settled with `o`; a success opens the next positions.         *)
Opens(S, o, n) == o = "succeeded" /\ \E r \in S : n = Successor(r)

(* A verdict for a set of open runs: the one run of a drain's completion,  *)
(* the batch of a flush, the exhausted runs of a sweep.                    *)
Settle(S, o) ==
  /\ \A r \in S : verdict[r] = "open"
  /\ verdict' = [n \in Runs |->
                   IF n \in S THEN o
                   ELSE IF Opens(S, o, n) /\ verdict[n] = "absent" THEN "open"
                   ELSE verdict[n]]

LedgerNext ==
  \/ \E i \in Items : Offer(i)
  \/ \E S \in SUBSET Runs, o \in Final : Settle(S, o)

LedgerSpec == LedgerInit /\ [][LedgerNext]_verdict

-----------------------------------------------------------------------------
(* A position is reached exactly when the position before it succeeded:    *)
(* no chain stalls behind a success and none advances without one.         *)
ChainConsistent ==
  \A r \in Runs : r[1] < ChainLength =>
    (verdict[Successor(r)] # "absent" <=> verdict[r] = "succeeded")
=============================================================================
