-------------------------- MODULE ChainLedger_proofs --------------------------
(***************************************************************************)
(* The ledger keeps its chains consistent, for every set of items, chain   *)
(* length and set of rejections.                                           *)
(***************************************************************************)
EXTENDS ChainLedger, TLAPS

(* The initial ledger is typed and has nothing that a chain could miss.    *)
LEMMA LedgerStart == LedgerInit => LedgerTypeOK /\ ChainConsistent
<1> SUFFICES ASSUME LedgerInit PROVE LedgerTypeOK /\ ChainConsistent
  OBVIOUS
<1>1. LedgerTypeOK
  BY DEF LedgerInit, LedgerTypeOK
<1>2. ASSUME NEW r \in Runs, r[1] < ChainLength
      PROVE  Successor(r) \in Runs
  BY <1>2, ChainAssumption DEF Runs, Ranks, Successor
<1>3. ChainConsistent
  BY <1>2 DEF LedgerInit, ChainConsistent
<1> QED
  BY <1>1, <1>3

(* Offers and settlements keep the ledger typed and consistent: a settled  *)
(* run was open, so the position after it was still absent.                *)
LEMMA LedgerStep ==
  ASSUME LedgerTypeOK, ChainConsistent, [LedgerNext]_verdict
  PROVE  LedgerTypeOK' /\ ChainConsistent'
<1> USE DEF Final, Successor
<1>succ. ASSUME NEW r \in Runs, r[1] < ChainLength
         PROVE  Successor(r) \in Runs
  BY <1>succ, ChainAssumption DEF Runs, Ranks, Successor
<1>rank. ASSUME NEW r \in Runs PROVE r[1] \in Nat /\ r[1] >= 1 /\ r = <<r[1], r[2]>>
  BY ChainAssumption DEF Runs, Ranks, Successor
<1>1. ASSUME NEW i \in Items, Offer(i) PROVE LedgerTypeOK' /\ ChainConsistent'
  <2>1. <<1, i>> \in Runs
    BY ChainAssumption DEF Runs, Ranks, Successor
  <2>2. LedgerTypeOK'
    BY <1>1 DEF Offer, LedgerTypeOK
  <2>3. ASSUME NEW r \in Runs, r[1] < ChainLength
        PROVE  verdict'[Successor(r)] # "absent" <=> verdict'[r] = "succeeded"
    <3>1. Successor(r) # <<1, i>>
      BY <1>rank
    <3> QED
      BY <1>1, <1>succ, <2>1, <2>3, <3>1 DEF Offer, LedgerTypeOK, ChainConsistent
  <2> QED
    BY <2>2, <2>3 DEF ChainConsistent
<1>2. ASSUME NEW S \in SUBSET Runs, NEW o \in Final, Settle(S, o)
      PROVE  LedgerTypeOK' /\ ChainConsistent'
  <2>1. LedgerTypeOK'
    BY <1>2 DEF Settle, LedgerTypeOK
  <2>2. ASSUME NEW p \in Runs, p[1] < ChainLength
        PROVE  verdict'[Successor(p)] # "absent" <=> verdict'[p] = "succeeded"
    <3> DEFINE n == Successor(p)
    <3>1. n \in Runs
      BY <1>succ, <2>2
    <3>2. Opens(S, o, n) <=> o = "succeeded" /\ p \in S
      <4>1. ASSUME NEW r \in S, n = Successor(r) PROVE p = r
        BY <1>rank, <4>1
      <4> QED
        BY <4>1 DEF Opens
    <3>3. CASE p \in S
      <4>1. verdict[n] = "absent" /\ n \notin S
        BY <1>2, <2>2, <3>1, <3>3 DEF Settle, ChainConsistent
      <4>2. verdict'[p] = o
        BY <1>2, <3>3 DEF Settle
      <4>3. verdict'[n] = IF o = "succeeded" THEN "open" ELSE "absent"
        BY <1>2, <3>1, <3>2, <3>3, <4>1 DEF Settle
      <4> QED
        BY <4>2, <4>3
    <3>4. CASE p \notin S
      <4>1. verdict'[p] = "succeeded" <=> verdict[p] = "succeeded"
        <5>1. ~Opens(S, o, p) \/ verdict'[p] \in {"open", verdict[p]}
          BY <1>2, <3>4 DEF Settle
        <5> QED
          BY <1>2, <3>4, <5>1 DEF Settle
      <4>2. verdict'[n] # "absent" <=> verdict[n] # "absent"
        BY <1>2, <3>1, <3>2, <3>4, ChainAssumption DEF Settle
      <4> QED
        BY <2>2, <4>1, <4>2 DEF ChainConsistent
    <3> QED
      BY <3>3, <3>4
  <2> QED
    BY <2>1, <2>2 DEF ChainConsistent
<1>3. ASSUME UNCHANGED verdict PROVE LedgerTypeOK' /\ ChainConsistent'
  BY <1>3 DEF LedgerTypeOK, ChainConsistent
<1> QED
  BY <1>1, <1>2, <1>3 DEF LedgerNext

(* A position of the chain is reached exactly when the position before it  *)
(* succeeded: what drain.py means by "no silently stalled chain".          *)
THEOREM LedgerChains == LedgerSpec => []ChainConsistent
<1>1. LedgerTypeOK /\ ChainConsistent /\ [LedgerNext]_verdict
        => (LedgerTypeOK /\ ChainConsistent)'
  BY LedgerStep
<1> QED
  BY <1>1, LedgerStart, PTL DEF LedgerSpec
=============================================================================
