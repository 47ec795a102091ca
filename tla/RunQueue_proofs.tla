--------------------------- MODULE RunQueue_proofs ---------------------------
(***************************************************************************)
(* The run queue keeps the chain ledger, for every set of items, drains    *)
(* and actions, whatever the pool size, the attempts cap and the timing,   *)
(* and whether or not the command is single-flight.                        *)
(***************************************************************************)
EXTENDS RunQueue, FiniteSetTheorems, TLAPS

(* A row that is not there has nothing in it.                              *)
BlankUntilOffered == \A r \in Runs : row[r].state = "absent" => row[r] = Absent

(* A slot whose judge returned knows the outcome.                          *)
OutcomeKnown ==
  \A d \in Drains : \A s \in drain[d].slots :
    s.stage \in {"unrecorded", "decided"} => s.outcome \in Outcomes

IInv == TypeOK /\ CompletedMeansFinal /\ BlankUntilOffered /\ OutcomeKnown

-----------------------------------------------------------------------------
(* Facts about the data.                                                   *)

LEMMA RankFacts == 1 \in Ranks /\ (\A i \in Items : <<1, i>> \in Runs)
  BY ChainAssumption DEF Ranks, Runs

LEMMA RowFacts == Absent \in Row /\ Pending \in Row
  BY QueueAssumption DEF Absent, Pending, Row, Claimable, Terminal

(* A row whose fields are rewritten within their types stays a row.        *)
LEMMA RowWritten ==
  ASSUME NEW w \in Row, NEW st \in {"running", "failed"} \cup Terminal, NEW a \in 0 .. Stale,
         NEW n \in 0 .. MaxAttempts, NEW b \in BOOLEAN
  PROVE  /\ [w EXCEPT !.state = st, !.age = a, !.completed = b] \in Row
         /\ [w EXCEPT !.state = st, !.age = a, !.attempts = n] \in Row
         /\ [w EXCEPT !.age = a] \in Row
  BY DEF Row, Claimable

LEMMA IdleFacts ==
  /\ Idle \in Drain
  /\ [Idle EXCEPT !.phase = "opening"] \in Drain
  /\ Idle.slots = {}
  /\ [Idle EXCEPT !.phase = "opening"].slots = {}
  BY QueueAssumption DEF Idle, Drain

(* Putting a slot back into its pass, or dropping it, keeps the pass typed.*)
LEMMA ReplaceFacts ==
  ASSUME drain \in [Drains -> Drain], NEW d \in Drains, NEW s \in drain[d].slots,
         NEW t \in Slot
  PROVE  /\ Replace(d, s, t) \in [Drains -> Drain]
         /\ \A e \in Drains : \A u \in Replace(d, s, t)[e].slots :
              u \in drain[e].slots \/ (e = d /\ u = t)
  BY DEF Replace, Drain

LEMMA DropFacts ==
  ASSUME drain \in [Drains -> Drain], NEW d \in Drains, NEW s \in drain[d].slots
  PROVE  /\ Drop(d, s) \in [Drains -> Drain]
         /\ \A e \in Drains : \A u \in Drop(d, s)[e].slots : u \in drain[e].slots
  BY DEF Drop, Drain

LEMMA SlotFacts ==
  ASSUME drain \in [Drains -> Drain], NEW d \in Drains, NEW s \in drain[d].slots
  PROVE  s \in Slot /\ s.run \in Runs
  BY DEF Drain, Slot

-----------------------------------------------------------------------------
(* Type correctness, one lemma per action that writes more than one place. *)

LEMMA TypeInit == Init => TypeOK
  BY RowFacts, IdleFacts, QueueAssumption DEF Init, TypeOK

LEMMA TypeEnqueue == ASSUME TypeOK, NEW i \in Items, Enqueue(i) PROVE TypeOK'
  BY RankFacts, RowFacts DEF Enqueue, TypeOK

LEMMA TypeStartPass == ASSUME TypeOK, NEW d \in Drains, StartPass(d) PROVE TypeOK'
<1>1. ASSUME NEW r \in Runs PROVE Reaped(r) \in Row
  <2>1. row[r] \in Row /\ 0 \in 0 .. Stale /\ 0 \in 0 .. MaxAttempts
    BY QueueAssumption DEF TypeOK
  <2>2. (row[r].attempts >= MaxAttempts) \in BOOLEAN
    OBVIOUS
  <2>3. \A b \in BOOLEAN :
          [row[r] EXCEPT !.state = "failed", !.age = 0, !.completed = b] \in Row
    BY <2>1, RowWritten
  <2> QED
    BY <2>2, <2>3, Zenon DEF Reaped
<1>2. row' \in [Runs -> Row]
  BY <1>1 DEF StartPass, TypeOK
<1>3. drain' \in [Drains -> Drain]
  BY IdleFacts DEF StartPass, TypeOK
<1> QED
  BY <1>2, <1>3 DEF StartPass, TypeOK

LEMMA TypeOpenCursor == ASSUME TypeOK, NEW d \in Drains, OpenCursor(d) PROVE TypeOK'
<1> DEFINE due == {<<r, row[r].state>> : r \in {q \in Runs : IsDue(q)}}
<1>1. due \in SUBSET (Runs \X Claimable)
  BY DEF IsDue
<1>2. drain' \in [Drains -> Drain]
  BY <1>1 DEF OpenCursor, TypeOK, Drain
<1> QED
  BY <1>2 DEF OpenCursor, TypeOK

LEMMA TypeClaimDue ==
  ASSUME TypeOK, NEW d \in Drains, NEW c \in drain[d].cursor, ClaimDue(d, c)
  PROVE  TypeOK'
<1>1. c \in Runs \X Claimable
  BY DEF TypeOK, Drain
<1>2. c[1] \in Runs
  BY <1>1
<1>3. ASSUME ClaimWins(c) PROVE Claimed(d, c[1]) \in Row /\ NewSlot(c[1]) \in Slot
  <2>1. row[c[1]] \in Row /\ drain[d].age \in 0 .. Stale
    BY <1>2 DEF TypeOK, Drain
  <2>2. row[c[1]].attempts \in 0 .. MaxAttempts /\ row[c[1]].attempts < MaxAttempts
    BY <1>3, <2>1 DEF ClaimWins, Row
  <2>3. Claimed(d, c[1]) \in Row
    <3>1. row[c[1]].attempts + 1 \in 0 .. MaxAttempts
      BY <2>2, QueueAssumption
    <3> QED
      BY <2>1, <3>1, RowWritten DEF Claimed
  <2>4. NewSlot(c[1]) \in Slot
    BY <1>2, <2>2, QueueAssumption DEF NewSlot, Slot
  <2> QED
    BY <2>3, <2>4
<1>4. row' \in [Runs -> Row]
  BY <1>2, <1>3 DEF ClaimDue, TypeOK
<1>5. drain' \in [Drains -> Drain]
  BY <1>2, <1>3 DEF ClaimDue, TypeOK, Drain
<1> QED
  BY <1>4, <1>5 DEF ClaimDue, TypeOK

LEMMA TypeRefresh ==
  ASSUME TypeOK, NEW d \in Drains, NEW s \in drain[d].slots, RefreshFromDb(d, s)
  PROVE  TypeOK'
<1> DEFINE t == [s EXCEPT !.stage = "ready", !.att = row[s.run].attempts]
<1>1. s \in Slot /\ row[s.run].attempts \in 0 .. MaxAttempts
  BY SlotFacts DEF TypeOK, Row
<1>2. t \in Slot
  BY <1>1 DEF Slot
<1>3. drain' \in [Drains -> Drain]
  BY <1>2, ReplaceFacts DEF RefreshFromDb, TypeOK
<1> QED
  BY <1>3 DEF RefreshFromDb, TypeOK

LEMMA TypeResolve ==
  ASSUME TypeOK, NEW d \in Drains, NEW s \in drain[d].slots, Resolve(d, s)
  PROVE  TypeOK'
<1>1. s \in Slot /\ s.run \in Runs
  BY SlotFacts DEF TypeOK
<1>2. PICK o \in Outcomes, called \in BOOLEAN, outbound \in BOOLEAN :
        /\ posts' = IF called THEN [posts EXCEPT ![s.run] = @ + 1] ELSE posts
        /\ drain' = Replace(d, s, [s EXCEPT !.stage = Judged(outbound), !.outcome = o])
  BY DEF Resolve
<1>3. [s EXCEPT !.stage = Judged(outbound), !.outcome = o] \in Slot
  BY <1>1 DEF Slot, Judged
<1>4. drain' \in [Drains -> Drain]
  BY <1>2, <1>3, ReplaceFacts DEF TypeOK
<1>5. posts' \in [Runs -> Nat]
  BY <1>1, <1>2 DEF TypeOK
<1> QED
  BY <1>4, <1>5 DEF Resolve, TypeOK

LEMMA TypeRecord ==
  ASSUME TypeOK, NEW d \in Drains, NEW s \in drain[d].slots, RecordDelivery(d, s)
  PROVE  TypeOK'
<1>1. s \in Slot /\ s.run \in Runs
  BY SlotFacts DEF TypeOK
<1>2. [s EXCEPT !.stage = "decided"] \in Slot
  BY <1>1 DEF Slot
<1>3. drain' \in [Drains -> Drain]
  BY <1>2, ReplaceFacts DEF RecordDelivery, TypeOK
<1>4. deliveries' \in [Runs -> Nat]
  BY <1>1 DEF RecordDelivery, TypeOK
<1> QED
  BY <1>3, <1>4 DEF RecordDelivery, TypeOK

(* The completion writes a state that is a verdict or FAILED.              *)
LEMMA CompletedFacts ==
  ASSUME TypeOK, NEW s \in Slot, s.outcome \in Outcomes
  PROVE  Completed(s) \in Row
<1>1. row[s.run] \in Row /\ 0 \in 0 .. Stale /\ 0 \in 0 .. MaxAttempts
  BY QueueAssumption DEF TypeOK, Slot
<1>2. IsFinal(s.outcome, s.att) \in BOOLEAN
  BY Zenon DEF IsFinal
<1>3. s.outcome \in {"running", "failed"} \cup Terminal
  BY DEF Outcomes
<1>4. \A b \in BOOLEAN : [row[s.run] EXCEPT !.state = s.outcome, !.age = 0, !.completed = b] \in Row
  BY <1>1, <1>3, RowWritten
<1> QED
  BY <1>2, <1>4, Zenon DEF Completed

LEMMA TypeComplete ==
  ASSUME TypeOK, OutcomeKnown, NEW d \in Drains, NEW s \in drain[d].slots, Complete(d, s)
  PROVE  TypeOK'
<1>1. s \in Slot /\ s.run \in Runs /\ s.outcome \in Outcomes
  BY SlotFacts DEF TypeOK, OutcomeKnown, Complete
<1>2. Completed(s) \in Row
  BY <1>1, CompletedFacts
<1>3. row' \in [Runs -> Row]
  BY <1>2, RowFacts DEF Complete, TypeOK
<1>4. drain' \in [Drains -> Drain]
  BY DropFacts DEF Complete, TypeOK
<1> QED
  BY <1>3, <1>4 DEF Complete, TypeOK

LEMMA TypeDrainRaises ==
  ASSUME TypeOK, NEW d \in Drains, NEW s \in drain[d].slots, DrainRaises(d, s)
  PROVE  TypeOK'
<1>1. drain' \in [Drains -> Drain]
  BY DropFacts DEF DrainRaises, TypeOK
<1> QED
  BY <1>1 DEF DrainRaises, TypeOK

LEMMA TypeEndPass == ASSUME TypeOK, NEW d \in Drains, EndPass(d) PROVE TypeOK'
  BY IdleFacts DEF EndPass, Released, TypeOK

LEMMA TypeSigterm == ASSUME TypeOK, NEW d \in Drains, Sigterm(d) PROVE TypeOK'
<1>1. Unwound(d) \in Drain
  BY DEF TypeOK, Drain, Unwound
<1>2. drain' \in [Drains -> Drain]
  BY <1>1, IdleFacts DEF Sigterm, TypeOK
<1>3. stops' \in 0 .. MaxStops
  BY QueueAssumption DEF Sigterm, TypeOK
<1> QED
  BY <1>2, <1>3 DEF Sigterm, Released, TypeOK

LEMMA TypeCrash == ASSUME TypeOK, NEW d \in Drains, Crash(d) PROVE TypeOK'
<1>1. stops' \in 0 .. MaxStops
  BY QueueAssumption DEF Crash, TypeOK
<1> QED
  BY <1>1, IdleFacts DEF Crash, TypeOK

LEMMA TypeClearJobLock == ASSUME TypeOK, ClearJobLock PROVE TypeOK'
  BY DEF ClearJobLock, TypeOK

(* Ages saturate, and a slot's age only moves while its call has patience. *)
LEMMA TypeTick == ASSUME TypeOK, Tick PROVE TypeOK'
<1>1. ASSUME NEW a \in 0 .. Stale PROVE Older(a, Stale) \in 0 .. Stale
  BY QueueAssumption DEF Older
<1>2. ASSUME NEW r \in Runs PROVE [row[r] EXCEPT !.age = Older(@, Stale)] \in Row
  BY <1>1 DEF TypeOK, Row
<1>3. row' \in [Runs -> Row]
  BY <1>2 DEF Tick, TypeOK
<1>4. ASSUME NEW d \in Drains, NEW s \in drain[d].slots
      PROVE  [s EXCEPT !.age = @ + 1] \in Slot
  <2>1. s \in Slot /\ s.age \in 0 .. MaxCall
    BY SlotFacts DEF TypeOK, Slot
  <2>2. s.age < Patience(s)
    BY DEF Tick
  <2>3. s.age + 1 \in 0 .. MaxCall
    BY <2>1, <2>2, QueueAssumption DEF Patience
  <2> QED
    BY <2>1, <2>3 DEF Slot
<1>5. ASSUME NEW d \in Drains
      PROVE  [drain[d] EXCEPT !.age = Older(@, Stale),
                              !.slots = {[s EXCEPT !.age = @ + 1] : s \in @}] \in Drain
  <2> DEFINE old == {[s EXCEPT !.age = @ + 1] : s \in drain[d].slots}
  <2>1. old \in SUBSET Slot
    BY <1>4
  <2>2. drain[d] \in Drain /\ Older(drain[d].age, Stale) \in 0 .. Stale
    BY <1>1 DEF TypeOK, Drain
  <2> HIDE DEF old
  <2>3. [drain[d] EXCEPT !.age = Older(@, Stale), !.slots = old] \in Drain
    BY <2>1, <2>2 DEF Drain
  <2> QED
    BY <2>3 DEF old
<1>6. drain' \in [Drains -> Drain]
  BY <1>5 DEF Tick, TypeOK
<1> QED
  BY <1>3, <1>6 DEF Tick, TypeOK

LEMMA TypeStep == ASSUME TypeOK, OutcomeKnown, [Next]_vars PROVE TypeOK'
<1>1. CASE Next
  BY <1>1, TypeEnqueue, TypeStartPass, TypeOpenCursor, TypeClaimDue, TypeRefresh,
     TypeResolve, TypeRecord, TypeComplete, TypeDrainRaises, TypeEndPass, TypeSigterm,
     TypeCrash, TypeClearJobLock, TypeTick
     DEF Next, RunPass, WorkSlot
<1>2. CASE UNCHANGED vars
  BY <1>2 DEF vars, TypeOK
<1> QED
  BY <1>1, <1>2

-----------------------------------------------------------------------------
(* The other parts of the invariant.                                       *)

(* Only Resolve sets an outcome, and it sets one of Outcomes.              *)
LEMMA OutcomeStep == ASSUME TypeOK, OutcomeKnown, [Next]_vars PROVE OutcomeKnown'
<1> DEFINE Known(s) == s.stage \in {"unrecorded", "decided"} => s.outcome \in Outcomes
<1>t. drain \in [Drains -> Drain]
  BY DEF TypeOK
<1>k. ASSUME NEW d \in Drains, NEW s \in drain[d].slots PROVE Known(s) /\ s \in Slot
  BY <1>t, SlotFacts DEF OutcomeKnown
(* It is enough that every slot there is now was there, or is known.       *)
<1>s. SUFFICES ASSUME NEW e \in Drains, NEW u \in drain'[e].slots
               PROVE  u \in drain[e].slots \/ Known(u)
  BY <1>k DEF OutcomeKnown
<1> HIDE DEF Known
<1>1. ASSUME NEW i \in Items, Enqueue(i) PROVE u \in drain[e].slots
  BY <1>1 DEF Enqueue
<1>2. ASSUME NEW d \in Drains, StartPass(d) PROVE u \in drain[e].slots
  BY <1>2, <1>t, IdleFacts DEF StartPass
<1>3. ASSUME NEW d \in Drains, OpenCursor(d) PROVE u \in drain[e].slots
  BY <1>3, <1>t DEF OpenCursor, Drain
<1>4. ASSUME NEW d \in Drains, NEW c \in drain[d].cursor, ClaimDue(d, c)
      PROVE  u \in drain[e].slots \/ Known(u)
  <2>1. Known(NewSlot(c[1]))
    BY DEF Known, NewSlot
  <2>2. u \in drain[e].slots \/ u = NewSlot(c[1])
    BY <1>4, <1>t DEF ClaimDue, Drain
  <2> QED
    BY <2>1, <2>2
<1>5. ASSUME NEW d \in Drains, NEW s \in drain[d].slots, RefreshFromDb(d, s)
      PROVE  u \in drain[e].slots \/ Known(u)
  <2> DEFINE t == [s EXCEPT !.stage = "ready", !.att = row[s.run].attempts]
  <2>1. t \in Slot /\ Known(t)
    BY <1>k DEF Slot, Known, TypeOK, Row
  <2>2. u \in drain[e].slots \/ u = t
    BY <1>5, <1>t, <2>1, ReplaceFacts DEF RefreshFromDb
  <2> QED
    BY <2>1, <2>2
<1>6. ASSUME NEW d \in Drains, NEW s \in drain[d].slots, Resolve(d, s)
      PROVE  u \in drain[e].slots \/ Known(u)
  <2>1. PICK o \in Outcomes, called \in BOOLEAN, outbound \in BOOLEAN :
          drain' = Replace(d, s, [s EXCEPT !.stage = Judged(outbound), !.outcome = o])
    BY <1>6 DEF Resolve
  <2> DEFINE t == [s EXCEPT !.stage = Judged(outbound), !.outcome = o]
  <2>2. t \in Slot /\ Known(t)
    BY <1>k DEF Slot, Known, Judged
  <2>3. u \in drain[e].slots \/ u = t
    BY <1>t, <2>1, <2>2, ReplaceFacts
  <2> QED
    BY <2>2, <2>3
<1>7. ASSUME NEW d \in Drains, NEW s \in drain[d].slots, RecordDelivery(d, s)
      PROVE  u \in drain[e].slots \/ Known(u)
  <2> DEFINE t == [s EXCEPT !.stage = "decided"]
  <2>1. t \in Slot /\ Known(t)
    BY <1>7, <1>k DEF RecordDelivery, Slot, Known
  <2>2. u \in drain[e].slots \/ u = t
    BY <1>7, <1>t, <2>1, ReplaceFacts DEF RecordDelivery
  <2> QED
    BY <2>1, <2>2
<1>8. ASSUME NEW d \in Drains, NEW s \in drain[d].slots, Complete(d, s) \/ DrainRaises(d, s)
      PROVE  u \in drain[e].slots
  BY <1>8, <1>t, DropFacts DEF Complete, DrainRaises
<1>9. ASSUME NEW d \in Drains, EndPass(d) \/ Sigterm(d) \/ Crash(d) PROVE u \in drain[e].slots
  <2>1. Unwound(d).slots \subseteq drain[d].slots
    BY <1>t DEF Unwound, Drain
  <2>2. drain' = [drain EXCEPT ![d] = Idle] \/ drain' = [drain EXCEPT ![d] = Unwound(d)]
    BY <1>9 DEF EndPass, Sigterm, Crash
  <2> QED
    BY <1>t, <2>1, <2>2, IdleFacts
<1>10. ASSUME ClearJobLock \/ UNCHANGED vars PROVE u \in drain[e].slots
  BY <1>10 DEF ClearJobLock, vars
<1>11. ASSUME Tick PROVE Known(u)
  <2>1. CASE u \in drain[e].slots
    BY <1>k, <2>1 DEF Known
  <2>2. CASE u \notin drain[e].slots
    <3>1. PICK s \in drain[e].slots : u = [s EXCEPT !.age = @ + 1]
      BY <1>11, <1>t, <2>2 DEF Tick, Drain
    <3> QED
      BY <1>k, <3>1 DEF Known, Slot
  <2> QED
    BY <2>1, <2>2
<1> QED
  BY <1>1, <1>2, <1>3, <1>4, <1>5, <1>6, <1>7, <1>8, <1>9, <1>10, <1>11
     DEF Next, RunPass, WorkSlot

(* What a step may do to a row: nothing, or one of five rewrites.  The     *)
(* lemmas about rows, and the refinement, follow from this alone.          *)
RowStep(r) ==
  \/ row'[r] = row[r]
  \/ row[r] = Absent /\ row'[r] = Pending
  \/ IsStale(r) /\ row'[r] = Reaped(r)
  \/ /\ row[r].state \in Claimable /\ row[r].attempts < MaxAttempts
     /\ \E d \in Drains : row'[r] = Claimed(d, r)
  \/ \E s \in Slot : /\ s.run = r /\ s.outcome \in Outcomes
                     /\ HoldsClaim(s) /\ row'[r] = Completed(s)
  \/ row[r].state = "running" /\ row'[r] = [row[r] EXCEPT !.age = Older(@, Stale)]

LEMMA StepIsRowStep ==
  ASSUME TypeOK, OutcomeKnown, [Next]_vars, NEW r \in Runs PROVE RowStep(r)
<1>t. drain \in [Drains -> Drain] /\ row \in [Runs -> Row]
  BY DEF TypeOK
<1>1. ASSUME NEW i \in Items, Enqueue(i) PROVE RowStep(r)
  BY <1>1, <1>t DEF Enqueue, RowStep
<1>2. ASSUME NEW d \in Drains, StartPass(d) PROVE RowStep(r)
  BY <1>2, <1>t DEF StartPass, RowStep
<1>3. ASSUME NEW d \in Drains, NEW c \in drain[d].cursor, ClaimDue(d, c) PROVE RowStep(r)
  <2>1. c \in Runs \X Claimable
    BY <1>t DEF Drain
  <2> QED
    BY <1>3, <1>t, <2>1 DEF ClaimDue, ClaimWins, RowStep
<1>4. ASSUME NEW d \in Drains, NEW s \in drain[d].slots, Complete(d, s) PROVE RowStep(r)
  <2>1. s \in Slot /\ s.outcome \in Outcomes
    BY <1>4, <1>t, SlotFacts DEF Complete, OutcomeKnown
  <2>2. CASE HoldsClaim(s) /\ r = s.run
    BY <1>4, <2>1, <2>2 DEF Complete, RowStep
  <2>3. CASE ~(HoldsClaim(s) /\ r = s.run)
    BY <1>4, <2>3 DEF Complete, Advances, RowStep
  <2> QED
    BY <2>2, <2>3
<1>5. ASSUME Tick PROVE RowStep(r)
  BY <1>5 DEF Tick, RowStep
<1>6. ASSUME row' = row PROVE RowStep(r)
  BY <1>6 DEF RowStep
<1> QED
  BY <1>1, <1>2, <1>3, <1>4, <1>5, <1>6
     DEF Next, RunPass, WorkSlot, OpenCursor, RefreshFromDb, Resolve, RecordDelivery,
         DrainRaises, EndPass, Sigterm, Crash, ClearJobLock, vars

LEMMA StateFacts ==
  /\ Absent.state = "absent" /\ Pending.state = "pending"
  /\ ~Absent.completed /\ ~Pending.completed
  /\ Terminal \cap {"absent", "pending", "running", "failed"} = {}
  BY ChainAssumption DEF Absent, Pending, Terminal

(* The fields that matter to a verdict, after each rewrite of a row.       *)
LEMMA RewriteFacts ==
  ASSUME NEW r \in Runs, row[r] \in Row
  PROVE  /\ Reaped(r).state = "failed" /\ Reaped(r).attempts = row[r].attempts
         /\ (Reaped(r).completed <=> row[r].attempts >= MaxAttempts)
         /\ \A d \in Drains : Claimed(d, r).state = "running"
                            /\ Claimed(d, r).completed = row[r].completed
         /\ \A s : s.run = r => /\ Completed(s).state = s.outcome
                               /\ Completed(s).attempts = row[r].attempts
                               /\ (Completed(s).completed <=> IsFinal(s.outcome, s.att))
         /\ LET w == [row[r] EXCEPT !.age = Older(@, Stale)]
            IN w.state = row[r].state /\ w.attempts = row[r].attempts
               /\ w.completed = row[r].completed
  BY DEF Row, Reaped, Claimed, Completed

LEMMA CompletedStep ==
  ASSUME TypeOK, OutcomeKnown, CompletedMeansFinal, [Next]_vars
  PROVE  CompletedMeansFinal'
<1> SUFFICES ASSUME NEW r \in Runs
             PROVE  row'[r].completed <=> IsFinal(row'[r].state, row'[r].attempts)
  BY DEF CompletedMeansFinal, IsFinal
<1>0. row[r] \in Row /\ row[r].attempts \in Nat /\ MaxAttempts \in Nat
  BY QueueAssumption DEF TypeOK, Row
<1>i. row[r].completed <=> IsFinal(row[r].state, row[r].attempts)
  BY DEF CompletedMeansFinal
<1>1. CASE row'[r] = row[r]
  BY <1>1, <1>i
<1>2. CASE row'[r] = Pending
  BY <1>2, StateFacts DEF IsFinal
<1>3. CASE row'[r] = Reaped(r)
  BY <1>0, <1>3, RewriteFacts, StateFacts DEF IsFinal
<1>4. CASE /\ row[r].state \in Claimable /\ row[r].attempts < MaxAttempts
           /\ \E d \in Drains : row'[r] = Claimed(d, r)
  <2>1. ~IsFinal(row[r].state, row[r].attempts)
    BY <1>0, <1>4, StateFacts DEF IsFinal, Claimable
  <2>2. row'[r].state = "running" /\ row'[r].completed = row[r].completed
    BY <1>0, <1>4, RewriteFacts
  <2> QED
    BY <1>i, <2>1, <2>2, StateFacts DEF IsFinal
<1>5. CASE \E s \in Slot : s.run = r /\ HoldsClaim(s) /\ row'[r] = Completed(s)
  <2>1. PICK s \in Slot : s.run = r /\ HoldsClaim(s) /\ row'[r] = Completed(s)
    BY <1>5
  <2> QED
    BY <1>0, <2>1, RewriteFacts DEF HoldsClaim, IsFinal
<1>6. CASE row'[r] = [row[r] EXCEPT !.age = Older(@, Stale)]
  BY <1>0, <1>6, <1>i, RewriteFacts DEF IsFinal
<1> QED
  BY <1>1, <1>2, <1>3, <1>4, <1>5, <1>6, StepIsRowStep DEF RowStep

LEMMA BlankStep ==
  ASSUME TypeOK, OutcomeKnown, BlankUntilOffered, [Next]_vars
  PROVE  BlankUntilOffered'
<1> SUFFICES ASSUME NEW r \in Runs, row'[r].state = "absent" PROVE row'[r] = Absent
  BY DEF BlankUntilOffered, Absent
<1>0. row[r] \in Row
  BY DEF TypeOK
<1>1. row'[r].state # "absent" \/ row'[r] = row[r]
  <2>1. RowStep(r)
    BY StepIsRowStep
  <2>2. ASSUME NEW s \in Slot, s.run = r, s.outcome \in Outcomes, row'[r] = Completed(s)
        PROVE  row'[r].state # "absent"
    BY <1>0, <2>2, RewriteFacts, StateFacts DEF Outcomes
  <2> QED
    BY <1>0, <2>1, <2>2, RewriteFacts, StateFacts DEF RowStep
<1> QED
  BY <1>1 DEF BlankUntilOffered

LEMMA InvStart == Init => IInv
<1> SUFFICES ASSUME Init PROVE IInv
  OBVIOUS
<1>1. CompletedMeansFinal
  BY StateFacts DEF Init, CompletedMeansFinal, IsFinal
<1>2. BlankUntilOffered
  BY DEF Init, BlankUntilOffered
<1>3. OutcomeKnown
  BY IdleFacts DEF Init, OutcomeKnown
<1> QED
  BY <1>1, <1>2, <1>3, TypeInit DEF IInv

LEMMA InvStep == IInv /\ [Next]_vars => IInv'
  BY TypeStep, CompletedStep, BlankStep, OutcomeStep DEF IInv

-----------------------------------------------------------------------------
(* Every behaviour of the queue keeps its tables, passes and lock within   *)
(* their types; in particular attempts never exceeds the cap that          *)
(* claim_due's CAS re-checks.                                              *)
THEOREM TypeCorrect == Spec => []TypeOK
<1>1. IInv => TypeOK
  BY DEF IInv
<1> QED
  BY <1>1, InvStart, InvStep, PTL DEF Spec

(* completion_ts's rule holds of every row at every moment, whichever of   *)
(* complete, reap_stale and claim_due wrote it last.                       *)
THEOREM CompletedExact == Spec => []CompletedMeansFinal
<1>1. IInv => CompletedMeansFinal
  BY DEF IInv
<1> QED
  BY <1>1, InvStart, InvStep, PTL DEF Spec

-----------------------------------------------------------------------------
(* The queue implements the ledger.                                        *)

(* What the ledger sees of a row.                                          *)
Seen(w) == CASE w.state = "absent" -> "absent"
             [] IsFinal(w.state, w.attempts) -> w.state
             [] OTHER -> "open"

LEMMA VerdictSeen ==
  /\ Verdict = [r \in Runs |-> Seen(row[r])]
  /\ Verdict' = [r \in Runs |-> Seen(row'[r])]
  BY DEF Verdict, Seen

LEMMA SameRuns == Ledger!Runs = Runs /\ Ledger!Final = Outcomes
  BY DEF Ledger!Runs, Ledger!Ranks, Ledger!Final, Runs, Ranks, Outcomes, Terminal

(* How each rewrite of a row looks from the ledger.                        *)
LEMMA SeenFacts ==
  ASSUME TypeOK, NEW r \in Runs
  PROVE  /\ Seen(Absent) = "absent" /\ Seen(Pending) = "open"
         /\ row[r].state = "running" => Seen(row[r]) = "open"
         /\ row[r].state \in Claimable /\ row[r].attempts < MaxAttempts
              => Seen(row[r]) = "open"
         /\ \A d \in Drains : Seen(Claimed(d, r)) = "open"
         /\ Seen(Reaped(r)) = IF row[r].attempts >= MaxAttempts THEN "failed" ELSE "open"
         /\ row[r].state = "running" =>
              Seen([row[r] EXCEPT !.age = Older(@, Stale)]) = "open"
<1>0. row[r] \in Row /\ row[r].attempts \in Nat /\ MaxAttempts \in Nat \ {0}
  BY QueueAssumption DEF TypeOK, Row
<1>1. Seen(Absent) = "absent" /\ Seen(Pending) = "open"
  BY StateFacts DEF Seen, IsFinal
<1>2. ASSUME NEW w, w.state = "running" PROVE Seen(w) = "open"
  BY <1>2, StateFacts DEF Seen, IsFinal
<1>3. row[r].state \in Claimable /\ row[r].attempts < MaxAttempts => Seen(row[r]) = "open"
  BY <1>0, StateFacts DEF Seen, IsFinal, Claimable
<1>4. \A d \in Drains : Seen(Claimed(d, r)) = "open"
  BY <1>0, <1>2, RewriteFacts
<1>5. Seen(Reaped(r)) = IF row[r].attempts >= MaxAttempts THEN "failed" ELSE "open"
  BY <1>0, RewriteFacts, StateFacts DEF Seen, IsFinal
<1>6. row[r].state = "running" => Seen([row[r] EXCEPT !.age = Older(@, Stale)]) = "open"
  BY <1>0, <1>2, RewriteFacts
<1> QED
  BY <1>1, <1>2, <1>3, <1>4, <1>5, <1>6

(* A completion under a held claim settles the run with the outcome, or    *)
(* leaves it open when the outcome is a failure with attempts to spare.    *)
LEMMA SeenCompleted ==
  ASSUME TypeOK, NEW s \in Slot, s.outcome \in Outcomes, HoldsClaim(s)
  PROVE  /\ Seen(row[s.run]) = "open"
         /\ Seen(Completed(s)) \in {"open", s.outcome}
         /\ s.outcome # "failed" => Seen(Completed(s)) = s.outcome
<1>0. s.run \in Runs /\ row[s.run] \in Row
  BY DEF Slot, TypeOK
<1>1. Completed(s).state = s.outcome /\ Completed(s).attempts = row[s.run].attempts
  BY <1>0, RewriteFacts
<1>2. s.outcome # "absent" /\ (s.outcome # "failed" => s.outcome \in Terminal)
  BY StateFacts DEF Outcomes
<1> QED
  BY <1>0, <1>1, <1>2, SeenFacts DEF HoldsClaim, Seen, IsFinal

LEMMA LedgerStarts == Init => Ledger!LedgerInit
  BY SameRuns, VerdictSeen, StateFacts DEF Init, Seen, Ledger!LedgerInit

(* enqueue_many of the head is the ledger's offer.                         *)
LEMMA EnqueueOffers ==
  ASSUME TypeOK, NEW i \in Items, Enqueue(i) PROVE Ledger!Offer(i)
<1>1. Verdict[<<1, i>>] = "absent"
  BY RankFacts, SeenFacts, VerdictSeen DEF Enqueue
<1>2. Verdict' = [Verdict EXCEPT ![<<1, i>>] = "open"]
  BY RankFacts, SeenFacts, VerdictSeen DEF Enqueue, TypeOK
<1> QED
  BY <1>1, <1>2 DEF Ledger!Offer

(* The reap settles the exhausted stale runs as failed, and nothing else.  *)
LEMMA StartPassSettles ==
  ASSUME TypeOK, NEW d \in Drains, StartPass(d)
  PROVE  \E S \in SUBSET Runs : Ledger!Settle(S, "failed")
<1> DEFINE S == {r \in Runs : IsStale(r) /\ row[r].attempts >= MaxAttempts}
<1>1. ASSUME NEW r \in Runs
      PROVE  /\ r \in S => Verdict[r] = "open"
             /\ Verdict'[r] = IF r \in S THEN "failed" ELSE Verdict[r]
  <2>1. row'[r] = IF IsStale(r) THEN Reaped(r) ELSE row[r]
    BY DEF StartPass
  <2>2. IsStale(r) => Seen(row[r]) = "open"
    BY SeenFacts DEF IsStale
  <2>3. r \in S <=> IsStale(r) /\ row[r].attempts >= MaxAttempts
    OBVIOUS
  <2>4. Verdict[r] = Seen(row[r]) /\ Verdict'[r] = Seen(row'[r])
    BY VerdictSeen
  <2> HIDE DEF S
  <2> QED
    BY <2>1, <2>2, <2>3, <2>4, SeenFacts
<1>2. S \in SUBSET Runs /\ \A r \in Runs : ~Ledger!Opens(S, "failed", r)
  BY DEF Ledger!Opens
<1> HIDE DEF S
<1>3. Verdict' = [r \in Runs |-> IF r \in S THEN "failed"
                                 ELSE IF Ledger!Opens(S, "failed", r) /\ Verdict[r] = "absent" THEN "open"
                                 ELSE Verdict[r]]
  BY <1>1, <1>2, VerdictSeen
<1>4. Ledger!Settle(S, "failed")
  BY <1>1, <1>2, <1>3, SameRuns DEF Ledger!Settle
<1> QED
  BY <1>2, <1>4

(* The completion transaction is one settlement, with the advance a        *)
(* success brings; a lost claim and a retryable failure change nothing.    *)
LEMMA CompleteSettles ==
  ASSUME TypeOK, BlankUntilOffered, OutcomeKnown,
         NEW d \in Drains, NEW s \in drain[d].slots, Complete(d, s)
  PROVE  (\E o \in Outcomes : Ledger!Settle({s.run}, o)) \/ Verdict' = Verdict
<1>0. s \in Slot /\ s.run \in Runs /\ s.outcome \in Outcomes
  BY SlotFacts DEF TypeOK, Complete, OutcomeKnown
<1>1. CASE ~HoldsClaim(s)
  BY <1>1, VerdictSeen DEF Complete
<1>2. CASE HoldsClaim(s)
  <2>1. row' = [r \in Runs |-> IF r = s.run THEN Completed(s)
                               ELSE IF Advances(s, r) THEN Pending ELSE row[r]]
    BY <1>2 DEF Complete
  <2>2. Verdict[s.run] = "open" /\ Verdict'[s.run] = Seen(Completed(s))
    BY <1>0, <1>2, <2>1, SeenCompleted, VerdictSeen
  <2>3. ASSUME NEW r \in Runs, r # s.run
        PROVE  Verdict'[r] = IF Advances(s, r) THEN "open" ELSE Verdict[r]
    BY <2>1, <2>3, SeenFacts, VerdictSeen
  <2>4. CASE Seen(Completed(s)) = s.outcome
    <3>1. ASSUME NEW r \in Runs, r # s.run
          PROVE  Advances(s, r) <=> Ledger!Opens({s.run}, s.outcome, r) /\ Verdict[r] = "absent"
      <4>1. Verdict[r] = "absent" <=> row[r].state = "absent"
        BY StateFacts, VerdictSeen DEF Seen, IsFinal
      <4>2. Verdict[r] = "absent" <=> row[r] = Absent
        BY <4>1, StateFacts DEF BlankUntilOffered
      <4> QED
        BY <4>2 DEF Advances, Successor, Ledger!Opens, Ledger!Successor
    <3>2. Verdict' = [r \in Runs |->
                        IF r \in {s.run} THEN s.outcome
                        ELSE IF Ledger!Opens({s.run}, s.outcome, r) /\ Verdict[r] = "absent"
                        THEN "open" ELSE Verdict[r]]
      BY <2>2, <2>3, <2>4, <3>1, VerdictSeen
    <3>3. Ledger!Settle({s.run}, s.outcome)
      BY <2>2, <3>2, SameRuns DEF Ledger!Settle
    <3> QED
      BY <1>0, <3>3
  <2>5. CASE Seen(Completed(s)) # s.outcome
    <3>1. Seen(Completed(s)) = "open" /\ s.outcome = "failed"
      BY <1>0, <1>2, <2>5, SeenCompleted
    <3>2. \A r \in Runs : Verdict'[r] = Verdict[r]
      BY <2>2, <2>3, <3>1 DEF Advances
    <3> QED
      BY <3>2, VerdictSeen
  <2> QED
    BY <2>4, <2>5
<1> QED
  BY <1>1, <1>2

(* Claims and the passing of time are invisible to the ledger.             *)
LEMMA ClaimIsSilent ==
  ASSUME TypeOK, NEW d \in Drains, NEW c \in drain[d].cursor, ClaimDue(d, c)
  PROVE  Verdict' = Verdict
<1>1. c \in Runs \X Claimable
  BY DEF TypeOK, Drain
<1>2. ASSUME NEW r \in Runs PROVE Seen(row'[r]) = Seen(row[r])
  <2>1. CASE ClaimWins(c) /\ r = c[1]
    <3>1. row'[r] = Claimed(d, r)
      BY <2>1 DEF ClaimDue, TypeOK
    <3>2. row[r].state \in Claimable /\ row[r].attempts < MaxAttempts
      BY <1>1, <2>1 DEF ClaimWins
    <3> QED
      BY <3>1, <3>2, SeenFacts
  <2>2. CASE ~(ClaimWins(c) /\ r = c[1])
    BY <2>2 DEF ClaimDue, TypeOK
  <2> QED
    BY <2>1, <2>2
<1> QED
  BY <1>2, VerdictSeen

LEMMA TickIsSilent == ASSUME TypeOK, Tick PROVE Verdict' = Verdict
<1>1. ASSUME NEW r \in Runs PROVE Seen(row'[r]) = Seen(row[r])
  BY SeenFacts DEF Tick
<1> QED
  BY <1>1, VerdictSeen

LEMMA LedgerSteps == ASSUME IInv, [Next]_vars PROVE [Ledger!LedgerNext]_Verdict
<1> USE DEF IInv
<1>1. ASSUME NEW i \in Items, Enqueue(i) PROVE Ledger!LedgerNext
  BY <1>1, EnqueueOffers DEF Ledger!LedgerNext
<1>2. ASSUME NEW d \in Drains, StartPass(d) PROVE [Ledger!LedgerNext]_Verdict
  BY <1>2, StartPassSettles, SameRuns, StateFacts DEF Ledger!LedgerNext, Outcomes
<1>3. ASSUME NEW d \in Drains, NEW s \in drain[d].slots, Complete(d, s)
      PROVE  [Ledger!LedgerNext]_Verdict
  <2>1. s.run \in Runs
    BY SlotFacts DEF TypeOK
  <2> QED
    BY <1>3, <2>1, CompleteSettles, SameRuns DEF Ledger!LedgerNext
<1>4. ASSUME NEW d \in Drains, NEW c \in drain[d].cursor, ClaimDue(d, c)
      PROVE  Verdict' = Verdict
  BY <1>4, ClaimIsSilent
<1>5. ASSUME Tick PROVE Verdict' = Verdict
  BY <1>5, TickIsSilent
<1>6. ASSUME row' = row PROVE Verdict' = Verdict
  BY <1>6, VerdictSeen
<1> QED
  BY <1>1, <1>2, <1>3, <1>4, <1>5, <1>6
     DEF Next, RunPass, WorkSlot, OpenCursor, RefreshFromDb, Resolve, RecordDelivery,
         DrainRaises, EndPass, Sigterm, Crash, ClearJobLock, vars

(* One verdict per chain position and item, settled once, and a success    *)
(* opens its successor in the same step: under any number of concurrent    *)
(* passes, stale completions, crashes and reaps.                           *)
THEOREM QueueImplementsLedger == Spec => ImplementsLedger
<1>1. Spec => Ledger!LedgerInit /\ [][Ledger!LedgerNext]_Verdict
  BY LedgerStarts, LedgerSteps, InvStart, InvStep, PTL DEF Spec
<1> QED
  BY <1>1 DEF ImplementsLedger, Ledger!LedgerSpec

(* The ledger's own theorem, read through the refinement.                  *)
LedgerProofs == INSTANCE ChainLedger_proofs WITH verdict <- Verdict

(* drain.py: "a SUCCEEDED run and its successor commit together, no        *)
(* silently stalled chain"; nor is a successor ever there without it.      *)
THEOREM NoChainStalls == Spec => []NoStalledChain
<1> USE DEF Ledger!Ranks, Ledger!Runs, Ledger!Final, LedgerProofs!Ranks, LedgerProofs!Runs,
            LedgerProofs!Final
<1>1. LedgerProofs!LedgerSpec => []LedgerProofs!ChainConsistent
  BY LedgerProofs!LedgerChains, ChainAssumption DEF LedgerProofs!ChainAssumption
<1>2. Ledger!LedgerInit => LedgerProofs!LedgerInit
  BY DEF Ledger!LedgerInit, LedgerProofs!LedgerInit
<1>3. [Ledger!LedgerNext]_Verdict => [LedgerProofs!LedgerNext]_Verdict
  BY DEF Ledger!LedgerNext, LedgerProofs!LedgerNext, Ledger!Offer, LedgerProofs!Offer,
         Ledger!Settle, LedgerProofs!Settle, Ledger!Opens, LedgerProofs!Opens,
         Ledger!Successor, LedgerProofs!Successor
<1>4. LedgerProofs!ChainConsistent => NoStalledChain
  BY DEF Ledger!ChainConsistent, Ledger!Successor, LedgerProofs!Successor, LedgerProofs!ChainConsistent, NoStalledChain
<1> QED
  BY <1>1, <1>2, <1>3, <1>4, QueueImplementsLedger, PTL
     DEF ImplementsLedger, Ledger!LedgerSpec, LedgerProofs!LedgerSpec

-----------------------------------------------------------------------------
(* The audit of outbound calls.                                            *)

(* A judge's success of an outbound action is past RecordDelivery once it  *)
(* is decided.                                                             *)
AuditReady ==
  \A d \in Drains : \A s \in drain[d].slots :
    s.stage = "decided" /\ s.outcome = "succeeded" /\ s.run[1] \in Outbound
      => deliveries[s.run] >= 1

AInv == IInv /\ AuditReady /\ AuditBeforeVerdict

LEMMA AuditStart == Init => AInv
  BY InvStart, IdleFacts, StateFacts DEF Init, AInv, AuditReady, AuditBeforeVerdict

(* Delivery rows are only ever added.                                      *)
LEMMA DeliveriesGrow ==
  ASSUME TypeOK, [Next]_vars, NEW r \in Runs PROVE deliveries'[r] >= deliveries[r]
<1>0. deliveries \in [Runs -> Nat]
  BY DEF TypeOK
<1>1. ASSUME NEW d \in Drains, NEW s \in drain[d].slots, RecordDelivery(d, s)
      PROVE  deliveries'[r] >= deliveries[r]
  BY <1>0, <1>1 DEF RecordDelivery
<1>2. ASSUME deliveries' = deliveries PROVE deliveries'[r] >= deliveries[r]
  BY <1>0, <1>2
<1> QED
  BY <1>1, <1>2 DEF Next, RunPass, WorkSlot, Enqueue, StartPass, OpenCursor, ClaimDue,
     RefreshFromDb, Resolve, Complete, DrainRaises, EndPass, Sigterm, Crash, ClearJobLock,
     Tick, vars

LEMMA AuditReadyStep == ASSUME IInv, AuditReady, [Next]_vars PROVE AuditReady'
<1> DEFINE Owed(s) == s.stage = "decided" /\ s.outcome = "succeeded" /\ s.run[1] \in Outbound
<1>t. /\ TypeOK /\ drain \in [Drains -> Drain] /\ deliveries \in [Runs -> Nat]
      /\ deliveries' \in [Runs -> Nat]
  BY InvStep DEF IInv, TypeOK
<1>k. ASSUME NEW d \in Drains, NEW s \in drain[d].slots
      PROVE  s \in Slot /\ s.run \in Runs /\ (Owed(s) => deliveries'[s.run] >= 1)
  BY <1>t, SlotFacts, DeliveriesGrow DEF AuditReady
<1> SUFFICES ASSUME NEW e \in Drains, NEW u \in drain'[e].slots
             PROVE  u \in drain[e].slots \/ (Owed(u) => deliveries'[u.run] >= 1)
  BY <1>k DEF AuditReady
<1> HIDE DEF Owed
<1>1. ASSUME NEW i \in Items, Enqueue(i) PROVE u \in drain[e].slots
  BY <1>1 DEF Enqueue
<1>2. ASSUME NEW d \in Drains, StartPass(d) PROVE u \in drain[e].slots
  BY <1>2, <1>t, IdleFacts DEF StartPass
<1>3. ASSUME NEW d \in Drains, OpenCursor(d) PROVE u \in drain[e].slots
  BY <1>3, <1>t DEF OpenCursor, Drain
<1>4. ASSUME NEW d \in Drains, NEW c \in drain[d].cursor, ClaimDue(d, c)
      PROVE  u \in drain[e].slots \/ ~Owed(u)
  <2>1. ~Owed(NewSlot(c[1]))
    BY DEF Owed, NewSlot
  <2>2. u \in drain[e].slots \/ u = NewSlot(c[1])
    BY <1>4, <1>t DEF ClaimDue, Drain
  <2> QED
    BY <2>1, <2>2
<1>5. ASSUME NEW d \in Drains, NEW s \in drain[d].slots, RefreshFromDb(d, s)
      PROVE  u \in drain[e].slots \/ ~Owed(u)
  <2> DEFINE t == [s EXCEPT !.stage = "ready", !.att = row[s.run].attempts]
  <2>0. s \in Slot /\ row[s.run].attempts \in 0 .. MaxAttempts
    BY <1>k, <1>t DEF TypeOK, Row
  <2>1. t \in Slot /\ ~Owed(t)
    BY <2>0 DEF Slot, Owed
  <2>2. u \in drain[e].slots \/ u = t
    BY <1>5, <1>t, <2>1, ReplaceFacts DEF RefreshFromDb
  <2> QED
    BY <2>1, <2>2
<1>6. ASSUME NEW d \in Drains, NEW s \in drain[d].slots, Resolve(d, s)
      PROVE  u \in drain[e].slots \/ ~Owed(u)
  <2>1. PICK o \in Outcomes, called \in BOOLEAN, outbound \in BOOLEAN :
          /\ (o = "succeeded" /\ s.run[1] \in Outbound) => called
          /\ called /\ ~outbound => o = "failed"
          /\ drain' = Replace(d, s, [s EXCEPT !.stage = Judged(outbound), !.outcome = o])
    BY <1>6 DEF Resolve
  <2> DEFINE t == [s EXCEPT !.stage = Judged(outbound), !.outcome = o]
  <2>2. t \in Slot /\ ~Owed(t)
    BY <1>k, <2>1 DEF Slot, Owed, Judged
  <2>3. u \in drain[e].slots \/ u = t
    BY <1>t, <2>1, <2>2, ReplaceFacts
  <2> QED
    BY <2>2, <2>3
<1>7. ASSUME NEW d \in Drains, NEW s \in drain[d].slots, RecordDelivery(d, s)
      PROVE  u \in drain[e].slots \/ deliveries'[u.run] >= 1
  <2> DEFINE t == [s EXCEPT !.stage = "decided"]
  <2>1. t \in Slot /\ t.run = s.run
    BY <1>k DEF Slot
  <2>2. u \in drain[e].slots \/ u = t
    BY <1>7, <1>t, <2>1, ReplaceFacts DEF RecordDelivery
  <2>3. deliveries'[s.run] >= 1
    BY <1>7, <1>k, <1>t DEF RecordDelivery
  <2> QED
    BY <2>1, <2>2, <2>3
<1>8. ASSUME NEW d \in Drains, NEW s \in drain[d].slots, Complete(d, s) \/ DrainRaises(d, s)
      PROVE  u \in drain[e].slots
  BY <1>8, <1>t, DropFacts DEF Complete, DrainRaises
<1>9. ASSUME NEW d \in Drains, EndPass(d) \/ Sigterm(d) \/ Crash(d) PROVE u \in drain[e].slots
  <2>1. Unwound(d).slots \subseteq drain[d].slots
    BY <1>t DEF Unwound, Drain
  <2>2. drain' = [drain EXCEPT ![d] = Idle] \/ drain' = [drain EXCEPT ![d] = Unwound(d)]
    BY <1>9 DEF EndPass, Sigterm, Crash
  <2> QED
    BY <1>t, <2>1, <2>2, IdleFacts
<1>10. ASSUME ClearJobLock \/ UNCHANGED vars PROVE u \in drain[e].slots
  BY <1>10 DEF ClearJobLock, vars
<1>11. ASSUME Tick PROVE u \in drain[e].slots \/ (Owed(u) => deliveries'[u.run] >= 1)
  <2>1. CASE u \notin drain[e].slots
    <3>1. PICK s \in drain[e].slots : u = [s EXCEPT !.age = @ + 1]
      BY <1>11, <1>t, <2>1 DEF Tick, Drain
    <3>2. u.run = s.run /\ (Owed(u) => Owed(s))
      BY <1>k, <3>1 DEF Owed, Slot
    <3> QED
      BY <1>k, <3>2
  <2> QED
    BY <2>1
<1> QED
  BY <1>1, <1>2, <1>3, <1>4, <1>5, <1>6, <1>7, <1>8, <1>9, <1>10, <1>11
     DEF Next, RunPass, WorkSlot

(* Only a completion makes a row succeed, and its slot was audited.        *)
LEMMA AuditStep == AInv /\ [Next]_vars => AInv'
<1> SUFFICES ASSUME AInv, [Next]_vars PROVE AuditBeforeVerdict'
  BY InvStep, AuditReadyStep DEF AInv
<1>t. TypeOK /\ OutcomeKnown /\ row \in [Runs -> Row] /\ deliveries \in [Runs -> Nat]
  BY DEF AInv, IInv, TypeOK
<1>d. deliveries' \in [Runs -> Nat]
  BY InvStep DEF AInv, IInv, TypeOK
<1> SUFFICES ASSUME NEW r \in Runs, r[1] \in Outbound, row'[r].state = "succeeded"
             PROVE  deliveries'[r] >= 1
  BY DEF AuditBeforeVerdict
<1>1. CASE row[r].state = "succeeded"
  <2>1. deliveries[r] >= 1 /\ deliveries'[r] >= deliveries[r]
    BY <1>1, <1>t, DeliveriesGrow DEF AInv, AuditBeforeVerdict
  <2> QED
    BY <1>d, <1>t, <2>1
<1>2. CASE row[r].state # "succeeded"
  <2>1. ASSUME NEW d \in Drains, NEW s \in drain[d].slots, Complete(d, s)
        PROVE  deliveries'[r] >= 1
    <3>1. s \in Slot /\ row[r] \in Row
      BY <1>t, SlotFacts DEF TypeOK
    <3>2. row'[r] = row[r] \/ row'[r] = Pending \/ (r = s.run /\ row'[r] = Completed(s))
      BY <1>t, <2>1 DEF Complete
    <3>3. r = s.run /\ s.outcome = "succeeded"
      BY <1>2, <3>1, <3>2, RewriteFacts, StateFacts
    <3>4. s.stage = "decided" /\ deliveries' = deliveries
      BY <2>1 DEF Complete
    <3> QED
      BY <3>3, <3>4 DEF AInv, AuditReady
  <2>2. ASSUME NEW i \in Items, Enqueue(i) PROVE FALSE
    BY <1>2, <1>t, <2>2, StateFacts DEF Enqueue
  <2>3. ASSUME NEW d \in Drains, StartPass(d) PROVE FALSE
    BY <1>2, <1>t, <2>3, RewriteFacts DEF StartPass
  <2>4. ASSUME NEW d \in Drains, NEW c \in drain[d].cursor, ClaimDue(d, c) PROVE FALSE
    <3>1. row'[r] = row[r] \/ row'[r] = Claimed(d, r)
      BY <1>t, <2>4 DEF ClaimDue
    <3> QED
      BY <1>2, <1>t, <3>1, RewriteFacts
  <2>5. ASSUME Tick PROVE FALSE
    BY <1>2, <1>t, <2>5, RewriteFacts DEF Tick
  <2>6. ASSUME row' = row PROVE FALSE
    BY <1>2, <2>6
  <2> QED
    BY <2>1, <2>2, <2>3, <2>4, <2>5, <2>6
       DEF Next, RunPass, WorkSlot, OpenCursor, RefreshFromDb, Resolve, RecordDelivery,
           DrainRaises, EndPass, Sigterm, Crash, ClearJobLock, vars
<1> QED
  BY <1>1, <1>2

(* "The audit row is a true record of a real POST even if the completion   *)
(* loses the claim or raises": no outbound action stands SUCCEEDED without *)
(* a delivery row, whoever completed it.                                   *)
THEOREM SuccessIsAudited == Spec => []AuditBeforeVerdict
<1>1. AInv => AuditBeforeVerdict
  BY DEF AInv
<1> QED
  BY <1>1, AuditStart, AuditStep, PTL DEF Spec

-----------------------------------------------------------------------------
(* As shipped: one pass at a time, and one run at a time in it.            *)
Serial == SingleFlight /\ Concurrency = 1

(* A pass that is at work holds the lock, and it holds one run at most.    *)
OneAtWork(d) ==
  /\ drain[d].phase # "idle" => lock = d
  /\ drain[d].phase # "exiting"
  /\ drain[d].phase # "pass" => drain[d].slots = {}
  /\ drain[d].slots = {} \/ \E s \in drain[d].slots : drain[d].slots = {s}

(* The row of a run in a slot is RUNNING under the claim that took it.     *)
Owns(s) ==
  /\ row[s.run].state = "running"
  /\ row[s.run].attempts = s.claim
  /\ s.stage # "claimed" => s.att = s.claim

SInv == /\ IInv
        /\ \A d \in Drains : OneAtWork(d)
        /\ \A d \in Drains : \A s \in drain[d].slots : Owns(s)

(* While a pass is at work, no other process has a slot or a phase.        *)
LEMMA OthersIdle ==
  ASSUME SInv, NEW d \in Drains, drain[d].phase # "idle"
  PROVE  /\ lock = d /\ lock # NoDrain
         /\ \A e \in Drains : e # d => drain[e].phase = "idle" /\ drain[e].slots = {}
  BY QueueAssumption DEF SInv, OneAtWork

LEMMA NoneAtWork ==
  ASSUME SInv, \A d \in Drains : drain[d].phase = "idle"
  PROVE  \A d \in Drains : drain[d].slots = {}
  BY DEF SInv, OneAtWork

(* The lock is free, or its holder is idle: nobody is at work.             *)
LEMMA FreeMeansIdle ==
  ASSUME SInv, lock = NoDrain \/ LockOrphaned
  PROVE  \A d \in Drains : drain[d].phase = "idle"
  BY QueueAssumption DEF SInv, OneAtWork, LockOrphaned

(* A slot in hand is the only one there is.                                *)
LEMMA OneSlot ==
  ASSUME SInv, NEW d \in Drains, NEW s \in drain[d].slots
  PROVE  /\ drain[d].phase = "pass" /\ drain[d].slots = {s}
         /\ Owns(s) /\ s \in Slot
  BY DEF SInv, IInv, OneAtWork, TypeOK, Drain

(* A pass that puts its slot back, changed or not, or drops it.            *)
LEMMA SlotReplaced ==
  ASSUME SInv, NEW d \in Drains, NEW s \in drain[d].slots, NEW t \in Slot,
         drain' = Replace(d, s, t), lock' = lock
  PROVE  /\ \A e \in Drains : OneAtWork(e)'
         /\ \A e \in Drains : \A u \in drain'[e].slots : u = t
<1>1. drain \in [Drains -> Drain] /\ drain[d].slots = {s} /\ drain[d].phase = "pass"
  BY OneSlot DEF SInv, IInv, TypeOK
<1>2. drain'[d].slots = {t} /\ drain'[d].phase = "pass"
  BY <1>1 DEF Replace, Drain
<1>3. \A e \in Drains : e # d => drain'[e] = drain[e]
  BY <1>1 DEF Replace
<1>4. \A e \in Drains : e # d => drain[e].phase = "idle" /\ drain[e].slots = {}
  BY <1>1, OthersIdle
<1>5. lock = d
  BY <1>1, OthersIdle
<1> QED
  BY <1>2, <1>3, <1>4, <1>5 DEF OneAtWork

LEMMA SlotDropped ==
  ASSUME SInv, NEW d \in Drains, NEW s \in drain[d].slots, drain' = Drop(d, s), lock' = lock
  PROVE  \A e \in Drains : OneAtWork(e)' /\ drain'[e].slots = {}
<1>1. drain \in [Drains -> Drain] /\ drain[d].slots = {s} /\ drain[d].phase = "pass"
  BY OneSlot DEF SInv, IInv, TypeOK
<1>2. drain'[d].slots = {} /\ drain'[d].phase = "pass"
  BY <1>1 DEF Drop, Drain
<1>3. \A e \in Drains : e # d => drain'[e] = drain[e]
  BY <1>1 DEF Drop
<1>4. \A e \in Drains : e # d => drain[e].phase = "idle" /\ drain[e].slots = {}
  BY <1>1, OthersIdle
<1>5. lock = d
  BY <1>1, OthersIdle
<1> QED
  BY <1>2, <1>3, <1>4, <1>5 DEF OneAtWork

(* A process that becomes idle takes its slots with it.                    *)
LEMMA PassGone ==
  ASSUME SInv, NEW d \in Drains, drain[d].phase # "idle",
         drain' = [drain EXCEPT ![d] = Idle]
  PROVE  \A e \in Drains : OneAtWork(e)' /\ drain'[e].slots = {}
<1>1. drain \in [Drains -> Drain]
  BY DEF SInv, IInv, TypeOK
<1>2. \A e \in Drains : drain'[e].phase = "idle" /\ drain'[e].slots = {}
  BY <1>1, OthersIdle DEF Idle
<1> QED
  BY <1>2 DEF OneAtWork

(* Where no slot is left, no claim is either.                              *)
LEMMA NothingHeld ==
  ASSUME \A e \in Drains : OneAtWork(e)' /\ drain'[e].slots = {}
  PROVE  /\ \A e \in Drains : OneAtWork(e)'
         /\ \A e \in Drains : \A u \in drain'[e].slots : Owns(u)'
  OBVIOUS

LEMMA ClaimIsOwn ==
  ASSUME Serial, SInv, NEW d \in Drains, NEW c \in drain[d].cursor, ClaimDue(d, c)
  PROVE  /\ \A e \in Drains : OneAtWork(e)'
         /\ \A e \in Drains : \A u \in drain'[e].slots : Owns(u)'
<1>1. drain \in [Drains -> Drain] /\ row \in [Runs -> Row] /\ drain[d].phase = "pass"
  BY DEF SInv, IInv, TypeOK, ClaimDue, MayClaim
<1>2. drain[d].slots = {}
  <2>1. SUFFICES ASSUME NEW s, drain[d].slots = {s} PROVE FALSE
    BY DEF SInv, OneAtWork
  <2>2. Cardinality(drain[d].slots) = 1
    BY <2>1, FS_Singleton
  <2> QED
    BY <2>2 DEF ClaimDue, MayClaim, Serial
<1>3. lock' = d /\ \A e \in Drains : e # d => drain[e].phase = "idle" /\ drain[e].slots = {}
  BY <1>1, OthersIdle DEF ClaimDue
<1>4. /\ \A e \in Drains : e # d => drain'[e] = drain[e]
      /\ drain'[d].phase = "pass"
      /\ drain'[d].slots = IF ClaimWins(c) THEN {NewSlot(c[1])} ELSE {}
  BY <1>1, <1>2 DEF ClaimDue, Drain
<1>5. \A e \in Drains : OneAtWork(e)'
  BY <1>3, <1>4 DEF OneAtWork
<1>6. c[1] \in Runs
  BY <1>1 DEF Drain
<1>7. ASSUME NEW t, ClaimWins(c), t = NewSlot(c[1]) PROVE Owns(t)'
  <2>1. row'[c[1]] = Claimed(d, c[1]) /\ row[c[1]] \in Row
    BY <1>1, <1>6, <1>7 DEF ClaimDue
  <2>2. row'[c[1]].state = "running" /\ row'[c[1]].attempts = row[c[1]].attempts + 1
    BY <2>1 DEF Claimed, Row
  <2>3. t.run = c[1] /\ t.claim = row[c[1]].attempts + 1 /\ t.stage = "claimed"
    BY <1>7 DEF NewSlot
  <2> QED
    BY <2>2, <2>3 DEF Owns
<1>8. ASSUME NEW e \in Drains, NEW u \in drain'[e].slots PROVE Owns(u)'
  <2>1. ClaimWins(c) /\ u = NewSlot(c[1])
    BY <1>3, <1>4
  <2> QED
    BY <1>7, <2>1
<1> QED
  BY <1>5, <1>8

LEMMA SerialStep == ASSUME Serial, SInv, [Next]_vars PROVE SInv'
<1>i. IInv'
  BY InvStep DEF SInv
<1>t. drain \in [Drains -> Drain] /\ row \in [Runs -> Row]
  BY DEF SInv, IInv, TypeOK
<1> SUFFICES /\ \A e \in Drains : OneAtWork(e)'
             /\ \A e \in Drains : \A u \in drain'[e].slots : Owns(u)'
  BY <1>i DEF SInv
<1> DEFINE Goal == /\ \A e \in Drains : OneAtWork(e)'
                   /\ \A e \in Drains : \A u \in drain'[e].slots : Owns(u)'
<1>1. ASSUME NEW i \in Items, Enqueue(i) PROVE Goal
  <2>1. ASSUME NEW e \in Drains, NEW u \in drain[e].slots PROVE row'[u.run] = row[u.run]
    <3>1. row[u.run].state = "running" /\ row[<<1, i>>].state = "absent"
      BY <1>1, OneSlot DEF Owns, Enqueue, Absent
    <3> QED
      BY <1>1, <1>t, <3>1 DEF Enqueue
  <2> QED
    BY <1>1, <2>1 DEF SInv, OneAtWork, Owns, Enqueue
<1>2. ASSUME NEW d \in Drains, StartPass(d) PROVE Goal
  <2>1. \A e \in Drains : drain[e].phase = "idle" /\ drain[e].slots = {}
    BY <1>2, FreeMeansIdle, NoneAtWork DEF StartPass, MayStart, Serial
  <2>2. \A e \in Drains : OneAtWork(e)' /\ drain'[e].slots = {}
    BY <1>2, <1>t, <2>1, IdleFacts DEF StartPass, Serial, OneAtWork, Idle
  <2> QED
    BY <2>2, NothingHeld
<1>3. ASSUME NEW d \in Drains, OpenCursor(d) PROVE Goal
  <2>1. /\ \A e \in Drains : drain'[e].slots = drain[e].slots
        /\ drain'[d].phase = "pass" /\ drain[d].phase = "opening"
        /\ \A e \in Drains : e # d => drain'[e] = drain[e]
    BY <1>3, <1>t DEF OpenCursor, Drain
  <2> QED
    BY <1>3, <2>1 DEF SInv, OneAtWork, Owns, OpenCursor
<1>4. ASSUME NEW d \in Drains, NEW c \in drain[d].cursor, ClaimDue(d, c) PROVE Goal
  BY <1>4, ClaimIsOwn
<1>5. ASSUME NEW d \in Drains, NEW s \in drain[d].slots, RefreshFromDb(d, s) PROVE Goal
  <2> DEFINE t == [s EXCEPT !.stage = "ready", !.att = row[s.run].attempts]
  <2>1. s \in Slot /\ Owns(s) /\ row[s.run].attempts \in 0 .. MaxAttempts
    BY <1>t, OneSlot DEF Slot, Row
  <2>2. t \in Slot /\ t.run = s.run /\ t.claim = s.claim /\ t.att = s.claim
    BY <2>1 DEF Slot, Owns
  <2>3. Owns(t)'
    BY <1>5, <2>1, <2>2 DEF Owns, RefreshFromDb
  <2> QED
    BY <1>5, <2>2, <2>3, SlotReplaced DEF RefreshFromDb
<1>6. ASSUME NEW d \in Drains, NEW s \in drain[d].slots, Resolve(d, s) PROVE Goal
  <2>1. PICK o \in Outcomes, called \in BOOLEAN, outbound \in BOOLEAN :
          drain' = Replace(d, s, [s EXCEPT !.stage = Judged(outbound), !.outcome = o])
    BY <1>6 DEF Resolve
  <2> DEFINE t == [s EXCEPT !.stage = Judged(outbound), !.outcome = o]
  <2>2. s \in Slot /\ Owns(s) /\ s.stage = "ready"
    BY <1>6, OneSlot DEF Resolve
  <2>3. t \in Slot /\ t.run = s.run /\ t.claim = s.claim /\ t.att = s.att
    BY <2>2 DEF Slot, Judged
  <2>4. Owns(t)'
    BY <1>6, <2>2, <2>3 DEF Owns, Resolve
  <2> QED
    BY <1>6, <2>1, <2>3, <2>4, SlotReplaced DEF Resolve
<1>7. ASSUME NEW d \in Drains, NEW s \in drain[d].slots, RecordDelivery(d, s) PROVE Goal
  <2> DEFINE t == [s EXCEPT !.stage = "decided"]
  <2>1. s \in Slot /\ Owns(s) /\ s.stage = "unrecorded"
    BY <1>7, OneSlot DEF RecordDelivery
  <2>2. t \in Slot /\ t.run = s.run /\ t.claim = s.claim /\ t.att = s.att
    BY <2>1 DEF Slot
  <2>3. Owns(t)'
    BY <1>7, <2>1, <2>2 DEF Owns, RecordDelivery
  <2> QED
    BY <1>7, <2>2, <2>3, SlotReplaced DEF RecordDelivery
<1>8. ASSUME NEW d \in Drains, NEW s \in drain[d].slots, Complete(d, s) \/ DrainRaises(d, s)
      PROVE  Goal
  BY <1>8, SlotDropped, NothingHeld DEF Complete, DrainRaises
<1>9. ASSUME NEW d \in Drains, EndPass(d) \/ Sigterm(d) \/ Crash(d) PROVE Goal
  BY <1>9, PassGone, NothingHeld DEF EndPass, Sigterm, Crash, Serial
<1>10. ASSUME ClearJobLock PROVE Goal
  <2>1. \A e \in Drains : drain[e].phase = "idle" /\ drain[e].slots = {}
    BY <1>10, FreeMeansIdle, NoneAtWork DEF ClearJobLock
  <2> QED
    BY <1>10, <2>1 DEF ClearJobLock, OneAtWork
<1>11. ASSUME Tick PROVE Goal
  <2>1. ASSUME NEW e \in Drains
        PROVE  OneAtWork(e)' /\ \A u \in drain'[e].slots : Owns(u)'
    <3>1. CASE drain[e].phase = "idle"
      <4>1. drain'[e] = drain[e] /\ drain[e].slots = {}
        BY <1>11, <3>1 DEF Tick, SInv, OneAtWork
      <4> QED
        BY <3>1, <4>1 DEF OneAtWork
    <3>2. CASE drain[e].phase # "idle"
      <4> DEFINE old == {[s EXCEPT !.age = @ + 1] : s \in drain[e].slots}
      <4>1. drain'[e].phase = drain[e].phase /\ drain'[e].slots = old
        BY <1>11, <1>t, <3>2 DEF Tick, Drain
      <4>2. drain[e].slots = {} => old = {}
        OBVIOUS
      <4>3. ASSUME NEW s \in drain[e].slots, drain[e].slots = {s}
            PROVE  old = {[s EXCEPT !.age = @ + 1]}
        BY <4>3
      <4>4. OneAtWork(e)'
        BY <1>11, <4>1, <4>2, <4>3 DEF SInv, OneAtWork, Tick
      <4>5. ASSUME NEW u \in old PROVE Owns(u)'
        <5>1. PICK s \in drain[e].slots : u = [s EXCEPT !.age = @ + 1]
          OBVIOUS
        <5>2. s \in Slot /\ Owns(s) /\ s.run \in Runs
          BY OneSlot DEF Slot
        <5>3. u.run = s.run /\ u.claim = s.claim /\ u.att = s.att /\ u.stage = s.stage
          BY <5>1, <5>2 DEF Slot
        <5>4. row'[s.run].state = row[s.run].state /\ row'[s.run].attempts = row[s.run].attempts
          BY <1>11, <1>t, <5>2 DEF Tick, Row
        <5> QED
          BY <5>2, <5>3, <5>4 DEF Owns
      <4> QED
        BY <4>1, <4>4, <4>5
    <3> QED
      BY <3>1, <3>2
  <2> QED
    BY <2>1
<1>12. ASSUME UNCHANGED vars PROVE Goal
  BY <1>12 DEF vars, SInv, OneAtWork, Owns
<1> HIDE DEF Goal
<1>13. Goal
  BY <1>1, <1>2, <1>3, <1>4, <1>5, <1>6, <1>7, <1>8, <1>9, <1>10, <1>11, <1>12
     DEF Next, RunPass, WorkSlot
<1> QED
  BY <1>13 DEF Goal

LEMMA SerialStart == Init => SInv
<1>1. ASSUME Init PROVE \A d \in Drains : OneAtWork(d) /\ drain[d].slots = {}
  BY <1>1, IdleFacts DEF Init, OneAtWork, Idle
<1> QED
  BY <1>1, InvStart DEF SInv

LEMMA SerialAlways == ASSUME Serial PROVE Spec => []SInv
<1>1. SInv /\ [Next]_vars => SInv'
  BY SerialStep
<1> QED
  BY <1>1, SerialStart, PTL DEF Spec

(* settings: "A slow-but-alive run is never false-reaped": in the shipped  *)
(* deployment the row of a worker that is past its refresh stays RUNNING   *)
(* under its claim until the worker itself is done with it.                *)
THEOREM WorkersKeepTheirRuns == ASSUME Serial PROVE Spec => []NoFalseReap
<1>1. SInv => NoFalseReap
  BY OneSlot DEF NoFalseReap, HoldsClaim, Owns
<1> QED
  BY <1>1, SerialAlways, PTL

(* complete: "the FRESH claim wins and the stale one loses": in the        *)
(* shipped deployment the second statement of a claim reads the attempts   *)
(* its first one wrote.                                                    *)
THEOREM FencesAreOwn == ASSUME Serial PROVE Spec => []FenceIsOwn
<1>1. SInv => FenceIsOwn
  BY OneSlot DEF FenceIsOwn, Owns
<1> QED
  BY <1>1, SerialAlways, PTL

-----------------------------------------------------------------------------
(* The calls of a run.                                                     *)

(* The attempts of a run whose slots are at one of these stages.           *)
ClaimsAt(r, stages) ==
  {n \in 1 .. MaxAttempts :
     \E d \in Drains : \E s \in drain[d].slots :
       s.run = r /\ s.claim = n /\ s.stage \in stages}

Unspent(r) == ClaimsAt(r, {"claimed", "ready"})                   \* it may still make its call
Unaudited(r) == ClaimsAt(r, {"claimed", "ready", "unrecorded"})   \* or still write its delivery row

(* An attempt belongs to one slot, and the row has counted it.             *)
OwnClaims ==
  \A d, e \in Drains : \A s \in drain[d].slots, t \in drain[e].slots :
    s.run = t.run /\ s.claim = t.claim => d = e /\ s = t

Burned == \A d \in Drains : \A s \in drain[d].slots : s.claim <= row[s.run].attempts

Counted(r) ==
  /\ posts[r] + Cardinality(Unspent(r)) <= row[r].attempts
  /\ deliveries[r] + Cardinality(Unaudited(r)) <= row[r].attempts

PInv == IInv /\ OwnClaims /\ Burned /\ \A r \in Runs : Counted(r)

LEMMA SetSizes == \A S \in SUBSET (1 .. MaxAttempts) : IsFiniteSet(S) /\ Cardinality(S) \in Nat
<1>1. 1 \in Int /\ MaxAttempts \in Int
  BY QueueAssumption
<1>2. IsFiniteSet(1 .. MaxAttempts)
  BY <1>1, FS_Interval
<1>3. ASSUME NEW S \in SUBSET (1 .. MaxAttempts) PROVE IsFiniteSet(S)
  BY <1>2, FS_Subset
<1> QED
  BY <1>3, FS_CardinalityType

LEMMA ClaimSets ==
  ASSUME NEW r
  PROVE  /\ Unspent(r) \in SUBSET (1 .. MaxAttempts) /\ Unspent(r)' \in SUBSET (1 .. MaxAttempts)
         /\ Unaudited(r) \in SUBSET (1 .. MaxAttempts) /\ Unaudited(r)' \in SUBSET (1 .. MaxAttempts)
  BY DEF Unspent, Unaudited, ClaimsAt

LEMMA Numbers ==
  ASSUME IInv, IInv', NEW r \in Runs
  PROVE  /\ posts[r] \in Nat /\ posts'[r] \in Nat
         /\ deliveries[r] \in Nat /\ deliveries'[r] \in Nat
         /\ row[r].attempts \in Nat /\ row'[r].attempts \in Nat
         /\ Cardinality(Unspent(r)) \in Nat /\ Cardinality(Unspent(r)') \in Nat
         /\ Cardinality(Unaudited(r)) \in Nat /\ Cardinality(Unaudited(r)') \in Nat
<1>1. row[r].attempts \in Nat /\ row'[r].attempts \in Nat
  BY QueueAssumption DEF IInv, TypeOK, Row
<1> QED
  BY <1>1, ClaimSets, SetSizes DEF IInv, TypeOK

(* Most steps call nobody and write no delivery row.                       *)
LEMMA CountsKeep ==
  ASSUME IInv, IInv', NEW r \in Runs, Counted(r),
         posts'[r] = posts[r], deliveries'[r] = deliveries[r],
         row'[r].attempts >= row[r].attempts,
         Unspent(r)' \subseteq Unspent(r), Unaudited(r)' \subseteq Unaudited(r)
  PROVE  Counted(r)'
<1>1. /\ Cardinality(Unspent(r)') <= Cardinality(Unspent(r))
      /\ Cardinality(Unaudited(r)') <= Cardinality(Unaudited(r))
  BY ClaimSets, SetSizes, FS_Subset
<1> QED
  BY <1>1, Numbers DEF Counted

(* A claim adds an attempt and the slot that may spend it.                 *)
LEMMA CountsClaim ==
  ASSUME IInv, IInv', NEW r \in Runs, Counted(r), NEW n \in Nat,
         posts'[r] = posts[r], deliveries'[r] = deliveries[r],
         row'[r].attempts = row[r].attempts + 1,
         Unspent(r)' \subseteq Unspent(r) \cup {n}, Unaudited(r)' \subseteq Unaudited(r) \cup {n}
  PROVE  Counted(r)'
<1>1. ASSUME NEW S \in {Unspent(r), Unaudited(r)}
      PROVE  /\ IsFiniteSet(S \cup {n})
             /\ Cardinality(S \cup {n}) <= Cardinality(S) + 1
             /\ Cardinality(S \cup {n}) \in Nat
  <2>1. IsFiniteSet(S) /\ Cardinality(S) \in Nat
    BY ClaimSets, SetSizes
  <2>2. IsFiniteSet(S \cup {n})
    BY <2>1, FS_AddElement
  <2>3. Cardinality(S \cup {n}) \in {Cardinality(S), Cardinality(S) + 1}
    BY <2>1, FS_AddElement, Zenon
  <2> QED
    BY <2>1, <2>2, <2>3
<1>2. /\ Cardinality(Unspent(r)') <= Cardinality(Unspent(r) \cup {n})
      /\ Cardinality(Unaudited(r)') <= Cardinality(Unaudited(r) \cup {n})
  BY <1>1, ClaimSets, SetSizes, FS_Subset
<1> QED
  BY <1>1, <1>2, Numbers DEF Counted

(* A call spends an attempt.                                               *)
LEMMA CountsCall ==
  ASSUME IInv, IInv', NEW r \in Runs, Counted(r), NEW n \in Unspent(r),
         posts'[r] = posts[r] + 1, deliveries'[r] = deliveries[r],
         row'[r].attempts = row[r].attempts,
         Unspent(r)' \subseteq Unspent(r) \ {n}, Unaudited(r)' \subseteq Unaudited(r)
  PROVE  Counted(r)'
<1>1. IsFiniteSet(Unspent(r)) /\ IsFiniteSet(Unspent(r) \ {n})
      /\ Cardinality(Unspent(r) \ {n}) = Cardinality(Unspent(r)) - 1
  BY ClaimSets, SetSizes, FS_RemoveElement
<1>2. /\ Cardinality(Unspent(r)') <= Cardinality(Unspent(r) \ {n})
      /\ Cardinality(Unaudited(r)') <= Cardinality(Unaudited(r))
  BY <1>1, ClaimSets, SetSizes, FS_Subset
<1> QED
  BY <1>1, <1>2, Numbers DEF Counted

(* A delivery row spends it too, whether or not there was a call.          *)
LEMMA CountsAudit ==
  ASSUME IInv, IInv', NEW r \in Runs, Counted(r), NEW n \in Unaudited(r),
         posts'[r] = posts[r], deliveries'[r] = deliveries[r] + 1,
         row'[r].attempts = row[r].attempts,
         Unspent(r)' \subseteq Unspent(r), Unaudited(r)' \subseteq Unaudited(r) \ {n}
  PROVE  Counted(r)'
<1>1. IsFiniteSet(Unaudited(r)) /\ IsFiniteSet(Unaudited(r) \ {n})
      /\ Cardinality(Unaudited(r) \ {n}) = Cardinality(Unaudited(r)) - 1
  BY ClaimSets, SetSizes, FS_RemoveElement
<1>2. /\ Cardinality(Unspent(r)') <= Cardinality(Unspent(r))
      /\ Cardinality(Unaudited(r)') <= Cardinality(Unaudited(r) \ {n})
  BY <1>1, ClaimSets, SetSizes, FS_Subset
<1> QED
  BY <1>1, <1>2, Numbers DEF Counted

(* Slots that stay as they are, or go.                                     *)
LEMMA SlotsGo ==
  ASSUME PInv, IInv',
         \A e \in Drains : drain'[e].slots \subseteq drain[e].slots,
         posts' = posts, deliveries' = deliveries,
         \A r \in Runs : row'[r].attempts >= row[r].attempts
  PROVE  PInv'
<1>1. OwnClaims'
  BY DEF PInv, OwnClaims
<1>2. Burned'
  <2>1. ASSUME NEW e \in Drains, NEW u \in drain'[e].slots PROVE u.claim <= row'[u.run].attempts
    <3>1. u \in drain[e].slots /\ u.run \in Runs /\ u.claim \in Nat
      BY SlotFacts DEF PInv, IInv, TypeOK, Slot
    <3>2. u.claim <= row[u.run].attempts /\ row'[u.run].attempts >= row[u.run].attempts
      BY <3>1 DEF PInv, Burned
    <3> QED
      BY <3>1, <3>2, Numbers DEF PInv
  <2> QED
    BY <2>1 DEF Burned
<1>3. ASSUME NEW r \in Runs
      PROVE  Unspent(r)' \subseteq Unspent(r) /\ Unaudited(r)' \subseteq Unaudited(r)
  BY DEF Unspent, Unaudited, ClaimsAt
<1>4. ASSUME NEW r \in Runs PROVE Counted(r)'
  BY <1>3, CountsKeep DEF PInv
<1> QED
  BY <1>1, <1>2, <1>4 DEF PInv

(* One slot is put back for the same claim, at another stage.              *)
LEMMA SlotPut ==
  ASSUME PInv, IInv', NEW d \in Drains, NEW s \in drain[d].slots, NEW t \in Slot,
         t.run = s.run, t.claim = s.claim, drain' = Replace(d, s, t), row' = row
  PROVE  /\ OwnClaims' /\ Burned'
         /\ \A r \in Runs \ {s.run} : Unspent(r)' \subseteq Unspent(r)
                                      /\ Unaudited(r)' \subseteq Unaudited(r)
         /\ s.stage \in {"claimed", "ready"} \/ t.stage \notin {"claimed", "ready"}
              => Unspent(s.run)' \subseteq Unspent(s.run)
         /\ s.stage \in {"claimed", "ready", "unrecorded"}
              \/ t.stage \notin {"claimed", "ready", "unrecorded"}
              => Unaudited(s.run)' \subseteq Unaudited(s.run)
         /\ t.stage \notin {"claimed", "ready"} => Unspent(s.run)' \subseteq Unspent(s.run) \ {s.claim}
         /\ t.stage \notin {"claimed", "ready", "unrecorded"}
              => Unaudited(s.run)' \subseteq Unaudited(s.run) \ {s.claim}
<1>1. drain \in [Drains -> Drain] /\ s \in Slot
  BY SlotFacts DEF PInv, IInv, TypeOK
<1>2. ASSUME NEW e \in Drains, NEW u \in drain'[e].slots
      PROVE  (u \in drain[e].slots /\ ~(e = d /\ u = s)) \/ (e = d /\ u = t)
  BY <1>1 DEF Replace, Drain
<1>3. OwnClaims'
  <2>1. SUFFICES ASSUME NEW e \in Drains, NEW g \in Drains,
                        NEW u \in drain'[e].slots, NEW v \in drain'[g].slots,
                        u.run = v.run, u.claim = v.claim
                 PROVE  e = g /\ u = v
    BY DEF OwnClaims
  <2> QED
    BY <1>2, <2>1 DEF PInv, OwnClaims
<1>4. Burned'
  BY <1>2 DEF PInv, Burned
<1>5. ASSUME NEW e \in Drains, NEW u \in drain'[e].slots, u.run = s.run, u.claim = s.claim
      PROVE  u = t
  BY <1>2, <1>5 DEF PInv, OwnClaims
<1> QED
  BY <1>2, <1>3, <1>4, <1>5 DEF Unspent, Unaudited, ClaimsAt

LEMMA CountsRefresh ==
  ASSUME PInv, IInv', NEW d \in Drains, NEW s \in drain[d].slots, RefreshFromDb(d, s)
  PROVE  PInv'
<1> DEFINE t == [s EXCEPT !.stage = "ready", !.att = row[s.run].attempts]
<1>1. s \in Slot /\ s.run \in Runs /\ row[s.run].attempts \in 0 .. MaxAttempts
  BY SlotFacts DEF PInv, IInv, TypeOK, Row
<1>2. t \in Slot /\ t.run = s.run /\ t.claim = s.claim /\ t.stage = "ready"
  BY <1>1 DEF Slot
<1>3. drain' = Replace(d, s, t) /\ row' = row /\ posts' = posts /\ deliveries' = deliveries
      /\ s.stage = "claimed"
  BY DEF RefreshFromDb
<1> HIDE DEF t
<1>4. ASSUME NEW r \in Runs
      PROVE  Unspent(r)' \subseteq Unspent(r) /\ Unaudited(r)' \subseteq Unaudited(r)
  BY <1>2, <1>3, SlotPut
<1>5. ASSUME NEW r \in Runs PROVE Counted(r)'
  BY <1>3, <1>4, CountsKeep, Numbers DEF PInv
<1> QED
  BY <1>2, <1>3, <1>5, SlotPut DEF PInv

LEMMA CountsResolve ==
  ASSUME PInv, IInv', NEW d \in Drains, NEW s \in drain[d].slots, Resolve(d, s)
  PROVE  PInv'
<1>1. PICK o \in Outcomes, called \in BOOLEAN, outbound \in BOOLEAN :
        /\ posts' = IF called THEN [posts EXCEPT ![s.run] = @ + 1] ELSE posts
        /\ drain' = Replace(d, s, [s EXCEPT !.stage = Judged(outbound), !.outcome = o])
  BY DEF Resolve
<1> DEFINE t == [s EXCEPT !.stage = Judged(outbound), !.outcome = o]
<1>2. s \in Slot /\ s.run \in Runs /\ s.claim \in 1 .. MaxAttempts
  BY SlotFacts DEF PInv, IInv, TypeOK, Slot
<1>3. t \in Slot /\ t.run = s.run /\ t.claim = s.claim
      /\ t.stage \notin {"claimed", "ready"}
  BY <1>2 DEF Slot, Judged
<1>4. drain' = Replace(d, s, t) /\ row' = row /\ deliveries' = deliveries /\ s.stage = "ready"
  BY <1>1 DEF Resolve
<1> HIDE DEF t
<1>5. s.claim \in Unspent(s.run)
  BY <1>2, <1>4 DEF Unspent, ClaimsAt
<1>6. posts \in [Runs -> Nat]
  BY DEF PInv, IInv, TypeOK
<1>7. ASSUME NEW r \in Runs PROVE Counted(r)'
  <2>1. CASE r = s.run /\ called
    <3>1. posts'[r] = posts[r] + 1
      BY <1>1, <1>6, <2>1
    <3>2. Unspent(r)' \subseteq Unspent(r) \ {s.claim} /\ Unaudited(r)' \subseteq Unaudited(r)
      BY <1>3, <1>4, <2>1, SlotPut
    <3> QED
      BY <1>4, <1>5, <2>1, <3>1, <3>2, CountsCall DEF PInv
  <2>2. CASE ~(r = s.run /\ called)
    <3>1. posts'[r] = posts[r]
      BY <1>1, <1>2, <1>6, <2>2
    <3>2. Unspent(r)' \subseteq Unspent(r) /\ Unaudited(r)' \subseteq Unaudited(r)
      BY <1>3, <1>4, <2>2, SlotPut
    <3> QED
      BY <1>4, <3>1, <3>2, CountsKeep, Numbers DEF PInv
  <2> QED
    BY <2>1, <2>2
<1> QED
  BY <1>3, <1>4, <1>7, SlotPut DEF PInv

LEMMA CountsRecord ==
  ASSUME PInv, IInv', NEW d \in Drains, NEW s \in drain[d].slots, RecordDelivery(d, s)
  PROVE  PInv'
<1> DEFINE t == [s EXCEPT !.stage = "decided"]
<1>1. s \in Slot /\ s.run \in Runs /\ s.claim \in 1 .. MaxAttempts
  BY SlotFacts DEF PInv, IInv, TypeOK, Slot
<1>2. t \in Slot /\ t.run = s.run /\ t.claim = s.claim /\ t.stage = "decided"
  BY <1>1 DEF Slot
<1>3. drain' = Replace(d, s, t) /\ row' = row /\ posts' = posts /\ s.stage = "unrecorded"
      /\ deliveries' = [deliveries EXCEPT ![s.run] = @ + 1]
  BY DEF RecordDelivery
<1> HIDE DEF t
<1>4. s.claim \in Unaudited(s.run)
  BY <1>1, <1>3 DEF Unaudited, ClaimsAt
<1>5. deliveries \in [Runs -> Nat]
  BY DEF PInv, IInv, TypeOK
<1>6. ASSUME NEW r \in Runs PROVE Counted(r)'
  <2>1. CASE r = s.run
    <3>1. deliveries'[r] = deliveries[r] + 1
      BY <1>3, <1>5, <2>1
    <3>2. Unspent(r)' \subseteq Unspent(r) /\ Unaudited(r)' \subseteq Unaudited(r) \ {s.claim}
      BY <1>2, <1>3, <2>1, SlotPut
    <3> QED
      BY <1>3, <1>4, <2>1, <3>1, <3>2, CountsAudit DEF PInv
  <2>2. CASE r # s.run
    <3>1. deliveries'[r] = deliveries[r]
      BY <1>3, <1>5, <2>2
    <3>2. Unspent(r)' \subseteq Unspent(r) /\ Unaudited(r)' \subseteq Unaudited(r)
      BY <1>2, <1>3, <2>2, SlotPut
    <3> QED
      BY <1>3, <3>1, <3>2, CountsKeep, Numbers DEF PInv
  <2> QED
    BY <2>1, <2>2
<1> QED
  BY <1>2, <1>3, <1>6, SlotPut DEF PInv

(* The claim's number is new: every older one is below the row's count.    *)
LEMMA CountsClaimDue ==
  ASSUME PInv, IInv', NEW d \in Drains, NEW c \in drain[d].cursor, ClaimDue(d, c)
  PROVE  PInv'
<1>1. drain \in [Drains -> Drain] /\ row \in [Runs -> Row] /\ c[1] \in Runs
  BY DEF PInv, IInv, TypeOK, Drain
<1>2. CASE ~ClaimWins(c)
  <2>1. \A e \in Drains : drain'[e].slots \subseteq drain[e].slots
    BY <1>1, <1>2 DEF ClaimDue, Drain
  <2>2. row' = row /\ posts' = posts /\ deliveries' = deliveries
    BY <1>2 DEF ClaimDue
  <2> QED
    BY <2>1, <2>2, SlotsGo, Numbers DEF PInv
<1>3. CASE ClaimWins(c)
  <2> DEFINE n == row[c[1]].attempts + 1
             t == NewSlot(c[1])
  <2>1. row[c[1]] \in Row /\ row[c[1]].attempts \in Nat
    BY <1>1, QueueAssumption DEF Row
  <2>2. row' = [row EXCEPT ![c[1]] = Claimed(d, c[1])]
        /\ posts' = posts /\ deliveries' = deliveries
    BY <1>3 DEF ClaimDue
  <2>3. row'[c[1]].attempts = n /\ \A r \in Runs \ {c[1]} : row'[r] = row[r]
    BY <1>1, <2>1, <2>2 DEF Claimed, Row
  <2>4. t.run = c[1] /\ t.claim = n /\ t.stage = "claimed"
    BY DEF NewSlot
  <2> HIDE DEF t
  <2>5. ASSUME NEW e \in Drains, NEW u \in drain'[e].slots
        PROVE  u \in drain[e].slots \/ (e = d /\ u = t)
    BY <1>1, <1>3 DEF ClaimDue, Drain, t
  <2>6. ASSUME NEW e \in Drains, NEW u \in drain[e].slots
        PROVE  u.claim \in Nat /\ u.run \in Runs /\ (u.run = c[1] => u.claim < n)
    <3>1. u.claim \in Nat /\ u.run \in Runs
      BY <1>1, SlotFacts DEF Slot
    <3>2. u.claim <= row[u.run].attempts
      BY DEF PInv, Burned
    <3> QED
      BY <2>1, <3>1, <3>2
  <2>7. OwnClaims'
    <3>1. SUFFICES ASSUME NEW e \in Drains, NEW g \in Drains,
                          NEW u \in drain'[e].slots, NEW v \in drain'[g].slots,
                          u.run = v.run, u.claim = v.claim
                   PROVE  e = g /\ u = v
      BY DEF OwnClaims
    <3>2. CASE u \in drain[e].slots /\ v \in drain[g].slots
      BY <3>1, <3>2 DEF PInv, OwnClaims
    <3>3. CASE u \in drain[e].slots /\ g = d /\ v = t
      BY <2>1, <2>4, <2>6, <3>1, <3>3
    <3>4. CASE e = d /\ u = t /\ v \in drain[g].slots
      BY <2>1, <2>4, <2>6, <3>1, <3>4
    <3> QED
      BY <2>5, <3>2, <3>3, <3>4
  <2>8. Burned'
    <3>1. ASSUME NEW e \in Drains, NEW u \in drain'[e].slots PROVE u.claim <= row'[u.run].attempts
      <4>1. CASE u \in drain[e].slots /\ u.run = c[1]
        BY <2>1, <2>3, <2>6, <4>1
      <4>2. CASE u \in drain[e].slots /\ u.run # c[1]
        <5>1. u.run \in Runs /\ row'[u.run] = row[u.run]
          BY <2>3, <2>6, <4>2
        <5> QED
          BY <4>2, <5>1 DEF PInv, Burned
      <4>3. CASE u = t
        BY <2>1, <2>3, <2>4, <4>3
      <4> QED
        BY <2>5, <4>1, <4>2, <4>3
    <3> QED
      BY <3>1 DEF Burned
  <2>9. ASSUME NEW r \in Runs
        PROVE  /\ r # c[1] => Unspent(r)' \subseteq Unspent(r) /\ Unaudited(r)' \subseteq Unaudited(r)
               /\ Unspent(r)' \subseteq Unspent(r) \cup {n}
               /\ Unaudited(r)' \subseteq Unaudited(r) \cup {n}
    BY <2>4, <2>5 DEF Unspent, Unaudited, ClaimsAt
  <2>10. ASSUME NEW r \in Runs PROVE Counted(r)'
    <3>1. CASE r = c[1]
      <4>1. n \in Nat /\ row'[r].attempts = row[r].attempts + 1
        BY <2>1, <2>3, <3>1
      <4> QED
        BY <2>2, <2>9, <4>1, CountsClaim DEF PInv
    <3>2. CASE r # c[1]
      <4>1. row'[r].attempts >= row[r].attempts
        BY <2>3, <3>2, Numbers DEF PInv
      <4> QED
        BY <2>2, <2>9, <3>2, <4>1, CountsKeep DEF PInv
    <3> QED
      BY <3>1, <3>2
  <2> QED
    BY <2>7, <2>8, <2>10 DEF PInv
<1> QED
  BY <1>2, <1>3

(* Time moves the ages of the slots and nothing else of them.              *)
LEMMA CountsTick == ASSUME PInv, IInv', Tick PROVE PInv'
<1>1. drain \in [Drains -> Drain] /\ row \in [Runs -> Row]
  BY DEF PInv, IInv, TypeOK
<1> DEFINE Aged(e, s) == IF drain[e].phase = "idle" THEN s ELSE [s EXCEPT !.age = s.age + 1]
<1>2. ASSUME NEW e \in Drains, NEW u \in drain'[e].slots
      PROVE  \E s \in drain[e].slots :
               u = Aged(e, s) /\ u.run = s.run /\ u.claim = s.claim /\ u.stage = s.stage
  <2>1. CASE drain[e].phase = "idle"
    <3>1. drain'[e] = drain[e]
      BY <2>1 DEF Tick
    <3>2. u \in drain[e].slots /\ u = Aged(e, u)
      BY <2>1, <3>1
    <3> QED
      BY <3>2, Zenon
  <2>2. CASE drain[e].phase # "idle"
    <3>1. drain'[e].slots = {[s EXCEPT !.age = @ + 1] : s \in drain[e].slots}
      BY <1>1, <2>2 DEF Tick, Drain
    <3>2. PICK s \in drain[e].slots : u = [s EXCEPT !.age = s.age + 1]
      BY <3>1
    <3>3. s \in Slot
      BY <1>1, SlotFacts
    <3>4. u.run = s.run /\ u.claim = s.claim /\ u.stage = s.stage
      BY <3>2, <3>3 DEF Slot
    <3>5. u = Aged(e, s)
      BY <2>2, <3>2
    <3> QED
      BY <3>4, <3>5, Zenon
  <2> QED
    BY <2>1, <2>2
<1> HIDE DEF Aged
<1>3. OwnClaims'
  <2>1. SUFFICES ASSUME NEW e \in Drains, NEW g \in Drains,
                        NEW u \in drain'[e].slots, NEW v \in drain'[g].slots,
                        u.run = v.run, u.claim = v.claim
                 PROVE  e = g /\ u = v
    BY DEF OwnClaims
  <2>2. PICK s \in drain[e].slots : u = Aged(e, s) /\ u.run = s.run /\ u.claim = s.claim
    BY <1>2
  <2>3. PICK z \in drain[g].slots : v = Aged(g, z) /\ v.run = z.run /\ v.claim = z.claim
    BY <1>2
  <2>4. s.run = z.run /\ s.claim = z.claim
    BY <2>1, <2>2, <2>3
  <2>5. e = g /\ s = z
    BY <2>4 DEF PInv, OwnClaims
  <2> QED
    BY <2>2, <2>3, <2>5
<1>4. \A r \in Runs : row'[r].attempts = row[r].attempts
  BY <1>1 DEF Tick, Row
<1>5. Burned'
  <2>1. ASSUME NEW e \in Drains, NEW u \in drain'[e].slots PROVE u.claim <= row'[u.run].attempts
    <3>1. PICK s \in drain[e].slots : u.run = s.run /\ u.claim = s.claim
      BY <1>2
    <3>2. s.run \in Runs /\ s.claim <= row[s.run].attempts
      BY <1>1, SlotFacts DEF PInv, Burned
    <3> QED
      BY <1>4, <3>1, <3>2
  <2> QED
    BY <2>1 DEF Burned
<1>6. ASSUME NEW r \in Runs
      PROVE  Unspent(r)' \subseteq Unspent(r) /\ Unaudited(r)' \subseteq Unaudited(r)
  BY <1>2 DEF Unspent, Unaudited, ClaimsAt
<1>7. ASSUME NEW r \in Runs PROVE Counted(r)'
  <2>1. posts' = posts /\ deliveries' = deliveries
    BY DEF Tick
  <2>2. row[r].attempts \in Nat /\ row'[r].attempts = row[r].attempts
    BY <1>4, Numbers DEF PInv
  <2> QED
    BY <1>6, <2>1, <2>2, CountsKeep DEF PInv
<1> QED
  BY <1>3, <1>5, <1>7 DEF PInv

LEMMA PostsStep == PInv /\ [Next]_vars => PInv'
<1> SUFFICES ASSUME PInv, [Next]_vars PROVE PInv'
  OBVIOUS
<1>i. IInv'
  BY InvStep DEF PInv
<1>t. drain \in [Drains -> Drain] /\ row \in [Runs -> Row]
  BY DEF PInv, IInv, TypeOK
<1> DEFINE Goes == /\ \A e \in Drains : drain'[e].slots \subseteq drain[e].slots
                   /\ \A r \in Runs : row'[r].attempts >= row[r].attempts
                   /\ posts' = posts /\ deliveries' = deliveries
<1>n. \A r \in Runs : row[r].attempts \in Nat
  BY <1>t, QueueAssumption DEF Row
<1>1. ASSUME NEW i \in Items, Enqueue(i) PROVE Goes
  BY <1>1, <1>t, <1>n DEF Enqueue, Absent, Pending
<1>2. ASSUME NEW d \in Drains, StartPass(d) PROVE Goes
  <2>1. \A r \in Runs : row'[r].attempts = row[r].attempts
    BY <1>2, <1>t, RewriteFacts DEF StartPass
  <2>2. \A e \in Drains : drain'[e].slots \subseteq drain[e].slots
    BY <1>2, <1>t, IdleFacts DEF StartPass
  <2> QED
    BY <1>2, <1>n, <2>1, <2>2 DEF StartPass
<1>3. ASSUME NEW d \in Drains, OpenCursor(d) PROVE Goes
  BY <1>3, <1>t, <1>n DEF OpenCursor, Drain
<1>4. ASSUME NEW d \in Drains, NEW s \in drain[d].slots, Complete(d, s) PROVE Goes
  <2>1. ASSUME NEW r \in Runs PROVE row'[r].attempts >= row[r].attempts
    <3>1. row'[r] = row[r] \/ (r = s.run /\ row'[r] = Completed(s))
                           \/ (row'[r] = Pending /\ row[r] = Absent)
      BY <1>4, <1>t DEF Complete, Advances
    <3>2. r = s.run => Completed(s).attempts = row[r].attempts
      BY <1>t, RewriteFacts
    <3> QED
      BY <1>n, <3>1, <3>2 DEF Pending, Absent
  <2> QED
    BY <1>4, <1>t, <2>1, DropFacts DEF Complete
<1>5. ASSUME NEW d \in Drains, NEW s \in drain[d].slots, DrainRaises(d, s) PROVE Goes
  BY <1>5, <1>t, <1>n, DropFacts DEF DrainRaises
<1>6. ASSUME NEW d \in Drains, EndPass(d) \/ Crash(d) PROVE Goes
  BY <1>6, <1>t, <1>n, IdleFacts DEF EndPass, Crash
<1>7. ASSUME NEW d \in Drains, Sigterm(d) PROVE Goes
  <2>1. Unwound(d).slots \subseteq drain[d].slots
    BY <1>t DEF Unwound, Drain
  <2> QED
    BY <1>7, <1>t, <1>n, <2>1, IdleFacts DEF Sigterm
<1>8. ASSUME ClearJobLock \/ UNCHANGED vars PROVE Goes
  BY <1>8, <1>n DEF ClearJobLock, vars
<1>9. ASSUME Goes PROVE PInv'
  BY <1>9, <1>i, SlotsGo
<1> HIDE DEF Goes
<1> QED
  BY <1>1, <1>2, <1>3, <1>4, <1>5, <1>6, <1>7, <1>8, <1>9, <1>i, CountsClaimDue,
     CountsRefresh, CountsResolve, CountsRecord, CountsTick
     DEF Next, RunPass, WorkSlot

LEMMA PostsStart == Init => PInv
<1> SUFFICES ASSUME Init PROVE PInv
  OBVIOUS
<1>1. \A d \in Drains : drain[d].slots = {}
  BY IdleFacts DEF Init
<1>2. ASSUME NEW r \in Runs PROVE Counted(r)
  <2>1. Unspent(r) = {} /\ Unaudited(r) = {}
    BY <1>1 DEF Unspent, Unaudited, ClaimsAt
  <2> QED
    BY <2>1, FS_EmptySet DEF Counted, Init, Absent
<1> QED
  BY <1>1, <1>2, InvStart DEF PInv, OwnClaims, Burned

(* However passes overlap, die and reap each other, an attempt its row has *)
(* burned makes at most one call of a run's endpoint and leaves at most    *)
(* one delivery row, whether or not that row stands for a call.            *)
THEOREM CallsAreBounded == Spec => []PostsWithinAttempts
<1>1. PInv => PostsWithinAttempts
  <2>1. ASSUME PInv, NEW r \in Runs
        PROVE  posts[r] <= row[r].attempts /\ deliveries[r] <= row[r].attempts
    <3>1. Cardinality(Unspent(r)) \in Nat /\ Cardinality(Unaudited(r)) \in Nat
      BY ClaimSets, SetSizes
    <3>2. posts[r] \in Nat /\ deliveries[r] \in Nat /\ row[r].attempts \in Int
      BY <2>1 DEF PInv, IInv, TypeOK, Row
    <3> QED
      BY <2>1, <3>1, <3>2 DEF PInv, Counted
  <2> QED
    BY <2>1 DEF PostsWithinAttempts
<1> QED
  BY <1>1, PostsStart, PostsStep, PTL DEF Spec
=============================================================================
