------------------------- MODULE DigestWindow_proofs -------------------------
(***************************************************************************)
(* The digest window, for every number of items, attempts, slices, edits   *)
(* and crashes.                                                            *)
(***************************************************************************)
EXTENDS DigestWindow, TLAPS

Feeds == [Items -> {"waiting", "done"} \cup Modes]
Triggers == [phase : {"idle", "started", "opened"}, mode : Modes, todo : SUBSET Items]
Flushes == [phase : {"idle", "slice", "batch", "emitted", "closing"},
            batch : SUBSET Items, outcome : Terminal \cup {"failed", "none"}]
Drains == [cursor : SUBSET (Items \X Claimable), held : SUBSET Items]

(* A pending run is below the cap, and the drain's own run is running.     *)
PendingBelowCap == \A i \in Items : run[i].state = "pending" => run[i].attempts < MaxAttempts
HeldRuns == \A i \in drain.held : run[i].state = "running"

Sound == TypeOK /\ PendingBelowCap /\ CompletedMeansFinal /\ HeldRuns

-----------------------------------------------------------------------------
(* Steps that write runs, one run at a time.                               *)

(* A run that is inserted.                                                 *)
RowInserted(i) == run[i] = Absent /\ run'[i] = Pending

(* A pending run that a flush completes, or fails.                         *)
FlushWrote(i) ==
  \/ \E o \in Terminal : run'[i] = [run[i] EXCEPT !.state = o, !.completed = TRUE]
  \/ /\ run[i].attempts + 1 >= MaxAttempts
     /\ run'[i] = [state |-> "failed", attempts |-> run[i].attempts + 1, completed |-> TRUE]
  \/ /\ run[i].attempts + 1 < MaxAttempts
     /\ run'[i] = [run[i] EXCEPT !.attempts = @ + 1]
RowFlushed(i) == run[i].state = "pending" /\ FlushWrote(i)

(* A run that the drain claims, completes or reaps.                        *)
RowDrained(i) ==
  \/ /\ run[i].state \in Claimable /\ run[i].attempts < MaxAttempts
     /\ run'[i] = [run[i] EXCEPT !.state = "running", !.attempts = @ + 1]
     /\ drain'.held = {i}
  \/ /\ run[i].state = "running"
     /\ \E o \in Terminal \cup {"failed"} :
          run'[i] = [run[i] EXCEPT !.state = o,
                                   !.completed = o \in Terminal \/ run[i].attempts >= MaxAttempts]
     /\ drain'.held = {}

RowKept(i) == run'[i] = run[i]

RunsWritten == run' \in [Items -> Run] /\ \A i \in Items : RowKept(i) \/ RowInserted(i) \/ RowFlushed(i) \/ RowDrained(i)

OnlyFlushed == \A i \in Items : RowKept(i) \/ RowFlushed(i)

LEMMA Constants == 0 \in 0 .. MaxAttempts /\ 0 \in 0 .. MaxEdits /\ 0 \in 0 .. MaxStops /\ MaxAttempts \in Nat
  BY WindowAssumption

LEMMA InsertWrites ==
  ASSUME TypeOK, NEW i \in Items, run' = Inserted(i)
  PROVE  RunsWritten
<1>1. run \in [Items -> Run] /\ Pending \in Run
  BY Constants DEF TypeOK, Run, Pending, Claimable
<1> QED
  BY <1>1 DEF Inserted, RunsWritten, RowKept, RowInserted

LEMMA FlushWrites ==
  ASSUME TypeOK, PendingBelowCap, NEW S \in SUBSET Items,
         (\E o \in Terminal : run' = BatchCompleted(S, o)) \/ run' = BatchFailed(S)
  PROVE  RunsWritten /\ OnlyFlushed
<1>1. run \in [Items -> Run] /\ MaxAttempts \in Nat
  BY Constants DEF TypeOK
<1>2. ASSUME NEW o \in Terminal, run' = BatchCompleted(S, o) PROVE RunsWritten /\ OnlyFlushed
  <2>1. ASSUME NEW i \in Items PROVE run'[i] \in Run /\ (RowKept(i) \/ RowFlushed(i))
    <3>1. CASE i \in S /\ run[i].state = "pending"
      <4>1. run'[i] = [run[i] EXCEPT !.state = o, !.completed = TRUE]
        BY <1>2, <3>1 DEF BatchCompleted
      <4> QED
        BY <1>1, <3>1, <4>1 DEF RowFlushed, FlushWrote, Run
    <3>2. CASE ~(i \in S /\ run[i].state = "pending")
      BY <1>1, <1>2, <3>2 DEF BatchCompleted, RowKept
    <3> QED
      BY <3>1, <3>2
  <2> QED
    BY <1>2, <2>1 DEF RunsWritten, OnlyFlushed, BatchCompleted
<1>3. ASSUME run' = BatchFailed(S) PROVE RunsWritten /\ OnlyFlushed
  <2>1. ASSUME NEW i \in Items PROVE run'[i] \in Run /\ (RowKept(i) \/ RowFlushed(i))
    <3>1. CASE i \in S /\ run[i].state = "pending" /\ run[i].attempts + 1 >= MaxAttempts
      <4>1. run'[i] = [state |-> "failed", attempts |-> run[i].attempts + 1, completed |-> TRUE]
        BY <1>3, <3>1 DEF BatchFailed
      <4>2. run[i].attempts + 1 \in 0 .. MaxAttempts
        BY <1>1, <3>1 DEF PendingBelowCap, Run
      <4>3. run'[i] \in Run
        BY <4>1, <4>2 DEF Run, Claimable
      <4> QED
        BY <3>1, <4>1, <4>3 DEF RowFlushed, FlushWrote
    <3>2. CASE i \in S /\ run[i].state = "pending" /\ ~(run[i].attempts + 1 >= MaxAttempts)
      <4>1. run'[i] = [run[i] EXCEPT !.attempts = @ + 1]
        BY <1>3, <3>2 DEF BatchFailed
      <4>2. run[i].attempts + 1 \in 0 .. MaxAttempts /\ run[i].attempts + 1 < MaxAttempts
        BY <1>1, <3>2 DEF Run
      <4> QED
        BY <1>1, <3>2, <4>1, <4>2 DEF RowFlushed, FlushWrote, Run
    <3>3. CASE ~(i \in S /\ run[i].state = "pending")
      BY <1>1, <1>3, <3>3 DEF BatchFailed, RowKept
    <3> QED
      BY <3>1, <3>2, <3>3
  <2> QED
    BY <1>3, <2>1 DEF RunsWritten, OnlyFlushed, BatchFailed
<1> QED
  BY <1>2, <1>3

LEMMA ClaimWrites ==
  ASSUME TypeOK, NEW c \in drain.cursor, DrainClaims(c)
  PROVE  RunsWritten /\ drain' \in Drains
<1>1. run \in [Items -> Run] /\ drain \in Drains /\ MaxAttempts \in Nat
  BY Constants DEF TypeOK, Drains
<1>2. PICK i \in Items, s \in Claimable : c = <<i, s>>
  BY <1>1 DEF Drains
<1>3. CASE run[i].state = s /\ run[i].attempts < MaxAttempts
  <2>1. /\ run' = [run EXCEPT ![i].state = "running", ![i].attempts = @ + 1]
        /\ drain' = [cursor |-> drain.cursor \ {c}, held |-> {i}]
    BY <1>2, <1>3 DEF DrainClaims
  <2>2. run[i].attempts + 1 \in 0 .. MaxAttempts
    BY <1>1, <1>3 DEF Run
  <2>3. run'[i] = [run[i] EXCEPT !.state = "running", !.attempts = @ + 1]
    BY <1>1, <2>1 DEF Run
  <2>4. run' \in [Items -> Run] /\ \A j \in Items \ {i} : run'[j] = run[j]
    BY <1>1, <2>1, <2>2 DEF Run
  <2>5. drain' \in Drains
    BY <1>1, <2>1 DEF Drains
  <2>6. RowDrained(i)
    BY <1>2, <1>3, <2>1, <2>3 DEF RowDrained
  <2> QED
    BY <2>4, <2>5, <2>6 DEF RunsWritten, RowKept
<1>4. CASE ~(run[i].state = s /\ run[i].attempts < MaxAttempts)
  <2>1. run' = run /\ drain' = [cursor |-> drain.cursor \ {c}, held |-> {}]
    BY <1>2, <1>4 DEF DrainClaims
  <2> QED
    BY <1>1, <2>1 DEF RunsWritten, RowKept, Drains
<1> QED
  BY <1>3, <1>4

LEMMA CompleteWrites ==
  ASSUME TypeOK, HeldRuns, NEW i \in drain.held, NEW o \in Terminal \cup {"failed"}, DrainCompletes(i, o)
  PROVE  RunsWritten /\ drain' \in Drains /\ sent' \in [Items -> Nat] /\ next' \subseteq Items
<1>1. run \in [Items -> Run] /\ drain \in Drains /\ i \in Items /\ sent \in [Items -> Nat] /\ next \subseteq Items
  BY DEF TypeOK, Drains
<1> DEFINE done == (o \in Terminal \/ run[i].attempts >= MaxAttempts)
<1>2. run' = [run EXCEPT ![i].state = o, ![i].completed = done] /\ drain' = [drain EXCEPT !.held = {}]
  BY DEF DrainCompletes
<1>3. done \in BOOLEAN
  OBVIOUS
<1> HIDE DEF done
<1>4. run'[i] = [run[i] EXCEPT !.state = o, !.completed = done]
  BY <1>1, <1>2 DEF Run
<1>5. run' \in [Items -> Run] /\ \A j \in Items \ {i} : run'[j] = run[j]
  BY <1>1, <1>2, <1>3 DEF Run, Claimable
<1>6. RowDrained(i)
  <2>1. run[i].state = "running" /\ drain'.held = {}
    BY <1>1, <1>2 DEF HeldRuns, Drains
  <2> QED
    BY <1>4, <2>1 DEF RowDrained, done
<1>7. sent' \in [Items -> Nat] /\ next' \subseteq Items
  BY <1>1 DEF DrainCompletes, Advanced
<1> QED
  BY <1>1, <1>2, <1>5, <1>6, <1>7 DEF RunsWritten, RowKept, Drains

LEMMA ReapWrites ==
  ASSUME TypeOK, NEW i \in Items, DrainReaps(i)
  PROVE  RunsWritten
<1>1. run \in [Items -> Run]
  BY DEF TypeOK
<1> DEFINE done == (run[i].attempts >= MaxAttempts)
<1>2. run' = [run EXCEPT ![i].state = "failed", ![i].completed = done] /\ run[i].state = "running"
  BY DEF DrainReaps
<1>3. done \in BOOLEAN /\ drain'.held = {}
  BY DEF DrainReaps, NoDrain
<1> HIDE DEF done
<1>4. run'[i] = [run[i] EXCEPT !.state = "failed", !.completed = done]
  BY <1>1, <1>2 DEF Run
<1>5. run' \in [Items -> Run] /\ \A j \in Items \ {i} : run'[j] = run[j]
  BY <1>1, <1>2, <1>3 DEF Run, Claimable
<1>6. RowDrained(i)
  <2>1. done = ("failed" \in Terminal \/ run[i].attempts >= MaxAttempts)
    BY DEF done, Terminal
  <2> QED
    BY <1>2, <1>3, <1>4, <2>1 DEF RowDrained
<1> QED
  BY <1>5, <1>6 DEF RunsWritten, RowKept

-----------------------------------------------------------------------------
(* Type correctness.                                                       *)

LEMMA TypeInit == Init => TypeOK
<1>1. Absent \in Run /\ NoTrigger \in Triggers /\ NoFlush \in Flushes /\ NoDrain \in Drains
  BY Constants DEF Absent, Run, NoTrigger, Triggers, Modes, NoFlush, Flushes, NoDrain, Drains
<1> QED
  BY <1>1, Constants DEF Init, TypeOK, Triggers, Flushes, Drains

LEMMA TypeArrivals ==
  ASSUME Sound, (\E i \in Items : AdvanceReads(i) \/ AdvanceCommits(i) \/ AdvanceRollsBack(i)
                                  \/ BackfillInserts(i)) \/ TriggerStep
  PROVE  TypeOK' /\ RunsWritten
<1>1. feed \in Feeds /\ trigger \in Triggers /\ TypeOK /\ Opened \in {"absent", "closed", "open", "due"}
  BY DEF Sound, TypeOK, Feeds, Triggers, Opened
<1>2. UNCHANGED run => RunsWritten
  BY <1>1 DEF TypeOK, RunsWritten, RowKept
<1>3. RunsWritten => run' \in [Items -> Run]
  BY DEF RunsWritten
<1>4. ASSUME NEW i \in Items, AdvanceReads(i) PROVE TypeOK' /\ RunsWritten
  BY <1>1, <1>2, <1>4 DEF AdvanceReads, TypeOK, Feeds, Modes
<1>5. ASSUME NEW i \in Items, AdvanceCommits(i) PROVE TypeOK' /\ RunsWritten
  <2>1. RunsWritten
    BY <1>1, <1>5, InsertWrites DEF AdvanceCommits
  <2> QED
    BY <1>1, <1>3, <1>5, <2>1 DEF AdvanceCommits, TypeOK, Feeds
<1>6. ASSUME NEW i \in Items, AdvanceRollsBack(i) PROVE TypeOK' /\ RunsWritten
  BY <1>1, <1>2, <1>6, WindowAssumption DEF AdvanceRollsBack, TypeOK, Feeds
<1>7. ASSUME NEW i \in Items, BackfillInserts(i) PROVE TypeOK' /\ RunsWritten
  <2>1. RunsWritten
    BY <1>1, <1>7, InsertWrites DEF BackfillInserts
  <2> QED
    BY <1>1, <1>3, <1>7, <2>1 DEF BackfillInserts, TypeOK
<1>8. ASSUME TriggerStarts PROVE TypeOK' /\ RunsWritten
  <2>1. trigger' \in Triggers
    BY <1>1, <1>8 DEF TriggerStarts, TypeOK, Triggers
  <2> QED
    BY <1>1, <1>2, <1>8, <2>1 DEF TriggerStarts, TypeOK, Triggers
<1>9. ASSUME TriggerOpens PROVE TypeOK' /\ RunsWritten
  <2>1. trigger' \in Triggers
    BY <1>1, <1>9 DEF TriggerOpens, Triggers
  <2> QED
    BY <1>1, <1>2, <1>9, <2>1 DEF TriggerOpens, TypeOK, Triggers
<1>10. ASSUME NEW i \in Items, TriggerInserts(i) PROVE TypeOK' /\ RunsWritten
  <2>1. RunsWritten
    BY <1>1, <1>10, InsertWrites DEF TriggerInserts
  <2> QED
    BY <1>1, <1>3, <1>10, <2>1 DEF TriggerInserts, TypeOK
<1>11. ASSUME TriggerAdvancesWatermark PROVE TypeOK' /\ RunsWritten
  <2>1. feed' \in Feeds /\ trigger' \in Triggers
    BY <1>1, <1>11 DEF TriggerAdvancesWatermark, NoTrigger, Feeds, Triggers, Modes
  <2> QED
    BY <1>1, <1>2, <1>11, <2>1 DEF TriggerAdvancesWatermark, TypeOK, Feeds, Triggers
<1> QED
  BY <1>4, <1>5, <1>6, <1>7, <1>8, <1>9, <1>10, <1>11 DEF TriggerStep

LEMMA TypeFlush == ASSUME Sound, FlushStep PROVE TypeOK' /\ RunsWritten /\ OnlyFlushed
<1>1. flush \in Flushes /\ NoFlush \in Flushes /\ TypeOK /\ PendingBelowCap
  BY DEF Sound, TypeOK, Flushes, NoFlush
<1>2. \A pend : ClosedUnless(pend) \in {"absent", "closed", "open", "due"}
  BY <1>1 DEF TypeOK, ClosedUnless
<1>3. UNCHANGED run => RunsWritten /\ OnlyFlushed
  BY <1>1 DEF TypeOK, RunsWritten, OnlyFlushed, RowKept
<1>4. RunsWritten => run' \in [Items -> Run]
  BY DEF RunsWritten
<1>5. CASE FlushPicks
  <2>1. flush' \in Flushes
    BY <1>1, <1>5 DEF FlushPicks, Flushes
  <2> QED
    BY <1>1, <1>3, <1>5, <2>1 DEF FlushPicks, TypeOK, Flushes
<1>6. CASE FlushGathers
  <2>1. flush' \in Flushes
    BY <1>1, <1>6 DEF FlushGathers, Flushes
  <2> QED
    BY <1>1, <1>3, <1>6, <2>1 DEF FlushGathers, TypeOK, Flushes
<1>7. CASE FlushDropsGone
  <2>1. PICK gone \in (SUBSET flush.batch) \ {{}} :
          /\ run' = BatchCompleted(gone, "errored")
          /\ flush' = IF gone = flush.batch THEN [NoFlush EXCEPT !.phase = "closing"]
                                            ELSE [flush EXCEPT !.batch = @ \ gone]
    BY <1>7 DEF FlushDropsGone
  <2>2. gone \subseteq Items /\ "errored" \in Terminal
    BY <1>1, <2>1 DEF Flushes, Terminal
  <2>3. RunsWritten /\ OnlyFlushed
    BY <1>1, <2>1, <2>2, FlushWrites
  <2>4. flush' \in Flushes
    BY <1>1, <2>1 DEF Flushes
  <2> QED
    BY <1>1, <1>4, <1>7, <2>3, <2>4 DEF FlushDropsGone, TypeOK, Flushes
<1>8. CASE FlushEmits
  <2>1. flush' \in Flushes
    BY <1>1, <1>8 DEF FlushEmits, Flushes
  <2>2. sent' \in [Items -> Nat]
    BY <1>1, <1>8 DEF FlushEmits, TypeOK
  <2> QED
    BY <1>1, <1>3, <1>8, <2>1, <2>2 DEF FlushEmits, TypeOK, Flushes
<1>9. CASE FlushCompletes
  <2>1. RunsWritten /\ OnlyFlushed
    BY <1>1, <1>9, FlushWrites DEF FlushCompletes, Flushes
  <2>2. flush' \in Flushes
    BY <1>1, <1>9 DEF FlushCompletes, Flushes
  <2>3. next' \subseteq Items
    BY <1>1, <1>9 DEF FlushCompletes, Advanced, TypeOK, Flushes
  <2> QED
    BY <1>1, <1>2, <1>4, <1>9, <2>1, <2>2, <2>3 DEF FlushCompletes, TypeOK, Flushes
<1>10. CASE FlushFails
  <2>1. RunsWritten /\ OnlyFlushed
    BY <1>1, <1>10, FlushWrites DEF FlushFails, Flushes
  <2> QED
    BY <1>1, <1>2, <1>4, <1>10, <2>1 DEF FlushFails, TypeOK, Flushes
<1>11. CASE FlushCloses
  BY <1>1, <1>2, <1>3, <1>11 DEF FlushCloses, TypeOK, Flushes
<1> QED
  BY <1>5, <1>6, <1>7, <1>8, <1>9, <1>10, <1>11 DEF FlushStep

LEMMA TypeDrain == ASSUME Sound, DrainStep PROVE TypeOK' /\ RunsWritten
<1>1. drain \in Drains /\ TypeOK /\ HeldRuns
  BY DEF Sound, TypeOK, Drains
<1>2. RunsWritten => run' \in [Items -> Run]
  BY DEF RunsWritten
<1>3. CASE DrainOpensCursor
  <2>1. drain' \in Drains
    BY <1>1, <1>3 DEF DrainOpensCursor, Drains
  <2>2. RunsWritten
    BY <1>1, <1>3 DEF DrainOpensCursor, TypeOK, RunsWritten, RowKept
  <2> QED
    BY <1>1, <1>3, <2>1, <2>2 DEF DrainOpensCursor, TypeOK, Drains
<1>4. ASSUME NEW c \in drain.cursor, DrainClaims(c) PROVE TypeOK' /\ RunsWritten
  <2>1. RunsWritten /\ drain' \in Drains
    BY <1>1, <1>4, ClaimWrites
  <2> QED
    BY <1>1, <1>2, <1>4, <2>1 DEF DrainClaims, TypeOK, Drains
<1>5. ASSUME NEW i \in drain.held, NEW o \in Terminal \cup {"failed"}, DrainCompletes(i, o)
      PROVE  TypeOK' /\ RunsWritten
  <2>1. RunsWritten /\ drain' \in Drains /\ sent' \in [Items -> Nat] /\ next' \subseteq Items
    BY <1>1, <1>5, CompleteWrites
  <2> QED
    BY <1>1, <1>2, <1>5, <2>1 DEF DrainCompletes, TypeOK, Drains
<1>6. ASSUME NEW i \in Items, DrainReaps(i) PROVE TypeOK' /\ RunsWritten
  <2>1. RunsWritten
    BY <1>1, <1>6, ReapWrites
  <2> QED
    BY <1>1, <1>2, <1>6, <2>1 DEF DrainReaps, TypeOK, Drains
<1> QED
  BY <1>3, <1>4, <1>5, <1>6 DEF DrainStep

LEMMA TypeRest ==
  ASSUME Sound, (\E m \in Modes : SetConfig(m)) \/ IntervalElapses \/ Crash \/ UNCHANGED vars
  PROVE  TypeOK' /\ RunsWritten
<1>1. TypeOK /\ NoTrigger \in Triggers /\ NoFlush \in Flushes /\ NoDrain \in Drains
  BY DEF Sound, NoTrigger, Triggers, Modes, NoFlush, Flushes, NoDrain, Drains
<1>2. UNCHANGED run => RunsWritten
  BY <1>1 DEF TypeOK, RunsWritten, RowKept
<1>3. ASSUME NEW m \in Modes, SetConfig(m) PROVE TypeOK' /\ RunsWritten
  <2>1. edits' \in 0 .. MaxEdits
    BY <1>1, <1>3, WindowAssumption DEF SetConfig, TypeOK
  <2> QED
    BY <1>1, <1>2, <1>3, <2>1 DEF SetConfig, TypeOK
<1>4. CASE IntervalElapses
  BY <1>1, <1>2, <1>4 DEF IntervalElapses, TypeOK
<1>5. CASE Crash
  <2>1. stops' \in 0 .. MaxStops
    BY <1>1, <1>5, WindowAssumption DEF Crash, TypeOK
  <2>2. /\ flush' \in Flushes /\ drain' \in Drains /\ trigger' \in Triggers
        /\ UNCHANGED <<mode, window, run, next, feed, sent, edits>>
    BY <1>1, <1>5 DEF Crash, TypeOK, Flushes, Drains, Triggers
  <2> QED
    BY <1>1, <1>2, <2>1, <2>2 DEF TypeOK, Flushes, Drains, Triggers
<1>6. CASE UNCHANGED vars
  BY <1>1, <1>2, <1>6 DEF vars, TypeOK
<1> QED
  BY <1>3, <1>4, <1>5, <1>6

LEMMA TypeNext == ASSUME Sound, [Next]_vars PROVE TypeOK' /\ RunsWritten
  BY TypeArrivals, TypeFlush, TypeDrain, TypeRest DEF Next

(* The rows that a step writes keep the rules of a row.                    *)
LEMMA RowRules ==
  ASSUME Sound, [Next]_vars, NEW i \in Items
  PROVE  /\ run'[i].state = "pending" => run'[i].attempts < MaxAttempts
         /\ run'[i].completed <=> IsFinal(run'[i])
         /\ IsFinal(run[i]) => run'[i] = run[i]
<1>1. /\ run[i] \in Run /\ MaxAttempts \in Nat \ {0}
      /\ run[i].state = "pending" => run[i].attempts < MaxAttempts
      /\ run[i].completed <=> IsFinal(run[i])
  BY WindowAssumption DEF Sound, TypeOK, PendingBelowCap, CompletedMeansFinal
<1>2. CASE RowKept(i)
  BY <1>1, <1>2 DEF RowKept
<1>3. CASE RowInserted(i)
  BY <1>1, <1>3 DEF RowInserted, Absent, Pending, IsFinal, Terminal
<1>4. CASE RowFlushed(i)
  <2>1. ~IsFinal(run[i]) /\ run[i].state = "pending" /\ run[i].completed = FALSE
    BY <1>1, <1>4 DEF RowFlushed, IsFinal, Terminal, Run
  <2>2. ASSUME NEW o \in Terminal, run'[i] = [run[i] EXCEPT !.state = o, !.completed = TRUE]
        PROVE  run'[i].state # "pending" /\ run'[i].completed = TRUE /\ IsFinal(run'[i])
    BY <1>1, <2>2 DEF Run, IsFinal, Terminal
  <2>3. ASSUME run[i].attempts + 1 >= MaxAttempts,
               run'[i] = [state |-> "failed", attempts |-> run[i].attempts + 1, completed |-> TRUE]
        PROVE  run'[i].state # "pending" /\ run'[i].completed = TRUE /\ IsFinal(run'[i])
    BY <2>3 DEF IsFinal
  <2>4. ASSUME run[i].attempts + 1 < MaxAttempts, run'[i] = [run[i] EXCEPT !.attempts = @ + 1]
        PROVE  run'[i].attempts < MaxAttempts /\ run'[i].completed = FALSE /\ ~IsFinal(run'[i])
    BY <1>1, <2>1, <2>4 DEF Run, IsFinal, Terminal
  <2> QED
    BY <1>4, <2>1, <2>2, <2>3, <2>4 DEF RowFlushed, FlushWrote
<1>5. CASE RowDrained(i)
  <2>1. CASE /\ run[i].state \in Claimable /\ run[i].attempts < MaxAttempts
             /\ run'[i] = [run[i] EXCEPT !.state = "running", !.attempts = @ + 1]
    <3>1. ~IsFinal(run[i]) /\ run[i].completed = FALSE
      BY <1>1, <2>1 DEF IsFinal, Claimable, Terminal, Run
    <3>2. run'[i].state = "running" /\ run'[i].completed = FALSE
      BY <1>1, <2>1, <3>1 DEF Run
    <3> QED
      BY <3>1, <3>2 DEF IsFinal, Terminal
  <2>2. ASSUME run[i].state = "running", NEW o \in Terminal \cup {"failed"},
               run'[i] = [run[i] EXCEPT !.state = o,
                                        !.completed = o \in Terminal \/ run[i].attempts >= MaxAttempts]
        PROVE  /\ run'[i].state # "pending" /\ ~IsFinal(run[i])
               /\ run'[i].completed <=> IsFinal(run'[i])
    <3>1. /\ run'[i].state = o /\ run'[i].attempts = run[i].attempts
          /\ run'[i].completed <=> (o \in Terminal \/ run[i].attempts >= MaxAttempts)
      BY <1>1, <2>2 DEF Run
    <3> QED
      BY <2>2, <3>1 DEF IsFinal, Terminal
  <2> QED
    BY <1>5, <2>1, <2>2 DEF RowDrained
<1> QED
  BY <1>2, <1>3, <1>4, <1>5, TypeNext DEF RunsWritten

LEMMA HeldNext == Sound /\ [Next]_vars => HeldRuns'
<1> SUFFICES ASSUME Sound, [Next]_vars, NEW i \in drain'.held PROVE run'[i].state = "running"
  BY DEF HeldRuns
<1>1. drain \in Drains /\ drain' \in Drains /\ i \in Items /\ run[i] \in Run
  <2>1. TypeOK /\ TypeOK'
    BY TypeNext DEF Sound
  <2> QED
    BY <2>1 DEF TypeOK, Drains
<1>2. CASE i \in drain.held
  <2>1. run[i].state = "running"
    BY <1>2 DEF Sound, HeldRuns
  <2>2. ~RowInserted(i) /\ ~RowFlushed(i)
    BY <2>1 DEF RowInserted, RowFlushed, Absent
  <2>3. RowDrained(i) => run'[i].state = "running"
    BY <1>1, <2>1 DEF RowDrained, Claimable, Run
  <2> QED
    BY <1>1, <2>1, <2>2, <2>3, TypeNext DEF RunsWritten, RowKept
<1>3. CASE i \notin drain.held
  <2>1. ASSUME NEW c \in drain.cursor, DrainClaims(c) PROVE run'[i].state = "running"
    <3>1. TypeOK
      BY DEF Sound
    <3>2. PICK j \in Items, s \in Claimable : c = <<j, s>>
      BY <1>1 DEF Drains
    <3>3. i = j /\ run' = [run EXCEPT ![i].state = "running", ![i].attempts = @ + 1]
      BY <2>1, <3>2 DEF DrainClaims
    <3> QED
      BY <1>1, <3>1, <3>3 DEF TypeOK, Run
  <2>2. ASSUME ~\E c \in drain.cursor : DrainClaims(c) PROVE drain'.held \subseteq drain.held
    <3>1. CASE DrainStep
      BY <1>1, <2>2, <3>1 DEF DrainStep, DrainOpensCursor, DrainCompletes, DrainReaps, Drains
    <3>2. CASE Crash
      BY <3>2 DEF Crash, NoDrain
    <3>3. CASE ~DrainStep /\ ~Crash
      BY <3>3 DEF Next, vars, AdvanceReads, AdvanceCommits, AdvanceRollsBack, BackfillInserts, TriggerStep,
         TriggerStarts, TriggerOpens, TriggerInserts, TriggerAdvancesWatermark, FlushStep, FlushPicks,
         FlushGathers, FlushDropsGone, FlushEmits, FlushCompletes, FlushFails, FlushCloses, SetConfig,
         IntervalElapses
    <3> QED
      BY <3>1, <3>2, <3>3
  <2> QED
    BY <1>3, <2>1, <2>2
<1> QED
  BY <1>2, <1>3

LEMMA SoundInit == Init => Sound
<1>1. ASSUME Init PROVE PendingBelowCap /\ CompletedMeansFinal /\ HeldRuns
  BY <1>1 DEF Init, PendingBelowCap, CompletedMeansFinal, HeldRuns, NoDrain, Absent, IsFinal, Terminal
<1> QED
  BY <1>1, TypeInit DEF Sound

LEMMA SoundNext == Sound /\ [Next]_vars => Sound'
<1> SUFFICES ASSUME Sound, [Next]_vars PROVE Sound'
  OBVIOUS
<1>1. PendingBelowCap'
  BY RowRules DEF PendingBelowCap
<1>2. CompletedMeansFinal'
  BY RowRules DEF CompletedMeansFinal, IsFinal
<1> QED
  BY <1>1, <1>2, HeldNext, TypeNext DEF Sound

(* Types, and completed_at exactly on rows at rest, whatever arrives, is   *)
(* edited, flushed, drained or crashes.                                    *)
THEOREM RowsSound == Spec => [](TypeOK /\ CompletedMeansFinal)
<1>1. Sound => TypeOK /\ CompletedMeansFinal
  BY DEF Sound
<1> QED
  BY <1>1, SoundInit, SoundNext, PTL DEF Spec

(* A settled run is never written again, even when a stale cursor of the   *)
(* drain and a stale batch of the flush both hold it.                      *)
THEOREM SettledStays == Spec => VerdictsStand
<1>1. Sound /\ [Next]_vars => [\A i \in Items : IsFinal(run[i]) => run'[i] = run[i]]_vars
  BY RowRules
<1> QED
  BY <1>1, SoundInit, SoundNext, PTL DEF Spec, VerdictsStand

-----------------------------------------------------------------------------
(* A window without edits of its action and without backfills.             *)
Plain == Backfilled = {} /\ MaxEdits = 0

(* An instant action has no window and no flush; a digest action has no    *)
(* drain, no run without its window, and no trigger that inserts without.  *)
Calm ==
  /\ ~HeadFed => trigger = NoTrigger
  /\ trigger.phase # "idle" => trigger.mode = mode
  /\ \A i \in Items : feed[i] \in Modes => feed[i] = mode
  /\ mode = "instant" => window = "absent" /\ flush = NoFlush
  /\ mode = "digest" => /\ drain = NoDrain
                        /\ \A i \in Items : run[i].state # "running"
                        /\ window = "absent" => /\ \A i \in Items : run[i] = Absent
                                                /\ trigger.phase # "opened"

(* The steps that insert a run.                                            *)
Arrives(i) == AdvanceCommits(i) \/ TriggerInserts(i)

PlainStep ==
  \/ \E i \in Items : AdvanceReads(i) \/ AdvanceCommits(i) \/ AdvanceRollsBack(i)
  \/ TriggerStep \/ FlushStep \/ DrainStep \/ IntervalElapses \/ Crash \/ UNCHANGED vars

LEMMA PlainSteps ==
  ASSUME Plain, Sound, Calm, [Next]_vars
  PROVE  PlainStep /\ mode' = mode
<1>1. ~(\E i \in Items : BackfillInserts(i)) /\ ~(\E m \in Modes : SetConfig(m))
  <2>1. ~(edits < MaxEdits)
    BY DEF Plain, Sound, TypeOK
  <2> QED
    BY <2>1 DEF BackfillInserts, SetConfig, Plain
<1>2. PlainStep
  BY <1>1 DEF Next, PlainStep
<1>3. PlainStep => mode' = mode
  BY DEF PlainStep, TriggerStep, TriggerStarts, TriggerOpens, TriggerInserts, TriggerAdvancesWatermark, AdvanceReads, AdvanceCommits, AdvanceRollsBack, FlushStep, FlushPicks, FlushGathers,
     FlushDropsGone, FlushEmits, FlushCompletes, FlushFails, FlushCloses, DrainStep, DrainOpensCursor,
     DrainClaims, DrainCompletes, DrainReaps, IntervalElapses, Crash, vars
<1> QED
  BY <1>2, <1>3

(* Which of the two jobs may step.                                         *)
LEMMA FlushOnlyDigest == ASSUME Sound, Calm, FlushStep PROVE mode = "digest"
<1>1. NoFlush.phase = "idle"
  BY DEF NoFlush
<1>2. mode = "instant" => ~FlushStep
  BY <1>1 DEF Calm, FlushStep, FlushPicks, FlushGathers, FlushDropsGone, FlushEmits, FlushCompletes,
     FlushFails, FlushCloses
<1> QED
  BY <1>2 DEF Sound, TypeOK, Modes

LEMMA DrainOnlyInstant == ASSUME Sound, Calm, DrainStep PROVE mode = "instant"
<1>1. NoDrain.cursor = {} /\ NoDrain.held = {}
  BY DEF NoDrain
<1>2. ASSUME mode = "digest", DrainOpensCursor PROVE FALSE
  <2>1. \A j \in Items : run[j] = Absent
    BY <1>2 DEF Calm, DrainOpensCursor, HasWindow
  <2>2. {j \in Items : run[j].state \in Claimable /\ run[j].attempts < MaxAttempts} = {}
    BY <2>1 DEF Absent, Claimable
  <2>3. drain \in Drains
    BY DEF Sound, TypeOK, Drains
  <2>4. drain' = [drain EXCEPT !.cursor = {}]
    BY <1>2, <2>2 DEF DrainOpensCursor
  <2> QED
    BY <1>2, <2>3, <2>4 DEF DrainOpensCursor, Drains
<1>3. mode = "digest" => ~DrainStep
  BY <1>1, <1>2 DEF Calm, DrainStep, DrainReaps
<1> QED
  BY <1>3 DEF Sound, TypeOK, Modes

LEMMA PlainArrival ==
  ASSUME Sound, Calm, (\E i \in Items : AdvanceCommits(i)) \/ TriggerOpens
  PROVE  /\ mode = "instant" => window' = window
         /\ mode = "digest" => window' \in {"open", "due"}
<1>1. mode = "digest" => Opened \in {"open", "due"}
  BY DEF Opened, Sound, TypeOK
<1>2. ASSUME NEW i \in Items, AdvanceCommits(i) PROVE feed[i] = mode
  BY <1>2 DEF AdvanceCommits, Calm
<1>3. TriggerOpens => trigger.mode = mode
  BY DEF TriggerOpens, Calm
<1> QED
  BY <1>1, <1>2, <1>3 DEF AdvanceCommits, TriggerOpens

(* A run that is inserted for a digest action finds its window.            *)
LEMMA PlainInsert ==
  ASSUME Sound, Calm, NEW i \in Items, Arrives(i), mode = "digest"
  PROVE  window' # "absent"
<1>1. CASE AdvanceCommits(i)
  BY <1>1, PlainArrival
<1>2. CASE TriggerInserts(i)
  BY <1>2 DEF TriggerInserts, Calm
<1> QED
  BY <1>1, <1>2 DEF Arrives

(* A flush changes pending runs only and inserts none, and neither opens   *)
(* nor removes a window.                                                   *)
LEMMA FlushedRows ==
  ASSUME Sound, FlushStep
  PROVE  /\ \A i \in Items : run'[i] = run[i] \/ RowFlushed(i)
         /\ window = "absent" <=> window' = "absent"
<1>1. /\ \A pend : ClosedUnless(pend) = "absent" <=> window = "absent"
      /\ run \in [Items -> Run]
  BY DEF ClosedUnless, Sound, TypeOK
<1>2. window = "absent" <=> window' = "absent"
  BY <1>1 DEF FlushStep, FlushPicks, FlushGathers, FlushDropsGone, FlushEmits, FlushCompletes, FlushFails,
     FlushCloses
<1> QED
  BY <1>2, TypeFlush DEF OnlyFlushed, RowKept

(* What the steps of the drain and of an arrival do to a run.              *)
LEMMA PlainRows ==
  ASSUME Plain, Sound, Calm, [Next]_vars, NEW i \in Items
  PROVE  \/ run'[i] = run[i]
         \/ mode = "instant" /\ DrainStep /\ RowDrained(i)
         \/ mode = "digest" /\ FlushStep /\ RowFlushed(i)
         \/ (\E j \in Items : Arrives(j)) /\ RowInserted(i)
<1>1. CASE FlushStep
  BY <1>1, FlushOnlyDigest, FlushedRows
<1>2. CASE DrainStep
  <2>1. mode = "instant" /\ (RowKept(i) \/ RowInserted(i) \/ RowFlushed(i) \/ RowDrained(i))
    BY <1>2, DrainOnlyInstant, TypeDrain DEF RunsWritten
  <2>2. ASSUME NEW c \in drain.cursor, DrainClaims(c) PROVE run'[i] = run[i] \/ RowDrained(i)
    <3>1. drain \in Drains /\ run \in [Items -> Run] /\ MaxAttempts \in Nat
      BY Constants DEF Sound, TypeOK, Drains
    <3>2. PICK j \in Items, t \in Claimable : c = <<j, t>>
      BY <3>1 DEF Drains
    <3>3. CASE run[j].state = t /\ run[j].attempts < MaxAttempts
      <4>1. /\ run' = [run EXCEPT ![j].state = "running", ![j].attempts = @ + 1]
            /\ drain' = [cursor |-> drain.cursor \ {c}, held |-> {j}]
        BY <2>2, <3>2, <3>3 DEF DrainClaims
      <4>2. i # j => run'[i] = run[i]
        BY <3>1, <4>1
      <4>3. run'[j] = [run[j] EXCEPT !.state = "running", !.attempts = @ + 1]
        BY <3>1, <4>1 DEF Run
      <4> QED
        BY <3>2, <3>3, <4>1, <4>2, <4>3 DEF RowDrained
    <3>4. CASE ~(run[j].state = t /\ run[j].attempts < MaxAttempts)
      BY <2>2, <3>2, <3>4 DEF DrainClaims
    <3> QED
      BY <3>3, <3>4
  <2>3. run[i].state \in {"absent", "pending"} /\ ~(\E c \in drain.cursor : DrainClaims(c)) => run'[i] = run[i]
    <3>1. ASSUME NEW j \in drain.held, NEW o, DrainCompletes(j, o), run[i].state \in {"absent", "pending"}
          PROVE  run'[i] = run[i]
      <4>1. i # j
        BY <3>1 DEF Sound, HeldRuns
      <4> QED
        BY <3>1, <4>1 DEF DrainCompletes, Sound, TypeOK
    <3>2. ASSUME NEW j \in Items, DrainReaps(j), run[i].state \in {"absent", "pending"} PROVE run'[i] = run[i]
      BY <3>2 DEF DrainReaps, Sound, TypeOK
    <3> QED
      BY <1>2, <3>1, <3>2 DEF DrainStep, DrainOpensCursor
  <2>4. RowInserted(i) \/ RowFlushed(i) => run[i].state \in {"absent", "pending"}
    BY DEF RowInserted, RowFlushed, Absent
  <2> QED
    BY <1>2, <2>1, <2>2, <2>3, <2>4 DEF RowKept
<1>3. ASSUME NEW j \in Items, Arrives(j) PROVE run'[i] = run[i] \/ RowInserted(i)
  BY <1>3 DEF Arrives, AdvanceCommits, TriggerInserts, Inserted, RowInserted, Sound, TypeOK
<1>4. CASE \/ \E j \in Items : AdvanceReads(j) \/ AdvanceRollsBack(j)
           \/ TriggerStarts \/ TriggerOpens \/ TriggerAdvancesWatermark
           \/ IntervalElapses \/ Crash \/ UNCHANGED vars
  BY <1>4 DEF AdvanceReads, AdvanceRollsBack, TriggerStarts, TriggerOpens, TriggerAdvancesWatermark,
     IntervalElapses, Crash, vars
<1> QED
  BY <1>1, <1>2, <1>3, <1>4, PlainSteps DEF PlainStep, TriggerStep, Arrives

LEMMA CalmNext == ASSUME Plain, Sound, Calm, [Next]_vars PROVE Calm'
<1>1. PlainStep /\ mode' = mode /\ mode \in Modes /\ Sound'
  BY PlainSteps, SoundNext DEF Sound, TypeOK
<1>2. /\ ~HeadFed => trigger' = NoTrigger
      /\ trigger'.phase # "idle" => trigger'.mode = mode'
      /\ trigger'.phase = "opened" => trigger.phase = "opened" \/ TriggerOpens
  <2>1. CASE TriggerStep
    <3>1. trigger \in Triggers /\ NoTrigger.phase = "idle"
      BY DEF Sound, TypeOK, Triggers, NoTrigger
    <3>2. HeadFed
      BY <2>1, <3>1 DEF TriggerStep, TriggerStarts, TriggerOpens, TriggerInserts, TriggerAdvancesWatermark, Calm
    <3>3. trigger'.phase # "idle" => trigger'.mode = mode
      BY <2>1, <3>1 DEF TriggerStep, TriggerStarts, TriggerOpens, TriggerInserts, TriggerAdvancesWatermark, Calm, Triggers
    <3>4. trigger'.phase = "opened" => trigger.phase = "opened" \/ TriggerOpens
      BY <2>1, <3>1 DEF TriggerStep, TriggerStarts, TriggerInserts, TriggerAdvancesWatermark
    <3> QED
      BY <1>1, <3>2, <3>3, <3>4
  <2>2. CASE ~TriggerStep
    <3>1. trigger' = trigger \/ trigger' = NoTrigger
      BY <1>1, <2>2 DEF PlainStep, AdvanceReads, AdvanceCommits, AdvanceRollsBack, FlushStep, FlushPicks, FlushGathers,
         FlushDropsGone, FlushEmits, FlushCompletes, FlushFails, FlushCloses, DrainStep, DrainOpensCursor,
         DrainClaims, DrainCompletes, DrainReaps, IntervalElapses, Crash, vars
    <3> QED
      BY <1>1, <3>1 DEF Calm, NoTrigger
  <2> QED
    BY <2>1, <2>2
<1>3. \A i \in Items : feed'[i] \in Modes => feed'[i] = mode'
  <2>0. CASE TriggerAdvancesWatermark
    BY <1>1, <2>0 DEF TriggerAdvancesWatermark, Calm, Modes
  <2>1. CASE ~TriggerAdvancesWatermark
    <3>1. feed' = feed \/ \E i \in Items, x \in {"waiting", "done", mode} : feed' = [feed EXCEPT ![i] = x]
      BY <1>1, <2>1 DEF PlainStep, TriggerStep, TriggerStarts, TriggerOpens, TriggerInserts, AdvanceReads, AdvanceCommits, AdvanceRollsBack, FlushStep, FlushPicks, FlushGathers,
       FlushDropsGone, FlushEmits, FlushCompletes, FlushFails, FlushCloses, DrainStep, DrainOpensCursor,
       DrainClaims, DrainCompletes, DrainReaps, IntervalElapses, Crash, vars
    <3> QED
      BY <1>1, <3>1 DEF Calm, Modes, Sound, TypeOK
  <2> QED
    BY <2>0, <2>1
<1>4. CASE mode = "instant"
  <2>1. ~FlushStep /\ NoFlush.phase = "idle"
    BY <1>4, FlushOnlyDigest DEF NoFlush
  <2>2. flush = NoFlush /\ window = "absent"
    BY <1>4 DEF Calm
  <2>3. flush' = NoFlush
    BY <1>1, <2>1, <2>2 DEF PlainStep, AdvanceReads, AdvanceCommits, AdvanceRollsBack, TriggerStep, TriggerStarts,
       TriggerOpens, TriggerInserts, TriggerAdvancesWatermark, DrainStep, DrainOpensCursor, DrainClaims, DrainCompletes, DrainReaps, IntervalElapses, Crash, vars
  <2>4. window' = "absent"
    BY <1>1, <1>4, <2>1, <2>2, PlainArrival DEF PlainStep, AdvanceReads, AdvanceRollsBack, TriggerStep, TriggerStarts,
       TriggerInserts, TriggerAdvancesWatermark, DrainStep, DrainOpensCursor, DrainClaims, DrainCompletes, DrainReaps, IntervalElapses, Crash, vars
  <2> QED
    BY <1>1, <1>2, <1>3, <1>4, <2>3, <2>4 DEF Calm
<1>5. CASE mode = "digest"
  <2>1. ~DrainStep /\ drain = NoDrain
    BY <1>5, DrainOnlyInstant DEF Calm
  <2>2. drain' = NoDrain
    BY <1>1, <2>1 DEF PlainStep, TriggerStep, TriggerStarts, TriggerOpens, TriggerInserts, TriggerAdvancesWatermark,
       AdvanceReads, AdvanceCommits, AdvanceRollsBack, FlushStep, FlushPicks, FlushGathers, FlushDropsGone, FlushEmits, FlushCompletes, FlushFails, FlushCloses, IntervalElapses,
       Crash, vars
  <2>3. ASSUME NEW i \in Items PROVE run'[i].state # "running"
    <3>1. run[i].state # "running" /\ run[i] \in Run
      BY <1>5 DEF Calm, Sound, TypeOK
    <3>2. RowFlushed(i) => run'[i].state # "running"
      <4>1. ASSUME NEW o \in Terminal, run'[i] = [run[i] EXCEPT !.state = o, !.completed = TRUE]
            PROVE  run'[i].state # "running"
        BY <3>1, <4>1 DEF Run, Terminal
      <4>2. ASSUME run'[i] = [run[i] EXCEPT !.attempts = @ + 1] PROVE run'[i].state # "running"
        BY <3>1, <4>2 DEF Run
      <4>3. ASSUME NEW n, run'[i] = [state |-> "failed", attempts |-> n, completed |-> TRUE]
            PROVE  run'[i].state # "running"
        BY <4>3
      <4> QED
        BY <4>1, <4>2, <4>3 DEF RowFlushed, FlushWrote
    <3>3. RowInserted(i) => run'[i].state # "running"
      BY DEF RowInserted, Pending
    <3> QED
      BY <1>5, <3>1, <3>2, <3>3, PlainRows
  <2>4. ASSUME window' = "absent"
        PROVE  (\A i \in Items : run'[i] = Absent) /\ trigger'.phase # "opened"
    <3>1. ~(\E j \in Items : Arrives(j)) /\ ~(\E j \in Items : AdvanceCommits(j)) /\ ~TriggerOpens
      BY <1>5, <2>4, PlainArrival, PlainInsert
    <3>2. window = "absent"
      BY <1>1, <2>1, <2>4, <3>1, FlushedRows DEF PlainStep, AdvanceReads, AdvanceRollsBack, TriggerStep, TriggerStarts,
         TriggerInserts, TriggerAdvancesWatermark, IntervalElapses, Crash, vars
    <3>3. ASSUME NEW i \in Items PROVE run[i] = Absent /\ ~RowFlushed(i)
      BY <1>5, <3>2 DEF Calm, RowFlushed, Absent
    <3>4. \A i \in Items : run'[i] = Absent
      BY <1>5, <3>1, <3>3, PlainRows
    <3> QED
      BY <1>2, <1>5, <3>1, <3>2, <3>4 DEF Calm
  <2> QED
    BY <1>1, <1>2, <1>3, <1>5, <2>2, <2>3, <2>4 DEF Calm
<1> QED
  BY <1>1, <1>4, <1>5 DEF Modes

LEMMA CalmInit == Init => Calm
  BY DEF Init, Calm, Modes, Absent, NoTrigger

LEMMA CalmAlways == ASSUME Plain PROVE Spec => [](Sound /\ Calm)
  BY CalmInit, CalmNext, SoundInit, SoundNext, PTL DEF Spec

(* A digest action has no run that the drain took.                         *)
THEOREM DrainNeverEnters == ASSUME Plain PROVE Spec => []DrainStaysOut
<1>1. Calm => DrainStaysOut
  BY DEF Calm, DrainStaysOut
<1> QED
  BY <1>1, CalmAlways, PTL

-----------------------------------------------------------------------------
(* Close or join: no pending run is left under a closed window.            *)
LEMMA NoOrphanNext == ASSUME Plain, ~HeadFed, Sound, Calm, NoOrphan, [Next]_vars PROVE NoOrphan'
<1> SUFFICES ASSUME window' = "closed" PROVE \A i \in Items : run'[i].state # "pending"
  BY DEF NoOrphan, PendingItems
<1>1. mode = "digest" /\ PlainStep
  BY PlainSteps, CalmNext DEF Calm, Sound, TypeOK, Modes
<1>0. ~TriggerStep
  <2>1. trigger = NoTrigger /\ NoTrigger.phase = "idle"
    BY DEF Calm, NoTrigger
  <2> QED
    BY <2>1 DEF TriggerStep, TriggerStarts, TriggerOpens, TriggerInserts, TriggerAdvancesWatermark
<1>2. ~(\E j \in Items : Arrives(j)) /\ ~(\E j \in Items : AdvanceCommits(j)) /\ ~DrainStep
  BY <1>0, <1>1, PlainArrival, DrainOnlyInstant DEF Arrives, TriggerStep
<1>3. CASE window = "closed"
  <2>1. ASSUME NEW i \in Items PROVE run'[i].state # "pending"
    <3>1. run[i].state # "pending"
      BY <1>3 DEF NoOrphan, PendingItems
    <3> QED
      BY <1>2, <3>1, PlainRows DEF RowFlushed
  <2> QED
    BY <2>1
<1>4. CASE window # "closed"
  <2>1. FlushCompletes \/ FlushFails \/ FlushCloses
    BY <1>0, <1>1, <1>2, <1>4 DEF PlainStep, AdvanceReads, AdvanceRollsBack, IntervalElapses, Crash, vars,
       FlushStep, FlushPicks, FlushGathers, FlushDropsGone, FlushEmits
  <2>2. \A pend : ClosedUnless(pend) = "closed" => pend = {}
    BY <1>4 DEF ClosedUnless
  <2>3. CASE FlushCompletes
    <3>1. PendingItems \ flush.batch = {} /\ run' = BatchCompleted(flush.batch, flush.outcome)
          /\ flush.outcome \in Terminal
      BY <2>2, <2>3 DEF FlushCompletes
    <3>2. ASSUME NEW i \in Items, run'[i].state = "pending" PROVE FALSE
      <4>1. run[i].state = "pending" => i \in flush.batch
        BY <3>1 DEF PendingItems
      <4>2. run[i].state = "pending" => run'[i] = [run[i] EXCEPT !.state = flush.outcome, !.completed = TRUE]
        BY <3>1, <4>1 DEF BatchCompleted
      <4>3. run[i].state # "pending" => run'[i] = run[i]
        BY <3>1 DEF BatchCompleted
      <4> QED
        BY <3>1, <3>2, <4>2, <4>3 DEF Terminal, Sound, TypeOK, Run
    <3> QED
      BY <3>2
  <2>4. CASE FlushFails
    BY <2>2, <2>4 DEF FlushFails
  <2>5. CASE FlushCloses
    BY <2>2, <2>5 DEF FlushCloses, PendingItems
  <2> QED
    BY <2>1, <2>3, <2>4, <2>5
<1> QED
  BY <1>3, <1>4

(* close_if_drained looks again under the lock that an arrival joins       *)
(* under: "either way no orphan".                                          *)
THEOREM NoOrphans == ASSUME Plain, ~HeadFed PROVE Spec => []NoOrphan
<1>1. Init => NoOrphan
  BY DEF Init, NoOrphan
<1> QED
  BY <1>1, NoOrphanNext, CalmAlways, PTL DEF Spec

-----------------------------------------------------------------------------
(* The batch a flush holds, and what it delivered.                         *)

(* Nobody else takes the runs of a batch.                                  *)
BatchPending == flush.phase \in {"batch", "emitted"} => flush.batch \subseteq PendingItems

LEMMA BatchNext == ASSUME Plain, Sound, Calm, BatchPending, [Next]_vars PROVE BatchPending'
<1> SUFFICES ASSUME flush'.phase \in {"batch", "emitted"}, NEW i \in flush'.batch
             PROVE  i \in Items /\ run'[i].state = "pending"
  BY DEF BatchPending, PendingItems
<1>1. NoFlush.phase = "idle" /\ flush \in Flushes /\ PlainStep
  BY PlainSteps DEF NoFlush, Flushes, Sound, TypeOK
<1>2. ASSUME flush' = flush PROVE i \in Items /\ run'[i].state = "pending"
  <2>1. i \in Items /\ run[i].state = "pending" /\ mode = "digest"
    BY <1>1, <1>2 DEF BatchPending, PendingItems, Calm, Sound, TypeOK, Modes
  <2>2. ~RowInserted(i)
    BY <2>1 DEF RowInserted, Absent
  <2>3. ~FlushStep
    BY <1>1, <1>2 DEF FlushStep, FlushPicks, FlushGathers, FlushDropsGone, FlushEmits, FlushCompletes,
       FlushFails, FlushCloses, Flushes
  <2> QED
    BY <2>1, <2>2, <2>3, PlainRows
<1>3. CASE FlushGathers
  <2>1. i \in PendingItems
    BY <1>1, <1>3 DEF FlushGathers, IsBatch, Flushes
  <2> QED
    BY <1>3, <2>1 DEF FlushGathers, PendingItems
<1>4. CASE FlushDropsGone
  <2>1. PICK gone \in SUBSET flush.batch :
          run' = BatchCompleted(gone, "errored") /\ flush'.batch = flush.batch \ gone
    BY <1>1, <1>4 DEF FlushDropsGone, Flushes
  <2>2. i \in PendingItems /\ i \notin gone
    BY <1>4, <2>1 DEF FlushDropsGone, BatchPending
  <2> QED
    BY <2>1, <2>2 DEF PendingItems, BatchCompleted
<1>5. CASE FlushEmits
  BY <1>1, <1>5 DEF FlushEmits, BatchPending, PendingItems, Flushes
<1>6. CASE FlushPicks \/ FlushCompletes \/ FlushFails \/ FlushCloses
  BY <1>1, <1>6 DEF FlushPicks, FlushCompletes, FlushFails, FlushCloses, Flushes, NoFlush
<1>7. ~FlushStep => flush' = flush
  BY <1>1 DEF PlainStep, TriggerStep, TriggerStarts, TriggerOpens, TriggerInserts, TriggerAdvancesWatermark,
     AdvanceReads, AdvanceCommits, AdvanceRollsBack, DrainStep, DrainOpensCursor, DrainClaims, DrainCompletes,
     DrainReaps, IntervalElapses, Crash, vars
<1> QED
  BY <1>2, <1>3, <1>4, <1>5, <1>6, <1>7 DEF FlushStep

(* The verdict a flush writes with the advance of its batch.               *)
LEMMA FlushVerdict ==
  ASSUME Plain, Sound, Calm, BatchPending, FlushCompletes, NEW i \in Items
  PROVE  /\ i \in flush.batch => run[i].state = "pending" /\ run'[i].state = flush.outcome
         /\ i \notin flush.batch => run'[i] = run[i]
         /\ flush.outcome \in Terminal
         /\ i \in next' <=> i \in next \/ (flush.outcome = "succeeded" /\ i \in flush.batch)
<1>1. run[i] \in Run /\ flush.batch \subseteq PendingItems /\ flush.outcome \in Terminal
  BY DEF FlushCompletes, BatchPending, Sound, TypeOK
<1>2. i \in flush.batch => run'[i] = [run[i] EXCEPT !.state = flush.outcome, !.completed = TRUE]
  BY <1>1 DEF FlushCompletes, BatchCompleted, PendingItems
<1>3. i \in flush.batch => run'[i].state = flush.outcome
  BY <1>1, <1>2 DEF Run
<1> QED
  BY <1>1, <1>3 DEF FlushCompletes, BatchCompleted, PendingItems, Advanced

(* Which steps write next and sent.                                        *)
LEMMA HistorySteps ==
  ASSUME Plain, Sound, Calm, [Next]_vars
  PROVE  \/ FlushCompletes
         \/ FlushEmits
         \/ \E i \in drain.held, o \in Terminal \cup {"failed"} : DrainCompletes(i, o)
         \/ UNCHANGED <<next, sent>>
  BY PlainSteps DEF PlainStep, TriggerStep, TriggerStarts, TriggerOpens, TriggerInserts, TriggerAdvancesWatermark,
     AdvanceReads, AdvanceCommits, AdvanceRollsBack, FlushStep, FlushPicks, FlushGathers, FlushDropsGone, FlushFails, FlushCloses, DrainStep, DrainOpensCursor, DrainClaims, DrainReaps,
     IntervalElapses, Crash, vars

LEMMA DrainVerdict ==
  ASSUME Sound, NEW j \in drain.held, NEW o \in Terminal \cup {"failed"}, DrainCompletes(j, o), NEW i \in Items
  PROVE  /\ j \in Items /\ run[j].state = "running" /\ run'[j].state = o
         /\ i # j => run'[i] = run[i]
         /\ i \in next' <=> i \in next \/ (o = "succeeded" /\ i = j)
         /\ sent'[i] = IF o = "succeeded" /\ i = j THEN sent[i] + 1 ELSE sent[i]
<1>1. run \in [Items -> Run] /\ j \in Items /\ sent \in [Items -> Nat] /\ run[j].state = "running"
  BY DEF Sound, TypeOK, HeldRuns
<1>2. run'[j].state = o
  BY <1>1 DEF DrainCompletes, Run
<1> QED
  BY <1>1, <1>2 DEF DrainCompletes, Advanced

-----------------------------------------------------------------------------
(* The digest and the ledger.                                              *)

(* A run as the ledger sees it.                                            *)
Seen(x) == IF x = Absent THEN "absent" ELSE IF IsFinal(x) THEN x.state ELSE "open"
Reached(N, i) == IF i \in N THEN "open" ELSE "absent"

Outcomes == Terminal \cup {"failed"}

LEMMA VerdictSeen ==
  /\ Verdict = [r \in (1 .. 2) \X Items |-> IF r[1] = 2 THEN Reached(next, r[2]) ELSE Seen(run[r[2]])]
  /\ Verdict' = [r \in (1 .. 2) \X Items |-> IF r[1] = 2 THEN Reached(next', r[2]) ELSE Seen(run'[r[2]])]
  BY DEF Verdict, Seen, Reached

LEMMA LedgerTerms ==
  /\ Ledger!Runs = (1 .. 2) \X Items
  /\ Ledger!Final = Outcomes
  BY DEF Ledger!Runs, Ledger!Ranks, Ledger!Final, Outcomes, Terminal

(* Which runs the ledger holds open.                                       *)
LEMMA SeenFacts ==
  ASSUME NEW x \in Run
  PROVE  /\ Seen(Absent) = "absent" /\ Seen(Pending) = "open"
         /\ x.state \in {"pending", "running"} => Seen(x) = "open"
         /\ x.state = "failed" => Seen(x) = IF x.attempts < MaxAttempts THEN "open" ELSE "failed"
         /\ x.state \in Terminal => Seen(x) = x.state
<1>1. x.attempts \in Nat /\ MaxAttempts \in Nat
  BY Constants DEF Run
<1>2. "absent" \notin Terminal /\ "pending" \notin Terminal /\ "running" \notin Terminal /\ "failed" \notin Terminal
  BY DEF Terminal
<1> QED
  BY <1>1, <1>2 DEF Seen, IsFinal, Absent, Pending

(* A step that changes no verdict.                                         *)
LEMMA Silent ==
  ASSUME next' = next, \A i \in Items : Seen(run'[i]) = Seen(run[i])
  PROVE  Verdict' = Verdict
  BY VerdictSeen

(* A step that gives the open runs of S one verdict, and brings them to    *)
(* the next action if it is a success.                                     *)
LEMMA SettleByRows ==
  ASSUME NEW S \in SUBSET Items, NEW o \in Outcomes,
         \A i \in S : Seen(run[i]) = "open" /\ Seen(run'[i]) = o,
         \A i \in Items \ S : Seen(run'[i]) = Seen(run[i]),
         next' = Advanced(S, o)
  PROVE  Ledger!LedgerNext
<1> DEFINE T == {1} \X S
<1>1. T \in SUBSET Ledger!Runs /\ \A r \in T : Verdict[r] = "open"
  BY LedgerTerms, VerdictSeen
<1>2. ASSUME NEW r \in (1 .. 2) \X Items
      PROVE  Verdict'[r] = IF r \in T THEN o
                           ELSE IF Ledger!Opens(T, o, r) /\ Verdict[r] = "absent" THEN "open"
                           ELSE Verdict[r]
  <2>1. PICK k \in 1 .. 2, i \in Items : r = <<k, i>>
    OBVIOUS
  <2>2. CASE k = 1
    <3>1. ~Ledger!Opens(T, o, r)
      BY <2>1, <2>2 DEF Ledger!Opens, Ledger!Successor
    <3>2. r \in T <=> i \in S
      BY <2>1, <2>2
    <3>3. Verdict[r] = Seen(run[i]) /\ Verdict'[r] = Seen(run'[i])
      BY <2>1, <2>2, VerdictSeen
    <3> HIDE DEF T
    <3> QED
      BY <3>1, <3>2, <3>3
  <2>3. CASE k = 2
    <3>1. Ledger!Opens(T, o, r) <=> o = "succeeded" /\ i \in S
      <4>1. \A t \in T : t[1] = 1 /\ t[2] \in S
        OBVIOUS
      <4>2. i \in S => <<1, i>> \in T /\ <<1, i>>[1] + 1 = 2 /\ <<1, i>>[2] = i
        OBVIOUS
      <4> HIDE DEF T
      <4> QED
        BY <2>1, <2>3, <4>1, <4>2 DEF Ledger!Opens, Ledger!Successor
    <3>2. r \notin T
      BY <2>1, <2>3
    <3>3. Verdict[r] = Reached(next, i) /\ Verdict'[r] = Reached(next', i)
      BY <2>1, <2>3, VerdictSeen
    <3>4. i \in next' <=> i \in next \/ (o = "succeeded" /\ i \in S)
      BY DEF Advanced
    <3> HIDE DEF T
    <3> QED
      BY <3>1, <3>2, <3>3, <3>4 DEF Reached
  <2> QED
    BY <2>1, <2>2, <2>3
<1>3. Verdict' = [r \in Ledger!Runs |->
                    IF r \in T THEN o
                    ELSE IF Ledger!Opens(T, o, r) /\ Verdict[r] = "absent" THEN "open"
                    ELSE Verdict[r]]
  BY <1>2, LedgerTerms, VerdictSeen
<1> HIDE DEF T
<1>4. Ledger!Settle(T, o)
  BY <1>1, <1>3 DEF Ledger!Settle
<1> QED
  BY <1>1, <1>4, LedgerTerms DEF Ledger!LedgerNext

(* An arrival is the ledger's offer, unless the run is there already.      *)
LEMMA ArrivalOffers ==
  ASSUME Sound, NEW j \in Items, Arrives(j)
  PROVE  [Ledger!LedgerNext]_Verdict
<1>1. run' = Inserted(j) /\ next' = next /\ run \in [Items -> Run]
  BY DEF Arrives, AdvanceCommits, TriggerInserts, Sound, TypeOK
<1>2. CASE run[j] # Absent
  BY <1>1, <1>2, Silent DEF Inserted
<1>3. CASE run[j] = Absent
  <2>1. run' = [run EXCEPT ![j] = Pending]
    BY <1>1, <1>3 DEF Inserted
  <2>2. Seen(Absent) = "absent" /\ Seen(Pending) = "open"
    BY <1>1, SeenFacts
  <2>3. Verdict[<<1, j>>] = "absent"
    BY <1>3, <2>2, VerdictSeen
  <2>4. Verdict' = [Verdict EXCEPT ![<<1, j>>] = "open"]
    <3>1. ASSUME NEW r \in (1 .. 2) \X Items
          PROVE  Verdict'[r] = IF r = <<1, j>> THEN "open" ELSE Verdict[r]
      BY <1>1, <2>1, <2>2, VerdictSeen
    <3> QED
      BY <3>1, VerdictSeen
  <2> QED
    BY <2>3, <2>4 DEF Ledger!Offer, Ledger!LedgerNext
<1> QED
  BY <1>2, <1>3

(* A flush settles its batch, what is gone of it, or what its failed emit  *)
(* brought to the cap.                                                     *)
LEMMA FlushSettles ==
  ASSUME Plain, Sound, Calm, BatchPending, FlushStep
  PROVE  [Ledger!LedgerNext]_Verdict
<1>1. run \in [Items -> Run] /\ flush \in Flushes /\ MaxAttempts \in Nat
  BY Constants DEF Sound, TypeOK, Flushes
<1>2. ASSUME flush.phase \in {"batch", "emitted"}, NEW i \in flush.batch
      PROVE  i \in Items /\ run[i].state = "pending" /\ Seen(run[i]) = "open" /\ run[i].attempts \in Nat
  BY <1>1, <1>2, SeenFacts DEF BatchPending, PendingItems, Run
<1>3. ASSUME NEW i \in Items, NEW o \in Terminal
      PROVE  Seen([run[i] EXCEPT !.state = o, !.completed = TRUE]) = o
  <2>1. [run[i] EXCEPT !.state = o, !.completed = TRUE] \in Run
    BY <1>1 DEF Run, Terminal
  <2> QED
    BY <1>1, <1>3, <2>1, SeenFacts DEF Run
<1>4. CASE FlushDropsGone
  <2>1. PICK gone \in SUBSET flush.batch : run' = BatchCompleted(gone, "errored")
    BY <1>4 DEF FlushDropsGone
  <2>2. gone \in SUBSET Items /\ \A i \in gone : Seen(run[i]) = "open" /\ Seen(run'[i]) = "errored"
    BY <1>2, <1>3, <1>4, <2>1 DEF FlushDropsGone, BatchCompleted, Terminal
  <2>3. \A i \in Items \ gone : run'[i] = run[i]
    BY <2>1 DEF BatchCompleted
  <2>4. next' = Advanced(gone, "errored")
    BY <1>4 DEF FlushDropsGone, Advanced
  <2> QED
    BY <2>2, <2>3, <2>4, SettleByRows DEF Outcomes, Terminal
<1>5. CASE FlushCompletes
  <2>1. /\ flush.outcome \in Terminal /\ run' = BatchCompleted(flush.batch, flush.outcome)
        /\ next' = Advanced(flush.batch, flush.outcome)
    BY <1>5 DEF FlushCompletes
  <2>2. /\ flush.batch \in SUBSET Items
        /\ \A i \in flush.batch : Seen(run[i]) = "open" /\ Seen(run'[i]) = flush.outcome
    <3>1. flush.phase = "emitted" /\ flush.batch \in SUBSET Items
      BY <1>1, <1>5 DEF FlushCompletes, Flushes
    <3>2. ASSUME NEW i \in flush.batch PROVE Seen(run[i]) = "open" /\ Seen(run'[i]) = flush.outcome
      <4>1. i \in Items /\ run[i].state = "pending" /\ Seen(run[i]) = "open"
        BY <1>2, <3>1
      <4>2. run'[i] = [run[i] EXCEPT !.state = flush.outcome, !.completed = TRUE]
        BY <2>1, <4>1 DEF BatchCompleted
      <4> QED
        BY <1>3, <2>1, <4>1, <4>2
    <3> QED
      BY <3>1, <3>2
  <2>3. \A i \in Items \ flush.batch : run'[i] = run[i]
    BY <2>1 DEF BatchCompleted
  <2> QED
    BY <2>1, <2>2, <2>3, SettleByRows DEF Outcomes
<1>6. CASE FlushFails
  <2> DEFINE S == {i \in flush.batch : run[i].attempts + 1 >= MaxAttempts}
  <2>1. run' = BatchFailed(flush.batch) /\ next' = Advanced(S, "failed") /\ flush.phase = "emitted"
    BY <1>6 DEF FlushFails, Advanced
  <2>2. ASSUME NEW i \in S PROVE i \in Items /\ Seen(run[i]) = "open" /\ Seen(run'[i]) = "failed"
    <3>1. i \in Items /\ run[i].state = "pending" /\ Seen(run[i]) = "open" /\ run[i].attempts \in Nat
      BY <1>2, <2>1
    <3>2. run'[i] = [state |-> "failed", attempts |-> run[i].attempts + 1, completed |-> TRUE]
      BY <2>1, <3>1 DEF BatchFailed
    <3> QED
      BY <1>1, <3>1, <3>2 DEF Seen, IsFinal, Absent, Terminal
  <2>3. ASSUME NEW i \in Items \ S PROVE Seen(run'[i]) = Seen(run[i])
    <3>1. CASE i \in flush.batch
      <4>1. run[i].state = "pending" /\ run[i].attempts + 1 < MaxAttempts /\ Seen(run[i]) = "open"
        BY <1>1, <1>2, <2>1, <2>3, <3>1
      <4>2. run'[i] = [run[i] EXCEPT !.attempts = @ + 1]
        BY <1>1, <1>2, <2>1, <2>3, <3>1, <4>1 DEF BatchFailed
      <4>3. run'[i].state = "pending" /\ run'[i] \in Run
        BY <1>1, <1>2, <4>1, <4>2 DEF Run
      <4> QED
        BY <4>1, <4>3, SeenFacts
    <3>2. CASE i \notin flush.batch
      BY <2>1, <3>2 DEF BatchFailed
    <3> QED
      BY <3>1, <3>2
  <2>4. S \in SUBSET Items
    BY <2>2
  <2> HIDE DEF S
  <2> QED
    BY <2>1, <2>2, <2>3, <2>4, SettleByRows DEF Outcomes
<1>7. CASE FlushPicks \/ FlushGathers \/ FlushEmits \/ FlushCloses
  BY <1>7, Silent DEF FlushPicks, FlushGathers, FlushEmits, FlushCloses
<1> QED
  BY <1>4, <1>5, <1>6, <1>7 DEF FlushStep

(* The drain of an instant action settles one run at a time; a claim and a *)
(* failure below the cap do not show.                                      *)
LEMMA DrainSettles ==
  ASSUME Sound, DrainStep
  PROVE  [Ledger!LedgerNext]_Verdict
<1>1. /\ run \in [Items -> Run] /\ drain \in Drains /\ MaxAttempts \in Nat
      /\ \A i \in Items : run[i].attempts \in Nat
  BY Constants DEF Sound, TypeOK, Drains, Run
<1>2. ASSUME NEW i \in Items, NEW o \in Outcomes, NEW b \in BOOLEAN, run[i].state = "running",
             run' = [run EXCEPT ![i].state = o, ![i].completed = b], next' = Advanced({i}, o)
      PROVE  [Ledger!LedgerNext]_Verdict
  <2>1. run'[i] \in Run /\ run'[i].state = o /\ run'[i].attempts = run[i].attempts
    BY <1>1, <1>2 DEF Run, Outcomes, Terminal, Claimable
  <2>2. Seen(run[i]) = "open" /\ \A j \in Items \ {i} : run'[j] = run[j]
    BY <1>1, <1>2, SeenFacts
  <2>3. CASE o = "failed" /\ run[i].attempts < MaxAttempts
    <3>1. Seen(run'[i]) = "open" /\ next' = next
      BY <1>2, <2>1, <2>3, SeenFacts DEF Advanced
    <3> QED
      BY <2>2, <3>1, Silent
  <2>4. CASE ~(o = "failed" /\ run[i].attempts < MaxAttempts)
    <3>1. Seen(run'[i]) = o
      BY <1>2, <2>1, <2>4, SeenFacts DEF Outcomes
    <3> QED
      <4>1. /\ {i} \in SUBSET Items
            /\ \A j \in {i} : Seen(run[j]) = "open" /\ Seen(run'[j]) = o
            /\ \A j \in Items \ {i} : Seen(run'[j]) = Seen(run[j])
        BY <2>2, <3>1
      <4> QED
        BY <1>2, <4>1, SettleByRows
  <2> QED
    BY <2>3, <2>4
<1>3. ASSUME NEW i \in drain.held, NEW o \in Outcomes, DrainCompletes(i, o) PROVE [Ledger!LedgerNext]_Verdict
  <2>1. i \in Items /\ run[i].state = "running"
    BY <1>1 DEF Sound, HeldRuns, Drains
  <2> QED
    BY <1>2, <1>3, <2>1 DEF DrainCompletes
<1>4. ASSUME NEW i \in Items, DrainReaps(i) PROVE [Ledger!LedgerNext]_Verdict
  <2>1. next' = Advanced({i}, "failed") /\ "failed" \in Outcomes
    BY <1>4 DEF DrainReaps, Advanced, Outcomes
  <2>2. (run[i].attempts >= MaxAttempts) \in BOOLEAN
    BY <1>1
  <2>3. /\ run[i].state = "running"
        /\ run' = [run EXCEPT ![i].state = "failed", ![i].completed = run[i].attempts >= MaxAttempts]
    BY <1>4 DEF DrainReaps
  <2> QED
    BY <1>2, <2>1, <2>2, <2>3
<1>5. ASSUME NEW c \in drain.cursor, DrainClaims(c) PROVE Verdict' = Verdict
  <2>1. PICK i \in Items, t \in Claimable : c = <<i, t>>
    BY <1>1 DEF Drains
  <2>2. CASE run[i].state = t /\ run[i].attempts < MaxAttempts
    <3>1. run' = [run EXCEPT ![i].state = "running", ![i].attempts = @ + 1] /\ next' = next
      BY <1>5, <2>1, <2>2 DEF DrainClaims
    <3>2. Seen(run[i]) = "open"
      BY <1>1, <2>1, <2>2, SeenFacts DEF Claimable
    <3>3. run'[i] \in Run /\ run'[i].state = "running"
      BY <1>1, <2>2, <3>1 DEF Run
    <3>4. Seen(run'[i]) = "open" /\ \A j \in Items \ {i} : run'[j] = run[j]
      BY <1>1, <3>1, <3>3, SeenFacts
    <3> QED
      BY <3>1, <3>2, <3>4, Silent
  <2>3. CASE ~(run[i].state = t /\ run[i].attempts < MaxAttempts)
    BY <1>5, <2>1, <2>3, Silent DEF DrainClaims
  <2> QED
    BY <2>2, <2>3
<1>6. CASE DrainOpensCursor
  BY <1>6, Silent DEF DrainOpensCursor
<1> QED
  BY <1>3, <1>4, <1>5, <1>6 DEF DrainStep, Outcomes

LEMMA LedgerSteps ==
  ASSUME Plain, Sound, Calm, BatchPending, [Next]_vars
  PROVE  [Ledger!LedgerNext]_Verdict
<1>1. ASSUME NEW j \in Items, Arrives(j) PROVE [Ledger!LedgerNext]_Verdict
  BY <1>1, ArrivalOffers
<1>2. CASE \/ \E j \in Items : AdvanceReads(j) \/ AdvanceRollsBack(j)
           \/ TriggerStarts \/ TriggerOpens \/ TriggerAdvancesWatermark
           \/ IntervalElapses \/ Crash \/ UNCHANGED vars
  BY <1>2, Silent DEF AdvanceReads, AdvanceRollsBack, TriggerStarts, TriggerOpens, TriggerAdvancesWatermark,
     IntervalElapses, Crash, vars
<1> QED
  BY <1>1, <1>2, PlainSteps, FlushSettles, DrainSettles DEF PlainStep, TriggerStep, Arrives

LEMMA LedgerStarts == Init => Ledger!LedgerInit
  BY LedgerTerms DEF Init, Verdict, Ledger!LedgerInit

LEMMA BatchInit == Init => BatchPending
  BY DEF Init, BatchPending, NoFlush

(* The digest settles by batches what the queue settles run by run, under  *)
(* the same contract: slices, failed emits, crashes, late arrivals and the *)
(* claims of an instant action are stutters of the ledger.                 *)
THEOREM DigestImplementsLedger == ASSUME Plain PROVE Spec => ImplementsLedger
<1>1. Spec => Ledger!LedgerInit /\ [][Ledger!LedgerNext]_Verdict
  BY LedgerStarts, LedgerSteps, BatchInit, BatchNext, CalmAlways, PTL DEF Spec
<1> QED
  BY <1>1 DEF ImplementsLedger, Ledger!LedgerSpec

(* The ledger's own theorem, read through the refinement.                  *)
LedgerProofs == INSTANCE ChainLedger_proofs
                  WITH ChainLength <- 2, Rejections <- {"errored"}, verdict <- Verdict

(* The action after this one gets exactly the items this one succeeded on. *)
AdvanceIffSuccess == \A i \in Items : i \in next <=> run[i].state = "succeeded"

(* A batch, a verdict and an advance are one transaction, and nobody else  *)
(* settles a run of the batch: no item is advanced without its delivery,   *)
(* none is delivered and left behind.                                      *)
THEOREM AdvancesExactly == ASSUME Plain PROVE Spec => []AdvanceIffSuccess
<1> USE DEF Ledger!Ranks, Ledger!Runs, Ledger!Final, LedgerProofs!Ranks, LedgerProofs!Runs,
            LedgerProofs!Final
<1>1. LedgerProofs!LedgerSpec => []LedgerProofs!ChainConsistent
  BY LedgerProofs!LedgerChains DEF LedgerProofs!ChainAssumption
<1>2. Ledger!LedgerInit => LedgerProofs!LedgerInit
  BY DEF Ledger!LedgerInit, LedgerProofs!LedgerInit
<1>3. [Ledger!LedgerNext]_Verdict => [LedgerProofs!LedgerNext]_Verdict
  BY DEF Ledger!LedgerNext, LedgerProofs!LedgerNext, Ledger!Offer, LedgerProofs!Offer,
         Ledger!Settle, LedgerProofs!Settle, Ledger!Opens, LedgerProofs!Opens,
         Ledger!Successor, LedgerProofs!Successor
<1>4. Sound /\ LedgerProofs!ChainConsistent => AdvanceIffSuccess
  <2> SUFFICES ASSUME Sound, LedgerProofs!ChainConsistent, NEW i \in Items
               PROVE  i \in next <=> run[i].state = "succeeded"
    BY DEF AdvanceIffSuccess
  <2>1. Verdict[<<2, i>>] # "absent" <=> Verdict[<<1, i>>] = "succeeded"
    <3>1. <<1, i>> \in LedgerProofs!Runs /\ LedgerProofs!Successor(<<1, i>>) = <<2, i>>
      BY DEF LedgerProofs!Successor
    <3> QED
      BY <3>1 DEF LedgerProofs!ChainConsistent
  <2>2. Verdict[<<2, i>>] = Reached(next, i) /\ Verdict[<<1, i>>] = Seen(run[i])
    BY VerdictSeen
  <2>3. Seen(run[i]) = "succeeded" <=> run[i].state = "succeeded"
    BY DEF Seen, IsFinal, Absent, Terminal
  <2> QED
    BY <2>1, <2>2, <2>3 DEF Reached
<1> QED
  BY <1>1, <1>2, <1>3, <1>4, DigestImplementsLedger, CalmAlways, PTL
     DEF ImplementsLedger, Ledger!LedgerSpec, LedgerProofs!LedgerSpec

-----------------------------------------------------------------------------
(* Deliveries are counted against successes and crashes.                   *)
Delivered(i) ==
  \/ run[i].state = "succeeded"
  \/ flush.phase = "emitted" /\ flush.outcome = "succeeded" /\ i \in flush.batch
SentCounts == \A i \in Items : sent[i] <= stops \/ (sent[i] <= stops + 1 /\ Delivered(i))

LEMMA SentNext ==
  ASSUME Plain, Sound, Calm, BatchPending, SentCounts, [Next]_vars
  PROVE  SentCounts'
<1> SUFFICES ASSUME NEW i \in Items PROVE sent'[i] <= stops' \/ (sent'[i] <= stops' + 1 /\ Delivered(i)')
  BY DEF SentCounts
<1>1. /\ sent[i] <= stops \/ (sent[i] <= stops + 1 /\ Delivered(i))
      /\ sent[i] \in Nat /\ stops \in Nat
  BY DEF SentCounts, Sound, TypeOK
<1>2. stops' = stops \/ stops' = stops + 1
  BY PlainSteps DEF PlainStep, TriggerStep, TriggerStarts, TriggerOpens, TriggerInserts, TriggerAdvancesWatermark,
     AdvanceReads, AdvanceCommits, AdvanceRollsBack, FlushStep, FlushPicks, FlushGathers, FlushDropsGone, FlushEmits, FlushCompletes, FlushFails, FlushCloses, DrainStep, DrainOpensCursor,
     DrainClaims, DrainCompletes, DrainReaps, IntervalElapses, Crash, vars
<1>3. CASE FlushCompletes
  <2>1. run[i].state = "succeeded" => run'[i].state = "succeeded"
    BY RowRules DEF IsFinal, Terminal
  <2>2. Delivered(i) => Delivered(i)'
    BY <1>3, <2>1, FlushVerdict, RowRules DEF Delivered, IsFinal, Terminal
  <2> QED
    BY <1>1, <1>3, <2>2 DEF FlushCompletes
<1>4. CASE FlushEmits
  <2>1. PICK o \in Terminal \cup {"failed"} :
          /\ flush' = [flush EXCEPT !.phase = "emitted", !.outcome = o]
          /\ sent' = [x \in Items |-> IF o = "succeeded" /\ x \in flush.batch THEN sent[x] + 1 ELSE sent[x]]
    BY <1>4 DEF FlushEmits
  <2>2. stops' = stops /\ run' = run /\ flush \in Flushes /\ flush.phase = "batch"
    BY <1>4 DEF FlushEmits, Sound, TypeOK, Flushes
  <2>3. CASE o = "succeeded" /\ i \in flush.batch
    <3>1. Delivered(i)'
      BY <2>1, <2>2, <2>3 DEF Delivered, Flushes
    <3>2. ~Delivered(i)
      BY <2>2, <2>3 DEF Delivered, BatchPending, PendingItems
    <3> QED
      BY <1>1, <2>1, <2>2, <2>3, <3>1, <3>2
  <2>4. CASE ~(o = "succeeded" /\ i \in flush.batch)
    <3>1. Delivered(i) => Delivered(i)'
      BY <2>2 DEF Delivered
    <3> QED
      BY <1>1, <2>1, <2>2, <2>4, <3>1
  <2> QED
    BY <2>3, <2>4
<1>5. ASSUME NEW j \in drain.held, NEW o \in Terminal \cup {"failed"}, DrainCompletes(j, o)
      PROVE  sent'[i] <= stops' \/ (sent'[i] <= stops' + 1 /\ Delivered(i)')
  <2>1. stops' = stops /\ flush' = flush
    BY <1>5 DEF DrainCompletes
  <2>2. mode = "instant" /\ flush = NoFlush
    BY <1>5, DrainOnlyInstant DEF DrainStep, Calm
  <2>3. CASE o = "succeeded" /\ i = j
    <3>1. ~Delivered(i)
      BY <1>5, <2>2, <2>3, DrainVerdict DEF Delivered, NoFlush
    <3>2. Delivered(i)' /\ sent'[i] = sent[i] + 1
      BY <1>5, <2>3, DrainVerdict DEF Delivered
    <3> QED
      BY <1>1, <2>1, <3>1, <3>2
  <2>4. CASE ~(o = "succeeded" /\ i = j)
    <3>1. sent'[i] = sent[i]
      BY <1>5, <2>4, DrainVerdict
    <3>2. Delivered(i) => Delivered(i)'
      BY <2>1, <2>2, RowRules DEF Delivered, NoFlush, IsFinal, Terminal
    <3> QED
      BY <1>1, <2>1, <3>1, <3>2
  <2> QED
    BY <2>3, <2>4
<1>6. CASE /\ ~FlushCompletes /\ ~FlushEmits
           /\ ~\E j \in drain.held, o \in Terminal \cup {"failed"} : DrainCompletes(j, o)
  <2>1. sent' = sent
    BY <1>6, HistorySteps
  <2>2. CASE Crash
    <3>1. stops' = stops + 1
      BY <2>2 DEF Crash
    <3> QED
      BY <1>1, <2>1, <3>1
  <2>3. CASE ~Crash
    <3>1. Delivered(i) => Delivered(i)'
      <4>1. run[i].state = "succeeded" => run'[i].state = "succeeded"
        BY RowRules DEF IsFinal, Terminal
      <4>2. flush.phase = "emitted" /\ flush.outcome = "succeeded" => flush' = flush
        BY <1>6, <2>3, PlainSteps DEF PlainStep, TriggerStep, TriggerStarts, TriggerOpens, TriggerInserts,
           TriggerAdvancesWatermark, AdvanceReads, AdvanceCommits, AdvanceRollsBack, FlushStep,
           FlushPicks, FlushGathers, FlushDropsGone, FlushFails, FlushCloses, DrainStep, DrainOpensCursor,
           DrainClaims, DrainReaps, IntervalElapses, vars
      <4> QED
        BY <4>1, <4>2 DEF Delivered
    <3> QED
      BY <1>1, <1>2, <2>1, <3>1
  <2> QED
    BY <2>2, <2>3
<1> QED
  BY <1>3, <1>4, <1>5, <1>6

(* A delivery repeats only after a crash between the emit and its commit:  *)
(* each crash costs at most one more delivery of an item.                  *)
THEOREM DeliveredWithCrashes == ASSUME Plain PROVE Spec => []DeliveredOnce
<1>1. Init => BatchPending /\ SentCounts
  BY BatchInit DEF Init, SentCounts
<1>2. Sound /\ SentCounts => DeliveredOnce
  BY DEF Sound, TypeOK, SentCounts, DeliveredOnce
<1> QED
  BY <1>1, <1>2, BatchNext, SentNext, CalmAlways, PTL DEF Spec
=============================================================================
