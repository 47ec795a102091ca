---------------------------- MODULE DigestWindow ----------------------------
(***************************************************************************)
(* One delivery action and its digest window: arrivals that open the       *)
(* window and join its batch, the flush that emits the batch in slices and *)
(* closes the window, the drain that must leave a windowed action alone,   *)
(* and edits that switch the action between digest and instant.            *)
(*                                                                         *)
(* Arrivals come from the success of the action before (HeadFed FALSE: one *)
(* transaction opens the window and inserts the run) or, when the action   *)
(* heads its chain, from the trigger (HeadFed TRUE: the window is opened   *)
(* in a transaction of its own, the runs are inserted after it).           *)
(*                                                                         *)
(* The window row is "absent", "closed" (close_at null), "open" (close_at  *)
(* ahead) or "due" (close_at elapsed).                                     *)
(***************************************************************************)
EXTENDS Naturals, FiniteSets

CONSTANTS
  Items,        \* feed items that reach the action
  HeadFed,      \* TRUE: fed by the trigger; FALSE: by the previous action
  MaxAttempts,  \* WATCH_RUN_MAX_ATTEMPTS
  BatchCap,     \* DIGEST_MAX_BATCH_ITEMS
  Backfilled,   \* items in the window of a backfill of the action
  MaxEdits,     \* bound: config edits in a behaviour
  MaxStops      \* bound: crashes in a behaviour

ASSUME WindowAssumption ==
  /\ HeadFed \in BOOLEAN
  /\ MaxAttempts \in Nat \ {0}
  /\ BatchCap \in Nat \ {0}
  /\ MaxEdits \in Nat
  /\ MaxStops \in Nat
  /\ Backfilled \subseteq Items
  /\ IsFiniteSet(Items)

VARIABLES
  mode,     \* the action's stored config
  window,   \* its WatchActionDigestWindow row
  run,      \* its WatchActionRun rows
  next,     \* items enqueued for the action after it
  feed,     \* how far each item's arrival has come
  trigger,  \* the trigger pass over this watch
  flush,    \* the process_due_digests pass
  drain,    \* the process_due_runs pass, as far as it meets this action
  sent,     \* history: successful deliveries of an item
  edits, stops

vars == <<mode, window, run, next, feed, trigger, flush, drain, sent, edits, stops>>

Modes     == {"digest", "instant"}
Terminal  == {"succeeded", "errored"}
Claimable == {"pending", "failed"}

Run == [state : {"absent", "running"} \cup Claimable \cup Terminal,
        attempts : 0 .. MaxAttempts,
        completed : BOOLEAN]

TypeOK ==
  /\ mode \in Modes
  /\ window \in {"absent", "closed", "open", "due"}
  /\ run \in [Items -> Run]
  /\ next \subseteq Items
  /\ feed \in [Items -> {"waiting", "done"} \cup Modes]
  /\ trigger \in [phase : {"idle", "started", "opened"}, mode : Modes, todo : SUBSET Items]
  /\ flush \in [phase : {"idle", "slice", "batch", "emitted", "closing"},
                batch : SUBSET Items,
                outcome : Terminal \cup {"failed", "none"}]
  /\ drain \in [cursor : SUBSET (Items \X Claimable), held : SUBSET Items]
  /\ sent \in [Items -> Nat]
  /\ edits \in 0 .. MaxEdits
  /\ stops \in 0 .. MaxStops

Absent  == [state |-> "absent",  attempts |-> 0, completed |-> FALSE]
Pending == [state |-> "pending", attempts |-> 0, completed |-> FALSE]

NoTrigger == [phase |-> "idle", mode |-> "digest", todo |-> {}]
NoFlush   == [phase |-> "idle", batch |-> {}, outcome |-> "none"]
NoDrain   == [cursor |-> {}, held |-> {}]

Init ==
  /\ mode \in Modes
  /\ window = "absent"
  /\ run = [i \in Items |-> Absent]
  /\ next = {}
  /\ feed = [i \in Items |-> "waiting"]
  /\ trigger = NoTrigger
  /\ flush = NoFlush
  /\ drain = NoDrain
  /\ sent = [i \in Items |-> 0]
  /\ edits = 0
  /\ stops = 0

PendingItems == {i \in Items : run[i].state = "pending"}

IsFinal(r) == r.state \in Terminal \/ (r.state = "failed" /\ r.attempts >= MaxAttempts)

(* ignore_conflicts: an item has at most one run of the action.            *)
Inserted(i) == IF run[i] = Absent THEN [run EXCEPT ![i] = Pending] ELSE run

(* open_window: the first arrival sets close_at, later ones join it.       *)
Opened == IF window \in {"absent", "closed"} THEN "open" ELSE window

(* Mutant: the flush closes the window it picked without looking again.    *)
ClosedAlways(pend) == IF window = "absent" THEN window ELSE "closed"

(* close_if_drained, given the pending runs its transaction sees.          *)
ClosedUnless(pend) == IF window = "absent" \/ pend # {} THEN window ELSE "closed"

-----------------------------------------------------------------------------
(* Arrival by advance.  enqueue_next reads the successor's config, ...     *)
AdvanceReads(i) ==
  /\ ~HeadFed
  /\ feed[i] = "waiting"
  /\ feed' = [feed EXCEPT ![i] = mode]
  /\ UNCHANGED <<mode, window, run, next, trigger, flush, drain, sent, edits, stops>>

(* ... then opens the window it read about, inserts and commits.           *)
AdvanceCommits(i) ==
  /\ ~HeadFed
  /\ feed[i] \in Modes
  /\ window' = IF feed[i] = "digest" THEN Opened ELSE window
  /\ run' = Inserted(i)
  /\ feed' = [feed EXCEPT ![i] = "done"]
  /\ UNCHANGED <<mode, next, trigger, flush, drain, sent, edits, stops>>

(* The upstream worker dies inside that transaction: nothing is written    *)
(* and its own retry brings the arrival again.                             *)
AdvanceRollsBack(i) ==
  /\ ~HeadFed
  /\ stops < MaxStops
  /\ feed[i] \in Modes
  /\ feed' = [feed EXCEPT ![i] = "waiting"]
  /\ stops' = stops + 1
  /\ UNCHANGED <<mode, window, run, next, trigger, flush, drain, sent, edits>>

(* Arrival by trigger: the head's config and the window of new items.      *)
TriggerStarts ==
  /\ HeadFed
  /\ trigger.phase = "idle"
  /\ \E new \in SUBSET {i \in Items : feed[i] = "waiting"} :
       /\ new # {}
       /\ trigger' = [phase |-> "started", mode |-> mode, todo |-> new]
  /\ UNCHANGED <<mode, window, run, next, feed, flush, drain, sent, edits, stops>>

TriggerOpens ==
  /\ trigger.phase = "started"
  /\ window' = IF trigger.mode = "digest" THEN Opened ELSE window
  /\ trigger' = [trigger EXCEPT !.phase = "opened"]
  /\ UNCHANGED <<mode, run, next, feed, flush, drain, sent, edits, stops>>

(* enqueue_many, one chunk after another and each in its own commit.       *)
TriggerInserts(i) ==
  /\ trigger.phase = "opened"
  /\ i \in trigger.todo
  /\ run[i] = Absent
  /\ run' = Inserted(i)
  /\ UNCHANGED <<mode, window, next, feed, trigger, flush, drain, sent, edits, stops>>

TriggerAdvancesWatermark ==
  /\ trigger.phase = "opened"
  /\ \A i \in trigger.todo : run[i] # Absent
  /\ feed' = [i \in Items |-> IF i \in trigger.todo THEN "done" ELSE feed[i]]
  /\ trigger' = NoTrigger
  /\ UNCHANGED <<mode, window, run, next, flush, drain, sent, edits, stops>>

(* A backfill's enqueue_many: it inserts the runs its items do not have,   *)
(* opens no window and moves no watermark.                                 *)
BackfillInserts(i) ==
  /\ i \in Backfilled
  /\ run[i] = Absent
  /\ run' = Inserted(i)
  /\ UNCHANGED <<mode, window, next, feed, trigger, flush, drain, sent, edits, stops>>

-----------------------------------------------------------------------------
(* The flush: iter_due picks a window whose close_at has elapsed.          *)
FlushPicks ==
  /\ flush.phase = "idle"
  /\ window = "due"
  /\ flush' = [flush EXCEPT !.phase = "slice"]
  /\ UNCHANGED <<mode, window, run, next, feed, trigger, drain, sent, edits, stops>>

(* digest_batch: pending runs, least tried first, at most BatchCap.        *)
IsBatch(S) ==
  /\ S \subseteq PendingItems
  /\ \A i \in S, j \in PendingItems \ S : run[i].attempts <= run[j].attempts
  /\ \/ Cardinality(S) = BatchCap
     \/ Cardinality(S) < BatchCap /\ S = PendingItems

FlushGathers ==
  /\ flush.phase = "slice"
  /\ \E S \in SUBSET Items :
       /\ IsBatch(S)
       /\ flush' = [flush EXCEPT !.phase = IF S = {} THEN "closing" ELSE "batch", !.batch = S]
  /\ UNCHANGED <<mode, window, run, next, feed, trigger, drain, sent, edits, stops>>

(* Mutant: the verdict is written whatever state the run is in.            *)
BatchOverwritten(S, o) ==
  [i \in Items |-> IF i \in S THEN [run[i] EXCEPT !.state = o, !.completed = TRUE] ELSE run[i]]

(* Mutant: only runs that never failed a flush are completed.              *)
BatchFirstTry(S, o) ==
  [i \in Items |-> IF i \in S /\ run[i].state = "pending" /\ run[i].attempts = 0
                   THEN [run[i] EXCEPT !.state = o, !.completed = TRUE]
                   ELSE run[i]]

(* complete_batch: guarded on PENDING, whatever the flush believes.        *)
BatchCompleted(S, o) ==
  [i \in Items |-> IF i \in S /\ run[i].state = "pending"
                   THEN [run[i] EXCEPT !.state = o, !.completed = TRUE]
                   ELSE run[i]]

(* Runs whose item is gone, or all of them when the action or its executor *)
(* is: ERRORED in a commit of their own.                                   *)
FlushDropsGone ==
  /\ flush.phase = "batch"
  /\ \E gone \in (SUBSET flush.batch) \ {{}} :
       /\ run' = BatchCompleted(gone, "errored")
       /\ flush' = IF gone = flush.batch
                   THEN [NoFlush EXCEPT !.phase = "closing"]
                   ELSE [flush EXCEPT !.batch = @ \ gone]
  /\ UNCHANGED <<mode, window, next, feed, trigger, drain, sent, edits, stops>>

(* The emit, outside any transaction: a verdict, or FAILED when it is      *)
(* transient or raises.                                                    *)
FlushEmits ==
  /\ flush.phase = "batch"
  /\ \E o \in Terminal \cup {"failed"} :
       /\ flush' = [flush EXCEPT !.phase = "emitted", !.outcome = o]
       /\ sent' = [i \in Items |-> IF o = "succeeded" /\ i \in flush.batch
                                   THEN sent[i] + 1 ELSE sent[i]]
  /\ UNCHANGED <<mode, window, run, next, feed, trigger, drain, edits, stops>>

(* Mutant: the chain advances on any verdict.                              *)
AdvancedAnyway(S, o) == next \cup S

(* enqueue_next_batch: the batch the flush delivered, as it gathered it.    *)
Advanced(S, o) == IF o = "succeeded" THEN next \cup S ELSE next

(* _complete_slice: the verdict, the advance of the whole batch and the    *)
(* close in one transaction; pending runs left over make another slice.    *)
FlushCompletes ==
  LET left == PendingItems \ flush.batch IN
  /\ flush.phase = "emitted"
  /\ flush.outcome \in Terminal
  /\ run' = BatchCompleted(flush.batch, flush.outcome)
  /\ next' = Advanced(flush.batch, flush.outcome)
  /\ window' = ClosedUnless(left)
  /\ flush' = [NoFlush EXCEPT !.phase = IF window = "absent" \/ left = {} THEN "idle" ELSE "slice"]
  /\ UNCHANGED <<mode, feed, trigger, drain, sent, edits, stops>>

(* Mutant: a failed emit burns no attempt.                                 *)
BatchFailedFree(S) == run

(* fail_batch: one attempt burned per pending run, FAILED at the cap.      *)
BatchFailed(S) ==
  [i \in Items |->
     IF i \in S /\ run[i].state = "pending"
     THEN IF run[i].attempts + 1 >= MaxAttempts
          THEN [state |-> "failed", attempts |-> run[i].attempts + 1, completed |-> TRUE]
          ELSE [run[i] EXCEPT !.attempts = @ + 1]
     ELSE run[i]]

FlushFails ==
  /\ flush.phase = "emitted"
  /\ flush.outcome = "failed"
  /\ run' = BatchFailed(flush.batch)
  /\ window' = ClosedUnless({i \in Items : run'[i].state = "pending"})
  /\ flush' = NoFlush
  /\ UNCHANGED <<mode, next, feed, trigger, drain, sent, edits, stops>>

(* _close, when the flush found or left nothing to emit.                   *)
FlushCloses ==
  /\ flush.phase = "closing"
  /\ window' = ClosedUnless(PendingItems)
  /\ flush' = NoFlush
  /\ UNCHANGED <<mode, run, next, feed, trigger, drain, sent, edits, stops>>

-----------------------------------------------------------------------------
(* Mutant: the anti-join sees only elapsed windows.                        *)
HasDueWindow == window = "due"

(* The drain: claim_due's cursor skips an action that has a window row.    *)
HasWindow == window # "absent"

DrainOpensCursor ==
  /\ drain = NoDrain
  /\ ~HasWindow
  /\ drain' = [drain EXCEPT !.cursor =
                 {<<i, run[i].state>> : i \in {j \in Items : run[j].state \in Claimable
                                                             /\ run[j].attempts < MaxAttempts}}]
  /\ drain'.cursor # {}
  /\ UNCHANGED <<mode, window, run, next, feed, trigger, flush, sent, edits, stops>>

(* The claim's CAS looks at the run's state only, not at the window.       *)
DrainClaims(c) ==
  LET i == c[1]
      won == run[i].state = c[2] /\ run[i].attempts < MaxAttempts
  IN /\ drain.held = {}
     /\ c \in drain.cursor
     /\ run' = IF won THEN [run EXCEPT ![i].state = "running", ![i].attempts = @ + 1] ELSE run
     /\ drain' = [cursor |-> drain.cursor \ {c}, held |-> IF won THEN {i} ELSE {}]
     /\ UNCHANGED <<mode, window, next, feed, trigger, flush, sent, edits, stops>>

(* The claimed run is judged and completed; success advances the chain.    *)
DrainCompletes(i, o) ==
  /\ i \in drain.held
  /\ run' = [run EXCEPT ![i].state = o,
                        ![i].completed = o \in Terminal \/ run[i].attempts >= MaxAttempts]
  /\ next' = Advanced({i}, o)
  /\ sent' = IF o = "succeeded" THEN [sent EXCEPT ![i] = @ + 1] ELSE sent
  /\ drain' = [drain EXCEPT !.held = {}]
  /\ UNCHANGED <<mode, window, feed, trigger, flush, edits, stops>>

(* reap_stale, before the pass opens its cursor: a row whose worker died.  *)
DrainReaps(i) ==
  /\ drain = NoDrain
  /\ run[i].state = "running"
  /\ run' = [run EXCEPT ![i].state = "failed", ![i].completed = run[i].attempts >= MaxAttempts]
  /\ UNCHANGED <<mode, window, next, feed, trigger, flush, drain, sent, edits, stops>>

-----------------------------------------------------------------------------
(* set_config: the config and the window cleanup in one transaction.       *)
SetConfig(m) ==
  /\ edits < MaxEdits
  /\ mode' = m
  /\ window' = IF m = "instant" THEN "absent" ELSE window
  /\ edits' = edits + 1
  /\ UNCHANGED <<run, next, feed, trigger, flush, drain, sent, stops>>

(* close_at elapses.                                                       *)
IntervalElapses ==
  /\ window = "open"
  /\ window' = "due"
  /\ UNCHANGED <<mode, run, next, feed, trigger, flush, drain, sent, edits, stops>>

(* A crash of the flush, the drain or the trigger loses what it held.      *)
Crash ==
  /\ stops < MaxStops
  /\ stops' = stops + 1
  /\ \/ flush # NoFlush /\ flush' = NoFlush /\ UNCHANGED <<drain, trigger>>
     \/ drain # NoDrain /\ drain' = NoDrain /\ UNCHANGED <<flush, trigger>>
     \/ trigger # NoTrigger /\ trigger' = NoTrigger /\ UNCHANGED <<flush, drain>>
  /\ UNCHANGED <<mode, window, run, next, feed, sent, edits>>

TriggerStep ==
  \/ TriggerStarts
  \/ TriggerOpens
  \/ \E i \in Items : TriggerInserts(i)
  \/ TriggerAdvancesWatermark

FlushStep ==
  \/ FlushPicks
  \/ FlushGathers
  \/ FlushDropsGone
  \/ FlushEmits
  \/ FlushCompletes
  \/ FlushFails
  \/ FlushCloses

DrainStep ==
  \/ DrainOpensCursor
  \/ \E c \in drain.cursor : DrainClaims(c)
  \/ \E i \in drain.held, o \in Terminal \cup {"failed"} : DrainCompletes(i, o)
  \/ \E i \in Items : DrainReaps(i)

Next ==
  \/ \E i \in Items : AdvanceReads(i)
  \/ \E i \in Items : AdvanceCommits(i)
  \/ \E i \in Items : AdvanceRollsBack(i)
  \/ \E i \in Items : BackfillInserts(i)
  \/ TriggerStep
  \/ FlushStep
  \/ DrainStep
  \/ \E m \in Modes : SetConfig(m)
  \/ IntervalElapses
  \/ Crash

Spec == Init /\ [][Next]_vars

(* The scheduler runs the three jobs again and again and time passes; an   *)
(* arrival's transaction ends.                                             *)
Fairness ==
  /\ WF_vars(TriggerStep)
  /\ WF_vars(FlushStep)
  /\ WF_vars(DrainStep)
  /\ WF_vars(IntervalElapses)
  /\ \A i \in Items : WF_vars(AdvanceCommits(i))

FairSpec == Spec /\ Fairness

-----------------------------------------------------------------------------
(* close_if_drained: "Either way: no orphan".  A pending run of an action  *)
(* whose window row is closed is in nobody's worklist: the drain skips     *)
(* windowed actions and the flush skips closed windows.                    *)
NoOrphan == window = "closed" => PendingItems = {}

(* digest_flush.py: "the drain never touches digest runs".                 *)
DrainStaysOut == \A i \in Items : mode = "digest" => run[i].state # "running"

(* How the ledger sees an item: its run of this action, and whether the    *)
(* action after it has been reached.                                       *)
Verdict ==
  [r \in (1 .. 2) \X Items |->
     IF r[1] = 2 THEN IF r[2] \in next THEN "open" ELSE "absent"
     ELSE IF run[r[2]] = Absent THEN "absent"
     ELSE IF IsFinal(run[r[2]]) THEN run[r[2]].state ELSE "open"]

Ledger == INSTANCE ChainLedger
            WITH ChainLength <- 2, Rejections <- {"errored"}, verdict <- Verdict

(* The digest keeps the ledger that the run queue keeps: a run is offered  *)
(* once, a batch is settled with one verdict that stands, and the next     *)
(* action gets the items of a success, all of them in the same commit, and *)
(* no others; slices, failed emits, crashes and late arrivals do not show. *)
ImplementsLedger == Ledger!LedgerSpec

(* Delivery repeats only after a crash between the emit and its commit.    *)
DeliveredOnce == \A i \in Items : sent[i] <= 1 + stops

(* completed_at is set exactly on rows at rest, by drain and flush alike.  *)
CompletedMeansFinal == \A i \in Items : run[i].completed <=> IsFinal(run[i])

(* complete_batch and the claim's CAS never reopen a settled run, even     *)
(* when a stale cursor and a stale batch both hold it.                     *)
VerdictsStand == [][\A i \in Items : IsFinal(run[i]) => run'[i] = run[i]]_vars

(* An item that arrived is eventually delivered, rejected or given up.     *)
ArrivalsSettle == \A i \in Items : feed[i] = "done" ~> IsFinal(run[i])
=============================================================================
