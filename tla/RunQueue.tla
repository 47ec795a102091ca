------------------------------ MODULE RunQueue ------------------------------
(***************************************************************************)
(* The watch-action run queue: rows of WatchActionRun, the drain passes of *)
(* `process_due_runs` that claim, judge and complete them, the reaper that *)
(* recovers a crashed worker's rows, and the chain advance.                *)
(*                                                                         *)
(* A row is one (chain rank, feed item).  A drain is one process; its      *)
(* slots are the runs it has claimed and not finished (one in a serial     *)
(* pass, up to Concurrency in a thread-pool pass).                         *)
(*                                                                         *)
(* Time is relative: `age` counts ticks since a row's started_at stamp or  *)
(* since a pass's `now`, saturating at Stale.  The chain is fixed and has  *)
(* no digest action (module DigestWindow).                                 *)
(***************************************************************************)
EXTENDS Chain, FiniteSets

CONSTANTS
  Outbound,      \* ranks whose action makes an outbound HTTP call
  Drains,        \* processes that may run process_due_runs
  Concurrency,   \* runs one pass judges at once
  SingleFlight,  \* TRUE: the command holds job_lock; FALSE: a plain BaseCommand
  MaxAttempts,   \* WATCH_RUN_MAX_ATTEMPTS
  Stale,         \* WATCH_RUN_STALE_SECONDS, in ticks
  MaxCall,       \* longest judge or delivery call, in ticks
  MaxGap,        \* longest pause between the claim's two statements, in ticks
  MaxStops,      \* bound: crashes plus SIGTERMs in a behaviour
  NoDrain        \* the job lock is free

ASSUME QueueAssumption ==
  /\ Outbound \subseteq Ranks
  /\ Concurrency \in Nat \ {0}
  /\ SingleFlight \in BOOLEAN
  /\ MaxAttempts \in Nat \ {0}
  /\ Stale \in Nat \ {0}
  /\ MaxCall \in Nat
  /\ MaxCall < Stale
  /\ MaxGap \in 0 .. MaxCall
  /\ MaxStops \in Nat
  /\ NoDrain \notin Drains

VARIABLES
  row,         \* the WatchActionRun table
  drain,       \* the drain processes
  lock,        \* holder of job_lock("watches.process_due_runs")
  posts,       \* history: outbound calls really made for a run
  deliveries,  \* WatchActionDelivery rows recorded for a run
  stops        \* crashes and SIGTERMs so far

vars == <<row, drain, lock, posts, deliveries, stops>>

Terminal  == {"succeeded"} \cup Rejections
Claimable == {"pending", "failed"}
Outcomes  == Terminal \cup {"failed"}

Row == [state : {"absent", "running"} \cup Claimable \cup Terminal,
        attempts : 0 .. MaxAttempts,
        age : 0 .. Stale,
        completed : BOOLEAN]

Slot == [run : Runs,
         claim : 1 .. MaxAttempts,      \* attempts as this claim's CAS left it
         att : 0 .. MaxAttempts,        \* attempts as refresh_from_db read it
         stage : {"claimed", "ready", "unrecorded", "decided"},
         outcome : Outcomes \cup {"none"},
         age : 0 .. MaxCall]

Drain == [phase : {"idle", "opening", "pass", "exiting"},
          age : 0 .. Stale,
          cursor : SUBSET (Runs \X Claimable),
          slots : SUBSET Slot]

TypeOK ==
  /\ row \in [Runs -> Row]
  /\ drain \in [Drains -> Drain]
  /\ lock \in Drains \cup {NoDrain}
  /\ posts \in [Runs -> Nat]
  /\ deliveries \in [Runs -> Nat]
  /\ stops \in 0 .. MaxStops

Absent  == [state |-> "absent",  attempts |-> 0, age |-> 0, completed |-> FALSE]
Pending == [state |-> "pending", attempts |-> 0, age |-> 0, completed |-> FALSE]
Idle    == [phase |-> "idle", age |-> 0, cursor |-> {}, slots |-> {}]

Init ==
  /\ row = [r \in Runs |-> Absent]
  /\ drain = [d \in Drains |-> Idle]
  /\ lock = NoDrain
  /\ posts = [r \in Runs |-> 0]
  /\ deliveries = [r \in Runs |-> 0]
  /\ stops = 0

-----------------------------------------------------------------------------
(* completion_ts: completed_at is set exactly when the row rests for good. *)
IsFinal(state, attempts) ==
  state \in Terminal \/ (state = "failed" /\ attempts >= MaxAttempts)

(* enqueue_many: the trigger's idempotent insert of the chain head's run.  *)
Enqueue(i) ==
  /\ row[<<1, i>>] = Absent
  /\ row' = [row EXCEPT ![<<1, i>>] = Pending]
  /\ UNCHANGED <<drain, lock, posts, deliveries, stops>>

(* reap_stale: both bulk updates, split on the attempts cap.               *)
IsStale(r) == row[r].state = "running" /\ row[r].age >= Stale

(* Mutant: an exhausted timeout is not stamped completed.                  *)
ReapedOpen(r) == [row[r] EXCEPT !.state = "failed", !.age = 0, !.completed = FALSE]

Reaped(r) == [row[r] EXCEPT !.state = "failed", !.age = 0,
                            !.completed = row[r].attempts >= MaxAttempts]

(* Mutant: the command takes no lock.                                      *)
MayStartUnlocked(d) == TRUE

(* job_lock: a single-flight command needs the lock free.                  *)
MayStart(d) == SingleFlight => lock = NoDrain

(* A pass begins: job_lock, `now`, then the reap at that `now`.  A process *)
(* that finds the lock taken skips its pass.                               *)
StartPass(d) ==
  /\ drain[d].phase = "idle"
  /\ MayStart(d)
  /\ lock' = IF SingleFlight THEN d ELSE lock
  /\ row' = [r \in Runs |-> IF IsStale(r) THEN Reaped(r) ELSE row[r]]
  /\ drain' = [drain EXCEPT ![d] = [Idle EXCEPT !.phase = "opening"]]
  /\ UNCHANGED <<posts, deliveries, stops>>

(* Mutant: only runs never tried are due.                                  *)
IsDueOnce(r) == row[r].state = "pending"

(* _due_runs: claimable and under the cap, as the cursor's snapshot has it.*)
IsDue(r) == row[r].state \in Claimable /\ row[r].attempts < MaxAttempts

OpenCursor(d) ==
  /\ drain[d].phase = "opening"
  /\ drain' = [drain EXCEPT ![d].phase = "pass",
                            ![d].cursor = {<<r, row[r].state>> : r \in {q \in Runs : IsDue(q)}}]
  /\ UNCHANGED <<row, lock, posts, deliveries, stops>>

(* fill: claims are serial, and one is made only while a slot is free.     *)
MayClaim(d) ==
  /\ drain[d].phase = "pass"
  /\ Cardinality(drain[d].slots) < Concurrency
  /\ \A s \in drain[d].slots : s.stage # "claimed"

(* Mutant: the CAS re-checks the state but not the cap.                    *)
ClaimWinsUncapped(c) == row[c[1]].state = c[2]

(* Mutant: the CAS re-checks the cap but not the state.                    *)
ClaimWinsStale(c) == row[c[1]].attempts < MaxAttempts

(* claim_due's CAS on the state the snapshot saw, and on the cap.          *)
ClaimWins(c) == row[c[1]].state = c[2] /\ row[c[1]].attempts < MaxAttempts

(* Mutant: the claim burns no attempt.                                     *)
ClaimedFree(d, r) == [row[r] EXCEPT !.state = "running", !.age = drain[d].age]

(* started_at is the pass's `now`, so the row inherits the pass's age.     *)
Claimed(d, r) == [row[r] EXCEPT !.state = "running",
                                !.age = drain[d].age,
                                !.attempts = @ + 1]

NewSlot(r) == [run |-> r, claim |-> row[r].attempts + 1, att |-> 0,
               stage |-> "claimed", outcome |-> "none", age |-> 0]

ClaimDue(d, c) ==
  /\ MayClaim(d)
  /\ c \in drain[d].cursor
  /\ row' = IF ClaimWins(c) THEN [row EXCEPT ![c[1]] = Claimed(d, c[1])] ELSE row
  /\ drain' = [drain EXCEPT ![d].cursor = @ \ {c},
                            ![d].slots = IF ClaimWins(c) THEN @ \cup {NewSlot(c[1])} ELSE @]
  /\ UNCHANGED <<lock, posts, deliveries, stops>>

Replace(d, s, t) == [drain EXCEPT ![d].slots = (@ \ {s}) \cup {t}]
Drop(d, s)       == [drain EXCEPT ![d].slots = @ \ {s}]

(* claim_due's refresh_from_db: a second statement, so it may read what a  *)
(* later claim wrote.                                                      *)
RefreshFromDb(d, s) ==
  /\ s \in drain[d].slots
  /\ s.stage = "claimed"
  /\ drain' = Replace(d, s, [s EXCEPT !.stage = "ready", !.att = row[s.run].attempts])
  /\ UNCHANGED <<row, lock, posts, deliveries, stops>>

(* Mutant: no delivery row is written.                                     *)
JudgedUnrecorded(outbound) == "decided"

(* Only a returned OutboundActionResult has a delivery row to write.       *)
Judged(outbound) == IF outbound THEN "unrecorded" ELSE "decided"

(* _resolve: the action's executor returns any outcome, and of an outbound *)
(* action an OutboundActionResult (`outbound`).  A success has made its    *)
(* call; a call that raised comes back as a plain FAILED; a blocked        *)
(* destination is ERRORED with an OutboundActionResult and no call.        *)
Resolve(d, s) ==
  /\ s \in drain[d].slots
  /\ s.stage = "ready"
  /\ \E o \in Outcomes, called \in BOOLEAN, outbound \in BOOLEAN :
       /\ called \/ outbound => s.run[1] \in Outbound
       /\ (o = "succeeded" /\ s.run[1] \in Outbound) => called
       /\ called /\ ~outbound => o = "failed"
       /\ outbound /\ ~called => o = "errored"
       /\ posts' = IF called THEN [posts EXCEPT ![s.run] = @ + 1] ELSE posts
       /\ drain' = Replace(d, s, [s EXCEPT !.stage = Judged(outbound), !.outcome = o])
  /\ UNCHANGED <<row, lock, deliveries, stops>>

(* The delivery row, in a commit of its own before the completion CAS.     *)
RecordDelivery(d, s) ==
  /\ s \in drain[d].slots
  /\ s.stage = "unrecorded"
  /\ deliveries' = [deliveries EXCEPT ![s.run] = @ + 1]
  /\ drain' = Replace(d, s, [s EXCEPT !.stage = "decided"])
  /\ UNCHANGED <<row, lock, posts, stops>>

(* Mutant: a blind save in place of the CAS.                               *)
BlindSave(s) == TRUE

(* complete + enqueue_next in one transaction: the CAS on this claim's     *)
(* (state, attempts); only the winner of it advances the chain.            *)
HoldsClaim(s) == row[s.run].state = "running" /\ row[s.run].attempts = s.att

Completed(s) == [row[s.run] EXCEPT !.state = s.outcome, !.age = 0,
                                   !.completed = IsFinal(s.outcome, s.att)]

(* enqueue_next: the next position of the chain, unless it has a run.      *)
Advances(s, r) == s.outcome = "succeeded" /\ r = Successor(s.run) /\ row[r] = Absent

Complete(d, s) ==
  /\ s \in drain[d].slots
  /\ s.stage = "decided"
  /\ row' = IF HoldsClaim(s)
            THEN [r \in Runs |->
                    IF r = s.run THEN Completed(s)
                    ELSE IF Advances(s, r) THEN Pending
                    ELSE row[r]]
            ELSE row
  /\ drain' = Drop(d, s)
  /\ UNCHANGED <<lock, posts, deliveries, stops>>

(* _safe_drain: an unexpected error is swallowed and the row stays RUNNING.*)
DrainRaises(d, s) ==
  /\ s \in drain[d].slots
  /\ s.stage # "claimed"
  /\ drain' = Drop(d, s)
  /\ UNCHANGED <<row, lock, posts, deliveries, stops>>

Released(d) == IF lock = d THEN NoDrain ELSE lock

(* The pass ran out of candidates and of slots; the lock is released.      *)
EndPass(d) ==
  /\ drain[d].phase \in {"pass", "exiting"}
  /\ drain[d].cursor = {}
  /\ drain[d].slots = {}
  /\ drain' = [drain EXCEPT ![d] = Idle]
  /\ lock' = Released(d)
  /\ UNCHANGED <<row, posts, deliveries, stops>>

(* SIGTERM (or a raise out of the claim loop) unwinds the main thread and  *)
(* releases the lock.  A serial pass dies inside its judge; a pool's       *)
(* judges that already run are joined at interpreter exit and still        *)
(* complete their rows.                                                    *)
Unwound(d) == [drain[d] EXCEPT !.phase = "exiting", !.cursor = {},
                               !.slots = {s \in @ : s.stage # "claimed"}]

Sigterm(d) ==
  /\ stops < MaxStops
  /\ drain[d].phase \in {"opening", "pass"}
  /\ drain' = [drain EXCEPT ![d] = IF Concurrency = 1 THEN Idle ELSE Unwound(d)]
  /\ lock' = Released(d)
  /\ stops' = stops + 1
  /\ UNCHANGED <<row, posts, deliveries>>

(* SIGKILL or power loss: everything in memory is gone, the lock is not.   *)
Crash(d) ==
  /\ stops < MaxStops
  /\ drain[d].phase # "idle"
  /\ drain' = [drain EXCEPT ![d] = Idle]
  /\ stops' = stops + 1
  /\ UNCHANGED <<row, lock, posts, deliveries>>

(* Mutant: the lock's TTL is shorter than a pass.                          *)
LockExpired == lock # NoDrain

(* clear_job_locks, or the lock's day-long TTL, after its holder died.     *)
LockOrphaned == lock # NoDrain /\ drain[lock].phase = "idle"

ClearJobLock ==
  /\ LockOrphaned
  /\ lock' = NoDrain
  /\ UNCHANGED <<row, drain, posts, deliveries, stops>>

(* Time passes, but a call in progress never outlasts its own timeouts.    *)
Patience(s) == IF s.stage = "claimed" THEN MaxGap ELSE MaxCall

Older(age, bound) == IF age < bound THEN age + 1 ELSE age

Tick ==
  /\ \A d \in Drains : \A s \in drain[d].slots : s.age < Patience(s)
  /\ row' = [r \in Runs |-> IF row[r].state = "running"
                            THEN [row[r] EXCEPT !.age = Older(@, Stale)]
                            ELSE row[r]]
  /\ drain' = [d \in Drains |->
                 IF drain[d].phase = "idle" THEN drain[d]
                 ELSE [drain[d] EXCEPT !.age = Older(@, Stale),
                                       !.slots = {[s EXCEPT !.age = @ + 1] : s \in @}]]
  /\ UNCHANGED <<lock, posts, deliveries, stops>>

WorkSlot(d, s) ==
  RefreshFromDb(d, s) \/ Resolve(d, s) \/ RecordDelivery(d, s) \/ Complete(d, s)

RunPass(d) ==
  \/ OpenCursor(d)
  \/ \E c \in drain[d].cursor : ClaimDue(d, c)
  \/ \E s \in drain[d].slots : WorkSlot(d, s)
  \/ EndPass(d)

Next ==
  \/ \E i \in Items : Enqueue(i)
  \/ \E d \in Drains : StartPass(d)
  \/ \E d \in Drains : RunPass(d)
  \/ \E d \in Drains : \E s \in drain[d].slots : DrainRaises(d, s)
  \/ \E d \in Drains : Sigterm(d)
  \/ \E d \in Drains : Crash(d)
  \/ ClearJobLock
  \/ Tick

Spec == Init /\ [][Next]_vars

(* The scheduler keeps starting passes, a live pass keeps working, an      *)
(* orphaned lock is eventually cleared and time passes.                    *)
Fairness ==
  /\ WF_vars(\E d \in Drains : StartPass(d))
  /\ \A d \in Drains : WF_vars(RunPass(d))
  /\ WF_vars(ClearJobLock)
  /\ WF_vars(Tick)

FairSpec == Spec /\ Fairness
-----------------------------------------------------------------------------
(* What the queue promises, as the abstract ledger states it.              *)
Verdict == [r \in Runs |->
              CASE row[r].state = "absent" -> "absent"
                [] IsFinal(row[r].state, row[r].attempts) -> row[r].state
                [] OTHER -> "open"]

Ledger == INSTANCE ChainLedger WITH verdict <- Verdict

(* Every step of claims, reaps, retries, crashes and stale completions is  *)
(* an offer, one settlement with its advance, a sweep of exhausted runs,   *)
(* or nothing: a settled run never changes, and one item never gets two    *)
(* verdicts at one position (complete's "never double-enqueues").          *)
ImplementsLedger == Ledger!LedgerSpec

(* drain.py: "a SUCCEEDED run and its successor commit together, no        *)
(* silently stalled chain"; and nothing is enqueued without a success.     *)
NoStalledChain == Ledger!ChainConsistent

(* completed_at "means exactly: reached a terminal state", whichever of    *)
(* complete, the reaper and the claim wrote the row last.                  *)
CompletedMeansFinal ==
  \A r \in Runs : row[r].completed <=> IsFinal(row[r].state, row[r].attempts)

(* A burned attempt makes at most one call and leaves at most one delivery *)
(* row, so a run has at most MaxAttempts of each, however passes overlap,  *)
(* stop and reap each other.                                               *)
PostsWithinAttempts ==
  \A r \in Runs : posts[r] <= row[r].attempts /\ deliveries[r] <= row[r].attempts

(* An outbound success never stands without the audit row of its call.     *)
AuditBeforeVerdict ==
  \A r \in Runs : r[1] \in Outbound /\ row[r].state = "succeeded" => deliveries[r] >= 1

(* settings: "A slow-but-alive run is never false-reaped": while a live    *)
(* process works on a run, the row is still RUNNING under its claim.       *)
NoFalseReap ==
  \A d \in Drains : \A s \in drain[d].slots : s.stage # "claimed" => HoldsClaim(s)

(* complete: "the FRESH claim wins and the stale one loses": the attempts  *)
(* a worker fences its completion with are those its own claim stamped.    *)
FenceIsOwn ==
  \A d \in Drains : \A s \in drain[d].slots : s.stage # "claimed" => s.att = s.claim

(* Every run that was ever enqueued comes to rest.                         *)
RunsSettle ==
  \A r \in Runs : row[r].state # "absent" ~> IsFinal(row[r].state, row[r].attempts)
=============================================================================
