------------------------------ MODULE Backfill ------------------------------
(***************************************************************************)
(* One backfill job over a chain that the drain keeps working on: the job  *)
(* is requested, claimed by a pass of process_due_backfills, and its       *)
(* worker deletes the stale runs from the target down (`replace`), stamps  *)
(* the delete-once marker, enqueues the target's runs and finishes.        *)
(*                                                                         *)
(* The runs are the ledger's: a run is "absent", "open" (whatever the      *)
(* drain is doing with it) or has its verdict; RunQueue implements that    *)
(* ledger.  Items are numbers in the order of their ids, because the       *)
(* enqueue pages through them by id.  The job's window holds every item.   *)
(***************************************************************************)
EXTENDS ChainLedger, FiniteSets

CONSTANTS
  Target,       \* rank of the action to run again
  Workers,      \* processes that may run process_due_backfills
  SingleFlight, \* TRUE: the command holds its job lock
  MaxAttempts   \* WATCH_BACKFILL_MAX_ATTEMPTS

ASSUME BackfillAssumption ==
  /\ Items \subseteq Nat \ {0}
  /\ IsFiniteSet(Items)
  /\ Target \in Ranks
  /\ SingleFlight \in BOOLEAN
  /\ MaxAttempts \in Nat \ {0}

VARIABLES
  job,     \* the WatchActionBackfill row
  worker,  \* the passes that may hold it
  gone,    \* feed items that were pruned
  wanted,  \* history: the source items when the job was requested
  fresh    \* history: runs created since the job's marker was stamped

vars == <<verdict, job, worker, gone, wanted, fresh>>

Claimable == {"pending", "failed"}

Job == [state : {"absent", "running", "done"} \cup Claimable,
        attempts : 0 .. MaxAttempts,
        replace : BOOLEAN,
        marked : BOOLEAN,       \* replace_deleted_at is set
        late : BOOLEAN,         \* started_at is older than STALE_SECONDS
        completed : BOOLEAN]

Worker == [phase : {"idle", "opening", "claiming", "claimed", "deleting", "stamping", "enqueuing"},
           seen : {"none"} \cup Claimable,
           att : 0 .. MaxAttempts,
           rank : 1 .. ChainLength + 1,
           cursor : Items \cup {0}]

TypeOK ==
  /\ LedgerTypeOK
  /\ job \in Job
  /\ worker \in [Workers -> Worker]
  /\ gone \subseteq Items
  /\ wanted \subseteq Items
  /\ fresh \subseteq Runs

NoJob == [state |-> "absent", attempts |-> 0, replace |-> FALSE,
          marked |-> FALSE, late |-> FALSE, completed |-> FALSE]
Idle  == [phase |-> "idle", seen |-> "none", att |-> 0, rank |-> 1, cursor |-> 0]

Init ==
  /\ LedgerInit
  /\ job = NoJob
  /\ worker = [w \in Workers |-> Idle]
  /\ gone = {}
  /\ wanted = {}
  /\ fresh = {}

(* resolve_present, evaluated by every statement that uses it: the items   *)
(* the step before the target succeeded on (all of the feed's, when the    *)
(* target is the head) that still exist.                                   *)
Source ==
  {i \in Items \ gone : Target = 1 \/ verdict[<<Target - 1, i>>] = "succeeded"}

IsFinal == job.state = "done" \/ (job.state = "failed" /\ job.attempts >= MaxAttempts)

-----------------------------------------------------------------------------
(* Runs created by this step, if the marker already stands.                *)
CountFresh ==
  fresh' = IF job.marked
           THEN fresh \cup {r \in Runs : verdict[r] = "absent" /\ verdict'[r] # "absent"}
           ELSE fresh

(* The trigger and the drain, at the ledger's grain.                       *)
Trigger(i) ==
  /\ i \notin gone
  /\ Offer(i)
  /\ CountFresh
  /\ UNCHANGED <<job, worker, gone, wanted>>

Drain(r, o) ==
  /\ Settle({r}, o)
  /\ CountFresh
  /\ UNCHANGED <<job, worker, gone, wanted>>

(* The feed prunes an item; its runs stay.                                 *)
Prune(i) ==
  /\ gone' = gone \cup {i}
  /\ UNCHANGED <<verdict, job, worker, wanted, fresh>>

(* create: the POST persists the job.                                      *)
Request(replace) ==
  /\ job = NoJob
  /\ job' = [NoJob EXCEPT !.state = "pending", !.replace = replace]
  /\ wanted' = Source
  /\ UNCHANGED <<verdict, worker, gone, fresh>>

(* STALE_SECONDS elapse since the claim.                                   *)
Overdue ==
  /\ job.state = "running"
  /\ ~job.late
  /\ job' = [job EXCEPT !.late = TRUE]
  /\ UNCHANGED <<verdict, worker, gone, wanted, fresh>>

-----------------------------------------------------------------------------
(* reap_stale: both bulk updates, split on the attempts cap.               *)
Reaped == [job EXCEPT !.state = "failed", !.late = FALSE,
                      !.completed = job.attempts >= MaxAttempts]

MayStart == SingleFlight => \A w \in Workers : worker[w].phase = "idle"

StartPass(w) ==
  /\ worker[w].phase = "idle"
  /\ MayStart
  /\ job' = IF job.state = "running" /\ job.late THEN Reaped ELSE job
  /\ worker' = [worker EXCEPT ![w].phase = "opening"]
  /\ UNCHANGED <<verdict, gone, wanted, fresh>>

(* claim_due: claimable and under the cap.                                 *)
Due == job.state \in Claimable /\ job.attempts < MaxAttempts

(* The candidates query; without a candidate the pass is over.             *)
OpenCursor(w) ==
  /\ worker[w].phase = "opening"
  /\ worker' = [worker EXCEPT ![w] =
                  IF Due THEN [Idle EXCEPT !.phase = "claiming", !.seen = job.state] ELSE Idle]
  /\ UNCHANGED <<verdict, job, gone, wanted, fresh>>

(* Mutant: a claim burns no attempt.                                       *)
ClaimedFree == [job EXCEPT !.state = "running", !.late = FALSE]

Claimed == [job EXCEPT !.state = "running", !.late = FALSE, !.attempts = @ + 1]

(* The CAS on the state the query saw.                                     *)
Claim(w) ==
  /\ worker[w].phase = "claiming"
  /\ IF Due /\ job.state = worker[w].seen
     THEN job' = Claimed /\ worker' = [worker EXCEPT ![w].phase = "claimed"]
     ELSE job' = job /\ worker' = [worker EXCEPT ![w] = Idle]
  /\ UNCHANGED <<verdict, gone, wanted, fresh>>

(* Mutant: a retried job deletes again.                                    *)
DeletesAgain == job.replace

(* _delete_phase: only `replace` deletes, and only until the marker stands.*)
Deletes == job.replace /\ ~job.marked

(* refresh_from_db: the worker's copy of the row, its fence and its marker.*)
Refresh(w) ==
  /\ worker[w].phase = "claimed"
  /\ worker' = [worker EXCEPT ![w] =
                  [Idle EXCEPT !.phase = IF Deletes THEN "deleting" ELSE "enqueuing",
                               !.att = job.attempts,
                               !.rank = Target]]
  /\ UNCHANGED <<verdict, job, gone, wanted, fresh>>

Holds(w) == job.state = "running" /\ job.attempts = worker[w].att

(* _fail: the target or its watch is gone; attempts go to the cap.         *)
FailForGood(w) ==
  /\ worker[w].phase \in {"deleting", "enqueuing"}
  /\ worker[w].rank = Target /\ worker[w].cursor = 0
  /\ job' = IF Holds(w)
            THEN [job EXCEPT !.state = "failed", !.late = FALSE, !.completed = TRUE,
                             !.attempts = MaxAttempts]
            ELSE job
  /\ worker' = [worker EXCEPT ![w] = Idle]
  /\ UNCHANGED <<verdict, gone, wanted, fresh>>

(* delete_terminal_for_action, one action of the walk down the chain.      *)
DeleteAt(w) ==
  LET rank == worker[w].rank IN
  /\ worker[w].phase = "deleting"
  /\ verdict' = [r \in Runs |-> IF r[1] = rank /\ r[2] \in Source /\ verdict[r] \in Final
                                THEN "absent" ELSE verdict[r]]
  /\ worker' = [worker EXCEPT ![w].rank = rank + 1,
                              ![w].phase = IF rank = ChainLength THEN "stamping" ELSE @]
  /\ UNCHANGED <<job, gone, wanted, fresh>>

(* The delete-once marker, if the claim still stands; it goes on either way.*)
Stamp(w) ==
  /\ worker[w].phase = "stamping"
  /\ job' = IF Holds(w) THEN [job EXCEPT !.marked = TRUE] ELSE job
  /\ worker' = [worker EXCEPT ![w].phase = "enqueuing"]
  /\ UNCHANGED <<verdict, gone, wanted, fresh>>

(* The keyset page after the cursor; a page is one item.                   *)
Page(w) == {i \in Source : i > worker[w].cursor}

(* enqueue_many: insert the target's run unless the item has one.          *)
Enqueue(w) ==
  /\ worker[w].phase = "enqueuing"
  /\ \E i \in Page(w) :
       /\ \A j \in Page(w) : i <= j
       /\ verdict' = [verdict EXCEPT ![<<Target, i>>] = IF @ = "absent" THEN "open" ELSE @]
       /\ worker' = [worker EXCEPT ![w].cursor = i]
  /\ CountFresh
  /\ UNCHANGED <<job, gone, wanted>>

(* Mutant: the stream ends after its first page.                           *)
FirstPageOnly(w) == worker[w].cursor # 0 \/ Page(w) = {}

Exhausted(w) == Page(w) = {}

(* _finish: DONE, if the claim still stands.                               *)
Finish(w) ==
  /\ worker[w].phase = "enqueuing"
  /\ Exhausted(w)
  /\ job' = IF Holds(w) THEN [job EXCEPT !.state = "done", !.late = FALSE, !.completed = TRUE]
            ELSE job
  /\ worker' = [worker EXCEPT ![w] = Idle]
  /\ UNCHANGED <<verdict, gone, wanted, fresh>>

(* The worker raises or dies; the job stays RUNNING for the reaper.        *)
Stops(w) ==
  /\ worker[w].phase # "idle"
  /\ worker' = [worker EXCEPT ![w] = Idle]
  /\ UNCHANGED <<verdict, job, gone, wanted, fresh>>

Work(w) ==
  \/ OpenCursor(w)
  \/ Claim(w)
  \/ Refresh(w)
  \/ FailForGood(w)
  \/ DeleteAt(w)
  \/ Stamp(w)
  \/ Enqueue(w)
  \/ Finish(w)

Next ==
  \/ \E i \in Items : Trigger(i)
  \/ \E r \in Runs, o \in Final : Drain(r, o)
  \/ \E i \in Items \ gone : Prune(i)
  \/ \E replace \in BOOLEAN : Request(replace)
  \/ Overdue
  \/ \E w \in Workers : StartPass(w)
  \/ \E w \in Workers : Work(w)
  \/ \E w \in Workers : Stops(w)

Spec == Init /\ [][Next]_vars

(* Passes keep starting, time passes, and a pass does not die every time   *)
(* before it has claimed; after that each death costs an attempt.          *)
Fairness ==
  /\ WF_vars(\E w \in Workers : StartPass(w))
  /\ SF_vars(\E w \in Workers : OpenCursor(w))
  /\ SF_vars(\E w \in Workers : Claim(w))
  /\ \A w \in Workers : WF_vars(Work(w))
  /\ WF_vars(Overdue)

FairSpec == Spec /\ Fairness

-----------------------------------------------------------------------------
(* replace_deleted_at: "a reaped/retried job skips the delete and can't    *)
(* wipe runs the drain has since regenerated".                             *)
RegeneratedStays == \A r \in fresh : verdict[r] # "absent"

(* A finished job left no item of its source without a run of the target,  *)
(* through reaps, retries and a stream that pages a moving set.            *)
SourceCovered ==
  job.state = "done" => \A i \in wanted \ gone : verdict[<<Target, i>>] # "absent"

(* "replace regenerates the whole chain from the target down": once the    *)
(* job is done and the drain has settled an item's runs, no success of its *)
(* chain is without the next step.                                         *)
ChainRefilled ==
  job.state = "done" =>
    \A i \in Items \ gone :
      (\A k \in Ranks : verdict[<<k, i>>] # "open") =>
        \A k \in Target .. ChainLength - 1 :
          verdict[<<k, i>>] = "succeeded" => verdict[<<k + 1, i>>] # "absent"

(* A requested job is done or gives up, whatever its workers do.           *)
JobSettles == job.state # "absent" ~> IsFinal
=============================================================================
