--------------------------- MODULE Backfill_proofs ---------------------------
(***************************************************************************)
(* One backfill job, for every number of items, ranks, attempts and        *)
(* processes that may run it one after another.                            *)
(***************************************************************************)
EXTENDS Backfill, TLAPS

Verdicts == {"absent", "open"} \cup Final

LEMMA Constants ==
  /\ ChainLength \in Nat \ {0} /\ Target \in 1 .. ChainLength /\ 1 \in 1 .. ChainLength + 1
  /\ MaxAttempts \in Nat \ {0} /\ 0 \in 0 .. MaxAttempts /\ MaxAttempts \in 0 .. MaxAttempts
  /\ Items \subseteq Nat \ {0}
  /\ "absent" \notin Final /\ "open" \in Verdicts
  BY ChainAssumption, BackfillAssumption DEF Ranks, Final, Verdicts

-----------------------------------------------------------------------------
(* Type correctness.                                                       *)
LEMMA TypeInit == Init => TypeOK
<1>1. NoJob \in Job /\ Idle \in Worker
  BY Constants DEF NoJob, Job, Claimable, Idle, Worker
<1> QED
  BY <1>1 DEF Init, LedgerInit, TypeOK, LedgerTypeOK

(* What the ledger's steps do to the runs of the chain.                    *)
LEMMA LedgerSteps ==
  ASSUME TypeOK
  PROVE  /\ \A i \in Items : Offer(i) => LedgerTypeOK'
         /\ \A r \in Runs, o \in Final : Settle({r}, o) => LedgerTypeOK'
         /\ \A i \in Items, r \in Runs : Offer(i) /\ verdict[r] # "absent" => verdict'[r] = verdict[r]
         /\ \A q \in Runs, o \in Final, r \in Runs :
              Settle({q}, o) /\ verdict[r] # "absent" => /\ verdict'[r] # "absent"
                                                         /\ verdict[r] \in Final => verdict'[r] = verdict[r]
<1>1. verdict \in [Runs -> Verdicts]
  BY DEF TypeOK, LedgerTypeOK, Verdicts
<1>2. ASSUME NEW i \in Items, Offer(i)
      PROVE  LedgerTypeOK' /\ \A r \in Runs : verdict[r] # "absent" => verdict'[r] = verdict[r]
  BY <1>1, <1>2 DEF Offer, LedgerTypeOK, Verdicts
<1>3. ASSUME NEW q \in Runs, NEW o \in Final, Settle({q}, o)
      PROVE  /\ LedgerTypeOK'
             /\ \A r \in Runs : verdict[r] # "absent" =>
                  verdict'[r] # "absent" /\ (verdict[r] \in Final => verdict'[r] = verdict[r])
  <2>1. verdict' \in [Runs -> Verdicts]
    BY <1>1, <1>3 DEF Settle, Verdicts
  <2>2. "open" \notin Final
    BY ChainAssumption DEF Final
  <2> QED
    BY <1>1, <1>3, <2>1, <2>2, Constants DEF Settle, LedgerTypeOK, Verdicts
<1> QED
  BY <1>2, <1>3

LEMMA TypeWorld ==
  ASSUME TypeOK, (\E i \in Items : Trigger(i)) \/ (\E r \in Runs, o \in Final : Drain(r, o))
                 \/ (\E i \in Items \ gone : Prune(i)) \/ (\E replace \in BOOLEAN : Request(replace))
                 \/ Overdue \/ UNCHANGED vars
  PROVE  TypeOK'
<1>1. CountFresh => fresh' \subseteq Runs
  BY DEF CountFresh, TypeOK
<1>2. ASSUME NEW i \in Items, Trigger(i) PROVE TypeOK'
  BY <1>1, <1>2, LedgerSteps DEF Trigger, TypeOK
<1>3. ASSUME NEW r \in Runs, NEW o \in Final, Drain(r, o) PROVE TypeOK'
  BY <1>1, <1>3, LedgerSteps DEF Drain, TypeOK
<1>4. ASSUME NEW i \in Items \ gone, Prune(i) PROVE TypeOK'
  BY <1>4 DEF Prune, TypeOK, LedgerTypeOK
<1>5. ASSUME NEW replace \in BOOLEAN, Request(replace) PROVE TypeOK'
  <2>1. job' \in Job
    BY <1>5, Constants DEF Request, NoJob, Job, Claimable
  <2>2. wanted' \subseteq Items
    BY <1>5 DEF Request, Source
  <2> QED
    BY <1>5, <2>1, <2>2 DEF Request, TypeOK, LedgerTypeOK
<1>6. CASE Overdue
  <2>1. job' \in Job
    BY <1>6 DEF Overdue, TypeOK, Job
  <2> QED
    BY <1>6, <2>1 DEF Overdue, TypeOK, LedgerTypeOK
<1>7. CASE UNCHANGED vars
  BY <1>7 DEF vars, TypeOK, LedgerTypeOK
<1> QED
  BY <1>2, <1>3, <1>4, <1>5, <1>6, <1>7

(* The walk of the deletes stays between the target and the chain's end.   *)
WalkBounds == \A w \in Workers : worker[w].phase = "deleting" => worker[w].rank \in Target .. ChainLength

LEMMA TypeWork ==
  ASSUME TypeOK, WalkBounds, NEW w \in Workers, StartPass(w) \/ Work(w) \/ Stops(w)
  PROVE  TypeOK'
<1>1. /\ job \in Job /\ worker \in [Workers -> Worker] /\ worker[w] \in Worker /\ Idle \in Worker
      /\ verdict \in [Runs -> Verdicts] /\ ChainLength \in Nat \ {0}
  BY Constants DEF TypeOK, LedgerTypeOK, Verdicts, Idle, Worker
<1>2. ASSUME NEW x \in Worker, worker' = [worker EXCEPT ![w] = x] PROVE worker' \in [Workers -> Worker]
  BY <1>1, <1>2
<1>3. CASE StartPass(w)
  <2>1. job' \in Job
    <3> DEFINE b == job.attempts >= MaxAttempts
    <3>1. b \in BOOLEAN
      OBVIOUS
    <3>2. Reaped = [job EXCEPT !.state = "failed", !.late = FALSE, !.completed = b]
      BY DEF Reaped
    <3> HIDE DEF b
    <3>3. Reaped \in Job
      BY <1>1, <3>1, <3>2 DEF Job, Claimable
    <3> QED
      BY <1>1, <1>3, <3>3 DEF StartPass
  <2>2. worker' \in [Workers -> Worker]
    BY <1>1, <1>3 DEF StartPass, Worker
  <2> QED
    BY <1>3, <2>1, <2>2 DEF StartPass, TypeOK, LedgerTypeOK
<1>4. CASE OpenCursor(w)
  <2>1. Due => [Idle EXCEPT !.phase = "claiming", !.seen = job.state] \in Worker
    BY <1>1 DEF Due, Worker
  <2> QED
    BY <1>1, <1>2, <1>4, <2>1 DEF OpenCursor, TypeOK, LedgerTypeOK
<1>5. CASE Claim(w)
  <2>1. CASE Due /\ job.state = worker[w].seen
    <3>1. job.attempts + 1 \in 0 .. MaxAttempts
      BY <1>1, <2>1, Constants DEF Due, Job
    <3>2. job' \in Job
      BY <1>1, <1>5, <2>1, <3>1 DEF Claim, Claimed, Job
    <3>3. worker' \in [Workers -> Worker]
      BY <1>1, <1>5, <2>1 DEF Claim, Worker
    <3> QED
      BY <1>5, <3>2, <3>3 DEF Claim, TypeOK, LedgerTypeOK
  <2>2. CASE ~(Due /\ job.state = worker[w].seen)
    BY <1>1, <1>5, <2>2 DEF Claim, TypeOK, LedgerTypeOK
  <2> QED
    BY <2>1, <2>2
<1>6. CASE Refresh(w)
  <2>1. [Idle EXCEPT !.phase = IF Deletes THEN "deleting" ELSE "enqueuing",
                     !.att = job.attempts, !.rank = Target] \in Worker
    <3>1. job.attempts \in 0 .. MaxAttempts /\ Target \in 1 .. ChainLength + 1
      BY <1>1, Constants DEF Job
    <3> QED
      BY <1>1, <3>1 DEF Worker
  <2> QED
    BY <1>2, <1>6, <2>1 DEF Refresh, TypeOK, LedgerTypeOK
<1>7. CASE FailForGood(w)
  <2>1. job' \in Job
    BY <1>1, <1>7, Constants DEF FailForGood, Job, Claimable
  <2> QED
    BY <1>1, <1>7, <2>1 DEF FailForGood, TypeOK, LedgerTypeOK
<1>8. CASE DeleteAt(w)
  <2>1. verdict' \in [Runs -> Verdicts]
    BY <1>1, <1>8 DEF DeleteAt, Verdicts
  <2> DEFINE phase == IF worker[w].rank = ChainLength THEN "stamping" ELSE "deleting"
  <2>2. /\ worker[w].phase = "deleting"
        /\ worker' = [worker EXCEPT ![w].rank = worker[w].rank + 1,
                                    ![w].phase = IF worker[w].rank = ChainLength THEN "stamping" ELSE @]
    BY <1>8 DEF DeleteAt
  <2>3. worker[w].rank + 1 \in 1 .. ChainLength + 1
    BY <1>1, <2>2, Constants DEF WalkBounds
  <2>4. worker' = [worker EXCEPT ![w] = [worker[w] EXCEPT !.rank = worker[w].rank + 1, !.phase = phase]]
    BY <1>1, <2>2 DEF Worker
  <2>5. [worker[w] EXCEPT !.rank = worker[w].rank + 1, !.phase = phase] \in Worker
    BY <1>1, <2>3 DEF Worker
  <2> QED
    BY <1>2, <1>8, <2>1, <2>4, <2>5 DEF DeleteAt, TypeOK, LedgerTypeOK, Verdicts
<1>9. CASE Stamp(w)
  <2>1. job' \in Job
    BY <1>1, <1>9 DEF Stamp, Job
  <2>2. worker' \in [Workers -> Worker]
    BY <1>1, <1>9 DEF Stamp, Worker
  <2> QED
    BY <1>9, <2>1, <2>2 DEF Stamp, TypeOK, LedgerTypeOK
<1>10. CASE Enqueue(w)
  <2>1. PICK i \in Page(w) :
          /\ verdict' = [verdict EXCEPT ![<<Target, i>>] = IF @ = "absent" THEN "open" ELSE @]
          /\ worker' = [worker EXCEPT ![w].cursor = i]
    BY <1>10 DEF Enqueue
  <2>2. i \in Items
    BY DEF Page, Source
  <2>3. verdict' \in [Runs -> Verdicts]
    BY <1>1, <2>1 DEF Verdicts
  <2>4. worker' \in [Workers -> Worker]
    BY <1>1, <2>1, <2>2 DEF Worker
  <2>5. fresh' \subseteq Runs
    BY <1>10 DEF Enqueue, CountFresh, TypeOK
  <2> QED
    BY <1>10, <2>3, <2>4, <2>5 DEF Enqueue, TypeOK, LedgerTypeOK, Verdicts
<1>11. CASE Finish(w)
  <2>1. job' \in Job
    BY <1>1, <1>11 DEF Finish, Job
  <2> QED
    BY <1>1, <1>11, <2>1 DEF Finish, TypeOK, LedgerTypeOK
<1>12. CASE Stops(w)
  BY <1>1, <1>12 DEF Stops, TypeOK, LedgerTypeOK
<1> QED
  BY <1>3, <1>4, <1>5, <1>6, <1>7, <1>8, <1>9, <1>10, <1>11, <1>12 DEF Work

-----------------------------------------------------------------------------
(* What a step does to the workers.                                        *)
Turns(w, phase) == worker'[w].phase = phase /\ \A v \in Workers \ {w} : worker'[v] = worker[v]

LEMMA WorkerSteps ==
  ASSUME TypeOK, [Next]_vars
  PROVE  \/ worker' = worker
         \/ \E w \in Workers :
              \/ StartPass(w) /\ Turns(w, "opening")
              \/ OpenCursor(w) /\ (Turns(w, "idle") \/ (Due /\ Turns(w, "claiming")))
              \/ Claim(w) /\ (Turns(w, "idle") \/ (Due /\ Turns(w, "claimed")))
              \/ /\ Refresh(w) /\ worker'[w].cursor = 0 /\ worker'[w].rank = Target
                 /\ (Deletes /\ Turns(w, "deleting")) \/ (~Deletes /\ Turns(w, "enqueuing"))
              \/ FailForGood(w) /\ Turns(w, "idle")
              \/ /\ DeleteAt(w) /\ worker'[w].rank = worker[w].rank + 1
                 /\ worker'[w].cursor = worker[w].cursor
                 /\ IF worker[w].rank = ChainLength THEN Turns(w, "stamping") ELSE Turns(w, "deleting")
              \/ Stamp(w) /\ Turns(w, "enqueuing") /\ worker'[w].cursor = worker[w].cursor
              \/ Enqueue(w) /\ Turns(w, "enqueuing")
              \/ Finish(w) /\ Turns(w, "idle")
              \/ Stops(w) /\ Turns(w, "idle")
<1>1. worker \in [Workers -> Worker] /\ Idle.phase = "idle" /\ Idle.cursor = 0
  BY DEF TypeOK, Idle
<1>2. ASSUME NEW w \in Workers, StartPass(w) PROVE Turns(w, "opening")
  BY <1>1, <1>2 DEF StartPass, Turns, Worker
<1>3. ASSUME NEW w \in Workers, OpenCursor(w) PROVE Turns(w, "idle") \/ (Due /\ Turns(w, "claiming"))
  BY <1>1, <1>3 DEF OpenCursor, Turns, Idle
<1>4. ASSUME NEW w \in Workers, Claim(w) PROVE Turns(w, "idle") \/ (Due /\ Turns(w, "claimed"))
  BY <1>1, <1>4 DEF Claim, Turns, Worker
<1>5. ASSUME NEW w \in Workers, Refresh(w)
      PROVE  /\ worker'[w].cursor = 0 /\ worker'[w].rank = Target
             /\ (Deletes /\ Turns(w, "deleting")) \/ (~Deletes /\ Turns(w, "enqueuing"))
  BY <1>1, <1>5 DEF Refresh, Turns, Idle
<1>6. ASSUME NEW w \in Workers, FailForGood(w) \/ Finish(w) \/ Stops(w) PROVE Turns(w, "idle")
  BY <1>1, <1>6 DEF FailForGood, Finish, Stops, Turns
<1>7. ASSUME NEW w \in Workers, DeleteAt(w)
      PROVE  /\ worker'[w].rank = worker[w].rank + 1
             /\ worker'[w].cursor = worker[w].cursor
             /\ IF worker[w].rank = ChainLength THEN Turns(w, "stamping") ELSE Turns(w, "deleting")
  BY <1>1, <1>7 DEF DeleteAt, Turns, Worker
<1>8. ASSUME NEW w \in Workers, Stamp(w)
      PROVE  Turns(w, "enqueuing") /\ worker'[w].cursor = worker[w].cursor
  BY <1>1, <1>8 DEF Stamp, Turns, Worker
<1>9. ASSUME NEW w \in Workers, Enqueue(w) PROVE Turns(w, "enqueuing")
  BY <1>1, <1>9 DEF Enqueue, Turns, Worker
<1>10. worker' = worker \/ \E w \in Workers : StartPass(w) \/ Work(w) \/ Stops(w)
  BY DEF Next, vars, Trigger, Drain, Prune, Request, Overdue
<1> QED
  BY <1>2, <1>3, <1>4, <1>5, <1>6, <1>7, <1>8, <1>9, <1>10 DEF Work

LEMMA BoundsNext == TypeOK /\ WalkBounds /\ [Next]_vars => WalkBounds'
<1> SUFFICES ASSUME TypeOK, WalkBounds, [Next]_vars, NEW v \in Workers, worker'[v].phase = "deleting"
             PROVE  worker'[v].rank \in Target .. ChainLength
  BY DEF WalkBounds
<1>1. CASE worker'[v] = worker[v]
  BY <1>1 DEF WalkBounds
<1>2. CASE Refresh(v) /\ worker'[v].rank = Target
  BY <1>2, Constants
<1>3. CASE DeleteAt(v) /\ worker'[v].rank = worker[v].rank + 1 /\ worker[v].rank # ChainLength
  BY <1>3, Constants DEF WalkBounds, DeleteAt
<1> QED
  BY <1>1, <1>2, <1>3, WorkerSteps DEF Turns

(* Job, workers, runs and histories keep their types.                      *)
THEOREM TypeCorrect == Spec => [](TypeOK /\ WalkBounds)
<1>1. Init => WalkBounds
  BY DEF Init, WalkBounds, Idle
<1>2. TypeOK /\ WalkBounds /\ [Next]_vars => TypeOK'
  BY TypeWorld, TypeWork DEF Next
<1> QED
  BY <1>1, <1>2, TypeInit, BoundsNext, PTL DEF Spec

-----------------------------------------------------------------------------
(* What a step does to the job and to the runs.                            *)
Active(w) == worker[w].phase \in {"claimed", "deleting", "stamping", "enqueuing"}

LEMMA RequestedFirst == ASSUME NEW replace, Request(replace) PROVE job.state = "absent"
<1>1. NoJob.state = "absent"
  BY DEF NoJob
<1> QED
  BY <1>1 DEF Request

LEMMA JobSteps ==
  ASSUME TypeOK, [Next]_vars
  PROVE  /\ job'.marked # job.marked => job'.marked /\ \E w \in Workers : Stamp(w)
         /\ job'.state # job.state =>
              \/ \E replace \in BOOLEAN : Request(replace)
              \/ \E w \in Workers : StartPass(w) \/ FailForGood(w) \/ Finish(w)
              \/ \E w \in Workers : Claim(w) /\ job'.state = "running"
<1>1. job \in Job
  BY DEF TypeOK
<1>2. ASSUME NEW replace \in BOOLEAN, Request(replace) PROVE job'.marked = job.marked
  BY <1>2 DEF Request, NoJob
<1>3. CASE Overdue
  BY <1>1, <1>3 DEF Overdue, Job
<1>4. ASSUME NEW w \in Workers, StartPass(w) PROVE job'.marked = job.marked
  BY <1>1, <1>4 DEF StartPass, Reaped, Job
<1>5. ASSUME NEW w \in Workers, Claim(w)
      PROVE  job'.marked = job.marked /\ (job' = job \/ job'.state = "running")
  BY <1>1, <1>5 DEF Claim, Claimed, Job
<1>6. ASSUME NEW w \in Workers, FailForGood(w) \/ Finish(w) PROVE job'.marked = job.marked
  BY <1>1, <1>6 DEF FailForGood, Finish, Job
<1>7. ASSUME NEW w \in Workers, Stamp(w)
      PROVE  job'.state = job.state /\ (job'.marked # job.marked => job'.marked)
  BY <1>1, <1>7 DEF Stamp, Job
<1>8. ASSUME NEW w \in Workers, OpenCursor(w) \/ Refresh(w) \/ DeleteAt(w) \/ Enqueue(w) \/ Stops(w)
      PROVE  job' = job
  BY <1>8 DEF OpenCursor, Refresh, DeleteAt, Enqueue, Stops
<1>9. (\E i \in Items : Trigger(i)) \/ (\E r \in Runs, o \in Final : Drain(r, o))
      \/ (\E i \in Items \ gone : Prune(i)) \/ UNCHANGED vars => job' = job
  BY DEF Trigger, Drain, Prune, vars
<1> QED
  BY <1>2, <1>3, <1>4, <1>5, <1>6, <1>7, <1>8, <1>9 DEF Next, Work

LEMMA RunSteps ==
  ASSUME TypeOK, WalkBounds, [Next]_vars, NEW r \in Runs, verdict[r] # "absent"
  PROVE  /\ verdict'[r] = "absent" => \E w \in Workers : DeleteAt(w)
         /\ r[1] < Target /\ verdict[r] \in Final => verdict'[r] = verdict[r]
<1>1. verdict \in [Runs -> Verdicts]
  BY DEF TypeOK, LedgerTypeOK, Verdicts
<1>2. ASSUME NEW i \in Items, Trigger(i) PROVE verdict'[r] = verdict[r]
  BY <1>2, LedgerSteps DEF Trigger
<1>3. ASSUME NEW q \in Runs, NEW o \in Final, Drain(q, o)
      PROVE  verdict'[r] # "absent" /\ (verdict[r] \in Final => verdict'[r] = verdict[r])
  BY <1>3, LedgerSteps DEF Drain
<1>4. ASSUME NEW w \in Workers, Enqueue(w) PROVE verdict'[r] = verdict[r]
  <2>1. PICK i \in Page(w) :
          verdict' = [verdict EXCEPT ![<<Target, i>>] = IF @ = "absent" THEN "open" ELSE @]
    BY <1>4 DEF Enqueue
  <2> QED
    BY <1>1, <2>1
<1>5. ASSUME NEW w \in Workers, DeleteAt(w) PROVE r[1] < Target => verdict'[r] = verdict[r]
  <2>1. worker[w].rank >= Target /\ worker[w].rank \in Nat /\ Target \in Nat
    BY <1>5, Constants DEF DeleteAt, WalkBounds
  <2>2. verdict' = [q \in Runs |-> IF q[1] = worker[w].rank /\ q[2] \in Source /\ verdict[q] \in Final
                                   THEN "absent" ELSE verdict[q]]
    BY <1>5 DEF DeleteAt
  <2>3. r[1] \in Nat
    BY Constants DEF Runs, Ranks
  <2> QED
    BY <2>1, <2>2, <2>3
<1>6. (\E i \in Items \ gone : Prune(i)) \/ (\E replace \in BOOLEAN : Request(replace))
      \/ Overdue \/ UNCHANGED vars => verdict' = verdict
  BY DEF Prune, Request, Overdue, vars
<1>7. ASSUME NEW w \in Workers, \/ StartPass(w) \/ OpenCursor(w) \/ Claim(w) \/ Refresh(w)
                                \/ FailForGood(w) \/ Stamp(w) \/ Finish(w) \/ Stops(w)
      PROVE  verdict' = verdict
  BY <1>7 DEF StartPass, OpenCursor, Claim, Refresh, FailForGood, Stamp, Finish, Stops
<1> QED
  BY <1>2, <1>3, <1>4, <1>5, <1>6, <1>7 DEF Next, Work

-----------------------------------------------------------------------------
(* Single flight: one pass at a time, and while it works the job is its    *)
(* own.                                                                    *)
OneAtWork ==
  \A v, w \in Workers : worker[v].phase # "idle" /\ worker[w].phase # "idle" => v = w

ActiveRuns == \A w \in Workers : Active(w) => job.state = "running"

LEMMA Alone ==
  ASSUME SingleFlight, TypeOK, OneAtWork, ActiveRuns, [Next]_vars
  PROVE  OneAtWork' /\ ActiveRuns'
<1>1. OneAtWork'
  <2> SUFFICES ASSUME NEW v \in Workers, NEW w \in Workers,
                      worker'[v].phase # "idle", worker'[w].phase # "idle"
               PROVE  v = w
    BY DEF OneAtWork
  <2>1. ASSUME NEW u \in Workers, StartPass(u), \A x \in Workers \ {u} : worker'[x] = worker[x]
        PROVE  v = w
    BY <2>1 DEF StartPass, MayStart
  <2>2. ASSUME NEW u \in Workers, worker[u].phase # "idle", \A x \in Workers \ {u} : worker'[x] = worker[x]
        PROVE  v = w
    BY <2>2 DEF OneAtWork
  <2>3. CASE worker' = worker
    BY <2>3 DEF OneAtWork
  <2> QED
    BY <2>1, <2>2, <2>3, WorkerSteps
       DEF Turns, OpenCursor, Claim, Refresh, FailForGood, DeleteAt, Stamp, Enqueue, Finish, Stops
<1>2. ActiveRuns'
  <2> SUFFICES ASSUME NEW w \in Workers, Active(w)'
               PROVE  job'.state = "running"
    BY DEF ActiveRuns
  <2>1. CASE Claim(w) /\ Due /\ Turns(w, "claimed")
    <3>1. job \in Job /\ worker \in [Workers -> Worker] /\ Idle.phase = "idle"
      BY DEF TypeOK, Idle
    <3> QED
      BY <2>1, <3>1 DEF Claim, Claimed, Turns, Job
  <2>2. CASE Active(w)
    <3>1. job.state = "running" /\ worker[w].phase # "idle"
      BY <2>2 DEF ActiveRuns, Active
    <3>2. ~ \E replace \in BOOLEAN : Request(replace)
      BY <3>1, RequestedFirst
    <3>3. ~ \E u \in Workers : StartPass(u)
      BY <3>1 DEF StartPass, MayStart
    <3>4. ASSUME NEW u \in Workers, FailForGood(u) \/ Finish(u) PROVE FALSE
      <4>1. u = w
        BY <3>1, <3>4 DEF FailForGood, Finish, OneAtWork
      <4> QED
        BY <3>4, <4>1 DEF FailForGood, Finish, TypeOK, Active, Idle
    <3> QED
      BY <3>1, <3>2, <3>3, <3>4, JobSteps
  <2>3. ~Active(w) => Claim(w) /\ Due /\ Turns(w, "claimed")
    BY WorkerSteps DEF Turns, Active, Refresh, DeleteAt, Stamp, Enqueue
  <2> QED
    BY <2>1, <2>2, <2>3
<1> QED
  BY <1>1, <1>2

-----------------------------------------------------------------------------
(* The deletes come before the marker, and the marker before any fresh run.*)
WalkFirst ==
  \A w \in Workers : worker[w].phase \in {"deleting", "stamping"} => ~job.marked /\ worker[w].cursor = 0

MarkFirst == ~job.marked => fresh = {}

LEMMA WalkNext ==
  ASSUME TypeOK, OneAtWork, WalkFirst, [Next]_vars PROVE WalkFirst'
<1> SUFFICES ASSUME NEW w \in Workers, worker'[w].phase \in {"deleting", "stamping"}
             PROVE  ~job'.marked /\ worker'[w].cursor = 0
  BY DEF WalkFirst
<1>1. \/ worker'[w] = worker[w]
      \/ Refresh(w) /\ Deletes /\ worker'[w].cursor = 0
      \/ DeleteAt(w) /\ worker'[w].cursor = worker[w].cursor
  BY WorkerSteps DEF Turns
<1>2. CASE Refresh(w) /\ Deletes /\ worker'[w].cursor = 0
  BY <1>2 DEF Refresh, Deletes
<1>3. CASE DeleteAt(w) /\ worker'[w].cursor = worker[w].cursor
  BY <1>3 DEF DeleteAt, WalkFirst
<1>4. CASE worker'[w] = worker[w]
  <2>1. ~job.marked /\ worker[w].cursor = 0 /\ worker[w].phase # "idle"
    BY <1>4 DEF WalkFirst
  <2>2. ASSUME NEW u \in Workers, Stamp(u) PROVE FALSE
    <3>1. u = w
      BY <2>1, <2>2 DEF Stamp, OneAtWork
    <3>2. worker \in [Workers -> Worker]
      BY DEF TypeOK
    <3>3. worker[w].phase = "stamping" /\ worker' = [worker EXCEPT ![w].phase = "enqueuing"]
      BY <2>2, <3>1 DEF Stamp
    <3>4. worker'[w].phase = "enqueuing"
      BY <3>2, <3>3 DEF Worker
    <3> QED
      BY <1>4, <3>3, <3>4
  <2> QED
    <3>1. job'.marked = job.marked
      BY <2>2, JobSteps
    <3> QED
      BY <1>4, <2>1, <3>1
<1> QED
  BY <1>1, <1>2, <1>3, <1>4

LEMMA MarkNext ==
  ASSUME TypeOK, MarkFirst, [Next]_vars PROVE MarkFirst'
<1> SUFFICES ASSUME ~job'.marked PROVE fresh' = {}
  BY DEF MarkFirst
<1>1. job \in Job /\ ~job.marked /\ fresh = {}
  BY JobSteps DEF MarkFirst, TypeOK, Job
<1>2. CountFresh => fresh' = fresh
  BY <1>1 DEF CountFresh
<1> QED
  BY <1>1, <1>2 DEF Next, Trigger, Drain, Prune, Request, Overdue, StartPass, Work, OpenCursor, Claim,
                    Refresh, FailForGood, DeleteAt, Stamp, Enqueue, Finish, Stops, vars

LEMMA FreshNext ==
  ASSUME TypeOK, WalkBounds, WalkFirst, MarkFirst, RegeneratedStays, [Next]_vars PROVE RegeneratedStays'
<1> SUFFICES ASSUME NEW r \in fresh' PROVE verdict'[r] # "absent"
  BY DEF RegeneratedStays
<1>1. CASE r \notin fresh
  BY <1>1 DEF Next, Trigger, Drain, Prune, Request, Overdue, StartPass, Work, OpenCursor, Claim,
              Refresh, FailForGood, DeleteAt, Stamp, Enqueue, Finish, Stops, vars, CountFresh
<1>2. CASE r \in fresh
  <2>1. r \in Runs /\ verdict[r] # "absent"
    BY <1>2 DEF TypeOK, RegeneratedStays
  <2>2. ASSUME NEW w \in Workers, DeleteAt(w) PROVE FALSE
    BY <1>2, <2>2 DEF DeleteAt, WalkFirst, MarkFirst
  <2> QED
    BY <2>1, <2>2, RunSteps
<1> QED
  BY <1>1, <1>2

(* A run the drain or the enqueue created after the marker was stamped is  *)
(* never deleted again, through any number of reaps and retries, as long   *)
(* as the command holds its lock (backfill.py, _delete_phase).             *)
THEOREM RegeneratedForGood == ASSUME SingleFlight PROVE Spec => []RegeneratedStays
<1> DEFINE Ind == OneAtWork /\ ActiveRuns /\ WalkFirst /\ MarkFirst /\ RegeneratedStays
<1>1. Init => Ind
  BY DEF Init, OneAtWork, ActiveRuns, Active, WalkFirst, MarkFirst, RegeneratedStays, Idle
<1>2. TypeOK /\ WalkBounds /\ Ind /\ [Next]_vars => Ind'
  BY Alone, WalkNext, MarkNext, FreshNext
<1>3. Spec => []RegeneratedStays
  BY <1>1, <1>2, TypeCorrect, PTL DEF Spec
<1> QED
  BY <1>3

-----------------------------------------------------------------------------
(* The stream: every item it passed has its run, and it passes them all.   *)
SourceStays == wanted \ gone \subseteq Source

Reached ==
  \A w \in Workers : worker[w].phase = "enqueuing" =>
    \A i \in wanted \ gone : i <= worker[w].cursor => verdict[<<Target, i>>] # "absent"

LEMMA SourceNext ==
  ASSUME TypeOK, WalkBounds, SourceStays, [Next]_vars PROVE SourceStays'
<1>1. CASE \E replace \in BOOLEAN : Request(replace)
  BY <1>1 DEF Request, SourceStays, Source
<1>2. CASE ~ \E replace \in BOOLEAN : Request(replace)
  <2>1. wanted' = wanted /\ gone \subseteq gone'
    BY <1>2 DEF Next, Trigger, Drain, Prune, Overdue, StartPass, Work, OpenCursor, Claim,
                Refresh, FailForGood, DeleteAt, Stamp, Enqueue, Finish, Stops, vars
  <2> SUFFICES ASSUME NEW i \in wanted \ gone' PROVE i \in Source'
    BY <2>1 DEF SourceStays
  <2>2. i \in Items /\ (Target = 1 \/ verdict[<<Target - 1, i>>] = "succeeded")
    BY <2>1 DEF SourceStays, Source
  <2>3. ASSUME Target # 1 PROVE verdict'[<<Target - 1, i>>] = "succeeded"
    <3>1. <<Target - 1, i>> \in Runs /\ Target - 1 < Target
      BY <2>2, <2>3, Constants DEF Runs, Ranks
    <3>2. verdict[<<Target - 1, i>>] = "succeeded" /\ "succeeded" \in Final /\ "succeeded" # "absent"
      BY <2>2, <2>3 DEF Final
    <3> QED
      BY <3>1, <3>2, RunSteps
  <2> QED
    BY <2>2, <2>3 DEF Source
<1> QED
  BY <1>1, <1>2

LEMMA ReachedNext ==
  ASSUME TypeOK, WalkBounds, OneAtWork, ActiveRuns, WalkFirst, SourceStays, Reached, [Next]_vars
  PROVE  Reached'
<1> SUFFICES ASSUME NEW w \in Workers, worker'[w].phase = "enqueuing",
                    NEW i \in wanted' \ gone', i <= worker'[w].cursor
             PROVE  verdict'[<<Target, i>>] # "absent"
  BY DEF Reached
<1>1. \/ worker'[w] = worker[w]
      \/ Refresh(w) /\ worker'[w].cursor = 0
      \/ Stamp(w) /\ worker'[w].cursor = worker[w].cursor
      \/ Enqueue(w)
  BY WorkerSteps DEF Turns
<1>3. ~ \E replace \in BOOLEAN : Request(replace)
  <2>1. worker[w].phase # "enqueuing" => Refresh(w) \/ Stamp(w)
    BY <1>1 DEF Enqueue
  <2>2. Active(w)
    BY <2>1 DEF Active, Refresh, Stamp
  <2> QED
    BY <2>2, RequestedFirst DEF ActiveRuns
<1>4. i \in wanted \ gone /\ i \in Source /\ i \in Items /\ <<Target, i>> \in Runs /\ i \in Nat \ {0}
  <2>1. wanted' = wanted /\ gone \subseteq gone'
    BY <1>3 DEF Next, Trigger, Drain, Prune, Overdue, StartPass, Work, OpenCursor, Claim,
                Refresh, FailForGood, DeleteAt, Stamp, Enqueue, Finish, Stops, vars
  <2> QED
    BY <2>1, Constants DEF SourceStays, Source, Runs, Ranks
<1>5. CASE Refresh(w) /\ worker'[w].cursor = 0
  BY <1>4, <1>5
<1>6. CASE Stamp(w) /\ worker'[w].cursor = worker[w].cursor
  BY <1>4, <1>6 DEF Stamp, WalkFirst
<1>7. CASE worker'[w] = worker[w]
  <2>1. worker[w].phase = "enqueuing" /\ verdict[<<Target, i>>] # "absent"
    BY <1>4, <1>7 DEF Reached
  <2>2. ASSUME NEW u \in Workers, DeleteAt(u) PROVE FALSE
    <3>1. u = w
      BY <2>1, <2>2 DEF DeleteAt, OneAtWork
    <3> QED
      BY <2>1, <2>2, <3>1 DEF DeleteAt
  <2> QED
    BY <1>4, <2>1, <2>2, RunSteps
<1>8. CASE Enqueue(w)
  <2>1. PICK k \in Page(w) :
          /\ \A j \in Page(w) : k <= j
          /\ verdict' = [verdict EXCEPT ![<<Target, k>>] = IF @ = "absent" THEN "open" ELSE @]
          /\ worker' = [worker EXCEPT ![w].cursor = k]
    BY <1>8 DEF Enqueue
  <2>2. /\ verdict \in [Runs -> Verdicts] /\ worker \in [Workers -> Worker]
        /\ worker[w].cursor \in Nat /\ worker[w].phase = "enqueuing"
    BY <1>8, Constants DEF TypeOK, LedgerTypeOK, Verdicts, Worker, Enqueue
  <2>3. worker'[w].cursor = k
    BY <2>1, <2>2 DEF Worker
  <2>4. k \in Nat
    BY Constants DEF Page, Source
  <2>5. CASE i <= worker[w].cursor
    <3>1. verdict[<<Target, i>>] # "absent"
      BY <1>4, <2>2, <2>5 DEF Reached
    <3> QED
      BY <1>4, <2>1, <2>2, <3>1
  <2>6. CASE i > worker[w].cursor
    <3>1. i = k
      BY <1>4, <2>1, <2>3, <2>4, <2>6 DEF Page
    <3> QED
      BY <1>4, <2>1, <2>2, <3>1
  <2> QED
    BY <1>4, <2>2, <2>5, <2>6
<1> QED
  BY <1>1, <1>5, <1>6, <1>7, <1>8

LEMMA CoveredNext ==
  ASSUME TypeOK, WalkBounds, ActiveRuns, SourceStays, Reached, SourceCovered, [Next]_vars
  PROVE  SourceCovered'
<1> SUFFICES ASSUME job'.state = "done", NEW i \in wanted' \ gone'
             PROVE  verdict'[<<Target, i>>] # "absent"
  BY DEF SourceCovered
<1>1. ~ \E replace \in BOOLEAN : Request(replace)
  BY DEF Request, NoJob
<1>2. i \in wanted \ gone /\ i \in Source /\ <<Target, i>> \in Runs /\ i \in Nat
  <2>1. wanted' = wanted /\ gone \subseteq gone'
    BY <1>1 DEF Next, Trigger, Drain, Prune, Overdue, StartPass, Work, OpenCursor, Claim,
                Refresh, FailForGood, DeleteAt, Stamp, Enqueue, Finish, Stops, vars
  <2> QED
    BY <2>1, Constants DEF SourceStays, Source, Runs, Ranks
<1>3. CASE job.state = "done"
  <2>1. ~ \E w \in Workers : DeleteAt(w)
    BY <1>3 DEF ActiveRuns, Active, DeleteAt
  <2> QED
    BY <1>2, <1>3, <2>1, RunSteps DEF SourceCovered
<1>4. CASE job.state # "done"
  <2>1. PICK w \in Workers : Finish(w)
    <3>1. job \in Job
      BY DEF TypeOK
    <3>2. ASSUME NEW w \in Workers, StartPass(w) \/ FailForGood(w) PROVE FALSE
      BY <1>4, <3>1, <3>2 DEF StartPass, Reaped, FailForGood, Job
    <3> QED
      BY <1>1, <1>4, <3>2, JobSteps
  <2>2. worker[w].phase = "enqueuing" /\ Page(w) = {} /\ verdict' = verdict /\ worker[w].cursor \in Nat
    BY <2>1, Constants DEF Finish, Exhausted, TypeOK, Worker
  <2>3. i <= worker[w].cursor
    BY <1>2, <2>2 DEF Page
  <2> QED
    BY <1>2, <2>2, <2>3 DEF Reached
<1> QED
  BY <1>3, <1>4

(* A finished job left no item of its source without a run of the target,  *)
(* whatever the drain, the feed's pruning and the reaper did meanwhile, as *)
(* long as the command holds its lock (backfill.py, stream_targets).       *)
THEOREM CoversItsSource == ASSUME SingleFlight PROVE Spec => []SourceCovered
<1> DEFINE Ind == /\ OneAtWork /\ ActiveRuns /\ WalkFirst
                  /\ SourceStays /\ Reached /\ SourceCovered
<1>1. Init => Ind
  BY DEF Init, OneAtWork, ActiveRuns, Active, WalkFirst, SourceStays, Reached, SourceCovered, Idle, NoJob
<1>2. TypeOK /\ WalkBounds /\ Ind /\ [Next]_vars => Ind'
  BY Alone, WalkNext, SourceNext, ReachedNext, CoveredNext
<1>3. Spec => []SourceCovered
  BY <1>1, <1>2, TypeCorrect, PTL DEF Spec
<1> QED
  BY <1>3
=============================================================================
