# Listening Kit: a TLA+ verification of its concurrent core

Listening Kit polls sources, collects their items into feeds, and runs *watches*
over feeds: each watch has a *path*, an ordered chain of actions (gate, score,
extract, webhook, notify, ...) that every new item passes through one action
at a time. The server (`src/apps/core`) is a Django application whose work is
done by scheduled management commands over one database: several processes,
no broker, and every protocol made of rows, compare-and-set updates and
cache-held locks. Its command-line client and its browser tabs talk to it over
HTTP, and each of them may be many. This directory models the parts where these
processes meet.

## Inventory

State is database rows unless said otherwise; paths are under `src/apps/core/`
except where they name another application. The last column says where the
component is modelled; the reasons for the parts that are not are under "Not
modelled".

| Component | State | Operations | Hard part | Correct when | Model |
|---|---|---|---|---|---|
| Run queue and drain (`watches/services/runs`, `watches/operations/drain.py`, `process_due_runs`) | `WatchActionRun` (state, attempts, started_at, completed_at), delivery rows | enqueue, reap, claim, judge, record, complete + advance | overlapping passes, late completions, crashes at any step, thread pool and SIGTERM | one verdict per item and action; a chain neither stalls nor skips; calls bounded by attempts | `RunQueue` |
| Job locks (`common/commands.py`, `common/locks.py`) | cache keys with a TTL | take, renew, release, clear | a killed holder; a holder that outlives its lock | one pass at a time; passes resume after a crash | in `RunQueue`, `FeedPoll`, `ChainEdit`, `SignIn`, `Outbox` |
| Digest windows (`watches/services/digest.py`, `_run_batches.py`, `operations/digest_flush.py`) | window row (close_at), pending runs | open, gather, emit, complete, fail, close | arrivals during the emit; edits to and from digest; two processes on the same runs | each item delivered once, none stranded | `DigestWindow` |
| Trigger (`watches/operations/trigger.py`) | the watch's cursor over item ids | scan new items, open the head's window, insert runs, advance the cursor | commit order of ids, several commits per pass | every new item gets one run of the head | `FeedPoll`, `DigestWindow`, `ChainEdit` |
| Chain editing (`watches/services/watches/_actions.py`) | actions and ranks | add, remove, set_config, replace_chain, next_in_chain | readers that do not take the path lock; renumbering under a constraint | an item's chain follows the path, no step skipped | `ChainEdit`; `set_config` in `DigestWindow` |
| Backfills (`watches/services/backfills.py`, `operations/backfill.py`) | `WatchActionBackfill` (state, heartbeat) | claim, delete phase, enqueue phase, finish, reap | a reaped worker that is still alive | the newest claim's runs survive | `Backfill` |
| Feed polling (`feeds/services/polling.py`, `feeds/services/feeds`) | feed items, per-source watermarks, poll state, a lease in the cache | poll, insert, advance, prune | lease renewal, partial walks, set edits during a poll | no item lost, none twice | `FeedPoll` |
| Source sets (`feeds/services/sources.py`) | sources and their watermarks | add, remove, replace | edits against polls | an edit does not lose another source's posts | `FeedPoll` |
| Source connectors (`sources/connectors`) | none | page through a listing from a watermark | several posts in one second, pages that shift | what is kept is everything new | the walk in `FeedPoll`; requests and parsing not |
| Tokens (`auth_api/views.py`, `services/tokens.py`) | token rows, a refresh lock in the cache | issue, refresh, revoke | concurrent refresh, a mint that fails half way | a refresh loses no session, a logout ends one | `SignIn` |
| Device sign-in (`auth_api/device_sessions.py`) | session bags in the cache | open, poll, complete, deny | read-modify-write of a bag | a denied session gives no token | `SignIn` |
| Command-line client (`src/apps/cli`) | `config.json` | load, refresh, save, wipe, login, logout | several processes, one file | no error drops good credentials | credentials in `SignIn`; the rest not |
| Mailer and waitlist (`mailer`, `waitlist`) | outbound mails, sign-ups | enqueue, claim, send, mark, fail, reap | send outside the transaction | every mail comes to rest, one copy without a fault | `Outbox` |
| Action executors (`watches/actions`) | none | judge one run | | an outcome | the set of outcomes in `RunQueue` |
| Watch service and views (`watches/services/watches`, `views.py`) | watches, paths | create, list, update | | | the cursor and the edit requests only |
| Settings, schema package | constants, enumerations | | caps and limits that must fit together | | constants of the modules |
| Links, telemetry, engine, plugins, ACP bridge (`src/integrations/acp-bridge`) | counters, a heartbeat row; the bridge the set of models at work | | | | no |

Interactions: polling inserts items; the trigger turns new items into runs of
the first action; the drain claims a run, judges it, and its success inserts
the run of the next action; an action in digest mode collects runs under its
window until the flush emits them, and the flush advances them; edits and
backfills rewrite the chain and its runs while all of this goes on. Sign-in and
the outbox share nothing with these but the kind of lock.

## Modules

| Module | What it is |
|---|---|
| `Chain` | The constants two modules share: items, the chain's length, the outcomes that end it. |
| `ChainLedger` | Abstract specification: what happened to each item at each position of the chain. Two steps: `Offer`, and `Settle`, which gives a set of open runs one verdict. |
| `RunQueue` | The run queue: table rows, drain processes with their claimed slots, the job lock, deliveries. Implements `ChainLedger`. |
| `DigestWindow` | One delivery action, its window, and the five parties that meet there: arrivals, flush, drain, edits, a backfill. Implements `ChainLedger` too. |
| `Backfill` | One backfill job, its workers, and the chain they rewrite while trigger, drain and prune go on. Its runs are `ChainLedger`'s. |
| `FeedPoll` | One feed from the upstream's listing to the runs of the chain's head: sources, pollers under a lease, items, the trigger. |
| `ChainEdit` | One path's action rows, the edits that renumber them, and the items that walk down them meanwhile. |
| `SignIn` | Token pairs, `config.json`, the CLI processes that share it, device sessions and browser tabs. |
| `Outbox` | Sign-ups, mails, the drain passes that send them. |
| `*_proofs` (`ChainLedger`, `RunQueue`, `DigestWindow`, `Backfill`, `FeedPoll`, `ChainEdit`, `SignIn`, `Outbox`) | Theorems and their proofs. |
| `MC*` | Instances for TLC. |

A definition whose comment begins with "Mutant" is not part of a model: it is a
plausible bug in the definition that follows it, and some property is known to
fail when it takes that definition's place.

### RunQueue

`row[<<rank, item>>]` is a `WatchActionRun`: its state, its attempts, whether
`completed_at` is set, and `age`, the ticks since `started_at`. A run of an
action exists once per item (the unique constraint of the table), so a row is
named by its rank and its item. `drain[d]` is a `process_due_runs` process: its
phase, the age of the `now` it began with, the cursor over its candidates, and
its slots, the runs it has claimed. A slot holds the attempts its claim wrote
(`claim`) and those `refresh_from_db` read back (`att`); `att` is the fence of
the completion. `lock` is the holder of the job lock.

| Action | Code |
|---|---|
| `Enqueue` | `enqueue_many` for the head of the chain |
| `StartPass` | `SingleFlightCommand.execute` takes the lock; `reap_stale` runs at the pass's `now` |
| `OpenCursor`, `ClaimDue`, `RefreshFromDb` | `claim_due`: the query, the CAS per candidate, the refresh |
| `Resolve` | `WatchDrainOperation._resolve`: the executor's outcome, whether it made an outbound call, and whether it returned an `OutboundActionResult` |
| `RecordDelivery` | the delivery row of an `OutboundActionResult`, in its own commit |
| `Complete` | the completion CAS and `enqueue_next` in one transaction |
| `DrainRaises` | `_safe_drain`: an error leaves the row RUNNING |
| `EndPass`, `Sigterm`, `Crash`, `ClearJobLock` | the end of a pass, orderly and not |
| `Tick` | time; a call in progress is bounded by its own timeout (`MaxCall`), the reaper by `Stale` |

Four facts of the code the model keeps because they decide what holds:
the claim stamps `started_at` with the *pass's* start, so a run claimed late is
born old; the claim is two statements; calls and delivery rows do not match one
to one (a call that raised leaves no row, and a blocked destination leaves a row
without a call, `webhook.py:101-105`); and in a pool the judges outlive the pass
that SIGTERM ended.

### DigestWindow

The window row is absent, closed, open or due. Arrivals from the previous
action read the config (`AdvanceReads`) and then open the window and insert in
one transaction (`AdvanceCommits`, or `AdvanceRollsBack` when the worker dies in
it); arrivals of a chain head come from the trigger, which opens the window in a
commit of its own and then inserts chunk by chunk (`TriggerStarts`,
`TriggerOpens`, `TriggerInserts`, `TriggerAdvancesWatermark`). A backfill of the
action inserts runs and opens no window (`BackfillInserts`). The flush is
`FlushPicks`, `FlushGathers`, `FlushDropsGone`, `FlushEmits` (outside any
transaction) and then `FlushCompletes` or `FlushFails`, which close the window
in the same transaction as the verdict if nothing is pending, or `FlushCloses`.
The drain is kept as far as it meets the action: its cursor skips an action that
has a window row (`DrainOpensCursor`), its CAS does not look again
(`DrainClaims`), and it reaps a row whose worker died (`DrainReaps`).
`SetConfig` writes the mode and clears the window in one transaction.

Row locks are modelled by making each transaction one action, which is what
`select_for_update` on the window row gives the transactions that take it; those
that do not (the trigger's inserts, the advance's config read, the drain's
query) are actions of their own.

`Verdict` shows the action and the one after it to `ChainLedger` as a chain of
two positions: the first is the item's run, the second whether the item is in
`next`.

### Backfill

`Backfill` extends `ChainLedger`: `verdict` is the table of runs at the grain
that `RunQueue` and `DigestWindow` are shown to implement, so one drain step is one `Settle` with
its advance. `job` is the `WatchActionBackfill` row, with `late` for a
`started_at` older than the stale limit and `marked` for `replace_deleted_at`;
`worker[w]` is a pass of `process_due_backfills`, with its snapshot of the
state (`seen`), its fence (`att`), its place in the delete walk (`rank`) and in
the paged enqueue (`cursor`).

| Action | Code |
|---|---|
| `Request` | `WatchActionBackfillService.create` |
| `StartPass`, `OpenCursor`, `Claim`, `Refresh` | the command's reap, the candidates query, the CAS, `refresh_from_db` |
| `FailForGood` | `_fail`: target or watch gone |
| `DeleteAt` | one action's `delete_terminal_for_action`, its source subquery evaluated then |
| `Stamp` | the delete-once marker, guarded by the claim; a worker that lost the claim goes on |
| `Enqueue`, `Finish` | a page of `enqueue_many` over the keyset stream; the guarded DONE |
| `Stops` | an exception or a death: the job stays RUNNING |
| `Trigger`, `Drain`, `Prune`, `Overdue` | the rest of the system, and time |

### FeedPoll

A post is a number in the order the upstream lists posts; `at[p]` is the second
it is stamped with, 0 while it is not published. `row[s]` is a `Source`: whether
it is in the feed, its incarnation (a source added again is a new row), its
watermark, and the watermark it began with. `item[p]` is the `FeedItem` of a
post, with the id of the chunk that inserted it and the time that id was
minted; ids are minted in the process (`ids`), before the commit, which is what
makes their commit order a question. `poller[w]` is a process in `poll_feed`
with the source rows as its query read them (`Snapshot`), `lease` the cache key
it renews, `cursor` the watch's `last_item_id`, `runs` the runs of the head.

| Action | Code |
|---|---|
| `Publish`, `Tick` | the upstream, and time |
| `AddSource`, `RemoveSource` | `set_sources` and `remove_by_id`, the second without the feed-set lock |
| `Lock` | `poll_feed`: the lease, or a skip; `started_at`, the first query |
| `OpenRest` | `iter_for_poll` for the kinds other than reddit |
| `RenewGet`, `RenewSet` | `LockLease.renew`, a get and a set; who lost the lease drops the rest |
| `FetchPage`, `FetchFails` | one page of a connector's walk, or its error |
| `BuildChunk`, `InsertChunk` | `_record_chunk`: the lookup that mints ids, and `bulk_create(ignore_conflicts)` |
| `AdvanceMark` | `advance_watermark`, by row id and only forward |
| `ClosesCycle`, `Prune` | the end of a cycle; the retention prune, skipped if every source failed |
| `Raises`, `PollerDies`, `LeaseExpires` | an unhandled error, a death, the TTL |
| `ReleaseGet`, `ReleaseDelete` | the release of `named_lock` |
| `TriggerReads`, `TriggerEnqueues`, `TriggerAdvances`, `TriggerStops` | `WatchTriggerOperation` |

Three ways to read a listing are modelled, because the properties tell them
apart: a keyset by second (`hackernews`: everything up to the second of the
oldest hit so far), a listing with a cursor by entry (`reddit`, whose sources are
fetched together from the earliest of their watermarks), and one answer (`rss`
and the searches). They differ also in whether the second of the watermark is
read again (`IsNew`). A walk ends because it is through (`IsThrough`: an empty or
short page, or an entry older than `since`) or because it met its page cap
(`EndsWalk`); the second is noted in `faults.capped`, since it is the one end
that drops posts by design.

### ChainEdit

`rank` maps the rows of one path to their ranks, `editor[e]` is an edit request
with what it asked for and what it has read, `lock` the path-chain lock. An edit
`Asks`, `TakesLock` (or gets its 409), `Reads`, and then `Refuses`, `Writes` or
`Clashes`, and `Releases`. A chain in order is a function from its rows to
`0 .. n-1` that takes every rank once (`Orders`); `Place` is what
`list_for_path` and a renumbering make of any distinct ranks: the number of rows
in front of each. `Ordered` is the chain an edit means to leave (`Inserted` for
an add, `Place` of what stays for a remove, the request's order for a replace),
`Offset` the first pass's shift. `Statements` are the three a transaction writes
(parked new rows, the first pass past the largest rank, the dense ranks), each
with the table it finds (`Grown`, `Lifted`), so that a collision with the
(path, rank) constraint is a property of every statement and not of the final
chain alone.
Items walk meanwhile: a trigger pass reads the head once (`TriggerReads`,
`TriggerEnqueues`, `TriggerEnds`), the drain loads the row of a run's action
(`Loads`) and later looks for the successor of the rank it loaded (`Passes`), or
stops the item (`Stops`).

### SignIn

`pair[p]` is an access token and its refresh token with the pair they replaced
(`parent`); `file` the pair in `config.json`; `cli[c]` a process, with the pair
it loaded (`mem`) and, while a refresh is under way, the place of the request on
the server; `lock[p]` the refresh lock of a pair; `bag[n]` a device session in
the cache; `tab[t]` a browser request between its read of a bag and its put.

| Action | Code |
|---|---|
| `Starts`, `Served`, `Unauthorized` | a CLI command, its request, a 401 with no retry left |
| `Refresh`, `Checks`, `Rotates`, `MintFails` | `TokensRefreshView`: try-lock, the check, revoke and mint in one transaction, or its rollback |
| `AnswerLost`, `WorkerDies`, `LockExpires` | a lost answer, a dead web worker, the lock's TTL |
| `Saves`, `Wipes` | the client after a 200 and after a 401 |
| `Revokes`, `Clears` | logout: the server's side and the file |
| `Opens`, `Polls`, `PollFails`, `SignsIn`, `TimesOut` | `auth login` and its loop |
| `CompleteReads`, `CompletePuts`, `Denies`, `BagExpires` | the browser's views and the cache |
| `AccessExpires`, `CliDies` | the access token's TTL; Ctrl-C |

### Outbox

`listed` and `voted` are the waitlist, `request[r]` a sign-up between its row
and its mail, `mail[m]` an `OutboundEmail` with its state, attempts, the ticks
until it is due and those since it was claimed, `drainer[d]` a pass of
`send_outbound_emails`, `sent[m]` how often the SMTP server accepted the mail.
`SignsUp` and `Enqueues` are two commits of one request, and `RequestDies` falls
between them. A pass is `StartPass` (with its reap), `Queries`, `Claims`,
`Refreshes`, then `Sends` and `Marks`, or `SendRaises` and `Records`;
`RaisesBehind` is an error after the server took the mail, `MarkRaises` a mark
that fails. `PassDies` may happen anywhere, `ClearsDead` and `ClearsLive` clear
the lock of a dead pass and, by mistake, of a live one.

## Runs

Every constant that bounds a run is named in its `.cfg`.

| Run | Instance | Shows |
|---|---|---|
| `queue_single` | 2 items, 1 action, 2 attempts, one serial drain at a time, 2 stops, fairness | the shipped default: `NoFalseReap`, `FenceIsOwn`, and every enqueued run comes to rest (`RunsSettle`) |
| `queue_fleet` | 1 item, 2 actions, 3 attempts, two pooled drains without lock, 1 stop | false reaps and stolen fences occur, and `ImplementsLedger`, `NoStalledChain`, `AuditBeforeVerdict`, `CompletedMeansFinal`, `PostsWithinAttempts` survive them |
| `window_advance` | 3 items, batches of 2, 1 stop, fairness | no orphan, the drain stays out, `ImplementsLedger` by batches, one delivery, every arrival settles |
| `window_edits` | 2 items, trigger-fed, one of them in a backfill, batches of 1, 2 edits, 1 stop | drain and flush on the same run: verdicts stand |
| `backfill_single` | 2 items, 3 actions, target in the middle, 2 attempts, fairness | no regenerated run is deleted, a done job covered its source, the job settles |
| `feed_poll` | 1 keyset-paged source, 4 posts in 2 seconds, pages of 3, 2 pollers, 1 expired lease, 1 crash | nothing between a walk and a watermark is lost, no item is missed by the trigger, none is triggered twice |
| `feed_group` | 2 reddit sources, 3 posts, 1 poller, 1 source added again, 1 crash, prune at once | a group walk loses no source's posts, an edit during a poll does not move a new row's watermark |
| `chain_edit` | a chain of 2 with ids for a third action, 2 operators, 2 edits, 1 expired lock, 1 item | edits under the lock renumber what is there, never collide, leave dense ranks and the others' order; filters gate unless their rank moved under a judge |
| `sign_in` | 2 CLI processes, 1 tab, 3 pairs, 1 session, 2 polls, 1 fault, fairness | one exchange per refresh token, nothing revoked without cause, logouts and denials hold, no error drops good credentials, a login ends |
| `outbox` | 2 members, 1 request at a time, 2 drain passes, 2 attempts, 1 fault, fairness | deliveries within attempts, one without a fault, `SENT` means sent, nothing stuck, final rows stay, every mail rests |
| `backfill_refill` | 1 item, 3 actions, 1 attempt | a violation, see below |
| `chain_skip` | a chain of 3, 1 operator, 1 edit, 1 item, no expired lock | a violation, see below |

Two runs each refute one sentence of the repository:

* `backfill_refill`: a replace "regenerates the whole chain from the target
  down" (`watch_action_backfill.py:26`). The walk deletes one action's runs per
  statement and leaves open ones; a target run open at its own delete succeeds
  and advances, the next statement deletes the finished successor, and the
  enqueue skips the item because its target run exists.
* `chain_skip`: a filter "gates the chain" (`README.md:123`). `next_in_chain`
  starts from the rank the drain loaded before the judge; an edit that renumbers
  in between gives that rank another meaning, and the successor found stands
  behind a filter that never judged the item. `chain_edit` shows that this is
  the only way: `GatesUnshifted` holds, and `FiltersGate` proves it.

### Bounds

Two drains, pollers, editors or CLI processes are enough for every race between
a holder, the one who takes its place, and the holder's late step; a third party
that comes later is one of the first two again, because each becomes idle. The
proofs lift this bound where a theorem names the property. In `backfill_single`
one worker is enough: under the lock at most one is not idle, and idle workers
are all alike. `Stale = 2` and `MaxCall = 1` is the smallest scale on which a
call is shorter than the reap deadline, which the settings require, and a pass
can be longer than it. Two attempts give a first, a last and a retry; the third
in `queue_fleet` gives a claim that is neither. The rejection of `queue_fleet`
is `errored`, the one a blocked destination gives, and that of `queue_single` is
`gated`. A page of 3 with 4 posts gives a walk of several pages and posts that
share a second across a page's end; two inserted chunks are two polls that both
found something; no walk of `feed_poll` or `feed_group` meets its cap, so there
`NothingStranded` is checked without its condition. `MaxStops`, `MaxCrashes`,
`MaxFaults`, `MaxLapses` bound what goes wrong, `MaxEdits` the operators.
`feed_poll` and `chain_edit` use symmetry of the processes; both check safety
only.

### Fairness

`queue_single` assumes the scheduler starts passes again and again, a live pass
goes on working, an orphaned lock is cleared (by its TTL or `clear_job_locks`),
and time passes. Per slot nothing more is needed: a pass that can do something
does something, and a stuck judge is bounded by its timeout. Errors in judging
(`DrainRaises`), stops and new arrivals get no fairness. `window_advance` assumes
the same of its three jobs and that an arrival's transaction ends. Nothing
assumes that a run succeeds: rest includes giving up at the attempts cap.
`backfill_single` also assumes that a pass does not die every single time
before it has claimed (strong fairness of the query and of the claim); a death
after the claim needs no assumption, because it costs an attempt. `sign_in`
assumes only that the loop of `auth login` goes on, which it does by itself (a
sleep with a timeout and a request with one); nothing is assumed of the browser,
the server or the cache. `outbox` assumes that the ticker starts passes, a live
pass goes on, time passes, and the lock of a dead pass is cleared; a send may
fail every time, because failing uses attempts up. `FeedPoll` and `ChainEdit`
claim no liveness: a poll that fails every time records nothing, and an edit is
one request.

Deadlock is checked in every `RunQueue` and `Backfill` run. It is off for the
other modules, where the system may rest: every item settled and no further
arrival, no time or post left in the bounds, no edit asked for, a user signed
out, nobody on the waitlist.

## Proofs

The theorems hold for every value of the constants their module's `ASSUME`
allows: any number of items, actions, processes, attempts, posts and pairs. Where
a theorem needs more, it says so as its own `ASSUME`: `SingleFlight` or `Serial`
(the command's lock, and one run at a time) and `Plain` (a window without edits
of its action and without backfills). Those are the deployments in which the
property is true; what happens outside them is under "What does not hold".

**ChainLedger.** `LedgerChains`: a position is reached exactly when its
predecessor succeeded. The invariant is inductive together with the type.

**RunQueue.**
* `TypeCorrect`, `CompletedExact`: proved together. `IInv` adds that a row which was
  never offered is blank (`BlankUntilOffered`), so an insert creates a fresh row, and
  that a slot past its judge carries a real outcome (`OutcomeKnown`), so a
  completion cannot write "none". Without the first, an advance onto an
  "absent" row with leftover attempts would break both; without the second,
  `Complete` breaks `TypeOK`.
* `QueueImplementsLedger`: `Spec => ImplementsLedger`, with `Verdict` as the
  refinement mapping. A claim, a reap below the cap and a retry map to
  stutters; a completion maps to `Settle` of one run with its advance; a reap maps
  to `Settle` of all the exhausted rows at once. The argument uses
  `IInv`: a claimable row under the cap and a RUNNING row are both "open".
* `NoChainStalls`: by the refinement and `LedgerChains` instantiated with the
  mapping.
* `SuccessIsAudited`, with `AuditReady`: a slot that decided on success for an
  outbound action already has its delivery row.
* `CallsAreBounded`: calls and delivery rows are each counted against the claims.
  The calls made and the claims that may still make one (`Unspent`) never exceed
  the row's attempts together, nor do the delivery rows and the claims that may
  still write one (`Unaudited`); this needs that two slots with the same claim of
  the same run do not exist (`OwnClaims`). Neither the lock nor the fence is
  used, and the stolen fences of `queue_fleet` do not matter. The two bounds are
  separate because neither count bounds the other.
* `WorkersKeepTheirRuns`, `FencesAreOwn`, under `Serial`: one drain is at work
  (`OneAtWork`), and it owns what it holds (`Owns`: the row is RUNNING with the
  attempts its claim wrote). A reap runs only at the start of a pass, when
  nobody holds anything.

**DigestWindow.** `RowsSound` and `SettledStays` hold without conditions: every
write of a run is an insert, a guarded flush write, or a drain's write to a row
it holds RUNNING (`HeldRuns`). The rest is proved under `Plain`, for an action the
advance feeds and for one the trigger feeds. `DrainNeverEnters` follows from
`Calm`: the window row exists before the first run does, and nothing removes it,
so the drain's cursor stays empty. `NoOrphans` builds on it and needs the advance
(`~HeadFed`): then a run becomes pending only in the transaction that opens the
window. `DeliveredWithCrashes` charges a repeated delivery to the crash that lost
the verdict (`SentCounts`).

`DigestImplementsLedger` is the same contract as `QueueImplementsLedger`, kept by
another mechanism: a flush completes a batch with one `Settle` of all its runs
and brings them to the next action in it (`SettleByRows`), a failed emit settles
the runs it brought to the cap, items that are gone are settled as errored, and a
gather, an emit or a crash is a stutter. It rests on a gathered batch staying
pending until its own verdict (`BatchPending`), which `Calm` gives: what the
flush believes of the batch is still so when it writes. `AdvancesExactly` is the
ledger's theorem read through this mapping.

**Backfill.** Under `SingleFlight` one pass is past its claim (`OneAtWork`) and
its job is RUNNING (`ActiveRuns`), so a worker that deletes has seen the marker
unset (`WalkFirst`) and no regenerated run exists yet (`MarkFirst`):
`RegeneratedForGood`. `CoversItsSource` adds that the source only shrinks by the
prune (`SourceStays`) and that the pages behind the cursor are complete
(`Reached`).

**FeedPoll.** The ids a process holds are its own and larger than those of every
earlier chunk (`Minted`). `OneRunEach`: a run names the id its post has
(`RunsNamed`), and while the prune keeps every post that id is the only one it
ever gets, because `bulk_create` ignores a conflicting row. `NoneIsMissed`: while
one poller is at work (`Single`), an uncommitted id is ahead of every committed
one (`Ahead`), so what the trigger has scanned is complete (`Scanned`).

`NoneIsStranded`: a post of a subscribed source that is out, was out late enough
for the source to owe it, and was never recorded, is not behind the watermark.
It holds for any page size and any number of posts, sources and pollers, with
expired leases, deaths and edits. The argument goes from the listing to the
watermark:
* `Clock` and `Walking`: posts come out in the order of their seconds, and a
  process holds the rows it read, whose watermarks have only moved forward since
  (`ReadRow`), or those of an earlier row of the source.
* `Walked`: a walk at `after` has, of each of its sources and from the row's
  `since` on, every post listed at `after` or later in it, and a walk that is
  through has all of them; a post that came out behind its back is newer than
  all it pulled (`Handled`). The step is `PageTakes`. It needs that a page has
  the newest posts of its listing and a short page all of them (`PageFacts`),
  that the keyset reads the second it stopped in again, and that a group is read
  from the earliest of its watermarks (`SinceFacts`).
* `Recorded`: when the watermark of a source is about to move, what the walk
  pulled of it is recorded; `MovesBehind` puts the two together.

`Walked` is stated while no walk met its cap, the one condition the property has.

**ChainEdit.** `Sound` describes a table with distinct ranks (`TableSound`), ids
used once (`FreshIds`), requests as `Asks` builds them (`RequestsSound`) and
judges with a running run (`JudgedRuns`). What the operators return is proved
without a sort: `PlaceFacts` (`Place` of distinct ranks is a bijection onto
`0 .. n-1` that keeps the order, through the cardinalities of initial segments),
`InsertedFacts`, `ParkedFacts`, `OffsetFacts`.
* `EditsExclude`: who has read the chain holds the lock (`Excluded`), so the
  read is current until the commit.
* `RanksStayDense`: `Dense` says the ranks are one of the `Orders` of the rows,
  and a commit from a current read writes one (`CurrentWrite`, `CommitFacts`).
* `StatementsKeepClear`: with a current, dense read the parked ranks begin past
  the largest rank of the table, and the first pass past both (`CurrentEdit`).
* `OrderIsKept`: an add and a remove write the order they read.
* `FiltersGate` assumes nothing of the lock: `WalkedPast` says that the first of
  two rows an item remembers in order has succeeded once the item has a run of
  any row further down, and `HeadFirst` that a loaded head stands before
  everything a new item remembers. Both survive any commit, because one that
  reorders makes the items forget (`walk`); `AnyEdit` shows that even a commit
  from an old read leaves the ranks distinct, or is rolled back.
* `TypeCorrect`: ids, ranks and requests stay in their sets.

**SignIn.** `TypeCorrect` with `IdsKnown`: nobody holds a pair that was not
minted. `DeniedForGood`: a denied bag is gone and no tab holds it. `ExchangedOnce`
rests on `Guarded`: between its check and its mint a refresh holds the lock of a
live token with no successor. `RevokedWithCause` on the transaction, which
revokes and mints in one step; `LogoutIsFinal` on an ended pair being revoked and
nobody being past its check. `GoodCredentialsKept`: a process that was rejected
knows the pair it holds is spent (`Excused`), so its wipe drops either a dead
pair or one it never held.

**Outbox.** `FinalRowsStay` (claims, reaps and marks are guarded by states that
are not final), `NoneIsStuck` (a reap and a failure put a row back only below the
cap), `WelcomeAlwaysFollows`. `SentIsBounded` counts the senders that hold a mail
unsent (`Unsent`) together with the deliveries against the attempts.
`MarkedIsSent`: who marks has sent (`MarkBehindSend`), and whoever's fence it
uses, the row gets its mark behind a delivery. `SentOnceWhenCalm`: without a fault
passes are alone (`Alone`), so no claim is taken back under a sender.

Only model-checked: liveness (`RunsSettle`, `ArrivalsSettle`, `JobSettles`,
`LoginEnds`, `MailRests`), which is out of the prover's reach as fairness and
ENABLED are. Every other property of a passing run is the statement of a theorem.

## What does not hold

The properties above are stated with the conditions under which the code keeps
them. Without the condition, TLC finds a counterexample or the code shows it
directly. Each of these is listed so that a reader does not take the condition
for granted.

Run queue:
* In a pool, a judge that finishes after SIGTERM may find its row reaped: the
  lock is free while the judges run on. Its verdict is dropped by the fence, and
  the run is judged again.
* Without the lock, a run claimed late in a long pass is stamped with the
  pass's start and may be reaped under a live worker; and a reap and a re-claim
  between a claim's CAS and its refresh hand the first worker the second one's
  fence. `NoFalseReap` and `FenceIsOwn` are claims about the serial pass with the
  lock.

Digest windows:
* `NoOrphan` fails for a window the trigger feeds: the trigger opens it in one
  commit and inserts in later ones, and a flush can close it in between. The
  runs wait for the next arrival.
* An advance that read the digest config before an edit to instant opens the
  window again behind the edit. The row is not removed any more, and the drain
  leaves the action alone, though it is instant now, as long as the row is there.
* A run that failed once as an instant run is in nobody's worklist after an edit
  to digest, once a window is opened: the drain skips the windowed action and the flush gathers pending
  runs only.
* An edit to instant while a batch is being emitted lets the drain deliver the
  same runs; a backfill of a digest action does the same through runs without a
  window. `NoOrphan`, `DeliveredOnce` and `ImplementsLedger` all fail there; what
  stays is `VerdictsStand`.

Backfill: without the command's lock, a worker that was reaped and is still alive
deletes runs a later claim regenerated; the deletes are not fenced.
`RegeneratedStays` is a claim about the lock.

Polling and trigger:
* Two pollers at once, which an expired lease allows, may commit their chunks in
  the opposite order of their ids; the trigger's cursor passes the smaller id
  before its items are there, and they get no run.
* The searches (github, twitter) ask for what is newer than the watermark's
  second, so a post of that second that arrives after the poll is lost to them
  (`IsNew` for "search").
* A walk that reaches its page cap moves the watermark to the newest post, and
  what lies below the cap is dropped with a log line. `NothingStranded` excludes
  what happens after such a walk (`faults.capped`), and the searches.
* A post at the watermark that the prune removed is recorded again by the next
  poll, and makes a second run. `TriggeredOnce` speaks of the time the retention
  covers.

Chain edits:
* An action added in front of one that is being judged shifts that one's rank,
  and the successor found is the action itself: its run exists, nothing is
  inserted, and the item's chain ends there.
* A trigger pass whose loaded head is removed inserts runs of a row that is
  gone; they end as ACTION_GONE.
* An edit whose lock expired may renumber from an old chain.

Sign-in:
* A process whose pair was rejected clears `config.json` though another process
  has saved a fresh pair by then. `KeptWhileGood` names this case.
* A rotation whose answer is lost leaves the client with a spent token; its next
  refresh logs it out.
* A logout and a refresh of the same pair that cross may leave the fresh pair
  live.
* A deny between a completion's read and its put is undone by the put.
* Two tabs that complete one session mint a pair each, and one of them is held by
  nobody.
* A completed session is deleted as it is read; if that answer is lost, the login
  times out although the browser said yes.
* The once-a-day update check writes `config.json` back as it read it
  (`save_update_check`), without a lock, as `save` does for the records of other
  environments. One that crosses a rotation, a login or a logout puts the old
  credentials back. `KeptWhileGood` speaks of the commands that write
  credentials; the update check is not modelled.

Outbox: with faults a mail may go out more than once (a death between the send
and the mark), up to the attempts cap. A sign-up whose request dies before it
enqueues never gets its mail, because a repeated sign-up sees the row.

## Where comments and code disagree

Besides the two sentences that `backfill_refill` and `chain_skip` refute, the
models follow the code where these say something else:

* `MagpieClient._refresh` (`src/apps/cli/src/openmagpie/http.py:163-165`) says
  "Non-2xx from the server: token is dead; clear local creds + save before
  raising AuthError". The code below it (172-183) clears them on a 401 only; any
  other answer raises `ApiError` and leaves them, as its comment explains.
  `KeptWhileGood` depends on the code: its mutant `ConflictWipes` does what the
  docstring says, and drops a good pair when the server answers 409 to the
  second of two refreshes.
* `WatchDrainOperation.run` (`drain.py:82-85`) calls the delivery row "a true
  record of a real POST", and `OutboundActionResult` (`protocol.py:97`) is "from
  an action that made an outbound HTTP call". A blocked destination
  (`webhook.py:101-105`) gives such a result, and so a row, with no call made;
  `protocol.py:61-62` does name that case. A run may therefore have more
  delivery rows than calls.
* `_poll_source` (`polling.py:249-250`) says "items with `occurred_at <= since`
  are skipped", and the docstring of the rss connector
  (`sources/connectors/rss/connector.py:4`) that it yields entries "with
  `occurred_at > since`". Hacker News (`algolia.py:180-183`), rss (line 247) and
  reddit (line 323) keep the second of the watermark; only the searches skip it.
  `NothingStranded` relies on it being read again (`IsNew`).

## Plan

The plan of the first version is done: chain edits, polling with the trigger,
the backfill against the digest window, token refresh and sign-in, the outbox,
and the proofs of the safety invariants under the conditions that make them
true. What would come next:

1. The type of `FeedPoll` as a theorem, which needs that a walk's group has one row
   per source (the bound of its pages). The other modules have theirs; what
   `NoneIsStranded` needs of the types is in `Well`, `Clock`, `Tables` and
   `Walking`.
2. `ChainEdit` joined with `RunQueue`: an item that walks a chain which edits
   change, at the grain of claims.
3. The config of an action with a masked secret, which `set_config` merges
   outside the path lock and `replace_chain` inside it: one of two edits at once
   may be lost.

## Not modelled

Left out as components:
* The engine, prompts, templates, payloads, and the requests of the connectors
  and executors: conversions and I/O that keep no state between two calls. What
  the rest of the system sees of them is an outcome, an error, or a page of
  posts, and these are in the modules as free choices.
* The web front end, the presentation commands of the CLI, serializers, views,
  request schemas and migrations. They are most of the repository's lines and
  hold no protocol: each view is one service call, each command prints an answer.
  The share of the source that the modules stand for is small for this reason.
* Plugins: loading and validation at start-up, sequential.
* Short links and telemetry: one conditional write each, whose loss the code
  accepts.
* The ACP bridge: a request starts a process, relays its answer and ends it. Its
  one piece of shared state is the set of models at work, which turns a second
  request for a model away with a 429.

Within the modelled parts: a backfill's window bounds and its counts,
several jobs at once (a locked pass runs them one after another),
heartbeats inside a connector's walk, a feed's due time and backoff (a poll may
start at any time), `scheduled_at` in the future (runs are due when they are
inserted), several watches or accounts (rows of different actions do not
interact), a watch that is paused, result and kind columns, the deletion of
actions under their runs in `RunQueue` and `DigestWindow` (`ChainEdit` has it),
personal access tokens and browser cookies, and the writers of `config.json`
that carry no credentials (`save_update_check`, the records of other
environments).
