------------------------------ MODULE FeedPoll ------------------------------
(***************************************************************************)
(* One feed: its sources are polled into items, and a watch's trigger      *)
(* turns the items into runs.                                              *)
(*                                                                         *)
(* A poller is a process in `poll_feed`.  It holds the feed's poll lease,  *)
(* a cache key it renews before each fetch; the key may expire under it.   *)
(* A fetch walks an upstream listing newest first, page by page, from the  *)
(* source's watermark; the items are inserted in chunks, and the watermark *)
(* moves only after the last of them.                                      *)
(*                                                                         *)
(* Posts are numbered in the order the upstream lists them, so the newest  *)
(* is the largest.  `now` counts the seconds at which posts are stamped.   *)
(***************************************************************************)
EXTENDS Integers, FiniteSets

CONSTANTS
  Source, Poller,
  MaxPosts,    \* bound: posts published
  Home,        \* the source a post appears in
  Kind,        \* the connector of a source
  PageSize,    \* entries of one page of a paged listing; fewer share a second
  MaxPages,    \* pages one walk fetches at most
  Retention,   \* retention_days, in ticks of `now`
  MaxTime,     \* bound: seconds
  MaxInserts,  \* bound: chunks inserted
  MaxLapses,   \* bound: leases that expire under a live holder
  MaxCrashes,  \* bound: pollers and trigger passes that stop or die
  MaxEdits,    \* bound: sources added
  Nobody       \* the lease is free

Post == 1 .. MaxPosts
Time == 0 .. MaxTime
Kinds == {"rss", "hackernews", "reddit", "search"}

ASSUME FeedAssumption ==
  /\ MaxPosts \in Nat
  /\ Home \in [Post -> Source]
  /\ Kind \in [Source -> Kinds]
  /\ PageSize \in Nat \ {0}
  /\ MaxPages \in Nat \ {0}
  /\ Retention \in Nat
  /\ MaxTime \in Nat \ {0}
  /\ MaxInserts \in Nat
  /\ MaxLapses \in Nat
  /\ MaxCrashes \in Nat
  /\ MaxEdits \in Nat
  /\ Nobody \notin Poller

VARIABLES
  at,         \* when a post was published; 0 before
  now,
  row,        \* Source rows: present, incarnation, watermark, first watermark
  item,       \* FeedItem rows: id (0: none) and the time the id was minted
  ids,        \* ids minted so far; one per chunk, its rows commit together
  seen,       \* history: posts that were ever recorded
  poller,     \* the poll processes
  lease,      \* the feed_poll_lock key
  trigger,    \* the watch's trigger pass
  cursor,     \* WatchFeed.last_item_id; 0: blank
  runs,       \* runs enqueued for the chain's head: post and item id
  lapsed,     \* history: two pollers were at work at once
  faults      \* lapses, crashes, added sources so far; has a walk met its cap?

feedVars == <<row, item, ids, seen>>
pollVars == <<poller, lease, lapsed>>
watchVars == <<trigger, cursor, runs>>
vars == <<at, now, row, item, ids, seen, poller, lease, trigger, cursor,
          runs, lapsed, faults>>

Row == [on : BOOLEAN, gen : 1 .. MaxEdits + 1, mark : Time, from : Time]
Item == [id : 0 .. MaxInserts, born : Time]

(* A Source row as the streaming query read it.                            *)
Snapshot == [src : Source, gen : 1 .. MaxEdits + 1, since : Time]

PollerState ==
  [pc : {"idle", "pick", "renewing", "walk", "settle", "insert",
         "advance", "pruning", "release", "releasing"},
   rest : BOOLEAN,           \* the reddit group is done, the others are open
   todo : SUBSET Snapshot,
   unit : SUBSET Snapshot,   \* the sources of the fetch under way
   done : BOOLEAN,           \* its walk has ended
   pages : 0 .. MaxPages * Cardinality(Source),
   after : 1 .. MaxPosts + 1,  \* the walk has reached this post
   pulled : SUBSET Post,
   cur : SUBSET Snapshot,    \* the source whose items are being recorded
   chunk : SUBSET Post,      \* rows built and not committed
   id : 0 .. MaxInserts,
   born : Time,
   began : Time,
   any : BOOLEAN,            \* the feed had sources
   ok : BOOLEAN]             \* one of them answered

Idle == [pc |-> "idle", rest |-> FALSE, todo |-> {}, unit |-> {}, done |-> FALSE,
         pages |-> 0, after |-> MaxPosts + 1, pulled |-> {}, cur |-> {},
         chunk |-> {}, id |-> 0, born |-> 0, began |-> 0, any |-> FALSE,
         ok |-> FALSE]

TypeOK ==
  /\ at \in [Post -> Time]
  /\ now \in Time
  /\ row \in [Source -> Row]
  /\ item \in [Post -> Item]
  /\ ids \in 0 .. MaxInserts
  /\ seen \subseteq Post
  /\ poller \in [Poller -> PollerState]
  /\ lease \in Poller \cup {Nobody}
  /\ trigger \in [pc : {"idle", "scan", "advance"}, through : 0 .. MaxInserts]
  /\ cursor \in 0 .. MaxInserts
  /\ runs \subseteq Post \X (1 .. MaxInserts)
  /\ lapsed \in BOOLEAN
  /\ faults \in [lapses : 0 .. MaxLapses, crashes : 0 .. MaxCrashes,
                 edits : 0 .. MaxEdits, capped : BOOLEAN]

Init ==
  /\ at = [p \in Post |-> 0]
  /\ now = 1
  /\ row = [s \in Source |-> [on |-> TRUE, gen |-> 1, mark |-> 0, from |-> 0]]
  /\ item = [p \in Post |-> [id |-> 0, born |-> 0]]
  /\ ids = 0
  /\ seen = {}
  /\ poller = [w \in Poller |-> Idle]
  /\ lease = Nobody
  /\ trigger = [pc |-> "idle", through |-> 0]
  /\ cursor = 0
  /\ runs = {}
  /\ lapsed = FALSE
  /\ faults = [lapses |-> 0, crashes |-> 0, edits |-> 0, capped |-> FALSE]

-----------------------------------------------------------------------------
(* The upstream publishes the next post, and time passes.  One second      *)
(* never fills a page (the assumption algolia.py states for its keyset).   *)
Publish(p) ==
  /\ at[p] = 0
  /\ Cardinality({q \in Post : Home[q] = Home[p] /\ at[q] = now}) < PageSize - 1
  /\ \A q \in Post : q < p => at[q] > 0
  /\ at' = [at EXCEPT ![p] = now]
  /\ UNCHANGED <<now, faults, feedVars, pollVars, watchVars>>

Tick ==
  /\ now < MaxTime
  /\ now' = now + 1
  /\ UNCHANGED <<at, faults, feedVars, pollVars, watchVars>>

(* remove_by_id, and set_sources with a row that was not there: a new row  *)
(* with a watermark of the operator's, never in the future.                *)
RemoveSource(s) ==
  /\ row[s].on
  /\ faults.edits < MaxEdits
  /\ row' = [row EXCEPT ![s].on = FALSE]
  /\ UNCHANGED <<at, now, item, ids, seen, faults, pollVars, watchVars>>

AddSource(s, m) ==
  /\ ~row[s].on
  /\ m <= now
  /\ row' = [row EXCEPT ![s] = [on |-> TRUE, gen |-> @.gen + 1, mark |-> m, from |-> m]]
  /\ faults.edits < MaxEdits
  /\ faults' = [faults EXCEPT !.edits = @ + 1]
  /\ UNCHANGED <<at, now, item, ids, seen, pollVars, watchVars>>

-----------------------------------------------------------------------------
(* Becomes(w, p): poller w is p, and the rest of the poll is unchanged.    *)
Becomes(w, p) == poller' = [poller EXCEPT ![w] = p]

(* Rows of a kind, as a query reads them.                                  *)
Open(S) == {[src |-> s, gen |-> row[s].gen, since |-> row[s].mark] :
              s \in {t \in S : row[t].on}}
RedditRows == Open({s \in Source : Kind[s] = "reddit"})
OtherRows  == Open({s \in Source : Kind[s] # "reddit"})

(* poll_due_feeds reaches the feed (it comes due again at any time) and    *)
(* poll_feed takes the lease, or skips; then `started_at`, the count of    *)
(* sources and the query of the reddit group.                              *)
Lock(w) ==
  /\ poller[w].pc = "idle"
  /\ lease = Nobody
  /\ lease' = w
  /\ Becomes(w, [Idle EXCEPT !.pc = "pick", !.began = now, !.todo = RedditRows,
                             !.any = \E s \in Source : row[s].on])
  /\ lapsed' = (lapsed \/ \E v \in Poller \ {w} : poller[v].pc # "idle")
  /\ UNCHANGED <<at, now, faults, feedVars, watchVars>>

(* iter_for_poll: the other kinds, queried when the reddit group is done.  *)
OpenRest(w) ==
  /\ poller[w].pc = "pick"
  /\ poller[w].todo = {}
  /\ ~poller[w].rest
  /\ Becomes(w, [poller[w] EXCEPT !.todo = OtherRows, !.rest = TRUE])
  /\ UNCHANGED <<at, now, lease, lapsed, faults, feedVars, watchVars>>

(* LockLease.renew, a get and then a set.  A poller whose lease is gone    *)
(* drops the rest of its sources.                                          *)
RenewGet(w) ==
  /\ poller[w].pc = "pick"
  /\ poller[w].todo # {}
  /\ Becomes(w, IF lease = w
                THEN [poller[w] EXCEPT !.pc = "renewing"]
                ELSE [poller[w] EXCEPT !.todo = {}, !.rest = TRUE])
  /\ UNCHANGED <<at, now, lease, lapsed, faults, feedVars, watchVars>>

(* What one fetch covers: the reddit group together, any other source      *)
(* alone.                                                                  *)
IsUnit(w, U) ==
  IF poller[w].rest THEN \E x \in poller[w].todo : U = {x}
                    ELSE U = poller[w].todo

RenewSet(w) ==
  /\ poller[w].pc = "renewing"
  /\ lease' = w
  /\ \E U \in SUBSET poller[w].todo :
       /\ IsUnit(w, U)
       /\ Becomes(w, [poller[w] EXCEPT !.pc = "walk", !.unit = U, !.todo = @ \ U,
                        !.done = FALSE, !.pages = 0, !.after = MaxPosts + 1,
                        !.pulled = {}])
  /\ UNCHANGED <<at, now, lapsed, faults, feedVars, watchVars>>

-----------------------------------------------------------------------------
(* What each connector does with a listing.                                *)

Paged(k) == k \in {"hackernews", "reddit"}

(* Is a post stamped t new to a source whose watermark is m?  rss,         *)
(* hackernews and reddit keep the second of the watermark, the searches    *)
(* (github, twitter) drop it.                                              *)
IsNew(k, t, m) == IF k = "search" THEN t > m ELSE t >= m

(* Mutant: a group is walked from the latest watermark in it.              *)
SinceLatest(U) == CHOOSE m \in {x.since : x \in U} : \A x \in U : m >= x.since

(* The walk's `since`: the watermark, the earliest one of a reddit group.  *)
Since(U) == CHOOSE m \in {x.since : x \in U} : \A x \in U : m <= x.since

(* Mutant: the keyset steps past the second it stopped in.                 *)
ReachesPast(k, p, after) ==
  \/ after = MaxPosts + 1
  \/ IF k = "hackernews" THEN at[p] < at[after] ELSE p < after

(* The next page's cursor: algolia takes everything up to the second of    *)
(* the oldest hit, reddit what is listed after the last entry.             *)
Reaches(k, p, after) ==
  \/ after = MaxPosts + 1
  \/ IF k = "hackernews" THEN at[p] <= at[after] ELSE p < after

Listed(U, after) ==
  {p \in Post : at[p] > 0 /\ \E x \in U : /\ x.src = Home[p]
                                          /\ Reaches(Kind[x.src], p, after)
                                          /\ Kind[x.src] = "hackernews" => at[p] >= x.since}

IsPaged(U) == \E x \in U : Paged(Kind[x.src])

Page(U, after) ==
  LET all == Listed(U, after)
  IN IF IsPaged(U) THEN {p \in all : Cardinality({q \in all : q > p}) < PageSize}
                   ELSE all

IsKeyset(U) == \E x \in U : Kind[x.src] = "hackernews"

(* The walk is through at an empty page (algolia: at a short one) and at   *)
(* an entry older than `since`.                                            *)
IsThrough(U, P) ==
  \/ ~IsPaged(U)
  \/ P = {}
  \/ IsKeyset(U) /\ Cardinality(P) < PageSize
  \/ \E p \in P : at[p] < Since(U)

(* It ends there, or at its cap, which grows with a reddit group.          *)
EndsWalk(U, P, pages) == IsThrough(U, P) \/ pages = MaxPages * Cardinality(U)

Kept(U, P) == {p \in P : \E x \in U : IsNew(Kind[x.src], at[p], Since(U))}

Oldest(P, after) == CHOOSE p \in P \cup {after} : \A q \in P \cup {after} : p <= q

FetchPage(w) ==
  LET x == poller[w]
      P == Page(x.unit, x.after)
      done == EndsWalk(x.unit, P, x.pages + 1)
  IN /\ x.pc = "walk"
     /\ Becomes(w, [x EXCEPT !.pulled = @ \cup Kept(x.unit, P),
                             !.pages = @ + 1,
                             !.after = Oldest(P, @),
                             !.done = done,
                             !.ok = @ \/ done,
                             !.pc = IF done THEN "settle" ELSE "walk"])
     /\ faults' = [faults EXCEPT !.capped = @ \/ (done /\ ~IsThrough(x.unit, P))]
     /\ UNCHANGED <<at, now, lease, lapsed, feedVars, watchVars>>

(* Back to the sources that are left.                                      *)
NextUnit(x) == [Idle EXCEPT !.pc = "pick", !.rest = x.rest, !.todo = x.todo,
                            !.began = x.began, !.any = x.any, !.ok = x.ok]

(* Mutant: a failed fetch settles for the prefix that arrived.             *)
FailedPartial(x) == [x EXCEPT !.pc = "settle", !.done = TRUE]

(* A recoverable error: the source is given up for this cycle and its      *)
(* watermark stays.                                                        *)
Failed(x) == NextUnit(x)

FetchFails(w) ==
  /\ poller[w].pc = "walk"
  /\ Becomes(w, Failed(poller[w]))
  /\ UNCHANGED <<at, now, lease, lapsed, faults, feedVars, watchVars>>

(* The items of one source: those past its own watermark.                  *)
Items(x, s) == {p \in x.pulled : Home[p] = s.src /\ IsNew(Kind[s.src], at[p], s.since)}

(* _record_chunk: the rows whose key does not exist are built and get      *)
(* their ids.  A single source's stream is recorded as it is read, so a    *)
(* chunk may fill before the walk has ended.                               *)
BuildChunk(w) ==
  LET x == poller[w]
  IN /\ x.pc \in {"walk", "settle"}
     /\ \E s \in x.unit :
          LET fresh == {p \in Items(x, s) : item[p].id = 0}
          IN /\ x.pc = "walk" => Kind[s.src] # "reddit" \/ x.rest
             /\ IF fresh = {}
                THEN /\ x.pc = "settle"
                     /\ Becomes(w, [x EXCEPT !.pc = "advance", !.cur = {s}])
                     /\ ids' = ids
                ELSE /\ ids < MaxInserts
                     /\ ids' = ids + 1
                     /\ Becomes(w, [x EXCEPT !.pc = "insert", !.cur = {s},
                                             !.chunk = fresh, !.id = ids + 1,
                                             !.born = now])
  /\ UNCHANGED <<at, now, row, item, seen, lease, lapsed, faults, watchVars>>

(* Mutant: a conflicting row is written again.                             *)
InsertedAgain(x) == x.chunk

(* bulk_create with ignore_conflicts: one statement, one commit.           *)
Inserted(x) == {p \in x.chunk : item[p].id = 0}

InsertChunk(w) ==
  LET x == poller[w]
  IN /\ x.pc = "insert"
     /\ item' = [p \in Post |-> IF p \in Inserted(x) THEN [id |-> x.id, born |-> x.born]
                                                     ELSE item[p]]
     /\ seen' = seen \cup x.chunk
     /\ Becomes(w, [x EXCEPT !.pc = IF x.done THEN "advance" ELSE "walk",
                             !.chunk = {}, !.id = 0, !.born = 0,
                             !.cur = IF x.done THEN @ ELSE {}])
     /\ UNCHANGED <<at, now, row, ids, lease, lapsed, faults, watchVars>>

(* The newest time this poll observed of a source.                         *)
Newest(x, s) ==
  LET times == {at[p] : p \in Items(x, s)} \cup {s.since}
  IN CHOOSE m \in times : \A n \in times : n <= m

(* advance_watermark: by row id, and only forward.                         *)
Moved(s, m) ==
  IF row[s.src].on /\ row[s.src].gen = s.gen /\ row[s.src].mark < m
  THEN [row EXCEPT ![s.src].mark = m] ELSE row

AdvanceMark(w) ==
  LET x == poller[w]
  IN /\ x.pc = "advance"
     /\ \E s \in x.cur :
          /\ row' = IF Newest(x, s) > s.since THEN Moved(s, Newest(x, s)) ELSE row
          /\ Becomes(w, IF x.unit = {s}
                        THEN NextUnit(x)
                        ELSE [x EXCEPT !.pc = "settle", !.cur = {}, !.unit = @ \ {s}])
     /\ UNCHANGED <<at, now, item, ids, seen, lease, lapsed, faults, watchVars>>

(* The cycle is over: update_poll_state, the prune unless every source     *)
(* failed, and the release.                                                *)
ClosesCycle(w) ==
  LET x == poller[w]
  IN /\ x.pc = "pick"
     /\ x.todo = {}
     /\ x.rest
     /\ Becomes(w, [Idle EXCEPT !.pc = IF x.any /\ ~x.ok THEN "release" ELSE "pruning",
                                !.began = x.began])
     /\ UNCHANGED <<at, now, row, item, ids, seen, lease, lapsed, faults, watchVars>>

Pruned(began) == {p \in Post : item[p].id > 0 /\ item[p].born + Retention < began}

Prune(w) ==
  /\ poller[w].pc = "pruning"
  /\ item' = [p \in Post |-> IF p \in Pruned(poller[w].began)
                             THEN [id |-> 0, born |-> 0] ELSE item[p]]
  /\ Becomes(w, [Idle EXCEPT !.pc = "release"])
  /\ UNCHANGED <<at, now, row, ids, seen, lease, lapsed, faults, watchVars>>

(* An error the cycle does not handle ends it; the lease is released.      *)
Raises(w) ==
  /\ poller[w].pc \in {"walk", "settle", "insert", "advance"}
  /\ faults.crashes < MaxCrashes
  /\ faults' = [faults EXCEPT !.crashes = @ + 1]
  /\ Becomes(w, [Idle EXCEPT !.pc = "release"])
  /\ UNCHANGED <<at, now, lease, lapsed, feedVars, watchVars>>

(* named_lock's release: a get, and a delete if the key is still ours.     *)
ReleaseGet(w) ==
  /\ poller[w].pc = "release"
  /\ Becomes(w, IF lease = w THEN [Idle EXCEPT !.pc = "releasing"] ELSE Idle)
  /\ UNCHANGED <<at, now, lease, lapsed, faults, feedVars, watchVars>>

ReleaseDelete(w) ==
  /\ poller[w].pc = "releasing"
  /\ lease' = Nobody
  /\ Becomes(w, Idle)
  /\ UNCHANGED <<at, now, lapsed, faults, feedVars, watchVars>>

(* A poller dies, and its lease stays until the TTL; a lease whose holder  *)
(* was too slow expires as well.                                           *)
PollerDies(w) ==
  /\ poller[w].pc # "idle"
  /\ faults.crashes < MaxCrashes
  /\ faults' = [faults EXCEPT !.crashes = @ + 1]
  /\ Becomes(w, Idle)
  /\ UNCHANGED <<at, now, lease, lapsed, feedVars, watchVars>>

LeaseExpires ==
  /\ lease # Nobody
  /\ \/ /\ poller[lease].pc = "idle"
        /\ faults' = faults
     \/ /\ poller[lease].pc # "idle"
        /\ faults.lapses < MaxLapses
        /\ faults' = [faults EXCEPT !.lapses = @ + 1]
  /\ lease' = Nobody
  /\ UNCHANGED <<at, now, poller, lapsed, feedVars, watchVars>>

-----------------------------------------------------------------------------
(* WatchTriggerOperation: through = the newest item id, then the runs of   *)
(* the window (cursor, through], then the cursor.                          *)
NewestId == CHOOSE i \in {item[p].id : p \in Post} \cup {0} :
              \A p \in Post : item[p].id <= i

TriggerReads ==
  /\ trigger.pc = "idle"
  /\ NewestId \notin {0, cursor}
  /\ trigger' = [pc |-> "scan", through |-> NewestId]
  /\ UNCHANGED <<at, now, cursor, runs, faults, feedVars, pollVars>>

TriggerEnqueues ==
  /\ trigger.pc = "scan"
  /\ runs' = runs \cup {<<p, item[p].id>> : p \in
                 {q \in Post : item[q].id > cursor /\ item[q].id <= trigger.through}}
  /\ trigger' = [trigger EXCEPT !.pc = "advance"]
  /\ UNCHANGED <<at, now, cursor, faults, feedVars, pollVars>>

(* Mutant: the cursor moves to what is newest now.                         *)
AdvancedToNewest == NewestId

AdvancedTo == trigger.through

TriggerAdvances ==
  /\ trigger.pc = "advance"
  /\ cursor' = AdvancedTo
  /\ trigger' = [pc |-> "idle", through |-> 0]
  /\ UNCHANGED <<at, now, runs, faults, feedVars, pollVars>>

TriggerStops ==
  /\ trigger.pc # "idle"
  /\ faults.crashes < MaxCrashes
  /\ faults' = [faults EXCEPT !.crashes = @ + 1]
  /\ trigger' = [pc |-> "idle", through |-> 0]
  /\ UNCHANGED <<at, now, cursor, runs, feedVars, pollVars>>

Poll(w) ==
  \/ Lock(w) \/ OpenRest(w) \/ RenewGet(w) \/ RenewSet(w)
  \/ FetchPage(w) \/ FetchFails(w) \/ BuildChunk(w) \/ InsertChunk(w)
  \/ AdvanceMark(w) \/ ClosesCycle(w) \/ Prune(w) \/ Raises(w)
  \/ ReleaseGet(w) \/ ReleaseDelete(w) \/ PollerDies(w)

Next ==
  \/ \E p \in Post : Publish(p)
  \/ Tick \/ LeaseExpires
  \/ \E s \in Source : RemoveSource(s) \/ \E m \in 1 .. MaxTime : AddSource(s, m)
  \/ \E w \in Poller : Poll(w)
  \/ TriggerReads \/ TriggerEnqueues \/ TriggerAdvances \/ TriggerStops

Spec == Init /\ [][Next]_vars

-----------------------------------------------------------------------------
(* Properties                                                              *)

(* A post that appeared in a source after it was added and was never       *)
(* recorded is still ahead of the source's watermark: the next poll sees   *)
(* it, unless a walk was cut off at its cap.  (A search drops the second   *)
(* of its watermark, and with it what else appears in that second.)        *)
(* Hazards: a watermark that moves past a failed or a partial walk, posts  *)
(* that arrive while a listing is paged, a stale poller, a source removed  *)
(* and added again.                                                        *)
NothingStranded ==
  faults.capped \/
    \A p \in Post :
      LET s == Home[p]
      IN (/\ Kind[s] # "search" /\ at[p] > 0 /\ p \notin seen
          /\ row[s].on /\ at[p] >= row[s].from)
         => at[p] >= row[s].mark

(* An item at or below the watch's cursor has its run of the chain's head, *)
(* unless two pollers were at work at once: ids then commit out of order.  *)
NothingMissed ==
  lapsed \/ \A p \in Post : item[p].id \in 1 .. cursor => <<p, item[p].id>> \in runs

(* A post makes one run of the chain's head, however often its second is   *)
(* read again and however two polls of it overlap; only the retention      *)
(* prune makes a post new a second time.                                   *)
TriggeredOnce ==
  Retention >= MaxTime =>
    \A p \in Post : \A i, j \in 1 .. MaxInserts :
      <<p, i>> \in runs /\ <<p, j>> \in runs => i = j
=============================================================================
