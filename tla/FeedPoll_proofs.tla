--------------------------- MODULE FeedPoll_proofs ---------------------------
(***************************************************************************)
(* Items and runs of one feed, for every number of posts, pollers, chunks  *)
(* and pages: the order in which ids are minted, committed and scanned,    *)
(* and what a walk has taken when the watermark moves.                     *)
(***************************************************************************)
EXTENDS FeedPoll, FiniteSetTheorems, TLAPS

Pcs == {"idle", "pick", "renewing", "walk", "settle", "insert",
        "advance", "pruning", "release", "releasing"}
Fields == {"pc", "rest", "todo", "unit", "done", "pages", "after", "pulled", "cur",
           "chunk", "id", "born", "began", "any", "ok"}
Shaped(x) == x = [f \in Fields |-> x[f]]

(* What the arguments below need of the types: the numbers of a poller,    *)
(* and no more than the shape of the rest of it.                           *)
Well ==
  /\ now \in Time
  /\ ids \in Nat /\ cursor \in Nat
  /\ item \in [Post -> [id : Nat, born : Nat]]
  /\ poller = [w \in Poller |-> poller[w]]
  /\ \A w \in Poller : /\ Shaped(poller[w])
                       /\ poller[w].pc \in Pcs /\ poller[w].id \in Nat
                       /\ poller[w].born \in Nat /\ poller[w].began \in Time
  /\ trigger \in [pc : {"idle", "scan", "advance"}, through : Nat]
  /\ lapsed \in BOOLEAN

(* No id is above the last one minted.                                     *)
Minted ==
  /\ \A p \in Post : item[p].id <= ids
  /\ \A w \in Poller : poller[w].id <= ids

LEMMA IdleShape ==
  /\ Shaped(Idle) /\ Idle.pc = "idle" /\ Idle.id = 0 /\ Idle.born = 0 /\ Idle.began = 0
  /\ 0 \in Time /\ MaxTime \in Nat /\ Time \subseteq Nat
<1>1. Shaped(Idle) /\ Idle.pc = "idle" /\ Idle.id = 0 /\ Idle.born = 0 /\ Idle.began = 0
  BY DEF Shaped, Fields, Idle
<1>2. 0 \in Time /\ MaxTime \in Nat /\ Time \subseteq Nat
  BY FeedAssumption DEF Time
<1> QED
  BY <1>1, <1>2

LEMMA InitWell == Init => Well /\ Minted
<1>1. 1 \in Time
  BY FeedAssumption DEF Time
<1> SUFFICES ASSUME Init PROVE Well /\ Minted
  OBVIOUS
<1>2. /\ now \in Time /\ ids = 0 /\ cursor = 0 /\ lapsed \in BOOLEAN
      /\ trigger \in [pc : {"idle", "scan", "advance"}, through : Nat]
  BY <1>1 DEF Init
<1>3. item \in [Post -> [id : Nat, born : Nat]] /\ \A p \in Post : item[p].id = 0
  BY DEF Init
<1>4. poller = [w \in Poller |-> poller[w]] /\ \A w \in Poller : poller[w] = Idle
  BY DEF Init
<1> QED
  BY <1>2, <1>3, <1>4, IdleShape DEF Well, Minted, Pcs

-----------------------------------------------------------------------------
(* What a step of a poller does, as far as ids are concerned.              *)

(* It builds nothing and writes no item.                                   *)
Quiet(w) ==
  /\ item' = item /\ ids' = ids
  /\ poller'[w].pc # "insert" /\ poller'[w].id \in {0, poller[w].id}
  /\ poller'[w].born \in {0, poller[w].born}

Builds(w) ==
  /\ item' = item /\ ids' = ids + 1
  /\ poller'[w].id = ids + 1 /\ poller'[w].born = now

Commits(w) ==
  /\ poller[w].pc = "insert"
  /\ ids' = ids
  /\ item' = [p \in Post |-> IF p \in Inserted(poller[w])
                             THEN [id |-> poller[w].id, born |-> poller[w].born] ELSE item[p]]
  /\ poller'[w].pc # "insert" /\ poller'[w].id = 0 /\ poller'[w].born = 0

Prunes(w) ==
  /\ ids' = ids
  /\ item' = [p \in Post |-> IF p \in Pruned(poller[w].began) THEN [id |-> 0, born |-> 0] ELSE item[p]]
  /\ poller'[w].pc # "insert" /\ poller'[w].id = 0 /\ poller'[w].born = 0

(* The rest of the system stands still, and so do the other pollers.       *)
Alone(w) ==
  /\ poller' = [v \in Poller |-> poller'[v]]
  /\ \A v \in Poller \ {w} : poller'[v] = poller[v]
  /\ Shaped(poller'[w]) /\ poller'[w].pc \in Pcs
  /\ poller'[w].began \in {0, now, poller[w].began}
  /\ UNCHANGED <<now, trigger, cursor, runs>>

LEMMA Turns ==
  ASSUME Well, NEW w \in Poller, NEW x, Becomes(w, x)
  PROVE  /\ poller' = [v \in Poller |-> poller'[v]]
         /\ \A v \in Poller \ {w} : poller'[v] = poller[v]
         /\ poller'[w] = x
  BY DEF Becomes, Well

LEMMA PollSteps ==
  ASSUME Well, NEW w \in Poller, Poll(w)
  PROVE  /\ Alone(w)
         /\ Quiet(w) \/ Builds(w) \/ Commits(w) \/ Prunes(w)
<1> DEFINE x == poller[w]
<1>1. Shaped(x) /\ x.pc \in Pcs /\ x.began \in Time
  BY DEF Well
<1>2. /\ Shaped(NextUnit(x)) /\ NextUnit(x).pc = "pick" /\ NextUnit(x).id = 0
      /\ NextUnit(x).born = 0 /\ NextUnit(x).began = x.began
  BY <1>1, IdleShape DEF NextUnit, Shaped, Fields
<1>3. ASSUME Lock(w) PROVE Alone(w) /\ Quiet(w)
  <2> DEFINE any == \E s \in Source : row[s].on
             y == [Idle EXCEPT !.pc = "pick", !.began = now, !.todo = RedditRows, !.any = any]
  <2>1. Becomes(w, y)
    BY <1>3 DEF Lock
  <2>2. Shaped(y) /\ y.pc = "pick" /\ y.id = 0 /\ y.born = 0 /\ y.began = now
    <3> HIDE DEF any
    <3> QED
      BY IdleShape DEF Shaped, Fields
  <2> HIDE DEF y
  <2> QED
    BY <1>3, <2>1, <2>2, Turns DEF Lock, Alone, Quiet, feedVars, watchVars, Pcs
<1>4. ASSUME OpenRest(w) PROVE Alone(w) /\ Quiet(w)
  <2> DEFINE y == [x EXCEPT !.todo = OtherRows, !.rest = TRUE]
  <2>1. Becomes(w, y) /\ x.pc = "pick"
    BY <1>4 DEF OpenRest
  <2>2. Shaped(y) /\ y.pc = "pick" /\ y.id = x.id /\ y.born = x.born /\ y.began = x.began
    BY <1>1, <2>1 DEF Shaped, Fields
  <2> HIDE DEF y
  <2> QED
    BY <1>4, <2>1, <2>2, Turns DEF OpenRest, Alone, Quiet, feedVars, watchVars, Pcs
<1>5. ASSUME RenewGet(w) PROVE Alone(w) /\ Quiet(w)
  <2> DEFINE y == [x EXCEPT !.pc = "renewing"]
             z == [x EXCEPT !.todo = {}, !.rest = TRUE]
  <2>1. (Becomes(w, y) \/ Becomes(w, z)) /\ x.pc = "pick"
    BY <1>5 DEF RenewGet
  <2>2. /\ Shaped(y) /\ y.pc = "renewing" /\ y.id = x.id /\ y.born = x.born /\ y.began = x.began
        /\ Shaped(z) /\ z.pc = "pick" /\ z.id = x.id /\ z.born = x.born /\ z.began = x.began
    BY <1>1, <2>1 DEF Shaped, Fields
  <2> HIDE DEF y, z
  <2> QED
    BY <1>5, <2>1, <2>2, Turns DEF RenewGet, Alone, Quiet, feedVars, watchVars, Pcs
<1>6. ASSUME RenewSet(w) PROVE Alone(w) /\ Quiet(w)
  <2>1. PICK U \in SUBSET x.todo :
          Becomes(w, [x EXCEPT !.pc = "walk", !.unit = U, !.todo = @ \ U, !.done = FALSE,
                               !.pages = 0, !.after = MaxPosts + 1, !.pulled = {}])
    BY <1>6 DEF RenewSet
  <2> DEFINE y == [x EXCEPT !.pc = "walk", !.unit = U, !.todo = @ \ U, !.done = FALSE,
                            !.pages = 0, !.after = MaxPosts + 1, !.pulled = {}]
  <2>2. Shaped(y) /\ y.pc = "walk" /\ y.id = x.id /\ y.born = x.born /\ y.began = x.began
    BY <1>1 DEF Shaped, Fields
  <2>3. Becomes(w, y)
    BY <2>1
  <2> HIDE DEF y
  <2> QED
    BY <1>6, <2>3, <2>2, Turns DEF RenewSet, Alone, Quiet, feedVars, watchVars, Pcs
<1>7. ASSUME FetchPage(w) PROVE Alone(w) /\ Quiet(w)
  <2> DEFINE P == Page(x.unit, x.after)
             done == EndsWalk(x.unit, P, x.pages + 1)
             pulled == x.pulled \cup Kept(x.unit, P)
             oldest == Oldest(P, x.after)
             ok == x.ok \/ done
             y == [x EXCEPT !.pulled = pulled, !.pages = @ + 1, !.after = oldest,
                            !.done = done, !.ok = ok,
                            !.pc = IF done THEN "settle" ELSE "walk"]
  <2>1. Becomes(w, y)
    BY <1>7 DEF FetchPage
  <2>2. Shaped(y) /\ y.pc \in {"settle", "walk"} /\ y.id = x.id /\ y.born = x.born /\ y.began = x.began
    <3> HIDE DEF P, done, pulled, oldest, ok
    <3> QED
      BY <1>1 DEF Shaped, Fields
  <2> HIDE DEF y
  <2> QED
    BY <1>7, <2>1, <2>2, Turns DEF FetchPage, Alone, Quiet, feedVars, watchVars, Pcs
<1>8. ASSUME FetchFails(w) PROVE Alone(w) /\ Quiet(w)
  <2>1. Becomes(w, NextUnit(x))
    BY <1>8 DEF FetchFails, Failed
  <2> QED
    BY <1>2, <1>8, <2>1, Turns DEF FetchFails, Alone, Quiet, feedVars, watchVars, Pcs
<1>9. ASSUME BuildChunk(w) PROVE Alone(w) /\ (Quiet(w) \/ Builds(w))
  <2>1. PICK s \in x.unit :
          \/ ids' = ids /\ Becomes(w, [x EXCEPT !.pc = "advance", !.cur = {s}])
          \/ /\ ids' = ids + 1
             /\ Becomes(w, [x EXCEPT !.pc = "insert", !.cur = {s},
                                     !.chunk = {p \in Items(x, s) : item[p].id = 0},
                                     !.id = ids + 1, !.born = now])
    BY <1>9 DEF BuildChunk
  <2> DEFINE y == [x EXCEPT !.pc = "advance", !.cur = {s}]
             fresh == {p \in Items(x, s) : item[p].id = 0}
             z == [x EXCEPT !.pc = "insert", !.cur = {s}, !.chunk = fresh, !.id = ids + 1, !.born = now]
  <2>2. /\ Shaped(y) /\ y.pc = "advance" /\ y.id = x.id /\ y.born = x.born /\ y.began = x.began
        /\ Shaped(z) /\ z.pc = "insert" /\ z.id = ids + 1 /\ z.born = now /\ z.began = x.began
    <3> HIDE DEF fresh
    <3> QED
      BY <1>1 DEF Shaped, Fields
  <2>3. (ids' = ids /\ Becomes(w, y)) \/ (ids' = ids + 1 /\ Becomes(w, z))
    BY <2>1
  <2>4. item' = item /\ UNCHANGED <<now, trigger, cursor, runs>>
    BY <1>9 DEF BuildChunk, watchVars
  <2> HIDE DEF y, z
  <2>5. CASE ids' = ids /\ Becomes(w, y)
    BY <2>2, <2>4, <2>5, Turns DEF Alone, Quiet, Pcs
  <2>6. CASE ids' = ids + 1 /\ Becomes(w, z)
    BY <2>2, <2>4, <2>6, Turns DEF Alone, Builds, Pcs
  <2> QED
    BY <2>3, <2>5, <2>6
<1>10. ASSUME InsertChunk(w) PROVE Alone(w) /\ Commits(w)
  <2> DEFINE cur == IF x.done THEN x.cur ELSE {}
             pc == IF x.done THEN "advance" ELSE "walk"
             y == [x EXCEPT !.pc = pc, !.chunk = {}, !.id = 0, !.born = 0, !.cur = cur]
  <2>1. x.pc = "insert" /\ Becomes(w, [x EXCEPT !.pc = IF x.done THEN "advance" ELSE "walk",
                             !.chunk = {}, !.id = 0, !.born = 0,
                             !.cur = IF x.done THEN @ ELSE {}])
    BY <1>10 DEF InsertChunk
  <2>2. y = [x EXCEPT !.pc = IF x.done THEN "advance" ELSE "walk",
                      !.chunk = {}, !.id = 0, !.born = 0, !.cur = IF x.done THEN @ ELSE {}]
    BY <1>1 DEF Shaped, Fields
  <2>3. Shaped(y) /\ y.pc \in {"advance", "walk"} /\ y.id = 0 /\ y.born = 0 /\ y.began = x.began
    <3> HIDE DEF cur
    <3> QED
      BY <1>1 DEF Shaped, Fields
  <2>4. /\ item' = [p \in Post |-> IF p \in Inserted(x) THEN [id |-> x.id, born |-> x.born] ELSE item[p]]
        /\ ids' = ids /\ UNCHANGED <<now, trigger, cursor, runs>>
    BY <1>10 DEF InsertChunk, watchVars
  <2>5. Becomes(w, y)
    BY <2>1, <2>2
  <2> HIDE DEF y
  <2> QED
    BY <2>1, <2>3, <2>4, <2>5, Turns DEF Alone, Commits, Pcs
<1>11. ASSUME AdvanceMark(w) PROVE Alone(w) /\ Quiet(w)
  <2>1. PICK s \in x.cur :
          \/ Becomes(w, NextUnit(x))
          \/ Becomes(w, [x EXCEPT !.pc = "settle", !.cur = {}, !.unit = @ \ {s}])
    BY <1>11 DEF AdvanceMark
  <2> DEFINE y == [x EXCEPT !.pc = "settle", !.cur = {}, !.unit = @ \ {s}]
  <2>2. Shaped(y) /\ y.pc = "settle" /\ y.id = x.id /\ y.born = x.born /\ y.began = x.began
    BY <1>1 DEF Shaped, Fields
  <2>3. Becomes(w, NextUnit(x)) \/ Becomes(w, y)
    BY <2>1
  <2>4. item' = item /\ ids' = ids /\ UNCHANGED <<now, trigger, cursor, runs>>
    BY <1>11 DEF AdvanceMark, watchVars
  <2> HIDE DEF y
  <2> QED
    BY <1>2, <2>2, <2>3, <2>4, Turns DEF Alone, Quiet, Pcs
<1>12. ASSUME ClosesCycle(w) PROVE Alone(w) /\ Quiet(w)
  <2> DEFINE pc == IF x.any /\ ~x.ok THEN "release" ELSE "pruning"
             y == [Idle EXCEPT !.pc = pc, !.began = x.began]
  <2>1. Becomes(w, y)
    BY <1>12 DEF ClosesCycle
  <2>2. Shaped(y) /\ y.pc \in {"release", "pruning"} /\ y.id = 0 /\ y.born = 0 /\ y.began = x.began
    BY IdleShape DEF Shaped, Fields
  <2> HIDE DEF y
  <2> QED
    BY <1>12, <2>1, <2>2, Turns DEF ClosesCycle, Alone, Quiet, watchVars, Pcs
<1>13. ASSUME Prune(w) PROVE Alone(w) /\ Prunes(w)
  <2> DEFINE y == [Idle EXCEPT !.pc = "release"]
  <2>1. Becomes(w, y)
    BY <1>13 DEF Prune
  <2>2. Shaped(y) /\ y.pc = "release" /\ y.id = 0 /\ y.born = 0 /\ y.began = 0
    BY IdleShape DEF Shaped, Fields
  <2> HIDE DEF y
  <2> QED
    BY <1>13, <2>1, <2>2, Turns DEF Prune, Alone, Prunes, watchVars, Pcs
<1>14. ASSUME Raises(w) PROVE Alone(w) /\ Quiet(w)
  <2> DEFINE y == [Idle EXCEPT !.pc = "release"]
  <2>1. Becomes(w, y)
    BY <1>14 DEF Raises
  <2>2. Shaped(y) /\ y.pc = "release" /\ y.id = 0 /\ y.born = 0 /\ y.began = 0
    BY IdleShape DEF Shaped, Fields
  <2> HIDE DEF y
  <2> QED
    BY <1>14, <2>1, <2>2, Turns DEF Raises, Alone, Quiet, feedVars, watchVars, Pcs
<1>15. ASSUME ReleaseGet(w) PROVE Alone(w) /\ Quiet(w)
  <2> DEFINE y == [Idle EXCEPT !.pc = "releasing"]
  <2>1. Becomes(w, y) \/ Becomes(w, Idle)
    BY <1>15 DEF ReleaseGet
  <2>2. Shaped(y) /\ y.pc = "releasing" /\ y.id = 0 /\ y.born = 0 /\ y.began = 0
    BY IdleShape DEF Shaped, Fields
  <2> HIDE DEF y
  <2> QED
    BY <1>15, <2>1, <2>2, IdleShape, Turns DEF ReleaseGet, Alone, Quiet, feedVars, watchVars, Pcs
<1>16. ASSUME ReleaseDelete(w) PROVE Alone(w) /\ Quiet(w)
  BY <1>16, IdleShape, Turns DEF ReleaseDelete, Alone, Quiet, feedVars, watchVars, Pcs
<1>17. ASSUME PollerDies(w) PROVE Alone(w) /\ Quiet(w)
  BY <1>17, IdleShape, Turns DEF PollerDies, Alone, Quiet, feedVars, watchVars, Pcs
<1> QED
  BY <1>3, <1>4, <1>5, <1>6, <1>7, <1>8, <1>9, <1>10, <1>11, <1>12, <1>13, <1>14, <1>15, <1>16, <1>17
     DEF Poll

-----------------------------------------------------------------------------
(* The rest of the system.                                                 *)
LEMMA NewestFacts ==
  ASSUME Well, Minted
  PROVE  /\ NewestId \in 0 .. ids
         /\ NewestId = 0 \/ \E p \in Post : NewestId = item[p].id
         /\ \A p \in Post : item[p].id <= NewestId
<1> DEFINE S == {item[p].id : p \in Post} \cup {0}
           T == {ids - i : i \in S}
           R == OpToRel(<, Nat)
<1>1. ids \in Nat /\ \A i \in S : i \in Nat /\ i <= ids
  BY DEF Well, Minted
<1>2. T \subseteq Nat /\ ids \in T
  <2>1. 0 \in S
    OBVIOUS
  <2> HIDE DEF S
  <2>2. ids - 0 = ids /\ \A i \in S : ids - i \in Nat
    BY <1>1
  <2> QED
    BY <2>1, <2>2
<1>3. PICK m \in T : \A n \in T : ~(<<n, m>> \in R)
  <2> HIDE DEF T, R
  <2> QED
    BY <1>2, NatLessThanWellFounded, WFMin DEF R
<1>4. \A n \in T : ~(n < m)
  BY <1>2, <1>3 DEF OpToRel
<1>5. PICK i \in S : m = ids - i
  BY <1>3
<1>6. ASSUME NEW j \in S PROVE j <= i
  <2>1. ~(ids - j < ids - i)
    BY <1>4, <1>5
  <2>2. ids \in Nat /\ i \in Nat /\ j \in Nat
    BY <1>1
  <2> HIDE DEF S
  <2> QED
    BY <2>1, <2>2
<1>7. i \in S /\ \A p \in Post : item[p].id <= i
  BY <1>5, <1>6
<1>8. NewestId = CHOOSE k \in S : \A p \in Post : item[p].id <= k
  BY DEF NewestId
<1>9. NewestId \in S /\ \A p \in Post : item[p].id <= NewestId
  <2> HIDE DEF S
  <2> QED
    BY <1>7, <1>8
<1> QED
  BY <1>1, <1>9

(* A step that is no poller's leaves items and pollers alone.              *)
LEMMA WorldSteps ==
  ASSUME Well, Minted, [Next]_vars, ~ \E w \in Poller : Poll(w)
  PROVE  /\ UNCHANGED <<item, ids, poller, lapsed>>
         /\ now' \in Time
         /\ \/ UNCHANGED <<trigger, cursor, runs>>
            \/ TriggerReads \/ TriggerEnqueues \/ TriggerAdvances \/ TriggerStops
<1>1. CASE Tick
  BY <1>1, FeedAssumption DEF Tick, feedVars, pollVars, watchVars, Well, Time
<1>2. ASSUME NEW p \in Post, Publish(p) PROVE UNCHANGED <<item, ids, poller, lapsed, now, trigger, cursor, runs>>
  BY <1>2 DEF Publish, feedVars, pollVars, watchVars
<1>3. CASE LeaseExpires
  BY <1>3 DEF LeaseExpires, feedVars, watchVars, Well
<1>4. ASSUME NEW s \in Source, RemoveSource(s) \/ \E m \in 1 .. MaxTime : AddSource(s, m)
      PROVE  UNCHANGED <<item, ids, poller, lapsed, now, trigger, cursor, runs>>
  BY <1>4 DEF RemoveSource, AddSource, pollVars, watchVars
<1>5. CASE TriggerReads \/ TriggerEnqueues \/ TriggerAdvances \/ TriggerStops
  BY <1>5 DEF TriggerReads, TriggerEnqueues, TriggerAdvances, TriggerStops, feedVars, pollVars, Well
<1>6. CASE UNCHANGED vars
  BY <1>6 DEF vars, Well
<1> QED
  BY <1>1, <1>2, <1>3, <1>4, <1>5, <1>6 DEF Next, Well

LEMMA WellNext == Well /\ Minted /\ [Next]_vars => Well' /\ Minted'
<1> SUFFICES ASSUME Well, Minted, [Next]_vars PROVE Well' /\ Minted'
  OBVIOUS
<1>1. ASSUME NEW w \in Poller, Poll(w) PROVE Well' /\ Minted'
  <2>1. Alone(w) /\ (Quiet(w) \/ Builds(w) \/ Commits(w) \/ Prunes(w))
    BY <1>1, PollSteps
  <2>2. now \in Time /\ now \in Nat /\ ids \in Nat /\ poller[w].id \in Nat /\ poller[w].born \in Nat
    BY IdleShape DEF Well
  <2>3. item' \in [Post -> [id : Nat, born : Nat]] /\ ids' \in Nat /\ ids <= ids'
    BY <2>1, <2>2 DEF Well, Quiet, Builds, Commits, Prunes
  <2>4. poller'[w].id \in Nat /\ poller'[w].born \in Nat /\ poller'[w].began \in Time /\ poller'[w].id <= ids'
    BY <2>1, <2>2, IdleShape DEF Well, Minted, Alone, Quiet, Builds, Commits, Prunes
  <2>5. \A p \in Post : item'[p].id <= ids'
    BY <2>1, <2>2 DEF Well, Minted, Quiet, Builds, Commits, Prunes
  <2>6. lapsed' \in BOOLEAN
    BY <1>1 DEF Well, Poll, Lock, OpenRest, RenewGet, RenewSet, FetchPage, FetchFails, BuildChunk, InsertChunk,
                AdvanceMark, ClosesCycle, Prune, Raises, ReleaseGet, ReleaseDelete, PollerDies
  <2>7. Well'
    BY <2>1, <2>2, <2>3, <2>4, <2>6 DEF Well, Alone
  <2>8. Minted'
    BY <2>1, <2>2, <2>3, <2>4, <2>5 DEF Well, Minted, Alone
  <2> QED
    BY <2>7, <2>8
<1>2. CASE ~ \E w \in Poller : Poll(w)
  <2>1. UNCHANGED <<item, ids, poller, lapsed>> /\ now' \in Time
    BY <1>2, WorldSteps
  <2>2. cursor' \in Nat /\ trigger' \in [pc : {"idle", "scan", "advance"}, through : Nat]
    <3>1. CASE UNCHANGED <<trigger, cursor, runs>>
      BY <3>1 DEF Well
    <3>2. CASE TriggerReads
      BY <3>2, NewestFacts DEF TriggerReads, Well
    <3>3. CASE TriggerEnqueues
      BY <3>3 DEF TriggerEnqueues, Well
    <3>4. CASE TriggerAdvances
      BY <3>4 DEF TriggerAdvances, AdvancedTo, Well
    <3>5. CASE TriggerStops
      BY <3>5 DEF TriggerStops, Well
    <3> QED
      BY <1>2, <3>1, <3>2, <3>3, <3>4, <3>5, WorldSteps
  <2> QED
    BY <2>1, <2>2 DEF Well, Minted
<1> QED
  BY <1>1, <1>2

-----------------------------------------------------------------------------
(* Runs name the item they were made of, and items keep their ids when the *)
(* retention outlives the behaviour.                                       *)
RunsNamed == \A p \in Post : \A i \in Nat : <<p, i>> \in runs => item[p].id = i /\ i > 0

LEMMA NamedNext ==
  ASSUME Retention >= MaxTime, Well, Minted, RunsNamed, [Next]_vars PROVE RunsNamed'
<1> SUFFICES ASSUME NEW p \in Post, NEW i \in Nat, <<p, i>> \in runs'
             PROVE  item'[p].id = i /\ i > 0
  BY DEF RunsNamed
<1>1. ASSUME NEW w \in Poller, Poll(w) PROVE item'[p].id = i /\ i > 0
  <2>1. Alone(w) /\ (Quiet(w) \/ Builds(w) \/ Commits(w) \/ Prunes(w))
    BY <1>1, PollSteps
  <2>2. item[p].id = i /\ i > 0
    BY <2>1 DEF Alone, RunsNamed
  <2>3. CASE Commits(w)
    BY <2>2, <2>3 DEF Commits, Inserted
  <2>4. CASE Prunes(w)
    <3>1. /\ item[p].born \in Nat /\ poller[w].began \in Nat /\ poller[w].began <= MaxTime
          /\ Retention \in Nat /\ MaxTime \in Nat
      BY FeedAssumption, IdleShape DEF Well, Time
    <3>2. p \notin Pruned(poller[w].began)
      BY <3>1 DEF Pruned
    <3> QED
      BY <2>2, <2>4, <3>2 DEF Prunes
  <2> QED
    BY <2>1, <2>2, <2>3, <2>4 DEF Quiet, Builds
<1>2. CASE ~ \E w \in Poller : Poll(w)
  <2>1. item' = item
    BY <1>2, WorldSteps
  <2>2. CASE <<p, i>> \in runs
    BY <2>1, <2>2 DEF RunsNamed
  <2>3. CASE <<p, i>> \notin runs
    <3>1. TriggerEnqueues
      BY <1>2, <2>3, WorldSteps DEF TriggerReads, TriggerAdvances, TriggerStops
    <3>2. PICK q \in Post : item[q].id > cursor /\ <<p, i>> = <<q, item[q].id>>
      BY <2>3, <3>1 DEF TriggerEnqueues
    <3> QED
      BY <2>1, <3>2 DEF Well
  <2> QED
    BY <2>2, <2>3
<1> QED
  BY <1>1, <1>2

(* A post makes one run of the chain's head, however its polls overlap     *)
(* (_record_chunk, and the unique keys behind ignore_conflicts).           *)
THEOREM OneRunEach == Spec => []TriggeredOnce
<1>1. CASE Retention >= MaxTime
  <2>1. Init => RunsNamed
    BY DEF Init, RunsNamed
  <2>2. Well /\ Minted /\ RunsNamed /\ [Next]_vars => RunsNamed'
    BY <1>1, NamedNext
  <2>3. RunsNamed => TriggeredOnce
    BY FeedAssumption DEF RunsNamed, TriggeredOnce
  <2> QED
    BY <2>1, <2>2, <2>3, InitWell, WellNext, PTL DEF Spec
<1>2. CASE ~(Retention >= MaxTime)
  <2>1. TriggeredOnce
    BY <1>2 DEF TriggeredOnce
  <2> QED
    BY <2>1, PTL
<1> QED
  BY <1>1, <1>2

-----------------------------------------------------------------------------
(* One poller at a time: ids are committed in the order they are minted.   *)
Single ==
  ~lapsed => \A v, w \in Poller : poller[v].pc # "idle" /\ poller[w].pc # "idle" => v = w

(* A chunk that is built and not committed is ahead of everything.         *)
Ahead ==
  ~lapsed => \A w \in Poller : poller[w].pc = "insert" =>
    /\ poller[w].id > trigger.through /\ poller[w].id > cursor
    /\ \A p \in Post : item[p].id < poller[w].id

Covered(n) == \A p \in Post : item[p].id \in 1 .. n => <<p, item[p].id>> \in runs

Scanned == ~lapsed => (trigger.pc = "advance" => Covered(trigger.through))

(* The trigger has not passed what was committed.                          *)
Behind == cursor <= ids /\ trigger.through <= ids

LEMMA Lapses ==
  ASSUME Well, Minted, [Next]_vars, ~lapsed'
  PROVE  ~lapsed /\ \A w \in Poller : Lock(w) => \A v \in Poller \ {w} : poller[v].pc = "idle"
<1>1. ASSUME NEW w \in Poller, Lock(w) PROVE ~lapsed /\ \A v \in Poller \ {w} : poller[v].pc = "idle"
  BY <1>1 DEF Lock
<1>2. ASSUME NEW w \in Poller, Poll(w), ~Lock(w) PROVE lapsed' = lapsed
  BY <1>2 DEF Poll, OpenRest, RenewGet, RenewSet, FetchPage, FetchFails, BuildChunk, InsertChunk,
              AdvanceMark, ClosesCycle, Prune, Raises, ReleaseGet, ReleaseDelete, PollerDies
<1>3. CASE ~ \E w \in Poller : Poll(w)
  BY <1>3, WorldSteps DEF Poll
<1>4. CASE \E w \in Poller : Poll(w)
  BY <1>1, <1>2, <1>4 DEF Poll
<1> QED
  BY <1>3, <1>4

LEMMA SingleNext == Well /\ Minted /\ Single /\ [Next]_vars => Single'
<1> SUFFICES ASSUME Well, Minted, Single, [Next]_vars, ~lapsed', NEW v \in Poller, NEW w \in Poller,
                    poller'[v].pc # "idle", poller'[w].pc # "idle"
             PROVE  v = w
  BY DEF Single
<1>1. ASSUME NEW u \in Poller, Poll(u) PROVE v = w
  <2>1. \A x \in Poller \ {u} : poller'[x] = poller[x]
    BY <1>1, PollSteps DEF Alone
  <2>2. CASE Lock(u)
    BY <2>1, <2>2, Lapses
  <2>3. CASE ~Lock(u)
    <3>1. poller[u].pc # "idle"
      BY <1>1, <2>3 DEF Poll, OpenRest, RenewGet, RenewSet, FetchPage, FetchFails, BuildChunk, InsertChunk,
                        AdvanceMark, ClosesCycle, Prune, Raises, ReleaseGet, ReleaseDelete, PollerDies
    <3> QED
      BY <2>1, <3>1, Lapses DEF Single
  <2> QED
    BY <2>2, <2>3
<1>2. CASE ~ \E u \in Poller : Poll(u)
  BY <1>2, WorldSteps DEF Single
<1> QED
  BY <1>1, <1>2

LEMMA BehindNext == Well /\ Minted /\ Behind /\ [Next]_vars => Behind'
<1> SUFFICES ASSUME Well, Minted, Behind, [Next]_vars PROVE Behind'
  OBVIOUS
<1>1. ids \in Nat /\ cursor \in Nat /\ trigger.through \in Nat
  BY DEF Well
<1>2. ASSUME NEW w \in Poller, Poll(w) PROVE Behind'
  BY <1>1, <1>2, PollSteps DEF Behind, Alone, Quiet, Builds, Commits, Prunes
<1>3. CASE ~ \E w \in Poller : Poll(w)
  <2>1. ids' = ids
    BY <1>3, WorldSteps
  <2>2. CASE TriggerReads
    BY <1>1, <2>1, <2>2, NewestFacts DEF TriggerReads, Behind
  <2>3. CASE TriggerEnqueues
    BY <1>1, <2>1, <2>3 DEF TriggerEnqueues, Behind, Well
  <2>4. CASE TriggerAdvances \/ TriggerStops
    BY <1>1, <2>1, <2>4 DEF TriggerAdvances, AdvancedTo, TriggerStops, Behind
  <2> QED
    BY <1>3, <2>1, <2>2, <2>3, <2>4, WorldSteps DEF Behind
<1> QED
  BY <1>2, <1>3

LEMMA AheadNext == Well /\ Minted /\ Single /\ Behind /\ Ahead /\ [Next]_vars => Ahead'
<1> SUFFICES ASSUME Well, Minted, Single, Behind, Ahead, [Next]_vars, ~lapsed',
                    NEW w \in Poller, poller'[w].pc = "insert"
             PROVE  /\ poller'[w].id > trigger'.through /\ poller'[w].id > cursor'
                    /\ \A p \in Post : item'[p].id < poller'[w].id
  BY DEF Ahead
<1>1. /\ ids \in Nat /\ cursor \in Nat /\ trigger.through \in Nat /\ poller[w].id \in Nat
      /\ \A p \in Post : item[p].id \in Nat
  BY DEF Well
<1>2. ~lapsed
  BY Lapses
<1>3. ASSUME NEW u \in Poller, Poll(u)
      PROVE  /\ poller'[w].id > trigger'.through /\ poller'[w].id > cursor'
             /\ \A p \in Post : item'[p].id < poller'[w].id
  <2>1. Alone(u) /\ (Quiet(u) \/ Builds(u) \/ Commits(u) \/ Prunes(u))
    BY <1>3, PollSteps
  <2>2. CASE u = w
    <3>1. Builds(w)
      BY <2>1, <2>2 DEF Quiet, Commits, Prunes
    <3> QED
      BY <1>1, <2>1, <2>2, <3>1 DEF Builds, Alone, Minted, Behind
  <2>3. CASE u # w
    <3>1. poller[w].pc = "insert" /\ poller'[w] = poller[w]
      BY <2>1, <2>3 DEF Alone
    <3>2. /\ poller[w].id > trigger.through /\ poller[w].id > cursor
          /\ \A p \in Post : item[p].id < poller[w].id
      BY <1>2, <3>1 DEF Ahead
    <3>3. ~Commits(u)
      BY <1>2, <2>3, <3>1 DEF Commits, Single
    <3>4. \A p \in Post : item'[p].id \in {0, item[p].id}
      BY <2>1, <3>3 DEF Quiet, Builds, Prunes, Well
    <3> QED
      BY <1>1, <2>1, <3>1, <3>2, <3>4 DEF Alone
  <2> QED
    BY <2>2, <2>3
<1>4. CASE ~ \E u \in Poller : Poll(u)
  <2>1. item' = item /\ poller' = poller
    BY <1>4, WorldSteps
  <2>2. /\ poller[w].id > trigger.through /\ poller[w].id > cursor
        /\ \A p \in Post : item[p].id < poller[w].id
    BY <1>2, <2>1 DEF Ahead
  <2>3. CASE TriggerReads
    BY <1>1, <2>1, <2>2, <2>3, NewestFacts DEF TriggerReads
  <2>4. CASE TriggerEnqueues
    BY <2>1, <2>2, <2>4 DEF TriggerEnqueues, Well
  <2>5. CASE TriggerAdvances \/ TriggerStops
    BY <1>1, <2>1, <2>2, <2>5 DEF TriggerAdvances, AdvancedTo, TriggerStops
  <2> QED
    BY <1>4, <2>1, <2>2, <2>3, <2>4, <2>5, WorldSteps
<1> QED
  BY <1>3, <1>4

(* What a poller commits or prunes is not in the range the trigger is done *)
(* with.                                                                   *)
LEMMA CoveredStays ==
  ASSUME Well, Ahead, ~lapsed, NEW w \in Poller, Poll(w), NEW n \in {cursor, trigger.through}, Covered(n)
  PROVE  \A p \in Post : item'[p].id \in 1 .. n => <<p, item'[p].id>> \in runs'
<1>1. Alone(w) /\ (Quiet(w) \/ Builds(w) \/ Commits(w) \/ Prunes(w))
  BY PollSteps
<1>2. runs' = runs /\ cursor' = cursor /\ trigger' = trigger
  BY <1>1 DEF Alone
<1> SUFFICES ASSUME NEW p \in Post, item'[p].id \in 1 .. n PROVE <<p, item'[p].id>> \in runs
  BY <1>2 DEF Covered
<1>3. n \in Nat /\ item[p].id \in Nat /\ poller[w].id \in Nat
  BY DEF Well
<1>4. CASE item'[p] = item[p]
  BY <1>4 DEF Covered
<1>5. CASE Commits(w) /\ item'[p].id = poller[w].id
  <2>1. poller[w].id > n
    BY <1>5 DEF Commits, Ahead
  <2> QED
    BY <1>3, <1>5, <2>1
<1>6. CASE item'[p].id = 0
  BY <1>3, <1>6
<1> QED
  BY <1>1, <1>4, <1>5, <1>6 DEF Quiet, Builds, Commits, Prunes

LEMMA MissedNext ==
  ASSUME Well, Minted, Single, Ahead, Scanned, NothingMissed, [Next]_vars
  PROVE  Scanned' /\ NothingMissed'
<1> SUFFICES ASSUME ~lapsed'
             PROVE  (trigger'.pc = "advance" => Covered(trigger.through)') /\ Covered(cursor)'
  BY DEF Scanned, NothingMissed, Covered
<1>1. ~lapsed /\ Covered(cursor) /\ (trigger.pc = "advance" => Covered(trigger.through))
  BY Lapses DEF Scanned, NothingMissed, Covered
<1>2. ASSUME NEW w \in Poller, Poll(w)
      PROVE  (trigger'.pc = "advance" => Covered(trigger.through)') /\ Covered(cursor)'
  <2>1. trigger' = trigger /\ cursor' = cursor
    BY <1>2, PollSteps DEF Alone
  <2>2. \A p \in Post : item'[p].id \in 1 .. cursor => <<p, item'[p].id>> \in runs'
    BY <1>1, <1>2, CoveredStays
  <2>3. trigger.pc = "advance" =>
          \A p \in Post : item'[p].id \in 1 .. trigger.through => <<p, item'[p].id>> \in runs'
    BY <1>1, <1>2, CoveredStays
  <2> QED
    BY <2>1, <2>2, <2>3 DEF Covered
<1>3. CASE ~ \E w \in Poller : Poll(w)
  <2>1. item' = item /\ cursor \in Nat /\ \A p \in Post : item[p].id \in Nat
    BY <1>3, WorldSteps DEF Well
  <2>2. CASE TriggerReads
    BY <1>1, <2>1, <2>2 DEF TriggerReads, Covered
  <2>3. CASE TriggerEnqueues
    <3>1. /\ trigger'.through = trigger.through /\ cursor' = cursor /\ trigger.through \in Nat
          /\ runs' = runs \cup {<<p, item[p].id>> : p \in
                {q \in Post : item[q].id > cursor /\ item[q].id <= trigger.through}}
      BY <2>3 DEF TriggerEnqueues, Well
    <3>2. Covered(cursor)'
      BY <1>1, <2>1, <3>1 DEF Covered
    <3>3. Covered(trigger.through)'
      <4> SUFFICES ASSUME NEW p \in Post, item[p].id \in 1 .. trigger.through
                   PROVE  <<p, item[p].id>> \in runs'
        BY <2>1, <3>1 DEF Covered
      <4>1. CASE item[p].id > cursor
        BY <3>1, <4>1
      <4>2. CASE ~(item[p].id > cursor)
        BY <1>1, <2>1, <3>1, <4>2 DEF Covered
      <4> QED
        BY <4>1, <4>2
    <3> QED
      BY <3>2, <3>3
  <2>4. CASE TriggerAdvances
    BY <1>1, <2>1, <2>4 DEF TriggerAdvances, AdvancedTo, Covered
  <2>5. CASE TriggerStops
    BY <1>1, <2>1, <2>5 DEF TriggerStops, Covered
  <2>6. CASE UNCHANGED <<trigger, cursor, runs>>
    BY <1>1, <2>1, <2>6 DEF Covered
  <2> QED
    BY <1>3, <2>2, <2>3, <2>4, <2>5, <2>6, WorldSteps
<1> QED
  BY <1>2, <1>3

(* The trigger's cursor passes no item without its run, as long as no two  *)
(* pollers were at work at once (trigger.py, last_item_id).                *)
THEOREM NoneIsMissed == Spec => []NothingMissed
<1> DEFINE Ind == Single /\ Behind /\ Ahead /\ Scanned /\ NothingMissed
<1>1. Init => Ind
  <2> SUFFICES ASSUME Init PROVE Ind
    OBVIOUS
  <2>1. \A w \in Poller : poller[w].pc = "idle"
    BY IdleShape DEF Init
  <2>2. cursor = 0 /\ ids = 0 /\ trigger.through = 0 /\ trigger.pc = "idle" /\ \A p \in Post : item[p].id = 0
    BY DEF Init
  <2> QED
    BY <2>1, <2>2 DEF Single, Behind, Ahead, Scanned, NothingMissed
<1>2. Well /\ Minted /\ Ind /\ [Next]_vars => Ind'
  BY SingleNext, BehindNext, AheadNext, MissedNext
<1>3. Spec => []NothingMissed
  BY <1>1, <1>2, InitWell, WellNext, PTL DEF Spec
<1> QED
  BY <1>3

-----------------------------------------------------------------------------
(* The extremes of a set of numbers.                                       *)
LEMMA SmallestOf ==
  ASSUME NEW S, S \subseteq Nat, S # {}
  PROVE  \E m \in S : \A k \in S : m <= k
<1> DEFINE R == OpToRel(<, Nat)
<1>1. PICK m \in S : \A k \in S : ~(<<k, m>> \in R)
  <2> HIDE DEF R
  <2> QED
    BY NatLessThanWellFounded, WFMin DEF R
<1>2. \A k \in S : ~(k < m)
  BY <1>1 DEF OpToRel
<1> QED
  BY <1>2

LEMMA LargestOf ==
  ASSUME NEW S, NEW n \in Nat, S \subseteq 0 .. n, S # {}
  PROVE  \E m \in S : \A k \in S : k <= m
<1> DEFINE T == {n - i : i \in S}
<1>1. T \subseteq Nat /\ T # {}
  <2>1. \A i \in S : i \in 0 .. n
    OBVIOUS
  <2>2. \A i \in 0 .. n : n - i \in Nat
    OBVIOUS
  <2>3. \A i \in S : n - i \in Nat /\ n - i \in T
    BY <2>1, <2>2
  <2> QED
    BY <2>3
<1>2. PICK t \in T : \A k \in T : t <= k
  <2> HIDE DEF T
  <2> QED
    BY <1>1, SmallestOf
<1>3. PICK m \in S : t = n - m
  OBVIOUS
<1>4. ASSUME NEW k \in S PROVE k <= m
  <2>1. n - m <= n - k
    BY <1>2, <1>3
  <2>2. k \in Nat /\ m \in Nat
    OBVIOUS
  <2> QED
    BY <2>1, <2>2
<1> QED
  BY <1>4

-----------------------------------------------------------------------------
(* The walk of a listing.                                                  *)

(* Posts are published in order, and none in the future.                   *)
Clock ==
  /\ now \in Nat \ {0} /\ at \in [Post -> Nat]
  /\ \A p \in Post : at[p] <= now
  /\ \A p, q \in Post : p < q /\ at[q] > 0 => at[p] > 0 /\ at[p] <= at[q]

(* No watermark is in the future, and an item in the table was recorded.   *)
Tables ==
  /\ row \in [Source -> [on : BOOLEAN, gen : Nat, mark : Nat, from : Nat]]
  /\ \A s \in Source : row[s].mark <= now
  /\ \A p \in Post : item[p].id # 0 => p \in seen

(* A row as some poller read it is the row, with a watermark that has only *)
(* moved forward, or an earlier row of the source.                         *)
ReadRow(x) ==
  /\ x.src \in Source /\ x.gen \in Nat /\ x.since \in Nat /\ x.since <= now
  /\ x.gen <= row[x.src].gen
  /\ x.gen = row[x.src].gen => x.since <= row[x.src].mark

(* What has been walked: posts that are out, down to `after`.              *)
Walking ==
  \A w \in Poller :
    LET x == poller[w]
    IN /\ \A y \in x.todo \cup x.unit \cup x.cur : ReadRow(y)
       /\ x.pc = "renewing" => x.todo # {}
       /\ x.pc \in {"walk", "insert"} => x.unit # {}
       /\ x.pc \in {"settle", "advance"} => x.done
       /\ x.pulled \subseteq {p \in Post : at[p] > 0}
       /\ x.after \in 1 .. MaxPosts + 1
       /\ x.after # MaxPosts + 1 => at[x.after] > 0

(* Is p behind the walk's back: pulled, or out since, newer than all that  *)
(* is pulled?                                                              *)
Handled(x, p) == p \in x.pulled \/ \A q \in x.pulled : at[q] <= at[p]

(* A walk that is at `after` has every post of its sources from there on;  *)
(* one that is through has all of them.                                    *)
Walked ==
  ~faults.capped =>
    \A w \in Poller : \A y \in poller[w].unit : \A p \in Post :
      /\ Home[p] = y.src /\ Kind[y.src] # "search" /\ at[p] > 0 /\ at[p] >= y.since
      /\ poller[w].done \/ p >= poller[w].after
      => Handled(poller[w], p)

(* A watermark moves when the items behind it are recorded.                *)
Recorded ==
  \A w \in Poller :
    LET x == poller[w]
    IN /\ x.pc = "advance" => x.cur \subseteq x.unit
                              /\ \A s \in x.cur : Items(x, s) \subseteq seen
       /\ x.pc = "insert" /\ x.done => x.cur \subseteq x.unit
                              /\ \A s \in x.cur : Items(x, s) \subseteq seen \cup x.chunk

(* What a page has of its listing: no post of the listing is newer than    *)
(* one of the page and not in it, and a short page has all of them.        *)
LEMMA PageFacts ==
  ASSUME NEW U, NEW after
  PROVE  /\ Page(U, after) \subseteq Listed(U, after)
         /\ Listed(U, after) \subseteq {p \in Post : at[p] > 0}
         /\ \A q \in Page(U, after), p \in Listed(U, after) : q <= p => p \in Page(U, after)
         /\ Cardinality(Page(U, after)) < PageSize => Page(U, after) = Listed(U, after)
         /\ Page(U, after) = {} => Listed(U, after) = {}
<1> DEFINE all == Listed(U, after)
           P == Page(U, after)
           Newer(p) == {q \in all : q > p}
<1>1. /\ Post \subseteq 1 .. MaxPosts /\ Post \subseteq Nat /\ MaxPosts \in Nat /\ PageSize \in Nat \ {0}
      /\ IsFiniteSet(Post)
  BY FeedAssumption, FS_Interval DEF Post
<1>2. all \subseteq {p \in Post : at[p] > 0} /\ all \subseteq Post
  BY DEF Listed
<1>3. IsFiniteSet(all)
  BY <1>1, <1>2, FS_Subset
<1>4. CASE ~IsPaged(U)
  BY <1>2, <1>4, <1>1, FS_EmptySet DEF Page
<1>5. CASE IsPaged(U)
  <2>1. P = {p \in all : Cardinality(Newer(p)) < PageSize}
    BY <1>5 DEF Page
  <2>2. \A p \in all : IsFiniteSet(Newer(p)) /\ Cardinality(Newer(p)) \in Nat
    BY <1>3, FS_Subset, FS_CardinalityType
  <2> HIDE DEF all, P
  <2>3. P \subseteq all
    BY <2>1
  <2>4. ASSUME NEW q \in P, NEW p \in all, q <= p PROVE p \in P
    <3>1. q \in Nat /\ p \in Nat /\ q \in all
      BY <1>1, <1>2, <2>3
    <3>2. Newer(p) \subseteq Newer(q)
      <4>1. \A r \in all : r \in Nat
        BY <1>1, <1>2
      <4>2. \A r \in all : r > p => r > q
        BY <2>4, <3>1, <4>1
      <4> QED
        BY <4>2
    <3>3. Cardinality(Newer(p)) <= Cardinality(Newer(q)) /\ Cardinality(Newer(q)) < PageSize
      <4> HIDE DEF Newer
      <4> QED
        BY <2>1, <2>2, <3>1, <3>2, FS_Subset
    <3>4. Cardinality(Newer(p)) \in Nat /\ Cardinality(Newer(q)) \in Nat
      BY <2>2, <3>1
    <3>5. Cardinality(Newer(p)) < PageSize
      <4> HIDE DEF Newer
      <4> QED
        BY <1>1, <3>3, <3>4
    <3> QED
      BY <2>1, <3>5
  <2>5. ASSUME Cardinality(P) < PageSize PROVE P = all
    <3> SUFFICES ASSUME all \ P # {} PROVE FALSE
      BY <2>3
    <3>1. all \ P \subseteq 0 .. MaxPosts
      <4>1. \A k \in 1 .. MaxPosts : k \in 0 .. MaxPosts
        BY <1>1
      <4> QED
        BY <1>1, <1>2, <4>1
    <3>2. PICK m \in all \ P : \A k \in all \ P : k <= m
      BY <1>1, <3>1, LargestOf
    <3>3. Newer(m) \subseteq P
      <4>1. \A k \in all : k \in Nat
        BY <1>1, <1>2
      <4> QED
        BY <3>2, <4>1
    <3>4. IsFiniteSet(P) /\ Cardinality(P) \in Nat
      BY <1>3, <2>3, FS_Subset, FS_CardinalityType
    <3>5. Cardinality(Newer(m)) <= Cardinality(P)
      <4> HIDE DEF Newer
      <4> QED
        BY <3>3, <3>4, FS_Subset
    <3>6. Cardinality(Newer(m)) < PageSize
      <4>1. Cardinality(Newer(m)) \in Nat
        BY <2>2
      <4> HIDE DEF Newer
      <4> QED
        BY <1>1, <2>5, <3>4, <3>5, <4>1
    <3> QED
      BY <2>1, <3>2, <3>6
  <2>6. P = {} => Cardinality(P) < PageSize
    BY <1>1, FS_EmptySet
  <2> QED
    BY <1>2, <2>3, <2>4, <2>5, <2>6 DEF all, P
<1> QED
  BY <1>4, <1>5

(* The walk starts at the earliest watermark of its sources.               *)
LEMMA SinceFacts ==
  ASSUME NEW U, U # {}, \A y \in U : y.since \in Nat
  PROVE  Since(U) \in Nat /\ \A y \in U : Since(U) <= y.since
<1> DEFINE S == {y.since : y \in U}
<1>1. S \subseteq Nat /\ S # {}
  OBVIOUS
<1>2. \A y \in U : y.since \in S
  OBVIOUS
<1>3. Since(U) = CHOOSE m \in S : \A y \in U : m <= y.since
  BY DEF Since
<1>4. PICK m \in S : \A k \in S : m <= k
  <2> HIDE DEF S
  <2> QED
    BY <1>1, SmallestOf
<1>5. \A y \in U : m <= y.since
  BY <1>2, <1>4
<1> HIDE DEF S
<1> QED
  BY <1>1, <1>3, <1>4, <1>5

(* The next page starts at the oldest entry so far.                        *)
LEMMA OldestFacts ==
  ASSUME NEW P, NEW after, P \subseteq Nat, after \in Nat
  PROVE  /\ Oldest(P, after) \in P \cup {after} /\ Oldest(P, after) \in Nat
         /\ \A q \in P \cup {after} : Oldest(P, after) <= q
<1> DEFINE S == P \cup {after}
<1>1. S \subseteq Nat /\ S # {}
  OBVIOUS
<1>2. Oldest(P, after) = CHOOSE p \in S : \A q \in S : p <= q
  BY DEF Oldest
<1> HIDE DEF S
<1>3. \E m \in S : \A k \in S : m <= k
  BY <1>1, SmallestOf
<1>4. Oldest(P, after) \in S /\ \A q \in S : Oldest(P, after) <= q
  BY <1>2, <1>3
<1>5. Oldest(P, after) \in Nat
  BY <1>1, <1>4
<1> QED
  BY <1>4, <1>5 DEF S


-----------------------------------------------------------------------------
(* What a step of a poller does to its walk.                               *)
Same(w, S) == \A f \in S : poller'[w][f] = poller[w][f]

(* It walks nothing.                                                       *)
Rests(w) ==
  LET y == poller'[w]
  IN /\ y.pc \in {"idle", "pick", "pruning", "release", "releasing"}
     /\ y.unit = {} /\ y.cur = {} /\ y.pulled = {} /\ y.after = MaxPosts + 1
     /\ y.todo \subseteq poller[w].todo \cup Open(Source)
     /\ seen' = seen

Queries(w) ==
  LET y == poller'[w]
  IN /\ y.pc \in {"pick", "renewing"} /\ (y.pc = "renewing" => y.todo # {})
     /\ Same(w, {"unit", "cur", "pulled", "after", "done"})
     /\ y.todo \subseteq poller[w].todo \cup Open(Source)
     /\ seen' = seen /\ row' = row

Begins(w) ==
  LET y == poller'[w]
  IN /\ poller[w].pc = "renewing" /\ y.pc = "walk"
     /\ y.unit \subseteq poller[w].todo /\ (poller[w].todo # {} => y.unit # {})
     /\ y.todo \subseteq poller[w].todo
     /\ y.pulled = {} /\ y.after = MaxPosts + 1
     /\ Same(w, {"cur"})
     /\ seen' = seen /\ row' = row

Fetches(w) ==
  LET x == poller[w]
      y == poller'[w]
      P == Page(x.unit, x.after)
  IN /\ x.pc = "walk" /\ y.pc = IF y.done THEN "settle" ELSE "walk"
     /\ y.pulled = x.pulled \cup Kept(x.unit, P)
     /\ y.after = Oldest(P, x.after)
     /\ y.done \in BOOLEAN
     /\ y.done => IsThrough(x.unit, P) \/ faults'.capped
     /\ Same(w, {"unit", "todo", "cur"})
     /\ faults'.capped \/ ~faults.capped
     /\ seen' = seen /\ row' = row

Chooses(w) ==
  LET x == poller[w]
      y == poller'[w]
  IN /\ \E s \in x.unit :
          LET fresh == {p \in Items(x, s) : item[p].id = 0}
          IN /\ y.cur = {s}
             /\ \/ x.pc = "settle" /\ y.pc = "advance" /\ fresh = {}
                \/ y.pc = "insert" /\ y.chunk = fresh
     /\ Same(w, {"unit", "todo", "pulled", "after", "done"})
     /\ seen' = seen /\ row' = row

Stores(w) ==
  LET x == poller[w]
      y == poller'[w]
  IN /\ x.pc = "insert"
     /\ y.pc = IF x.done THEN "advance" ELSE "walk"
     /\ y.cur = IF x.done THEN x.cur ELSE {}
     /\ Same(w, {"unit", "todo", "pulled", "after", "done"})
     /\ seen' = seen \cup x.chunk /\ row' = row

Moves(w) ==
  LET y == poller'[w]
  IN /\ y.pc = "settle" /\ y.cur = {} /\ y.unit \subseteq poller[w].unit
     /\ Same(w, {"todo", "pulled", "after", "done"})
     /\ poller[w].pc = "advance" /\ seen' = seen

(* The row of a source is written by the advance alone.                    *)
Writes(w) ==
  \/ row' = row
  \/ /\ poller[w].pc = "advance"
     /\ \E s \in poller[w].cur :
          /\ row[s.src].on /\ row[s.src].gen = s.gen
          /\ row[s.src].mark < Newest(poller[w], s)
          /\ row' = [row EXCEPT ![s.src].mark = Newest(poller[w], s)]

(* What is known of the faults.                                            *)
Noted == faults \in [lapses : Nat, crashes : Nat, edits : Nat, capped : BOOLEAN]

LEMMA WalkSteps ==
  ASSUME Well, Noted, NEW w \in Poller, Poll(w)
  PROVE  /\ UNCHANGED <<at, now>>
         /\ Writes(w)
         /\ Noted'
         /\ \/ Fetches(w)
            \/ /\ Rests(w) \/ Queries(w) \/ Begins(w) \/ Chooses(w) \/ Stores(w) \/ Moves(w)
               /\ faults'.capped = faults.capped
<1> DEFINE x == poller[w]
           y == poller'[w]
           Still == at' = at /\ now' = now /\ Noted' /\ faults'.capped = faults.capped
<1>1. Shaped(x) /\ x = poller[w]
  BY DEF Well
<1>2. ASSUME faults' = faults PROVE Noted' /\ faults'.capped = faults.capped
  BY <1>2 DEF Noted
<1>3. ASSUME faults' = [faults EXCEPT !.crashes = @ + 1] PROVE Noted' /\ faults'.capped = faults.capped
  BY <1>3 DEF Noted
<1>4. /\ Idle.unit = {} /\ Idle.cur = {} /\ Idle.pulled = {} /\ Idle.after = MaxPosts + 1
      /\ Idle.todo = {} /\ Idle.pc = "idle" /\ Shaped(Idle)
  BY IdleShape DEF Idle
<1>5. /\ NextUnit(x).unit = {} /\ NextUnit(x).cur = {} /\ NextUnit(x).pulled = {}
      /\ NextUnit(x).after = MaxPosts + 1 /\ NextUnit(x).todo = x.todo /\ NextUnit(x).pc = "pick"
  BY <1>4 DEF NextUnit, Shaped, Fields
<1>6. ASSUME Lock(w) PROVE Still /\ Rests(w) /\ row' = row
  <2> DEFINE any == \E s \in Source : row[s].on
             z == [Idle EXCEPT !.pc = "pick", !.began = now, !.todo = RedditRows, !.any = any]
  <2>1. Becomes(w, z)
    BY <1>6 DEF Lock
  <2>2. y = z
    BY <2>1, Turns
  <2>3. /\ z.unit = {} /\ z.cur = {} /\ z.pulled = {} /\ z.after = MaxPosts + 1
        /\ z.pc = "pick" /\ z.todo = RedditRows
    <3> HIDE DEF any
    <3> QED
      BY <1>4 DEF Shaped, Fields
  <2>4. RedditRows \subseteq Open(Source)
    BY DEF RedditRows, Open
  <2> HIDE DEF z
  <2> QED
    BY <1>2, <1>6, <2>2, <2>3, <2>4 DEF Lock, Rests, feedVars
<1>7. ASSUME OpenRest(w) PROVE Still /\ Queries(w)
  <2> DEFINE z == [x EXCEPT !.todo = OtherRows, !.rest = TRUE]
  <2>1. Becomes(w, z) /\ x.pc = "pick"
    BY <1>7 DEF OpenRest
  <2>2. y = z
    BY <2>1, Turns
  <2>3. /\ z.unit = x.unit /\ z.cur = x.cur /\ z.pulled = x.pulled /\ z.after = x.after
        /\ z.done = x.done /\ z.pc = "pick" /\ z.todo = OtherRows
    BY <1>1, <2>1 DEF Shaped, Fields
  <2>4. OtherRows \subseteq Open(Source)
    BY DEF OtherRows, Open
  <2> HIDE DEF z
  <2> QED
    BY <1>2, <1>7, <2>2, <2>3, <2>4 DEF OpenRest, Queries, Same, feedVars
<1>8. ASSUME RenewGet(w) PROVE Still /\ Queries(w)
  <2> DEFINE z == IF lease = w THEN [x EXCEPT !.pc = "renewing"]
                               ELSE [x EXCEPT !.todo = {}, !.rest = TRUE]
  <2>1. Becomes(w, z) /\ x.pc = "pick" /\ x.todo # {}
    BY <1>8 DEF RenewGet
  <2>2. y = z
    BY <2>1, Turns
  <2>3. /\ z.unit = x.unit /\ z.cur = x.cur /\ z.pulled = x.pulled /\ z.after = x.after
        /\ z.done = x.done /\ z.todo \subseteq x.todo
        /\ z.pc \in {"pick", "renewing"} /\ (z.pc = "renewing" => z.todo # {})
    <3>1. CASE lease = w
      BY <1>1, <2>1, <3>1 DEF Shaped, Fields
    <3>2. CASE lease # w
      BY <1>1, <2>1, <3>2 DEF Shaped, Fields
    <3> QED
      BY <3>1, <3>2
  <2> HIDE DEF z
  <2> QED
    BY <1>2, <1>8, <2>2, <2>3 DEF RenewGet, Queries, Same, feedVars
<1>9. ASSUME RenewSet(w) PROVE Still /\ Begins(w)
  <2>1. PICK U \in SUBSET x.todo :
          /\ IsUnit(w, U)
          /\ Becomes(w, [x EXCEPT !.pc = "walk", !.unit = U, !.todo = @ \ U, !.done = FALSE,
                                  !.pages = 0, !.after = MaxPosts + 1, !.pulled = {}])
    BY <1>9 DEF RenewSet
  <2> DEFINE z == [x EXCEPT !.pc = "walk", !.unit = U, !.todo = @ \ U, !.done = FALSE,
                            !.pages = 0, !.after = MaxPosts + 1, !.pulled = {}]
  <2>2. y = z
    BY <2>1, Turns
  <2>3. /\ z.pc = "walk" /\ z.unit = U /\ z.todo \subseteq x.todo /\ z.after = MaxPosts + 1
        /\ z.pulled = {} /\ z.cur = x.cur
    BY <1>1 DEF Shaped, Fields
  <2>4. x.todo # {} => U # {}
    BY <2>1 DEF IsUnit
  <2> HIDE DEF z
  <2> QED
    BY <1>2, <1>9, <2>2, <2>3, <2>4 DEF RenewSet, Begins, Same, feedVars
<1>10. ASSUME FetchPage(w) PROVE at' = at /\ now' = now /\ Noted' /\ Fetches(w)
  <2> DEFINE P == Page(x.unit, x.after)
             done == EndsWalk(x.unit, P, x.pages + 1)
             pulled == x.pulled \cup Kept(x.unit, P)
             oldest == Oldest(P, x.after)
             ok == x.ok \/ done
             capped == faults.capped \/ (done /\ ~IsThrough(x.unit, P))
             z == [x EXCEPT !.pulled = pulled, !.pages = @ + 1, !.after = oldest,
                            !.done = done, !.ok = ok,
                            !.pc = IF done THEN "settle" ELSE "walk"]
  <2>1. /\ Becomes(w, z) /\ x.pc = "walk" /\ faults' = [faults EXCEPT !.capped = capped]
        /\ at' = at /\ now' = now /\ seen' = seen /\ row' = row
    BY <1>10 DEF FetchPage, feedVars
  <2>2. y = z
    BY <2>1, Turns
  <2>3. done \in BOOLEAN /\ capped \in BOOLEAN
    BY DEF EndsWalk, Noted
  <2>4. /\ z.pulled = pulled /\ z.after = oldest /\ z.done = done /\ z.unit = x.unit
        /\ z.todo = x.todo /\ z.cur = x.cur /\ z.pc = IF done THEN "settle" ELSE "walk"
    <3> HIDE DEF P, done, pulled, oldest, ok
    <3> QED
      BY <1>1 DEF Shaped, Fields
  <2>5. Noted' /\ faults'.capped = capped
    <3> HIDE DEF capped
    <3> QED
      BY <2>1, <2>3 DEF Noted
  <2>6. done => IsThrough(x.unit, P) \/ capped
    OBVIOUS
  <2>7. capped \/ ~faults.capped
    OBVIOUS
  <2> HIDE DEF z, done, capped
  <2> QED
    BY <2>1, <2>2, <2>3, <2>4, <2>5, <2>6, <2>7 DEF Fetches, Same
<1>11. ASSUME FetchFails(w) PROVE Still /\ Rests(w) /\ row' = row
  <2>1. y = NextUnit(x)
    BY <1>11, Turns DEF FetchFails, Failed
  <2> QED
    BY <1>2, <1>5, <1>11, <2>1 DEF FetchFails, Rests, feedVars
<1>12. ASSUME BuildChunk(w) PROVE Still /\ Chooses(w)
  <2>1. /\ x.pc \in {"walk", "settle"}
        /\ at' = at /\ now' = now /\ faults' = faults /\ seen' = seen /\ row' = row
    BY <1>12 DEF BuildChunk
  <2>2. PICK s \in x.unit :
          \/ /\ {p \in Items(x, s) : item[p].id = 0} = {} /\ x.pc = "settle"
             /\ Becomes(w, [x EXCEPT !.pc = "advance", !.cur = {s}])
          \/ Becomes(w, [x EXCEPT !.pc = "insert", !.cur = {s},
                                  !.chunk = {p \in Items(x, s) : item[p].id = 0},
                                  !.id = ids + 1, !.born = now])
    BY <1>12 DEF BuildChunk
  <2> DEFINE fresh == {p \in Items(x, s) : item[p].id = 0}
             a == [x EXCEPT !.pc = "advance", !.cur = {s}]
             b == [x EXCEPT !.pc = "insert", !.cur = {s}, !.chunk = fresh, !.id = ids + 1, !.born = now]
  <2>3. (fresh = {} /\ x.pc = "settle" /\ y = a) \/ y = b
    BY <2>2, Turns
  <2>4. /\ a.pc = "advance" /\ a.cur = {s} /\ b.pc = "insert" /\ b.cur = {s} /\ b.chunk = fresh
        /\ \A f \in {"unit", "todo", "pulled", "after", "done"} : a[f] = x[f] /\ b[f] = x[f]
    <3> HIDE DEF fresh
    <3> QED
      BY <1>1 DEF Shaped, Fields
  <2>5. CASE fresh = {} /\ x.pc = "settle" /\ y = a
    <3> HIDE DEF a, b
    <3>1. y.cur = {s} /\ x.pc = "settle" /\ y.pc = "advance" /\ fresh = {}
      BY <2>4, <2>5
    <3>2. Same(w, {"unit", "todo", "pulled", "after", "done"})
      BY <2>4, <2>5 DEF Same
    <3> QED
      BY <1>2, <2>1, <3>1, <3>2 DEF Chooses
  <2>6. CASE y = b
    <3> HIDE DEF a, b
    <3>1. y.cur = {s} /\ y.pc = "insert" /\ y.chunk = fresh
      BY <2>4, <2>6
    <3>2. Same(w, {"unit", "todo", "pulled", "after", "done"})
      BY <2>4, <2>6 DEF Same
    <3> QED
      BY <1>2, <2>1, <3>1, <3>2 DEF Chooses
  <2> QED
    BY <2>3, <2>5, <2>6
<1>13. ASSUME InsertChunk(w) PROVE Still /\ Stores(w)
  <2> DEFINE z == [x EXCEPT !.pc = IF x.done THEN "advance" ELSE "walk",
                            !.chunk = {}, !.id = 0, !.born = 0,
                            !.cur = IF x.done THEN @ ELSE {}]
  <2>1. Becomes(w, z) /\ x.pc = "insert"
    BY <1>13 DEF InsertChunk
  <2>2. y = z
    BY <2>1, Turns
  <2>3. /\ z.pc = IF x.done THEN "advance" ELSE "walk"
        /\ z.cur = IF x.done THEN x.cur ELSE {}
        /\ \A f \in {"unit", "todo", "pulled", "after", "done"} : z[f] = x[f]
    BY <1>1 DEF Shaped, Fields
  <2>4. at' = at /\ now' = now /\ faults' = faults /\ seen' = seen \cup x.chunk /\ row' = row
    BY <1>13 DEF InsertChunk
  <2> HIDE DEF z
  <2>5. Same(w, {"unit", "todo", "pulled", "after", "done"})
    BY <2>2, <2>3 DEF Same
  <2> QED
    BY <1>2, <2>1, <2>2, <2>3, <2>4, <2>5 DEF Stores
<1>14. ASSUME AdvanceMark(w) PROVE Still /\ Writes(w) /\ (Rests(w) \/ Moves(w))
  <2>1. /\ x.pc = "advance"
        /\ at' = at /\ now' = now /\ faults' = faults /\ seen' = seen
    BY <1>14 DEF AdvanceMark
  <2>2. PICK s \in x.cur :
          /\ row' = IF Newest(x, s) > s.since THEN Moved(s, Newest(x, s)) ELSE row
          /\ Becomes(w, IF x.unit = {s}
                        THEN NextUnit(x)
                        ELSE [x EXCEPT !.pc = "settle", !.cur = {}, !.unit = @ \ {s}])
    BY <1>14 DEF AdvanceMark
  <2>3. Writes(w)
    BY <2>1, <2>2 DEF Writes, Moved
  <2> DEFINE z == [x EXCEPT !.pc = "settle", !.cur = {}, !.unit = @ \ {s}]
  <2>4. y = NextUnit(x) \/ y = z
    BY <2>2, Turns
  <2>5. /\ z.pc = "settle" /\ z.cur = {} /\ z.unit \subseteq x.unit
        /\ \A f \in {"todo", "pulled", "after", "done"} : z[f] = x[f]
    BY <1>1 DEF Shaped, Fields
  <2> HIDE DEF z
  <2>6. CASE y = NextUnit(x)
    BY <1>2, <1>5, <2>1, <2>3, <2>6 DEF Rests
  <2>7. CASE y = z
    <3>1. Same(w, {"todo", "pulled", "after", "done"})
      BY <2>5, <2>7 DEF Same
    <3> QED
      BY <1>2, <2>1, <2>3, <2>5, <2>7, <3>1 DEF Moves
  <2> QED
    BY <2>4, <2>6, <2>7
<1>15. ASSUME ClosesCycle(w) PROVE Still /\ Rests(w) /\ row' = row
  <2> DEFINE pc == IF x.any /\ ~x.ok THEN "release" ELSE "pruning"
             z == [Idle EXCEPT !.pc = pc, !.began = x.began]
  <2>1. Becomes(w, z)
    BY <1>15 DEF ClosesCycle
  <2>2. y = z
    BY <2>1, Turns
  <2>3. /\ z.unit = {} /\ z.cur = {} /\ z.pulled = {} /\ z.after = MaxPosts + 1
        /\ z.pc \in {"release", "pruning"} /\ z.todo = {}
    BY <1>4 DEF Shaped, Fields
  <2> HIDE DEF z
  <2> QED
    BY <1>2, <1>15, <2>2, <2>3 DEF ClosesCycle, Rests
<1>16. ASSUME y = [Idle EXCEPT !.pc = "release"] \/ y = [Idle EXCEPT !.pc = "releasing"] \/ y = Idle,
              at' = at, now' = now, seen' = seen, row' = row,
              faults' = faults \/ faults' = [faults EXCEPT !.crashes = @ + 1]
       PROVE  Still /\ Rests(w) /\ row' = row
  <2>1. /\ y.unit = {} /\ y.cur = {} /\ y.pulled = {} /\ y.after = MaxPosts + 1
        /\ y.pc \in {"idle", "release", "releasing"} /\ y.todo = {}
    BY <1>4, <1>16 DEF Shaped, Fields
  <2> QED
    BY <1>2, <1>3, <1>16, <2>1 DEF Rests
<1>17. ASSUME Prune(w) PROVE Still /\ Rests(w) /\ row' = row
  <2>1. y = [Idle EXCEPT !.pc = "release"]
    BY <1>17, Turns DEF Prune
  <2> QED
    BY <1>16, <1>17, <2>1 DEF Prune
<1>18. ASSUME Raises(w) PROVE Still /\ Rests(w) /\ row' = row
  <2>1. y = [Idle EXCEPT !.pc = "release"]
    BY <1>18, Turns DEF Raises
  <2> QED
    BY <1>16, <1>18, <2>1 DEF Raises, feedVars
<1>19. ASSUME ReleaseGet(w) PROVE Still /\ Rests(w) /\ row' = row
  <2>1. y = [Idle EXCEPT !.pc = "releasing"] \/ y = Idle
    BY <1>19, Turns DEF ReleaseGet
  <2> QED
    BY <1>16, <1>19, <2>1 DEF ReleaseGet, feedVars
<1>20. ASSUME ReleaseDelete(w) \/ PollerDies(w) PROVE Still /\ Rests(w) /\ row' = row
  <2>1. y = Idle
    BY <1>20, Turns DEF ReleaseDelete, PollerDies
  <2> QED
    BY <1>16, <1>20, <2>1 DEF ReleaseDelete, PollerDies, feedVars
<1>21. row' = row => Writes(w)
  BY DEF Writes
<1>22. /\ Queries(w) => row' = row
       /\ Begins(w) => row' = row
       /\ Fetches(w) => row' = row
       /\ Chooses(w) => row' = row
       /\ Stores(w) => row' = row
  BY DEF Queries, Begins, Fetches, Chooses, Stores
<1> QED
  BY <1>6, <1>7, <1>8, <1>9, <1>10, <1>11, <1>12, <1>13, <1>14, <1>15, <1>17, <1>18, <1>19, <1>20,
     <1>21, <1>22 DEF Poll

-----------------------------------------------------------------------------
(* The world's steps, as far as posts, rows and faults are concerned.      *)
LEMMA OtherSteps ==
  ASSUME Noted, [Next]_vars, ~ \E w \in Poller : Poll(w)
  PROVE  /\ UNCHANGED <<item, seen, poller>>
         /\ Noted' /\ faults'.capped = faults.capped
         /\ \/ UNCHANGED <<at, now, row>>
            \/ \E p \in Post : Publish(p)
            \/ Tick
            \/ \E s \in Source : RemoveSource(s) \/ \E m \in 1 .. MaxTime : AddSource(s, m)
<1> DEFINE Still == UNCHANGED <<item, seen, poller>> /\ Noted' /\ faults'.capped = faults.capped
<1>1. ASSUME faults' = faults PROVE Noted' /\ faults'.capped = faults.capped
  BY <1>1 DEF Noted
<1>2. ASSUME NEW p \in Post, Publish(p) PROVE Still
  BY <1>1, <1>2 DEF Publish, feedVars, pollVars
<1>3. ASSUME Tick PROVE Still
  BY <1>1, <1>3 DEF Tick, feedVars, pollVars
<1>4. ASSUME LeaseExpires PROVE Still /\ UNCHANGED <<at, now, row>>
  <2>1. UNCHANGED <<at, now, row, item, seen, poller>>
    BY <1>4 DEF LeaseExpires, feedVars
  <2>2. faults' = faults \/ faults' = [faults EXCEPT !.lapses = @ + 1]
    BY <1>4 DEF LeaseExpires
  <2>3. Noted' /\ faults'.capped = faults.capped
    BY <1>1, <2>2 DEF Noted
  <2> QED
    BY <2>1, <2>3
<1>5. ASSUME NEW s \in Source, RemoveSource(s) PROVE Still
  BY <1>1, <1>5 DEF RemoveSource, pollVars
<1>6. ASSUME NEW s \in Source, NEW m \in 1 .. MaxTime, AddSource(s, m) PROVE Still
  <2>1. UNCHANGED <<item, seen, poller>> /\ faults' = [faults EXCEPT !.edits = @ + 1]
    BY <1>6 DEF AddSource, pollVars
  <2>2. Noted' /\ faults'.capped = faults.capped
    BY <2>1 DEF Noted
  <2> QED
    BY <2>1, <2>2
<1>7. ASSUME TriggerReads \/ TriggerEnqueues \/ TriggerAdvances \/ TriggerStops
      PROVE  Still /\ UNCHANGED <<at, now, row>>
  <2>1. UNCHANGED <<at, now, row, item, seen, poller>>
    BY <1>7 DEF TriggerReads, TriggerEnqueues, TriggerAdvances, TriggerStops, feedVars, pollVars
  <2>2. faults' = faults \/ faults' = [faults EXCEPT !.crashes = @ + 1]
    BY <1>7 DEF TriggerReads, TriggerEnqueues, TriggerAdvances, TriggerStops
  <2>3. Noted' /\ faults'.capped = faults.capped
    BY <1>1, <2>2 DEF Noted
  <2> QED
    BY <2>1, <2>3
<1>8. ASSUME UNCHANGED vars PROVE Still /\ UNCHANGED <<at, now, row>>
  BY <1>1, <1>8 DEF vars
<1> QED
  BY <1>2, <1>3, <1>4, <1>5, <1>6, <1>7, <1>8 DEF Next

(* The newest time of a walk is one of its own, or the watermark.          *)
LEMMA NewestTime ==
  ASSUME Clock, NEW x, NEW s, s.since \in Nat, s.since <= now, x.pulled \subseteq Post
  PROVE  /\ Newest(x, s) = s.since \/ \E p \in Items(x, s) : Newest(x, s) = at[p]
         /\ Newest(x, s) \in Nat /\ Newest(x, s) <= now
<1> DEFINE S == {at[p] : p \in Items(x, s)} \cup {s.since}
<1>1. Items(x, s) \subseteq Post
  BY DEF Items
<1>2. S \subseteq 0 .. now /\ S # {}
  <2>1. \A p \in Post : at[p] \in 0 .. now
    BY DEF Clock
  <2>2. s.since \in 0 .. now
    BY DEF Clock
  <2> QED
    BY <1>1, <2>1, <2>2
<1>3. Newest(x, s) = CHOOSE m \in S : \A n \in S : n <= m
  BY DEF Newest
<1>4. \E m \in S : \A n \in S : n <= m
  <2>1. now \in Nat
    BY DEF Clock
  <2> HIDE DEF S
  <2> QED
    BY <1>2, <2>1, LargestOf
<1>5. Newest(x, s) \in S
  <2> HIDE DEF S
  <2> QED
    BY <1>3, <1>4
<1>6. Newest(x, s) \in 0 .. now /\ now \in Nat
  BY <1>2, <1>5 DEF Clock
<1> QED
  BY <1>5, <1>6

(* A watermark moves forward, and not into the future; only a new row has  *)
(* another.                                                                *)
LEMMA RowSteps ==
  ASSUME Well, Noted, Clock, Tables, Walking, [Next]_vars
  PROVE  /\ now' \in Nat /\ now <= now'
         /\ row' \in [Source -> [on : BOOLEAN, gen : Nat, mark : Nat, from : Nat]]
         /\ \A s \in Source :
              /\ row'[s].mark <= now' /\ row[s].gen <= row'[s].gen
              /\ row'[s].gen = row[s].gen => row[s].mark <= row'[s].mark
<1>1. now \in Nat /\ row \in [Source -> [on : BOOLEAN, gen : Nat, mark : Nat, from : Nat]]
      /\ \A s \in Source : row[s].mark <= now
  BY DEF Clock, Tables
<1>2. CASE UNCHANGED <<now, row>>
  BY <1>1, <1>2
<1>3. CASE Tick
  <2>1. now' = now + 1 /\ row' = row
    BY <1>3 DEF Tick, feedVars
  <2> QED
    BY <1>1, <2>1
<1>4. ASSUME NEW s \in Source, RemoveSource(s) \/ \E m \in 1 .. MaxTime : AddSource(s, m)
      PROVE  /\ now' = now
             /\ row' \in [Source -> [on : BOOLEAN, gen : Nat, mark : Nat, from : Nat]]
             /\ \A t \in Source :
                  /\ row'[t].mark <= now /\ row[t].gen <= row'[t].gen
                  /\ row'[t].gen = row[t].gen => row[t].mark <= row'[t].mark
  <2>1. CASE RemoveSource(s)
    <3>1. now' = now /\ row' = [row EXCEPT ![s].on = FALSE]
      BY <2>1 DEF RemoveSource
    <3>2. [row[s] EXCEPT !.on = FALSE] \in [on : BOOLEAN, gen : Nat, mark : Nat, from : Nat]
      BY <1>1
    <3>3. \A t \in Source : row'[t].mark = row[t].mark /\ row'[t].gen = row[t].gen
      BY <1>1, <3>1
    <3>4. row' \in [Source -> [on : BOOLEAN, gen : Nat, mark : Nat, from : Nat]]
      BY <1>1, <3>1, <3>2
    <3> QED
      BY <1>1, <3>1, <3>3, <3>4
  <2>2. CASE \E m \in 1 .. MaxTime : AddSource(s, m)
    <3>1. PICK m \in 1 .. MaxTime : AddSource(s, m)
      BY <2>2
    <3>2. /\ now' = now /\ m <= now /\ m \in Nat
          /\ row' = [row EXCEPT ![s] = [on |-> TRUE, gen |-> row[s].gen + 1, mark |-> m, from |-> m]]
      BY <1>1, <3>1, IdleShape DEF AddSource
    <3> QED
      BY <1>1, <3>2
  <2> QED
    BY <1>4, <2>1, <2>2
<1>5. ASSUME NEW w \in Poller, Poll(w)
      PROVE  /\ now' = now
             /\ row' \in [Source -> [on : BOOLEAN, gen : Nat, mark : Nat, from : Nat]]
             /\ \A t \in Source :
                  /\ row'[t].mark <= now /\ row[t].gen <= row'[t].gen
                  /\ row'[t].gen = row[t].gen => row[t].mark <= row'[t].mark
  <2> DEFINE x == poller[w]
  <2>1. now' = now /\ Writes(w)
    BY <1>5, WalkSteps
  <2>2. CASE row' = row
    BY <1>1, <2>1, <2>2
  <2>3. CASE row' # row
    <3>1. PICK s \in x.cur : /\ row[s.src].mark < Newest(x, s)
                             /\ row' = [row EXCEPT ![s.src].mark = Newest(x, s)]
      BY <2>1, <2>3 DEF Writes
    <3>2. s.src \in Source /\ s.since \in Nat /\ s.since <= now /\ x.pulled \subseteq Post
      BY DEF Walking, ReadRow
    <3>3. Newest(x, s) \in Nat /\ Newest(x, s) <= now
      BY <3>2, NewestTime
    <3> HIDE DEF x
    <3> QED
      BY <1>1, <2>1, <3>1, <3>2, <3>3
  <2> QED
    BY <2>2, <2>3
<1>6. ASSUME NEW p \in Post, Publish(p) PROVE UNCHANGED <<now, row>>
  BY <1>6 DEF Publish, feedVars
<1> QED
  BY <1>1, <1>2, <1>3, <1>4, <1>5, <1>6, OtherSteps

(* A post that is out keeps its time; a new one is the newest.             *)
LEMMA AtSteps ==
  ASSUME Well, Noted, Clock, [Next]_vars
  PROVE  /\ at' \in [Post -> Nat]
         /\ \A p \in Post : at[p] > 0 => at'[p] = at[p]
         /\ \A p \in Post : at'[p] # at[p] => at[p] = 0 /\ at'[p] = now /\ Publish(p)
<1>1. at \in [Post -> Nat] /\ now \in Nat
  BY DEF Clock
<1>2. CASE UNCHANGED at
  BY <1>1, <1>2
<1>3. ASSUME NEW p \in Post, Publish(p)
      PROVE  /\ at' = [at EXCEPT ![p] = now] /\ at[p] = 0
  BY <1>3 DEF Publish
<1>4. ASSUME NEW w \in Poller, Poll(w) PROVE at' = at
  BY <1>4, WalkSteps
<1>5. CASE \E s \in Source : RemoveSource(s) \/ \E m \in 1 .. MaxTime : AddSource(s, m)
  BY <1>2, <1>5 DEF RemoveSource, AddSource
<1>6. CASE Tick
  BY <1>2, <1>6 DEF Tick
<1> QED
  BY <1>1, <1>2, <1>3, <1>4, <1>5, <1>6, OtherSteps

LEMMA ClockNext == Well /\ Noted /\ Clock /\ [Next]_vars => Clock'
<1> SUFFICES ASSUME Well, Noted, Clock, [Next]_vars PROVE Clock'
  OBVIOUS
<1>1. /\ now \in Nat \ {0} /\ at \in [Post -> Nat] /\ \A p \in Post : at[p] <= now /\ p \in Nat
      /\ \A p, q \in Post : p < q /\ at[q] > 0 => at[p] > 0 /\ at[p] <= at[q]
  BY FeedAssumption DEF Clock, Post
<1>2. CASE UNCHANGED <<at, now>>
  BY <1>2 DEF Clock
<1>3. CASE Tick
  <2>1. now' = now + 1 /\ at' = at
    BY <1>3 DEF Tick
  <2> QED
    BY <1>1, <2>1 DEF Clock
<1>4. ASSUME NEW p \in Post, Publish(p) PROVE Clock'
  <2>1. /\ at[p] = 0 /\ now' = now /\ at' = [at EXCEPT ![p] = now]
        /\ \A q \in Post : q < p => at[q] > 0
    BY <1>4 DEF Publish
  <2>2. \A q \in Post : at'[q] = IF q = p THEN now ELSE at[q]
    BY <1>1, <2>1
  <2>3. ASSUME NEW q \in Post, NEW r \in Post, q < r, at'[r] > 0 PROVE at'[q] > 0 /\ at'[q] <= at'[r]
    <3>1. CASE r = p
      BY <1>1, <2>1, <2>2, <2>3, <3>1
    <3>2. CASE q = p
      BY <1>1, <2>1, <2>2, <2>3, <3>2
    <3>3. CASE r # p /\ q # p
      BY <1>1, <2>2, <2>3, <3>3
    <3> QED
      BY <3>1, <3>2, <3>3
  <2>4. at' \in [Post -> Nat] /\ \A q \in Post : at'[q] <= now
    BY <1>1, <2>1, <2>2
  <2> QED
    BY <1>1, <2>1, <2>3, <2>4 DEF Clock
<1>5. ASSUME NEW w \in Poller, Poll(w) PROVE UNCHANGED <<at, now>>
  BY <1>5, WalkSteps
<1>6. CASE \E s \in Source : RemoveSource(s) \/ \E m \in 1 .. MaxTime : AddSource(s, m)
  BY <1>2, <1>6 DEF RemoveSource, AddSource
<1> QED
  BY <1>2, <1>3, <1>4, <1>5, <1>6, OtherSteps

(* What is recorded stays recorded.                                        *)
LEMMA SeenGrows ==
  ASSUME Well, Noted, [Next]_vars
  PROVE  seen \subseteq seen'
<1>1. ASSUME NEW w \in Poller, Poll(w) PROVE seen \subseteq seen'
  BY <1>1, WalkSteps DEF Fetches, Rests, Queries, Begins, Chooses, Stores, Moves
<1> QED
  BY <1>1, OtherSteps

LEMMA TablesNext ==
  Well /\ Noted /\ Clock /\ Tables /\ Walking /\ [Next]_vars => Tables'
<1> SUFFICES ASSUME Well, Noted, Clock, Tables, Walking, [Next]_vars PROVE Tables'
  OBVIOUS
<1>1. /\ row' \in [Source -> [on : BOOLEAN, gen : Nat, mark : Nat, from : Nat]]
      /\ \A s \in Source : row'[s].mark <= now'
  BY RowSteps
<1>2. ASSUME NEW p \in Post, item'[p].id # 0 PROVE p \in seen'
  <2>1. CASE item'[p].id = item[p].id
    BY <1>2, <2>1, SeenGrows DEF Tables
  <2>2. CASE item'[p].id # item[p].id
    <3>1. PICK w \in Poller : Poll(w)
      BY <2>2, OtherSteps
    <3>2. InsertChunk(w) \/ Prune(w)
      BY <2>2, <3>1 DEF Poll, Lock, OpenRest, RenewGet, RenewSet, FetchPage, FetchFails, BuildChunk, AdvanceMark,
                        ClosesCycle, Raises, ReleaseGet, ReleaseDelete, PollerDies, feedVars
    <3>3. ~Prune(w)
      BY <1>2, <2>2 DEF Prune
    <3>4. /\ item' = [q \in Post |-> IF q \in Inserted(poller[w])
                                     THEN [id |-> poller[w].id, born |-> poller[w].born] ELSE item[q]]
          /\ seen' = seen \cup poller[w].chunk
      BY <3>2, <3>3 DEF InsertChunk
    <3> QED
      BY <2>2, <3>4 DEF Inserted
  <2> QED
    BY <2>1, <2>2
<1> QED
  BY <1>1, <1>2 DEF Tables

-----------------------------------------------------------------------------
(* The walks.                                                              *)

(* What one poller's walk keeps to.                                        *)
WalkingOf(x) ==
  /\ \A y \in x.todo \cup x.unit \cup x.cur : ReadRow(y)
  /\ x.pc = "renewing" => x.todo # {}
  /\ x.pc \in {"walk", "insert"} => x.unit # {}
  /\ x.pc \in {"settle", "advance"} => x.done
  /\ x.pulled \subseteq {p \in Post : at[p] > 0}
  /\ x.after \in 1 .. MaxPosts + 1
  /\ x.after # MaxPosts + 1 => at[x.after] > 0

LEMMA ReadRowStays ==
  ASSUME Well, Noted, Clock, Tables, Walking, [Next]_vars, NEW y, ReadRow(y)
  PROVE  ReadRow(y)'
<1>1. /\ y.src \in Source /\ y.gen \in Nat /\ y.since \in Nat /\ y.since <= now
      /\ y.gen <= row[y.src].gen
      /\ y.gen = row[y.src].gen => y.since <= row[y.src].mark
  BY DEF ReadRow
<1>2. /\ now \in Nat /\ now' \in Nat /\ now <= now'
      /\ row[y.src].gen \in Nat /\ row[y.src].mark \in Nat
      /\ row'[y.src].gen \in Nat /\ row'[y.src].mark \in Nat
      /\ row[y.src].gen <= row'[y.src].gen
      /\ row'[y.src].gen = row[y.src].gen => row[y.src].mark <= row'[y.src].mark
  BY <1>1, RowSteps DEF Clock, Tables
<1>3. y.since <= now' /\ y.gen <= row'[y.src].gen
  BY <1>1, <1>2
<1>4. y.gen = row'[y.src].gen => y.since <= row'[y.src].mark
  BY <1>1, <1>2
<1> QED
  BY <1>1, <1>3, <1>4 DEF ReadRow

LEMMA OpenRows == Clock /\ Tables => \A y \in Open(Source) : ReadRow(y)
  BY DEF Clock, Tables, Open, ReadRow

LEMMA WalkingNext ==
  Well /\ Noted /\ Clock /\ Tables /\ Walking /\ [Next]_vars => Walking'
<1> SUFFICES ASSUME Well, Noted, Clock, Tables, Walking, [Next]_vars, NEW v \in Poller
             PROVE  WalkingOf(poller[v])'
  BY DEF Walking, WalkingOf
<1> DEFINE x == poller[v]
           y == poller'[v]
<1>1. WalkingOf(x)
  BY DEF Walking, WalkingOf
<1>2. /\ \A r \in x.todo \cup x.unit \cup x.cur : ReadRow(r)'
      /\ \A r \in Open(Source) : ReadRow(r)'
  BY <1>1, OpenRows, ReadRowStays DEF WalkingOf
<1>3. \A p \in Post : at[p] > 0 => at'[p] > 0
  BY AtSteps
<1>4. MaxPosts + 1 \in 1 .. MaxPosts + 1 /\ \A p \in 1 .. MaxPosts + 1 : p # MaxPosts + 1 => p \in Post
  BY FeedAssumption DEF Post
<1>5. x.after # MaxPosts + 1 => at'[x.after] > 0
  BY <1>1, <1>3, <1>4 DEF WalkingOf
<1>6. x.pulled \subseteq {p \in Post : at'[p] > 0}
  BY <1>1, <1>3 DEF WalkingOf
<1>7. CASE y = x
  BY <1>1, <1>2, <1>5, <1>6, <1>7 DEF WalkingOf
<1>8. ASSUME Poll(v) PROVE WalkingOf(poller[v])'
  <2>1. CASE Rests(v)
    <3>1. /\ y.pc \notin {"renewing", "walk", "insert", "settle", "advance"} /\ y.unit = {} /\ y.cur = {}
          /\ y.pulled = {} /\ y.after = MaxPosts + 1 /\ y.todo \subseteq x.todo \cup Open(Source)
      BY <2>1 DEF Rests
    <3> QED
      BY <1>2, <1>4, <3>1 DEF WalkingOf
  <2>2. CASE Queries(v)
    <3>1. /\ y.pc \notin {"walk", "insert", "settle", "advance"} /\ (y.pc = "renewing" => y.todo # {})
          /\ y.unit = x.unit /\ y.cur = x.cur /\ y.pulled = x.pulled /\ y.after = x.after
          /\ y.todo \subseteq x.todo \cup Open(Source)
      BY <2>2 DEF Queries, Same
    <3> QED
      BY <1>1, <1>2, <1>5, <1>6, <3>1 DEF WalkingOf
  <2>3. CASE Begins(v)
    <3>1. /\ x.pc = "renewing" /\ y.pc = "walk" /\ y.unit \subseteq x.todo /\ y.todo \subseteq x.todo
          /\ (x.todo # {} => y.unit # {}) /\ y.pulled = {} /\ y.after = MaxPosts + 1 /\ y.cur = x.cur
      BY <2>3 DEF Begins, Same
    <3> QED
      BY <1>1, <1>2, <1>4, <3>1 DEF WalkingOf
  <2>4. CASE Fetches(v)
    <3> DEFINE P == Page(x.unit, x.after)
    <3>1. /\ x.pc = "walk" /\ y.pc = (IF y.done THEN "settle" ELSE "walk")
          /\ y.unit = x.unit /\ y.cur = x.cur /\ y.todo = x.todo /\ y.done \in BOOLEAN
          /\ y.pulled = x.pulled \cup Kept(x.unit, P) /\ y.after = Oldest(P, x.after)
      BY <2>4 DEF Fetches, Same
    <3>2. P \subseteq {p \in Post : at[p] > 0}
      BY PageFacts
    <3>3. Kept(x.unit, P) \subseteq {p \in Post : at'[p] > 0}
      BY <1>3, <3>2 DEF Kept
    <3>4. Oldest(P, x.after) \in P \cup {x.after}
      <4>1. P \subseteq Nat /\ x.after \in Nat
        BY <1>1, <3>2 DEF WalkingOf, Post
      <4> HIDE DEF P
      <4> QED
        BY <4>1, OldestFacts
    <3>5. \A p \in P : p \in 1 .. MaxPosts + 1 /\ at'[p] > 0
      BY <1>3, <3>2, FeedAssumption DEF Post
    <3> HIDE DEF P
    <3>6. y.after \in 1 .. MaxPosts + 1 /\ (y.after # MaxPosts + 1 => at'[y.after] > 0)
      BY <1>1, <1>5, <3>1, <3>4, <3>5 DEF WalkingOf
    <3> QED
      BY <1>1, <1>2, <1>6, <3>1, <3>3, <3>6 DEF WalkingOf
  <2>5. CASE Chooses(v)
    <3>1. PICK s \in x.unit : /\ y.cur = {s} /\ y.pc \in {"advance", "insert"}
                              /\ y.pc = "advance" => x.pc = "settle"
      BY <2>5 DEF Chooses
    <3>2. y.unit = x.unit /\ y.done = x.done /\ y.todo = x.todo /\ y.pulled = x.pulled /\ y.after = x.after
      BY <2>5 DEF Chooses, Same
    <3> QED
      BY <1>1, <1>2, <1>5, <1>6, <3>1, <3>2 DEF WalkingOf
  <2>6. CASE Stores(v)
    <3>1. /\ x.pc = "insert" /\ y.pc = (IF x.done THEN "advance" ELSE "walk")
          /\ y.done = x.done /\ y.cur \subseteq x.cur
          /\ y.unit = x.unit /\ y.todo = x.todo /\ y.pulled = x.pulled /\ y.after = x.after
      BY <2>6 DEF Stores, Same
    <3> QED
      BY <1>1, <1>2, <1>5, <1>6, <3>1 DEF WalkingOf
  <2>7. CASE Moves(v)
    <3>1. /\ y.pc = "settle" /\ y.cur = {} /\ y.unit \subseteq x.unit
          /\ y.todo = x.todo /\ y.pulled = x.pulled /\ y.after = x.after /\ y.done = x.done
          /\ x.pc = "advance"
      BY <2>7 DEF Moves, Same
    <3> QED
      BY <1>1, <1>2, <1>5, <1>6, <3>1 DEF WalkingOf
  <2> QED
    BY <1>8, <2>1, <2>2, <2>3, <2>4, <2>5, <2>6, <2>7, WalkSteps
<1>9. CASE ~Poll(v)
  BY <1>7, <1>9, OtherSteps, PollSteps DEF Alone
<1> QED
  BY <1>8, <1>9

(* A post that a walk has handled stays handled.                           *)
LEMMA HandledStays ==
  ASSUME Well, Noted, Clock, [Next]_vars, NEW x, x.pulled \subseteq {p \in Post : at[p] > 0},
         NEW p \in Post, at[p] > 0, Handled(x, p)
  PROVE  Handled(x, p)'
<1>1. \A q \in Post : at[q] > 0 => at'[q] = at[q]
  BY AtSteps
<1> QED
  BY <1>1 DEF Handled

(* A page takes every post of its sources between `after` and where it     *)
(* ends.                                                                   *)
LEMMA PageTakes ==
  ASSUME Clock, NEW U, NEW after \in 1 .. MaxPosts + 1, after # MaxPosts + 1 => at[after] > 0,
         \A y \in U : ReadRow(y), NEW u \in U, NEW p \in Post, p < after,
         Home[p] = u.src, Kind[u.src] # "search", at[p] > 0, at[p] >= u.since,
         IsThrough(U, Page(U, after)) \/ p >= Oldest(Page(U, after), after)
  PROVE  p \in Kept(U, Page(U, after))
<1> DEFINE P == Page(U, after)
<1>1. /\ Since(U) \in Nat /\ Since(U) <= u.since /\ u.since \in Nat
  <2>1. U # {} /\ \A y \in U : y.since \in Nat
    BY DEF ReadRow
  <2> QED
    BY <2>1, SinceFacts
<1>2. /\ at \in [Post -> Nat] /\ MaxPosts \in Nat /\ Post = 1 .. MaxPosts
      /\ \A q, r \in Post : q < r /\ at[r] > 0 => at[q] <= at[r]
  BY FeedAssumption DEF Clock, Post
<1>3. Reaches(Kind[u.src], p, after)
  BY <1>2 DEF Reaches
<1>4. p \in Listed(U, after)
  BY <1>3 DEF Listed
<1>5. /\ P \subseteq Listed(U, after) /\ P \subseteq {q \in Post : at[q] > 0}
      /\ \A q \in P : q <= p => p \in P
      /\ Cardinality(P) < PageSize => p \in P
      /\ P # {}
      /\ ~IsPaged(U) => p \in P
  BY <1>4, PageFacts DEF Page
<1> HIDE DEF P
<1>6. p \in P
  <2>1. CASE p >= Oldest(P, after)
    <3>1. P \subseteq Nat /\ after \in Nat /\ p \in Nat
      BY <1>2, <1>5
    <3>2. Oldest(P, after) \in P \cup {after} /\ Oldest(P, after) \in Nat
      BY <3>1, OldestFacts
    <3>3. Oldest(P, after) \in P
      BY <2>1, <3>1, <3>2
    <3> QED
      BY <1>5, <2>1, <3>1, <3>2, <3>3
  <2>2. CASE \E q \in P : at[q] < Since(U)
    <3>1. PICK q \in P : at[q] < Since(U)
      BY <2>2
    <3>2. q \in Post /\ q \in Nat /\ p \in Nat /\ at[q] \in Nat /\ at[p] \in Nat /\ at[q] > 0
      BY <1>2, <1>5
    <3>3. at[q] < at[p]
      BY <1>1, <3>1, <3>2
    <3>4. ~(p < q)
      BY <1>2, <3>2, <3>3
    <3> QED
      BY <1>5, <3>2, <3>4
  <2>3. IsThrough(U, P) \/ p >= Oldest(P, after)
    BY DEF P
  <2> QED
    BY <1>5, <2>1, <2>2, <2>3 DEF IsThrough
<1>7. IsNew(Kind[u.src], at[p], Since(U))
  BY <1>1, <1>2 DEF IsNew
<1> QED
  BY <1>6, <1>7 DEF P, Kept

(* What a page brings is no newer than what is behind `after`.             *)
LEMMA PageIsOlder ==
  ASSUME Clock, NEW U, NEW after \in 1 .. MaxPosts + 1, after # MaxPosts + 1 => at[after] > 0,
         NEW p \in Post, p >= after, at[p] > 0, NEW q \in Page(U, after)
  PROVE  at[q] <= at[p]
<1>1. /\ at \in [Post -> Nat] /\ MaxPosts \in Nat /\ Post = 1 .. MaxPosts
      /\ \A i, j \in Post : i < j /\ at[j] > 0 => at[i] <= at[j]
  BY FeedAssumption DEF Clock, Post
<1>2. q \in Listed(U, after) /\ q \in Post
  BY PageFacts
<1>3. PICK u \in U : Reaches(Kind[u.src], q, after)
  BY <1>2 DEF Listed
<1>4. after # MaxPosts + 1 /\ after \in Post
  BY <1>1
<1>5. at[q] <= at[after] \/ q < after
  BY <1>3, <1>4 DEF Reaches
<1>6. at[after] <= at[p]
  BY <1>1, <1>4
<1> QED
  BY <1>1, <1>2, <1>4, <1>5, <1>6

LEMMA WalkedNext ==
  Well /\ Noted /\ Clock /\ Tables /\ Walking /\ Walked /\ [Next]_vars => Walked'
<1> SUFFICES ASSUME Well, Noted, Clock, Tables, Walking, Walked, [Next]_vars, ~faults'.capped,
                    NEW v \in Poller, NEW u \in poller'[v].unit, NEW p \in Post,
                    Home[p] = u.src, Kind[u.src] # "search", at'[p] > 0, at'[p] >= u.since,
                    poller'[v].done \/ p >= poller'[v].after
             PROVE  Handled(poller[v], p)'
  BY DEF Walked
<1> DEFINE x == poller[v]
           y == poller'[v]
<1>1. WalkingOf(x)
  BY DEF Walking, WalkingOf
<1>2. ~faults.capped
  BY WalkSteps, OtherSteps DEF Fetches
<1>3. /\ at \in [Post -> Nat] /\ now \in Nat /\ \A q \in Post : at[q] <= now
      /\ \A q \in Post : at[q] > 0 => at'[q] = at[q]
  BY AtSteps DEF Clock
<1>4. CASE at[p] = 0
  <2>1. Publish(p) /\ at'[p] = now
    BY <1>3, <1>4, AtSteps
  <2>2. y = x
    BY <2>1 DEF Publish, pollVars
  <2>3. \A q \in x.pulled : at'[q] <= at'[p]
    BY <1>1, <1>3, <2>1 DEF WalkingOf
  <2> QED
    BY <2>2, <2>3 DEF Handled
<1>5. CASE at[p] > 0 /\ y.unit \subseteq x.unit /\ y.pulled = x.pulled /\ y.after = x.after /\ y.done = x.done
  <2>1. at[p] > 0 /\ at[p] >= u.since
    BY <1>3, <1>5
  <2>2. Handled(x, p)
    BY <1>2, <1>5, <2>1 DEF Walked
  <2>3. x.pulled \subseteq {q \in Post : at[q] > 0}
    BY <1>1 DEF WalkingOf
  <2>4. \A q \in x.pulled : at'[q] = at[q]
    BY <1>3, <2>3
  <2> QED
    BY <1>3, <1>5, <2>2, <2>4 DEF Handled
<1>6. CASE at[p] > 0 /\ Fetches(v) /\ Poll(v)
  <2> DEFINE P == Page(x.unit, x.after)
  <2>1. /\ y.pulled = x.pulled \cup Kept(x.unit, P) /\ y.after = Oldest(P, x.after)
        /\ (y.done => IsThrough(x.unit, P)) /\ y.unit = x.unit
    BY <1>6 DEF Fetches, Same
  <2>2. at' = at
    BY <1>6, WalkSteps
  <2>3. /\ x.after \in 1 .. MaxPosts + 1 /\ (x.after # MaxPosts + 1 => at[x.after] > 0)
        /\ \A r \in x.unit : ReadRow(r)
    BY <1>1 DEF WalkingOf
  <2>4. at[p] > 0 /\ at[p] >= u.since /\ u \in x.unit /\ p \in Nat /\ x.after \in Nat
    BY <1>6, <2>1, <2>2, <2>3, FeedAssumption DEF Post
  <2>5. CASE p < x.after
    <3>1. IsThrough(x.unit, P) \/ p >= Oldest(P, x.after)
      BY <2>1
    <3>2. p \in Kept(x.unit, P)
      BY <2>3, <2>4, <2>5, <3>1, PageTakes
    <3> QED
      BY <2>1, <3>2 DEF Handled
  <2>6. CASE p >= x.after
    <3>1. Handled(x, p)
      BY <1>2, <2>4, <2>6 DEF Walked
    <3>2. \A q \in Kept(x.unit, P) : at[q] <= at[p]
      BY <2>3, <2>4, <2>6, PageIsOlder DEF Kept
    <3> HIDE DEF P
    <3> QED
      BY <2>1, <2>2, <3>1, <3>2 DEF Handled
  <2> QED
    BY <2>4, <2>5, <2>6
<1>7. CASE Poll(v) /\ at[p] > 0
  <2>1. CASE Rests(v)
    BY <2>1 DEF Rests
  <2>2. CASE Queries(v) \/ Chooses(v) \/ Stores(v) \/ Moves(v)
    <3>1. y.unit \subseteq x.unit /\ y.pulled = x.pulled /\ y.after = x.after /\ y.done = x.done
      BY <2>2 DEF Queries, Chooses, Stores, Moves, Same
    <3> QED
      BY <1>5, <1>7, <3>1
  <2>3. CASE Begins(v)
    BY <2>3 DEF Begins, Handled
  <2> QED
    BY <1>6, <1>7, <2>1, <2>2, <2>3, WalkSteps
<1>8. CASE ~Poll(v) /\ at[p] > 0
  <2>1. y = x
    BY <1>8, OtherSteps, PollSteps DEF Alone
  <2> QED
    BY <1>5, <1>8, <2>1
<1> QED
  BY <1>3, <1>4, <1>7, <1>8

(* What one poller is about to move a watermark past.                      *)
RecordedOf(x) ==
  /\ x.pc = "advance" => x.cur \subseteq x.unit
                         /\ \A s \in x.cur : Items(x, s) \subseteq seen
  /\ x.pc = "insert" /\ x.done => x.cur \subseteq x.unit
                         /\ \A s \in x.cur : Items(x, s) \subseteq seen \cup x.chunk

LEMMA RecordedNext ==
  Well /\ Noted /\ Clock /\ Tables /\ Walking /\ Recorded /\ [Next]_vars => Recorded'
<1> SUFFICES ASSUME Well, Noted, Clock, Tables, Walking, Recorded, [Next]_vars, NEW v \in Poller
             PROVE  RecordedOf(poller[v])'
  BY DEF Recorded, RecordedOf
<1> DEFINE x == poller[v]
           y == poller'[v]
           Later(s) == {p \in y.pulled : Home[p] = s.src /\ IsNew(Kind[s.src], at'[p], s.since)}
<1> SUFFICES /\ y.pc = "advance" => y.cur \subseteq y.unit /\ \A s \in y.cur : Later(s) \subseteq seen'
             /\ y.pc = "insert" /\ y.done => y.cur \subseteq y.unit
                                             /\ \A s \in y.cur : Later(s) \subseteq seen' \cup y.chunk
  BY DEF RecordedOf, Items, IsNew
<1>1. WalkingOf(x) /\ RecordedOf(x)
  BY DEF Walking, WalkingOf, Recorded, RecordedOf
<1>2. /\ \A q \in Post : at[q] > 0 => at'[q] = at[q]
      /\ seen \subseteq seen'
  BY AtSteps, SeenGrows
<1>3. ASSUME y.pulled = x.pulled, NEW s PROVE Later(s) = Items(x, s)
  BY <1>1, <1>2, <1>3 DEF Items, WalkingOf
<1> HIDE DEF Later
<1>4. CASE y = x
  BY <1>1, <1>2, <1>3, <1>4 DEF RecordedOf
<1>5. CASE Poll(v)
  <2>1. CASE Chooses(v)
    <3>1. PICK s \in x.unit :
            LET fresh == {p \in Items(x, s) : item[p].id = 0}
            IN /\ y.cur = {s}
               /\ \/ x.pc = "settle" /\ y.pc = "advance" /\ fresh = {}
                  \/ y.pc = "insert" /\ y.chunk = fresh
      BY <2>1 DEF Chooses
    <3>2. y.unit = x.unit /\ y.pulled = x.pulled /\ seen' = seen
      BY <2>1 DEF Chooses, Same
    <3>3. \A p \in Items(x, s) : item[p].id # 0 => p \in seen
      BY <1>1 DEF Tables, Items, WalkingOf
    <3> QED
      BY <1>3, <3>1, <3>2, <3>3
  <2>2. CASE Stores(v)
    <3>1. /\ x.pc = "insert" /\ y.pc = (IF x.done THEN "advance" ELSE "walk")
          /\ y.cur = (IF x.done THEN x.cur ELSE {}) /\ seen' = seen \cup x.chunk
          /\ y.unit = x.unit /\ y.pulled = x.pulled
      BY <2>2 DEF Stores, Same
    <3> QED
      BY <1>1, <1>3, <3>1 DEF RecordedOf
  <2>3. CASE Rests(v) \/ Queries(v) \/ Begins(v) \/ Fetches(v) \/ Moves(v)
    <3>1. y.pc # "advance" /\ y.pc # "insert"
      BY <2>3 DEF Rests, Queries, Begins, Fetches, Moves
    <3> QED
      BY <3>1
  <2> QED
    BY <1>5, <2>1, <2>2, <2>3, WalkSteps
<1>6. CASE ~Poll(v)
  BY <1>4, <1>6, OtherSteps, PollSteps DEF Alone
<1> QED
  BY <1>5, <1>6

(* A watermark moves past no post of its source that was not recorded.     *)
LEMMA MovesBehind ==
  ASSUME Well, Noted, Clock, Tables, Walking, Walked, Recorded, NothingStranded, ~faults.capped,
         NEW w \in Poller, poller[w].pc = "advance", NEW u \in poller[w].cur,
         row[u.src].on, row[u.src].gen = u.gen,
         NEW p \in Post, Home[p] = u.src, Kind[u.src] # "search", at[p] > 0, p \notin seen,
         at[p] >= row[u.src].from
  PROVE  at[p] >= Newest(poller[w], u)
<1> DEFINE x == poller[w]
<1>1. /\ x.done /\ u \in x.unit /\ ReadRow(u) /\ x.pulled \subseteq Post
      /\ Items(x, u) \subseteq seen /\ \A q \in Items(x, u) : q \in x.pulled
  BY DEF Walking, Recorded, Items
<1>2. at[p] \in Nat /\ row[u.src].mark \in Nat /\ u.since \in Nat /\ \A q \in Post : at[q] \in Nat
  BY <1>1 DEF Clock, Tables, ReadRow
<1>3. at[p] >= row[u.src].mark /\ row[u.src].mark >= u.since
  BY <1>1 DEF NothingStranded, ReadRow
<1>4. at[p] >= u.since
  BY <1>2, <1>3
<1>5. Handled(x, p)
  BY <1>1, <1>4 DEF Walked
<1>6. p \notin x.pulled
  <2>1. p \in x.pulled => p \in Items(x, u)
    BY <1>4 DEF Items, IsNew
  <2> QED
    BY <1>1, <2>1
<1>7. \A q \in x.pulled : at[q] <= at[p]
  BY <1>5, <1>6 DEF Handled
<1>8. Newest(x, u) = u.since \/ \E q \in Items(x, u) : Newest(x, u) = at[q]
  BY <1>1, NewestTime DEF ReadRow
<1> QED
  BY <1>1, <1>2, <1>4, <1>7, <1>8

LEMMA StrandedNext ==
  Well /\ Noted /\ Clock /\ Tables /\ Walking /\ Walked /\ Recorded /\ NothingStranded /\ [Next]_vars
    => NothingStranded'
<1> SUFFICES ASSUME Well, Noted, Clock, Tables, Walking, Walked, Recorded, NothingStranded, [Next]_vars,
                    ~faults'.capped, NEW p \in Post,
                    Kind[Home[p]] # "search", at'[p] > 0, p \notin seen',
                    row'[Home[p]].on, at'[p] >= row'[Home[p]].from
             PROVE  at'[p] >= row'[Home[p]].mark
  BY DEF NothingStranded
<1> DEFINE s == Home[p]
<1>1. s \in Source /\ p \notin seen
  BY FeedAssumption, SeenGrows
<1>2. ~faults.capped
  BY WalkSteps, OtherSteps DEF Fetches
<1>3. /\ at \in [Post -> Nat] /\ now \in Nat
      /\ row \in [Source -> [on : BOOLEAN, gen : Nat, mark : Nat, from : Nat]]
      /\ row[s].mark <= now
  BY <1>1 DEF Clock, Tables
<1>4. CASE at[p] = 0
  <2>1. at'[p] = now /\ row' = row
    <3>1. at'[p] # at[p]
      BY <1>4
    <3>2. at'[p] = now /\ Publish(p)
      BY <3>1, AtSteps
    <3> QED
      BY <3>2 DEF Publish, feedVars
  <2> QED
    BY <1>1, <1>3, <2>1
<1>5. CASE at[p] > 0
  <2>1. at'[p] = at[p]
    BY <1>5, AtSteps
  <2>2. CASE row'[s] = row[s]
    BY <1>1, <1>2, <1>5, <2>1, <2>2 DEF NothingStranded
  <2>3. ASSUME NEW t \in Source, RemoveSource(t) PROVE row'[s] = row[s]
    <3>1. row' = [row EXCEPT ![t].on = FALSE]
      BY <2>3 DEF RemoveSource
    <3>2. t # s
      BY <1>1, <1>3, <3>1
    <3> QED
      BY <1>1, <1>3, <3>1, <3>2
  <2>4. ASSUME NEW t \in Source, NEW m \in 1 .. MaxTime, AddSource(t, m), t = s
        PROVE  row'[s].mark = row'[s].from
    BY <1>1, <1>3, <2>4 DEF AddSource
  <2>5. ASSUME NEW t \in Source, NEW m \in 1 .. MaxTime, AddSource(t, m), t # s
        PROVE  row'[s] = row[s]
    BY <1>1, <1>3, <2>5 DEF AddSource
  <2>6. ASSUME NEW w \in Poller, Poll(w), row'[s] # row[s] PROVE at'[p] >= row'[s].mark
    <3>1. Writes(w)
      BY <2>6, WalkSteps
    <3>2. PICK u \in poller[w].cur :
            /\ row[u.src].on /\ row[u.src].gen = u.gen
            /\ row' = [row EXCEPT ![u.src].mark = Newest(poller[w], u)]
      BY <2>6, <3>1 DEF Writes
    <3>3. poller[w].pc = "advance"
      BY <2>6, <3>1 DEF Writes
    <3>4. u.src = s
      BY <1>1, <1>3, <2>6, <3>2
    <3>5. row'[s].mark = Newest(poller[w], u) /\ row'[s].from = row[s].from
      BY <1>1, <1>3, <3>2, <3>4
    <3>6. at[p] >= row[s].from
      BY <2>1, <3>5
    <3>7. at[p] >= Newest(poller[w], u)
      BY <1>1, <1>2, <1>5, <3>2, <3>3, <3>4, <3>6, MovesBehind
    <3> QED
      BY <2>1, <3>5, <3>7
  <2>7. CASE Tick \/ \E q \in Post : Publish(q)
    BY <2>2, <2>7 DEF Tick, Publish, feedVars
  <2> QED
    BY <2>1, <2>2, <2>3, <2>4, <2>5, <2>6, <2>7, OtherSteps
<1> QED
  BY <1>3, <1>4, <1>5

(* No post is left behind a watermark unrecorded: not by a walk that       *)
(* failed, nor by posts that came while it paged, nor by a poller that     *)
(* lost its lease or a source that was removed and added again             *)
(* (poll_feed, PollSource, Source.advance_watermark).                      *)
THEOREM NoneIsStranded == Spec => []NothingStranded
<1> DEFINE Ind == Noted /\ Clock /\ Tables /\ Walking /\ Walked /\ Recorded /\ NothingStranded
<1>1. Init => Ind
  <2> SUFFICES ASSUME Init PROVE Ind
    OBVIOUS
  <2>1. Noted
    BY DEF Init, Noted
  <2>2. Clock
    BY DEF Init, Clock
  <2>3. Tables
    BY DEF Init, Tables
  <2>4. \A w \in Poller : poller[w] = Idle
    BY DEF Init
  <2>5. /\ Idle.pc = "idle" /\ Idle.todo = {} /\ Idle.unit = {} /\ Idle.cur = {} /\ Idle.pulled = {}
        /\ Idle.after = MaxPosts + 1 /\ MaxPosts + 1 \in 1 .. MaxPosts + 1
    BY FeedAssumption DEF Idle
  <2>6. Walking /\ Walked /\ Recorded
    BY <2>4, <2>5 DEF Walking, Walked, Recorded
  <2>7. NothingStranded
    BY DEF Init, NothingStranded
  <2> QED
    BY <2>1, <2>2, <2>3, <2>6, <2>7
<1>2. Well /\ Ind /\ [Next]_vars => Ind'
  <2> SUFFICES ASSUME Well, Ind, [Next]_vars PROVE Ind'
    OBVIOUS
  <2>1. Noted'
    BY WalkSteps, OtherSteps
  <2> QED
    BY <2>1, ClockNext, TablesNext, WalkingNext, WalkedNext, RecordedNext, StrandedNext
<1>3. Spec => []NothingStranded
  BY <1>1, <1>2, InitWell, WellNext, PTL DEF Spec
<1> QED
  BY <1>3
=============================================================================
