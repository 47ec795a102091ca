----------------------------- MODULE ChainEdit -----------------------------
(***************************************************************************)
(* The action chain of one watch while operators edit it and items walk    *)
(* down it.                                                                *)
(*                                                                         *)
(* An edit (add, remove, replace) takes the path's chain lock, a cache key *)
(* with a TTL, reads the chain, and writes new dense ranks in one          *)
(* transaction.  The drain loads a run's action when it starts to judge,   *)
(* and looks for the successor by that row's rank when it is done.         *)
(***************************************************************************)
EXTENDS Integers, FiniteSets, Functions

CONSTANTS
  Action,     \* action ids, each used by one row ever
  Item, Editor,
  Initial,    \* the chain at the start: id -> rank
  MaxEdits,   \* bound: edits that are requested
  MaxLapses,  \* bound: chain locks that expire under a live holder
  Nobody      \* the lock is free

(* The ways to put the rows S in a chain: dense ranks 0 .. N-1.            *)
Orders(S) == Bijection(S, 0 .. Cardinality(S) - 1)

ASSUME ChainEditAssumption ==
  /\ IsFiniteSet(Action)
  /\ DOMAIN Initial \subseteq Action
  /\ Initial \in Orders(DOMAIN Initial)
  /\ MaxEdits \in Nat
  /\ MaxLapses \in Nat
  /\ Nobody \notin Editor

VARIABLES
  rank,     \* the path's WatchAction rows: id -> rank
  used,     \* ids given out so far
  lock,     \* path_chain_lock
  editor,   \* the edit requests under way
  head,     \* the head a trigger pass has read, as a set of at most one
  run,      \* the run of an action for an item
  judge,    \* the run of an item under judgement: the action row as loaded
  walk,     \* history: pairs of the chain since an item came, no edit reordering
  shifted,  \* history: a judge held a rank an edit had changed
  edits, lapses,
  overlap,  \* history: the lock expired under a live holder
  clashed   \* history: an edit was rolled back by the rank constraint

chainVars == <<rank, used>>
editVars == <<lock, editor, edits, lapses, overlap, clashed>>
itemVars == <<head, run, judge, shifted>>
vars == <<rank, used, lock, editor, head, run, judge, walk, shifted, edits,
          lapses, overlap, clashed>>

Live == DOMAIN rank

(* list_for_path: where each row stands in rank order.                     *)
Place(R) == [a \in DOMAIN R |-> Cardinality({b \in DOMAIN R : R[b] < R[a]})]

Pairs(R) == {p \in (DOMAIN R) \X (DOMAIN R) : R[p[1]] < R[p[2]]}

Ranks == 0 .. Cardinality(Action) - 1
Ops == {"add", "remove", "replace"}
IdleEditor == [pc |-> "idle", op |-> "add", fresh |-> {}, gone |-> {}, at |-> 0,
               order |-> <<>>, read |-> <<>>]
NoJudge == <<>>

TypeOK ==
  /\ used \subseteq Action /\ Live \subseteq used
  /\ \A a \in Live : rank[a] \in Ranks
  /\ lock \in Editor \cup {Nobody}
  /\ \A e \in Editor :
       /\ editor[e].pc \in {"idle", "asks", "locked", "writes", "release"}
       /\ editor[e].op \in Ops
       /\ editor[e].fresh \cup editor[e].gone \cup DOMAIN editor[e].order \subseteq used
       /\ editor[e].at \in 0 .. Cardinality(Action)
       /\ DOMAIN editor[e].read \subseteq used
  /\ head \subseteq used
  /\ run \in [Item -> [Action -> {"none", "pending", "running", "succeeded", "stopped"}]]
  /\ judge \in [Item -> {NoJudge} \cup Action \X Ranks]
  /\ walk \in [Item -> SUBSET (Action \X Action)]
  /\ shifted \in BOOLEAN /\ overlap \in BOOLEAN /\ clashed \in BOOLEAN
  /\ edits \in 0 .. MaxEdits /\ lapses \in 0 .. MaxLapses

Init ==
  /\ rank = Initial
  /\ used = DOMAIN Initial
  /\ lock = Nobody
  /\ editor = [e \in Editor |-> IdleEditor]
  /\ head = {}
  /\ run = [i \in Item |-> [a \in Action |-> "none"]]
  /\ judge = [i \in Item |-> NoJudge]
  /\ walk = [i \in Item |-> {}]
  /\ shifted = FALSE
  /\ edits = 0 /\ lapses = 0
  /\ overlap = FALSE /\ clashed = FALSE

-----------------------------------------------------------------------------
(* Edits.  A request names what the operator saw: rows that may be gone by *)
(* the time it is served, and ids for the rows it adds.                    *)
Asks(e, x) ==
  /\ editor[e].pc = "idle"
  /\ edits < MaxEdits
  /\ edits' = edits + 1
  /\ used' = used \cup x.fresh
  /\ editor' = [editor EXCEPT ![e] = [x EXCEPT !.pc = "asks"]]
  /\ UNCHANGED <<rank, lock, walk, lapses, overlap, clashed, itemVars>>

(* At a place of the chain, or past its end to append.                     *)
AsksAdd(e) ==
  \E a \in Action \ used, k \in 0 .. Cardinality(Action) :
    Asks(e, [IdleEditor EXCEPT !.op = "add", !.fresh = {a}, !.at = k])

AsksRemove(e) ==
  \E a \in Live : Asks(e, [IdleEditor EXCEPT !.op = "remove", !.gone = {a}])

AsksReplace(e) ==
  \E S \in SUBSET Live, T \in SUBSET (Action \ used) :
    \E order \in Orders(S \cup T) :
      Asks(e, [IdleEditor EXCEPT !.op = "replace", !.fresh = T, !.order = order])

(* Mutant: an edit goes ahead whoever holds the lock.                      *)
MayEditAlways == TRUE

(* named_lock: cache.add, and 409 for who comes second.                    *)
MayEdit == lock = Nobody

TakesLock(e) ==
  /\ editor[e].pc = "asks"
  /\ IF MayEdit THEN /\ lock' = e
                     /\ editor' = [editor EXCEPT ![e].pc = "locked"]
                ELSE /\ lock' = lock
                     /\ editor' = [editor EXCEPT ![e] = IdleEditor]
  /\ UNCHANGED <<walk, edits, lapses, overlap, clashed, chainVars, itemVars>>

(* Mutant: the lock ends before the transaction it is to cover.            *)
ReleasedEarly == Nobody

HeldAcross == lock

(* The chain is read under the lock (a remove reads it behind its delete). *)
Reads(e) ==
  /\ editor[e].pc = "locked"
  /\ editor' = [editor EXCEPT ![e].pc = "writes", ![e].read = rank]
  /\ lock' = HeldAcross
  /\ UNCHANGED <<walk, edits, lapses, overlap, clashed, chainVars, itemVars>>

-----------------------------------------------------------------------------
(* What the transaction of an edit writes, from the chain it has read.     *)

Dropped(x) ==
  CASE x.op = "add" -> {}
    [] x.op = "remove" -> x.gone
    [] x.op = "replace" -> (DOMAIN x.read) \ DOMAIN x.order

(* chain.insert: the rows behind the new one move up.                      *)
Inserted(x) ==
  LET n == Cardinality(DOMAIN x.read)
      k == IF x.at > n THEN n ELSE x.at
      place == Place(x.read)
  IN [a \in DOMAIN x.read \cup x.fresh |->
        IF a \in x.fresh THEN k ELSE IF place[a] < k THEN place[a] ELSE place[a] + 1]

(* The chain in its new order: row -> final rank.                          *)
Ordered(x) ==
  CASE x.op = "add" -> Inserted(x)
    [] x.op = "remove" -> Place(Restrict(x.read, DOMAIN x.read \ x.gone))
    [] x.op = "replace" -> x.order

(* New rows are parked past the ranks in use.                              *)
Parked(x) ==
  LET new == Place(Restrict(Ordered(x), x.fresh))
  IN [a \in x.fresh |-> Cardinality(DOMAIN x.read) + 1 + new[a]]

(* The ranks the service holds in memory when it renumbers.                *)
InMemory(x) ==
  [a \in DOMAIN Ordered(x) |-> IF a \in x.fresh THEN Parked(x)[a] ELSE x.read[a]]

(* Mutant: the first pass moves the rows past their number only.           *)
OffsetByCount(x) == Cardinality(DOMAIN Ordered(x))

(* _renumber, first pass: past the largest rank of the rows.               *)
Offset(x) ==
  LET ranks == {InMemory(x)[a] : a \in DOMAIN Ordered(x)} \cup {0}
  IN 1 + CHOOSE m \in ranks : \A k \in ranks : k <= m

(* An UPDATE by id; it finds the rows that are still there.                *)
Written(R, f) == [a \in DOMAIN R |-> IF a \in DOMAIN f THEN f[a] ELSE R[a]]

(* Does the constraint (path, rank) see two rows on one rank?  Surely, if  *)
(* the other row does not move; perhaps, if it is written later.           *)
Collides(R, f) ==
  \E a \in (DOMAIN R) \cap (DOMAIN f), b \in (DOMAIN R) \ (DOMAIN f) : f[a] = R[b]
MayCollide(R, f) ==
  \E a \in (DOMAIN R) \cap (DOMAIN f) : \E b \in (DOMAIN R) \ {a} : f[a] = R[b]

(* The table once rows are dropped and new ones parked.                    *)
Grown(x) ==
  [a \in (Live \ Dropped(x)) \cup x.fresh |-> IF a \in x.fresh THEN Parked(x)[a] ELSE rank[a]]
Lifted(x) == [a \in DOMAIN Ordered(x) |-> Ordered(x)[a] + Offset(x)]

(* Its statements: the table each finds and the ranks it writes.           *)
Statements(x) ==
  { <<Grown(x), Parked(x)>>,
    <<Grown(x), Lifted(x)>>,
    <<Written(Grown(x), Lifted(x)), Ordered(x)>> }

Final(x) == Written(Grown(x), Ordered(x))

(* PolicyError: a replace that names a row the path no longer has.         *)
Refused(x) ==
  x.op = "replace" /\ ~((DOMAIN x.order) \ x.fresh \subseteq DOMAIN x.read)

Closes(e) == editor' = [editor EXCEPT ![e] = [IdleEditor EXCEPT !.pc = "release"]]

Refuses(e) ==
  /\ editor[e].pc = "writes"
  /\ Refused(editor[e])
  /\ Closes(e)
  /\ UNCHANGED <<lock, walk, edits, lapses, overlap, clashed, chainVars, itemVars>>

(* Do the rows that stay keep their order?                                 *)
SameOrder(R, S) ==
  \A a, b \in (DOMAIN R) \cap (DOMAIN S) : R[a] < R[b] <=> S[a] < S[b]

(* The transaction commits.                                                *)
Writes(e) ==
  LET x == editor[e]
  IN /\ x.pc = "writes"
     /\ ~Refused(x)
     /\ \A s \in Statements(x) : ~Collides(s[1], s[2])
     /\ rank' = Final(x)
     /\ walk' = [i \in Item |-> IF SameOrder(rank, Final(x))
                                 THEN walk[i] \cap Pairs(Final(x)) ELSE {}]
     /\ Closes(e)
     /\ UNCHANGED <<used, lock, edits, lapses, overlap, clashed, itemVars>>

(* IntegrityError: the transaction rolls back.                             *)
Clashes(e) ==
  LET x == editor[e]
  IN /\ x.pc = "writes"
     /\ ~Refused(x)
     /\ \E s \in Statements(x) : MayCollide(s[1], s[2])
     /\ clashed' = (clashed \/ ~overlap)
     /\ Closes(e)
     /\ UNCHANGED <<lock, walk, edits, lapses, overlap, chainVars, itemVars>>

(* The release deletes the key if it is still this holder's.  (Its get and *)
(* its delete differ only when the lock expires between them, and then     *)
(* `overlap` is set already.)                                              *)
Releases(e) ==
  /\ editor[e].pc = "release"
  /\ lock' = IF lock = e THEN Nobody ELSE lock
  /\ editor' = [editor EXCEPT ![e] = IdleEditor]
  /\ UNCHANGED <<walk, edits, lapses, overlap, clashed, chainVars, itemVars>>

(* PATH_CHAIN_LOCK_TIMEOUT_SECONDS pass under an edit.                     *)
LockExpires ==
  /\ lock # Nobody
  /\ lapses < MaxLapses
  /\ lapses' = lapses + 1
  /\ overlap' = TRUE
  /\ lock' = Nobody
  /\ UNCHANGED <<editor, walk, edits, clashed, chainVars, itemVars>>

-----------------------------------------------------------------------------
(* Items walk down the chain.                                              *)

(* A trigger pass reads the head once; an item that arrives in the pass    *)
(* starts there, and its pairs are those in order since then.              *)
TriggerReads ==
  /\ head = {}
  /\ Live # {}
  /\ head' = {a \in Live : \A b \in Live : rank[a] <= rank[b]}
  /\ walk' = [i \in Item |-> IF \A a \in Action : run[i][a] = "none"
                              THEN Pairs(rank) ELSE walk[i]]
  /\ UNCHANGED <<run, judge, shifted, chainVars, editVars>>

TriggerEnqueues(i) ==
  /\ \A a \in Action : run[i][a] = "none"
  /\ \E a \in head : run' = [run EXCEPT ![i][a] = "pending"]
  /\ UNCHANGED <<head, judge, walk, shifted, chainVars, editVars>>

TriggerEnds ==
  /\ head # {}
  /\ head' = {}
  /\ UNCHANGED <<run, judge, walk, shifted, chainVars, editVars>>

(* The drain loads the run's action; a run whose action is gone is ERRORED *)
(* (_resolve, ACTION_GONE) and its item stops.                             *)
Loads(i, a) ==
  /\ run[i][a] = "pending"
  /\ IF a \in Live
     THEN /\ run' = [run EXCEPT ![i][a] = "running"]
          /\ judge' = [judge EXCEPT ![i] = <<a, rank[a]>>]
     ELSE /\ run' = [run EXCEPT ![i][a] = "stopped"]
          /\ judge' = judge
  /\ UNCHANGED <<head, walk, shifted, chainVars, editVars>>

(* Mutant: the chain is searched for the row two ranks down.               *)
SuccessorSkips(k) ==
  {b \in Live : rank[b] > k + 1 /\ \A c \in Live : rank[c] > k + 1 => rank[b] <= rank[c]}

(* next_in_chain: the smallest rank above the rank of the loaded row.      *)
Successor(k) ==
  {b \in Live : rank[b] > k /\ \A c \in Live : rank[c] > k => rank[b] <= rank[c]}

Stops(i) ==
  /\ judge[i] # NoJudge
  /\ run' = [run EXCEPT ![i][judge[i][1]] = "stopped"]
  /\ judge' = [judge EXCEPT ![i] = NoJudge]
  /\ UNCHANGED <<head, walk, shifted, chainVars, editVars>>

(* The verdict and the successor's run, which is not inserted twice.       *)
Passes(i) ==
  LET a == judge[i][1]  k == judge[i][2]
  IN /\ judge[i] # NoJudge
     /\ run' = [run EXCEPT ![i] = [b \in Action |->
                  IF b = a THEN "succeeded"
                  ELSE IF b \in Successor(k) /\ @[b] = "none" THEN "pending" ELSE @[b]]]
     /\ judge' = [judge EXCEPT ![i] = NoJudge]
     /\ shifted' = (shifted \/ a \notin Live \/ (a \in Live /\ rank[a] # k))
     /\ UNCHANGED <<head, walk, chainVars, editVars>>

Edit(e) ==
  \/ AsksAdd(e) \/ AsksRemove(e) \/ AsksReplace(e) \/ TakesLock(e) \/ Reads(e)
  \/ Refuses(e) \/ Writes(e) \/ Clashes(e) \/ Releases(e)

Next ==
  \/ \E e \in Editor : Edit(e)
  \/ LockExpires \/ TriggerReads \/ TriggerEnds
  \/ \E i \in Item : \/ TriggerEnqueues(i) \/ Stops(i) \/ Passes(i)
                      \/ \E a \in Action : Loads(i, a)

Spec == Init /\ [][Next]_vars

-----------------------------------------------------------------------------
(* Properties                                                              *)

(* Under the lock, the chain an edit renumbers is the chain as it is: what *)
(* it has read stays current until it commits.                             *)
ReadIsCurrent ==
  overlap \/ \A e \in Editor : editor[e].pc = "writes" => editor[e].read = rank

(* Edits leave the ranks dense, whoever edits at once, as long as the lock *)
(* outlives its holder.  Hazard: two edits renumber from what each read.   *)
DenseRanks == overlap \/ {rank[a] : a \in Live} = 0 .. Cardinality(Live) - 1

(* No statement of an edit runs into the (path, rank) constraint, in       *)
(* whatever order the rows are written: parked rows and both passes of the *)
(* renumbering keep clear of each other, dropped rows or not.              *)
NeverCollides == ~clashed

(* An add or a remove leaves the others in their order.  Hazard: an edit   *)
(* that writes back a chain from before another edit.                      *)
OthersKeepOrder ==
  [][overlap \/ (\E e \in Editor : editor[e].pc = "writes" /\ editor[e].op = "replace")
     \/ SameOrder(rank, rank')]_vars

(* README:123, an action behind a filter sees what the filter passed: an   *)
(* item has a run of an action only if every action that stood before it   *)
(* since the item came, no edit reordering, succeeded for it.              *)
FilterGates ==
  \A i \in Item : \A p \in walk[i] :
    run[i][p[2]] # "none" => run[i][p[1]] = "succeeded"

(* The same, unless an edit moved an action while an item was judged at    *)
(* it: next_in_chain then starts from a rank that has another meaning.     *)
GatesUnshifted == shifted \/ FilterGates
=============================================================================
