--------------------------- MODULE ChainEdit_proofs ---------------------------
(***************************************************************************)
(* Edits of one chain and the items that walk it, for any number of        *)
(* editors, actions and items: the lock excludes edits from each other,    *)
(* what they write is dense and collides with nothing, and an item passes  *)
(* the actions of the chain in order.                                      *)
(***************************************************************************)
EXTENDS ChainEdit, FiniteSetTheorems, FunctionTheorems, TLAPS

(* Rows at distinct ranks.                                                 *)
Ranked(R) ==
  /\ DOMAIN R \subseteq Action
  /\ R \in [DOMAIN R -> Nat]
  /\ \A a, b \in DOMAIN R : R[a] = R[b] => a = b

(* Requests that may still write.                                          *)
Asking == {"asks", "locked", "writes"}

(* The table, the ids given out and who has runs.                          *)
TableSound ==
  /\ Ranked(rank) /\ Live \subseteq used /\ used \subseteq Action /\ head \subseteq used
  /\ run = [i \in Item |-> [a \in Action |-> run[i][a]]]
  /\ \A i \in Item, a \in Action : run[i][a] # "none" => a \in used

(* An edit's new ids are its own: no row, no run and no other edit has one.*)
FreshIds ==
  \A e \in Editor : editor[e].pc \in Asking =>
    /\ editor[e].fresh \subseteq used \ (Live \cup head)
    /\ \A i \in Item, a \in editor[e].fresh : run[i][a] = "none"
    /\ \A d \in Editor \ {e} : editor[d].pc \in Asking => editor[e].fresh \cap editor[d].fresh = {}

(* What a request asks for.                                                *)
WellPut(x) ==
  /\ x.op \in Ops /\ x.at \in Nat
  /\ x.op = "add" => \E a \in Action : x.fresh = {a}
  /\ x.op = "remove" => x.fresh = {}
  /\ x.op = "replace" => /\ x.order \in Orders(DOMAIN x.order)
                         /\ DOMAIN x.order \subseteq Action
                         /\ x.fresh \subseteq DOMAIN x.order
  /\ x.pc = "writes" => Ranked(x.read) /\ x.fresh \cap DOMAIN x.read = {}

EditorFields == {"pc", "op", "fresh", "gone", "at", "order", "read"}
RequestsSound ==
  /\ DOMAIN editor = Editor
  /\ \A e \in Editor : /\ DOMAIN editor[e] = EditorFields
                       /\ editor[e].pc \in {"idle", "release"} \cup Asking
                       /\ editor[e].pc \in Asking => WellPut(editor[e])

Dense == ~overlap => rank \in Orders(Live)

(* The item under judgement runs at the action that was loaded.            *)
JudgedRuns ==
  /\ DOMAIN judge = Item
  /\ \A i \in Item : judge[i] # NoJudge =>
       judge[i][1] \in Action /\ run[i][judge[i][1]] = "running"

(* Of two rows an item has walked past in order, the first is behind every *)
(* run the item has further down.                                          *)
WalkedPast ==
  /\ DOMAIN walk = Item
  /\ \A i \in Item : walk[i] \subseteq Pairs(rank)
  /\ ~shifted => \A i \in Item : \A p \in walk[i] : \A c \in Live :
                   run[i][c] # "none" /\ rank[p[1]] < rank[c] => run[i][p[1]] = "succeeded"

(* An item that has no run yet starts before everything it is to walk.     *)
HeadFirst ==
  \A i \in Item : (\A a \in Action : run[i][a] = "none") =>
    \A h \in head \cap Live : \A p \in walk[i] : rank[h] <= rank[p[1]]


-----------------------------------------------------------------------------
(* Ranks and orders.                                                       *)

(* Where the rows of a table stand is a dense order of them, and it is     *)
(* theirs (list_for_path, order_by("rank")).                               *)
LEMMA PlaceFacts ==
  ASSUME NEW R, Ranked(R)
  PROVE  /\ IsFiniteSet(DOMAIN R) /\ Cardinality(DOMAIN R) \in Nat
         /\ Place(R) \in Orders(DOMAIN R)
         /\ \A a, b \in DOMAIN R : R[a] < R[b] <=> Place(R)[a] < Place(R)[b]
<1> DEFINE D == DOMAIN R
           n == Cardinality(D)
           Below(a) == {b \in D : R[b] < R[a]}
<1>1. IsFiniteSet(D) /\ n \in Nat
  BY ChainEditAssumption, FS_Subset, FS_CardinalityType DEF Ranked
<1>2. \A a \in D : R[a] \in Nat
  BY DEF Ranked
<1>3. ASSUME NEW a \in D
      PROVE  Cardinality(Below(a)) \in 0 .. n - 1 /\ IsFiniteSet(Below(a))
  <2>1. Below(a) \subseteq D /\ a \notin Below(a)
    BY <1>2
  <2> QED
    BY <1>1, <2>1, FS_Subset, FS_CardinalityType
<1>4. ASSUME NEW a \in D, NEW b \in D, R[a] < R[b]
      PROVE  Cardinality(Below(a)) < Cardinality(Below(b))
  <2>1. Below(a) \subseteq Below(b) /\ a \in Below(b) /\ a \notin Below(a)
    BY <1>2, <1>4
  <2>2. IsFiniteSet(Below(b)) /\ Cardinality(Below(a)) \in Nat /\ Cardinality(Below(b)) \in Nat
    BY <1>1, <1>3
  <2> HIDE DEF Below
  <2> QED
    BY <2>1, <2>2, FS_Subset
<1>5. \A a \in D : Place(R)[a] = Cardinality(Below(a))
  BY DEF Place
<1>6. Place(R) \in [D -> 0 .. n - 1]
  <2>1. Place(R) = [a \in D |-> Cardinality(Below(a))]
    BY DEF Place
  <2> QED
    BY <1>3, <2>1
<1>7. \A a, b \in D : R[a] < R[b] => Place(R)[a] < Place(R)[b]
  BY <1>4, <1>5
<1> HIDE DEF Below
<1>8. \A a, b \in D : R[a] < R[b] <=> Place(R)[a] < Place(R)[b]
  BY <1>1, <1>2, <1>6, <1>7 DEF Ranked
<1>9. \A a, b \in D : Place(R)[a] = Place(R)[b] => a = b
  BY <1>1, <1>2, <1>6, <1>7 DEF Ranked
<1>10. Place(R) \in Injection(D, 0 .. n - 1)
  BY <1>6, <1>9, Fun_IsInj
<1>11. Place(R) \in Surjection(D, 0 .. n - 1)
  <2>1. IsFiniteSet(0 .. n - 1) /\ Cardinality(0 .. n - 1) = n
    BY <1>1, FS_Interval
  <2> QED
    BY <1>10, <2>1, FS_Injection
<1> QED
  BY <1>1, <1>8, <1>10, <1>11, Fun_IsBij DEF Orders

(* A finite set of ranks has a largest one.                                *)
LEMMA LargestRank ==
  ASSUME NEW S, S \subseteq Nat, IsFiniteSet(S), S # {}
  PROVE  \E m \in S : \A k \in S : k <= m
<1> DEFINE Above(k) == {j \in S : j > k}
           T == {Cardinality(Above(k)) : k \in S}
           R == OpToRel(<, Nat)
<1>1. \A k \in S : IsFiniteSet(Above(k)) /\ Cardinality(Above(k)) \in Nat
  BY FS_Subset, FS_CardinalityType
<1>2. T \subseteq Nat /\ T # {}
  <2> HIDE DEF Above
  <2> QED
    BY <1>1
<1>3. PICK c \in T : \A d \in T : ~(<<d, c>> \in R)
  <2> HIDE DEF T, R
  <2> QED
    BY <1>2, NatLessThanWellFounded, WFMin DEF R
<1>4. \A d \in T : ~(d < c)
  BY <1>2, <1>3 DEF OpToRel
<1>5. PICK m \in S : c = Cardinality(Above(m))
  BY <1>3
<1>6. ASSUME NEW k \in S, ~(k <= m) PROVE FALSE
  <2>1. Above(k) \subseteq Above(m) /\ k \in Above(m) /\ k \notin Above(k)
    <3>1. k \in Nat /\ m \in Nat /\ m < k
      BY <1>6
    <3>2. \A j \in S : j \in Nat
      OBVIOUS
    <3>3. \A j \in S : j > k => j > m
      BY <3>1, <3>2
    <3>4. k > m /\ ~(k > k)
      BY <3>1
    <3>5. Above(k) \subseteq Above(m)
      BY <3>3
    <3> QED
      BY <3>4, <3>5
  <2>2. Cardinality(Above(k)) \in T
    OBVIOUS
  <2> HIDE DEF Above, T
  <2>3. Cardinality(Above(k)) < Cardinality(Above(m))
    BY <1>1, <2>1, FS_Subset
  <2> QED
    BY <1>4, <1>5, <2>2, <2>3
<1> QED
  BY <1>6

(* What dense ranks are.                                                   *)
LEMMA OrderFacts ==
  ASSUME NEW S, S \subseteq Action, NEW f \in Orders(S)
  PROVE  /\ Ranked(f) /\ DOMAIN f = S
         /\ IsFiniteSet(S) /\ Cardinality(S) \in Nat
         /\ \A a \in S : f[a] \in 0 .. Cardinality(S) - 1
         /\ {f[a] : a \in S} = 0 .. Cardinality(S) - 1
<1>1. IsFiniteSet(S) /\ Cardinality(S) \in Nat
  BY ChainEditAssumption, FS_Subset, FS_CardinalityType
<1> DEFINE N == 0 .. Cardinality(S) - 1
<1>2. f \in Bijection(S, N)
  BY DEF Orders
<1> HIDE DEF N
<1>3. /\ f \in [S -> N]
      /\ \A a, b \in S : f[a] = f[b] => a = b
      /\ \A t \in N : \E a \in S : f[a] = t
  BY <1>2, Fun_BijectionProperties
<1>4. DOMAIN f = S /\ \A a \in S : f[a] \in N
  BY <1>3
<1>5. {f[a] : a \in S} = N
  BY <1>3
<1>6. N \subseteq Nat
  BY <1>1 DEF N
<1> QED
  BY <1>1, <1>3, <1>4, <1>5, <1>6 DEF N, Ranked

(* An injection into as many ranks is dense.                               *)
LEMMA DenseByNumber ==
  ASSUME NEW S, S \subseteq Action, NEW f \in [S -> 0 .. Cardinality(S) - 1],
         \A a, b \in S : f[a] = f[b] => a = b
  PROVE  f \in Orders(S)
<1>1. IsFiniteSet(S) /\ Cardinality(S) \in Nat
  BY ChainEditAssumption, FS_Subset, FS_CardinalityType
<1> DEFINE N == 0 .. Cardinality(S) - 1
<1>2. f \in Injection(S, N)
  BY Fun_IsInj
<1>3. IsFiniteSet(N) /\ Cardinality(N) = Cardinality(S)
  BY <1>1, FS_Interval
<1>4. f \in Surjection(S, N)
  BY <1>2, <1>3, FS_Injection
<1> QED
  BY <1>2, <1>4, Fun_IsBij DEF Orders

(* A part of a table.                                                      *)
LEMMA RankedPart ==
  ASSUME NEW R, Ranked(R), NEW S \in SUBSET DOMAIN R
  PROVE  Ranked(Restrict(R, S)) /\ DOMAIN Restrict(R, S) = S
BY DEF Ranked, Restrict

-----------------------------------------------------------------------------
(* What an edit makes of the chain it has read.                            *)

(* chain.insert: the new row at its place, the others as they stood.       *)
LEMMA InsertedFacts ==
  ASSUME NEW x, Ranked(x.read), NEW a \in Action, x.fresh = {a},
         a \notin DOMAIN x.read, x.at \in Nat
  PROVE  /\ Inserted(x) \in Orders(DOMAIN x.read \cup {a})
         /\ \A b, c \in DOMAIN x.read :
              x.read[b] < x.read[c] <=> Inserted(x)[b] < Inserted(x)[c]
<1> DEFINE D == DOMAIN x.read
           n == Cardinality(D)
           k == IF x.at > n THEN n ELSE x.at
           place == Place(x.read)
           I == Inserted(x)
<1>1. IsFiniteSet(D) /\ n \in Nat /\ place \in Orders(D) /\ D \subseteq Action
  BY PlaceFacts DEF Ranked
<1>2. \A b, c \in D : x.read[b] < x.read[c] <=> place[b] < place[c]
  BY PlaceFacts
<1>3. /\ \A b \in D : place[b] \in 0 .. n - 1
      /\ \A b, c \in D : place[b] = place[c] => b = c
  BY <1>1, OrderFacts DEF Ranked
<1>4. k \in 0 .. n
  BY <1>1
<1>5. I = [b \in D \cup {a} |-> IF b = a THEN k ELSE IF place[b] < k THEN place[b] ELSE place[b] + 1]
  BY DEF Inserted
<1>6. I[a] = k /\ \A b \in D : I[b] = IF place[b] < k THEN place[b] ELSE place[b] + 1
  BY <1>5
<1>7. IsFiniteSet(D \cup {a}) /\ Cardinality(D \cup {a}) = n + 1
  BY <1>1, FS_AddElement
<1> HIDE DEF n, k, place, I
<1>8. I \in [D \cup {a} -> 0 .. Cardinality(D \cup {a}) - 1]
  BY <1>1, <1>3, <1>4, <1>5, <1>7
<1>9. \A b, c \in D \cup {a} : I[b] = I[c] => b = c
  BY <1>1, <1>3, <1>4, <1>6
<1>10. I \in Orders(D \cup {a})
  BY <1>1, <1>8, <1>9, DenseByNumber
<1>11. \A b, c \in D : place[b] < place[c] <=> I[b] < I[c]
  BY <1>1, <1>3, <1>4, <1>6
<1> QED
  BY <1>2, <1>10, <1>11 DEF I

(* The chain an edit leaves is dense, whatever the edit, and has the rows  *)
(* that are not dropped and the new ones.                                  *)
LEMMA OrderedFacts ==
  ASSUME NEW x, WellPut(x), x.pc = "writes", x.fresh \subseteq Action, ~Refused(x)
  PROVE  /\ DOMAIN Ordered(x) = (DOMAIN x.read \ Dropped(x)) \cup x.fresh
         /\ Ordered(x) \in Orders(DOMAIN Ordered(x))
         /\ DOMAIN Ordered(x) \subseteq Action
         /\ x.op # "replace" => SameOrder(x.read, Ordered(x))
<1>1. Ranked(x.read) /\ x.fresh \cap DOMAIN x.read = {} /\ DOMAIN x.read \subseteq Action
  BY DEF WellPut, Ranked
<1>2. CASE x.op = "add"
  <2>1. PICK a \in Action : x.fresh = {a}
    BY <1>2 DEF WellPut
  <2>2. Ordered(x) = Inserted(x) /\ Dropped(x) = {}
    BY <1>2 DEF Ordered, Dropped
  <2>3. /\ Inserted(x) \in Orders(DOMAIN x.read \cup {a})
        /\ \A b, c \in DOMAIN x.read :
              x.read[b] < x.read[c] <=> Inserted(x)[b] < Inserted(x)[c]
    BY <1>1, <2>1, InsertedFacts DEF WellPut
  <2>4. DOMAIN Inserted(x) = DOMAIN x.read \cup {a}
    BY <2>1 DEF Inserted
  <2> QED
    BY <1>1, <2>1, <2>2, <2>3, <2>4 DEF SameOrder
<1>3. CASE x.op = "remove"
  <2> DEFINE S == DOMAIN x.read \ x.gone
             Q == Restrict(x.read, S)
  <2>1. Ordered(x) = Place(Q) /\ Dropped(x) = x.gone /\ x.fresh = {}
    BY <1>3 DEF Ordered, Dropped, WellPut
  <2>2. Ranked(Q) /\ DOMAIN Q = S /\ \A a \in S : Q[a] = x.read[a]
    BY <1>1, RankedPart DEF Restrict
  <2>3. Place(Q) \in Orders(S) /\ \A a, b \in S : Q[a] < Q[b] <=> Place(Q)[a] < Place(Q)[b]
    BY <2>2, PlaceFacts
  <2>4. DOMAIN Place(Q) = S
    BY <2>2 DEF Place
  <2> HIDE DEF Q
  <2> QED
    BY <1>1, <2>1, <2>2, <2>3, <2>4 DEF SameOrder
<1>4. CASE x.op = "replace"
  <2>1. Ordered(x) = x.order /\ Dropped(x) = (DOMAIN x.read) \ DOMAIN x.order
    BY <1>4 DEF Ordered, Dropped
  <2> QED
    BY <1>4, <2>1 DEF WellPut, Refused
<1> QED
  BY <1>2, <1>3, <1>4 DEF WellPut, Ops

(* New rows are parked past the number of rows there were.                 *)
LEMMA ParkedFacts ==
  ASSUME NEW x, WellPut(x), x.pc = "writes", x.fresh \subseteq Action, ~Refused(x)
  PROVE  /\ Cardinality(DOMAIN x.read) \in Nat
         /\ \A a \in x.fresh : Parked(x)[a] \in Nat /\ Parked(x)[a] > Cardinality(DOMAIN x.read)
         /\ \A a, b \in x.fresh : Parked(x)[a] = Parked(x)[b] => a = b
<1> DEFINE n == Cardinality(DOMAIN x.read)
           new == Place(Restrict(Ordered(x), x.fresh))
<1>1. n \in Nat
  BY PlaceFacts DEF WellPut
<1>2. Ranked(Ordered(x)) /\ x.fresh \subseteq DOMAIN Ordered(x)
  <2>1. /\ Ordered(x) \in Orders(DOMAIN Ordered(x)) /\ DOMAIN Ordered(x) \subseteq Action
        /\ x.fresh \subseteq DOMAIN Ordered(x)
    BY OrderedFacts
  <2> QED
    BY <2>1, OrderFacts
<1>3. Ranked(Restrict(Ordered(x), x.fresh)) /\ DOMAIN Restrict(Ordered(x), x.fresh) = x.fresh
  BY <1>2, RankedPart
<1>4. new \in Orders(x.fresh)
  BY <1>3, PlaceFacts
<1>5. /\ \A a \in x.fresh : new[a] \in Nat
      /\ \A a, b \in x.fresh : new[a] = new[b] => a = b
  BY <1>4, OrderFacts DEF Ranked
<1>6. \A a \in x.fresh : Parked(x)[a] = n + 1 + new[a]
  BY DEF Parked
<1> HIDE DEF n, new
<1>7. \A a \in x.fresh : Parked(x)[a] \in Nat /\ Parked(x)[a] > n
  BY <1>1, <1>5, <1>6
<1>8. \A a, b \in x.fresh : Parked(x)[a] = Parked(x)[b] => a = b
  BY <1>1, <1>5, <1>6
<1> QED
  BY <1>1, <1>7, <1>8 DEF n

(* _renumber's first pass goes past every rank in memory.                  *)
LEMMA OffsetFacts ==
  ASSUME NEW x, IsFiniteSet(DOMAIN Ordered(x)),
         \A a \in DOMAIN Ordered(x) : InMemory(x)[a] \in Nat
  PROVE  Offset(x) \in Nat /\ \A a \in DOMAIN Ordered(x) : InMemory(x)[a] < Offset(x)
<1> DEFINE D == DOMAIN Ordered(x)
           f == [a \in D |-> InMemory(x)[a]]
           M == {InMemory(x)[a] : a \in D}
           ranks == M \cup {0}
<1>1. f \in [D -> M] /\ \A t \in M : \E a \in D : f[a] = t
  OBVIOUS
<1>2. M \subseteq Nat
  OBVIOUS
<1>3. \A a \in D : InMemory(x)[a] \in ranks
  OBVIOUS
<1>4. Offset(x) = 1 + CHOOSE m \in ranks : \A k \in ranks : k <= m
  BY DEF Offset
<1> HIDE DEF f, M
<1>5. f \in Surjection(D, M)
  BY <1>1, Fun_IsSurj
<1>6. IsFiniteSet(M)
  BY <1>5, FS_Surjection
<1>7. IsFiniteSet(ranks) /\ ranks \subseteq Nat /\ ranks # {}
  BY <1>2, <1>6, FS_AddElement
<1> HIDE DEF ranks
<1> DEFINE m == CHOOSE j \in ranks : \A k \in ranks : k <= j
<1>8. m \in ranks /\ \A k \in ranks : k <= m
  BY <1>7, LargestRank
<1>9. Offset(x) = 1 + m
  BY <1>4
<1> HIDE DEF m
<1> QED
  BY <1>3, <1>7, <1>8, <1>9

(* A transaction that finds the chain it has read runs into no rank, in    *)
(* whatever order its rows are written, and leaves the order it means.     *)
LEMMA CurrentEdit ==
  ASSUME NEW x, WellPut(x), x.pc = "writes", x.fresh \subseteq Action, ~Refused(x),
         x.read = rank, rank \in Orders(Live)
  PROVE  /\ Final(x) = Ordered(x)
         /\ \A s \in Statements(x) : ~MayCollide(s[1], s[2])
<1> DEFINE D == DOMAIN Ordered(x)
           O == Ordered(x)
           n == Cardinality(Live)
           G == Grown(x)
           I == InMemory(x)
<1>1. /\ D = (Live \ Dropped(x)) \cup x.fresh
      /\ O \in Orders(D) /\ D \subseteq Action
      /\ x.fresh \cap Live = {} /\ Live \subseteq Action
  <2>1. /\ D = (DOMAIN x.read \ Dropped(x)) \cup x.fresh
        /\ O \in Orders(D) /\ D \subseteq Action
    BY OrderedFacts
  <2> QED
    BY <2>1 DEF WellPut, Ranked, Live
<1>2. /\ IsFiniteSet(D) /\ Cardinality(D) \in Nat
      /\ \A a \in D : O[a] \in 0 .. Cardinality(D) - 1
      /\ \A a, b \in D : O[a] = O[b] => a = b
  BY <1>1, OrderFacts DEF Ranked
<1>3. /\ \A a \in Live : rank[a] \in 0 .. n - 1
      /\ \A a, b \in Live : rank[a] = rank[b] => a = b
  BY <1>1, OrderFacts DEF Ranked
<1>4. /\ n \in Nat
      /\ \A a \in x.fresh : Parked(x)[a] \in Nat /\ Parked(x)[a] > n
      /\ \A a, b \in x.fresh : Parked(x)[a] = Parked(x)[b] => a = b
  BY ParkedFacts DEF Live
<1>5. /\ G = [a \in D |-> IF a \in x.fresh THEN Parked(x)[a] ELSE rank[a]]
      /\ I = G /\ DOMAIN Parked(x) = x.fresh
  BY <1>1 DEF Grown, InMemory, Parked
<1>6. \A a \in D : a \notin x.fresh => a \in Live
  BY <1>1
<1>7. /\ DOMAIN G = D /\ \A a \in D : G[a] \in Nat
      /\ \A a, b \in D : G[a] = G[b] => a = b
  BY <1>3, <1>4, <1>5, <1>6
<1>8. Offset(x) \in Nat /\ \A a \in D : G[a] < Offset(x)
  BY <1>2, <1>5, <1>7, OffsetFacts
<1>9. Cardinality(D) <= Offset(x)
  <2> DEFINE N == 0 .. Offset(x) - 1
  <2>1. G \in [D -> N]
    BY <1>5, <1>7, <1>8
  <2>2. G \in Injection(D, N)
    BY <1>7, <2>1, Fun_IsInj
  <2>3. IsFiniteSet(N) /\ Cardinality(N) = Offset(x)
    BY <1>8, FS_Interval
  <2> QED
    BY <2>2, <2>3, FS_Injection
<1>10. /\ DOMAIN Lifted(x) = D
       /\ \A a \in D : Lifted(x)[a] = O[a] + Offset(x)
  BY DEF Lifted
<1>11. Written(G, Lifted(x)) = Lifted(x) /\ Final(x) = O
  <2>1. DOMAIN O = D /\ O = [a \in D |-> O[a]]
    BY <1>1 DEF Orders, Bijection, Injection
  <2>2. Lifted(x) = [a \in D |-> Lifted(x)[a]]
    BY DEF Lifted
  <2> HIDE DEF G, D, O
  <2> QED
    BY <1>7, <1>10, <2>1, <2>2 DEF Written, Final, G, O
<1>12. ~MayCollide(G, Parked(x))
  <2> SUFFICES ASSUME NEW a \in D \cap x.fresh, NEW b \in D \ {a} PROVE Parked(x)[a] # G[b]
    BY <1>5, <1>7 DEF MayCollide
  <2>1. CASE b \in x.fresh
    BY <1>4, <1>5, <2>1
  <2>2. CASE b \notin x.fresh
    BY <1>3, <1>4, <1>5, <1>6, <2>2
  <2> QED
    BY <2>1, <2>2
<1>13. ~MayCollide(G, Lifted(x))
  <2> SUFFICES ASSUME NEW a \in D, NEW b \in D PROVE Lifted(x)[a] # G[b]
    BY <1>7, <1>10 DEF MayCollide
  <2>1. Lifted(x)[a] = O[a] + Offset(x) /\ O[a] \in Nat /\ G[b] \in Nat /\ G[b] < Offset(x)
    BY <1>2, <1>7, <1>8, <1>10
  <2> QED
    BY <1>8, <2>1
<1>14. ~MayCollide(Lifted(x), O)
  <2> SUFFICES ASSUME NEW a \in D, NEW b \in D PROVE O[a] # Lifted(x)[b]
    BY <1>10 DEF MayCollide
  <2>1. O[a] < Cardinality(D) /\ O[a] \in Nat /\ O[b] \in Nat
    BY <1>2
  <2> QED
    BY <1>2, <1>8, <1>9, <1>10, <2>1
<1>15. \A s \in Statements(x) : \/ s = <<G, Parked(x)>> \/ s = <<G, Lifted(x)>>
                                 \/ s = <<Lifted(x), O>>
  BY <1>11 DEF Statements
<1> HIDE DEF G, O, D, I
<1>16. \A s \in Statements(x) : ~MayCollide(s[1], s[2])
  BY <1>12, <1>13, <1>14, <1>15
<1> QED
  BY <1>11, <1>16 DEF O

(* Whatever it has read, a transaction that the constraint lets through    *)
(* leaves the rows at distinct ranks.                                      *)
LEMMA AnyEdit ==
  ASSUME NEW x, WellPut(x), x.pc = "writes", x.fresh \subseteq Action, ~Refused(x),
         Ranked(rank), x.fresh \cap Live = {},
         \A s \in Statements(x) : ~Collides(s[1], s[2])
  PROVE  Ranked(Final(x)) /\ DOMAIN Final(x) = (Live \ Dropped(x)) \cup x.fresh
<1> DEFINE D == DOMAIN Ordered(x)
           O == Ordered(x)
           A == (Live \ Dropped(x)) \cup x.fresh
           G == Grown(x)
           W == Written(G, Lifted(x))
<1>1. /\ Ranked(O) /\ x.fresh \subseteq D
  <2>1. /\ O \in Orders(D) /\ D \subseteq Action /\ x.fresh \subseteq D
    BY OrderedFacts
  <2> QED
    BY <2>1, OrderFacts
<1>2. /\ DOMAIN G = A /\ DOMAIN W = A /\ DOMAIN Final(x) = A
      /\ \A a \in A \ D : W[a] = rank[a] /\ Final(x)[a] = rank[a] /\ a \in Live
      /\ \A a \in A \cap D : Final(x)[a] = O[a]
  BY <1>1 DEF Grown, Written, Final, Lifted
<1>3. ~Collides(W, O)
  <2> DEFINE s == <<W, O>>
  <2>1. s \in Statements(x) /\ s[1] = W /\ s[2] = O
    BY DEF Statements
  <2> HIDE DEF s, W, O
  <2> QED
    BY <2>1
<1>4. A \subseteq Action
  BY DEF Ranked, Live
<1>5. Final(x) = [a \in A |-> Final(x)[a]]
  BY <1>2 DEF Final, Written
<1>6. \A a \in A : Final(x)[a] \in Nat
  BY <1>1, <1>2 DEF Ranked, Live
<1>7. ASSUME NEW a \in A, NEW b \in A, Final(x)[a] = Final(x)[b] PROVE a = b
  <2> HIDE DEF A, D, O, W
  <2>1. CASE a \in D /\ b \in D
    BY <1>1, <1>2, <1>7, <2>1 DEF Ranked, D, O
  <2>2. CASE a \notin D /\ b \notin D
    BY <1>2, <1>7, <2>2 DEF Ranked, Live
  <2>3. CASE a \in D /\ b \notin D
    BY <1>2, <1>3, <1>7, <2>3 DEF Collides, D, O
  <2>4. CASE a \notin D /\ b \in D
    BY <1>2, <1>3, <1>7, <2>4 DEF Collides, D, O
  <2> QED
    BY <2>1, <2>2, <2>3, <2>4
<1> HIDE DEF A
<1> QED
  BY <1>2, <1>4, <1>5, <1>6, <1>7 DEF Ranked, A

-----------------------------------------------------------------------------
(* Requests and tables.                                                    *)

LEMMA IdleFields ==
  /\ DOMAIN IdleEditor = EditorFields
  /\ IdleEditor.pc = "idle" /\ IdleEditor.fresh = {} /\ IdleEditor.op = "add" /\ IdleEditor.at = 0
BY DEF IdleEditor, EditorFields

(* Each request is well put, with ids nobody has had.                      *)
LEMMA Requests ==
  ASSUME TableSound, NEW e \in Editor, AsksAdd(e) \/ AsksRemove(e) \/ AsksReplace(e)
  PROVE  \E x : /\ Asks(e, x)
                /\ DOMAIN x = EditorFields
                /\ x.fresh \subseteq Action \ used
                /\ WellPut([x EXCEPT !.pc = "asks"])
<1> USE IdleFields
<1>1. CASE AsksAdd(e)
  <2>1. PICK a \in Action \ used, k \in 0 .. Cardinality(Action) :
          Asks(e, [IdleEditor EXCEPT !.op = "add", !.fresh = {a}, !.at = k])
    BY <1>1 DEF AsksAdd
  <2> DEFINE x == [IdleEditor EXCEPT !.op = "add", !.fresh = {a}, !.at = k]
             y == [x EXCEPT !.pc = "asks"]
  <2>2. DOMAIN x = EditorFields /\ x.fresh = {a}
    BY DEF EditorFields
  <2>3. y.pc = "asks" /\ y.op = "add" /\ y.fresh = {a} /\ y.at = k
    BY DEF EditorFields
  <2>4. k \in Nat
    BY ChainEditAssumption, FS_CardinalityType
  <2> HIDE DEF y
  <2>5. WellPut(y)
    BY <2>3, <2>4 DEF WellPut, Ops
  <2> QED
    BY <2>1, <2>2, <2>5 DEF y
<1>2. CASE AsksRemove(e)
  <2>1. PICK a \in Live : Asks(e, [IdleEditor EXCEPT !.op = "remove", !.gone = {a}])
    BY <1>2 DEF AsksRemove
  <2> DEFINE x == [IdleEditor EXCEPT !.op = "remove", !.gone = {a}]
             y == [x EXCEPT !.pc = "asks"]
  <2>2. DOMAIN x = EditorFields /\ x.fresh = {}
    BY DEF EditorFields
  <2>3. y.pc = "asks" /\ y.op = "remove" /\ y.fresh = {} /\ y.at = 0
    BY DEF EditorFields
  <2> HIDE DEF y
  <2>4. WellPut(y)
    BY <2>3 DEF WellPut, Ops
  <2> QED
    BY <2>1, <2>2, <2>4 DEF y
<1>3. CASE AsksReplace(e)
  <2>1. PICK S \in SUBSET Live, T \in SUBSET (Action \ used) :
          \E order \in Orders(S \cup T) :
            Asks(e, [IdleEditor EXCEPT !.op = "replace", !.fresh = T, !.order = order])
    BY <1>3 DEF AsksReplace
  <2>2. PICK order \in Orders(S \cup T) :
          Asks(e, [IdleEditor EXCEPT !.op = "replace", !.fresh = T, !.order = order])
    BY <2>1
  <2> DEFINE x == [IdleEditor EXCEPT !.op = "replace", !.fresh = T, !.order = order]
             y == [x EXCEPT !.pc = "asks"]
  <2>3. DOMAIN x = EditorFields /\ x.fresh = T
    BY DEF EditorFields
  <2>4. y.pc = "asks" /\ y.op = "replace" /\ y.fresh = T /\ y.at = 0 /\ y.order = order
    BY DEF EditorFields
  <2>5. S \cup T \subseteq Action
    BY DEF TableSound
  <2>6. DOMAIN order = S \cup T
    BY <2>5, OrderFacts
  <2> HIDE DEF y
  <2>7. WellPut(y)
    BY <2>4, <2>5, <2>6 DEF WellPut, Ops
  <2> QED
    BY <2>2, <2>3, <2>7 DEF y
<1> QED
  BY <1>1, <1>2, <1>3

(* The steps of a request: it is put, it goes on, or it ends, and only its *)
(* commit changes the table.                                               *)
Opens(e, x) ==
  /\ x.pc = "asks" /\ WellPut(x)
  /\ x.fresh \subseteq Action \ used /\ used' = used \cup x.fresh
  /\ rank' = rank /\ walk' = walk
GoesOn(e, x) ==
  /\ editor[e].pc \in Asking /\ x.pc \in Asking /\ WellPut(x)
  /\ x.fresh = editor[e].fresh
  /\ used' = used /\ rank' = rank /\ walk' = walk
Ends(e, x) ==
  /\ x.pc \in {"idle", "release"}
  /\ used' = used
  /\ (rank' = rank /\ walk' = walk) \/ Writes(e)

LEMMA EditMoves ==
  ASSUME TableSound, FreshIds, RequestsSound, NEW e \in Editor, Edit(e)
  PROVE  /\ UNCHANGED itemVars
         /\ \E x : /\ editor' = [editor EXCEPT ![e] = x]
                   /\ DOMAIN x = EditorFields
                   /\ Opens(e, x) \/ GoesOn(e, x) \/ Ends(e, x)
<1>1. DOMAIN editor[e] = EditorFields /\ (editor[e].pc \in Asking => WellPut(editor[e]))
  BY DEF RequestsSound
<1>2. CASE AsksAdd(e) \/ AsksRemove(e) \/ AsksReplace(e)
  <2>1. PICK x : /\ Asks(e, x) /\ DOMAIN x = EditorFields /\ x.fresh \subseteq Action \ used
                 /\ WellPut([x EXCEPT !.pc = "asks"])
    BY <1>2, Requests
  <2> DEFINE y == [x EXCEPT !.pc = "asks"]
  <2>2. DOMAIN y = EditorFields /\ y.pc = "asks" /\ y.fresh = x.fresh
    BY <2>1 DEF EditorFields
  <2>3. editor' = [editor EXCEPT ![e] = y] /\ UNCHANGED itemVars
    BY <2>1 DEF Asks
  <2>4. Opens(e, y)
    BY <2>1, <2>2 DEF Asks, Opens
  <2> QED
    BY <2>2, <2>3, <2>4
<1>3. CASE TakesLock(e)
  <2>1. CASE MayEdit
    <3> DEFINE y == [editor[e] EXCEPT !.pc = "locked"]
    <3>1. /\ DOMAIN y = EditorFields /\ y.pc = "locked" /\ y.fresh = editor[e].fresh
          /\ y.op = editor[e].op /\ y.at = editor[e].at /\ y.order = editor[e].order
      BY <1>1 DEF EditorFields
    <3>2. editor' = [editor EXCEPT ![e] = y] /\ editor[e].pc = "asks"
      BY <1>3, <2>1 DEF TakesLock
    <3> HIDE DEF y
    <3>3. GoesOn(e, y)
      BY <1>1, <1>3, <3>1, <3>2 DEF GoesOn, TakesLock, chainVars, Asking, WellPut
    <3> QED
      BY <1>3, <3>1, <3>2, <3>3 DEF TakesLock
  <2>2. CASE ~MayEdit
    <3>1. editor' = [editor EXCEPT ![e] = IdleEditor] /\ Ends(e, IdleEditor)
      BY <1>3, <2>2, IdleFields DEF TakesLock, Ends, chainVars
    <3> QED
      BY <1>3, <3>1, IdleFields DEF TakesLock
  <2> QED
    BY <2>1, <2>2
<1>4. CASE Reads(e)
  <2> DEFINE y == [editor[e] EXCEPT !.pc = "writes", !.read = rank]
  <2>1. /\ DOMAIN y = EditorFields /\ y.pc = "writes" /\ y.fresh = editor[e].fresh
        /\ y.op = editor[e].op /\ y.at = editor[e].at /\ y.order = editor[e].order
        /\ y.read = rank
    BY <1>1 DEF EditorFields
  <2>2. editor' = [editor EXCEPT ![e] = y] /\ editor[e].pc = "locked"
    BY <1>4 DEF Reads
  <2>3. Ranked(rank) /\ editor[e].fresh \cap DOMAIN rank = {}
    BY <2>2 DEF TableSound, FreshIds, Asking, Live
  <2> HIDE DEF y
  <2>4. GoesOn(e, y)
    BY <1>1, <1>4, <2>1, <2>2, <2>3 DEF GoesOn, Reads, chainVars, Asking, WellPut
  <2> QED
    BY <1>4, <2>1, <2>2, <2>4 DEF Reads
<1>5. CASE Refuses(e) \/ Writes(e) \/ Clashes(e)
  <2> DEFINE y == [IdleEditor EXCEPT !.pc = "release"]
  <2>1. DOMAIN y = EditorFields /\ y.pc = "release"
    BY IdleFields DEF EditorFields
  <2>2. editor' = [editor EXCEPT ![e] = y] /\ UNCHANGED itemVars
    BY <1>5 DEF Refuses, Writes, Clashes, Closes
  <2> HIDE DEF y
  <2>3. Ends(e, y)
    BY <1>5, <2>1 DEF Ends, Refuses, Writes, Clashes, chainVars
  <2> QED
    BY <2>1, <2>2, <2>3
<1>6. CASE Releases(e)
  <2>1. editor' = [editor EXCEPT ![e] = IdleEditor] /\ Ends(e, IdleEditor)
    BY <1>6, IdleFields DEF Releases, Ends, chainVars
  <2> QED
    BY <1>6, <2>1, IdleFields DEF Releases
<1> QED
  BY <1>2, <1>3, <1>4, <1>5, <1>6 DEF Edit

(* A commit puts the new rows beside the rows it does not drop, at         *)
(* distinct ranks.                                                         *)
LEMMA CommitFacts ==
  ASSUME TableSound, FreshIds, RequestsSound, NEW e \in Editor, Writes(e)
  PROVE  /\ Ranked(rank') /\ Live' \subseteq Live \cup editor[e].fresh
         /\ rank' = Final(editor[e])
         /\ editor[e].pc = "writes" /\ WellPut(editor[e]) /\ ~Refused(editor[e])
         /\ editor[e].fresh \subseteq used \ (Live \cup head)
<1>1. editor[e].pc = "writes" /\ ~Refused(editor[e]) /\ rank' = Final(editor[e])
  BY DEF Writes
<1>2. WellPut(editor[e]) /\ editor[e].fresh \subseteq used \ (Live \cup head)
  BY <1>1 DEF RequestsSound, FreshIds, Asking
<1>3. editor[e].fresh \subseteq Action /\ editor[e].fresh \cap Live = {} /\ Ranked(rank)
  BY <1>2 DEF TableSound
<1>4. \A s \in Statements(editor[e]) : ~Collides(s[1], s[2])
  BY DEF Writes
<1>5. /\ Ranked(Final(editor[e]))
      /\ DOMAIN Final(editor[e]) = (Live \ Dropped(editor[e])) \cup editor[e].fresh
  BY <1>1, <1>2, <1>3, <1>4, AnyEdit
<1> QED
  BY <1>1, <1>2, <1>5 DEF Live


-----------------------------------------------------------------------------
(* Items.                                                                  *)
ItemStep ==
  \/ TriggerReads \/ TriggerEnds
  \/ \E i \in Item : \/ TriggerEnqueues(i) \/ Stops(i) \/ Passes(i)
                      \/ \E a \in Action : Loads(i, a)

(* A run is written for its own item only, and a new one for a row of the  *)
(* chain or the head that was read.                                        *)
LEMMA ItemMoves ==
  ASSUME TableSound, JudgedRuns, ItemStep
  PROVE  /\ UNCHANGED <<chainVars, editVars>>
         /\ head' \subseteq head \cup Live
         /\ run' = [i \in Item |-> [a \in Action |-> run'[i][a]]]
         /\ \A i \in Item, a \in Action :
              run'[i][a] # "none" => run[i][a] # "none" \/ a \in Live \cup head
         /\ \A i \in Item, a \in Action : run[i][a] = "succeeded" => run'[i][a] = "succeeded"
         /\ \A i \in Item, a \in Action : run[i][a] # "none" => run'[i][a] # "none"
         /\ DOMAIN judge' = Item /\ (DOMAIN walk = Item => DOMAIN walk' = Item)
<1>1. run = [i \in Item |-> [a \in Action |-> run[i][a]]] /\ DOMAIN judge = Item
  BY DEF TableSound, JudgedRuns
<1>2. CASE TriggerReads
  BY <1>1, <1>2 DEF TriggerReads
<1>3. CASE TriggerEnds
  BY <1>1, <1>3 DEF TriggerEnds
<1>4. ASSUME NEW i \in Item, TriggerEnqueues(i)
      PROVE  /\ UNCHANGED <<chainVars, editVars, head, judge, walk>>
             /\ \E a \in head : run' = [run EXCEPT ![i][a] = "pending"] /\ run[i][a] = "none"
  BY <1>1, <1>4 DEF TriggerEnqueues, TableSound
<1>5. ASSUME NEW i \in Item, Stops(i)
      PROVE  /\ UNCHANGED <<chainVars, editVars, head, walk>>
             /\ \E a \in Action : run' = [run EXCEPT ![i][a] = "stopped"] /\ run[i][a] = "running"
             /\ judge' = [judge EXCEPT ![i] = NoJudge]
  BY <1>1, <1>5 DEF Stops, JudgedRuns
<1>6. ASSUME NEW i \in Item, NEW a \in Action, Loads(i, a)
      PROVE  /\ UNCHANGED <<chainVars, editVars, head, walk>>
             /\ run[i][a] = "pending"
             /\ \/ run' = [run EXCEPT ![i][a] = "running"]
                \/ run' = [run EXCEPT ![i][a] = "stopped"]
             /\ DOMAIN judge' = Item
  BY <1>1, <1>6 DEF Loads
<1>7. ASSUME NEW i \in Item, Passes(i)
      PROVE  /\ UNCHANGED <<chainVars, editVars, head, walk>>
             /\ judge' = [judge EXCEPT ![i] = NoJudge]
             /\ judge[i][1] \in Action /\ run[i][judge[i][1]] = "running"
             /\ run' = [run EXCEPT ![i] = [b \in Action |->
                  IF b = judge[i][1] THEN "succeeded"
                  ELSE IF b \in Successor(judge[i][2]) /\ run[i][b] = "none"
                       THEN "pending" ELSE run[i][b]]]
  BY <1>1, <1>7 DEF Passes, JudgedRuns
<1>8. \A k : Successor(k) \subseteq Live
  BY DEF Successor
<1> QED
  BY <1>1, <1>2, <1>3, <1>4, <1>5, <1>6, <1>7, <1>8 DEF ItemStep

(* A step is an edit's, an item's, or leaves both alone.                   *)
LEMMA StepKinds ==
  ASSUME [Next]_vars
  PROVE  \/ \E e \in Editor : Edit(e)
         \/ ItemStep
         \/ UNCHANGED <<chainVars, itemVars, editor, walk, overlap, clashed>>
         \/ LockExpires
BY DEF Next, vars, ItemStep, chainVars, itemVars

Sound == TableSound /\ FreshIds /\ RequestsSound /\ JudgedRuns

LEMMA SoundEdit ==
  ASSUME Sound, NEW e \in Editor, Edit(e)
  PROVE  Sound'
<1>1. PICK x : /\ editor' = [editor EXCEPT ![e] = x]
               /\ DOMAIN x = EditorFields
               /\ Opens(e, x) \/ GoesOn(e, x) \/ Ends(e, x)
  BY EditMoves DEF Sound
<1>2. head' = head /\ run' = run /\ judge' = judge
  BY EditMoves DEF Sound, itemVars
<1>3. /\ DOMAIN editor = Editor /\ DOMAIN editor' = Editor /\ editor'[e] = x
      /\ \A d \in Editor \ {e} : editor'[d] = editor[d]
  BY <1>1 DEF Sound, RequestsSound
<1>4. used' \subseteq Action /\ used \subseteq used' /\ Live \subseteq used
  BY <1>1 DEF Sound, TableSound, Opens, GoesOn, Ends
<1>5. /\ Ranked(rank') /\ Live' \subseteq used'
      /\ \/ Live' = Live
         \/ /\ Live' \subseteq Live \cup editor[e].fresh
            /\ editor[e].pc = "writes"
            /\ x.pc \notin Asking
            /\ editor[e].fresh \cap head = {}
  <2>1. CASE rank' = rank
    BY <1>4, <2>1 DEF Sound, TableSound, Live
  <2>2. CASE Writes(e) /\ Ends(e, x)
    BY <1>4, <2>2, CommitFacts DEF Sound, Ends, Asking
  <2> QED
    BY <1>1, <2>1, <2>2 DEF Opens, GoesOn, Ends
<1>6. TableSound'
  BY <1>2, <1>4, <1>5 DEF Sound, TableSound
<1>7. FreshIds'
  <2> SUFFICES ASSUME NEW d \in Editor, editor'[d].pc \in Asking
               PROVE  /\ editor'[d].fresh \subseteq used' \ (Live' \cup head')
                      /\ \A i \in Item, a \in editor'[d].fresh : run'[i][a] = "none"
                      /\ \A c \in Editor \ {d} : editor'[c].pc \in Asking =>
                           editor'[d].fresh \cap editor'[c].fresh = {}
    BY DEF FreshIds
  <2>1. ASSUME NEW c \in Editor, editor[c].pc \in Asking
        PROVE  /\ editor[c].fresh \subseteq used \ (Live \cup head)
               /\ \A i \in Item, a \in editor[c].fresh : run[i][a] = "none"
               /\ \A b \in Editor \ {c} : editor[b].pc \in Asking =>
                           editor[c].fresh \cap editor[b].fresh = {}
    BY <2>1 DEF Sound, FreshIds
  <2>2. "writes" \in Asking /\ "idle" \notin Asking /\ "release" \notin Asking
    BY DEF Asking
  <2>3. CASE d # e
    <3>1. editor'[d] = editor[d] /\ editor[d].pc \in Asking
      BY <1>3, <2>3
    <3>2. editor[d].fresh \cap Live' = {}
      BY <1>5, <2>1, <2>2, <2>3, <3>1
    <3>3. ASSUME NEW c \in Editor \ {d}, editor'[c].pc \in Asking
          PROVE  editor[d].fresh \cap editor'[c].fresh = {}
      <4>1. CASE c # e
        BY <1>3, <2>1, <3>1, <3>3, <4>1
      <4>2. CASE c = e
        BY <1>1, <1>3, <2>1, <2>2, <3>1, <3>3, <4>2 DEF Opens, GoesOn, Ends
      <4> QED
        BY <4>1, <4>2
    <3> QED
      BY <1>2, <1>4, <2>1, <3>1, <3>2, <3>3
  <2>4. CASE d = e
    <3>1. Opens(e, x) \/ GoesOn(e, x)
      BY <1>1, <1>3, <2>2, <2>4 DEF Ends
    <3>2. rank' = rank /\ Live' = Live
      BY <3>1 DEF Opens, GoesOn, Live
    <3>3. CASE Opens(e, x)
      BY <1>2, <1>3, <1>4, <2>1, <2>4, <3>2, <3>3 DEF Opens, Sound, TableSound
    <3>4. CASE GoesOn(e, x)
      BY <1>2, <1>3, <2>1, <2>4, <3>2, <3>4 DEF GoesOn
    <3> QED
      BY <3>1, <3>3, <3>4
  <2> QED
    BY <2>3, <2>4
<1>8. RequestsSound'
  BY <1>1, <1>3 DEF Sound, RequestsSound, Opens, GoesOn, Ends, Asking
<1>9. JudgedRuns'
  BY <1>2 DEF Sound, JudgedRuns
<1> QED
  BY <1>6, <1>7, <1>8, <1>9 DEF Sound

LEMMA SoundItem ==
  ASSUME Sound, ItemStep
  PROVE  Sound'
<1>1. /\ UNCHANGED <<rank, used, editor>> /\ Live' = Live
      /\ head' \subseteq head \cup Live
      /\ run' = [i \in Item |-> [a \in Action |-> run'[i][a]]]
      /\ \A i \in Item, a \in Action :
              run'[i][a] # "none" => run[i][a] # "none" \/ a \in Live \cup head
      /\ DOMAIN judge' = Item
  BY ItemMoves DEF Sound, chainVars, editVars, Live
<1>2. TableSound'
  BY <1>1 DEF Sound, TableSound
<1>3. FreshIds'
  <2>1. \A e \in Editor : editor[e].pc \in Asking => editor[e].fresh \subseteq Action
    BY DEF Sound, TableSound, FreshIds
  <2> QED
    BY <1>1, <2>1 DEF Sound, FreshIds
<1>4. RequestsSound'
  BY <1>1 DEF Sound, RequestsSound
<1>5. JudgedRuns'
  <2>1. run = [i \in Item |-> [a \in Action |-> run[i][a]]] /\ DOMAIN judge = Item
    BY DEF Sound, TableSound, JudgedRuns
  <2> SUFFICES ASSUME NEW i \in Item, judge'[i] # NoJudge
               PROVE  judge'[i][1] \in Action /\ run'[i][judge'[i][1]] = "running"
    BY <1>1 DEF JudgedRuns
  <2>2. judge[i] # NoJudge => judge[i][1] \in Action /\ run[i][judge[i][1]] = "running"
    BY DEF Sound, JudgedRuns
  <2>3. CASE UNCHANGED <<run, judge>>
    BY <2>2, <2>3
  <2>4. ASSUME NEW j \in Item, TriggerEnqueues(j) PROVE run'[i][judge'[i][1]] = "running" /\ judge' = judge
    BY <2>1, <2>2, <2>4 DEF TriggerEnqueues
  <2>5. ASSUME NEW j \in Item, Stops(j) \/ Passes(j)
        PROVE  judge'[i] = judge[i] /\ run'[i] = run[i]
    BY <2>1, <2>5 DEF Stops, Passes
  <2>6. ASSUME NEW j \in Item, NEW a \in Action, Loads(j, a)
        PROVE  judge'[i][1] \in Action /\ run'[i][judge'[i][1]] = "running"
    <3>1. CASE a \in Live /\ i = j
      BY <2>1, <2>6, <3>1 DEF Loads
    <3>2. CASE a \in Live /\ i # j
      BY <2>1, <2>2, <2>6, <3>2 DEF Loads
    <3>3. CASE a \notin Live
      BY <2>1, <2>2, <2>6, <3>3 DEF Loads
    <3> QED
      BY <3>1, <3>2, <3>3
  <2> QED
    BY <2>2, <2>3, <2>4, <2>5, <2>6 DEF ItemStep, TriggerReads, TriggerEnds
<1> QED
  BY <1>2, <1>3, <1>4, <1>5 DEF Sound

LEMMA SoundNext == Sound /\ [Next]_vars => Sound'
<1> SUFFICES ASSUME Sound, [Next]_vars PROVE Sound'
  OBVIOUS
<1>1. CASE UNCHANGED <<chainVars, itemVars, editor>>
  <2>1. UNCHANGED <<rank, used, head, run, judge, editor>> /\ Live' = Live
    BY <1>1 DEF chainVars, itemVars, Live
  <2>2. TableSound' /\ JudgedRuns'
    BY <2>1 DEF Sound, TableSound, JudgedRuns
  <2>3. FreshIds' /\ RequestsSound'
    BY <2>1 DEF Sound, FreshIds, RequestsSound
  <2> QED
    BY <2>2, <2>3 DEF Sound
<1>2. CASE LockExpires
  BY <1>1, <1>2 DEF LockExpires
<1> QED
  BY <1>1, <1>2, SoundEdit, SoundItem, StepKinds

LEMMA SoundInit == Init => Sound
<1> SUFFICES ASSUME Init PROVE Sound
  OBVIOUS
<1>1. Ranked(rank) /\ Live = used /\ used \subseteq Action
  BY ChainEditAssumption, OrderFacts DEF Init, Live
<1>2. TableSound
  BY <1>1 DEF Init, TableSound
<1>3. \A e \in Editor : editor[e].pc \notin Asking
  BY IdleFields DEF Init, Asking
<1>4. RequestsSound
  BY <1>3, IdleFields DEF Init, RequestsSound
<1>5. JudgedRuns
  BY DEF Init, JudgedRuns
<1> QED
  BY <1>2, <1>3, <1>4, <1>5 DEF Sound, FreshIds

-----------------------------------------------------------------------------
(* An item passes the actions in order.                                    *)
LEMMA WalkedEdit ==
  ASSUME Sound, WalkedPast, HeadFirst, NEW e \in Editor, Edit(e)
  PROVE  WalkedPast' /\ HeadFirst'
<1>1. UNCHANGED <<head, run, judge, shifted>>
  BY EditMoves DEF Sound, itemVars
<1>2. CASE rank' = rank /\ walk' = walk
  BY <1>1, <1>2 DEF WalkedPast, HeadFirst, Live
<1>3. CASE Writes(e)
  <2> DEFINE x == editor[e]
  <2>1. /\ rank' = Final(x) /\ Live' \subseteq Live \cup x.fresh
        /\ x.pc = "writes" /\ x.fresh \subseteq used \ (Live \cup head)
        /\ Ranked(rank) /\ Ranked(rank') /\ used \subseteq Action
    BY <1>3, CommitFacts DEF Sound, TableSound
  <2>2. \A i \in Item, a \in x.fresh : run[i][a] = "none"
    BY <2>1 DEF Sound, FreshIds, Asking
  <2>3. walk' = [i \in Item |-> IF SameOrder(rank, rank')
                                 THEN walk[i] \cap Pairs(rank') ELSE {}]
    BY <1>3, <2>1 DEF Writes
  <2>4. /\ DOMAIN walk' = Item
        /\ \A i \in Item : walk'[i] \subseteq walk[i] \cap Pairs(rank')
        /\ \A i \in Item : walk'[i] # {} => SameOrder(rank, rank')
    BY <2>3
  <2>5. \A R : \A p \in Pairs(R) : p[1] \in DOMAIN R /\ p[2] \in DOMAIN R
    BY DEF Pairs
  <2>6. ASSUME NEW i \in Item, NEW p \in walk'[i], NEW c \in Live \cap Live'
        PROVE  /\ p \in walk[i] /\ p[1] \in Live
               /\ rank[p[1]] < rank[c] <=> rank'[p[1]] < rank'[c]
    <3>1. p \in walk[i] /\ p \in Pairs(rank) /\ p \in Pairs(rank') /\ SameOrder(rank, rank')
      BY <2>4 DEF WalkedPast
    <3>2. p[1] \in DOMAIN rank /\ p[1] \in DOMAIN rank'
      BY <2>5, <3>1
    <3> QED
      BY <3>1, <3>2 DEF SameOrder, Live
  <2> HIDE DEF x
  <2>7. \A i \in Item : \A c \in Live' : run[i][c] # "none" => c \in Live
    BY <2>1, <2>2
  <2>8. WalkedPast'
    BY <1>1, <2>4, <2>6, <2>7 DEF WalkedPast
  <2>9. ASSUME NEW i \in Item, \A a \in Action : run[i][a] = "none",
               NEW h \in head \cap Live', NEW p \in walk'[i]
        PROVE  rank'[h] <= rank'[p[1]]
    <3>1. h \in Live
      BY <2>1
    <3>2. p \in walk[i] /\ p[1] \in Live /\ p[1] \in Live'
      BY <2>4, <2>5, <2>6, <3>1, <2>9 DEF Live
    <3>3. rank[h] <= rank[p[1]]
      BY <2>9, <3>1, <3>2 DEF HeadFirst
    <3>4. rank[h] \in Nat /\ rank[p[1]] \in Nat /\ rank'[h] \in Nat /\ rank'[p[1]] \in Nat
      BY <2>1, <2>9, <3>1, <3>2 DEF Ranked, Live
    <3>5. SameOrder(rank, rank')
      BY <2>4, <2>9
    <3>6. rank[p[1]] < rank[h] <=> rank'[p[1]] < rank'[h]
      BY <2>9, <3>1, <3>2, <3>5 DEF SameOrder, Live
    <3> QED
      BY <3>3, <3>4, <3>6
  <2>10. HeadFirst'
    BY <1>1, <2>9 DEF HeadFirst
  <2> QED
    BY <2>8, <2>10
<1>4. \E x : Opens(e, x) \/ GoesOn(e, x) \/ Ends(e, x)
  BY EditMoves DEF Sound
<1> QED
  BY <1>2, <1>3, <1>4 DEF Opens, GoesOn, Ends

LEMMA WalkedItem ==
  ASSUME Sound, WalkedPast, HeadFirst, ItemStep
  PROVE  WalkedPast' /\ HeadFirst'
<1>1. /\ UNCHANGED rank /\ Live' = Live /\ DOMAIN walk' = Item
      /\ \A i \in Item, a \in Action : run[i][a] = "succeeded" => run'[i][a] = "succeeded"
      /\ \A i \in Item, a \in Action : run[i][a] # "none" => run'[i][a] # "none"
      /\ Ranked(rank) /\ Live \subseteq Action /\ head \subseteq Action
      /\ run = [i \in Item |-> [a \in Action |-> run[i][a]]]
  BY ItemMoves DEF Sound, TableSound, WalkedPast, chainVars, Live
<1>2. ASSUME NEW i \in Item, NEW p \in walk[i]
      PROVE  p \in Pairs(rank) /\ p[1] \in Live /\ p[1] \in Action /\ rank[p[1]] \in Nat
  BY <1>1, <1>2 DEF WalkedPast, Pairs, Ranked, Live
<1>3. \A a \in Live : rank[a] \in Nat
  BY <1>1 DEF Ranked, Live
<1>4. CASE TriggerReads
  <2>1. /\ \A i \in Item : walk'[i] = IF \A a \in Action : run[i][a] = "none"
                                       THEN Pairs(rank) ELSE walk[i]
        /\ head' = {a \in Live : \A b \in Live : rank[a] <= rank[b]}
        /\ UNCHANGED <<run, shifted>>
    BY <1>4 DEF TriggerReads
  <2>2. \A p \in Pairs(rank) : p[1] \in Live
    BY DEF Pairs, Live
  <2>3. WalkedPast'
    BY <1>1, <2>1 DEF WalkedPast
  <2>4. HeadFirst'
    BY <1>1, <2>1, <2>2 DEF HeadFirst
  <2> QED
    BY <2>3, <2>4
<1>5. CASE TriggerEnds
  BY <1>1, <1>5 DEF TriggerEnds, WalkedPast, HeadFirst
<1>6. ASSUME NEW i \in Item, TriggerEnqueues(i) PROVE WalkedPast' /\ HeadFirst'
  <2>1. PICK a \in head : run' = [run EXCEPT ![i][a] = "pending"]
    BY <1>6 DEF TriggerEnqueues
  <2>2. UNCHANGED <<walk, shifted, head>> /\ \A b \in Action : run[i][b] = "none"
    BY <1>6 DEF TriggerEnqueues
  <2>3. /\ \A j \in Item, b \in Action : run'[j][b] = IF j = i /\ b = a THEN "pending" ELSE run[j][b]
        /\ a \in Action
    BY <1>1, <2>1
  <2>4. \A p \in walk[i] : a \in Live => rank[a] <= rank[p[1]]
    BY <2>2 DEF HeadFirst
  <2>5. ASSUME ~shifted, NEW j \in Item, NEW p \in walk[j], NEW c \in Live,
               run'[j][c] # "none", rank[p[1]] < rank[c]
        PROVE  run'[j][p[1]] = "succeeded"
    <3>1. CASE j = i /\ c = a
      BY <1>2, <1>3, <2>4, <2>5, <3>1
    <3>2. CASE ~(j = i /\ c = a)
      <4>1. run[j][c] # "none"
        BY <1>1, <2>3, <2>5, <3>2
      <4> QED
        BY <1>1, <1>2, <2>5, <4>1 DEF WalkedPast
    <3> QED
      BY <3>1, <3>2
  <2>6. WalkedPast'
    BY <1>1, <2>2, <2>5 DEF WalkedPast
  <2>7. HeadFirst'
    BY <1>1, <2>2, <2>3 DEF HeadFirst
  <2> QED
    BY <2>6, <2>7
<1>7. ASSUME NEW i \in Item, Stops(i) \/ \E a \in Action : Loads(i, a)
      PROVE  WalkedPast' /\ HeadFirst'
  <2>1. UNCHANGED <<walk, shifted, head>>
    BY <1>7 DEF Stops, Loads
  <2>2. judge[i] # NoJudge => judge[i][1] \in Action /\ run[i][judge[i][1]] = "running"
    BY DEF Sound, JudgedRuns
  <2>3. \A j \in Item, b \in Action : run'[j][b] # "none" => run[j][b] # "none"
    BY <1>1, <1>7, <2>2 DEF Stops, Loads
  <2>4. ASSUME ~shifted, NEW j \in Item, NEW p \in walk[j], NEW c \in Live,
               run'[j][c] # "none", rank[p[1]] < rank[c]
        PROVE  run'[j][p[1]] = "succeeded"
    <3>1. run[j][c] # "none" /\ p[1] \in Action
      BY <1>1, <1>2, <2>3, <2>4
    <3>2. run[j][p[1]] = "succeeded"
      BY <2>4, <3>1 DEF WalkedPast
    <3> QED
      BY <1>1, <3>1, <3>2
  <2>5. WalkedPast'
    BY <1>1, <1>2, <2>1, <2>4 DEF WalkedPast
  <2>6. HeadFirst'
    BY <1>1, <2>1, <2>3 DEF HeadFirst
  <2> QED
    BY <2>5, <2>6
<1>8. ASSUME NEW i \in Item, Passes(i) PROVE WalkedPast' /\ HeadFirst'
  <2> DEFINE a == judge[i][1]
             k == judge[i][2]
  <2>1. /\ a \in Action /\ run[i][a] = "running"
        /\ UNCHANGED <<walk, head>>
        /\ shifted' = (shifted \/ a \notin Live \/ (a \in Live /\ rank[a] # k))
        /\ run' = [run EXCEPT ![i] = [b \in Action |->
                  IF b = a THEN "succeeded"
                  ELSE IF b \in Successor(k) /\ run[i][b] = "none"
                       THEN "pending" ELSE run[i][b]]]
    BY <1>1, <1>8 DEF Passes, Sound, JudgedRuns
  <2> HIDE DEF a, k
  <2>2. \A j \in Item, b \in Action : run'[j][b] =
          IF j # i THEN run[j][b] ELSE IF b = a THEN "succeeded"
                  ELSE IF b \in Successor(k) /\ run[i][b] = "none"
                       THEN "pending" ELSE run[i][b]
    BY <1>1, <2>1
  <2>3. ASSUME ~shifted', NEW j \in Item, NEW p \in walk[j], NEW c \in Live,
               run'[j][c] # "none", rank[p[1]] < rank[c]
        PROVE  run'[j][p[1]] = "succeeded"
    <3>1. ~shifted /\ a \in Live /\ rank[a] = k
      BY <2>1, <2>3
    <3>2. CASE run[j][c] # "none"
      BY <1>1, <1>2, <2>3, <3>1, <3>2 DEF WalkedPast
    <3>3. CASE run[j][c] = "none"
      <4>1. j = i /\ (c = a \/ c \in Successor(k)) /\ c # a
        BY <1>1, <2>1, <2>2, <2>3, <3>3
      <4>2. ~(rank[p[1]] > k)
        BY <1>2, <1>3, <2>3, <4>1 DEF Successor
      <4>3. CASE p[1] = a
        BY <1>2, <2>2, <4>1, <4>3
      <4>4. CASE p[1] # a
        <5>1. rank[p[1]] < rank[a]
          <6>1. rank[p[1]] # rank[a] /\ p[1] \in Live
            BY <1>1, <1>2, <2>3, <3>1, <4>4 DEF Ranked, Live
          <6>2. rank[p[1]] \in Nat /\ rank[a] \in Nat
            BY <1>3, <3>1, <6>1
          <6> QED
            BY <3>1, <4>2, <6>1, <6>2
        <5>2. run[i][p[1]] = "succeeded"
          BY <2>1, <2>3, <3>1, <4>1, <5>1 DEF WalkedPast
        <5> QED
          BY <1>1, <1>2, <2>3, <4>1, <5>2
      <4> QED
        BY <4>3, <4>4
    <3> QED
      BY <3>2, <3>3
  <2>4. WalkedPast'
    BY <1>1, <2>1, <2>3 DEF WalkedPast
  <2>5. HeadFirst'
    BY <1>1, <2>1, <2>2 DEF HeadFirst
  <2> QED
    BY <2>4, <2>5
<1> QED
  BY <1>4, <1>5, <1>6, <1>7, <1>8 DEF ItemStep

LEMMA WalkedNext == Sound /\ WalkedPast /\ HeadFirst /\ [Next]_vars => WalkedPast' /\ HeadFirst'
<1> SUFFICES ASSUME Sound, WalkedPast, HeadFirst, [Next]_vars PROVE WalkedPast' /\ HeadFirst'
  OBVIOUS
<1>1. CASE UNCHANGED <<chainVars, itemVars, walk>>
  BY <1>1 DEF WalkedPast, HeadFirst, chainVars, itemVars, Live
<1>2. CASE LockExpires
  BY <1>1, <1>2 DEF LockExpires
<1> QED
  BY <1>1, <1>2, WalkedEdit, WalkedItem, StepKinds

(* README:123: an item has a run of an action only if the actions before   *)
(* it since the item came succeeded for it, unless an edit moved the       *)
(* action it was judged at (next_in_chain, from the rank that was loaded). *)
THEOREM FiltersGate == Spec => []GatesUnshifted
<1>1. Init => Sound /\ WalkedPast /\ HeadFirst
  BY SoundInit DEF Init, WalkedPast, HeadFirst
<1>2. Sound /\ WalkedPast => GatesUnshifted
  BY DEF Sound, TableSound, WalkedPast, GatesUnshifted, FilterGates, Pairs, Live
<1> QED
  BY <1>1, <1>2, SoundNext, WalkedNext, PTL DEF Spec

-----------------------------------------------------------------------------
(* The lock.                                                               *)

(* What is under the lock.                                                 *)
Inside == {"locked", "writes", "release"}

(* As long as no lock expired under an edit: who is inside holds the lock, *)
(* and what it has read is the chain.                                      *)
Excluded ==
  ~overlap => \A e \in Editor : /\ editor[e].pc \in Inside => lock = e
                                /\ editor[e].pc = "writes" => editor[e].read = rank

LEMMA EditSteps ==
  ASSUME Sound, NEW e \in Editor, Edit(e)
  PROVE  \E x : /\ editor' = [editor EXCEPT ![e] = x]
                /\ overlap' = overlap
                /\ x.pc \in Inside => \/ editor[e].pc \in Inside /\ lock' = lock
                                      \/ lock = Nobody /\ lock' = e
                /\ x.pc = "writes" => editor[e].pc \in Inside /\ x.read = rank /\ rank' = rank
                /\ rank' = rank \/ editor[e].pc = "writes"
                /\ lock' = lock \/ lock = Nobody \/ (lock = e /\ x.pc = "idle")
<1>1. /\ DOMAIN editor = Editor /\ DOMAIN editor[e] = EditorFields
      /\ "idle" \notin Inside /\ "asks" \notin Inside
  BY DEF Sound, RequestsSound, Inside
<1>2. CASE AsksAdd(e) \/ AsksRemove(e) \/ AsksReplace(e)
  <2>1. PICK x : Asks(e, x) /\ DOMAIN x = EditorFields
    BY <1>2, Requests DEF Sound
  <2> DEFINE y == [x EXCEPT !.pc = "asks"]
  <2>2. y.pc = "asks"
    BY <2>1 DEF EditorFields
  <2>3. editor' = [editor EXCEPT ![e] = y] /\ UNCHANGED <<overlap, lock, rank>>
    BY <2>1 DEF Asks
  <2> QED
    BY <1>1, <2>2, <2>3
<1>3. CASE TakesLock(e)
  <2>1. CASE MayEdit
    <3> DEFINE y == [editor[e] EXCEPT !.pc = "locked"]
    <3>1. editor' = [editor EXCEPT ![e] = y] /\ y.pc = "locked"
      BY <1>1, <1>3, <2>1 DEF TakesLock, EditorFields
    <3> HIDE DEF y
    <3> QED
      BY <1>3, <2>1, <3>1 DEF TakesLock, MayEdit, chainVars
  <2>2. CASE ~MayEdit
    <3>1. editor' = [editor EXCEPT ![e] = IdleEditor]
      BY <1>3, <2>2 DEF TakesLock
    <3> QED
      BY <1>1, <1>3, <2>2, <3>1, IdleFields DEF TakesLock, chainVars
  <2> QED
    BY <2>1, <2>2
<1>4. CASE Reads(e)
  <2> DEFINE y == [editor[e] EXCEPT !.pc = "writes", !.read = rank]
  <2>1. editor' = [editor EXCEPT ![e] = y] /\ y.pc = "writes" /\ y.read = rank
    BY <1>1, <1>4 DEF Reads, EditorFields
  <2>2. lock' = lock /\ rank' = rank /\ overlap' = overlap /\ editor[e].pc \in Inside
    BY <1>4 DEF Reads, HeldAcross, chainVars, Inside
  <2> HIDE DEF y
  <2> QED
    BY <2>1, <2>2
<1>5. CASE Refuses(e) \/ Writes(e) \/ Clashes(e)
  <2> DEFINE y == [IdleEditor EXCEPT !.pc = "release"]
  <2>1. editor' = [editor EXCEPT ![e] = y] /\ y.pc = "release"
    BY <1>5, IdleFields DEF Refuses, Writes, Clashes, Closes, EditorFields
  <2>2. editor[e].pc = "writes" /\ lock' = lock /\ overlap' = overlap
    BY <1>5 DEF Refuses, Writes, Clashes
  <2> HIDE DEF y
  <2> QED
    BY <2>1, <2>2 DEF Inside
<1>6. CASE Releases(e)
  <2>1. editor' = [editor EXCEPT ![e] = IdleEditor]
    BY <1>6 DEF Releases
  <2> QED
    BY <1>1, <1>6, <2>1, IdleFields DEF Releases, chainVars
<1> QED
  BY <1>2, <1>3, <1>4, <1>5, <1>6 DEF Edit

LEMMA ExcludedNext == Sound /\ Excluded /\ [Next]_vars => Excluded'
<1> SUFFICES ASSUME Sound, Excluded, [Next]_vars PROVE Excluded'
  OBVIOUS
<1>1. ASSUME NEW e \in Editor, Edit(e) PROVE Excluded'
  <2>1. PICK x : /\ editor' = [editor EXCEPT ![e] = x]
                 /\ overlap' = overlap
                 /\ x.pc \in Inside => \/ editor[e].pc \in Inside /\ lock' = lock
                                       \/ lock = Nobody /\ lock' = e
                 /\ x.pc = "writes" => editor[e].pc \in Inside /\ x.read = rank /\ rank' = rank
                 /\ rank' = rank \/ editor[e].pc = "writes"
                 /\ lock' = lock \/ lock = Nobody \/ (lock = e /\ x.pc = "idle")
    BY <1>1, EditSteps
  <2>2. DOMAIN editor = Editor /\ editor'[e] = x /\ "writes" \in Inside
    BY <2>1 DEF Sound, RequestsSound, Inside
  <2>3. ASSUME ~overlap, NEW d \in Editor \ {e}
        PROVE  /\ editor'[d].pc \in Inside => lock' = d
               /\ editor'[d].pc = "writes" => editor'[d].read = rank'
    <3>1. editor'[d] = editor[d] /\ d # Nobody
      BY <2>1, <2>2, ChainEditAssumption
    <3>2. editor[d].pc \in Inside => lock = d /\ editor[e].pc \notin Inside
      BY <2>3 DEF Excluded
    <3> QED
      BY <2>1, <2>2, <2>3, <3>1, <3>2 DEF Excluded
  <2>4. ASSUME ~overlap
        PROVE  /\ editor'[e].pc \in Inside => lock' = e
               /\ editor'[e].pc = "writes" => editor'[e].read = rank'
    BY <2>1, <2>2, <2>4 DEF Excluded
  <2> QED
    BY <2>1, <2>3, <2>4 DEF Excluded
<1>2. CASE LockExpires
  BY <1>2 DEF LockExpires, Excluded
<1>3. ASSUME UNCHANGED <<editVars, chainVars>> PROVE Excluded'
  BY <1>3 DEF editVars, chainVars, Excluded
<1>4. \/ \E e \in Editor : Edit(e)
      \/ LockExpires
      \/ UNCHANGED <<editVars, chainVars>>
  BY DEF Next, vars, editVars, chainVars, TriggerReads, TriggerEnds, TriggerEnqueues, Stops, Passes, Loads
<1> QED
  BY <1>1, <1>2, <1>3, <1>4

LEMMA ExcludedInit == Init => Excluded
BY IdleFields DEF Init, Excluded, Inside

(* What an edit has read stays the chain until it commits: named_lock, a   *)
(* cache key added once, keeps every other edit out (path_chain_lock).     *)
THEOREM EditsExclude == Spec => []ReadIsCurrent
<1>1. Excluded => ReadIsCurrent
  BY DEF Excluded, ReadIsCurrent
<1> QED
  BY <1>1, SoundInit, ExcludedInit, SoundNext, ExcludedNext, PTL DEF Spec

-----------------------------------------------------------------------------
(* What the lock is for.                                                   *)

(* While locks outlive their holders, an edit commits to the chain it has  *)
(* read.                                                                   *)
LEMMA CurrentWrite ==
  ASSUME Sound, Excluded, Dense, ~overlap, NEW e \in Editor,
         editor[e].pc = "writes", ~Refused(editor[e])
  PROVE  /\ editor[e].read = rank
         /\ Final(editor[e]) = Ordered(editor[e])
         /\ Ordered(editor[e]) \in Orders(DOMAIN Ordered(editor[e]))
         /\ editor[e].op # "replace" => SameOrder(rank, Ordered(editor[e]))
         /\ \A s \in Statements(editor[e]) : ~MayCollide(s[1], s[2])
<1>1. /\ WellPut(editor[e]) /\ editor[e].read = rank /\ rank \in Orders(Live)
      /\ editor[e].fresh \subseteq Action
  BY DEF Sound, RequestsSound, FreshIds, TableSound, Asking, Excluded, Dense
<1> QED
  BY <1>1, CurrentEdit, OrderedFacts

LEMMA DenseNext == Sound /\ Excluded /\ Dense /\ [Next]_vars => Dense'
<1> SUFFICES ASSUME Sound, Excluded, Dense, [Next]_vars, ~overlap' PROVE rank' \in Orders(Live')
  BY DEF Dense
<1>1. CASE rank' = rank /\ overlap' = overlap
  BY <1>1 DEF Dense, Live
<1>2. ASSUME NEW e \in Editor, Writes(e) PROVE rank' \in Orders(Live')
  <2>1. ~overlap /\ editor[e].pc = "writes" /\ ~Refused(editor[e]) /\ rank' = Final(editor[e])
    BY <1>2 DEF Writes
  <2>2. rank' = Ordered(editor[e]) /\ Ordered(editor[e]) \in Orders(DOMAIN Ordered(editor[e]))
    BY <2>1, CurrentWrite
  <2> QED
    BY <2>2 DEF Live
<1>3. ASSUME NEW e \in Editor, Edit(e), ~Writes(e) PROVE rank' = rank /\ overlap' = overlap
  <2>1. rank' = rank
    BY <1>3, EditMoves DEF Sound, Opens, GoesOn, Ends
  <2> QED
    BY <1>3, <2>1, EditSteps
<1>4. ItemStep => rank' = rank /\ overlap' = overlap
  BY ItemMoves DEF Sound, chainVars, editVars
<1> QED
  BY <1>1, <1>2, <1>3, <1>4, StepKinds DEF LockExpires, chainVars

(* Edits leave the ranks 0 .. N-1, whatever they are and whoever edits at  *)
(* once, as long as no lock expires under its holder (_renumber).          *)
THEOREM RanksStayDense == Spec => []DenseRanks
<1>1. Init => Dense
  BY ChainEditAssumption DEF Init, Dense, Live
<1>2. Sound /\ Dense => DenseRanks
  BY OrderFacts DEF Sound, TableSound, Dense, DenseRanks
<1> QED
  BY <1>1, <1>2, SoundInit, ExcludedInit, SoundNext, ExcludedNext, DenseNext, PTL DEF Spec

(* No statement of an edit meets the (path, rank) constraint: the parked   *)
(* rows are past the chain, the first pass is past both, and the second    *)
(* below the first (replace_chain, add, _renumber).                        *)
THEOREM StatementsKeepClear == Spec => []NeverCollides
<1>1. Init => Dense /\ NeverCollides
  BY ChainEditAssumption DEF Init, Dense, Live, NeverCollides
<1>2. Sound /\ Excluded /\ Dense /\ NeverCollides /\ [Next]_vars => NeverCollides'
  <2> SUFFICES ASSUME Sound, Excluded, Dense, ~clashed, [Next]_vars PROVE ~clashed'
    BY DEF NeverCollides
  <2>1. ASSUME NEW e \in Editor, Clashes(e) PROVE ~clashed'
    <3>1. editor[e].pc = "writes" /\ ~Refused(editor[e]) /\ clashed' = (clashed \/ ~overlap)
          /\ \E s \in Statements(editor[e]) : MayCollide(s[1], s[2])
      BY <2>1 DEF Clashes
    <3> QED
      BY <3>1, CurrentWrite
  <2>2. ASSUME NEW e \in Editor, Edit(e), ~Clashes(e) PROVE clashed' = clashed
    BY <2>2 DEF Edit, AsksAdd, AsksRemove, AsksReplace, Asks, TakesLock, Reads, Refuses, Writes, Releases
  <2>3. ItemStep => clashed' = clashed
    BY ItemMoves DEF Sound, editVars
  <2> QED
    BY <2>1, <2>2, <2>3, StepKinds DEF LockExpires
<1> QED
  BY <1>1, <1>2, SoundInit, ExcludedInit, SoundNext, ExcludedNext, DenseNext, PTL DEF Spec

(* An add or a remove leaves the other rows in their order: what it        *)
(* renumbers is the chain as it is (add, remove under path_chain_lock).    *)
THEOREM OrderIsKept == Spec => OthersKeepOrder
<1> DEFINE Kept == \/ overlap
                   \/ \E e \in Editor : editor[e].pc = "writes" /\ editor[e].op = "replace"
                   \/ SameOrder(rank, rank')
<1>1. Init => Dense
  BY ChainEditAssumption DEF Init, Dense, Live
<1>2. Sound /\ Excluded /\ Dense /\ [Next]_vars => [Kept]_vars
  <2> SUFFICES ASSUME Sound, Excluded, Dense, [Next]_vars PROVE Kept
    OBVIOUS
  <2>1. ASSUME NEW e \in Editor, Writes(e), ~overlap, editor[e].op # "replace"
        PROVE  SameOrder(rank, rank')
    <3>1. editor[e].pc = "writes" /\ ~Refused(editor[e]) /\ rank' = Final(editor[e])
      BY <2>1 DEF Writes
    <3> QED
      BY <2>1, <3>1, CurrentWrite
  <2>2. rank' = rank => SameOrder(rank, rank')
    BY DEF SameOrder
  <2>3. ASSUME NEW e \in Editor, Edit(e), ~Writes(e) PROVE rank' = rank
    BY <2>3, EditMoves DEF Sound, Opens, GoesOn, Ends
  <2>4. ItemStep \/ LockExpires => rank' = rank
    BY ItemMoves DEF Sound, chainVars, LockExpires
  <2>5. \A e \in Editor : Writes(e) => editor[e].pc = "writes"
    BY DEF Writes
  <2> QED
    BY <2>1, <2>2, <2>3, <2>4, <2>5, StepKinds DEF chainVars
<1>3. OthersKeepOrder <=> [][Kept]_vars
  BY PTL DEF OthersKeepOrder
<1> QED
  BY <1>1, <1>2, <1>3, SoundInit, ExcludedInit, SoundNext, ExcludedNext, DenseNext, PTL DEF Spec

-----------------------------------------------------------------------------
(* Types.                                                                  *)

(* The type of a request, and of what is not the editors'.                 *)
RequestTyped(x, U) ==
  /\ x.pc \in {"idle", "asks", "locked", "writes", "release"}
  /\ x.op \in Ops
  /\ x.fresh \cup x.gone \cup DOMAIN x.order \subseteq U
  /\ x.at \in 0 .. Cardinality(Action)
  /\ DOMAIN x.read \subseteq U

LEMMA IdleTyped ==
  \A U : RequestTyped(IdleEditor, U) /\ RequestTyped([IdleEditor EXCEPT !.pc = "release"], U)
<1>1. 0 \in 0 .. Cardinality(Action)
  BY ChainEditAssumption, FS_CardinalityType
<1>2. /\ IdleEditor.order = <<>> /\ IdleEditor.read = <<>> /\ IdleEditor.gone = {}
      /\ DOMAIN IdleEditor = EditorFields /\ DOMAIN <<>> = {}
  BY DEF IdleEditor, EditorFields
<1> DEFINE y == [IdleEditor EXCEPT !.pc = "release"]
<1>3. /\ y.pc = "release" /\ y.op = IdleEditor.op /\ y.fresh = IdleEditor.fresh /\ y.at = IdleEditor.at
      /\ y.order = IdleEditor.order /\ y.read = IdleEditor.read /\ y.gone = IdleEditor.gone
  BY <1>2 DEF EditorFields
<1> HIDE DEF y
<1>4. \A U : RequestTyped(IdleEditor, U) /\ RequestTyped(y, U)
  BY <1>1, <1>2, <1>3, IdleFields DEF RequestTyped, Ops
<1> QED
  BY <1>4 DEF y

(* What an edit leaves of its request.                                     *)
LEMMA EditTyped ==
  ASSUME Sound, NEW e \in Editor, Edit(e), RequestTyped(editor[e], used)
  PROVE  \E x : editor' = [editor EXCEPT ![e] = x] /\ RequestTyped(x, used')
<1>1. DOMAIN editor[e] = EditorFields /\ Live \subseteq used /\ used \subseteq Action
  BY DEF Sound, RequestsSound, TableSound
<1>2. /\ IdleEditor.order = <<>> /\ IdleEditor.read = <<>> /\ IdleEditor.gone = {}
      /\ DOMAIN IdleEditor = EditorFields /\ DOMAIN <<>> = {}
      /\ IdleEditor.fresh = {} /\ IdleEditor.at = 0 /\ 0 \in 0 .. Cardinality(Action)
  BY ChainEditAssumption, FS_CardinalityType DEF IdleEditor, EditorFields
<1>3. CASE AsksAdd(e)
  <2>1. PICK a \in Action \ used, k \in 0 .. Cardinality(Action) :
          Asks(e, [IdleEditor EXCEPT !.op = "add", !.fresh = {a}, !.at = k])
    BY <1>3 DEF AsksAdd
  <2> DEFINE x == [IdleEditor EXCEPT !.op = "add", !.fresh = {a}, !.at = k]
             y == [x EXCEPT !.pc = "asks"]
  <2>2. /\ y.pc = "asks" /\ y.op = "add" /\ y.fresh = {a} /\ y.at = k
        /\ y.gone = {} /\ y.order = <<>> /\ y.read = <<>> /\ x.fresh = {a}
    BY <1>2 DEF EditorFields
  <2>3. editor' = [editor EXCEPT ![e] = y] /\ used' = used \cup {a}
    BY <2>1, <2>2 DEF Asks
  <2> HIDE DEF y
  <2>4. RequestTyped(y, used')
    BY <1>2, <2>2, <2>3 DEF RequestTyped, Ops
  <2> QED
    BY <2>3, <2>4
<1>4. CASE AsksRemove(e)
  <2>1. PICK a \in Live : Asks(e, [IdleEditor EXCEPT !.op = "remove", !.gone = {a}])
    BY <1>4 DEF AsksRemove
  <2> DEFINE x == [IdleEditor EXCEPT !.op = "remove", !.gone = {a}]
             y == [x EXCEPT !.pc = "asks"]
  <2>2. /\ y.pc = "asks" /\ y.op = "remove" /\ y.fresh = {} /\ y.at = 0
        /\ y.gone = {a} /\ y.order = <<>> /\ y.read = <<>> /\ x.fresh = {}
    BY <1>2 DEF EditorFields
  <2>3. editor' = [editor EXCEPT ![e] = y] /\ used' = used
    BY <2>1, <2>2 DEF Asks
  <2> HIDE DEF y
  <2>4. RequestTyped(y, used')
    BY <1>1, <1>2, <2>2, <2>3 DEF RequestTyped, Ops
  <2> QED
    BY <2>3, <2>4
<1>5. CASE AsksReplace(e)
  <2>1. PICK S \in SUBSET Live, T \in SUBSET (Action \ used) :
          \E order \in Orders(S \cup T) :
            Asks(e, [IdleEditor EXCEPT !.op = "replace", !.fresh = T, !.order = order])
    BY <1>5 DEF AsksReplace
  <2>2. PICK order \in Orders(S \cup T) :
          Asks(e, [IdleEditor EXCEPT !.op = "replace", !.fresh = T, !.order = order])
    BY <2>1
  <2> DEFINE x == [IdleEditor EXCEPT !.op = "replace", !.fresh = T, !.order = order]
             y == [x EXCEPT !.pc = "asks"]
  <2>3. /\ y.pc = "asks" /\ y.op = "replace" /\ y.fresh = T /\ y.at = 0
        /\ y.gone = {} /\ y.order = order /\ y.read = <<>> /\ x.fresh = T
    BY <1>2 DEF EditorFields
  <2>4. editor' = [editor EXCEPT ![e] = y] /\ used' = used \cup T
    BY <2>2, <2>3 DEF Asks
  <2>5. S \cup T \subseteq Action
    BY <1>1
  <2>6. DOMAIN order = S \cup T
    BY <2>5, OrderFacts
  <2> HIDE DEF y
  <2>7. RequestTyped(y, used')
    BY <1>1, <1>2, <2>3, <2>4, <2>6 DEF RequestTyped, Ops
  <2> QED
    BY <2>4, <2>7
<1>6. CASE TakesLock(e)
  <2>1. CASE MayEdit
    <3> DEFINE y == [editor[e] EXCEPT !.pc = "locked"]
    <3>1. /\ y.pc = "locked" /\ y.op = editor[e].op /\ y.fresh = editor[e].fresh
          /\ y.at = editor[e].at /\ y.gone = editor[e].gone /\ y.order = editor[e].order
          /\ y.read = editor[e].read
      BY <1>1 DEF EditorFields
    <3>2. editor' = [editor EXCEPT ![e] = y] /\ used' = used
      BY <1>6, <2>1 DEF TakesLock, chainVars
    <3> HIDE DEF y
    <3> QED
      BY <3>1, <3>2 DEF RequestTyped
  <2>2. CASE ~MayEdit
    BY <1>6, <2>2, IdleTyped DEF TakesLock
  <2> QED
    BY <2>1, <2>2
<1>7. CASE Reads(e)
  <2> DEFINE y == [editor[e] EXCEPT !.pc = "writes", !.read = rank]
  <2>1. /\ y.pc = "writes" /\ y.op = editor[e].op /\ y.fresh = editor[e].fresh
        /\ y.at = editor[e].at /\ y.gone = editor[e].gone /\ y.order = editor[e].order
        /\ y.read = rank
    BY <1>1 DEF EditorFields
  <2>2. editor' = [editor EXCEPT ![e] = y] /\ used' = used
    BY <1>7 DEF Reads, chainVars
  <2> HIDE DEF y
  <2> QED
    BY <1>1, <2>1, <2>2 DEF RequestTyped, Live
<1>8. CASE Refuses(e) \/ Writes(e) \/ Clashes(e)
  BY <1>8, IdleTyped DEF Refuses, Writes, Clashes, Closes
<1>9. CASE Releases(e)
  BY <1>9, IdleTyped DEF Releases
<1> QED
  BY <1>3, <1>4, <1>5, <1>6, <1>7, <1>8, <1>9 DEF Edit

(* A table in chain ranks stays in them: what an edit does not move keeps  *)
(* its rank.                                                               *)
LEMMA RanksBounded ==
  ASSUME Sound, \A a \in Live : rank[a] \in Ranks, NEW e \in Editor, Writes(e)
  PROVE  \A a \in Live' : rank'[a] \in Ranks
<1> DEFINE x == editor[e]
           D == DOMAIN Ordered(x)
<1>1. /\ rank' = Final(x) /\ x.pc = "writes" /\ WellPut(x) /\ ~Refused(x)
      /\ x.fresh \subseteq Action
  BY CommitFacts DEF Sound, TableSound
<1>2. Ordered(x) \in Orders(D) /\ D \subseteq Action /\ x.fresh \subseteq D
  BY <1>1, OrderedFacts
<1>3. \A a \in D : Ordered(x)[a] \in 0 .. Cardinality(D) - 1
  BY <1>2, OrderFacts
<1>4. /\ Cardinality(D) <= Cardinality(Action)
      /\ Cardinality(D) \in Nat /\ Cardinality(Action) \in Nat
  BY <1>2, ChainEditAssumption, FS_Subset, FS_CardinalityType
<1>5. \A a \in D : Ordered(x)[a] \in Ranks
  BY <1>3, <1>4 DEF Ranks
<1>6. DOMAIN Final(x) = (Live \ Dropped(x)) \cup x.fresh
  BY DEF Final, Written, Grown
<1>7. \A a \in DOMAIN Final(x) : Final(x)[a] = IF a \in D THEN Ordered(x)[a] ELSE rank[a]
  BY <1>2 DEF Final, Written, Grown
<1>8. \A a \in DOMAIN Final(x) : a \in D \/ a \in Live
  BY <1>2, <1>6
<1> QED
  BY <1>1, <1>5, <1>7, <1>8 DEF Live

(* Every value has its type; a committed rank is that of a place in a      *)
(* chain, locked edits or not: parked and lifted ranks never stay.         *)
THEOREM TypeCorrect == Spec => []TypeOK
<1>1. Init => TypeOK
  <2> SUFFICES ASSUME Init PROVE TypeOK
    OBVIOUS
  <2>1. Ranked(rank) /\ \A a \in Live : rank[a] \in Ranks
    <3>1. /\ rank \in Orders(Live) /\ Live \subseteq Action
      BY ChainEditAssumption DEF Init, Live
    <3>2. /\ Cardinality(Live) <= Cardinality(Action)
          /\ Cardinality(Live) \in Nat /\ Cardinality(Action) \in Nat
      BY <3>1, ChainEditAssumption, FS_Subset, FS_CardinalityType
    <3> QED
      BY <3>1, <3>2, OrderFacts DEF Ranks
  <2>2. \A e \in Editor : RequestTyped(editor[e], used)
    BY IdleTyped DEF Init
  <2>3. /\ edits \in 0 .. MaxEdits /\ lapses \in 0 .. MaxLapses
        /\ used \subseteq Action /\ Live \subseteq used
    BY ChainEditAssumption DEF Init, Live
  <2>4. /\ run \in [Item -> [Action -> {"none", "pending", "running", "succeeded", "stopped"}]]
        /\ judge \in [Item -> {NoJudge} \cup Action \X Ranks]
        /\ walk \in [Item -> SUBSET (Action \X Action)]
    BY DEF Init
  <2>5. /\ lock \in Editor \cup {Nobody} /\ head \subseteq used
        /\ shifted \in BOOLEAN /\ overlap \in BOOLEAN /\ clashed \in BOOLEAN
    BY DEF Init
  <2> QED
    BY <2>1, <2>2, <2>3, <2>4, <2>5 DEF TypeOK, RequestTyped
<1>2. Sound /\ TypeOK /\ [Next]_vars => TypeOK'
  <2> SUFFICES ASSUME Sound, TypeOK, [Next]_vars PROVE TypeOK'
    OBVIOUS
  <2>1. Sound'
    BY SoundNext
  <2>2. used' \subseteq Action /\ Live' \subseteq used' /\ head' \subseteq used'
    BY <2>1 DEF Sound, TableSound
  <2>3. ASSUME NEW e \in Editor, Edit(e) PROVE TypeOK'
    <3>1. PICK x : editor' = [editor EXCEPT ![e] = x] /\ RequestTyped(x, used')
      BY <2>3, EditTyped DEF TypeOK, RequestTyped
    <3>2. DOMAIN editor = Editor /\ used \subseteq used'
      BY <2>3, EditMoves DEF Sound, RequestsSound, Opens, GoesOn, Ends
    <3>3. \A d \in Editor : RequestTyped(editor'[d], used')
      BY <3>1, <3>2 DEF TypeOK, RequestTyped
    <3>4. \A a \in Live' : rank'[a] \in Ranks
      BY <2>3, EditMoves, RanksBounded DEF Sound, Opens, GoesOn, Ends, TypeOK, Live
    <3>5. lock' \in Editor \cup {Nobody} /\ edits' \in 0 .. MaxEdits /\ lapses' = lapses
      <4>1. \/ lock' = lock \/ lock' = e \/ lock' = Nobody
        BY <2>3 DEF Edit, AsksAdd, AsksRemove, AsksReplace, Asks, TakesLock, Reads, Refuses,
             Writes, Clashes, Releases, HeldAcross
      <4>2. edits' = edits \/ (edits < MaxEdits /\ edits' = edits + 1)
        BY <2>3 DEF Edit, AsksAdd, AsksRemove, AsksReplace, Asks, TakesLock, Reads, Refuses,
             Writes, Clashes, Releases
      <4>3. lapses' = lapses
        BY <2>3 DEF Edit, AsksAdd, AsksRemove, AsksReplace, Asks, TakesLock, Reads, Refuses,
             Writes, Clashes, Releases
      <4>4. lock \in Editor \cup {Nobody} /\ edits \in 0 .. MaxEdits
        BY DEF TypeOK
      <4> QED
        BY <4>1, <4>2, <4>3, <4>4, ChainEditAssumption
    <3>6. overlap' = overlap /\ clashed' \in BOOLEAN
      BY <2>3 DEF Edit, AsksAdd, AsksRemove, AsksReplace, Asks, TakesLock, Reads, Refuses, Writes,
             Clashes, Releases, TypeOK
    <3>7. walk' \in [Item -> SUBSET (Action \X Action)]
      <4>1. CASE walk' = walk
        BY <4>1 DEF TypeOK
      <4>2. CASE Writes(e)
        <5>1. walk' = [i \in Item |-> walk'[i]] /\ \A i \in Item : walk'[i] \subseteq walk[i]
          BY <4>2 DEF Writes
        <5> QED
          BY <5>1 DEF TypeOK
      <4> QED
        BY <2>3, <4>1, <4>2, EditMoves DEF Sound, Opens, GoesOn, Ends
    <3>8. UNCHANGED itemVars
      BY <2>3, EditMoves DEF Sound
    <3> QED
      BY <2>2, <3>3, <3>4, <3>5, <3>6, <3>7, <3>8 DEF TypeOK, RequestTyped, itemVars
  <2>4. CASE LockExpires
    BY <2>4, ChainEditAssumption DEF LockExpires, TypeOK, chainVars, itemVars, Live
  <2>5. CASE ItemStep
    <3>1. UNCHANGED <<chainVars, editVars>> /\ Live' = Live
      BY <2>5, ItemMoves DEF Sound, chainVars, Live
    <3>2. /\ run' \in [Item -> [Action -> {"none", "pending", "running", "succeeded", "stopped"}]]
          /\ shifted' \in BOOLEAN
      <4> DEFINE States == {"none", "pending", "running", "succeeded", "stopped"}
      <4>1. run \in [Item -> [Action -> States]] /\ shifted \in BOOLEAN
        BY DEF TypeOK
      <4>2. CASE TriggerReads \/ TriggerEnds
        BY <4>1, <4>2 DEF TriggerReads, TriggerEnds
      <4>3. ASSUME NEW i \in Item, TriggerEnqueues(i) \/ Stops(i) \/ \E a \in Action : Loads(i, a)
            PROVE  run' \in [Item -> [Action -> States]] /\ shifted' \in BOOLEAN
        BY <4>1, <4>3 DEF TriggerEnqueues, Stops, Loads
      <4>4. ASSUME NEW i \in Item, Passes(i)
            PROVE  run' \in [Item -> [Action -> States]] /\ shifted' \in BOOLEAN
        <5>1. run' = [run EXCEPT ![i] = [b \in Action |-> run'[i][b]]]
          BY <4>1, <4>4 DEF Passes
        <5>2. \A b \in Action : run'[i][b] \in States
          BY <4>1, <4>4 DEF Passes
        <5> QED
          BY <4>1, <4>4, <5>1, <5>2 DEF Passes
      <4> QED
        BY <2>5, <4>2, <4>3, <4>4 DEF ItemStep
    <3>3. judge' \in [Item -> {NoJudge} \cup Action \X Ranks]
      BY <2>5 DEF ItemStep, TriggerReads, TriggerEnds, TriggerEnqueues, Stops, Passes, Loads, TypeOK
    <3>4. walk' \in [Item -> SUBSET (Action \X Action)]
      <4>1. Pairs(rank) \subseteq Action \X Action
        BY DEF TypeOK, Pairs, Live
      <4> QED
        BY <2>5, <4>1 DEF ItemStep, TriggerReads, TriggerEnds, TriggerEnqueues, Stops, Passes, Loads, TypeOK
    <3> QED
      BY <2>2, <3>1, <3>2, <3>3, <3>4 DEF TypeOK, chainVars, editVars
  <2>6. CASE UNCHANGED vars
    BY <2>6 DEF TypeOK, vars, Live
  <2> QED
    BY <2>3, <2>4, <2>5, <2>6 DEF Next, ItemStep
<1> QED
  BY <1>1, <1>2, SoundInit, SoundNext, PTL DEF Spec
=============================================================================
