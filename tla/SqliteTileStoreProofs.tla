------------------------- MODULE SqliteTileStoreProofs -------------------------
(***************************************************************************)
(* Proofs about SqliteTileStore, for any tiles, extensions, sizes and      *)
(* storage databases, with failures and restarts: every row can be         *)
(* reached, get_tile() returns what was stored last or, after a failure,   *)
(* what was there before or was to be there, and no database grows past    *)
(* its limit; each as far as pending changes allow.                        *)
(***************************************************************************)
EXTENDS SqliteTileStore, FiniteSetTheorems, WellFoundedInduction, TLAPS

USE StoreAssumption

Data == Sizes \cup {NoData}
Rows == [Databases -> [Tiles -> [Extensions -> Data]]]

\* A non-empty set of numbers has a first one.
LEMMA FirstIsIn ==
    ASSUME NEW S \in SUBSET Nat, S # {}
    PROVE  First(S) \in S
  <1>1. PICK x \in S : \A y \in S : ~(<<y, x>> \in OpToRel(<, Nat))
    BY WFMin, NatLessThanWellFounded
  <1>2. \A y \in S : x <= y
    <2> SUFFICES ASSUME NEW y \in S, ~(x <= y) PROVE FALSE
      OBVIOUS
    <2>1. x \in Nat /\ y \in Nat /\ y < x
      OBVIOUS
    <2>2. <<y, x>> \in OpToRel(<, Nat)
      BY <2>1 DEF OpToRel
    <2> QED
      BY <1>1, <2>2
  <1> QED
    BY <1>1, <1>2 DEF First

LEMMA Apart == NoDatabase \notin Databases /\ NoData \notin Sizes
  BY DEF NoDatabase, NoData

-----------------------------------------------------------------------------
(* What the statements do to the rows.                                     *)

\* One row is new, the others are as they were.
OneRowSet(d, t, e, s) ==
    /\ rows' \in Rows
    /\ \A b \in Databases, u \in Tiles, x \in Extensions :
          rows'[b][u][x] = IF b = d /\ u = t /\ x = e THEN s ELSE rows[b][u][x]

LEMMA RowSet ==
    ASSUME rows \in Rows, NEW d \in Databases, NEW t \in Tiles, NEW e \in Extensions,
           NEW s \in Data, SetRow(d, t, e, s)
    PROVE  OneRowSet(d, t, e, s)
  <1>1. rows' = [rows EXCEPT ![d][t][e] = s]
    BY DEF SetRow
  <1> QED
    BY <1>1 DEF Rows, OneRowSet

LEMMA RowsCleared ==
    ASSUME rows \in Rows, NEW d \in Databases, NEW t \in Tiles, ClearRows(d, t)
    PROVE  /\ rows' \in Rows
           /\ \A b \in Databases, u \in Tiles, x \in Extensions :
                 rows'[b][u][x] = IF b = d /\ u = t THEN NoData ELSE rows[b][u][x]
  <1>1. [x \in Extensions |-> NoData] \in [Extensions -> Data]
    BY DEF Data
  <1>2. rows' = [rows EXCEPT ![d][t] = [x \in Extensions |-> NoData]]
    BY DEF ClearRows
  <1> QED
    BY <1>1, <1>2 DEF Rows

-----------------------------------------------------------------------------
(* The rows of a storage database and the size of its file.                *)

Keys == Tiles \X Extensions
Size(r, k) == r[k[1]][k[2]]
SizesOf == [Tiles -> [Extensions -> Nat]]

\* The sum that Used() is, by the recursion of MapThenSumSet().
Pick(s) == CHOOSE k \in s : TRUE
IsSum(f, r, S) ==
    f = [s \in SUBSET S |-> IF s = {} THEN 0 ELSE Size(r, Pick(s)) + f[s \ {Pick(s)}]]

LEMMA UsedIsSum ==
    ASSUME NEW r
    PROVE  Used(r) = (CHOOSE f : IsSum(f, r, Keys))[Keys]
  BY DEF Used, MapThenSumSet, MapThenFoldSet, IsSum, Size, Pick, Keys

\* Among sets of keys there is one that is not larger than another: induction on
\* the sets of keys, for what is true or false of a set.
LEMMA SmallestKeys ==
    ASSUME NEW T \in SUBSET (SUBSET Keys), T # {}
    PROVE  \E s \in T : \A u \in T : u \subseteq s => u = s
  <1>1. IsFiniteSet(Keys)
    BY FS_Product DEF Keys
  <1>2. IsWellFoundedOn(StrictSubsetOrdering(Keys), SUBSET Keys)
    BY <1>1, FS_StrictSubsetOrderingWellFounded, FS_FiniteSubsetsOfFinite
  <1>3. PICK s \in T : \A u \in T : ~(<<u, s>> \in StrictSubsetOrdering(Keys))
    BY <1>2, WFMin
  <1> QED
    BY <1>3 DEF StrictSubsetOrdering

LEMMA SumOfNone ==
    ASSUME NEW r, NEW S, NEW f, IsSum(f, r, S)
    PROVE  f[{}] = 0
  BY DEF IsSum

LEMMA SumUnfolds ==
    ASSUME NEW r, NEW S, NEW f, IsSum(f, r, S), NEW s \in SUBSET S, s # {}
    PROVE  /\ Pick(s) \in s
           /\ s \ {Pick(s)} \in SUBSET S
           /\ f[s] = Size(r, Pick(s)) + f[s \ {Pick(s)}]
  <1>1. Pick(s) \in s
    BY DEF Pick
  <1>2. f[s] = IF s = {} THEN 0 ELSE Size(r, Pick(s)) + f[s \ {Pick(s)}]
    BY DEF IsSum
  <1> QED
    BY <1>1, <1>2

\* Two such sums agree where both are defined.
LEMMA SumIsUnique ==
    ASSUME NEW r, NEW S \in SUBSET Keys, NEW R \in SUBSET Keys,
           NEW f, IsSum(f, r, S), NEW g, IsSum(g, r, R),
           NEW s \in SUBSET (S \cap R)
    PROVE  f[s] = g[s]
  <1> DEFINE T == {u \in SUBSET (S \cap R) : f[u] # g[u]}
  <1> SUFFICES ASSUME T # {} PROVE FALSE
    OBVIOUS
  <1>1. T \in SUBSET (SUBSET Keys)
    OBVIOUS
  <1> HIDE DEF T
  <1>2. PICK u \in T : \A v \in T : v \subseteq u => v = u
    BY <1>1, SmallestKeys
  <1> USE DEF T
  <1>3. u \in SUBSET S /\ u \in SUBSET R /\ f[u] # g[u]
    BY <1>2
  <1>4. u # {}
    <2>1. f[{}] = 0 /\ g[{}] = 0
      BY SumOfNone
    <2> QED
      BY <1>3, <2>1
  <1>5. /\ Pick(u) \in u
        /\ f[u] = Size(r, Pick(u)) + f[u \ {Pick(u)}]
        /\ g[u] = Size(r, Pick(u)) + g[u \ {Pick(u)}]
    BY <1>3, <1>4, SumUnfolds
  <1>6. u \ {Pick(u)} \notin T
    BY <1>2, <1>5
  <1>7. f[u \ {Pick(u)}] = g[u \ {Pick(u)}]
    BY <1>3, <1>6
  <1> QED
    BY <1>3, <1>5, <1>7

\* There is such a sum: the recursion ends.
LEMMA SumExists ==
    ASSUME NEW r
    PROVE  \E f : IsSum(f, r, Keys)
  <1> DEFINE T == {u \in SUBSET Keys : ~ \E f : IsSum(f, r, u)}
  <1> SUFFICES ASSUME T # {} PROVE FALSE
    OBVIOUS
  <1>1. T \in SUBSET (SUBSET Keys)
    OBVIOUS
  <1> HIDE DEF T
  <1>2. PICK u \in T : \A v \in T : v \subseteq u => v = u
    BY <1>1, SmallestKeys
  <1>3. u \in SUBSET Keys /\ ~ \E f : IsSum(f, r, u)
    BY <1>2 DEF T
  <1> DEFINE g(v) == CHOOSE f : IsSum(f, r, v)
             Last == Size(r, Pick(u)) + g(u \ {Pick(u)})[u \ {Pick(u)}]
             F == [v \in SUBSET u |-> IF v # u THEN g(v)[v] ELSE IF u = {} THEN 0 ELSE Last]
  <1>4. ASSUME NEW v \in SUBSET u, v # u
        PROVE  IsSum(g(v), r, v)
    <2>1. \E f : IsSum(f, r, v)
      BY <1>2, <1>3, <1>4 DEF T
    <2> QED
      BY <2>1
  <1>5. u # {} => Pick(u) \in u
    BY DEF Pick
  <1>6. ASSUME NEW v \in SUBSET u
        PROVE  F[v] = IF v = {} THEN 0 ELSE Size(r, Pick(v)) + F[v \ {Pick(v)}]
    <2>1. CASE v = u
      BY <1>5, <2>1
    <2>2. CASE v # u /\ v = {}
      <3>1. g(v)[v] = 0
        <4>1. IsSum(g(v), r, v)
          BY <1>4, <2>2
        <4>2. g(v)[{}] = 0
          BY <4>1, SumOfNone
        <4> QED
          BY <2>2, <4>2
      <3> QED
        BY <2>2, <3>1
    <2>3. CASE v # u /\ v # {}
      <3> DEFINE w == v \ {Pick(v)}
      <3>1. Pick(v) \in v /\ g(v)[v] = Size(r, Pick(v)) + g(v)[w]
        BY <1>4, <2>3, SumUnfolds
      <3>2. w \in SUBSET u /\ w # u /\ w \in SUBSET (v \cap w)
        BY <2>3, <3>1
      <3>3. g(v)[w] = g(w)[w]
        <4>1. IsSum(g(v), r, v) /\ IsSum(g(w), r, w)
          BY <1>4, <2>3, <3>2
        <4>2. v \in SUBSET Keys /\ w \in SUBSET Keys
          BY <1>3
        <4> HIDE DEF g, w
        <4> QED
          BY <3>2, <4>1, <4>2, SumIsUnique
      <3>4. F[v] = g(v)[v] /\ F[w] = g(w)[w]
        BY <2>3, <3>2
      <3> QED
        BY <2>3, <3>1, <3>3, <3>4
    <2> QED
      BY <2>1, <2>2, <2>3
  <1>7. IsSum(F, r, u)
    <2>1. F = [v \in SUBSET u |-> F[v]]
      OBVIOUS
    <2> HIDE DEF F
    <2> QED
      BY <1>6, <2>1 DEF IsSum
  <1> QED
    BY <1>3, <1>7

LEMMA KeyParts ==
    ASSUME NEW x \in Keys
    PROVE  x[1] \in Tiles /\ x[2] \in Extensions /\ x = <<x[1], x[2]>>
  BY DEF Keys

\* Where no size but that of key k grows, no sum grows by more than that.
LEMMA SumBound ==
    ASSUME NEW r \in SizesOf, NEW r2 \in SizesOf, NEW k \in Keys,
           \A x \in Keys \ {k} : Size(r2, x) <= Size(r, x),
           NEW f, IsSum(f, r, Keys), NEW g, IsSum(g, r2, Keys),
           NEW s \in SUBSET Keys
    PROVE  /\ f[s] \in Nat /\ g[s] \in Nat
           /\ g[s] <= f[s] + Size(r2, k)
           /\ k \notin s => g[s] <= f[s]
  <1> DEFINE Good(u) == /\ f[u] \in Nat /\ g[u] \in Nat
                        /\ g[u] <= f[u] + Size(r2, k)
                        /\ k \notin u => g[u] <= f[u]
             T == {u \in SUBSET Keys : ~Good(u)}
  <1>0. \A x \in Keys : Size(r, x) \in Nat /\ Size(r2, x) \in Nat
    <2> SUFFICES ASSUME NEW x \in Keys
                 PROVE  Size(r, x) \in Nat /\ Size(r2, x) \in Nat
      OBVIOUS
    <2>1. x[1] \in Tiles /\ x[2] \in Extensions
      BY DEF Keys
    <2>2. r[x[1]] \in [Extensions -> Nat] /\ r2[x[1]] \in [Extensions -> Nat]
      BY <2>1 DEF SizesOf
    <2> QED
      BY <2>1, <2>2 DEF Size
  <1> SUFFICES ASSUME T # {} PROVE FALSE
    OBVIOUS
  <1>1. T \in SUBSET (SUBSET Keys)
    OBVIOUS
  <1> HIDE DEF T
  <1>2. PICK u \in T : \A v \in T : v \subseteq u => v = u
    BY <1>1, SmallestKeys
  <1>3. u \in SUBSET Keys /\ ~Good(u)
    BY <1>2 DEF T
  <1>4. u # {}
    <2>1. f[{}] = 0 /\ g[{}] = 0
      BY SumOfNone
    <2>2. Size(r2, k) \in Nat
      BY <1>0
    <2>3. Good({})
      <3> HIDE DEF Size
      <3> QED
        BY <2>1, <2>2
    <2> HIDE DEF Good
    <2> QED
      BY <1>3, <2>3
  <1> DEFINE x == Pick(u)
             v == u \ {x}
  <1>5. /\ x \in u /\ v \in SUBSET Keys
        /\ f[u] = Size(r, x) + f[v]
        /\ g[u] = Size(r2, x) + g[v]
    BY <1>3, <1>4, SumUnfolds
  <1>6. v # u /\ v \subseteq u
    BY <1>5
  <1>7. Good(v)
    BY <1>2, <1>5, <1>6 DEF T
  <1>8. /\ x \in Keys /\ Size(r, x) \in Nat /\ Size(r2, x) \in Nat /\ Size(r2, k) \in Nat
        /\ x # k => Size(r2, x) <= Size(r, x)
        /\ x = k => k \notin v
        /\ k \notin u => k \notin v /\ x # k
    BY <1>0, <1>3, <1>5
  <1> HIDE DEF x, v
  <1>9. Good(u)
    <2>1. CASE x = k
      BY <1>5, <1>7, <1>8, <2>1
    <2>2. CASE x # k
      BY <1>5, <1>7, <1>8, <2>2
    <2> QED
      BY <2>1, <2>2
  <1> QED
    BY <1>3, <1>9

\* What the rows use grows by no more than the size of a row that is written.
LEMMA UsedBound ==
    ASSUME NEW r \in SizesOf, NEW r2 \in SizesOf, NEW k \in Keys,
           \A x \in Keys \ {k} : Size(r2, x) <= Size(r, x)
    PROVE  /\ Used(r) \in Nat /\ Used(r2) \in Nat
           /\ Used(r2) <= Used(r) + Size(r2, k)
  <1>1. PICK f : f = CHOOSE h : IsSum(h, r, Keys)
    OBVIOUS
  <1>2. PICK g : g = CHOOSE h : IsSum(h, r2, Keys)
    OBVIOUS
  <1>3. IsSum(f, r, Keys) /\ IsSum(g, r2, Keys)
    BY <1>1, <1>2, SumExists
  <1>4. Used(r) = f[Keys] /\ Used(r2) = g[Keys]
    BY <1>1, <1>2, UsedIsSum
  <1> QED
    BY <1>3, <1>4, SumBound

\* Rows without data use nothing.
LEMMA NothingUsed ==
    ASSUME NEW r, \A x \in Keys : Size(r, x) = 0
    PROVE  Used(r) = 0
  <1>1. PICK f : f = CHOOSE h : IsSum(h, r, Keys)
    OBVIOUS
  <1>2. IsSum(f, r, Keys) /\ Used(r) = f[Keys]
    BY <1>1, SumExists, UsedIsSum
  <1> DEFINE T == {u \in SUBSET Keys : f[u] # 0}
  <1> SUFFICES ASSUME T # {} PROVE FALSE
    BY <1>2
  <1>3. T \in SUBSET (SUBSET Keys)
    OBVIOUS
  <1> HIDE DEF T
  <1>4. PICK u \in T : \A v \in T : v \subseteq u => v = u
    BY <1>3, SmallestKeys
  <1>5. u \in SUBSET Keys /\ f[u] # 0
    BY <1>4 DEF T
  <1>6. u # {}
    BY <1>2, <1>5, SumOfNone
  <1>7. /\ Pick(u) \in u /\ u \ {Pick(u)} \in SUBSET Keys
        /\ f[u] = Size(r, Pick(u)) + f[u \ {Pick(u)}]
    BY <1>2, <1>5, <1>6, SumUnfolds
  <1>8. f[u \ {Pick(u)}] = 0
    BY <1>4, <1>7 DEF T
  <1> QED
    BY <1>5, <1>7, <1>8

\* The rows of a database are sizes.
LEMMA RowsAreSizes ==
    ASSUME NEW R \in Rows, NEW d \in Databases
    PROVE  R[d] \in SizesOf
  <1>1. Data \subseteq Nat
    BY DEF Data, NoData
  <1>2. R[d] \in [Tiles -> [Extensions -> Data]]
    BY DEF Rows
  <1> QED
    BY <1>1, <1>2 DEF SizesOf

\* Unchanged rows use what they used.
LEMMA UsedIsNat ==
    ASSUME NEW R \in Rows, NEW d \in Databases
    PROVE  Used(R[d]) \in Nat
  <1>1. R[d] \in SizesOf
    BY RowsAreSizes
  <1>2. PICK t \in Tiles, e \in Extensions : TRUE
    OBVIOUS
  <1>3. ASSUME NEW x \in Keys \ {<<t, e>>}
        PROVE  Size(R[d], x) <= Size(R[d], x)
    <2>1. x[1] \in Tiles /\ x[2] \in Extensions
      BY KeyParts
    <2>2. R[d][x[1]][x[2]] \in Nat
      BY <1>1, <2>1, ZenonT(60) DEF SizesOf
    <2> QED
      BY <2>2 DEF Size
  <1>4. <<t, e>> \in Keys
    BY DEF Keys
  <1> QED
    BY <1>1, <1>3, <1>4, UsedBound

LEMMA MaxOfTwo ==
    ASSUME NEW m \in Nat, NEW n \in Nat
    PROVE  /\ Max({m, n}) \in {m, n}
           /\ Max({m, n}) \in Nat /\ m <= Max({m, n}) /\ n <= Max({m, n})
  <1>1. \E x \in {m, n} : \A y \in {m, n} : x >= y
    OBVIOUS
  <1>2. Max({m, n}) \in {m, n} /\ \A y \in {m, n} : Max({m, n}) >= y
    BY <1>1 DEF Max
  <1> QED
    BY <1>2

\* What a commit saves, and how the file grows.
LEMMA Committed ==
    ASSUME rowsSaved \in Rows, rows' \in Rows, fileSize \in [Databases -> Nat],
           NEW d \in Databases, CommitStore(d)
    PROVE  /\ rowsSaved' \in Rows
           /\ \A b \in Databases : rowsSaved'[b] = IF b = d THEN rows'[b] ELSE rowsSaved[b]
           /\ fileSize' \in [Databases -> Nat]
           /\ \A b \in Databases : b # d => fileSize'[b] = fileSize[b]
           /\ fileSize'[d] \in {fileSize[d], Used(rows'[d])}
           /\ fileSize[d] <= fileSize'[d]
           /\ Used(rows'[d]) <= fileSize'[d]
  <1>1. Used(rows'[d]) \in Nat /\ fileSize[d] \in Nat
    BY UsedIsNat
  <1> DEFINE m == Max({fileSize[d], Used(rows'[d])})
  <1>2. /\ m \in {fileSize[d], Used(rows'[d])} /\ m \in Nat
        /\ fileSize[d] <= m /\ Used(rows'[d]) <= m
    BY <1>1, MaxOfTwo
  <1>3. fileSize' = [fileSize EXCEPT ![d] = m]
    BY DEF CommitStore
  <1> HIDE DEF m
  <1>4. rowsSaved' = [rowsSaved EXCEPT ![d] = rows'[d]]
    BY DEF CommitStore
  <1>5. rows'[d] \in [Tiles -> [Extensions -> Data]]
    BY DEF Rows
  <1>6. /\ rowsSaved' \in Rows
        /\ \A b \in Databases : rowsSaved'[b] = IF b = d THEN rows'[b] ELSE rowsSaved[b]
    BY <1>4, <1>5 DEF Rows
  <1> QED
    BY <1>2, <1>3, <1>6

-----------------------------------------------------------------------------
(* The invariant.                                                          *)

\* The operation under way knows where its tile is.
Located ==
    /\ op \in {"updating", "updated", "added"} =>
          lookup[tile] = where /\ where \in Databases /\ data \in Sizes
    /\ op = "added" => lookupSaved[tile] = where
    /\ op \in {"moving", "deleted", "moved"} =>
          tile \in moved /\ where \in Databases /\ data \in Sizes
    /\ op = "adding" => lookup[tile] = NoDatabase /\ data \in Sizes
    /\ op \in {"deleting", "unlisting"} =>
          lookup[tile] = where /\ where \in Databases /\ data = NoData

Plain == Tiles \ (moved \cup ahead)

\* A tile that is being added has no rows yet, one that is being deleted has
\* none any more, neither pending nor committed.
NoRows ==
    op \in {"added", "unlisting"} /\ tile \in Plain =>
        \A d \in Databases, e \in Extensions :
            rows[d][tile][e] = NoData /\ rowsSaved[d][tile][e] = NoData

\* An updated one has its new data.
Updated ==
    op = "updated" => /\ rows[where][tile][type] = data
                      /\ rowsSaved[where][tile][type] = data

\* Where a tile has a row its entry says so, the pending and the committed one.
Listed ==
    \A t \in Plain, d \in Databases, e \in Extensions :
        rows[d][t][e] # NoData \/ rowsSaved[d][t][e] # NoData =>
            lookup[t] = d /\ lookupSaved[t] = d

\* As long as the layer keeps its type there are rows of that type only.
OneType ==
    ~retyped => \A d \in Databases, t \in Tiles, e \in Extensions :
                    rows[d][t][e] # NoData \/ rowsSaved[d][t][e] # NoData => e = type

\* The data that a tile may have; an updated one has what it is to have.
May(t) == latest[t] \cup {NoData} \cup (IF t = tile /\ op = "updated" THEN {data} ELSE {})

\* A tile that is there, pending changes written or lost.
Kept(t) ==
    /\ lookup[t] \in Databases /\ lookupSaved[t] = lookup[t]
    /\ rows[lookup[t]][t][type] # NoData
    /\ rowsSaved[lookup[t]][t][type] # NoData

\* The rows have only what a tile may have, and it is there unless it may be
\* missing.
ValuedAt(t) ==
    /\ \A d \in Databases : rows[d][t][type] \in May(t) /\ rowsSaved[d][t][type] \in May(t)
    /\ NoData \in latest[t] \/ Kept(t) \/ (t = tile /\ op = "unlisting")

Valued == ~retyped => \A t \in Plain : ValuedAt(t)

Inv == TypeOK /\ Located /\ NoRows /\ Updated /\ Listed /\ OneType /\ Valued

Lookups == [Tiles -> Databases \cup {NoDatabase}]

LEMMA TypeFacts ==
    ASSUME TypeOK
    PROVE  /\ lookup \in Lookups /\ lookupSaved \in Lookups
           /\ rows \in Rows /\ rowsSaved \in Rows
           /\ fileSize \in [Databases -> Nat]
           /\ available \in Databases
           /\ type \in Extensions
           /\ op \in Ops
           /\ tile \in Tiles
           /\ data \in Data
           /\ where \in Databases \cup {NoDatabase}
           /\ latest \in [Tiles -> SUBSET Data]
           /\ moved \subseteq Tiles
           /\ ahead \subseteq Tiles
           /\ retyped \in BOOLEAN
           /\ failures \in 0..FailureBound
  BY DEF TypeOK, Rows, Data, Lookups

LEMMA TypeFromFacts ==
    ASSUME /\ lookup' \in Lookups /\ lookupSaved' \in Lookups
           /\ rows' \in Rows /\ rowsSaved' \in Rows
           /\ fileSize' \in [Databases -> Nat]
           /\ available' \in Databases
           /\ type' \in Extensions
           /\ op' \in Ops
           /\ tile' \in Tiles
           /\ data' \in Data
           /\ where' \in Databases \cup {NoDatabase}
           /\ latest' \in [Tiles -> SUBSET Data]
           /\ moved' \subseteq Tiles
           /\ ahead' \subseteq Tiles
           /\ retyped' \in BOOLEAN
           /\ failures' \in 0..FailureBound
    PROVE  TypeOK'
  BY DEF TypeOK, Rows, Data, Lookups

LEMMA InvInit == Init => Inv
  <1> SUFFICES ASSUME Init PROVE Inv
    OBVIOUS
  <1>1. First(Databases) \in Databases
    BY FirstIsIn
  <1>2. TypeOK
    <2>1. lookup \in Lookups /\ lookupSaved \in Lookups
      BY DEF Init, Lookups
    <2>2. rows \in Rows /\ rowsSaved \in Rows
      BY DEF Init, Rows, Data
    <2>3. fileSize \in [Databases -> Nat] /\ failures \in 0..FailureBound
      BY DEF Init
    <2>4. {lookup, lookupSaved} \subseteq [Tiles -> Databases \cup {NoDatabase}]
      BY <2>1 DEF Lookups
    <2>5. {rows, rowsSaved} \subseteq
             [Databases -> [Tiles -> [Extensions -> Sizes \cup {NoData}]]]
      BY <2>2 DEF Rows, Data
    <2>6. latest \in [Tiles -> SUBSET (Sizes \cup {NoData})]
      BY DEF Init
    <2> QED
      BY <1>1, <2>3, <2>4, <2>5, <2>6 DEF Init, TypeOK, Ops
  <1>3. Located /\ NoRows /\ Updated
    BY DEF Init, Located, NoRows, Updated
  <1>4. \A d \in Databases, t \in Tiles, e \in Extensions :
           rows[d][t][e] = NoData /\ rowsSaved[d][t][e] = NoData
    BY DEF Init
  <1>5. Listed /\ OneType
    BY <1>4 DEF Listed, OneType, Plain
  <1>6. \A t \in Tiles : NoData \in latest[t]
    BY DEF Init
  <1>7. type \in Extensions
    BY DEF Init
  <1>8. Valued
    BY <1>4, <1>6, <1>7 DEF Valued, ValuedAt, May, Plain
  <1> QED
    BY <1>2, <1>3, <1>5, <1>8 DEF Inv

-----------------------------------------------------------------------------
(* What a step does to a row and to an entry.                              *)

\* A row is written by the operation of its tile only.
Written(d, e, v) ==
    \/ op = "updating" /\ d = where /\ e = type /\ v = data /\ ahead' = Ahead
    \/ op = "added" /\ d = where /\ e = type /\ v = data
    \/ op = "deleted" /\ e = type
    \/ op \in {"moving", "deleting"} /\ v = NoData

RowsMove ==
    \A d \in Databases, t \in Tiles, e \in Extensions :
        \/ rows'[d][t][e] = rows[d][t][e]
        \/ rows'[d][t][e] = rowsSaved[d][t][e]
        \/ t = tile /\ Written(d, e, rows'[d][t][e])

SavedMove ==
    \A d \in Databases, t \in Tiles, e \in Extensions :
        \/ rowsSaved'[d][t][e] = rowsSaved[d][t][e]
        \/ rowsSaved'[d][t][e] = rows'[d][t][e]

LookupsMove ==
    \A t \in Tiles :
        /\ \/ lookup'[t] = lookup[t]
           \/ lookup'[t] = lookupSaved[t]
           \/ t = tile /\ op \in {"adding", "unlisting"}
        /\ lookupSaved'[t] = lookupSaved[t] \/ lookupSaved'[t] = lookup'[t]

HistoryMoves ==
    /\ moved \subseteq moved' /\ ahead \subseteq ahead'
    /\ ~retyped' => ~retyped /\ type' = type

Moves == RowsMove /\ SavedMove /\ LookupsMove /\ HistoryMoves

LEMMA NothingMoves ==
    ASSUME UNCHANGED <<lookups, stores>>, HistoryMoves
    PROVE  Moves
  BY DEF Moves, RowsMove, SavedMove, LookupsMove, lookups, stores

\* Kept by every step: rows have their entries, ...
LEMMA ListedStep ==
    ASSUME Inv, Moves
    PROVE  Listed'
  <1>0. Located /\ NoRows /\ Listed
    BY DEF Inv
  <1>1. Plain' \subseteq Plain /\ (\A t \in Plain' : t \in Tiles /\ t \notin ahead' /\ t \notin moved)
    BY DEF Moves, HistoryMoves, Plain
  <1> SUFFICES ASSUME NEW t \in Plain', NEW d \in Databases, NEW e \in Extensions,
                      rows'[d][t][e] # NoData \/ rowsSaved'[d][t][e] # NoData
               PROVE  lookup'[t] = d /\ lookupSaved'[t] = d
    BY DEF Listed
  <1>2. t \in Plain /\ t \in Tiles /\ t \notin ahead' /\ t \notin moved
    BY <1>1
  <1>3. /\ lookup'[t] = lookup[t] \/ lookup'[t] = lookupSaved[t]
           \/ (t = tile /\ op \in {"adding", "unlisting"})
        /\ lookupSaved'[t] = lookupSaved[t] \/ lookupSaved'[t] = lookup'[t]
    BY <1>2 DEF Moves, LookupsMove
  <1>4. CASE rows[d][t][e] # NoData \/ rowsSaved[d][t][e] # NoData
    <2>1. lookup[t] = d /\ lookupSaved[t] = d
      BY <1>0, <1>2, <1>4 DEF Listed
    <2>2. ~(t = tile /\ op = "adding")
      BY <1>0, <2>1, Apart DEF Located
    <2>3. ~(t = tile /\ op = "unlisting")
      BY <1>0, <1>2, <1>4 DEF NoRows
    <2> QED
      BY <1>3, <2>1, <2>2, <2>3
  <1>5. CASE rows[d][t][e] = NoData /\ rowsSaved[d][t][e] = NoData
    <2>1. rows'[d][t][e] # NoData
      BY <1>2, <1>5 DEF Moves, SavedMove
    <2>2. t = tile /\ Written(d, e, rows'[d][t][e])
      BY <1>2, <1>5, <2>1 DEF Moves, RowsMove
    <2>3. op # "deleted" /\ op # "moving"
      BY <1>0, <1>2, <2>2 DEF Located
    <2>4. /\ op \in {"updating", "added"} /\ d = where
          /\ op = "updating" => ahead' = Ahead
      BY <2>1, <2>2, <2>3 DEF Written
    <2>5. lookup[t] = d
      BY <1>0, <2>2, <2>4 DEF Located
    <2>6. lookupSaved[t] = d
      BY <1>0, <1>2, <2>2, <2>4 DEF Located, Ahead
    <2> QED
      BY <1>3, <2>4, <2>5, <2>6
  <1> QED
    BY <1>4, <1>5

\* ... and they are of the layer's type.
LEMMA OneTypeStep ==
    ASSUME Inv, Moves
    PROVE  OneType'
  <1>0. OneType
    BY DEF Inv
  <1> SUFFICES ASSUME ~retyped', NEW d \in Databases, NEW t \in Tiles, NEW e \in Extensions,
                      rows'[d][t][e] # NoData \/ rowsSaved'[d][t][e] # NoData
               PROVE  e = type'
    BY DEF OneType
  <1>1. ~retyped /\ type' = type
    BY DEF Moves, HistoryMoves
  <1>2. rows[d][t][e] # NoData \/ rowsSaved[d][t][e] # NoData => e = type
    BY <1>0, <1>1 DEF OneType
  <1>3. rowsSaved'[d][t][e] = rowsSaved[d][t][e] \/ rowsSaved'[d][t][e] = rows'[d][t][e]
    BY DEF Moves, SavedMove
  <1>4. \/ rows'[d][t][e] = rows[d][t][e] \/ rows'[d][t][e] = rowsSaved[d][t][e]
        \/ Written(d, e, rows'[d][t][e])
    BY DEF Moves, RowsMove
  <1>5. Written(d, e, rows'[d][t][e]) => e = type \/ rows'[d][t][e] = NoData
    BY DEF Written
  <1> QED
    BY <1>1, <1>2, <1>3, <1>4, <1>5

\* A tile that the step leaves alone keeps its value, and after a failure a
\* tile has its old or its new one.
LEMMA ValuedStep ==
    ASSUME Inv, Moves, ~retyped', NEW t \in Plain', latest[t] \subseteq latest'[t],
           t = tile => data \in latest'[t]
    PROVE  ValuedAt(t)'
  <1>0. Located /\ NoRows /\ ~retyped /\ type' = type /\ t \in Plain
    BY DEF Inv, Moves, HistoryMoves, Plain
  <1>1. /\ t \in Tiles /\ t \notin moved /\ t \notin ahead' /\ type \in Extensions
        /\ lookup \in Lookups /\ data \in Data
    BY <1>0, TypeFacts DEF Inv, Plain, Moves, HistoryMoves
  <1>2. ValuedAt(t)
    BY <1>0 DEF Inv, Valued
  <1>3. May(t) \subseteq latest'[t] \cup {NoData}
    BY DEF May
  <1>4. \A v : v \in latest'[t] \cup {NoData} => v \in May(t)'
    BY DEF May
  <1>5. ~(t = tile /\ op \in {"moving", "deleted"})
    BY <1>0, <1>1 DEF Located
  <1>6. ASSUME NEW d \in Databases
        PROVE  rows'[d][t][type] \in latest'[t] \cup {NoData}
    <2>1. \/ rows'[d][t][type] = rows[d][t][type]
          \/ rows'[d][t][type] = rowsSaved[d][t][type]
          \/ t = tile /\ Written(d, type, rows'[d][t][type])
      BY <1>1 DEF Moves, RowsMove
    <2>2. CASE t = tile /\ Written(d, type, rows'[d][t][type])
      <3>1. rows'[d][t][type] = data \/ rows'[d][t][type] = NoData
        BY <1>5, <2>2 DEF Written
      <3> QED
        BY <2>2, <3>1
    <2>3. rows[d][t][type] \in May(t) /\ rowsSaved[d][t][type] \in May(t)
      BY <1>2 DEF ValuedAt
    <2> QED
      BY <1>3, <2>1, <2>2, <2>3
  <1>7. ASSUME NEW d \in Databases
        PROVE  rowsSaved'[d][t][type] \in latest'[t] \cup {NoData}
    <2>1. rowsSaved'[d][t][type] = rowsSaved[d][t][type] \/ rowsSaved'[d][t][type] = rows'[d][t][type]
      BY <1>1 DEF Moves, SavedMove
    <2>2. rowsSaved[d][t][type] \in May(t)
      BY <1>2 DEF ValuedAt
    <2> QED
      BY <1>3, <1>6, <2>1, <2>2
  <1>8. NoData \in latest'[t] \/ Kept(t)'
    <2>1. CASE NoData \in latest[t]
      BY <2>1
    <2>2. CASE t = tile /\ op \in {"deleting", "unlisting"}
      <3>1. data = NoData
        BY <1>0, <2>2 DEF Located
      <3> QED
        BY <2>2, <3>1
    <2>3. CASE Kept(t) /\ ~(t = tile /\ op \in {"deleting", "unlisting"})
      <3>1. PICK d \in Databases : d = lookup[t]
        BY <2>3 DEF Kept
      <3>2. /\ lookupSaved[t] = d
            /\ rows[d][t][type] # NoData /\ rowsSaved[d][t][type] # NoData
        BY <2>3, <3>1 DEF Kept
      <3>3. ~(t = tile /\ op \in {"adding", "added"})
        BY <1>0, <1>1, <3>1, <3>2, Apart DEF Located, NoRows
      <3>4. lookup'[t] = d /\ lookupSaved'[t] = d
        BY <1>1, <2>3, <3>1, <3>2, <3>3 DEF Moves, LookupsMove
      <3>5. rows'[d][t][type] # NoData
        <4>1. \/ rows'[d][t][type] = rows[d][t][type]
              \/ rows'[d][t][type] = rowsSaved[d][t][type]
              \/ t = tile /\ Written(d, type, rows'[d][t][type])
          BY <1>1 DEF Moves, RowsMove
        <4>2. t = tile /\ Written(d, type, rows'[d][t][type])
                  => op = "updating" /\ rows'[d][t][type] = data
          BY <1>5, <2>3, <3>3 DEF Written
        <4>3. op = "updating" => data # NoData
          BY <1>0, Apart DEF Located
        <4> QED
          BY <3>2, <4>1, <4>2, <4>3
      <3>6. rowsSaved'[d][t][type] # NoData
        BY <1>1, <3>2, <3>5 DEF Moves, SavedMove
      <3> QED
        BY <1>0, <3>4, <3>5, <3>6 DEF Kept
    <2> QED
      BY <1>2, <2>1, <2>2, <2>3 DEF ValuedAt
  <1> QED
    BY <1>0, <1>4, <1>6, <1>7, <1>8 DEF ValuedAt

-----------------------------------------------------------------------------
(* How a step may end.                                                     *)

DataTypes ==
    /\ lookup \in Lookups /\ lookupSaved \in Lookups
    /\ rows \in Rows /\ rowsSaved \in Rows
    /\ fileSize \in [Databases -> Nat]
    /\ available \in Databases
    /\ type \in Extensions
    /\ moved \subseteq Tiles /\ ahead \subseteq Tiles
    /\ retyped \in BOOLEAN
    /\ failures \in 0..FailureBound

\* The operation ends with an exception.
LEMMA Raised ==
    ASSUME Inv, Moves, DataTypes', Raise
    PROVE  Inv'
  <1>1. tile \in Tiles /\ data \in Data /\ latest \in [Tiles -> SUBSET Data]
    BY TypeFacts DEF Inv
  <1>2. /\ op' = "none" /\ data' = NoData /\ where' = NoDatabase /\ tile' = tile
        /\ latest' = [latest EXCEPT ![tile] = @ \cup {data}]
    BY DEF Raise, Finish
  <1>3. latest' \in [Tiles -> SUBSET Data] /\ op' \in Ops /\ data' \in Data
    BY <1>1, <1>2 DEF Ops, Data
  <1>4. TypeOK'
    BY <1>1, <1>2, <1>3, TypeFromFacts DEF DataTypes
  <1>5. Located' /\ NoRows' /\ Updated'
    BY <1>2 DEF Located, NoRows, Updated
  <1>6. ASSUME ~retyped', NEW t \in Plain'
        PROVE  ValuedAt(t)'
    <2>1. t \in Tiles
      BY DEF Plain
    <2>2. latest[t] \subseteq latest'[t] /\ (t = tile => data \in latest'[t])
      BY <1>1, <1>2, <2>1
    <2> QED
      BY <1>6, <2>2, ValuedStep
  <1>7. Valued'
    BY <1>6 DEF Valued
  <1> QED
    BY <1>4, <1>5, <1>7, ListedStep, OneTypeStep DEF Inv

\* The operation ends having stored or deleted its tile.
LEMMA Succeeded ==
    ASSUME Inv, Moves, DataTypes', NEW v \in Data, Succeed(v),
           ~retyped' /\ tile \in Plain' =>
               /\ \A d \in Databases : /\ rows'[d][tile][type'] \in {v, NoData}
                                       /\ rowsSaved'[d][tile][type'] \in {v, NoData}
               /\ v = NoData \/ Kept(tile)'
    PROVE  Inv'
  <1>1. tile \in Tiles /\ data \in Data /\ latest \in [Tiles -> SUBSET Data]
    BY TypeFacts DEF Inv
  <1>2. /\ op' = "none" /\ data' = NoData /\ where' = NoDatabase /\ tile' = tile
        /\ latest' = [latest EXCEPT ![tile] = {v}]
    BY DEF Succeed, Finish
  <1>3. latest' \in [Tiles -> SUBSET Data] /\ op' \in Ops /\ data' \in Data
    BY <1>1, <1>2 DEF Ops, Data
  <1>4. TypeOK'
    BY <1>1, <1>2, <1>3, TypeFromFacts DEF DataTypes
  <1>5. Located' /\ NoRows' /\ Updated'
    BY <1>2 DEF Located, NoRows, Updated
  <1>6. ASSUME ~retyped', NEW t \in Plain', t # tile
        PROVE  ValuedAt(t)'
    <2>1. t \in Tiles
      BY DEF Plain
    <2>2. latest[t] \subseteq latest'[t]
      BY <1>1, <1>2, <1>6, <2>1
    <2> QED
      BY <1>6, <2>2, ValuedStep
  <1>7. ASSUME ~retyped', tile \in Plain'
        PROVE  ValuedAt(tile)'
    <2>1. latest'[tile] = {v}
      BY <1>1, <1>2
    <2>2. \A d \in Databases : /\ rows'[d][tile][type'] \in {v, NoData}
                               /\ rowsSaved'[d][tile][type'] \in {v, NoData}
      BY <1>7
    <2>3. v = NoData \/ Kept(tile)'
      BY <1>7
    <2> HIDE DEF Kept
    <2> QED
      BY <1>2, <2>1, <2>2, <2>3 DEF ValuedAt, May
  <1>8. Valued'
    BY <1>2, <1>6, <1>7 DEF Valued
  <1> QED
    BY <1>4, <1>5, <1>8, ListedStep, OneTypeStep DEF Inv

\* The operation goes on.
LEMMA WentOn ==
    ASSUME Inv, Moves, DataTypes', UNCHANGED <<tile, data, latest>>, op' \in Ops,
           where' \in Databases, Located', NoRows', Updated',
           ~retyped' /\ tile \in Plain' => ValuedAt(tile)'
    PROVE  Inv'
  <1>1. tile \in Tiles /\ data \in Data /\ latest \in [Tiles -> SUBSET Data]
    BY TypeFacts DEF Inv
  <1>4. TypeOK'
    BY <1>1, TypeFromFacts DEF DataTypes
  <1>6. ASSUME ~retyped', NEW t \in Plain', t # tile
        PROVE  ValuedAt(t)'
    BY <1>6, ValuedStep
  <1>7. ASSUME ~retyped', tile \in Plain'
        PROVE  ValuedAt(tile)'
    BY <1>7
  <1>8. Valued'
    BY <1>6, <1>7 DEF Valued
  <1> QED
    BY <1>4, <1>8, ListedStep, OneTypeStep DEF Inv

\* An operation begins: nothing but its own variables changes.
LEMMA Begun ==
    ASSUME Inv, UNCHANGED <<lookups, stores, available, type, latest, ahead, retyped, failures>>,
           op = "none", op' \in {"adding", "updating", "moving", "deleting"},
           tile' \in Tiles, data' \in Data, where' = lookup[tile'],
           op' = "adding" <=> lookup[tile'] = NoDatabase,
           IF op' = "deleting" THEN data' = NoData ELSE data' \in Sizes,
           moved' = IF op' = "moving" THEN moved \cup {tile'} ELSE moved
    PROVE  Inv'
  <1>0. TypeOK /\ Listed /\ OneType /\ Valued
    BY DEF Inv
  <1>1. /\ lookup \in Lookups /\ lookupSaved \in Lookups /\ rows \in Rows /\ rowsSaved \in Rows
        /\ fileSize \in [Databases -> Nat]
        /\ available \in Databases /\ type \in Extensions
        /\ latest \in [Tiles -> SUBSET Data] /\ moved \subseteq Tiles /\ ahead \subseteq Tiles
        /\ retyped \in BOOLEAN /\ failures \in 0..FailureBound
    BY <1>0, TypeFacts
  <1>2. where' \in Databases \cup {NoDatabase}
    BY <1>1 DEF Lookups
  <1>3. op' # "adding" => where' \in Databases
    BY <1>2
  <1>u. UNCHANGED <<lookup, lookupSaved, rows, rowsSaved, fileSize>>
    BY DEF lookups, stores
  <1>4. TypeOK'
    <2>1. op' \in Ops
      BY DEF Ops
    <2>2. moved' \subseteq Tiles
      BY <1>1
    <2> QED
      BY <1>1, <1>2, <1>u, <2>1, <2>2, TypeFromFacts
  <1>5. Located'
    BY <1>3, <1>u DEF Located
  <1>6. NoRows' /\ Updated'
    BY DEF NoRows, Updated
  <1>7. Moves
    <2>1. HistoryMoves
      BY DEF HistoryMoves
    <2> QED
      BY <2>1, NothingMoves
  <1>8. ASSUME ~retyped, NEW t \in Plain'
        PROVE  ValuedAt(t)'
    <2>1. t \in Plain
      BY DEF Plain
    <2>2. ValuedAt(t)
      BY <1>0, <1>8, <2>1 DEF Valued
    <2>3. May(t) = latest[t] \cup {NoData} /\ May(t)' = latest[t] \cup {NoData}
      BY DEF May
    <2>4. Kept(t)' <=> Kept(t)
      BY <1>u DEF Kept
    <2> QED
      BY <1>u, <2>2, <2>3, <2>4 DEF ValuedAt
  <1>9. Valued'
    BY <1>8 DEF Valued
  <1> QED
    BY <1>4, <1>5, <1>6, <1>7, <1>9, ListedStep, OneTypeStep DEF Inv

\* What a statement on a storage database and its commit do.
LEMMA StoreMoves ==
    ASSUME Inv, UNCHANGED lookups, HistoryMoves, NEW d \in Databases, rows' \in Rows,
           \A b \in Databases, t \in Tiles, e \in Extensions :
              \/ rows'[b][t][e] = rows[b][t][e]
              \/ t = tile /\ Written(b, e, rows'[b][t][e]),
           CommitStore(d) \/ UNCHANGED <<rowsSaved, fileSize>>
    PROVE  /\ Moves
           /\ rowsSaved' \in Rows
           /\ fileSize' \in [Databases -> Nat]
  <1>1. rowsSaved \in Rows /\ fileSize \in [Databases -> Nat]
    BY TypeFacts DEF Inv
  <1>2. CommitStore(d) =>
           /\ rowsSaved' \in Rows /\ fileSize' \in [Databases -> Nat]
           /\ \A b \in Databases : rowsSaved'[b] = IF b = d THEN rows'[b] ELSE rowsSaved[b]
    BY <1>1, Committed
  <1>3. RowsMove
    BY DEF RowsMove
  <1>4. SavedMove
    BY <1>2 DEF SavedMove
  <1>5. LookupsMove
    BY DEF LookupsMove, lookups
  <1> QED
    BY <1>1, <1>2, <1>3, <1>4, <1>5 DEF Moves

-----------------------------------------------------------------------------
(* The actions.                                                            *)

LEMMA TypesOfInv ==
    ASSUME Inv
    PROVE  /\ DataTypes /\ tile \in Tiles /\ data \in Data /\ type \in Extensions
           /\ where \in Databases \cup {NoDatabase} /\ available \in Databases
           /\ lookup \in Lookups /\ lookupSaved \in Lookups /\ rows \in Rows
           /\ rowsSaved \in Rows /\ fileSize \in [Databases -> Nat]
           /\ moved \subseteq Tiles /\ ahead \subseteq Tiles
           /\ Located /\ NoRows /\ Updated /\ Listed /\ OneType /\ Valued
  BY TypeFacts DEF Inv, DataTypes

LEMMA FailureCounted ==
    ASSUME failures \in 0..FailureBound, CanFail
    PROVE  failures' \in 0..FailureBound
  BY DEF CanFail

LEMMA UpdateKeeps == Inv /\ Update => Inv'
  <1> SUFFICES ASSUME Inv, Update PROVE Inv'
    OBVIOUS
  <1>0. /\ DataTypes /\ tile \in Tiles /\ data \in Data /\ type \in Extensions
        /\ lookup \in Lookups /\ rows \in Rows /\ rowsSaved \in Rows
        /\ fileSize \in [Databases -> Nat] /\ ahead \subseteq Tiles
        /\ Located /\ Listed /\ OneType /\ Valued
    BY TypesOfInv
  <1>1. /\ op = "updating" /\ SetRow(where, tile, type, data) /\ Stored(where, "updated")
        /\ ahead' = Ahead /\ UNCHANGED <<lookups, available, type, moved, retyped>>
    BY DEF Update
  <1>2. lookup[tile] = where /\ where \in Databases /\ data \in Sizes
    BY <1>0, <1>1 DEF Located
  <1>3. /\ rows' \in Rows
        /\ \A b \in Databases, u \in Tiles, x \in Extensions :
              rows'[b][u][x] = IF b = where /\ u = tile /\ x = type THEN data ELSE rows[b][u][x]
    <2>1. /\ rows \in Rows /\ where \in Databases /\ tile \in Tiles /\ type \in Extensions
          /\ data \in Data /\ SetRow(where, tile, type, data)
      BY <1>0, <1>1, <1>2
    <2>2. OneRowSet(where, tile, type, data)
      BY <2>1, RowSet
    <2> QED
      BY <2>2 DEF OneRowSet
  <1>4. ahead \subseteq ahead' /\ ahead' \subseteq Tiles
    BY <1>0, <1>1 DEF Ahead
  <1>5. \A b \in Databases, t \in Tiles, e \in Extensions :
           \/ rows'[b][t][e] = rows[b][t][e]
           \/ t = tile /\ Written(b, e, rows'[b][t][e])
    BY <1>1, <1>3 DEF Written
  <1>6. HistoryMoves
    BY <1>1, <1>4 DEF HistoryMoves
  <1>7. CommitStore(where) \/ UNCHANGED <<rowsSaved, fileSize>>
    BY <1>1 DEF Stored
  <1>8. Moves /\ rowsSaved' \in Rows /\ fileSize' \in [Databases -> Nat]
    BY <1>1, <1>2, <1>3, <1>5, <1>6, <1>7, StoreMoves
  <1>9. failures' \in 0..FailureBound
    BY <1>0, <1>1, FailureCounted DEF Stored, Goto, Break, DataTypes
  <1>10. DataTypes'
    BY <1>0, <1>1, <1>3, <1>4, <1>8, <1>9 DEF DataTypes, lookups
  <1>11. CASE Break
    BY <1>8, <1>10, <1>11, Raised DEF Break
  <1>12. CASE CommitStore(where) /\ Goto("updated") /\ UNCHANGED latest
    <2>1. op' = "updated" /\ UNCHANGED <<tile, data, where, latest>>
      BY <1>12 DEF Goto
    <2>2. rows'[where][tile][type] = data
      BY <1>0, <1>2, <1>3
    <2>3. rowsSaved'[where] = rows'[where]
      BY <1>0, <1>2, <1>3, <1>12, Committed
    <2>4. op' \in Ops /\ Located' /\ NoRows' /\ Updated'
      BY <1>1, <1>2, <2>1, <2>2, <2>3 DEF Ops, Located, NoRows, Updated, lookups
    <2>5. ASSUME ~retyped', tile \in Plain'
          PROVE  ValuedAt(tile)'
      <3>1. tile \in Plain /\ tile \notin ahead' /\ ~retyped
        BY <1>1, <1>4, <2>5, <2>1 DEF Plain
      <3>2. ValuedAt(tile)
        BY <1>0, <3>1 DEF Valued
      <3>3. May(tile) \subseteq latest[tile] \cup {NoData}
        BY <1>1 DEF May
      <3>4. \A v : v \in latest[tile] \cup {NoData, data} => v \in May(tile)'
        BY <2>1 DEF May
      <3>5. ASSUME NEW d \in Databases
            PROVE  rows'[d][tile][type] \in May(tile)' /\ rowsSaved'[d][tile][type] \in May(tile)'
        <4>1. rows[d][tile][type] \in May(tile) /\ rowsSaved[d][tile][type] \in May(tile)
          BY <3>2 DEF ValuedAt
        <4>2. rows'[d][tile][type] \in {data, rows[d][tile][type]}
          BY <1>0, <1>3
        <4>3. rowsSaved'[d][tile][type] \in {rowsSaved[d][tile][type], rows'[d][tile][type]}
          BY <1>0, <1>8 DEF Moves, SavedMove
        <4> QED
          BY <3>3, <3>4, <4>1, <4>2, <4>3
      <3>6. NoData \in latest[tile] \/ Kept(tile)'
        <4>1. NoData \in latest[tile] \/ Kept(tile)
          BY <1>1, <3>2 DEF ValuedAt
        <4>2. ASSUME Kept(tile)
              PROVE  Kept(tile)'
          <5>1. lookup'[tile] = where /\ lookupSaved'[tile] = where
            BY <1>1, <1>2, <4>2 DEF Kept, lookups
          <5> QED
            BY <1>1, <1>2, <2>1, <2>2, <2>3, <5>1, Apart DEF Kept
        <4> QED
          BY <4>1, <4>2
      <3> QED
        BY <1>1, <2>1, <3>5, <3>6 DEF ValuedAt
    <2> QED
      BY <1>2, <1>8, <1>10, <2>1, <2>4, <2>5, WentOn
  <1> QED
    BY <1>1, <1>11, <1>12 DEF Stored

LEMMA UpdateLookupKeeps == Inv /\ UpdateLookup => Inv'
  <1> SUFFICES ASSUME Inv, UpdateLookup PROVE Inv'
    OBVIOUS
  <1>0. /\ DataTypes /\ tile \in Tiles /\ data \in Data /\ type \in Extensions
        /\ lookup \in Lookups /\ lookupSaved \in Lookups
        /\ Located /\ Updated /\ Listed
    BY TypesOfInv
  <1>1. /\ op = "updated" /\ UNCHANGED lookup
        /\ UNCHANGED <<stores, available, type, moved, ahead, retyped>>
        /\ \/ CommitLookup /\ Succeed(data)
           \/ Break /\ UNCHANGED lookupSaved
    BY DEF UpdateLookup
  <1>2. lookup[tile] = where /\ where \in Databases /\ data \in Sizes
    BY <1>0, <1>1 DEF Located
  <1>3. lookupSaved' = lookupSaved \/ lookupSaved' = lookup
    BY <1>1 DEF CommitLookup
  <1>4. Moves
    BY <1>1, <1>3 DEF Moves, RowsMove, SavedMove, LookupsMove, HistoryMoves, stores
  <1>5. failures' \in 0..FailureBound
    BY <1>0, <1>1, FailureCounted DEF Succeed, Break, DataTypes
  <1>6. DataTypes'
    BY <1>0, <1>1, <1>3, <1>5 DEF DataTypes, stores
  <1>7. CASE Break
    BY <1>4, <1>6, <1>7, Raised DEF Break
  <1>8. CASE CommitLookup /\ Succeed(data)
    <2>1. tile' = tile /\ lookup' = lookup /\ lookupSaved' = lookup /\ UNCHANGED <<rows, rowsSaved, type>>
      BY <1>1, <1>8 DEF CommitLookup, Succeed, Finish, stores
    <2>2. rows[where][tile][type] = data /\ rowsSaved[where][tile][type] = data
      BY <1>0, <1>1 DEF Updated
    <2>3. ASSUME tile \in Plain', NEW d \in Databases
          PROVE  rows[d][tile][type] \in {data, NoData} /\ rowsSaved[d][tile][type] \in {data, NoData}
      <3>1. tile \in Plain
        BY <1>1, <2>1, <2>3 DEF Plain
      <3>2. d # where => rows[d][tile][type] = NoData /\ rowsSaved[d][tile][type] = NoData
        BY <1>0, <1>2, <3>1 DEF Listed
      <3> QED
        BY <2>2, <3>2
    <2>4. Kept(tile)'
      BY <1>2, <2>1, <2>2, Apart DEF Kept
    <2>5. ~retyped' /\ tile \in Plain' =>
               /\ \A d \in Databases : /\ rows'[d][tile][type'] \in {data, NoData}
                                       /\ rowsSaved'[d][tile][type'] \in {data, NoData}
               /\ data = NoData \/ Kept(tile)'
      BY <2>1, <2>3, <2>4
    <2> QED
      BY <1>0, <1>4, <1>6, <1>8, <2>5, Succeeded
  <1> QED
    BY <1>1, <1>7, <1>8

\* A tile that has to move is deleted or inserted: the invariant says nothing
\* about it but the type of its rows.
LEMMA MoveKeeps == Inv /\ (MoveDelete \/ MoveInsert) => Inv'
  <1> SUFFICES ASSUME Inv, MoveDelete \/ MoveInsert PROVE Inv'
    OBVIOUS
  <1>0. /\ DataTypes /\ tile \in Tiles /\ data \in Data /\ type \in Extensions
        /\ rows \in Rows /\ Located /\ ahead \subseteq Tiles
    BY TypesOfInv
  <1>1. /\ op \in {"moving", "deleted"}
        /\ UNCHANGED <<lookups, type, moved, ahead, retyped>>
    BY DEF MoveDelete, MoveInsert
  <1>2. tile \in moved /\ where \in Databases /\ data \in Sizes
    BY <1>0, <1>1 DEF Located
  <1>3. PICK d \in Databases :
           /\ available' \in Databases
           /\ Stored(d, "deleted") \/ Stored(d, "moved")
           /\ rows' \in Rows
           /\ \A b \in Databases, t \in Tiles, e \in Extensions :
                 \/ rows'[b][t][e] = rows[b][t][e]
                 \/ t = tile /\ Written(b, e, rows'[b][t][e])
    <2>1. CASE MoveDelete
      <3>1. /\ op = "moving" /\ ClearRows(where, tile) /\ Stored(where, "deleted")
            /\ available' = available
        BY <2>1 DEF MoveDelete
      <3>2. /\ rows' \in Rows
            /\ \A b \in Databases, u \in Tiles, x \in Extensions :
                  rows'[b][u][x] = IF b = where /\ u = tile THEN NoData ELSE rows[b][u][x]
        BY <1>0, <1>2, <3>1, RowsCleared
      <3>3. \A b \in Databases, t \in Tiles, e \in Extensions :
                 \/ rows'[b][t][e] = rows[b][t][e]
                 \/ t = tile /\ Written(b, e, rows'[b][t][e])
        BY <3>1, <3>2 DEF Written
      <3> QED
        BY <1>0, <1>2, <3>1, <3>2, <3>3 DEF DataTypes
    <2>2. CASE MoveInsert
      <3>1. op = "deleted"
        BY <2>2 DEF MoveInsert
      <3>2. PICK d \in Candidates(data) :
               available' = d /\ SetRow(d, tile, type, data) /\ Stored(d, "moved")
        BY <2>2 DEF MoveInsert
      <3>3. d \in Databases
        BY <1>0, <3>2 DEF Candidates, DataTypes
      <3>4. /\ rows' \in Rows
            /\ \A b \in Databases, u \in Tiles, x \in Extensions :
                  rows'[b][u][x] = IF b = d /\ u = tile /\ x = type THEN data ELSE rows[b][u][x]
        <4>1. /\ rows \in Rows /\ tile \in Tiles /\ type \in Extensions
              /\ data \in Data /\ SetRow(d, tile, type, data)
          BY <1>0, <3>2
        <4>2. OneRowSet(d, tile, type, data)
          BY <4>1, <3>3, RowSet
        <4> QED
          BY <4>2 DEF OneRowSet
      <3>5. \A b \in Databases, t \in Tiles, e \in Extensions :
                 \/ rows'[b][t][e] = rows[b][t][e]
                 \/ t = tile /\ Written(b, e, rows'[b][t][e])
        <4>1. ASSUME NEW b \in Databases, NEW t \in Tiles, NEW e \in Extensions,
                     rows'[b][t][e] # rows[b][t][e]
              PROVE  t = tile /\ e = type
          BY <3>4, <4>1
        <4> QED
          BY <3>1, <4>1 DEF Written
      <3> QED
        BY <3>2, <3>3, <3>4, <3>5
    <2> QED
      BY <2>1, <2>2
  <1>4. HistoryMoves
    BY <1>1 DEF HistoryMoves
  <1>5. CommitStore(d) \/ UNCHANGED <<rowsSaved, fileSize>>
    BY <1>3 DEF Stored
  <1>6. Moves /\ rowsSaved' \in Rows /\ fileSize' \in [Databases -> Nat]
    BY <1>1, <1>3, <1>4, <1>5, StoreMoves
  <1>7. failures' \in 0..FailureBound
    BY <1>0, <1>3, FailureCounted DEF Stored, Goto, Break, DataTypes
  <1>8. DataTypes'
    BY <1>0, <1>1, <1>3, <1>6, <1>7 DEF DataTypes, lookups
  <1>9. CASE Break
    BY <1>6, <1>8, <1>9, Raised DEF Break
  <1>10. CASE (Goto("deleted") \/ Goto("moved")) /\ UNCHANGED latest
    <2>1. op' \in {"deleted", "moved"} /\ UNCHANGED <<tile, data, where, latest>>
      BY <1>10 DEF Goto
    <2>2. op' \in Ops /\ Located' /\ NoRows' /\ Updated'
      BY <1>1, <1>2, <2>1 DEF Ops, Located, NoRows, Updated
    <2>3. tile \notin Plain'
      BY <1>1, <1>2, <2>1 DEF Plain
    <2> QED
      BY <1>2, <1>6, <1>8, <2>1, <2>2, <2>3, WentOn
  <1> QED
    BY <1>3, <1>9, <1>10 DEF Stored

\* The lookup database has no such statement, or no database has room.
LEMMA NothingKeeps == Inv /\ (MoveLookup \/ NoRoom) => Inv'
  <1> SUFFICES ASSUME Inv, MoveLookup \/ NoRoom PROVE Inv'
    OBVIOUS
  <1>1. /\ Raise /\ UNCHANGED failures
        /\ UNCHANGED <<lookups, stores, available, type, moved, ahead, retyped>>
    BY DEF MoveLookup, NoRoom, Fail
  <1>2. Moves
    BY <1>1, NothingMoves DEF HistoryMoves
  <1>3. DataTypes'
    BY <1>1, TypesOfInv DEF DataTypes, lookups, stores
  <1> QED
    BY <1>1, <1>2, <1>3, Raised

LEMMA AddLookupKeeps == Inv /\ AddLookup => Inv'
  <1> SUFFICES ASSUME Inv, AddLookup PROVE Inv'
    OBVIOUS
  <1>0. /\ DataTypes /\ tile \in Tiles /\ data \in Data /\ type \in Extensions
        /\ lookup \in Lookups /\ lookupSaved \in Lookups /\ rows \in Rows
        /\ Located /\ Listed /\ Valued
    BY TypesOfInv
  <1>1. op = "adding" /\ UNCHANGED <<stores, type, moved, ahead, retyped>>
    BY DEF AddLookup
  <1>2. PICK d \in Candidates(data) :
           /\ available' = d
           /\ lookup' = [lookup EXCEPT ![tile] = d]
           /\ \/ /\ CommitLookup /\ op' = "added" /\ where' = d
                 /\ UNCHANGED <<tile, data, failures, latest>>
              \/ Break /\ UNCHANGED lookupSaved
    BY DEF AddLookup
  <1>3. d \in Databases
    BY <1>0 DEF Candidates, DataTypes
  <1>4. lookup[tile] = NoDatabase /\ data \in Sizes
    BY <1>0, <1>1 DEF Located
  <1>5. /\ lookup' \in Lookups
        /\ \A t \in Tiles : lookup'[t] = IF t = tile THEN d ELSE lookup[t]
    BY <1>0, <1>2, <1>3 DEF Lookups
  <1>6. lookupSaved' = lookupSaved \/ lookupSaved' = lookup'
    BY <1>2 DEF CommitLookup
  <1>7. LookupsMove
    BY <1>1, <1>5, <1>6 DEF LookupsMove
  <1>8. Moves
    BY <1>1, <1>7 DEF Moves, RowsMove, SavedMove, HistoryMoves, stores
  <1>9. failures' \in 0..FailureBound
    BY <1>0, <1>2, FailureCounted DEF Break, DataTypes
  <1>10. DataTypes'
    BY <1>0, <1>1, <1>2, <1>3, <1>5, <1>6, <1>9 DEF DataTypes, stores
  <1>11. CASE Break
    BY <1>8, <1>10, <1>11, Raised DEF Break
  <1>12. CASE /\ CommitLookup /\ op' = "added" /\ where' = d
              /\ UNCHANGED <<tile, data, failures, latest>>
    <2>1. lookupSaved' = lookup'
      BY <1>12 DEF CommitLookup
    <2>2. Located'
      BY <1>0, <1>3, <1>4, <1>5, <1>12, <2>1 DEF Located
    <2>3. ASSUME tile \in Plain
          PROVE  \A b \in Databases, e \in Extensions :
                     rows[b][tile][e] = NoData /\ rowsSaved[b][tile][e] = NoData
      BY <1>0, <1>4, <2>3, Apart DEF Listed
    <2>4. op' \in Ops /\ Updated'
      BY <1>12 DEF Ops, Updated
    <2>5. tile \in Plain' => tile \in Plain
      BY <1>1, <1>12 DEF Plain
    <2>6. NoRows'
      BY <1>1, <1>12, <2>3, <2>5 DEF NoRows, stores
    <2>7. ASSUME ~retyped', tile \in Plain'
          PROVE  ValuedAt(tile)'
      <3>1. ValuedAt(tile) /\ ~Kept(tile)
        BY <1>0, <1>1, <1>4, <2>5, <2>7, Apart DEF Valued, Kept
      <3>2. NoData \in latest[tile]
        BY <1>1, <3>1 DEF ValuedAt
      <3>3. \A b \in Databases : rows'[b][tile][type] = NoData /\ rowsSaved'[b][tile][type] = NoData
        BY <1>0, <1>1, <2>3, <2>5, <2>7 DEF stores
      <3> QED
        BY <1>1, <1>12, <3>2, <3>3 DEF ValuedAt, May
    <2> QED
      BY <1>3, <1>8, <1>10, <1>12, <2>2, <2>4, <2>6, <2>7, WentOn
  <1> QED
    BY <1>2, <1>11, <1>12

LEMMA AddKeeps == Inv /\ Add => Inv'
  <1> SUFFICES ASSUME Inv, Add PROVE Inv'
    OBVIOUS
  <1>0. /\ DataTypes /\ tile \in Tiles /\ data \in Data /\ type \in Extensions
        /\ lookup \in Lookups /\ rows \in Rows /\ rowsSaved \in Rows
        /\ fileSize \in [Databases -> Nat]
        /\ Located /\ NoRows
    BY TypesOfInv
  <1>1. /\ op = "added" /\ UNCHANGED <<lookups, available, type, moved, ahead, retyped>>
        /\ \/ /\ SetRow(where, tile, type, data)
              /\ \/ CommitStore(where) /\ Succeed(data)
                 \/ Break /\ UNCHANGED <<rowsSaved, fileSize>>
           \/ Fail /\ UNCHANGED stores
    BY DEF Add
  <1>2. /\ lookup[tile] = where /\ lookupSaved[tile] = where
        /\ where \in Databases /\ data \in Sizes
    BY <1>0, <1>1 DEF Located
  <1>3. HistoryMoves
    BY <1>1 DEF HistoryMoves
  <1>4. failures' \in 0..FailureBound
    BY <1>0, <1>1, FailureCounted DEF Succeed, Break, Fail, DataTypes
  <1>5. CASE Fail /\ UNCHANGED stores
    <2>1. Moves
      BY <1>1, <1>3, <1>5, NothingMoves
    <2>2. DataTypes'
      BY <1>0, <1>1, <1>4, <1>5 DEF DataTypes, lookups, stores
    <2> QED
      BY <1>5, <2>1, <2>2, Raised DEF Fail
  <1>6. CASE /\ SetRow(where, tile, type, data)
             /\ \/ CommitStore(where) /\ Succeed(data)
                \/ Break /\ UNCHANGED <<rowsSaved, fileSize>>
    <2>1. /\ rows' \in Rows
          /\ \A b \in Databases, u \in Tiles, x \in Extensions :
                rows'[b][u][x] = IF b = where /\ u = tile /\ x = type THEN data ELSE rows[b][u][x]
      <3>1. /\ rows \in Rows /\ where \in Databases /\ tile \in Tiles /\ type \in Extensions
            /\ data \in Data /\ SetRow(where, tile, type, data)
        BY <1>0, <1>2, <1>6
      <3>2. OneRowSet(where, tile, type, data)
        BY <3>1, RowSet
      <3> QED
        BY <3>2 DEF OneRowSet
    <2>2. \A b \in Databases, t \in Tiles, e \in Extensions :
             \/ rows'[b][t][e] = rows[b][t][e]
             \/ t = tile /\ Written(b, e, rows'[b][t][e])
      <3>1. ASSUME NEW b \in Databases, NEW t \in Tiles, NEW e \in Extensions,
                   rows'[b][t][e] # rows[b][t][e]
            PROVE  t = tile /\ b = where /\ e = type /\ rows'[b][t][e] = data
        BY <2>1, <3>1
      <3> QED
        BY <1>1, <3>1 DEF Written
    <2>3. Moves /\ rowsSaved' \in Rows /\ fileSize' \in [Databases -> Nat]
      BY <1>1, <1>2, <1>3, <1>6, <2>1, <2>2, StoreMoves
    <2>4. DataTypes'
      BY <1>0, <1>1, <1>4, <2>1, <2>3 DEF DataTypes, lookups
    <2>5. CASE Break
      BY <2>3, <2>4, <2>5, Raised DEF Break
    <2>6. CASE CommitStore(where) /\ Succeed(data)
      <3>1. tile' = tile
        BY <2>6 DEF Succeed, Finish
      <3>2. rowsSaved'[where] = rows'[where]
        BY <1>0, <1>2, <2>1, <2>6, Committed
      <3>3. rows'[where][tile][type] = data
        BY <1>0, <1>2, <2>1
      <3>4. lookup'[tile] = where /\ lookupSaved'[tile] = where
        BY <1>1, <1>2 DEF lookups
      <3>5. Kept(tile)'
        BY <1>1, <1>2, <3>1, <3>2, <3>3, <3>4, Apart DEF Kept
      <3>6. ASSUME tile \in Plain', NEW d \in Databases
            PROVE  rows'[d][tile][type] \in {data, NoData} /\ rowsSaved'[d][tile][type] \in {data, NoData}
        <4>1. tile \in Plain
          BY <1>1, <3>1, <3>6 DEF Plain
        <4>2. rows[d][tile][type] = NoData /\ rowsSaved[d][tile][type] = NoData
          BY <1>0, <1>1, <4>1 DEF NoRows
        <4>3. rows'[d][tile][type] \in {data, NoData}
          BY <1>0, <2>1, <4>2
        <4>4. rowsSaved'[d][tile][type] \in {rowsSaved[d][tile][type], rows'[d][tile][type]}
          BY <1>0, <2>3 DEF Moves, SavedMove
        <4> QED
          BY <4>2, <4>3, <4>4
      <3>7. ~retyped' /\ tile \in Plain' =>
               /\ \A d \in Databases : /\ rows'[d][tile][type'] \in {data, NoData}
                                       /\ rowsSaved'[d][tile][type'] \in {data, NoData}
               /\ data = NoData \/ Kept(tile)'
        BY <1>1, <3>5, <3>6
      <3> QED
        BY <1>0, <2>3, <2>4, <2>6, <3>7, Succeeded
    <2> QED
      BY <1>6, <2>5, <2>6
  <1> QED
    BY <1>1, <1>5, <1>6

LEMMA DeleteKeeps == Inv /\ Delete => Inv'
  <1> SUFFICES ASSUME Inv, Delete PROVE Inv'
    OBVIOUS
  <1>0. /\ DataTypes /\ tile \in Tiles /\ data \in Data /\ type \in Extensions
        /\ rows \in Rows /\ rowsSaved \in Rows /\ fileSize \in [Databases -> Nat]
        /\ Located /\ Listed /\ Valued
    BY TypesOfInv
  <1>1. /\ op = "deleting" /\ ClearRows(where, tile) /\ Stored(where, "unlisting")
        /\ UNCHANGED <<lookups, available, type, moved, ahead, retyped>>
    BY DEF Delete
  <1>2. lookup[tile] = where /\ where \in Databases /\ data = NoData
    BY <1>0, <1>1 DEF Located
  <1>3. /\ rows' \in Rows
        /\ \A b \in Databases, u \in Tiles, x \in Extensions :
              rows'[b][u][x] = IF b = where /\ u = tile THEN NoData ELSE rows[b][u][x]
    BY <1>0, <1>1, <1>2, RowsCleared
  <1>4. \A b \in Databases, t \in Tiles, e \in Extensions :
           \/ rows'[b][t][e] = rows[b][t][e]
           \/ t = tile /\ Written(b, e, rows'[b][t][e])
    BY <1>1, <1>3 DEF Written
  <1>5. HistoryMoves
    BY <1>1 DEF HistoryMoves
  <1>6. CommitStore(where) \/ UNCHANGED <<rowsSaved, fileSize>>
    BY <1>1 DEF Stored
  <1>7. Moves /\ rowsSaved' \in Rows /\ fileSize' \in [Databases -> Nat]
    BY <1>1, <1>2, <1>3, <1>4, <1>5, <1>6, StoreMoves
  <1>8. failures' \in 0..FailureBound
    BY <1>0, <1>1, FailureCounted DEF Stored, Goto, Break, DataTypes
  <1>9. DataTypes'
    BY <1>0, <1>1, <1>3, <1>7, <1>8 DEF DataTypes, lookups
  <1>10. CASE Break
    BY <1>7, <1>9, <1>10, Raised DEF Break
  <1>11. CASE CommitStore(where) /\ Goto("unlisting") /\ UNCHANGED latest
    <2>1. op' = "unlisting" /\ UNCHANGED <<tile, data, where, latest>>
      BY <1>11 DEF Goto
    <2>2. \A b \in Databases : rowsSaved'[b] = IF b = where THEN rows'[b] ELSE rowsSaved[b]
      BY <1>0, <1>2, <1>3, <1>11, Committed
    <2>3. tile \in Plain' => tile \in Plain
      BY <1>1, <2>1 DEF Plain
    <2>4. ASSUME tile \in Plain, NEW d \in Databases, NEW e \in Extensions
          PROVE  rows'[d][tile][e] = NoData /\ rowsSaved'[d][tile][e] = NoData
      <3>1. d # where => rows[d][tile][e] = NoData /\ rowsSaved[d][tile][e] = NoData
        BY <1>0, <1>2, <2>4 DEF Listed
      <3>2. rows'[d][tile][e] = NoData
        BY <1>0, <1>3, <3>1
      <3> QED
        BY <2>2, <3>1, <3>2
    <2>5. op' \in Ops /\ Located' /\ Updated'
      BY <1>1, <1>2, <2>1 DEF Ops, Located, Updated, lookups
    <2>6. NoRows'
      BY <2>1, <2>3, <2>4 DEF NoRows
    <2>7. ASSUME ~retyped', tile \in Plain'
          PROVE  ValuedAt(tile)'
      <3>1. \A d \in Databases : rows'[d][tile][type] = NoData /\ rowsSaved'[d][tile][type] = NoData
        BY <1>0, <2>3, <2>4, <2>7
      <3> QED
        BY <1>1, <2>1, <3>1 DEF ValuedAt, May
    <2> QED
      BY <1>2, <1>7, <1>9, <2>1, <2>5, <2>6, <2>7, WentOn
  <1> QED
    BY <1>1, <1>10, <1>11 DEF Stored

LEMMA UnlistKeeps == Inv /\ Unlist => Inv'
  <1> SUFFICES ASSUME Inv, Unlist PROVE Inv'
    OBVIOUS
  <1>0. /\ DataTypes /\ tile \in Tiles /\ data \in Data /\ type \in Extensions
        /\ lookup \in Lookups /\ lookupSaved \in Lookups /\ Located /\ NoRows
    BY TypesOfInv
  <1>1. /\ op = "unlisting" /\ UNCHANGED <<stores, available, type, moved, ahead, retyped>>
        /\ lookup' = [lookup EXCEPT ![tile] = NoDatabase]
        /\ \/ CommitLookup /\ Succeed(NoData)
           \/ Break /\ UNCHANGED lookupSaved
    BY DEF Unlist
  <1>2. /\ lookup' \in Lookups
        /\ \A t \in Tiles : t # tile => lookup'[t] = lookup[t]
    BY <1>0, <1>1 DEF Lookups
  <1>3. lookupSaved' = lookupSaved \/ lookupSaved' = lookup'
    BY <1>1 DEF CommitLookup
  <1>4. LookupsMove
    BY <1>1, <1>2, <1>3 DEF LookupsMove
  <1>5. Moves
    BY <1>1, <1>4 DEF Moves, RowsMove, SavedMove, HistoryMoves, stores
  <1>6. failures' \in 0..FailureBound
    BY <1>0, <1>1, FailureCounted DEF Succeed, Break, DataTypes
  <1>7. DataTypes'
    BY <1>0, <1>1, <1>2, <1>3, <1>6 DEF DataTypes, stores
  <1>8. CASE Break
    BY <1>5, <1>7, <1>8, Raised DEF Break
  <1>9. CASE Succeed(NoData)
    <2>1. tile' = tile /\ NoData \in Data
      BY <1>9 DEF Succeed, Finish, Data
    <2>2. tile \in Plain' => tile \in Plain
      BY <1>1, <2>1 DEF Plain
    <2>3. tile \in Plain' =>
             \A d \in Databases : rows'[d][tile][type'] = NoData /\ rowsSaved'[d][tile][type'] = NoData
      BY <1>0, <1>1, <2>2 DEF NoRows, stores
    <2>4. ~retyped' /\ tile \in Plain' =>
               /\ \A d \in Databases : /\ rows'[d][tile][type'] \in {NoData, NoData}
                                       /\ rowsSaved'[d][tile][type'] \in {NoData, NoData}
               /\ NoData = NoData \/ Kept(tile)'
      BY <2>3
    <2> QED
      BY <1>5, <1>7, <1>9, <2>1, <2>4, Succeeded
  <1> QED
    BY <1>1, <1>8, <1>9

-----------------------------------------------------------------------------
(* Failures.                                                               *)

LEMMA FaultKeeps == Inv /\ (Fault \/ FaultRollsBack) => Inv'
  <1> SUFFICES ASSUME Inv, Fault \/ FaultRollsBack PROVE Inv'
    OBVIOUS
  <1>0. /\ DataTypes /\ available \in Databases /\ rows \in Rows /\ rowsSaved \in Rows
        /\ lookup \in Lookups /\ lookupSaved \in Lookups
    BY TypesOfInv
  <1>1. /\ Break
        /\ UNCHANGED <<lookupSaved, rowsSaved, fileSize, type, moved, ahead, retyped>>
    BY DEF Fault, FaultRollsBack, lookups, stores
  <1>2. Candidates(data) \subseteq Databases
    BY <1>0 DEF Candidates
  <1>3. available' \in Databases
    BY <1>0, <1>2 DEF Fault, FaultRollsBack, Chosen
  <1>4. lookup' = lookup \/ lookup' = lookupSaved
    BY DEF Fault, FaultRollsBack, lookups
  <1>5. rows' = rows \/ \E d : rows' = [rows EXCEPT ![d] = rowsSaved[d]]
    BY DEF Fault, FaultRollsBack, stores
  <1>6. /\ rows' \in Rows
        /\ \A d \in Databases : rows'[d] = rows[d] \/ rows'[d] = rowsSaved[d]
    <2>1. ASSUME NEW d, rows' = [rows EXCEPT ![d] = rowsSaved[d]]
          PROVE  /\ rows' \in Rows
                 /\ \A b \in Databases : rows'[b] = rows[b] \/ rows'[b] = rowsSaved[b]
      BY <1>0, <2>1 DEF Rows
    <2> QED
      BY <1>0, <1>5, <2>1
  <1>7. Moves
    BY <1>1, <1>4, <1>6 DEF Moves, RowsMove, SavedMove, LookupsMove, HistoryMoves
  <1>8. failures' \in 0..FailureBound
    BY <1>0, <1>1, FailureCounted DEF Break, DataTypes
  <1>9. DataTypes'
    BY <1>0, <1>1, <1>3, <1>4, <1>6, <1>8 DEF DataTypes
  <1> QED
    BY <1>1, <1>7, <1>9, Raised DEF Break

LEMMA RestartKeeps == Inv /\ Restart => Inv'
  <1> SUFFICES ASSUME Inv, Restart PROVE Inv'
    OBVIOUS
  <1>0. /\ DataTypes /\ rowsSaved \in Rows /\ lookupSaved \in Lookups
        /\ where \in Databases \cup {NoDatabase} /\ tile \in Tiles /\ data \in Data
        /\ latest \in [Tiles -> SUBSET Data]
    BY TypesOfInv, TypeFacts DEF Inv
  <1>1. /\ CanFail /\ lookup' = lookupSaved /\ rows' = rowsSaved
        /\ available' = First(Databases) /\ type' \in Extensions
        /\ retyped' = (retyped \/ type' # type)
        /\ UNCHANGED <<lookupSaved, rowsSaved, fileSize, moved, ahead>>
    BY DEF Restart
  <1>2. available' \in Databases
    BY <1>1, FirstIsIn
  <1>3. retyped' \in BOOLEAN /\ (~retyped' => ~retyped /\ type' = type)
    BY <1>0, <1>1 DEF DataTypes
  <1>4. Moves
    BY <1>1, <1>3 DEF Moves, RowsMove, SavedMove, LookupsMove, HistoryMoves
  <1>5. failures' \in 0..FailureBound
    BY <1>0, <1>1, FailureCounted DEF DataTypes
  <1>6. DataTypes'
    BY <1>0, <1>1, <1>2, <1>3, <1>5 DEF DataTypes
  <1>7. CASE op # "none"
    BY <1>4, <1>6, <1>7, Raised DEF Restart
  <1>8. CASE op = "none"
    <2>1. op' = "none" /\ UNCHANGED <<tile, data, where, latest>>
      BY <1>8 DEF Restart
    <2>2. op' \in Ops
      BY <2>1 DEF Ops
    <2>3. TypeOK'
      BY <1>0, <1>6, <2>1, <2>2, TypeFromFacts DEF DataTypes
    <2>4. Located' /\ NoRows' /\ Updated'
      BY <2>1 DEF Located, NoRows, Updated
    <2>5. ASSUME ~retyped', NEW t \in Plain'
          PROVE  ValuedAt(t)'
      <3>1. ~retyped /\ type' = type /\ t \in Plain /\ t \in Tiles /\ type \in Extensions
        BY <1>0, <1>1, <1>3, <2>5 DEF Plain, DataTypes
      <3>2. ValuedAt(t)
        BY <3>1 DEF Inv, Valued
      <3>3. May(t) = latest[t] \cup {NoData} /\ May(t)' = latest[t] \cup {NoData}
        BY <1>8, <2>1 DEF May
      <3>4. Kept(t) => Kept(t)'
        BY <1>1, <3>1 DEF Kept
      <3> QED
        BY <1>1, <1>8, <2>1, <3>1, <3>2, <3>3, <3>4 DEF ValuedAt
    <2>6. Valued'
      BY <2>5 DEF Valued
    <2> QED
      BY <1>4, <2>3, <2>4, <2>6, ListedStep, OneTypeStep DEF Inv
  <1> QED
    BY <1>7, <1>8

-----------------------------------------------------------------------------

LEMMA InvStep == Inv /\ [Next]_vars => Inv'
  <1> SUFFICES ASSUME Inv, [Next]_vars PROVE Inv'
    OBVIOUS
  <1>1. ASSUME NEW t \in Tiles, NEW d \in Sizes, Begin(t, d)
        PROVE  Inv'
    <2>1. /\ UNCHANGED <<lookups, stores, available, type, latest, ahead, retyped, failures>>
          /\ op = "none" /\ tile' = t /\ data' = d /\ where' = lookup[t]
          /\ moved' = IF op' = "moving" THEN moved \cup {t} ELSE moved
          /\ op' = IF ~TileIsStored(t) THEN "adding"
                   ELSE IF Fits(lookup[t], d) THEN "updating" ELSE "moving"
      BY <1>1 DEF Begin
    <2>2. op' \in {"adding", "updating", "moving"} /\ (op' = "adding" <=> lookup[t] = NoDatabase)
      BY <2>1 DEF TileIsStored
    <2>3. data' \in Data
      BY <2>1 DEF Data
    <2> QED
      BY <2>1, <2>2, <2>3, Begun
  <1>2. ASSUME NEW t \in Tiles, BeginDelete(t)
        PROVE  Inv'
    <2>1. /\ UNCHANGED <<lookups, stores, available, type, latest, moved, ahead, retyped, failures>>
          /\ op = "none" /\ op' = "deleting"
          /\ tile' = t /\ data' = NoData /\ where' = lookup[t]
          /\ lookup[t] # NoDatabase
      BY <1>2 DEF BeginDelete, TileIsStored, history
    <2>2. data' \in Data
      BY <2>1 DEF Data
    <2> QED
      BY <2>1, <2>2, Begun
  <1>3. CASE UNCHANGED vars
    <2>1. UNCHANGED <<lookup, lookupSaved, rows, rowsSaved, fileSize, available, type, op, tile,
                      data, where, failures, latest, moved, ahead, retyped>>
      BY <1>3 DEF vars, lookups, stores, opVars, history
    <2>2. TypeOK' /\ Located' /\ NoRows' /\ Updated' /\ Listed' /\ OneType'
      BY <2>1 DEF Inv, TypeOK, Located, NoRows, Updated, Listed, OneType, Plain
    <2>3. Valued'
      BY <2>1 DEF Inv, Valued, ValuedAt, May, Kept, Plain
    <2> QED
      BY <2>2, <2>3 DEF Inv
  <1> QED
    BY <1>1, <1>2, <1>3, UpdateKeeps, UpdateLookupKeeps, MoveKeeps, NothingKeeps, AddLookupKeeps,
       AddKeeps, DeleteKeeps, UnlistKeeps, FaultKeeps, RestartKeeps DEF Next

\* What the steps keep, whatever fails and whenever the store is opened anew.
THEOREM StoreInvariant == Spec => []Inv
  BY InvInit, InvStep, PTL DEF Spec

\* The lookup database names every storage database that holds a tile, pending
\* or committed, with commits that fail and kills between any two commits;
\* excepted are tiles that had to move, and those that were once updated where
\* an entry said that was itself still pending.
THEOREM RowsStayListed == Spec => []RowsAreListed
  <1>1. Inv => RowsAreListed
    <2> SUFFICES ASSUME Inv PROVE RowsAreListed
      OBVIOUS
    <2>1. TypeOK /\ Listed
      BY DEF Inv
    <2> QED
      BY <2>1 DEF RowsAreListed, Listed, Plain
  <1> QED
    BY <1>1, StoreInvariant, PTL

\* As long as only one type of row is there get_tile() returns its data.
LEMMA GetsValue ==
    ASSUME Inv, ~retyped, NEW t \in Tiles
    PROVE  GetTile(t) = IF lookup[t] = NoDatabase THEN NoData ELSE rows[lookup[t]][t][type]
  <1> DEFINE present == {e \in Extensions : rows[lookup[t]][t][e] # NoData}
  <1>1. lookup \in Lookups /\ type \in Extensions
    BY TypeFacts DEF Inv
  <1>2. GetTile(t) = IF lookup[t] = NoDatabase \/ present = {} THEN NoData
                     ELSE rows[lookup[t]][t][First(present)]
    BY DEF GetTile
  <1>3. CASE lookup[t] = NoDatabase
    BY <1>2, <1>3
  <1>4. CASE lookup[t] # NoDatabase
    <2>1. lookup[t] \in Databases
      BY <1>1, <1>4 DEF Lookups
    <2>2. \A e \in present : e = type
      BY <2>1 DEF Inv, OneType
    <2>3. CASE present = {}
      <3>1. rows[lookup[t]][t][type] = NoData
        BY <1>1, <2>3
      <3> QED
        BY <1>2, <1>4, <2>3, <3>1
    <2>4. CASE present # {}
      <3>1. present \in SUBSET Nat
        OBVIOUS
      <3> HIDE DEF present
      <3>2. First(present) \in present
        BY <2>4, <3>1, FirstIsIn
      <3>3. First(present) = type
        BY <2>2, <3>2
      <3> QED
        BY <1>2, <1>4, <2>4, <3>3
    <2> QED
      BY <2>3, <2>4
  <1> QED
    BY <1>3, <1>4

\* get_tile() returns what was stored last, or after a failure what was there
\* before or was to be there, whatever failed in between, with pending changes
\* written later or lost; for the tiles that RowsStayListed is about.
THEOREM GetsOldOrNew == Spec => []OldOrNew
  <1>1. Inv => OldOrNew
    <2> SUFFICES ASSUME Inv, NEW t \in Tiles \ (moved \cup ahead), op = "none", ~retyped
                 PROVE  GetTile(t) \in latest[t]
      BY DEF OldOrNew
    <2>1. ValuedAt(t) /\ lookup \in Lookups
      BY TypeFacts DEF Inv, Valued, Plain
    <2>2. May(t) = latest[t] \cup {NoData}
      BY DEF May
    <2>3. CASE lookup[t] = NoDatabase
      <3>1. NoData \in latest[t]
        BY <2>1, <2>3, Apart DEF ValuedAt, Kept
      <3> QED
        BY <2>3, <3>1, GetsValue
    <2>4. CASE lookup[t] # NoDatabase
      <3>1. lookup[t] \in Databases
        BY <2>1, <2>4 DEF Lookups
      <3>2. rows[lookup[t]][t][type] \in latest[t] \cup {NoData}
        BY <2>1, <2>2, <3>1 DEF ValuedAt
      <3>3. rows[lookup[t]][t][type] = NoData => NoData \in latest[t]
        BY <2>1 DEF ValuedAt, Kept
      <3> QED
        BY <2>4, <3>2, <3>3, GetsValue
    <2> QED
      BY <2>3, <2>4
  <1> QED
    BY <1>1, StoreInvariant, PTL

-----------------------------------------------------------------------------
(* The limit.                                                              *)

\* What is committed is within its file, and a row that is going to be written
\* would have room there.
LimitInv ==
    /\ \A d \in Databases : Used(rowsSaved[d]) <= fileSize[d]
    /\ op \in {"updating", "added"} => Fits(where, data)

\* A database of which nothing is pending.
Grows(d) ==
    \/ fileSize'[d] <= fileSize[d]
    \/ fileSize'[d] <= MaxSize
    \/ rows[d] # rowsSaved[d]

\* A commit is within the limit if the written row had room.
LEMMA CommitWithinLimit ==
    ASSUME rows \in Rows, rowsSaved \in Rows, fileSize \in [Databases -> Nat],
           LimitInv, NEW d \in Databases, rows' \in Rows,
           NEW t \in Tiles, NEW e \in Extensions, NEW s \in Data,
           rows'[d][t][e] = s,
           \A u \in Tiles, x \in Extensions :
              u # t \/ x # e => rows'[d][u][x] \in {rows[d][u][x], NoData},
           Fits(d, s) \/ s = NoData, CommitStore(d)
    PROVE  /\ \A b \in Databases : Grows(b)
           /\ \A b \in Databases : Used(rowsSaved'[b]) <= fileSize'[b]
  <1>1. /\ rowsSaved' \in Rows
        /\ \A b \in Databases : rowsSaved'[b] = IF b = d THEN rows'[b] ELSE rowsSaved[b]
        /\ fileSize' \in [Databases -> Nat]
        /\ \A b \in Databases : b # d => fileSize'[b] = fileSize[b]
        /\ fileSize'[d] \in {fileSize[d], Used(rows'[d])}
        /\ fileSize[d] <= fileSize'[d]
        /\ Used(rows'[d]) <= fileSize'[d]
    BY Committed
  <1>2. \A b \in Databases : Used(rowsSaved'[b]) <= fileSize'[b]
    BY <1>1 DEF LimitInv
  <1>3. ASSUME NEW b \in Databases, b # d
        PROVE  Grows(b)
    <2>1. fileSize'[b] = fileSize[b] /\ fileSize[b] \in Nat
      BY <1>1, <1>3
    <2> QED
      BY <2>1 DEF Grows
  <1>4. ASSUME rows[d] = rowsSaved[d]
        PROVE  fileSize'[d] <= fileSize[d] \/ fileSize'[d] <= MaxSize
    <2> DEFINE k == <<t, e>>
    <2>1. rows[d] \in SizesOf /\ rows'[d] \in SizesOf
      BY RowsAreSizes
    <2>2. k \in Keys /\ Size(rows'[d], k) = s
      BY DEF Keys, Size
    <2>3. ASSUME NEW x \in Keys \ {k}
          PROVE  Size(rows'[d], x) <= Size(rows[d], x)
      <3>1. x[1] \in Tiles /\ x[2] \in Extensions /\ (x[1] # t \/ x[2] # e)
        BY KeyParts
      <3>2. rows'[d][x[1]][x[2]] \in {rows[d][x[1]][x[2]], 0}
        BY <3>1 DEF NoData
      <3>3. rows[d][x[1]][x[2]] \in Nat
        <4>1. rows[d][x[1]] \in [Extensions -> Nat]
          BY <2>1, <3>1 DEF SizesOf
        <4> QED
          BY <3>1, <4>1
      <3> QED
        BY <3>2, <3>3 DEF Size
    <2>4. /\ Used(rows[d]) \in Nat /\ Used(rows'[d]) \in Nat
          /\ Used(rows'[d]) <= Used(rows[d]) + s
      <3> HIDE DEF k
      <3> QED
        BY <2>1, <2>2, <2>3, UsedBound
    <2>5. Used(rows[d]) <= fileSize[d] /\ fileSize[d] \in Nat /\ s \in Nat /\ MaxSize \in Nat
      <3>1. s \in Nat /\ MaxSize \in Nat
        BY StoreAssumption DEF Data, NoData
      <3>2. Used(rowsSaved[d]) <= fileSize[d]
        BY DEF LimitInv
      <3> QED
        BY <1>4, <3>1, <3>2
    <2>6. s = 0 \/ fileSize[d] + s <= MaxSize
      BY DEF Fits, NoData
    <2>7. Used(rows'[d]) <= fileSize[d] \/ Used(rows'[d]) <= MaxSize
      BY <2>4, <2>5, <2>6
    <2> QED
      BY <1>1, <2>5, <2>7
  <1> QED
    BY <1>2, <1>3, <1>4 DEF Grows

LEMMA LimitInit == Init => LimitInv
  <1> SUFFICES ASSUME Init PROVE LimitInv
    OBVIOUS
  <1>1. ASSUME NEW d \in Databases
        PROVE  Used(rowsSaved[d]) = 0
    <2>1. ASSUME NEW x \in Keys
          PROVE  Size(rowsSaved[d], x) = 0
      <3>1. x[1] \in Tiles /\ x[2] \in Extensions
        BY KeyParts
      <3> QED
        BY <3>1 DEF Init, Size, NoData
    <2> QED
      BY <2>1, NothingUsed
  <1>2. fileSize = [d \in Databases |-> 0] /\ op = "none"
    BY DEF Init
  <1> QED
    BY <1>1, <1>2 DEF LimitInv

LEMMA LimitStep ==
    ASSUME Inv, LimitInv, [Next]_vars
    PROVE  LimitInv' /\ \A d \in Databases : Grows(d)
  <1>0. /\ Located /\ tile \in Tiles /\ type \in Extensions /\ data \in Data
        /\ available \in Databases
        /\ rows \in Rows /\ rowsSaved \in Rows /\ fileSize \in [Databases -> Nat]
    BY TypesOfInv
  <1>1. ASSUME UNCHANGED <<rowsSaved, fileSize>>,
               op' \in {"updating", "added"} => Fits(where', data')
        PROVE  LimitInv' /\ \A d \in Databases : Grows(d)
    <2>1. \A d \in Databases : fileSize'[d] = fileSize[d] /\ fileSize[d] \in Nat
      BY <1>0, <1>1
    <2>2. ASSUME NEW d \in Databases
          PROVE  Grows(d)
      <3>1. fileSize'[d] = fileSize[d] /\ fileSize[d] \in Nat
        BY <2>1
      <3> QED
        BY <3>1 DEF Grows
    <2>3. \A d \in Databases : Used(rowsSaved'[d]) <= fileSize'[d]
      BY <1>1 DEF LimitInv
    <2>4. op' \in {"updating", "added"} => fileSize'[where'] + data' <= MaxSize
      BY <1>1 DEF Fits
    <2> QED
      BY <2>2, <2>3, <2>4 DEF LimitInv, Fits
  <1>2. ASSUME NEW d \in Databases, SetRow(d, tile, type, data), Fits(d, data), CommitStore(d),
               op' \notin {"updating", "added"}
        PROVE  LimitInv' /\ \A b \in Databases : Grows(b)
    <2>1. /\ rows' \in Rows
          /\ \A b \in Databases, u \in Tiles, x \in Extensions :
                rows'[b][u][x] = IF b = d /\ u = tile /\ x = type THEN data ELSE rows[b][u][x]
      <3>1. /\ rows \in Rows /\ tile \in Tiles /\ type \in Extensions
            /\ data \in Data /\ SetRow(d, tile, type, data)
        BY <1>0, <1>2
      <3>2. OneRowSet(d, tile, type, data)
        BY <3>1, RowSet
      <3> QED
        BY <3>2 DEF OneRowSet
    <2>2. rows'[d][tile][type] = data
      BY <1>0, <2>1
    <2>3. \A u \in Tiles, x \in Extensions :
              u # tile \/ x # type => rows'[d][u][x] \in {rows[d][u][x], NoData}
      BY <2>1
    <2>4. /\ \A b \in Databases : Grows(b)
          /\ \A b \in Databases : Used(rowsSaved'[b]) <= fileSize'[b]
      <3>1. /\ rows \in Rows /\ rowsSaved \in Rows /\ fileSize \in [Databases -> Nat]
            /\ LimitInv /\ rows' \in Rows /\ tile \in Tiles /\ type \in Extensions
            /\ data \in Data /\ Fits(d, data) /\ CommitStore(d)
        BY <1>0, <1>2, <2>1
      <3> QED
        BY <3>1, <2>2, <2>3, CommitWithinLimit, SMTT(60)
    <2> QED
      BY <1>2, <2>4 DEF LimitInv
  <1>3. ASSUME where \in Databases, ClearRows(where, tile), CommitStore(where),
               op' \notin {"updating", "added"}
        PROVE  LimitInv' /\ \A b \in Databases : Grows(b)
    <2>1. /\ rows' \in Rows
          /\ \A b \in Databases, u \in Tiles, x \in Extensions :
                rows'[b][u][x] = IF b = where /\ u = tile THEN NoData ELSE rows[b][u][x]
      BY <1>0, <1>3, RowsCleared
    <2>2. rows'[where][tile][type] = NoData /\ NoData \in Data
      BY <1>0, <1>3, <2>1 DEF Data
    <2>3. \A u \in Tiles, x \in Extensions :
              u # tile \/ x # type => rows'[where][u][x] \in {rows[where][u][x], NoData}
      BY <1>3, <2>1
    <2>4. /\ \A b \in Databases : Grows(b)
          /\ \A b \in Databases : Used(rowsSaved'[b]) <= fileSize'[b]
      <3>1. /\ rows \in Rows /\ rowsSaved \in Rows /\ fileSize \in [Databases -> Nat]
            /\ LimitInv /\ rows' \in Rows /\ tile \in Tiles /\ type \in Extensions
            /\ NoData \in Data /\ CommitStore(where)
        BY <1>0, <1>3, <2>1, <2>2
      <3> QED
        BY <1>3, <3>1, <2>2, <2>3, CommitWithinLimit, SMTT(60)
    <2> QED
      BY <1>3, <2>4 DEF LimitInv
  <1>4. ASSUME NEW t \in Tiles, NEW d \in Sizes, Begin(t, d)
        PROVE  LimitInv' /\ \A b \in Databases : Grows(b)
    <2>1. UNCHANGED <<rowsSaved, fileSize>> /\ where' = lookup[t] /\ data' = d
          /\ op' \notin {"added"} /\ (op' = "updating" => Fits(lookup[t], d))
      BY <1>4 DEF Begin, stores
    <2> QED
      BY <1>1, <2>1
  <1>5. CASE Update
    <2>1. /\ where \in Databases /\ data \in Sizes /\ Fits(where, data)
          /\ SetRow(where, tile, type, data) /\ Stored(where, "updated")
      BY <1>0, <1>5 DEF Update, Located, LimitInv
    <2>2. op' \in {"none", "updated"}
      BY <2>1 DEF Stored, Goto, Break, Raise, Finish
    <2>3. CommitStore(where) \/ UNCHANGED <<rowsSaved, fileSize>>
      BY <2>1 DEF Stored
    <2> QED
      BY <1>1, <1>2, <2>1, <2>2, <2>3
  <1>6. CASE MoveDelete \/ Delete
    <2>1. /\ where \in Databases /\ ClearRows(where, tile)
          /\ Stored(where, "deleted") \/ Stored(where, "unlisting")
      BY <1>0, <1>6 DEF MoveDelete, Delete, Located
    <2>2. op' \in {"none", "deleted", "unlisting"}
      BY <2>1 DEF Stored, Goto, Break, Raise, Finish
    <2>3. CommitStore(where) \/ UNCHANGED <<rowsSaved, fileSize>>
      BY <2>1 DEF Stored
    <2> QED
      BY <1>1, <1>3, <2>1, <2>2, <2>3
  <1>7. CASE MoveInsert
    <2>1. PICK d \in Candidates(data) : SetRow(d, tile, type, data) /\ Stored(d, "moved")
      BY <1>7 DEF MoveInsert
    <2>2. d \in Databases /\ Fits(d, data)
      BY <1>0, <2>1 DEF Candidates
    <2>3. op' \in {"none", "moved"} /\ (CommitStore(d) \/ UNCHANGED <<rowsSaved, fileSize>>)
      BY <2>1 DEF Stored, Goto, Break, Raise, Finish
    <2> QED
      BY <1>1, <1>2, <2>1, <2>2, <2>3
  <1>8. CASE AddLookup
    <2>1. PICK d \in Candidates(data) :
             op' = "none" \/ (where' = d /\ data' = data)
      BY <1>8 DEF AddLookup, Break, Raise, Finish
    <2>2. Fits(d, data) /\ UNCHANGED <<rowsSaved, fileSize>>
      BY <1>0, <1>8, <2>1 DEF AddLookup, Candidates, stores
    <2> QED
      BY <1>1, <2>1, <2>2
  <1>9. CASE Add
    <2>1. where \in Databases /\ data \in Sizes /\ Fits(where, data) /\ op' = "none"
      BY <1>0, <1>9 DEF Add, Located, LimitInv, Succeed, Break, Fail, Raise, Finish
    <2>2. \/ SetRow(where, tile, type, data) /\ CommitStore(where)
          \/ UNCHANGED <<rowsSaved, fileSize>>
      BY <1>9 DEF Add, stores
    <2> QED
      BY <1>1, <1>2, <2>1, <2>2
  <1>10. CASE UpdateLookup \/ MoveLookup \/ NoRoom \/ Unlist \/ Fault \/ FaultRollsBack
    <2>1. op' = "none" /\ UNCHANGED <<rowsSaved, fileSize>>
      BY <1>10 DEF UpdateLookup, MoveLookup, NoRoom, Unlist, Fault, FaultRollsBack, Succeed, Break,
                   Fail, Raise, Finish, stores
    <2> QED
      BY <1>1, <2>1
  <1>11. CASE Restart
    <2>1. op' = "none" /\ UNCHANGED <<rowsSaved, fileSize>>
      BY <1>11 DEF Restart, Raise, Finish
    <2> QED
      BY <1>1, <2>1
  <1>12. ASSUME NEW t \in Tiles, BeginDelete(t)
         PROVE  LimitInv' /\ \A b \in Databases : Grows(b)
    <2>1. op' = "deleting" /\ UNCHANGED <<rowsSaved, fileSize>>
      BY <1>12 DEF BeginDelete, stores
    <2> QED
      BY <1>1, <2>1
  <1>13. CASE UNCHANGED vars
    <2>1. UNCHANGED <<rowsSaved, fileSize, op, where, data>>
      BY <1>13 DEF vars, stores, opVars
    <2> QED
      BY <1>1, <2>1 DEF LimitInv
  <1> QED
    BY <1>4, <1>5, <1>6, <1>7, <1>8, <1>9, <1>10, <1>11, <1>12, <1>13 DEF Next

\* A storage database grows past its limit (MAX_STORAGE_DB_FILE_SIZE) only by a
\* commit that also writes what a failed one left pending: not by updates in
\* place, moves and insertions of data of any sizes, with the space of deleted
\* rows reused and with failures and restarts at every step.
THEOREM StaysWithinLimit == Spec => WithinLimit
  <1>1. Inv /\ LimitInv /\ [Next]_vars =>
            [\A d \in Databases :
                \/ fileSize'[d] <= fileSize[d]
                \/ fileSize'[d] <= MaxSize
                \/ rows[d] # rowsSaved[d]]_vars
    BY LimitStep DEF Grows
  <1>2. Inv /\ LimitInv /\ [Next]_vars => LimitInv'
    BY LimitStep
  <1> QED
    BY <1>1, <1>2, InvInit, InvStep, LimitInit, PTL DEF Spec, WithinLimit

=============================================================================
