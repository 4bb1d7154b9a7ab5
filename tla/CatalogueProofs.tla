--------------------------- MODULE CatalogueProofs ---------------------------
(***************************************************************************)
(* Theorems of Catalogue.  The list rests on one fact about ids: among     *)
(* finitely many of them the ranks are 0, 1, 2, ... without a gap, so a    *)
(* window of ranks holds as many ids as it is wide, unless the ids end in  *)
(* it.                                                                     *)
(***************************************************************************)
EXTENDS Catalogue, FiniteSetTheorems, TLAPS

Place(V, v) == Cardinality({w \in V : w < v})
Window(V, a, s) == {v \in V : a <= Place(V, v) /\ Place(V, v) < a + s}

-----------------------------------------------------------------------------
(* RANKS                                                                   *)

(* The rank of an id counts some of the others.                            *)
LEMMA PlaceIsBelowCardinality ==
    ASSUME NEW V \in SUBSET Nat, IsFiniteSet(V), NEW v \in V
    PROVE  Place(V, v) \in 0..(Cardinality(V) - 1)
<1> DEFINE B == {w \in V : w < v}
<1>1. v \notin B
  OBVIOUS
<1>2. B \in SUBSET (V \ {v})
  BY <1>1
<1>3. IsFiniteSet(V \ {v}) /\ Cardinality(V \ {v}) = Cardinality(V) - 1
  BY FS_RemoveElement
<1>4. IsFiniteSet(B) /\ Cardinality(B) <= Cardinality(V) - 1
  BY <1>2, <1>3, FS_Subset
<1>5. Cardinality(B) \in Nat /\ Cardinality(V) \in Nat
  BY <1>4, FS_CardinalityType
<1> QED
  BY <1>4, <1>5 DEF Place

(* A larger id has a larger rank.                                          *)
LEMMA PlaceIsStrict ==
    ASSUME NEW V \in SUBSET Nat, IsFiniteSet(V), NEW u \in V, NEW v \in V, u < v
    PROVE  Place(V, u) < Place(V, v)
<1> DEFINE B == {w \in V : w < v}
           A == {w \in V : w < u}
<1>1. IsFiniteSet(B)
  <2> B \in SUBSET V
    OBVIOUS
  <2> QED
    BY FS_Subset
<1>2. IsFiniteSet(B \ {u}) /\ Cardinality(B \ {u}) = Cardinality(B) - 1
  <2> u \in B
    OBVIOUS
  <2> QED
    BY <1>1, FS_RemoveElement
<1>3. A \in SUBSET (B \ {u})
  <2> SUFFICES ASSUME NEW w \in A
               PROVE  w \in B /\ w # u
    OBVIOUS
  <2>1. w \in Nat /\ u \in Nat /\ v \in Nat /\ w < u
    OBVIOUS
  <2>2. w < v /\ w # u
    BY <2>1
  <2> QED
    BY <2>2
<1>4. IsFiniteSet(A) /\ Cardinality(A) <= Cardinality(B) - 1
  BY <1>2, <1>3, FS_Subset
<1>5. Cardinality(A) \in Nat /\ Cardinality(B) \in Nat
  BY <1>1, <1>4, FS_CardinalityType
<1> QED
  BY <1>4, <1>5 DEF Place

(* An insertion lowers no rank.                                            *)
LEMMA PlaceGrows ==
    ASSUME NEW W \in SUBSET Nat, IsFiniteSet(W), NEW V \in SUBSET W, NEW v \in Nat
    PROVE  /\ Place(V, v) \in Nat
           /\ Place(W, v) \in Nat
           /\ Place(V, v) <= Place(W, v)
<1> DEFINE A == {w \in V : w < v}
           B == {w \in W : w < v}
<1>1. IsFiniteSet(B)
  <2> B \in SUBSET W
    OBVIOUS
  <2> QED
    BY FS_Subset
<1>2. A \in SUBSET B
  OBVIOUS
<1>3. IsFiniteSet(A) /\ Cardinality(A) <= Cardinality(B)
  BY <1>1, <1>2, FS_Subset
<1>4. Cardinality(A) \in Nat /\ Cardinality(B) \in Nat
  BY <1>1, <1>3, FS_CardinalityType
<1> QED
  BY <1>3, <1>4 DEF Place

(* An injection into as many numbers as there are elements has no gap.     *)
LEMMA Numbering ==
    ASSUME NEW V, IsFiniteSet(V), NEW f \in Injection(V, 0..(Cardinality(V) - 1)),
           NEW a \in Nat, NEW b \in Nat, a <= b, b <= Cardinality(V)
    PROVE  Cardinality({v \in V : a <= f[v] /\ f[v] < b}) = b - a
<1> DEFINE n == Cardinality(V)
           S == {v \in V : a <= f[v] /\ f[v] < b}
           g == [v \in S |-> f[v]]
<1>0. n \in Nat
  BY FS_CardinalityType
<1>1. /\ \A v \in V : f[v] \in 0..(n - 1)
      /\ \A u, v \in V : f[u] = f[v] => u = v
  BY DEF Injection, IsInjective
<1>4. IsFiniteSet(0..(n - 1)) /\ Cardinality(0..(n - 1)) = n
  <2> HIDE DEF n
  <2>1. n - 1 \in Int /\ 0 \in Int
    BY <1>0
  <2>2. /\ IsFiniteSet(0..(n - 1))
        /\ Cardinality(0..(n - 1)) = IF 0 > n - 1 THEN 0 ELSE (n - 1) - 0 + 1
    BY <2>1, FS_Interval
  <2> QED
    BY <2>2, <1>0
<1>5. f \in Surjection(V, 0..(n - 1))
  BY <1>4, FS_Injection
<1>6. g \in Bijection(S, a..(b - 1))
  <2>1. g \in [S -> a..(b - 1)]
    <3>1. \A v \in S : f[v] \in Nat /\ a <= f[v] /\ f[v] < b
      BY <1>1
    <3> HIDE DEF S
    <3>2. \A v \in S : f[v] \in a..(b - 1)
      BY <3>1
    <3> QED
      BY <3>2
  <2>2. g \in Injection(S, a..(b - 1))
    BY <2>1, <1>1 DEF Injection, IsInjective
  <2>3. \A k \in a..(b - 1) : \E v \in S : g[v] = k
    <3> SUFFICES ASSUME NEW k \in a..(b - 1)
                 PROVE  \E v \in S : g[v] = k
      OBVIOUS
    <3>1. k \in 0..(n - 1)
      BY <1>0
    <3>2. PICK v \in V : f[v] = k
      BY <3>1, <1>5 DEF Surjection
    <3>3. v \in S
      BY <3>2, <1>1, <1>0
    <3> QED
      BY <3>2, <3>3
  <2> QED
    BY <2>1, <2>2, <2>3 DEF Bijection, Surjection
<1>7. IsFiniteSet(S)
  <2> S \in SUBSET V
    OBVIOUS
  <2> QED
    BY FS_Subset
<1>8. ExistsBijection(S, a..(b - 1))
  BY <1>6 DEF ExistsBijection
<1>9. Cardinality(a..(b - 1)) = Cardinality(S)
  BY <1>7, <1>8, FS_Bijection
<1>10. Cardinality(a..(b - 1)) = b - a
  <2>1. b - 1 \in Int /\ a \in Int
    OBVIOUS
  <2>2. Cardinality(a..(b - 1)) = IF a > b - 1 THEN 0 ELSE (b - 1) - a + 1
    BY <2>1, FS_Interval
  <2> QED
    BY <2>2
<1> QED
  BY <1>9, <1>10

(* Ranks have no gap.                                                      *)
LEMMA PlacesBetween ==
    ASSUME NEW V \in SUBSET Nat, IsFiniteSet(V), NEW a \in Nat, NEW b \in Nat,
           a <= b, b <= Cardinality(V)
    PROVE  Cardinality({v \in V : a <= Place(V, v) /\ Place(V, v) < b}) = b - a
<1> DEFINE n == Cardinality(V)
           f == [v \in V |-> Place(V, v)]
<1>0. n \in Nat
  BY FS_CardinalityType
<1>1. \A v \in V : Place(V, v) \in 0..(n - 1)
  BY PlaceIsBelowCardinality
<1>2. \A u, v \in V : Place(V, u) = Place(V, v) => u = v
  <2> SUFFICES ASSUME NEW u \in V, NEW v \in V, u # v
               PROVE  Place(V, u) # Place(V, v)
    OBVIOUS
  <2>1. u < v \/ v < u
    OBVIOUS
  <2>2. Place(V, u) < Place(V, v) \/ Place(V, v) < Place(V, u)
    BY <2>1, PlaceIsStrict
  <2> QED
    BY <2>2, <1>1, <1>0
<1>3. f \in Injection(V, 0..(n - 1))
  BY <1>1, <1>2 DEF Injection, IsInjective
<1>4. Cardinality({v \in V : a <= f[v] /\ f[v] < b}) = b - a
  <2> HIDE DEF f
  <2> QED
    BY <1>3, Numbering
<1>5. {v \in V : a <= f[v] /\ f[v] < b} = {v \in V : a <= Place(V, v) /\ Place(V, v) < b}
  OBVIOUS
<1> QED
  BY <1>4, <1>5

(* A window that starts among the ids holds at most its width, does not    *)
(* reach past the last id, and is short only when it passes it.            *)
LEMMA WindowSize ==
    ASSUME NEW V \in SUBSET Nat, IsFiniteSet(V), NEW a \in Nat, NEW s \in Nat,
           a <= Cardinality(V)
    PROVE  /\ Cardinality(Window(V, a, s)) <= s
           /\ a + Cardinality(Window(V, a, s)) <= Cardinality(V)
           /\ Cardinality(Window(V, a, s)) < s => \A v \in V : Place(V, v) < a + s
<1> DEFINE n == Cardinality(V)
<1>0. n \in Nat
  BY FS_CardinalityType
<1>1. \A v \in V : Place(V, v) \in 0..(n - 1)
  BY PlaceIsBelowCardinality
<1>2. CASE a + s <= n
  <2>1. Cardinality(Window(V, a, s)) = (a + s) - a
    BY <1>2, <1>0, PlacesBetween DEF Window
  <2> QED
    BY <2>1, <1>2, <1>0
<1>3. CASE n < a + s
  <2>1. \A v \in V : Place(V, v) < a + s /\ Place(V, v) < n
    <3> HIDE DEF n
    <3> QED
      BY <1>3, <1>1, <1>0
  <2>3. Window(V, a, s) = {v \in V : a <= Place(V, v) /\ Place(V, v) < n}
    BY <2>1 DEF Window
  <2>2. Cardinality(Window(V, a, s)) = n - a
    BY <2>3, <1>0, PlacesBetween
  <2> QED
    BY <2>1, <2>2, <1>3, <1>0
<1> QED
  BY <1>2, <1>3, <1>0

(* Turning a page adds its size, and no walk begins behind the first row.  *)
LEMMA NextSkip ==
    ASSUME NEW page \in Int, NEW size \in Int
    PROVE  Skip(page + 1, size) = Skip(page, size) + size /\ Skip(page, size) \in Int
<1>1. ((page + 1) - 1) * size = (page - 1) * size + size
  OBVIOUS
<1> QED
  BY <1>1 DEF Skip

LEMMA FirstSkip ==
    ASSUME NEW page \in Int, NEW size \in Nat, page <= 1
    PROVE  Skip(page, size) <= 0 /\ Skip(page, 0) = 0
<1>1. \A k \in Int : k <= 0 => k * size <= 0
  OBVIOUS
<1>2. page - 1 <= 0 /\ page - 1 \in Int
  OBVIOUS
<1>3. (page - 1) * size <= 0
  BY <1>1, <1>2
<1> QED
  BY <1>3 DEF Skip

(* Any set of videos is a finite set of numbers.                           *)
LEMMA VideosAreFinite ==
    ASSUME NEW V \in SUBSET Ids
    PROVE  V \in SUBSET Nat /\ IsFiniteSet(V) /\ Cardinality(V) \in Nat
<1>1. V \in SUBSET Nat /\ IsFiniteSet(V)
  BY IdsAreOrdered, FS_Subset
<1> QED
  BY <1>1, FS_CardinalityType

LEMMA SubsetIsSmaller ==
    ASSUME NEW V \in SUBSET Ids, NEW U \in SUBSET V
    PROVE  Cardinality(U) \in Nat /\ Cardinality(V) \in Nat /\ Cardinality(U) <= Cardinality(V)
<1>1. IsFiniteSet(V) /\ Cardinality(V) \in Nat
  BY VideosAreFinite
<1>2. U \in SUBSET Ids
  OBVIOUS
<1> QED
  BY <1>1, <1>2, VideosAreFinite, FS_Subset

(* What the second half of a page may repeat: sets that do not meet.       *)
LEMMA DisjointSum ==
    ASSUME NEW A \in SUBSET Ids, NEW B \in SUBSET Ids, A \cap B = {},
           NEW C \in SUBSET Ids, A \cup B \subseteq C
    PROVE  Cardinality(A) + Cardinality(B) <= Cardinality(C)
<1>1. Cardinality(A \cup B) = Cardinality(A) + Cardinality(B) - Cardinality({})
  BY VideosAreFinite, FS_Union
<1>2. Cardinality({}) = 0
  BY FS_EmptySet
<1>3. Cardinality(A \cup B) <= Cardinality(C)
  BY SubsetIsSmaller
<1>4. Cardinality(A) \in Nat /\ Cardinality(B) \in Nat
  BY VideosAreFinite
<1> QED
  BY <1>1, <1>2, <1>3, <1>4

LEMMA UnionIsSmaller ==
    ASSUME NEW A \in SUBSET Ids, NEW B \in SUBSET Ids
    PROVE  Cardinality(A \cup B) <= Cardinality(A) + Cardinality(B)
<1>1. Cardinality(A \cup B) = Cardinality(A) + Cardinality(B) - Cardinality(A \cap B)
  BY VideosAreFinite, FS_Union
<1>2. A \cap B \in SUBSET Ids
  OBVIOUS
<1>3. Cardinality(A \cap B) \in Nat /\ Cardinality(A) \in Nat /\ Cardinality(B) \in Nat
  BY <1>2, VideosAreFinite
<1> QED
  BY <1>1, <1>3

-----------------------------------------------------------------------------
(* THE INVARIANTS                                                          *)

(* Types, and what of the videos a walk knows.                             *)
Known == walk.start \subseteq videos /\ report.asked \subseteq videos

(* The client has seen every video of the start that is numbered before    *)
(* the page it asks for, and with the page at hand those up to its end.    *)
Seen ==
    /\ walk.pc = "ask" /\ walk.size >= 0 =>
         \A v \in walk.start : Place(videos, v) < Skip(walk.page, walk.size) => v \in walk.got
    /\ walk.pc = "rows" =>
         /\ walk.size >= 0
         /\ \A v \in walk.start : Place(videos, v) < Skip(walk.page, walk.size) + walk.size
                                 => v \in walk.got \cup walk.ids
         /\ walk.size = 0 \/ Cardinality(walk.ids) < walk.size
              => walk.start \subseteq walk.got \cup walk.ids
    /\ walk.pc = "done" => walk.start \subseteq walk.got

(* So many items were delivered as the next page skips, and there are as   *)
(* many videos.                                                            *)
Delivered ==
    /\ walk.pc = "idle" => walk.delivered = 0 /\ walk.got = {}
    /\ walk.pc = "ask" /\ walk.size >= 0 /\ Skip(walk.page, walk.size) >= 0 =>
         /\ walk.delivered = Skip(walk.page, walk.size)
         /\ walk.delivered <= Cardinality(videos)
    /\ walk.pc = "rows" =>
         /\ walk.size >= 0
         /\ walk.delivered = Skip(walk.page, walk.size)
         /\ walk.size > 0 => Cardinality(walk.ids) <= walk.size
         /\ walk.delivered + Cardinality(walk.ids) <= Cardinality(videos)
         /\ walk.delivered + Cardinality(walk.ids)
              <= Cardinality(walk.got \cup walk.ids) + Cardinality(videos \ walk.start)

(* The report chose by the counters of its first statement, and counters   *)
(* only grow.                                                              *)
Chosen ==
    /\ report.pc \in {"rows", "send", "done"} =>
         \A v \in report.ids, w \in report.asked \ report.ids : report.before[w] <= report.before[v]
    /\ report.pc = "rows" => \A v \in Ids : report.before[v] <= count[v]
    /\ report.pc \in {"send", "done"} =>
         \A v \in report.ids : report.before[v] <= report.printed[v]

IInv == TypeOK /\ Known /\ Seen /\ RepeatsAreInserts /\ Delivered /\ Chosen /\ SentInProductionIsMailed

(* The initial states satisfy the invariant.                               *)
LEMMA Start == Init => IInv
<1> SUFFICES ASSUME Init PROVE IInv
  OBVIOUS
<1>1. TypeOK
  BY DEF Init, TypeOK, Walk, Report, Zero
<1>2. Known /\ Seen /\ Delivered /\ Chosen /\ SentInProductionIsMailed
  BY DEF Init, Known, Seen, Delivered, Chosen, SentInProductionIsMailed
<1>3. RepeatsAreInserts
  <2>1. walk.delivered = 0 /\ walk.got = {} /\ walk.start = {} /\ videos \in SUBSET Ids
    BY DEF Init
  <2>2. Cardinality({}) = 0 /\ Cardinality(videos \ {}) \in Nat
    BY <2>1, FS_EmptySet, VideosAreFinite
  <2> QED
    BY <2>1, <2>2 DEF RepeatsAreInserts
<1> QED
  BY <1>1, <1>2, <1>3 DEF IInv

-----------------------------------------------------------------------------
(* THE STEPS                                                               *)

(* An upload makes no rank and no number of videos smaller.                *)
LEMMA InsertKeeps ==
    ASSUME IInv, NEW u \in Ids, Insert(u)
    PROVE  IInv'
<1> USE DEF IInv
<1>0. /\ videos \in SUBSET Ids /\ videos' \in SUBSET Ids /\ videos \in SUBSET videos'
      /\ walk' = walk /\ report' = report /\ count' = count /\ settings' = settings
  BY DEF Insert, TypeOK
<1>1. TypeOK'
  BY <1>0 DEF TypeOK
<1>2. Known'
  BY <1>0 DEF Known
<1>3. Seen'
  <2>1. \A v \in Ids : /\ Place(videos, v) \in Nat /\ Place(videos', v) \in Nat
                       /\ Place(videos, v) <= Place(videos', v)
    <3> SUFFICES ASSUME NEW v \in Ids
                 PROVE  /\ Place(videos, v) \in Nat /\ Place(videos', v) \in Nat
                        /\ Place(videos, v) <= Place(videos', v)
      OBVIOUS
    <3>1. v \in Nat /\ videos' \in SUBSET Nat /\ IsFiniteSet(videos')
      BY <1>0, IdsAreOrdered, VideosAreFinite
    <3> QED
      BY <3>1, <1>0, PlaceGrows
  <2>2. walk.page \in Int /\ walk.size \in Int /\ walk.start \subseteq Ids
    BY DEF TypeOK, Walk
  <2>3. Skip(walk.page, walk.size) \in Int
    BY <2>2, NextSkip
  <2>4. CASE walk.pc = "ask"
    BY <2>1, <2>2, <2>3, <2>4, <1>0 DEF Seen, Skip
  <2>5. CASE walk.pc = "rows"
    <3>1. \A v \in walk.start : Place(videos', v) < Skip(walk.page, walk.size) + walk.size
                               => Place(videos, v) < Skip(walk.page, walk.size) + walk.size
      BY <2>1, <2>2, <2>3
    <3> QED
      BY <3>1, <2>5, <1>0 DEF Seen, Skip
  <2>6. CASE walk.pc \notin {"ask", "rows"}
    BY <2>6, <1>0 DEF Seen
  <2> QED
    BY <2>4, <2>5, <2>6
<1>4. /\ Cardinality(videos) \in Nat /\ Cardinality(videos') \in Nat
      /\ Cardinality(videos) <= Cardinality(videos')
      /\ Cardinality(videos \ walk.start) \in Nat /\ Cardinality(videos' \ walk.start) \in Nat
      /\ Cardinality(videos \ walk.start) <= Cardinality(videos' \ walk.start)
  <2>1. /\ videos' \ walk.start \in SUBSET Ids
        /\ videos \ walk.start \in SUBSET (videos' \ walk.start)
    BY <1>0
  <2> QED
    BY <2>1, <1>0, SubsetIsSmaller
<1>5. /\ Cardinality(walk.got) \in Nat /\ Cardinality(walk.ids) \in Nat
      /\ Cardinality(walk.got \cup walk.ids) \in Nat /\ walk.delivered \in Nat
  <2>1. /\ walk.got \in SUBSET Ids /\ walk.ids \in SUBSET Ids
        /\ walk.got \cup walk.ids \in SUBSET Ids /\ walk.delivered \in Nat
    BY DEF TypeOK, Walk
  <2> QED
    BY <2>1, VideosAreFinite
<1>6. RepeatsAreInserts'
  BY <1>0, <1>4, <1>5 DEF RepeatsAreInserts
<1>7. Delivered'
  <2>1. walk.pc = "ask" => Delivered'
    BY <1>0, <1>4, <1>5 DEF Delivered, Skip
  <2>2. walk.pc = "rows" => Delivered'
    BY <1>0, <1>4, <1>5 DEF Delivered, Skip
  <2> QED
    BY <1>0, <2>1, <2>2 DEF Delivered
<1>8. Chosen' /\ SentInProductionIsMailed'
  BY <1>0 DEF Chosen, SentInProductionIsMailed
<1> QED
  BY <1>1, <1>2, <1>3, <1>6, <1>7, <1>8

(* A download moves one counter up.                                        *)
LEMMA ViewKeeps ==
    ASSUME IInv, NEW u \in Ids, View(u)
    PROVE  IInv'
<1> USE DEF IInv
<1>0. /\ videos' = videos /\ walk' = walk /\ report' = report /\ settings' = settings
      /\ count \in [Ids -> Nat] /\ count' = [count EXCEPT ![u] = @ + 1]
  BY DEF View, TypeOK, OneMore
<1>1. TypeOK'
  BY <1>0 DEF TypeOK
<1>2. Known' /\ Seen' /\ RepeatsAreInserts' /\ Delivered' /\ SentInProductionIsMailed'
  BY <1>0 DEF Known, Seen, RepeatsAreInserts, Delivered, SentInProductionIsMailed, Place, Skip
<1>3. Chosen'
  <2>1. \A v \in Ids : count[v] <= count'[v] /\ count[v] \in Nat /\ count'[v] \in Nat
    BY <1>0
  <2>2. report.before \in [Ids -> Nat]
    BY DEF TypeOK, Report
  <2> QED
    BY <1>0, <2>1, <2>2 DEF Chosen
<1> QED
  BY <1>1, <1>2, <1>3

(* A walk begins: nothing skipped, nothing delivered.                      *)
LEMMA WalkBeginKeeps ==
    ASSUME IInv, NEW page \in FirstPages, NEW size \in Sizes, WalkBegin(page, size)
    PROVE  IInv'
<1> USE DEF IInv
<1>0. /\ videos' = videos /\ count' = count /\ report' = report /\ settings' = settings
      /\ page \in Int /\ page <= 1 /\ size \in Int /\ videos \in SUBSET Ids
      /\ walk.pc = "idle"
      /\ walk' \in Walk /\ walk'.pc = "ask" /\ walk'.page = page /\ walk'.size = size
      /\ walk'.start = videos /\ walk'.got = walk.got /\ walk'.delivered = walk.delivered
      /\ walk'.ids = walk.ids
  BY WalksBeginInFront, SizesAreNumbers DEF WalkBegin, TypeOK, Walk
<1>1. TypeOK'
  BY <1>0 DEF TypeOK
<1>2. Known'
  BY <1>0 DEF Known
<1>3. size >= 0 => Skip(page, size) <= 0
  <2> SUFFICES ASSUME size >= 0 PROVE Skip(page, size) <= 0
    OBVIOUS
  <2>1. size \in Nat
    BY <1>0
  <2> QED
    BY <2>1, <1>0, FirstSkip
<1>4. Skip(page, size) \in Int
  BY <1>0, NextSkip
<1>5. Cardinality(videos) \in Nat /\ \A v \in videos : Place(videos, v) \in Nat
  <2>1. videos \in SUBSET Nat /\ IsFiniteSet(videos) /\ Cardinality(videos) \in Nat
    BY <1>0, VideosAreFinite
  <2>2. \A v \in videos : Place(videos, v) \in 0..(Cardinality(videos) - 1)
    BY <2>1, PlaceIsBelowCardinality
  <2> QED
    BY <2>1, <2>2
<1>6. Seen'
  <2>1. size >= 0 => \A v \in videos : ~(Place(videos, v) < Skip(page, size))
    BY <1>3, <1>4, <1>5
  <2> QED
    BY <1>0, <2>1 DEF Seen, Place, Skip
<1>7. walk.delivered = 0 /\ walk.got = {}
  BY <1>0 DEF Delivered
<1>8. Delivered'
  <2>1. size >= 0 /\ Skip(page, size) >= 0 => Skip(page, size) = 0 /\ 0 <= Cardinality(videos)
    BY <1>3, <1>4, <1>5
  <2> QED
    BY <1>0, <1>7, <2>1 DEF Delivered, Skip
<1>9. RepeatsAreInserts'
  <2>1. Cardinality({}) = 0 /\ Cardinality(videos \ videos) = 0
    <3>1. videos \ videos = {}
      OBVIOUS
    <3> QED
      BY <3>1, FS_EmptySet
  <2> QED
    BY <1>0, <1>7, <2>1 DEF RepeatsAreInserts
<1>10. Chosen' /\ SentInProductionIsMailed'
  BY <1>0 DEF Chosen, SentInProductionIsMailed
<1> QED
  BY <1>1, <1>2, <1>6, <1>8, <1>9, <1>10

(* The first statement of a page: its ids extend what was seen, and are    *)
(* new but for what uploads pushed back.                                   *)
LEMMA WalkAskKeeps ==
    ASSUME IInv, WalkAsk
    PROVE  IInv'
<1> USE DEF IInv
<1> DEFINE a == Skip(walk.page, walk.size)
           s == walk.size
           W == PageIds(walk.page, walk.size)
           L == {v \in videos : Place(videos, v) < a}
<1>0. /\ videos' = videos /\ count' = count /\ report' = report /\ settings' = settings
      /\ walk.pc = "ask" /\ walk \in Walk /\ videos \in SUBSET Ids
      /\ walk.start \in SUBSET videos /\ walk.got \in SUBSET Ids
  BY DEF WalkAsk, TypeOK, Walk, Known
<1>1. walk.page \in Int /\ s \in Int /\ a \in Int /\ walk.delivered \in Nat
  BY <1>0, NextSkip DEF Walk
<1>2. videos \in SUBSET Nat /\ IsFiniteSet(videos) /\ Cardinality(videos) \in Nat
  BY <1>0, VideosAreFinite
<1>3. \A v \in videos : Place(videos, v) \in 0..(Cardinality(videos) - 1)
  BY <1>2, PlaceIsBelowCardinality
<1>4. Chosen' /\ SentInProductionIsMailed'
  BY <1>0 DEF Chosen, SentInProductionIsMailed
<1>5. CASE Refused(walk.page, walk.size)
  <2>1. walk' = [walk EXCEPT !.pc = "failed"]
    BY <1>5 DEF WalkAsk
  <2>2. /\ walk' \in Walk /\ walk'.pc = "failed" /\ walk'.start = walk.start
        /\ walk'.got = walk.got /\ walk'.delivered = walk.delivered
    BY <2>1, <1>0 DEF Walk
  <2>3. TypeOK' /\ Known' /\ Seen' /\ Delivered' /\ RepeatsAreInserts'
    BY <2>2, <1>0 DEF TypeOK, Known, Seen, Delivered, RepeatsAreInserts
  <2> QED
    BY <2>3, <1>4
<1>6. CASE ~Refused(walk.page, walk.size)
  <2>1. a \in Nat /\ s \in Nat
    BY <1>6, <1>1 DEF Refused
  <2>2. walk' = [walk EXCEPT !.pc = "rows", !.ids = W]
    BY <1>6 DEF WalkAsk
  <2>3. W \in SUBSET videos /\ W \in SUBSET Ids
    BY <1>0 DEF PageIds
  <2>4. /\ walk' \in Walk /\ walk'.pc = "rows" /\ walk'.start = walk.start /\ walk'.ids = W
        /\ walk'.got = walk.got /\ walk'.delivered = walk.delivered
        /\ walk'.page = walk.page /\ walk'.size = walk.size
    BY <2>2, <2>3, <1>0 DEF Walk
  <2>5. walk.delivered = a /\ a <= Cardinality(videos)
    BY <1>0, <2>1 DEF Delivered
  <2>6. \A v \in walk.start : Place(videos, v) < a => v \in walk.got
    BY <1>0, <2>1 DEF Seen
  <2>7. TypeOK' /\ Known' /\ RepeatsAreInserts'
    BY <2>4, <1>0 DEF TypeOK, Known, RepeatsAreInserts
  <2>8. CASE s = 0
    <3>1. W = videos
      BY <2>8 DEF PageIds
    <3>2. a = 0
      <4>1. (walk.page - 1) * 0 = 0
        BY <1>1
      <4> QED
        BY <4>1, <2>8 DEF Skip
    <3>3. Seen'
      BY <2>4, <3>1, <2>8, <1>0 DEF Seen
    <3>4. Cardinality(W) <= Cardinality(walk.got \cup W)
      <4>1. walk.got \cup W \in SUBSET Ids /\ W \in SUBSET (walk.got \cup W)
        BY <2>3, <1>0
      <4> QED
        BY <4>1, SubsetIsSmaller
    <3>5. /\ Cardinality(W) \in Nat /\ Cardinality(walk.got \cup W) \in Nat
          /\ Cardinality(videos \ walk.start) \in Nat
      <4>1. /\ W \in SUBSET Ids /\ walk.got \cup W \in SUBSET Ids
            /\ videos \ walk.start \in SUBSET Ids
        BY <2>3, <1>0
      <4> QED
        BY <4>1, VideosAreFinite
    <3>6. Delivered'
      <4>1. /\ walk.delivered + Cardinality(W) <= Cardinality(videos)
            /\ walk.delivered + Cardinality(W)
                 <= Cardinality(walk.got \cup W) + Cardinality(videos \ walk.start)
        BY <2>5, <3>1, <3>2, <3>4, <3>5
      <4> QED
        BY <4>1, <2>4, <2>5, <2>8, <1>0 DEF Delivered, Skip
    <3> QED
      BY <3>3, <3>6, <2>7, <1>4
  <2>9. CASE s > 0
    <3>1. W = Window(videos, a, s)
      BY <2>9 DEF PageIds, Window, Rank, Place
    <3>2. /\ Cardinality(W) <= s
          /\ a + Cardinality(W) <= Cardinality(videos)
          /\ Cardinality(W) < s => \A v \in videos : Place(videos, v) < a + s
      BY <3>1, <1>2, <2>1, <2>5, WindowSize
    <3>3. \A v \in walk.start : Place(videos, v) < a + s => v \in walk.got \cup W
      <4>1. \A v \in videos : Place(videos, v) \in Nat
        BY <1>3
      <4>2. \A v \in walk.start : a <= Place(videos, v) /\ Place(videos, v) < a + s => v \in W
        BY <3>1, <1>0 DEF Window
      <4> QED
        BY <4>1, <4>2, <2>6, <2>1, <1>0
    <3>4. Seen'
      <4>1. Cardinality(W) < s => walk.start \subseteq walk.got \cup W
        BY <3>2, <3>3, <1>0
      <4>2. walk.size # 0 /\ walk.size >= 0
        BY <2>9, <2>1
      <4>3. \A v \in walk.start : Place(videos', v) = Place(videos, v)
        BY <1>0
      <4> QED
        BY <2>4, <3>3, <4>1, <4>2, <4>3, <1>0 DEF Seen, Skip
    <3>5. Cardinality(L) = a
      <4>1. L = {v \in videos : 0 <= Place(videos, v) /\ Place(videos, v) < a}
        BY <1>3
      <4>2. Cardinality({v \in videos : 0 <= Place(videos, v) /\ Place(videos, v) < a}) = a - 0
        BY <1>2, <2>1, <2>5, PlacesBetween
      <4> QED
        BY <4>1, <4>2, <2>1
    <3>6. L \cap W = {}
      <4>1. \A v \in videos : ~(Place(videos, v) < a /\ a <= Place(videos, v))
        BY <1>3, <2>1
      <4> QED
        BY <4>1, <3>1 DEF Window
    <3>7. L \cup W \subseteq (walk.got \cup W) \cup (videos \ walk.start)
      BY <2>6
    <3>8. a + Cardinality(W) <= Cardinality(walk.got \cup W) + Cardinality(videos \ walk.start)
      <4>1. /\ L \in SUBSET Ids /\ W \in SUBSET Ids /\ walk.got \cup W \in SUBSET Ids
            /\ videos \ walk.start \in SUBSET Ids
            /\ (walk.got \cup W) \cup (videos \ walk.start) \in SUBSET Ids
        BY <2>3, <1>0
      <4>2. Cardinality(L) + Cardinality(W)
              <= Cardinality((walk.got \cup W) \cup (videos \ walk.start))
        BY <4>1, <3>6, <3>7, DisjointSum
      <4>3. Cardinality((walk.got \cup W) \cup (videos \ walk.start))
              <= Cardinality(walk.got \cup W) + Cardinality(videos \ walk.start)
        BY <4>1, UnionIsSmaller
      <4>4. /\ Cardinality(W) \in Nat /\ Cardinality(walk.got \cup W) \in Nat
            /\ Cardinality(videos \ walk.start) \in Nat
            /\ Cardinality((walk.got \cup W) \cup (videos \ walk.start)) \in Nat
        BY <4>1, VideosAreFinite
      <4> QED
        BY <4>2, <4>3, <4>4, <3>5, <2>1
    <3>9. Delivered'
      BY <2>4, <2>5, <3>2, <3>8, <2>9, <2>1, <1>0 DEF Delivered, Skip
    <3> QED
      BY <3>4, <3>9, <2>7, <1>4
  <2>10. s = 0 \/ s > 0
    BY <2>1
  <2> QED
    BY <2>8, <2>9, <2>10
<1> QED
  BY <1>5, <1>6

(* The page arrives; a full one leads to the next.                         *)
LEMMA WalkRowsKeeps ==
    ASSUME IInv, WalkRows
    PROVE  IInv'
<1> USE DEF IInv
<1> DEFINE last == walk.size = 0 \/ Cardinality(walk.ids) < walk.size
           s == walk.size
<1>0. /\ videos' = videos /\ count' = count /\ report' = report /\ settings' = settings
      /\ walk.pc = "rows" /\ walk \in Walk /\ videos \in SUBSET Ids
      /\ walk.start \in SUBSET videos /\ walk.got \in SUBSET Ids /\ walk.ids \in SUBSET Ids
  BY DEF WalkRows, TypeOK, Walk, Known
<1>1. /\ walk.page \in Int /\ s \in Nat /\ walk.delivered \in Nat
      /\ Skip(walk.page, s) \in Int
      /\ Skip(walk.page + 1, s) = Skip(walk.page, s) + s
  BY <1>0, NextSkip DEF Walk, Seen
<1>2. Cardinality(walk.ids) \in Nat /\ Cardinality(videos) \in Nat
  BY <1>0, VideosAreFinite
<1>3. walk' = [walk EXCEPT !.pc = IF last THEN "done" ELSE "ask",
                           !.page = IF last THEN walk.page ELSE walk.page + 1,
                           !.got = walk.got \cup walk.ids,
                           !.delivered = walk.delivered + Cardinality(walk.ids)]
  BY DEF WalkRows
<1>4. /\ walk' \in Walk /\ walk'.start = walk.start /\ walk'.size = s
      /\ walk'.pc = (IF last THEN "done" ELSE "ask")
      /\ walk'.page = (IF last THEN walk.page ELSE walk.page + 1)
      /\ walk'.got = walk.got \cup walk.ids
      /\ walk'.delivered = walk.delivered + Cardinality(walk.ids)
  <2>1. walk.page + 1 \in Int /\ walk.delivered + Cardinality(walk.ids) \in Nat
    BY <1>1, <1>2
  <2> HIDE DEF last
  <2> QED
    BY <1>3, <1>0, <1>1, <2>1 DEF Walk
<1>5. TypeOK' /\ Known' /\ Chosen' /\ SentInProductionIsMailed'
  BY <1>4, <1>0 DEF TypeOK, Known, Chosen, SentInProductionIsMailed
<1>6. RepeatsAreInserts'
  <2>1. walk.delivered + Cardinality(walk.ids)
          <= Cardinality(walk.got \cup walk.ids) + Cardinality(videos \ walk.start)
    BY <1>0 DEF Delivered
  <2>2. /\ Cardinality(walk.got \cup walk.ids) \in Nat
        /\ Cardinality(videos \ walk.start) \in Nat
    <3>1. walk.got \cup walk.ids \in SUBSET Ids /\ videos \ walk.start \in SUBSET Ids
      BY <1>0
    <3> QED
      BY <3>1, VideosAreFinite
  <2> QED
    BY <2>1, <2>2, <1>0, <1>1, <1>2, <1>4 DEF RepeatsAreInserts
<1>7. CASE last
  <2>1. Seen'
    BY <1>0, <1>4, <1>7 DEF Seen
  <2>2. Delivered'
    BY <1>4, <1>7 DEF Delivered
  <2> QED
    BY <2>1, <2>2, <1>5, <1>6
<1>8. CASE ~last
  <2>1. s > 0 /\ Cardinality(walk.ids) = s
    BY <1>8, <1>0, <1>1, <1>2 DEF Delivered
  <2>2. Seen'
    <3>1. \A v \in walk.start : Place(videos, v) < Skip(walk.page, s) + s
                               => v \in walk.got \cup walk.ids
      BY <1>0 DEF Seen
    <3>2. walk'.pc = "ask" /\ Skip(walk.page, s) + s = Skip(walk'.page, walk'.size)
      BY <1>1, <1>4, <1>8
    <3> QED
      BY <3>1, <3>2, <1>0, <1>4 DEF Seen, Skip
  <2>3. Delivered'
    <3>1. walk.delivered = Skip(walk.page, s)
      BY <1>0 DEF Delivered
    <3>2. walk.delivered + s <= Cardinality(videos)
      BY <1>0, <2>1 DEF Delivered
    <3>3. walk'.pc = "ask" /\ walk'.delivered = Skip(walk'.page, walk'.size)
      BY <3>1, <2>1, <1>1, <1>4, <1>8
    <3> QED
      BY <3>2, <3>3, <2>1, <1>0, <1>4 DEF Delivered, Skip
  <2> QED
    BY <2>2, <2>3, <1>5, <1>6
<1> QED
  BY <1>7, <1>8

(* A video that is not among the first precedes none of them: whatever     *)
(* precedes it would precede those too.                                    *)
LEMMA TopIsBest ==
    ASSUME TypeOK, NEW v \in TopIds, NEW w \in videos \ TopIds
    PROVE  count[w] <= count[v]
<1> DEFINE Ahead(x) == {y \in videos : Precedes(y, x)}
<1>0. /\ videos \in SUBSET Ids /\ v \in videos /\ w \in videos
      /\ \A x \in Ids : x \in Nat /\ count[x] \in Nat
  BY IdsAreOrdered DEF TypeOK, TopIds
<1> SUFFICES ASSUME count[v] < count[w] PROVE FALSE
  BY <1>0
<1>1. \A y \in videos : Precedes(y, w) => Precedes(y, v)
  <2> SUFFICES ASSUME NEW y \in videos, Precedes(y, w) PROVE Precedes(y, v)
    OBVIOUS
  <2>1. count[y] \in Nat /\ count[w] \in Nat /\ count[v] \in Nat /\ count[y] >= count[w]
    BY <1>0 DEF Precedes
  <2>2. count[y] > count[v]
    BY <2>1
  <2> QED
    BY <2>2 DEF Precedes
<1>2. Ahead(w) \in SUBSET Ahead(v) /\ Ahead(v) \in SUBSET Ids
  BY <1>0, <1>1
<1>3. /\ Cardinality(Ahead(w)) \in Nat /\ Cardinality(Ahead(v)) \in Nat
      /\ Cardinality(Ahead(w)) <= Cardinality(Ahead(v))
  BY <1>2, SubsetIsSmaller
<1>4. Cardinality(Ahead(v)) < Top /\ ~(Cardinality(Ahead(w)) < Top)
  BY <1>0 DEF TopIds
<1> QED
  BY <1>3, <1>4, TopIsPositive

(* How many videos the report puts before x.                               *)
Ahead(x)  == {y \in videos : Precedes(y, x)}
ReportPlace(x) == Cardinality(Ahead(x))

(* Of two videos one precedes the other, also when their counters agree,   *)
(* and has the lower place.                                                *)
LEMMA PlacesOfTheReport ==
    ASSUME TypeOK
    PROVE  [x \in videos |-> ReportPlace(x)] \in Injection(videos, 0..(Cardinality(videos) - 1))
<1>0. /\ videos \in SUBSET Ids /\ IsFiniteSet(videos) /\ Cardinality(videos) \in Nat
      /\ \A x \in videos : x \in Nat /\ count[x] \in Nat
  BY IdsAreOrdered, VideosAreFinite DEF TypeOK
<1>1. ASSUME NEW x \in videos
      PROVE  /\ Ahead(x) \in SUBSET Ids /\ IsFiniteSet(Ahead(x)) /\ ReportPlace(x) \in Nat
             /\ ReportPlace(x) <= Cardinality(videos) - 1
  <2>1. Ahead(x) \in SUBSET (videos \ {x})
    BY <1>0 DEF Ahead, Precedes
  <2>2. /\ IsFiniteSet(videos \ {x})
        /\ Cardinality(videos \ {x}) = Cardinality(videos) - 1
    BY <1>0, FS_RemoveElement
  <2>3. Ahead(x) \in SUBSET Ids /\ videos \ {x} \in SUBSET Ids
    BY <2>1, <1>0
  <2>4. Cardinality(Ahead(x)) <= Cardinality(videos \ {x})
    BY <2>1, <2>3, SubsetIsSmaller
  <2> QED
    BY <2>2, <2>3, <2>4, <1>0, VideosAreFinite DEF ReportPlace
<1>2. ASSUME NEW x \in videos, NEW y \in videos, Precedes(x, y) PROVE ReportPlace(x) < ReportPlace(y)
  <2>1. Ahead(x) \in SUBSET (Ahead(y) \ {x}) /\ x \in Ahead(y)
    BY <1>0, <1>2 DEF Ahead, Precedes
  <2>2. Ahead(y) \ {x} \in SUBSET Ids
    BY <1>1
  <2>3. Cardinality(Ahead(x)) <= Cardinality(Ahead(y) \ {x})
    BY <2>1, <2>2, SubsetIsSmaller
  <2>4. Cardinality(Ahead(y) \ {x}) = Cardinality(Ahead(y)) - 1
    BY <2>1, <1>1, FS_RemoveElement
  <2> QED
    BY <2>3, <2>4, <1>1 DEF ReportPlace
<1>3. ASSUME NEW x \in videos, NEW y \in videos, x # y PROVE ReportPlace(x) # ReportPlace(y)
  <2>1. Precedes(x, y) \/ Precedes(y, x)
    BY <1>0, <1>3 DEF Precedes
  <2> QED
    BY <2>1, <1>1, <1>2
<1>4. \A x \in videos : ReportPlace(x) \in 0..(Cardinality(videos) - 1)
  BY <1>0, <1>1
<1> QED
  BY <1>3, <1>4 DEF Injection, IsInjective

Smaller(m, n) == IF m < n THEN m ELSE n

(* So the first statement of the report returns as many videos as it may.  *)
LEMMA TopIsFull ==
    ASSUME TypeOK
    PROVE  Cardinality(TopIds) = Smaller(Cardinality(videos), Top)
<1> DEFINE f == [x \in videos |-> ReportPlace(x)]
           n == Cardinality(videos)
           b == Smaller(n, Top)
<1>0. videos \in SUBSET Ids /\ IsFiniteSet(videos) /\ n \in Nat
  BY VideosAreFinite DEF TypeOK
<1>1. f \in Injection(videos, 0..(n - 1))
  BY PlacesOfTheReport
<1>2. b \in Nat /\ 0 <= b /\ b <= n
  BY <1>0, TopIsPositive DEF Smaller
<1>3. Cardinality({x \in videos : 0 <= f[x] /\ f[x] < b}) = b - 0
  <2> HIDE DEF f, b
  <2> QED
    BY <1>0, <1>1, <1>2, Numbering
<1>4. \A x \in videos : 0 <= f[x] /\ f[x] < b <=> ReportPlace(x) < Top
  <2>1. \A x \in videos : f[x] = ReportPlace(x) /\ f[x] \in 0..(n - 1)
    BY <1>1 DEF Injection
  <2> HIDE DEF f
  <2> QED
    BY <2>1, <1>0, TopIsPositive DEF Smaller
<1>5. TopIds = {x \in videos : 0 <= f[x] /\ f[x] < b}
  BY <1>4 DEF TopIds, ReportPlace, Ahead
<1> QED
  BY <1>3, <1>5, <1>2

(* The steps of the daily job.                                             *)
LEMMA ReportKeeps ==
    ASSUME IInv, ReportAsk \/ ReportRows \/ ReportSend \/ ReportFails
    PROVE  IInv'
<1> USE DEF IInv
<1>0. /\ videos' = videos /\ count' = count /\ walk' = walk /\ settings' = settings
      /\ report \in Report /\ videos \in SUBSET Ids /\ count \in [Ids -> Nat]
  BY DEF ReportAsk, ReportRows, ReportSend, ReportFails, TypeOK
<1>1. Seen' /\ RepeatsAreInserts' /\ Delivered'
  BY <1>0 DEF Seen, RepeatsAreInserts, Delivered, Place, Skip
<1>2. CASE ReportAsk
  <2>1. TypeOK'
    BY <1>0, <1>2 DEF ReportAsk, TypeOK, Report, TopIds, Zero
  <2>2. Known'
    BY <1>0, <1>2 DEF ReportAsk, Known
  <2>3. \A v \in TopIds, w \in videos \ TopIds : count[w] <= count[v]
    BY TopIsBest
  <2>4. \A v \in Ids : count[v] <= count[v]
    BY <1>0
  <2>5. /\ report'.pc = "rows" /\ report'.ids = TopIds /\ report'.asked = videos
        /\ report'.before = count
    BY <1>2 DEF ReportAsk
  <2>6. Chosen' /\ SentInProductionIsMailed'
    BY <2>3, <2>4, <2>5, <1>0 DEF Chosen, SentInProductionIsMailed
  <2> QED
    BY <2>1, <2>2, <2>6, <1>1
<1>3. CASE ReportRows
  <2>1. TypeOK'
    BY <1>0, <1>3 DEF ReportRows, TypeOK, Report
  <2>2. /\ report.pc = "rows" /\ report'.pc = "send" /\ report'.ids = report.ids
        /\ report'.asked = report.asked /\ report'.before = report.before
        /\ report'.printed = [v \in Ids |-> IF v \in report.ids THEN count[v] ELSE 0]
    BY <1>0, <1>3 DEF ReportRows, Report
  <2>3. \A v \in report.ids : v \in Ids
    BY <1>0 DEF Report
  <2>4. Known' /\ Chosen' /\ SentInProductionIsMailed'
    BY <2>2, <2>3, <1>0 DEF Known, Chosen, SentInProductionIsMailed
  <2> QED
    BY <2>1, <2>4, <1>1
<1>4. CASE ReportSend \/ ReportFails
  <2>1. TypeOK'
    BY <1>0, <1>4 DEF ReportSend, ReportFails, TypeOK, Report
  <2>2. /\ report'.ids = report.ids /\ report'.asked = report.asked
        /\ report'.before = report.before /\ report'.printed = report.printed
        /\ report.pc = "send" \/ report'.pc = "failed"
        /\ report'.pc \in {"done", "failed"}
    BY <1>0, <1>4 DEF ReportSend, ReportFails, Report
  <2>3. Known' /\ Chosen'
    BY <2>2, <1>0 DEF Known, Chosen
  <2>4. SentInProductionIsMailed'
    BY <1>0, <1>4 DEF ReportSend, ReportFails, SentInProductionIsMailed, ErrorReachesJob,
                     Report
  <2> QED
    BY <2>1, <2>3, <2>4, <1>1
<1> QED
  BY <1>2, <1>3, <1>4

(* Every step keeps the invariant.                                         *)
LEMMA Step == IInv /\ [Next]_vars => IInv'
<1> SUFFICES ASSUME IInv, [Next]_vars PROVE IInv'
  OBVIOUS
<1>1. CASE \E v \in Ids : Insert(v) \/ View(v)
  BY <1>1, InsertKeeps, ViewKeeps
<1>2. CASE \E page \in FirstPages, size \in Sizes : WalkBegin(page, size)
  BY <1>2, WalkBeginKeeps
<1>3. CASE WalkAsk \/ WalkRows
  BY <1>3, WalkAskKeeps, WalkRowsKeeps
<1>4. CASE ReportAsk \/ ReportRows \/ ReportSend \/ ReportFails
  BY <1>4, ReportKeeps
<1>5. CASE UNCHANGED vars
  BY <1>5 DEF vars, IInv, TypeOK, Known, Seen, RepeatsAreInserts, Delivered, Chosen,
              SentInProductionIsMailed, Place, Skip
<1> QED
  BY <1>1, <1>2, <1>3, <1>4, <1>5 DEF Next

LEMMA Invariance == Spec => []IInv
BY Start, Step, PTL DEF Spec

-----------------------------------------------------------------------------
(* THE THEOREMS                                                            *)

(* Types are kept.                                                         *)
THEOREM TypeCorrect == Spec => []TypeOK
<1>1. IInv => TypeOK
  BY DEF IInv
<1> QED
  BY <1>1, Invariance, PTL

(* Whatever is uploaded meanwhile, a walk to a short page has seen all     *)
(* that was there when it began, at every size (find-videos.handler.ts:28).*)
THEOREM WalksAreComplete == Spec => []WalkMissesNothing
<1>1. IInv => WalkMissesNothing
  BY DEF IInv, Seen, WalkMissesNothing
<1> QED
  BY <1>1, Invariance, PTL

(* Only uploads make a walk repeat a video (find-videos.handler.ts:30-31). *)
THEOREM RepeatsAreBounded == Spec => []RepeatsAreInserts
<1>1. IInv => RepeatsAreInserts
  BY DEF IInv
<1> QED
  BY <1>1, Invariance, PTL

(* The report leaves out nothing better than what it prints, though the    *)
(* counters move between its statements (video.service.ts:70-77).          *)
THEOREM ReportIsFair == Spec => []NoneBetterLeftOut
<1>1. IInv => NoneBetterLeftOut
  <2> SUFFICES ASSUME IInv, report.pc \in {"send", "done"},
                      NEW v \in report.ids, NEW w \in report.asked \ report.ids
               PROVE  report.before[w] <= report.printed[v]
    BY DEF NoneBetterLeftOut
  <2>1. report.before[w] <= report.before[v] /\ report.before[v] <= report.printed[v]
    BY DEF IInv, Chosen
  <2>2. report.before[w] \in Nat /\ report.before[v] \in Nat /\ report.printed[v] \in Nat
    BY DEF IInv, TypeOK, Report
  <2> QED
    BY <2>1, <2>2
<1> QED
  BY <1>1, Invariance, PTL

(* The report is as long as it may be: all videos when they are fewer than *)
(* asked for, else as many as asked for.  With the theorem above it prints *)
(* a true top of the list (video.service.ts:70-77).                        *)
ReportHasItsLength ==
    Cardinality(report.ids) = Smaller(Cardinality(report.asked), Top)

(* Ranks have no gap, so the first Top of them are all taken               *)
(* (video.service.ts:70).                                                  *)
THEOREM ReportIsFull == Spec => []ReportHasItsLength
<1>1. Init => ReportHasItsLength
  BY FS_EmptySet, TopIsPositive DEF Init, ReportHasItsLength, Smaller
<1>2. IInv /\ ReportHasItsLength /\ [Next]_vars => ReportHasItsLength'
  <2> SUFFICES ASSUME IInv, ReportHasItsLength, [Next]_vars PROVE ReportHasItsLength'
    OBVIOUS
  <2>1. CASE ReportAsk
    <3>1. Cardinality(TopIds) = Smaller(Cardinality(videos), Top)
      BY TopIsFull DEF IInv
    <3>2. report'.ids = TopIds /\ report'.asked = videos
      BY <2>1 DEF ReportAsk
    <3> QED
      BY <3>1, <3>2 DEF ReportHasItsLength, Smaller
  <2>2. CASE ~ReportAsk
    <3>1. report'.ids = report.ids /\ report'.asked = report.asked
      BY <2>2 DEF IInv, TypeOK, Report, Next, Insert, View, WalkBegin, WalkAsk, WalkRows,
                  ReportRows, ReportSend, ReportFails, vars
    <3> QED
      BY <3>1 DEF ReportHasItsLength, Smaller
  <2> QED
    BY <2>1, <2>2
<1> QED
  BY <1>1, <1>2, Invariance, PTL DEF Spec

(* In production the job never takes an unsent report for a sent one       *)
(* (email.service.ts:149, analytics.service.ts:35-39).                     *)
THEOREM SentReportsAreMailed == Spec => []SentInProductionIsMailed
<1>1. Init => SentInProductionIsMailed
  BY DEF Init, SentInProductionIsMailed
<1>2. ASSUME IInv, SentInProductionIsMailed, [Next]_vars PROVE SentInProductionIsMailed'
  <2>0. report \in Report /\ settings' = settings
    BY <1>2
    DEF IInv, TypeOK, Next, Insert, View, WalkBegin, WalkAsk, WalkRows, ReportAsk, ReportRows, ReportSend,
        ReportFails, vars
  <2>1. CASE ReportAsk \/ ReportRows \/ ReportFails
    <3>1. CASE ReportAsk
      BY <3>1 DEF ReportAsk, SentInProductionIsMailed
    <3>2. CASE ReportRows
      BY <2>0, <3>2 DEF ReportRows, Report, SentInProductionIsMailed
    <3>3. CASE ReportFails
      BY <2>0, <3>3 DEF ReportFails, Report, SentInProductionIsMailed
    <3> QED
      BY <2>1, <3>1, <3>2, <3>3
  <2>2. CASE ReportSend
    <3>1. settings.enabled /\ settings.production /\ report'.pc = "done" => report'.mailed
      BY <2>0, <2>2 DEF ReportSend, ErrorReachesJob, Report
    <3> QED
      BY <2>0, <3>1 DEF SentInProductionIsMailed
  <2>3. CASE report' = report
    BY <1>2, <2>0, <2>3 DEF SentInProductionIsMailed
  <2> QED
    BY <1>2, <2>1, <2>2, <2>3 DEF Next, Insert, View, WalkBegin, WalkAsk, WalkRows, vars
<1> QED
  BY <1>1, <1>2, Invariance, PTL DEF Spec
=============================================================================
