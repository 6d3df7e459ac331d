-------------------------- MODULE EngineLoop_proofs --------------------------
(***************************************************************************)
(* Proofs about the engine's worker: through any schedule, on any path a   *)
(* request can end by, the block manager's reference counts cover the      *)
(* block tables and the reserved prefixes.                                 *)
(***************************************************************************)
EXTENDS EngineLoop, BlockManager_proofs

(***************************************************************************)
(* References.  K[r] and H[r] are the blocks request r keeps in its table  *)
(* and holds as a reserved prefix.  Every count covers both; without a     *)
(* prefix cache it is exact, and a block has one user at most.             *)
(***************************************************************************)
Count(K, b) == Cardinality({r \in Reqs : b \in K[r]})
Covers(ref, K, H) ==
  \A b \in Blocks : /\ ref[b] >= Count(K, b) + Count(H, b)
                    /\ PrefixCache \/ (ref[b] = Count(K, b) + Count(H, b) /\ ref[b] <= 1)
Holdings == [Reqs -> SUBSET Blocks]

(***************************************************************************)
(* A count is a natural number, and positive for a block somebody has.     *)
(***************************************************************************)
LEMMA CountType ==
  ASSUME NEW K, NEW b
  PROVE  /\ Count(K, b) \in Nat
         /\ \A r \in Reqs : b \in K[r] => Count(K, b) >= 1
<1> DEFINE U == {r \in Reqs : b \in K[r]}
<1>1. IsFiniteSet(U)
  BY ReqsAssumption, FS_Subset
<1>2. Cardinality(U) \in Nat
  BY <1>1, FS_CardinalityType
<1>3. ASSUME NEW r \in Reqs, b \in K[r] PROVE Cardinality(U) >= 1
  <2>1. U # {}
    BY <1>3
  <2>2. Cardinality(U) # 0
    BY <1>1, <2>1, FS_EmptySet
  <2> QED BY <1>2, <2>2
<1> QED BY <1>2, <1>3 DEF Count

(***************************************************************************)
(* Giving request r the blocks X changes counts by at most one.            *)
(***************************************************************************)
LEMMA CountUpdate ==
  ASSUME NEW K \in Holdings, NEW r \in Reqs, NEW X \in SUBSET Blocks, NEW b \in Blocks
  PROVE  Count([K EXCEPT ![r] = X], b) = IF b \in X \ K[r] THEN Count(K, b) + 1
                                         ELSE IF b \in K[r] \ X THEN Count(K, b) - 1
                                         ELSE Count(K, b)
<1> DEFINE L == [K EXCEPT ![r] = X]
           U == {x \in Reqs : b \in K[x]}
           V == {x \in Reqs : b \in L[x]}
<1>0. L[r] = X /\ \A x \in Reqs \ {r} : L[x] = K[x]
  BY DEF Holdings
<1> HIDE DEF L
<1>1. IsFiniteSet(U)
  BY ReqsAssumption, FS_Subset
<1>2. CASE b \in X \ K[r]
  <2>1. V = U \union {r} /\ r \notin U
    BY <1>0, <1>2
  <2> HIDE DEF U, V
  <2>2. Cardinality(V) = Cardinality(U) + 1
    BY <1>1, <2>1, FS_AddElement
  <2> QED BY <1>2, <2>2 DEF Count, L, U, V
<1>3. CASE b \in K[r] \ X
  <2>1. V = U \ {r} /\ r \in U
    BY <1>0, <1>3
  <2> HIDE DEF U, V
  <2>2. Cardinality(V) = Cardinality(U) - 1
    BY <1>1, <2>1, FS_RemoveElement
  <2> QED BY <1>3, <2>2 DEF Count, L, U, V
<1>4. CASE b \notin X \ K[r] /\ b \notin K[r] \ X
  <2>1. V = U
    BY <1>0, <1>4
  <2> QED BY <1>4, <2>1 DEF Count, L
<1> QED BY <1>2, <1>3, <1>4

(***************************************************************************)
(* A block without references is nobody's.                                 *)
(***************************************************************************)
LEMMA UnreferencedFree ==
  ASSUME NEW ref \in [Blocks -> Nat], NEW K, NEW H, Covers(ref, K, H), NEW b \in Blocks, ref[b] = 0
  PROVE  Count(K, b) = 0 /\ Count(H, b) = 0 /\ \A r \in Reqs : b \notin K[r] /\ b \notin H[r]
<1>1. Count(K, b) \in Nat /\ Count(H, b) \in Nat
  BY CountType
<1>2. ref[b] >= Count(K, b) + Count(H, b)
  BY DEF Covers
<1>3. Count(K, b) = 0 /\ Count(H, b) = 0
  BY <1>1, <1>2
<1>4. \A r \in Reqs : (b \in K[r] => Count(K, b) >= 1) /\ (b \in H[r] => Count(H, b) >= 1)
  BY CountType
<1> QED BY <1>3, <1>4

(***************************************************************************)
(* Fresh blocks join a request's holdings.                                 *)
(***************************************************************************)
LEMMA CoversTake ==
  ASSUME NEW ref \in [Blocks -> Nat], NEW ref2 \in [Blocks -> Nat], NEW K \in Holdings, NEW H \in Holdings,
         Covers(ref, K, H), NEW r \in Reqs, NEW X \in SUBSET Blocks,
         \A b \in Blocks : IF b \in X THEN ref[b] = 0 /\ ref2[b] = 1 ELSE ref2[b] = ref[b]
  PROVE  Covers(ref2, [K EXCEPT ![r] = K[r] \union X], H)
<1> SUFFICES ASSUME NEW b \in Blocks
             PROVE  LET n == Count([K EXCEPT ![r] = K[r] \union X], b) + Count(H, b)
                    IN  ref2[b] >= n /\ (PrefixCache \/ (ref2[b] = n /\ ref2[b] <= 1))
  BY DEF Covers
<1>0. K[r] \union X \in SUBSET Blocks
  BY DEF Holdings
<1>1. Count(K, b) \in Nat /\ Count(H, b) \in Nat
  BY CountType
<1>2. Count([K EXCEPT ![r] = K[r] \union X], b) =
        IF b \in X \ K[r] THEN Count(K, b) + 1 ELSE Count(K, b)
  BY <1>0, CountUpdate
<1>3. CASE b \in X
  <2>1. Count(K, b) = 0 /\ Count(H, b) = 0 /\ b \notin K[r]
    BY <1>3, UnreferencedFree
  <2>2. ref2[b] = 1
    BY <1>3
  <2> QED BY <1>2, <1>3, <2>1, <2>2
<1>4. CASE b \notin X
  BY <1>2, <1>4 DEF Covers
<1> QED BY <1>3, <1>4

(***************************************************************************)
(* A request's blocks are freed and leave its holdings.                    *)
(***************************************************************************)
LEMMA CoversFree ==
  ASSUME NEW ref \in [Blocks -> Nat], NEW ref2 \in [Blocks -> Nat], NEW K \in Holdings, NEW H \in Holdings,
         Covers(ref, K, H), NEW r \in Reqs,
         \A b \in Blocks : ref2[b] = IF b \in K[r] /\ ref[b] > 0 THEN ref[b] - 1 ELSE ref[b]
  PROVE  Covers(ref2, [K EXCEPT ![r] = {}], H)
<1> SUFFICES ASSUME NEW b \in Blocks
             PROVE  LET n == Count([K EXCEPT ![r] = {}], b) + Count(H, b)
                    IN  ref2[b] >= n /\ (PrefixCache \/ (ref2[b] = n /\ ref2[b] <= 1))
  BY DEF Covers
<1>1. Count(K, b) \in Nat /\ Count(H, b) \in Nat
  BY CountType
<1>2. Count([K EXCEPT ![r] = {}], b) = IF b \in K[r] THEN Count(K, b) - 1 ELSE Count(K, b)
  <2>1. PICK E \in SUBSET Blocks : E = {}
    OBVIOUS
  <2>2. Count([K EXCEPT ![r] = E], b) = IF b \in E \ K[r] THEN Count(K, b) + 1
                                        ELSE IF b \in K[r] \ E THEN Count(K, b) - 1
                                        ELSE Count(K, b)
    BY CountUpdate
  <2> QED BY <2>1, <2>2
<1>3. b \in K[r] => Count(K, b) >= 1
  BY CountType
<1>4. /\ ref[b] >= Count(K, b) + Count(H, b)
      /\ PrefixCache \/ (ref[b] = Count(K, b) + Count(H, b) /\ ref[b] <= 1)
  BY DEF Covers
<1>5. ref2[b] = IF b \in K[r] /\ ref[b] > 0 THEN ref[b] - 1 ELSE ref[b]
  OBVIOUS
<1> QED BY <1>1, <1>2, <1>3, <1>4, <1>5

(***************************************************************************)
(* A reserved prefix becomes the request's own blocks.                     *)
(***************************************************************************)
LEMMA CoversAdopt ==
  ASSUME NEW ref \in [Blocks -> Nat], NEW K \in Holdings, NEW H \in Holdings,
         Covers(ref, K, H), NEW r \in Reqs, NEW X \in SUBSET Blocks, X = K[r] \union H[r],
         K[r] \intersect H[r] = {}
  PROVE  Covers(ref, [K EXCEPT ![r] = X], [H EXCEPT ![r] = {}])
<1> SUFFICES ASSUME NEW b \in Blocks
             PROVE  LET n == Count([K EXCEPT ![r] = X], b) + Count([H EXCEPT ![r] = {}], b)
                    IN  ref[b] >= n /\ (PrefixCache \/ (ref[b] = n /\ ref[b] <= 1))
  BY DEF Covers
<1>1. Count(K, b) \in Nat /\ Count(H, b) \in Nat
  BY CountType
<1>2. Count([K EXCEPT ![r] = X], b) = IF b \in X \ K[r] THEN Count(K, b) + 1 ELSE Count(K, b)
  BY CountUpdate
<1>3. Count([H EXCEPT ![r] = {}], b) = IF b \in H[r] THEN Count(H, b) - 1 ELSE Count(H, b)
  <2>1. PICK E \in SUBSET Blocks : E = {}
    OBVIOUS
  <2>2. Count([H EXCEPT ![r] = E], b) = IF b \in E \ H[r] THEN Count(H, b) + 1
                                        ELSE IF b \in H[r] \ E THEN Count(H, b) - 1
                                        ELSE Count(H, b)
    BY CountUpdate
  <2> QED BY <2>1, <2>2
<1>4. Count([K EXCEPT ![r] = X], b) + Count([H EXCEPT ![r] = {}], b) = Count(K, b) + Count(H, b)
  BY <1>1, <1>2, <1>3
<1> QED BY <1>4 DEF Covers

(***************************************************************************)
(* Reservations that are forgotten leave references nobody accounts for;   *)
(* without a prefix cache there are none to forget.                        *)
(***************************************************************************)
LEMMA CoversDrop ==
  ASSUME NEW ref \in [Blocks -> Nat], NEW K, NEW H \in Holdings, NEW G \in Holdings,
         Covers(ref, K, H), \A r \in Reqs : G[r] \subseteq H[r],
         ~PrefixCache => G = H
  PROVE  Covers(ref, K, G)
<1>1. ASSUME NEW b \in Blocks PROVE ref[b] >= Count(K, b) + Count(G, b)
  <2> DEFINE U == {r \in Reqs : b \in G[r]}
             V == {r \in Reqs : b \in H[r]}
  <2>1. U \subseteq V
    OBVIOUS
  <2>2. IsFiniteSet(V)
    BY ReqsAssumption, FS_Subset
  <2>3. Cardinality(U) <= Cardinality(V)
    <3> HIDE DEF U, V
    <3> QED BY <2>1, <2>2, FS_Subset
  <2>4. Count(G, b) <= Count(H, b)
    BY <2>3 DEF Count
  <2>5. Count(K, b) \in Nat /\ Count(H, b) \in Nat /\ Count(G, b) \in Nat
    BY CountType
  <2> QED BY <2>4, <2>5 DEF Covers
<1>2. CASE PrefixCache
  BY <1>1, <1>2 DEF Covers
<1>3. CASE ~PrefixCache
  BY <1>3
<1> QED BY <1>2, <1>3

(***************************************************************************)
(* Copy-on-write: request r gives up its share of b for a fresh block n.   *)
(***************************************************************************)
Copied(ref, ref2, b, n) ==
  \A x \in Blocks : ref2[x] = IF x = n THEN 1 ELSE IF x = b THEN ref[x] - 1 ELSE ref[x]

LEMMA CoversCopy ==
  ASSUME NEW ref \in [Blocks -> Nat], NEW ref2 \in [Blocks -> Nat], NEW K \in Holdings, NEW H \in Holdings,
         Covers(ref, K, H), NEW r \in Reqs, NEW b, b \in K[r], NEW n, n \in Blocks, n # b,
         ref[b] > 1, ref[n] = 0, NEW X \in SUBSET Blocks, X = (K[r] \ {b}) \union {n},
         Copied(ref, ref2, b, n)
  PROVE  Covers(ref2, [K EXCEPT ![r] = X], H)
<1> SUFFICES ASSUME NEW x \in Blocks
             PROVE  LET c == Count([K EXCEPT ![r] = X], x) + Count(H, x)
                    IN  ref2[x] >= c /\ (PrefixCache \/ (ref2[x] = c /\ ref2[x] <= 1))
  BY DEF Covers
<1>0. b \in Blocks /\ PrefixCache
  BY DEF Holdings, Covers
<1>1. Count(K, x) \in Nat /\ Count(H, x) \in Nat
  BY CountType
<1>2. Count([K EXCEPT ![r] = X], x) = IF x \in X \ K[r] THEN Count(K, x) + 1
                                      ELSE IF x \in K[r] \ X THEN Count(K, x) - 1
                                      ELSE Count(K, x)
  BY CountUpdate
<1>3. Count(K, n) = 0 /\ Count(H, n) = 0 /\ n \notin K[r]
  BY UnreferencedFree
<1>4. ref[x] >= Count(K, x) + Count(H, x)
  BY DEF Covers
<1>5. CASE x = n
  BY <1>0, <1>2, <1>3, <1>5 DEF Copied
<1>6. CASE x = b
  BY <1>0, <1>1, <1>2, <1>4, <1>6 DEF Copied
<1>7. CASE x # n /\ x # b
  BY <1>0, <1>1, <1>2, <1>4, <1>7 DEF Copied
<1> QED BY <1>5, <1>6, <1>7

(***************************************************************************)
(* A lookup reserves a prefix.                                             *)
(***************************************************************************)
LEMMA CoversReserve ==
  ASSUME NEW ref \in [Blocks -> Nat], NEW ref2 \in [Blocks -> Nat], NEW K \in Holdings, NEW H \in Holdings,
         Covers(ref, K, H), NEW r \in Reqs, H[r] = {}, NEW X \in SUBSET Blocks, ~PrefixCache => X = {},
         \A b \in Blocks : ref2[b] = IF b \in X THEN ref[b] + 1 ELSE ref[b]
  PROVE  Covers(ref2, K, [H EXCEPT ![r] = X])
<1> SUFFICES ASSUME NEW b \in Blocks
             PROVE  LET n == Count(K, b) + Count([H EXCEPT ![r] = X], b)
                    IN  ref2[b] >= n /\ (PrefixCache \/ (ref2[b] = n /\ ref2[b] <= 1))
  BY DEF Covers
<1>1. Count(K, b) \in Nat /\ Count(H, b) \in Nat
  BY CountType
<1>2. Count([H EXCEPT ![r] = X], b) = IF b \in X THEN Count(H, b) + 1 ELSE Count(H, b)
  BY CountUpdate
<1>3. /\ ref[b] >= Count(K, b) + Count(H, b)
      /\ PrefixCache \/ (ref[b] = Count(K, b) + Count(H, b) /\ ref[b] <= 1)
  BY DEF Covers
<1>4. ref2[b] = IF b \in X THEN ref[b] + 1 ELSE ref[b]
  OBVIOUS
<1>5. ~PrefixCache => b \notin X
  OBVIOUS
<1> QED BY ONLY <1>1, <1>2, <1>3, <1>4, <1>5, ref \in [Blocks -> Nat], b \in Blocks
-----------------------------------------------------------------------------
(***************************************************************************)
(* The shapes of the engine's data.                                        *)
(***************************************************************************)
CellSet == {<<>>} \union {Text(r, n) : r \in Reqs, n \in Int}
Contents == [0 .. BlockSize - 1 -> CellSet]
States == {"pending", "active"} \union Outcomes
Swaps == [active : BOOLEAN, data : Seq(Contents)]
ReqRecs == [state : States, cancelled : BOOLEAN, prefill : BOOLEAN, rem : Int, n_past : Int,
            table : Seq(Blocks), gen : Int, reg : Nat, swap : Swaps]
Scheds == [waiting : SUBSET Reqs, running : SUBSET Reqs, swapped : SUBSET Reqs,
           rem : [Reqs -> Int], shared : [Reqs -> Seq(Blocks)], ctx : [Reqs -> Int],
           gen : [Reqs -> Int], sblk : [Reqs -> Seq(Blocks)], arr : [Reqs -> Int],
           clock : Int, streak : Int]
Outs == [prefill : Seq(Reqs), decode : Seq(Reqs), preempted : SUBSET Reqs, swapin : SUBSET Reqs,
         alloc : [Reqs -> Seq(Blocks)], hits : [Reqs -> Seq(Blocks)], chunk : [Reqs -> Int],
         total : Int, bctx : Int, blocked : BOOLEAN, unsched : BOOLEAN, diag : Reqs \union {NoReq}]

Distinct(q) == \A i, j \in DOMAIN q : q[i] = q[j] => i = j
Kept(q) == [r \in Reqs |-> BlocksOf(q[r].table)]
Reserved(s) == [r \in Reqs |-> BlocksOf(s.shared[r])]

(***************************************************************************)
(* What the worker's record v of request r and the scheduler s have to say *)
(* to each other, about every request.                                     *)
(***************************************************************************)
Fits(v, s, r) ==
  /\ r \in s.waiting => r \notin s.running /\ r \notin s.swapped /\ v.prefill = TRUE
  /\ v.state = "pending" => /\ r \notin s.waiting /\ r \notin s.running /\ r \notin s.swapped
                            /\ v.table = <<>> /\ v.prefill = TRUE
  /\ s.shared[r] # <<>> => r \in s.waiting /\ v.table = <<>> /\ PrefixCache
  /\ Distinct(v.table) /\ Distinct(s.shared[r])

Sound(m, q, s) ==
  /\ GoodBM(m) /\ q \in [Reqs -> ReqRecs] /\ s \in Scheds
  /\ Covers(m.ref, Kept(q), Reserved(s))
  /\ \A r \in Reqs : Fits(q[r], s, r)

\* Requests other than r are as they were.
SameBut(q, q2, s, s2, r) ==
  \A x \in Reqs \ {r} : /\ q2[x] = q[x]
                        /\ x \in s2.waiting <=> x \in s.waiting
                        /\ x \in s2.running <=> x \in s.running
                        /\ x \in s2.swapped <=> x \in s.swapped
                        /\ s2.shared[x] = s.shared[x]

(***************************************************************************)
(* The blocks of sequences.                                                *)
(***************************************************************************)
LEMMA BlocksOfSeq ==
  ASSUME NEW S, NEW q \in Seq(S)
  PROVE  BlocksOf(q) \subseteq S /\ (BlocksOf(q) = {} <=> q = <<>>)
<1>1. BlocksOf(q) \subseteq S
  BY DEF BlocksOf
<1>2. BlocksOf(q) = {} <=> q = <<>>
  BY DEF BlocksOf
<1> QED BY <1>1, <1>2

LEMMA BlocksOfConcat ==
  ASSUME NEW S, NEW p \in Seq(S), NEW q \in Seq(S)
  PROVE  /\ p \o q \in Seq(S) /\ BlocksOf(p \o q) = BlocksOf(p) \union BlocksOf(q)
         /\ Distinct(p) /\ Distinct(q) /\ BlocksOf(p) \intersect BlocksOf(q) = {} => Distinct(p \o q)
<1> DEFINE c == p \o q
<1>0. Len(p) \in Nat /\ Len(q) \in Nat /\ DOMAIN p = 1 .. Len(p) /\ DOMAIN q = 1 .. Len(q)
  OBVIOUS
<1>1. /\ c \in Seq(S) /\ DOMAIN c = 1 .. Len(p) + Len(q)
      /\ \A i \in 1 .. Len(p) + Len(q) : c[i] = IF i <= Len(p) THEN p[i] ELSE q[i - Len(p)]
  BY ConcatProperties
<1> HIDE DEF c
<1>2. ASSUME NEW i \in DOMAIN c
      PROVE  \/ i \in DOMAIN p /\ c[i] = p[i]
             \/ i - Len(p) \in DOMAIN q /\ c[i] = q[i - Len(p)] /\ ~(i <= Len(p))
  BY <1>0, <1>1
<1>3. /\ \A i \in DOMAIN p : i \in DOMAIN c /\ c[i] = p[i]
      /\ \A i \in DOMAIN q : i + Len(p) \in DOMAIN c /\ c[i + Len(p)] = q[i]
  BY <1>0, <1>1
<1>4. BlocksOf(c) \subseteq BlocksOf(p) \union BlocksOf(q)
  BY <1>2 DEF BlocksOf
<1>5. BlocksOf(p) \subseteq BlocksOf(c) /\ BlocksOf(q) \subseteq BlocksOf(c)
  BY <1>3 DEF BlocksOf
<1>6. ASSUME Distinct(p), Distinct(q), BlocksOf(p) \intersect BlocksOf(q) = {} PROVE Distinct(c)
  <2> SUFFICES ASSUME NEW i \in DOMAIN c, NEW j \in DOMAIN c, c[i] = c[j] PROVE i = j
    BY DEF Distinct
  <2>0. i \in Int /\ j \in Int
    BY <1>1
  <2>1. \A x \in DOMAIN p, y \in DOMAIN q : p[x] # q[y]
    BY <1>6 DEF BlocksOf
  <2>2. CASE i \in DOMAIN p /\ c[i] = p[i] /\ j \in DOMAIN p /\ c[j] = p[j]
    BY <1>6, <2>2 DEF Distinct
  <2>3. CASE /\ i - Len(p) \in DOMAIN q /\ c[i] = q[i - Len(p)]
             /\ j - Len(p) \in DOMAIN q /\ c[j] = q[j - Len(p)]
    <3>1. i - Len(p) = j - Len(p)
      BY <1>6, <2>3 DEF Distinct
    <3> QED BY <1>0, <2>0, <3>1
  <2> QED BY <1>2, <2>1, <2>2, <2>3
<1> QED BY <1>1, <1>4, <1>5, <1>6 DEF c

LEMMA SingletonSeq ==
  ASSUME NEW S, NEW e \in S
  PROVE  <<e>> \in Seq(S) /\ BlocksOf(<<e>>) = {e} /\ Distinct(<<e>>)
<1>0. <<e>> \in Seq(S)
  OBVIOUS
<1>1. PICK q \in Seq(S) : q = <<e>>
  BY ONLY <1>0
<1>2. DOMAIN q = {1} /\ q[1] = e
  BY <1>1
<1>3. BlocksOf(q) = {e} /\ Distinct(q)
  BY <1>2 DEF BlocksOf, Distinct
<1> QED BY <1>1, <1>3

LEMMA EmptySeqFacts ==
  /\ BlocksOf(<<>>) = {} /\ Distinct(<<>>)
  /\ \A S : <<>> \in Seq(S)
  BY DEF BlocksOf, Distinct

(***************************************************************************)
(* Holdings are sets of blocks.                                            *)
(***************************************************************************)
LEMMA HoldingsTypes ==
  /\ \A q \in [Reqs -> ReqRecs] : Kept(q) \in Holdings
  /\ \A s \in Scheds : Reserved(s) \in Holdings
<1>1. ASSUME NEW q \in [Reqs -> ReqRecs], NEW r \in Reqs PROVE BlocksOf(q[r].table) \in SUBSET Blocks
  <2>1. q[r].table \in Seq(Blocks)
    BY DEF ReqRecs
  <2> QED BY <2>1, BlocksOfSeq
<1>2. ASSUME NEW s \in Scheds, NEW r \in Reqs PROVE BlocksOf(s.shared[r]) \in SUBSET Blocks
  <2>1. s.shared[r] \in Seq(Blocks)
    BY DEF Scheds
  <2> QED BY <2>1, BlocksOfSeq
<1> QED BY <1>1, <1>2 DEF Kept, Reserved, Holdings

(***************************************************************************)
(* A step that concerns one request keeps the state sound if it keeps that *)
(* request's part of it.                                                   *)
(***************************************************************************)
LEMMA SoundStep ==
  ASSUME NEW m, NEW q, NEW s, Sound(m, q, s), NEW r \in Reqs,
         NEW n, GoodBM(n), NEW q2 \in [Reqs -> ReqRecs], NEW s2 \in Scheds,
         SameBut(q, q2, s, s2, r), Fits(q2[r], s2, r),
         Covers(n.ref, [Kept(q) EXCEPT ![r] = BlocksOf(q2[r].table)],
                       [Reserved(s) EXCEPT ![r] = BlocksOf(s2.shared[r])])
  PROVE  Sound(n, q2, s2)
<1>1. Kept(q2) = [Kept(q) EXCEPT ![r] = BlocksOf(q2[r].table)]
  BY DEF Kept, SameBut
<1>2. Reserved(s2) = [Reserved(s) EXCEPT ![r] = BlocksOf(s2.shared[r])]
  BY DEF Reserved, SameBut
<1>3. ASSUME NEW x \in Reqs PROVE Fits(q2[x], s2, x)
  <2>1. CASE x = r
    BY <2>1
  <2>2. CASE x # r
    <3>1. Fits(q[x], s, x)
      BY DEF Sound
    <3> QED BY <2>2, <3>1 DEF SameBut, Fits
  <2> QED BY <2>1, <2>2
<1> QED BY <1>1, <1>2, <1>3 DEF Sound
-----------------------------------------------------------------------------
(***************************************************************************)
(* The tables of a set of requests are freed, one after the other.         *)
(***************************************************************************)
NextToFree(s) == CHOOSE x \in s : TRUE
FreeStep(r, m, c) == Free(m, BlocksOf(c.q[r].table))
WithoutTables(K, R) == [r \in Reqs |-> IF r \in R THEN {} ELSE K[r]]
FreedSoFar(R, m, c) == GoodBM(m) /\ Covers(m.ref, WithoutTables(Kept(c.q), R), c.h)

Freeing == INSTANCE Folding_proofs WITH Choose <- NextToFree, Step <- FreeStep, Good <- FreedSoFar

LEMMA FreeTablesCovers ==
  ASSUME NEW m, GoodBM(m), NEW q \in [Reqs -> ReqRecs], NEW H \in Holdings,
         Covers(m.ref, Kept(q), H), NEW R \in SUBSET Reqs
  PROVE  /\ GoodBM(FreeTables(m, q, R))
         /\ Covers(FreeTables(m, q, R).ref, WithoutTables(Kept(q), R), H)
<1> DEFINE c == [q |-> q, h |-> H]
<1>0. c.q = q /\ c.h = H
  OBVIOUS
<1>1. FreeTables(m, q, R) = Freeing!Fold(R, m, c)
  BY ZenonT(60) DEF FreeTables, FoldSet, MapThenFoldSet, Freeing!Fold, Freeing!MapThenFoldSet, NextToFree, FreeStep
<1> HIDE DEF c
<1>2. Freeing!IsFiniteSet(R)
  <2>1. IsFiniteSet(R)
    BY ReqsAssumption, FS_Subset
  <2> QED BY <2>1, Zenon DEF IsFiniteSet, Freeing!IsFiniteSet
<1>3. Freeing!Chooses(R)
  BY DEF Freeing!Chooses, NextToFree
<1>4. Kept(q) \in Holdings
  BY HoldingsTypes
<1>5. FreedSoFar({}, m, c)
  <2>1. WithoutTables(Kept(q), {}) = Kept(q)
    BY DEF WithoutTables, Kept
  <2> QED BY <1>0, <2>1 DEF FreedSoFar
<1>6. ASSUME NEW S \in SUBSET R, NEW n, S # {}, FreedSoFar(S \ {NextToFree(S)}, n, c)
      PROVE  FreedSoFar(S, FreeStep(NextToFree(S), n, c), c)
  <2>1. PICK r \in S : r = NextToFree(S)
    BY <1>6 DEF NextToFree
  <2>2. r \in Reqs /\ BlocksOf(q[r].table) \in SUBSET Blocks
    BY <1>4, <2>1 DEF Holdings, Kept
  <2> DEFINE K == WithoutTables(Kept(q), S \ {r})
             n2 == Free(n, BlocksOf(q[r].table))
  <2>3. GoodBM(n) /\ Covers(n.ref, K, H)
    BY <1>0, <1>6, <2>1 DEF FreedSoFar
  <2>4. K \in Holdings /\ K[r] = BlocksOf(q[r].table)
    BY <1>4, <2>1, <2>2 DEF WithoutTables, Holdings, Kept
  <2>5. GoodBM(n2)
    BY <2>2, <2>3, FreeGood
  <2>6. \A b \in Blocks : n2.ref[b] = IF b \in K[r] /\ n.ref[b] > 0 THEN n.ref[b] - 1 ELSE n.ref[b]
    BY <2>4 DEF Free
  <2>7. n.ref \in [Blocks -> Nat] /\ n2.ref \in [Blocks -> Nat]
    BY <2>3, <2>5 DEF GoodBM, BMType
  <2>8. [K EXCEPT ![r] = {}] = WithoutTables(Kept(q), S)
    BY <2>1, <2>2 DEF WithoutTables
  <2> HIDE DEF K, n2
  <2>9. Covers(n2.ref, [K EXCEPT ![r] = {}], H)
    BY <2>2, <2>3, <2>4, <2>6, <2>7, CoversFree
  <2>10. FreeStep(NextToFree(S), n, c) = n2
    BY <1>0, <2>1 DEF FreeStep, n2
  <2> QED BY <1>0, <2>5, <2>8, <2>9, <2>10 DEF FreedSoFar
<1>7. Freeing!Kept(R, c)
  BY <1>6 DEF Freeing!Kept
<1>8. FreedSoFar(R, Freeing!Fold(R, m, c), c)
  BY ONLY <1>2, <1>3, <1>5, <1>7, Freeing!FoldInvariant
<1> QED BY <1>0, <1>1, <1>8 DEF FreedSoFar
-----------------------------------------------------------------------------
(***************************************************************************)
(* The smaller and the larger of integers is one of them.                  *)
(***************************************************************************)
LEMMA MinMaxType ==
  ASSUME NEW a \in Int, NEW b \in Int
  PROVE  /\ Min({a, b}) \in {a, b} /\ Min({a, b}) <= a /\ Min({a, b}) <= b
         /\ Max({a, b}) \in {a, b} /\ Max({a, b}) >= a /\ Max({a, b}) >= b
<1>1. \E x \in {a, b} : \A y \in {a, b} : x <= y
  OBVIOUS
<1>2. \E x \in {a, b} : \A y \in {a, b} : x >= y
  OBVIOUS
<1> QED BY <1>1, <1>2 DEF Min, Max

LEMMA Min3Type ==
  ASSUME NEW a \in Int, NEW b \in Int, NEW c \in Int
  PROVE  Min({a, b, c}) \in {a, b, c} /\ Min({a, b, c}) <= a /\ Min({a, b, c}) <= b /\ Min({a, b, c}) <= c
<1>1. \E x \in {a, b, c} : \A y \in {a, b, c} : x <= y
  <2>1. CASE a <= b /\ a <= c
    BY <2>1
  <2>2. CASE b <= a /\ b <= c
    BY <2>2
  <2>3. CASE c <= a /\ c <= b
    BY <2>3
  <2> QED BY <2>1, <2>2, <2>3
<1> QED BY <1>1 DEF Min

LEMMA PromptLenType ==
  ASSUME NEW r \in Reqs
  PROVE  PromptLen(r) \in Nat
  BY PromptAssumption, LenProperties DEF PromptLen

LEMMA BlocksNeededType ==
  ASSUME NEW n \in Int
  PROVE  BlocksNeeded(n) \in Int
<1>1. PICK k \in Int : k = n + BlockSize - 1
  BY BlockSizeAssumption
<1>2. k \div BlockSize \in Int
  BY BlockSizeAssumption
<1> QED BY <1>1, <1>2 DEF BlocksNeeded

(***************************************************************************)
(* A request that was submitted has the shape of a request, and no blocks. *)
(***************************************************************************)
LEMMA SubmittedType ==
  ASSUME NEW r \in Reqs
  PROVE  Submitted(r) \in ReqRecs /\ Submitted(r).table = <<>> /\ Submitted(r).prefill = TRUE
<1>1. NoSwap \in Swaps
  BY EmptySeqFacts DEF NoSwap, Swaps
<1>2. <<>> \in Seq(Blocks) /\ PromptLen(r) \in Int
  BY EmptySeqFacts, PromptLenType
<1> QED BY <1>1, <1>2 DEF Submitted, ReqRecs, States

(***************************************************************************)
(* The scheduler forgets requests completely.                              *)
(***************************************************************************)
LEMMA RemoveRequestsType ==
  ASSUME NEW s \in Scheds, NEW R \in SUBSET Reqs, NEW s2, s2 = RemoveRequests(s, R)
  PROVE  /\ s2 \in Scheds
         /\ s2.waiting = s.waiting \ R /\ s2.running = s.running \ R /\ s2.swapped = s.swapped \ R
         /\ \A r \in Reqs : s2.shared[r] = IF r \in R THEN <<>> ELSE s.shared[r]
<1>1. <<>> \in Seq(Blocks)
  BY EmptySeqFacts
<1>2. s2 = [waiting |-> s.waiting \ R, running |-> s.running \ R, swapped |-> s.swapped \ R,
            rem |-> [r \in Reqs |-> IF r \in R THEN 0 ELSE s.rem[r]],
            shared |-> [r \in Reqs |-> IF r \in R THEN <<>> ELSE s.shared[r]],
            ctx |-> [r \in Reqs |-> IF r \in R THEN 0 ELSE s.ctx[r]],
            gen |-> [r \in Reqs |-> IF r \in R THEN 0 ELSE s.gen[r]],
            sblk |-> [r \in Reqs |-> IF r \in R THEN <<>> ELSE s.sblk[r]],
            arr |-> s.arr, clock |-> s.clock, streak |-> s.streak]
  BY DEF RemoveRequests, Scheds
<1> QED BY <1>1, <1>2 DEF Scheds

(***************************************************************************)
(* The blocks of R are freed, and the members of E end: the others keep    *)
(* what they had, except that those of R have lost their tables.           *)
(***************************************************************************)
LEMMA SoundRelease ==
  ASSUME NEW m, NEW q, NEW s, Sound(m, q, s), NEW R \in SUBSET Reqs, NEW E \in SUBSET R,
         NEW q2 \in [Reqs -> ReqRecs], NEW s2, s2 = RemoveRequests(s, E),
         \A r \in Reqs : q2[r].table = IF r \in R THEN <<>> ELSE q[r].table,
         \A r \in Reqs \ E : q2[r].state = q[r].state /\ q2[r].prefill = q[r].prefill,
         \A r \in E : q2[r].prefill = TRUE
  PROVE  Sound(FreeTables(m, q, R), q2, s2)
<1>0. GoodBM(m) /\ q \in [Reqs -> ReqRecs] /\ s \in Scheds /\ Covers(m.ref, Kept(q), Reserved(s))
  BY DEF Sound
<1>1. /\ s2 \in Scheds
      /\ s2.waiting = s.waiting \ E /\ s2.running = s.running \ E /\ s2.swapped = s.swapped \ E
      /\ \A r \in Reqs : s2.shared[r] = IF r \in E THEN <<>> ELSE s.shared[r]
  BY <1>0, RemoveRequestsType
<1>2. Reserved(s) \in Holdings /\ Reserved(s2) \in Holdings
  BY <1>0, <1>1, HoldingsTypes
<1> DEFINE n == FreeTables(m, q, R)
<1>3. GoodBM(n) /\ Covers(n.ref, WithoutTables(Kept(q), R), Reserved(s))
  BY <1>0, <1>2, FreeTablesCovers
<1>4. WithoutTables(Kept(q), R) = Kept(q2)
  BY EmptySeqFacts DEF WithoutTables, Kept
<1>5. \A r \in Reqs : Fits(q[r], s, r)
  BY DEF Sound
<1>6. \A r \in Reqs : Reserved(s2)[r] \subseteq Reserved(s)[r]
  BY <1>1, EmptySeqFacts DEF Reserved
<1>7. ~PrefixCache => Reserved(s2) = Reserved(s)
  <2>1. ~PrefixCache => \A r \in Reqs : s2.shared[r] = s.shared[r]
    BY <1>1, <1>5 DEF Fits
  <2> QED BY <2>1 DEF Reserved
<1>8. Covers(n.ref, Kept(q2), Reserved(s2))
  <2>1. n.ref \in [Blocks -> Nat]
    BY <1>3 DEF GoodBM, BMType
  <2> HIDE DEF n
  <2> QED BY <1>2, <1>3, <1>4, <1>6, <1>7, <2>1, CoversDrop
<1>9. ASSUME NEW r \in Reqs PROVE Fits(q2[r], s2, r)
  <2>1. CASE r \in E
    BY <1>1, <2>1, EmptySeqFacts DEF Fits
  <2>2. CASE r \notin E
    BY <1>1, <1>5, <2>2, EmptySeqFacts DEF Fits
  <2> QED BY <2>1, <2>2
<1> QED BY <1>1, <1>3, <1>8, <1>9 DEF Sound

\* n hands out the blocks of X, which nobody had, with one reference each.
HandsOut(m, n, X) ==
  \A b \in Blocks : IF b \in X THEN m.ref[b] = 0 /\ n.ref[b] = 1 ELSE n.ref[b] = m.ref[b]

(***************************************************************************)
(* Request r receives new blocks ids, and the prefix reserved for it, if   *)
(* any, becomes part of its table.                                         *)
(***************************************************************************)
LEMMA SoundTake ==
  ASSUME NEW m, NEW q, NEW s, Sound(m, q, s), NEW r \in Reqs,
         NEW n, GoodBM(n), NEW ids \in Seq(Blocks), Distinct(ids), HandsOut(m, n, BlocksOf(ids)),
         NEW q2 \in [Reqs -> ReqRecs], NEW s2 \in Scheds, SameBut(q, q2, s, s2, r),
         q2[r].table = (q[r].table \o ids) \o s.shared[r], s2.shared[r] = <<>>,
         q2[r].state # "pending",
         r \in s2.waiting => r \notin s2.running /\ r \notin s2.swapped /\ q2[r].prefill = TRUE
  PROVE  Sound(n, q2, s2)
<1>0. GoodBM(m) /\ q \in [Reqs -> ReqRecs] /\ s \in Scheds /\ Covers(m.ref, Kept(q), Reserved(s))
  BY DEF Sound
<1>1. PICK K \in Holdings : K = Kept(q)
  BY <1>0, HoldingsTypes
<1>2. PICK H \in Holdings : H = Reserved(s)
  BY <1>0, HoldingsTypes
<1>3. PICK X \in SUBSET Blocks : X = BlocksOf(ids)
  BY BlocksOfSeq
<1>4. PICK t \in Seq(Blocks) : t = q[r].table /\ BlocksOf(t) = K[r] /\ Distinct(t)
  <2>1. q[r].table \in Seq(Blocks)
    BY <1>0 DEF ReqRecs
  <2>2. Distinct(q[r].table)
    BY DEF Sound, Fits
  <2> QED BY <1>1, <2>1, <2>2 DEF Kept
<1>5. PICK h \in Seq(Blocks) : h = s.shared[r] /\ BlocksOf(h) = H[r] /\ Distinct(h)
  <2>1. s.shared[r] \in Seq(Blocks)
    BY <1>0 DEF Scheds
  <2>2. Distinct(s.shared[r])
    BY DEF Sound, Fits
  <2> QED BY <1>2, <2>1, <2>2 DEF Reserved
<1>6. K[r] \intersect H[r] = {}
  <2>1. h # <<>> => t = <<>>
    BY <1>4, <1>5 DEF Sound, Fits
  <2> QED BY <1>4, <1>5, <2>1, EmptySeqFacts
<1>7. m.ref \in [Blocks -> Nat] /\ n.ref \in [Blocks -> Nat]
  BY <1>0 DEF GoodBM, BMType
<1>8. \A b \in X : b \notin K[r] /\ b \notin H[r]
  <2> SUFFICES ASSUME NEW b \in X PROVE b \notin K[r] /\ b \notin H[r]
    OBVIOUS
  <2>1. b \in Blocks /\ m.ref[b] = 0
    BY <1>3 DEF HandsOut
  <2>2. Covers(m.ref, K, H)
    BY <1>0, <1>1, <1>2
  <2> QED BY <1>7, <2>1, <2>2, UnreferencedFree
<1>9. /\ t \o ids \in Seq(Blocks) /\ BlocksOf(t \o ids) = K[r] \union X /\ Distinct(t \o ids)
  <2>1. BlocksOf(t) \intersect BlocksOf(ids) = {}
    BY <1>3, <1>4, <1>8
  <2>2. /\ t \o ids \in Seq(Blocks) /\ BlocksOf(t \o ids) = BlocksOf(t) \union BlocksOf(ids)
        /\ Distinct(t) /\ Distinct(ids) /\ BlocksOf(t) \intersect BlocksOf(ids) = {} => Distinct(t \o ids)
    BY BlocksOfConcat
  <2> QED BY <1>3, <1>4, <2>1, <2>2
<1>10. PICK u \in Seq(Blocks) : u = t \o ids
  BY <1>9
<1>11. BlocksOf(u \o h) = (K[r] \union X) \union H[r] /\ Distinct(u \o h)
  <2>1. BlocksOf(u) \intersect BlocksOf(h) = {}
    BY <1>5, <1>6, <1>8, <1>9, <1>10
  <2>2. /\ BlocksOf(u \o h) = BlocksOf(u) \union BlocksOf(h)
        /\ Distinct(u) /\ Distinct(h) /\ BlocksOf(u) \intersect BlocksOf(h) = {} => Distinct(u \o h)
    BY BlocksOfConcat
  <2> QED BY <1>5, <1>9, <1>10, <2>1, <2>2
<1>12. q2[r].table = u \o h
  BY <1>4, <1>5, <1>10
<1>13. PICK K2 \in Holdings : K2 = [K EXCEPT ![r] = K[r] \union X]
  BY DEF Holdings
<1>14. Covers(n.ref, K2, H)
  <2>1. Covers(m.ref, K, H)
    BY <1>0, <1>1, <1>2
  <2>2. \A b \in Blocks : IF b \in X THEN m.ref[b] = 0 /\ n.ref[b] = 1 ELSE n.ref[b] = m.ref[b]
    BY <1>3 DEF HandsOut
  <2> QED BY <1>7, <1>13, <2>1, <2>2, CoversTake
<1>15. PICK Y \in SUBSET Blocks : Y = K2[r] \union H[r] /\ Y = BlocksOf(q2[r].table)
  BY <1>11, <1>12, <1>13 DEF Holdings
<1>16. Covers(n.ref, [K2 EXCEPT ![r] = Y], [H EXCEPT ![r] = {}])
  <2>1. K2[r] \intersect H[r] = {}
    BY <1>6, <1>8, <1>13 DEF Holdings
  <2> QED BY <1>7, <1>14, <1>15, <2>1, CoversAdopt
<1>17. [K2 EXCEPT ![r] = Y] = [Kept(q) EXCEPT ![r] = BlocksOf(q2[r].table)]
  BY <1>1, <1>13, <1>15 DEF Holdings
<1>18. [H EXCEPT ![r] = {}] = [Reserved(s) EXCEPT ![r] = BlocksOf(s2.shared[r])]
  BY <1>2, EmptySeqFacts
<1>19. Fits(q2[r], s2, r)
  BY <1>11, <1>12, EmptySeqFacts DEF Fits
<1> QED BY <1>16, <1>17, <1>18, <1>19, SoundStep

(***************************************************************************)
(* The members of R end, on whatever path.                                 *)
(***************************************************************************)
LEMMA EndSound ==
  ASSUME NEW m, NEW q, NEW s, Sound(m, q, s), NEW R \in SUBSET Reqs, NEW how \in Outcomes
  PROVE  Sound(FreeTables(m, q, R), Ended(q, R, how), RemoveRequests(s, R))
<1>0. q \in [Reqs -> ReqRecs]
  BY DEF Sound
<1>1. PICK q2 : q2 = Ended(q, R, how)
  OBVIOUS
<1>2. ASSUME NEW r \in Reqs
      PROVE  /\ q2[r] \in ReqRecs /\ (r \in R => q2[r].table = <<>> /\ q2[r].prefill = TRUE)
             /\ r \notin R => q2[r] = q[r]
  <2>1. CASE r \in R
    <3>1. how \in States /\ q[r].cancelled \in BOOLEAN
      BY <1>0 DEF States, ReqRecs
    <3>2. PICK u : u = Submitted(r)
      OBVIOUS
    <3>3. q2[r] = [u EXCEPT !.state = how, !.cancelled = q[r].cancelled]
      BY <1>1, <2>1, <3>2 DEF Ended
    <3>4. u \in ReqRecs /\ u.table = <<>> /\ u.prefill = TRUE
      BY <3>2, SubmittedType
    <3>5. q2[r] \in ReqRecs /\ q2[r].table = <<>> /\ q2[r].prefill = TRUE
      BY <3>1, <3>3, <3>4 DEF ReqRecs
    <3> QED BY <2>1, <3>5
  <2>2. CASE r \notin R
    BY <1>0, <1>1, <2>2 DEF Ended
  <2> QED BY <2>1, <2>2
<1>3. q2 \in [Reqs -> ReqRecs]
  BY <1>1, <1>2 DEF Ended
<1>4. /\ \A r \in Reqs : q2[r].table = IF r \in R THEN <<>> ELSE q[r].table
      /\ \A r \in Reqs \ R : q2[r].state = q[r].state /\ q2[r].prefill = q[r].prefill
      /\ \A r \in R : q2[r].prefill = TRUE
  BY <1>2
<1>5. PICK s2 : s2 = RemoveRequests(s, R)
  OBVIOUS
<1>6. Sound(FreeTables(m, q, R), q2, s2)
  BY <1>3, <1>4, <1>5, SoundRelease
<1> QED BY <1>1, <1>5, <1>6
-----------------------------------------------------------------------------
(***************************************************************************)
(* A step that moves no blocks and keeps request r's part in order.        *)
(***************************************************************************)
LEMMA SoundTouch ==
  ASSUME NEW m, NEW q, NEW s, Sound(m, q, s), NEW r \in Reqs, NEW n, GoodBM(n), n.ref = m.ref,
         NEW q2 \in [Reqs -> ReqRecs], NEW s2 \in Scheds, SameBut(q, q2, s, s2, r), Fits(q2[r], s2, r),
         q2[r].table = q[r].table, s2.shared[r] = s.shared[r]
  PROVE  Sound(n, q2, s2)
<1>1. Kept(q2) = Kept(q)
  BY DEF Kept, SameBut
<1>2. Reserved(s2) = Reserved(s)
  BY DEF Reserved, SameBut
<1>3. Covers(n.ref, Kept(q2), Reserved(s2))
  BY <1>1, <1>2 DEF Sound
<1>4. ASSUME NEW x \in Reqs PROVE Fits(q2[x], s2, x)
  <2>1. CASE x = r
    BY <2>1
  <2>2. CASE x # r
    <3>1. Fits(q[x], s, x)
      BY DEF Sound
    <3> QED BY <2>2, <3>1 DEF SameBut, Fits
  <2> QED BY <2>1, <2>2
<1> QED BY <1>3, <1>4 DEF Sound

(***************************************************************************)
(* Step 10 works on records of the blocks, the scheduler and the requests. *)
(* The members of the batch B have no reserved prefix left to adopt.       *)
(***************************************************************************)
Ready(y, x) == y.s.shared[x] = <<>> /\ y.q[x].state # "pending"
Working(y, B) ==
  /\ y = [m |-> y.m, s |-> y.s, q |-> y.q]
  /\ Sound(y.m, y.q, y.s)
  /\ \A x \in B : Ready(y, x)

LEMMA FinishWorking ==
  ASSUME NEW B \in SUBSET Reqs, NEW y, Working(y, B), NEW r \in Reqs, NEW how \in Outcomes
  PROVE  Working(Finish(y, r, how), B)
<1> DEFINE z == Finish(y, r, how)
<1>0. Sound(y.m, y.q, y.s) /\ y.s \in Scheds /\ {r} \in SUBSET Reqs
  BY DEF Working, Sound
<1>1. /\ z = [m |-> z.m, s |-> z.s, q |-> z.q] /\ z.m = FreeTables(y.m, y.q, {r})
      /\ z.s = RemoveRequests(y.s, {r}) /\ z.q = Ended(y.q, {r}, how)
  BY DEF Finish
<1> HIDE DEF z
<1>2. Sound(z.m, z.q, z.s)
  BY <1>0, <1>1, EndSound
<1>3. ASSUME NEW x \in B PROVE Ready(z, x)
  <2>1. z.s.shared[x] = IF x \in {r} THEN <<>> ELSE y.s.shared[x]
    BY <1>0, <1>1, RemoveRequestsType
  <2>2. CASE x = r
    <3>1. PICK u \in ReqRecs : u = Submitted(x)
      BY SubmittedType
    <3>2. z.q[x] = [u EXCEPT !.state = how, !.cancelled = y.q[x].cancelled]
      BY <1>1, <2>2, <3>1 DEF Ended
    <3>3. z.q[x].state = how
      BY <3>1, <3>2 DEF ReqRecs
    <3> QED BY <2>1, <2>2, <3>3 DEF Ready, Outcomes
  <2>3. CASE x # r
    <3>1. z.q[x] = y.q[x]
      BY <1>1, <2>3 DEF Ended
    <3> QED BY <2>1, <2>3, <3>1 DEF Working, Ready
  <2> QED BY <2>2, <2>3
<1>4. Working(z, B)
  BY <1>1, <1>2, <1>3 DEF Working
<1> QED BY <1>4 DEF z

(***************************************************************************)
(* AllocateSingle hands out one unreferenced block, or none.               *)
(***************************************************************************)
LEMMA AllocateSingleGood ==
  ASSUME NEW m, GoodBM(m), NEW a \in AllocateSingle(m), a.id # NoBlock
  PROVE  GoodBM(a.next) /\ a.id \in Blocks /\ HandsOut(m, a.next, {a.id})
<1> DEFINE w == [ids |-> {a.id} \ {NoBlock}, next |-> a.next]
<1>1. w \in Allocate(m, 1)
  <2>1. Allocate(m, 1) = {[ids |-> {r.id} \ {NoBlock}, next |-> r.next] : r \in AllocateSingle(m)}
    <3>1. ~(1 <= 0)
      OBVIOUS
    <3> QED BY <3>1, Zenon DEF Allocate
  <2> QED BY <2>1
<1>2. w.ids = {a.id} /\ w.next = a.next
  OBVIOUS
<1> HIDE DEF w
<1>3. /\ GoodBM(w.next)
      /\ w.ids \subseteq Blocks
      /\ \A b \in Blocks : IF b \in w.ids THEN m.ref[b] = 0 /\ w.next.ref[b] = 1
                           ELSE w.next.ref[b] = m.ref[b]
  BY <1>1, AllocateGood
<1> QED BY <1>2, <1>3 DEF HandsOut

LEMMA GrowTableWorking ==
  ASSUME NEW B \in SUBSET Reqs, NEW y, Working(y, B), NEW r \in B, NEW z \in GrowTable(y, r)
  PROVE  Working(z, B)
<1>0. Sound(y.m, y.q, y.s) /\ GoodBM(y.m) /\ y.q \in [Reqs -> ReqRecs] /\ y.s \in Scheds /\ r \in Reqs
  BY DEF Working, Sound
<1>1. CASE y.q[r].state # "active"
  BY <1>1 DEF GrowTable
<1>2. CASE y.q[r].state = "active"
  <2>1. PICK a \in AllocateSingle(y.m) :
           z = IF a.id = NoBlock THEN Finish(y, r, "oom")
               ELSE [y EXCEPT !.m = a.next, !.q[r].table = Append(@, a.id)]
    BY <1>2 DEF GrowTable
  <2>2. CASE a.id = NoBlock
    <3>1. "oom" \in Outcomes
      BY DEF Outcomes
    <3>2. z = Finish(y, r, "oom")
      BY <2>1, <2>2
    <3> QED BY <1>0, <3>1, <3>2, FinishWorking
  <2>3. CASE a.id # NoBlock
    <3>1. GoodBM(a.next) /\ a.id \in Blocks /\ HandsOut(y.m, a.next, {a.id})
      BY <1>0, <2>3, AllocateSingleGood
    <3>2. PICK t \in Seq(Blocks) : t = y.q[r].table
      BY <1>0 DEF ReqRecs
    <3>3. PICK ids \in Seq(Blocks) : ids = <<a.id>> /\ BlocksOf(ids) = {a.id} /\ Distinct(ids)
      BY <3>1, SingletonSeq
    <3>4. PICK u \in Seq(Blocks) : u = Append(t, a.id) /\ u = t \o ids
      <4>1. Append(t, a.id) = t \o ids
        BY <3>1, <3>3, AppendIsConcat
      <4>2. t \o ids \in Seq(Blocks)
        OBVIOUS
      <4> QED BY ONLY <4>1, <4>2
    <3>5. PICK q2 \in [Reqs -> ReqRecs] : q2 = [y.q EXCEPT ![r].table = u]
      <4>1. [y.q[r] EXCEPT !.table = u] \in ReqRecs
        BY <1>0 DEF ReqRecs
      <4> QED BY <1>0, <4>1
    <3>6. /\ q2[r].table = u /\ q2[r].state = y.q[r].state /\ q2[r].prefill = y.q[r].prefill
          /\ \A x \in Reqs \ {r} : q2[x] = y.q[x]
      BY <1>0, <3>5 DEF ReqRecs
    <3>7. z = [m |-> a.next, s |-> y.s, q |-> q2]
      <4>1. y = [m |-> y.m, s |-> y.s, q |-> y.q]
        BY DEF Working
      <4>2. z = [y EXCEPT !.m = a.next, !.q[r].table = u]
        BY <2>1, <2>3, <3>2, <3>4
      <4> QED BY <3>5, <4>1, <4>2
    <3>8. y.s.shared[r] = <<>>
      BY DEF Working, Ready
    <3>9. q2[r].table = (y.q[r].table \o ids) \o y.s.shared[r]
      BY <3>2, <3>4, <3>6, <3>8, ConcatEmptySeq
    <3>10. SameBut(y.q, q2, y.s, y.s, r)
      BY <3>6 DEF SameBut
    <3>11. r \in y.s.waiting => r \notin y.s.running /\ r \notin y.s.swapped /\ q2[r].prefill = TRUE
      BY <1>0, <3>6 DEF Sound, Fits
    <3>12. HandsOut(y.m, a.next, BlocksOf(ids)) /\ Distinct(ids) /\ q2[r].state # "pending"
      BY <1>2, <3>1, <3>3, <3>6
    <3>13. Sound(a.next, q2, y.s)
      BY <1>0, <3>1, <3>8, <3>9, <3>10, <3>11, <3>12, SoundTake
    <3>14. \A x \in B : Ready(z, x)
      BY <3>6, <3>7 DEF Working, Ready
    <3> QED BY <3>7, <3>13, <3>14 DEF Working
  <2> QED BY <2>2, <2>3
<1> QED BY <1>1, <1>2

(***************************************************************************)
(* Growing a table, block by block.                                        *)
(***************************************************************************)
AllWorking(s, X, p) == \A z \in X : Working(z, p.B)
GrowStep(i, X, p) == UNION {GrowTable(z, p.r) : z \in X}
Growing == INSTANCE Folding_proofs WITH Choose <- Max, Step <- GrowStep, Good <- AllWorking

LEMMA GrowWorking ==
  ASSUME NEW B \in SUBSET Reqs, NEW y, Working(y, B), NEW r \in B, NEW z \in Grow(y, r)
  PROVE  Working(z, B)
<1>0. PICK p : p.r = r /\ p.B = B
  <2>1. [r |-> r, B |-> B].r = r /\ [r |-> r, B |-> B].B = B
    OBVIOUS
  <2> QED BY <2>1
<1> DEFINE missing == BlocksNeeded(y.q[p.r].n_past + 1) - Len(y.q[p.r].table)
           seq == [i \in 1 .. missing |-> i]
<1>1. Grow(y, p.r) = Growing!Fold(DOMAIN seq, {y}, p)
  BY Zenon DEF Grow, Visit, FoldLeft, MapThenFoldSet, Growing!Fold, Growing!MapThenFoldSet, GrowStep
<1>2. missing \in Int
  <2>1. y.q[r] \in ReqRecs
    BY DEF Working, Sound
  <2>2. y.q[r].n_past \in Int /\ Len(y.q[r].table) \in Int
    BY <2>1 DEF ReqRecs
  <2>3. BlocksNeeded(y.q[r].n_past + 1) \in Int
    BY <2>2, BlocksNeededType
  <2> QED BY <1>0, <2>2, <2>3
<1>3. PICK n \in Nat : DOMAIN seq = 1 .. n
  <2>1. CASE missing >= 0
    BY <1>2, <2>1
  <2>2. CASE missing < 0
    <3>1. 1 .. missing = 1 .. 0
      BY <1>2, <2>2
    <3> QED BY <3>1
  <2> QED BY <1>2, <2>1, <2>2
<1> HIDE DEF seq
<1>4. AllWorking({}, {y}, p)
  BY <1>0 DEF AllWorking
<1>5. Growing!KeptByVisits(n, p)
  BY <1>0, GrowTableWorking DEF Growing!KeptByVisits, AllWorking, GrowStep
<1>6. Growing!FromFirst(n)
  BY DEF Growing!FromFirst, Growing!Latest, Max
<1>7. AllWorking(1 .. n, Growing!Fold(1 .. n, {y}, p), p)
  BY ONLY n \in Nat, <1>4, <1>5, <1>6, Growing!VisitInvariant
<1> QED BY <1>0, <1>1, <1>3, <1>7 DEF AllWorking

(***************************************************************************)
(* Registering the completed prompt blocks changes no reference.           *)
(***************************************************************************)
Completed(q, r) == Min({q.n_past \div BlockSize, Len(q.table), PromptLen(r) \div BlockSize})
ToRegister(q, r) == [i \in 1 .. Max({0, Completed(q, r) - q.reg}) |-> q.reg + i]
RegisterVisit(m, n, c) ==
  RegisterWithTokens(m, c.y.q[c.r].table[n], PrefixHash(c.r, n), BlockTokens(c.r, n), FALSE)
RegisterStep(i, m, c) == RegisterVisit(m, ToRegister(c.y.q[c.r], c.r)[i], c)
SameRefs(s, m, c) == GoodBM(m) /\ m.ref = c.y.m.ref
Registering == INSTANCE Folding_proofs WITH Choose <- Max, Step <- RegisterStep, Good <- SameRefs

LEMMA RegisterWorking ==
  ASSUME NEW B \in SUBSET Reqs, NEW y, Working(y, B), NEW r \in B
  PROVE  /\ Working(RegisterCompleted(y, r), B)
         /\ RegisterCompleted(y, r).s = y.s
         /\ RegisterCompleted(y, r).q[r].prefill = y.q[r].prefill
<1>0. /\ y = [m |-> y.m, s |-> y.s, q |-> y.q] /\ Sound(y.m, y.q, y.s) /\ GoodBM(y.m)
      /\ y.q \in [Reqs -> ReqRecs] /\ y.s \in Scheds /\ r \in Reqs
  BY DEF Working, Sound
<1>1. CASE ~PrefixCache
  BY <1>1 DEF RegisterCompleted
<1>2. CASE PrefixCache
  <2>0. PICK c : c.y = y /\ c.r = r
    <3>1. [y |-> y, r |-> r].y = y /\ [y |-> y, r |-> r].r = r
      OBVIOUS
    <3> QED BY <3>1
  <2> DEFINE v == c.y.q[c.r]
             done == Completed(v, c.r)
             seq == ToRegister(v, c.r)
             m2 == Registering!Fold(DOMAIN seq, c.y.m, c)
             reg2 == Max({v.reg, done})
  <2>1. RegisterCompleted(c.y, c.r) = [c.y EXCEPT !.m = m2, !.q[c.r].reg = reg2]
    BY <1>2, Zenon DEF RegisterCompleted, Completed, ToRegister, FoldLeft, MapThenFoldSet, Registering!Fold,
                 Registering!MapThenFoldSet, RegisterVisit, RegisterStep
  <2>2. PICK t \in Seq(Blocks), past \in Int, reg \in Nat : t = v.table /\ past = v.n_past /\ reg = v.reg
    BY <1>0, <2>0 DEF ReqRecs
  <2>3. past \div BlockSize \in Int /\ PromptLen(r) \div BlockSize \in Int /\ Len(t) \in Int
    BY <1>0, <2>2, BlockSizeAssumption, PromptLenType
  <2>4. done \in Int /\ done <= Len(t) /\ done <= PromptLen(r) \div BlockSize
    <3>1. done = Min({past \div BlockSize, Len(t), PromptLen(r) \div BlockSize})
      BY <2>0, <2>2 DEF Completed
    <3> HIDE DEF done
    <3>2. PICK e1 \in Int, e2 \in Int, e3 \in Int :
             e1 = past \div BlockSize /\ e2 = Len(t) /\ e3 = PromptLen(r) \div BlockSize
      BY <2>3
    <3>3. /\ Min({e1, e2, e3}) \in {e1, e2, e3}
          /\ Min({e1, e2, e3}) <= e2 /\ Min({e1, e2, e3}) <= e3
      BY Min3Type
    <3> QED BY <3>1, <3>2, <3>3
  <2> HIDE DEF done, v
  <2>5. PICK n \in Nat : DOMAIN seq = 1 .. n /\ (n = 0 \/ n = done - reg)
    <3>0. PICK d \in Int : d = done - reg
      BY <2>4
    <3>1. Max({0, d}) \in {0, d} /\ Max({0, d}) >= 0
      <4>1. PICK a \in Int : a = 0
        OBVIOUS
      <4>2. Max({a, d}) \in {a, d} /\ Max({a, d}) >= a
        BY MinMaxType
      <4> QED BY <4>1, <4>2
    <3>2. DOMAIN seq = 1 .. Max({0, d})
      BY <2>2, <3>0 DEF ToRegister, done
    <3> QED BY <3>0, <3>1, <3>2
  <2>6. ASSUME NEW i \in 1 .. n
        PROVE  seq[i] \in DOMAIN t /\ seq[i] \in 1 .. PromptLen(r) \div BlockSize
    <3>1. i \in DOMAIN seq /\ n = done - reg
      <4> HIDE DEF seq
      <4>1. i \in DOMAIN seq
        BY <2>5
      <4>2. n # 0
        OBVIOUS
      <4> QED BY <2>5, <4>1, <4>2
    <3>2. seq[i] = reg + i
      BY <2>2, <3>1 DEF ToRegister
    <3>3. reg + i <= done /\ reg + i >= 1 /\ reg + i \in Int
      BY <2>4, <3>1
    <3> QED BY <2>2, <2>3, <2>4, <3>2, <3>3
  <2> HIDE DEF seq
  <2>7. ASSUME NEW i \in 1 .. n, NEW m, SameRefs(1 .. (i - 1), m, c)
        PROVE  SameRefs(1 .. i, RegisterStep(i, m, c), c)
    <3>1. PICK k : k = seq[i]
      OBVIOUS
    <3>2. t[k] \in Blocks /\ PrefixHash(r, k) \in Hashes /\ BlockTokens(r, k) \in TokenSeqs
      <4>1. k \in DOMAIN t /\ k \in 1 .. PromptLen(r) \div BlockSize
        BY <2>6, <3>1
      <4>2. t[k] \in Blocks
        BY <2>2, <4>1
      <4>3. PrefixHash(r, k) \in Hashes /\ BlockTokens(r, k) \in TokenSeqs
        BY <1>0, <1>2, <4>1, PromptAssumption
      <4> QED BY <4>2, <4>3
    <3>3. GoodBM(m) /\ m.ref = y.m.ref
      BY <2>0, <2>7 DEF SameRefs
    <3>4. PICK b \in Blocks, h \in Hashes, l \in TokenSeqs \union {NoTokens} :
             b = t[k] /\ h = PrefixHash(r, k) /\ l = BlockTokens(r, k)
      BY <3>2
    <3>5. GoodBM(RegisterWithTokens(m, b, h, l, FALSE)) /\ RegisterWithTokens(m, b, h, l, FALSE).ref = m.ref
      BY <3>3, RegisterGood
    <3>6. RegisterStep(i, m, c) = RegisterWithTokens(m, b, h, l, FALSE)
      BY <2>0, <2>2, <3>1, <3>4 DEF RegisterStep, RegisterVisit, v, seq
    <3> QED BY <2>0, <3>3, <3>5, <3>6 DEF SameRefs
  <2>8. SameRefs(1 .. n, m2, c)
    <3>1. PICK base : base = y.m /\ base = c.y.m
      BY <2>0
    <3>2. SameRefs({}, base, c)
      BY <1>0, <2>0, <3>1 DEF SameRefs
    <3>3. Registering!KeptByVisits(n, c)
      BY <2>7 DEF Registering!KeptByVisits
    <3>4. Registering!FromFirst(n)
      BY DEF Registering!FromFirst, Registering!Latest, Max
    <3>5. SameRefs(1 .. n, Registering!Fold(1 .. n, base, c), c)
      BY ONLY n \in Nat, <3>2, <3>3, <3>4, Registering!VisitInvariant
    <3> QED BY <2>5, <3>1, <3>5
  <2>9. GoodBM(m2) /\ m2.ref = y.m.ref
    BY <2>0, <2>8 DEF SameRefs
  <2> HIDE DEF m2
  <2>10. reg2 \in Nat
    <3>0. PICK a \in Int, d \in Int : a = reg /\ d = done
      BY <2>4
    <3>1. Max({a, d}) \in {a, d} /\ Max({a, d}) >= a
      BY MinMaxType
    <3> QED BY <2>2, <2>4, <3>0, <3>1
  <2> HIDE DEF reg2
  <2>11. PICK q2 \in [Reqs -> ReqRecs] : q2 = [y.q EXCEPT ![r].reg = reg2]
    <3>1. [y.q[r] EXCEPT !.reg = reg2] \in ReqRecs
      BY <1>0, <2>10 DEF ReqRecs
    <3> QED BY <1>0, <3>1
  <2>12. RegisterCompleted(y, r) = [m |-> m2, s |-> y.s, q |-> q2]
    BY <1>0, <2>0, <2>1, <2>11
  <2>13. /\ q2[r].table = y.q[r].table /\ q2[r].state = y.q[r].state /\ q2[r].prefill = y.q[r].prefill
         /\ \A x \in Reqs \ {r} : q2[x] = y.q[x]
    BY <1>0, <2>11 DEF ReqRecs
  <2>14. SameBut(y.q, q2, y.s, y.s, r)
    BY <2>13 DEF SameBut
  <2>15. Fits(q2[r], y.s, r)
    <3>1. Fits(y.q[r], y.s, r)
      BY <1>0 DEF Sound
    <3> QED BY <2>13, <3>1 DEF Fits
  <2>16. Sound(m2, q2, y.s)
    BY <1>0, <2>9, <2>13, <2>14, <2>15, SoundTouch
  <2>17. PICK z : z = RegisterCompleted(y, r)
    OBVIOUS
  <2>18. z = [m |-> z.m, s |-> z.s, q |-> z.q] /\ z.m = m2 /\ z.s = y.s /\ z.q = q2
    BY <2>12, <2>17
  <2>19. \A x \in B : Ready(z, x)
    BY <2>13, <2>18 DEF Working, Ready
  <2>20. Working(z, B) /\ z.s = y.s /\ z.q[r].prefill = y.q[r].prefill
    BY <2>13, <2>16, <2>18, <2>19 DEF Working
  <2> QED BY <2>17, <2>20
<1> QED BY <1>1, <1>2

(***************************************************************************)
(* Progress of a member of the batch that moves no blocks.                 *)
(***************************************************************************)
LEMMA TouchWorking ==
  ASSUME NEW B \in SUBSET Reqs, NEW y, Working(y, B), NEW r \in B,
         NEW q2 \in [Reqs -> ReqRecs], NEW s2 \in Scheds, NEW z, z = [m |-> y.m, s |-> s2, q |-> q2],
         SameBut(y.q, q2, y.s, s2, r), s2.shared[r] = y.s.shared[r],
         q2[r].table = y.q[r].table, q2[r].state = y.q[r].state,
         r \in s2.waiting => r \notin s2.running /\ r \notin s2.swapped /\ q2[r].prefill = TRUE
  PROVE  Working(z, B)
<1>0. /\ Sound(y.m, y.q, y.s) /\ GoodBM(y.m) /\ r \in Reqs
      /\ y.s.shared[r] = <<>> /\ y.q[r].state # "pending" /\ Fits(y.q[r], y.s, r)
  BY DEF Working, Sound, Ready
<1>1. Fits(q2[r], s2, r)
  BY <1>0 DEF Fits
<1>2. Sound(y.m, q2, s2)
  BY <1>0, <1>1, SoundTouch
<1>3. z = [m |-> z.m, s |-> z.s, q |-> z.q] /\ z.m = y.m /\ z.s = s2 /\ z.q = q2
  OBVIOUS
<1>4. ASSUME NEW x \in B PROVE Ready(z, x)
  <2>1. CASE x = r
    BY <1>0, <1>3, <2>1 DEF Ready
  <2>2. CASE x # r
    BY <1>3, <2>2 DEF Working, Ready, SameBut
  <2> QED BY <2>1, <2>2
<1> QED BY <1>2, <1>3, <1>4 DEF Working

LEMMA SampledWorking ==
  ASSUME NEW B \in SUBSET Reqs, NEW y, Working(y, B), NEW r \in B, NEW w \in Sampled(y, r)
  PROVE  Working(w, B)
<1>0. /\ y = [m |-> y.m, s |-> y.s, q |-> y.q] /\ y.q \in [Reqs -> ReqRecs] /\ y.s \in Scheds /\ r \in Reqs
      /\ Fits(y.q[r], y.s, r)
  BY DEF Working, Sound
<1>1. PICK g \in Int : g = y.q[r].gen + 1
  BY <1>0 DEF ReqRecs
<1>2. PICK q2 \in [Reqs -> ReqRecs] : q2 = [y.q EXCEPT ![r].gen = g]
  <2>1. [y.q[r] EXCEPT !.gen = g] \in ReqRecs
    BY <1>0 DEF ReqRecs
  <2> QED BY <1>0, <2>1
<1>3. PICK z : z = [y EXCEPT !.q[r].gen = @ + 1]
  OBVIOUS
<1>4. z = [m |-> y.m, s |-> y.s, q |-> q2]
  <2>1. z = [y EXCEPT !.q[r].gen = g]
    BY <1>1, <1>3
  <2> QED BY <1>0, <1>2, <2>1
<1>5. /\ q2[r].table = y.q[r].table /\ q2[r].state = y.q[r].state /\ q2[r].prefill = y.q[r].prefill
      /\ \A x \in Reqs \ {r} : q2[x] = y.q[x]
  BY <1>0, <1>2 DEF ReqRecs
<1>6. Working(z, B)
  <2>1. SameBut(y.q, q2, y.s, y.s, r)
    BY <1>5 DEF SameBut
  <2>2. r \in y.s.waiting => r \notin y.s.running /\ r \notin y.s.swapped /\ q2[r].prefill = TRUE
    BY <1>0, <1>5 DEF Fits
  <2> QED BY <1>0, <1>4, <1>5, <2>1, <2>2, TouchWorking
<1>7. PICK x \in Grow(z, r) : w = x \/ w = Finish(x, r, "ok")
  BY <1>3 DEF Sampled
<1>8. Working(x, B)
  BY <1>6, GrowWorking
<1>9. "ok" \in Outcomes
  BY DEF Outcomes
<1>10. Working(Finish(x, r, "ok"), B)
  BY <1>0, <1>8, <1>9, FinishWorking
<1> QED BY <1>7, <1>8, <1>10

(***************************************************************************)
(* What the scheduler records of a step.                                   *)
(***************************************************************************)
LEMMA PrefillCompleteType ==
  ASSUME NEW s \in Scheds, NEW r \in Reqs, NEW n \in Int, NEW last \in BOOLEAN,
         NEW s2, s2 = OnPrefillChunkComplete(s, r, n, last)
  PROVE  /\ s2 \in Scheds /\ s2.shared = s.shared /\ s2.swapped = s.swapped
         /\ \/ s2.waiting = s.waiting /\ s2.running = s.running /\ ~last
            \/ s2.waiting = s.waiting \ {r} /\ s2.running = s.running \union {r}
<1>1. PICK x \in Int : x = s.ctx[r] + n
  BY DEF Scheds
<1>2. PICK d \in Int : d = s.rem[r] - n
  BY DEF Scheds
<1>3. PICK u \in Int : u = Max({0, d})
  <2>1. PICK a \in Int : a = 0
    OBVIOUS
  <2>2. Max({a, d}) \in {a, d}
    BY MinMaxType
  <2> QED BY <2>1, <2>2
<1>4. PICK t : t = [s EXCEPT !.ctx[r] = x, !.rem[r] = u]
  OBVIOUS
<1>5. t \in Scheds /\ t.shared = s.shared /\ t.swapped = s.swapped /\ t.waiting = s.waiting /\ t.running = s.running
  BY <1>4 DEF Scheds
<1>6. s2 = IF last \/ t.rem[r] = 0
           THEN [t EXCEPT !.waiting = @ \ {r}, !.running = @ \union {r}, !.rem[r] = 0]
           ELSE t
  BY <1>1, <1>2, <1>3, <1>4, Zenon DEF OnPrefillChunkComplete
<1>7. CASE last \/ t.rem[r] = 0
  <2>0. PICK W \in SUBSET Reqs, R \in SUBSET Reqs : W = t.waiting \ {r} /\ R = t.running \union {r}
    BY <1>5 DEF Scheds
  <2>1. s2 = [t EXCEPT !.waiting = W, !.running = R, !.rem[r] = 0]
    BY <1>6, <1>7, <2>0
  <2>2. s2 \in Scheds
    <3>0. t.rem \in [Reqs -> Int]
      BY <1>5 DEF Scheds
    <3>3. PICK a \in Int : a = 0
      OBVIOUS
    <3>4. [t.rem EXCEPT ![r] = a] \in [Reqs -> Int]
      BY <3>0
    <3>1. PICK f \in [Reqs -> Int] : f = [t.rem EXCEPT ![r] = 0]
      BY <3>3, <3>4
    <3>2. s2 = [waiting |-> W, running |-> R, swapped |-> t.swapped, rem |-> f, shared |-> t.shared,
                ctx |-> t.ctx, gen |-> t.gen, sblk |-> t.sblk, arr |-> t.arr, clock |-> t.clock,
                streak |-> t.streak]
      BY <1>5, <2>1, <3>1 DEF Scheds
    <3> QED BY <1>5, <3>2 DEF Scheds
  <2>3. /\ s2.shared = t.shared /\ s2.swapped = t.swapped
        /\ s2.waiting = t.waiting \ {r} /\ s2.running = t.running \union {r}
    BY <1>5, <2>0, <2>1 DEF Scheds
  <2> QED BY <1>5, <2>2, <2>3
<1>8. CASE ~last /\ t.rem[r] # 0
  BY <1>5, <1>6, <1>8
<1> QED BY <1>7, <1>8

LEMMA DecodeCompleteType ==
  ASSUME NEW s \in Scheds, NEW r \in Reqs, NEW s2, s2 = OnDecodeStepComplete(s, r, 1)
  PROVE  /\ s2 \in Scheds /\ s2.shared = s.shared /\ s2.swapped = s.swapped
         /\ s2.waiting = s.waiting /\ s2.running = s.running \union {r}
<1>1. PICK x \in Int : x = s.ctx[r] + 1
  BY DEF Scheds
<1>2. PICK g \in Int : g = s.gen[r] + 1
  BY DEF Scheds
<1>3. PICK R \in SUBSET Reqs : R = s.running \union {r}
  BY DEF Scheds
<1>4. s2 = [s EXCEPT !.running = R, !.gen[r] = g, !.ctx[r] = x]
  BY <1>1, <1>2, <1>3, Zenon DEF OnDecodeStepComplete
<1>5. s2 \in Scheds
  <2>1. PICK e \in [Reqs -> Int], f \in [Reqs -> Int] : e = [s.gen EXCEPT ![r] = g] /\ f = [s.ctx EXCEPT ![r] = x]
    BY DEF Scheds
  <2>2. s2 = [waiting |-> s.waiting, running |-> R, swapped |-> s.swapped, rem |-> s.rem,
              shared |-> s.shared, ctx |-> f, gen |-> e, sblk |-> s.sblk, arr |-> s.arr,
              clock |-> s.clock, streak |-> s.streak]
    BY <1>4, <2>1 DEF Scheds
  <2> QED BY <2>2 DEF Scheds
<1>6. s2.shared = s.shared /\ s2.swapped = s.swapped /\ s2.waiting = s.waiting /\ s2.running = R
  BY <1>4 DEF Scheds
<1> QED BY <1>3, <1>5, <1>6

LEMMA TokensToTakeType ==
  ASSUME req \in [Reqs -> ReqRecs], out \in Outs, NEW r \in Reqs
  PROVE  TokensToTake(r) \in Int
<1>1. PICK a \in Int, b \in Int : a = req[r].rem /\ b = out.chunk[r]
  BY DEF ReqRecs, Outs
<1>2. Min({a, b}) \in {a, b}
  BY MinMaxType
<1>3. Min({req[r].rem, out.chunk[r]}) \in Int
  BY <1>1, <1>2
<1>4. TokensToTake(r) = Min({req[r].rem, out.chunk[r]}) \/ TokensToTake(r) = 1
  BY DEF TokensToTake
<1> QED BY <1>3, <1>4

LEMMA PrefillStepWorking ==
  ASSUME req \in [Reqs -> ReqRecs], out \in Outs,
         NEW B \in SUBSET Reqs, NEW y, Working(y, B), NEW r \in B, y.q[r].prefill = TRUE,
         NEW w \in PrefillStep(y, r)
  PROVE  Working(w, B)
<1>0. /\ y = [m |-> y.m, s |-> y.s, q |-> y.q] /\ y.q \in [Reqs -> ReqRecs] /\ y.s \in Scheds /\ r \in Reqs
      /\ Fits(y.q[r], y.s, r)
  BY DEF Working, Sound
<1>1. PICK k \in Int : k = TokensToTake(r)
  BY <1>0, TokensToTakeType
<1>2. PICK last \in BOOLEAN : last = (k = req[r].rem)
  OBVIOUS
<1>3. PICK y1 : y1 = [y EXCEPT !.q = Advance(@, r, k)]
  OBVIOUS
<1>4. PICK z : z = RegisterCompleted(y1, r)
  OBVIOUS
<1>5. PICK x : x = [z EXCEPT !.s = OnPrefillChunkComplete(@, r, k, last), !.q[r].prefill = ~last]
  OBVIOUS
<1>6. w \in Sampled(x, r) \/ w = x
  BY <1>1, <1>2, <1>3, <1>4, <1>5, Zenon DEF PrefillStep
<1>7. Working(y1, B) /\ y1.s = y.s /\ y1.q[r].prefill = TRUE
  <2>0. y.q[r].n_past \in Int /\ y.q[r].rem \in Int
    BY <1>0 DEF ReqRecs
  <2>1. PICK a \in Int, b \in Int : a = y.q[r].n_past + k /\ b = y.q[r].rem - k
    BY ONLY k \in Int, <2>0
  <2>2. PICK q2 \in [Reqs -> ReqRecs] : q2 = [y.q EXCEPT ![r].n_past = a, ![r].rem = b]
    <3>1. [y.q EXCEPT ![r].n_past = a] \in [Reqs -> ReqRecs]
      <4>1. [y.q[r] EXCEPT !.n_past = a] \in ReqRecs
        BY <1>0 DEF ReqRecs
      <4> QED BY <1>0, <4>1
    <3>2. PICK p \in [Reqs -> ReqRecs] : p = [y.q EXCEPT ![r].n_past = a]
      BY <3>1
    <3>3. [p[r] EXCEPT !.rem = b] \in ReqRecs
      BY <1>0 DEF ReqRecs
    <3>4. [p EXCEPT ![r].rem = b] \in [Reqs -> ReqRecs]
      BY <3>3
    <3> QED BY <3>2, <3>4
  <2>3. Advance(y.q, r, k) = q2
    <3>1. PICK p : p = [y.q EXCEPT ![r].n_past = a]
      OBVIOUS
    <3>2. p[r].rem = y.q[r].rem
      BY <1>0, <3>1 DEF ReqRecs
    <3>3. p = [y.q EXCEPT ![r].n_past = @ + k]
      BY <2>1, <3>1
    <3>4. Advance(y.q, r, k) = [p EXCEPT ![r].rem = @ - k]
      BY <3>3 DEF Advance
    <3>5. q2 = [p EXCEPT ![r].rem = b]
      BY <2>2, <3>1
    <3> QED BY <2>1, <3>2, <3>4, <3>5
  <2>4. y1 = [m |-> y.m, s |-> y.s, q |-> q2]
    BY <1>0, <1>3, <2>3
  <2>5. /\ q2[r].table = y.q[r].table /\ q2[r].state = y.q[r].state /\ q2[r].prefill = y.q[r].prefill
        /\ \A e \in Reqs \ {r} : q2[e] = y.q[e]
    BY <1>0, <2>2 DEF ReqRecs
  <2>6. SameBut(y.q, q2, y.s, y.s, r)
    BY <2>5 DEF SameBut
  <2>7. r \in y.s.waiting => r \notin y.s.running /\ r \notin y.s.swapped /\ q2[r].prefill = TRUE
    BY <1>0, <2>5 DEF Fits
  <2>8. Working(y1, B)
    BY <1>0, <2>4, <2>5, <2>6, <2>7, TouchWorking
  <2> QED BY <2>4, <2>5, <2>8
<1>8. Working(z, B) /\ z.s = y.s /\ z.q[r].prefill = TRUE
  BY <1>4, <1>7, RegisterWorking
<1>9. Working(x, B)
  <2>0. /\ z = [m |-> z.m, s |-> z.s, q |-> z.q] /\ z.q \in [Reqs -> ReqRecs] /\ z.s \in Scheds
        /\ Fits(z.q[r], z.s, r)
    BY <1>0, <1>8 DEF Working, Sound
  <2>1. PICK s2 : s2 = OnPrefillChunkComplete(z.s, r, k, last)
    OBVIOUS
  <2>2. /\ s2 \in Scheds /\ s2.shared = z.s.shared /\ s2.swapped = z.s.swapped
        /\ \/ s2.waiting = z.s.waiting /\ s2.running = z.s.running /\ ~last
           \/ s2.waiting = z.s.waiting \ {r} /\ s2.running = z.s.running \union {r}
    BY <1>0, <2>0, <2>1, PrefillCompleteType
  <2>3. PICK p \in BOOLEAN : p = ~last
    OBVIOUS
  <2>4. PICK q2 \in [Reqs -> ReqRecs] : q2 = [z.q EXCEPT ![r].prefill = p]
    <3>1. [z.q[r] EXCEPT !.prefill = p] \in ReqRecs
      BY <1>0, <2>0 DEF ReqRecs
    <3> QED BY <2>0, <3>1
  <2>5. x = [m |-> z.m, s |-> s2, q |-> q2]
    <3>1. x = [z EXCEPT !.s = s2, !.q[r].prefill = p]
      BY <1>5, <2>1, <2>3
    <3> QED BY <2>0, <2>4, <3>1
  <2>6. /\ q2[r].table = z.q[r].table /\ q2[r].state = z.q[r].state /\ q2[r].prefill = p
        /\ \A e \in Reqs \ {r} : q2[e] = z.q[e]
    BY <1>0, <2>0, <2>4 DEF ReqRecs
  <2>7. SameBut(z.q, q2, z.s, s2, r)
    BY <2>2, <2>6 DEF SameBut
  <2>8. r \in s2.waiting => r \notin s2.running /\ r \notin s2.swapped /\ q2[r].prefill = TRUE
    BY <2>0, <2>2, <2>3, <2>6 DEF Fits
  <2>9. s2.shared[r] = z.s.shared[r]
    BY <2>2
  <2> QED BY <1>8, <2>2, <2>5, <2>6, <2>7, <2>8, <2>9, TouchWorking
<1> QED BY <1>6, <1>9, SampledWorking

LEMMA DecodeStepWorking ==
  ASSUME NEW B \in SUBSET Reqs, NEW y, Working(y, B), NEW r \in B, y.q[r].prefill = FALSE,
         NEW w \in DecodeStep(y, r)
  PROVE  Working(w, B)
<1>0. /\ y = [m |-> y.m, s |-> y.s, q |-> y.q] /\ y.q \in [Reqs -> ReqRecs] /\ y.s \in Scheds /\ r \in Reqs
      /\ Fits(y.q[r], y.s, r)
  BY DEF Working, Sound
<1>1. PICK a \in Int : a = y.q[r].n_past + 1
  BY <1>0 DEF ReqRecs
<1>2. PICK s2 : s2 = OnDecodeStepComplete(y.s, r, 1)
  OBVIOUS
<1>3. /\ s2 \in Scheds /\ s2.shared = y.s.shared /\ s2.swapped = y.s.swapped
      /\ s2.waiting = y.s.waiting /\ s2.running = y.s.running \union {r}
  BY <1>0, <1>2, DecodeCompleteType
<1>4. PICK q2 \in [Reqs -> ReqRecs] : q2 = [y.q EXCEPT ![r].n_past = a]
  <2>1. [y.q[r] EXCEPT !.n_past = a] \in ReqRecs
    BY <1>0 DEF ReqRecs
  <2> QED BY <1>0, <2>1
<1>5. PICK x : x = [y EXCEPT !.q[r].n_past = @ + 1, !.s = OnDecodeStepComplete(@, r, 1)]
  OBVIOUS
<1>6. x = [m |-> y.m, s |-> s2, q |-> q2]
  <2>1. x = [y EXCEPT !.q[r].n_past = a, !.s = s2]
    BY <1>0, <1>1, <1>2, <1>5
  <2> QED BY <1>0, <1>4, <2>1
<1>7. /\ q2[r].table = y.q[r].table /\ q2[r].state = y.q[r].state
      /\ \A e \in Reqs \ {r} : q2[e] = y.q[e]
  BY <1>0, <1>4 DEF ReqRecs
<1>8. SameBut(y.q, q2, y.s, s2, r)
  BY <1>3, <1>7 DEF SameBut
<1>9. r \notin s2.waiting /\ s2.shared[r] = y.s.shared[r]
  BY <1>0, <1>3 DEF Fits
<1>10. Working(x, B)
  BY <1>3, <1>6, <1>7, <1>8, <1>9, TouchWorking
<1> QED BY <1>5, <1>10, SampledWorking DEF DecodeStep

LEMMA OutputOneWorking ==
  ASSUME req \in [Reqs -> ReqRecs], out \in Outs,
         NEW B \in SUBSET Reqs, NEW y, Working(y, B), NEW r \in B, NEW w \in OutputOne(y, r)
  PROVE  Working(w, B)
<1>0. r \in Reqs /\ y.q[r].prefill \in BOOLEAN
  BY DEF Working, Sound, ReqRecs
<1>1. CASE r \in Embeds
  <2>1. w = Finish(y, r, "ok") /\ "ok" \in Outcomes
    BY <1>1 DEF OutputOne, Outcomes
  <2> QED BY <1>0, <2>1, FinishWorking
<1>2. CASE r \notin Embeds /\ y.q[r].prefill
  <2>1. w \in PrefillStep(y, r)
    BY <1>2, Zenon DEF OutputOne
  <2> QED BY <1>2, <2>1, PrefillStepWorking
<1>3. CASE r \notin Embeds /\ ~y.q[r].prefill
  <2>1. w \in DecodeStep(y, r)
    BY <1>3, Zenon DEF OutputOne
  <2>2. y.q[r].prefill = FALSE
    BY <1>0, <1>3
  <2> QED BY <2>1, <2>2, DecodeStepWorking
<1> QED BY <1>1, <1>2, <1>3

(***************************************************************************)
(* The outputs of a whole batch.                                           *)
(***************************************************************************)
OutputStep(i, X, p) == UNION {OutputOne(z, p.seq[i]) : z \in X}
BatchWorking(s, X, p) == \A z \in X : Working(z, p.B)
Outputting == INSTANCE Folding_proofs WITH Choose <- Max, Step <- OutputStep, Good <- BatchWorking

LEMMA OutputsWorking ==
  ASSUME req \in [Reqs -> ReqRecs], out \in Outs, NEW b \in Seq(Reqs),
         NEW y, Working(y, BlocksOf(b)), NEW w \in Visit(OutputOne, y, b)
  PROVE  Working(w, BlocksOf(b))
<1>0. PICK p : p.seq = b /\ p.B = BlocksOf(b)
  <2>1. PICK p : p = [seq |-> b, B |-> BlocksOf(b)]
    OBVIOUS
  <2> QED BY <2>1
<1>1. Visit(OutputOne, y, p.seq) = Outputting!Fold(DOMAIN p.seq, {y}, p)
  BY Zenon DEF Visit, FoldLeft, MapThenFoldSet, Outputting!Fold, Outputting!MapThenFoldSet, OutputStep
<1>2. PICK n \in Nat : DOMAIN b = 1 .. n
  BY LenProperties
<1>3. PICK B \in SUBSET Reqs : B = BlocksOf(b)
  BY BlocksOfSeq
<1>4. \A i \in 1 .. n : b[i] \in B
  BY <1>2, <1>3 DEF BlocksOf
<1>5. BatchWorking({}, {y}, p)
  BY <1>0 DEF BatchWorking
<1>6. Outputting!KeptByVisits(n, p)
  <2>1. ASSUME NEW i \in 1 .. n, NEW X, BatchWorking(1 .. (i - 1), X, p)
        PROVE  BatchWorking(1 .. i, OutputStep(i, X, p), p)
    <3> SUFFICES ASSUME NEW z \in OutputStep(i, X, p) PROVE Working(z, B)
      BY <1>0, <1>3 DEF BatchWorking
    <3>1. PICK x \in X : z \in OutputOne(x, b[i])
      BY <1>0 DEF OutputStep
    <3>2. Working(x, B)
      BY <1>0, <1>3, <2>1 DEF BatchWorking
    <3> QED BY <1>4, <3>1, <3>2, OutputOneWorking
  <2> QED BY <2>1 DEF Outputting!KeptByVisits
<1>7. Outputting!FromFirst(n)
  BY DEF Outputting!FromFirst, Outputting!Latest, Max
<1>8. BatchWorking(1 .. n, Outputting!Fold(1 .. n, {y}, p), p)
  BY ONLY n \in Nat, <1>5, <1>6, <1>7, Outputting!VisitInvariant
<1> QED BY <1>0, <1>1, <1>2, <1>8 DEF BatchWorking
-----------------------------------------------------------------------------
(***************************************************************************)
(* Step 8 works on records of the blocks, their contents, the requests and *)
(* the batch so far.  It leaves the scheduler s and the requests' states   *)
(* alone, and schedules nothing that is not in B.                          *)
(***************************************************************************)
Building(y, s, p, B) ==
  /\ y = [m |-> y.m, k |-> y.k, q |-> y.q, batch |-> y.batch, stalled |-> y.stalled,
          kind |-> y.kind, ok |-> y.ok]
  /\ Sound(y.m, y.q, s) /\ y.k \in [Blocks -> Contents]
  /\ y.batch \in Seq(Reqs) /\ BlocksOf(y.batch) \subseteq B /\ y.stalled \in SUBSET Reqs
  /\ \A x \in Reqs : y.q[x].state = p[x].state

(***************************************************************************)
(* A shared block of a table is replaced by a copy.                        *)
(***************************************************************************)
Replaced(t, b, n, u) ==
  u \in Seq(Blocks) /\ Distinct(u) /\ u # <<>> /\ BlocksOf(u) = (BlocksOf(t) \ {b}) \union {n}

LEMMA ReplaceEntry ==
  ASSUME NEW t \in Seq(Blocks), Distinct(t), NEW i \in 1 .. Len(t), NEW n \in Blocks, n \notin BlocksOf(t),
         NEW u, u = [t EXCEPT ![i] = n]
  PROVE  Replaced(t, t[i], n, u)
<1>1. /\ u \in Seq(Blocks) /\ DOMAIN u = DOMAIN t /\ i \in DOMAIN t
      /\ u[i] = n /\ \A j \in DOMAIN t \ {i} : u[j] = t[j]
  BY DEF Distinct
<1>2. \A j \in DOMAIN t : t[j] # n
  BY DEF BlocksOf
<1>3. Distinct(u)
  BY <1>1, <1>2 DEF Distinct
<1>4. BlocksOf(u) \subseteq (BlocksOf(t) \ {t[i]}) \union {n}
  BY <1>1 DEF BlocksOf, Distinct
<1>5. (BlocksOf(t) \ {t[i]}) \union {n} \subseteq BlocksOf(u)
  BY <1>1 DEF BlocksOf, Distinct
<1>6. u # <<>>
  BY <1>1
<1> QED BY <1>1, <1>3, <1>4, <1>5, <1>6 DEF Replaced

\* q2 is q with entry i of r's table, a shared block, replaced by c's copy.
Copies(m, q, s, r, i, c, q2) ==
  LET t == q[r].table
  IN  /\ i \in 1 .. Len(t) /\ IsShared(m, t[i]) /\ c \in CopyOnWrite(m, t[i]) /\ c.id # NoBlock
      /\ q2 \in [Reqs -> ReqRecs] /\ q2[r].table = [t EXCEPT ![i] = c.id]
      /\ q2[r].state = q[r].state /\ q2[r].prefill = q[r].prefill /\ SameBut(q, q2, s, s, r)

LEMMA SoundCopy ==
  ASSUME NEW m, NEW q, NEW s, Sound(m, q, s), NEW r \in Reqs, NEW i, NEW c, NEW q2,
         Copies(m, q, s, r, i, c, q2)
  PROVE  Sound(c.next, q2, s) /\ c.id \in Blocks
<1>a. PICK t, b, n, u : t = q[r].table /\ b = t[i] /\ n = c.id /\ u = [t EXCEPT ![i] = n]
  OBVIOUS
<1>b. /\ i \in 1 .. Len(t) /\ IsShared(m, b) /\ c \in CopyOnWrite(m, b) /\ n # NoBlock
      /\ q2 \in [Reqs -> ReqRecs] /\ q2[r].table = u
      /\ q2[r].state = q[r].state /\ q2[r].prefill = q[r].prefill /\ SameBut(q, q2, s, s, r)
  BY <1>a DEF Copies
<1> USE <1>a, <1>b
<1>0. /\ GoodBM(m) /\ q \in [Reqs -> ReqRecs] /\ s \in Scheds /\ Covers(m.ref, Kept(q), Reserved(s))
      /\ Fits(q[r], s, r)
  BY DEF Sound
<1>1. t \in Seq(Blocks) /\ Distinct(t)
  BY <1>0 DEF ReqRecs, Fits
<1>2. i \in 1 .. Len(t) /\ b = t[i] /\ b \in Blocks /\ b \in BlocksOf(t) /\ t # <<>>
  BY <1>1 DEF BlocksOf
<1>3. /\ GoodBM(c.next)
      /\ \/ c.id \in {b, NoBlock} /\ \A x \in Blocks : c.next.ref[x] = m.ref[x]
         \/ /\ c.id \in Blocks \ {b}
            /\ \A x \in Blocks : c.next.ref[x] = IF x = c.id THEN 1
                                                 ELSE IF x = b THEN m.ref[x] - 1 ELSE m.ref[x]
            /\ m.ref[c.id] = 0
  BY <1>0, <1>2, CopyOnWriteGood
<1>4. m.ref \in [Blocks -> Nat] /\ c.next.ref \in [Blocks -> Nat]
  BY <1>0, <1>3 DEF GoodBM, BMType
<1>5. SameBut(q, q2, s, s, r) /\ q2 \in [Reqs -> ReqRecs]
  OBVIOUS
<1>6. CASE c.id = b /\ \A x \in Blocks : c.next.ref[x] = m.ref[x]
  <2>1. c.next.ref = m.ref
    BY <1>4, <1>6
  <2>2. q2[r].table = q[r].table
    BY <1>1, <1>2, <1>6
  <2>3. Fits(q2[r], s, r)
    BY <1>0, <2>2 DEF Fits
  <2> QED BY <1>0, <1>2, <1>3, <1>5, <1>6, <2>1, <2>2, <2>3, SoundTouch
<1>7. CASE /\ c.id \in Blocks \ {b} /\ m.ref[c.id] = 0
           /\ \A x \in Blocks : c.next.ref[x] = IF x = c.id THEN 1
                                                ELSE IF x = b THEN m.ref[x] - 1 ELSE m.ref[x]
  <2>1. PICK K \in Holdings : K = Kept(q) /\ K[r] = BlocksOf(t)
    <3>1. Kept(q) \in Holdings
      BY <1>0, HoldingsTypes
    <3>2. Kept(q)[r] = BlocksOf(t)
      BY <1>1 DEF Kept
    <3> QED BY <3>1, <3>2
  <2>2. PICK H \in Holdings : H = Reserved(s)
    BY <1>0, HoldingsTypes
  <2>3. n \in Blocks /\ n # b /\ n = c.id
    BY <1>7
  <2>4. n \notin K[r]
    BY <1>0, <1>4, <1>7, <2>1, <2>2, <2>3, UnreferencedFree
  <2>5. u \in Seq(Blocks) /\ Distinct(u) /\ u # <<>> /\ BlocksOf(u) = (K[r] \ {b}) \union {n}
    <3>1. u = [t EXCEPT ![i] = n] /\ n \in Blocks /\ n \notin BlocksOf(t)
      BY <1>1, <2>1, <2>3, <2>4
    <3>2. t \in Seq(Blocks) /\ Distinct(t) /\ i \in 1 .. Len(t) /\ b = t[i]
      BY <1>1, <1>2
    <3>3. Replaced(t, t[i], n, u)
      BY ONLY <3>1, <3>2, ReplaceEntry
    <3> QED BY ONLY <2>1, <3>2, <3>3 DEF Replaced
  <2>6. PICK X \in SUBSET Blocks : X = (K[r] \ {b}) \union {n}
    BY <2>5, BlocksOfSeq
  <2>7. m.ref[b] > 1
    BY DEF IsShared
  <2>8. Covers(c.next.ref, [K EXCEPT ![r] = X], H)
    <3>1. Covers(m.ref, K, H)
      BY <1>0, <2>1, <2>2
    <3>2. \A x \in Blocks : c.next.ref[x] = IF x = n THEN 1 ELSE IF x = b THEN m.ref[x] - 1 ELSE m.ref[x]
      BY <1>7, <2>3
    <3>3. m.ref[n] = 0 /\ b \in K[r]
      BY <1>2, <1>7, <2>1, <2>3
    <3>4. PICK ref \in [Blocks -> Nat], ref2 \in [Blocks -> Nat] : ref = m.ref /\ ref2 = c.next.ref
      BY <1>4
    <3>5. Covers(ref2, [K EXCEPT ![r] = X], H)
      <4>1. Covers(ref, K, H) /\ ref[b] > 1 /\ ref[n] = 0 /\ n \in Blocks /\ n # b
        BY <2>3, <2>7, <3>1, <3>3, <3>4
      <4>2. Copied(ref, ref2, b, n)
        BY <3>2, <3>4 DEF Copied
      <4> QED BY ONLY ref \in [Blocks -> Nat], ref2 \in [Blocks -> Nat], K \in Holdings, H \in Holdings,
                      r \in Reqs, X \in SUBSET Blocks, <2>6, <3>3, <4>1, <4>2, CoversCopy
    <3> QED BY <3>4, <3>5
  <2>9. [K EXCEPT ![r] = X] = [Kept(q) EXCEPT ![r] = BlocksOf(q2[r].table)]
    BY <2>1, <2>5, <2>6
  <2>10. H = [Reserved(s) EXCEPT ![r] = BlocksOf(s.shared[r])]
    BY <2>2 DEF Reserved
  <2>11. Fits(q2[r], s, r)
    BY <1>0, <1>1, <1>2, <2>5 DEF Fits
  <2>12. Sound(c.next, q2, s)
    BY <1>0, <1>3, <1>5, <2>8, <2>9, <2>10, <2>11, SoundStep
  <2> QED BY <1>7, <2>12
<1> QED BY <1>3, <1>6, <1>7

LEMMA MakeWritableBuilding ==
  ASSUME NEW s, NEW p, NEW B, NEW y, Building(y, s, p, B), NEW r \in Reqs, NEW i \in Int,
         NEW z \in MakeWritable(y, r, i)
  PROVE  Building(z, s, p, B)
<1>0. /\ y = [m |-> y.m, k |-> y.k, q |-> y.q, batch |-> y.batch, stalled |-> y.stalled,
              kind |-> y.kind, ok |-> y.ok]
      /\ Sound(y.m, y.q, s) /\ y.k \in [Blocks -> Contents] /\ y.q \in [Reqs -> ReqRecs]
  BY DEF Building, Sound
<1>1. CASE z = [y EXCEPT !.ok = FALSE]
  <2>1. z = [m |-> y.m, k |-> y.k, q |-> y.q, batch |-> y.batch, stalled |-> y.stalled,
             kind |-> y.kind, ok |-> FALSE]
    BY <1>0, <1>1
  <2> QED BY <2>1 DEF Building
<1>2. CASE i >= 1 /\ i <= Len(y.q[r].table) /\ IsShared(y.m, y.q[r].table[i]) /\ z # [y EXCEPT !.ok = FALSE] /\ z # y
  <2>1. PICK t \in Seq(Blocks) : t = y.q[r].table
    BY <1>0 DEF ReqRecs
  <2>2. i \in 1 .. Len(t)
    BY <1>2, <2>1
  <2>3. PICK b \in Blocks : b = t[i]
    BY <2>2
  <2>4. PICK c \in CopyOnWrite(y.m, b) :
           z = IF c.id = NoBlock THEN [y EXCEPT !.ok = FALSE]
               ELSE [y EXCEPT !.m = c.next, !.k[c.id] = y.k[b], !.q[r].table[i] = c.id]
    BY <1>2, <2>1, <2>3 DEF MakeWritable
  <2>5. c.id # NoBlock
    BY <1>2, <2>4
  <2>6. c.id \in Blocks
    <3>1. GoodBM(y.m)
      BY <1>0 DEF Sound
    <3> QED BY <2>5, <3>1, CopyOnWriteGood
  <2>7. PICK u \in Seq(Blocks) : u = [t EXCEPT ![i] = c.id]
    <3>1. PICK e \in Blocks : e = c.id
      BY <2>6
    <3>2. [t EXCEPT ![i] = e] \in Seq(Blocks)
      BY <2>2, ExceptSeq
    <3> QED BY <3>1, <3>2
  <2>8. PICK q2 \in [Reqs -> ReqRecs] : q2 = [y.q EXCEPT ![r].table = u]
    <3>1. [y.q[r] EXCEPT !.table = u] \in ReqRecs
      BY <1>0 DEF ReqRecs
    <3> QED BY <1>0, <3>1
  <2>9. PICK k2 \in [Blocks -> Contents] : k2 = [y.k EXCEPT ![c.id] = y.k[b]]
    BY <1>0, <2>6
  <2>10. z = [m |-> c.next, k |-> k2, q |-> q2, batch |-> y.batch, stalled |-> y.stalled,
              kind |-> y.kind, ok |-> y.ok]
    <3>1. z = [y EXCEPT !.m = c.next, !.k[c.id] = y.k[b], !.q[r].table[i] = c.id]
      BY <2>4, <2>5
    <3>2. PICK y1 : y1 = [y EXCEPT !.m = c.next, !.k[c.id] = y.k[b]]
      OBVIOUS
    <3>3. y1 = [m |-> c.next, k |-> k2, q |-> y.q, batch |-> y.batch, stalled |-> y.stalled,
                kind |-> y.kind, ok |-> y.ok]
      BY <1>0, <2>9, <3>2
    <3>4. z = [y1 EXCEPT !.q[r].table[i] = c.id]
      BY <3>1, <3>2
    <3>5. z = [y1 EXCEPT !.q = [y.q EXCEPT ![r].table[i] = c.id]]
      BY <3>3, <3>4
    <3>6. [y.q EXCEPT ![r].table[i] = c.id] = q2
      BY <2>1, <2>7, <2>8
    <3> QED BY <3>3, <3>5, <3>6
  <2>11. /\ q2[r].table = u /\ q2[r].state = y.q[r].state /\ q2[r].prefill = y.q[r].prefill
         /\ \A x \in Reqs \ {r} : q2[x] = y.q[x]
    BY <1>0, <2>8 DEF ReqRecs
  <2>12. Sound(c.next, q2, s)
    <3>1. IsShared(y.m, b)
      BY <1>2, <2>1, <2>3
    <3>2. SameBut(y.q, q2, s, s, r)
      BY <2>11 DEF SameBut
    <3>3. Copies(y.m, y.q, s, r, i, c, q2)
      BY <2>1, <2>2, <2>3, <2>5, <2>7, <2>11, <3>1, <3>2 DEF Copies
    <3> QED BY <1>0, <3>3, SoundCopy
  <2>13. \A x \in Reqs : q2[x].state = p[x].state
    BY <2>11 DEF Building
  <2> QED BY <2>10, <2>12, <2>13 DEF Building
<1>3. CASE z = y
  BY <1>3
<1>4. Len(y.q[r].table) \in Int
  BY <1>0 DEF ReqRecs
<1>5. CASE i < 1
  <2>1. z = [y EXCEPT !.ok = FALSE]
    BY <1>5 DEF MakeWritable
  <2> QED BY <1>1, <2>1
<1>6. CASE ~(i < 1) /\ (~y.ok \/ i > Len(y.q[r].table) \/ ~IsShared(y.m, y.q[r].table[i]))
  <2>1. z = y
    BY <1>6, Zenon DEF MakeWritable
  <2> QED BY <1>3, <2>1
<1>7. CASE ~(i < 1) /\ ~(~y.ok \/ i > Len(y.q[r].table) \/ ~IsShared(y.m, y.q[r].table[i]))
  <2>1. i >= 1 /\ i <= Len(y.q[r].table) /\ IsShared(y.m, y.q[r].table[i])
    BY <1>4, <1>7
  <2> QED BY <1>1, <1>2, <1>3, <2>1
<1> QED BY <1>5, <1>6, <1>7

(***************************************************************************)
(* Every block of a step's range is made writable in turn.                 *)
(***************************************************************************)
FirstBlock(r) == req[r].n_past \div BlockSize
LastBlock(r) == (req[r].n_past + TokensToTake(r) - 1) \div BlockSize
RangeOf(r) == [i \in 1 .. LastBlock(r) - FirstBlock(r) + 1 |-> FirstBlock(r) + i]
WritableStep(i, X, c) == UNION {MakeWritable(z, c.r, RangeOf(c.r)[i]) : z \in X}
AllBuilding(s, X, c) == \A z \in X : Building(z, c.s, c.p, c.B)
Writing == INSTANCE Folding_proofs WITH Choose <- Max, Step <- WritableStep, Good <- AllBuilding

\* The indices of the blocks a step writes are integers.
LEMMA RangeOfType ==
  ASSUME req \in [Reqs -> ReqRecs], out \in Outs, NEW r \in Reqs
  PROVE  /\ FirstBlock(r) \in Int /\ LastBlock(r) \in Int
         /\ \E n \in Nat : DOMAIN RangeOf(r) = 1 .. n /\ \A i \in 1 .. n : RangeOf(r)[i] = FirstBlock(r) + i
<1> DEFINE low == FirstBlock(r)
           high == LastBlock(r)
           seq == RangeOf(r)
<1>2. low \in Int /\ high \in Int
  <2>1. PICK a \in Int, k \in Int : a = req[r].n_past /\ k = TokensToTake(r)
    BY TokensToTakeType DEF ReqRecs
  <2>2. PICK e \in Int : e = a + k - 1
    OBVIOUS
  <2>3. a \div BlockSize \in Int /\ e \div BlockSize \in Int
    BY BlockSizeAssumption
  <2> QED BY <2>1, <2>2, <2>3 DEF FirstBlock, LastBlock
<1>3. PICK d \in Int : d = high - low + 1
  BY <1>2
<1>4. DOMAIN seq = 1 .. d /\ \A i \in 1 .. d : seq[i] = low + i
  BY <1>3 DEF RangeOf
<1> HIDE DEF seq, low, high
<1>5. PICK n \in Nat : 1 .. n = 1 .. d
  <2>1. CASE d >= 0
    BY <2>1
  <2>2. CASE d < 0
    <3>1. 1 .. d = 1 .. 0
      BY <2>2
    <3> QED BY <3>1
  <2> QED BY <2>1, <2>2
<1> QED BY <1>2, <1>4, <1>5 DEF low, high, seq

LEMMA RangeWritableBuilding ==
  ASSUME req \in [Reqs -> ReqRecs], out \in Outs,
         NEW s, NEW p, NEW B, NEW y, Building(y, s, p, B), NEW r \in Reqs, NEW z \in MakeRangeWritable(y, r)
  PROVE  Building(z, s, p, B)
<1>0. PICK c : c.r = r /\ c.s = s /\ c.p = p /\ c.B = B
  <2>1. PICK c : c = [r |-> r, s |-> s, p |-> p, B |-> B]
    OBVIOUS
  <2> QED BY <2>1
<1> DEFINE x == [y EXCEPT !.ok = TRUE, !.kind = Kind(c.r)]
<1>1. MakeRangeWritable(y, c.r) = Writing!Fold(DOMAIN RangeOf(c.r), {x}, c)
  BY Zenon DEF MakeRangeWritable, FoldLeft, MapThenFoldSet, Writing!Fold, Writing!MapThenFoldSet,
               RangeOf, FirstBlock, LastBlock, WritableStep
<1>2. PICK seq : seq = RangeOf(r)
  OBVIOUS
<1>3. PICK n \in Nat : DOMAIN seq = 1 .. n /\ \A i \in 1 .. n : seq[i] \in Int
  BY <1>2, RangeOfType
<1>4. Building(x, s, p, B)
  <2>1. y = [m |-> y.m, k |-> y.k, q |-> y.q, batch |-> y.batch, stalled |-> y.stalled,
             kind |-> y.kind, ok |-> y.ok]
    BY DEF Building
  <2>3. PICK kd : kd = Kind(c.r)
    OBVIOUS
  <2>4. x = [y EXCEPT !.ok = TRUE, !.kind = kd]
    BY <2>3
  <2> HIDE DEF x
  <2>2. x = [m |-> y.m, k |-> y.k, q |-> y.q, batch |-> y.batch, stalled |-> y.stalled,
             kind |-> kd, ok |-> TRUE]
    BY <2>1, <2>4
  <2> QED BY <2>2 DEF Building
<1> HIDE DEF x
<1>5. AllBuilding({}, {x}, c)
  BY <1>0, <1>4 DEF AllBuilding
<1>6. Writing!KeptByVisits(n, c)
  <2>1. ASSUME NEW i \in 1 .. n, NEW X, AllBuilding(1 .. (i - 1), X, c)
        PROVE  AllBuilding(1 .. i, WritableStep(i, X, c), c)
    <3> SUFFICES ASSUME NEW w \in WritableStep(i, X, c) PROVE Building(w, s, p, B)
      BY <1>0 DEF AllBuilding
    <3>1. PICK v \in X : w \in MakeWritable(v, r, seq[i])
      BY <1>0, <1>2 DEF WritableStep
    <3>2. Building(v, s, p, B)
      BY <1>0, <2>1 DEF AllBuilding
    <3>3. PICK j \in Int : j = seq[i]
      BY <1>3
    <3>4. w \in MakeWritable(v, r, j)
      BY <3>1, <3>3
    <3> QED BY ONLY r \in Reqs, j \in Int, <3>2, <3>4, MakeWritableBuilding
  <2> QED BY <2>1 DEF Writing!KeptByVisits
<1>7. Writing!FromFirst(n)
  BY DEF Writing!FromFirst, Writing!Latest, Max
<1>8. AllBuilding(1 .. n, Writing!Fold(1 .. n, {x}, c), c)
  BY ONLY n \in Nat, <1>5, <1>6, <1>7, Writing!VisitInvariant
<1> QED BY <1>0, <1>1, <1>2, <1>3, <1>8 DEF AllBuilding

LEMMA BuildOneBuilding ==
  ASSUME req \in [Reqs -> ReqRecs], out \in Outs,
         NEW s, NEW p, NEW B \in SUBSET Reqs, NEW y, Building(y, s, p, B), NEW r \in B, NEW w \in BuildOne(y, r)
  PROVE  Building(w, s, p, B)
<1>0. r \in Reqs
  OBVIOUS
<1>1. ASSUME NEW z, Building(z, s, p, B), w = [z EXCEPT !.stalled = @ \union {r}]
      PROVE  Building(w, s, p, B)
  <2>1. PICK S \in SUBSET Reqs : S = z.stalled \union {r}
    BY <1>0, <1>1 DEF Building
  <2>2. z = [m |-> z.m, k |-> z.k, q |-> z.q, batch |-> z.batch, stalled |-> z.stalled,
             kind |-> z.kind, ok |-> z.ok]
    BY <1>1 DEF Building
  <2>3. w = [m |-> z.m, k |-> z.k, q |-> z.q, batch |-> z.batch, stalled |-> S,
             kind |-> z.kind, ok |-> z.ok]
    BY <1>1, <2>1, <2>2
  <2>4. /\ w = [m |-> w.m, k |-> w.k, q |-> w.q, batch |-> w.batch, stalled |-> w.stalled,
                kind |-> w.kind, ok |-> w.ok]
        /\ w.m = z.m /\ w.k = z.k /\ w.q = z.q /\ w.batch = z.batch /\ w.stalled = S
    BY <2>3
  <2> QED BY <1>1, <2>4 DEF Building
<1>2. ASSUME NEW z, Building(z, s, p, B), w = [z EXCEPT !.batch = Append(@, r)]
      PROVE  Building(w, s, p, B)
  <2>1. PICK t \in Seq(Reqs) : t = z.batch /\ BlocksOf(t) \subseteq B
    BY <1>2 DEF Building
  <2>2. PICK e \in Seq(Reqs) : e = <<r>> /\ BlocksOf(e) = {r}
    BY <1>0, SingletonSeq
  <2>3. PICK u \in Seq(Reqs) : u = Append(t, r) /\ BlocksOf(u) \subseteq B
    <3>1. Append(t, r) = t \o e
      BY <1>0, <2>2, AppendIsConcat
    <3>2. t \o e \in Seq(Reqs) /\ BlocksOf(t \o e) = BlocksOf(t) \union BlocksOf(e)
      BY BlocksOfConcat
    <3> QED BY <2>1, <2>2, <3>1, <3>2
  <2>4. z = [m |-> z.m, k |-> z.k, q |-> z.q, batch |-> z.batch, stalled |-> z.stalled,
             kind |-> z.kind, ok |-> z.ok]
    BY <1>2 DEF Building
  <2>5. w = [m |-> z.m, k |-> z.k, q |-> z.q, batch |-> u, stalled |-> z.stalled,
             kind |-> z.kind, ok |-> z.ok]
    BY <1>2, <2>1, <2>3, <2>4
  <2>6. /\ w = [m |-> w.m, k |-> w.k, q |-> w.q, batch |-> w.batch, stalled |-> w.stalled,
                kind |-> w.kind, ok |-> w.ok]
        /\ w.m = z.m /\ w.k = z.k /\ w.q = z.q /\ w.batch = u /\ w.stalled = z.stalled
    BY <2>5
  <2> QED BY <1>2, <2>3, <2>6 DEF Building
<1>3. CASE req[r].state # "active"
  BY <1>3 DEF BuildOne
<1>4. CASE req[r].state = "active" /\ (req[r].cancelled \/ y.kind \notin {"none", Kind(r)})
  <2>1. w = [y EXCEPT !.stalled = @ \union {r}]
    BY <1>4, Zenon DEF BuildOne
  <2> QED BY <1>1, <2>1
<1>5. CASE req[r].state = "active" /\ ~(req[r].cancelled \/ y.kind \notin {"none", Kind(r)})
  <2>1. PICK z \in MakeRangeWritable(y, r) :
           w = IF z.ok THEN [z EXCEPT !.batch = Append(@, r)] ELSE [z EXCEPT !.stalled = @ \union {r}]
    BY <1>5, Zenon DEF BuildOne
  <2>2. Building(z, s, p, B)
    BY <1>0, RangeWritableBuilding
  <2> QED BY <1>1, <1>2, <2>1, <2>2
<1> QED BY <1>3, <1>4, <1>5

(***************************************************************************)
(* The whole batch is built.                                               *)
(***************************************************************************)
BuildStep(i, X, c) == UNION {BuildOne(z, c.seq[i]) : z \in X}
BuiltSoFar(s, X, c) == \A z \in X : Building(z, c.s, c.p, c.B)
BuildingBatch == INSTANCE Folding_proofs WITH Choose <- Max, Step <- BuildStep, Good <- BuiltSoFar

LEMMA BuildAll ==
  ASSUME req \in [Reqs -> ReqRecs], out \in Outs, NEW s, NEW p, NEW b \in Seq(Reqs),
         NEW y, Building(y, s, p, BlocksOf(b)), NEW w \in Visit(BuildOne, y, b)
  PROVE  Building(w, s, p, BlocksOf(b))
<1>0. PICK c : c.s = s /\ c.p = p /\ c.B = BlocksOf(b) /\ c.seq = b
  <2>1. PICK c : c = [s |-> s, p |-> p, B |-> BlocksOf(b), seq |-> b]
    OBVIOUS
  <2> QED BY <2>1
<1>1. Visit(BuildOne, y, c.seq) = BuildingBatch!Fold(DOMAIN c.seq, {y}, c)
  BY Zenon DEF Visit, FoldLeft, MapThenFoldSet, BuildingBatch!Fold, BuildingBatch!MapThenFoldSet, BuildStep
<1>2. PICK n \in Nat : DOMAIN b = 1 .. n
  BY LenProperties
<1>3. PICK B \in SUBSET Reqs : B = BlocksOf(b)
  BY BlocksOfSeq
<1>4. \A i \in 1 .. n : b[i] \in B
  BY <1>2, <1>3 DEF BlocksOf
<1>5. BuiltSoFar({}, {y}, c)
  BY <1>0 DEF BuiltSoFar
<1>6. BuildingBatch!KeptByVisits(n, c)
  <2>1. ASSUME NEW i \in 1 .. n, NEW X, BuiltSoFar(1 .. (i - 1), X, c)
        PROVE  BuiltSoFar(1 .. i, BuildStep(i, X, c), c)
    <3> SUFFICES ASSUME NEW z \in BuildStep(i, X, c) PROVE Building(z, s, p, B)
      BY <1>0, <1>3 DEF BuiltSoFar
    <3>1. PICK x \in X : z \in BuildOne(x, b[i])
      BY <1>0 DEF BuildStep
    <3>2. Building(x, s, p, B)
      BY <1>0, <1>3, <2>1 DEF BuiltSoFar
    <3> QED BY <1>4, <3>1, <3>2, BuildOneBuilding
  <2> QED BY <2>1 DEF BuildingBatch!KeptByVisits
<1>7. BuildingBatch!FromFirst(n)
  BY DEF BuildingBatch!FromFirst, BuildingBatch!Latest, Max
<1>8. BuiltSoFar(1 .. n, BuildingBatch!Fold(1 .. n, {y}, c), c)
  BY ONLY n \in Nat, <1>5, <1>6, <1>7, BuildingBatch!VisitInvariant
<1> QED BY <1>0, <1>1, <1>2, <1>8 DEF BuiltSoFar
-----------------------------------------------------------------------------
(***************************************************************************)
(* A prefix of 1 .. n is 1 .. its cardinality.                             *)
(***************************************************************************)
LEMMA InitialSegment ==
  ASSUME NEW n \in Nat, NEW S \in SUBSET (1 .. n), \A j \in S : \A i \in 1 .. j : i \in S
  PROVE  Cardinality(S) \in Nat /\ S = 1 .. Cardinality(S)
<1>1. CASE S = {}
  <2>1. Cardinality(S) = 0
    BY <1>1, FS_EmptySet
  <2> QED BY <1>1, <2>1
<1>2. CASE S # {}
  <2>1. PICK k \in S : \A j \in S : k >= j
    BY <1>2, Growing!LatestInSet
  <2>2. S = 1 .. k /\ k \in Nat
    <3>1. k \in Nat /\ k <= n
      OBVIOUS
    <3>2. S \subseteq 1 .. k
      BY <2>1, <3>1
    <3>3. 1 .. k \subseteq S
      OBVIOUS
    <3> QED BY <3>1, <3>2, <3>3
  <2>3. Cardinality(S) = k
    <3>1. PICK a \in Int, b \in Int : a = 1 /\ b = k
      BY <2>2
    <3>2. Cardinality(a .. b) = IF a > b THEN 0 ELSE b - a + 1
      BY FS_Interval
    <3> QED BY <2>1, <2>2, <3>1, <3>2
  <2> QED BY <2>2, <2>3
<1> QED BY <1>1, <1>2

(***************************************************************************)
(* Prefixes of different length have different hashes.                     *)
(***************************************************************************)
LEMMA PrefixHashInjective ==
  ASSUME NEW r \in Reqs, NEW i \in 1 .. PromptLen(r) \div BlockSize, NEW j \in 1 .. PromptLen(r) \div BlockSize,
         PrefixHash(r, i) = PrefixHash(r, j)
  PROVE  i = j
<1>1. PICK L \in Nat, D \in Int : L = PromptLen(r) /\ D = L \div BlockSize
  BY PromptLenType, BlockSizeAssumption
<1>2. D * BlockSize <= L
  BY <1>1, BlockSizeAssumption
<1>3. ASSUME NEW k \in 1 .. D PROVE Len(PrefixHash(r, k)) = k * BlockSize
  <2>1. k * BlockSize <= D * BlockSize /\ k * BlockSize \in Nat /\ D * BlockSize \in Int
    BY <1>1, BlockSizeAssumption
  <2>2. PICK e \in Nat : e = k * BlockSize /\ e <= L
    BY <1>2, <2>1
  <2>3. PICK S, s : S = Range(Prompt[r]) /\ s = Prompt[r] /\ s \in Seq(S) /\ Len(s) = L
    BY <1>1, PromptAssumption DEF PromptLen
  <2>4. Len(SubSeq(s, 1, e)) = e
    <3>1. PICK a \in Int, b \in Int : a = 1 /\ b = e /\ a \in 1 .. Len(s) + 1 /\ b \in a - 1 .. Len(s)
      BY <2>2, <2>3
    <3>2. Len(SubSeq(s, a, b)) = b - a + 1
      BY <2>3, <3>1, SubSeqProperties
    <3> QED BY <2>2, <3>1, <3>2
  <2> QED BY <2>2, <2>3, <2>4 DEF PrefixHash
<1>4. i * BlockSize = j * BlockSize
  BY <1>1, <1>3
<1>5. i \in Int /\ j \in Int
  BY <1>1
<1> QED BY <1>4, <1>5, BlockSizeAssumption

(***************************************************************************)
(* What a lookup finds: distinct blocks of the cache, still usable.        *)
(***************************************************************************)
LEMMA CachedPrefixGood ==
  ASSUME NEW m, GoodBM(m), NEW r \in Reqs, NEW hit, hit = CachedPrefix(m, r)
  PROVE  /\ hit \in Seq(Blocks) /\ Distinct(hit) /\ \A b \in BlocksOf(hit) : Usable(m, b)
         /\ ~PrefixCache => hit = <<>>
<1>1. CASE ~PrefixCache
  <2>1. hit = <<>>
    BY <1>1 DEF CachedPrefix
  <2> QED BY <2>1, EmptySeqFacts
<1>2. CASE PrefixCache
  <2>1. PICK L \in Nat, D \in Int, E \in Int :
           L = PromptLen(r) /\ D = L \div BlockSize /\ E = (L - 1) \div BlockSize /\ E <= D
    <3>1. PICK L \in Nat, a \in Int : L = PromptLen(r) /\ a = L - 1
      BY PromptLenType
    <3>2. a \div BlockSize <= L \div BlockSize /\ a \div BlockSize \in Int /\ L \div BlockSize \in Int
      BY <3>1, BlockSizeAssumption
    <3> QED BY <3>1, <3>2
  <2>2. PICK keys : keys = PrefixKeys(r)
    OBVIOUS
  <2>3. keys = [n \in 1 .. E |-> [hash |-> PrefixHash(r, n), toks |-> BlockTokens(r, n)]]
    BY <2>1, <2>2 DEF PrefixKeys
  <2>4. PICK N \in Nat : Len(keys) = N /\ \A i \in 1 .. N : i \in 1 .. D /\ keys[i].hash = PrefixHash(r, i)
    <3>1. CASE E >= 0
      <4>1. DOMAIN keys = 1 .. E /\ E \in Nat
        BY <2>3, <3>1
      <4>2. Len(keys) = E
        BY <4>1
      <4>3. \A i \in 1 .. E : i \in 1 .. D /\ keys[i].hash = PrefixHash(r, i)
        BY <2>1, <2>3
      <4> QED BY <4>1, <4>2, <4>3
    <3>2. CASE E < 0
      <4>1. keys = <<>>
        BY <2>3, <3>2
      <4> QED BY <4>1
    <3> QED BY <3>1, <3>2
  <2>5. PICK S : S = Reused(m, keys, FALSE)
    OBVIOUS
  <2>6. S = {i \in 1 .. N : \E n \in HitRun(m, keys) : i <= n}
    BY <2>4, <2>5 DEF Reused
  <2>7. HitRun(m, keys) \subseteq 1 .. N
    BY <2>4 DEF HitRun
  <2>8. PICK c \in Nat : c = Cardinality(S) /\ S = 1 .. c
    <3>1. S \in SUBSET (1 .. N) /\ \A j \in S : \A i \in 1 .. j : i \in S
      BY <2>6, <2>7
    <3>2. Cardinality(S) \in Nat /\ S = 1 .. Cardinality(S)
      BY ONLY N \in Nat, <3>1, InitialSegment
    <3> QED BY <3>2
  <2>9. hit = [i \in 1 .. c |-> m.cache[keys[i].hash]]
    BY <1>2, <2>2, <2>5, <2>8 DEF CachedPrefix, FindLongest
  <2>10. ASSUME NEW i \in 1 .. c
         PROVE  /\ i \in 1 .. D /\ PrefixHash(r, i) \in Hashes
                /\ hit[i] = m.cache[PrefixHash(r, i)] /\ Usable(m, hit[i])
    <3>1. PICK n \in HitRun(m, keys) : i \in 1 .. N /\ i <= n
      BY <2>6, <2>8
    <3>2. i \in 1 .. n
      BY <2>7, <3>1
    <3>3. VerifiedHit(m, keys[i].hash, keys[i].toks)
      BY <3>1, <3>2 DEF HitRun
    <3>4. i \in 1 .. D /\ keys[i].hash = PrefixHash(r, i)
      BY <2>4, <3>1
    <3>5. PrefixHash(r, i) \in Hashes
      BY <1>2, <2>1, <3>4, PromptAssumption
    <3>6. hit[i] = m.cache[PrefixHash(r, i)]
      BY <2>9, <3>4
    <3> QED BY <3>3, <3>4, <3>5, <3>6 DEF VerifiedHit, HashHit
  <2>11. ASSUME NEW i \in 1 .. c
         PROVE  hit[i] \in Blocks /\ m.hash[hit[i]] = PrefixHash(r, i)
    <3>1. hit[i] # NoBlock /\ hit[i] \in Blocks \union {NoBlock}
      BY <2>10 DEF Usable, GoodBM, BMType
    <3> QED BY <2>10, <3>1 DEF GoodBM, Coherent
  <2>12. hit \in Seq(Blocks) /\ DOMAIN hit = 1 .. c
    BY <2>9, <2>11
  <2>13. Distinct(hit)
    <3> SUFFICES ASSUME NEW i \in 1 .. c, NEW j \in 1 .. c, hit[i] = hit[j] PROVE i = j
      BY <2>12 DEF Distinct
    <3>1. PrefixHash(r, i) = PrefixHash(r, j)
      BY <2>11
    <3>2. i \in 1 .. PromptLen(r) \div BlockSize /\ j \in 1 .. PromptLen(r) \div BlockSize
      BY <2>1, <2>10
    <3> QED BY <3>1, <3>2, PrefixHashInjective
  <2>14. \A b \in BlocksOf(hit) : Usable(m, b)
    BY <2>10, <2>12 DEF BlocksOf
  <2> QED BY <1>2, <2>12, <2>13, <2>14
<1> QED BY <1>1, <1>2

(***************************************************************************)
(* A pending request is fetched: its cached prefix is reserved.            *)
(***************************************************************************)
LEMMA AddRequestType ==
  ASSUME NEW s \in Scheds, NEW m, NEW r \in Reqs, NEW hit \in Seq(Blocks), hit = CachedPrefix(m, r),
         NEW s2, s2 = AddRequest(s, m, r)
  PROVE  /\ s2 \in Scheds
         /\ s2.waiting = s.waiting \union {r} /\ s2.running = s.running /\ s2.swapped = s.swapped
         /\ s2.shared[r] = hit /\ \A x \in Reqs \ {r} : s2.shared[x] = s.shared[x]
<1>1. PICK a \in Int : a = Len(hit) * BlockSize
  BY BlockSizeAssumption
<1>2. PICK b \in Int : b = PromptLen(r) - a
  BY PromptLenType
<1>3. PICK W \in SUBSET Reqs : W = s.waiting \union {r}
  BY DEF Scheds
<1>4. PICK k \in Int, cl \in Int : k = s.clock + 1 /\ cl = s.clock
  BY DEF Scheds
<1>5. s2 = [s EXCEPT !.waiting = W, !.shared[r] = hit, !.rem[r] = b,
                     !.ctx[r] = a, !.gen[r] = 0, !.arr[r] = cl, !.clock = k]
  BY <1>1, <1>2, <1>3, <1>4 DEF AddRequest, Scheds
<1>6. PICK f1 \in [Reqs -> Seq(Blocks)], f2 \in [Reqs -> Int], f3 \in [Reqs -> Int] :
         f1 = [s.shared EXCEPT ![r] = hit] /\ f2 = [s.rem EXCEPT ![r] = b] /\ f3 = [s.ctx EXCEPT ![r] = a]
  BY DEF Scheds
<1>7. PICK f4 \in [Reqs -> Int], f5 \in [Reqs -> Int] :
         f4 = [s.gen EXCEPT ![r] = 0] /\ f5 = [s.arr EXCEPT ![r] = cl]
  <2>1. PICK z \in Int : z = 0
    OBVIOUS
  <2>2. [s.gen EXCEPT ![r] = z] \in [Reqs -> Int] /\ [s.arr EXCEPT ![r] = cl] \in [Reqs -> Int]
    BY DEF Scheds
  <2> QED BY <2>1, <2>2
<1>8. s2 = [waiting |-> W, running |-> s.running, swapped |-> s.swapped, rem |-> f2, shared |-> f1,
            ctx |-> f3, gen |-> f4, sblk |-> s.sblk, arr |-> f5, clock |-> k, streak |-> s.streak]
  <2>1. s2 = [s EXCEPT !.waiting = W, !.shared = f1, !.rem = f2, !.ctx = f3, !.gen = f4, !.arr = f5,
                       !.clock = k]
    BY ONLY s \in Scheds, <1>5, <1>6, <1>7 DEF Scheds
  <2> QED BY ONLY s \in Scheds, <2>1 DEF Scheds
<1>9. s2 \in Scheds
  BY <1>8 DEF Scheds
<1>10. f1[r] = hit /\ \A x \in Reqs \ {r} : f1[x] = s.shared[x]
  BY <1>6 DEF Scheds
<1> QED BY <1>3, <1>8, <1>9, <1>10

LEMMA FetchSound ==
  ASSUME NEW m, NEW q, NEW s, Sound(m, q, s), NEW r \in Reqs, q[r].state = "pending",
         NEW q2, q2 = [q EXCEPT ![r].state = "active"]
  PROVE  Sound(Acquire(m, BlocksOf(CachedPrefix(m, r))), q2, AddRequest(s, m, r))
<1>0. /\ GoodBM(m) /\ q \in [Reqs -> ReqRecs] /\ s \in Scheds /\ Covers(m.ref, Kept(q), Reserved(s))
      /\ Fits(q[r], s, r)
  BY DEF Sound
<1>1. PICK hit : hit = CachedPrefix(m, r)
  OBVIOUS
<1>2. /\ hit \in Seq(Blocks) /\ Distinct(hit) /\ \A b \in BlocksOf(hit) : Usable(m, b)
      /\ ~PrefixCache => hit = <<>>
  BY <1>0, <1>1, CachedPrefixGood
<1>3. PICK X \in SUBSET Blocks : X = BlocksOf(hit) /\ (~PrefixCache => X = {})
  BY <1>2, BlocksOfSeq, EmptySeqFacts
<1>4. PICK n : n = Acquire(m, X)
  OBVIOUS
<1>5. GoodBM(n) /\ \A b \in Blocks : n.ref[b] = IF b \in X THEN m.ref[b] + 1 ELSE m.ref[b]
  BY <1>0, <1>2, <1>3, <1>4, AcquireGood
<1>6. PICK s2 : s2 = AddRequest(s, m, r)
  OBVIOUS
<1>7. /\ s2 \in Scheds
      /\ s2.waiting = s.waiting \union {r} /\ s2.running = s.running /\ s2.swapped = s.swapped
      /\ s2.shared[r] = hit /\ \A x \in Reqs \ {r} : s2.shared[x] = s.shared[x]
  BY <1>0, <1>1, <1>2, <1>6, AddRequestType
<1>8. q2 \in [Reqs -> ReqRecs]
  <2>1. [q[r] EXCEPT !.state = "active"] \in ReqRecs
    BY <1>0 DEF ReqRecs, States
  <2> QED BY <1>0, <2>1
<1>9. /\ q2[r].table = <<>> /\ q2[r].state = "active" /\ q2[r].prefill = TRUE /\ q2[r].table = q[r].table
      /\ \A x \in Reqs \ {r} : q2[x] = q[x]
  BY <1>0 DEF ReqRecs, Fits
<1>10. SameBut(q, q2, s, s2, r)
  BY <1>7, <1>9 DEF SameBut
<1>11. r \notin s.running /\ r \notin s.swapped /\ s.shared[r] = <<>>
  BY <1>0 DEF Fits
<1>12. Fits(q2[r], s2, r)
  BY <1>2, <1>7, <1>9, <1>11, EmptySeqFacts DEF Fits
<1>13. PICK K \in Holdings, H \in Holdings : K = Kept(q) /\ H = Reserved(s) /\ H[r] = {}
  <2>1. Reserved(s)[r] = {}
    BY <1>11, EmptySeqFacts DEF Reserved
  <2> QED BY <1>0, <2>1, HoldingsTypes
<1>14. PICK ref \in [Blocks -> Nat], ref2 \in [Blocks -> Nat] : ref = m.ref /\ ref2 = n.ref
  BY <1>0, <1>5 DEF GoodBM, BMType
<1>15. Covers(ref2, K, [H EXCEPT ![r] = X])
  <2>1. Covers(ref, K, H) /\ \A b \in Blocks : ref2[b] = IF b \in X THEN ref[b] + 1 ELSE ref[b]
    BY <1>0, <1>5, <1>13, <1>14
  <2> QED BY ONLY ref \in [Blocks -> Nat], ref2 \in [Blocks -> Nat], K \in Holdings, H \in Holdings,
                  r \in Reqs, X \in SUBSET Blocks, <1>3, <1>13, <2>1, CoversReserve
<1>16. K = [Kept(q) EXCEPT ![r] = BlocksOf(q2[r].table)]
  BY <1>9, <1>13 DEF Kept
<1>17. [H EXCEPT ![r] = X] = [Reserved(s) EXCEPT ![r] = BlocksOf(s2.shared[r])]
  BY <1>3, <1>7, <1>13
<1>18. Sound(n, q2, s2)
  <2>1. Covers(n.ref, [Kept(q) EXCEPT ![r] = BlocksOf(q2[r].table)],
                      [Reserved(s) EXCEPT ![r] = BlocksOf(s2.shared[r])])
    BY ONLY <1>14, <1>15, <1>16, <1>17
  <2>2. GoodBM(n) /\ s2 \in Scheds
    BY <1>5, <1>7
  <2> QED BY ONLY Sound(m, q, s), r \in Reqs, <1>8, <1>10, <1>12, <2>1, <2>2, SoundStep
<1> QED BY <1>1, <1>3, <1>4, <1>6, <1>18
-----------------------------------------------------------------------------
(***************************************************************************)
(* The orders of a finite set: sequences of all its members, each once.    *)
(***************************************************************************)
LEMMA OrdersOfSet ==
  ASSUME NEW S, IsFiniteSet(S), NEW f \in SetToSeqs(S)
  PROVE  f \in Seq(S) /\ Distinct(f) /\ BlocksOf(f) = S
<1>1. PICK n \in Nat : n = Cardinality(S)
  BY FS_CardinalityType
<1>2. f \in [1 .. n -> S] /\ \A i, j \in 1 .. n : i # j => f[i] # f[j]
  BY <1>1, Zenon DEF SetToSeqs
<1>3. f \in Seq(S) /\ Distinct(f)
  BY <1>2 DEF Distinct
<1>4. f \in Injection(1 .. n, S)
  BY <1>2, Zenon DEF Injection, IsInjective
<1>5. Cardinality(1 .. n) = n
  BY FS_Interval
<1>6. f \in Surjection(1 .. n, S)
  BY <1>1, <1>4, <1>5, FS_Injection
<1>7. \A t \in S : \E i \in 1 .. n : f[i] = t
  BY <1>6, Zenon DEF Surjection
<1> QED BY <1>2, <1>3, <1>7 DEF BlocksOf

(***************************************************************************)
(* What AllocateSeq hands out.                                             *)
(***************************************************************************)
LEMMA AllocateSeqGood ==
  ASSUME NEW m, GoodBM(m), NEW n \in Int, NEW a \in AllocateSeq(m, n)
  PROVE  /\ GoodBM(a.next) /\ a.ids \in Seq(Blocks) /\ Distinct(a.ids)
         /\ HandsOut(m, a.next, BlocksOf(a.ids))
<1>1. PICK b \in Allocate(m, n) : \E f \in SetToSeqs(b.ids) : a = [ids |-> f, next |-> b.next]
  BY Zenon DEF AllocateSeq
<1>2. PICK f \in SetToSeqs(b.ids) : a.ids = f /\ a.next = b.next
  BY <1>1
<1>3. /\ GoodBM(b.next) /\ b.ids \subseteq Blocks
      /\ \A x \in Blocks : IF x \in b.ids THEN m.ref[x] = 0 /\ b.next.ref[x] = 1
                           ELSE b.next.ref[x] = m.ref[x]
  BY AllocateGood
<1>4. IsFiniteSet(b.ids)
  BY <1>3, BlocksAssumption, FS_Subset
<1>5. f \in Seq(b.ids) /\ Distinct(f) /\ BlocksOf(f) = b.ids
  BY <1>4, OrdersOfSet
<1>6. f \in Seq(Blocks)
  BY <1>3, <1>5
<1>7. HandsOut(m, b.next, b.ids)
  BY <1>3 DEF HandsOut
<1> QED BY <1>2, <1>3, <1>5, <1>6, <1>7

LEMMA OrderType ==
  ASSUME NEW s, NEW S \in SUBSET Reqs, NEW f \in InOrder(s, S)
  PROVE  f \in Seq(S) /\ f \in Seq(Reqs) /\ Distinct(f) /\ BlocksOf(f) = S
<1>1. IsFiniteSet(S)
  BY ReqsAssumption, FS_Subset
<1>2. f \in SetToSeqs(S)
  BY Zenon DEF InOrder
<1>3. f \in Seq(S) /\ Distinct(f) /\ BlocksOf(f) = S
  BY <1>1, <1>2, OrdersOfSet
<1> QED BY <1>3

(***************************************************************************)
(* The requests as they will be once they have received what output o      *)
(* gives them.                                                             *)
(***************************************************************************)
Got(o) == [r \in Reqs |-> Received(o, r)]

LEMMA ReceivedType ==
  ASSUME req \in [Reqs -> ReqRecs], NEW o \in Outs, NEW r \in Reqs
  PROVE  /\ Received(o, r) \in ReqRecs
         /\ Received(o, r).table = (req[r].table \o o.alloc[r]) \o o.hits[r]
         /\ Received(o, r).state = req[r].state /\ Received(o, r).prefill = req[r].prefill
         /\ Received(o, r).swap = req[r].swap
<1>0. req[r] \in ReqRecs /\ o.alloc[r] \in Seq(Blocks) /\ o.hits[r] \in Seq(Blocks)
  BY DEF Outs
<1>1. PICK t \in Seq(Blocks) : t = (req[r].table \o o.alloc[r]) \o o.hits[r]
  <2>0. req[r].table \in Seq(Blocks)
    BY <1>0 DEF ReqRecs
  <2>1. PICK u \in Seq(Blocks) : u = req[r].table \o o.alloc[r]
    BY <1>0, <2>0, ConcatProperties
  <2>2. u \o o.hits[r] \in Seq(Blocks)
    BY <1>0, <2>1
  <2> QED BY <2>1, <2>2
<1>2. PICK k \in Nat : k = Len(o.hits[r])
  BY <1>0, LenProperties
<1>3. PICK c \in Int : c = k * BlockSize
  BY BlockSizeAssumption
<1>4. PICK a \in Int, b \in Int : a = req[r].n_past + c /\ b = req[r].rem - c
  <2>1. req[r].n_past \in Int /\ req[r].rem \in Int
    BY <1>0 DEF ReqRecs
  <2> QED BY ONLY <2>1, c \in Int
<1>5. PICK g \in Nat : g = Max({req[r].reg, k})
  <2>1. PICK e \in Nat : e = req[r].reg
    BY <1>0 DEF ReqRecs
  <2>0. e \in Int /\ k \in Int
    OBVIOUS
  <2>2. Max({e, k}) \in {e, k}
    BY ONLY <2>0, MinMaxType
  <2> QED BY <2>1, <2>2
<1>6. Received(o, r) = [req[r] EXCEPT !.table = t, !.n_past = a, !.rem = b, !.reg = g]
  BY <1>1, <1>2, <1>3, <1>4, <1>5, Zenon DEF Received
<1>7. PICK v : v = req[r] /\ v \in ReqRecs
  BY <1>0
<1>8. PICK w : w = Received(o, r)
  OBVIOUS
<1>9. w = [state |-> v.state, cancelled |-> v.cancelled, prefill |-> v.prefill, rem |-> b,
           n_past |-> a, table |-> t, gen |-> v.gen, reg |-> g, swap |-> v.swap]
  BY <1>6, <1>7, <1>8 DEF ReqRecs
<1>10. w \in ReqRecs
  BY <1>7, <1>9 DEF ReqRecs
<1>11. w.table = t /\ w.state = v.state /\ w.prefill = v.prefill /\ w.swap = v.swap
  BY <1>9
<1> QED BY <1>1, <1>7, <1>8, <1>10, <1>11

LEMMA GotType ==
  ASSUME req \in [Reqs -> ReqRecs], NEW o \in Outs
  PROVE  /\ Got(o) \in [Reqs -> ReqRecs]
         /\ \A r \in Reqs : /\ Got(o)[r].table = (req[r].table \o o.alloc[r]) \o o.hits[r]
                            /\ Got(o)[r].state = req[r].state /\ Got(o)[r].prefill = req[r].prefill
                            /\ Got(o)[r].swap = req[r].swap
  BY ReceivedType DEF Got

(***************************************************************************)
(* The load of the members of S when each takes f tokens: the number of    *)
(* the slots they take.                                                    *)
(***************************************************************************)
Slots(f, S) == {p \in S \X Nat : 1 <= p[2] /\ p[2] <= f[p[1]]}
Load(f, S) == Cardinality(Slots(f, S))
Adds(f, S, g, T, r, k) ==
  r \notin S /\ T = S \union {r} /\ k >= 0 /\ g[r] = k /\ \A x \in S : g[x] = f[x]
Grows(f, S, g, T, k) == IsFiniteSet(Slots(g, T)) /\ Load(g, T) = Load(f, S) + k

(***************************************************************************)
(* The load of nobody is nothing; one more request adds its chunk.         *)
(***************************************************************************)
LEMMA LoadNone ==
  ASSUME NEW f
  PROVE  IsFiniteSet(Slots(f, {})) /\ Load(f, {}) = 0
<1>1. Slots(f, {}) = {}
  BY DEF Slots
<1> QED BY <1>1, FS_EmptySet DEF Load

LEMMA LoadAdd ==
  ASSUME NEW f \in [Reqs -> Int], NEW S \in SUBSET Reqs, IsFiniteSet(Slots(f, S)),
         NEW r \in Reqs, NEW k \in Int, NEW g \in [Reqs -> Int], NEW T, Adds(f, S, g, T, r, k)
  PROVE  Grows(f, S, g, T, k)
<1> SUFFICES IsFiniteSet(Slots(g, T)) /\ Load(g, T) = Load(f, S) + k
  BY DEF Grows
<1>0. r \notin S /\ T = S \union {r} /\ k >= 0 /\ g[r] = k /\ \A x \in S : g[x] = f[x]
  BY DEF Adds
<1>1. PICK A : A = {r} \X (1 .. k)
  OBVIOUS
<1>2. IsFiniteSet(A) /\ Cardinality(A) = k
  <2>0. PICK a \in Int : a = 1
    OBVIOUS
  <2>1. IsFiniteSet(a .. k) /\ Cardinality(a .. k) = k
    <3>1. IsFiniteSet(a .. k) /\ Cardinality(a .. k) = IF a > k THEN 0 ELSE k - a + 1
      BY ONLY a \in Int, k \in Int, FS_Interval
    <3> QED BY <1>0, <2>0, <3>1
  <2>2. IsFiniteSet({r}) /\ Cardinality({r}) = 1
    BY FS_Singleton
  <2>3. PICK V, U : V = {r} /\ U = 1 .. k /\ A = V \X U
    BY <1>1
  <2>4. IsFiniteSet(V \X U) /\ Cardinality(V \X U) = Cardinality(V) * Cardinality(U)
    BY <2>0, <2>1, <2>2, <2>3, FS_Product
  <2> QED BY <2>0, <2>1, <2>2, <2>3, <2>4
<1>3. PICK B : B = Slots(f, S)
  OBVIOUS
<1>4. Slots(g, S \union {r}) = B \union A
  <2>1. Slots(g, S) = B
    BY <1>0, <1>3 DEF Slots
  <2>2. Slots(g, S \union {r}) = Slots(g, S) \union Slots(g, {r})
    BY DEF Slots
  <2>3. Slots(g, {r}) = A
    BY <1>0, <1>1 DEF Slots
  <2> QED BY <2>1, <2>2, <2>3
<1>5. B \intersect A = {}
  BY <1>0, <1>1, <1>3 DEF Slots
<1>6. IsFiniteSet(B \union A) /\ Cardinality(B \union A) = Cardinality(B) + Cardinality(A) - Cardinality(B \intersect A)
  BY <1>2, <1>3, FS_Union
<1>7. Cardinality(B) \in Nat /\ Cardinality({}) = 0
  BY <1>3, FS_CardinalityType, FS_EmptySet
<1>8. Cardinality(B \union A) = Cardinality(B) + k
  BY <1>2, <1>5, <1>6, <1>7
<1>9. Load(f, S) = Cardinality(B)
  BY <1>3 DEF Load
<1>10. Load(g, S \union {r}) = Cardinality(B \union A)
  BY <1>4 DEF Load
<1> QED BY <1>0, <1>4, <1>6, <1>8, <1>9, <1>10, Zenon

(***************************************************************************)
(* Schedule() moves sequences between the running and the swapped ones and *)
(* hands reserved prefixes over; the progress it has on record stays.      *)
(***************************************************************************)
Tracks(s, o) ==
  /\ s.waiting = sch.waiting /\ s.rem = sch.rem /\ s.ctx = sch.ctx
  /\ \A r \in Reqs :
      /\ (r \in s.running \/ r \in s.swapped) <=> (r \in sch.running \/ r \in sch.swapped)
      /\ r \in s.running /\ r \in s.swapped => r \in sch.running /\ r \in sch.swapped
      /\ s.gen[r] = sch.gen[r] \/ (r \in sch.waiting /\ s.gen[r] = 0)
      /\ \/ s.shared[r] = sch.shared[r] /\ o.hits[r] = <<>>
         \/ s.shared[r] = <<>> /\ o.hits[r] = sch.shared[r]
      /\ o.chunk[r] >= 0

(***************************************************************************)
(* The output stays within the budget of a batch: waiting groups are       *)
(* prefilled, running sequences decoded, each at most once.                *)
(***************************************************************************)
Budgeted(s, o) ==
  /\ BlocksOf(o.prefill) \subseteq s.waiting /\ Distinct(o.prefill)
  /\ BlocksOf(o.decode) \subseteq s.running /\ Distinct(o.decode)
  /\ Len(o.prefill) + Len(o.decode) <= Config.max_num_seqs
  /\ o.total <= Config.max_num_batched_tokens
  /\ IsFiniteSet(Slots(o.chunk, BlocksOf(o.prefill)))
  /\ Load(o.chunk, BlocksOf(o.prefill)) + Len(o.decode) <= o.total

(***************************************************************************)
(* A stage of Schedule() leaves a plan x = [s, m, o]: once the requests    *)
(* have received what it gives them, everything is sound.  What has been   *)
(* given blocks is not swapped out, and in the queue only as a prefill of  *)
(* this batch; what is scheduled has nothing reserved any more.            *)
(***************************************************************************)
Planned(x) ==
  /\ x = [s |-> x.s, m |-> x.m, o |-> x.o]
  /\ x.o \in Outs /\ Sound(x.m, Got(x.o), x.s)
  /\ \A r \in Reqs : x.o.alloc[r] # <<>> \/ x.o.hits[r] # <<>> =>
        r \notin x.s.swapped /\ (r \in x.s.waiting => r \in BlocksOf(x.o.prefill))
  /\ \A r \in BlocksOf(x.o.prefill) \union BlocksOf(x.o.decode) :
        x.s.shared[r] = <<>> /\ req[r].state # "pending"
  /\ Tracks(x.s, x.o) /\ Budgeted(x.s, x.o)

\* Request r is given the blocks ids and what was reserved for it.
Gives(s, o, s2, o2, r, ids) ==
  /\ o2.alloc[r] = ids /\ o2.hits[r] = s.shared[r] /\ s2.shared[r] = <<>>
  /\ \A y \in Reqs \ {r} : /\ o2.alloc[y] = o.alloc[y] /\ o2.hits[y] = o.hits[y]
                           /\ y \in s2.waiting <=> y \in s.waiting
                           /\ y \in s2.running <=> y \in s.running
                           /\ y \in s2.swapped <=> y \in s.swapped
                           /\ s2.shared[y] = s.shared[y]

LEMMA GiveSound ==
  ASSUME req \in [Reqs -> ReqRecs], NEW s, NEW m, NEW o \in Outs, Sound(m, Got(o), s), NEW r \in Reqs,
         o.alloc[r] = <<>>, o.hits[r] = <<>>, NEW n \in Int, NEW a \in AllocateSeq(m, n),
         NEW s2 \in Scheds, NEW o2 \in Outs, Gives(s, o, s2, o2, r, a.ids), req[r].state # "pending",
         r \in s2.waiting => r \notin s2.running /\ r \notin s2.swapped /\ req[r].prefill = TRUE
  PROVE  Sound(a.next, Got(o2), s2)
<1>1. /\ GoodBM(a.next) /\ a.ids \in Seq(Blocks) /\ Distinct(a.ids)
      /\ HandsOut(m, a.next, BlocksOf(a.ids))
  BY AllocateSeqGood DEF Sound
<1>2. PICK q \in [Reqs -> ReqRecs] : q = Got(o)
  BY GotType
<1>3. PICK q2 \in [Reqs -> ReqRecs] : q2 = Got(o2)
  BY GotType
<1>4. SameBut(q, q2, s, s2, r)
  <2>1. ASSUME NEW y \in Reqs \ {r} PROVE q2[y] = q[y]
    <3>1. o2.alloc[y] = o.alloc[y] /\ o2.hits[y] = o.hits[y]
      BY DEF Gives
    <3>2. Received(o2, y) = Received(o, y)
      BY ONLY <3>1, Zenon DEF Received
    <3> QED BY <1>2, <1>3, <3>2 DEF Got
  <2> QED BY <2>1 DEF SameBut, Gives
<1>5. q[r].table = req[r].table
  <2>1. q[r].table = (req[r].table \o o.alloc[r]) \o o.hits[r]
    BY <1>2, GotType
  <2>2. req[r].table \in Seq(Blocks)
    BY DEF ReqRecs
  <2> QED BY <2>1, <2>2, ConcatEmptySeq
<1>6. q2[r].table = (q[r].table \o a.ids) \o s.shared[r] /\ s2.shared[r] = <<>>
  <2>1. q2[r].table = (req[r].table \o o2.alloc[r]) \o o2.hits[r]
    BY <1>3, GotType
  <2>2. o2.alloc[r] = a.ids /\ o2.hits[r] = s.shared[r] /\ s2.shared[r] = <<>>
    BY DEF Gives
  <2> QED BY ONLY <1>5, <2>1, <2>2
<1>7. q2[r].state # "pending" /\ q2[r].prefill = req[r].prefill
  BY <1>3, GotType
<1>8. Sound(m, q, s)
  BY <1>2
<1>9. r \in s2.waiting => r \notin s2.running /\ r \notin s2.swapped /\ q2[r].prefill = TRUE
  BY <1>7
<1>10. PICK ids : ids = a.ids
  OBVIOUS
<1>11. PICK nx : nx = a.next
  OBVIOUS
<1>12. Sound(nx, q2, s2)
  BY ONLY r \in Reqs, s2 \in Scheds, q2 \in [Reqs -> ReqRecs], <1>1, <1>4, <1>6, <1>7, <1>8, <1>9, <1>10, <1>11,
          SoundTake
<1> QED BY <1>3, <1>11, <1>12

(***************************************************************************)
(* Preemption only moves the victim to another queue.                      *)
(***************************************************************************)
LEMMA PreemptPlanned ==
  ASSUME req \in [Reqs -> ReqRecs], NEW x, Planned(x), x.o.prefill = <<>>, x.o.decode = <<>>,
         x.o.alloc = [r \in Reqs |-> <<>>], x.o.hits = [r \in Reqs |-> <<>>],
         NEW y \in PreemptSequences(x)
  PROVE  Planned(y) /\ y.o.prefill = <<>> /\ y.o.decode = <<>>
<1>1. CASE y = x
  BY <1>1
<1>2. ASSUME NEW v \in Victims(x.s),
             y = [x EXCEPT !.s.running = @ \ {v}, !.s.swapped = @ \union {v}, !.s.sblk[v] = <<>>,
                           !.o.preempted = {v}]
      PROVE  Planned(y) /\ y.o.prefill = <<>> /\ y.o.decode = <<>>
  <2>m. PICK m : m = x.m
    OBVIOUS
  <2>0. PICK s \in Scheds, o \in Outs : x = [s |-> s, m |-> m, o |-> o] /\ s = x.s /\ o = x.o /\ m = x.m
    BY <2>m DEF Planned, Sound
  <2>1. v \in s.running /\ v \in Reqs
    BY <2>0, <1>2 DEF Victims, Scheds
  <2>2. PICK R \in SUBSET Reqs, W \in SUBSET Reqs : R = s.running \ {v} /\ W = s.swapped \union {v}
    BY <2>0, <2>1 DEF Scheds
  <2>3. PICK f \in [Reqs -> Seq(Blocks)] : f = [s.sblk EXCEPT ![v] = <<>>]
    BY <2>0, <2>1, EmptySeqFacts DEF Scheds
  <2>4. PICK P \in SUBSET Reqs : P = {v}
    BY <2>1
  <2>8. PICK s2 : s2 = [s EXCEPT !.running = R, !.swapped = W, !.sblk = f]
    OBVIOUS
  <2>9. PICK o2 : o2 = [o EXCEPT !.preempted = P]
    OBVIOUS
  <2>5. s2 = [waiting |-> s.waiting, running |-> R, swapped |-> W, rem |-> s.rem, shared |-> s.shared,
              ctx |-> s.ctx, gen |-> s.gen, sblk |-> f, arr |-> s.arr, clock |-> s.clock, streak |-> s.streak]
    BY <2>8 DEF Scheds
  <2>6. o2 = [prefill |-> o.prefill, decode |-> o.decode, preempted |-> P, swapin |-> o.swapin,
              alloc |-> o.alloc, hits |-> o.hits, chunk |-> o.chunk, total |-> o.total,
              bctx |-> o.bctx, blocked |-> o.blocked, unsched |-> o.unsched, diag |-> o.diag]
    BY <2>9 DEF Outs
  <2>7. s2 \in Scheds /\ o2 \in Outs
    BY <2>5, <2>6 DEF Scheds, Outs
  <2>10. y = [s |-> s2, m |-> m, o |-> o2]
    <3>1. [s EXCEPT !.running = @ \ {v}, !.swapped = @ \union {v}, !.sblk[v] = <<>>] = s2
      BY <2>2, <2>3, <2>8 DEF Scheds
    <3> QED BY <1>2, <2>0, <2>4, <2>9, <3>1
  <2>11. Got(o2) = Got(o)
    <3>1. o2.alloc = o.alloc /\ o2.hits = o.hits
      BY <2>6
    <3> QED BY ONLY <3>1, Zenon DEF Got, Received
  <2>12. Sound(m, Got(o), s) /\ Got(o) \in [Reqs -> ReqRecs]
    BY <2>0, GotType DEF Planned
  <2>13. SameBut(Got(o), Got(o), s, s2, v)
    BY <2>1, <2>2, <2>5 DEF SameBut
  <2>14. Fits(Got(o)[v], s2, v)
    <3>1. Fits(Got(o)[v], s, v)
      BY <2>1, <2>12 DEF Sound
    <3> QED BY <2>1, <2>2, <2>5, <3>1 DEF Fits
  <2>15. Sound(m, Got(o), s2)
    <3>1. PICK q \in [Reqs -> ReqRecs] : q = Got(o)
      BY <2>12
    <3>2. PICK n, q2 : n = m /\ q2 = q
      OBVIOUS
    <3>3. /\ GoodBM(n) /\ n.ref = m.ref /\ q2[v].table = q[v].table /\ s2.shared[v] = s.shared[v]
          /\ q2 \in [Reqs -> ReqRecs]
      BY <2>5, <2>12, <3>1, <3>2 DEF Sound
    <3>4. Sound(m, q, s) /\ SameBut(q, q2, s, s2, v) /\ Fits(q2[v], s2, v)
      BY <2>12, <2>13, <2>14, <3>1, <3>2
    <3>5. Sound(n, q2, s2)
      BY ONLY <2>1, <2>7, <3>3, <3>4, SoundTouch
    <3> QED BY <3>1, <3>2, <3>5
  <2>16. /\ y = [s |-> y.s, m |-> y.m, o |-> y.o] /\ y.s = s2 /\ y.m = m /\ y.o = o2
         /\ o2.prefill = o.prefill /\ o2.decode = o.decode /\ o2.alloc = o.alloc /\ o2.hits = o.hits
         /\ s2.shared = s.shared
    BY <2>5, <2>6, <2>10
  <2>17. Tracks(s2, o2)
    <3>1. Tracks(s, o)
      BY <2>0 DEF Planned
    <3> QED BY <2>1, <2>2, <2>5, <2>6, <3>1 DEF Tracks
  <2>18. Budgeted(s2, o2)
    <3>1. Budgeted(s, o) /\ o.decode = <<>>
      BY <2>0 DEF Planned
    <3> QED BY <2>5, <2>6, <3>1, EmptySeqFacts DEF Budgeted
  <2> QED BY <2>0, <2>7, <2>11, <2>15, <2>16, <2>17, <2>18 DEF Planned
<1> QED BY <1>1, <1>2, Zenon DEF PreemptSequences

(***************************************************************************)
(* A swapped sequence is let back in, with new blocks.                     *)
(***************************************************************************)
LEMMA SwapInBlocksType ==
  ASSUME NEW s \in Scheds, NEW r \in Reqs
  PROVE  SwapInBlocks(s, r) \in Int
<1>1. PICK a \in Int : a = PromptLen(r) + s.gen[r]
  BY PromptLenType DEF Scheds
<1>2. PICK b \in Int : b = 1
  OBVIOUS
<1>3. Max({b, a}) \in {b, a}
  BY MinMaxType
<1>4. PICK c \in Int : c = Max({1, PromptLen(r) + s.gen[r]})
  BY <1>1, <1>2, <1>3
<1>5. BlocksNeeded(c) \in Int
  BY BlocksNeededType
<1> QED BY <1>4, <1>5 DEF SwapInBlocks

LEMMA SwapInPlanned ==
  ASSUME req \in [Reqs -> ReqRecs], NEW x, Planned(x), x.o.prefill = <<>>, x.o.decode = <<>>,
         NEW r, r \in x.s.swapped,
         NEW y \in SwapIn(x, r)
  PROVE  /\ Planned(y) /\ y.o.prefill = <<>> /\ y.o.decode = <<>>
         /\ x.s.swapped \ {r} \subseteq y.s.swapped
<1>m. PICK m : m = x.m
  OBVIOUS
<1>0. PICK s \in Scheds, o \in Outs : x = [s |-> s, m |-> m, o |-> o] /\ s = x.s /\ o = x.o /\ m = x.m
  BY <1>m DEF Planned, Sound
<1>1. CASE y = x
  BY <1>1
<1>2. ASSUME NEW a \in AllocateSeq(m, SwapInBlocks(s, r)),
             y = [s |-> [s EXCEPT !.swapped = @ \ {r}, !.running = @ \union {r}, !.sblk[r] = a.ids],
                  m |-> a.next,
                  o |-> [o EXCEPT !.swapin = @ \union {r}, !.alloc[r] = a.ids]]
      PROVE  /\ Planned(y) /\ y.o.prefill = <<>> /\ y.o.decode = <<>>
         /\ x.s.swapped \ {r} \subseteq y.s.swapped
  <2>0. Sound(m, Got(o), s) /\ Got(o) \in [Reqs -> ReqRecs]
    BY <1>0, GotType DEF Planned
  <2>1. r \in Reqs /\ r \in s.swapped
    BY <1>0 DEF Scheds
  <2>2. Fits(Got(o)[r], s, r)
    BY <2>0, <2>1 DEF Sound
  <2>3. r \notin s.waiting /\ s.shared[r] = <<>> /\ req[r].state # "pending"
    <3>1. Got(o)[r].state = req[r].state
      BY <2>1, GotType
    <3> QED BY <2>1, <2>2, <3>1 DEF Fits
  <2>4. o.alloc[r] = <<>> /\ o.hits[r] = <<>>
    BY <1>0, <2>1 DEF Planned
  <2>5. PICK n \in Int : n = SwapInBlocks(s, r)
    BY <2>1, SwapInBlocksType
  <2>6. PICK ids \in Seq(Blocks) : ids = a.ids
    <3>1. a \in AllocateSeq(m, n) /\ GoodBM(m)
      BY <1>2, <2>0, <2>5 DEF Sound
    <3> QED BY <3>1, AllocateSeqGood
  <2>7. PICK R \in SUBSET Reqs, W \in SUBSET Reqs, I \in SUBSET Reqs :
           R = s.running \union {r} /\ W = s.swapped \ {r} /\ I = o.swapin \union {r}
    BY <2>1 DEF Scheds, Outs
  <2>8. PICK f \in [Reqs -> Seq(Blocks)] : f = [s.sblk EXCEPT ![r] = ids]
    BY <2>1 DEF Scheds
  <2>9. PICK g \in [Reqs -> Seq(Blocks)] :
           g = [o.alloc EXCEPT ![r] = ids] /\ g[r] = ids /\ \A z \in Reqs \ {r} : g[z] = o.alloc[z]
    <3>1. [o.alloc EXCEPT ![r] = ids] \in [Reqs -> Seq(Blocks)]
      BY <2>1 DEF Outs
    <3>2. o.alloc \in [Reqs -> Seq(Blocks)]
      BY DEF Outs
    <3> QED BY <2>1, <3>1, <3>2
  <2>10. PICK s2 : s2 = [s EXCEPT !.swapped = W, !.running = R, !.sblk = f]
    OBVIOUS
  <2>11. PICK o2 : o2 = [o EXCEPT !.swapin = I, !.alloc = g]
    OBVIOUS
  <2>12. s2 = [waiting |-> s.waiting, running |-> R, swapped |-> W, rem |-> s.rem, shared |-> s.shared,
               ctx |-> s.ctx, gen |-> s.gen, sblk |-> f, arr |-> s.arr, clock |-> s.clock, streak |-> s.streak]
    BY <2>10 DEF Scheds
  <2>13. o2 = [prefill |-> o.prefill, decode |-> o.decode, preempted |-> o.preempted, swapin |-> I,
               alloc |-> g, hits |-> o.hits, chunk |-> o.chunk, total |-> o.total,
               bctx |-> o.bctx, blocked |-> o.blocked, unsched |-> o.unsched, diag |-> o.diag]
    BY <2>11 DEF Outs
  <2>14. s2 \in Scheds /\ o2 \in Outs
    BY <2>12, <2>13 DEF Scheds, Outs
  <2>15. y = [s |-> s2, m |-> a.next, o |-> o2]
    <3>1. [s EXCEPT !.swapped = @ \ {r}, !.running = @ \union {r}, !.sblk[r] = ids] = s2
      BY <2>7, <2>8, <2>10 DEF Scheds
    <3>2. [o EXCEPT !.swapin = @ \union {r}, !.alloc[r] = ids] = o2
      BY <2>7, <2>9, <2>11 DEF Outs
    <3> QED BY <1>2, <2>6, <3>1, <3>2
  <2>16. Gives(s, o, s2, o2, r, a.ids)
    BY <2>3, <2>4, <2>6, <2>7, <2>9, <2>12, <2>13 DEF Gives
  <2>17. Sound(a.next, Got(o2), s2)
    <3>1. a \in AllocateSeq(m, n) /\ r \notin s2.waiting
      BY <1>2, <2>3, <2>5, <2>12
    <3> QED BY <2>0, <2>1, <2>3, <2>4, <2>14, <2>16, <3>1, GiveSound
  <2>18. /\ y = [s |-> y.s, m |-> y.m, o |-> y.o] /\ y.s = s2 /\ y.m = a.next /\ y.o = o2
         /\ o2.prefill = o.prefill /\ o2.decode = o.decode /\ o2.alloc = g /\ o2.hits = o.hits
         /\ s2.shared = s.shared /\ s2.waiting = s.waiting /\ s2.swapped = W
    BY <2>12, <2>13, <2>15
  <2>19. ASSUME NEW z \in Reqs, g[z] # <<>> \/ o.hits[z] # <<>>
         PROVE  z \notin W /\ (z \in s.waiting => z \in BlocksOf(o.prefill))
    BY <1>0, <2>3, <2>7, <2>9, <2>19 DEF Planned
  <2>20. \A z \in BlocksOf(o.prefill) \union BlocksOf(o.decode) : s.shared[z] = <<>> /\ req[z].state # "pending"
    BY <1>0 DEF Planned
  <2>22. Tracks(s2, o2)
    <3>1. Tracks(s, o)
      BY <1>0 DEF Planned
    <3> QED BY <2>1, <2>7, <2>12, <2>13, <3>1 DEF Tracks
  <2>23. Budgeted(s2, o2)
    <3>1. Budgeted(s, o) /\ o.decode = <<>>
      BY <1>0 DEF Planned
    <3> QED BY <2>12, <2>13, <3>1, EmptySeqFacts DEF Budgeted
  <2>21. Planned(y)
    BY ONLY <2>14, <2>17, <2>18, <2>19, <2>20, <2>22, <2>23 DEF Planned
  <2> QED BY <1>0, <2>7, <2>18, <2>21
<1> QED BY <1>0, <1>1, <1>2, Zenon DEF SwapIn

(***************************************************************************)
(* All swapped sequences are considered, each once.                        *)
(***************************************************************************)
SwapInStep(i, X, c) == UNION {SwapIn(z, c.seq[i]) : z \in X}
SwappedSoFar(s, X, c) ==
  \A x \in X : /\ Planned(x) /\ x.o.prefill = <<>> /\ x.o.decode = <<>>
               /\ \A j \in DOMAIN c.seq \ s : c.seq[j] \in x.s.swapped
SwappingIn == INSTANCE Folding_proofs WITH Choose <- Max, Step <- SwapInStep, Good <- SwappedSoFar

LEMMA ScheduleSwappedPlanned ==
  ASSUME req \in [Reqs -> ReqRecs], NEW x, Planned(x), x.o.prefill = <<>>, x.o.decode = <<>>,
         NEW y \in ScheduleSwapped(x)
  PROVE  Planned(y) /\ y.o.prefill = <<>> /\ y.o.decode = <<>>
<1>0. x.s.swapped \in SUBSET Reqs
  BY DEF Planned, Sound, Scheds
<1>1. PICK b \in InOrder(x.s, x.s.swapped) : y \in Visit(SwapIn, x, b)
  BY Zenon DEF ScheduleSwapped
<1>2. b \in Seq(Reqs) /\ Distinct(b) /\ BlocksOf(b) = x.s.swapped
  BY <1>0, OrderType
<1>3. PICK c : c.seq = b
  <2>1. [seq |-> b].seq = b
    OBVIOUS
  <2> QED BY <2>1
<1>4. Visit(SwapIn, x, c.seq) = SwappingIn!Fold(DOMAIN c.seq, {x}, c)
  BY Zenon DEF Visit, FoldLeft, MapThenFoldSet, SwappingIn!Fold, SwappingIn!MapThenFoldSet, SwapInStep
<1>5. PICK n \in Nat : DOMAIN b = 1 .. n
  BY <1>2, LenProperties
<1>6. SwappedSoFar({}, {x}, c)
  BY <1>2, <1>3 DEF SwappedSoFar, BlocksOf
<1>7. SwappingIn!KeptByVisits(n, c)
  <2>1. ASSUME NEW i \in 1 .. n, NEW X, SwappedSoFar(1 .. (i - 1), X, c)
        PROVE  SwappedSoFar(1 .. i, SwapInStep(i, X, c), c)
    <3>0. \A j \in DOMAIN b : j \notin 1 .. i <=> j > i
      BY <1>5
    <3> SUFFICES ASSUME NEW z \in SwapInStep(i, X, c)
                 PROVE  /\ Planned(z) /\ z.o.prefill = <<>> /\ z.o.decode = <<>>
                        /\ \A j \in DOMAIN b : j > i => b[j] \in z.s.swapped
      BY <1>3, <3>0 DEF SwappedSoFar
    <3>1. PICK w \in X : z \in SwapIn(w, b[i])
      BY <1>3 DEF SwapInStep
    <3>2. Planned(w) /\ w.o.prefill = <<>> /\ w.o.decode = <<>> /\ \A j \in DOMAIN b : j > i - 1 => b[j] \in w.s.swapped
      BY <1>3, <1>5, <2>1 DEF SwappedSoFar
    <3>3. b[i] \in w.s.swapped
      BY <1>5, <3>2
    <3>4. Planned(z) /\ z.o.prefill = <<>> /\ z.o.decode = <<>> /\ w.s.swapped \ {b[i]} \subseteq z.s.swapped
      BY <3>1, <3>2, <3>3, SwapInPlanned
    <3>5. ASSUME NEW j \in DOMAIN b, j > i PROVE b[j] \in z.s.swapped
      <4>1. b[j] # b[i]
        BY <1>2, <1>5, <3>5 DEF Distinct
      <4>2. b[j] \in w.s.swapped
        BY <1>5, <3>2, <3>5
      <4> QED BY <3>4, <4>1, <4>2
    <3> QED BY <3>4, <3>5
  <2> QED BY <2>1 DEF SwappingIn!KeptByVisits
<1>8. SwappingIn!FromFirst(n)
  BY DEF SwappingIn!FromFirst, SwappingIn!Latest, Max
<1>9. SwappedSoFar(1 .. n, SwappingIn!Fold(1 .. n, {x}, c), c)
  BY ONLY n \in Nat, <1>6, <1>7, <1>8, SwappingIn!VisitInvariant
<1> QED BY <1>1, <1>3, <1>4, <1>5, <1>9 DEF SwappedSoFar

(***************************************************************************)
(* The budget of a prefill chunk, and the blocks it needs, are integers.   *)
(***************************************************************************)
LEMMA PrefillTokensType ==
  ASSUME NEW s \in Scheds, NEW o \in Outs, NEW r \in Reqs, NEW cap \in Int
  PROVE  PrefillTokens(s, o, r, cap) \in Int
<1>0. /\ Config.max_num_batched_tokens \in Int /\ Config.max_prefill_tokens \in Int
      /\ Config.max_parallel_prefill_chunk_tokens \in Int /\ s.rem[r] \in Int
  BY ConfigAssumption DEF Scheds
<1> DEFINE left == Config.max_num_batched_tokens - o.total
           capped == IF cap >= 0 THEN Min({left, cap}) ELSE left
           chunk == Min({capped, Config.max_prefill_tokens})
<1>1. left \in Int
  BY <1>0 DEF Outs
<1> HIDE DEF left
<1>2. capped \in Int
  BY <1>1, MinMaxType
<1> HIDE DEF capped
<1>3. chunk \in Int
  BY <1>0, <1>2, MinMaxType
<1> HIDE DEF chunk
<1>4. Min({chunk, Config.max_parallel_prefill_chunk_tokens}) \in Int
  BY <1>0, <1>3, MinMaxType
<1>5. PrefillBudget(s, o, r, cap) \in {capped, chunk, Min({chunk, Config.max_parallel_prefill_chunk_tokens})}
  BY Zenon DEF PrefillBudget, left, capped, chunk
<1>6. PICK b \in Int : b = PrefillBudget(s, o, r, cap)
  BY <1>2, <1>3, <1>4, <1>5
<1>7. PICK e \in Int : e = s.rem[r]
  BY <1>0
<1>8. Min({e, b}) \in Int
  BY MinMaxType
<1>9. PrefillTokens(s, o, r, cap) \in {0, e, Min({e, b})}
  BY <1>6, <1>7, Zenon DEF PrefillTokens
<1> QED BY <1>8, <1>9

(***************************************************************************)
(* The numbers the budget is made of.                                      *)
(***************************************************************************)
LEMMA BudgetTypes ==
  ASSUME NEW o \in Outs
  PROVE  /\ Config.max_num_seqs \in Int /\ Config.max_num_batched_tokens \in Int
         /\ Len(o.prefill) \in Int /\ Len(o.prefill) >= 0 /\ Len(o.decode) \in Int /\ Len(o.decode) >= 0
         /\ o.total \in Int
<1>1. o.prefill \in Seq(Reqs) /\ o.decode \in Seq(Reqs) /\ o.total \in Int
  BY DEF Outs
<1>2. Len(o.prefill) \in Nat /\ Len(o.decode) \in Nat
  BY ONLY <1>1, LenProperties
<1>3. Config.max_num_seqs \in Int /\ Config.max_num_batched_tokens \in Int
  BY ConfigAssumption
<1> QED BY <1>1, <1>2, <1>3

(***************************************************************************)
(* A chunk takes no more than what the batch has left.                     *)
(***************************************************************************)
LEMMA PrefillTokensBound ==
  ASSUME NEW s \in Scheds, NEW o \in Outs, NEW r \in Reqs, NEW cap \in Int,
         NEW k \in Int, k = PrefillTokens(s, o, r, cap), k > 0
  PROVE  k <= Config.max_num_batched_tokens - o.total
<1>0. /\ Config.max_num_batched_tokens \in Int /\ Config.max_prefill_tokens \in Int
      /\ Config.max_parallel_prefill_chunk_tokens \in Int /\ s.rem[r] \in Int
  BY ConfigAssumption DEF Scheds
<1> DEFINE left == Config.max_num_batched_tokens - o.total
           capped == IF cap >= 0 THEN Min({left, cap}) ELSE left
           chunk == Min({capped, Config.max_prefill_tokens})
<1>1. left \in Int
  BY <1>0 DEF Outs
<1> HIDE DEF left
<1>2. capped \in Int /\ capped <= left
  BY <1>1, MinMaxType
<1> HIDE DEF capped
<1>3. chunk \in Int /\ chunk <= capped
  BY <1>0, <1>2, MinMaxType
<1> HIDE DEF chunk
<1>p. PICK par \in Int : par = Config.max_parallel_prefill_chunk_tokens
  BY <1>0
<1>4. PICK c \in Int : c = Min({chunk, Config.max_parallel_prefill_chunk_tokens}) /\ c <= chunk
  <2>1. PICK h \in Int : h = chunk
    BY <1>3
  <2>2. Min({h, par}) \in {h, par} /\ Min({h, par}) <= h
    BY ONLY h \in Int, par \in Int, MinMaxType
  <2> QED BY <1>p, <2>1, <2>2
<1>5. PrefillBudget(s, o, r, cap) \in {capped, chunk, c}
  BY <1>4, Zenon DEF PrefillBudget, left, capped, chunk
<1>6. PICK b \in Int : b = PrefillBudget(s, o, r, cap) /\ b <= left
  BY <1>1, <1>2, <1>3, <1>4, <1>5
<1>7. PICK e \in Int : e = s.rem[r]
  BY <1>0
<1>8. PICK d \in Int : d = Min({e, b}) /\ d <= b
  BY MinMaxType
<1>9. k = 0 \/ (~(e > b) /\ k = e) \/ k = d
  BY <1>6, <1>7, <1>8, Zenon DEF PrefillTokens
<1>10. k <= left
  BY <1>1, <1>6, <1>8, <1>9
<1> QED BY <1>10 DEF left

(***************************************************************************)
(* A new member at the end leaves a sequence without repetitions.          *)
(***************************************************************************)
LEMMA DistinctAppend ==
  ASSUME NEW S, NEW q \in Seq(S), Distinct(q), NEW r \in S, r \notin BlocksOf(q), NEW p, p = Append(q, r)
  PROVE  Distinct(p) /\ Len(p) = Len(q) + 1
<1>1. Len(q) \in Nat /\ DOMAIN q = 1 .. Len(q)
  BY LenProperties
<1>2. /\ Len(p) = Len(q) + 1 /\ DOMAIN p = 1 .. Len(q) + 1 /\ p[Len(q) + 1] = r
      /\ \A i \in 1 .. Len(q) : p[i] = q[i]
  BY <1>1
<1>3. \A i \in 1 .. Len(q) : q[i] # r
  BY <1>1 DEF BlocksOf
<1>4. ASSUME NEW i \in DOMAIN p, NEW j \in DOMAIN p, p[i] = p[j] PROVE i = j
  <2>1. (i \in 1 .. Len(q) \/ i = Len(q) + 1) /\ (j \in 1 .. Len(q) \/ j = Len(q) + 1)
    BY <1>1, <1>2
  <2> QED BY <1>1, <1>2, <1>3, <1>4, <2>1 DEF Distinct
<1> QED BY <1>2, <1>4 DEF Distinct

LEMMA BlocksToAllocateType ==
  ASSUME NEW s \in Scheds, NEW o \in Outs, NEW r \in Reqs, NEW cap \in Int
  PROVE  AdoptShared(s, r) \in Scheds /\ BlocksToAllocate(s, o, r, cap) \in Int
<1>0. s.shared[r] \in Seq(Blocks) /\ s.sblk \in [Reqs -> Seq(Blocks)]
  BY DEF Scheds
<1>1. AdoptShared(s, r) \in Scheds
  <2>1. PICK f \in [Reqs -> Seq(Blocks)] : f = [s.sblk EXCEPT ![r] = s.shared[r]]
    BY <1>0
  <2>2. [s EXCEPT !.sblk[r] = s.shared[r]] = [s EXCEPT !.sblk = f]
    BY <2>1 DEF Scheds
  <2>3. [s EXCEPT !.sblk = f] \in Scheds
    BY DEF Scheds
  <2> QED BY <2>2, <2>3 DEF AdoptShared
<1>2. PICK k \in Int : k = PrefillTokens(s, o, r, cap)
  BY PrefillTokensType
<1>3. PICK a \in Int : a = s.ctx[r] + k
  BY DEF Scheds
<1>4. PICK l \in Int : l = Len(AdoptShared(s, r).sblk[r])
  <2>1. AdoptShared(s, r).sblk[r] \in Seq(Blocks)
    BY <1>1 DEF Scheds
  <2> QED BY <2>1, LenProperties
<1>5. PICK d \in Int : d = BlocksNeeded(a) - l
  BY BlocksNeededType
<1>6. PICK z \in Int : z = 0
  OBVIOUS
<1>7. Max({z, d}) \in {z, d}
  BY MinMaxType
<1>8. BlocksToAllocate(s, o, r, cap) = Max({z, d})
  BY <1>2, <1>3, <1>4, <1>5, <1>6 DEF BlocksToAllocate
<1> QED BY <1>1, <1>7, <1>8

(***************************************************************************)
(* A stage that gives nothing to anybody, and decodes running sequences    *)
(* at most, leaves a plan.                                                 *)
(***************************************************************************)
LEMMA PlannedSame ==
  ASSUME req \in [Reqs -> ReqRecs], NEW x, Planned(x), NEW s2 \in Scheds, NEW o2 \in Outs,
         s2.waiting = x.s.waiting, s2.running = x.s.running, s2.swapped = x.s.swapped,
         s2.shared = x.s.shared, s2.rem = x.s.rem, s2.ctx = x.s.ctx, s2.gen = x.s.gen,
         o2.prefill = x.o.prefill, o2.alloc = x.o.alloc, o2.hits = x.o.hits, o2.chunk = x.o.chunk,
         Budgeted(s2, o2),
         NEW y, y = [s |-> s2, m |-> x.m, o |-> o2]
  PROVE  Planned(y) /\ y.s = s2 /\ y.m = x.m /\ y.o = o2
<1>1. y = [s |-> y.s, m |-> y.m, o |-> y.o] /\ y.s = s2 /\ y.m = x.m /\ y.o = o2
  OBVIOUS
<1>2. Got(o2) = Got(x.o)
  <2>1. o2.alloc = x.o.alloc /\ o2.hits = x.o.hits
    OBVIOUS
  <2> QED BY ONLY <2>1, Zenon DEF Got, Received
<1>3. Sound(x.m, Got(x.o), x.s) /\ x.o \in Outs
  BY DEF Planned
<1>4. Sound(x.m, Got(x.o), s2)
  <2>1. Reserved(s2) = Reserved(x.s)
    BY DEF Reserved
  <2>2. ASSUME NEW r \in Reqs PROVE Fits(Got(x.o)[r], s2, r)
    <3>1. Fits(Got(x.o)[r], x.s, r)
      BY <1>3 DEF Sound
    <3> QED BY <3>1 DEF Fits
  <2> QED BY <1>3, <2>1, <2>2 DEF Sound
<1>5. ASSUME NEW r \in BlocksOf(o2.prefill) \union BlocksOf(o2.decode)
      PROVE  s2.shared[r] = <<>> /\ req[r].state # "pending"
  <2>1. CASE r \in BlocksOf(x.o.prefill) \union BlocksOf(x.o.decode)
    BY <2>1 DEF Planned
  <2>2. CASE r \in x.s.running
    <3>1. r \in Reqs
      BY <1>3, <2>2 DEF Sound, Scheds
    <3>2. Fits(Got(x.o)[r], x.s, r)
      BY <1>3, <3>1 DEF Sound
    <3>3. Got(x.o)[r].state = req[r].state
      BY <1>3, <3>1, GotType
    <3> QED BY <2>2, <3>2, <3>3 DEF Fits
  <2>3. BlocksOf(o2.decode) \subseteq x.s.running
    BY DEF Budgeted
  <2> QED BY <1>5, <2>1, <2>2, <2>3
<1>6. Tracks(s2, o2)
  <2>1. Tracks(x.s, x.o)
    BY DEF Planned
  <2> QED BY <2>1 DEF Tracks
<1> QED BY <1>1, <1>2, <1>4, <1>5, <1>6 DEF Planned

(***************************************************************************)
(* What is given to nobody is within the budget as before.                 *)
(***************************************************************************)
LEMMA BudgetSame ==
  ASSUME NEW s, NEW o, Budgeted(s, o), NEW s2, NEW o2, s2.waiting = s.waiting, s2.running = s.running,
         o2.prefill = o.prefill, o2.decode = o.decode, o2.chunk = o.chunk, o2.total = o.total
  PROVE  Budgeted(s2, o2)
  BY DEF Budgeted

(***************************************************************************)
(* A waiting group is turned away or scheduled.                            *)
(***************************************************************************)
LEMMA AdoptSharedType ==
  ASSUME NEW s \in Scheds, NEW r \in Reqs, NEW t, t = AdoptShared(s, r)
  PROVE  /\ t \in Scheds /\ t.waiting = s.waiting /\ t.running = s.running /\ t.swapped = s.swapped
         /\ t.shared = s.shared /\ t.gen = s.gen /\ t.rem = s.rem /\ t.ctx = s.ctx
<1>1. s.shared[r] \in Seq(Blocks) /\ s.sblk \in [Reqs -> Seq(Blocks)]
  BY DEF Scheds
<1>2. PICK f \in [Reqs -> Seq(Blocks)] : f = [s.sblk EXCEPT ![r] = s.shared[r]]
  BY <1>1
<1>3. CASE t = s
  BY <1>3
<1>4. CASE t = [s EXCEPT !.sblk[r] = s.shared[r]]
  <2>1. t = [s EXCEPT !.sblk = f]
    BY <1>2, <1>4 DEF Scheds
  <2>2. t = [waiting |-> s.waiting, running |-> s.running, swapped |-> s.swapped, rem |-> s.rem,
             shared |-> s.shared, ctx |-> s.ctx, gen |-> s.gen, sblk |-> f, arr |-> s.arr,
             clock |-> s.clock, streak |-> s.streak]
    BY <2>1 DEF Scheds
  <2> QED BY <2>2 DEF Scheds
<1> QED BY <1>3, <1>4 DEF AdoptShared

LEMMA TurnedAwayPlanned ==
  ASSUME req \in [Reqs -> ReqRecs], NEW x, Planned(x), NEW r \in Reqs, NEW t \in {x.s, AdoptShared(x.s, r)},
         NEW y \in {Blocked([x EXCEPT !.s = t], r), Unschedulable([x EXCEPT !.s = t], r)}
  PROVE  /\ Planned(y) /\ y.s.waiting = x.s.waiting /\ y.o.prefill = x.o.prefill
         /\ y.o.decode = x.o.decode
<1>m. PICK m : m = x.m
  OBVIOUS
<1>0. PICK s \in Scheds, o \in Outs : x = [s |-> s, m |-> m, o |-> o] /\ s = x.s /\ o = x.o /\ m = x.m
  BY <1>m DEF Planned, Sound
<1>1. /\ t \in Scheds /\ t.waiting = s.waiting /\ t.running = s.running /\ t.swapped = s.swapped
      /\ t.shared = s.shared /\ t.gen = s.gen /\ t.rem = s.rem /\ t.ctx = s.ctx
  BY <1>0, AdoptSharedType
<1>2. PICK w : w = [x EXCEPT !.s = t]
  OBVIOUS
<1>3. w = [s |-> t, m |-> m, o |-> o]
  BY <1>0, <1>2
<1>5. PICK o2 \in Outs : /\ y = [s |-> t, m |-> m, o |-> o2]
                         /\ o2.prefill = o.prefill /\ o2.decode = o.decode
                         /\ o2.alloc = o.alloc /\ o2.hits = o.hits
                         /\ o2.chunk = o.chunk /\ o2.total = o.total
  <2>1. CASE y = w
    BY <1>3, <2>1
  <2>2. CASE y = [w EXCEPT !.o.blocked = TRUE, !.o.diag = r]
    <3>1. PICK p : p = [o EXCEPT !.blocked = TRUE, !.diag = r]
      OBVIOUS
    <3>2. p = [prefill |-> o.prefill, decode |-> o.decode, preempted |-> o.preempted, swapin |-> o.swapin,
               alloc |-> o.alloc, hits |-> o.hits, chunk |-> o.chunk, total |-> o.total,
               bctx |-> o.bctx, blocked |-> TRUE, unsched |-> o.unsched, diag |-> r]
      BY <3>1 DEF Outs
    <3>3. p \in Outs
      BY <3>2 DEF Outs
    <3>4. y = [s |-> t, m |-> m, o |-> p]
      BY <1>3, <2>2, <3>1
    <3> QED BY <3>2, <3>3, <3>4
  <2>3. CASE y = [w EXCEPT !.o.unsched = TRUE, !.o.diag = r]
    <3>1. PICK p : p = [o EXCEPT !.unsched = TRUE, !.diag = r]
      OBVIOUS
    <3>2. p = [prefill |-> o.prefill, decode |-> o.decode, preempted |-> o.preempted, swapin |-> o.swapin,
               alloc |-> o.alloc, hits |-> o.hits, chunk |-> o.chunk, total |-> o.total,
               bctx |-> o.bctx, blocked |-> o.blocked, unsched |-> TRUE, diag |-> r]
      BY <3>1 DEF Outs
    <3>3. p \in Outs
      BY <3>2 DEF Outs
    <3>4. y = [s |-> t, m |-> m, o |-> p]
      BY <1>3, <2>3, <3>1
    <3> QED BY <3>2, <3>3, <3>4
  <2> QED BY <1>2, <2>1, <2>2, <2>3, Zenon DEF Blocked, Unschedulable
<1>6. Planned(y) /\ y.s = t /\ y.m = m /\ y.o = o2
  <2>1. Budgeted(s, o)
    BY <1>0 DEF Planned
  <2>2. Budgeted(t, o2)
    BY ONLY <1>1, <1>5, <2>1, BudgetSame
  <2> QED BY <1>0, <1>1, <1>5, <2>2, PlannedSame
<1> QED BY <1>0, <1>1, <1>5, <1>6

Admits(x, r, cap, n, a, y) == a \in AllocateSeq(x.m, n) /\ y = Prefill(x, r, cap, a.ids, a.next)

\* y continues the plan x: at most r has joined the prefills.
Continues(x, y, r) ==
  /\ Planned(y) /\ y.s.waiting = x.s.waiting /\ y.o.decode = x.o.decode
  /\ BlocksOf(y.o.prefill) \subseteq BlocksOf(x.o.prefill) \union {r}

LEMMA PrefillPlanned ==
  ASSUME req \in [Reqs -> ReqRecs], NEW x, Planned(x), NEW r \in Reqs, r \in x.s.waiting,
         r \notin BlocksOf(x.o.prefill), NEW cap \in Int, NEW n \in Int, NEW a, NEW y,
         Admits(x, r, cap, n, a, y), ~TurnedAway(x.s, x.o, r, cap)
  PROVE  Continues(x, y, r)
<1>a. a \in AllocateSeq(x.m, n) /\ y = Prefill(x, r, cap, a.ids, a.next)
  BY DEF Admits
<1>m. PICK m : m = x.m
  OBVIOUS
<1>0. PICK s \in Scheds, o \in Outs : x = [s |-> s, m |-> m, o |-> o] /\ s = x.s /\ o = x.o /\ m = x.m
  BY <1>m DEF Planned, Sound
<1>1. Sound(m, Got(o), s) /\ Got(o) \in [Reqs -> ReqRecs] /\ r \in s.waiting
  BY <1>0, GotType DEF Planned
<1>2. /\ r \notin s.running /\ r \notin s.swapped /\ req[r].prefill = TRUE /\ req[r].state # "pending"
  <2>1. Fits(Got(o)[r], s, r)
    BY <1>1 DEF Sound
  <2>2. Got(o)[r].state = req[r].state /\ Got(o)[r].prefill = req[r].prefill
    BY GotType
  <2> QED BY <1>1, <2>1, <2>2 DEF Fits
<1>3. o.alloc[r] = <<>> /\ o.hits[r] = <<>>
  BY <1>0 DEF Planned
<1>4. PICK ids \in Seq(Blocks) : ids = a.ids
  <2>1. GoodBM(m) /\ a \in AllocateSeq(m, n)
    BY <1>0, <1>1, <1>a DEF Sound
  <2> QED BY <2>1, AllocateSeqGood
<1>5. PICK t \in Scheds : /\ t = AdoptShared(s, r) /\ t.waiting = s.waiting /\ t.running = s.running
                          /\ t.swapped = s.swapped /\ t.shared = s.shared /\ t.gen = s.gen
                          /\ t.rem = s.rem /\ t.ctx = s.ctx
  BY AdoptSharedType
<1>6. PICK k \in Int : k = PrefillTokens(s, o, r, cap)
  BY PrefillTokensType
<1>7. PICK f \in [Reqs -> Seq(Blocks)] : f = [t.sblk EXCEPT ![r] = @ \o ids]
  <2>1. t.sblk \in [Reqs -> Seq(Blocks)]
    BY DEF Scheds
  <2>2. PICK u \in Seq(Blocks) : u = t.sblk[r] \o ids
    BY <2>1, ConcatProperties
  <2>3. [t.sblk EXCEPT ![r] = u] \in [Reqs -> Seq(Blocks)]
    BY <2>1
  <2>4. [t.sblk EXCEPT ![r] = u] = [t.sblk EXCEPT ![r] = @ \o ids]
    BY <2>2
  <2> QED BY <2>3, <2>4
<1>8. PICK h \in [Reqs -> Seq(Blocks)] :
         h = [t.shared EXCEPT ![r] = <<>>] /\ h[r] = <<>> /\ \A z \in Reqs \ {r} : h[z] = s.shared[z]
  <2>1. t.shared \in [Reqs -> Seq(Blocks)] /\ <<>> \in Seq(Blocks)
    BY EmptySeqFacts DEF Scheds
  <2>2. PICK e \in Seq(Blocks) : e = <<>>
    BY <2>1
  <2>3. /\ [t.shared EXCEPT ![r] = e] \in [Reqs -> Seq(Blocks)] /\ [t.shared EXCEPT ![r] = e][r] = e
        /\ \A z \in Reqs \ {r} : [t.shared EXCEPT ![r] = e][z] = t.shared[z]
    BY <2>1
  <2> QED BY <1>5, <2>2, <2>3
<1>9. PICK g \in [Reqs -> Int] : /\ g = [t.gen EXCEPT ![r] = 0]
                                /\ g[r] = 0 /\ \A z \in Reqs \ {r} : g[z] = s.gen[z]
  <2>1. PICK e \in Int : e = 0
    OBVIOUS
  <2>2. /\ [t.gen EXCEPT ![r] = e] \in [Reqs -> Int] /\ [t.gen EXCEPT ![r] = e][r] = e
        /\ \A z \in Reqs \ {r} : [t.gen EXCEPT ![r] = e][z] = t.gen[z]
    BY DEF Scheds
  <2> QED BY <1>5, <2>1, <2>2
<1>10. PICK s2 : s2 = [t EXCEPT !.sblk = f, !.shared = h, !.gen = g]
  OBVIOUS
<1>11. s2 = [waiting |-> t.waiting, running |-> t.running, swapped |-> t.swapped, rem |-> t.rem,
             shared |-> h, ctx |-> t.ctx, gen |-> g, sblk |-> f, arr |-> t.arr, clock |-> t.clock,
             streak |-> t.streak]
  BY <1>10 DEF Scheds
<1>12. s2 \in Scheds
  BY <1>11 DEF Scheds
<1>13. [t EXCEPT !.sblk[r] = @ \o ids, !.shared[r] = <<>>, !.gen[r] = 0] = s2
  BY <1>7, <1>8, <1>9, <1>10 DEF Scheds
<1>14. PICK p \in Seq(Reqs) : p = Append(o.prefill, r) /\ BlocksOf(p) = BlocksOf(o.prefill) \union {r}
  <2>0. o.prefill \in Seq(Reqs)
    BY DEF Outs
  <2>1. PICK d \in Seq(Reqs) : d = <<r>> /\ BlocksOf(d) = {r}
    BY SingletonSeq
  <2>2. o.prefill \o d \in Seq(Reqs) /\ BlocksOf(o.prefill \o d) = BlocksOf(o.prefill) \union BlocksOf(d)
    BY <2>0, BlocksOfConcat
  <2>3. Append(o.prefill, r) = o.prefill \o d
    BY ONLY r \in Reqs, <2>0, <2>1, AppendIsConcat
  <2> QED BY <2>1, <2>2, <2>3
<1>15. PICK c \in [Reqs -> Int], tot \in Int, bx \in Int :
         /\ c = [o.chunk EXCEPT ![r] = k] /\ c[r] = k /\ \A z \in Reqs \ {r} : c[z] = o.chunk[z]
         /\ tot = o.total + k
         /\ bx = IF o.bctx < 0 THEN s.ctx[r] ELSE o.bctx
  <2>0. o.chunk \in [Reqs -> Int] /\ o.total \in Int
    BY DEF Outs
  <2>1. /\ [o.chunk EXCEPT ![r] = k] \in [Reqs -> Int] /\ o.total + k \in Int
        /\ [o.chunk EXCEPT ![r] = k][r] = k
        /\ \A z \in Reqs \ {r} : [o.chunk EXCEPT ![r] = k][z] = o.chunk[z]
    BY ONLY r \in Reqs, k \in Int, <2>0
  <2>2. (IF o.bctx < 0 THEN s.ctx[r] ELSE o.bctx) \in Int
    BY DEF Outs, Scheds
  <2> QED BY <2>1, <2>2
<1>16. PICK al \in [Reqs -> Seq(Blocks)] :
         al = [o.alloc EXCEPT ![r] = ids] /\ al[r] = ids /\ \A z \in Reqs \ {r} : al[z] = o.alloc[z]
  <2>1. o.alloc \in [Reqs -> Seq(Blocks)]
    BY DEF Outs
  <2>2. [o.alloc EXCEPT ![r] = ids] \in [Reqs -> Seq(Blocks)]
    BY <2>1
  <2> QED BY <2>1, <2>2
<1>17. PICK sh \in Seq(Blocks) : sh = s.shared[r]
  BY DEF Scheds
<1>18. PICK hi \in [Reqs -> Seq(Blocks)] :
         hi = [o.hits EXCEPT ![r] = sh] /\ hi[r] = sh /\ \A z \in Reqs \ {r} : hi[z] = o.hits[z]
  <2>1. o.hits \in [Reqs -> Seq(Blocks)]
    BY DEF Outs
  <2>2. [o.hits EXCEPT ![r] = sh] \in [Reqs -> Seq(Blocks)]
    BY <2>1
  <2> QED BY <2>1, <2>2
<1>19. PICK o2 : o2 = [o EXCEPT !.prefill = p, !.chunk = c, !.total = tot, !.bctx = bx, !.alloc = al, !.hits = hi]
  OBVIOUS
<1>20. o2 = [prefill |-> p, decode |-> o.decode, preempted |-> o.preempted, swapin |-> o.swapin,
             alloc |-> al, hits |-> hi, chunk |-> c, total |-> tot,
             bctx |-> bx, blocked |-> o.blocked, unsched |-> o.unsched, diag |-> o.diag]
  BY <1>19 DEF Outs
<1>21. o2 \in Outs
  BY <1>20 DEF Outs
<1>22. [o EXCEPT !.prefill = Append(@, r), !.chunk[r] = k, !.total = @ + k,
                 !.bctx = IF @ < 0 THEN s.ctx[r] ELSE @, !.alloc[r] = ids, !.hits[r] = sh] = o2
  <2>1. [o EXCEPT !.prefill = p, !.chunk[r] = k, !.total = tot, !.bctx = bx, !.alloc[r] = ids,
                  !.hits[r] = sh] = o2
    BY <1>15, <1>16, <1>18, <1>19 DEF Outs
  <2> QED BY <1>14, <1>15, <2>1, Zenon
<1>23. y = [s |-> s2, m |-> a.next, o |-> o2]
  <2>1. y = [s |-> [t EXCEPT !.sblk[r] = @ \o ids, !.shared[r] = <<>>, !.gen[r] = 0],
             m |-> a.next,
             o |-> [o EXCEPT !.prefill = Append(@, r), !.chunk[r] = k, !.total = @ + k,
                             !.bctx = IF @ < 0 THEN s.ctx[r] ELSE @, !.alloc[r] = ids, !.hits[r] = sh]]
    BY <1>0, <1>4, <1>5, <1>6, <1>17, <1>a, Zenon DEF Prefill
  <2> QED BY <1>13, <1>22, <2>1, Zenon
<1>24. Gives(s, o, s2, o2, r, a.ids)
  BY <1>4, <1>5, <1>8, <1>11, <1>16, <1>17, <1>18, <1>20 DEF Gives
<1>25. Sound(a.next, Got(o2), s2)
  <2>1. a \in AllocateSeq(m, n) /\ s2.running = s.running /\ s2.swapped = s.swapped
    BY <1>0, <1>5, <1>11, <1>a
  <2> QED BY <1>1, <1>2, <1>3, <1>12, <1>21, <1>24, <2>1, GiveSound
<1>26. /\ y = [s |-> y.s, m |-> y.m, o |-> y.o] /\ y.s = s2 /\ y.m = a.next /\ y.o = o2
       /\ o2.prefill = p /\ o2.decode = o.decode /\ o2.alloc = al /\ o2.hits = hi
       /\ s2.shared = h /\ s2.waiting = s.waiting /\ s2.swapped = s.swapped
  BY <1>5, <1>11, <1>20, <1>23
<1>27. ASSUME NEW z \in Reqs, al[z] # <<>> \/ hi[z] # <<>>
       PROVE  z \notin s.swapped /\ (z \in s.waiting => z \in BlocksOf(p))
  BY <1>0, <1>2, <1>14, <1>16, <1>18, <1>27 DEF Planned
<1>28. ASSUME NEW z \in BlocksOf(p) \union BlocksOf(o.decode) PROVE h[z] = <<>> /\ req[z].state # "pending"
  <2>0. z \in Reqs
    <3>1. BlocksOf(p) \subseteq Reqs /\ BlocksOf(o.decode) \subseteq Reqs
      BY BlocksOfSeq DEF Outs
    <3> QED BY <1>28, <3>1
  <2>1. CASE z = r
    BY <1>2, <1>8, <2>1
  <2>2. CASE z # r
    BY <1>0, <1>8, <1>14, <1>28, <2>0, <2>2 DEF Planned
  <2> QED BY <2>1, <2>2
<1>30. /\ k > 0 /\ k <= Config.max_num_batched_tokens - o.total
       /\ Len(o.prefill) + Len(o.decode) < Config.max_num_seqs
  <2>1. ~BatchFull(o) /\ ~(PrefillTokens(s, o, r, cap) <= 0)
    BY <1>0, Zenon DEF TurnedAway
  <2>2. Len(o.prefill) \in Int /\ Len(o.decode) \in Int /\ Config.max_num_seqs \in Int
    BY BudgetTypes
  <2>3. ~(Len(o.prefill) + Len(o.decode) >= Config.max_num_seqs)
    BY <2>1, Zenon DEF BatchFull
  <2>4. k > 0
    BY <1>6, <2>1
  <2>5. k <= Config.max_num_batched_tokens - o.total
    BY <1>6, <2>4, PrefillTokensBound
  <2>6. PICK lp \in Int, ld \in Int, e \in Int :
           lp = Len(o.prefill) /\ ld = Len(o.decode) /\ e = Config.max_num_seqs
    BY <2>2
  <2>7. ~(lp + ld >= e)
    BY <2>3, <2>6
  <2>8. lp + ld < e
    BY ONLY lp \in Int, ld \in Int, e \in Int, <2>7
  <2> QED BY <2>4, <2>5, <2>6, <2>8
<1>31. Tracks(s2, o2)
  <2>1. Tracks(s, o)
    BY <1>0 DEF Planned
  <2>2. /\ s2.waiting = s.waiting /\ s2.running = s.running /\ s2.swapped = s.swapped
        /\ s2.rem = s.rem /\ s2.ctx = s.ctx /\ s2.gen = g /\ s2.shared = h
        /\ o2.hits = hi /\ o2.chunk = c
    BY <1>5, <1>11, <1>20
  <2>3. ASSUME NEW z \in Reqs
        PROVE  /\ g[z] = sch.gen[z] \/ (z \in sch.waiting /\ g[z] = 0)
               /\ \/ h[z] = sch.shared[z] /\ hi[z] = <<>>
                  \/ h[z] = <<>> /\ hi[z] = sch.shared[z]
               /\ c[z] >= 0
    <3>1. CASE z = r
      <4>1. s.shared[r] = sch.shared[r]
        BY <1>3, <2>1 DEF Tracks
      <4>2. r \in sch.waiting
        BY <1>1, <2>1 DEF Tracks
      <4> QED BY <1>8, <1>9, <1>15, <1>17, <1>18, <1>30, <3>1, <4>1, <4>2
    <3>2. CASE z # r
      BY <1>8, <1>9, <1>15, <1>18, <2>1, <3>2 DEF Tracks
    <3> QED BY <3>1, <3>2
  <2> QED BY <2>1, <2>2, <2>3 DEF Tracks
<1>32. Budgeted(s2, o2)
  <2>1. Budgeted(s, o)
    BY <1>0 DEF Planned
  <2>2. /\ s2.waiting = s.waiting /\ s2.running = s.running
        /\ o2.prefill = p /\ o2.decode = o.decode /\ o2.chunk = c /\ o2.total = tot
    BY <1>5, <1>11, <1>20
  <2>3. Distinct(p) /\ Len(p) = Len(o.prefill) + 1
    <3>1. o.prefill \in Seq(Reqs)
      BY DEF Outs
    <3> QED BY ONLY r \in Reqs, r \notin BlocksOf(x.o.prefill), <1>0, <1>14, <2>1, <3>1, DistinctAppend DEF Budgeted
  <2>4. PICK S \in SUBSET Reqs : S = BlocksOf(o.prefill) /\ r \notin S
    <3>1. o.prefill \in Seq(Reqs)
      BY DEF Outs
    <3> QED BY <1>0, <3>1, BlocksOfSeq
  <2>5. IsFiniteSet(Slots(c, S \union {r})) /\ Load(c, S \union {r}) = Load(o.chunk, S) + k
    <3>1. o.chunk \in [Reqs -> Int] /\ IsFiniteSet(Slots(o.chunk, S)) /\ \A z \in S : c[z] = o.chunk[z]
      BY <1>15, <2>1, <2>4 DEF Outs, Budgeted
    <3>2. PICK oc \in [Reqs -> Int] : oc = o.chunk
      BY <3>1
    <3>3. k >= 0 /\ c[r] = k /\ r \notin S
      BY <1>15, <1>30, <2>4
    <3>4. IsFiniteSet(Slots(oc, S)) /\ \A z \in S : c[z] = oc[z]
      BY <3>1, <3>2
    <3>5. PICK T : T = S \union {r}
      OBVIOUS
    <3>6. Adds(oc, S, c, T, r, k)
      BY <3>3, <3>4, <3>5 DEF Adds
    <3>7. IsFiniteSet(Slots(c, T)) /\ Load(c, T) = Load(oc, S) + k
      <4>1. IsFiniteSet(Slots(oc, S))
        BY <3>4
      <4>2. Grows(oc, S, c, T, k)
        BY ONLY r \in Reqs, k \in Int, c \in [Reqs -> Int], oc \in [Reqs -> Int], S \in SUBSET Reqs,
                <4>1, <3>6, LoadAdd
      <4> QED BY <4>2 DEF Grows
    <3> QED BY <3>2, <3>5, <3>7
  <2>6. /\ Len(p) + Len(o.decode) <= Config.max_num_seqs
        /\ tot <= Config.max_num_batched_tokens
        /\ Load(o.chunk, S) + Len(o.decode) <= o.total
    <3>1. PICK lp \in Int, ld \in Int, e \in Int, l \in Int, u \in Int :
            /\ lp = Len(o.prefill) /\ ld = Len(o.decode) /\ e = Config.max_num_seqs
            /\ l = Config.max_num_batched_tokens /\ u = o.total
      BY BudgetTypes
    <3>2. Len(p) = lp + 1 /\ lp + ld < e /\ tot = u + k /\ k <= l - u
      BY <1>15, <1>30, <2>3, <3>1
    <3>3. lp + 1 + ld <= e /\ u + k <= l
      BY ONLY lp \in Int, ld \in Int, e \in Int, l \in Int, u \in Int, k \in Int, <3>2
    <3>4. Load(o.chunk, S) + Len(o.decode) <= o.total
      BY <2>1, <2>4 DEF Budgeted
    <3> QED BY <3>1, <3>2, <3>3, <3>4
  <2>7. Load(c, S \union {r}) + Len(o.decode) <= tot
    <3>1. Load(o.chunk, S) \in Nat
      BY <2>1, <2>4, FS_CardinalityType DEF Budgeted, Load
    <3>2. PICK d \in Int, u \in Int : d = Len(o.decode) /\ u = o.total
      BY BudgetTypes
    <3>3. PICK l \in Int : l = Load(o.chunk, S)
      BY <3>1
    <3>4. Load(c, S \union {r}) = l + k /\ l + d <= u /\ tot = u + k
      BY <1>15, <2>5, <2>6, <3>2, <3>3
    <3>5. l + k + d <= u + k
      BY ONLY l \in Int, d \in Int, u \in Int, k \in Int, <3>4
    <3> QED BY <3>2, <3>4, <3>5
  <2>8. BlocksOf(p) = S \union {r} /\ S \union {r} \subseteq s.waiting
    BY <1>1, <1>14, <2>1, <2>4 DEF Budgeted
  <2>9. BlocksOf(o.decode) \subseteq s.running /\ Distinct(o.decode)
    BY <2>1 DEF Budgeted
  <2> QED BY ONLY <2>2, <2>3, <2>5, <2>6, <2>7, <2>8, <2>9 DEF Budgeted
<1>29. Planned(y)
  BY ONLY <1>21, <1>25, <1>26, <1>27, <1>28, <1>31, <1>32 DEF Planned
<1> QED BY <1>0, <1>14, <1>26, <1>29 DEF Continues

LEMMA VisitWaitingPlanned ==
  ASSUME req \in [Reqs -> ReqRecs], NEW x, Planned(x), NEW r \in Reqs, r \in x.s.waiting,
         r \notin BlocksOf(x.o.prefill), NEW cap \in Int, NEW y \in VisitWaiting(x, r, cap)
  PROVE  /\ Planned(y) /\ y.s.waiting = x.s.waiting /\ y.o.decode = x.o.decode
         /\ BlocksOf(y.o.prefill) \subseteq BlocksOf(x.o.prefill) \union {r}
<1>0. x.s \in Scheds /\ x.o \in Outs /\ x = [s |-> x.s, m |-> x.m, o |-> x.o]
  BY DEF Planned, Sound
<1>1. PICK n \in Int : n = BlocksToAllocate(x.s, x.o, r, cap)
  BY <1>0, BlocksToAllocateType
<1>2. CASE y = Blocked(x, r)
  <2>1. x = [x EXCEPT !.s = x.s]
    BY <1>0
  <2>2. y \in {Blocked([x EXCEPT !.s = x.s], r), Unschedulable([x EXCEPT !.s = x.s], r)}
    BY <1>2, <2>1
  <2>3. PICK t \in {x.s, AdoptShared(x.s, r)} : t = x.s
    OBVIOUS
  <2>4. y \in {Blocked([x EXCEPT !.s = t], r), Unschedulable([x EXCEPT !.s = t], r)}
    BY <2>2, <2>3
  <2>5. Planned(y) /\ y.s.waiting = x.s.waiting /\ y.o.prefill = x.o.prefill /\ y.o.decode = x.o.decode
    BY <2>4, TurnedAwayPlanned
  <2> QED BY <2>5
<1>3. CASE y \in {Blocked([x EXCEPT !.s = AdoptShared(x.s, r)], r),
                  Unschedulable([x EXCEPT !.s = AdoptShared(x.s, r)], r)}
  <2>3. PICK t \in {x.s, AdoptShared(x.s, r)} : t = AdoptShared(x.s, r)
    OBVIOUS
  <2>4. y \in {Blocked([x EXCEPT !.s = t], r), Unschedulable([x EXCEPT !.s = t], r)}
    BY <1>3, <2>3
  <2>5. Planned(y) /\ y.s.waiting = x.s.waiting /\ y.o.prefill = x.o.prefill /\ y.o.decode = x.o.decode
    BY <2>4, TurnedAwayPlanned
  <2> QED BY <2>5
<1>4. ASSUME NEW a \in AllocateSeq(x.m, n), y = Prefill(x, r, cap, a.ids, a.next),
             ~TurnedAway(x.s, x.o, r, cap)
      PROVE  /\ Planned(y) /\ y.s.waiting = x.s.waiting /\ y.o.decode = x.o.decode
             /\ BlocksOf(y.o.prefill) \subseteq BlocksOf(x.o.prefill) \union {r}
  <2>0. Admits(x, r, cap, n, a, y)
    BY <1>4 DEF Admits
  <2>1. Continues(x, y, r)
    BY <1>4, <2>0, PrefillPlanned
  <2> QED BY <2>1 DEF Continues
<1>5. \/ y = Blocked(x, r)
      \/ y \in {Blocked([x EXCEPT !.s = AdoptShared(x.s, r)], r),
                Unschedulable([x EXCEPT !.s = AdoptShared(x.s, r)], r)}
      \/ /\ ~TurnedAway(x.s, x.o, r, cap)
         /\ \E a \in AllocateSeq(x.m, n) : y = Prefill(x, r, cap, a.ids, a.next)
  BY <1>1, Zenon DEF VisitWaiting
<1> QED BY <1>2, <1>3, <1>4, <1>5

(***************************************************************************)
(* The whole queue is visited, each group once.                            *)
(***************************************************************************)
WaitingStep(i, X, c) == UNION {VisitWaiting(z, c.seq[i], c.cap) : z \in X}
WaitedSoFar(s, X, c) ==
  \A x \in X : /\ Planned(x) /\ x.o.decode = c.decode
               /\ \A j \in DOMAIN c.seq : /\ c.seq[j] \in x.s.waiting
                                          /\ j \notin s => c.seq[j] \notin BlocksOf(x.o.prefill)
Waiting == INSTANCE Folding_proofs WITH Choose <- Max, Step <- WaitingStep, Good <- WaitedSoFar

LEMMA ScheduleWaitingPlanned ==
  ASSUME req \in [Reqs -> ReqRecs], NEW x, Planned(x), x.o.prefill = <<>>, NEW cap \in Int,
         NEW y \in ScheduleWaiting(x, cap)
  PROVE  Planned(y) /\ y.o.decode = x.o.decode
<1>m. PICK m : m = x.m
  OBVIOUS
<1>0. PICK s \in Scheds, o \in Outs : x = [s |-> s, m |-> m, o |-> o] /\ s = x.s /\ o = x.o /\ m = x.m
  BY <1>m DEF Planned, Sound
<1>x. PICK x0 : x0 = [x EXCEPT !.o.blocked = FALSE, !.o.unsched = FALSE, !.o.diag = NoReq]
  OBVIOUS
<1>1. PICK b \in InOrder(x.s, x.s.waiting) : y \in Visit(LAMBDA z, r : VisitWaiting(z, r, cap), x0, b)
  BY <1>x, Zenon DEF ScheduleWaiting
<1>2. b \in Seq(Reqs) /\ Distinct(b) /\ BlocksOf(b) = s.waiting
  <2>1. s.waiting \in SUBSET Reqs
    BY DEF Scheds
  <2> QED BY <1>0, <2>1, OrderType
<1>c. PICK c : c.cap = cap /\ c.seq = b /\ c.decode = o.decode
  <2>1. PICK c : c = [cap |-> cap, seq |-> b, decode |-> o.decode]
    OBVIOUS
  <2>2. c.cap = cap /\ c.seq = b /\ c.decode = o.decode
    BY <2>1
  <2> QED BY <2>2
<1>3. Planned(x0) /\ x0.s = s /\ x0.o.prefill = <<>> /\ x0.o.decode = o.decode
  <2>1. PICK o2 : o2 = [o EXCEPT !.blocked = FALSE, !.unsched = FALSE, !.diag = NoReq]
    OBVIOUS
  <2>2. o2 = [prefill |-> o.prefill, decode |-> o.decode, preempted |-> o.preempted, swapin |-> o.swapin,
              alloc |-> o.alloc, hits |-> o.hits, chunk |-> o.chunk, total |-> o.total,
              bctx |-> o.bctx, blocked |-> FALSE, unsched |-> FALSE, diag |-> NoReq]
    BY <2>1 DEF Outs
  <2>3. o2 \in Outs
    BY <2>2 DEF Outs
  <2>4. x0 = [s |-> s, m |-> m, o |-> o2]
    BY <1>0, <1>x, <2>1
  <2>5. /\ o2.prefill = x.o.prefill /\ o2.alloc = x.o.alloc /\ o2.hits = x.o.hits
        /\ o2.chunk = x.o.chunk /\ o2.decode = x.o.decode /\ o2.total = x.o.total
    BY <1>0, <2>2
  <2>7. Budgeted(s, o2)
    BY <1>0, <2>5, BudgetSame DEF Planned
  <2>6. Planned(x0) /\ x0.s = s /\ x0.m = m /\ x0.o = o2
    BY <1>0, <2>3, <2>4, <2>5, <2>7, PlannedSame
  <2> QED BY <1>0, <2>5, <2>6
<1>4. Visit(LAMBDA z, r : VisitWaiting(z, r, c.cap), x0, c.seq) = Waiting!Fold(DOMAIN c.seq, {x0}, c)
  BY Zenon DEF Visit, FoldLeft, MapThenFoldSet, Waiting!Fold, Waiting!MapThenFoldSet, WaitingStep
<1>5. PICK n \in Nat : DOMAIN b = 1 .. n
  BY <1>2, LenProperties
<1>6. WaitedSoFar({}, {x0}, c)
  <2>1. \A j \in DOMAIN b : b[j] \in s.waiting
    BY <1>2 DEF BlocksOf
  <2> QED BY <1>c, <1>3, <2>1, EmptySeqFacts DEF WaitedSoFar
<1>7. Waiting!KeptByVisits(n, c)
  <2>1. ASSUME NEW i \in 1 .. n, NEW X, WaitedSoFar(1 .. (i - 1), X, c)
        PROVE  WaitedSoFar(1 .. i, WaitingStep(i, X, c), c)
    <3>0. \A j \in DOMAIN b : j \notin 1 .. i <=> j > i
      BY <1>5
    <3> SUFFICES ASSUME NEW z \in WaitingStep(i, X, c)
                 PROVE  /\ Planned(z) /\ z.o.decode = o.decode
                        /\ \A j \in DOMAIN b : /\ b[j] \in z.s.waiting
                                               /\ j > i => b[j] \notin BlocksOf(z.o.prefill)
      BY <1>c, <3>0 DEF WaitedSoFar
    <3>1. PICK w \in X : z \in VisitWaiting(w, b[i], cap)
      BY <1>c DEF WaitingStep
    <3>2. /\ Planned(w) /\ w.o.decode = o.decode
          /\ \A j \in DOMAIN b : /\ b[j] \in w.s.waiting
                                 /\ j > i - 1 => b[j] \notin BlocksOf(w.o.prefill)
      BY <1>c, <1>5, <2>1 DEF WaitedSoFar
    <3>3. b[i] \in w.s.waiting /\ b[i] \notin BlocksOf(w.o.prefill) /\ b[i] \in Reqs
      BY <1>2, <1>5, <3>2
    <3>4. /\ Planned(z) /\ z.s.waiting = w.s.waiting /\ z.o.decode = w.o.decode
          /\ BlocksOf(z.o.prefill) \subseteq BlocksOf(w.o.prefill) \union {b[i]}
      BY <3>1, <3>2, <3>3, VisitWaitingPlanned
    <3>5. ASSUME NEW j \in DOMAIN b, j > i PROVE b[j] \notin BlocksOf(z.o.prefill)
      <4>1. b[j] # b[i]
        BY <1>2, <1>5, <3>5 DEF Distinct
      <4>2. b[j] \notin BlocksOf(w.o.prefill)
        BY <1>5, <3>2, <3>5
      <4> QED BY <3>4, <4>1, <4>2
    <3> QED BY <3>2, <3>4, <3>5
  <2> QED BY <2>1 DEF Waiting!KeptByVisits
<1>8. WaitedSoFar(1 .. n, Waiting!Fold(1 .. n, {x0}, c), c)
  <2>1. Waiting!FromFirst(n)
    BY DEF Waiting!FromFirst, Waiting!Latest, Max
  <2> QED BY ONLY n \in Nat, <1>6, <1>7, <2>1, Waiting!VisitInvariant
<1>9. Visit(LAMBDA z, r : VisitWaiting(z, r, cap), x0, b) = Visit(LAMBDA z, r : VisitWaiting(z, r, c.cap), x0, b)
  BY <1>c
<1> QED BY <1>0, <1>c, <1>1, <1>4, <1>5, <1>8, <1>9 DEF WaitedSoFar

(***************************************************************************)
(* Prefill and decode batches.                                             *)
(***************************************************************************)
LEMMA StreakPlanned ==
  ASSUME req \in [Reqs -> ReqRecs], NEW x, Planned(x), NEW k \in Int, NEW y, y = [x EXCEPT !.s.streak = k]
  PROVE  Planned(y) /\ y.o = x.o
<1>m. PICK m : m = x.m
  OBVIOUS
<1>0. PICK s \in Scheds, o \in Outs : x = [s |-> s, m |-> m, o |-> o] /\ s = x.s /\ o = x.o /\ m = x.m
  BY <1>m DEF Planned, Sound
<1>1. PICK s2 : s2 = [s EXCEPT !.streak = k]
  OBVIOUS
<1>2. s2 = [waiting |-> s.waiting, running |-> s.running, swapped |-> s.swapped, rem |-> s.rem,
            shared |-> s.shared, ctx |-> s.ctx, gen |-> s.gen, sblk |-> s.sblk, arr |-> s.arr,
            clock |-> s.clock, streak |-> k]
  BY <1>1 DEF Scheds
<1>3. s2 \in Scheds
  BY <1>2 DEF Scheds
<1>4. y = [s |-> s2, m |-> m, o |-> o]
  BY <1>0, <1>1
<1>5. /\ s2.waiting = x.s.waiting /\ s2.running = x.s.running /\ s2.swapped = x.s.swapped
      /\ s2.shared = x.s.shared /\ s2.rem = x.s.rem /\ s2.ctx = x.s.ctx /\ s2.gen = x.s.gen
  BY <1>0, <1>2
<1>7. Budgeted(s2, o)
  BY <1>0, <1>5, BudgetSame DEF Planned
<1>6. Planned(y) /\ y.s = s2 /\ y.m = x.m /\ y.o = o
  BY <1>0, <1>3, <1>4, <1>5, <1>7, PlannedSame
<1> QED BY <1>0, <1>6

LEMMA PrefillBatchPlanned ==
  ASSUME req \in [Reqs -> ReqRecs], NEW x, Planned(x), x.o.prefill = <<>>, NEW y \in PrefillBatch(x)
  PROVE  Planned(y) /\ y.o.decode = x.o.decode
<1>1. PICK w \in ScheduleWaiting(x, -1) : y = IF w.o.prefill = <<>> THEN w ELSE [w EXCEPT !.s.streak = 0]
  BY Zenon DEF PrefillBatch
<1>2. PICK cap \in Int : cap = -1
  OBVIOUS
<1>3. Planned(w) /\ w.o.decode = x.o.decode
  BY <1>1, <1>2, ScheduleWaitingPlanned
<1>4. PICK k \in Int : k = 0
  OBVIOUS
<1>5. y = w \/ y = [w EXCEPT !.s.streak = k]
  BY <1>1, <1>4
<1> QED BY <1>3, <1>5, StreakPlanned

LEMMA DecodeRoomType ==
  ASSUME NEW o \in Outs
  PROVE  DecodeRoom(o) \in Int /\ MixedCap(o) \in Int
<1>0. /\ Config.max_num_batched_tokens \in Int /\ Config.max_num_seqs \in Int
      /\ Config.max_mixed_prefill_tokens \in Int /\ Config.max_prefill_tokens \in Int
  BY ConfigAssumption
<1>1. PICK a \in Int : a = Config.max_num_batched_tokens - o.total
  BY <1>0 DEF Outs
<1>2. PICK b \in Int : b = Config.max_num_seqs - Len(o.prefill) - Len(o.decode)
  <2>1. Len(o.prefill) \in Int /\ Len(o.decode) \in Int
    BY DEF Outs
  <2> QED BY <1>0, <2>1
<1>3. Min({a, b}) \in {a, b}
  BY MinMaxType
<1>4. DecodeRoom(o) \in Int
  BY <1>1, <1>2, <1>3 DEF DecodeRoom
<1>5. PICK z \in Int : z = 0
  OBVIOUS
<1>6. PICK c \in Int : c = Max({z, a})
  BY MinMaxType
<1>7. PICK d \in Int, e \in Int : d = Config.max_mixed_prefill_tokens /\ e = Config.max_prefill_tokens
  BY <1>0
<1>8. Min({d, e, c}) \in {d, e, c}
  BY Min3Type
<1>9. MixedCap(o) = Min({d, e, c})
  BY <1>1, <1>5, <1>6, <1>7 DEF MixedCap
<1> QED BY <1>4, <1>8, <1>9

LEMMA DecodingPlanned ==
  ASSUME req \in [Reqs -> ReqRecs], NEW x, Planned(x), NEW p \in ScheduleRunning(x.s, x.o),
         x.o.decode = <<>>, NEW y, y = [x EXCEPT !.o = p]
  PROVE  Planned(y) /\ y.o.prefill = x.o.prefill
<1>m. PICK m : m = x.m
  OBVIOUS
<1>0. PICK s \in Scheds, o \in Outs : x = [s |-> s, m |-> m, o |-> o] /\ s = x.s /\ o = x.o /\ m = x.m
  BY <1>m DEF Planned, Sound
<1>1. PICK b \in InOrder(s, s.running) :
         p = Decoding(s, o, SubSeq(b, 1, Min({Len(b), Max({0, DecodeRoom(o)})})))
  BY <1>0, Zenon DEF ScheduleRunning
<1>2. s.running \in SUBSET Reqs
  BY DEF Scheds
<1>3. b \in Seq(s.running) /\ Distinct(b)
  BY <1>2, OrderType
<1>4. PICK k \in Int :
                         /\ k = Min({Len(b), Max({0, DecodeRoom(o)})}) /\ 0 <= k /\ k <= Len(b)
                         /\ (k = 0 \/ k <= DecodeRoom(o))
  <2>1. PICK d \in Int, z \in Int : d = DecodeRoom(o) /\ z = 0
    BY DecodeRoomType
  <2>2. PICK e \in Int : e = Max({z, d}) /\ e >= z /\ e \in {z, d}
    BY MinMaxType
  <2>3. PICK l \in Int : l = Len(b) /\ 0 <= l
    BY <1>3, LenProperties
  <2>4. PICK k \in Int : k = Min({l, e}) /\ k \in {l, e} /\ k <= l /\ k <= e
    BY MinMaxType
  <2> QED BY <2>1, <2>2, <2>3, <2>4
<1>5. PICK ids \in Seq(s.running) : ids = SubSeq(b, 1, k) /\ Len(ids) = k /\ Distinct(ids)
  <2>0. PICK R : R = s.running
    OBVIOUS
  <2>a. PICK a \in Int : a = 1
    OBVIOUS
  <2>1. \A i \in a .. k : b[i] \in R
    BY <1>3, <1>4, <2>0, <2>a
  <2>2. SubSeq(b, a, k) \in Seq(R)
    BY ONLY a \in Int, k \in Int, <2>1, SubSeqProperties
  <2>3. PICK u \in Seq(R) : u = SubSeq(b, a, k)
    BY <2>2
  <2>4. Len(u) = k /\ DOMAIN u = 1 .. k /\ \A i \in 1 .. k : u[i] = b[i]
    <3>1. /\ Len(SubSeq(b, a, k)) = IF a <= k THEN k - a + 1 ELSE 0
          /\ \A i \in 1 .. k - a + 1 : SubSeq(b, a, k)[i] = b[a + i - 1]
      BY ONLY a \in Int, k \in Int, <2>1, SubSeqProperties
    <3>2. DOMAIN u = 1 .. Len(u)
      BY LenProperties
    <3>3. Len(u) = k
      BY <1>4, <2>a, <2>3, <3>1
    <3>4. \A i \in 1 .. k : u[i] = b[i]
      BY <2>a, <2>3, <3>1
    <3> QED BY <3>2, <3>3, <3>4
  <2>5. DOMAIN b = 1 .. Len(b) /\ Len(b) \in Nat
    BY <1>3, LenProperties
  <2>6. Distinct(u)
    <3>1. 1 .. k \subseteq DOMAIN b
      BY <1>4, <2>5
    <3> QED BY <1>3, <2>4, <3>1 DEF Distinct
  <2> QED BY <2>0, <2>a, <2>3, <2>4, <2>6
<1>6. ids \in Seq(Reqs) /\ BlocksOf(ids) \subseteq s.running
  <2>1. ids \in Seq(Reqs)
    BY <1>2
  <2> QED BY <2>1, BlocksOfSeq
<1>7. PICK tot \in Int : tot = o.total + Len(ids)
  <2>1. Len(ids) \in Int /\ o.total \in Int
    BY DEF Outs
  <2> QED BY <2>1
<1>8. PICK bx \in Int : bx = IF ids = <<>> THEN o.bctx ELSE s.ctx[ids[1]]
  <2>1. CASE ids = <<>>
    BY <2>1 DEF Outs
  <2>2. CASE ids # <<>>
    <3>1. ids[1] \in Reqs
      BY <1>6, <2>2
    <3> QED BY <2>2, <3>1 DEF Scheds
  <2> QED BY <2>1, <2>2
<1>9. p = [o EXCEPT !.decode = ids, !.total = tot, !.bctx = bx]
  <2>1. p = [o EXCEPT !.decode = ids, !.total = @ + Len(ids), !.bctx = IF ids = <<>> THEN @ ELSE s.ctx[ids[1]]]
    BY <1>1, <1>4, <1>5, Zenon DEF Decoding
  <2> QED BY <1>7, <1>8, <2>1, Zenon
<1>10. p = [prefill |-> o.prefill, decode |-> ids, preempted |-> o.preempted, swapin |-> o.swapin,
            alloc |-> o.alloc, hits |-> o.hits, chunk |-> o.chunk, total |-> tot,
            bctx |-> bx, blocked |-> o.blocked, unsched |-> o.unsched, diag |-> o.diag]
  BY <1>9 DEF Outs
<1>11. p \in Outs
  BY <1>6, <1>10 DEF Outs
<1>12. y = [s |-> s, m |-> m, o |-> p]
  BY <1>0
<1>13. p.prefill = x.o.prefill /\ p.alloc = x.o.alloc /\ p.hits = x.o.hits /\ p.chunk = x.o.chunk
  BY <1>0, <1>6, <1>10
<1>15. Budgeted(s, p)
  <2>1. Budgeted(s, o) /\ Len(o.decode) = 0
    BY <1>0 DEF Planned
  <2>2. /\ DecodeRoom(o) <= Config.max_num_batched_tokens - o.total
        /\ DecodeRoom(o) <= Config.max_num_seqs - Len(o.prefill) - Len(o.decode)
    <3>1. PICK e \in Int, f \in Int : /\ e = Config.max_num_batched_tokens - o.total
                                      /\ f = Config.max_num_seqs - Len(o.prefill) - Len(o.decode)
      <4>1. PICK lp \in Int, ld \in Int, g \in Int, l \in Int, u \in Int :
              /\ lp = Len(o.prefill) /\ ld = Len(o.decode) /\ g = Config.max_num_seqs
              /\ l = Config.max_num_batched_tokens /\ u = o.total
        BY BudgetTypes
      <4>2. l - u \in Int /\ g - lp - ld \in Int
        OBVIOUS
      <4> QED BY ONLY <4>1, <4>2
    <3>2. Min({e, f}) <= e /\ Min({e, f}) <= f
      BY MinMaxType
    <3> QED BY <3>1, <3>2 DEF DecodeRoom
  <2>3. /\ Len(o.prefill) \in Int /\ o.total \in Int /\ Config.max_num_seqs \in Int
        /\ Config.max_num_batched_tokens \in Int
    BY BudgetTypes
  <2>4. Load(o.chunk, BlocksOf(o.prefill)) \in Nat
    BY <2>1, FS_CardinalityType DEF Budgeted, Load
  <2>5. DecodeRoom(o) \in Int
    BY DecodeRoomType
  <2>6. /\ Len(o.prefill) + Len(ids) <= Config.max_num_seqs
        /\ tot <= Config.max_num_batched_tokens
        /\ Load(o.chunk, BlocksOf(o.prefill)) + Len(ids) <= tot
    <3>0. PICK f \in Int : f = Load(o.chunk, BlocksOf(o.prefill))
      BY <2>4
    <3>1. PICK a \in Int, e \in Int, l \in Int, u \in Int, d \in Int :
            /\ a = Len(o.prefill) /\ e = Config.max_num_seqs
            /\ l = Config.max_num_batched_tokens /\ u = o.total /\ d = DecodeRoom(o)
      BY <2>3, <2>5
    <3>2. a + 0 <= e /\ u <= l /\ f + 0 <= u
      BY <2>1, <3>0, <3>1 DEF Budgeted
    <3>3. (k = 0 \/ k <= d) /\ d <= l - u /\ d <= e - a - 0 /\ 0 <= k
      BY <1>4, <2>1, <2>2, <3>1
    <3>4. a + k <= e /\ u + k <= l /\ f + k <= u + k
      BY ONLY a \in Int, e \in Int, l \in Int, u \in Int, d \in Int, f \in Int, k \in Int, <3>2, <3>3
    <3>5. tot = u + k /\ Len(ids) = k
      BY <1>5, <1>7, <3>1
    <3> QED BY <3>0, <3>1, <3>4, <3>5
  <2>7. /\ p.prefill = o.prefill /\ p.decode = ids /\ p.chunk = o.chunk /\ p.total = tot
    BY <1>10
  <2> QED BY <1>5, <1>6, <2>1, <2>6, <2>7 DEF Budgeted
<1>14. Planned(y) /\ y.s = s /\ y.m = x.m /\ y.o = p
  BY <1>0, <1>11, <1>12, <1>13, <1>15, PlannedSame
<1> QED BY <1>13, <1>14

LEMMA DecodeBatchPlanned ==
  ASSUME req \in [Reqs -> ReqRecs], NEW x, Planned(x), x.o.prefill = <<>>, x.o.decode = <<>>,
         NEW y \in DecodeBatch(x)
  PROVE  Planned(y)
<1>1. PICK d : /\ \E o \in ScheduleRunning(x.s, x.o) : d = [x EXCEPT !.o = o]
               /\ y \in IF d.o.decode = <<>> THEN PrefillBatch(d)
                        ELSE {[w EXCEPT !.s.streak = Min({@ + 1, Config.max_consecutive_decode_batches})]
                                : w \in Mixed(d)}
  BY Zenon DEF DecodeBatch
<1>2. Planned(d) /\ d.o.prefill = <<>>
  <2>1. PICK o \in ScheduleRunning(x.s, x.o) : d = [x EXCEPT !.o = o]
    BY ONLY <1>1
  <2>2. Planned(d) /\ d.o.prefill = x.o.prefill
    BY ONLY req \in [Reqs -> ReqRecs], Planned(x), x.o.decode = <<>>, <2>1, DecodingPlanned
  <2> QED BY <2>2
<1>3. CASE y \in PrefillBatch(d)
  BY <1>2, <1>3, PrefillBatchPlanned
<1>4. ASSUME NEW w \in Mixed(d),
             y = [w EXCEPT !.s.streak = Min({@ + 1, Config.max_consecutive_decode_batches})]
      PROVE  Planned(y)
  <2>1. Planned(w)
    <3>1. PICK cap \in Int : cap = MixedCap(d.o)
      BY <1>2, DecodeRoomType DEF Planned
    <3>2. w = d \/ w \in ScheduleWaiting(d, cap)
      BY <1>4, <3>1, Zenon DEF Mixed
    <3> QED BY <1>2, <3>2, ScheduleWaitingPlanned
  <2>2. PICK a \in Int, c \in Int : a = w.s.streak + 1 /\ c = Config.max_consecutive_decode_batches
    <3>1. w.s.streak \in Int
      BY <2>1 DEF Planned, Sound, Scheds
    <3> QED BY <3>1, ConfigAssumption
  <2>3. PICK k \in Int : k = Min({a, c})
    BY MinMaxType
  <2>4. y = [w EXCEPT !.s.streak = k]
    BY <1>4, <2>2, <2>3, Zenon
  <2> QED BY <2>1, <2>4, StreakPlanned
<1> QED BY <1>1, <1>3, <1>4

(***************************************************************************)
(* The whole of Schedule() leaves a plan.                                  *)
(***************************************************************************)
LEMMA BatchPlanned ==
  ASSUME req \in [Reqs -> ReqRecs], NEW x, Planned(x), x.o.prefill = <<>>, x.o.decode = <<>>, NEW y \in Batch(x)
  PROVE  Planned(y)
<1>1. CASE y \in DecodeBatch(x)
  BY <1>1, DecodeBatchPlanned
<1>2. ASSUME NEW w \in PrefillBatch(x), y \in IF w.o.prefill # <<>> THEN {w} ELSE DecodeBatch(w)
      PROVE  Planned(y)
  <2>1. Planned(w) /\ w.o.decode = <<>>
    BY <1>2, PrefillBatchPlanned
  <2>2. CASE w.o.prefill # <<>>
    BY <1>2, <2>1, <2>2
  <2>3. CASE w.o.prefill = <<>>
    BY <1>2, <2>1, <2>3, DecodeBatchPlanned
  <2> QED BY <2>2, <2>3
<1>3. y \in DecodeBatch(x) \/ \E w \in PrefillBatch(x) : y \in IF w.o.prefill # <<>> THEN {w} ELSE DecodeBatch(w)
  BY Zenon DEF Batch
<1> QED BY <1>1, <1>2, <1>3

LEMMA NoOutputPlanned ==
  ASSUME req \in [Reqs -> ReqRecs], NEW m, Sound(m, req, sch), NEW x, x = [s |-> sch, m |-> m, o |-> NoOutput]
  PROVE  /\ Planned(x) /\ x.o.prefill = <<>> /\ x.o.decode = <<>>
         /\ x.o.alloc = [r \in Reqs |-> <<>>] /\ x.o.hits = [r \in Reqs |-> <<>>]
<1>1. NoOutput \in Outs
  <2>1. <<>> \in Seq(Reqs) /\ <<>> \in Seq(Blocks)
    BY EmptySeqFacts
  <2>2. -1 \in Int
    OBVIOUS
  <2> QED BY <2>1, <2>2 DEF NoOutput, Outs
<1>2. PICK o \in Outs : o = NoOutput
  BY <1>1
<1>3. /\ o.prefill = <<>> /\ o.decode = <<>>
      /\ o.alloc = [r \in Reqs |-> <<>>] /\ o.hits = [r \in Reqs |-> <<>>]
  BY <1>2 DEF NoOutput
<1>4. ASSUME NEW r \in Reqs PROVE Received(o, r) = req[r]
  <2>0. PICK v \in ReqRecs : v = req[r]
    OBVIOUS
  <2>1. o.alloc[r] = <<>> /\ o.hits[r] = <<>> /\ Len(o.hits[r]) * BlockSize = 0
    BY <1>3, BlockSizeAssumption
  <2>2. v.table \in Seq(Blocks) /\ v.n_past \in Int /\ v.rem \in Int /\ v.reg \in Nat
    BY DEF ReqRecs
  <2>3. v.table \o o.alloc[r] \o o.hits[r] = v.table
    BY <2>1, <2>2, ConcatEmptySeq
  <2>4. Max({v.reg, Len(o.hits[r])}) = v.reg
    <3>1. PICK a \in Int, b \in Int : a = v.reg /\ b = 0 /\ a >= b
      BY <2>2
    <3>2. Max({a, b}) \in {a, b} /\ Max({a, b}) >= a
      BY MinMaxType
    <3>3. Max({a, b}) = a
      BY <3>1, <3>2
    <3>4. Len(o.hits[r]) = 0
      BY <2>1
    <3> QED BY <3>1, <3>3, <3>4
  <2>5. v.n_past + Len(o.hits[r]) * BlockSize = v.n_past /\ v.rem - Len(o.hits[r]) * BlockSize = v.rem
    BY ONLY <2>1, <2>2
  <2>6. Received(o, r) = [v EXCEPT !.table = v.table \o o.alloc[r] \o o.hits[r],
                                   !.n_past = v.n_past + Len(o.hits[r]) * BlockSize,
                                   !.rem = v.rem - Len(o.hits[r]) * BlockSize,
                                   !.reg = Max({v.reg, Len(o.hits[r])})]
    BY <2>0, Zenon DEF Received
  <2>7. Received(o, r) = [v EXCEPT !.table = v.table, !.n_past = v.n_past, !.rem = v.rem, !.reg = v.reg]
    BY <2>3, <2>4, <2>5, <2>6
  <2>8. [v EXCEPT !.table = v.table, !.n_past = v.n_past, !.rem = v.rem, !.reg = v.reg] = v
    BY DEF ReqRecs
  <2> QED BY <2>0, <2>7, <2>8
<1>5. Got(o) = req
  BY <1>4 DEF Got
<1>6. x = [s |-> x.s, m |-> x.m, o |-> x.o] /\ x.s = sch /\ x.m = m /\ x.o = o
  BY <1>2
<1>7. o.chunk = [r \in Reqs |-> 0] /\ o.total = 0
  BY <1>2 DEF NoOutput
<1>8. Tracks(sch, o)
  BY <1>3, <1>7 DEF Tracks
<1>9. Budgeted(sch, o)
  <2>1. BlocksOf(o.prefill) = {} /\ BlocksOf(o.decode) = {} /\ Len(o.prefill) = 0 /\ Len(o.decode) = 0
    BY <1>3, EmptySeqFacts
  <2>2. Distinct(o.prefill) /\ Distinct(o.decode)
    BY <1>3, EmptySeqFacts
  <2>3. IsFiniteSet(Slots(o.chunk, {})) /\ Load(o.chunk, {}) = 0
    BY LoadNone
  <2>4. Config.max_num_seqs \in Nat /\ Config.max_num_batched_tokens \in Nat
    BY ConfigAssumption
  <2> QED BY <1>7, <2>1, <2>2, <2>3, <2>4 DEF Budgeted
<1> QED BY <1>3, <1>5, <1>6, <1>8, <1>9, EmptySeqFacts DEF Planned

LEMMA SchedulePlanned ==
  ASSUME req \in [Reqs -> ReqRecs], NEW m, Sound(m, req, sch), NEW y \in Schedule(sch, m)
  PROVE  Planned(y)
<1>1. PICK x : x = [s |-> sch, m |-> m, o |-> NoOutput]
  OBVIOUS
<1>2. PICK w \in PreemptSequences(x) : \E z \in ScheduleSwapped(w) : y \in Batch(z)
  <2>1. y \in UNION {UNION {Batch(z) : z \in ScheduleSwapped(w)} : w \in PreemptSequences(x)}
    BY <1>1, Zenon DEF Schedule
  <2>2. PICK w \in PreemptSequences(x) : y \in UNION {Batch(z) : z \in ScheduleSwapped(w)}
    BY <2>1
  <2> QED BY <2>2
<1>3. PICK z \in ScheduleSwapped(w) : y \in Batch(z)
  BY <1>2
<1>4. /\ Planned(x) /\ x.o.prefill = <<>> /\ x.o.decode = <<>>
      /\ x.o.alloc = [r \in Reqs |-> <<>>] /\ x.o.hits = [r \in Reqs |-> <<>>]
  BY <1>1, NoOutputPlanned
<1>5. Planned(w) /\ w.o.prefill = <<>> /\ w.o.decode = <<>>
  BY <1>4, PreemptPlanned
<1>6. Planned(z) /\ z.o.prefill = <<>> /\ z.o.decode = <<>>
  BY <1>5, ScheduleSwappedPlanned
<1> QED BY <1>3, <1>6, BatchPlanned
-----------------------------------------------------------------------------
(***************************************************************************)
(* The contents of the blocks keep their shape.                            *)
(***************************************************************************)
LEMMA RestoreType ==
  ASSUME kv \in [Blocks -> Contents], NEW q \in [Reqs -> ReqRecs], NEW R \in SUBSET Reqs,
         \A r \in R : Len(q[r].table) = Len(q[r].swap.data)
  PROVE  RestoreKV(q, R) \in [Blocks -> Contents]
<1> DEFINE Cell1(b) == LET r == CHOOSE r \in R : b \in BlocksOf(q[r].table)
                       IN  q[r].swap.data[CHOOSE i \in DOMAIN q[r].table : q[r].table[i] = b]
<1>1. ASSUME NEW b \in Blocks, \E r \in R : b \in BlocksOf(q[r].table) PROVE Cell1(b) \in Contents
  <2>1. PICK r : r = CHOOSE x \in R : b \in BlocksOf(q[x].table)
    OBVIOUS
  <2>2. r \in R /\ b \in BlocksOf(q[r].table)
    BY <1>1, <2>1
  <2>3. PICK i : i = CHOOSE j \in DOMAIN q[r].table : q[r].table[j] = b
    OBVIOUS
  <2>4. i \in DOMAIN q[r].table
    BY <2>2, <2>3 DEF BlocksOf
  <2>5. q[r].table \in Seq(Blocks) /\ q[r].swap.data \in Seq(Contents)
    BY <2>2 DEF ReqRecs, Swaps
  <2>6. Len(q[r].table) = Len(q[r].swap.data)
    BY <2>2
  <2>7. i \in DOMAIN q[r].swap.data
    BY <2>4, <2>5, <2>6
  <2>8. q[r].swap.data[i] \in Contents
    BY <2>5, <2>7
  <2>9. Cell1(b) = q[r].swap.data[i]
    BY <2>1, <2>3
  <2> QED BY <2>8, <2>9
<1>2. RestoreKV(q, R) = [b \in Blocks |-> IF \E r \in R : b \in BlocksOf(q[r].table) THEN Cell1(b) ELSE kv[b]]
  BY Zenon DEF RestoreKV
<1> HIDE DEF Cell1
<1> QED BY <1>1, <1>2

LEMMA WrittenType ==
  ASSUME kv \in [Blocks -> Contents], req \in [Reqs -> ReqRecs], out \in Outs, NEW B \in SUBSET Reqs,
         B = BlocksOf(batch)
  PROVE  Written \in [Blocks -> Contents]
<1>1. ASSUME NEW b \in Blocks, NEW i \in 0 .. BlockSize - 1
      PROVE  (IF Writers(b, i) = {} THEN kv[b][i]
              ELSE LET r == CHOOSE r \in Writers(b, i) : TRUE
                       p == CHOOSE p \in WritePos(r, b, i) : TRUE
                   IN  IF HoldsContext(r, req[r].n_past) THEN Text(r, p + 1) ELSE <<>>) \in CellSet
  <2>1. CASE Writers(b, i) = {}
    <3>1. kv[b] \in Contents
      OBVIOUS
    <3> QED BY <2>1, <3>1 DEF Contents
  <2>2. CASE Writers(b, i) # {}
    <3>1. PICK r : r = CHOOSE x \in Writers(b, i) : TRUE
      OBVIOUS
    <3>2. r \in Writers(b, i)
      BY <2>2, <3>1
    <3>3. r \in Reqs /\ WritePos(r, b, i) # {}
      BY <3>2 DEF Writers
    <3>4. PICK p : p = CHOOSE x \in WritePos(r, b, i) : TRUE
      OBVIOUS
    <3>5. p \in WritePos(r, b, i)
      BY <3>3, <3>4
    <3>6. req[r].n_past \in Int /\ TokensToTake(r) \in Int
      <4>1. req[r] \in ReqRecs
        BY <3>3
      <4> QED BY <3>3, <4>1, TokensToTakeType DEF ReqRecs
    <3>7. p \in Int
      BY <3>5, <3>6 DEF WritePos
    <3>8. PICK n \in Int : n = p + 1
      BY <3>7
    <3>9. Text(r, n) \in CellSet /\ <<>> \in CellSet
      BY <3>3 DEF CellSet
    <3> QED BY <2>2, <3>1, <3>4, <3>8, <3>9
  <2> QED BY <2>1, <2>2
<1> DEFINE D(b, i) == IF Writers(b, i) = {} THEN kv[b][i]
              ELSE LET r == CHOOSE r \in Writers(b, i) : TRUE
                       p == CHOOSE p \in WritePos(r, b, i) : TRUE
                   IN  IF HoldsContext(r, req[r].n_past) THEN Text(r, p + 1) ELSE <<>>
<1>2. Written = [b \in Blocks |-> [i \in 0 .. BlockSize - 1 |-> D(b, i)]]
  BY Zenon DEF Written
<1>3. \A b \in Blocks, i \in 0 .. BlockSize - 1 : D(b, i) \in CellSet
  BY <1>1
<1> HIDE DEF D
<1>4. ASSUME NEW b \in Blocks PROVE [i \in 0 .. BlockSize - 1 |-> D(b, i)] \in Contents
  BY <1>3 DEF Contents
<1> QED BY <1>2, <1>4

LEMMA SwapOutType ==
  ASSUME NEW k \in [Blocks -> Contents], NEW v \in ReqRecs, NEW w, w = SwapOut(k, v)
  PROVE  w \in ReqRecs /\ w.table = <<>> /\ w.state = v.state /\ w.prefill = v.prefill
<1>1. PICK d \in Seq(Contents) : d = [i \in DOMAIN v.table |-> k[v.table[i]]]
  <2>1. v.table \in Seq(Blocks)
    BY DEF ReqRecs
  <2>2. PICK n \in Nat : DOMAIN v.table = 1 .. n
    BY <2>1, LenProperties
  <2>3. \A i \in 1 .. n : k[v.table[i]] \in Contents
    BY <2>1, <2>2
  <2>4. [i \in 1 .. n |-> k[v.table[i]]] \in [1 .. n -> Contents]
    BY <2>3
  <2>5. [i \in 1 .. n |-> k[v.table[i]]] \in Seq(Contents)
    BY <2>4
  <2> QED BY <2>2, <2>5
<1>2. PICK u \in Swaps : u = [active |-> TRUE, data |-> d]
  BY DEF Swaps
<1>3. PICK t \in Seq(Blocks) : t = <<>>
  BY EmptySeqFacts
<1>4. w = [v EXCEPT !.swap = u, !.table = t]
  BY <1>1, <1>2, <1>3, Zenon DEF SwapOut
<1>5. w = [state |-> v.state, cancelled |-> v.cancelled, prefill |-> v.prefill, rem |-> v.rem,
           n_past |-> v.n_past, table |-> t, gen |-> v.gen, reg |-> v.reg, swap |-> u]
  BY <1>4 DEF ReqRecs
<1>6. w \in ReqRecs
  BY <1>5 DEF ReqRecs
<1> QED BY <1>3, <1>5, <1>6

(***************************************************************************)
(* The worker applies a plan: what cannot be swapped in fails, the         *)
(* preempted sequences are copied out and lose their blocks.               *)
(***************************************************************************)
Applied(k, got, fail, away, back) ==
  [r \in Reqs |->
      IF r \in fail THEN [Submitted(r) EXCEPT !.state = "swap_in", !.cancelled = got[r].cancelled]
      ELSE IF r \in away THEN SwapOut(k, got[r])
      ELSE IF r \in back THEN [got[r] EXCEPT !.swap = NoSwap]
      ELSE got[r]]

Releases(q, q2, fail, away) ==
  /\ \A r \in Reqs : q2[r].table = IF r \in fail \union away THEN <<>> ELSE q[r].table
  /\ \A r \in Reqs \ fail : q2[r].state = q[r].state /\ q2[r].prefill = q[r].prefill
  /\ \A r \in fail : q2[r].prefill = TRUE /\ q2[r].state # "pending"

LEMMA AppliedType ==
  ASSUME NEW k \in [Blocks -> Contents], NEW q \in [Reqs -> ReqRecs], NEW fail \in SUBSET Reqs,
         NEW away \in SUBSET Reqs, NEW back, NEW q2, q2 = Applied(k, q, fail, away, back)
  PROVE  q2 \in [Reqs -> ReqRecs] /\ Releases(q, q2, fail, away)
<1>1. ASSUME NEW r \in Reqs
      PROVE  /\ q2[r] \in ReqRecs
             /\ q2[r].table = IF r \in fail \union away THEN <<>> ELSE q[r].table
             /\ r \notin fail => q2[r].state = q[r].state /\ q2[r].prefill = q[r].prefill
             /\ r \in fail => q2[r].prefill = TRUE /\ q2[r].state # "pending"
  <2>0. PICK v \in ReqRecs : v = q[r]
    OBVIOUS
  <2>1. CASE r \in fail
    <3>1. PICK u \in ReqRecs : u = Submitted(r) /\ u.table = <<>> /\ u.prefill = TRUE
      BY SubmittedType
    <3>2. PICK how \in States, c \in BOOLEAN : how = "swap_in" /\ c = v.cancelled
      BY DEF States, Outcomes, ReqRecs
    <3>w. PICK w : w = q2[r]
      OBVIOUS
    <3>3. w = [u EXCEPT !.state = how, !.cancelled = c]
      BY <2>0, <2>1, <3>1, <3>2, <3>w DEF Applied
    <3>4. w = [state |-> how, cancelled |-> c, prefill |-> u.prefill, rem |-> u.rem,
               n_past |-> u.n_past, table |-> u.table, gen |-> u.gen, reg |-> u.reg, swap |-> u.swap]
      BY <3>3 DEF ReqRecs
    <3>5. w \in ReqRecs
      BY <3>4 DEF ReqRecs
    <3>6. w.table = <<>> /\ w.prefill = TRUE /\ w.state = "swap_in"
      BY <3>1, <3>2, <3>4
    <3> QED BY <2>1, <3>w, <3>5, <3>6
  <2>2. CASE r \notin fail /\ r \in away
    <3>1. q2[r] = SwapOut(k, v)
      BY <2>0, <2>2 DEF Applied
    <3> QED BY <2>0, <2>2, <3>1, SwapOutType
  <2>3. CASE r \notin fail /\ r \notin away /\ r \in back
    <3>1. PICK u \in Swaps : u = NoSwap
      BY EmptySeqFacts DEF NoSwap, Swaps
    <3>w. PICK w : w = q2[r]
      OBVIOUS
    <3>2. w = [v EXCEPT !.swap = u]
      BY <2>0, <2>3, <3>1, <3>w DEF Applied
    <3>3. w = [state |-> v.state, cancelled |-> v.cancelled, prefill |-> v.prefill, rem |-> v.rem,
               n_past |-> v.n_past, table |-> v.table, gen |-> v.gen, reg |-> v.reg, swap |-> u]
      BY <3>2 DEF ReqRecs
    <3>4. w \in ReqRecs
      BY <3>3 DEF ReqRecs
    <3>5. w.table = v.table /\ w.state = v.state /\ w.prefill = v.prefill
      BY <3>3
    <3> QED BY <2>0, <2>3, <3>w, <3>4, <3>5
  <2>4. CASE r \notin fail /\ r \notin away /\ r \notin back
    BY <2>0, <2>4 DEF Applied
  <2> QED BY <2>1, <2>2, <2>3, <2>4
<1>2. q2 \in [Reqs -> ReqRecs]
  BY <1>1 DEF Applied
<1> QED BY <1>1, <1>2 DEF Releases

\* A request that is scheduled is known to the scheduler, and has adopted its prefix.
Scheduled(o) == BlocksOf(o.prefill) \union BlocksOf(o.decode)
Adopted(o, q, s) == \A r \in Scheduled(o) : s.shared[r] = <<>> /\ q[r].state # "pending"

Applies(x, q, fail, back, away, k, m2, q2, s2) ==
  /\ q = Got(x.o) /\ fail = SwapInFails(x.o, q) /\ back = Restored(x.o, q)
  /\ away = {r \in x.o.preempted : q[r].table # <<>>}
  /\ k = RestoreKV(q, back) /\ q2 = Applied(k, q, fail, away, back)
  /\ m2 = FreeTables(x.m, q, fail \union away) /\ s2 = RemoveRequests(x.s, fail)

LEMMA ApplySound ==
  ASSUME req \in [Reqs -> ReqRecs], kv \in [Blocks -> Contents], NEW x, Planned(x),
         NEW q, NEW fail, NEW back, NEW away, NEW k, NEW m2, NEW q2, NEW s2,
         Applies(x, q, fail, back, away, k, m2, q2, s2)
  PROVE  k \in [Blocks -> Contents] /\ Sound(m2, q2, s2) /\ Adopted(x.o, q2, s2)
<1>a. /\ q = Got(x.o) /\ fail = SwapInFails(x.o, q) /\ back = Restored(x.o, q)
      /\ away = {r \in x.o.preempted : q[r].table # <<>>}
      /\ k = RestoreKV(q, back) /\ q2 = Applied(k, q, fail, away, back)
      /\ m2 = FreeTables(x.m, q, fail \union away) /\ s2 = RemoveRequests(x.s, fail)
  BY DEF Applies
<1> USE <1>a
<1>0. /\ x.o \in Outs /\ Sound(x.m, q, x.s) /\ x.s \in Scheds /\ q \in [Reqs -> ReqRecs]
      /\ x.o.swapin \in SUBSET Reqs /\ x.o.preempted \in SUBSET Reqs
  BY GotType DEF Planned, Sound, Outs
<1>1. fail \in SUBSET Reqs /\ away \in SUBSET Reqs /\ back \in SUBSET Reqs
  BY <1>0 DEF SwapInFails, Restored
<1>2. \A r \in back : Len(q[r].table) = Len(q[r].swap.data)
  BY DEF Restored, SwapInFails
<1>3. k \in [Blocks -> Contents]
  BY <1>0, <1>1, <1>2, RestoreType
<1>4. /\ q2 \in [Reqs -> ReqRecs]
      /\ \A r \in Reqs : q2[r].table = IF r \in fail \union away THEN <<>> ELSE q[r].table
      /\ \A r \in Reqs \ fail : q2[r].state = q[r].state /\ q2[r].prefill = q[r].prefill
      /\ \A r \in fail : q2[r].prefill = TRUE /\ q2[r].state # "pending"
  <2>1. q \in [Reqs -> ReqRecs] /\ q2 = Applied(k, q, fail, away, back)
    BY <1>0
  <2>2. q2 \in [Reqs -> ReqRecs] /\ Releases(q, q2, fail, away)
    BY ONLY <1>1, <1>3, <2>1, AppliedType
  <2> QED BY <2>2 DEF Releases
<1>5. PICK R \in SUBSET Reqs : R = fail \union away
  BY <1>1
<1>6. PICK E \in SUBSET R : E = fail
  BY <1>5
<1>7. Sound(FreeTables(x.m, q, R), q2, s2)
  <2>1. /\ \A r \in Reqs : q2[r].table = IF r \in R THEN <<>> ELSE q[r].table
        /\ \A r \in Reqs \ E : q2[r].state = q[r].state /\ q2[r].prefill = q[r].prefill
        /\ \A r \in E : q2[r].prefill = TRUE
    BY ONLY <1>4, <1>5, <1>6
  <2>2. s2 = RemoveRequests(x.s, E) /\ Sound(x.m, q, x.s) /\ q2 \in [Reqs -> ReqRecs]
    BY <1>0, <1>4, <1>6
  <2> QED BY ONLY R \in SUBSET Reqs, E \in SUBSET R, <2>1, <2>2, SoundRelease
<1>8. ASSUME NEW r \in BlocksOf(x.o.prefill) \union BlocksOf(x.o.decode)
      PROVE  s2.shared[r] = <<>> /\ q2[r].state # "pending"
  <2>1. r \in Reqs
    <3>1. x.o.prefill \in Seq(Reqs) /\ x.o.decode \in Seq(Reqs)
      BY <1>0 DEF Outs
    <3>2. BlocksOf(x.o.prefill) \subseteq Reqs /\ BlocksOf(x.o.decode) \subseteq Reqs
      BY <3>1, BlocksOfSeq
    <3> QED BY <3>2
  <2>2. x.s.shared[r] = <<>> /\ req[r].state # "pending"
    BY DEF Planned
  <2>3. s2.shared[r] = IF r \in fail THEN <<>> ELSE x.s.shared[r]
    BY <1>0, <1>1, <2>1, RemoveRequestsType
  <2>4. q[r].state = req[r].state
    BY <1>0, <2>1, GotType
  <2> QED BY ONLY <1>4, <2>1, <2>2, <2>3, <2>4
<1>9. Adopted(x.o, q2, s2)
  BY ONLY <1>8 DEF Adopted, Scheduled
<1> QED BY <1>3, <1>5, <1>7, <1>9
-----------------------------------------------------------------------------
(***************************************************************************)
(* The inductive invariant: the state is sound, and a request that is      *)
(* scheduled or in the batch has left the queue of pending requests and    *)
(* adopted the prefix reserved for it.  There is no batch while a schedule *)
(* is being made.                                                          *)
(***************************************************************************)
EInv ==
  /\ Sound(bm, req, sch) /\ kv \in [Blocks -> Contents]
  /\ out \in Outs /\ active \in SUBSET Reqs /\ stalled \in SUBSET Reqs /\ batch \in Seq(Reqs)
  /\ BlocksOf(batch) \subseteq Scheduled(out)
  /\ Adopted(out, req, sch)
  /\ pc \in {"fetch", "schedule"} => batch = <<>>

(***************************************************************************)
(* It holds at the start.                                                  *)
(***************************************************************************)
LEMMA NoOutputType ==
  NoOutput \in Outs /\ Scheduled(NoOutput) = {}
<1>1. <<>> \in Seq(Reqs) /\ <<>> \in Seq(Blocks)
  BY EmptySeqFacts
<1>2. -1 \in Int
  OBVIOUS
<1>3. NoOutput \in Outs
  BY <1>1, <1>2 DEF NoOutput, Outs
<1>4. NoOutput.prefill = <<>> /\ NoOutput.decode = <<>>
  BY DEF NoOutput
<1> QED BY <1>3, <1>4, EmptySeqFacts DEF Scheduled

LEMMA InitSound ==
  ASSUME NEW q, q = [r \in Reqs |-> Submitted(r)]
  PROVE  Sound(BMInit, q, SchedInit)
<1>1. GoodBM(BMInit)
  BY InitGood
<1>2. q \in [Reqs -> ReqRecs] /\ \A r \in Reqs : q[r].table = <<>> /\ q[r].prefill = TRUE
  BY SubmittedType
<1>3. PICK s \in Scheds : /\ s = SchedInit /\ s.waiting = {} /\ s.running = {} /\ s.swapped = {}
                          /\ \A r \in Reqs : s.shared[r] = <<>>
  <2>1. <<>> \in Seq(Blocks)
    BY EmptySeqFacts
  <2>2. SchedInit \in Scheds
    BY <2>1 DEF SchedInit, Scheds
  <2>3. /\ SchedInit.waiting = {} /\ SchedInit.running = {} /\ SchedInit.swapped = {}
        /\ \A r \in Reqs : SchedInit.shared[r] = <<>>
    BY DEF SchedInit
  <2> QED BY <2>2, <2>3
<1>4. ASSUME NEW b \in Blocks PROVE Count(Kept(q), b) = 0 /\ Count(Reserved(s), b) = 0
  <2>1. \A r \in Reqs : Kept(q)[r] = {} /\ Reserved(s)[r] = {}
    BY <1>2, <1>3, EmptySeqFacts DEF Kept, Reserved
  <2>2. {r \in Reqs : b \in Kept(q)[r]} = {} /\ {r \in Reqs : b \in Reserved(s)[r]} = {}
    BY <2>1
  <2>3. Cardinality({}) = 0
    BY FS_EmptySet
  <2> QED BY <2>2, <2>3 DEF Count
<1>5. \A b \in Blocks : BMInit.ref[b] = 0
  BY DEF BMInit
<1>6. Covers(BMInit.ref, Kept(q), Reserved(s))
  BY <1>4, <1>5 DEF Covers
<1>7. ASSUME NEW r \in Reqs PROVE Fits(q[r], s, r)
  BY <1>2, <1>3, EmptySeqFacts DEF Fits
<1> QED BY <1>1, <1>2, <1>3, <1>6, <1>7 DEF Sound

LEMMA InitEInv == Init => EInv
<1> SUFFICES ASSUME Init PROVE EInv
  OBVIOUS
<1>1. Sound(bm, req, sch)
  <2>1. req = [r \in Reqs |-> Submitted(r)] /\ bm = BMInit /\ sch = SchedInit
    BY DEF Init
  <2> QED BY <2>1, InitSound
<1>2. kv \in [Blocks -> Contents]
  BY DEF Init, Contents, CellSet
<1>3. batch \in Seq(Reqs) /\ BlocksOf(batch) = {} /\ active \in SUBSET Reqs /\ stalled \in SUBSET Reqs
  BY EmptySeqFacts DEF Init
<1>4. out \in Outs /\ Scheduled(out) = {}
  BY NoOutputType DEF Init
<1>5. Adopted(out, req, sch)
  BY <1>4 DEF Adopted
<1>6. batch = <<>>
  BY DEF Init
<1> QED BY <1>1, <1>2, <1>3, <1>4, <1>5, <1>6 DEF EInv

(***************************************************************************)
(* Requests fail, and the worker starts over.                              *)
(***************************************************************************)
LEMMA FailKeeps ==
  ASSUME EInv, NEW R \in SUBSET Reqs, NEW how \in Outcomes, Fail(R, how)
  PROVE  Sound(bm', req', sch') /\ Adopted(out, req', sch')
<1>0. Sound(bm, req, sch) /\ sch \in Scheds /\ out \in Outs
  BY DEF EInv, Sound
<1>1. PICK m2, q2, s2 : m2 = bm' /\ q2 = req' /\ s2 = sch'
  OBVIOUS
<1>2. m2 = FreeTables(bm, req, R) /\ q2 = Ended(req, R, how) /\ s2 = RemoveRequests(sch, R)
  BY <1>1 DEF Fail
<1>3. Sound(m2, q2, s2)
  BY <1>0, <1>2, EndSound
<1>4. ASSUME NEW r \in Scheduled(out) PROVE s2.shared[r] = <<>> /\ q2[r].state # "pending"
  <2>0. r \in Reqs
    <3>1. out.prefill \in Seq(Reqs) /\ out.decode \in Seq(Reqs)
      BY <1>0 DEF Outs
    <3>2. BlocksOf(out.prefill) \subseteq Reqs /\ BlocksOf(out.decode) \subseteq Reqs
      BY <3>1, BlocksOfSeq
    <3> QED BY <3>2 DEF Scheduled
  <2>1. sch.shared[r] = <<>> /\ req[r].state # "pending"
    BY DEF EInv, Adopted
  <2>2. s2.shared[r] = IF r \in R THEN <<>> ELSE sch.shared[r]
    BY <1>0, <1>2, <2>0, RemoveRequestsType
  <2>3. CASE r \in R
    <3>1. PICK u \in ReqRecs : u = Submitted(r)
      BY <2>0, SubmittedType
    <3>2. q2[r] = [u EXCEPT !.state = how, !.cancelled = req[r].cancelled]
      BY <1>2, <2>0, <2>3, <3>1 DEF Ended
    <3>3. q2[r].state = how
      BY <3>1, <3>2 DEF ReqRecs
    <3> QED BY <2>2, <2>3, <3>3 DEF Outcomes
  <2>4. CASE r \notin R
    <3>1. q2[r] = req[r]
      BY <1>2, <2>0, <2>4 DEF Ended
    <3> QED BY <2>1, <2>2, <2>4, <3>1
  <2> QED BY <2>3, <2>4
<1>5. Adopted(out, q2, s2)
  BY <1>4 DEF Adopted
<1> QED BY <1>1, <1>3, <1>5

LEMMA StartOver ==
  ASSUME Sound(bm', req', sch'), kv' \in [Blocks -> Contents], active' \in SUBSET Reqs, NextIteration
  PROVE  EInv'
<1>1. out' = NoOutput /\ batch' = <<>> /\ stalled' = {}
  BY DEF NextIteration
<1>2. PICK o : o = out' /\ o = NoOutput
  BY <1>1
<1>3. o \in Outs /\ Scheduled(o) = {}
  BY <1>2, NoOutputType
<1>4. PICK b : b = batch' /\ b = <<>>
  BY <1>1
<1>5. b \in Seq(Reqs) /\ BlocksOf(b) = {}
  BY <1>4, EmptySeqFacts
<1>6. Adopted(out', req', sch')
  BY <1>2, <1>3 DEF Adopted
<1>7. /\ out' \in Outs /\ stalled' \in SUBSET Reqs /\ batch' \in Seq(Reqs)
      /\ BlocksOf(batch') \subseteq Scheduled(out')
  BY <1>1, <1>2, <1>3, <1>4, <1>5
<1> QED BY <1>1, <1>6, <1>7 DEF EInv

(***************************************************************************)
(* One lemma for each step of the worker, and one for the clients.         *)
(***************************************************************************)
LEMMA CancelKeeps ==
  ASSUME EInv, NEW r \in Reqs, Cancel(r)
  PROVE  EInv'
<1>0. Sound(bm, req, sch) /\ req \in [Reqs -> ReqRecs] /\ sch \in Scheds /\ GoodBM(bm) /\ Fits(req[r], sch, r)
  BY DEF EInv, Sound
<1>1. PICK q2 : q2 = req'
  OBVIOUS
<1>2. q2 = [req EXCEPT ![r].cancelled = TRUE]
  BY <1>1 DEF Cancel
<1>3. PICK v \in ReqRecs : v = req[r]
  BY <1>0
<1>4. PICK w : w = [v EXCEPT !.cancelled = TRUE]
  OBVIOUS
<1>5. w = [state |-> v.state, cancelled |-> TRUE, prefill |-> v.prefill, rem |-> v.rem,
           n_past |-> v.n_past, table |-> v.table, gen |-> v.gen, reg |-> v.reg, swap |-> v.swap]
  BY <1>4 DEF ReqRecs
<1>6. w \in ReqRecs
  BY <1>5 DEF ReqRecs
<1>7. q2 = [req EXCEPT ![r] = w]
  BY <1>2, <1>3, <1>4
<1>8. /\ q2 \in [Reqs -> ReqRecs] /\ q2[r].table = req[r].table /\ \A x \in Reqs \ {r} : q2[x] = req[x]
      /\ \A x \in Reqs : q2[x].state = req[x].state
  BY <1>0, <1>3, <1>5, <1>6, <1>7
<1>9. SameBut(req, q2, sch, sch, r)
  BY <1>8 DEF SameBut
<1>10. Fits(q2[r], sch, r)
  <2>1. q2[r].state = req[r].state /\ q2[r].prefill = req[r].prefill /\ q2[r].table = req[r].table
    BY <1>0, <1>3, <1>5, <1>6, <1>7
  <2> QED BY <1>0, <2>1 DEF Fits
<1>11. Sound(bm, q2, sch)
  <2>1. PICK n, s2 : n = bm /\ s2 = sch
    OBVIOUS
  <2>2. /\ GoodBM(n) /\ n.ref = bm.ref /\ s2 \in Scheds /\ s2.shared[r] = sch.shared[r]
        /\ q2[r].table = req[r].table /\ q2 \in [Reqs -> ReqRecs]
    BY <1>0, <1>8, <2>1
  <2>3. Sound(bm, req, sch) /\ SameBut(req, q2, sch, s2, r) /\ Fits(q2[r], s2, r)
    BY <1>0, <1>9, <1>10, <2>1
  <2>4. Sound(n, q2, s2)
    BY ONLY r \in Reqs, <2>2, <2>3, SoundTouch
  <2> QED BY <2>1, <2>4
<1>12. Adopted(out, q2, sch)
  <2>1. \A x \in Scheduled(out) : x \in Reqs
    <3>1. out.prefill \in Seq(Reqs) /\ out.decode \in Seq(Reqs)
      BY DEF EInv, Outs
    <3>2. BlocksOf(out.prefill) \subseteq Reqs /\ BlocksOf(out.decode) \subseteq Reqs
      BY <3>1, BlocksOfSeq
    <3> QED BY <3>2 DEF Scheduled
  <2> QED BY <1>8, <2>1 DEF EInv, Adopted
<1>13. UNCHANGED <<pc, bm, kv, sch, out, active, batch, stalled>>
  BY DEF Cancel
<1> QED BY <1>1, <1>11, <1>12, <1>13 DEF EInv

LEMMA FetchKeeps ==
  ASSUME EInv, NEW r \in Reqs, Fetch(r)
  PROVE  EInv'
<1>0. /\ Sound(bm, req, sch) /\ req \in [Reqs -> ReqRecs] /\ sch \in Scheds /\ GoodBM(bm)
      /\ req[r].state = "pending"
  BY DEF EInv, Sound, Fetch
<1>1. UNCHANGED <<pc, kv, out, batch, stalled>> /\ batch = <<>>
  BY DEF Fetch, EInv
<1>2. r \notin Scheduled(out) /\ \A x \in Scheduled(out) : x \in Reqs
  <2>1. r \notin Scheduled(out)
    BY <1>0 DEF EInv, Adopted
  <2>2. out.prefill \in Seq(Reqs) /\ out.decode \in Seq(Reqs)
    BY DEF EInv, Outs
  <2>3. BlocksOf(out.prefill) \subseteq Reqs /\ BlocksOf(out.decode) \subseteq Reqs
    BY <2>2, BlocksOfSeq
  <2> QED BY <2>1, <2>3 DEF Scheduled
<1>3. PICK m2, q2, s2 : m2 = bm' /\ q2 = req' /\ s2 = sch'
  OBVIOUS
<1>4. CASE Rejected(r)
  <2>1. q2 = Ended(req, {r}, "rejected") /\ m2 = bm /\ s2 = sch /\ active' = active
    BY <1>3, <1>4 DEF Fetch
  <2>2. PICK w : w = q2[r]
    OBVIOUS
  <2>3. PICK u \in ReqRecs : u = Submitted(r) /\ u.table = <<>> /\ u.prefill = TRUE
    BY SubmittedType
  <2>4. PICK c \in BOOLEAN : c = req[r].cancelled
    BY <1>0 DEF ReqRecs
  <2>5. w = [u EXCEPT !.state = "rejected", !.cancelled = c]
    BY <2>1, <2>2, <2>3, <2>4 DEF Ended
  <2>6. w = [state |-> "rejected", cancelled |-> c, prefill |-> u.prefill, rem |-> u.rem,
             n_past |-> u.n_past, table |-> u.table, gen |-> u.gen, reg |-> u.reg, swap |-> u.swap]
    BY <2>5 DEF ReqRecs
  <2>7. w \in ReqRecs
    BY <2>6 DEF ReqRecs, States, Outcomes
  <2>8. w.table = <<>> /\ w.prefill = TRUE /\ w.state = "rejected"
    BY <2>3, <2>6
  <2>9. \A x \in Reqs \ {r} : q2[x] = req[x]
    BY <2>1 DEF Ended
  <2>10. q2 \in [Reqs -> ReqRecs]
    <3>1. \A x \in Reqs : q2[x] \in ReqRecs
      BY <1>0, <2>2, <2>7, <2>9
    <3>2. q2 = [x \in Reqs |-> q2[x]]
      BY <2>1, Zenon DEF Ended
    <3> QED BY <3>1, <3>2
  <2>11. Fits(req[r], sch, r)
    BY <1>0 DEF Sound
  <2>12. Fits(q2[r], s2, r)
    BY <1>0, <2>1, <2>2, <2>8, <2>11 DEF Fits
  <2>13. Sound(m2, q2, s2)
    <3>1. /\ GoodBM(m2) /\ m2.ref = bm.ref /\ s2 \in Scheds /\ s2.shared[r] = sch.shared[r]
          /\ q2[r].table = req[r].table
      BY <1>0, <2>1, <2>2, <2>8, <2>11 DEF Fits
    <3>2. Sound(bm, req, sch) /\ SameBut(req, q2, sch, s2, r)
      BY <1>0, <2>1, <2>9 DEF SameBut
    <3> QED BY ONLY r \in Reqs, <2>10, <2>12, <3>1, <3>2, SoundTouch
  <2>14. Adopted(out, q2, s2)
    BY <1>2, <2>1, <2>9 DEF EInv, Adopted
  <2> QED BY <1>1, <1>3, <2>1, <2>13, <2>14 DEF EInv
<1>5. CASE ~Rejected(r)
  <2>1. /\ q2 = [req EXCEPT ![r].state = "active"] /\ s2 = AddRequest(sch, bm, r)
        /\ m2 = Acquire(bm, BlocksOf(CachedPrefix(bm, r))) /\ active' = active \union {r}
    BY <1>3, <1>5 DEF Fetch
  <2>2. Sound(m2, q2, s2)
    BY <1>0, <2>1, FetchSound
  <2>3. \A x \in Reqs \ {r} : q2[x] = req[x]
    BY <1>0, <2>1
  <2>4. \A x \in Reqs \ {r} : s2.shared[x] = sch.shared[x]
    <3>1. PICK hit \in Seq(Blocks) : hit = CachedPrefix(bm, r)
      BY <1>0, CachedPrefixGood
    <3> QED BY <1>0, <2>1, <3>1, AddRequestType
  <2>5. Adopted(out, q2, s2)
    BY <1>2, <2>3, <2>4 DEF EInv, Adopted
  <2>6. active' \in SUBSET Reqs
    BY <2>1 DEF EInv
  <2> QED BY <1>1, <1>3, <2>2, <2>5, <2>6 DEF EInv
<1> QED BY <1>4, <1>5

LEMMA CancelledKeeps ==
  ASSUME EInv, ProcessCancelled
  PROVE  EInv'
<1>1. PICK R \in SUBSET Reqs : Fail(R, "canceled")
  BY DEF ProcessCancelled, Unfinished, EInv
<1>2. Sound(bm', req', sch') /\ Adopted(out, req', sch')
  <2>1. "canceled" \in Outcomes
    BY DEF Outcomes
  <2> QED BY <1>1, <2>1, FailKeeps
<1>3. UNCHANGED <<kv, out, active, batch, stalled>> /\ batch = <<>>
  BY DEF ProcessCancelled, EInv
<1> QED BY <1>2, <1>3 DEF EInv

LEMMA FastPathKeeps ==
  ASSUME EInv, NEW r \in Reqs, FastPath(r)
  PROVE  EInv'
<1>0. /\ Sound(bm, req, sch) /\ req \in [Reqs -> ReqRecs] /\ sch \in Scheds /\ Fits(req[r], sch, r)
  BY DEF EInv, Sound
<1>1. PICK o : o = out' /\ o = [NoOutput EXCEPT !.decode = <<r>>, !.total = 1, !.bctx = req[r].n_past]
  BY DEF FastPath
<1>2. PICK d \in Seq(Reqs) : d = <<r>> /\ BlocksOf(d) = {r}
  BY SingletonSeq
<1>3. PICK a \in Int, b \in Int : a = 1 /\ b = req[r].n_past
  BY <1>0 DEF ReqRecs
<1>4. PICK z \in Outs : z = NoOutput /\ z.prefill = <<>>
  <2>1. NoOutput.prefill = <<>>
    BY DEF NoOutput
  <2> QED BY <2>1, NoOutputType
<1>5. o = [z EXCEPT !.decode = d, !.total = a, !.bctx = b]
  BY <1>1, <1>2, <1>3, <1>4
<1>6. o = [prefill |-> z.prefill, decode |-> d, preempted |-> z.preempted, swapin |-> z.swapin,
           alloc |-> z.alloc, hits |-> z.hits, chunk |-> z.chunk, total |-> a,
           bctx |-> b, blocked |-> z.blocked, unsched |-> z.unsched, diag |-> z.diag]
  BY <1>5 DEF Outs
<1>7. o \in Outs
  BY <1>6 DEF Outs
<1>8. Scheduled(o) = {r}
  BY <1>2, <1>4, <1>6, EmptySeqFacts DEF Scheduled
<1>9. req[r].state = "active" /\ sch.waiting = {}
  BY DEF FastPath, FastPathFor, Unfinished
<1>10. Adopted(o, req, sch)
  BY <1>0, <1>8, <1>9 DEF Adopted, Fits
<1>11. UNCHANGED <<bm, kv, sch, req, active, batch, stalled>> /\ batch = <<>>
  BY DEF FastPath, EInv
<1>12. BlocksOf(batch) \subseteq Scheduled(o)
  BY <1>11, EmptySeqFacts
<1> QED BY <1>1, <1>7, <1>10, <1>11, <1>12 DEF EInv

LEMMA ScheduleKeeps ==
  ASSUME EInv, ScheduleBatch
  PROVE  EInv'
<1>0. /\ Sound(bm, req, sch) /\ req \in [Reqs -> ReqRecs] /\ kv \in [Blocks -> Contents]
  BY DEF EInv, Sound
<1>1. PICK x \in Schedule(sch, bm) :
        LET got  == [r \in Reqs |-> Received(x.o, r)]
            fail == SwapInFails(x.o, got)
            back == Restored(x.o, got)
            away == {r \in x.o.preempted : got[r].table # <<>>}
        IN  /\ kv' = RestoreKV(got, back)
            /\ req' = [r \in Reqs |->
                          IF r \in fail THEN [Submitted(r) EXCEPT !.state = "swap_in",
                                                                  !.cancelled = got[r].cancelled]
                          ELSE IF r \in away THEN SwapOut(kv', got[r])
                          ELSE IF r \in back THEN [got[r] EXCEPT !.swap = NoSwap]
                          ELSE got[r]]
            /\ bm' = FreeTables(x.m, got, fail \union away)
            /\ sch' = RemoveRequests(x.s, fail)
            /\ out' = x.o
            /\ pc' = IF IsEmptyOutput(x.o) THEN "empty" ELSE "build"
  BY Zenon DEF ScheduleBatch
<1>2. PICK q : q = Got(x.o)
  OBVIOUS
<1>3. PICK fail : fail = SwapInFails(x.o, q)
  OBVIOUS
<1>4. PICK back : back = Restored(x.o, q)
  OBVIOUS
<1>5. PICK away : away = {r \in x.o.preempted : q[r].table # <<>>}
  OBVIOUS
<1>6. PICK k, q2, s2, m2 : k = kv' /\ q2 = req' /\ s2 = sch' /\ m2 = bm'
  OBVIOUS
<1>7. /\ Applies(x, q, fail, back, away, k, m2, q2, s2)
      /\ out' = x.o /\ pc' = IF IsEmptyOutput(x.o) THEN "empty" ELSE "build"
  BY <1>1, <1>2, <1>3, <1>4, <1>5, <1>6, Zenon DEF Applies, Applied, Got
<1>8. Planned(x)
  BY <1>0, SchedulePlanned
<1>9. k \in [Blocks -> Contents] /\ Sound(m2, q2, s2) /\ Adopted(x.o, q2, s2)
  BY ONLY <1>0, <1>7, <1>8, ApplySound
<1>11. x.o \in Outs
  BY <1>8 DEF Planned
<1>12. UNCHANGED <<active, batch, stalled>> /\ batch = <<>>
  BY DEF ScheduleBatch, EInv
<1>13. BlocksOf(batch) \subseteq Scheduled(x.o)
  BY <1>12, EmptySeqFacts
<1>14. out' = x.o
  BY <1>7
<1> QED BY <1>6, <1>9, <1>11, <1>12, <1>13, <1>14 DEF EInv

(***************************************************************************)
(* The steps that end an iteration.                                        *)
(***************************************************************************)
LEMMA EmptyKeeps ==
  ASSUME EInv, FailUnschedulable \/ (\E R \in SUBSET Reqs : FailStalled(R)) \/ WaitAndRetry
  PROVE  EInv'
<1>0. /\ Sound(bm, req, sch) /\ kv \in [Blocks -> Contents] /\ active \in SUBSET Reqs
      /\ Unfinished \subseteq Reqs
  BY DEF EInv, Unfinished
<1>1. CASE FailUnschedulable
  <2>1. PICK R \in SUBSET Reqs : Fail(R, "unschedulable")
    BY <1>0, <1>1 DEF FailUnschedulable
  <2>2. "unschedulable" \in Outcomes
    BY DEF Outcomes
  <2>3. Sound(bm', req', sch')
    BY <2>1, <2>2, FailKeeps
  <2>4. kv' = kv /\ active' \in SUBSET Reqs /\ NextIteration
    BY <1>0, <1>1 DEF FailUnschedulable, Reap
  <2> QED BY <1>0, <2>3, <2>4, StartOver
<1>2. CASE \E R \in SUBSET Reqs : FailStalled(R)
  <2>1. PICK R \in SUBSET Reqs : FailStalled(R)
    BY <1>2
  <2>2. "stalled" \in Outcomes /\ Fail(R, "stalled")
    BY <2>1 DEF Outcomes, FailStalled
  <2>3. Sound(bm', req', sch')
    BY <2>2, FailKeeps
  <2>4. kv' = kv /\ active' \in SUBSET Reqs /\ NextIteration
    BY <1>0, <2>1 DEF FailStalled, Reap
  <2> QED BY <1>0, <2>3, <2>4, StartOver
<1>3. CASE WaitAndRetry
  <2>1. UNCHANGED <<bm, kv, sch, req>> /\ active' \in SUBSET Reqs /\ NextIteration
    BY <1>0, <1>3 DEF WaitAndRetry
  <2>2. Sound(bm', req', sch')
    BY <1>0, <2>1
  <2> QED BY <1>0, <2>1, <2>2, StartOver
<1> QED BY <1>1, <1>2, <1>3

LEMMA UnbuiltKeeps ==
  ASSUME EInv, RetryBuild \/ FailUnbuilt
  PROVE  EInv'
<1>0. /\ Sound(bm, req, sch) /\ kv \in [Blocks -> Contents] /\ active \in SUBSET Reqs
      /\ stalled \in SUBSET Reqs
  BY DEF EInv
<1>1. CASE RetryBuild
  <2>1. UNCHANGED <<bm, kv, sch, req, active>> /\ NextIteration
    BY <1>1 DEF RetryBuild
  <2>2. Sound(bm', req', sch')
    BY <1>0, <2>1
  <2> QED BY <1>0, <2>1, <2>2, StartOver
<1>2. CASE FailUnbuilt
  <2>1. "build_stall" \in Outcomes /\ Fail(stalled, "build_stall")
    BY <1>2 DEF Outcomes, FailUnbuilt
  <2>2. Sound(bm', req', sch')
    BY <1>0, <2>1, FailKeeps
  <2>3. kv' = kv /\ active' \in SUBSET Reqs /\ NextIteration
    BY <1>0, <1>2 DEF FailUnbuilt, Reap
  <2> QED BY <1>0, <2>2, <2>3, StartOver
<1> QED BY <1>1, <1>2

LEMMA BuildKeeps ==
  ASSUME EInv, BuildBatch
  PROVE  EInv'
<1>0. /\ Sound(bm, req, sch) /\ req \in [Reqs -> ReqRecs] /\ kv \in [Blocks -> Contents] /\ out \in Outs
      /\ out.prefill \in Seq(Reqs) /\ out.decode \in Seq(Reqs)
  BY DEF EInv, Sound, Outs
<1>1. PICK b \in Seq(Reqs) : b = out.prefill \o out.decode /\ BlocksOf(b) = Scheduled(out)
  <2>1. PICK b1 \in Seq(Reqs), b2 \in Seq(Reqs) : b1 = out.prefill /\ b2 = out.decode
    BY ONLY <1>0
  <2>2. b1 \o b2 \in Seq(Reqs) /\ BlocksOf(b1 \o b2) = BlocksOf(b1) \union BlocksOf(b2)
    BY ONLY <2>1, BlocksOfConcat
  <2> QED BY ONLY <2>1, <2>2 DEF Scheduled
<1>2. PICK y0 : y0 = [m |-> bm, k |-> kv, q |-> req, batch |-> <<>>, stalled |-> {},
                      kind |-> "none", ok |-> TRUE]
  OBVIOUS
<1>3. Building(y0, sch, req, BlocksOf(b))
  <2>1. /\ y0.m = bm /\ y0.k = kv /\ y0.q = req /\ y0.batch = <<>> /\ y0.stalled = {}
        /\ y0 = [m |-> y0.m, k |-> y0.k, q |-> y0.q, batch |-> y0.batch, stalled |-> y0.stalled,
                 kind |-> y0.kind, ok |-> y0.ok]
    BY <1>2
  <2>2. y0.batch \in Seq(Reqs) /\ BlocksOf(y0.batch) \subseteq BlocksOf(b) /\ y0.stalled \in SUBSET Reqs
    BY <2>1, EmptySeqFacts
  <2> QED BY <1>0, <2>1, <2>2 DEF Building
<1>4. PICK y \in Visit(BuildOne, y0, b) :
        /\ bm' = y.m /\ kv' = y.k /\ req' = y.q
        /\ batch' = y.batch /\ stalled' = y.stalled
        /\ pc' = IF y.batch = <<>> THEN "unbuilt" ELSE "execute"
  BY <1>1, <1>2, Zenon DEF BuildBatch
<1>5. Building(y, sch, req, BlocksOf(b))
  BY <1>0, <1>3, <1>4, BuildAll
<1>6. UNCHANGED <<sch, out, active>> /\ pc' \notin {"fetch", "schedule"}
  BY <1>4 DEF BuildBatch
<1>7. Sound(bm', req', sch')
  BY <1>4, <1>5, <1>6 DEF Building
<1>8. /\ kv' \in [Blocks -> Contents] /\ batch' \in Seq(Reqs) /\ stalled' \in SUBSET Reqs
      /\ BlocksOf(batch') \subseteq Scheduled(out')
  BY <1>1, <1>4, <1>5, <1>6 DEF Building
<1>9. Adopted(out', req', sch')
  <2>1. PICK q2 : q2 = req' /\ \A r \in Reqs : q2[r].state = req[r].state
    BY <1>4, <1>5 DEF Building
  <2>2. \A r \in Scheduled(out) : r \in Reqs /\ sch.shared[r] = <<>> /\ req[r].state # "pending"
    <3>1. Scheduled(out) \subseteq Reqs
      <4>1. BlocksOf(out.prefill) \subseteq Reqs /\ BlocksOf(out.decode) \subseteq Reqs
        BY <1>0, BlocksOfSeq
      <4> QED BY <4>1 DEF Scheduled
    <3>2. Adopted(out, req, sch)
      BY DEF EInv
    <3> QED BY <3>1, <3>2 DEF Adopted
  <2>3. Adopted(out, q2, sch)
    BY <2>1, <2>2 DEF Adopted
  <2> QED BY <1>6, <2>1, <2>3
<1> QED BY <1>6, <1>7, <1>8, <1>9 DEF EInv

LEMMA ExecuteKeeps ==
  ASSUME EInv, ExecuteBatch \/ FailBatch
  PROVE  EInv'
<1>0. /\ Sound(bm, req, sch) /\ req \in [Reqs -> ReqRecs] /\ kv \in [Blocks -> Contents] /\ out \in Outs
      /\ batch \in Seq(Reqs) /\ active \in SUBSET Reqs
  BY DEF EInv, Sound
<1>1. PICK B \in SUBSET Reqs : B = BlocksOf(batch)
  BY <1>0, BlocksOfSeq
<1>2. Written \in [Blocks -> Contents]
  BY <1>0, <1>1, WrittenType
<1>3. CASE ExecuteBatch
  <2>1. PICK y0 : y0 = [m |-> bm, s |-> sch, q |-> req]
    OBVIOUS
  <2>2. Working(y0, BlocksOf(batch))
    <3>1. y0.m = bm /\ y0.s = sch /\ y0.q = req /\ y0 = [m |-> y0.m, s |-> y0.s, q |-> y0.q]
      BY <2>1
    <3>2. \A r \in BlocksOf(batch) : sch.shared[r] = <<>> /\ req[r].state # "pending"
      BY DEF EInv, Adopted
    <3> QED BY <1>0, <3>1, <3>2 DEF Working, Ready
  <2>3. PICK y \in Visit(OutputOne, y0, batch) : bm' = y.m /\ sch' = y.s /\ req' = y.q
    BY <1>3, <2>1, Zenon DEF ExecuteBatch
  <2>4. Working(y, BlocksOf(batch))
    BY <1>0, <2>2, <2>3, OutputsWorking
  <2>5. Sound(bm', req', sch')
    BY <2>3, <2>4 DEF Working
  <2>6. kv' = Written /\ active' \in SUBSET Reqs /\ NextIteration
    BY <1>0, <1>3 DEF ExecuteBatch, Reap
  <2> QED BY <1>2, <2>5, <2>6, StartOver
<1>4. CASE FailBatch
  <2>1. "failed" \in Outcomes /\ Fail(B, "failed")
    BY <1>1, <1>4 DEF Outcomes, FailBatch
  <2>2. Sound(bm', req', sch')
    BY <2>1, FailKeeps
  <2>3. kv' \in {kv, Written} /\ active' \in SUBSET Reqs /\ NextIteration
    BY <1>0, <1>4 DEF FailBatch, Reap
  <2> QED BY <1>0, <1>2, <2>2, <2>3, StartOver
<1> QED BY <1>3, <1>4

LEMMA NextKeeps ==
  ASSUME EInv, [Next]_vars
  PROVE  EInv'
<1>1. ASSUME NEW r \in Reqs, Cancel(r) PROVE EInv'
  BY <1>1, CancelKeeps
<1>2. ASSUME NEW r \in Reqs, Fetch(r) PROVE EInv'
  BY <1>2, FetchKeeps
<1>3. CASE ProcessCancelled
  BY <1>3, CancelledKeeps
<1>4. ASSUME NEW r \in Reqs, FastPath(r) PROVE EInv'
  BY <1>4, FastPathKeeps
<1>5. CASE ScheduleBatch
  BY <1>5, ScheduleKeeps
<1>6. CASE FailUnschedulable \/ (\E R \in SUBSET Reqs : FailStalled(R)) \/ WaitAndRetry
  BY <1>6, EmptyKeeps
<1>7. CASE BuildBatch
  BY <1>7, BuildKeeps
<1>8. CASE RetryBuild \/ FailUnbuilt
  BY <1>8, UnbuiltKeeps
<1>9. CASE ExecuteBatch \/ FailBatch
  BY <1>9, ExecuteKeeps
<1>10. CASE UNCHANGED vars
  BY <1>10 DEF vars, EInv
<1> QED BY <1>1, <1>2, <1>3, <1>4, <1>5, <1>6, <1>7, <1>8, <1>9, <1>10 DEF Next, Worker
-----------------------------------------------------------------------------
(***************************************************************************)
(* A block in somebody's table, or reserved for somebody, is never on a    *)
(* free list and never a candidate for eviction, so no allocation can give *)
(* it to another request (BlockManager::Allocate): its count is at least   *)
(* the number of tables and reserved prefixes it is in.                    *)
(***************************************************************************)
HeldBlocksSafe ==
  \A b \in Blocks :
    /\ bm.ref[b] >= Cardinality(Keepers(b)) + Cardinality(Reservers(b))
    /\ Keepers(b) # {} \/ Reservers(b) # {} => b \notin FreeBlocks(bm) /\ b \notin Evictable(bm)

(***************************************************************************)
(* Without a prefix cache no block is in two tables, or twice in one: two  *)
(* sequences never write to the same memory.                               *)
(***************************************************************************)
TablesDisjoint ==
  \A r \in Reqs :
    /\ \A i, j \in DOMAIN req[r].table : req[r].table[i] = req[r].table[j] => i = j
    /\ \A x \in Reqs \ {r} : BlocksOf(req[r].table) \intersect BlocksOf(req[x].table) = {}

(***************************************************************************)
(* The worker's checks count the same users as the invariant.              *)
(***************************************************************************)
LEMMA CountsUsers ==
  ASSUME NEW b
  PROVE  Count(Kept(req), b) = Cardinality(Keepers(b)) /\ Count(Reserved(sch), b) = Cardinality(Reservers(b))
<1>1. {r \in Reqs : b \in Kept(req)[r]} = Keepers(b)
  BY DEF Kept, Keepers
<1>2. {r \in Reqs : b \in Reserved(sch)[r]} = Reservers(b)
  BY DEF Reserved, Reservers
<1> QED BY <1>1, <1>2 DEF Count

LEMMA InvHeld == EInv => HeldBlocksSafe
<1> SUFFICES ASSUME EInv, NEW b \in Blocks
             PROVE  /\ bm.ref[b] >= Cardinality(Keepers(b)) + Cardinality(Reservers(b))
                    /\ Keepers(b) # {} \/ Reservers(b) # {} =>
                          b \notin FreeBlocks(bm) /\ b \notin Evictable(bm)
  BY DEF HeldBlocksSafe
<1>1. GoodBM(bm) /\ Covers(bm.ref, Kept(req), Reserved(sch)) /\ bm.ref \in [Blocks -> Nat]
  BY DEF EInv, Sound, GoodBM, BMType
<1>2. bm.ref[b] >= Count(Kept(req), b) + Count(Reserved(sch), b)
  BY <1>1 DEF Covers
<1>3. bm.ref[b] >= Cardinality(Keepers(b)) + Cardinality(Reservers(b))
  BY <1>2, CountsUsers
<1>4. ASSUME Keepers(b) # {} \/ Reservers(b) # {} PROVE bm.ref[b] # 0
  <2> SUFFICES ASSUME bm.ref[b] = 0 PROVE FALSE
    OBVIOUS
  <2>1. \A r \in Reqs : b \notin Kept(req)[r] /\ b \notin Reserved(sch)[r]
    BY <1>1, UnreferencedFree
  <2> QED BY <1>4, <2>1 DEF Kept, Reserved, Keepers, Reservers
<1>5. ASSUME bm.ref[b] # 0 PROVE b \notin FreeBlocks(bm) /\ b \notin Evictable(bm)
  <2>1. bm.free[b] = 0
    BY <1>1, <1>5 DEF GoodBM, FreeExact
  <2> QED BY <1>5, <2>1 DEF FreeBlocks, Evictable
<1> QED BY <1>3, <1>4, <1>5

LEMMA InvExact == ~PrefixCache /\ EInv => RefsMatch /\ TablesDisjoint
<1> SUFFICES ASSUME ~PrefixCache, EInv PROVE RefsMatch /\ TablesDisjoint
  OBVIOUS
<1>1. /\ GoodBM(bm) /\ Covers(bm.ref, Kept(req), Reserved(sch)) /\ bm.ref \in [Blocks -> Nat]
      /\ req \in [Reqs -> ReqRecs]
  BY DEF EInv, Sound, GoodBM, BMType
<1>2. ASSUME NEW b \in Blocks
      PROVE  /\ bm.ref[b] = Count(Kept(req), b) + Count(Reserved(sch), b)
             /\ bm.ref[b] <= 1
  BY <1>1 DEF Covers
<1>3. RefsMatch
  BY <1>1, <1>2, CountsUsers DEF RefsMatch, GoodBM
<1>4. ASSUME NEW r \in Reqs, NEW x \in Reqs \ {r}, NEW b \in BlocksOf(req[r].table) PROVE b \notin BlocksOf(req[x].table)
  <2> SUFFICES ASSUME b \in BlocksOf(req[x].table) PROVE FALSE
    OBVIOUS
  <2>0. b \in Blocks
    <3>1. req[r].table \in Seq(Blocks)
      BY <1>1 DEF ReqRecs
    <3> QED BY <1>4, <3>1 DEF BlocksOf
  <2>1. r \in Keepers(b) /\ x \in Keepers(b)
    BY <1>4 DEF Keepers
  <2>2. IsFiniteSet(Keepers(b))
    BY ReqsAssumption, FS_Subset DEF Keepers
  <2>3. Cardinality(Keepers(b)) >= 2
    <3>1. PICK W : W = Keepers(b) /\ IsFiniteSet(W) /\ r \in W /\ x \in W
      BY <2>1, <2>2
    <3>2. IsFiniteSet(W \ {r}) /\ Cardinality(W \ {r}) = Cardinality(W) - 1 /\ Cardinality(W) \in Nat
      BY <3>1, FS_RemoveElement, FS_CardinalityType
    <3>3. W \ {r} # {}
      BY <1>4, <3>1
    <3>4. Cardinality(W \ {r}) # 0 /\ Cardinality(W \ {r}) \in Nat
      BY <3>2, <3>3, FS_EmptySet, FS_CardinalityType
    <3> QED BY <3>1, <3>2, <3>4
  <2>4. Cardinality(Keepers(b)) \in Nat /\ Count(Reserved(sch), b) \in Nat
    BY <2>2, FS_CardinalityType, CountType
  <2>5. Count(Kept(req), b) = Cardinality(Keepers(b))
    BY CountsUsers
  <2> QED BY <1>2, <2>0, <2>3, <2>4, <2>5
<1>5. ASSUME NEW r \in Reqs PROVE Distinct(req[r].table)
  BY DEF EInv, Sound, Fits
<1> QED BY <1>3, <1>4, <1>5 DEF TablesDisjoint, Distinct

(***************************************************************************)
(* The inductive invariant holds in every reachable state, for any number  *)
(* of blocks and requests, any prompts, limits and scheduler settings.     *)
(***************************************************************************)
THEOREM EngineSound == Spec => []EInv
<1>1. Init => EInv
  BY InitEInv
<1>2. EInv /\ [Next]_vars => EInv'
  BY NextKeeps
<1> QED BY <1>1, <1>2, PTL DEF Spec

(***************************************************************************)
(* Through cancellations, preemptions, swaps, copies on write, prefix      *)
(* reuse and every failure path of the worker, a block somebody holds is   *)
(* never free for others.                                                  *)
(***************************************************************************)
THEOREM HeldBlocksAreSafe == Spec => []HeldBlocksSafe
  BY EngineSound, InvHeld, PTL

(***************************************************************************)
(* Without a prefix cache the worker neither loses nor forgets a           *)
(* reference: the counts are exact and the free lists hold the rest.       *)
(***************************************************************************)
THEOREM RefsMatchWithoutCache ==
  ASSUME ~PrefixCache
  PROVE  Spec => []RefsMatch
<1>1. EInv => RefsMatch
  BY InvExact
<1> QED BY <1>1, EngineSound, PTL

(***************************************************************************)
(* Without a prefix cache no two sequences, and no two positions of one,   *)
(* share a block.                                                          *)
(***************************************************************************)
THEOREM TablesDisjointWithoutCache ==
  ASSUME ~PrefixCache
  PROVE  Spec => []TablesDisjoint
<1>1. EInv => TablesDisjoint
  BY InvExact
<1> QED BY <1>1, EngineSound, PTL
=============================================================================
