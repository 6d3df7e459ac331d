------------------------ MODULE BlockManager_proofs ------------------------
(***************************************************************************)
(* What the operations of the block manager do to a manager state with the *)
(* right type, an exact free list and a coherent cache (GoodBM): they lead *)
(* to another one, and the references they add and drop are these.         *)
(* KVBlocks_proofs and EngineLoop_proofs rest on these lemmas.             *)
(***************************************************************************)
EXTENDS BlockManager, FiniteSetTheorems, SequenceTheorems, TLAPS

GoodBM(m) == m \in BMType /\ FreeExact(m) /\ Coherent(m)

(***************************************************************************)
(* The constructor's state is good: every block is free, nothing cached.   *)
(***************************************************************************)
LEMMA InitGood == GoodBM(BMInit)
  BY DEF GoodBM, BMInit, BMType, FreeExact, Coherent

(***************************************************************************)
(* Taking free blocks and evicting idle cached ones keeps the state good.  *)
(***************************************************************************)
LEMMA ClaimGood ==
  ASSUME NEW m, GoodBM(m), NEW F \in SUBSET FreeBlocks(m), NEW E \in SUBSET Evictable(m)
  PROVE  GoodBM(Claim(m, F, E))
  <1> DEFINE n == Claim(m, F, E)
  <1> USE BlocksAssumption, HashesAssumption DEF GoodBM
  <1>1. n \in BMType
    BY DEF BMType, Claim, FreeBlocks, Evictable, FreeExact
  <1>2. FreeExact(n)
    BY DEF BMType, Claim, FreeBlocks, Evictable, FreeExact
  <1>3. Coherent(n)
    <2>1. \A h \in Hashes : n.cache[h] # NoBlock => /\ m.cache[h] \in Blocks \ (F \union E)
                                                   /\ n.cache[h] = m.cache[h]
      BY DEF BMType, Claim, FreeBlocks, Evictable, FreeExact, Coherent
    <2>2. \A h \in Hashes : n.cache[h] # NoBlock => n.resident[n.cache[h]] /\ n.hash[n.cache[h]] = h
      BY <2>1 DEF BMType, Claim, Coherent
    <2>3. ASSUME NEW b \in Blocks, b \in F \union E
          PROVE  ~n.resident[b] /\ n.hash[b] = NoHash /\ n.toks[b] = NoTokens /\ ~n.snap[b]
      <3>1. ~n.resident[b] /\ n.hash[b] = NoHash
        BY <2>3 DEF Claim
      <3>2. b \notin E => ~m.resident[b]
        BY <2>3 DEF BMType, FreeBlocks, FreeExact
      <3>3. n.toks[b] = NoTokens
        BY <2>3, <3>2 DEF BMType, Claim, Coherent
      <3>4. n.snap[b] = (b \notin E /\ m.snap[b])
        BY DEF Claim
      <3>5. b \notin E => ~m.snap[b]
        BY <3>2 DEF Coherent
      <3> QED BY <3>1, <3>3, <3>4, <3>5
    <2>4. ASSUME NEW b \in Blocks, b \notin F \union E, n.resident[b]
          PROVE  n.hash[b] # NoHash /\ n.cache[n.hash[b]] = b
      BY <2>4 DEF BMType, Claim, Coherent
    <2>5. ASSUME NEW b \in Blocks, b \notin F \union E, ~n.resident[b]
          PROVE  n.hash[b] = NoHash /\ n.toks[b] = NoTokens /\ ~n.snap[b]
      BY <2>5 DEF BMType, Claim, Coherent
    <2> QED BY <2>2, <2>3, <2>4, <2>5 DEF Coherent
  <1> QED BY <1>1, <1>2, <1>3

(***************************************************************************)
(* Free keeps the state good, whatever set of blocks it is given.          *)
(***************************************************************************)
LEMMA FreeGood ==
  ASSUME NEW m, GoodBM(m), NEW S \in SUBSET Blocks
  PROVE  GoodBM(Free(m, S))
  <1> DEFINE n == Free(m, S)
  <1> USE BlocksAssumption, HashesAssumption DEF GoodBM
  <1>1. n \in BMType
    BY DEF BMType, Free, Released
  <1>2. FreeExact(n)
    BY DEF BMType, Free, Released, FreeExact
  <1>3. Coherent(n)
    BY DEF BMType, Free, Released, Coherent
  <1> QED BY <1>1, <1>2, <1>3

(***************************************************************************)
(* A block that leaves the prefix cache leaves it completely.              *)
(***************************************************************************)
LEMMA ReleaseResidencyGood ==
  ASSUME NEW m, GoodBM(m), NEW b \in Blocks
  PROVE  GoodBM(ReleaseResidency(m, b))
  <1> DEFINE n == ReleaseResidency(m, b)
  <1> USE BlocksAssumption, HashesAssumption DEF GoodBM
  <1>1. n \in BMType
    <2>1. CASE ~m.resident[b]
      BY <2>1 DEF ReleaseResidency
    <2>2. CASE m.resident[b]
      <3>1. n = [ref |-> m.ref, free |-> n.free, hash |-> n.hash, resident |-> n.resident,
                 cache |-> n.cache, toks |-> n.toks, snap |-> n.snap]
        BY <2>2 DEF BMType, ReleaseResidency
      <3>2. n.free \in [Blocks -> Nat]
        BY <2>2 DEF BMType, ReleaseResidency
      <3>3. n.hash \in [Blocks -> Hashes \union {NoHash}]
        BY <2>2 DEF BMType, ReleaseResidency
      <3>4. n.resident \in [Blocks -> BOOLEAN] /\ n.snap \in [Blocks -> BOOLEAN]
        BY <2>2 DEF BMType, ReleaseResidency
      <3>5. n.cache \in [Hashes -> Blocks \union {NoBlock}]
        BY <2>2 DEF BMType, ReleaseResidency
      <3>6. n.toks \in [Blocks -> TokenSeqs \union {NoTokens}]
        BY <2>2 DEF BMType, ReleaseResidency
      <3> QED BY <3>1, <3>2, <3>3, <3>4, <3>5, <3>6 DEF BMType
    <2> QED BY <2>1, <2>2
  <1>2. FreeExact(n)
    BY DEF BMType, ReleaseResidency, FreeExact
  <1>3. Coherent(n)
    BY DEF BMType, ReleaseResidency, Coherent
  <1> QED BY <1>1, <1>2, <1>3

(***************************************************************************)
(* Allocate hands out only unreferenced blocks, each with exactly one      *)
(* reference, and changes no other count, failing or not.                  *)
(***************************************************************************)
LEMMA AllocateGood ==
  ASSUME NEW m, GoodBM(m), NEW n \in Int, NEW r \in Allocate(m, n)
  PROVE  /\ GoodBM(r.next)
         /\ r.ids \subseteq Blocks
         /\ \A b \in Blocks : IF b \in r.ids THEN m.ref[b] = 0 /\ r.next.ref[b] = 1
                              ELSE r.next.ref[b] = m.ref[b]
  <1> DEFINE F == FreeBlocks(m)
             E == Evictable(m)
             Goal == /\ GoodBM(r.next)
                     /\ r.ids \subseteq Blocks
                     /\ \A b \in Blocks : IF b \in r.ids THEN m.ref[b] = 0 /\ r.next.ref[b] = 1
                                          ELSE r.next.ref[b] = m.ref[b]
  <1>0. /\ m \in BMType
        /\ F \subseteq Blocks /\ E \subseteq Blocks
        /\ \A b \in F \union E : m.ref[b] = 0
    BY DEF GoodBM, BMType, FreeBlocks, Evictable, FreeExact
  <1>1. CASE r = [ids |-> {}, next |-> m]
    BY <1>1
  <1>2. ASSUME NEW X \in SUBSET F, NEW Y \in SUBSET E,
               r = [ids |-> X \union Y, next |-> Claim(m, X, Y)]
        PROVE  Goal
    <2>1. GoodBM(r.next)
      BY <1>2, ClaimGood
    <2>2. \A b \in Blocks : r.next.ref[b] = IF b \in r.ids THEN 1 ELSE m.ref[b]
      BY <1>2 DEF Claim
    <2> QED BY <1>0, <1>2, <2>1, <2>2
  <1>3. CASE r = [ids |-> {}, next |-> Free(Claim(m, F, E), F \union E)]
    <2> DEFINE c == Claim(m, F, E)
    <2>1. GoodBM(c)
      BY ClaimGood
    <2>2. GoodBM(r.next)
      BY <1>0, <1>3, <2>1, FreeGood
    <2>3. \A b \in Blocks : c.ref[b] = IF b \in F \union E THEN 1 ELSE m.ref[b]
      BY DEF Claim
    <2>4. \A b \in Blocks : r.next.ref[b] =
                            IF b \in F \union E /\ c.ref[b] > 0 THEN c.ref[b] - 1 ELSE c.ref[b]
      BY <1>3 DEF Free
    <2>5. \A b \in Blocks : r.next.ref[b] = m.ref[b]
      BY <1>0, <2>3, <2>4 DEF BMType
    <2> QED BY <1>3, <2>2, <2>5
  <1>4. \/ r = [ids |-> {}, next |-> m]
        \/ \E X \in SUBSET F, Y \in SUBSET E : r = [ids |-> X \union Y, next |-> Claim(m, X, Y)]
        \/ r = [ids |-> {}, next |-> Free(Claim(m, F, E), F \union E)]
    <2>1. CASE n <= 0
      BY <2>1 DEF Allocate
    <2>5. CASE n = 1
      <3>1. PICK a \in AllocateSingle(m) : r = [ids |-> {a.id} \ {NoBlock}, next |-> a.next]
        BY <2>5 DEF Allocate
      <3>2. CASE a = [id |-> NoBlock, next |-> m]
        BY <3>1, <3>2
      <3>3. ASSUME NEW b \in F, a = [id |-> b, next |-> Claim(m, {b}, {})]
            PROVE  \E X \in SUBSET F, Y \in SUBSET E : r = [ids |-> X \union Y, next |-> Claim(m, X, Y)]
        <4>1. r = [ids |-> {b} \union {}, next |-> Claim(m, {b}, {})]
          BY <1>0, <3>1, <3>3, BlocksAssumption
        <4> QED BY <4>1
      <3>4. ASSUME NEW b \in E, a = [id |-> b, next |-> Claim(m, {}, {b})]
            PROVE  \E X \in SUBSET F, Y \in SUBSET E : r = [ids |-> X \union Y, next |-> Claim(m, X, Y)]
        <4>1. r = [ids |-> {} \union {b}, next |-> Claim(m, {}, {b})]
          BY <1>0, <3>1, <3>4, BlocksAssumption
        <4> QED BY <4>1
      <3> QED BY <3>2, <3>3, <3>4 DEF AllocateSingle
    <2>2. CASE n > 1 /\ Cardinality(F) >= n
      <3>1. PICK X \in SUBSET F : r = [ids |-> X, next |-> Claim(m, X, {})]
        BY <2>2 DEF Allocate
      <3> QED BY <3>1
    <2>3. CASE n > 1 /\ ~(Cardinality(F) >= n) /\ Cardinality(F) + Cardinality(E) >= n
      BY <2>3 DEF Allocate
    <2>4. CASE n > 1 /\ ~(Cardinality(F) >= n) /\ ~(Cardinality(F) + Cardinality(E) >= n)
      BY <2>4 DEF Allocate
    <2> QED BY <2>1, <2>2, <2>3, <2>4, <2>5
  <1> QED BY <1>1, <1>2, <1>3, <1>4

(***************************************************************************)
(* More references on blocks that are cached or already referenced keep    *)
(* the state good: no such block is on a free list.                        *)
(***************************************************************************)
LEMMA AcquireGood ==
  ASSUME NEW m, GoodBM(m), NEW S \in SUBSET Blocks, \A b \in S : Usable(m, b)
  PROVE  /\ GoodBM(Acquire(m, S))
         /\ \A b \in Blocks : Acquire(m, S).ref[b] = IF b \in S THEN m.ref[b] + 1 ELSE m.ref[b]
  <1> DEFINE n == Acquire(m, S)
  <1> USE DEF GoodBM
  <1>1. n.ref \in [Blocks -> Nat] /\ \A b \in Blocks : n.ref[b] = IF b \in S THEN m.ref[b] + 1 ELSE m.ref[b]
    BY DEF BMType, Acquire
  <1>2. n \in BMType
    BY DEF BMType, Acquire
  <1>3. FreeExact(n)
    BY <1>1 DEF BMType, Acquire, FreeExact, Usable
  <1>4. Coherent(n)
    BY DEF BMType, Acquire, Coherent
  <1> QED BY <1>1, <1>2, <1>3, <1>4

(***************************************************************************)
(* CopyOnWrite moves one reference from a shared block to a fresh one, or  *)
(* changes no count.                                                       *)
(***************************************************************************)
LEMMA CopyOnWriteGood ==
  ASSUME NEW m, GoodBM(m), NEW b \in Blocks, NEW r \in CopyOnWrite(m, b)
  PROVE  /\ GoodBM(r.next)
         /\ \/ r.id \in {b, NoBlock} /\ \A x \in Blocks : r.next.ref[x] = m.ref[x]
            \/ /\ r.id \in Blocks \ {b}
               /\ \A x \in Blocks : r.next.ref[x] = IF x = r.id THEN 1
                                                   ELSE IF x = b THEN m.ref[x] - 1 ELSE m.ref[x]
               /\ m.ref[r.id] = 0
  <1>0. m \in BMType
    BY DEF GoodBM
  <1>1. CASE ~IsShared(m, b)
    BY <1>1 DEF CopyOnWrite
  <1>2. CASE IsShared(m, b)
    <2> DEFINE Moved == /\ GoodBM(r.next)
                        /\ r.id \in Blocks \ {b}
                        /\ \A y \in Blocks : r.next.ref[y] = IF y = r.id THEN 1
                                                ELSE IF y = b THEN m.ref[y] - 1 ELSE m.ref[y]
                        /\ m.ref[r.id] = 0
    <2>1. PICK a \in AllocateSingle(m) :
             r = [a EXCEPT !.next.ref[b] = IF a.id = NoBlock THEN @ ELSE @ - 1]
      BY <1>2 DEF CopyOnWrite
    <2>2. m.ref[b] > 1
      BY <1>2 DEF IsShared
    <2>3. CASE a = [id |-> NoBlock, next |-> m]
      <3>1. r.id = NoBlock /\ r.next = m
        BY <1>0, <2>1, <2>3 DEF BMType
      <3> QED BY <3>1
    <2>4. ASSUME NEW F \in SUBSET FreeBlocks(m), NEW E \in SUBSET Evictable(m), NEW x \in F \union E,
                 F \union E = {x}, a = [id |-> x, next |-> Claim(m, F, E)]
          PROVE  Moved
      <3> DEFINE c == Claim(m, F, E)
                 n == [c EXCEPT !.ref[b] = @ - 1]
      <3>1. x \in Blocks /\ m.ref[x] = 0 /\ x # b
        BY <1>0, <2>2 DEF GoodBM, BMType, FreeBlocks, Evictable, FreeExact
      <3>2. GoodBM(c)
        BY ClaimGood
      <3>3. \A y \in Blocks : c.ref[y] = IF y = x THEN 1 ELSE m.ref[y]
        BY <2>4 DEF Claim
      <3> HIDE DEF c
      <3>4. r = [id |-> x, next |-> n]
        BY <2>1, <2>4, <3>1, BlocksAssumption DEF c
      <3>5. \A y \in Blocks : n.ref[y] = IF y = x THEN 1 ELSE IF y = b THEN m.ref[y] - 1 ELSE m.ref[y]
        BY <3>1, <3>2, <3>3 DEF GoodBM, BMType
      <3>6. n \in BMType
        BY <1>0, <2>2, <3>1, <3>2, <3>3, SMTT(30) DEF GoodBM, BMType
      <3>7. FreeExact(n)
        BY <1>0, <2>2, <3>1, <3>2, <3>3 DEF GoodBM, BMType, FreeExact
      <3>8. Coherent(n)
        BY <3>2 DEF GoodBM, BMType, Coherent
      <3> QED BY <3>1, <3>4, <3>5, <3>6, <3>7, <3>8 DEF GoodBM
    <2>5. \/ a = [id |-> NoBlock, next |-> m]
          \/ \E x \in FreeBlocks(m) : a = [id |-> x, next |-> Claim(m, {x}, {})]
          \/ \E x \in Evictable(m) : a = [id |-> x, next |-> Claim(m, {}, {x})]
      BY DEF AllocateSingle
    <2>6. ASSUME NEW x \in FreeBlocks(m), a = [id |-> x, next |-> Claim(m, {x}, {})]
          PROVE  Moved
      <3>1. {x} \union {} = {x} /\ {x} \in SUBSET FreeBlocks(m) /\ {} \in SUBSET Evictable(m)
        OBVIOUS
      <3> HIDE DEF Moved
      <3> QED BY <2>4, <2>6, <3>1
    <2>7. ASSUME NEW x \in Evictable(m), a = [id |-> x, next |-> Claim(m, {}, {x})]
          PROVE  Moved
      <3>1. {} \union {x} = {x} /\ {x} \in SUBSET Evictable(m) /\ {} \in SUBSET FreeBlocks(m)
        OBVIOUS
      <3> HIDE DEF Moved
      <3> QED BY <2>4, <2>7, <3>1
    <2> QED BY <2>3, <2>5, <2>6, <2>7
  <1> QED BY <1>1, <1>2

(***************************************************************************)
(* Registering a block changes no reference count.                         *)
(***************************************************************************)
LEMMA RegisterGood ==
  ASSUME NEW m, GoodBM(m), NEW b \in Blocks, NEW h \in Hashes,
         NEW t \in TokenSeqs \union {NoTokens}, NEW s \in BOOLEAN
  PROVE  GoodBM(RegisterWithTokens(m, b, h, t, s)) /\ RegisterWithTokens(m, b, h, t, s).ref = m.ref
  <1> DEFINE d == Displaced(m, b, h)
             n == RegisterWithTokens(m, b, h, t, s)
  <1> USE BlocksAssumption, HashesAssumption
  <1>1. GoodBM(d) /\ d.ref = m.ref /\ d.cache[h] \in {NoBlock, b}
    <2>1. CASE m.cache[h] \in {NoBlock, b}
      BY <2>1 DEF Displaced
    <2>2. CASE m.cache[h] \notin {NoBlock, b}
      <3>1. m.cache[h] \in Blocks /\ m.resident[m.cache[h]] /\ m.hash[m.cache[h]] = h
        BY <2>2 DEF GoodBM, BMType, Coherent
      <3>2. d = ReleaseResidency(m, m.cache[h])
        BY <2>2 DEF Displaced
      <3>3. d.ref = m.ref /\ d.cache[h] = NoBlock
        BY <3>1, <3>2 DEF ReleaseResidency, GoodBM, BMType
      <3> QED BY <3>1, <3>2, <3>3, ReleaseResidencyGood
    <2> QED BY <2>1, <2>2
  <1>2. CASE d.ref[b] <= 0 /\ ~d.resident[b]
    BY <1>1, <1>2 DEF RegisterWithTokens
  <1>3. CASE ~(d.ref[b] <= 0 /\ ~d.resident[b])
    <2> DEFINE C == [x \in Hashes |-> IF x = h THEN b
                        ELSE IF d.resident[b] /\ x = d.hash[b] /\ d.cache[x] = b THEN NoBlock
                        ELSE d.cache[x]]
    <2>1. n = [d EXCEPT !.cache = C, !.hash[b] = h, !.resident[b] = TRUE, !.toks[b] = t, !.snap[b] = s]
      BY <1>3 DEF RegisterWithTokens
    <2>2. C \in [Hashes -> Blocks \union {NoBlock}]
      BY <1>1 DEF GoodBM, BMType
    <2> HIDE DEF C
    <2>3. /\ n.ref = d.ref /\ n.free = d.free /\ n.cache = C
          /\ n.hash = [d.hash EXCEPT ![b] = h] /\ n.resident = [d.resident EXCEPT ![b] = TRUE]
          /\ n.toks = [d.toks EXCEPT ![b] = t] /\ n.snap = [d.snap EXCEPT ![b] = s]
      BY <1>1, <2>1, <2>2 DEF GoodBM, BMType
    <2>6. n = [ref |-> n.ref, free |-> n.free, hash |-> n.hash, resident |-> n.resident,
               cache |-> n.cache, toks |-> n.toks, snap |-> n.snap]
      BY <1>1, <2>1 DEF GoodBM, BMType
    <2> HIDE DEF n
    <2>7. n \in BMType
      <3>1. d \in BMType
        BY <1>1 DEF GoodBM
      <3>2. n.ref \in [Blocks -> Nat] /\ n.free \in [Blocks -> Nat]
        BY <2>3, <3>1 DEF BMType
      <3>3. n.hash \in [Blocks -> Hashes \union {NoHash}] /\ n.toks \in [Blocks -> TokenSeqs \union {NoTokens}]
        BY <2>3, <3>1 DEF BMType
      <3>4. n.resident \in [Blocks -> BOOLEAN] /\ n.snap \in [Blocks -> BOOLEAN]
        BY <2>3, <3>1 DEF BMType
      <3>5. n.cache \in [Hashes -> Blocks \union {NoBlock}]
        BY <2>2, <2>3
      <3> QED BY <2>6, <3>2, <3>3, <3>4, <3>5 DEF BMType
    <2>4. FreeExact(n)
      BY <1>1, <1>3, <2>3 DEF GoodBM, BMType, FreeExact
    <2>5. Coherent(n)
      BY <1>1, <2>3 DEF GoodBM, BMType, Coherent, C
    <2> QED BY <1>1, <2>3, <2>4, <2>5, <2>7 DEF GoodBM, n
  <1> QED BY <1>2, <1>3
=============================================================================
