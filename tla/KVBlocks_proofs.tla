-------------------------- MODULE KVBlocks_proofs --------------------------
(***************************************************************************)
(* Proofs that KVBlocks keeps its invariants for every set of blocks,      *)
(* clients, hashes and prompts.                                            *)
(*                                                                         *)
(* That the manager's operations keep its state good is                    *)
(* BlockManager_proofs.tla.  The first part here follows the reference     *)
(* counts, the second one what a step may do to an idle cached block.      *)
(***************************************************************************)
EXTENDS KVBlocks, BlockManager_proofs

(***************************************************************************)
(* Giving client c the blocks H changes the number of holders of a block   *)
(* by at most one.                                                         *)
(***************************************************************************)
LEMMA HolderCount ==
  ASSUME TypeOK, NEW c \in Clients, NEW H \in SUBSET Blocks, NEW b \in Blocks,
         held' = [held EXCEPT ![c] = H]
  PROVE  Cardinality(Holders(b))' = IF b \in H \ held[c] THEN Cardinality(Holders(b)) + 1
                                    ELSE IF b \in held[c] \ H THEN Cardinality(Holders(b)) - 1
                                    ELSE Cardinality(Holders(b))
  <1>1. IsFiniteSet(Holders(b))
    BY ClientsAssumption, FS_Subset DEF Holders
  <1>2. CASE b \in H
    <2>1. Holders(b)' = Holders(b) \union {c}
      BY <1>2 DEF Holders, TypeOK
    <2>2. c \in Holders(b) <=> b \in held[c]
      BY DEF Holders
    <2> QED BY <1>1, <1>2, <2>1, <2>2, FS_AddElement
  <1>3. CASE b \notin H
    <2>1. Holders(b)' = Holders(b) \ {c}
      BY <1>3 DEF Holders, TypeOK
    <2>2. c \in Holders(b) <=> b \in held[c]
      BY DEF Holders
    <2> QED BY <1>1, <1>3, <2>1, <2>2, FS_RemoveElement
  <1> QED BY <1>2, <1>3

(***************************************************************************)
(* With exact counts, a block has no reference iff no client holds it.     *)
(***************************************************************************)
LEMMA UnheldIffUnreferenced ==
  ASSUME RefsAccounted, NEW b \in Blocks
  PROVE  bm.ref[b] = 0 <=> Holders(b) = {}
  <1>1. IsFiniteSet(Holders(b))
    BY ClientsAssumption, FS_Subset DEF Holders
  <1> QED BY <1>1, FS_EmptySet DEF RefsAccounted

(***************************************************************************)
(* The shape of every step's argument: the manager stays good, client c    *)
(* ends with the blocks H, and the counts move as H does.                  *)
(***************************************************************************)
Balanced(c, H) ==
  /\ GoodBM(bm')
  /\ H \in SUBSET Blocks
  /\ held' = [held EXCEPT ![c] = H]
  /\ \A b \in Blocks : bm'.ref[b] = IF b \in H \ held[c] THEN bm.ref[b] + 1
                                    ELSE IF b \in held[c] \ H THEN bm.ref[b] - 1 ELSE bm.ref[b]

(***************************************************************************)
(* A balanced step keeps the inductive invariant.                          *)
(***************************************************************************)
LEMMA StepKeepsIInv ==
  ASSUME IInv, NEW c \in Clients, NEW H, Balanced(c, H)
  PROVE  IInv'
  <1> USE DEF Balanced
  <1>1. TypeOK'
    BY DEF IInv, TypeOK, GoodBM
  <1>2. RefsAccounted'
    <2> SUFFICES ASSUME NEW b \in Blocks PROVE bm'.ref[b] = Cardinality(Holders(b))'
      BY DEF RefsAccounted
    <2>1. bm.ref[b] = Cardinality(Holders(b))
      BY DEF IInv, RefsAccounted
    <2>2. TypeOK
      BY DEF IInv
    <2>3. Cardinality(Holders(b))' = IF b \in H \ held[c] THEN Cardinality(Holders(b)) + 1
                                     ELSE IF b \in held[c] \ H THEN Cardinality(Holders(b)) - 1
                                     ELSE Cardinality(Holders(b))
      BY <2>2, HolderCount
    <2> QED BY <2>1, <2>3
  <1> QED BY <1>1, <1>2 DEF IInv, GoodBM, CacheCoherent

(***************************************************************************)
(* The inductive invariant holds initially and is kept by every operation. *)
(***************************************************************************)
LEMMA IInvInit == Init => IInv
  <1> SUFFICES ASSUME Init PROVE IInv
    OBVIOUS
  <1>1. \A b \in Blocks : Holders(b) = {}
    BY DEF Init, Holders
  <1>2. RefsAccounted
    BY <1>1, FS_EmptySet DEF Init, BMInit, RefsAccounted
  <1> QED BY <1>2, InitGood DEF Init, IInv, GoodBM, TypeOK, CacheCoherent

(***************************************************************************)
(* Every operation of the block manager, by any client, preserves IInv.    *)
(***************************************************************************)
LEMMA IInvStep == IInv /\ [Next]_vars => IInv'
  <1> SUFFICES ASSUME IInv, [Next]_vars PROVE IInv'
    OBVIOUS
  <1>0. GoodBM(bm) /\ held \in [Clients -> SUBSET Blocks]
    BY DEF IInv, GoodBM, TypeOK, CacheCoherent
  <1>1. ASSUME NEW c \in Clients, NEW n \in 1 .. MaxAlloc, AllocateBlocks(c, n)
        PROVE  IInv'
    <2>1. PICK r \in Allocate(bm, n) : bm' = r.next /\ held' = [held EXCEPT ![c] = @ \union r.ids]
      BY <1>1 DEF AllocateBlocks
    <2>2. n \in Nat
      BY MaxAllocAssumption
    <2>3. /\ GoodBM(bm')
          /\ r.ids \subseteq Blocks
          /\ \A b \in Blocks : IF b \in r.ids THEN bm.ref[b] = 0 /\ bm'.ref[b] = 1
                               ELSE bm'.ref[b] = bm.ref[b]
      BY <1>0, <2>1, <2>2, AllocateGood
    <2>4. \A b \in r.ids : b \notin held[c]
      BY <2>3, UnheldIffUnreferenced DEF IInv, Holders
    <2>5. held' = [held EXCEPT ![c] = held[c] \union r.ids] /\ held[c] \union r.ids \in SUBSET Blocks
      BY <1>0, <2>1, <2>3
    <2>6. Balanced(c, held[c] \union r.ids)
      BY <2>3, <2>4, <2>5 DEF Balanced
    <2> QED BY <2>6, StepKeepsIInv
  <1>2. ASSUME NEW c \in Clients, NEW S \in SUBSET held[c], FreeHeld(c, S)
        PROVE  IInv'
    <2>1. GoodBM(bm') /\ held' = [held EXCEPT ![c] = held[c] \ S] /\ held[c] \ S \in SUBSET Blocks
      BY <1>0, <1>2, FreeGood DEF FreeHeld
    <2>2. \A b \in S : bm.ref[b] # 0
      BY <1>0, UnheldIffUnreferenced DEF IInv, Holders
    <2>3. \A b \in Blocks : bm'.ref[b] = IF b \in S THEN bm.ref[b] - 1 ELSE bm.ref[b]
      BY <1>0, <1>2, <2>2 DEF FreeHeld, Free, GoodBM, BMType
    <2>4. Balanced(c, held[c] \ S)
      BY <1>2, <2>1, <2>3 DEF Balanced
    <2> QED BY <2>4, StepKeepsIInv
  <1>3. ASSUME NEW c \in Clients, NEW d \in Clients, NEW b \in Blocks, ForkBlock(c, d, b)
        PROVE  IInv'
    <2>1. bm.ref[b] # 0 /\ bm.ref[b] \in Nat
      BY <1>0, <1>3, UnheldIffUnreferenced DEF IInv, Holders, ForkBlock, GoodBM, BMType
    <2>2. bm' = Acquire(bm, {b})
      BY <1>0, <1>3, <2>1 DEF ForkBlock, Fork, Acquire, GoodBM, BMType
    <2>3. Usable(bm, b)
      BY <2>1, BlocksAssumption DEF Usable
    <2>4. GoodBM(bm') /\ \A x \in Blocks : bm'.ref[x] = IF x \in {b} THEN bm.ref[x] + 1 ELSE bm.ref[x]
      BY <1>0, <2>2, <2>3, AcquireGood
    <2>5. /\ held' = [held EXCEPT ![c] = held[c] \union {b}]
          /\ held[c] \union {b} \in SUBSET Blocks /\ b \notin held[c]
      BY <1>0, <1>3 DEF ForkBlock
    <2>6. Balanced(c, held[c] \union {b})
      BY <2>4, <2>5 DEF Balanced
    <2> QED BY <2>6, StepKeepsIInv
  <1>4. ASSUME NEW c \in Clients, NEW b \in Blocks, MakeWritable(c, b)
        PROVE  IInv'
    <2>1. PICK r \in CopyOnWrite(bm, b) :
             /\ bm' = r.next
             /\ held' = [held EXCEPT ![c] = IF r.id = NoBlock THEN @ ELSE (@ \ {b}) \union {r.id}]
      BY <1>4 DEF MakeWritable
    <2>2. GoodBM(bm') /\ b \in held[c]
      BY <1>0, <1>4, <2>1, CopyOnWriteGood DEF MakeWritable
    <2>3. CASE r.id \in {b, NoBlock} /\ \A x \in Blocks : bm'.ref[x] = bm.ref[x]
      <3>1. held' = [held EXCEPT ![c] = held[c]] /\ held[c] \in SUBSET Blocks
        BY <1>0, <2>1, <2>2, <2>3
      <3>2. Balanced(c, held[c])
        BY <2>2, <2>3, <3>1 DEF Balanced
      <3> QED BY <3>2, StepKeepsIInv
    <2>4. CASE /\ r.id \in Blocks \ {b}
               /\ \A x \in Blocks : bm'.ref[x] = IF x = r.id THEN 1
                                                ELSE IF x = b THEN bm.ref[x] - 1 ELSE bm.ref[x]
               /\ bm.ref[r.id] = 0
      <3> DEFINE H == (held[c] \ {b}) \union {r.id}
      <3>1. held' = [held EXCEPT ![c] = H] /\ H \in SUBSET Blocks
        BY <1>0, <2>1, <2>4, BlocksAssumption
      <3>2. r.id \notin held[c]
        BY <2>4, UnheldIffUnreferenced DEF IInv, Holders
      <3>3. \A x \in Blocks : bm'.ref[x] = IF x \in H \ held[c] THEN bm.ref[x] + 1
                                          ELSE IF x \in held[c] \ H THEN bm.ref[x] - 1 ELSE bm.ref[x]
        BY <2>2, <2>4, <3>2
      <3>4. Balanced(c, H)
        BY <2>2, <3>1, <3>3 DEF Balanced
      <3> HIDE DEF H
      <3> QED BY <3>4, StepKeepsIInv
    <2> QED BY <1>0, <2>1, <2>3, <2>4, CopyOnWriteGood
  <1>5. ASSUME NEW c \in Clients, NEW p \in Prompts, NEW s \in BOOLEAN, LookupPrefix(c, p, s)
        PROVE  IInv'
    <2> DEFINE hits == {bm.cache[p[i].hash] : i \in Reused(bm, p, s)}
    <2>1. bm' = Acquire(bm, hits) /\ held' = [held EXCEPT ![c] = hits] /\ held[c] = {}
      BY <1>5 DEF LookupPrefix
    <2>2. \A b \in hits : b \in Blocks /\ Usable(bm, b)
      <3> SUFFICES ASSUME NEW i \in Reused(bm, p, s)
                   PROVE  bm.cache[p[i].hash] \in Blocks /\ Usable(bm, bm.cache[p[i].hash])
        OBVIOUS
      <3>1. VerifiedHit(bm, p[i].hash, p[i].toks)
        BY DEF Reused, HitRun
      <3>2. p[i].hash \in Hashes
        <4>1. p \in Seq([hash : Hashes, toks : TokenSeqs]) /\ i \in 1 .. Len(p)
          BY PromptsAssumption DEF Reused
        <4>2. p[i] \in [hash : Hashes, toks : TokenSeqs]
          BY <4>1, ElementOfSeq
        <4> QED BY <4>2
      <3> QED BY <1>0, <3>1, <3>2 DEF VerifiedHit, HashHit, Usable, GoodBM, BMType
    <2> HIDE DEF hits
    <2>3. GoodBM(bm') /\ \A b \in Blocks : bm'.ref[b] = IF b \in hits THEN bm.ref[b] + 1 ELSE bm.ref[b]
      BY <1>0, <2>1, <2>2, AcquireGood
    <2>4. Balanced(c, hits)
      BY <2>1, <2>2, <2>3 DEF Balanced
    <2> QED BY <2>4, StepKeepsIInv
  <1>6. ASSUME NEW c \in Clients, NEW h \in Hashes, LookupHash(c, h)
        PROVE  IInv'
    <2>1. bm.cache[h] \in Blocks /\ Usable(bm, bm.cache[h])
      BY <1>0, <1>6 DEF LookupHash, HashHit, Usable, GoodBM, BMType
    <2>2. bm' = Acquire(bm, {bm.cache[h]})
      BY <1>6 DEF LookupHash
    <2>3. GoodBM(bm') /\ \A b \in Blocks : bm'.ref[b] = IF b = bm.cache[h] THEN bm.ref[b] + 1 ELSE bm.ref[b]
      BY <1>0, <2>1, <2>2, AcquireGood
    <2>4. /\ held' = [held EXCEPT ![c] = held[c] \union {bm.cache[h]}]
          /\ held[c] \union {bm.cache[h]} \in SUBSET Blocks
          /\ bm.cache[h] \notin held[c]
      BY <1>0, <1>6, <2>1 DEF LookupHash
    <2>5. Balanced(c, held[c] \union {bm.cache[h]})
      BY <2>3, <2>4 DEF Balanced
    <2> QED BY <2>5, StepKeepsIInv
  <1>7. ASSUME GoodBM(bm'), bm'.ref = bm.ref, held' = held
        PROVE  IInv'
    <2>1. \A b \in Blocks : Holders(b)' = Holders(b)
      BY <1>7 DEF Holders
    <2> QED BY <1>7, <2>1 DEF IInv, TypeOK, GoodBM, CacheCoherent, RefsAccounted
  <1>8. ASSUME NEW b \in Blocks, NEW h \in Hashes, NEW t \in TokenSeqs \union {NoTokens},
               NEW s \in BOOLEAN, RegisterTokens(b, h, t, s)
        PROVE  IInv'
    BY <1>0, <1>7, <1>8, RegisterGood DEF RegisterTokens
  <1>9. ASSUME NEW b \in Blocks, NEW h \in Hashes, RegisterHash(b, h)
        PROVE  IInv'
    <2> DEFINE moved == bm.resident[b] /\ bm.hash[b] \notin {NoHash, h}
               t == IF moved THEN NoTokens ELSE bm.toks[b]
               s == ~moved /\ bm.snap[b]
    <2>1. t \in TokenSeqs \union {NoTokens} /\ s \in BOOLEAN
      BY <1>0 DEF GoodBM, BMType
    <2>2. bm' = RegisterWithTokens(bm, b, h, t, s) /\ held' = held
      BY <1>9 DEF RegisterHash, RegisterPrefixBlock
    <2> HIDE DEF t, s
    <2> QED BY <1>0, <1>7, <2>1, <2>2, RegisterGood
  <1>10. ASSUME NEW b \in Blocks, UnregisterPrefixBlock(b)
         PROVE  IInv'
    <2>1. ReleaseResidency(bm, b).ref = bm.ref
      BY <1>0 DEF ReleaseResidency, GoodBM, BMType
    <2> QED BY <1>0, <1>7, <1>10, <2>1, ReleaseResidencyGood DEF UnregisterPrefixBlock
  <1>11. CASE UNCHANGED vars
    BY <1>0, <1>7, <1>11 DEF vars
  <1> QED BY <1>1, <1>2, <1>3, <1>4, <1>5, <1>6, <1>8, <1>9, <1>10, <1>11
          DEF Next, ClientNext, CacheNext

(***************************************************************************)
(* The invariant that carries the others holds in every reachable state.   *)
(***************************************************************************)
THEOREM InductiveInvariant == Spec => []IInv
  BY IInvInit, IInvStep, PTL DEF Spec

(***************************************************************************)
(* BlockManager's members keep their types: no reference count or free     *)
(* list entry ever goes below zero.                                        *)
(***************************************************************************)
THEOREM TypeCorrect == Spec => []TypeOK
  <1>1. IInv => TypeOK
    BY DEF IInv
  <1> QED BY <1>1, InductiveInvariant, PTL

(***************************************************************************)
(* ref_count is the number of holders, in every reachable state.           *)
(***************************************************************************)
THEOREM RefsAlwaysAccounted == Spec => []RefsAccounted
  <1>1. IInv => RefsAccounted
    BY DEF IInv
  <1> QED BY <1>1, InductiveInvariant, PTL

(***************************************************************************)
(* No block is on a free list twice, or while it is held or cached.        *)
(***************************************************************************)
THEOREM FreeListAlwaysExclusive == Spec => []FreeListExclusive
  <1>1. IInv => FreeListExclusive
    <2> SUFFICES ASSUME IInv, NEW b \in Blocks, bm.free[b] > 0
                 PROVE  bm.free[b] = 1 /\ Holders(b) = {} /\ ~bm.resident[b]
      BY DEF FreeListExclusive
    <2>1. bm.free[b] = 1 /\ bm.ref[b] = 0 /\ ~bm.resident[b]
      BY DEF IInv, FreeExact
    <2> QED BY <2>1, UnheldIffUnreferenced DEF IInv
  <1> QED BY <1>1, InductiveInvariant, PTL

(***************************************************************************)
(* Every block that nobody holds is free or found by the eviction scan.    *)
(***************************************************************************)
THEOREM NoBlockEverStranded == Spec => []NoBlockStranded
  <1>1. IInv => NoBlockStranded
    <2> SUFFICES ASSUME IInv, NEW b \in Blocks, Holders(b) = {}
                 PROVE  bm.free[b] > 0 \/ b \in Evictable(bm)
      BY DEF NoBlockStranded
    <2>1. bm.ref[b] = 0
      BY UnheldIffUnreferenced DEF IInv
    <2>2. CASE ~bm.resident[b]
      BY <2>1, <2>2 DEF IInv, FreeExact
    <2>3. CASE bm.resident[b]
      <3>1. bm.hash[b] \in Hashes /\ bm.cache[bm.hash[b]] = b
        BY <2>3 DEF IInv, TypeOK, BMType, CacheCoherent, Coherent
      <3> QED BY <2>1, <2>3, <3>1 DEF Evictable
    <2> QED BY <2>2, <2>3
  <1> QED BY <1>1, InductiveInvariant, PTL

(***************************************************************************)
(* prefix_cache and the blocks' cache marks always agree.                  *)
(***************************************************************************)
THEOREM CacheAlwaysCoherent == Spec => []CacheCoherent
  <1>1. IInv => CacheCoherent
    BY DEF IInv
  <1> QED BY <1>1, InductiveInvariant, PTL
-----------------------------------------------------------------------------
(***************************************************************************)
(* Between the manager states m and n an idle cached block became          *)
(* somebody's private block.                                               *)
(***************************************************************************)
Taken(m, n, b) == m.resident[b] /\ m.ref[b] = 0 /\ ~n.resident[b] /\ n.ref[b] = 1

(***************************************************************************)
(* Of the blocks claimed, only the evicted ones were cached.               *)
(***************************************************************************)
LEMMA ClaimTakes ==
  ASSUME NEW m, GoodBM(m), NEW F \in SUBSET FreeBlocks(m), NEW E \in SUBSET Evictable(m),
         NEW b \in Blocks, Taken(m, Claim(m, F, E), b)
  PROVE  b \in E
  <1>1. Claim(m, F, E).resident[b] = (b \notin F \union E /\ m.resident[b])
    BY DEF Claim
  <1>2. b \in F \union E
    BY <1>1 DEF Taken
  <1>3. b \notin FreeBlocks(m)
    BY DEF Taken, FreeBlocks, GoodBM, FreeExact
  <1> QED BY <1>2, <1>3

(***************************************************************************)
(* Claiming the whole free list leaves it empty.                           *)
(***************************************************************************)
LEMMA ClaimExhausts ==
  ASSUME NEW m, GoodBM(m), NEW E
  PROVE  FreeBlocks(Claim(m, FreeBlocks(m), E)) = {}
  BY DEF Claim, FreeBlocks, GoodBM, BMType, FreeExact

(***************************************************************************)
(* AllocateSingle evicts only when every shard's free list is empty.       *)
(***************************************************************************)
LEMMA AllocateSingleTakes ==
  ASSUME NEW m, GoodBM(m), NEW a \in AllocateSingle(m), NEW b \in Blocks, Taken(m, a.next, b)
  PROVE  FreeBlocks(a.next) = {}
  <1>1. CASE FreeBlocks(m) # {}
    <2>1. PICK x \in FreeBlocks(m) : a.next = Claim(m, {x}, {})
      BY <1>1, SMTT(30) DEF AllocateSingle
    <2>2. {x} \in SUBSET FreeBlocks(m) /\ {} \in SUBSET Evictable(m)
      OBVIOUS
    <2>3. b \in {}
      BY <2>1, <2>2, ClaimTakes
    <2> QED BY <2>3
  <1>2. CASE FreeBlocks(m) = {} /\ Evictable(m) # {}
    <2>1. PICK x \in Evictable(m) : a.next = Claim(m, FreeBlocks(m), {x})
      BY <1>2 DEF AllocateSingle
    <2> QED BY <2>1, ClaimExhausts
  <1>3. CASE FreeBlocks(m) = {} /\ Evictable(m) = {}
    <2>1. a.next = m
      BY <1>3 DEF AllocateSingle
    <2> QED BY <1>3, <2>1
  <1> QED BY <1>1, <1>2, <1>3

(***************************************************************************)
(* Allocate evicts only what the free lists cannot provide; an allocation  *)
(* that fails hands nothing out.                                           *)
(***************************************************************************)
LEMMA AllocateTakes ==
  ASSUME NEW m, GoodBM(m), NEW n \in Nat, NEW r \in Allocate(m, n),
         NEW b \in Blocks, Taken(m, r.next, b)
  PROVE  FreeBlocks(r.next) = {}
  <1> DEFINE F == FreeBlocks(m)
             E == Evictable(m)
  <1>1. CASE n = 0
    <2>1. r.next = m
      BY <1>1 DEF Allocate
    <2> QED BY <2>1 DEF Taken
  <1>2. CASE n = 1
    <2>1. PICK a \in AllocateSingle(m) : r.next = a.next
      BY <1>2 DEF Allocate
    <2> QED BY <2>1, AllocateSingleTakes
  <1>3. CASE n > 1 /\ Cardinality(F) >= n
    <2>1. PICK S \in SUBSET F : r.next = Claim(m, S, {})
      BY <1>3 DEF Allocate
    <2>2. {} \in SUBSET E
      OBVIOUS
    <2>3. b \in {}
      BY <2>1, <2>2, ClaimTakes
    <2> QED BY <2>3
  <1>4. CASE n > 1 /\ ~(Cardinality(F) >= n) /\ Cardinality(F) + Cardinality(E) >= n
    <2>1. PICK S \in SUBSET E : r.next = Claim(m, F, S)
      BY <1>4 DEF Allocate
    <2> QED BY <2>1, ClaimExhausts
  <1>5. CASE n > 1 /\ ~(Cardinality(F) >= n) /\ ~(Cardinality(F) + Cardinality(E) >= n)
    <2>1. r.ids = {}
      BY <1>5 DEF Allocate
    <2>2. r.next.ref[b] = m.ref[b]
      BY <2>1, AllocateGood
    <2> QED BY <2>2 DEF Taken
  <1> QED BY <1>1, <1>2, <1>3, <1>4, <1>5

(***************************************************************************)
(* CopyOnWrite takes its copy's block as AllocateSingle does; the block it *)
(* leaves was shared, hence not idle.                                      *)
(***************************************************************************)
LEMMA CopyOnWriteTakes ==
  ASSUME NEW m, GoodBM(m), NEW b \in Blocks, NEW r \in CopyOnWrite(m, b),
         NEW x \in Blocks, Taken(m, r.next, x)
  PROVE  FreeBlocks(r.next) = {}
  <1>1. CASE ~IsShared(m, b)
    <2>1. r.next = m
      BY <1>1 DEF CopyOnWrite
    <2> QED BY <2>1 DEF Taken
  <1>2. CASE IsShared(m, b)
    <2>1. PICK a \in AllocateSingle(m) :
             r = [a EXCEPT !.next.ref[b] = IF a.id = NoBlock THEN @ ELSE @ - 1]
      BY <1>2 DEF CopyOnWrite
    <2>2. m.ref[b] > 1 /\ m.ref[x] = 0
      BY <1>2 DEF IsShared, Taken
    <2>3. x # b
      BY <2>2
    <2>4. /\ r.next.free = a.next.free
          /\ r.next.resident = a.next.resident
          /\ r.next.ref[x] = a.next.ref[x]
      BY <2>1, <2>3 DEF AllocateSingle, Claim, GoodBM, BMType
    <2>5. Taken(m, a.next, x)
      BY <2>4 DEF Taken
    <2>6. FreeBlocks(a.next) = {}
      BY <2>5, AllocateSingleTakes
    <2> QED BY <2>4, <2>6 DEF FreeBlocks
  <1> QED BY <1>1, <1>2

(***************************************************************************)
(* What any step may do to an idle cached block.                           *)
(***************************************************************************)
LEMMA StepTakes ==
  ASSUME IInv, [Next]_vars, NEW x \in Blocks, Taken(bm, bm', x)
  PROVE  FreeBlocks(bm') = {}
  <1>0. GoodBM(bm)
    BY DEF IInv, GoodBM, TypeOK, CacheCoherent
  <1>1. ASSUME NEW c \in Clients, NEW n \in 1 .. MaxAlloc, AllocateBlocks(c, n)
        PROVE  FreeBlocks(bm') = {}
    <2>1. PICK r \in Allocate(bm, n) : bm' = r.next
      BY <1>1 DEF AllocateBlocks
    <2>2. n \in Nat
      BY MaxAllocAssumption
    <2> QED BY <1>0, <2>1, <2>2, AllocateTakes
  <1>2. ASSUME NEW c \in Clients, NEW b \in Blocks, MakeWritable(c, b)
        PROVE  FreeBlocks(bm') = {}
    <2>1. PICK r \in CopyOnWrite(bm, b) : bm' = r.next
      BY <1>2 DEF MakeWritable
    <2> QED BY <1>0, <2>1, CopyOnWriteTakes
  <1>3. ASSUME bm'.resident = bm.resident PROVE FALSE
    BY <1>3 DEF Taken
  <1>4. ASSUME bm'.ref = bm.ref PROVE FALSE
    BY <1>4 DEF Taken
  <1>5. ASSUME NEW c \in Clients, NEW S \in SUBSET held[c], FreeHeld(c, S)
        PROVE  FALSE
    BY <1>3, <1>5 DEF FreeHeld, Free
  <1>6. ASSUME NEW c \in Clients, NEW d \in Clients, NEW b \in Blocks, ForkBlock(c, d, b)
        PROVE  FALSE
    BY <1>0, <1>3, <1>6 DEF ForkBlock, Fork, GoodBM, BMType
  <1>7. ASSUME NEW S, bm' = Acquire(bm, S) PROVE FALSE
    BY <1>0, <1>3, <1>7 DEF Acquire, GoodBM, BMType
  <1>8. ASSUME NEW c \in Clients, NEW p \in Prompts, NEW s \in BOOLEAN, LookupPrefix(c, p, s)
        PROVE  FALSE
    BY <1>7, <1>8 DEF LookupPrefix
  <1>9. ASSUME NEW c \in Clients, NEW h \in Hashes, LookupHash(c, h)
        PROVE  FALSE
    BY <1>7, <1>9 DEF LookupHash
  <1>10. ASSUME NEW b \in Blocks, NEW h \in Hashes, NEW t \in TokenSeqs \union {NoTokens},
                NEW s \in BOOLEAN, bm' = RegisterWithTokens(bm, b, h, t, s)
         PROVE  FALSE
    BY <1>0, <1>4, <1>10, RegisterGood
  <1>11. ASSUME NEW b \in Blocks, NEW h \in Hashes, RegisterHash(b, h)
         PROVE  FALSE
    <2> DEFINE moved == bm.resident[b] /\ bm.hash[b] \notin {NoHash, h}
               t == IF moved THEN NoTokens ELSE bm.toks[b]
               s == ~moved /\ bm.snap[b]
    <2>1. t \in TokenSeqs \union {NoTokens} /\ s \in BOOLEAN
      BY <1>0 DEF GoodBM, BMType
    <2>2. bm' = RegisterWithTokens(bm, b, h, t, s)
      BY <1>11 DEF RegisterHash, RegisterPrefixBlock
    <2> HIDE DEF t, s
    <2> QED BY <1>10, <2>1, <2>2
  <1>12. ASSUME NEW b \in Blocks, UnregisterPrefixBlock(b)
         PROVE  FALSE
    <2>1. ReleaseResidency(bm, b).ref = bm.ref
      BY <1>0 DEF ReleaseResidency, GoodBM, BMType
    <2> QED BY <1>4, <1>12, <2>1 DEF UnregisterPrefixBlock
  <1>13. CASE UNCHANGED vars
    BY <1>4, <1>13 DEF vars
  <1> QED BY <1>1, <1>2, <1>5, <1>6, <1>8, <1>9, <1>10, <1>11, <1>12, <1>13
          DEF Next, ClientNext, CacheNext, RegisterTokens

(***************************************************************************)
(* A cached block is taken for new contents only when no free block is     *)
(* left, in every step of every behaviour.                                 *)
(***************************************************************************)
THEOREM EvictsOnlyUnderPressure == Spec => EvictOnlyUnderPressure
  <1>1. IInv /\ [Next]_vars => [\A b \in Blocks :
          (bm.resident[b] /\ bm.ref[b] = 0 /\ ~bm'.resident[b] /\ bm'.ref[b] = 1)
              => FreeBlocks(bm') = {}]_vars
    BY StepTakes DEF Taken
  <1> QED BY <1>1, InductiveInvariant, PTL DEF Spec, EvictOnlyUnderPressure
=============================================================================
