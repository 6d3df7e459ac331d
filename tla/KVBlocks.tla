------------------------------ MODULE KVBlocks ------------------------------
(***************************************************************************)
(* The BlockManager together with clients that call it in any order: what  *)
(* the manager guarantees to every caller that frees only what it holds.   *)
(*                                                                         *)
(* A client is a sequence of the engine; held[c] are the blocks it has     *)
(* obtained (by Allocate, Fork, a prefix-cache hit or CopyOnWrite) and not *)
(* yet freed.  held is a history variable: the manager itself only counts  *)
(* references.                                                             *)
(***************************************************************************)
EXTENDS BlockManager

CONSTANTS Clients,   \* sequences that use the manager
          Prompts,   \* the block keys of the prompts that are looked up
          MaxAlloc   \* bound on the blocks asked for in one Allocate call

ASSUME ClientsAssumption == IsFiniteSet(Clients)
ASSUME MaxAllocAssumption == MaxAlloc \in Nat
\* Each block of a prompt is keyed by the hash of the whole prefix it ends,
\* so no two blocks of one prompt share a key.
ASSUME PromptsAssumption ==
    \A p \in Prompts : /\ p \in Seq([hash : Hashes, toks : TokenSeqs])
                       /\ \A i, j \in 1 .. Len(p) : p[i].hash = p[j].hash => i = j

VARIABLES bm,     \* the manager's state
          held    \* blocks each client holds
vars == <<bm, held>>

Init == bm = BMInit /\ held = [c \in Clients |-> {}]

AllocateBlocks(c, n) ==
    \E r \in Allocate(bm, n) :
        /\ bm' = r.next
        /\ held' = [held EXCEPT ![c] = @ \union r.ids]

FreeHeld(c, S) ==
    /\ S \subseteq held[c]
    /\ bm' = Free(bm, S)
    /\ held' = [held EXCEPT ![c] = @ \ S]

\* ForkSequence shares a block of sequence d with the child c.
ForkBlock(c, d, b) ==
    /\ b \in held[d] \ held[c]
    /\ bm' = Fork(bm, b)
    /\ held' = [held EXCEPT ![c] = @ \union {b}]

\* Before writing, the client makes the block private; -1 leaves it shared.
MakeWritable(c, b) ==
    /\ b \in held[c]
    /\ \E r \in CopyOnWrite(bm, b) :
        /\ bm' = r.next
        /\ held' = [held EXCEPT ![c] = IF r.id = NoBlock THEN @ ELSE (@ \ {b}) \union {r.id}]

\* A new sequence looks its prompt up (FindLongestCachedPrefixWithVerification).
LookupPrefix(c, p, needSnap) ==
    /\ held[c] = {}
    /\ LET hits == {bm.cache[p[i].hash] : i \in Reused(bm, p, needSnap)}
       IN  /\ bm' = Acquire(bm, hits)
           /\ held' = [held EXCEPT ![c] = hits]

\* FindCachedBlock: the unverified lookup of one block.
LookupHash(c, h) ==
    /\ HashHit(bm, h)
    /\ bm.cache[h] \notin held[c]
    /\ bm' = Acquire(bm, {bm.cache[h]})
    /\ held' = [held EXCEPT ![c] = @ \union {bm.cache[h]}]

RegisterTokens(b, h, t, s) == bm' = RegisterWithTokens(bm, b, h, t, s) /\ UNCHANGED held

RegisterHash(b, h) == bm' = RegisterPrefixBlock(bm, b, h) /\ UNCHANGED held

UnregisterPrefixBlock(b) == bm' = ReleaseResidency(bm, b) /\ UNCHANGED held

ClientNext(c) ==
    \/ \E n \in 1 .. MaxAlloc : AllocateBlocks(c, n)
    \/ \E S \in SUBSET held[c] : FreeHeld(c, S)
    \/ \E d \in Clients, b \in Blocks : ForkBlock(c, d, b)
    \/ \E b \in Blocks : MakeWritable(c, b)
    \/ \E p \in Prompts, needSnap \in BOOLEAN : LookupPrefix(c, p, needSnap)
    \/ \E h \in Hashes : LookupHash(c, h)

CacheNext ==
    \E b \in Blocks :
        \/ \E h \in Hashes, t \in TokenSeqs \union {NoTokens}, s \in BOOLEAN : RegisterTokens(b, h, t, s)
        \/ \E h \in Hashes : RegisterHash(b, h)
        \/ UnregisterPrefixBlock(b)

Next == (\E c \in Clients : ClientNext(c)) \/ CacheNext

Spec == Init /\ [][Next]_vars
-----------------------------------------------------------------------------
\* The sequences that hold b.
Holders(b) == {c \in Clients : b \in held[c]}

\* The members of BlockManager keep their types; no count goes below zero.
TypeOK == bm \in BMType /\ held \in [Clients -> SUBSET Blocks]

(***************************************************************************)
(* Every reference count is the number of sequences holding the block      *)
(* ("Active request references for CoW", kv_cache.h), although             *)
(* ResetAllocatedBlock overwrites the count and CopyOnWrite decrements it  *)
(* without looking whether it reached zero.                                *)
(***************************************************************************)
RefsAccounted == \A b \in Blocks : bm.ref[b] = Cardinality(Holders(b))

(***************************************************************************)
(* A block on a free list stands there once, is held by nobody and is not  *)
(* in the prefix cache: no allocation can hand out a block twice, or one   *)
(* that a sequence or a later lookup still reads.                          *)
(***************************************************************************)
FreeListExclusive ==
    \A b \in Blocks : bm.free[b] > 0 => bm.free[b] = 1 /\ Holders(b) = {} /\ ~bm.resident[b]

(***************************************************************************)
(* A block that nobody holds can be allocated again: it is on the free     *)
(* list, or cached where the eviction scan finds it.                       *)
(***************************************************************************)
NoBlockStranded ==
    \A b \in Blocks : Holders(b) = {} => bm.free[b] > 0 \/ b \in Evictable(bm)

(***************************************************************************)
(* prefix_cache and the blocks' own cache marks describe the same relation *)
(* and stored tokens or snapshots exist only for cached blocks.            *)
(***************************************************************************)
CacheCoherent == Coherent(bm)

(***************************************************************************)
(* Allocation takes a cached block away only under pressure: when an idle  *)
(* cached block becomes somebody's private block, no free block is left.   *)
(***************************************************************************)
EvictOnlyUnderPressure ==
    [][\A b \in Blocks :
          (bm.resident[b] /\ bm.ref[b] = 0 /\ ~bm'.resident[b] /\ bm'.ref[b] = 1)
              => FreeBlocks(bm') = {}]_vars
-----------------------------------------------------------------------------
(***************************************************************************)
(* The inductive invariant behind these (KVBlocks_proofs.tla): the free    *)
(* list is exactly the unreferenced blocks that are not cached.            *)
(***************************************************************************)
IInv == TypeOK /\ FreeExact(bm) /\ CacheCoherent /\ RefsAccounted
=============================================================================
