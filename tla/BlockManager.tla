---------------------------- MODULE BlockManager ----------------------------
(***************************************************************************)
(* The operations of BlockManager                                          *)
(* (src/core/src/runtime/memory/kv_cache_block_manager.cpp), the owner of  *)
(* the physical blocks of the paged KV cache, as functions from one state  *)
(* of the manager to the next.  KVBlocks.tla runs them against arbitrary   *)
(* clients, EngineLoop.tla against the scheduler and the worker.           *)
(*                                                                         *)
(* A state m is a record of the manager's members:                         *)
(*   ref       PhysicalBlock::ref_count                                    *)
(*   free      how often a block stands on its shard's free list           *)
(*   hash      PhysicalBlock::content_hash (0 is NoHash)                   *)
(*   resident  PhysicalBlock::cache_resident                               *)
(*   cache     prefix_cache, hash -> block                                 *)
(*   toks      block_tokens, block -> the tokens it was registered with    *)
(*   snap      block_hybrid_ssm_snapshots: is there a valid snapshot?      *)
(*                                                                         *)
(* The sixteen shards and the order of their free lists only decide WHICH  *)
(* free block is handed out: here any of them may be.  All callers run on  *)
(* the engine's single worker thread, so an operation is one step.         *)
(* num_filled_slots is written but never read by the engine and left out.  *)
(*                                                                         *)
(* Definitions named Bug... are deliberately wrong variants of the one     *)
(* they precede; PROJECT.json uses them to show that a property notices    *)
(* the mistake.  No specification refers to them.                          *)
(***************************************************************************)
EXTENDS Integers, Sequences, FiniteSets, FiniteSetsExt

CONSTANTS Blocks,      \* physical block ids
          Hashes,      \* non-zero content hashes
          TokenSeqs,   \* token contents of a full block
          NoBlock,     \* block id -1
          NoHash,      \* content_hash 0
          NoTokens     \* no entry in block_tokens

ASSUME BlocksAssumption == IsFiniteSet(Blocks) /\ NoBlock \notin Blocks
ASSUME HashesAssumption == NoHash \notin Hashes
ASSUME TokensAssumption == NoTokens \notin TokenSeqs

BMType == [ref      : [Blocks -> Nat],
           free     : [Blocks -> Nat],
           hash     : [Blocks -> Hashes \union {NoHash}],
           resident : [Blocks -> BOOLEAN],
           cache    : [Hashes -> Blocks \union {NoBlock}],
           toks     : [Blocks -> TokenSeqs \union {NoTokens}],
           snap     : [Blocks -> BOOLEAN]]

BMInit == [ref      |-> [b \in Blocks |-> 0],
           free     |-> [b \in Blocks |-> 1],
           hash     |-> [b \in Blocks |-> NoHash],
           resident |-> [b \in Blocks |-> FALSE],
           cache    |-> [h \in Hashes |-> NoBlock],
           toks     |-> [b \in Blocks |-> NoTokens],
           snap     |-> [b \in Blocks |-> FALSE]]

FreeBlocks(m) == {b \in Blocks : m.free[b] > 0}

GetFreeBlockCount(m) == MapThenSumSet(LAMBDA b : m.free[b], Blocks)

\* What TryEvictIdlePrefixBlockForAllocation may pick.
Evictable(m) == {b \in Blocks : /\ m.resident[b]
                                 /\ m.ref[b] = 0
                                 /\ \E h \in Hashes : m.cache[h] = b /\ m.hash[b] = h}

\* An evicted block is popped from a free list as well.
BugClaim(m, F, E) ==
    [m EXCEPT
        !.ref  = [b \in Blocks |-> IF b \in F \union E THEN 1 ELSE m.ref[b]],
        !.free = [b \in Blocks |-> IF b \in F \union E THEN m.free[b] - 1 ELSE m.free[b]],
        !.resident = [b \in Blocks |-> b \notin F \union E /\ m.resident[b]]]

(***************************************************************************)
(* Pop F from the free lists, evict E from the prefix cache and reset both *)
(* to a private block of one reference (ResetAllocatedBlock).              *)
(***************************************************************************)
Claim(m, F, E) ==
    [ref      |-> [b \in Blocks |-> IF b \in F \union E THEN 1 ELSE m.ref[b]],
     free     |-> [b \in Blocks |-> IF b \in F THEN m.free[b] - 1 ELSE m.free[b]],
     hash     |-> [b \in Blocks |-> IF b \in F \union E THEN NoHash ELSE m.hash[b]],
     resident |-> [b \in Blocks |-> b \notin F \union E /\ m.resident[b]],
     cache    |-> [h \in Hashes |-> IF m.cache[h] \in E THEN NoBlock ELSE m.cache[h]],
     toks     |-> [b \in Blocks |-> IF b \in E THEN NoTokens ELSE m.toks[b]],
     snap     |-> [b \in Blocks |-> b \notin E /\ m.snap[b]]]

(***************************************************************************)
(* FreeSingle for every block of S: a block without references is ignored, *)
(* one that still has references or is cached stays, the others go back to *)
(* the free list.                                                          *)
(***************************************************************************)
BugReleased(m, S) == {b \in S : m.ref[b] = 1}   \* cached blocks too

Released(m, S) == {b \in S : m.ref[b] = 1 /\ ~m.resident[b]}

Free(m, S) ==
    [ref      |-> [b \in Blocks |-> IF b \in S /\ m.ref[b] > 0 THEN m.ref[b] - 1 ELSE m.ref[b]],
     free     |-> [b \in Blocks |-> IF b \in Released(m, S) THEN m.free[b] + 1 ELSE m.free[b]],
     hash     |-> [b \in Blocks |-> IF b \in Released(m, S) THEN NoHash ELSE m.hash[b]],
     resident |-> m.resident,
     cache    |-> m.cache,
     toks     |-> m.toks,
     snap     |-> m.snap]

\* AllocateSingle(): a free block, else an idle cached one, else -1.
AllocateSingle(m) ==
    IF FreeBlocks(m) # {} THEN {[id |-> b, next |-> Claim(m, {b}, {})] : b \in FreeBlocks(m)}
    ELSE IF Evictable(m) # {} THEN {[id |-> b, next |-> Claim(m, {}, {b})] : b \in Evictable(m)}
    ELSE {[id |-> NoBlock, next |-> m]}

\* Eviction before the free lists are used up.
BugAllocate(m, n) ==
    LET E == Evictable(m)
        F == FreeBlocks(m)
    IN  IF Cardinality(E) >= n
        THEN {[ids |-> S, next |-> Claim(m, {}, S)] : S \in {X \in SUBSET E : Cardinality(X) = n}}
        ELSE {[ids |-> S, next |-> Claim(m, S, {})] : S \in {X \in SUBSET F : Cardinality(X) = n}}

(***************************************************************************)
(* Allocate(n): the free lists first, then idle cached blocks.  The result *)
(* is the set of the blocks obtained, empty when there are too few; the    *)
(* blocks evicted on the way to that failure are freed, but their cache    *)
(* entries stay lost.                                                      *)
(***************************************************************************)
Allocate(m, n) ==
    LET F == FreeBlocks(m)
        E == Evictable(m)
    IN  IF n <= 0 THEN {[ids |-> {}, next |-> m]}
        ELSE IF n = 1 THEN {[ids |-> {r.id} \ {NoBlock}, next |-> r.next] : r \in AllocateSingle(m)}
        ELSE IF Cardinality(F) >= n
        THEN {[ids |-> S, next |-> Claim(m, S, {})] : S \in {X \in SUBSET F : Cardinality(X) = n}}
        ELSE IF Cardinality(F) + Cardinality(E) >= n
        THEN {[ids |-> F \union S, next |-> Claim(m, F, S)] :
                  S \in {X \in SUBSET E : Cardinality(X) = n - Cardinality(F)}}
        ELSE {[ids |-> {}, next |-> Free(Claim(m, F, E), F \union E)]}

Fork(m, b) == IF m.ref[b] <= 0 THEN m ELSE [m EXCEPT !.ref[b] = @ + 1]

BugIsShared(m, b) == m.ref[b] >= 1   \* off by one

IsShared(m, b) == m.ref[b] > 1

\* The old block keeps its reference.
BugCopyOnWrite(m, b) == IF IsShared(m, b) THEN AllocateSingle(m) ELSE {[id |-> b, next |-> m]}

\* The copy itself is the callback's; the old block loses one reference.
CopyOnWrite(m, b) ==
    IF ~IsShared(m, b) THEN {[id |-> b, next |-> m]}
    ELSE {[r EXCEPT !.next.ref[b] = IF r.id = NoBlock THEN @ ELSE @ - 1] : r \in AllocateSingle(m)}

(***************************************************************************)
(* Prefix cache.  A lookup by hash finds a block that is still usable; the *)
(* verified lookup also compares the tokens the block was registered with. *)
(***************************************************************************)
Usable(m, b) == b # NoBlock /\ (m.resident[b] \/ m.ref[b] > 0)

HashHit(m, h) == Usable(m, m.cache[h])

VerifiedHit(m, h, t) == HashHit(m, h) /\ t # NoTokens /\ m.toks[m.cache[h]] = t

\* One more reference on every block of S.
Acquire(m, S) == [m EXCEPT !.ref = [b \in Blocks |-> IF b \in S THEN m.ref[b] + 1 ELSE m.ref[b]]]

(***************************************************************************)
(* The longest run of blocks cached for keys, a sequence of records [hash, *)
(* toks] with the cumulative-prefix hash and the local tokens of every     *)
(* full block that may be reused; with needSnap, cut back to the last one  *)
(* with a snapshot.  FindLongest returns the blocks in order.  Acquiring   *)
(* and then freeing the blocks beyond the cut leaves them as they were.    *)
(***************************************************************************)
HitRun(m, keys) ==
    {n \in 1 .. Len(keys) : \A i \in 1 .. n : VerifiedHit(m, keys[i].hash, keys[i].toks)}

Reused(m, keys, needSnap) ==
    {i \in 1 .. Len(keys) : \E n \in HitRun(m, keys) :
                               i <= n /\ (needSnap => m.snap[m.cache[keys[n].hash]])}

FindLongest(m, keys, needSnap) ==
    [i \in 1 .. Cardinality(Reused(m, keys, needSnap)) |-> m.cache[keys[i].hash]]

\* The entry of prefix_cache is left behind.
BugReleaseResidency(m, b) ==
    IF ~m.resident[b] THEN m
    ELSE [m EXCEPT !.hash[b] = NoHash, !.resident[b] = FALSE, !.toks[b] = NoTokens,
                    !.snap[b] = FALSE, !.free[b] = IF m.ref[b] = 0 THEN @ + 1 ELSE @]

(***************************************************************************)
(* ReleasePrefixResidency: b leaves the cache and, if nobody references    *)
(* it, returns to the free list.                                           *)
(***************************************************************************)
ReleaseResidency(m, b) ==
    IF ~m.resident[b] THEN m
    ELSE [m EXCEPT
             !.cache = [h \in Hashes |-> IF h = m.hash[b] /\ m.cache[h] = b
                                         THEN NoBlock ELSE m.cache[h]],
             !.hash[b] = NoHash,
             !.resident[b] = FALSE,
             !.toks[b] = NoTokens,
             !.snap[b] = FALSE,
             !.free[b] = IF m.ref[b] = 0 THEN @ + 1 ELSE @]

\* Another block registered under the hash gives way first.
Displaced(m, b, h) ==
    IF m.cache[h] \in {NoBlock, b} THEN m ELSE ReleaseResidency(m, m.cache[h])

\* RegisterPrefixBlockWithTokens; t may be NoTokens.
RegisterWithTokens(m, b, h, t, s) ==
    LET d == Displaced(m, b, h)
    IN  IF d.ref[b] <= 0 /\ ~d.resident[b] THEN d
        ELSE [d EXCEPT
                 !.cache = [x \in Hashes |->
                               IF x = h THEN b
                               ELSE IF d.resident[b] /\ x = d.hash[b] /\ d.cache[x] = b THEN NoBlock
                               ELSE d.cache[x]],
                 !.hash[b] = h,
                 !.resident[b] = TRUE,
                 !.toks[b] = t,
                 !.snap[b] = s]

\* RegisterPrefixBlock: the stored tokens survive unless the hash changes.
RegisterPrefixBlock(m, b, h) ==
    LET moved == m.resident[b] /\ m.hash[b] \notin {NoHash, h}
    IN  RegisterWithTokens(m, b, h,
                           IF moved THEN NoTokens ELSE m.toks[b],
                           ~moved /\ m.snap[b])
-----------------------------------------------------------------------------
\* Invariants of a manager state; KVBlocks.tla says what they mean for clients.

\* The free lists hold every block without a reference that is not cached, once.
FreeExact(m) ==
    \A b \in Blocks : m.free[b] = IF m.ref[b] = 0 /\ ~m.resident[b] THEN 1 ELSE 0

\* prefix_cache agrees with the marks on the blocks.
Coherent(m) ==
    /\ \A h \in Hashes : m.cache[h] # NoBlock => m.resident[m.cache[h]] /\ m.hash[m.cache[h]] = h
    /\ \A b \in Blocks :
        IF m.resident[b] THEN m.hash[b] # NoHash /\ m.cache[m.hash[b]] = b
        ELSE m.hash[b] = NoHash /\ m.toks[b] = NoTokens /\ ~m.snap[b]
=============================================================================
