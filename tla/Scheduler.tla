------------------------------ MODULE Scheduler ------------------------------
(***************************************************************************)
(* The continuous-batching scheduler (src/core/src/runtime/scheduler.cpp,  *)
(* scheduler_queue.cpp), as functions on its state; EngineLoop.tla runs    *)
(* them inside the worker's iteration.                                     *)
(*                                                                         *)
(* A state s is a record of the scheduler's members.  A request has one    *)
(* sequence (AddRequest makes no other), so sequences are named by their   *)
(* request and the maps keyed by seq_id become functions on Reqs:          *)
(*   waiting, running, swapped   waiting_queue_, running_seqs_, swapped_.. *)
(*   rem, shared   SequenceGroup::num_tokens_to_process, shared_block_ids  *)
(*   ctx, gen      seq_context_len_, seq_generated_tokens_                 *)
(*   sblk          seq_block_ids_                                          *)
(*   arr, clock    seq_arrival_ and the clock it is read from              *)
(*   streak        consecutive_decode_batches_                             *)
(* The waiting queue is sorted afresh by (priority, arrival) whenever it   *)
(* is read, so it is kept as a set.                                        *)
(*                                                                         *)
(* The configuration is the one BuildRuntimeSchedulerConfig makes: phases  *)
(* isolated with mixed admission, chunked prefill, no MoE clustering, any  *)
(* mix of contexts in a decode batch.                                      *)
(***************************************************************************)
EXTENDS BlockManager, SequencesExt

CONSTANTS Reqs,         \* requests
          NoReq,        \* diagnostic_seq_id -1
          Prompt,       \* Prompt[r]: the tokens of r's prompt
          Prio,         \* Prio[r]: smaller is more urgent
          Embeds,       \* embedding requests: prefill only, never chunked
          BlockSize,    \* BLOCK_SIZE
          PrefixCache,  \* is prefix reuse allowed for the model?
          Config        \* SchedulerConfig

ASSUME ReqsAssumption == IsFiniteSet(Reqs) /\ NoReq \notin Reqs /\ Embeds \subseteq Reqs
ASSUME BlockSizeAssumption == BlockSize \in Nat \ {0}
ASSUME ConfigAssumption ==
    Config \in [max_num_seqs : Nat \ {0}, max_num_batched_tokens : Nat \ {0}, max_prefill_tokens : Nat,
                max_prefill_seqs : Nat, max_parallel_prefill_chunk_tokens : Nat,
                max_mixed_prefill_tokens : Nat, max_consecutive_decode_batches : Nat,
                fill_slots_before_first_decode : BOOLEAN, watermark_high_percent : Nat]

PromptLen(r) == Len(Prompt[r])
BlocksNeeded(n) == (n + BlockSize - 1) \div BlockSize
NumBlocks == Cardinality(Blocks)

\* The hash of a prefix is the prefix: ComputeTokenHash without collisions.
PrefixHash(r, n) == SubSeq(Prompt[r], 1, n * BlockSize)
BlockTokens(r, n) == SubSeq(Prompt[r], (n - 1) * BlockSize + 1, n * BlockSize)

\* The blocks a lookup may reuse: full ones, leaving a token to execute.
PrefixKeys(r) == [n \in 1 .. (PromptLen(r) - 1) \div BlockSize |->
                     [hash |-> PrefixHash(r, n), toks |-> BlockTokens(r, n)]]

ASSUME PromptAssumption == \A r \in Reqs :
    /\ Prompt[r] \in Seq(Range(Prompt[r]))
    /\ PrefixCache => \A n \in 1 .. PromptLen(r) \div BlockSize :
                         PrefixHash(r, n) \in Hashes /\ BlockTokens(r, n) \in TokenSeqs

SchedInit == [waiting |-> {}, running |-> {}, swapped |-> {},
              rem |-> [r \in Reqs |-> 0], shared |-> [r \in Reqs |-> <<>>],
              ctx |-> [r \in Reqs |-> 0], gen |-> [r \in Reqs |-> 0],
              sblk |-> [r \in Reqs |-> <<>>],
              arr |-> [r \in Reqs |-> 0], clock |-> 0, streak |-> 0]

\* SchedulerOutput
NoOutput == [prefill |-> <<>>, decode |-> <<>>, preempted |-> {}, swapin |-> {},
             alloc |-> [r \in Reqs |-> <<>>], hits |-> [r \in Reqs |-> <<>>],
             chunk |-> [r \in Reqs |-> 0], total |-> 0, bctx |-> -1,
             blocked |-> FALSE, unsched |-> FALSE, diag |-> NoReq]

IsEmptyOutput(o) == o.prefill = <<>> /\ o.decode = <<>>

-----------------------------------------------------------------------------
(***************************************************************************)
(* Schedule() is computed on records x = [s, m, o]: the scheduler, the     *)
(* blocks and the output so far.  Which free block is handed out is open,  *)
(* so a stage yields the set of its possible results.                      *)
(***************************************************************************)
Visit(op(_, _), x, order) ==
    FoldLeft(LAMBDA X, r : UNION {op(y, r) : y \in X}, {x}, order)

\* Allocate with the blocks in the order they were obtained.
AllocateSeq(m, n) ==
    UNION {{[ids |-> q, next |-> a.next] : q \in SetToSeqs(a.ids)} : a \in Allocate(m, n)}

\* AddRequest rejects what can neither be chunked nor fit one batch.
Rejected(r) == r \in Embeds /\ PromptLen(r) > Config.max_num_batched_tokens

CachedPrefix(m, r) == IF PrefixCache THEN FindLongest(m, PrefixKeys(r), FALSE) ELSE <<>>

\* The cached tokens are not counted as context.
BugAddRequest(s, m, r) ==
    [s EXCEPT !.waiting = @ \union {r}, !.shared[r] = CachedPrefix(m, r), !.rem[r] = PromptLen(r),
              !.ctx[r] = 0, !.gen[r] = 0, !.arr[r] = s.clock, !.clock = @ + 1]

AddRequest(s, m, r) ==
    LET hit    == CachedPrefix(m, r)
        cached == Len(hit) * BlockSize
    IN  [s EXCEPT !.waiting = @ \union {r}, !.shared[r] = hit, !.rem[r] = PromptLen(r) - cached,
                  !.ctx[r] = cached, !.gen[r] = 0, !.arr[r] = s.clock, !.clock = @ + 1]

\* RemoveRequest of every member of R.  The blocks are left to the caller.
RemoveRequests(s, R) ==
    [s EXCEPT !.waiting = @ \ R, !.running = @ \ R, !.swapped = @ \ R,
              !.rem    = [r \in Reqs |-> IF r \in R THEN 0 ELSE @[r]],
              !.shared = [r \in Reqs |-> IF r \in R THEN <<>> ELSE @[r]],
              !.ctx    = [r \in Reqs |-> IF r \in R THEN 0 ELSE @[r]],
              !.gen    = [r \in Reqs |-> IF r \in R THEN 0 ELSE @[r]],
              !.sblk   = [r \in Reqs |-> IF r \in R THEN <<>> ELSE @[r]]]

\* The orders in which waiting, running and swapped sequences may be visited:
\* std::sort leaves the order of equals open.
Precedes(s, a, b) == Prio[a] < Prio[b] \/ (Prio[a] = Prio[b] /\ s.arr[a] < s.arr[b])
InOrder(s, S) == {q \in SetToSeqs(S) : \A i, j \in DOMAIN q : i < j => ~Precedes(s, q[j], q[i])}

-----------------------------------------------------------------------------
\* Memory pressure.  Idle cached blocks count as used.
MemoryPressure(m) ==
    (NumBlocks - GetFreeBlockCount(m)) * 100 > Config.watermark_high_percent * NumBlocks

\* SelectPreemptionVictim: least urgent, then least progress, then latest.
BetterVictim(s, v, u) ==
    \/ Prio[v] > Prio[u]
    \/ Prio[v] = Prio[u] /\ s.gen[v] < s.gen[u]
    \/ Prio[v] = Prio[u] /\ s.gen[v] = s.gen[u] /\ s.arr[v] > s.arr[u]

Victims(s) == {v \in s.running : \A u \in s.running : ~BetterVictim(s, u, v)}

\* PreemptSequences only marks the victim; the worker frees its blocks later.
PreemptSequences(x) ==
    IF ~MemoryPressure(x.m) \/ x.s.running = {} THEN {x}
    ELSE {[x EXCEPT !.s.running = @ \ {v}, !.s.swapped = @ \union {v}, !.s.sblk[v] = <<>>,
                    !.o.preempted = {v}] : v \in Victims(x.s)}

\* Blocks ScheduleSwapped asks for before it lets r back in.
SwapInBlocks(s, r) == BlocksNeeded(Max({1, PromptLen(r) + s.gen[r]}))

CanSwapIn(s, m, r) ==
    /\ Cardinality(s.running) < Config.max_num_seqs
    /\ GetFreeBlockCount(m) >= SwapInBlocks(s, r)

SwapIn(x, r) ==
    IF ~CanSwapIn(x.s, x.m, r) THEN {x}
    ELSE {[s |-> [x.s EXCEPT !.swapped = @ \ {r}, !.running = @ \union {r}, !.sblk[r] = a.ids],
           m |-> a.next,
           o |-> [x.o EXCEPT !.swapin = @ \union {r}, !.alloc[r] = a.ids]]
             : a \in AllocateSeq(x.m, SwapInBlocks(x.s, r))}

ScheduleSwapped(x) == UNION {Visit(SwapIn, x, order) : order \in InOrder(x.s, x.s.swapped)}

-----------------------------------------------------------------------------
\* Isolated phases: is prefill tried before decode in this iteration?
PrefillFirst(s) ==
    /\ s.waiting # {}
    /\ \/ s.running = {}
       \/ /\ Config.fill_slots_before_first_decode
          /\ Cardinality(s.running) < Config.max_num_seqs
          /\ \A r \in s.waiting : s.rem[r] <= Config.max_prefill_tokens
          /\ \A r \in s.running : s.gen[r] = 0
       \/ s.streak >= Config.max_consecutive_decode_batches

\* ScheduleRunning: in order, as many as the batch has room for.
DecodeRoom(o) == Min({Config.max_num_batched_tokens - o.total,
                      Config.max_num_seqs - Len(o.prefill) - Len(o.decode)})

Decoding(s, o, ids) ==
    [o EXCEPT !.decode = ids, !.total = @ + Len(ids),
              !.bctx = IF ids = <<>> THEN @ ELSE s.ctx[ids[1]]]

ScheduleRunning(s, o) ==
    {Decoding(s, o, SubSeq(order, 1, Min({Len(order), Max({0, DecodeRoom(o)})})))
        : order \in InOrder(s, s.running)}

\* What a decode batch leaves for a prefill chunk admitted into it.
MixedCap(o) == Min({Config.max_mixed_prefill_tokens, Config.max_prefill_tokens,
                    Max({0, Config.max_num_batched_tokens - o.total})})

AdmitsMixed(s, o) ==
    /\ s.waiting # {}
    /\ \A i, j \in DOMAIN o.decode : s.ctx[o.decode[i]] = s.ctx[o.decode[j]]
    /\ MixedCap(o) > 0

\* ScheduleWaiting, one group at a time.  cap is prefill_token_cap, -1 for none.
PrefillBudget(s, o, r, cap) ==
    LET left     == Config.max_num_batched_tokens - o.total
        capped   == IF cap >= 0 THEN Min({left, cap}) ELSE left
        parallel == Config.max_prefill_seqs > 1 /\ (Cardinality(s.waiting) > 1 \/ o.prefill # <<>>)
        chunk    == Min({capped, Config.max_prefill_tokens})
    IN  IF r \in Embeds THEN capped
        ELSE IF parallel THEN Min({chunk, Config.max_parallel_prefill_chunk_tokens})
        ELSE chunk

\* What the batch already holds is forgotten.
BugPrefillTokens(s, o, r, cap) == Min({s.rem[r], Config.max_prefill_tokens})

PrefillTokens(s, o, r, cap) ==
    IF r \in Embeds
    THEN IF s.rem[r] > PrefillBudget(s, o, r, cap) THEN 0 ELSE s.rem[r]
    ELSE Min({s.rem[r], PrefillBudget(s, o, r, cap)})

BatchFull(o) ==
    \/ Len(o.prefill) + Len(o.decode) >= Config.max_num_seqs
    \/ Len(o.prefill) >= Max({1, Config.max_prefill_seqs})


\* Turned away before its blocks are looked at: no room, no budget, or a
\* context other than the batch's.
TurnedAway(s, o, r, cap) ==
    \/ BatchFull(o)
    \/ PrefillTokens(s, o, r, cap) <= 0
    \/ o.bctx >= 0 /\ s.ctx[r] # o.bctx

\* The group's blocks start with the ones the prefix cache provided.
AdoptShared(s, r) == IF s.sblk[r] = <<>> THEN [s EXCEPT !.sblk[r] = s.shared[r]] ELSE s

BlocksToAllocate(s, o, r, cap) ==
    Max({0, BlocksNeeded(s.ctx[r] + PrefillTokens(s, o, r, cap)) - Len(AdoptShared(s, r).sblk[r])})

ExceedsCapacity(n) == n > NumBlocks

(***************************************************************************)
(* The first group blocked and the first one found unschedulable both      *)
(* claim diagnostic_seq_id; the later of the two keeps it.                 *)
(***************************************************************************)
Blocked(x, r) == IF x.o.blocked THEN x ELSE [x EXCEPT !.o.blocked = TRUE, !.o.diag = r]
Unschedulable(x, r) == IF x.o.unsched THEN x ELSE [x EXCEPT !.o.unsched = TRUE, !.o.diag = r]

\* The group is scheduled with the new blocks ids and stays in the queue.
Prefill(x, r, cap, ids, m) ==
    LET n == PrefillTokens(x.s, x.o, r, cap)
    IN  [s |-> [AdoptShared(x.s, r) EXCEPT !.sblk[r] = @ \o ids, !.shared[r] = <<>>, !.gen[r] = 0],
         m |-> m,
         o |-> [x.o EXCEPT !.prefill = Append(@, r), !.chunk[r] = n, !.total = @ + n,
                           !.bctx = IF @ < 0 THEN x.s.ctx[r] ELSE @,
                           !.alloc[r] = ids, !.hits[r] = x.s.shared[r]]]

VisitWaiting(x, r, cap) ==
    LET n == BlocksToAllocate(x.s, x.o, r, cap)
    IN  IF TurnedAway(x.s, x.o, r, cap) THEN {Blocked(x, r)}
        ELSE IF ExceedsCapacity(n) THEN {Unschedulable([x EXCEPT !.s = AdoptShared(x.s, r)], r)}
        ELSE IF GetFreeBlockCount(x.m) < n THEN {Blocked([x EXCEPT !.s = AdoptShared(x.s, r)], r)}
        ELSE {Prefill(x, r, cap, a.ids, a.next) : a \in AllocateSeq(x.m, n)}

\* The reasons of an earlier attempt in the same iteration are forgotten.
ScheduleWaiting(x, cap) ==
    UNION {Visit(LAMBDA y, r : VisitWaiting(y, r, cap),
                 [x EXCEPT !.o.blocked = FALSE, !.o.unsched = FALSE, !.o.diag = NoReq], order)
             : order \in InOrder(x.s, x.s.waiting)}

(***************************************************************************)
(* The policy of an iteration: prefill first if it is due; otherwise       *)
(* decode, perhaps with a bounded prefill chunk of the same context;       *)
(* prefill again if there was nothing to decode.  A scheduled group does   *)
(* not leave the waiting queue, so a decode always extends the streak,     *)
(* which is counted no further than the bound it is compared with.         *)
(***************************************************************************)
PrefillBatch(x) ==
    {IF y.o.prefill = <<>> THEN y ELSE [y EXCEPT !.s.streak = 0] : y \in ScheduleWaiting(x, -1)}

Mixed(d) == IF AdmitsMixed(d.s, d.o) THEN ScheduleWaiting(d, MixedCap(d.o)) ELSE {d}

DecodeBatch(x) ==
    UNION {IF d.o.decode = <<>> THEN PrefillBatch(d)
           ELSE {[y EXCEPT !.s.streak = Min({@ + 1, Config.max_consecutive_decode_batches})]
                   : y \in Mixed(d)}
             : d \in {[x EXCEPT !.o = o] : o \in ScheduleRunning(x.s, x.o)}}

Batch(x) ==
    IF ~PrefillFirst(x.s) THEN DecodeBatch(x)
    ELSE UNION {IF y.o.prefill # <<>> THEN {y} ELSE DecodeBatch(y) : y \in PrefillBatch(x)}

Schedule(s, m) ==
    UNION {UNION {Batch(y) : y \in ScheduleSwapped(x)}
             : x \in PreemptSequences([s |-> s, m |-> m, o |-> NoOutput])}

-----------------------------------------------------------------------------
\* Progress reported by the worker.
OnPrefillChunkComplete(s, r, n, finished) ==
    LET t == [s EXCEPT !.ctx[r] = @ + n, !.rem[r] = Max({0, @ - n})]
    IN  IF finished \/ t.rem[r] = 0
        THEN [t EXCEPT !.waiting = @ \ {r}, !.running = @ \union {r}, !.rem[r] = 0]
        ELSE t

\* Progress is not counted.
BugOnDecodeStepComplete(s, r, n) == [s EXCEPT !.running = @ \union {r}, !.ctx[r] = @ + n]

OnDecodeStepComplete(s, r, n) ==
    [s EXCEPT !.running = @ \union {r}, !.gen[r] = @ + n, !.ctx[r] = @ + n]
=============================================================================
