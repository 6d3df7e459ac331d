----------------------------- MODULE EngineLoop -----------------------------
(***************************************************************************)
(* One iteration after another of the engine's worker thread (EngineLoop,  *)
(* src/core/src/runtime/worker.cpp) on top of the scheduler and the block  *)
(* manager: fetch new requests, handle cancellations, schedule, apply the  *)
(* scheduler's decisions to the block tables, build a batch, execute it,   *)
(* process its outputs.  Only the cancelled flags are written by other     *)
(* threads, at any time; RequestLifecycle.tla has the other threads.       *)
(*                                                                         *)
(* kv is the content of the paged KV cache.  The entry for position p of a *)
(* sequence depends on all its tokens up to p, so a cell holds that prefix *)
(* of tokens, or <<>> for anything else.  Generated tokens differ between  *)
(* requests: request r generates the token r.                              *)
(***************************************************************************)
EXTENDS Scheduler

CONSTANTS MaxTokens,     \* Request::max_tokens
          Cancellable    \* requests a client may cancel once they are active

ASSUME MaxTokensAssumption == \A r \in Reqs : MaxTokens[r] \in Nat \ {0}
ASSUME CancellableAssumption == Cancellable \subseteq Reqs

VARIABLES pc,      \* where the worker is in its iteration
          bm,      \* BlockManager
          kv,      \* contents of the blocks, [Blocks -> [0 .. BlockSize-1 -> cell]]
          sch,     \* Scheduler
          out,     \* the SchedulerOutput of this iteration
          req,     \* the requests
          active,  \* active_requests
          batch,   \* batch_requests
          stalled  \* batch_build_stats.stalled_requests
vars == <<pc, bm, kv, sch, out, req, active, batch, stalled>>

\* Host copy of a preempted sequence's blocks (swap_state, is_swapped).
NoSwap == [active |-> FALSE, data |-> <<>>]

(***************************************************************************)
(* state: pending, active, or how the request ended; rem: prompt tokens    *)
(* left in Request::tokens; table: block_table; gen: generated_count; reg: *)
(* registered_prefix_blocks.                                               *)
(***************************************************************************)
Submitted(r) == [state |-> "pending", cancelled |-> FALSE, prefill |-> TRUE,
                 rem |-> PromptLen(r), n_past |-> 0, table |-> <<>>, gen |-> 0, reg |-> 0,
                 swap |-> NoSwap]

Outcomes == {"ok", "canceled", "rejected", "swap_in", "stalled", "unschedulable",
             "build_stall", "failed", "oom"}

Unfinished == {r \in active : req[r].state = "active"}

Text(r, n) == [i \in 1 .. n |-> IF i <= PromptLen(r) THEN Prompt[r][i] ELSE r]
BlocksOf(q) == {q[i] : i \in DOMAIN q}

\* The cell of position p, as seen through a block table that covers it.
Cell(k, table, p) == k[table[p \div BlockSize + 1]][p % BlockSize]

Init ==
    /\ pc = "fetch"
    /\ bm = BMInit
    /\ kv = [b \in Blocks |-> [i \in 0 .. BlockSize - 1 |-> <<>>]]
    /\ sch = SchedInit
    /\ out = NoOutput
    /\ req = [r \in Reqs |-> Submitted(r)]
    /\ active = {} /\ batch = <<>> /\ stalled = {}
-----------------------------------------------------------------------------
\* A request ends: terminal result, block_table freed, nothing left to do.
Ended(q, R, how) ==
    [r \in Reqs |-> IF r \in R THEN [Submitted(r) EXCEPT !.state = how, !.cancelled = q[r].cancelled]
                    ELSE q[r]]

FreeTables(m, q, R) == FoldSet(LAMBDA r, n : Free(n, BlocksOf(q[r].table)), m, R)

\* finalize_..., free_request_blocks and remove_request_from_scheduler.
Fail(R, how) ==
    /\ req' = Ended(req, R, how)
    /\ bm' = FreeTables(bm, req, R)
    /\ sch' = RemoveRequests(sch, R)

\* reap_finished_requests
Reap == active' = {r \in active : req'[r].state = "active"}

NextIteration == pc' = "fetch" /\ out' = NoOutput /\ batch' = <<>> /\ stalled' = {}

-----------------------------------------------------------------------------
\* CancelRequest on an active request only sets the flag.
Cancel(r) ==
    /\ r \in Cancellable \intersect Unfinished
    /\ ~req[r].cancelled
    /\ req' = [req EXCEPT ![r].cancelled = TRUE]
    /\ UNCHANGED <<pc, bm, kv, sch, out, active, batch, stalled>>

\* A pending request is fetched and registered with the scheduler.
Fetch(r) ==
    /\ pc = "fetch"
    /\ req[r].state = "pending"
    /\ IF Rejected(r)
       THEN /\ req' = Ended(req, {r}, "rejected")
            /\ UNCHANGED <<bm, sch, active>>
       ELSE /\ req' = [req EXCEPT ![r].state = "active"]
            /\ sch' = AddRequest(sch, bm, r)
            /\ bm' = Acquire(bm, BlocksOf(CachedPrefix(bm, r)))
            /\ active' = active \union {r}
    /\ UNCHANGED <<pc, kv, out, batch, stalled>>

ProcessCancelled ==
    /\ pc = "fetch"
    /\ active # {}
    /\ Fail({r \in Unfinished : req[r].cancelled}, "canceled")
    /\ pc' = "schedule"
    /\ UNCHANGED <<kv, out, active, batch, stalled>>

(***************************************************************************)
(* A single running request is decoded without asking the scheduler,       *)
(* provided nothing is pending.  Its table was grown for the next token    *)
(* when the last one was processed, and after prefill it no longer has     *)
(* prompt tokens to probe the prefix cache with.                           *)
(***************************************************************************)
FastPathFor(r) ==
    /\ active = {r}
    /\ sch.waiting = {} /\ sch.swapped = {} /\ Cardinality(sch.running) <= 1
    /\ r \in Unfinished \ Embeds
    /\ ~req[r].swap.active /\ ~req[r].cancelled /\ ~req[r].prefill
    /\ Len(req[r].table) >= BlocksNeeded(req[r].n_past + 1)

FastPath(r) ==
    /\ pc = "schedule"
    /\ FastPathFor(r)
    /\ out' = [NoOutput EXCEPT !.decode = <<r>>, !.total = 1, !.bctx = req[r].n_past]
    /\ pc' = "build"
    /\ UNCHANGED <<bm, kv, sch, req, active, batch, stalled>>

\* New blocks in front.
BugReceived(o, r) == [req[r] EXCEPT !.table = o.alloc[r] \o @]

\* Steps 4 and 4a: the new blocks are appended, then the cached ones.
Received(o, r) ==
    LET cached == Len(o.hits[r]) * BlockSize
    IN  [req[r] EXCEPT !.table = @ \o o.alloc[r] \o o.hits[r],
                       !.n_past = @ + cached,
                       !.rem = @ - cached,
                       !.reg = Max({@, Len(o.hits[r])})]

\* Step 4b: swapped sequences are restored into their new blocks ...
SwapInFails(o, q) ==
    {r \in o.swapin : q[r].swap.active /\ Len(q[r].table) # Len(q[r].swap.data)}
BugRestored(o, q) == {}
Restored(o, q) == {r \in o.swapin : q[r].swap.active} \ SwapInFails(o, q)
RestoreKV(q, R) ==
    [b \in Blocks |->
        IF \E r \in R : b \in BlocksOf(q[r].table)
        THEN LET r == CHOOSE r \in R : b \in BlocksOf(q[r].table)
             IN  q[r].swap.data[CHOOSE i \in DOMAIN q[r].table : q[r].table[i] = b]
        ELSE kv[b]]

\* The table is kept.
BugSwapOut(k, q) ==
    [q EXCEPT !.swap = [active |-> TRUE, data |-> [i \in DOMAIN q.table |-> k[q.table[i]]]]]

\* ... and in step 6 the preempted ones are copied out.
SwapOut(k, q) ==
    [q EXCEPT !.swap = [active |-> TRUE, data |-> [i \in DOMAIN q.table |-> k[q.table[i]]]],
              !.table = <<>>]

(***************************************************************************)
(* Schedule() and the worker's handling of its output, steps 3 to 6.       *)
(***************************************************************************)
ScheduleBatch ==
    /\ pc = "schedule"
    /\ \/ \A r \in Reqs : ~FastPathFor(r)
       \/ \E r \in Reqs : req[r].state = "pending"
    /\ \E x \in Schedule(sch, bm) :
        LET got  == [r \in Reqs |-> Received(x.o, r)]
            fail == SwapInFails(x.o, got)
            back == Restored(x.o, got)
            away == {r \in x.o.preempted : got[r].table # <<>>}
        IN  /\ kv' = RestoreKV(got, back)
            /\ req' = [r \in Reqs |->
                          IF r \in fail THEN [Submitted(r) EXCEPT !.state = "swap_in",
                                                                  !.cancelled = got[r].cancelled]
                          ELSE IF r \in away THEN SwapOut(kv', got[r])
                          ELSE IF r \in back THEN [got[r] EXCEPT !.swap = NoSwap]
                          ELSE got[r]]
            /\ bm' = FreeTables(x.m, got, fail \union away)
            /\ sch' = RemoveRequests(x.s, fail)
            /\ out' = x.o
            /\ pc' = IF IsEmptyOutput(x.o) THEN "empty" ELSE "build"
    /\ UNCHANGED <<active, batch, stalled>>
-----------------------------------------------------------------------------
\* Step 7, an empty schedule.  The request blamed by the scheduler fails.
FailUnschedulable ==
    /\ pc = "empty"
    /\ out.unsched /\ Unfinished # {}
    /\ Fail({out.diag} \intersect Unfinished, "unschedulable")
    /\ Reap /\ NextIteration
    /\ UNCHANGED kv

\* Requests still in prefill are not counted as stalled.
BugFailStalled(R) ==
    /\ pc = "empty"
    /\ ~out.unsched
    /\ R # {} /\ R \subseteq Unfinished
    /\ \A r \in R : ~req[r].prefill
    /\ Fail(R, "stalled")
    /\ Reap /\ NextIteration
    /\ UNCHANGED kv

\* The watchdog fails the requests that have been idle too long.
FailStalled(R) ==
    /\ pc = "empty"
    /\ ~out.unsched
    /\ R # {} /\ R \subseteq Unfinished
    /\ Fail(R, "stalled")
    /\ Reap /\ NextIteration
    /\ UNCHANGED kv

\* Not yet: wait a moment and try again.
WaitAndRetry ==
    /\ pc = "empty"
    /\ ~out.unsched \/ Unfinished = {}
    /\ IF Unfinished = {} THEN active' = {} ELSE UNCHANGED active
    /\ NextIteration
    /\ UNCHANGED <<bm, kv, sch, req>>
-----------------------------------------------------------------------------
(***************************************************************************)
(* Step 8.  The build is computed on records y = [m, k, q, batch, stalled, *)
(* kind]: blocks, contents, requests, batch and skipped requests so far,   *)
(* and the kind of batch, fixed by the first request that is not skipped.  *)
(***************************************************************************)
TokensToTake(r) == IF req[r].prefill THEN Min({req[r].rem, out.chunk[r]}) ELSE 1

Kind(r) == IF r \in Embeds THEN "embedding" ELSE "generation"

\* ensure_request_block_writable, for the block of index i of r's table.
MakeWritable(y, r, i) ==
    IF i < 1 THEN {[y EXCEPT !.ok = FALSE]}
    ELSE IF ~y.ok \/ i > Len(y.q[r].table) \/ ~IsShared(y.m, y.q[r].table[i]) THEN {y}
    ELSE LET b == y.q[r].table[i]
         IN  {IF c.id = NoBlock THEN [y EXCEPT !.ok = FALSE]
              ELSE [y EXCEPT !.m = c.next, !.k[c.id] = y.k[b], !.q[r].table[i] = c.id]
                : c \in CopyOnWrite(y.m, b)}

\* A block that is already begun is taken to be private.
BugMakeRangeWritable(y, r) ==
    LET first == req[r].n_past \div BlockSize
        last  == (req[r].n_past + TokensToTake(r) - 1) \div BlockSize
    IN  FoldLeft(LAMBDA Y, i : UNION {MakeWritable(z, r, i) : z \in Y},
                 {[y EXCEPT !.ok = TRUE, !.kind = Kind(r)]},
                 [i \in 1 .. last - first |-> first + i + 1])

\* ensure_request_blocks_writable, for every block the step will write to.
MakeRangeWritable(y, r) ==
    LET first == req[r].n_past \div BlockSize
        last  == (req[r].n_past + TokensToTake(r) - 1) \div BlockSize
    IN  FoldLeft(LAMBDA Y, i : UNION {MakeWritable(z, r, i) : z \in Y},
                 {[y EXCEPT !.ok = TRUE, !.kind = Kind(r)]},
                 [i \in 1 .. last - first + 1 |-> first + i])

BuildOne(y, r) ==
    IF req[r].state # "active" THEN {y}
    ELSE IF req[r].cancelled \/ y.kind \notin {"none", Kind(r)}
    THEN {[y EXCEPT !.stalled = @ \union {r}]}
    ELSE {IF z.ok THEN [z EXCEPT !.batch = Append(@, r)] ELSE [z EXCEPT !.stalled = @ \union {r}]
            : z \in MakeRangeWritable(y, r)}

BuildBatch ==
    /\ pc = "build"
    /\ \E y \in Visit(BuildOne, [m |-> bm, k |-> kv, q |-> req, batch |-> <<>>, stalled |-> {},
                                 kind |-> "none", ok |-> TRUE],
                      out.prefill \o out.decode) :
        /\ bm' = y.m /\ kv' = y.k /\ req' = y.q
        /\ batch' = y.batch /\ stalled' = y.stalled
        /\ pc' = IF y.batch = <<>> THEN "unbuilt" ELSE "execute"
    /\ UNCHANGED <<sch, out, active>>

\* Everything scheduled was skipped: try again, or give up after a while.
RetryBuild ==
    /\ pc = "unbuilt"
    /\ NextIteration
    /\ UNCHANGED <<bm, kv, sch, req, active>>

FailUnbuilt ==
    /\ pc = "unbuilt"
    /\ stalled # {}
    /\ Fail(stalled, "build_stall")
    /\ Reap /\ NextIteration
    /\ UNCHANGED kv
-----------------------------------------------------------------------------
\* Does the KV cache hold r's first n tokens where its table points?
HoldsContext(r, n) ==
    /\ Len(req[r].table) >= BlocksNeeded(n)
    /\ \A p \in 0 .. n - 1 : Cell(kv, req[r].table, p) = Text(r, p + 1)

\* Step 9.  The requests that write slot i of block b, each at one position;
\* a write outside the block table is skipped.
WritePos(r, b, i) ==
    {p \in req[r].n_past .. req[r].n_past + TokensToTake(r) - 1 :
        /\ p \div BlockSize < Len(req[r].table)
        /\ req[r].table[p \div BlockSize + 1] = b
        /\ p % BlockSize = i}

Writers(b, i) == {r \in BlocksOf(batch) : WritePos(r, b, i) # {}}

\* What is computed from a wrong context is wrong too.
Written ==
    [b \in Blocks |-> [i \in 0 .. BlockSize - 1 |->
        IF Writers(b, i) = {} THEN kv[b][i]
        ELSE LET r == CHOOSE r \in Writers(b, i) : TRUE
                 p == CHOOSE p \in WritePos(r, b, i) : TRUE
             IN  IF HoldsContext(r, req[r].n_past) THEN Text(r, p + 1) ELSE <<>>]]

(***************************************************************************)
(* Step 10, on records y = [m, s, q] of blocks, scheduler and requests.    *)
(***************************************************************************)
Finish(y, r, how) ==
    [m |-> FreeTables(y.m, y.q, {r}), s |-> RemoveRequests(y.s, {r}), q |-> Ended(y.q, {r}, how)]

\* register_completed_prefix_blocks: the prompt blocks completed since last time.
RegisterCompleted(y, r) ==
    LET q    == y.q[r]
        done == Min({q.n_past \div BlockSize, Len(q.table), PromptLen(r) \div BlockSize})
        new  == [i \in 1 .. Max({0, done - q.reg}) |-> q.reg + i]
    IN  IF ~PrefixCache THEN y
        ELSE [y EXCEPT !.m = FoldLeft(LAMBDA m, n : RegisterWithTokens(m, q.table[n], PrefixHash(r, n),
                                                                       BlockTokens(r, n), FALSE),
                                      @, new),
                       !.q[r].reg = Max({@, done})]

\* One more block for the table, or out of memory.
GrowTable(y, r) ==
    IF y.q[r].state # "active" THEN {y}
    ELSE {IF a.id = NoBlock THEN Finish(y, r, "oom")
          ELSE [y EXCEPT !.m = a.next, !.q[r].table = Append(@, a.id)] : a \in AllocateSingle(y.m)}

\* Blocks are added until the next token has room.
Grow(y, r) ==
    LET missing == BlocksNeeded(y.q[r].n_past + 1) - Len(y.q[r].table)
    IN  Visit(LAMBDA z, i : GrowTable(z, r), y, [i \in 1 .. missing |-> i])

BugLimitReached(q, r) == q[r].gen > MaxTokens[r]   \* off by one
LimitReached(q, r) == q[r].gen >= MaxTokens[r]

\* A token was sampled.  It may be a stop token or complete a stop sequence.
Sampled(y, r) ==
    LET z == [y EXCEPT !.q[r].gen = @ + 1]
        Stop(x) == IF x.q[r].state # "active" THEN {x}
                   ELSE {Finish(x, r, "ok")} \union (IF LimitReached(x.q, r) THEN {} ELSE {x})
    IN  UNION {Stop(x) : x \in Grow(z, r)}

Advance(q, r, k) == [q EXCEPT ![r].n_past = @ + k, ![r].rem = @ - k]

PrefillStep(y, r) ==
    LET k == TokensToTake(r)
        last == k = req[r].rem
        z == RegisterCompleted([y EXCEPT !.q = Advance(@, r, k)], r)
        w == [z EXCEPT !.s = OnPrefillChunkComplete(@, r, k, last), !.q[r].prefill = ~last]
    IN  IF last THEN Sampled(w, r) ELSE {w}

\* The blocks of the prompt have all been registered by now.
DecodeStep(y, r) ==
    Sampled([y EXCEPT !.q[r].n_past = @ + 1, !.s = OnDecodeStepComplete(@, r, 1)], r)

OutputOne(y, r) ==
    IF r \in Embeds THEN {Finish(y, r, "ok")}
    ELSE IF y.q[r].prefill THEN PrefillStep(y, r)
    ELSE DecodeStep(y, r)

ExecuteBatch ==
    /\ pc = "execute"
    /\ kv' = Written
    /\ \E y \in Visit(OutputOne, [m |-> bm, s |-> sch, q |-> req], batch) :
        bm' = y.m /\ sch' = y.s /\ req' = y.q
    /\ Reap /\ NextIteration

\* The graph cannot be built, or the backend reports an error after computing.
\* Some of these paths leave the finished requests for a later iteration to reap.
FailBatch ==
    /\ pc = "execute"
    /\ kv' \in {kv, Written}
    /\ Fail(BlocksOf(batch), "failed")
    /\ Reap \/ UNCHANGED active
    /\ NextIteration
-----------------------------------------------------------------------------
Worker ==
    \/ \E r \in Reqs : Fetch(r)
    \/ ProcessCancelled
    \/ \E r \in Reqs : FastPath(r)
    \/ ScheduleBatch
    \/ FailUnschedulable
    \/ \E R \in SUBSET Reqs : FailStalled(R)
    \/ WaitAndRetry
    \/ BuildBatch
    \/ RetryBuild
    \/ FailUnbuilt
    \/ ExecuteBatch
    \/ FailBatch

Next == Worker \/ \E r \in Reqs : Cancel(r)

(***************************************************************************)
(* The worker never stops while it has work.  A watchdog runs on the clock *)
(* of consecutive empty iterations: if they keep coming, every request is  *)
(* idle long enough in the end.                                            *)
(***************************************************************************)
Fairness ==
    /\ WF_vars(Worker)
    /\ SF_vars(FailStalled(Unfinished))
    /\ SF_vars(FailUnbuilt)

Spec == Init /\ [][Next]_vars
FairSpec == Spec /\ Fairness
-----------------------------------------------------------------------------
Cells == {<<>>} \union UNION {{Text(r, n) : n \in 1 .. PromptLen(r) + MaxTokens[r]} : r \in Reqs}
BlockData == [0 .. BlockSize - 1 -> Cells]

\* What the variables hold, in the ranges the code keeps them in.
TypeOK ==
    /\ pc \in {"fetch", "schedule", "empty", "build", "unbuilt", "execute"}
    /\ bm \in BMType
    /\ kv \in [Blocks -> BlockData]
    /\ \A r \in Reqs :
        /\ req[r].state \in {"pending", "active"} \union Outcomes
        /\ req[r].cancelled \in BOOLEAN /\ req[r].prefill \in BOOLEAN
        /\ req[r].rem \in 0 .. PromptLen(r)
        /\ req[r].n_past \in 0 .. PromptLen(r) + MaxTokens[r]
        /\ req[r].gen \in 0 .. MaxTokens[r] - 1
        /\ BlocksOf(req[r].table) \subseteq Blocks
        /\ \A i \in DOMAIN req[r].swap.data : req[r].swap.data[i] \in BlockData
    /\ active \subseteq Reqs /\ stalled \subseteq active
    /\ BlocksOf(batch) \subseteq active

(***************************************************************************)
(* Attention only ever reads the sequence's own past: when a batch runs,   *)
(* the KV cache holds, for every request in it and every position before   *)
(* n_past, the entry of exactly that request's prefix, through whatever    *)
(* chunks, copies, swaps and reused blocks it got there.                   *)
(***************************************************************************)
ReadsOwnContext == pc = "execute" => \A r \in BlocksOf(batch) : HoldsContext(r, req[r].n_past)

\* The blocks the running step writes for r.
WriteRange(r) ==
    {req[r].table[p \div BlockSize + 1] :
        p \in {p \in req[r].n_past .. req[r].n_past + TokensToTake(r) - 1 :
                  p \div BlockSize < Len(req[r].table)}}

\* Who keeps block b: the requests with b in their table, and the waiting
\* groups that hold it for the cached prefix they have not yet adopted.
Keepers(b) == {r \in Reqs : b \in BlocksOf(req[r].table)}
Reservers(b) == {r \in Reqs : b \in BlocksOf(sch.shared[r])}

(***************************************************************************)
(* "Before writing new tokens, force Copy-on-Write on every target block   *)
(* to prevent cross-sequence overwrite" (worker.cpp): a block the batch    *)
(* writes is in the table of that request alone, and is not part of a      *)
(* prefix reserved for anybody.                                            *)
(***************************************************************************)
WritesPrivate ==
    pc = "execute" => \A r \in BlocksOf(batch) : \A b \in WriteRange(r) :
        Keepers(b) = {r} /\ Reservers(b) = {}

(***************************************************************************)
(* No reference is lost or forgotten on any path a request can end by: a   *)
(* block's count is the number of tables and reserved prefixes it is in,   *)
(* and the free lists hold exactly the rest.                               *)
(***************************************************************************)
RefsMatch ==
    /\ \A b \in Blocks : bm.ref[b] = Cardinality(Keepers(b)) + Cardinality(Reservers(b))
    /\ FreeExact(bm)

(***************************************************************************)
(* Between iterations the scheduler's view of every unfinished request is  *)
(* the worker's: which queue it is in, how much context it has, how many   *)
(* prompt tokens are left, how many tokens were decoded.                   *)
(***************************************************************************)
SchedulerAgrees ==
    pc = "fetch" =>
        /\ sch.waiting \union sch.running \union sch.swapped = Unfinished
        /\ sch.waiting = {r \in Unfinished : req[r].prefill}
        /\ sch.running = Unfinished \ (sch.waiting \union sch.swapped)
        /\ \A r \in Unfinished :
            LET reserved == Len(sch.shared[r]) * BlockSize
            IN  /\ sch.ctx[r] = req[r].n_past + reserved
                /\ sch.rem[r] = req[r].rem - reserved
                /\ ~req[r].prefill => sch.gen[r] = req[r].gen - 1

(***************************************************************************)
(* The blocks the scheduler counts for a sequence are the first blocks of  *)
(* its table, and it takes a sequence for swapped out exactly when the     *)
(* host has a copy of it.  So the blocks it allocates for the next chunk   *)
(* land where that chunk is written: when the batch runs, its positions    *)
(* have a block.                                                           *)
(***************************************************************************)
BlocksAgree ==
    /\ pc = "fetch" => \A r \in Unfinished :
        /\ r \in sch.swapped <=> req[r].swap.active
        /\ sch.shared[r] = <<>> => sch.sblk[r] = SubSeq(req[r].table, 1, Len(sch.sblk[r]))
    /\ pc = "execute" => \A r \in BlocksOf(batch) :
        Len(req[r].table) >= BlocksNeeded(req[r].n_past + TokensToTake(r))

\* The blocks r needs for its next step, and what allocation could give it.
NextBlocks(r) == IF r \in sch.swapped THEN SwapInBlocks(sch, r)
                 ELSE BlocksToAllocate(sch, NoOutput, r, -1)
Obtainable == GetFreeBlockCount(bm) + Cardinality(Evictable(bm))


\* A batch never exceeds the configured number of sequences and tokens.
BatchWithinBudget ==
    pc = "execute" =>
        /\ Len(batch) <= Config.max_num_seqs
        /\ MapThenSumSet(TokensToTake, BlocksOf(batch)) <= Config.max_num_batched_tokens

(***************************************************************************)
(* "Restore swapped sequences before building the batch" (worker.cpp): a   *)
(* sequence that is executed has its blocks, not a copy on the host.       *)
(***************************************************************************)
RestoredBeforeBatch == pc = "execute" => \A r \in BlocksOf(batch) : ~req[r].swap.active

(***************************************************************************)
(* Every request that was admitted ends, whatever the others do: it        *)
(* completes, or fails with an error, and is not left waiting.             *)
(***************************************************************************)
EveryRequestEnds == \A r \in Reqs : req[r].state = "active" ~> req[r].state \in Outcomes
=============================================================================
