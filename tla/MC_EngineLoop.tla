--------------------------- MODULE MC_EngineLoop ---------------------------
(***************************************************************************)
(* Instances of EngineLoop with blocks of two tokens.                      *)
(***************************************************************************)
EXTENDS EngineLoop, TLC

CONSTANTS r1, r2, r3, r4

\* The full blocks the shared prompts below start with.
MCHashes == {<<1, 2>>, <<1, 2, 3, 4>>, <<1, 2, 3, 5>>} \union {[i \in 1 .. 2 * n |-> 9] : n \in 1 .. 5}
MCTokenSeqs == {<<1, 2>>, <<3, 4>>, <<3, 5>>, <<9, 9>>}
Symmetries == Permutations(Blocks)

MCPrio == r1 :> 0 @@ r2 :> 1 @@ r3 :> 1 @@ r4 :> 1

Limits(seqs, batched, prefill, mixed, streak, fill, watermark) ==
    [max_num_seqs |-> seqs, max_num_batched_tokens |-> batched, max_prefill_tokens |-> prefill,
     max_prefill_seqs |-> 1, max_parallel_prefill_chunk_tokens |-> prefill,
     max_mixed_prefill_tokens |-> mixed, max_consecutive_decode_batches |-> streak,
     fill_slots_before_first_decode |-> fill, watermark_high_percent |-> watermark]

\* Core: chunked prefill, mixed batches, an embedding, cancellation, and a
\* pool that is too small for all at once and preempts when it is full.
\* When r2 has decoded one token and r1 prefilled one chunk their contexts
\* are equally long, as a mixed batch requires.
CorePrompt == r1 :> <<1, 2, 3, 4>> @@ r2 :> <<6>> @@ r3 :> <<1, 2>>
CoreMaxTokens == r1 :> 2 @@ r2 :> 3 @@ r3 :> 1
CoreConfig == Limits(2, 2, 2, 1, 1, TRUE, 95)

\* Scarce: two prompts that each hold blocks the other one needs, or leave
\* them idle in the prefix cache, and an embedding too long for a batch.
ScarcePrompt == r1 :> <<1, 2, 3>> @@ r2 :> <<9, 9, 6>> @@ r3 :> <<1, 2, 3, 4>>
ScarceHashes == {<<1, 2>>, <<1, 2, 3, 4>>, <<9, 9>>}
ScarceMaxTokens == r1 :> 1 @@ r2 :> 2 @@ r3 :> 1
ScarceConfig == Limits(2, 3, 2, 1, 1, TRUE, 95)

\* Prompts with a common first block; r4 is an embedding that fits
\* a batch but not the pool.
SharedPrompt ==
    r1 :> <<1, 2, 3, 5>> @@ r2 :> <<1, 2, 6>> @@ r3 :> <<1, 2, 3, 4>> @@ r4 :> [i \in 1 .. 11 |-> 9]
SharedMaxTokens == r1 :> 1 @@ r2 :> 2 @@ r3 :> 1 @@ r4 :> 1
SharedConfig == Limits(2, 11, 2, 2, 1, FALSE, 100)

\* Two generating requests; pressure while a block is free, as in every pool
\* of more than ten.
PressurePrompt == r1 :> <<1, 2, 3>> @@ r2 :> <<1>>
PressureMaxTokens == r1 :> 3 @@ r2 :> 4
PressureConfig == Limits(2, 4, 4, 2, 1, FALSE, 60)
============================================================================
