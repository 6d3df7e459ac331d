---------------------------- MODULE MC_KVBlocks ----------------------------
\* KVBlocks with two prompts that share their first block: <<x, y>> and <<x, z>>.
EXTENDS KVBlocks, TLC

CONSTANTS hX, hXY, x, y

MCHashes == {hX, hXY}
MCTokenSeqs == {x, y}
MCPrompts == {<<[hash |-> hX, toks |-> x], [hash |-> hXY, toks |-> y]>>}
Symmetries == Permutations(Blocks) \union Permutations(Clients)
============================================================================
