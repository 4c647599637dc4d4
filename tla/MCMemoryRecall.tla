----------------------------- MODULE MCMemoryRecall -----------------------------
EXTENDS MemoryRecall, TLC

Symmetry == Permutations(Recallers) \cup Permutations(Memories)
===============================================================================
