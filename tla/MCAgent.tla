-------------------------------- MODULE MCAgent --------------------------------
EXTENDS Agent, TLC

Symmetry == Permutations(Tasks) \cup Permutations(Calls)
===============================================================================
