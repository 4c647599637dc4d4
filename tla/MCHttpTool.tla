------------------------------ MODULE MCHttpTool ------------------------------
EXTENDS HttpTool, TLC

Symmetry == Permutations(Calls) \cup Permutations(Origins)
===============================================================================
