------------------------------ MODULE MCAuditLog ------------------------------
EXTENDS AuditLog, TLC

\* The writers are alike.
Symmetry == Permutations(Writers)
===============================================================================
