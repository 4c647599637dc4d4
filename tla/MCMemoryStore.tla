----------------------------- MODULE MCMemoryStore -----------------------------
(* Two names, and two descriptions, one of which mentions the file of the     *)
(* first name.                                                                *)
EXTENDS MemoryStore, TLC

CONSTANTS n1, n2, b1, b2

MCMentions == [b \in Bodies |-> IF b = b1 THEN {<<n1, 1>>} ELSE {}]
===============================================================================
