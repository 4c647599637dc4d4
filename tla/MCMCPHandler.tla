----------------------------- MODULE MCMCPHandler -----------------------------
(* The two tools of each server have one base; the servers share a base where *)
(* both publish `do_it`.                                                      *)
EXTENDS MCPHandler, TLC

CONSTANTS s1, s2, t1, t2, b, c

MCBaseOf == (<<s1, t1>> :> b) @@ (<<s1, t2>> :> b) @@ (<<s2, t1>> :> c) @@ (<<s2, t2>> :> b)

MCLists == {<<t1>>, <<t2, t1>>}

\* The tasks are alike.
Symmetry == Permutations(Clients)
===============================================================================
