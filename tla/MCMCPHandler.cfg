SPECIFICATION McpSpec
CONSTANTS
    s1 = s1
    s2 = s2
    t1 = t1
    t2 = t2
    b = b
    c = c
    Servers = {s1, s2}
    Tools = {t1, t2}
    Bases = {b, c}
    BaseOf <- MCBaseOf
    MaxSuffix = 3
    Lists <- MCLists
    Clients = {c1, c2}
    EvictFailed = TRUE
    MaxOps = 4
    MaxChanges = 1
INVARIANTS McpTypeOK 
PROPERTY NameKeepsItsTool
SYMMETRY Symmetry
CHECK_DEADLOCK FALSE
