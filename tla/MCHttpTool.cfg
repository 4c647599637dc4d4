SPECIFICATION Spec
CONSTANTS
    Calls = {c1, c2, c3}
    Origins = {home, other}
    Interval = 2
    Early = 1
    MaxRedirects = 2
    MaxTime = 5
INVARIANTS  CredentialsStayHome
SYMMETRY Symmetry
CHECK_DEADLOCK FALSE
