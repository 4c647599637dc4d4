---------------------------- MODULE MCSessionStore ----------------------------
EXTENDS SessionStore

CONSTANTS a, b

MCPayload == {a, b}

\* For V1Files, which the run leaves empty: a file the previous release left, one JSON
\* object with no newline after it (or with one, of another's making).
MCV1Files == {[msgs |-> <<Msg(a), Msg(b)>>, nl |-> nl] : nl \in BOOLEAN}
===============================================================================
