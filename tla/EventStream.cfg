SPECIFICATION FairStream
CONSTANTS
    Main = main
    Tools = {t1, t2}
    Capacity = 2
    MaxTurns = 2
INVARIANTS StreamIsComplete 
PROPERTIES NobodyWaitsForever
CHECK_DEADLOCK FALSE
