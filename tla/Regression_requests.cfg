SPECIFICATION FairSpec
CONSTANTS
    p1 = p1  p2 = p2
    q1 = q1  q2 = q2
    Promotion = {p1, p2}
    Run = {q1, q2}
    Replay <- MCReplay
    Limit = 2
INVARIANTS TypeOK CountersWithinRuns LoneRunsCounted
PROPERTIES EveryRunAnswered
