SPECIFICATION Spec
CONSTANTS
    r1 = r1  r2 = r2  t1 = t1  t2 = t2
    q1 = q1  q2 = q2  q3 = q3  q4 = q4
    NoIndex = NoIndex
    Run <- MCRun
    Tool <- MCTool
    Seeded <- MCSeeded
    Request = {q1, q2}
    Operation <- RacingOps
    MaxGeneration = 1
PROPERTIES ContractFrozenOnceUsed
