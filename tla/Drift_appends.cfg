SPECIFICATION DriftSpec
CONSTANTS
    r1 = r1  t1 = t1
    q1 = q1  q2 = q2
    c1 = c1  c2 = c2  c3 = c3
    NoIndex = NoIndex
    NoStep = NoStep
    Run <- MCRun
    Request = {q1}
    Tool <- MCTool
    Seeded <- MCTool
    Operation <- WriteOperation
    MaxGeneration = 0
    Check = {c1, c2}
SYMMETRY Symmetry
INVARIANTS RecheckAppends
