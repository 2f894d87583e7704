SPECIFICATION FairSpec
CONSTANTS
    r1 = r1  r2 = r2  t1 = t1  t2 = t2
    q1 = q1  q2 = q2  q3 = q3  q4 = q4
    NoIndex = NoIndex
    Run <- MCRun
    Request = {q1, q2, q3}
    Tool <- MCTool
    Seeded <- MCSeeded
    Operation <- RecordingOps
    MaxGeneration = 1
INVARIANTS TypeOK UniqueIndex NoGaps AnswersMatchSteps ConflictHasWinner StepsHaveContracts StatusWasAsked MetadataCausal
PROPERTIES AppendOnly EveryRequestAnswered
