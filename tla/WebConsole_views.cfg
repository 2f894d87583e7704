SPECIFICATION Spec
CONSTANTS
    Nil = Nil
    i1 = i1  i2 = i2  t1 = t1  t2 = t2
    MaxRuns = 2
    MaxTests = 1
    MaxReplays = 2
    MaxPending = 2
    Routed <- MCRouted
    Issue = {i1, i2}
    IssueOf <- MCIssueOf
    Ended <- MCEnded
    PageSize = 1
    MaxPages = 9
    ForgePending = 3
    StepCount <- MCStepCount
    Page <- MCPage
    Leaf = {0, 1}
    Key = {"a", "b"}
    TestId <- MCTestId
    WindowSize <- MCWindow
    Box <- MCBox
    CardHeight = {180, 260}
CHECK_DEADLOCK FALSE
INVARIANTS TypeOK ShowsSelected SavedIsShown ListsAreCurrent PagesHoldTheList InspectsDrawn TourGuides NeverStuck
PROPERTIES CardIsFresh TourIsDue
