SPECIFICATION Spec
CONSTANTS
    i1 = i1
    i2 = i2
    g1 = g1
    g2 = g2
    g3 = g3
    p1 = p1
    p2 = p2
    Procs <- TwoProcs
    NoProc = NoProc
    Tips <- TwoTips
    GoalIds <- ThreeGoals
    NoGoal = NoGoal
    Creator = Creator
    Stream = Stream
    Amounts = {1}
    Targets = {1, 2}
    MaxActive = 2
    MaxEdits = 1
INVARIANTS
    ReachedIsTrue
    LastWordIsTrue
    ActiveLimit
    NoDeadlock
PROPERTIES
    NoLostEdit
SYMMETRY Symmetric
CHECK_DEADLOCK FALSE
