SPECIFICATION Spec
CONSTANTS
    w1 = w1
    w2 = w2
    None = None
    Workers <- TwoWorkers
    Requests <- RaceRequests
    MaxScore = 2
SYMMETRY WorkerSymmetry
INVARIANTS
    StartAnswersLive
