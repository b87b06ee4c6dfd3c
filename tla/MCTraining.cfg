SPECIFICATION Spec
CONSTANTS
    NaN = NaN
    Inf = Inf
    Nobody = Nobody
    t1 = t1
    t2 = t2
    o1 = o1
    o2 = o2
    a1 = a1
    Trainers = {t1, t2}
    Patience <- MCPatience
    Sizes <- MCSizes
    NumItems = 2
    NegativeRatio = 2
    Losses = {1}
    Epochs = {0, 4}
    TrialEpochs = 2
    MaxVersions = 2
    Operators = {}
    Pods = {}
INVARIANTS
    StopsInTime
    MetricsLagByOne
PROPERTY EveryRunEnds
