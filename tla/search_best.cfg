SPECIFICATION Spec
CONSTANTS
    None = None
    TryLimit = 1
    FailLimit = 1
    Scores = {1, 2}
    Results = {"stable", "unstable", "failed"}
    NewRules = 2
    MaxSn = 4
    MaxEpoch = 1
    MaxRound = 1
    MaxStarts = 2
    MaxKills = 0
CHECK_DEADLOCK FALSE
INVARIANTS
    BestOfRound
