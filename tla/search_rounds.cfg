SPECIFICATION FairSpec
CONSTANTS
    None = None
    TryLimit = 1
    FailLimit = 1
    Scores = {1, 2}
    Results = {"stable", "unstable", "failed"}
    NewRules = 2
    MaxSn = 3
    MaxEpoch = 1
    MaxRound = 1
    MaxStarts = 2
    MaxKills = 1
CHECK_DEADLOCK FALSE
INVARIANTS
    TypeOK
    CandidatesWhole
PROPERTIES
    MergedIsOwn
    NoCandidateSkipped
    NumbersNotReused
    RoundEnds
