\* One request at a time beside the periodic refresh.
SPECIFICATION Spec
CONSTANTS
    a1 = a1  s1 = s1  s2 = s2
    refresher = refresher
    Serial = {s1, s2}
    CrlNumber <- TwoCrls
    Asker = {a1}
    Refresher = refresher
    MaxRequests = 2
    NoCrl = NoCrl
SYMMETRY SerialSymmetry
INVARIANT AnswersAreTruthful
PROPERTY SnapshotNeverGoesBack
