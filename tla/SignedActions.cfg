\* Two handlers; the promotion of a guest, the confirmation and the revocation of keys.
SPECIFICATION Spec
CONSTANTS
    None = None
    A = A  B = B  C = C  D = D
    kA = kA  kB = kB  kC = kC
    r = r
    t1 = t1  t2 = t2
    Operator = {A, B, C, D}
    Key = {kA, kB, kC}
    Founder = {A, B}
    FounderKey <- KeyOfFounder
    Guest = {C}
    Commanded <- CommandNames
    Task = {t1, t2}
    Target = {r}
    CaOnly = {}
    TwoPerson = {}
    Body <- Bodies
    FirstSigner <- Proposed
    MaxActions = 2
    MaxChallenges = 3
    MaxFaults = 1
SYMMETRY TaskSymmetry
INVARIANT ExecutedOnce
INVARIANT AppliedAsSigned
INVARIANT AuditFindsNothing
PROPERTY AdminChangesTakeTwo
PROPERTY RevokedStaysOut
PROPERTY AdministratorRemains
