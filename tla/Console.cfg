\* Two operators connected; a login, a file, an entry and two closings that cross.
SPECIFICATION Spec
CONSTANTS
    None = None
    A = A  B = B  kA = kA  kB = kB  a1 = a1  h1 = h1  h2 = h2
    Operator = {A, B}
    Key = {kA, kB}
    Owner <- KeyOwner
    FirstRole <- Roles
    LoggedIn <- Connected
    Handler = {h1, h2}
    Action = {a1}
    MaxChallenges = 3
    MaxSessions = 3
    Answers <- Reports
    RoleChanges <- Demotions
    MaxEvents = 1
    MaxIncidents = 1
    MaxEntries = 1
SYMMETRY HandlerSymmetry
INVARIANT SessionsAreProven
INVARIANT CountersAreSpent
INVARIANT ClosedOnItsEvidence
INVARIANT JournalledFirst
PROPERTY NothingAfterClosing
CHECK_DEADLOCK FALSE
