\* One submission at a time beside an operator, no failure; two requesters, expiry.
SPECIFICATION Spec
CONSTANTS
    None = None
    t1 = t1  t2 = t2  op = op  a = a  b = b
    c1 = c1  c2 = c2  s1 = s1  s2 = s2
    server = server  client = client
    cnA = cnA  cnB = cnB  ou1 = ou1  ou2 = ou2
    Serial = {s1, s2}
    Csr = {c1, c2}
    Operator = {op}
    Reason = {1}
    Task = {t1, t2}
    Handler = {t1}
    Desk = {t2}
    Profile = {server, client}
    EnrollClient = client
    Requester = {a, b}
    HasSecret = {a, b}
    HasTerm = {a}
    ClientCn <- OwnClientCn
    SubjectCn <- AnySubject
    Allows <- AllowAll
    HmacBootstrapOnly = FALSE
    Cn = {cnA, cnB}
    CnOf <- SameCn
    Ou = {ou1, ou2}
    OuOf <- OwnUnit
    MaxFaults = 0
    MaxRevokeCommands = 1
    MaxExpired = 1
    AuthorityEnds = TRUE
SYMMETRY SeparateSymmetry
INVARIANT OneActiveAtRest
INVARIANT BootstrapOnce
INVARIANT PeerSpeaksForItself
INVARIANT SupersededByItsOwner
INVARIANT FewLateIssues
