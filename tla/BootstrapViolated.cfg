\* Two submissions for a client certificate with one secret.
SPECIFICATION Spec
CONSTANTS
    None = None
    t1 = t1  t2 = t2  op = op  a = a  b = b
    c1 = c1  c2 = c2  s1 = s1  s2 = s2
    server = server  client = client
    cnA = cnA  cnB = cnB  ou1 = ou1  ou2 = ou2
    Serial = {s1}
    Csr = {c1, c2}
    Operator = {op}
    Reason = {1}
    Task = {t1, t2}
    Handler = {t1, t2}
    Desk = {}
    Profile = {server, client}
    EnrollClient = client
    Requester = {a, b}
    HasSecret = {a, b}
    HasTerm = {}
    ClientCn <- OnlyAClientCn
    SubjectCn <- AnySubject
    Allows <- AllowAll
    HmacBootstrapOnly = TRUE
    Cn = {cnA}
    CnOf <- SameCn
    Ou = {ou1}
    OuOf <- SharedUnit
    MaxFaults = 0
    MaxRevokeCommands = 0
    MaxExpired = 0
    AuthorityEnds = FALSE
INVARIANT BootstrapOnce
