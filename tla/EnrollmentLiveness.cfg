\* One request, a handler and a desk, one of which stops half-way.
SPECIFICATION FairSpec
CONSTANTS
    None = None
    t1 = t1  t2 = t2  op = op  a = a  b = b
    c1 = c1  c2 = c2  s1 = s1  s2 = s2
    server = server  client = client
    cnA = cnA  cnB = cnB  ou1 = ou1  ou2 = ou2
    Serial = {s1, s2}
    Csr = {c1}
    Operator = {op}
    Reason = {1}
    Task = {t1, t2}
    Handler = {t1, t2}
    Desk = {t1, t2}
    Profile = {server, client}
    EnrollClient = client
    Requester = {a}
    HasSecret = {a}
    HasTerm = {}
    ClientCn <- NoClientCn
    SubjectCn <- AnySubject
    Allows <- AllowServer
    HmacBootstrapOnly = FALSE
    Cn = {cnA}
    CnOf <- SameCn
    Ou = {ou1}
    OuOf <- SharedUnit
    MaxFaults = 1
    MaxRevokeCommands = 0
    MaxExpired = 0
    AuthorityEnds = TRUE
PROPERTY ApprovedEventuallyDelivered
