\* The periodic publication, a revocation and an issuance, one of which stops half-way.
SPECIFICATION FairSpec
CONSTANTS
    None = None
    pub = pub  cmd = cmd  enr = enr
    s1 = s1  c1 = c1  op = op
    Serial = {s1}
    Csr = {c1}
    Operator = {op}
    Reason = {1}
    Task = {pub, cmd, enr}
    Publisher = {pub}
    RevokeCommand = {cmd}
    Enroller = {enr}
    CrlNumber <- CrlNumbers
    MaxFaults = 1
    MaxRevokeCommands = 1
    MaxExpired = 1
INVARIANT AnsweredIsListed
PROPERTY ImplementsCrlFeed
PROPERTY RevocationEventuallyListed
\* Within the bounds everything is issued, revoked and listed in the end.
CHECK_DEADLOCK FALSE
