\* A leap second, a wandering clock, a renewal and the retirement of the old key.
SPECIFICATION Spec
CONSTANTS
    None = None
    h1 = h1
    Servers = 2
    Liar <- SecondServer
    MinSources = 2
    MaxOffset = 1
    MaxAge = 1
    PollInterval = 2
    Enforce = TRUE
    Skew <- Errors
    Lie <- Lies
    MaxSlot = 2
    DayOf <- DayOfSlot
    LastMinute <- BeforeMidnight
    LeapDay = 1
    MaxGeneration = 3
    CertificateLife = 1
    KeyLife = 1
    RenewBefore = 1
    MaxCertificates = 3
    MaxJobs = 3
    Handler = {h1}
CHECK_DEADLOCK FALSE
INVARIANT ClockErrorIsSeen
INVARIANT LeapSecondIsHeld
INVARIANT TokenVerifies
INVARIANT EachCertificateItsKey
PROPERTY LeapBlockEnds
