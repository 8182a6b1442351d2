\* Two processes, commands or the service; a key is lost, imported or generated twice.
SPECIFICATION Spec
CONSTANTS
    None = None
    Token = {"root", "issuing"}
    Process = {p1, p2}
    KeyPair = {k1, k2, k3}
    Imported = {i1}
    MaxEvents = 1
    MaxCertificates = 4
    MaxArls = 2
SYMMETRY HierarchySymmetry
INVARIANT OneHierarchy
INVARIANT SignaturesAreOwn
INVARIANT RevocationIsListed
CHECK_DEADLOCK FALSE
