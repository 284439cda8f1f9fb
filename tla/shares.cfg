SPECIFICATION Spec
CONSTANTS
    Threads = {t1, t2}
    Clients = {c1}
    Ids = {i1, i2}
    Tokens = {k1, k2, k3}
    None = None
    SecretsAvailable = TRUE
SYMMETRY Symmetry
INVARIANTS ShownLinkWorks FilesHaveShares
PROPERTIES ImplementsLinks
