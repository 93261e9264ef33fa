SPECIFICATION Spec
CONSTANTS
    h1 = h1
    h2 = h2
    c1 = c1
    c2 = c2
    r1 = r1
    r2 = r2
    n1 = n1
    n2 = n2
    x = x
    Hosts = {h1, h2}
    Clients = {c1, c2}
    HostOf <- TwoHosts
    Requests = {r1}
    Names = {n1, n2}
    Apps = {x}
    Cards <- OneCard
    BatchSize = 2
    MaxGeneration = 2
    MaxFailureCount = 2
    Ttl = 2
    CatalogMaxAge = 1
    RetryBase = 1
    RetryMax = 2
    MaxTime = 2
    Nobody = Nobody
    NoApp = NoApp
    NoMeta = NoMeta
    NoTxn = NoTxn
    NoFile = NoFile
    NoGeneration = NoGeneration
INVARIANTS CompleteGeneration StreamIsolated
PROPERTIES StoreSpec
SYMMETRY Twins
