SPECIFICATION FairSpec
CONSTANTS
    None = None
    h1 = h1
    h2 = h2
    p = p
    q = q
    r = r
    s = s
    h1p = h1p
    h1q = h1q
    h1r = h1r
    h1s = h1s
    h2p = h2p
    h2q = h2q
    h2r = h2r
    h2s = h2s
    Hosts = {h1, h2}
    Partitions = {p, q, r, s}
    Names = {h1p, h1q, h1r, h1s, h2p, h2q, h2r, h2s}
    NameOf <- OwnNames
    Refused <- OneRefused
    Listing <- InSlurmOrder
    NodeListing <- InNameOrder
    PartitionsOf <- TwoAndTwo
    MaxChanges = 2
    MaxFailures = 1
INVARIANTS
    TypeOK
PROPERTIES
    EveryPartitionIsRepresented
    StalePodsOfFirstGo
    KubeletsAreLeftAlone
CHECK_DEADLOCK FALSE
