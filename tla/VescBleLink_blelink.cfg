CONSTANTS
    n1 = n1
    n2 = n2
    express = express
    silent = silent
    None = None
    Nodes = {n1, n2}
    Express = express
    Silent = silent
    Old = {n2}
    QueueLen = 2
    IdTries = 2
    SilentTries = 3
    MaxWire = 2
    MaxEvents = 2
SPECIFICATION FairSpec
INVARIANTS PeerIsAttached BlankNeedsTwoProbes
PROPERTIES WaitEndsByOwnAnswer ImplementsSyncCall EventuallyAddressed
