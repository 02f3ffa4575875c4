CONSTANTS
    n1 = n1
    n2 = n2
    c1 = c1
    c2 = c2
    Blank = Blank
    Garbled = Garbled
    Nodes = {n1, n2}
    Deaf = {n2}
    Edited = {c1, c2}
    Phoned = {c2}
    NumChunks = 2
    Retries = 2
    MaxQueue = 2
    MaxEvents = 2
SPECIFICATION FairSpec
INVARIANTS DoneMeansStored FreedOnlyByRepeatedRead
PROPERTIES OperationsEnd
