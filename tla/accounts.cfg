CONSTANTS
    ana = ana
    ben = ben
    cyd = cyd
    w1 = w1
    w2 = w2
    Workers = {w1, w2}
    Emails = {ana, ben, cyd}
    Founder = ana
    NoOne = nobody
    Stores = {1, 2, 3, 4}
    Slots = {1, 2, 3, 4}
    MaxLinks = 2
    Limit <- MCLimit
    Requests <- EveryRequest
    MaxRequests = 3
SPECIFICATION Spec
INVARIANTS
    TypeOK
    WelcomedCanWork
    StrandedOnlyByFailure
    OverrunBounded
    RemovedStaysAway
    LinkWorksOnce
