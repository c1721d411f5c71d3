SPECIFICATION FairSpec
CONSTANTS
    r1 = r1
    r2 = r2
    u1 = u1
    d1 = d1
    v1 = v1
    t1 = t1
    Nobody = Nobody
    Rpc = {r1, r2}
    Upload = {}
    Download = {}
    Voice = {}
    Talk = {}
    TalkOf <- NoTalker
    MAX_IN_FLIGHT = 1
    RESPONSE_QUEUE = 1
    CONTROL_WRITER_QUEUE = 1
    WRITER_QUEUE = 1
    WriterBudget = 2
    DataUnits = 1
    IdLimit = 10
    MaxChunks = 2
    Scenarios <- Endings
CHECK_DEADLOCK FALSE

PROPERTY ImplementsService
 
PROPERTY CancelFollows
PROPERTY WindsUp
