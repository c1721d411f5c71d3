SPECIFICATION Spec
CONSTANTS
    r1 = r1
    r2 = r2
    u1 = u1
    d1 = d1
    v1 = v1
    t1 = t1
    Nobody = Nobody
    Rpc = {r1, r2}
    Upload = {u1}
    Download = {d1}
    Voice = {v1}
    Talk = {t1}
    TalkOf <- OneTalker
    MAX_IN_FLIGHT = 2
    RESPONSE_QUEUE = 1
    CONTROL_WRITER_QUEUE = 1
    WRITER_QUEUE = 1
    WriterBudget = 2
    DataUnits = 1
    IdLimit = 10
    MaxChunks = 2
    Scenarios <- Everything
CHECK_DEADLOCK FALSE

INVARIANT TypeOK
INVARIANT RoutedToOwner
 
INVARIANT Accounted
INVARIANT SilenceKeepsConnection
