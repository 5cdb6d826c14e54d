SPECIFICATION Spec
CONSTANTS
    MaxInt = 120
    MaxItem = 5
    MaxStr = 9
    CIRCULAR_LIMIT = 1
    CJSON_NESTING_LIMIT = 2
    default_buffer_size = 8
    Literal <- MCLiteral
    Text <- MCText
    Edited <- MCEdited
    ConfigFile <- MCConfigFile
    Name = {1, 2}
    Value = {1, 3}
    Bare = {"Array", "Object"}
    Budget = {0, 1, 2, 3, 20}
    ConfigBudget = {0,1,2,3,4,5,6,7,8,9,10,11,12,13,14, 20}
    IpParts = 2
    MacParts = 3
    IpSize = 4
    Default <- MCDefault
    MaxCalls = 4
INVARIANTS
    ListsSound
    OwnedOnce
    RoundTrip
    ParsedIsPrinted
    ConfigKept
CHECK_DEADLOCK FALSE
