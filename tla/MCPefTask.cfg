SPECIFICATION Spec
CONSTANTS
    Bits = {b0}
    OffsetBits = {b0}
    FF = FF
    Z00 = Z00
    temperature = temperature
    voltage = voltage
    sensor = sensor
    root = root
    Wildcard = FF
    ZeroCode = Z00
    Code = {FF, Z00, temperature, voltage, sensor}
    NLists = 2
    ListSize = 1
    NPolicyLists = 2
    PolicyListSize = 1
    Channel = {1, 2}
    EthChannel = {1}
    NoUser = NoUser
    User = {NoUser, root}
    Event <- MCEvent
    Entry <- MCEntry
    PolicyEntry <- MCPolicyEntry
    LanEntry <- MCLanEntry
    TmrValue = {0, 1, 254, 255}
    Boot <- MCBoot
    MaxCalls = 1
    MaxEdits = 1
INVARIANTS TypeOK EveryActAuthorised AlertsFollowPolicies ActsOnceInTableOrder
    UndisturbedRowsActedOn
PROPERTY RebootOnlyAHostSeenOn
CHECK_DEADLOCK FALSE
