\* Three Sets or restarts and one switch of a version around one trap.
SPECIFICATION TestSpec
CONSTANTS
    eth0 = eth0
    eth1 = eth1
    a = a
    b = b
    bad = bad
    zero = zero
    root = root
    guest = guest
    none = none
    public = public
    empty = empty
    Iface = {eth0, eth1}
    Address = {a, b, zero}
    NoAddress = zero
    User = {root, guest}
    NoUser = none
    SnmpUser = {root}
    MailUser = {root}
    Community = {public}
    NoCommunity = empty
    Element <- MCElement
    Write <- TrapWrite
    Legacy <- TrapLegacy
    Boot <- TrapBoot
    Destination = {1, 2}
    MaxEdits = 3
    MaxTraps = 1
    Selector = {0, 1, 2, 3}
    ByteSize = 4
    maxDestinationSel = 3
    MaxSwitches = 1
INVARIANTS TrapAsConfigured  TestedAsAsked
CHECK_DEADLOCK FALSE
