\* Four Sets or restarts, with failures of the file at every Set.
SPECIFICATION ConfigSpec
CONSTANTS
    eth0 = eth0
    eth1 = eth1
    a = a
    b = b
    bad = bad
    zero = zero
    root = root
    guest = guest
    none = none
    public = public
    empty = empty
    Iface = {eth0, eth1}
    Address = {a, b, zero}
    NoAddress = zero
    User = {root, guest}
    NoUser = none
    SnmpUser = {root}
    MailUser = {}
    Community = {public}
    NoCommunity = empty
    Element <- MCElement
    Write <- MCWrite
    Legacy <- MCLegacy
    Boot <- MCBoot
    MaxEdits = 4
INVARIANT FileHoldsParameters
PROPERTY SetDoneOrUndone
CHECK_DEADLOCK FALSE
