------------------------------- MODULE MCSnmpTrap -------------------------------
\* Traps and tests, and what MCLanParams writes that bears on them.
EXTENDS TestDestination, MCLanParams

TrapWrite ==
    {w \in MCWrite : w.key \in {"Type", "IPv4", "CommunityString"}}
        \cup {[key |-> "Type", value |-> <<3, 3>>]}
TrapLegacy == [i \in Iface |-> Nothing]
TrapBoot == {stored \in MCBoot : DOMAIN stored = Iface}
================================================================================
