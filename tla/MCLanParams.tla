------------------------------- MODULE MCLanParams -------------------------------
(***************************************************************************)
(* Two interfaces, two destinations each: a trap by community and one by   *)
(* user.  The second interface may be stored, or be in its older file only.*)
(***************************************************************************)
EXTENDS LanParams

CONSTANTS eth0, eth1, a, b, bad, zero, root, guest, none, public, empty

MCElement == {a, b, bad, zero, root, guest, none} \cup 0..7

Config(address, user) ==
    [CommunityString |-> public, NumberofDestinations |-> 2,
     IPv4 |-> <<address, address>>, IPv6 |-> <<b, zero>>, UserName |-> <<none, user>>,
     Type |-> <<1, 2>>, AddressType |-> <<1, 1>>, Timeout |-> <<3, 3>>, Retries |-> <<1, 1>>]

MCLegacy == [i \in Iface |-> IF i = eth1 THEN Config(b, none) ELSE Nothing]
MCBoot ==
    {[i \in {eth0, eth1} |-> IF i = eth0 THEN Config(a, root) ELSE Config(b, root)],
     [i \in {eth0} |-> Config(a, root)],
     Lost}

\* Vectors of the right length and too short; values that are refused.
MCWrite ==
    {[key |-> "Type", value |-> <<2, 1>>], [key |-> "Type", value |-> <<4>>],
     [key |-> "IPv4", value |-> <<zero, b>>], [key |-> "IPv4", value |-> <<bad, a>>],
     [key |-> "AddressType", value |-> <<2>>],
     [key |-> "UserName", value |-> <<root, none>>], [key |-> "UserName", value |-> <<none, guest>>],
     [key |-> "CommunityString", value |-> empty]}
================================================================================
