-------------------------------- MODULE SnmpTrap --------------------------------
(***************************************************************************)
(* Sending a trap (snmp_notification.cpp), from pef-event-filtering while  *)
(* pef-configuration sets LAN parameters.  sendTrap reads whether traps    *)
(* are enabled, then which versions are disabled, then the LAN parameters: *)
(* not the properties but the file, which another process may be           *)
(* rewriting at that moment.                                               *)
(***************************************************************************)
EXTENDS LanParams

CONSTANTS
    Destination,    \* values of DestinationSel
    MaxTraps,       \* bound: calls of sendTrap
    MaxSwitches     \* bound: changes of the SNMP service's settings

VARIABLES
    disabled,   \* the versions that snmp.conf disables
    switches,
    step,       \* what sendTrap does next
    target,     \* interface of the channel, and DestinationSel
    disableStatus, manager, traps,
    \* history, since sendTrap began
    held,       \* what the interface was configured as
    allowed,    \* versions that were not disabled at some moment
    sound       \* the file was in step when it was read

sender == <<step, target, disableStatus, manager, traps, sound>>
vars == <<config, disabled, switches, sender, held, allowed>>

Version == 0..2     \* the Types that are SNMP: v1, v2c, v3

--------------------------------------------------------------------------------
(***************************************************************************)
(* getManagers: the selected entry of the arrays, if there is one, as      *)
(* version, peer and community or user.  An array that is too short throws *)
(* and is caught: no manager.                                              *)
(***************************************************************************)
At(array, n) == {array[k] : k \in DOMAIN array \cap {n}}

Peers(cfg, n) ==
    {a \in UNION {At(Array(cfg, IF f = 1 THEN "IPv4" ELSE "IPv6"), n) :
                    f \in At(Array(cfg, "AddressType"), n) \cap {1, 2}} : a # NoAddress}

Credentials(cfg, n, version) ==
    IF version = 2 THEN At(Array(cfg, "UserName"), n) \ {NoUser}
    ELSE {CommunityString(cfg)} \ {NoCommunity}

getManagers(cfg, n) ==
    UNION {{version} \X Peers(cfg, n) \X Credentials(cfg, n, version) :
             version \in At(Array(cfg, "Type"), n) \cap Version}

--------------------------------------------------------------------------------
SendTrap ==
    /\ step = "idle" /\ traps < MaxTraps
    /\ traps' = traps + 1
    /\ \E i \in Iface, n \in Destination : target' = [iface |-> i, dest |-> n]
    /\ held' = {param[target'.iface], before[target'.iface]}
    /\ allowed' = Version \ disabled
    /\ step' = "disableStatus"
    /\ UNCHANGED <<config, disabled, switches, disableStatus, manager, sound>>

getSNMPDisableStatus ==
    /\ step = "disableStatus" /\ step' = "managers"
    /\ disableStatus' = disabled
    /\ UNCHANGED <<config, disabled, switches, target, manager, traps, sound, held, allowed>>

Return ==
    /\ step' = "idle" /\ target' = Nothing /\ disableStatus' = {} /\ manager' = <<>>
    /\ sound' = FALSE /\ held' = {} /\ allowed' = {}

\* No manager ends the call; so does a failure to load the user of a v3 one.
ReadLanFile ==
    /\ step = "managers"
    /\ \/ /\ Stored(target.iface)
          /\ manager' \in getManagers(file[target.iface], target.dest)
          /\ sound' = (behind \cap ({target.iface} \X Writable) = {})
          /\ step' = "send"
          /\ UNCHANGED <<target, disableStatus, held, allowed>>
       \/ Return
    /\ UNCHANGED <<config, disabled, switches, traps>>

\* Mutant: the disable status is not consulted.
MutantSend ==
    /\ step = "send" /\ step' = "sent"
    /\ UNCHANGED <<config, disabled, switches, target, disableStatus, manager, traps, sound, held, allowed>>

Send ==
    /\ step = "send" /\ manager[1] \notin disableStatus
    /\ step' = "sent"
    /\ UNCHANGED <<config, disabled, switches, target, disableStatus, manager, traps, sound, held, allowed>>

\* Sent; or the version is disabled, or a step of composing the trap failed.
SendReturns ==
    /\ step \in {"send", "sent"} /\ Return
    /\ UNCHANGED <<config, disabled, switches, traps>>

SwitchVersion ==
    /\ switches < MaxSwitches /\ switches' = switches + 1
    /\ \E v \in Version :
          disabled' = IF v \in disabled THEN disabled \ {v} ELSE disabled \cup {v}
    /\ allowed' = IF step = "idle" THEN {} ELSE allowed \cup (Version \ disabled')
    /\ UNCHANGED <<config, sender, held>>

Configures ==
    /\ ConfigNext
    /\ held' = IF step = "idle" THEN held ELSE held \cup {param'[target.iface]}
    /\ UNCHANGED <<disabled, switches, sender, allowed>>

Init ==
    /\ ConfigInit
    /\ disabled \in {{}, {2}} /\ switches = 0
    /\ step = "idle" /\ target = Nothing /\ disableStatus = {} /\ manager = <<>>
    /\ traps = 0 /\ held = {} /\ allowed = {} /\ sound = FALSE

Next ==
    \/ Configures \/ SwitchVersion
    \/ SendTrap \/ getSNMPDisableStatus \/ ReadLanFile \/ Send \/ SendReturns

Spec == Init /\ [][Next]_vars

--------------------------------------------------------------------------------
(***************************************************************************)
(* A trap goes where its interface was configured to send one, with the    *)
(* version, address and credential of one configuration and not of two:    *)
(* one that pef-configuration held at some moment since sendTrap began, or *)
(* the one that the Set in progress then was about to replace.  Files that *)
(* are behind with the interface are excepted.                             *)
(***************************************************************************)
TrapAsConfigured ==
    step = "sent" /\ sound =>
        \E cfg \in held : manager \in getManagers(cfg, target.dest)

(***************************************************************************)
(* No trap in a version that was disabled all the time since sendTrap      *)
(* began.                                                                  *)
(***************************************************************************)
TrapVersionAllowed == step = "sent" => manager[1] \in allowed
================================================================================
