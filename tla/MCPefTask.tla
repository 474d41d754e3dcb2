------------------------------- MODULE MCPefTask -------------------------------
(***************************************************************************)
(* A small table for PefTask: two filter lists of one row, two policy      *)
(* objects of one row, a channel with an interface and one without.        *)
(***************************************************************************)
EXTENDS PefTask

CONSTANTS FF, Z00, temperature, voltage, sensor, root

AnyData == [i \in DataBytes |-> [ANDMask |-> {}, Cmp1 |-> {}, Cmp2 |-> {}]]

Filter(on, type, actions, group) ==
    [FilterConfig |-> on,
     GenIDByte1 |-> FF, GenIDByte2 |-> FF, SensorType |-> type, SensorNum |-> FF,
     EventTrigger |-> FF, EventData |-> AnyData,
     EventData1OffsetMask |-> {{}},
     EvtFilterAction |-> actions, AlertPolicyNum |-> group]

\* A row for any sensor, one for temperatures only, one that is disabled.
OffAndAlert == Filter(TRUE, FF, {"powerOff", "alert"}, 1)
CycleAndAlert == Filter(TRUE, temperature, {"powerCycle", "reset", "alert"}, 1)
Disabled == Filter(FALSE, FF, {"powerOff", "alert"}, 1)
MCEntry == {OffAndAlert, CycleAndAlert, Disabled}

EventOf(id, type) ==
    [recordId |-> id, generatorId1 |-> Z00, generatorId2 |-> Z00,
     sensorType |-> type, sensorNum |-> sensor, eventType |-> Z00,
     eventData |-> [i \in DataBytes |-> {}]]
MCEvent == {EventOf(1, temperature), EventOf(2, voltage)}

Policy(on, channel, destination) ==
    [EnableAlert |-> on, AlertPolicyGroupNum |-> 1, ChannelNo |-> channel,
     DestinationSel |-> destination]
MCPolicyEntry ==
    {Policy(TRUE, 1, 1), Policy(TRUE, 1, 2), Policy(TRUE, 1, 0), Policy(TRUE, 2, 1),
     Policy(FALSE, 1, 1)}

\* Destination 1 a trap, 2 a mail, 3 the last one; and mails without a user.
TrapAndMail == [Type |-> <<1, 3, 1>>, userName |-> <<NoUser, root, NoUser>>]
MailNoUser == [Type |-> <<3, 7>>, userName |-> <<NoUser>>]
MCLanEntry == {TrapAndMail, MailNoUser}

\* PEF enabled, with the tables full; disabled; postponed; another order of
\* the filters with the host off and policies that lead nowhere.
Enabled ==
    [PEFControl |-> {"enable", "selLog"},
     PEFActionGblControl |-> Action,
     ArmPEFPostponeTmr |-> 255,
     EventFilterTable |-> <<OffAndAlert, CycleAndAlert>>,
     AlertPolicyTable |-> <<Policy(TRUE, 1, 1), Policy(TRUE, 1, 2)>>,
     LanParam |-> <<TrapAndMail, TrapAndMail>>,
     hostOn |-> TRUE]
MCBoot ==
    {Enabled,
     [Enabled EXCEPT !.PEFControl = {}],
     [Enabled EXCEPT !.ArmPEFPostponeTmr = 254],
     [Enabled EXCEPT !.hostOn = FALSE,
                     !.EventFilterTable = <<CycleAndAlert, OffAndAlert>>,
                     !.AlertPolicyTable = <<Policy(TRUE, 1, 0), Policy(TRUE, 2, 1)>>]}

\* One row and one policy, for the runs with several calls.
SmallBoot ==
    {[Enabled EXCEPT !.EventFilterTable = <<CycleAndAlert>>,
                     !.AlertPolicyTable = <<Policy(TRUE, 1, 2)>>]}
================================================================================
