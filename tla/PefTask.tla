-------------------------------- MODULE PefTask --------------------------------
(***************************************************************************)
(* pef-event-filtering's handling of doPefTask (pef_action.cpp): a call is *)
(* queued by the bus, the single-threaded event loop dispatches it, and    *)
(* the handler runs to its end through a series of synchronous D-Bus       *)
(* calls.  Each call is a step: it sees the configuration of that moment,  *)
(* or fails (the peer is down, or 25 s pass without an answer).  Between   *)
(* two steps users rewrite the configuration, the host's power changes,    *)
(* more calls arrive, and the daemon may be restarted.                     *)
(*                                                                         *)
(* A table of lists is one function from row numbers, in the order the     *)
(* code walks them, to rows; a row that some column is too short for is    *)
(* skipped by the code as a disabled row is, and is modelled as one.       *)
(***************************************************************************)
EXTENDS EventFilter, Integers, Sequences, FiniteSets

CONSTANTS
    NLists, ListSize,           \* ListN objects and the rows of each (4 and 10)
    NPolicyLists, PolicyListSize, \* policy objects and their rows (4 and 15)
    Channel,                    \* channel numbers an alert policy row can hold
    EthChannel,                 \* those that getEthChannelInterfaceMap resolves
    User, NoUser,               \* names in userName; NoUser is the empty one
    Event,                      \* events that doPefTask is called with
    Entry, PolicyEntry, LanEntry, TmrValue, \* values that users write
    Boot,                       \* configurations at the start
    MaxCalls,                   \* bound: doPefTask calls
    MaxEdits                    \* bound: steps of users, host and service manager

Rows == 1..(NLists * ListSize)
ListOf(r) == (r - 1) \div ListSize + 1
Policies == 1..(NPolicyLists * PolicyListSize)
PolicyListOf(p) == (p - 1) \div PolicyListSize + 1

\* Bits 0x01 and 0x02 of PEFControl.
ControlBit == {"enable", "selLog"}
\* Destination types: 0 to 2 are SNMP traps, 3 is SMTP, others raise no alert.
DestinationType == 0..7
SNMPTypes == 0..2
SMTPType == 3

AlertPolicyTbl ==
    [EnableAlert : BOOLEAN, AlertPolicyGroupNum : Nat, ChannelNo : Channel,
     DestinationSel : Nat]
LanParamConfig == [Type : Seq(DestinationType), userName : Seq(User)]

\* What pef-configuration and the host's state manager answer with.
Configuration ==
    [PEFControl : SUBSET ControlBit,
     PEFActionGblControl : SUBSET Action,
     ArmPEFPostponeTmr : TmrValue,
     EventFilterTable : [Rows -> Entry],
     AlertPolicyTable : [Policies -> PolicyEntry],
     LanParam : [Channel -> LanEntry],
     hostOn : BOOLEAN]

ASSUME TaskAssumption ==
    /\ {NLists, ListSize, NPolicyLists, PolicyListSize} \subseteq Nat \ {0}
    /\ {MaxCalls, MaxEdits} \subseteq Nat
    /\ EthChannel \subseteq Channel
    /\ NoUser \in User
    /\ Event \subseteq EventMsgData
    /\ Entry \subseteq EvtFilterTblEntry
    /\ PolicyEntry \subseteq AlertPolicyTbl
    /\ LanEntry \subseteq LanParamConfig
    /\ TmrValue \subseteq 0..255
    /\ Boot \subseteq Configuration

VARIABLES
    \* outside the daemon
    conf,       \* the configuration as of now
    queue,      \* calls delivered and not yet dispatched
    calls,      \* number of calls made
    answered,   \* number of calls whose handler returned, threw or was killed
    edits,      \* number of outside steps
    \* the handler
    pc,         \* the D-Bus call it makes next
    eveMsg,     \* the event of the call
    pefCtl,     \* PEFControl as pefTask read it
    list,       \* next filter list, then next policy list, to read
    matched,    \* matchedEveFltEntries: row number -> the row as read
    ethMap,     \* channels the interface map resolved
    info,       \* pefcfgInfo
    row,        \* the matched row being acted on
    selected,   \* Alertpolicy: policy number -> the policy as read
    policy,     \* the policy being alerted
    \* the daemon
    retryEnable, lastProcessed,
    \* history of the current or last call
    acts,       \* what the handler did, in order
    seen,       \* what the configuration held at some moment since dispatch
    disturbed,  \* what changed, or could not be read, since dispatch
    outcome,    \* how the handler ended
    accepted    \* record ids for which sendSmtpAlert returned 0 (never reset)

conn == <<conf, edits>>
caller == <<queue, calls>>
scan == <<eveMsg, pefCtl, matched, ethMap, info>>
walk == <<list, row, selected, policy>>
daemon == <<retryEnable, lastProcessed, accepted>>
history == <<acts, seen, disturbed>>
return == <<answered, outcome>>
vars == <<conn, caller, scan, walk, daemon, history, return, pc>>

--------------------------------------------------------------------------------
\* The loops take the smallest row or policy that is left.
First(x, S) == x \in S /\ \A y \in S : x <= y

\* f with the values g has on S.
Merge(f, S, g) == [x \in DOMAIN f \cup S |-> IF x \in S THEN g[x] ELSE f[x]]

Empty == [x \in {} |-> 0]

(***************************************************************************)
(* History.  An act of the handler names the row and, for an alert, the    *)
(* policy it is for.                                                       *)
(***************************************************************************)
ActKind == {"sel", "powerOff", "reboot", "smtp", "snmp"}
Act == [kind : ActKind, row : Rows, policy : {0} \cup Policies, status : {"ok", "failed", "lost"}]

Do(kind, p, status) == [kind |-> kind, row |-> row, policy |-> p, status |-> status]
\* PEFActionSELLOG, when the snapshot's bit 0x02 says so; its failure is caught.
SELLog(p) == IF "selLog" \in info.PEFControl THEN <<Do("sel", p, "ok")>> ELSE <<>>

See(c) ==
    [enabled |-> "enable" \in c.PEFControl,
     unpostponed |-> c.ArmPEFPostponeTmr \in {0, 255},
     gbl |-> c.PEFActionGblControl,
     rows |-> {<<r, c.EventFilterTable[r]>> : r \in Rows},
     policies |-> {<<p, c.AlertPolicyTable[p]>> : p \in Policies},
     lans |-> {<<n, c.LanParam[n]>> : n \in Channel},
     hostOn |-> c.hostOn]

Seen == [enabled : BOOLEAN, unpostponed : BOOLEAN, gbl : SUBSET Action,
         rows : SUBSET (Rows \X Entry), policies : SUBSET (Policies \X PolicyEntry),
         lans : SUBSET (Channel \X LanEntry), hostOn : BOOLEAN]

SeeAlso(c) ==
    [enabled |-> seen.enabled \/ See(c).enabled,
     unpostponed |-> seen.unpostponed \/ See(c).unpostponed,
     gbl |-> seen.gbl \cup See(c).gbl,
     rows |-> seen.rows \cup See(c).rows,
     policies |-> seen.policies \cup See(c).policies,
     lans |-> seen.lans \cup See(c).lans,
     hostOn |-> seen.hostOn \/ See(c).hostOn]

Disturb(what) == disturbed' = disturbed \cup {what}

(***************************************************************************)
(* Control flow of the handler.                                            *)
(***************************************************************************)
Goto(next) == pc' = next /\ UNCHANGED return

\* Mutant: a handler that is thrown out of leaves its caller without an answer.
MutantReturn(how) ==
    pc' = "idle" /\ outcome' = how /\ answered' = IF how = "aborted" THEN answered ELSE answered + 1

Return(how) == pc' = "idle" /\ outcome' = how /\ answered' = answered + 1

\* performPefAction's loop goes on to the next matched row, or ends.
NextRow ==
    LET rest == {r \in DOMAIN matched : r > row}
    IN  \/ rest = {} /\ Return("done") /\ UNCHANGED row
        \/ \E r \in rest : First(r, rest) /\ row' = r /\ Goto("power")

\* Mutant: a policy that leads nowhere ends the loop over policies.
MutantNextPolicy == NextRow /\ UNCHANGED policy

\* Its inner loop goes on to the next policy, or ends.
NextPolicy ==
    LET rest == {p \in DOMAIN selected : p > policy}
    IN  \/ rest = {} /\ NextRow /\ UNCHANGED policy
        \/ \E p \in rest : First(p, rest) /\ policy' = p /\ Goto("destination") /\ UNCHANGED row

--------------------------------------------------------------------------------
(***************************************************************************)
(* Outside the handler.                                                    *)
(***************************************************************************)
Call ==
    /\ calls < MaxCalls
    /\ calls' = calls + 1
    /\ \E e \in Event : queue' = Append(queue, e)
    /\ UNCHANGED <<conn, scan, walk, daemon, history, return, pc>>

Edit == edits < MaxEdits /\ edits' = edits + 1

Write(c, what) ==
    /\ Edit
    /\ conf' = c
    /\ IF pc = "idle"
         THEN UNCHANGED <<seen, disturbed>>
         ELSE seen' = SeeAlso(c) /\ Disturb(what)
    /\ UNCHANGED <<caller, scan, walk, daemon, acts, return, pc>>

SetPEFControl ==
    \E v \in SUBSET ControlBit :
        Write([conf EXCEPT !.PEFControl = v], <<"PEFControl">>)
SetPEFActionGblControl ==
    \E v \in SUBSET Action :
        Write([conf EXCEPT !.PEFActionGblControl = v], <<"PEFActionGblControl">>)
SetArmPEFPostponeTmr ==
    \E v \in TmrValue :
        Write([conf EXCEPT !.ArmPEFPostponeTmr = v], <<"ArmPEFPostponeTmr">>)
SetEventFilterTable ==
    \E r \in Rows, v \in Entry :
        Write([conf EXCEPT !.EventFilterTable[r] = v], <<"row", r>>)
SetAlertPolicyTable ==
    \E p \in Policies, v \in PolicyEntry :
        Write([conf EXCEPT !.AlertPolicyTable[p] = v], <<"policy", p>>)
SetLanParam ==
    \E c \in Channel, v \in LanEntry :
        Write([conf EXCEPT !.LanParam[c] = v], <<"lan", c>>)
HostPowerChanges ==
    Write([conf EXCEPT !.hostOn = ~@], <<"hostOn">>)

\* A method of the same event loop: it runs between two handlers.
setRetryEnable ==
    /\ pc = "idle"
    /\ Edit
    /\ retryEnable' = ~retryEnable
    /\ UNCHANGED <<conf, caller, scan, walk, lastProcessed, accepted, history, return, pc>>

\* systemd restarts the daemon: callers get an error, nothing is resumed.
Restart ==
    /\ Edit
    /\ queue' = <<>>
    /\ answered' = calls
    /\ pc' = "idle"
    /\ outcome' = IF pc = "idle" THEN outcome ELSE "killed"
    /\ UNCHANGED <<conf, calls, scan, walk, daemon, history>>

Outside ==
    \/ Call
    \/ SetPEFControl \/ SetPEFActionGblControl \/ SetArmPEFPostponeTmr
    \/ SetEventFilterTable \/ SetAlertPolicyTable \/ SetLanParam
    \/ HostPowerChanges \/ setRetryEnable \/ Restart

--------------------------------------------------------------------------------
(***************************************************************************)
(* pefTask: the two switches are read one after the other.                 *)
(***************************************************************************)
Dispatch ==
    /\ pc = "idle" /\ queue # <<>>
    /\ eveMsg' = Head(queue)
    /\ queue' = Tail(queue)
    /\ acts' = <<>>
    /\ seen' = See(conf)
    /\ disturbed' = {}
    /\ outcome' = "running"
    /\ pc' = "control"
    /\ pefCtl' = {} /\ matched' = Empty /\ ethMap' = {} /\ selected' = Empty
    /\ info' = [PEFControl |-> {}, PEFActionGblControl |-> {}]
    /\ list' = 1 /\ row' = 0 /\ policy' = 0
    /\ UNCHANGED <<conn, calls, daemon, answered>>

ReadPEFControl ==
    /\ pc = "control"
    /\ \/ pefCtl' = conf.PEFControl /\ Goto("timer") /\ UNCHANGED disturbed
       \/ Return("dropped") /\ Disturb(<<"PEFControl">>) /\ UNCHANGED pefCtl
    /\ UNCHANGED <<conn, caller, eveMsg, matched, ethMap, info, walk, daemon, acts, seen>>

ReadPostponeTmr ==
    /\ pc = "timer"
    /\ LET postponed == conf.ArmPEFPostponeTmr \notin {0, 255}
       IN  \/ ~postponed /\ "enable" \in pefCtl /\ Goto("count") /\ UNCHANGED disturbed
           \/ (postponed \/ "enable" \notin pefCtl) /\ Return("dropped") /\ UNCHANGED disturbed
           \/ Return("dropped") /\ Disturb(<<"ArmPEFPostponeTmr">>)
    /\ UNCHANGED <<conn, caller, scan, walk, daemon, acts, seen>>

(***************************************************************************)
(* eventFilteringProcess: the lists are counted (0 when the mapper does    *)
(* not answer or pef-configuration exports none) and read one by one; a    *)
(* list that cannot be read is passed over.                                *)
(***************************************************************************)
CountLists ==
    /\ pc = "count"
    /\ \/ Goto("lists") /\ UNCHANGED disturbed
       \/ Return("done") /\ Disturb(<<"count">>)
    /\ UNCHANGED <<conn, caller, scan, walk, daemon, acts, seen>>

ReadList ==
    /\ pc = "lists"
    /\ \/ /\ LET hits == {r \in Rows : ListOf(r) = list /\ EntryMatches(conf.EventFilterTable[r], eveMsg)}
             IN  matched' = Merge(matched, hits, conf.EventFilterTable)
          /\ UNCHANGED disturbed
       \/ UNCHANGED matched /\ Disturb(<<"list", list>>)
    /\ list' = list + 1
    /\ \/ list < NLists /\ UNCHANGED <<pc, return>>
       \/ list = NLists /\ DOMAIN matched' = {} /\ Return("done")
       \/ list = NLists /\ DOMAIN matched' # {} /\ Goto("ethMap")
    /\ UNCHANGED <<conn, caller, eveMsg, pefCtl, ethMap, info, row, selected, policy, daemon, acts, seen>>

\* Mutant: channels without an interface stay in the map.
MutantEveryChannel ==
    /\ pc = "ethMap"
    /\ ethMap' = Channel /\ Goto("confInfo")
    /\ UNCHANGED <<conn, caller, eveMsg, pefCtl, matched, info, walk, daemon, history>>

GetEthMap ==
    /\ pc = "ethMap"
    /\ \/ ethMap' = EthChannel /\ UNCHANGED disturbed
       \/ ethMap' = {} /\ Disturb(<<"ethMap">>)
    /\ Goto("confInfo")
    /\ UNCHANGED <<conn, caller, eveMsg, pefCtl, matched, info, walk, daemon, acts, seen>>

GetPefConfInfo ==
    /\ pc = "confInfo"
    /\ \/ /\ info' = [PEFControl |-> conf.PEFControl,
                      PEFActionGblControl |-> conf.PEFActionGblControl]
          /\ \E r \in DOMAIN matched : First(r, DOMAIN matched) /\ row' = r
          /\ Goto("power")
          /\ UNCHANGED disturbed
       \/ Return("done") /\ Disturb(<<"confInfo">>) /\ UNCHANGED <<info, row>>
    /\ UNCHANGED <<conn, caller, eveMsg, pefCtl, matched, ethMap, list, selected, policy, daemon, acts, seen>>

--------------------------------------------------------------------------------
\* Mutant: PEFActionGblControl is not consulted.
MutantPermitted(a) == a \in matched[row].EvtFilterAction

(***************************************************************************)
(* performPefAction, power: off wins over cycle and reset, which are the   *)
(* same request, made only to a host that reads as on.  A transition that  *)
(* cannot be requested throws out of the handler.                          *)
(***************************************************************************)
Permitted(a) == a \in matched[row].EvtFilterAction \cap info.PEFActionGblControl
CycleOrReset == Permitted("powerCycle") \/ Permitted("reset")

Transition(kind, log) ==
    \E status \in {"ok", "failed"} :
        /\ acts' = acts \o (log \o <<Do(kind, 0, status)>>)
        /\ IF status = "ok" THEN Goto("alert") ELSE Return("aborted")

PowerAction ==
    /\ pc = "power"
    /\ \/ Permitted("powerOff") /\ Transition("powerOff", SELLog(0)) /\ UNCHANGED seen
       \/ /\ ~Permitted("powerOff") /\ CycleOrReset
          /\ acts' = acts \o SELLog(0)
          /\ seen' = [seen EXCEPT !.hostOn = conf.hostOn]
          /\ Goto("powerState")
       \/ /\ ~Permitted("powerOff") /\ ~CycleOrReset
          /\ Goto("alert") /\ UNCHANGED <<acts, seen>>
    /\ UNCHANGED <<conn, caller, scan, walk, daemon, disturbed>>

\* Mutant: a power state that cannot be read counts as on.
MutantOnByDefault ==
    /\ pc = "powerState"
    /\ \/ conf.hostOn /\ Goto("reboot") /\ UNCHANGED disturbed
       \/ ~conf.hostOn /\ Goto("alert") /\ UNCHANGED disturbed
       \/ Goto("reboot") /\ Disturb(<<"hostOn">>)
    /\ UNCHANGED <<conn, caller, scan, walk, daemon, acts, seen>>

GetPowerStatus ==
    /\ pc = "powerState"
    /\ \/ conf.hostOn /\ Goto("reboot") /\ UNCHANGED disturbed
       \/ ~conf.hostOn /\ Goto("alert") /\ UNCHANGED disturbed
       \/ Goto("alert") /\ Disturb(<<"hostOn">>)
    /\ UNCHANGED <<conn, caller, scan, walk, daemon, acts, seen>>

Reboot ==
    /\ pc = "reboot"
    /\ Transition("reboot", <<>>)
    /\ UNCHANGED <<conn, caller, scan, walk, daemon, seen, disturbed>>

(***************************************************************************)
(* performPefAction, alerts: checkAlertPoicyTbl selects the enabled        *)
(* policies of the row's group; each is resolved to a destination of its   *)
(* channel's LAN parameters.                                               *)
(***************************************************************************)
CheckAlert ==
    LET alerting == Permitted("alert") /\ matched[row].AlertPolicyNum > 0
    IN  /\ pc = "alert"
        /\ \/ alerting /\ list' = 1 /\ Goto("policies") /\ UNCHANGED <<row, disturbed>>
           \/ alerting /\ NextRow /\ Disturb(<<"policyPaths">>) /\ UNCHANGED list
           \/ ~alerting /\ NextRow /\ UNCHANGED <<list, disturbed>>
        /\ selected' = Empty /\ policy' = 0
        /\ UNCHANGED <<conn, caller, scan, daemon, acts, seen>>

\* Mutant: EnableAlert is not tested.
MutantSelectsPolicy(p, number) == p.AlertPolicyGroupNum = number

SelectsPolicy(p, number) == p.EnableAlert /\ p.AlertPolicyGroupNum = number

ReadPolicyList ==
    /\ pc = "policies"
    /\ \/ /\ LET hits == {p \in Policies : PolicyListOf(p) = list /\
                            SelectsPolicy(conf.AlertPolicyTable[p], matched[row].AlertPolicyNum)}
             IN  selected' = Merge(selected, hits, conf.AlertPolicyTable)
          /\ UNCHANGED disturbed
       \/ UNCHANGED selected /\ Disturb(<<"policyList", list>>)
    /\ list' = list + 1
    /\ \/ list < NPolicyLists /\ UNCHANGED <<pc, return, row, policy>>
       \/ list = NPolicyLists /\ DOMAIN selected' = {} /\ NextRow /\ UNCHANGED policy
       \/ /\ list = NPolicyLists
          /\ \E p \in DOMAIN selected' : First(p, DOMAIN selected') /\ policy' = p
          /\ Goto("destination") /\ UNCHANGED row
    /\ UNCHANGED <<conn, caller, scan, daemon, acts, seen>>

(***************************************************************************)
(* Destination n is element n of the arrays, read at index n - 1.  The     *)
(* code bounds n, not the index: the last destination is passed over, and  *)
(* destination 0 reads the byte before the array, which can be any type.   *)
(***************************************************************************)
TypesAt(types, n) ==
    IF n >= Len(types) THEN {} ELSE IF n = 0 THEN DestinationType ELSE {types[n]}
UserAt(names, n) == IF n \in 1..Len(names) THEN names[n] ELSE NoUser

ResolveDestination ==
    LET p == selected[policy]
        lan == conf.LanParam[p.ChannelNo]
        user == UserAt(lan.userName, p.DestinationSel)
        types == TypesAt(lan.Type, p.DestinationSel)
        Alerts(type) == type \in SNMPTypes \/ (type = SMTPType /\ user # NoUser)
    IN  /\ pc = "destination"
        /\ \/ /\ p.ChannelNo \in ethMap
              /\ \E type \in types :
                    /\ Alerts(type)
                    /\ Goto(IF type = SMTPType THEN "smtp" ELSE "snmp")
              /\ UNCHANGED <<row, policy, disturbed>>
           \/ /\ p.ChannelNo \notin ethMap \/ types = {} \/ \E type \in types : ~Alerts(type)
              /\ NextPolicy /\ UNCHANGED disturbed
           \/ /\ p.ChannelNo \in ethMap
              /\ NextPolicy /\ Disturb(<<"lan", p.ChannelNo>>)
        /\ UNCHANGED <<conn, caller, scan, list, selected, daemon, acts, seen>>

\* Mutant: the SEL record follows the alert.
MutantAlerted(kind, status) == acts' = acts \o <<Do(kind, policy, status)>> \o SELLog(policy)

Alerted(kind, status) == acts' = acts \o (SELLog(policy) \o <<Do(kind, policy, status)>>)

\* Mutant: the status of the mail is not looked at.
MutantEveryMailRecorded ==
    /\ pc = "smtp"
    /\ \E status \in {"ok", "failed"} :
          /\ Alerted("smtp", status)
          /\ accepted' = IF status = "ok" THEN accepted \cup {eveMsg.recordId} ELSE accepted
    /\ Goto("record")
    /\ UNCHANGED <<conn, caller, scan, walk, retryEnable, lastProcessed, seen, disturbed>>

(***************************************************************************)
(* sendSmtpAlert: without a mail address, a usable mail host or an answer  *)
(* it fails.  A request the retry queue rejects is returned as success.    *)
(***************************************************************************)
SendSmtpAlert ==
    /\ pc = "smtp"
    /\ \/ Alerted("smtp", "failed") /\ NextPolicy /\ UNCHANGED accepted
       \/ Alerted("smtp", "failed") /\ Return("aborted") /\ UNCHANGED <<row, policy, accepted>>
       \/ /\ \/ Alerted("smtp", "ok")
             \/ retryEnable /\ Alerted("smtp", "lost")
          /\ accepted' = accepted \cup {eveMsg.recordId}
          /\ Goto("record") /\ UNCHANGED <<row, policy>>
    /\ UNCHANGED <<conn, caller, scan, list, selected, retryEnable, lastProcessed, seen, disturbed>>

SetLastBMCProcessedEventID ==
    /\ pc = "record"
    /\ lastProcessed' \in {lastProcessed, eveMsg.recordId}
    /\ NextPolicy
    /\ UNCHANGED <<conn, caller, scan, list, selected, retryEnable, accepted, history>>

(***************************************************************************)
(* sendSNMPAlert: a failed read of the host name throws out of the         *)
(* handler; whether sendOBMCErrorNotification sent a trap is not looked at.*)
(***************************************************************************)
SendSNMPAlert ==
    /\ pc = "snmp"
    /\ \/ Alerted("snmp", "ok") /\ NextPolicy
       \/ ~retryEnable /\ Alerted("snmp", "lost") /\ NextPolicy
       \/ Alerted("snmp", "failed") /\ NextPolicy
       \/ Alerted("snmp", "failed") /\ Return("aborted") /\ UNCHANGED <<row, policy>>
    /\ UNCHANGED <<conn, caller, scan, list, selected, daemon, seen, disturbed>>

--------------------------------------------------------------------------------
Handler ==
    \/ Dispatch \/ ReadPEFControl \/ ReadPostponeTmr
    \/ CountLists \/ ReadList \/ GetEthMap \/ GetPefConfInfo
    \/ PowerAction \/ GetPowerStatus \/ Reboot
    \/ CheckAlert \/ ReadPolicyList \/ ResolveDestination
    \/ SendSmtpAlert \/ SetLastBMCProcessedEventID \/ SendSNMPAlert

Init ==
    /\ conf \in Boot
    /\ queue = <<>> /\ calls = 0 /\ answered = 0 /\ edits = 0
    /\ pc = "idle" /\ outcome = "none"
    /\ eveMsg \in Event
    /\ pefCtl = {} /\ matched = Empty /\ ethMap = {} /\ selected = Empty
    /\ info = [PEFControl |-> {}, PEFActionGblControl |-> {}]
    /\ list = 1 /\ row = 0 /\ policy = 0
    /\ retryEnable \in BOOLEAN /\ lastProcessed = 0 /\ accepted = {}
    /\ acts = <<>> /\ seen = See(conf) /\ disturbed = {}

Next == Handler \/ Outside

\* Every synchronous call ends, with an answer or after its timeout; nothing
\* is asked of users, the host or the service manager.
Fairness == WF_vars(Handler)

Spec == Init /\ [][Next]_vars
FairSpec == Spec /\ Fairness

--------------------------------------------------------------------------------
PC == {"idle", "control", "timer", "count", "lists", "ethMap", "confInfo",
       "power", "powerState", "reboot", "alert", "policies", "destination",
       "smtp", "record", "snmp"}

\* Every variable holds a value its C++ counterpart can hold.
TypeOK ==
    /\ conf \in Configuration
    /\ queue \in Seq(Event) /\ {calls, answered, edits} \subseteq Nat
    /\ pc \in PC /\ eveMsg \in Event
    /\ pefCtl \subseteq ControlBit
    /\ DOMAIN matched \subseteq Rows /\ \A r \in DOMAIN matched : matched[r] \in Entry
    /\ DOMAIN selected \subseteq Policies /\ \A p \in DOMAIN selected : selected[p] \in PolicyEntry
    /\ ethMap \subseteq EthChannel
    /\ info \in [PEFControl : SUBSET ControlBit, PEFActionGblControl : SUBSET Action]
    /\ {list, row, policy, lastProcessed} \subseteq Nat
    /\ retryEnable \in BOOLEAN /\ accepted \subseteq Nat
    /\ acts \in Seq(Act) /\ seen \in Seen
    /\ outcome \in {"none", "running", "dropped", "done", "aborted", "killed"}

(***************************************************************************)
(* A call is in the bus's queue, in the handler, or answered: none is lost *)
(* or handled twice, however its handler ends (dropped, thrown out of,     *)
(* killed by a restart).                                                   *)
(***************************************************************************)
CallsAccountedFor ==
    calls = answered + Len(queue) + (IF pc = "idle" THEN 0 ELSE 1)

\* The filter and global actions that allow an act.
Allowing(kind) ==
    CASE kind = "powerOff" -> {"powerOff"}
      [] kind = "reboot" -> {"reset", "powerCycle"}
      [] kind \in {"smtp", "snmp"} -> {"alert"}
      [] kind = "sel" -> Action

\* What the configuration must have held, history s, for an act on an event.
Authorised(act, s, event) ==
    /\ s.enabled /\ s.unpostponed
    /\ \E e \in Entry :
          /\ <<act.row, e>> \in s.rows
          /\ EntryMatches(e, event)
          /\ e.EvtFilterAction \cap Allowing(act.kind) \cap s.gbl # {}

(***************************************************************************)
(* The handler reads PEFControl, the postpone timer, each list and the     *)
(* global control at different moments.  Whatever it does is still backed  *)
(* by the configuration of its own call: PEF was enabled and not postponed *)
(* at some moment since dispatch, and the row it acts for was in the table *)
(* then, matched the event, and asked for an action globally allowed at    *)
(* some moment since dispatch.                                             *)
(***************************************************************************)
EveryActAuthorised == \A i \in DOMAIN acts : Authorised(acts[i], seen, eveMsg)

InGroup(p, e) == p.EnableAlert /\ p.AlertPolicyGroupNum = e.AlertPolicyNum

\* The same for the policy of an alert.
FollowsPolicy(act, s) ==
    act.kind \in {"smtp", "snmp"} =>
        \E e \in Entry, p \in PolicyEntry :
            /\ <<act.row, e>> \in s.rows
            /\ <<act.policy, p>> \in s.policies
            /\ InGroup(p, e)
            /\ p.ChannelNo \in EthChannel

(***************************************************************************)
(* An alert is for a policy that, at some moment since dispatch, was       *)
(* enabled, belonged to the group of a value that the alerting row then    *)
(* had, and named a channel with an Ethernet interface.                    *)
(***************************************************************************)
AlertsFollowPolicies == \A i \in DOMAIN acts : FollowsPolicy(acts[i], seen)

\* Act a belongs before act b.
Precedes(a, b) ==
    \/ a.row < b.row
    \/ a.row = b.row /\ a.policy < b.policy
    \/ a.row = b.row /\ a.policy = b.policy /\ a.kind = "sel" /\ b.kind # "sel"

(***************************************************************************)
(* Acts come in the order of the filter table; for one row the power       *)
(* action comes before the alerts, these in the order of the policy table, *)
(* the SEL record of an act before the act; and nothing is done twice.     *)
(***************************************************************************)
ActsOnceInTableOrder ==
    \A i, j \in DOMAIN acts : i < j => Precedes(acts[i], acts[j])

(***************************************************************************)
(* A host restart is requested only if the host was on when, or after, the *)
(* handler turned to the row that asks for it: performPefAction does not   *)
(* power up a host that was off all along.                                 *)
(***************************************************************************)
RebootOnlyAHostSeenOn ==
    [][acts' # acts /\ pc = "reboot" => seen.hostOn]_vars

\* Nothing of what was changed or failed; and the acts a row's actions call for.
Undisturbed(what) == disturbed \cap what = {}
Did(kind, r, p) == \E i \in DOMAIN acts : acts[i].kind = kind /\ acts[i].row = r /\ acts[i].policy = p

PowerActedOn(r, e) ==
    IF "powerOff" \in e.EvtFilterAction \cap seen.gbl
    THEN Did("powerOff", r, 0)
    ELSE e.EvtFilterAction \cap {"reset", "powerCycle"} \cap seen.gbl # {}
         /\ seen.hostOn /\ Undisturbed({<<"hostOn">>})
            => Did("reboot", r, 0)

AlertActedOn(r, e, p, q, lan) ==
    /\ "alert" \in e.EvtFilterAction \cap seen.gbl
    /\ InGroup(q, e) /\ e.AlertPolicyNum > 0
    /\ q.ChannelNo \in EthChannel
    /\ Undisturbed({<<"policyPaths">>, <<"policy", p>>, <<"policyList", PolicyListOf(p)>>,
                    <<"ethMap">>, <<"lan", q.ChannelNo>>})
    /\ q.DestinationSel \in 1..(Len(lan.Type) - 1)
    => LET type == lan.Type[q.DestinationSel]
       IN  /\ type \in SNMPTypes => Did("snmp", r, p)
           /\ type = SMTPType /\ UserAt(lan.userName, q.DestinationSel) # NoUser
                => Did("smtp", r, p)

(***************************************************************************)
(* What stays put and can be read is acted on.  A call that neither        *)
(* aborts nor is killed has carried out every action of every row that     *)
(* matches, if what decides about that action did not change and was read: *)
(* a failed read, or an edit made meanwhile, costs only what depends on it.*)
(* For an alert, the destination has an address to go to, and is not the   *)
(* last of its channel, which the code passes over.                        *)
(***************************************************************************)
UndisturbedRowsActedOn ==
    (/\ pc = "idle" /\ outcome \in {"dropped", "done"}
     /\ seen.enabled /\ seen.unpostponed
     /\ Undisturbed({<<"PEFControl">>, <<"ArmPEFPostponeTmr">>, <<"count">>,
                     <<"confInfo">>, <<"PEFActionGblControl">>}))
    => \A re \in seen.rows :
          LET r == re[1]
              e == re[2]
          IN  EntryMatches(e, eveMsg) /\ Undisturbed({<<"row", r>>, <<"list", ListOf(r)>>})
              => /\ PowerActedOn(r, e)
                 /\ \A pq \in seen.policies, nl \in seen.lans :
                       nl[1] = pq[2].ChannelNo => AlertActedOn(r, e, pq[1], pq[2], nl[2])

(***************************************************************************)
(* What the handler records in LastBMCProcessedEventID only ever names an  *)
(* event for which sendSmtpAlert returned success.  (Users can write the   *)
(* property too, and pef-configuration loads it from its file;             *)
(* lastProcessed is the last id that came from the handler.)               *)
(***************************************************************************)
LastProcessedWasAccepted == lastProcessed \in accepted \cup {0}

(***************************************************************************)
(* Every call is answered, whatever fails: each peer's silence ends in a   *)
(* timeout and no failure makes the handler try again.                     *)
(***************************************************************************)
EveryCallAnswered == \A n \in 1..MaxCalls : calls >= n ~> answered >= n

(***************************************************************************)
(* The handler, with every step between dispatch and return hidden, is the *)
(* queue of calls that TaskQueue promises.                                 *)
(***************************************************************************)
Promise == INSTANCE TaskQueue WITH waiting <- queue, busy <- pc # "idle"

ImplementsTaskQueue == Promise!FairSpec
================================================================================
