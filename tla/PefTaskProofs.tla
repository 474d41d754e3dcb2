----------------------------- MODULE PefTaskProofs -----------------------------
(***************************************************************************)
(* PefTask: type correctness, the authority of what the handler does, the  *)
(* account of its calls, the order of its acts, their completeness, and    *)
(* that it implements TaskQueue.                                           *)
(***************************************************************************)
EXTENDS PefTask, TLAPS, SequenceTheorems

--------------------------------------------------------------------------------
(***************************************************************************)
(* The inductive invariant.  Placed: the loops' variables point into what  *)
(* they range over.  Current: while the handler runs, the history covers   *)
(* the configuration of the moment.  Backed: what the handler has read     *)
(* into its locals is covered by the history.  Allowed: what it is about   *)
(* to do for the row was permitted by the snapshot.                        *)
(***************************************************************************)
Alerting == {"destination", "smtp", "record", "snmp"}
Acting == {"power", "powerState", "reboot", "alert", "policies"} \cup Alerting
Deciding == {"idle", "control", "timer"}

Placed ==
    /\ pc \in {"ethMap", "confInfo"} => DOMAIN matched # {}
    /\ pc \in Acting => row \in DOMAIN matched
    /\ pc \in Alerting => policy \in DOMAIN selected

Current ==
    pc # "idle" =>
        /\ See(conf).enabled => seen.enabled
        /\ See(conf).unpostponed => seen.unpostponed
        /\ See(conf).gbl \subseteq seen.gbl
        /\ See(conf).rows \subseteq seen.rows
        /\ See(conf).policies \subseteq seen.policies

Backed ==
    /\ pc # "idle" /\ "enable" \in pefCtl => seen.enabled
    /\ pc \notin Deciding => seen.enabled /\ seen.unpostponed
    /\ \A r \in DOMAIN matched :
          <<r, matched[r]>> \in seen.rows /\ EntryMatches(matched[r], eveMsg)
    /\ pc # "idle" => info.PEFActionGblControl \subseteq seen.gbl
    /\ pc \in Alerting \cup {"policies"} =>
          \A p \in DOMAIN selected :
             /\ <<p, selected[p]>> \in seen.policies
             /\ InGroup(selected[p], matched[row])

Allowed ==
    /\ pc \in {"powerState", "reboot"} => CycleOrReset
    /\ pc \in Alerting \cup {"policies"} => Permitted("alert")
    /\ pc \in {"smtp", "record", "snmp"} => selected[policy].ChannelNo \in EthChannel

IInv == TypeOK /\ Placed /\ Current /\ Backed /\ Allowed
            /\ EveryActAuthorised /\ AlertsFollowPolicies

--------------------------------------------------------------------------------
(***************************************************************************)
(* Lemmas on the data.                                                     *)
(***************************************************************************)
LEMMA TablesAreNumbered == Rows \subseteq Nat /\ Policies \subseteq Nat
  BY TaskAssumption DEF Rows, Policies

LEMMA ActPickedFromEither ==
    ASSUME NEW S, NEW s \in Seq(S), NEW t \in Seq(S)
    PROVE  /\ s \o t \in Seq(S)
           /\ \A i \in DOMAIN (s \o t) :
                 \/ i \in DOMAIN s /\ (s \o t)[i] = s[i]
                 \/ \E j \in DOMAIN t : (s \o t)[i] = t[j]
  <1>1. s \o t \in Seq(S)
    OBVIOUS
  <1>2. ASSUME NEW i \in DOMAIN (s \o t), i \notin DOMAIN s
        PROVE  \E j \in DOMAIN t : (s \o t)[i] = t[j]
    <2>1. i \in 1..(Len(s) + Len(t)) /\ ~(i <= Len(s))
      BY <1>2
    <2>2. i - Len(s) \in DOMAIN t /\ (s \o t)[i] = t[i - Len(s)]
      BY <2>1
    <2>3. QED
      BY <2>2
  <1>3. ASSUME NEW i \in DOMAIN s
        PROVE  (s \o t)[i] = s[i]
    OBVIOUS
  <1>4. QED
    BY <1>1, <1>2, <1>3

LEMMA SeenOf ==
    ASSUME NEW c \in Configuration
    PROVE  See(c) \in Seen
  BY DEF See, Seen, Configuration

(***************************************************************************)
(* The history only grows while a call is handled, so that what it         *)
(* justified stays justified.                                              *)
(***************************************************************************)
Grows ==
    /\ seen.enabled => seen'.enabled
    /\ seen.unpostponed => seen'.unpostponed
    /\ seen.gbl \subseteq seen'.gbl
    /\ seen.rows \subseteq seen'.rows
    /\ seen.policies \subseteq seen'.policies

Justified == EveryActAuthorised /\ AlertsFollowPolicies

LEMMA StaysBacked ==
    ASSUME Grows, UNCHANGED eveMsg, NEW a
    PROVE  /\ Authorised(a, seen, eveMsg) => Authorised(a, seen', eveMsg')
           /\ FollowsPolicy(a, seen) => FollowsPolicy(a, seen')
  BY DEF Grows, Authorised, FollowsPolicy

LEMMA ActsStayJustified ==
    ASSUME Justified, Grows, UNCHANGED <<acts, eveMsg>>
    PROVE  Justified'
  BY StaysBacked DEF Justified, EveryActAuthorised, AlertsFollowPolicies

\* New acts that the history backs keep all of them backed.
LEMMA NewActsJustified ==
    ASSUME TypeOK, Justified, Grows, eveMsg' = eveMsg,
           NEW t \in Seq(Act), acts' = acts \o t,
           \A j \in DOMAIN t : Authorised(t[j], seen', eveMsg') /\ FollowsPolicy(t[j], seen')
    PROVE  Justified' /\ acts' \in Seq(Act)
  <1>1. /\ acts \o t \in Seq(Act)
        /\ \A i \in DOMAIN (acts \o t) :
              \/ i \in DOMAIN acts /\ (acts \o t)[i] = acts[i]
              \/ \E j \in DOMAIN t : (acts \o t)[i] = t[j]
    <2>1. acts \in Seq(Act)
      BY DEF TypeOK
    <2>2. QED
      BY <2>1, ActPickedFromEither
  <1>2. ASSUME NEW i \in DOMAIN acts'
        PROVE  Authorised(acts'[i], seen', eveMsg') /\ FollowsPolicy(acts'[i], seen')
    BY <1>1, StaysBacked DEF Justified, EveryActAuthorised, AlertsFollowPolicies
  <1>3. QED
    BY <1>1, <1>2 DEF Justified, EveryActAuthorised, AlertsFollowPolicies

--------------------------------------------------------------------------------
(***************************************************************************)
(* Steps outside the handler.                                              *)
(***************************************************************************)
LEMMA WriteKeeps ==
    ASSUME IInv, NEW c \in Configuration, NEW what, Write(c, what)
    PROVE  IInv'
  <1> USE DEF IInv
  <1>1. UNCHANGED <<caller, scan, walk, daemon, acts, return, pc>> /\ conf' = c
    BY DEF Write
  <1>2. CASE pc = "idle"
    <2>1. seen' = seen
      BY <1>2 DEF Write
    <2>2. TypeOK'
      BY <1>1, <2>1 DEF Write, Edit, TypeOK, caller, scan, walk, daemon, return
    <2>3. Justified'
      BY <1>1, <2>1, ActsStayJustified DEF Justified, Grows, scan
    <2>4. QED
      BY <1>1, <1>2, <2>1, <2>2, <2>3
         DEF Placed, Current, Backed, Allowed, Justified, Acting, Alerting, Deciding, scan, walk
  <1>3. CASE pc # "idle"
    <2>1. seen' = SeeAlso(c)
      BY <1>3 DEF Write
    <2>2. seen' \in Seen
      BY <2>1, SeenOf DEF SeeAlso, Seen, TypeOK
    <2>3. Grows /\ Current'
      BY <1>1, <1>3, <2>1 DEF Grows, SeeAlso, Current, See
    <2>4. TypeOK'
      BY <1>1, <2>2 DEF Write, Edit, TypeOK, caller, scan, walk, daemon, return
    <2>5. Justified'
      BY <1>1, <2>3, ActsStayJustified DEF Justified, scan
    <2>6. Placed' /\ Allowed'
      BY <1>1 DEF Placed, Allowed, CycleOrReset, Permitted, scan, walk
    <2>7. Backed'
      BY <1>1, <2>3 DEF Backed, Grows, scan, walk
    <2>8. QED
      BY <2>3, <2>4, <2>5, <2>6, <2>7 DEF Justified
  <1>4. QED
    BY <1>2, <1>3

LEMMA OutsideKeeps ==
    ASSUME IInv, Outside
    PROVE  IInv'
  <1>1. CASE Call
    <2>1. \E e \in Event : queue' = Append(queue, e)
      BY <1>1 DEF Call
    <2>2. TypeOK'
      BY <1>1, <2>1 DEF Call, IInv, TypeOK, conn, scan, walk, daemon, history, return
    <2>3. QED
      BY <1>1, <2>2 DEF Call, IInv, Placed, Current, Backed, Allowed, CycleOrReset, Permitted,
            EveryActAuthorised, AlertsFollowPolicies, conn, scan, walk, history
  <1>2. CASE setRetryEnable
    BY <1>2 DEF setRetryEnable, Edit, IInv, TypeOK, Placed, Current, Backed, Allowed, CycleOrReset,
            Permitted, EveryActAuthorised, AlertsFollowPolicies, caller, scan, walk, history, return
  <1>3. CASE Restart
    BY <1>3 DEF Restart, Edit, IInv, TypeOK, Placed, Current, Backed, Allowed, CycleOrReset,
            Permitted, EveryActAuthorised, AlertsFollowPolicies, scan, walk, daemon, history,
            PC, Acting, Alerting, Deciding
  <1> conf \in Configuration
    BY DEF IInv, TypeOK
  <1>4. CASE SetPEFControl
    <2>1. \A v \in SUBSET ControlBit : [conf EXCEPT !.PEFControl = v] \in Configuration
      BY DEF Configuration
    <2>2. QED
      BY <1>4, <2>1, WriteKeeps DEF SetPEFControl
  <1>5. CASE SetPEFActionGblControl
    <2>1. \A v \in SUBSET Action : [conf EXCEPT !.PEFActionGblControl = v] \in Configuration
      BY DEF Configuration
    <2>2. QED
      BY <1>5, <2>1, WriteKeeps DEF SetPEFActionGblControl
  <1>6. CASE SetArmPEFPostponeTmr
    <2>1. \A v \in TmrValue : [conf EXCEPT !.ArmPEFPostponeTmr = v] \in Configuration
      BY DEF Configuration
    <2>2. QED
      BY <1>6, <2>1, WriteKeeps DEF SetArmPEFPostponeTmr
  <1>7. CASE SetEventFilterTable
    <2>1. \A r \in Rows, v \in Entry :
             [conf EXCEPT !.EventFilterTable[r] = v] \in Configuration
      BY DEF Configuration
    <2>2. QED
      BY <1>7, <2>1, WriteKeeps DEF SetEventFilterTable
  <1>8. CASE SetAlertPolicyTable
    <2>1. \A p \in Policies, v \in PolicyEntry :
             [conf EXCEPT !.AlertPolicyTable[p] = v] \in Configuration
      BY DEF Configuration
    <2>2. QED
      BY <1>8, <2>1, WriteKeeps DEF SetAlertPolicyTable
  <1>9. CASE SetLanParam
    <2>1. \A n \in Channel, v \in LanEntry :
             [conf EXCEPT !.LanParam[n] = v] \in Configuration
      BY DEF Configuration
    <2>2. QED
      BY <1>9, <2>1, WriteKeeps DEF SetLanParam
  <1>10. CASE HostPowerChanges
    <2>1. [conf EXCEPT !.hostOn = ~@] \in Configuration
      BY DEF Configuration
    <2>2. QED
      BY <1>10, <2>1, WriteKeeps DEF HostPowerChanges
  <1>11. QED
    BY <1>1, <1>2, <1>3, <1>4, <1>5, <1>6, <1>7, <1>8, <1>9, <1>10 DEF Outside

--------------------------------------------------------------------------------
(***************************************************************************)
(* Steps of the handler up to the first action.                            *)
(***************************************************************************)
LEMMA DispatchKeeps ==
    ASSUME IInv, Dispatch
    PROVE  IInv'
  <1> USE DEF IInv
  <1>1. conf \in Configuration /\ queue \in Seq(Event) /\ queue # <<>>
    BY DEF TypeOK, Dispatch
  <1>2. Head(queue) \in Event /\ Tail(queue) \in Seq(Event)
    BY <1>1
  <1>3. TypeOK'
    BY <1>2, <1>1, SeenOf DEF Dispatch, TypeOK, conn, daemon, PC, Empty
  <1>4. Placed' /\ Backed' /\ Allowed'
    BY DEF Dispatch, Placed, Backed, Allowed, Acting, Alerting, Deciding, Empty
  <1>5. Current'
    BY DEF Dispatch, Current, conn, See
  <1>6. (EveryActAuthorised /\ AlertsFollowPolicies)'
    BY DEF Dispatch, EveryActAuthorised, AlertsFollowPolicies
  <1>7. QED
    BY <1>3, <1>4, <1>5, <1>6

\* What is read into the locals is there, and is in the history.
LEMMA PreparingKeeps ==
    ASSUME IInv,
           ReadPEFControl \/ ReadPostponeTmr \/ CountLists \/ ReadList
              \/ GetEthMap \/ GetPefConfInfo
    PROVE  IInv'
  <1> USE DEF IInv
  <1>1. CASE ReadPEFControl
    <2>1. TypeOK'
      BY <1>1 DEF ReadPEFControl, TypeOK, Goto, Return, return, Disturb, conn, caller, walk, daemon, PC, Configuration
    <2>2. Placed' /\ Backed' /\ Allowed'
      BY <1>1 DEF ReadPEFControl, Placed, Current, Backed, Allowed, Goto, Return, Acting, Alerting,
            Deciding, See, walk
    <2>3. Current' /\ Justified'
      BY <1>1 DEF ReadPEFControl, Current, Justified, EveryActAuthorised, AlertsFollowPolicies, conn, Return, See
    <2>4. QED
      BY <2>1, <2>2, <2>3 DEF Justified
  <1>2. CASE ReadPostponeTmr
    <2>1. TypeOK'
      BY <1>2 DEF ReadPostponeTmr, TypeOK, Goto, Return, return, Disturb, conn, caller, scan, walk, daemon, PC
    <2>2. Placed' /\ Backed' /\ Allowed'
      BY <1>2 DEF ReadPostponeTmr, Placed, Current, Backed, Allowed, Goto, Return, Acting, Alerting,
            Deciding, See, scan, walk
    <2>3. Current' /\ Justified'
      BY <1>2 DEF ReadPostponeTmr, Current, Justified, EveryActAuthorised, AlertsFollowPolicies,
            conn, scan, Return, See
    <2>4. QED
      BY <2>1, <2>2, <2>3 DEF Justified
  <1>3. CASE CountLists
    <2>1. TypeOK'
      BY <1>3 DEF CountLists, TypeOK, Goto, Return, return, Disturb, conn, caller, scan, walk, daemon, PC
    <2>2. Placed' /\ Backed' /\ Allowed'
      BY <1>3 DEF CountLists, Placed, Backed, Allowed, Goto, Return, Acting, Alerting, Deciding, scan, walk
    <2>3. Current' /\ Justified'
      BY <1>3 DEF CountLists, Current, Justified, EveryActAuthorised, AlertsFollowPolicies,
            conn, scan, Return, See
    <2>4. QED
      BY <2>1, <2>2, <2>3 DEF Justified
  <1>4. CASE ReadList
    <2> DEFINE hits == {r \in Rows : ListOf(r) = list /\ EntryMatches(conf.EventFilterTable[r], eveMsg)}
    <2>1. matched' \in {matched, Merge(matched, hits, conf.EventFilterTable)}
      BY <1>4 DEF ReadList
    <2>2. \A r \in hits : /\ conf.EventFilterTable[r] \in Entry
                          /\ <<r, conf.EventFilterTable[r]>> \in See(conf).rows
                          /\ EntryMatches(conf.EventFilterTable[r], eveMsg)
      BY DEF TypeOK, Configuration, See
    <2>3. pc = "lists" /\ seen' = seen /\ eveMsg' = eveMsg
      BY <1>4 DEF ReadList
    <2>4. \A r \in hits : <<r, conf.EventFilterTable[r]>> \in seen.rows
      BY <2>2, <2>3 DEF Current
    <2>5. /\ DOMAIN matched' \subseteq Rows
          /\ \A r \in DOMAIN matched' :
                matched'[r] \in Entry /\ <<r, matched'[r]>> \in seen.rows /\ EntryMatches(matched'[r], eveMsg)
      BY <2>1, <2>2, <2>4 DEF Merge, TypeOK, Backed
    <2> HIDE DEF hits
    <2>0. /\ pc' \in {"idle", "lists", "ethMap"} /\ list' \in Nat
          /\ answered' \in Nat /\ outcome' \in {outcome, "done"}
          /\ UNCHANGED <<conn, caller, eveMsg, pefCtl, ethMap, info, row, selected, policy,
                         daemon, acts, seen>>
      BY <1>4, <2>3 DEF ReadList, Goto, Return, return, TypeOK
    <2>6. TypeOK'
      BY <2>0, <2>5 DEF TypeOK, conn, caller, daemon, PC
    <2>7. Placed' /\ Backed' /\ Allowed'
      BY <1>4, <2>3, <2>5 DEF ReadList, Placed, Backed, Allowed, Goto, Return, Acting, Alerting, Deciding
    <2>8. Current' /\ Justified'
      BY <1>4 DEF ReadList, Current, Justified, EveryActAuthorised, AlertsFollowPolicies, conn, Return, See
    <2>9. QED
      BY <2>6, <2>7, <2>8 DEF Justified
  <1>5. CASE GetEthMap
    <2>1. TypeOK'
      BY <1>5 DEF GetEthMap, TypeOK, Goto, Disturb, conn, caller, walk, daemon, PC, return
    <2>2. Placed' /\ Backed' /\ Allowed'
      BY <1>5 DEF GetEthMap, Placed, Backed, Allowed, Goto, Acting, Alerting, Deciding, walk
    <2>3. Current' /\ Justified'
      BY <1>5 DEF GetEthMap, Current, Justified, EveryActAuthorised, AlertsFollowPolicies, conn, See
    <2>4. QED
      BY <2>1, <2>2, <2>3 DEF Justified
  <1>6. CASE GetPefConfInfo
    <2>1. row' \in Nat /\ (pc' = "power" => row' \in DOMAIN matched)
      BY <1>6, TablesAreNumbered DEF GetPefConfInfo, TypeOK, Return, First
    <2>2. TypeOK'
      BY <1>6, <2>1 DEF GetPefConfInfo, TypeOK, Goto, Return, return, Disturb, conn, caller, daemon, PC, Configuration
    <2>3. info'.PEFActionGblControl \subseteq seen.gbl
      BY <1>6 DEF GetPefConfInfo, Backed, Current, See
    <2>4. Placed' /\ Backed' /\ Allowed'
      BY <1>6, <2>1, <2>3 DEF GetPefConfInfo, Placed, Backed, Allowed, Goto, Return, Acting, Alerting, Deciding
    <2>5. Current' /\ Justified'
      BY <1>6 DEF GetPefConfInfo, Current, Justified, EveryActAuthorised, AlertsFollowPolicies, conn, Return, See
    <2>6. QED
      BY <2>2, <2>4, <2>5 DEF Justified
  <1>7. QED
    BY <1>1, <1>2, <1>3, <1>4, <1>5, <1>6

--------------------------------------------------------------------------------
(***************************************************************************)
(* Steps that act.  First, where the loops go on to.                       *)
(***************************************************************************)
Outcomes == {"none", "running", "dropped", "done", "aborted", "killed"}

LEMMA RowStep ==
    ASSUME TypeOK, NextRow
    PROVE  /\ row' \in Nat /\ answered' \in Nat /\ outcome' \in Outcomes
           /\ pc' \in {"idle", "power"}
           /\ pc' = "power" => row' \in DOMAIN matched
  <1> DEFINE rest == {r \in DOMAIN matched : r > row}
  <1>1. DOMAIN matched \subseteq Nat /\ row \in Nat /\ answered \in Nat /\ outcome \in Outcomes
    BY TablesAreNumbered DEF TypeOK, Outcomes
  <1>2. \/ Return("done") /\ UNCHANGED row
        \/ \E r \in DOMAIN matched : row' = r /\ Goto("power")
    BY Zenon DEF NextRow, First
  <1>3. CASE Return("done") /\ UNCHANGED row
    BY <1>1, <1>3 DEF Return, Outcomes
  <1>4. CASE \E r \in DOMAIN matched : row' = r /\ Goto("power")
    BY <1>1, <1>4 DEF Goto, return
  <1>5. QED
    BY <1>2, <1>3, <1>4

LEMMA PolicyStep ==
    ASSUME TypeOK, NextPolicy
    PROVE  /\ row' \in Nat /\ policy' \in Nat /\ answered' \in Nat /\ outcome' \in Outcomes
           /\ pc' \in {"idle", "power", "destination"}
           /\ pc' = "power" => row' \in DOMAIN matched
           /\ pc' = "destination" => row' = row /\ policy' \in DOMAIN selected
  <1>1. CASE NextRow /\ UNCHANGED policy
    BY <1>1, RowStep DEF TypeOK
  <1>2. CASE /\ \E p \in DOMAIN selected : policy' = p
             /\ Goto("destination") /\ UNCHANGED row
    BY <1>2, TablesAreNumbered DEF Goto, return, TypeOK, Outcomes
  <1>3. QED
    BY <1>1, <1>2 DEF NextPolicy

(***************************************************************************)
(* An act for the current row is authorised if an action that allows it is *)
(* permitted; so is the SEL record made before it.                         *)
(***************************************************************************)
LEMMA ActAuthorised ==
    ASSUME IInv, pc \in Acting, NEW kind \in ActKind, NEW p, NEW status,
           NEW a \in Allowing(kind), Permitted(a)
    PROVE  Authorised(Do(kind, p, status), seen, eveMsg)
  <1> DEFINE e == matched[row]
  <1>1. row \in DOMAIN matched /\ e \in Entry
    BY DEF IInv, Placed, TypeOK
  <1>2. <<row, e>> \in seen.rows /\ EntryMatches(e, eveMsg)
    BY <1>1 DEF IInv, Backed
  <1>3. pc # "idle" /\ pc \notin Deciding
    BY DEF Acting, Alerting, Deciding
  <1>4. seen.enabled /\ seen.unpostponed /\ info.PEFActionGblControl \subseteq seen.gbl
    BY <1>3 DEF IInv, Backed
  <1>5. a \in e.EvtFilterAction \cap Allowing(kind) \cap seen.gbl
    BY <1>4 DEF Permitted
  <1>6. Do(kind, p, status).row = row /\ Do(kind, p, status).kind = kind
    BY DEF Do
  <1>7. QED
    BY <1>1, <1>2, <1>4, <1>5, <1>6, Zenon DEF Authorised

LEMMA LoggedActs ==
    ASSUME IInv, pc \in Acting,
           NEW kind \in ActKind, NEW p \in {0} \cup Policies, NEW status \in {"ok", "failed", "lost"},
           NEW a \in Allowing(kind) \cap Action, Permitted(a),
           FollowsPolicy(Do(kind, p, status), seen),
           NEW log \in {<<>>, SELLog(p)},
           acts' = acts \o (log \o <<Do(kind, p, status)>>),
           Grows, UNCHANGED eveMsg
    PROVE  Justified' /\ acts' \in Seq(Act)
  <1> DEFINE record == Do("sel", p, "ok")
             act == Do(kind, p, status)
             t == log \o <<act>>
  <1>1. row \in Rows
    BY DEF IInv, Placed, TypeOK
  <1>2. record \in Act /\ act \in Act
    BY <1>1 DEF Do, Act, ActKind
  <1>3. "sel" \in ActKind /\ a \in Allowing("sel")
    BY DEF ActKind, Allowing
  <1>4. Authorised(record, seen, eveMsg) /\ Authorised(act, seen, eveMsg)
    BY <1>3, ActAuthorised
  <1>5. FollowsPolicy(record, seen)
    BY DEF FollowsPolicy, Do
  <1>6. ASSUME NEW x \in {record, act}
        PROVE  Authorised(x, seen', eveMsg') /\ FollowsPolicy(x, seen')
    BY <1>4, <1>5, StaysBacked
  <1>7. log \in {<<>>, <<record>>}
    BY DEF SELLog
  <1>8. t \in Seq(Act) /\ \A j \in DOMAIN t : t[j] \in {record, act}
    <2> DEFINE last == <<act>>
    <2> HIDE DEF record, act
    <2>0. ASSUME NEW x \in Act
          PROVE  <<>> \in Seq(Act) /\ <<x>> \in Seq(Act)
      OBVIOUS
    <2>1. log \in Seq(Act) /\ last \in Seq(Act)
      BY <1>2, <1>7, <2>0
    <2>2. (\A j \in DOMAIN log : log[j] = record) /\ \A j \in DOMAIN last : last[j] = act
      BY <1>7
    <2> HIDE DEF last
    <2>3. /\ log \o last \in Seq(Act)
          /\ \A j \in DOMAIN (log \o last) :
                \/ j \in DOMAIN log /\ (log \o last)[j] = log[j]
                \/ \E k \in DOMAIN last : (log \o last)[j] = last[k]
      BY <2>1, ActPickedFromEither
    <2>4. t = log \o last
      BY DEF last
    <2>5. QED
      BY <2>2, <2>3, <2>4
  <1>9. \A j \in DOMAIN t : Authorised(t[j], seen', eveMsg') /\ FollowsPolicy(t[j], seen')
    BY <1>6, <1>8
  <1>10. TypeOK /\ Justified /\ acts' = acts \o t
    BY DEF IInv, Justified, act
  <1> HIDE DEF t
  <1>11. QED
    BY <1>8, <1>9, <1>10, NewActsJustified

LEMMA PowerKeeps ==
    ASSUME IInv, PowerAction \/ GetPowerStatus \/ Reboot
    PROVE  IInv'
  <1> USE DEF IInv
  <1>1. CASE PowerAction
    <2>1. pc = "power" /\ pc \in Acting /\ row \in DOMAIN matched
      BY <1>1 DEF PowerAction, Acting, Placed
    <2>2. Grows /\ seen' \in Seen /\ UNCHANGED <<eveMsg, conf>>
      BY <1>1 DEF PowerAction, Transition, Grows, TypeOK, Seen, scan, conn, Configuration
    <2>3. \A status : \A kind \in {"powerOff", "sel"} : FollowsPolicy(Do(kind, 0, status), seen)
      BY DEF FollowsPolicy, Do
    <2>4. Justified' /\ acts' \in Seq(Act)
      <3>1. CASE Permitted("powerOff") /\ Transition("powerOff", SELLog(0))
        <4>1. "powerOff" \in Allowing("powerOff") \cap Action /\ "powerOff" \in ActKind
          BY DEF Allowing, Action, ActKind
        <4>2. PICK status \in {"ok", "failed"} : acts' = acts \o (SELLog(0) \o <<Do("powerOff", 0, status)>>)
          BY <3>1 DEF Transition
        <4>3. PICK a \in Allowing("powerOff") \cap Action : Permitted(a)
          BY <3>1, <4>1
        <4>4. FollowsPolicy(Do("powerOff", 0, status), seen)
          BY <2>3
        <4>5. QED
          BY <4>1, <4>2, <4>3, <4>4, <2>1, <2>2, LoggedActs
      <3>2. CASE CycleOrReset /\ acts' = acts \o SELLog(0)
        <4>1. SELLog(0) \in {<<>>, <<Do("sel", 0, "ok")>>} /\ row \in Rows
          BY <2>1 DEF SELLog, TypeOK
        <4>2. Do("sel", 0, "ok") \in Act
          BY <4>1 DEF Do, Act, ActKind
        <4>3. Authorised(Do("sel", 0, "ok"), seen, eveMsg)
          <5>1. "sel" \in ActKind /\ {"powerCycle", "reset"} \subseteq Allowing("sel")
            BY DEF Allowing, Action, ActKind
          <5>2. QED
            BY <3>2, <5>1, <2>1, ActAuthorised DEF CycleOrReset
        <4>4. Authorised(Do("sel", 0, "ok"), seen', eveMsg') /\ FollowsPolicy(Do("sel", 0, "ok"), seen')
          BY <4>3, <2>2, <2>3, StaysBacked
        <4>5. ASSUME NEW x \in Act
              PROVE  /\ <<>> \in Seq(Act) /\ <<x>> \in Seq(Act)
                     /\ DOMAIN <<>> = {} /\ \A j \in DOMAIN <<x>> : <<x>>[j] = x
          OBVIOUS
        <4>6. /\ SELLog(0) \in Seq(Act)
              /\ \A j \in DOMAIN SELLog(0) : SELLog(0)[j] = Do("sel", 0, "ok")
          BY <4>1, <4>2, <4>5
        <4>7. QED
          BY <3>2, <4>4, <4>6, <2>2, NewActsJustified DEF Justified
      <3>3. CASE acts' = acts
        BY <3>3, <2>2, ActsStayJustified DEF Justified, TypeOK
      <3>4. QED
        BY <1>1, <3>1, <3>2, <3>3 DEF PowerAction
    <2>5. /\ pc' \in {"alert", "idle", "powerState"} /\ (pc' = "powerState" => CycleOrReset)
          /\ answered' \in Nat /\ outcome' \in Outcomes
      BY <1>1 DEF PowerAction, Transition, Goto, Return, return, TypeOK, Outcomes
    <2>6. UNCHANGED <<conn, caller, scan, walk, daemon>>
      BY <1>1 DEF PowerAction
    <2>7. TypeOK'
      BY <2>2, <2>4, <2>5, <2>6 DEF TypeOK, Outcomes, conn, caller, scan, walk, daemon, PC
    <2>8. Placed' /\ Allowed'
      BY <2>1, <2>5, <2>6 DEF Placed, Allowed, CycleOrReset, Permitted, Acting, Alerting, scan, walk
    <2>9. Backed' /\ Current'
      BY <2>1, <2>2, <2>5, <2>6 DEF Backed, Current, Grows, Acting, Alerting, Deciding, scan, walk
    <2>10. QED
      BY <2>4, <2>7, <2>8, <2>9 DEF Justified
  <1>2. CASE GetPowerStatus
    <2>1. TypeOK'
      BY <1>2 DEF GetPowerStatus, TypeOK, Goto, Disturb, conn, caller, scan, walk, daemon, return, PC
    <2>2. Placed' /\ Allowed' /\ Backed'
      BY <1>2 DEF GetPowerStatus, Goto, Placed, Allowed, Backed, CycleOrReset, Permitted,
            Acting, Alerting, Deciding, scan, walk
    <2>3. Current' /\ Justified'
      BY <1>2 DEF GetPowerStatus, Current, Justified, EveryActAuthorised, AlertsFollowPolicies,
            conn, scan, See
    <2>4. QED
      BY <2>1, <2>2, <2>3 DEF Justified
  <1>3. CASE Reboot
    <2>1. pc = "reboot" /\ pc \in Acting /\ CycleOrReset
      BY <1>3 DEF Reboot, Acting, Allowed
    <2>2. PICK status \in {"ok", "failed"} : acts' = acts \o (<<>> \o <<Do("reboot", 0, status)>>)
      BY <1>3 DEF Reboot, Transition
    <2>3. Grows /\ UNCHANGED <<conn, caller, scan, walk, daemon, seen>>
      BY <1>3 DEF Reboot, Grows
    <2>4. Justified' /\ acts' \in Seq(Act)
      <3>1. {"reset", "powerCycle"} \subseteq Allowing("reboot") \cap Action /\ "reboot" \in ActKind
        BY DEF Allowing, Action, ActKind
      <3>2. FollowsPolicy(Do("reboot", 0, status), seen)
        BY DEF FollowsPolicy, Do
      <3>3. PICK a \in Allowing("reboot") \cap Action : Permitted(a)
        BY <2>1, <3>1 DEF CycleOrReset
      <3>4. QED
        BY <2>1, <2>2, <2>3, <3>1, <3>2, <3>3, LoggedActs DEF scan
    <2>5. pc' \in {"alert", "idle"} /\ answered' \in Nat /\ outcome' \in Outcomes
      BY <1>3 DEF Reboot, Transition, Goto, Return, return, TypeOK, Outcomes
    <2>6. TypeOK'
      BY <2>3, <2>4, <2>5 DEF TypeOK, Outcomes, conn, caller, scan, walk, daemon, PC
    <2>7. Placed' /\ Allowed' /\ Backed' /\ Current'
      BY <2>1, <2>3, <2>5 DEF Placed, Allowed, Backed, Current, Acting, Alerting, Deciding, conn, scan, walk, See
    <2>8. QED
      BY <2>4, <2>6, <2>7 DEF Justified
  <1>4. QED
    BY <1>1, <1>2, <1>3

LEMMA PoliciesKeep ==
    ASSUME IInv, CheckAlert \/ ReadPolicyList \/ ResolveDestination
    PROVE  IInv'
  <1> USE DEF IInv
  <1>1. UNCHANGED <<conn, caller, scan, daemon, acts, seen>>
    BY DEF CheckAlert, ReadPolicyList, ResolveDestination
  <1>2. Justified'
    BY <1>1 DEF Justified, EveryActAuthorised, AlertsFollowPolicies, scan
  <1>3. pc \in Acting /\ row \in DOMAIN matched
    BY DEF CheckAlert, ReadPolicyList, ResolveDestination, Acting, Alerting, Placed
  <1>4. Current'
    BY <1>1, <1>3 DEF Current, conn, See, Acting, Alerting
  <1>5. seen.enabled /\ seen.unpostponed /\ info.PEFActionGblControl \subseteq seen.gbl
    BY <1>3 DEF Backed, Acting, Alerting, Deciding
  <1>6. CASE CheckAlert
    <2>1. /\ row' \in Nat /\ answered' \in Nat /\ outcome' \in Outcomes /\ list' \in Nat
          /\ pc' \in {"idle", "power", "policies"}
          /\ pc' = "power" => row' \in DOMAIN matched
          /\ pc' = "policies" => row' = row /\ Permitted("alert")
          /\ selected' = Empty /\ policy' = 0
      BY <1>6, RowStep DEF CheckAlert, Goto, return, TypeOK, Outcomes
    <2>2. TypeOK'
      BY <1>1, <2>1 DEF TypeOK, Outcomes, conn, caller, scan, daemon, PC, Empty
    <2>3. Placed' /\ Allowed' /\ Backed'
      BY <1>1, <1>3, <1>5, <2>1 DEF Placed, Allowed, Backed, Permitted, Acting, Alerting, Deciding, Empty, scan
    <2>4. QED
      BY <1>2, <1>4, <2>2, <2>3 DEF Justified
  <1>7. CASE ReadPolicyList
    <2> DEFINE hits == {p \in Policies : PolicyListOf(p) = list /\
                          SelectsPolicy(conf.AlertPolicyTable[p], matched[row].AlertPolicyNum)}
    <2>1. selected' \in {selected, Merge(selected, hits, conf.AlertPolicyTable)} /\ pc = "policies"
      BY <1>7 DEF ReadPolicyList
    <2>2. \A p \in hits : /\ conf.AlertPolicyTable[p] \in PolicyEntry
                          /\ <<p, conf.AlertPolicyTable[p]>> \in See(conf).policies
                          /\ InGroup(conf.AlertPolicyTable[p], matched[row])
      BY DEF TypeOK, Configuration, See, SelectsPolicy, InGroup
    <2>3. \A p \in hits : <<p, conf.AlertPolicyTable[p]>> \in seen.policies
      BY <2>1, <2>2 DEF Current
    <2>4. /\ DOMAIN selected' \subseteq Policies
          /\ \A p \in DOMAIN selected' :
                /\ selected'[p] \in PolicyEntry
                /\ <<p, selected'[p]>> \in seen.policies
                /\ InGroup(selected'[p], matched[row])
      BY <2>1, <2>2, <2>3 DEF Merge, TypeOK, Backed, Alerting
    <2> HIDE DEF hits
    <2>5. /\ row' \in Nat /\ answered' \in Nat /\ outcome' \in Outcomes /\ list' \in Nat
          /\ policy' \in Nat
          /\ pc' \in {"idle", "power", "policies", "destination"}
          /\ pc' = "power" => row' \in DOMAIN matched
          /\ pc' \in {"policies", "destination"} => row' = row
          /\ pc' = "destination" => policy' \in DOMAIN selected'
      <3>1. CASE NextRow /\ UNCHANGED policy /\ list' = list + 1
        BY <3>1, RowStep DEF TypeOK
      <3>2. CASE UNCHANGED <<pc, return, row, policy>> /\ list' = list + 1
        BY <3>2, <2>1 DEF return, TypeOK, Outcomes
      <3>3. CASE /\ \E p \in DOMAIN selected' : policy' = p
                 /\ Goto("destination") /\ UNCHANGED row /\ list' = list + 1
        <4>1. policy' \in Nat /\ policy' \in DOMAIN selected'
          BY <3>3, <2>4, TablesAreNumbered
        <4>2. list' \in Nat
          BY <3>3 DEF TypeOK
        <4>3. QED
          BY <3>3, <4>1, <4>2 DEF Goto, return, TypeOK, Outcomes
      <3>4. QED
        BY <1>7, <3>1, <3>2, <3>3 DEF ReadPolicyList
    <2>6. TypeOK'
      BY <1>1, <2>4, <2>5 DEF TypeOK, Outcomes, conn, caller, scan, daemon, PC
    <2>7. Placed'
      BY <1>1, <1>3, <2>5 DEF Placed, Acting, Alerting, scan
    <2>8. Allowed'
      BY <1>1, <2>1, <2>5 DEF Allowed, Permitted, Alerting, scan
    <2>9. Backed'
      BY <1>1, <1>5, <2>4, <2>5 DEF Backed, Alerting, Deciding, scan
    <2>10. QED
      BY <1>2, <1>4, <2>6, <2>7, <2>8, <2>9 DEF Justified
  <1>8. CASE ResolveDestination
    <2>1. pc = "destination" /\ pc \in Alerting /\ policy \in DOMAIN selected /\ selected' = selected
      BY <1>8 DEF ResolveDestination, Placed, Alerting
    <2>2. /\ row' \in Nat /\ policy' \in Nat /\ answered' \in Nat /\ outcome' \in Outcomes /\ list' \in Nat
          /\ pc' \in {"idle", "power", "destination", "smtp", "snmp"}
          /\ pc' = "power" => row' \in DOMAIN matched
          /\ pc' \in {"destination", "smtp", "snmp"} => row' = row /\ policy' \in DOMAIN selected
          /\ pc' \in {"smtp", "snmp"} => policy' = policy /\ selected[policy].ChannelNo \in ethMap
      <3>1. CASE NextPolicy /\ UNCHANGED list
        BY <3>1, PolicyStep DEF TypeOK
      <3>2. CASE /\ selected[policy].ChannelNo \in ethMap
                 /\ Goto("smtp") \/ Goto("snmp")
                 /\ UNCHANGED <<row, policy, list>>
        BY <3>2, <2>1 DEF Goto, return, TypeOK, Outcomes
      <3>3. \/ NextPolicy /\ UNCHANGED list
            \/ /\ selected[policy].ChannelNo \in ethMap
               /\ \E type : Goto(IF type = SMTPType THEN "smtp" ELSE "snmp")
               /\ UNCHANGED <<row, policy, list>>
        BY <1>8 DEF ResolveDestination
      <3>4. ASSUME NEW type
            PROVE  (IF type = SMTPType THEN "smtp" ELSE "snmp") \in {"smtp", "snmp"}
        OBVIOUS
      <3>5. QED
        BY <3>1, <3>2, <3>3, <3>4 DEF Goto
    <2>3. TypeOK'
      BY <1>1, <2>1, <2>2 DEF TypeOK, Outcomes, conn, caller, scan, daemon, PC
    <2>4. Placed'
      BY <1>1, <1>3, <2>1, <2>2 DEF Placed, Acting, Alerting, scan
    <2>5. Allowed'
      BY <1>1, <2>1, <2>2 DEF Allowed, Permitted, Alerting, scan, TypeOK
    <2>6. Backed'
      BY <1>1, <1>5, <2>1, <2>2 DEF Backed, Alerting, Deciding, scan
    <2>7. QED
      BY <1>2, <1>4, <2>3, <2>4, <2>5, <2>6 DEF Justified
  <1>9. QED
    BY <1>6, <1>7, <1>8

LEMMA AlertsKeep ==
    ASSUME IInv, SendSmtpAlert \/ SetLastBMCProcessedEventID \/ SendSNMPAlert
    PROVE  IInv'
  <1> USE DEF IInv
  <1>1. /\ pc \in {"smtp", "record", "snmp"} /\ pc \in Alerting /\ pc \in Acting
        /\ UNCHANGED <<conn, caller, scan, list, selected, seen>>
    BY DEF SendSmtpAlert, SetLastBMCProcessedEventID, SendSNMPAlert, Alerting, Acting, history
  <1>2. /\ row \in DOMAIN matched /\ policy \in DOMAIN selected
        /\ Permitted("alert") /\ selected[policy].ChannelNo \in EthChannel
    BY <1>1 DEF Placed, Allowed
  <1>3. ASSUME NEW kind \in {"smtp", "snmp"}, NEW status \in {"ok", "failed", "lost"},
               Alerted(kind, status)
        PROVE  Justified' /\ acts' \in Seq(Act)
    <2>1. kind \in ActKind /\ policy \in {0} \cup Policies /\ "alert" \in Allowing(kind) \cap Action
      BY <1>2 DEF ActKind, Allowing, Action, TypeOK
    <2>2. FollowsPolicy(Do(kind, policy, status), seen)
      <3> DEFINE act == Do(kind, policy, status)
      <3>1. act.row = row /\ act.policy = policy
        BY DEF Do
      <3>2. matched[row] \in Entry /\ <<row, matched[row]>> \in seen.rows
        BY <1>2 DEF TypeOK, Backed
      <3>3. /\ selected[policy] \in PolicyEntry /\ <<policy, selected[policy]>> \in seen.policies
            /\ InGroup(selected[policy], matched[row])
        BY <1>1, <1>2 DEF TypeOK, Backed
      <3> HIDE DEF act
      <3>4. QED
        BY <3>1, <3>2, <3>3, <1>2, Zenon DEF FollowsPolicy, act
    <2>3. Grows /\ UNCHANGED eveMsg
      BY <1>1 DEF Grows, scan
    <2>4. PICK a \in Allowing(kind) \cap Action : Permitted(a)
      BY <2>1, <1>2
    <2>5. acts' = acts \o (SELLog(policy) \o <<Do(kind, policy, status)>>)
      BY <1>3 DEF Alerted
    <2>6. QED
      BY <1>1, <2>1, <2>2, <2>3, <2>4, <2>5, LoggedActs
  <1>4. Justified' /\ acts' \in Seq(Act)
    <2>1. CASE \E kind \in {"smtp", "snmp"}, status \in {"ok", "failed", "lost"} : Alerted(kind, status)
      BY <2>1, <1>3
    <2>2. CASE acts' = acts
      BY <2>2, <1>1 DEF Justified, EveryActAuthorised, AlertsFollowPolicies, TypeOK, scan
    <2>3. QED
      BY <2>1, <2>2 DEF SendSmtpAlert, SetLastBMCProcessedEventID, SendSNMPAlert, history
  <1>5. /\ row' \in Nat /\ policy' \in Nat /\ answered' \in Nat /\ outcome' \in Outcomes
        /\ pc' \in {"idle", "power", "destination", "record"}
        /\ pc' = "power" => row' \in DOMAIN matched
        /\ pc' = "destination" => row' = row /\ policy' \in DOMAIN selected
        /\ pc' = "record" => row' = row /\ policy' = policy
    <2>1. CASE NextPolicy
      BY <2>1, PolicyStep
    <2>2. CASE Return("aborted") /\ UNCHANGED <<row, policy>>
      BY <2>2 DEF Return, TypeOK, Outcomes
    <2>3. CASE Goto("record") /\ UNCHANGED <<row, policy>>
      BY <2>3 DEF Goto, return, TypeOK, Outcomes
    <2>4. QED
      BY <2>1, <2>2, <2>3 DEF SendSmtpAlert, SetLastBMCProcessedEventID, SendSNMPAlert
  <1>6. lastProcessed' \in Nat /\ accepted' \subseteq Nat /\ retryEnable' \in BOOLEAN
    <2>1. eveMsg.recordId \in Nat
      BY TaskAssumption DEF TypeOK, EventMsgData
    <2>2. QED
      BY <2>1 DEF SendSmtpAlert, SetLastBMCProcessedEventID, SendSNMPAlert, TypeOK, daemon
  <1>7. TypeOK'
    BY <1>1, <1>4, <1>5, <1>6 DEF TypeOK, Outcomes, conn, caller, scan, PC
  <1>8. Placed' /\ Allowed'
    BY <1>1, <1>2, <1>5 DEF Placed, Allowed, Permitted, Acting, Alerting, scan
  <1>9. Backed' /\ Current'
    BY <1>1, <1>2, <1>5 DEF Backed, Current, Acting, Alerting, Deciding, conn, scan, See
  <1>10. QED
    BY <1>4, <1>7, <1>8, <1>9 DEF Justified

--------------------------------------------------------------------------------
LEMMA InvariantHoldsAtStart ==
    ASSUME Init
    PROVE  IInv
  <1>1. conf \in Configuration
    BY TaskAssumption DEF Init
  <1>2. TypeOK
    BY <1>1, SeenOf DEF Init, TypeOK, PC, Empty
  <1>3. QED
    BY <1>2 DEF Init, IInv, Placed, Current, Backed, Allowed, Acting, Alerting, Deciding,
          EveryActAuthorised, AlertsFollowPolicies, Empty

LEMMA InvariantIsInductive == IInv /\ [Next]_vars => IInv'
  <1> SUFFICES ASSUME IInv, [Next]_vars
               PROVE  IInv'
    OBVIOUS
  <1>1. CASE UNCHANGED vars
    BY <1>1 DEF IInv, TypeOK, Placed, Current, Backed, Allowed, CycleOrReset, Permitted, See,
          EveryActAuthorised, AlertsFollowPolicies,
          vars, conn, caller, scan, walk, daemon, history, return
  <1>2. CASE Next
    BY <1>2, OutsideKeeps, DispatchKeeps, PreparingKeeps, PowerKeeps, PoliciesKeep, AlertsKeep
       DEF Next, Handler
  <1>3. QED
    BY <1>1, <1>2

LEMMA InvariantHolds == Spec => []IInv
  BY InvariantHoldsAtStart, InvariantIsInductive, PTL DEF Spec

--------------------------------------------------------------------------------
(***************************************************************************)
(* Every variable of the handler keeps to the values of its C++            *)
(* counterpart, whatever is configured and however large the tables are.   *)
(***************************************************************************)
THEOREM TypeCorrect == Spec => []TypeOK
  BY InvariantHolds, PTL DEF IInv

(***************************************************************************)
(* performPefAction never acts for a row that the configuration of its own *)
(* call did not hold, did not match, or did not allow.                     *)
(***************************************************************************)
THEOREM ActsAreAuthorised == Spec => []EveryActAuthorised
  BY InvariantHolds, PTL DEF IInv

(***************************************************************************)
(* It never alerts for a policy that was not enabled, not of the row's     *)
(* group, or on a channel without an Ethernet interface.                   *)
(***************************************************************************)
THEOREM AlertsFollowThePolicies == Spec => []AlertsFollowPolicies
  BY InvariantHolds, PTL DEF IInv

--------------------------------------------------------------------------------
(***************************************************************************)
(* Calls.  A step that ends the handler answers its call; every other step *)
(* of it leaves the handler running.                                       *)
(***************************************************************************)
LEMMA HandlerKeepsItsCall ==
    ASSUME TypeOK, Handler, ~Dispatch
    PROVE  /\ pc # "idle" /\ UNCHANGED caller
           /\ \/ pc' # "idle" /\ answered' = answered
              \/ pc' = "idle" /\ answered' = answered + 1
  <1> DEFINE Goes == \/ pc' # "idle" /\ answered' = answered
                     \/ pc' = "idle" /\ answered' = answered + 1
  <1>1. ASSUME NEW next \in PC \ {"idle"}, Goto(next)
        PROVE  Goes
    BY <1>1 DEF Goto, return
  <1>2. ASSUME NEW how, Return(how)
        PROVE  Goes
    BY <1>2 DEF Return
  <1>3. NextRow => Goes
    BY <1>1, <1>2 DEF NextRow, PC
  <1>4. NextPolicy => Goes
    BY <1>1, <1>3 DEF NextPolicy, PC
  <1>5. pc # "idle" /\ UNCHANGED <<pc, return>> => Goes
    BY DEF return
  <1>6. pc # "idle" /\ UNCHANGED caller
    BY DEF Handler, ReadPEFControl, ReadPostponeTmr, CountLists, ReadList, GetEthMap,
           GetPefConfInfo, PowerAction, GetPowerStatus, Reboot, CheckAlert, ReadPolicyList,
           ResolveDestination, SendSmtpAlert, SetLastBMCProcessedEventID, SendSNMPAlert
  <1> {"control", "timer", "count", "lists", "ethMap", "confInfo", "power", "powerState",
       "reboot", "alert", "policies", "destination", "smtp", "record", "snmp"} \subseteq PC \ {"idle"}
    BY DEF PC
  <1> HIDE DEF Goes
  <1>7. ReadPEFControl \/ ReadPostponeTmr \/ CountLists => Goes
    BY <1>1, <1>2 DEF ReadPEFControl, ReadPostponeTmr, CountLists
  <1>8. ReadList \/ GetEthMap \/ GetPefConfInfo => Goes
    BY <1>1, <1>2, <1>5, <1>6 DEF ReadList, GetEthMap, GetPefConfInfo
  <1>9. PowerAction \/ GetPowerStatus \/ Reboot => Goes
    BY <1>1, <1>2 DEF PowerAction, GetPowerStatus, Reboot, Transition
  <1>10. CheckAlert \/ ReadPolicyList => Goes
    BY <1>1, <1>3, <1>5, <1>6 DEF CheckAlert, ReadPolicyList
  <1>11. ResolveDestination => Goes
    <2>1. ResolveDestination =>
             NextPolicy \/ \E type : Goto(IF type = SMTPType THEN "smtp" ELSE "snmp")
      BY DEF ResolveDestination
    <2>2. ASSUME NEW type
          PROVE  (IF type = SMTPType THEN "smtp" ELSE "snmp") \in PC \ {"idle"}
      BY DEF PC
    <2>3. QED
      BY <1>1, <1>4, <2>1, <2>2
  <1>12. SendSmtpAlert \/ SetLastBMCProcessedEventID \/ SendSNMPAlert => Goes
    BY <1>1, <1>2, <1>4 DEF SendSmtpAlert, SetLastBMCProcessedEventID, SendSNMPAlert
  <1>13. QED
    BY <1>6, <1>7, <1>8, <1>9, <1>10, <1>11, <1>12 DEF Handler, Goes

LEMMA CallsStayAccountedFor == TypeOK /\ CallsAccountedFor /\ [Next]_vars => CallsAccountedFor'
  <1> SUFFICES ASSUME TypeOK, CallsAccountedFor, [Next]_vars
               PROVE  CallsAccountedFor'
    OBVIOUS
  <1> USE DEF CallsAccountedFor
  <1>1. queue \in Seq(Event) /\ Len(queue) \in Nat /\ calls \in Nat /\ answered \in Nat
    BY DEF TypeOK
  <1>2. CASE UNCHANGED <<queue, calls, answered, pc>>
    BY <1>2
  <1>3. CASE Call
    <2>1. PICK e \in Event : queue' = Append(queue, e)
      BY <1>3 DEF Call
    <2>2. Len(queue') = Len(queue) + 1
      BY <1>1, <2>1
    <2>3. QED
      BY <1>1, <1>3, <2>2 DEF Call, return
  <1>4. CASE Restart
    BY <1>1, <1>4 DEF Restart
  <1>5. CASE Dispatch
    <2>1. Len(Tail(queue)) = Len(queue) - 1
      BY <1>1, <1>5 DEF Dispatch
    <2>2. QED
      BY <1>1, <1>5, <2>1 DEF Dispatch
  <1>6. CASE Handler /\ ~Dispatch
    BY <1>1, <1>6, HandlerKeepsItsCall DEF caller
  <1>7. CASE Outside /\ ~Call /\ ~Restart
    <2>1. ASSUME NEW c, NEW what, Write(c, what)
          PROVE  UNCHANGED <<queue, calls, answered, pc>>
      BY <2>1 DEF Write, caller, return
    <2>2. setRetryEnable => UNCHANGED <<queue, calls, answered, pc>>
      BY DEF setRetryEnable, caller, return
    <2>3. UNCHANGED <<queue, calls, answered, pc>>
      BY <1>7, <2>1, <2>2 DEF Outside, SetPEFControl, SetPEFActionGblControl, SetArmPEFPostponeTmr,
            SetEventFilterTable, SetAlertPolicyTable, SetLanParam, HostPowerChanges
    <2>4. QED
      BY <2>3, <1>2
  <1>8. UNCHANGED vars => UNCHANGED <<queue, calls, answered, pc>>
    BY DEF vars, caller, return
  <1>9. QED
    BY <1>2, <1>3, <1>4, <1>5, <1>6, <1>7, <1>8 DEF Next

(***************************************************************************)
(* The bus and the handler neither lose a call nor handle it twice,        *)
(* whatever fails and whenever the daemon is restarted.                    *)
(***************************************************************************)
THEOREM CallsAreAccountedFor == Spec => []CallsAccountedFor
  <1>1. Init => CallsAccountedFor
    BY DEF Init, CallsAccountedFor
  <1>2. QED
    BY <1>1, CallsStayAccountedFor, TypeCorrect, PTL DEF Spec

--------------------------------------------------------------------------------
(***************************************************************************)
(* Power.  While the power state is being asked for, the history knows of  *)
(* a host that is on; once it has been seen on, the history says so.       *)
(***************************************************************************)
HostKnown ==
    /\ pc = "powerState" /\ conf.hostOn => seen.hostOn
    /\ pc = "reboot" => seen.hostOn

LEMMA HostStaysKnown == TypeOK /\ HostKnown /\ [Next]_vars => HostKnown'
  <1> SUFFICES ASSUME TypeOK, HostKnown, [Next]_vars
               PROVE  HostKnown'
    OBVIOUS
  <1>1. CASE UNCHANGED <<conf, seen, pc>>
    BY <1>1 DEF HostKnown
  <1>2. CASE pc' \notin {"powerState", "reboot"}
    BY <1>2 DEF HostKnown
  <1>3. CASE Handler
    <2>1. NextRow => pc' \notin {"powerState", "reboot"}
      BY DEF NextRow, Goto, Return
    <2>2. NextPolicy => pc' \notin {"powerState", "reboot"}
      BY <2>1 DEF NextPolicy, Goto
    <2>3. CASE PowerAction
      BY <2>3 DEF PowerAction, Transition, Goto, Return, HostKnown, TypeOK, Seen, conn
    <2>4. CASE GetPowerStatus
      BY <2>4 DEF GetPowerStatus, Goto, HostKnown
    <2>5. Reboot => pc' \notin {"powerState", "reboot"}
      BY DEF Reboot, Transition, Goto, Return
    <2>6. Dispatch \/ ReadPEFControl \/ ReadPostponeTmr \/ CountLists \/ GetEthMap \/ GetPefConfInfo
            => pc' \notin {"powerState", "reboot"}
      BY DEF Dispatch, ReadPEFControl, ReadPostponeTmr, CountLists, GetEthMap, GetPefConfInfo, Goto, Return
    <2>7. ReadList \/ CheckAlert \/ ReadPolicyList => pc' \notin {"powerState", "reboot"}
      BY <2>1 DEF ReadList, CheckAlert, ReadPolicyList, Goto, Return
    <2>8. ResolveDestination => pc' \notin {"powerState", "reboot"}
      <3>1. ResolveDestination =>
               NextPolicy \/ \E type : Goto(IF type = SMTPType THEN "smtp" ELSE "snmp")
        BY DEF ResolveDestination
      <3>2. QED
        BY <3>1, <2>2 DEF Goto
    <2>9. SendSmtpAlert \/ SetLastBMCProcessedEventID \/ SendSNMPAlert
            => pc' \notin {"powerState", "reboot"}
      BY <2>2 DEF SendSmtpAlert, SetLastBMCProcessedEventID, SendSNMPAlert, Goto, Return
    <2>10. QED
      BY <1>2, <1>3, <2>3, <2>4, <2>5, <2>6, <2>7, <2>8, <2>9 DEF Handler
  <1>4. CASE Outside
    <2>1. ASSUME NEW c, NEW what, Write(c, what)
          PROVE  HostKnown'
      <3>1. pc' = pc /\ conf' = c
        BY <2>1 DEF Write
      <3>2. CASE pc = "idle"
        BY <3>1, <3>2 DEF HostKnown
      <3>3. CASE pc # "idle"
        <4>1. seen' = SeeAlso(c)
          BY <2>1, <3>3 DEF Write
        <4>2. seen'.hostOn <=> seen.hostOn \/ c.hostOn
          BY <4>1 DEF SeeAlso, See
        <4>3. QED
          BY <3>1, <4>2 DEF HostKnown
      <3>4. QED
        BY <3>2, <3>3
    <2>2. Call => UNCHANGED <<conf, seen, pc>>
      BY DEF Call, conn, history
    <2>3. setRetryEnable => UNCHANGED <<conf, seen, pc>>
      BY DEF setRetryEnable, history
    <2>4. Restart => pc' \notin {"powerState", "reboot"}
      BY DEF Restart
    <2>5. QED
      BY <1>1, <1>2, <1>4, <2>1, <2>2, <2>3, <2>4 DEF Outside, SetPEFControl, SetPEFActionGblControl,
            SetArmPEFPostponeTmr, SetEventFilterTable, SetAlertPolicyTable, SetLanParam, HostPowerChanges
  <1>5. UNCHANGED vars => UNCHANGED <<conf, seen, pc>>
    BY DEF vars, conn, history
  <1>6. QED
    BY <1>1, <1>3, <1>4, <1>5 DEF Next

(***************************************************************************)
(* performPefAction requests a host restart only if the host was on at     *)
(* some moment since it turned to the row.                                 *)
(***************************************************************************)
THEOREM RebootsAHostSeenOn == Spec => RebootOnlyAHostSeenOn
  <1>1. Init => HostKnown
    BY DEF Init, HostKnown
  <1>2. HostKnown => [acts' # acts /\ pc = "reboot" => seen.hostOn]_vars
    BY DEF HostKnown
  <1>3. QED
    BY <1>1, <1>2, HostStaysKnown, TypeCorrect, PTL DEF Spec, RebootOnlyAHostSeenOn

--------------------------------------------------------------------------------
(***************************************************************************)
(* The last processed event.  While its number is about to be recorded,    *)
(* its mail was accepted.                                                  *)
(***************************************************************************)
Recorded == pc = "record" => eveMsg.recordId \in accepted

LEMMA StaysRecorded ==
    ASSUME Recorded, LastProcessedWasAccepted, [Next]_vars
    PROVE  Recorded' /\ LastProcessedWasAccepted'
  <1> USE DEF Recorded, LastProcessedWasAccepted
  <1>1. CASE UNCHANGED <<lastProcessed, accepted>> /\ (pc' # "record" \/ UNCHANGED <<pc, eveMsg>>)
    BY <1>1
  <1>2. NextRow => pc' # "record"
    BY DEF NextRow, Goto, Return
  <1>3. NextPolicy => pc' # "record"
    BY <1>2 DEF NextPolicy, Goto
  <1>4. CASE SendSmtpAlert
    <2>1. UNCHANGED <<eveMsg, lastProcessed>>
      BY <1>4 DEF SendSmtpAlert, scan
    <2>2. \/ UNCHANGED accepted /\ pc' # "record"
          \/ accepted' = accepted \cup {eveMsg.recordId}
      BY <1>3, <1>4 DEF SendSmtpAlert, Return
    <2>3. QED
      BY <2>1, <2>2
  <1>5. CASE SetLastBMCProcessedEventID
    BY <1>3, <1>5 DEF SetLastBMCProcessedEventID
  <1>6. CASE Dispatch \/ ReadPEFControl \/ ReadPostponeTmr \/ CountLists \/ GetEthMap \/ GetPefConfInfo
    BY <1>1, <1>6 DEF Dispatch, ReadPEFControl, ReadPostponeTmr, CountLists, GetEthMap, GetPefConfInfo,
          Goto, Return, daemon
  <1>7. CASE ReadList \/ CheckAlert \/ ReadPolicyList
    <2>1. UNCHANGED <<lastProcessed, accepted, eveMsg>>
      BY <1>7 DEF ReadList, CheckAlert, ReadPolicyList, daemon, scan
    <2>2. pc' # "record" \/ UNCHANGED pc
      BY <1>2, <1>7 DEF ReadList, CheckAlert, ReadPolicyList, Goto, Return
    <2>3. QED
      BY <1>1, <2>1, <2>2
  <1>8. CASE PowerAction \/ GetPowerStatus \/ Reboot
    BY <1>1, <1>8 DEF PowerAction, GetPowerStatus, Reboot, Transition, Goto, Return, daemon
  <1>9. CASE ResolveDestination
    <2>1. NextPolicy \/ \E type : Goto(IF type = SMTPType THEN "smtp" ELSE "snmp")
      BY <1>9 DEF ResolveDestination
    <2>2. pc' # "record"
      BY <1>3, <2>1 DEF Goto
    <2>3. QED
      BY <1>1, <1>9, <2>2 DEF ResolveDestination, daemon
  <1>10. CASE SendSNMPAlert
    BY <1>1, <1>3, <1>10 DEF SendSNMPAlert, Return, daemon
  <1>11. CASE Outside
    <2>1. ASSUME NEW c, NEW what, Write(c, what)
          PROVE  UNCHANGED <<lastProcessed, accepted, pc, eveMsg>>
      BY <2>1 DEF Write, daemon, scan
    <2>2. Call => UNCHANGED <<lastProcessed, accepted, pc, eveMsg>>
      BY DEF Call, daemon, scan
    <2>3. setRetryEnable => UNCHANGED <<lastProcessed, accepted, pc, eveMsg>>
      BY DEF setRetryEnable, scan
    <2>4. Restart => UNCHANGED <<lastProcessed, accepted>> /\ pc' # "record"
      BY DEF Restart, daemon
    <2>5. QED
      BY <1>1, <1>11, <2>1, <2>2, <2>3, <2>4 DEF Outside, SetPEFControl, SetPEFActionGblControl,
            SetArmPEFPostponeTmr, SetEventFilterTable, SetAlertPolicyTable, SetLanParam, HostPowerChanges
  <1>12. CASE UNCHANGED vars
    BY <1>1, <1>12 DEF vars, daemon, scan
  <1>13. QED
    BY <1>4, <1>5, <1>6, <1>7, <1>8, <1>9, <1>10, <1>11, <1>12 DEF Next, Handler

(***************************************************************************)
(* What the handler records in LastBMCProcessedEventID never names an      *)
(* event whose mail was not accepted, over any number of calls.            *)
(***************************************************************************)
THEOREM LastProcessedIsAccepted == Spec => []LastProcessedWasAccepted
  <1>1. Init => Recorded /\ LastProcessedWasAccepted
    BY DEF Init, Recorded, LastProcessedWasAccepted
  <1>2. Recorded /\ LastProcessedWasAccepted /\ [Next]_vars => Recorded' /\ LastProcessedWasAccepted'
    BY StaysRecorded
  <1>3. QED
    BY <1>1, <1>2, PTL DEF Spec

--------------------------------------------------------------------------------
(***************************************************************************)
(* Refinement.  Seen from its callers, a step of the handler or of anyone  *)
(* else is a step of TaskQueue, or none.                                   *)
(***************************************************************************)
LEMMA StepsRefine == TypeOK /\ CallsAccountedFor /\ [Next]_vars => [Promise!Next]_(Promise!vars)
  <1> SUFFICES ASSUME TypeOK, CallsAccountedFor, [Next]_vars
               PROVE  [Promise!Next]_(Promise!vars)
    OBVIOUS
  <1> USE DEF Promise!vars
  <1>1. CASE UNCHANGED <<queue, pc, answered>>
    BY <1>1
  <1>2. CASE Call
    <2>1. PICK e \in Event : queue' = Append(queue, e)
      BY <1>2 DEF Call
    <2>2. UNCHANGED <<pc, answered>>
      BY <1>2 DEF Call, return
    <2>3. Promise!Arrive
      BY <2>1, <2>2 DEF Promise!Arrive
    <2>4. QED
      BY <2>3 DEF Promise!Next
  <1>3. CASE Restart
    <2>1. queue' = <<>> /\ pc' = "idle" /\ answered' = calls
      BY <1>3 DEF Restart
    <2>2. calls = answered + Len(queue) + (IF pc # "idle" THEN 1 ELSE 0)
      BY DEF CallsAccountedFor
    <2>3. Promise!Restart
      BY <2>1, <2>2 DEF Promise!Restart
    <2>4. QED
      BY <2>3 DEF Promise!Next
  <1>4. CASE Dispatch
    <2>1. Promise!Take
      BY <1>4 DEF Dispatch, Promise!Take
    <2>2. QED
      BY <2>1 DEF Promise!Next
  <1>5. CASE Handler /\ ~Dispatch
    <2>1. pc # "idle" /\ UNCHANGED queue
      BY <1>5, HandlerKeepsItsCall DEF caller
    <2>2. CASE pc' # "idle" /\ answered' = answered
      BY <2>1, <2>2
    <2>3. CASE pc' = "idle" /\ answered' = answered + 1
      <3>1. Promise!Finish
        BY <2>1, <2>3 DEF Promise!Finish
      <3>2. QED
        BY <3>1 DEF Promise!Next
    <2>4. QED
      BY <1>5, <2>2, <2>3, HandlerKeepsItsCall
  <1>6. CASE Outside /\ ~Call /\ ~Restart
    <2>1. ASSUME NEW c, NEW what, Write(c, what)
          PROVE  UNCHANGED <<queue, pc, answered>>
      BY <2>1 DEF Write, caller, return
    <2>2. setRetryEnable => UNCHANGED <<queue, pc, answered>>
      BY DEF setRetryEnable, caller, return
    <2>3. QED
      BY <1>1, <1>6, <2>1, <2>2 DEF Outside, SetPEFControl, SetPEFActionGblControl, SetArmPEFPostponeTmr,
            SetEventFilterTable, SetAlertPolicyTable, SetLanParam, HostPowerChanges
  <1>7. UNCHANGED vars => UNCHANGED <<queue, pc, answered>>
    BY DEF vars, caller, return
  <1>8. QED
    BY <1>1, <1>2, <1>3, <1>4, <1>5, <1>6, <1>7 DEF Next

(***************************************************************************)
(* doPefTask keeps the promise of TaskQueue, but for its fairness: calls   *)
(* are taken in order and one at a time, and answered once.                *)
(***************************************************************************)
THEOREM HandlerImplementsTaskQueue == Spec => Promise!Spec
  <1>1. Init => Promise!Init
    BY DEF Init, Promise!Init
  <1>2. QED
    BY <1>1, StepsRefine, TypeCorrect, CallsAreAccountedFor, PTL DEF Spec, Promise!Spec

--------------------------------------------------------------------------------
(***************************************************************************)
(* Order.  Passed: where the handler stands, every act done so far is      *)
(* before the next.                                                        *)
(***************************************************************************)
Preparing == {"control", "timer", "count", "lists", "ethMap", "confInfo"}

Passed(a, at, r, p) ==
    /\ at = "power" => a.row < r
    /\ at \in {"powerState", "reboot"} => a.row < r \/ (a.row = r /\ a.policy = 0 /\ a.kind = "sel")
    /\ at \in {"alert", "policies"} => a.row < r \/ (a.row = r /\ a.policy = 0)
    /\ at \in {"destination", "smtp", "snmp"} => a.row < r \/ (a.row = r /\ a.policy < p)
    /\ at = "record" => a.row < r \/ (a.row = r /\ a.policy <= p)

Ordered(s) == \A i, j \in DOMAIN s : i < j => Precedes(s[i], s[j])

InOrder ==
    /\ Ordered(acts)
    /\ pc \in Preparing => acts = <<>>
    /\ \A i \in DOMAIN acts : Passed(acts[i], pc, row, policy)

LEMMA ActTyped ==
    ASSUME NEW a \in Act
    PROVE  a.row \in Nat /\ a.policy \in Nat
  <1>1. a.row \in Rows
    BY DEF Act
  <1>2. a.policy = 0 \/ a.policy \in Policies
    BY DEF Act
  <1>3. (\A r \in Rows : r \in Nat) /\ (\A p \in Policies : p \in Nat) /\ 0 \in Nat
    BY TablesAreNumbered
  <1>4. QED
    BY <1>1, <1>2, <1>3, Zenon

LEMMA RowPassed ==
    ASSUME TypeOK, NextRow, NEW a \in Act, a.row <= row
    PROVE  Passed(a, pc', row', policy')
  <1>1. \/ pc' = "idle"
        \/ pc' = "power" /\ \E r \in DOMAIN matched : r > row /\ row' = r
    BY Zenon DEF NextRow, First, Goto, Return
  <1>2. row \in Nat /\ DOMAIN matched \subseteq Nat
    BY TablesAreNumbered DEF TypeOK
  <1>3. QED
    BY <1>1, <1>2, ActTyped DEF Passed

LEMMA PolicyPassed ==
    ASSUME TypeOK, NextPolicy, NEW a \in Act, a.row < row \/ (a.row = row /\ a.policy <= policy)
    PROVE  Passed(a, pc', row', policy')
  <1>1. a.row \in Nat /\ a.policy \in Nat /\ row \in Nat /\ policy \in Nat
        /\ DOMAIN selected \subseteq Nat
    BY ActTyped, TablesAreNumbered DEF TypeOK
  <1>2. CASE NextRow
    BY <1>1, <1>2, RowPassed
  <1>3. CASE /\ \E p \in DOMAIN selected : p > policy /\ policy' = p
             /\ pc' = "destination" /\ row' = row
    BY <1>1, <1>3 DEF Passed
  <1>4. QED
    BY <1>2, <1>3, Zenon DEF NextPolicy, First, Goto

LEMMA OrderedAppend ==
    ASSUME NEW s \in Seq(Act), NEW t \in Seq(Act), Ordered(s), Ordered(t),
           \A i \in DOMAIN s, j \in DOMAIN t : Precedes(s[i], t[j])
    PROVE  Ordered(s \o t)
  <1> SUFFICES ASSUME NEW i \in DOMAIN (s \o t), NEW j \in DOMAIN (s \o t), i < j
               PROVE  Precedes((s \o t)[i], (s \o t)[j])
    BY DEF Ordered
  <1>1. /\ Len(s) \in Nat /\ Len(t) \in Nat /\ Len(s \o t) = Len(s) + Len(t)
        /\ DOMAIN s = 1..Len(s) /\ DOMAIN t = 1..Len(t)
    OBVIOUS
  <1>2. i \in 1..(Len(s) + Len(t)) /\ j \in 1..(Len(s) + Len(t))
    BY <1>1
  <1>3. CASE i <= Len(s) /\ j <= Len(s)
    <2>1. i \in DOMAIN s /\ j \in DOMAIN s /\ (s \o t)[i] = s[i] /\ (s \o t)[j] = s[j]
      BY <1>1, <1>2, <1>3
    <2>2. QED
      BY <2>1 DEF Ordered
  <1>4. CASE i <= Len(s) /\ ~(j <= Len(s))
    <2>1. i \in DOMAIN s /\ j - Len(s) \in DOMAIN t
          /\ (s \o t)[i] = s[i] /\ (s \o t)[j] = t[j - Len(s)]
      BY <1>1, <1>2, <1>4
    <2>2. QED
      BY <2>1
  <1>5. CASE ~(i <= Len(s))
    <2>1. /\ i - Len(s) \in DOMAIN t /\ j - Len(s) \in DOMAIN t /\ i - Len(s) < j - Len(s)
          /\ (s \o t)[i] = t[i - Len(s)] /\ (s \o t)[j] = t[j - Len(s)]
      BY <1>1, <1>2, <1>5
    <2>2. QED
      BY <2>1 DEF Ordered
  <1>6. QED
    BY <1>3, <1>4, <1>5

LEMMA OneElement ==
    ASSUME NEW x \in Act
    PROVE  /\ <<>> \in Seq(Act) /\ Ordered(<<>>)
           /\ <<x>> \in Seq(Act) /\ Ordered(<<x>>)
           /\ \A j \in DOMAIN <<>> : FALSE
           /\ \A j \in DOMAIN <<x>> : <<x>>[j] = x
  <1>1. /\ <<>> \in Seq(Act) /\ \A j \in DOMAIN <<>> : FALSE
        /\ <<x>> \in Seq(Act) /\ \A j \in DOMAIN <<x>> : <<x>>[j] = x
    OBVIOUS
  <1>2. Ordered(<<>>) /\ Ordered(<<x>>)
    BY DEF Ordered
  <1>3. QED
    BY <1>1, <1>2

\* An act and the SEL record before it.
Adds(kind, p, status, log) == log \o <<Do(kind, p, status)>>

LEMMA NewActs ==
    ASSUME row \in Rows, NEW kind \in ActKind \ {"sel"}, NEW p \in {0} \cup Policies,
           NEW status \in {"ok", "failed", "lost"}, NEW log \in {<<>>, SELLog(p)}
    PROVE  /\ Adds(kind, p, status, log) \in Seq(Act) /\ Ordered(Adds(kind, p, status, log))
           /\ \A j \in DOMAIN Adds(kind, p, status, log) :
                 LET a == Adds(kind, p, status, log)[j]
                 IN  a \in Act /\ a.row = row /\ a.policy = p /\ (log = <<>> => a.kind = kind)
  <1> DEFINE t == Adds(kind, p, status, log)
             record == Do("sel", p, "ok")
             act == Do(kind, p, status)
             last == <<act>>
  <1>1. record \in Act /\ act \in Act
    BY DEF Do, Act, ActKind
  <1>2. record.row = row /\ record.policy = p /\ act.row = row /\ act.policy = p /\ act.kind = kind
    BY DEF Do
  <1>3. Precedes(record, act)
    BY DEF Do, Precedes
  <1>4. t = log \o last /\ (log = <<>> \/ log = <<record>>)
    BY DEF SELLog, Adds
  <1> HIDE DEF record, act, t
  <1>5. last \in Seq(Act) /\ Ordered(last) /\ \A j \in DOMAIN last : last[j] = act
    BY <1>1, OneElement
  <1>6. log \in Seq(Act) /\ Ordered(log) /\ \A j \in DOMAIN log : log[j] = record
    <2>1. CASE log = <<>>
      BY <1>1, <2>1, OneElement
    <2>2. CASE log = <<record>>
      BY <1>1, <2>2, OneElement
    <2>3. QED
      BY <1>4, <2>1, <2>2
  <1> HIDE DEF last
  <1>7. t \in Seq(Act) /\ Ordered(t)
    BY <1>3, <1>4, <1>5, <1>6, OrderedAppend
  <1>8. \A j \in DOMAIN t :
           \/ j \in DOMAIN log /\ t[j] = log[j]
           \/ \E k \in DOMAIN last : t[j] = last[k]
    BY <1>4, <1>5, <1>6, ActPickedFromEither
  <1>9. ASSUME NEW j \in DOMAIN t
        PROVE  t[j] \in Act /\ t[j].row = row /\ t[j].policy = p /\ (log = <<>> => t[j].kind = kind)
    <2>1. t[j] = record \/ t[j] = act
      BY <1>5, <1>6, <1>8
    <2>2. log = <<>> => DOMAIN log = {}
      OBVIOUS
    <2>3. log = <<>> => t[j] = act
      BY <1>5, <1>8, <2>2
    <2>4. QED
      BY <1>1, <1>2, <2>1, <2>3
  <1>10. QED
    BY <1>7, <1>9 DEF t

LEMMA Added ==
    ASSUME IInv, InOrder, pc \in Acting,
           NEW kind \in ActKind \ {"sel"}, NEW p \in {0} \cup Policies,
           NEW status \in {"ok", "failed", "lost"}, NEW log \in {<<>>, SELLog(p)},
           acts' = acts \o Adds(kind, p, status, log),
           \A i \in DOMAIN acts :
              \/ acts[i].row < row
              \/ acts[i].row = row /\ acts[i].policy < p
              \/ acts[i].row = row /\ acts[i].policy = p /\ acts[i].kind = "sel" /\ log = <<>>
    PROVE  /\ Ordered(acts')
           /\ \A i \in DOMAIN acts' :
                 /\ acts'[i] \in Act
                 /\ acts'[i].row < row \/ (acts'[i].row = row /\ acts'[i].policy <= p)
  <1> DEFINE t == Adds(kind, p, status, log)
  <1>1. row \in Rows /\ acts \in Seq(Act) /\ row \in Nat /\ p \in Nat
    BY TablesAreNumbered DEF IInv, Placed, TypeOK
  <1>2. acts' = acts \o t
    OBVIOUS
  <1>3. /\ t \in Seq(Act) /\ Ordered(t)
        /\ \A j \in DOMAIN t :
              t[j] \in Act /\ t[j].row = row /\ t[j].policy = p /\ (log = <<>> => t[j].kind = kind)
    BY <1>1, NewActs
  <1> HIDE DEF t
  <1>4. ASSUME NEW i \in DOMAIN acts, NEW j \in DOMAIN t
        PROVE  Precedes(acts[i], t[j])
    BY <1>3 DEF Precedes
  <1>5. Ordered(acts \o t)
    BY <1>1, <1>3, <1>4, OrderedAppend DEF InOrder
  <1>6. \A i \in DOMAIN (acts \o t) :
           \/ i \in DOMAIN acts /\ (acts \o t)[i] = acts[i]
           \/ \E j \in DOMAIN t : (acts \o t)[i] = t[j]
    BY <1>1, <1>3, ActPickedFromEither
  <1>7. ASSUME NEW i \in DOMAIN acts
        PROVE  /\ acts[i] \in Act
               /\ acts[i].row < row \/ (acts[i].row = row /\ acts[i].policy <= p)
    <2>1. acts[i] \in Act
      BY <1>1
    <2>2. acts[i].policy \in Nat
      BY <2>1, ActTyped
    <2>3. QED
      BY <1>1, <2>1, <2>2
  <1>8. ASSUME NEW j \in DOMAIN t
        PROVE  t[j] \in Act /\ t[j].row = row /\ t[j].policy <= p
    BY <1>1, <1>3
  <1>9. QED
    BY <1>2, <1>5, <1>6, <1>7, <1>8

\* The types that all steps need.
LEMMA OrderTyped ==
    ASSUME IInv
    PROVE  /\ acts \in Seq(Act) /\ row \in Nat /\ policy \in Nat
           /\ \A i \in DOMAIN acts :
                 acts[i] \in Act /\ acts[i].row \in Nat /\ acts[i].policy \in Nat
  <1>1. acts \in Seq(Act) /\ row \in Nat /\ policy \in Nat
    BY DEF IInv, TypeOK
  <1>2. \A i \in DOMAIN acts : acts[i] \in Act
    BY <1>1
  <1>3. QED
    BY <1>1, <1>2, ActTyped

LEMMA PreparingInOrder ==
    ASSUME IInv, InOrder,
           \/ Dispatch \/ ReadPEFControl \/ ReadPostponeTmr \/ CountLists
           \/ ReadList \/ GetEthMap \/ GetPefConfInfo
    PROVE  InOrder'
  <1>1. CASE Dispatch
    <2>1. acts' = <<>>
      BY <1>1 DEF Dispatch
    <2>2. QED
      BY <2>1 DEF InOrder, Ordered
  <1>2. CASE ~Dispatch
    <2>1. pc \in Preparing /\ acts' = acts
      BY <1>2 DEF ReadPEFControl, ReadPostponeTmr, CountLists, ReadList, GetEthMap, GetPefConfInfo, Preparing
    <2>2. acts' = <<>>
      BY <2>1 DEF InOrder
    <2>3. QED
      BY <2>2 DEF InOrder, Ordered
  <1>3. QED
    BY <1>1, <1>2

LEMMA PowerInOrder ==
    ASSUME IInv, InOrder, PowerAction \/ GetPowerStatus \/ Reboot
    PROVE  InOrder'
  <1>1. CASE PowerAction
    <2>1. pc = "power" /\ pc \in Acting /\ UNCHANGED <<row, policy>>
      BY <1>1 DEF PowerAction, Acting, walk
    <2>2. \A i \in DOMAIN acts : acts[i].row < row
      BY <2>1 DEF InOrder, Passed
    <2>3. CASE Transition("powerOff", SELLog(0))
      <3>1. PICK status \in {"ok", "failed"} :
                acts' = acts \o Adds("powerOff", 0, status, SELLog(0))
        BY <2>3 DEF Transition, Adds
      <3>2. /\ Ordered(acts')
            /\ \A i \in DOMAIN acts' :
                  /\ acts'[i] \in Act
                  /\ acts'[i].row < row \/ (acts'[i].row = row /\ acts'[i].policy <= 0)
        BY <2>1, <2>2, <3>1, Added DEF ActKind
      <3>3. pc' \in {"alert", "idle"}
        BY <2>3 DEF Transition, Goto, Return
      <3>4. \A i \in DOMAIN acts' : Passed(acts'[i], pc', row', policy')
        BY <2>1, <3>2, <3>3, ActTyped DEF Passed
      <3>5. QED
        BY <3>2, <3>3, <3>4 DEF InOrder, Preparing
    <2>4. CASE acts' = acts \o SELLog(0) /\ pc' = "powerState"
      <3> DEFINE record == Do("sel", 0, "ok")
      <3>1. row \in Rows
        BY <2>1 DEF IInv, Placed, TypeOK
      <3>2. record \in Act /\ record.row = row /\ record.policy = 0 /\ record.kind = "sel"
        BY <3>1 DEF Do, Act, ActKind
      <3>3. SELLog(0) = <<>> \/ SELLog(0) = <<record>>
        BY DEF SELLog
      <3> HIDE DEF record
      <3>4. SELLog(0) \in Seq(Act) /\ Ordered(SELLog(0)) /\ \A j \in DOMAIN SELLog(0) : SELLog(0)[j] = record
        <4>1. CASE SELLog(0) = <<>>
          BY <3>2, <4>1, OneElement
        <4>2. CASE SELLog(0) = <<record>>
          BY <3>2, <4>2, OneElement
        <4>3. QED
          BY <3>3, <4>1, <4>2
      <3>5. \A i \in DOMAIN acts, j \in DOMAIN SELLog(0) : Precedes(acts[i], SELLog(0)[j])
        BY <2>2, <3>2, <3>4 DEF Precedes
      <3>6. Ordered(acts \o SELLog(0))
        BY <3>4, <3>5, OrderTyped, OrderedAppend DEF InOrder
      <3>7. \A i \in DOMAIN (acts \o SELLog(0)) :
               \/ i \in DOMAIN acts /\ (acts \o SELLog(0))[i] = acts[i]
               \/ \E j \in DOMAIN SELLog(0) : (acts \o SELLog(0))[i] = SELLog(0)[j]
        BY <3>4, OrderTyped, ActPickedFromEither
      <3>8. \A i \in DOMAIN acts' :
               \/ acts'[i].row < row
               \/ acts'[i].row = row /\ acts'[i].policy = 0 /\ acts'[i].kind = "sel"
        BY <2>2, <2>4, <3>2, <3>4, <3>7
      <3>9. QED
        BY <2>1, <2>4, <3>6, <3>8 DEF InOrder, Passed, Preparing
    <2>5. CASE acts' = acts /\ pc' = "alert"
      BY <2>1, <2>2, <2>5 DEF InOrder, Passed, Preparing
    <2>6. QED
      BY <1>1, <2>3, <2>4, <2>5 DEF PowerAction, Goto
  <1>2. CASE GetPowerStatus
    <2>1. pc = "powerState" /\ pc' \in {"reboot", "alert"} /\ UNCHANGED <<acts, row, policy>>
      BY <1>2 DEF GetPowerStatus, Goto, walk
    <2>2. QED
      BY <2>1 DEF InOrder, Passed, Preparing
  <1>3. CASE Reboot
    <2>1. pc = "reboot" /\ pc \in Acting /\ UNCHANGED <<row, policy>> /\ Transition("reboot", <<>>)
      BY <1>3 DEF Reboot, Acting, walk
    <2>2. \A i \in DOMAIN acts :
             acts[i].row < row \/ (acts[i].row = row /\ acts[i].policy = 0 /\ acts[i].kind = "sel")
      BY <2>1 DEF InOrder, Passed
    <2>3. PICK status \in {"ok", "failed"} : acts' = acts \o Adds("reboot", 0, status, <<>>)
      BY <2>1 DEF Transition, Adds
    <2>4. /\ Ordered(acts')
          /\ \A i \in DOMAIN acts' :
                /\ acts'[i] \in Act
                /\ acts'[i].row < row \/ (acts'[i].row = row /\ acts'[i].policy <= 0)
      BY <2>1, <2>2, <2>3, Added DEF ActKind
    <2>5. pc' \in {"alert", "idle"}
      BY <2>1 DEF Transition, Goto, Return
    <2>6. \A i \in DOMAIN acts' : Passed(acts'[i], pc', row', policy')
      BY <2>1, <2>4, <2>5, ActTyped DEF Passed
    <2>7. QED
      BY <2>4, <2>5, <2>6 DEF InOrder, Preparing
  <1>4. QED
    BY <1>1, <1>2, <1>3

\* Nothing is added, and the loop over rows or policies goes on.
LEMMA NextInOrder ==
    ASSUME IInv, InOrder, acts' = acts,
           \/ NextRow /\ pc \in {"alert", "policies"}
           \/ NextPolicy /\ pc \in Alerting
    PROVE  InOrder'
  <1>1. CASE NextRow /\ pc \in {"alert", "policies"}
    <2>1. \A i \in DOMAIN acts : acts[i].row <= row
      BY <1>1, OrderTyped DEF InOrder, Passed
    <2>2. \A i \in DOMAIN acts : Passed(acts[i], pc', row', policy')
      BY <1>1, <2>1, OrderTyped, RowPassed DEF IInv
    <2>3. pc' \notin Preparing
      BY <1>1 DEF NextRow, Goto, Return, Preparing
    <2>4. QED
      BY <2>2, <2>3 DEF InOrder
  <1>2. CASE NextPolicy /\ pc \in Alerting
    <2>1. \A i \in DOMAIN acts : acts[i].row < row \/ (acts[i].row = row /\ acts[i].policy <= policy)
      BY <1>2, OrderTyped DEF InOrder, Passed, Alerting
    <2>2. \A i \in DOMAIN acts : Passed(acts[i], pc', row', policy')
      BY <1>2, <2>1, OrderTyped, PolicyPassed DEF IInv
    <2>3. pc' \notin Preparing
      BY <1>2 DEF NextPolicy, NextRow, Goto, Return, Preparing
    <2>4. QED
      BY <2>2, <2>3 DEF InOrder
  <1>3. QED
    BY <1>1, <1>2

LEMMA PoliciesInOrder ==
    ASSUME IInv, InOrder, CheckAlert \/ ReadPolicyList \/ ResolveDestination \/ SetLastBMCProcessedEventID
    PROVE  InOrder'
  <1>1. CASE CheckAlert
    <2>1. pc = "alert" /\ acts' = acts /\ (NextRow \/ (pc' = "policies" /\ row' = row))
      BY <1>1 DEF CheckAlert, Goto
    <2>2. CASE pc' = "policies" /\ row' = row
      BY <2>1, <2>2 DEF InOrder, Passed, Preparing
    <2>3. QED
      BY <2>1, <2>2, NextInOrder
  <1>2. CASE ReadPolicyList
    <2>1. pc = "policies" /\ acts' = acts
      BY <1>2 DEF ReadPolicyList
    <2>2. \/ UNCHANGED <<pc, row, policy>>
          \/ NextRow
          \/ policy' \in DOMAIN selected' /\ pc' = "destination" /\ row' = row
      BY <1>2 DEF ReadPolicyList, First, Goto
    <2>3. CASE UNCHANGED <<pc, row, policy>>
      BY <2>1, <2>3 DEF InOrder
    <2>4. CASE policy' \in DOMAIN selected' /\ pc' = "destination" /\ row' = row
      <3>1. IInv'
        BY <1>2, PoliciesKeep
      <3>2. policy' \in Policies
        BY <2>4, <3>1 DEF IInv, TypeOK
      <3>3. policy' > 0
        BY <3>2, TaskAssumption DEF Policies
      <3>4. \A i \in DOMAIN acts : acts[i].row < row \/ (acts[i].row = row /\ acts[i].policy = 0)
        BY <2>1 DEF InOrder, Passed
      <3>5. QED
        BY <2>1, <2>4, <3>3, <3>4 DEF InOrder, Passed, Preparing
    <2>5. QED
      BY <2>1, <2>2, <2>3, <2>4, NextInOrder
  <1>3. CASE ResolveDestination
    <2>1. pc = "destination" /\ acts' = acts
      BY <1>3 DEF ResolveDestination
    <2>2. NextPolicy \/ (pc' \in {"smtp", "snmp"} /\ UNCHANGED <<row, policy>>)
      BY <1>3 DEF ResolveDestination, Goto
    <2>3. CASE pc' \in {"smtp", "snmp"} /\ UNCHANGED <<row, policy>>
      BY <2>1, <2>3 DEF InOrder, Passed, Preparing
    <2>4. QED
      BY <2>1, <2>2, <2>3, NextInOrder DEF Alerting
  <1>4. CASE SetLastBMCProcessedEventID
    BY <1>4, NextInOrder DEF SetLastBMCProcessedEventID, Alerting, history
  <1>5. QED
    BY <1>1, <1>2, <1>3, <1>4

LEMMA AlertsInOrder ==
    ASSUME IInv, InOrder, SendSmtpAlert \/ SendSNMPAlert
    PROVE  InOrder'
  <1>1. pc \in {"smtp", "snmp"} /\ pc \in Acting /\ policy \in Policies
    <2>1. pc \in {"smtp", "snmp"} /\ pc \in Acting /\ pc \in Alerting
      BY DEF SendSmtpAlert, SendSNMPAlert, Acting, Alerting
    <2>2. QED
      BY <2>1 DEF IInv, TypeOK, Placed
  <1>2. PICK kind \in {"smtp", "snmp"}, status \in {"ok", "failed", "lost"} : Alerted(kind, status)
    BY DEF SendSmtpAlert, SendSNMPAlert
  <1>3. acts' = acts \o Adds(kind, policy, status, SELLog(policy))
    BY <1>2 DEF Alerted, Adds
  <1>4. \A i \in DOMAIN acts : acts[i].row < row \/ (acts[i].row = row /\ acts[i].policy < policy)
    BY <1>1 DEF InOrder, Passed
  <1>5. /\ Ordered(acts')
        /\ \A i \in DOMAIN acts' :
              /\ acts'[i] \in Act
              /\ acts'[i].row < row \/ (acts'[i].row = row /\ acts'[i].policy <= policy)
    BY <1>1, <1>3, <1>4, Added DEF ActKind
  <1>6. NextPolicy \/ (pc' \in {"idle", "record"} /\ UNCHANGED <<row, policy>>)
    BY DEF SendSmtpAlert, SendSNMPAlert, Goto, Return
  <1>7. CASE NextPolicy
    <2>1. \A i \in DOMAIN acts' : Passed(acts'[i], pc', row', policy')
      BY <1>5, <1>7, PolicyPassed DEF IInv
    <2>2. pc' \notin Preparing
      BY <1>7 DEF NextPolicy, NextRow, Goto, Return, Preparing
    <2>3. QED
      BY <1>5, <2>1, <2>2 DEF InOrder
  <1>8. CASE pc' \in {"idle", "record"} /\ UNCHANGED <<row, policy>>
    BY <1>5, <1>8 DEF InOrder, Passed, Preparing
  <1>9. QED
    BY <1>6, <1>7, <1>8

LEMMA StaysInOrder == IInv /\ InOrder /\ [Next]_vars => InOrder'
  <1> SUFFICES ASSUME IInv, InOrder, [Next]_vars
               PROVE  InOrder'
    OBVIOUS
  <1>1. CASE UNCHANGED <<acts, pc, row, policy>>
    BY <1>1 DEF InOrder
  <1>2. CASE Outside
    <2>1. ASSUME NEW c, NEW what, Write(c, what)
          PROVE  UNCHANGED <<acts, pc, row, policy>>
      BY <2>1 DEF Write, walk
    <2>2. Call \/ setRetryEnable => UNCHANGED <<acts, pc, row, policy>>
      BY DEF Call, setRetryEnable, walk, history
    <2>3. Restart => acts' = acts /\ pc' = "idle"
      BY DEF Restart, history
    <2>4. acts' = acts /\ pc' = "idle" => InOrder'
      BY DEF InOrder, Passed, Preparing
    <2>5. QED
      BY <1>1, <1>2, <2>1, <2>2, <2>3, <2>4 DEF Outside, SetPEFControl, SetPEFActionGblControl,
            SetArmPEFPostponeTmr, SetEventFilterTable, SetAlertPolicyTable, SetLanParam, HostPowerChanges
  <1>3. CASE Handler
    BY <1>3, PreparingInOrder, PowerInOrder, PoliciesInOrder, AlertsInOrder DEF Handler
  <1>4. CASE UNCHANGED vars
    BY <1>1, <1>4 DEF vars, walk, history
  <1>5. QED
    BY <1>2, <1>3, <1>4 DEF Next

(***************************************************************************)
(* performPefAction acts in the order of the filter table and, for a row,  *)
(* of the policy table, and does nothing twice, whatever is configured,    *)
(* fails or is changed meanwhile.                                          *)
(***************************************************************************)
THEOREM ActsAreInTableOrder == Spec => []ActsOnceInTableOrder
  <1>1. Init => InOrder
    BY DEF Init, InOrder, Ordered, Passed, Preparing
  <1>2. InOrder => ActsOnceInTableOrder
    BY DEF InOrder, Ordered, ActsOnceInTableOrder
  <1>3. QED
    BY <1>1, <1>2, StaysInOrder, InvariantHolds, PTL DEF Spec

--------------------------------------------------------------------------------
(***************************************************************************)
(* Completeness: what stays put is acted on.                               *)
(*                                                                         *)
(* Steady: while the handler runs, the history of what did not change is   *)
(* the configuration of the moment.                                        *)
(***************************************************************************)
Still(what) == what \notin disturbed
StillGlobal == Still(<<"PEFActionGblControl">>)

Steady ==
    pc # "idle" =>
        /\ Still(<<"PEFControl">>) => (seen.enabled <=> "enable" \in conf.PEFControl)
        /\ Still(<<"ArmPEFPostponeTmr">>) => (seen.unpostponed <=> conf.ArmPEFPostponeTmr \in {0, 255})
        /\ StillGlobal => seen.gbl = conf.PEFActionGblControl
        /\ Still(<<"hostOn">>) => (seen.hostOn <=> conf.hostOn)
        /\ \A re \in seen.rows : Still(<<"row", re[1]>>) => re[2] = conf.EventFilterTable[re[1]]
        /\ \A pq \in seen.policies : Still(<<"policy", pq[1]>>) => pq[2] = conf.AlertPolicyTable[pq[1]]
        /\ \A nl \in seen.lans : Still(<<"lan", nl[1]>>) => nl[2] = conf.LanParam[nl[1]]
        /\ \A n \in Channel : <<n, conf.LanParam[n]>> \in seen.lans

\* What the handler keeps in its locals is the configuration, if that stays put.
Informed ==
    /\ pc = "timer" /\ Still(<<"PEFControl">>) => ("enable" \in pefCtl <=> seen.enabled)
    /\ pc \in {"control", "timer", "count"} => list = 1
    /\ pc \in Acting /\ StillGlobal => info.PEFActionGblControl = seen.gbl
    /\ pc \in {"confInfo"} \cup Acting /\ Still(<<"ethMap">>) => ethMap = EthChannel

\* A row that matches, and a policy of the current row's group, is taken down.
Scanned(r) ==
    \A re \in seen.rows :
        /\ re[1] = r /\ EntryMatches(re[2], eveMsg)
        /\ Undisturbed({<<"row", r>>, <<"list", ListOf(r)>>})
        => r \in DOMAIN matched /\ matched[r] = re[2]

Selected(p) ==
    \A pq \in seen.policies :
        /\ pq[1] = p /\ InGroup(pq[2], matched[row])
        /\ Undisturbed({<<"policy", p>>, <<"policyList", PolicyListOf(p)>>})
        => p \in DOMAIN selected /\ selected[p] = pq[2]

TakenDown ==
    /\ pc = "lists" => \A r \in Rows : ListOf(r) < list => Scanned(r)
    /\ pc \in {"ethMap", "confInfo"} \cup Acting => \A r \in Rows : Scanned(r)
    /\ pc = "policies" => \A p \in Policies : PolicyListOf(p) < list => Selected(p)
    /\ pc \in Alerting => \A p \in Policies : Selected(p)

\* What has been done for a row and for one of its policies.
PowerDone(r) == StillGlobal => PowerActedOn(r, matched[r])
PolicyDone(r, p, q) ==
    StillGlobal => \A nl \in seen.lans : nl[1] = q.ChannelNo => AlertActedOn(r, matched[r], p, q, nl[2])
RowDone(r) == PowerDone(r) /\ \A pq \in seen.policies : PolicyDone(r, pq[1], pq[2])

\* The way of an alert is that of its destination's type.
Chosen ==
    LET q == selected[policy]
    IN  \A nl \in seen.lans :
            /\ nl[1] = q.ChannelNo /\ Still(<<"lan", q.ChannelNo>>)
            /\ q.DestinationSel \in 1..(Len(nl[2].Type) - 1)
            => (nl[2].Type[q.DestinationSel] = SMTPType <=> pc = "smtp")

\* Done: whatever lies behind the handler.
Behind ==
    /\ pc \in Acting => \A r \in DOMAIN matched : r < row => RowDone(r)
    /\ pc \in {"powerState", "reboot"} /\ StillGlobal =>
          "powerOff" \notin matched[row].EvtFilterAction \cap seen.gbl
    /\ pc \in {"alert", "policies"} \cup Alerting => PowerDone(row)
    /\ pc \in Alerting => \A p \in DOMAIN selected :
          p < policy \/ (p = policy /\ pc = "record") => PolicyDone(row, p, selected[p])
    /\ pc \in {"smtp", "snmp"} => Chosen

DInv == Steady /\ Informed /\ TakenDown /\ Behind /\ UndisturbedRowsActedOn

--------------------------------------------------------------------------------
\* A user's write changes what it is marked with, and nothing else.
Only(c, what) ==
    /\ c.PEFControl = conf.PEFControl \/ what = <<"PEFControl">>
    /\ c.ArmPEFPostponeTmr = conf.ArmPEFPostponeTmr \/ what = <<"ArmPEFPostponeTmr">>
    /\ c.PEFActionGblControl = conf.PEFActionGblControl \/ what = <<"PEFActionGblControl">>
    /\ c.hostOn = conf.hostOn \/ what = <<"hostOn">>
    /\ \A r \in Rows : c.EventFilterTable[r] = conf.EventFilterTable[r] \/ what = <<"row", r>>
    /\ \A p \in Policies : c.AlertPolicyTable[p] = conf.AlertPolicyTable[p] \/ what = <<"policy", p>>
    /\ \A n \in Channel : c.LanParam[n] = conf.LanParam[n] \/ what = <<"lan", n>>

Writes == \E c \in Configuration : \E what : Write(c, what) /\ Only(c, what)

LEMMA OutsideWrites ==
    ASSUME TypeOK, Outside, ~Call, ~setRetryEnable, ~Restart
    PROVE  Writes
  <1>0. conf \in Configuration
    BY DEF TypeOK
  <1>1. CASE SetPEFControl
    <2>1. PICK v \in SUBSET ControlBit : Write([conf EXCEPT !.PEFControl = v], <<"PEFControl">>)
      BY <1>1 DEF SetPEFControl
    <2>2. QED
      BY <1>0, <2>1 DEF Writes, Only, Configuration
  <1>2. CASE SetPEFActionGblControl
    <2>1. PICK v \in SUBSET Action :
              Write([conf EXCEPT !.PEFActionGblControl = v], <<"PEFActionGblControl">>)
      BY <1>2 DEF SetPEFActionGblControl
    <2>2. QED
      BY <1>0, <2>1 DEF Writes, Only, Configuration
  <1>3. CASE SetArmPEFPostponeTmr
    <2>1. PICK v \in TmrValue : Write([conf EXCEPT !.ArmPEFPostponeTmr = v], <<"ArmPEFPostponeTmr">>)
      BY <1>3 DEF SetArmPEFPostponeTmr
    <2>2. QED
      BY <1>0, <2>1 DEF Writes, Only, Configuration
  <1>4. CASE SetEventFilterTable
    <2>1. PICK r \in Rows, v \in Entry : Write([conf EXCEPT !.EventFilterTable[r] = v], <<"row", r>>)
      BY <1>4 DEF SetEventFilterTable
    <2>2. QED
      BY <1>0, <2>1 DEF Writes, Only, Configuration
  <1>5. CASE SetAlertPolicyTable
    <2>1. PICK p \in Policies, v \in PolicyEntry :
              Write([conf EXCEPT !.AlertPolicyTable[p] = v], <<"policy", p>>)
      BY <1>5 DEF SetAlertPolicyTable
    <2>2. QED
      BY <1>0, <2>1 DEF Writes, Only, Configuration
  <1>6. CASE SetLanParam
    <2>1. PICK n \in Channel, v \in LanEntry : Write([conf EXCEPT !.LanParam[n] = v], <<"lan", n>>)
      BY <1>6 DEF SetLanParam
    <2>2. QED
      BY <1>0, <2>1 DEF Writes, Only, Configuration
  <1>7. CASE HostPowerChanges
    <2>1. Write([conf EXCEPT !.hostOn = ~@], <<"hostOn">>)
      BY <1>7 DEF HostPowerChanges
    <2>2. [conf EXCEPT !.hostOn = ~@] \in Configuration
      BY <1>0 DEF Configuration
    <2>3. Only([conf EXCEPT !.hostOn = ~@], <<"hostOn">>)
      BY <1>0 DEF Only, Configuration
    <2>4. QED
      BY <2>1, <2>2, <2>3, Zenon DEF Writes
  <1>8. QED
    BY <1>1, <1>2, <1>3, <1>4, <1>5, <1>6, <1>7 DEF Outside

(***************************************************************************)
(* While a call is handled, nothing that was done is undone, and what has  *)
(* not changed looks as before.                                            *)
(***************************************************************************)
Advances ==
    /\ UNCHANGED eveMsg
    /\ disturbed \subseteq disturbed'
    /\ \A kind, r, p : Did(kind, r, p) => Did(kind, r, p)'
    /\ Still(<<"PEFControl">>)' => (seen'.enabled <=> seen.enabled)
    /\ StillGlobal' => seen'.gbl = seen.gbl
    /\ Still(<<"hostOn">>)' => (seen'.hostOn <=> seen.hostOn)
    /\ \A re \in seen'.rows : re \in seen.rows \/ ~Still(<<"row", re[1]>>)'
    /\ \A pq \in seen'.policies : pq \in seen.policies \/ ~Still(<<"policy", pq[1]>>)'
    /\ \A nl \in seen'.lans : nl \in seen.lans \/ ~Still(<<"lan", nl[1]>>)'

LEMMA WriteAdvances ==
    ASSUME IInv, Steady, pc # "idle", NEW c \in Configuration, NEW what, Write(c, what), Only(c, what)
    PROVE  Advances /\ Steady'
  <1>1. /\ conf' = c /\ seen' = SeeAlso(c) /\ disturbed' = disturbed \cup {what} /\ pc' = pc
        /\ UNCHANGED <<acts, eveMsg>>
    BY DEF Write, Disturb, scan
  <1>2. conf \in Configuration /\ seen \in Seen
    BY DEF IInv, TypeOK
  <1>3. /\ seen'.enabled <=> (seen.enabled \/ "enable" \in c.PEFControl)
        /\ seen'.unpostponed <=> (seen.unpostponed \/ c.ArmPEFPostponeTmr \in {0, 255})
        /\ seen'.gbl = seen.gbl \cup c.PEFActionGblControl
        /\ seen'.rows = seen.rows \cup See(c).rows
        /\ seen'.policies = seen.policies \cup See(c).policies
        /\ seen'.lans = seen.lans \cup See(c).lans
        /\ seen'.hostOn <=> (seen.hostOn \/ c.hostOn)
    BY <1>1 DEF SeeAlso, See
  <1>4. eveMsg' = eveMsg /\ disturbed \subseteq disturbed'
        /\ \A kind, r, p : Did(kind, r, p) => Did(kind, r, p)'
    BY <1>1 DEF Did
  <1>5. /\ Still(<<"PEFControl">>)' =>
              (seen'.enabled <=> seen.enabled) /\ (seen'.enabled <=> "enable" \in conf'.PEFControl)
        /\ Still(<<"ArmPEFPostponeTmr">>)' => (seen'.unpostponed <=> conf'.ArmPEFPostponeTmr \in {0, 255})
    <2>1. seen.enabled \in BOOLEAN /\ seen.unpostponed \in BOOLEAN
      BY <1>2 DEF Seen
    <2>2. ASSUME Still(<<"PEFControl">>)'
          PROVE  (seen'.enabled <=> seen.enabled) /\ (seen'.enabled <=> "enable" \in conf'.PEFControl)
      <3>1. Still(<<"PEFControl">>) /\ c.PEFControl = conf.PEFControl
        BY <1>1, <2>2 DEF Still, Only
      <3>2. seen.enabled <=> "enable" \in c.PEFControl
        BY <3>1 DEF Steady
      <3>3. QED
        BY <1>1, <1>3, <2>1, <3>2
    <2>3. ASSUME Still(<<"ArmPEFPostponeTmr">>)'
          PROVE  seen'.unpostponed <=> conf'.ArmPEFPostponeTmr \in {0, 255}
      <3>1. Still(<<"ArmPEFPostponeTmr">>) /\ c.ArmPEFPostponeTmr = conf.ArmPEFPostponeTmr
        BY <1>1, <2>3 DEF Still, Only
      <3>2. seen.unpostponed <=> c.ArmPEFPostponeTmr \in {0, 255}
        BY <3>1 DEF Steady
      <3>3. QED
        BY <1>1, <1>3, <2>1, <3>2
    <2>4. QED
      BY <2>2, <2>3
  <1>6. StillGlobal' => seen'.gbl = seen.gbl /\ seen'.gbl = conf'.PEFActionGblControl
    BY <1>1, <1>3 DEF Steady, Still, StillGlobal, Only
  <1>7. Still(<<"hostOn">>)' => (seen'.hostOn <=> seen.hostOn) /\ (seen'.hostOn <=> conf'.hostOn)
    <2>1. seen.hostOn \in BOOLEAN /\ c.hostOn \in BOOLEAN
      BY <1>2 DEF Seen, Configuration
    <2>2. QED
      BY <1>1, <1>3, <2>1 DEF Steady, Still, Only
  <1>8. ASSUME NEW re \in seen'.rows, Still(<<"row", re[1]>>)'
        PROVE  re \in seen.rows /\ re[2] = conf'.EventFilterTable[re[1]]
    <2>1. re[1] \in Rows
      BY <1>1, <1>2, <1>3 DEF See, Seen
    <2>2. c.EventFilterTable[re[1]] = conf.EventFilterTable[re[1]] /\ Still(<<"row", re[1]>>)
      BY <1>1, <1>8, <2>1 DEF Only, Still
    <2>3. re \in seen.rows
      <3>1. CASE re \in See(c).rows
        <4>1. re = <<re[1], c.EventFilterTable[re[1]]>>
          BY <3>1 DEF See
        <4>2. <<re[1], conf.EventFilterTable[re[1]]>> \in seen.rows
          BY <2>1 DEF IInv, Current, See
        <4>3. QED
          BY <2>2, <4>1, <4>2
      <3>2. QED
        BY <1>3, <3>1
    <2>4. QED
      BY <1>1, <2>2, <2>3 DEF Steady
  <1>9. ASSUME NEW pq \in seen'.policies, Still(<<"policy", pq[1]>>)'
        PROVE  pq \in seen.policies /\ pq[2] = conf'.AlertPolicyTable[pq[1]]
    <2>1. pq[1] \in Policies
      BY <1>1, <1>2, <1>3 DEF See, Seen
    <2>2. c.AlertPolicyTable[pq[1]] = conf.AlertPolicyTable[pq[1]] /\ Still(<<"policy", pq[1]>>)
      BY <1>1, <1>9, <2>1 DEF Only, Still
    <2>3. pq \in seen.policies
      <3>1. CASE pq \in See(c).policies
        <4>1. pq = <<pq[1], c.AlertPolicyTable[pq[1]]>>
          BY <3>1 DEF See
        <4>2. <<pq[1], conf.AlertPolicyTable[pq[1]]>> \in seen.policies
          BY <2>1 DEF IInv, Current, See
        <4>3. QED
          BY <2>2, <4>1, <4>2
      <3>2. QED
        BY <1>3, <3>1
    <2>4. QED
      BY <1>1, <2>2, <2>3 DEF Steady
  <1>10. ASSUME NEW nl \in seen'.lans, Still(<<"lan", nl[1]>>)'
        PROVE  nl \in seen.lans /\ nl[2] = conf'.LanParam[nl[1]]
    <2>1. nl[1] \in Channel
      BY <1>1, <1>2, <1>3 DEF See, Seen
    <2>2. c.LanParam[nl[1]] = conf.LanParam[nl[1]] /\ Still(<<"lan", nl[1]>>)
      BY <1>1, <1>10, <2>1 DEF Only, Still
    <2>3. nl \in seen.lans
      <3>1. CASE nl \in See(c).lans
        <4>1. nl = <<nl[1], c.LanParam[nl[1]]>>
          BY <3>1 DEF See
        <4>2. <<nl[1], conf.LanParam[nl[1]]>> \in seen.lans
          BY <2>1 DEF Steady
        <4>3. QED
          BY <2>2, <4>1, <4>2
      <3>2. QED
        BY <1>3, <3>1
    <2>4. QED
      BY <1>1, <2>2, <2>3 DEF Steady
  <1>11. \A n \in Channel : <<n, conf'.LanParam[n]>> \in seen'.lans
    BY <1>1, <1>3 DEF See
  <1>12. QED
    BY <1>1, <1>4, <1>5, <1>6, <1>7, <1>8, <1>9, <1>10, <1>11 DEF Advances, Steady

LEMMA StepAdvances ==
    ASSUME IInv, Steady, pc # "idle", UNCHANGED <<conf, eveMsg>>, disturbed \subseteq disturbed',
           \A kind, r, p : Did(kind, r, p) => Did(kind, r, p)',
           seen' = seen \/ seen' = [seen EXCEPT !.hostOn = conf.hostOn]
    PROVE  Advances /\ Steady'
  <1>1. seen \in Seen
    BY DEF IInv, TypeOK
  <1>2. /\ seen'.enabled = seen.enabled /\ seen'.unpostponed = seen.unpostponed
        /\ seen'.gbl = seen.gbl /\ seen'.rows = seen.rows
        /\ seen'.policies = seen.policies /\ seen'.lans = seen.lans
        /\ seen'.hostOn = seen.hostOn \/ seen'.hostOn = conf.hostOn
    BY <1>1 DEF Seen
  <1>3. \A what : Still(what)' => Still(what)
    BY DEF Still
  <1>4. Still(<<"hostOn">>)' => (seen'.hostOn <=> seen.hostOn) /\ (seen'.hostOn <=> conf.hostOn)
    BY <1>2, <1>3 DEF Steady
  <1>5. Advances
    BY <1>2, <1>4 DEF Advances
  <1>6. Steady'
    BY <1>2, <1>3, <1>4 DEF Steady, StillGlobal
  <1>7. QED
    BY <1>5, <1>6

\* An act is done when it is added, and those before it stay done.
LEMMA ActsDone ==
    ASSUME IInv, NEW t \in Seq(Act), acts' = acts \o t
    PROVE  /\ \A kind, r, p : Did(kind, r, p) => Did(kind, r, p)'
           /\ \A j \in DOMAIN t : \E i \in DOMAIN acts' : acts'[i] = t[j]
  <1>1. acts \in Seq(Act)
    BY DEF IInv, TypeOK
  <1>2. \A i \in DOMAIN acts : i \in DOMAIN acts' /\ acts'[i] = acts[i]
    BY <1>1
  <1>3. ASSUME NEW j \in DOMAIN t
        PROVE  Len(acts) + j \in DOMAIN acts' /\ acts'[Len(acts) + j] = t[j]
    <2>1. /\ Len(acts) \in Nat /\ Len(t) \in Nat /\ Len(acts \o t) = Len(acts) + Len(t)
          /\ j \in 1..Len(t)
      BY <1>1
    <2>2. QED
      BY <1>1, <2>1
  <1>4. QED
    BY <1>2, <1>3 DEF Did

LEMMA LastIsThere ==
    ASSUME NEW log \in Seq(Act), NEW x \in Act
    PROVE  log \o <<x>> \in Seq(Act) /\ \E j \in DOMAIN (log \o <<x>>) : (log \o <<x>>)[j] = x
  <1>1. <<x>> \in Seq(Act) /\ Len(<<x>>) = 1 /\ <<x>>[1] = x
    OBVIOUS
  <1>2. /\ Len(log) \in Nat /\ Len(log \o <<x>>) = Len(log) + 1
        /\ (log \o <<x>>)[Len(log) + 1] = x
    BY <1>1
  <1>3. log \o <<x>> \in Seq(Act)
    BY <1>1
  <1>4. Len(log) + 1 \in DOMAIN (log \o <<x>>)
    BY <1>2, <1>3
  <1>5. QED
    BY <1>2, <1>3, <1>4

LEMMA ActDone ==
    ASSUME IInv, pc \in Acting, NEW kind \in ActKind \ {"sel"}, NEW p \in {0} \cup Policies,
           NEW status \in {"ok", "failed", "lost"}, NEW log \in {<<>>, SELLog(p)},
           acts' = acts \o (log \o <<Do(kind, p, status)>>)
    PROVE  /\ \A k, r, q : Did(k, r, q) => Did(k, r, q)'
           /\ \A r : r = row => Did(kind, r, p)'
  <1> DEFINE act == Do(kind, p, status)
             record == Do("sel", p, "ok")
             t == log \o <<act>>
  <1>1. row \in Rows
    BY DEF IInv, Placed, TypeOK
  <1>2. record \in Act /\ act \in Act /\ act.kind = kind /\ act.row = row /\ act.policy = p
    BY <1>1 DEF Do, Act, ActKind
  <1>3. log = <<>> \/ log = <<record>>
    BY DEF SELLog
  <1>4. acts' = acts \o t
    OBVIOUS
  <1> HIDE DEF act, record
  <1>5. log \in Seq(Act)
    <2>1. <<>> \in Seq(Act) /\ <<record>> \in Seq(Act)
      BY <1>2, OneElement
    <2>2. QED
      BY <1>3, <2>1
  <1>6. t \in Seq(Act) /\ \E j \in DOMAIN t : t[j] = act
    BY <1>2, <1>5, LastIsThere
  <1> HIDE DEF t
  <1>7. /\ \A k, r, q : Did(k, r, q) => Did(k, r, q)'
        /\ \E i \in DOMAIN acts' : acts'[i] = act
    BY <1>4, <1>6, ActsDone
  <1>8. ASSUME NEW r, r = row
        PROVE  Did(kind, r, p)'
    <2>1. PICK i \in DOMAIN acts' : acts'[i] = act
      BY <1>7
    <2>2. acts'[i].kind = kind /\ acts'[i].row = r /\ acts'[i].policy = p
      BY <1>2, <1>8, <2>1
    <2>3. QED
      BY <2>2 DEF Did
  <1>9. QED
    BY <1>7, <1>8

LEMMA HandlerAdvances ==
    ASSUME IInv, Steady, Handler, ~Dispatch
    PROVE  Advances /\ Steady'
  <1>1. pc # "idle"
    BY HandlerKeepsItsCall DEF IInv
  <1>2. CASE acts' = acts /\ seen' = seen
    <2>1. UNCHANGED <<conf, eveMsg>> /\ disturbed \subseteq disturbed'
      BY <1>2 DEF Handler, ReadPEFControl, ReadPostponeTmr, CountLists, ReadList, GetEthMap,
            GetPefConfInfo, PowerAction, GetPowerStatus, Reboot, CheckAlert, ReadPolicyList,
            ResolveDestination, SendSmtpAlert, SetLastBMCProcessedEventID, SendSNMPAlert,
            Disturb, conn, scan, history
    <2>2. QED
      BY <1>1, <1>2, <2>1, StepAdvances DEF Did
  <1>3. CASE PowerAction
    <2>1. /\ UNCHANGED <<conf, eveMsg, disturbed>> /\ pc \in Acting
          /\ seen' = seen \/ seen' = [seen EXCEPT !.hostOn = conf.hostOn]
      BY <1>3 DEF PowerAction, conn, scan, Acting
    <2>2. \A kind, r, p : Did(kind, r, p) => Did(kind, r, p)'
      <3>1. CASE Transition("powerOff", SELLog(0))
        <4>1. PICK status \in {"ok", "failed"} :
                  acts' = acts \o (SELLog(0) \o <<Do("powerOff", 0, status)>>)
          BY <3>1 DEF Transition
        <4>2. QED
          BY <2>1, <4>1, ActDone DEF ActKind
      <3>2. CASE acts' = acts \o SELLog(0)
        <4>1. row \in Rows
          BY <2>1 DEF IInv, Placed, TypeOK
        <4>2. Do("sel", 0, "ok") \in Act
          BY <4>1 DEF Do, Act, ActKind
        <4>3. SELLog(0) \in Seq(Act)
          BY <4>2 DEF SELLog
        <4>4. QED
          BY <3>2, <4>3, ActsDone
      <3>3. CASE acts' = acts
        BY <3>3 DEF Did
      <3>4. QED
        BY <1>3, <3>1, <3>2, <3>3 DEF PowerAction
    <2>3. QED
      BY <1>1, <2>1, <2>2, StepAdvances
  <1>4. CASE Reboot
    <2>1. UNCHANGED <<conf, eveMsg, disturbed, seen>> /\ pc \in Acting
      BY <1>4 DEF Reboot, conn, scan, Acting
    <2>2. PICK status \in {"ok", "failed"} : acts' = acts \o (<<>> \o <<Do("reboot", 0, status)>>)
      BY <1>4 DEF Reboot, Transition
    <2>3. \A kind, r, p : Did(kind, r, p) => Did(kind, r, p)'
      BY <2>1, <2>2, ActDone DEF ActKind
    <2>4. QED
      BY <1>1, <2>1, <2>3, StepAdvances
  <1>5. CASE SendSmtpAlert \/ SendSNMPAlert
    <2>1. UNCHANGED <<conf, eveMsg, disturbed, seen>> /\ pc \in Acting /\ pc \in Alerting
      BY <1>5 DEF SendSmtpAlert, SendSNMPAlert, conn, scan, Acting, Alerting
    <2>2. PICK kind \in {"smtp", "snmp"}, status \in {"ok", "failed", "lost"} : Alerted(kind, status)
      BY <1>5 DEF SendSmtpAlert, SendSNMPAlert
    <2>3. policy \in Policies
      BY <2>1 DEF IInv, Placed, TypeOK
    <2>4. \A k, r, p : Did(k, r, p) => Did(k, r, p)'
      BY <2>1, <2>2, <2>3, ActDone DEF ActKind, Alerted
    <2>5. QED
      BY <1>1, <2>1, <2>4, StepAdvances
  <1>6. QED
    <2>1. (acts' = acts /\ seen' = seen) \/ PowerAction \/ Reboot \/ SendSmtpAlert \/ SendSNMPAlert
      BY DEF Handler, ReadPEFControl, ReadPostponeTmr, CountLists, ReadList, GetEthMap,
            GetPefConfInfo, GetPowerStatus, CheckAlert, ReadPolicyList,
            ResolveDestination, SetLastBMCProcessedEventID, history
    <2>2. QED
      BY <2>1, <1>2, <1>3, <1>4, <1>5

--------------------------------------------------------------------------------
(***************************************************************************)
(* What is taken down or done stays so.                                    *)
(***************************************************************************)
LEMMA DoneStays ==
    ASSUME Advances, NEW r, matched'[r] = matched[r]
    PROVE  /\ PowerDone(r) => PowerDone(r)'
           /\ \A p, q : PolicyDone(r, p, q) => PolicyDone(r, p, q)'
           /\ RowDone(r) => RowDone(r)'
  <1> DEFINE e == matched[r]
  <1>1. \A what : Undisturbed(what)' => Undisturbed(what)
    BY DEF Advances, Undisturbed
  <1>2. StillGlobal' => StillGlobal /\ seen'.gbl = seen.gbl
    BY DEF Advances, StillGlobal, Still
  <1>3. PowerDone(r) => PowerDone(r)'
    <2> SUFFICES ASSUME PowerDone(r), StillGlobal' PROVE PowerActedOn(r, e)'
      BY DEF PowerDone
    <2>1. PowerActedOn(r, e) /\ e' = e /\ seen'.gbl = seen.gbl
      BY <1>2 DEF PowerDone
    <2>2. Undisturbed({<<"hostOn">>})' => (seen'.hostOn <=> seen.hostOn)
      BY DEF Undisturbed, Still, Advances
    <2> HIDE DEF e
    <2>3. QED
      BY <1>1, <2>1, <2>2 DEF PowerActedOn, Advances
  <1>4. ASSUME NEW p, NEW q, PolicyDone(r, p, q)
        PROVE  PolicyDone(r, p, q)'
    <2> SUFFICES ASSUME StillGlobal', NEW nl \in seen'.lans, nl[1] = q.ChannelNo
                 PROVE  AlertActedOn(r, e, p, q, nl[2])'
      BY DEF PolicyDone
    <2>1. e' = e /\ seen'.gbl = seen.gbl /\ StillGlobal
      BY <1>2
    <2>2. CASE nl \in seen.lans
      <3>1. AlertActedOn(r, e, p, q, nl[2])
        BY <1>4, <2>1, <2>2 DEF PolicyDone
      <3> HIDE DEF e
      <3>2. QED
        BY <1>1, <2>1, <3>1 DEF AlertActedOn, Advances
    <2>3. CASE ~Still(<<"lan", nl[1]>>)'
      <3> HIDE DEF e
      <3>1. QED
        BY <2>3 DEF AlertActedOn, Undisturbed, Still
    <2>4. QED
      BY <2>2, <2>3 DEF Advances
  <1>5. RowDone(r) => RowDone(r)'
    <2> SUFFICES ASSUME RowDone(r), NEW pq \in seen'.policies
                 PROVE  PolicyDone(r, pq[1], pq[2])'
      BY <1>3 DEF RowDone
    <2>1. CASE pq \in seen.policies
      BY <1>4, <2>1 DEF RowDone
    <2>2. CASE ~Still(<<"policy", pq[1]>>)'
      BY <2>2 DEF PolicyDone, AlertActedOn, Undisturbed, Still
    <2>3. QED
      BY <2>1, <2>2 DEF Advances
  <1>6. QED
    BY <1>3, <1>4, <1>5

LEMMA ScannedStays ==
    ASSUME Advances, NEW r, r \in DOMAIN matched => r \in DOMAIN matched' /\ matched'[r] = matched[r],
           Scanned(r)
    PROVE  Scanned(r)'
  <1>1. \A what : Undisturbed(what)' => Undisturbed(what)
    BY DEF Advances, Undisturbed
  <1> SUFFICES ASSUME NEW re \in seen'.rows, re[1] = r, EntryMatches(re[2], eveMsg'),
                      Undisturbed({<<"row", r>>, <<"list", ListOf(r)>>})'
               PROVE  r \in DOMAIN matched' /\ matched'[r] = re[2]
    BY DEF Scanned
  <1>2. re \in seen.rows
    BY DEF Advances, Undisturbed, Still
  <1>3. QED
    BY <1>1, <1>2 DEF Scanned, Advances

LEMMA SelectedStays ==
    ASSUME Advances, NEW p, UNCHANGED <<matched, row>>,
           p \in DOMAIN selected => p \in DOMAIN selected' /\ selected'[p] = selected[p],
           Selected(p)
    PROVE  Selected(p)'
  <1>1. \A what : Undisturbed(what)' => Undisturbed(what)
    BY DEF Advances, Undisturbed
  <1> SUFFICES ASSUME NEW pq \in seen'.policies, pq[1] = p, InGroup(pq[2], matched[row]),
                      Undisturbed({<<"policy", p>>, <<"policyList", PolicyListOf(p)>>})'
               PROVE  p \in DOMAIN selected' /\ selected'[p] = pq[2]
    BY DEF Selected
  <1>2. pq \in seen.policies
    BY DEF Advances, Undisturbed, Still
  <1>3. QED
    BY <1>1, <1>2 DEF Selected

--------------------------------------------------------------------------------
\* Every row is in one of the lists that are read.
LEMMA InOneOfTheLists ==
    ASSUME NEW n \in Nat \ {0}, NEW b \in Nat \ {0}, NEW x \in 1..(n * b)
    PROVE  (x - 1) \div b + 1 \in 1..n
  <1> DEFINE q == (x - 1) \div b
  <1>1. x - 1 \in Nat /\ x - 1 < n * b
    OBVIOUS
  <1>2. q \in Nat /\ q * b <= x - 1
    BY <1>1
  <1> HIDE DEF q
  <1>3. q < n
    <2> SUFFICES ASSUME q >= n PROVE FALSE
      BY <1>2
    <2>1. q = n + (q - n) /\ q - n \in Nat
      BY <1>2
    <2>2. \A k \in Nat : (n + k) * b = n * b + k * b /\ k * b >= 0
      OBVIOUS
    <2>3. q * b >= n * b
      <3>1. n * b \in Int /\ (q - n) * b \in Int
        BY <2>1
      <3>2. QED
        BY <2>1, <2>2, <3>1
    <2>4. QED
      BY <1>1, <1>2, <2>3
  <1>4. QED
    BY <1>2, <1>3 DEF q

LEMMA ListsCoverTheTables ==
    /\ \A r \in Rows : ListOf(r) \in 1..NLists
    /\ \A p \in Policies : PolicyListOf(p) \in 1..NPolicyLists
  BY InOneOfTheLists, TaskAssumption DEF Rows, ListOf, Policies, PolicyListOf

--------------------------------------------------------------------------------
(***************************************************************************)
(* Steps outside the handler.                                              *)
(***************************************************************************)
LEMMA WriteKeepsDone ==
    ASSUME DInv, Advances, Steady', pc # "idle", UNCHANGED <<pc, scan, walk>>
    PROVE  DInv'
  <1>1. UNCHANGED <<pefCtl, matched, ethMap, info, list, row, selected, policy>>
    BY DEF scan, walk
  <1>2. \A what : Still(what)' => Still(what)
    BY DEF Advances, Still
  <1>3. Informed'
    BY <1>1, <1>2 DEF DInv, Informed, Advances, StillGlobal
  <1>4. TakenDown'
    <2>1. \A r : Scanned(r) => Scanned(r)'
      BY <1>1, ScannedStays
    <2>2. \A p : Selected(p) => Selected(p)'
      BY <1>1, SelectedStays
    <2>3. QED
      BY <1>1, <2>1, <2>2 DEF DInv, TakenDown
  <1>5. Behind'
    <2>1. \A r : (RowDone(r) => RowDone(r)') /\ (PowerDone(r) => PowerDone(r)')
      BY <1>1, DoneStays
    <2>2. \A r, p, q : PolicyDone(r, p, q) => PolicyDone(r, p, q)'
      BY <1>1, DoneStays
    <2>3. pc \in Acting => \A r \in DOMAIN matched : r < row => RowDone(r)'
      BY <2>1 DEF DInv, Behind
    <2>4. pc \in {"alert", "policies"} \cup Alerting => \A r : r = row => PowerDone(r)'
      BY <2>1 DEF DInv, Behind
    <2>5. pc \in Alerting => \A r, p, q :
             /\ r = row /\ p \in DOMAIN selected /\ q = selected[p]
             /\ p < policy \/ (p = policy /\ pc = "record")
             => PolicyDone(r, p, q)'
      BY <2>2 DEF DInv, Behind
    <2>6. pc \in {"powerState", "reboot"} /\ StillGlobal' =>
             "powerOff" \notin matched[row].EvtFilterAction \cap seen'.gbl
      BY <1>2 DEF DInv, Behind, Advances, StillGlobal
    <2>7. pc \in {"smtp", "snmp"} => Chosen'
      <3> SUFFICES ASSUME pc \in {"smtp", "snmp"}, Chosen PROVE Chosen'
        BY DEF DInv, Behind
      <3>1. QED
        BY <1>1, <1>2 DEF Chosen, Advances, Still
    <2>8. QED
      BY <1>1, <2>3, <2>4, <2>5, <2>6, <2>7 DEF Behind
  <1>6. QED
    BY <1>1, <1>3, <1>4, <1>5 DEF DInv, UndisturbedRowsActedOn

\* Between two calls, and for a call that is killed, there is nothing to keep.
LEMMA IdleKeepsDone ==
    ASSUME DInv, pc' = "idle",
           \/ pc = "idle" /\ UNCHANGED <<eveMsg, acts, seen, disturbed, outcome>>
           \/ outcome' \notin {"dropped", "done"}
    PROVE  DInv'
  <1>1. Steady' /\ Informed' /\ TakenDown' /\ Behind'
    BY DEF Steady, Informed, TakenDown, Behind, Acting, Alerting
  <1>2. UndisturbedRowsActedOn'
    <2>1. CASE outcome' \notin {"dropped", "done"}
      BY <2>1 DEF UndisturbedRowsActedOn
    <2>2. CASE pc = "idle" /\ UNCHANGED <<eveMsg, acts, seen, disturbed, outcome>>
      BY <2>2 DEF DInv, UndisturbedRowsActedOn, PowerActedOn, AlertActedOn, Did, Undisturbed
    <2>3. QED
      BY <2>1, <2>2
  <1>3. QED
    BY <1>1, <1>2 DEF DInv

LEMMA OutsideKeepsDone ==
    ASSUME IInv, DInv, Outside
    PROVE  DInv'
  <1>1. CASE Call
    <2>1. UNCHANGED <<conf, eveMsg, acts, seen, disturbed, outcome, pc, scan, walk>>
      BY <1>1 DEF Call, conn, scan, history, return
    <2>2. CASE pc = "idle"
      BY <2>1, <2>2, IdleKeepsDone
    <2>3. CASE pc # "idle"
      <3>1. Advances /\ Steady'
        BY <2>1, <2>3, StepAdvances DEF DInv, Did
      <3>2. QED
        BY <2>1, <2>3, <3>1, WriteKeepsDone
    <2>4. QED
      BY <2>2, <2>3
  <1>2. CASE setRetryEnable
    BY <1>2, IdleKeepsDone DEF setRetryEnable, scan, history, return
  <1>3. CASE Restart
    BY <1>3, IdleKeepsDone DEF Restart, scan, history
  <1>4. CASE Writes
    <2>0. PICK c \in Configuration : \E what : Write(c, what) /\ Only(c, what)
      BY <1>4 DEF Writes
    <2>1. PICK what : Write(c, what) /\ Only(c, what)
      BY <2>0
    <2>2. UNCHANGED <<pc, scan, walk, acts, return>>
      BY <2>1 DEF Write
    <2>3. CASE pc = "idle"
      <3>1. UNCHANGED <<seen, disturbed>>
        BY <2>1, <2>3 DEF Write
      <3>2. QED
        BY <2>2, <2>3, <3>1, IdleKeepsDone DEF scan, return
    <2>4. CASE pc # "idle"
      <3>1. Advances /\ Steady'
        BY <2>1, <2>4, WriteAdvances DEF DInv
      <3>2. QED
        BY <2>2, <2>4, <3>1, WriteKeepsDone
    <2>5. QED
      BY <2>3, <2>4
  <1>5. QED
    BY <1>1, <1>2, <1>3, <1>4, OutsideWrites DEF IInv

--------------------------------------------------------------------------------
(***************************************************************************)
(* Steps of the handler up to the first action.                            *)
(***************************************************************************)
LEMMA ReturnKeepsDone ==
    ASSUME pc' = "idle", UndisturbedRowsActedOn'
    PROVE  DInv'
  BY DEF DInv, Steady, Informed, TakenDown, Behind, Acting, Alerting

\* Up to the lists there is little to know.
LEMMA DecidingKeepsDone ==
    ASSUME IInv, DInv, Dispatch \/ ReadPEFControl \/ ReadPostponeTmr \/ CountLists
    PROVE  DInv'
  <1>0. seen \in Seen /\ seen.enabled \in BOOLEAN /\ seen.unpostponed \in BOOLEAN
    BY DEF IInv, TypeOK, Seen
  <1>1. CASE Dispatch
    <2>1. pc' = "control" /\ list' = 1 /\ seen' = See(conf) /\ UNCHANGED conf
      BY <1>1 DEF Dispatch, conn
    <2>2. Steady'
      <3>1. /\ seen'.enabled <=> "enable" \in conf'.PEFControl
            /\ seen'.unpostponed <=> conf'.ArmPEFPostponeTmr \in {0, 255}
            /\ seen'.gbl = conf'.PEFActionGblControl /\ seen'.hostOn = conf'.hostOn
        BY <2>1 DEF See
      <3>2. /\ \A re \in seen'.rows : re[2] = conf'.EventFilterTable[re[1]]
            /\ \A pq \in seen'.policies : pq[2] = conf'.AlertPolicyTable[pq[1]]
            /\ \A nl \in seen'.lans : nl[2] = conf'.LanParam[nl[1]]
            /\ \A n \in Channel : <<n, conf'.LanParam[n]>> \in seen'.lans
        BY <2>1 DEF See
      <3>3. QED
        BY <3>1, <3>2 DEF Steady
    <2>3. QED
      BY <2>1, <2>2 DEF DInv, Informed, TakenDown, Behind, Acting, Alerting, UndisturbedRowsActedOn
  <1>2. CASE ReadPEFControl
    <2>1. Advances /\ Steady' /\ pc = "control" /\ UNCHANGED <<conf, seen, list>>
      BY <1>2, HandlerAdvances DEF Handler, ReadPEFControl, Dispatch, DInv, conn, walk
    <2>2. CASE pefCtl' = conf.PEFControl /\ pc' = "timer"
      <3>1. Informed'
        BY <2>1, <2>2 DEF DInv, Informed, Steady, Acting, Alerting
      <3>2. QED
        BY <2>1, <2>2, <3>1 DEF DInv, TakenDown, Behind, Acting, Alerting, UndisturbedRowsActedOn
    <2>3. CASE pc' = "idle" /\ <<"PEFControl">> \in disturbed'
      BY <2>3, ReturnKeepsDone DEF UndisturbedRowsActedOn, Undisturbed
    <2>4. QED
      BY <1>2, <2>2, <2>3 DEF ReadPEFControl, Goto, Return, Disturb
  <1>3. CASE ReadPostponeTmr
    <2>1. Advances /\ Steady' /\ pc = "timer" /\ UNCHANGED <<conf, seen, list, pefCtl>>
      BY <1>3, HandlerAdvances DEF Handler, ReadPostponeTmr, Dispatch, DInv, conn, walk, scan
    <2>2. CASE pc' = "count"
      <3>1. Informed'
        BY <2>1, <2>2 DEF DInv, Informed, Acting, Alerting
      <3>2. QED
        BY <2>1, <2>2, <3>1 DEF DInv, TakenDown, Behind, Acting, Alerting, UndisturbedRowsActedOn
    <2>3. CASE pc' = "idle" /\ <<"ArmPEFPostponeTmr">> \in disturbed'
      BY <2>3, ReturnKeepsDone DEF UndisturbedRowsActedOn, Undisturbed
    <2>4. CASE /\ pc' = "idle" /\ UNCHANGED disturbed
               /\ conf.ArmPEFPostponeTmr \notin {0, 255} \/ "enable" \notin pefCtl
      <3>1. Still(<<"ArmPEFPostponeTmr">>) => (seen.unpostponed <=> conf.ArmPEFPostponeTmr \in {0, 255})
        BY <2>1 DEF DInv, Steady
      <3>2. Still(<<"PEFControl">>) => ("enable" \in pefCtl <=> seen.enabled)
        BY <2>1 DEF DInv, Informed
      <3>3. UndisturbedRowsActedOn'
        BY <1>0, <2>1, <2>4, <3>1, <3>2 DEF UndisturbedRowsActedOn, Undisturbed, Still
      <3>4. QED
        BY <2>4, <3>3, ReturnKeepsDone
    <2>5. QED
      BY <1>3, <2>2, <2>3, <2>4 DEF ReadPostponeTmr, Goto, Return, Disturb
  <1>4. CASE CountLists
    <2>1. Advances /\ Steady' /\ pc = "count" /\ UNCHANGED list
      BY <1>4, HandlerAdvances DEF Handler, CountLists, Dispatch, DInv, walk
    <2>2. CASE pc' = "lists"
      <3>1. list' = 1
        BY <2>1 DEF DInv, Informed
      <3>2. TakenDown'
        BY <2>2, <3>1, ListsCoverTheTables DEF TakenDown, Acting, Alerting
      <3>3. QED
        BY <2>1, <2>2, <3>2 DEF DInv, Informed, Behind, Acting, Alerting, UndisturbedRowsActedOn
    <2>3. CASE pc' = "idle" /\ <<"count">> \in disturbed'
      BY <2>3, ReturnKeepsDone DEF UndisturbedRowsActedOn, Undisturbed
    <2>4. QED
      BY <1>4, <2>2, <2>3 DEF CountLists, Goto, Return, Disturb
  <1>5. QED
    BY <1>1, <1>2, <1>3, <1>4

\* A list that is read is taken down; one that is not has disturbed the call.
LEMMA ListTakenDown ==
    ASSUME IInv, DInv, ReadList, Advances, Steady'
    PROVE  \A r \in Rows : ListOf(r) < list' => Scanned(r)'
  <1> DEFINE hits == {r \in Rows : ListOf(r) = list /\ EntryMatches(conf.EventFilterTable[r], eveMsg)}
  <1>1. /\ list \in Nat /\ list' = list + 1 /\ UNCHANGED <<conf, seen, eveMsg>>
        /\ \/ matched' = Merge(matched, hits, conf.EventFilterTable) /\ UNCHANGED disturbed
           \/ UNCHANGED matched /\ <<"list", list>> \in disturbed'
    BY DEF ReadList, IInv, TypeOK, Disturb, conn
  <1>2. ASSUME NEW r \in Rows, ListOf(r) < list
        PROVE  Scanned(r)'
    <2>1. Scanned(r)
      BY <1>2 DEF ReadList, DInv, TakenDown
    <2>2. r \in DOMAIN matched => r \in DOMAIN matched' /\ matched'[r] = matched[r]
      <3>1. r \notin hits
        BY <1>1, <1>2, ListsCoverTheTables
      <3> HIDE DEF hits
      <3>2. QED
        BY <1>1, <3>1 DEF Merge
    <2>3. QED
      BY <2>1, <2>2, ScannedStays
  <1>3. ASSUME NEW r \in Rows, ListOf(r) = list
        PROVE  Scanned(r)'
    <2> SUFFICES ASSUME NEW re \in seen'.rows, re[1] = r, EntryMatches(re[2], eveMsg'),
                        Undisturbed({<<"row", r>>, <<"list", ListOf(r)>>})'
                 PROVE  r \in DOMAIN matched' /\ matched'[r] = re[2]
      BY DEF Scanned
    <2>1. <<"row", r>> \notin disturbed' /\ <<"list", list>> \notin disturbed'
      BY <1>3 DEF Undisturbed
    <2>2. matched' = Merge(matched, hits, conf.EventFilterTable)
      BY <1>1, <2>1
    <2>3. re[2] = conf.EventFilterTable[r]
      BY <1>1, <2>1 DEF Advances, ReadList, DInv, Steady, Still
    <2>4. r \in hits
      BY <1>1, <1>3, <2>3
    <2> HIDE DEF hits
    <2>5. QED
      BY <2>2, <2>3, <2>4 DEF Merge
  <1>4. QED
    BY <1>1, <1>2, <1>3, ListsCoverTheTables

LEMMA ReadingKeepsDone ==
    ASSUME IInv, DInv, ReadList \/ GetEthMap \/ GetPefConfInfo
    PROVE  DInv'
  <1>1. Advances /\ Steady'
    BY HandlerAdvances DEF Handler, ReadList, GetEthMap, GetPefConfInfo, Dispatch, DInv
  <1>2. \A what : Still(what)' => Still(what)
    BY <1>1 DEF Advances, Still
  <1>3. CASE ReadList
    <2>1. \A r \in Rows : ListOf(r) < list' => Scanned(r)'
      BY <1>1, <1>3, ListTakenDown
    <2>2. list = NLists => \A r \in Rows : Scanned(r)'
      BY <1>3, <2>1, ListsCoverTheTables, TaskAssumption DEF ReadList
    <2>3. CASE pc' = "lists"
      <3>1. TakenDown'
        BY <2>1, <2>3 DEF TakenDown, Acting, Alerting
      <3>2. QED
        BY <1>1, <2>3, <3>1 DEF DInv, Informed, Behind, Acting, Alerting, UndisturbedRowsActedOn
    <2>4. CASE pc' = "ethMap" /\ list = NLists
      <3>1. TakenDown'
        BY <2>2, <2>4 DEF TakenDown, Acting, Alerting
      <3>2. QED
        BY <1>1, <2>4, <3>1 DEF DInv, Informed, Behind, Acting, Alerting, UndisturbedRowsActedOn
    <2>5. CASE pc' = "idle" /\ list = NLists /\ DOMAIN matched' = {}
      <3>1. \A re \in seen'.rows : re[1] \in Rows
        <4>1. seen' \in Seen
          BY <1>3 DEF ReadList, IInv, TypeOK
        <4>2. QED
          BY <4>1 DEF Seen
      <3>2. \A re \in seen'.rows :
               ~(EntryMatches(re[2], eveMsg') /\ Undisturbed({<<"row", re[1]>>, <<"list", ListOf(re[1])>>})')
        BY <2>2, <2>5, <3>1 DEF Scanned
      <3>3. UndisturbedRowsActedOn'
        BY <3>2 DEF UndisturbedRowsActedOn
      <3>4. QED
        BY <2>5, <3>3, ReturnKeepsDone
    <2>6. QED
      BY <1>3, <2>3, <2>4, <2>5 DEF ReadList, Goto, Return
  <1>4. CASE GetEthMap
    <2>1. pc = "ethMap" /\ pc' = "confInfo" /\ UNCHANGED matched
          /\ (ethMap' = EthChannel \/ <<"ethMap">> \in disturbed')
      BY <1>4 DEF GetEthMap, Goto, Disturb
    <2>2. TakenDown'
      BY <1>1, <2>1, ScannedStays DEF DInv, TakenDown, Acting, Alerting
    <2>3. Informed'
      BY <2>1 DEF Informed, Still, Acting, Alerting
    <2>4. QED
      BY <1>1, <2>1, <2>2, <2>3 DEF DInv, Behind, Acting, Alerting, UndisturbedRowsActedOn
  <1>5. CASE GetPefConfInfo
    <2>1. pc = "confInfo" /\ UNCHANGED <<conf, seen, matched, ethMap>>
      BY <1>5 DEF GetPefConfInfo, conn
    <2>2. CASE pc' = "idle" /\ <<"confInfo">> \in disturbed'
      BY <2>2, ReturnKeepsDone DEF UndisturbedRowsActedOn, Undisturbed
    <2>3. CASE /\ pc' = "power" /\ info'.PEFActionGblControl = conf.PEFActionGblControl
               /\ row' \in DOMAIN matched /\ \A r \in DOMAIN matched : row' <= r
      <3>1. TakenDown'
        BY <1>1, <2>1, <2>3, ScannedStays DEF DInv, TakenDown, Acting, Alerting
      <3>2. Informed'
        BY <1>1, <1>2, <2>1, <2>3 DEF DInv, Informed, Steady, StillGlobal, Acting, Alerting
      <3>3. \A r \in DOMAIN matched : ~(r < row')
        <4>1. DOMAIN matched \subseteq Nat
          BY TablesAreNumbered DEF IInv, TypeOK
        <4>2. QED
          BY <2>3, <4>1
      <3>4. Behind'
        BY <2>1, <2>3, <3>3 DEF Behind, Alerting
      <3>5. QED
        BY <1>1, <2>3, <3>1, <3>2, <3>4 DEF DInv, UndisturbedRowsActedOn
    <2>4. QED
      BY <1>5, <2>2, <2>3 DEF GetPefConfInfo, Goto, Return, Disturb, First
  <1>6. QED
    BY <1>3, <1>4, <1>5

--------------------------------------------------------------------------------
(***************************************************************************)
(* The power action of a row.                                              *)
(***************************************************************************)
LEMMA ActingKeepsDone ==
    ASSUME IInv, DInv, Advances, pc \in Acting, pc' \in Acting, UNCHANGED <<matched, ethMap, info>>
    PROVE  /\ Informed'
           /\ \A r \in Rows : Scanned(r)'
           /\ \A r : RowDone(r) => RowDone(r)'
           /\ StillGlobal' => seen'.gbl = seen.gbl /\ info.PEFActionGblControl = seen.gbl
  <1>1. \A what : Still(what)' => Still(what)
    BY DEF Advances, Still
  <1>2. StillGlobal' => seen'.gbl = seen.gbl /\ info.PEFActionGblControl = seen.gbl
    BY <1>1 DEF DInv, Informed, Advances, StillGlobal
  <1>3. Informed'
    BY <1>1, <1>2 DEF DInv, Informed, Acting, Alerting
  <1>4. \A r \in Rows : Scanned(r)'
    BY ScannedStays DEF DInv, TakenDown
  <1>5. \A r : RowDone(r) => RowDone(r)'
    BY DoneStays
  <1>6. QED
    BY <1>2, <1>3, <1>4, <1>5

LEMMA PowerStepsDo ==
    ASSUME IInv, DInv, Advances, Steady', PowerAction \/ GetPowerStatus \/ Reboot,
           pc' # "idle", UNCHANGED <<matched, row, info>>,
           StillGlobal', info.PEFActionGblControl = seen.gbl, seen'.gbl = seen.gbl
    PROVE  /\ pc' \in {"alert", "powerState", "reboot"}
           /\ pc' \in {"powerState", "reboot"} =>
                 "powerOff" \notin matched[row].EvtFilterAction \cap seen.gbl
           /\ pc' = "alert" => \A r, e : r = row /\ e = matched[row] => PowerActedOn(r, e)'
  <1>0. StillGlobal
    BY DEF Advances, StillGlobal, Still
  <1>1. CASE PowerAction
    <2>1. pc = "power" /\ pc \in Acting
      BY <1>1 DEF PowerAction, Acting
    <2>2. CASE Permitted("powerOff") /\ Transition("powerOff", SELLog(0))
      <3>1. PICK status \in {"ok", "failed"} :
                acts' = acts \o (SELLog(0) \o <<Do("powerOff", 0, status)>>)
        BY <2>2 DEF Transition
      <3>2. \A r : r = row => Did("powerOff", r, 0)'
        BY <2>1, <3>1, ActDone DEF ActKind
      <3>3. "powerOff" \in matched[row].EvtFilterAction \cap seen'.gbl
        BY <2>2 DEF Permitted
      <3>4. pc' = "alert"
        BY <2>2 DEF Transition, Goto, Return
      <3>5. QED
        BY <3>2, <3>3, <3>4 DEF PowerActedOn
    <2>3. CASE ~Permitted("powerOff") /\ pc' = "powerState"
      BY <2>3 DEF Permitted
    <2>4. CASE ~Permitted("powerOff") /\ ~CycleOrReset /\ pc' = "alert"
      BY <2>4 DEF Permitted, CycleOrReset, PowerActedOn
    <2>5. QED
      BY <1>1, <2>2, <2>3, <2>4 DEF PowerAction, Goto
  <1>2. CASE GetPowerStatus
    <2>1. pc = "powerState" /\ UNCHANGED <<conf, seen>> /\ pc' \in {"reboot", "alert"}
      BY <1>2 DEF GetPowerStatus, Goto, conn
    <2>2. "powerOff" \notin matched[row].EvtFilterAction \cap seen.gbl
      BY <1>0, <2>1 DEF DInv, Behind
    <2>3. CASE pc' = "alert"
      <3>1. ~conf.hostOn \/ ~Still(<<"hostOn">>)'
        BY <1>2, <2>3 DEF GetPowerStatus, Goto, Disturb, Still
      <3>2. ~(seen'.hostOn /\ Undisturbed({<<"hostOn">>})')
        BY <2>1, <2>3, <3>1 DEF Steady, Undisturbed, Still
      <3>3. QED
        BY <2>1, <2>2, <2>3, <3>2 DEF PowerActedOn
    <2>4. QED
      BY <2>1, <2>2, <2>3
  <1>3. CASE Reboot
    <2>1. pc = "reboot" /\ pc \in Acting /\ pc' = "alert"
      BY <1>3 DEF Reboot, Transition, Goto, Return, Acting
    <2>2. "powerOff" \notin matched[row].EvtFilterAction \cap seen.gbl
      BY <1>0, <2>1 DEF DInv, Behind
    <2>3. PICK status \in {"ok", "failed"} : acts' = acts \o (<<>> \o <<Do("reboot", 0, status)>>)
      BY <1>3 DEF Reboot, Transition
    <2>4. \A r : r = row => Did("reboot", r, 0)'
      BY <2>1, <2>3, ActDone DEF ActKind
    <2>5. QED
      BY <2>1, <2>2, <2>4 DEF PowerActedOn
  <1>4. QED
    BY <1>1, <1>2, <1>3

LEMMA PowerKeepsDone ==
    ASSUME IInv, DInv, PowerAction \/ GetPowerStatus \/ Reboot
    PROVE  DInv'
  <1>1. Advances /\ Steady'
    BY HandlerAdvances DEF Handler, PowerAction, GetPowerStatus, Reboot, Dispatch, DInv
  <1>2. pc \in Acting /\ UNCHANGED <<matched, ethMap, info, row>>
    BY DEF PowerAction, GetPowerStatus, Reboot, scan, walk, Acting
  <1>3. CASE pc' = "idle"
    <2>1. outcome' = "aborted"
      BY <1>3 DEF PowerAction, GetPowerStatus, Reboot, Transition, Goto, Return
    <2>2. QED
      BY <1>3, <2>1, IdleKeepsDone
  <1>4. CASE pc' # "idle"
    <2>1. pc' \in {"alert", "powerState", "reboot"} /\ pc' \in Acting
      BY <1>4 DEF PowerAction, GetPowerStatus, Reboot, Transition, Goto, Return, Acting
    <2>2. /\ Informed' /\ (\A r \in Rows : Scanned(r)') /\ (\A r : RowDone(r) => RowDone(r)')
          /\ StillGlobal' => seen'.gbl = seen.gbl /\ info.PEFActionGblControl = seen.gbl
      BY <1>1, <1>2, <2>1, ActingKeepsDone
    <2>3. TakenDown'
      BY <2>1, <2>2 DEF TakenDown, Alerting
    <2>4. /\ pc' \in {"powerState", "reboot"} /\ StillGlobal' =>
                "powerOff" \notin matched[row].EvtFilterAction \cap seen'.gbl
          /\ pc' = "alert" /\ StillGlobal' =>
                \A r, e : r = row /\ e = matched[row] => PowerActedOn(r, e)'
      BY <1>1, <1>2, <1>4, <2>2, PowerStepsDo
    <2>5. pc' = "alert" => \A r : r = row => PowerDone(r)'
      BY <1>2, <2>4 DEF PowerDone
    <2>6. \A r \in DOMAIN matched' : r < row' => RowDone(r)'
      BY <1>2, <2>2 DEF DInv, Behind
    <2>7. Behind'
      BY <1>2, <2>1, <2>4, <2>5, <2>6 DEF Behind, Alerting
    <2>8. QED
      BY <1>1, <2>1, <2>2, <2>3, <2>7 DEF DInv, UndisturbedRowsActedOn
  <1>5. QED
    BY <1>3, <1>4

--------------------------------------------------------------------------------
(***************************************************************************)
(* The loops go on.  A policy of the group of the row that reads e is      *)
(* taken down.                                                             *)
(***************************************************************************)
TakenFor(e) ==
    \A pq \in seen.policies :
        /\ InGroup(pq[2], e)
        /\ Undisturbed({<<"policy", pq[1]>>, <<"policyList", PolicyListOf(pq[1])>>})
        => pq[1] \in DOMAIN selected /\ selected[pq[1]] = pq[2]

LEMMA RowsGoOn ==
    ASSUME IInv, DInv, Advances, Steady', pc \in Acting, NextRow, UNCHANGED <<matched, ethMap, info>>,
           seen' \in Seen, \A r \in DOMAIN matched : r <= row => RowDone(r)'
    PROVE  DInv'
  <1>1. DOMAIN matched \subseteq Nat /\ row \in Nat
    BY TablesAreNumbered DEF IInv, TypeOK
  <1>2. CASE {r \in DOMAIN matched : r > row} = {} /\ Return("done")
    <2>1. ASSUME NEW r \in DOMAIN matched
          PROVE  RowDone(r)'
      <3>1. r <= row
        BY <1>1, <1>2
      <3>2. QED
        BY <3>1
    <2>2. ASSUME NEW re \in seen'.rows, EntryMatches(re[2], eveMsg'), StillGlobal',
                 Undisturbed({<<"row", re[1]>>, <<"list", ListOf(re[1])>>})'
          PROVE  /\ PowerActedOn(re[1], re[2])'
                 /\ \A pq \in seen'.policies, nl \in seen'.lans :
                       nl[1] = pq[2].ChannelNo => AlertActedOn(re[1], re[2], pq[1], pq[2], nl[2])'
      <3>1. re[1] \in Rows
        BY DEF Seen
      <3>2. Scanned(re[1]) => Scanned(re[1])'
        BY ScannedStays
      <3>3. re[1] \in DOMAIN matched' /\ matched'[re[1]] = re[2]
        BY <2>2, <3>1, <3>2 DEF DInv, TakenDown, Scanned
      <3>4. RowDone(re[1])'
        BY <2>1, <3>3
      <3>5. PowerActedOn(re[1], re[2])'
        BY <2>2, <3>3, <3>4 DEF RowDone, PowerDone, PowerActedOn
      <3>6. \A pq \in seen'.policies, nl \in seen'.lans :
               nl[1] = pq[2].ChannelNo => AlertActedOn(re[1], re[2], pq[1], pq[2], nl[2])'
        BY <2>2, <3>3, <3>4 DEF RowDone, PolicyDone, AlertActedOn
      <3>7. QED
        BY <3>5, <3>6
    <2>3. UndisturbedRowsActedOn'
      <3>1. Undisturbed({<<"PEFControl">>, <<"ArmPEFPostponeTmr">>, <<"count">>,
                         <<"confInfo">>, <<"PEFActionGblControl">>})' => StillGlobal'
        BY DEF Undisturbed, StillGlobal, Still
      <3>2. QED
        BY <2>2, <3>1 DEF UndisturbedRowsActedOn
    <2>4. QED
      BY <1>2, <2>3, ReturnKeepsDone DEF Return
  <1>3. CASE /\ pc' = "power"
             /\ row' \in DOMAIN matched /\ row' > row
             /\ \A r \in DOMAIN matched : r > row => row' <= r
    <2>1. Informed' /\ \A r \in Rows : Scanned(r)'
      BY <1>3, ActingKeepsDone DEF Acting
    <2>2. \A r \in DOMAIN matched' : r < row' => RowDone(r)'
      <3>1. ASSUME NEW r \in DOMAIN matched, r < row'
            PROVE  r <= row
        BY <1>1, <1>3, <3>1
      <3>2. QED
        BY <3>1
    <2>3. QED
      BY <1>3, <2>1, <2>2 DEF DInv, TakenDown, Behind, Alerting, UndisturbedRowsActedOn
  <1>4. QED
    BY <1>2, <1>3 DEF NextRow, First, Goto

\* A row is done with when its power action and the policies taken down are.
LEMMA RowFinished ==
    ASSUME Advances, NEW r, r = row, UNCHANGED matched, PowerDone(r),
           \A e : e = matched[row] => TakenFor(e)',
           \A p, q : p \in DOMAIN selected' /\ q = selected'[p] => PolicyDone(r, p, q)'
    PROVE  RowDone(r)'
  <1>1. PowerDone(r)'
    BY DoneStays
  <1>2. ASSUME NEW pq \in seen'.policies
        PROVE  PolicyDone(r, pq[1], pq[2])'
    <2>1. CASE pq[1] \in DOMAIN selected' /\ selected'[pq[1]] = pq[2]
      BY <2>1
    <2>2. CASE ~InGroup(pq[2], matched[r])
      BY <2>2 DEF PolicyDone, AlertActedOn
    <2>3. CASE ~Undisturbed({<<"policy", pq[1]>>, <<"policyList", PolicyListOf(pq[1])>>})'
      BY <2>3 DEF PolicyDone, AlertActedOn, Undisturbed
    <2>4. QED
      BY <2>1, <2>2, <2>3 DEF TakenFor
  <1>3. QED
    BY <1>1, <1>2 DEF RowDone

LEMMA EarlierRowsDone ==
    ASSUME IInv, DInv, Advances, pc \in Acting, UNCHANGED matched, \A r : r = row => RowDone(r)'
    PROVE  \A r \in DOMAIN matched : r <= row => RowDone(r)'
  <1>1. ASSUME NEW r \in DOMAIN matched, r <= row
        PROVE  r < row \/ r = row
    <2>1. r \in Nat /\ row \in Nat
      BY TablesAreNumbered DEF IInv, TypeOK
    <2>2. QED
      BY <1>1, <2>1
  <1>2. \A r \in DOMAIN matched : r < row => RowDone(r)'
    BY DoneStays DEF DInv, Behind
  <1>3. QED
    BY <1>1, <1>2

LEMMA PoliciesGoOn ==
    ASSUME IInv, DInv, Advances, Steady', pc \in Alerting, NextPolicy,
           UNCHANGED <<matched, ethMap, info, selected>>, seen' \in Seen,
           \A r, p, q : /\ r = row /\ p = policy /\ q = selected[policy]
                        => PolicyDone(r, p, q)'
    PROVE  DInv'
  <1>1. DOMAIN selected \subseteq Nat /\ policy \in Nat
    BY TablesAreNumbered DEF IInv, TypeOK
  <1>2. pc \in Acting
    BY DEF Acting
  <1>3. \A p \in Policies : Selected(p)
    BY DEF DInv, TakenDown
  <1>4. ASSUME NEW r, NEW p, NEW q, r = row, p \in DOMAIN selected, q = selected[p], p <= policy
        PROVE  PolicyDone(r, p, q)'
    <2>1. p < policy \/ p = policy
      BY <1>1, <1>4
    <2>2. p < policy => PolicyDone(r, p, q)
      BY <1>4 DEF DInv, Behind
    <2>3. QED
      BY <1>4, <2>1, <2>2, DoneStays
  <1>5. CASE {p \in DOMAIN selected : p > policy} = {} /\ NextRow
    <2>1. \A p \in DOMAIN selected : p <= policy
      BY <1>1, <1>5
    <2>2. \A e : e = matched[row] => TakenFor(e)'
      <3> SUFFICES ASSUME NEW e, e = matched[row], NEW pq \in seen'.policies, InGroup(pq[2], e),
                          Undisturbed({<<"policy", pq[1]>>, <<"policyList", PolicyListOf(pq[1])>>})'
                   PROVE  pq[1] \in DOMAIN selected' /\ selected'[pq[1]] = pq[2]
        BY DEF TakenFor
      <3>1. pq \in seen.policies /\ pq[1] \in Policies
        BY DEF Advances, Undisturbed, Still, Seen
      <3>2. Undisturbed({<<"policy", pq[1]>>, <<"policyList", PolicyListOf(pq[1])>>})
        BY DEF Advances, Undisturbed
      <3>3. QED
        BY <1>3, <3>1, <3>2 DEF Selected
    <2>3. ASSUME NEW r, r = row
          PROVE  RowDone(r)'
      <3>1. PowerDone(r)
        BY <2>3 DEF DInv, Behind
      <3>2. QED
        BY <1>4, <2>1, <2>2, <2>3, <3>1, RowFinished
    <2>4. QED
      BY <1>2, <1>5, <2>3, EarlierRowsDone, RowsGoOn
  <1>6. CASE /\ pc' = "destination" /\ row' = row
             /\ policy' \in DOMAIN selected /\ policy' > policy
             /\ \A p \in DOMAIN selected : p > policy => policy' <= p
    <2>1. Informed' /\ (\A r \in Rows : Scanned(r)') /\ (\A r : RowDone(r) => RowDone(r)')
      BY <1>2, <1>6, ActingKeepsDone DEF Acting, Alerting
    <2>2. \A p \in Policies : Selected(p)'
      BY <1>3, <1>6, SelectedStays
    <2>3. \A r : r = row => PowerDone(r)'
      BY DoneStays DEF DInv, Behind
    <2>4. \A r \in DOMAIN matched : r < row => RowDone(r)'
      BY <1>2, <2>1 DEF DInv, Behind
    <2>5. \A r, p, q : r = row /\ p \in DOMAIN selected /\ q = selected[p] /\ p < policy'
             => PolicyDone(r, p, q)'
      <3>1. \A p \in DOMAIN selected : p < policy' => p <= policy
        BY <1>1, <1>6
      <3>2. QED
        BY <1>4, <3>1
    <2>6. Behind'
      BY <1>6, <2>3, <2>4, <2>5 DEF Behind
    <2>7. TakenDown'
      BY <1>6, <2>1, <2>2 DEF TakenDown
    <2>8. QED
      BY <1>6, <2>1, <2>6, <2>7 DEF DInv, UndisturbedRowsActedOn
  <1>7. QED
    BY <1>5, <1>6 DEF NextPolicy, First, Goto

--------------------------------------------------------------------------------
(***************************************************************************)
(* The alerts of a row.                                                    *)
(***************************************************************************)
LEMMA CheckAlertKeepsDone ==
    ASSUME IInv, DInv, CheckAlert
    PROVE  DInv'
  <1>1. Advances /\ Steady'
    BY HandlerAdvances DEF Handler, CheckAlert, Dispatch, DInv
  <1>2. pc = "alert" /\ pc \in Acting /\ UNCHANGED <<matched, ethMap, info, seen>> /\ seen' \in Seen
    BY DEF CheckAlert, scan, Acting, IInv, TypeOK
  <1>3. CASE pc' = "policies" /\ list' = 1 /\ row' = row
    <2>1. Informed' /\ (\A r \in Rows : Scanned(r)') /\ (\A r : RowDone(r) => RowDone(r)')
      BY <1>1, <1>2, <1>3, ActingKeepsDone DEF Acting
    <2>2. \A r : r = row => PowerDone(r)'
      BY <1>1, <1>2, DoneStays DEF DInv, Behind
    <2>3. \A p \in Policies : ~(PolicyListOf(p) < list')
      BY <1>3, ListsCoverTheTables, TaskAssumption
    <2>4. TakenDown'
      BY <1>3, <2>1, <2>3 DEF TakenDown, Acting, Alerting
    <2>5. \A r \in DOMAIN matched' : r < row' => RowDone(r)'
      BY <1>2, <1>3, <2>1 DEF DInv, Behind
    <2>6. Behind'
      BY <1>3, <2>2, <2>5 DEF Behind, Alerting
    <2>7. QED
      BY <1>1, <1>3, <2>1, <2>4, <2>6 DEF DInv, UndisturbedRowsActedOn
  <1>4. CASE NextRow /\ (<<"policyPaths">> \in disturbed'
                          \/ ~(Permitted("alert") /\ matched[row].AlertPolicyNum > 0))
    <2>1. StillGlobal' => info.PEFActionGblControl = seen'.gbl
      BY <1>1, <1>2 DEF DInv, Informed, Advances, StillGlobal, Still
    <2>2. ASSUME NEW r, r = row, NEW p, NEW q
          PROVE  PolicyDone(r, p, q)'
      <3> SUFFICES ASSUME StillGlobal', NEW nl \in seen'.lans PROVE AlertActedOn(r, matched[r], p, q, nl[2])'
        BY DEF PolicyDone
      <3>1. CASE <<"policyPaths">> \in disturbed'
        BY <3>1 DEF AlertActedOn, Undisturbed
      <3>2. CASE ~(Permitted("alert") /\ matched[row].AlertPolicyNum > 0)
        BY <1>2, <2>1, <2>2, <3>2 DEF AlertActedOn, Permitted
      <3>3. QED
        BY <1>4, <3>1, <3>2
    <2>3. \A r : r = row => RowDone(r)'
      <3>1. \A r : r = row => PowerDone(r)'
        BY <1>1, <1>2, DoneStays DEF DInv, Behind
      <3>2. QED
        BY <2>2, <3>1 DEF RowDone
    <2>4. QED
      BY <1>1, <1>2, <1>4, <2>3, EarlierRowsDone, RowsGoOn
  <1>5. QED
    BY <1>3, <1>4 DEF CheckAlert, Goto, Disturb

\* Selected, for the row that was current when its policies were read.
LEMMA PolicyListTakenDown ==
    ASSUME IInv, DInv, ReadPolicyList, Advances, Steady', NEW e, e = matched[row],
           NEW pq \in seen'.policies, PolicyListOf(pq[1]) < list', InGroup(pq[2], e),
           Undisturbed({<<"policy", pq[1]>>, <<"policyList", PolicyListOf(pq[1])>>})'
    PROVE  pq[1] \in DOMAIN selected' /\ selected'[pq[1]] = pq[2]
  <1> DEFINE p == pq[1]
             hits == {x \in Policies : PolicyListOf(x) = list /\
                            SelectsPolicy(conf.AlertPolicyTable[x], matched[row].AlertPolicyNum)}
  <1>1. /\ pc = "policies" /\ list \in Nat /\ list' = list + 1 /\ UNCHANGED <<conf, seen>>
        /\ \/ selected' = Merge(selected, hits, conf.AlertPolicyTable)
           \/ UNCHANGED selected /\ <<"policyList", list>> \in disturbed'
    BY DEF ReadPolicyList, IInv, TypeOK, Disturb, conn
  <1>2. pq \in seen.policies /\ p \in Policies
    BY <1>1 DEF IInv, TypeOK, Seen
  <1>3. PolicyListOf(p) < list \/ PolicyListOf(p) = list
    BY <1>1, <1>2, ListsCoverTheTables
  <1>4. CASE PolicyListOf(p) < list
    <2>1. Selected(p)
      BY <1>1, <1>2, <1>4 DEF DInv, TakenDown
    <2>2. Undisturbed({<<"policy", p>>, <<"policyList", PolicyListOf(p)>>})
      BY DEF Advances, Undisturbed
    <2>3. p \in DOMAIN selected /\ selected[p] = pq[2]
      BY <1>2, <2>1, <2>2 DEF Selected
    <2>4. p \notin hits
      BY <1>1, <1>2, <1>4, ListsCoverTheTables
    <2> HIDE DEF hits, p
    <2>5. p \in DOMAIN selected' /\ selected'[p] = pq[2]
      BY <1>1, <2>3, <2>4 DEF Merge
    <2>6. QED
      BY <2>5 DEF p
  <1>5. CASE PolicyListOf(p) = list
    <2>1. <<"policy", p>> \notin disturbed' /\ <<"policyList", list>> \notin disturbed'
      BY <1>5 DEF Undisturbed
    <2>2. pq[2] = conf.AlertPolicyTable[p]
      BY <1>1, <1>2, <2>1 DEF Advances, DInv, Steady, Still
    <2>3. p \in hits
      BY <1>2, <1>5, <2>2 DEF InGroup, SelectsPolicy
    <2> HIDE DEF hits, p
    <2>4. p \in DOMAIN selected' /\ selected'[p] = conf.AlertPolicyTable[p]
      BY <1>1, <2>1, <2>3 DEF Merge
    <2>5. QED
      BY <2>2, <2>4 DEF p
  <1>6. QED
    BY <1>3, <1>4, <1>5

LEMMA ReadPolicyListKeepsDone ==
    ASSUME IInv, DInv, ReadPolicyList
    PROVE  DInv'
  <1>1. Advances /\ Steady'
    BY HandlerAdvances DEF Handler, ReadPolicyList, Dispatch, DInv
  <1>2. /\ pc = "policies" /\ pc \in Acting /\ UNCHANGED <<matched, ethMap, info, seen, conf>>
        /\ seen' \in Seen /\ list \in Nat /\ list' = list + 1
    BY DEF ReadPolicyList, scan, conn, Acting, IInv, TypeOK
  <1>3. \A pq \in seen'.policies : pq[1] \in Policies
    BY <1>2 DEF Seen
  <1>4. \A r : r = row => PowerDone(r)'
    BY <1>1, <1>2, DoneStays DEF DInv, Behind
  <1>5. ASSUME NEW e, e = matched[row], list = NPolicyLists
        PROVE  TakenFor(e)'
    <2>1. \A p \in Policies : PolicyListOf(p) < list'
      BY <1>2, <1>5, ListsCoverTheTables, TaskAssumption
    <2>2. QED
      BY <1>1, <1>3, <1>5, <2>1, PolicyListTakenDown DEF TakenFor
  <1>6. ASSUME row' = row
        PROVE  \A p \in Policies : PolicyListOf(p) < list' => Selected(p)'
    <2> SUFFICES ASSUME NEW p \in Policies, PolicyListOf(p) < list',
                        NEW pq \in seen'.policies, pq[1] = p, InGroup(pq[2], matched[row]),
                        Undisturbed({<<"policy", p>>, <<"policyList", PolicyListOf(p)>>})'
                 PROVE  p \in DOMAIN selected' /\ selected'[p] = pq[2]
      BY <1>2, <1>6 DEF Selected
    <2>1. QED
      BY <1>1, PolicyListTakenDown
  <1>7. ASSUME row' = row, pc' \in Acting
        PROVE  Informed' /\ (\A r \in Rows : Scanned(r)') /\ \A r \in DOMAIN matched' : r < row' => RowDone(r)'
    <2>1. Informed' /\ (\A r \in Rows : Scanned(r)') /\ (\A r : RowDone(r) => RowDone(r)')
      BY <1>1, <1>2, <1>7, ActingKeepsDone
    <2>2. QED
      BY <1>2, <1>7, <2>1 DEF DInv, Behind
  <1>8. CASE pc' = "policies" /\ row' = row
    <2>1. TakenDown'
      BY <1>6, <1>7, <1>8 DEF TakenDown, Acting, Alerting
    <2>2. Behind'
      BY <1>4, <1>7, <1>8 DEF Behind, Acting, Alerting
    <2>3. QED
      BY <1>1, <1>7, <1>8, <2>1, <2>2 DEF DInv, UndisturbedRowsActedOn, Acting
  <1>9. CASE list = NPolicyLists /\ DOMAIN selected' = {} /\ NextRow
    <2>1. \A r : r = row => PowerDone(r)
      BY <1>2 DEF DInv, Behind
    <2>2. \A r : r = row => RowDone(r)'
      BY <1>1, <1>2, <1>5, <1>9, <2>1, RowFinished
    <2>3. QED
      BY <1>1, <1>2, <1>9, <2>2, EarlierRowsDone, RowsGoOn
  <1>10. CASE /\ list = NPolicyLists /\ pc' = "destination" /\ row' = row
              /\ policy' \in DOMAIN selected' /\ \A p \in DOMAIN selected' : policy' <= p
    <2>1. \A p \in Policies : Selected(p)'
      BY <1>2, <1>6, <1>10, ListsCoverTheTables, TaskAssumption
    <2>2. TakenDown'
      BY <1>7, <1>10, <2>1 DEF TakenDown, Acting, Alerting
    <2>3. \A p \in DOMAIN selected' : ~(p < policy')
      <3>1. IInv'
        BY PoliciesKeep
      <3>2. DOMAIN selected' \subseteq Nat
        BY <3>1, TablesAreNumbered DEF IInv, TypeOK
      <3>3. QED
        BY <1>10, <3>2
    <2>4. Behind'
      BY <1>4, <1>7, <1>10, <2>3 DEF Behind, Acting, Alerting
    <2>5. QED
      BY <1>1, <1>7, <1>10, <2>2, <2>4 DEF DInv, UndisturbedRowsActedOn, Acting, Alerting
  <1>11. QED
    BY <1>2, <1>8, <1>9, <1>10 DEF ReadPolicyList, First, Goto

\* What holds in every step of the loop over policies that stays in it.
LEMMA AlertingKeepsDone ==
    ASSUME IInv, DInv, Advances, Steady', pc \in Alerting, pc' \in Alerting,
           UNCHANGED <<matched, ethMap, info, row, selected, policy>>,
           pc' = "record" => \A r, p, q : /\ r = row /\ p = policy /\ q = selected[policy]
                                          => PolicyDone(r, p, q)',
           pc # "record", pc' \in {"smtp", "snmp"} => Chosen'
    PROVE  DInv'
  <1>1. Informed' /\ (\A r \in Rows : Scanned(r)') /\ (\A r : RowDone(r) => RowDone(r)')
    BY ActingKeepsDone DEF Acting
  <1>2. TakenDown'
    <2>1. \A p \in Policies : Selected(p)'
      BY SelectedStays DEF DInv, TakenDown
    <2>2. QED
      BY <1>1, <2>1 DEF TakenDown, Alerting
  <1>3. \A r : r = row => PowerDone(r)'
    BY DoneStays DEF DInv, Behind
  <1>4. \A r \in DOMAIN matched : r < row => RowDone(r)'
    BY <1>1 DEF DInv, Behind, Acting
  <1>5. \A r, p, q : r = row /\ p \in DOMAIN selected /\ q = selected[p] /\ p < policy
           => PolicyDone(r, p, q)'
    BY DoneStays DEF DInv, Behind
  <1>6. Behind'
    BY <1>3, <1>4, <1>5 DEF Behind, Alerting
  <1>7. QED
    BY <1>1, <1>2, <1>6 DEF DInv, UndisturbedRowsActedOn, Alerting

LEMMA ResolveDestinationKeepsDone ==
    ASSUME IInv, DInv, ResolveDestination
    PROVE  DInv'
  <1> DEFINE q == selected[policy]
             lan == conf.LanParam[q.ChannelNo]
             n == q.DestinationSel
             user == UserAt(lan.userName, n)
             Alerts(type) == type \in SNMPTypes \/ (type = SMTPType /\ user # NoUser)
  <1>1. Advances /\ Steady'
    BY HandlerAdvances DEF Handler, ResolveDestination, Dispatch, DInv
  <1>2. /\ pc = "destination" /\ pc \in Alerting /\ pc \in Acting
        /\ UNCHANGED <<matched, ethMap, info, selected, seen, conf>> /\ seen' \in Seen
    BY DEF ResolveDestination, scan, conn, Acting, Alerting, IInv, TypeOK
  <1>3. ASSUME NEW nl \in seen'.lans, nl[1] = q.ChannelNo, <<"lan", q.ChannelNo>> \notin disturbed',
               n \in 1..(Len(nl[2].Type) - 1)
        PROVE  nl[2] = lan /\ TypesAt(lan.Type, n) = {lan.Type[n]}
    <2>1. nl \in seen.lans /\ <<"lan", nl[1]>> \notin disturbed
      BY <1>1, <1>2, <1>3 DEF Advances
    <2>2. nl[2] = lan
      BY <1>2, <1>3, <2>1 DEF DInv, Steady, Still
    <2>3. nl[2] \in LanEntry
      BY <1>2 DEF Seen
    <2>4. Len(lan.Type) \in Nat
      BY <2>2, <2>3, TaskAssumption DEF LanParamConfig
    <2> HIDE DEF lan, n, q
    <2>5. ~(n >= Len(lan.Type)) /\ n # 0
      BY <1>3, <2>2, <2>4
    <2>6. QED
      BY <2>2, <2>5 DEF TypesAt
  <1>4. CASE /\ pc' \in {"smtp", "snmp"} /\ UNCHANGED <<row, policy>>
             /\ \E type \in TypesAt(lan.Type, n) :
                   Alerts(type) /\ pc' = IF type = SMTPType THEN "smtp" ELSE "snmp"
    <2>1. Chosen'
      <3> SUFFICES ASSUME NEW nl \in seen'.lans, nl[1] = q.ChannelNo, <<"lan", q.ChannelNo>> \notin disturbed',
                          n \in 1..(Len(nl[2].Type) - 1)
                   PROVE  nl[2].Type[n] = SMTPType <=> pc' = "smtp"
        BY <1>2, <1>4 DEF Chosen, Still
      <3>1. nl[2] = lan /\ TypesAt(lan.Type, n) = {lan.Type[n]}
        BY <1>3
      <3> HIDE DEF lan, n, q, Alerts
      <3>2. QED
        BY <1>4, <3>1
    <2>2. QED
      BY <1>1, <1>2, <1>4, <2>1, AlertingKeepsDone DEF Alerting
  <1>5. CASE /\ NextPolicy
             /\ \/ q.ChannelNo \notin ethMap
                \/ TypesAt(lan.Type, n) = {}
                \/ \E type \in TypesAt(lan.Type, n) : ~Alerts(type)
                \/ <<"lan", q.ChannelNo>> \in disturbed'
    <2>1. ASSUME NEW r, r = row, NEW p, p = policy, NEW pol, pol = q
          PROVE  PolicyDone(r, p, pol)'
      <3> SUFFICES ASSUME NEW nl \in seen'.lans, nl[1] = pol.ChannelNo
                   PROVE  AlertActedOn(r, matched[r], p, pol, nl[2])'
        BY DEF PolicyDone
      <3>1. CASE <<"lan", pol.ChannelNo>> \in disturbed' \/ <<"ethMap">> \in disturbed'
        BY <3>1 DEF AlertActedOn, Undisturbed
      <3>2. CASE pol.ChannelNo \notin EthChannel \/ pol.DestinationSel \notin 1..(Len(nl[2].Type) - 1)
        BY <3>2 DEF AlertActedOn
      <3>3. CASE /\ <<"lan", q.ChannelNo>> \notin disturbed' /\ <<"ethMap">> \notin disturbed'
                 /\ q.ChannelNo \in EthChannel /\ n \in 1..(Len(nl[2].Type) - 1)
        <4>1. nl[2] = lan /\ TypesAt(lan.Type, n) = {lan.Type[n]}
          BY <1>3, <2>1, <3>3
        <4>2. q.ChannelNo \in ethMap
          BY <1>1, <1>2, <3>3 DEF DInv, Informed, Advances, Still
        <4>3. ~Alerts(lan.Type[n])
          <5> HIDE DEF lan, n, q, Alerts
          <5>1. QED
            BY <1>5, <3>3, <4>1, <4>2
        <4>4. ~(nl[2].Type[pol.DestinationSel] \in SNMPTypes)
              /\ ~(nl[2].Type[pol.DestinationSel] = SMTPType /\ UserAt(nl[2].userName, pol.DestinationSel) # NoUser)
          BY <2>1, <4>1, <4>3
        <4>5. QED
          BY <4>4 DEF AlertActedOn
      <3>4. QED
        BY <2>1, <3>1, <3>2, <3>3
    <2>2. QED
      BY <1>1, <1>2, <1>5, <2>1, PoliciesGoOn
  <1>6. QED
    BY <1>4, <1>5 DEF ResolveDestination, Goto, Disturb

\* An alert that was sent, or tried, is the one its destination asks for.
LEMMA SentIsDone ==
    ASSUME IInv, DInv, Advances, pc \in {"smtp", "snmp"}, UNCHANGED matched,
           \A kind, r, x : kind = pc /\ r = row /\ x = policy => Did(kind, r, x)',
           NEW r, r = row, NEW p, p = policy, NEW q, q = selected[policy]
    PROVE  PolicyDone(r, p, q)'
  <1> SUFFICES ASSUME NEW nl \in seen'.lans, nl[1] = q.ChannelNo
               PROVE  AlertActedOn(r, matched[r], p, q, nl[2])'
    BY DEF PolicyDone
  <1>1. CASE <<"lan", q.ChannelNo>> \in disturbed' \/ q.DestinationSel \notin 1..(Len(nl[2].Type) - 1)
    BY <1>1 DEF AlertActedOn, Undisturbed
  <1>2. CASE <<"lan", q.ChannelNo>> \notin disturbed' /\ q.DestinationSel \in 1..(Len(nl[2].Type) - 1)
    <2>1. nl \in seen.lans /\ Still(<<"lan", q.ChannelNo>>)
      BY <1>2 DEF Advances, Still
    <2>2. nl[2].Type[q.DestinationSel] = SMTPType <=> pc = "smtp"
      BY <1>2, <2>1 DEF DInv, Behind, Chosen
    <2>3. SMTPType \notin SNMPTypes
      BY DEF SMTPType, SNMPTypes
    <2>4. pc = "smtp" => Did("smtp", r, p)'
      OBVIOUS
    <2>5. pc = "snmp" => Did("snmp", r, p)'
      OBVIOUS
    <2>6. QED
      BY <2>2, <2>3, <2>4, <2>5 DEF AlertActedOn
  <1>3. QED
    BY <1>1, <1>2

LEMMA SendingKeepsDone ==
    ASSUME IInv, DInv, SendSmtpAlert \/ SendSNMPAlert
    PROVE  DInv'
  <1>1. Advances /\ Steady'
    BY HandlerAdvances DEF Handler, SendSmtpAlert, SendSNMPAlert, Dispatch, DInv
  <1>2. /\ pc \in {"smtp", "snmp"} /\ pc \in Alerting /\ pc \in Acting
        /\ UNCHANGED <<matched, ethMap, info, selected, seen>> /\ seen' \in Seen
    BY DEF SendSmtpAlert, SendSNMPAlert, scan, Acting, Alerting, IInv, TypeOK
  <1>3. policy \in Policies
    BY <1>2 DEF IInv, TypeOK, Placed
  <1>4. PICK status \in {"ok", "failed", "lost"} : Alerted(pc, status)
    BY DEF SendSmtpAlert, SendSNMPAlert
  <1>5. \A kind, r, p : kind = pc /\ r = row /\ p = policy => Did(kind, r, p)'
    <2>1. acts' = acts \o (SELLog(policy) \o <<Do(pc, policy, status)>>)
      BY <1>4 DEF Alerted
    <2>2. ASSUME NEW kind \in {"smtp", "snmp"}, kind = pc, NEW p, p = policy
          PROVE  \A r : r = row => Did(kind, r, p)'
      BY <1>2, <1>3, <2>1, <2>2, ActDone DEF ActKind
    <2>3. QED
      BY <1>2, <2>2
  <1>6. \A r, p, q : r = row /\ p = policy /\ q = selected[policy] => PolicyDone(r, p, q)'
    BY <1>1, <1>2, <1>5, SentIsDone
  <1>7. CASE NextPolicy
    BY <1>1, <1>2, <1>6, <1>7, PoliciesGoOn
  <1>8. CASE pc' = "idle" /\ outcome' = "aborted"
    BY <1>8, IdleKeepsDone
  <1>9. CASE pc' = "record" /\ UNCHANGED <<row, policy>>
    BY <1>1, <1>2, <1>6, <1>9, AlertingKeepsDone DEF Alerting
  <1>10. QED
    BY <1>7, <1>8, <1>9 DEF SendSmtpAlert, SendSNMPAlert, Return, Goto

LEMMA RecordingKeepsDone ==
    ASSUME IInv, DInv, SetLastBMCProcessedEventID
    PROVE  DInv'
  <1>1. Advances /\ Steady'
    BY HandlerAdvances DEF Handler, SetLastBMCProcessedEventID, Dispatch, DInv
  <1>2. /\ pc = "record" /\ pc \in Alerting /\ NextPolicy
        /\ UNCHANGED <<matched, ethMap, info, selected>> /\ seen' \in Seen
    BY DEF SetLastBMCProcessedEventID, scan, history, Alerting, IInv, TypeOK
  <1>3. \A r, p, q : r = row /\ p = policy /\ q = selected[policy] => PolicyDone(r, p, q)'
    <2>1. policy \in DOMAIN selected
      BY <1>2 DEF IInv, Placed
    <2>2. QED
      BY <1>1, <1>2, <2>1, DoneStays DEF DInv, Behind
  <1>4. QED
    BY <1>1, <1>2, <1>3, PoliciesGoOn

--------------------------------------------------------------------------------
LEMMA StaysDone == IInv /\ DInv /\ [Next]_vars => DInv'
  <1> SUFFICES ASSUME IInv, DInv, [Next]_vars
               PROVE  DInv'
    OBVIOUS
  <1>1. CASE Outside
    BY <1>1, OutsideKeepsDone
  <1>2. CASE Handler
    BY <1>2, DecidingKeepsDone, ReadingKeepsDone, PowerKeepsDone, CheckAlertKeepsDone,
       ReadPolicyListKeepsDone, ResolveDestinationKeepsDone, SendingKeepsDone, RecordingKeepsDone DEF Handler
  <1>3. CASE UNCHANGED vars
    <2>1. UNCHANGED <<conf, eveMsg, acts, seen, disturbed, outcome, pc, scan, walk>>
      BY <1>3 DEF vars, conn, scan, history, return
    <2>2. CASE pc = "idle"
      BY <2>1, <2>2, IdleKeepsDone
    <2>3. CASE pc # "idle"
      BY <2>1, <2>3, StepAdvances, WriteKeepsDone DEF DInv, Did
    <2>4. QED
      BY <2>2, <2>3
  <1>4. QED
    BY <1>1, <1>2, <1>3 DEF Next

(***************************************************************************)
(* doPefTask loses nothing on its way through the tables: an action that a *)
(* matching row calls for is carried out unless what decides about it was  *)
(* changed meanwhile, or could not be read.                                *)
(***************************************************************************)
THEOREM UndisturbedRowsAreActedOn == Spec => []UndisturbedRowsActedOn
  <1>1. Init => DInv
    BY DEF Init, DInv, Steady, Informed, TakenDown, Behind, Acting, Alerting, UndisturbedRowsActedOn
  <1>2. DInv => UndisturbedRowsActedOn
    BY DEF DInv
  <1>3. QED
    BY <1>1, <1>2, StaysDone, InvariantHolds, PTL DEF Spec
================================================================================
