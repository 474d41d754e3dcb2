----------------------------- MODULE MCEventFilter -----------------------------
(***************************************************************************)
(* Drives EventFilter: a row of the event filter table and an event that   *)
(* change one field, or one bit of one byte, at a time, so that every      *)
(* combination is reached.  Event data bytes 2 and 3 keep the test that    *)
(* the shipped table uses for "any value" (mask, Cmp1 and Cmp2 all 0).     *)
(***************************************************************************)
EXTENDS EventFilter

VARIABLES entry, eventMsg

vars == <<entry, eventMsg>>

AnyValue == [ANDMask |-> {}, Cmp1 |-> {}, Cmp2 |-> {}]

Flip(set, b) == IF b \in set THEN set \ {b} ELSE set \cup {b}

TypeOK ==
    /\ entry \in EvtFilterTblEntry
    /\ eventMsg \in EventMsgData

Init ==
    /\ entry =
        [FilterConfig |-> TRUE,
         GenIDByte1 |-> Wildcard, GenIDByte2 |-> Wildcard,
         SensorType |-> Wildcard, SensorNum |-> Wildcard,
         EventTrigger |-> Wildcard,
         EventData |-> [i \in DataBytes |-> AnyValue],
         EventData1OffsetMask |-> SUBSET OffsetBits,
         EvtFilterAction |-> {"alert"}, AlertPolicyNum |-> 1]
    /\ \E type \in Code \ {Wildcard} :
        eventMsg =
            [recordId |-> 1,
             generatorId1 |-> ZeroCode, generatorId2 |-> ZeroCode,
             sensorType |-> type, sensorNum |-> ZeroCode, eventType |-> ZeroCode,
             eventData |-> [i \in DataBytes |-> {}]]

\* The user writes one property of the row.
WriteSensorType ==
    \E code \in Code : entry' = [entry EXCEPT !.SensorType = code]
WriteFilterConfig ==
    entry' = [entry EXCEPT !.FilterConfig = ~@]
WriteOffsetMask ==
    \E n \in SUBSET OffsetBits : entry' = [entry EXCEPT !.EventData1OffsetMask = Flip(@, n)]
WriteDataTest ==
    \E b \in Bits :
        \/ entry' = [entry EXCEPT !.EventData[1].ANDMask = Flip(@, b)]
        \/ entry' = [entry EXCEPT !.EventData[1].Cmp1 = Flip(@, b)]
        \/ entry' = [entry EXCEPT !.EventData[1].Cmp2 = Flip(@, b)]

WriteRow ==
    /\ WriteSensorType \/ WriteFilterConfig \/ WriteOffsetMask \/ WriteDataTest
    /\ UNCHANGED eventMsg

\* The next event differs in one bit of event data 1.
NextEvent ==
    /\ \E b \in Bits : eventMsg' = [eventMsg EXCEPT !.eventData[1] = Flip(@, b)]
    /\ UNCHANGED entry

Next == WriteRow \/ NextEvent

Spec == Init /\ [][Next]_vars

--------------------------------------------------------------------------------
(***************************************************************************)
(* pefEveDataMatch computes, for every byte, mask and pair of compare      *)
(* bytes (0x00 and 0xFF, which the code tests for, among them), what the   *)
(* test of an event data byte means.                                       *)
(***************************************************************************)
DataMatchMeetsDefinition ==
    \A i \in DataBytes :
        LET test == entry.EventData[i]
            byte == eventMsg.eventData[i]
        IN  pefEveDataMatch(byte, test.ANDMask, test.Cmp1, test.Cmp2)
              <=> DataTestHolds(byte, test.ANDMask, test.Cmp1, test.Cmp2)

(***************************************************************************)
(* Whether a row matches does not depend on a bit of event data 1 that     *)
(* neither the AND mask lets through nor the offset mask is indexed by.    *)
(***************************************************************************)
MaskedBitsIgnored ==
    [][\A b \in Bits \ (entry.EventData[1].ANDMask \cup OffsetBits) :
          entry' = entry /\ eventMsg' = [eventMsg EXCEPT !.eventData[1] = Flip(@, b)]
              => EntryMatches(entry, eventMsg)' = EntryMatches(entry, eventMsg)]_vars

(***************************************************************************)
(* The setter of SensorType (pef_config.cpp) takes 0x00 as well as 0xFF    *)
(* for "wildcard: match any sensor type": a row with SensorType 0x00       *)
(* would match whatever it matches with SensorType 0xFF.                   *)
(***************************************************************************)
ZeroSensorTypeIsWildcard ==
    entry.SensorType = ZeroCode =>
        (EntryMatches([entry EXCEPT !.SensorType = Wildcard], eventMsg)
            => EntryMatches(entry, eventMsg))

================================================================================
