--------------------------- MODULE EventFilterProofs ---------------------------
(***************************************************************************)
(* What the event filter computes, for bytes of any width and any code;    *)
(* and the properties of MCEventFilter, for every row and event.           *)
(***************************************************************************)
EXTENDS MCEventFilter, TLAPS

(***************************************************************************)
(* pefEveDataMatch, with its three nested tests and its two special values *)
(* of Cmp2, is the test of an event data byte that DataTestHolds defines.  *)
(***************************************************************************)
THEOREM DataMatchCorrect ==
    ASSUME NEW value \in Byte, NEW andMask \in Byte, NEW cmp1 \in Byte, NEW cmp2 \in Byte
    PROVE  pefEveDataMatch(value, andMask, cmp1, cmp2)
             <=> DataTestHolds(value, andMask, cmp1, cmp2)
  <1> DEFINE temp1 == value \cap andMask
             temp2 == temp1 \ cmp1
  <1>1. temp1 \cap cmp1 = cmp2 \cap cmp1
          <=> \A b \in cmp1 : Agree(b, value, andMask, cmp2)
    BY DEF Agree, Byte
  <1>2. (cmp2 # {} /\ temp2 \cap cmp2 # {})
          <=> \E b \in Bits \ cmp1 : b \in value /\ b \in andMask /\ b \in cmp2
    BY DEF Byte
  <1>3. (cmp2 # Bits /\ (Bits \ (temp2 \cup cmp1)) \ cmp2 # {})
          <=> \E b \in Bits \ cmp1 : ~(b \in value /\ b \in andMask) /\ b \notin cmp2
    BY DEF Byte
  <1>4. cmp1 # Bits <=> Bits \ cmp1 # {}
    BY DEF Byte
  <1>5. (\E b \in Bits \ cmp1 : Agree(b, value, andMask, cmp2))
          <=> \/ \E b \in Bits \ cmp1 : b \in value /\ b \in andMask /\ b \in cmp2
              \/ \E b \in Bits \ cmp1 : ~(b \in value /\ b \in andMask) /\ b \notin cmp2
    BY DEF Agree
  <1>6. QED
    BY <1>1, <1>2, <1>3, <1>4, <1>5 DEF pefEveDataMatch, DataTestHolds

(***************************************************************************)
(* The outcome depends on the event byte only through the bits that the    *)
(* AND mask lets through.                                                  *)
(***************************************************************************)
THEOREM DataMatchMasks ==
    ASSUME NEW v \in Byte, NEW w \in Byte, NEW andMask \in Byte,
           NEW cmp1 \in Byte, NEW cmp2 \in Byte,
           v \cap andMask = w \cap andMask
    PROVE  pefEveDataMatch(v, andMask, cmp1, cmp2) <=> pefEveDataMatch(w, andMask, cmp1, cmp2)
  BY DEF pefEveDataMatch

(***************************************************************************)
(* A row that leaves everything open (0xFF in every compared field, no     *)
(* data bit tested, every offset) matches every event of a known sensor    *)
(* type; an event of type 0x00 matches no row at all.                      *)
(***************************************************************************)
THEOREM OpenRowMatches ==
    ASSUME NEW e \in EvtFilterTblEntry, NEW m \in EventMsgData,
           e.FilterConfig,
           \A f \in {e.GenIDByte1, e.GenIDByte2, e.SensorType,
                     e.SensorNum, e.EventTrigger} : f = Wildcard,
           \A i \in DataBytes :
              e.EventData[i] = [ANDMask |-> {}, Cmp1 |-> {}, Cmp2 |-> {}],
           e.EventData1OffsetMask = SUBSET OffsetBits
    PROVE  EntryMatches(e, m) <=> m.sensorType # ZeroCode
  <1>1. \A i \in DataBytes : pefEveDataMatch(m.eventData[i], {}, {}, {})
    BY FilterAssumption DEF pefEveDataMatch
  <1>2. m.eventData[1] \cap OffsetBits \in SUBSET OffsetBits
    OBVIOUS
  <1>3. HeaderMatch(e, m) <=> m.sensorType # ZeroCode
    BY DEF HeaderMatch, CodeMatch
  <1>4. OffsetMatch(e, m)
    BY <1>2 DEF OffsetMatch
  <1>5. ASSUME NEW i \in DataBytes
        PROVE  pefEveDataMatch(m.eventData[i], e.EventData[i].ANDMask,
                               e.EventData[i].Cmp1, e.EventData[i].Cmp2)
    <2>1. /\ e.EventData[i].ANDMask = {}
          /\ e.EventData[i].Cmp1 = {}
          /\ e.EventData[i].Cmp2 = {}
      OBVIOUS
    <2>2. QED
      BY <1>1, <2>1
  <1>6. QED
    BY <1>3, <1>4, <1>5 DEF EntryMatches

(***************************************************************************)
(* A bit of event data 1 that the AND mask blocks, and that the offset     *)
(* mask is not indexed by, does not decide whether a row matches: the test *)
(* of the byte sees only what the mask lets through.                       *)
(***************************************************************************)
THEOREM BlockedBitIgnored ==
    ASSUME NEW e \in EvtFilterTblEntry, NEW m \in EventMsgData,
           NEW b \in Bits \ (e.EventData[1].ANDMask \cup OffsetBits)
    PROVE  EntryMatches(e, [m EXCEPT !.eventData[1] = Flip(@, b)]) <=> EntryMatches(e, m)
  <1> DEFINE n == [m EXCEPT !.eventData[1] = Flip(@, b)]
  <1>1. /\ m.eventData \in [DataBytes -> Byte] /\ 1 \in DataBytes
        /\ n.eventData = [m.eventData EXCEPT ![1] = Flip(@, b)]
        /\ <<n.generatorId1, n.generatorId2, n.sensorType, n.sensorNum, n.eventType>>
             = <<m.generatorId1, m.generatorId2, m.sensorType, m.sensorNum, m.eventType>>
    BY DEF EventMsgData, DataBytes
  <1> HIDE DEF n
  <1>2. Flip(m.eventData[1], b) \in Byte
    BY <1>1 DEF Flip, Byte
  <1>3. \A i \in DataBytes : e.EventData[i] \in DataTest
    BY DEF EvtFilterTblEntry
  <1>4. HeaderMatch(e, n) <=> HeaderMatch(e, m)
    BY <1>1 DEF HeaderMatch
  <1>5. n.eventData[1] \cap OffsetBits = m.eventData[1] \cap OffsetBits
    BY <1>1 DEF Flip
  <1>6. ASSUME NEW i \in DataBytes
        PROVE  pefEveDataMatch(n.eventData[i], e.EventData[i].ANDMask,
                               e.EventData[i].Cmp1, e.EventData[i].Cmp2)
                 <=> pefEveDataMatch(m.eventData[i], e.EventData[i].ANDMask,
                                     e.EventData[i].Cmp1, e.EventData[i].Cmp2)
    <2>1. CASE i = 1
      <3>1. n.eventData[1] \cap e.EventData[1].ANDMask = m.eventData[1] \cap e.EventData[1].ANDMask
        BY <1>1 DEF Flip
      <3>2. /\ n.eventData[1] \in Byte /\ m.eventData[1] \in Byte /\ e.EventData[1].ANDMask \in Byte
            /\ e.EventData[1].Cmp1 \in Byte /\ e.EventData[1].Cmp2 \in Byte
        BY <1>1, <1>2, <1>3 DEF DataTest
      <3>3. QED
        BY <2>1, <3>1, <3>2, DataMatchMasks
    <2>2. CASE i # 1
      BY <1>1, <2>2
    <2>3. QED
      BY <2>1, <2>2
  <1>7. OffsetMatch(e, n) <=> OffsetMatch(e, m)
    BY <1>5 DEF OffsetMatch
  <1>8. QED
    BY <1>4, <1>6, <1>7 DEF EntryMatches, n

--------------------------------------------------------------------------------
(***************************************************************************)
(* The rows and events that MCEventFilter reaches are rows and events.     *)
(***************************************************************************)
LEMMA TestTyped ==
    ASSUME NEW e \in EvtFilterTblEntry, NEW b \in Bits
    PROVE  /\ [e EXCEPT !.EventData[1].ANDMask = Flip(@, b)] \in EvtFilterTblEntry
           /\ [e EXCEPT !.EventData[1].Cmp1 = Flip(@, b)] \in EvtFilterTblEntry
           /\ [e EXCEPT !.EventData[1].Cmp2 = Flip(@, b)] \in EvtFilterTblEntry
  <1>1. e.EventData \in [DataBytes -> DataTest] /\ 1 \in DataBytes /\ e.EventData[1] \in DataTest
    BY DEF EvtFilterTblEntry, DataBytes
  <1>2. \A s \in Byte : Flip(s, b) \in Byte
    BY DEF Flip, Byte
  <1>3. /\ [e.EventData[1] EXCEPT !.ANDMask = Flip(@, b)] \in DataTest
        /\ [e.EventData[1] EXCEPT !.Cmp1 = Flip(@, b)] \in DataTest
        /\ [e.EventData[1] EXCEPT !.Cmp2 = Flip(@, b)] \in DataTest
    BY <1>1, <1>2 DEF DataTest
  <1>4. \A t \in DataTest : [e EXCEPT !.EventData = [e.EventData EXCEPT ![1] = t]] \in EvtFilterTblEntry
    BY <1>1 DEF EvtFilterTblEntry
  <1>5. QED
    BY <1>3, <1>4

THEOREM TypeCorrect == Spec => []TypeOK
  <1>1. Init => TypeOK
    BY FilterAssumption DEF Init, TypeOK, EvtFilterTblEntry, EventMsgData, DataTest, Byte, Action, AnyValue
  <1>2. TypeOK /\ [Next]_vars => TypeOK'
    <2> SUFFICES ASSUME TypeOK, [Next]_vars
                 PROVE  TypeOK'
      OBVIOUS
    <2>1. CASE WriteSensorType /\ UNCHANGED eventMsg
      BY <2>1 DEF TypeOK, WriteSensorType, EvtFilterTblEntry
    <2>2. CASE WriteFilterConfig /\ UNCHANGED eventMsg
      BY <2>2 DEF TypeOK, WriteFilterConfig, EvtFilterTblEntry
    <2>3. CASE WriteOffsetMask /\ UNCHANGED eventMsg
      BY <2>3 DEF TypeOK, WriteOffsetMask, EvtFilterTblEntry, Flip
    <2>4. CASE WriteDataTest /\ UNCHANGED eventMsg
      BY <2>4, TestTyped DEF TypeOK, WriteDataTest
    <2>5. CASE NextEvent
      <3>1. PICK b \in Bits : eventMsg' = [eventMsg EXCEPT !.eventData[1] = Flip(@, b)]
        BY <2>5 DEF NextEvent
      <3>2. \A s \in Byte : Flip(s, b) \in Byte
        BY DEF Flip, Byte
      <3>3. eventMsg' \in EventMsgData
        BY <3>1, <3>2 DEF TypeOK, EventMsgData, DataBytes
      <3>4. QED
        BY <2>5, <3>3 DEF TypeOK, NextEvent
    <2>6. CASE UNCHANGED vars
      BY <2>6 DEF TypeOK, vars
    <2>7. QED
      BY <2>1, <2>2, <2>3, <2>4, <2>5, <2>6 DEF Next, WriteRow
  <1>3. QED
    BY <1>1, <1>2, PTL DEF Spec

(***************************************************************************)
(* pefEveDataMatch means what DataTestHolds says for the tests of every    *)
(* row a user can write and the data bytes of every event.                 *)
(***************************************************************************)
THEOREM MatchMeetsDefinition == Spec => []DataMatchMeetsDefinition
  <1>1. TypeOK => DataMatchMeetsDefinition
    <2>1. SUFFICES ASSUME TypeOK, NEW i \in DataBytes
                   PROVE  pefEveDataMatch(eventMsg.eventData[i], entry.EventData[i].ANDMask,
                                          entry.EventData[i].Cmp1, entry.EventData[i].Cmp2)
                            <=> DataTestHolds(eventMsg.eventData[i], entry.EventData[i].ANDMask,
                                              entry.EventData[i].Cmp1, entry.EventData[i].Cmp2)
      BY DEF DataMatchMeetsDefinition
    <2>2. eventMsg.eventData[i] \in Byte /\ entry.EventData[i] \in DataTest
      BY <2>1 DEF TypeOK, EventMsgData, EvtFilterTblEntry
    <2>3. QED
      BY <2>2, DataMatchCorrect DEF DataTest
  <1>2. QED
    BY <1>1, TypeCorrect, PTL

(***************************************************************************)
(* No step that changes only a blocked bit of event data 1 changes whether *)
(* the row matches.                                                        *)
(***************************************************************************)
THEOREM BlockedBitsNeverDecide == Spec => MaskedBitsIgnored
  <1> DEFINE Ignored ==
          \A b \in Bits \ (entry.EventData[1].ANDMask \cup OffsetBits) :
              entry' = entry /\ eventMsg' = [eventMsg EXCEPT !.eventData[1] = Flip(@, b)]
                  => EntryMatches(entry, eventMsg)' = EntryMatches(entry, eventMsg)
  <1>1. TypeOK /\ [Next]_vars => [Ignored]_vars
    <2>1. SUFFICES ASSUME TypeOK, NEW b \in Bits \ (entry.EventData[1].ANDMask \cup OffsetBits),
                          entry' = entry, eventMsg' = [eventMsg EXCEPT !.eventData[1] = Flip(@, b)]
                   PROVE  EntryMatches(entry, eventMsg)' = EntryMatches(entry, eventMsg)
      OBVIOUS
    <2>2. EntryMatches(entry, [eventMsg EXCEPT !.eventData[1] = Flip(@, b)])
            <=> EntryMatches(entry, eventMsg)
      BY <2>1, BlockedBitIgnored DEF TypeOK
    <2>3. EntryMatches(entry, eventMsg)' = EntryMatches(entry', eventMsg')
      OBVIOUS
    <2>4. EntryMatches(entry, eventMsg) \in BOOLEAN
          /\ EntryMatches(entry, [eventMsg EXCEPT !.eventData[1] = Flip(@, b)]) \in BOOLEAN
      BY DEF EntryMatches
    <2>5. QED
      BY <2>1, <2>2, <2>3, <2>4
  <1>2. QED
    BY <1>1, TypeCorrect, PTL DEF Spec, MaskedBitsIgnored
================================================================================
