------------------------------ MODULE EventFilter ------------------------------
(***************************************************************************)
(* The event filter of pef-event-filtering: whether one row of the event   *)
(* filter table matches one event (eventFilteringProcess and               *)
(* pefEveDataMatch of pef_action.cpp).  A byte that is tested bit by bit   *)
(* is the set of its bits that are 1; a byte that is only compared is a    *)
(* member of Code.  The 16-bit offset mask is the set of low nibbles of    *)
(* event data 1 whose bit is set, a nibble being again a set of bits.      *)
(***************************************************************************)
EXTENDS Naturals

CONSTANTS
    Bits,       \* the bit positions of a byte
    OffsetBits, \* those of its low nibble
    Code,       \* bytes that are compared as a whole
    Wildcard,   \* 0xFF
    ZeroCode    \* 0x00

ASSUME FilterAssumption ==
    /\ Bits # {}
    /\ OffsetBits \subseteq Bits
    /\ {Wildcard, ZeroCode} \subseteq Code
    /\ Wildcard # ZeroCode

Byte == SUBSET Bits
DataBytes == 1..3

(***************************************************************************)
(* A filter's test of one event data byte, the part of a table row that    *)
(* eventFilteringProcess uses, and the event doPefTask is called with.     *)
(* FilterConfig is its bit 0x80 (the filter is enabled); EvtFilterAction   *)
(* the set of actions whose bit is set; AlertPolicyNum its low nibble.     *)
(***************************************************************************)
Action == {"alert", "powerOff", "reset", "powerCycle"}
DataTest == [ANDMask : Byte, Cmp1 : Byte, Cmp2 : Byte]

EvtFilterTblEntry ==
    [FilterConfig : BOOLEAN,
     GenIDByte1 : Code, GenIDByte2 : Code, SensorType : Code,
     SensorNum : Code, EventTrigger : Code,
     EventData : [DataBytes -> DataTest],
     EventData1OffsetMask : SUBSET SUBSET OffsetBits,
     EvtFilterAction : SUBSET Action, AlertPolicyNum : Nat]

EventMsgData ==
    [recordId : Nat,
     generatorId1 : Code, generatorId2 : Code, sensorType : Code,
     sensorNum : Code, eventType : Code,
     eventData : [DataBytes -> Byte]]

--------------------------------------------------------------------------------
\* Mutants of pefEveDataMatch: the complement of Cmp1 not taken, the AND mask
\* not applied to the bits that Cmp1 leaves out.
MutantKeepsExactBits(value, andMask, cmp1, cmp2) ==
    LET temp1 == value \cap andMask
    IN  /\ temp1 \cap cmp1 = cmp2 \cap cmp1
        /\ cmp1 = Bits \/ temp1 \cap cmp2 # {} \/ (Bits \ (temp1 \cup cmp1)) \ cmp2 # {}
MutantUnmasked(value, andMask, cmp1, cmp2) ==
    LET temp2 == value \ cmp1
    IN  /\ value \cap andMask \cap cmp1 = cmp2 \cap cmp1
        /\ cmp1 = Bits \/ temp2 \cap cmp2 # {} \/ (Bits \ (temp2 \cup cmp1)) \ cmp2 # {}

(***************************************************************************)
(* pefEveDataMatch: the bits Cmp1 selects must equal Cmp2; of the others,  *)
(* one that is 1 in both the masked value and Cmp2 settles the match, and  *)
(* failing that one that is 0 in both does.                                *)
(***************************************************************************)
pefEveDataMatch(value, andMask, cmp1, cmp2) ==
    LET temp1 == value \cap andMask
        temp2 == temp1 \ cmp1
        setInBoth   == cmp2 # {} /\ temp2 \cap cmp2 # {}
        clearInBoth == (Bits \ (temp2 \cup cmp1)) \ cmp2 # {}
    IN  /\ temp1 \cap cmp1 = cmp2 \cap cmp1
        /\ \/ cmp1 = Bits
           \/ setInBoth
           \/ cmp2 # Bits /\ clearInBoth

\* A comparison in which 0xFF, and only 0xFF, matches every value.
CodeMatch(filterByte, eventByte) == filterByte = Wildcard \/ filterByte = eventByte

HeaderMatch(entry, eventMsg) ==
    /\ CodeMatch(entry.GenIDByte1, eventMsg.generatorId1)
    /\ CodeMatch(entry.GenIDByte2, eventMsg.generatorId2)
    /\ eventMsg.sensorType # ZeroCode
    /\ CodeMatch(entry.SensorType, eventMsg.sensorType)
    /\ CodeMatch(entry.SensorNum, eventMsg.sensorNum)
    /\ CodeMatch(entry.EventTrigger, eventMsg.eventType)

\* OffsetMask << (eventData[0] & 0x0F), tested against EventData1OffsetMask.
OffsetMatch(entry, eventMsg) ==
    (eventMsg.eventData[1] \cap OffsetBits) \in entry.EventData1OffsetMask

\* The body of the row loop: the row is pushed to matchedEveFltEntries.
EntryMatches(entry, eventMsg) ==
    /\ entry.FilterConfig
    /\ HeaderMatch(entry, eventMsg)
    /\ \A i \in DataBytes :
          pefEveDataMatch(eventMsg.eventData[i], entry.EventData[i].ANDMask,
                          entry.EventData[i].Cmp1, entry.EventData[i].Cmp2)
    /\ OffsetMatch(entry, eventMsg)

--------------------------------------------------------------------------------
(***************************************************************************)
(* What a test of an event data byte means: after masking, every bit in    *)
(* Cmp1 equals that of Cmp2, and if any bit is left out of Cmp1, at least  *)
(* one such bit equals that of Cmp2.                                       *)
(***************************************************************************)
Agree(b, value, andMask, cmp2) == (b \in value /\ b \in andMask) <=> b \in cmp2

DataTestHolds(value, andMask, cmp1, cmp2) ==
    /\ \A b \in cmp1 : Agree(b, value, andMask, cmp2)
    /\ cmp1 # Bits => \E b \in Bits \ cmp1 : Agree(b, value, andMask, cmp2)
================================================================================
