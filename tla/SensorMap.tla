-------------------------------- MODULE SensorMap --------------------------------
(***************************************************************************)
(* Sensor numbers (sdrutils.hpp).  Each daemon keeps two caches of its     *)
(* own: the mapper's tree of sensors, which a signal that a sensor came or *)
(* went resets, and the map of numbers built from the tree.  A lookup      *)
(* fetches the tree if there is none, and builds the map if the tree is    *)
(* new.  The build either numbers the sensors in the order of their paths  *)
(* or, with FEATURE_STATIC_SENSOR_NUMBER, asks each sensor for its number. *)
(*                                                                         *)
(* pef-configuration looks numbers up to check the SensorNum column of the *)
(* filter table, pef-event-filtering to name the sensor in an alert.       *)
(***************************************************************************)
EXTENDS Integers, FiniteSets, Functions

CONSTANTS
    Configuration, Filtering,   \* the two daemons
    Sensor,         \* sensors, as numbers in the order of their paths
    Pmt,            \* those that only the filtered service implements
    Number,         \* numbers that a sensor can declare, up to 0xFFFF
    LunSize,        \* numbers of one LUN (256)
    IndexSize,      \* values of sensorUpdatedIndex (65536)
    Declared,       \* number each sensor declares
    Missing,        \* no number, or one of the wrong type
    Builds,         \* builds: TRUE is FEATURE_STATIC_SENSOR_NUMBER
    None,           \* no tree, map or number
    Boot,           \* sensors at the start
    MaxEdits        \* bound: sensors that come or go, and restarts

Process == {Configuration, Filtering}

maxSensorsPerLUN == LunSize - 1
maxIPMISensors == maxSensorsPerLUN * 3
lun1Sensor0 == LunSize
lun3Sensor0 == 3 * LunSize
reservedSensorNumber == LunSize - 1

Assignable == UNION {(lun * LunSize)..(lun * LunSize + LunSize - 2) : lun \in {0, 1, 3}}

ASSUME SensorAssumption ==
    /\ Sensor \subseteq Nat /\ IsFiniteSet(Sensor) /\ Pmt \subseteq Sensor
    /\ LunSize \in Nat \ {0, 1} /\ IndexSize \in Nat \ {0, 1}
    /\ Number \subseteq Nat /\ Declared \in [Sensor -> Number \cup {Missing}]
    /\ Missing \notin Nat
    /\ \A S \in SUBSET Sensor : None # S
    /\ \A N \in SUBSET Assignable : None \notin [N -> Sensor]
    /\ Builds \subseteq BOOLEAN /\ Boot \subseteq SUBSET Sensor
    /\ MaxEdits \in Nat
    /\ Configuration # Filtering

VARIABLES
    static,     \* the build
    sensors,    \* what the mapper knows
    edits,
    pending,    \* signals not yet handled, for each process
    tree,       \* sensorTreePtr: a set of sensors, or None
    index, prev,    \* sensorUpdatedIndex, prevSensorUpdatedIndex
    map,        \* sensorNumMapPtr: number -> sensor, or None
    pc,         \* "idle", "build": numbering, "serve": the lookup has its map
    rest,       \* sensors left to number
    number,     \* sensorNum of the next
    row,        \* the number in a filter row, or None
    \* history
    meant,      \* the sensor it named when it was written
    steady,     \* it was written from a complete map, and no sensor came or went since
    gap         \* what is missing in a process's caches

world == <<static, sensors, edits>>
caches == <<pending, tree, index, prev>>
build == <<map, rest, number>>
filter == <<row, meant, steady>>
vars == <<world, caches, build, filter, pc, gap>>

NoNumbers == [n \in {} |-> 0]

Complete(p) == pending[p] = 0 /\ gap[p] = {}

--------------------------------------------------------------------------------
(***************************************************************************)
(* Sensors come and go; each process hears of it in its event loop, that   *)
(* is, not while a lookup is under way.  (Before the first lookup there is *)
(* no match, and no tree that a signal could reset.)                       *)
(***************************************************************************)
Edit == edits < MaxEdits /\ edits' = edits + 1

\* Mutant: no match for InterfacesRemoved.
MutantMatched == {"InterfacesAdded"}
Matched == {"InterfacesAdded", "InterfacesRemoved"}

SensorChanges ==
    /\ Edit
    /\ \E s \in Sensor :
          /\ sensors' = IF s \in sensors THEN sensors \ {s} ELSE sensors \cup {s}
          /\ pending' = IF (IF s \in sensors THEN "InterfacesRemoved" ELSE "InterfacesAdded") \in Matched
                          THEN [p \in Process |-> pending[p] + 1] ELSE pending
    /\ steady' = FALSE
    /\ UNCHANGED <<static, tree, index, prev, build, row, meant, pc, gap>>

HandleSignal(p) ==
    /\ pc[p] = "idle" /\ pending[p] > 0
    /\ pending' = [pending EXCEPT ![p] = @ - 1]
    /\ tree' = [tree EXCEPT ![p] = None]
    /\ gap' = [gap EXCEPT ![p] = {}]
    /\ UNCHANGED <<world, index, prev, build, filter, pc>>

Restart(p) ==
    /\ Edit
    /\ pending' = [pending EXCEPT ![p] = 0]
    /\ tree' = [tree EXCEPT ![p] = None] /\ map' = [map EXCEPT ![p] = None]
    /\ index' = [index EXCEPT ![p] = 0] /\ prev' = [prev EXCEPT ![p] = 0]
    /\ rest' = [rest EXCEPT ![p] = {}] /\ number' = [number EXCEPT ![p] = 0]
    /\ pc' = [pc EXCEPT ![p] = "idle"] /\ gap' = [gap EXCEPT ![p] = {}]
    /\ UNCHANGED <<static, sensors, filter>>

--------------------------------------------------------------------------------
filterSensors(t) == t \ Pmt

\* The query failed: an empty tree is cached, and the lookup has no map.
QueryFails(p) ==
    /\ pc[p] = "idle" /\ tree[p] = None
    /\ tree' = [tree EXCEPT ![p] = {}]
    /\ gap' = [gap EXCEPT ![p] = @ \cup {"tree"}]
    /\ UNCHANGED <<world, pending, index, prev, build, filter, pc>>

\* Mutant: the index is not counted up, so that the old map is served.
MutantGetSensorSubtree(p) ==
    /\ pc[p] = "idle"
    /\ tree' = [tree EXCEPT ![p] = IF @ = None THEN filterSensors(sensors) ELSE @]
    /\ UNCHANGED index

getSensorSubtree(p) ==
    /\ pc[p] = "idle"
    /\ IF tree[p] # None THEN UNCHANGED <<tree, index>>
       ELSE /\ tree' = [tree EXCEPT ![p] = filterSensors(sensors)]
            /\ index' = [index EXCEPT ![p] = IF @ = IndexSize - 1 THEN 0 ELSE @ + 1]

\* The map is served as it is, or built.
getSensorNumMap(p) ==
    /\ getSensorSubtree(p)
    /\ \/ /\ index'[p] = prev[p] /\ map[p] # None
          /\ pc' = [pc EXCEPT ![p] = "serve"]
          /\ UNCHANGED <<prev, build>>
       \/ /\ index'[p] # prev[p] \/ map[p] = None
          /\ prev' = [prev EXCEPT ![p] = index'[p]]
          /\ map' = [map EXCEPT ![p] = NoNumbers]
          /\ rest' = [rest EXCEPT ![p] = tree'[p]]
          /\ number' = [number EXCEPT ![p] = 0]
          /\ pc' = [pc EXCEPT ![p] = "build"]
    /\ UNCHANGED <<world, pending, filter, gap>>

--------------------------------------------------------------------------------
(***************************************************************************)
(* Building the map, one sensor after the other in the order of paths.     *)
(***************************************************************************)
First(s, S) == s \in S /\ \A t \in S : s <= t

Insert(m, n, s) == [k \in DOMAIN m \cup {n} |-> IF k = n THEN s ELSE m[k]]

\* Mutant: LUN 2 is not skipped.
MutantNextNumber(n) ==
    CASE n + 1 = maxSensorsPerLUN -> lun1Sensor0
      [] n + 1 = lun1Sensor0 + maxSensorsPerLUN -> lun1Sensor0 + LunSize
      [] OTHER -> n + 1

\* The number after n: LUN 0, LUN 1, LUN 3, without the last of each.
NextNumber(n) ==
    CASE n + 1 = maxSensorsPerLUN -> lun1Sensor0
      [] n + 1 = lun1Sensor0 + maxSensorsPerLUN -> lun3Sensor0
      [] OTHER -> n + 1

\* Mutant: the numbers end one sensor early.
MutantExhausted(n) == n + 2 = lun3Sensor0 + maxSensorsPerLUN

Exhausted(n) == n + 1 = lun3Sensor0 + maxSensorsPerLUN

\* After the last number the loop throws; the map it filled stays.
NumberSensor(p) ==
    /\ pc[p] = "build" /\ ~static
    /\ \E s \in rest[p] :
          /\ First(s, rest[p])
          /\ map' = [map EXCEPT ![p] = Insert(@, number[p], s)]
          /\ IF Exhausted(number[p])
               THEN /\ pc' = [pc EXCEPT ![p] = "idle"]
                    /\ gap' = [gap EXCEPT ![p] = @ \cup {"map"}]
                    /\ rest' = [rest EXCEPT ![p] = {}]
                    /\ UNCHANGED number
               ELSE /\ rest' = [rest EXCEPT ![p] = @ \ {s}]
                    /\ number' = [number EXCEPT ![p] = NextNumber(@)]
                    /\ UNCHANGED <<pc, gap>>
    /\ UNCHANGED <<world, caches, filter>>

Usable(n) ==
    /\ n # Missing
    /\ n % LunSize # reservedSensorNumber
    /\ n \div LunSize # 2
    /\ n <= lun3Sensor0 + maxSensorsPerLUN - 1

\* A sensor that cannot be asked, has no number of use, or has another's is skipped.
AskSensor(p) ==
    /\ pc[p] = "build" /\ static
    /\ \E s \in rest[p] :
          /\ First(s, rest[p])
          /\ rest' = [rest EXCEPT ![p] = @ \ {s}]
          /\ \/ /\ map' = [map EXCEPT ![p] =
                              IF Usable(Declared[s]) /\ Declared[s] \notin DOMAIN @
                                THEN Insert(@, Declared[s], s) ELSE @]
                /\ UNCHANGED gap
             \/ gap' = [gap EXCEPT ![p] = @ \cup {"map"}] /\ UNCHANGED map
    /\ UNCHANGED <<world, caches, number, filter, pc>>

BuildEnds(p) ==
    /\ pc[p] = "build" /\ rest[p] = {}
    /\ pc' = [pc EXCEPT ![p] = "serve"]
    /\ UNCHANGED <<world, caches, build, filter, gap>>

--------------------------------------------------------------------------------
\* The SensorNum setter: a number that is in the map.  Numbers are bytes here.
SetSensorNum ==
    /\ pc[Configuration] = "serve"
    /\ \E n \in DOMAIN map[Configuration] :
          n < LunSize /\ row' = n /\ meant' = map[Configuration][n]
    /\ steady' = Complete(Configuration)
    /\ pc' = [pc EXCEPT ![Configuration] = "idle"]
    /\ UNCHANGED <<world, caches, build, gap>>

\* Refused; or another use of the map, getPathFromSensorNumber for one.
Return(p) ==
    /\ pc[p] = "serve" /\ pc' = [pc EXCEPT ![p] = "idle"]
    /\ UNCHANGED <<world, caches, build, filter, gap>>

Lookup(p) ==
    \/ QueryFails(p) \/ getSensorNumMap(p)
    \/ NumberSensor(p) \/ AskSensor(p) \/ BuildEnds(p)

Init ==
    /\ static \in Builds /\ sensors \in Boot /\ edits = 0
    /\ pending = [p \in Process |-> 0] /\ tree = [p \in Process |-> None]
    /\ index = [p \in Process |-> 0] /\ prev = [p \in Process |-> 0]
    /\ map = [p \in Process |-> None] /\ rest = [p \in Process |-> {}]
    /\ number = [p \in Process |-> 0] /\ pc = [p \in Process |-> "idle"]
    /\ gap = [p \in Process |-> {}]
    /\ row = None /\ meant = None /\ steady = FALSE

Next ==
    \/ SensorChanges \/ SetSensorNum
    \/ \E p \in Process : HandleSignal(p) \/ Restart(p) \/ Lookup(p) \/ Return(p)

Spec == Init /\ [][Next]_vars

--------------------------------------------------------------------------------
(***************************************************************************)
(* A lookup is answered from the sensors of now.  The map it gets has every *)
(* sensor that the mapper knows (that declares a number of use), and no     *)
(* other, unless a signal is still to be handled, or, since the last one,   *)
(* the mapper or a sensor could not be asked or numbers ran out.            *)
(***************************************************************************)
ServedMapIsCurrent ==
    \A p \in Process : pc[p] = "serve" /\ Complete(p) =>
        LET known == filterSensors(sensors)
        IN  IF static
              THEN DOMAIN map[p] = {Declared[s] : s \in {t \in known : Usable(Declared[t])}}
                   /\ Range(map[p]) \subseteq known
              ELSE Range(map[p]) = known

(***************************************************************************)
(* What the map holds are sensor numbers: of LUN 0, 1 or 3, never the       *)
(* reserved one, one for each sensor; and in the static build the one that  *)
(* the sensor declares.                                                     *)
(***************************************************************************)
NumbersValid ==
    \A p \in Process : map[p] # None =>
        /\ DOMAIN map[p] \subseteq Assignable
        /\ static => \A n \in DOMAIN map[p] : Declared[map[p][n]] = n
        /\ \A n, k \in DOMAIN map[p] : map[p][n] = map[p][k] => n = k

(***************************************************************************)
(* Both daemons mean the same sensor.  A number that pef-configuration      *)
(* accepted in a filter row names, in pef-event-filtering's alerts, the     *)
(* sensor that it named then, if the caches of both were complete and no    *)
(* sensor came or went in between.                                          *)
(***************************************************************************)
RowNamesItsSensor ==
    pc[Filtering] = "serve" /\ row # None /\ steady /\ Complete(Filtering)
        => row \in DOMAIN map[Filtering] /\ map[Filtering][row] = meant

(***************************************************************************)
(* Numbers run out, and the lookup throws, only once they are all given:    *)
(* the default build leaves no sensor of a smaller tree without a number.   *)
(***************************************************************************)
ExhaustedOnlyWhenFull ==
    \A p \in Process : "map" \in gap[p] /\ ~static =>
        Cardinality(DOMAIN map[p]) = maxIPMISensors

(***************************************************************************)
(* "Maximum number of IPMI sensors exceeded": what the exception says       *)
(* (sdrutils.hpp:515) of the tree that was numbered.                        *)
(***************************************************************************)
ThrowsOnlyBeyondMaximum ==
    \A p \in Process : "map" \in gap[p] /\ ~static => Cardinality(tree[p]) > maxIPMISensors
================================================================================
