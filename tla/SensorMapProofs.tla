----------------------------- MODULE SensorMapProofs -----------------------------
(***************************************************************************)
(* Theorems about sensor numbers, for any set of sensors, any size of a    *)
(* LUN and any number of changes and restarts, in both builds.             *)
(***************************************************************************)
EXTENDS SensorMap, FiniteSetTheorems, TLAPS

TypeOK ==
    /\ static \in BOOLEAN /\ sensors \subseteq Sensor
    /\ pending \in [Process -> Nat]
    /\ tree \in [Process -> {None} \cup SUBSET Sensor]
    /\ index \in [Process -> 0..(IndexSize - 1)]
    /\ prev \in [Process -> 0..(IndexSize - 1)]
    /\ rest \in [Process -> SUBSET Sensor]
    /\ number \in [Process -> Nat]
    /\ pc \in [Process -> {"idle", "build", "serve"}]
    /\ gap \in [Process -> SUBSET {"tree", "map"}]
    /\ DOMAIN map = Process

HasMap(p) == pc[p] # "idle" \/ map[p] # None

\* The cached tree is that of now, or the process will hear that it is not.
TreeCurrent(p) ==
    pending[p] = 0 /\ tree[p] # None /\ "tree" \notin gap[p] => tree[p] = filterSensors(sensors)

\* Where the lookup is: the index is counted and taken over in one lookup.
Placed(p) ==
    /\ index[p] = prev[p]
    /\ pc[p] # "idle" => tree[p] # None
    /\ IF pc[p] = "build" THEN rest[p] \subseteq tree[p] ELSE rest[p] = {}

\* One number for one sensor.
Numbers(p) ==
    HasMap(p) =>
        /\ DOMAIN map[p] \subseteq Assignable
        /\ \A n \in DOMAIN map[p] : static => Declared[map[p][n]] = n
        /\ \A n, k \in DOMAIN map[p] : map[p][n] = map[p][k] => n = k

\* The next number is of use, and beyond all that are given.
NextFree(p) ==
    pc[p] = "build" =>
        /\ ~static => /\ number[p] \in Assignable
                      /\ \A n \in DOMAIN map[p] : n < number[p]
        /\ \A n \in DOMAIN map[p] : map[p][n] \notin rest[p]

\* The map has the sensors of the tree that were visited.
Built(p) ==
    HasMap(p) /\ tree[p] # None /\ gap[p] = {} =>
        LET done == tree[p] \ rest[p]
        IN  IF static
              THEN /\ DOMAIN map[p] = {Declared[s] : s \in {t \in done : Usable(Declared[t])}}
                   /\ \A n \in DOMAIN map[p] : map[p][n] \in done
              ELSE {map[p][n] : n \in DOMAIN map[p]} = done

PInv(p) == TreeCurrent(p) /\ Placed(p) /\ Numbers(p) /\ NextFree(p) /\ Built(p)

IInv == TypeOK /\ \A p \in Process : PInv(p)

--------------------------------------------------------------------------------
\* The numbers of a LUN.
LEMMA AssignableNumbers ==
    Assignable = {n \in Nat : \/ n <= LunSize - 2
                              \/ LunSize <= n /\ n <= 2 * LunSize - 2
                              \/ 3 * LunSize <= n /\ n <= 4 * LunSize - 2}
<1>1. LunSize \in Nat /\ LunSize >= 2
  BY SensorAssumption
<1>2. Assignable = (0 * LunSize)..(0 * LunSize + LunSize - 2)
                     \cup (1 * LunSize)..(1 * LunSize + LunSize - 2)
                     \cup (3 * LunSize)..(3 * LunSize + LunSize - 2)
  BY <1>1 DEF Assignable
<1>. QED
  BY <1>1, <1>2

\* The loop goes from one assignable number to a larger one, or throws.
LEMMA NextIsAssignable ==
    ASSUME NEW n \in Assignable, ~Exhausted(n)
    PROVE  NextNumber(n) \in Assignable /\ NextNumber(n) > n
<1>1. LunSize \in Nat /\ LunSize >= 2 /\ n \in Nat
  BY SensorAssumption, AssignableNumbers
<1>2. CASE n + 1 = LunSize - 1
  <2>1. NextNumber(n) = LunSize
    BY <1>1, <1>2 DEF NextNumber, maxSensorsPerLUN, lun1Sensor0
  <2>. QED  BY <1>1, <1>2, <2>1, AssignableNumbers
<1>3. CASE n + 1 # LunSize - 1 /\ n + 1 = LunSize + (LunSize - 1)
  <2>1. NextNumber(n) = 3 * LunSize
    BY <1>3 DEF NextNumber, maxSensorsPerLUN, lun1Sensor0, lun3Sensor0
  <2>. QED  BY <1>1, <1>3, <2>1, AssignableNumbers
<1>4. CASE n + 1 # LunSize - 1 /\ n + 1 # LunSize + (LunSize - 1)
  <2>1. NextNumber(n) = n + 1
    BY <1>4 DEF NextNumber, maxSensorsPerLUN, lun1Sensor0
  <2>2. n + 1 # 3 * LunSize + (LunSize - 1)
    BY DEF Exhausted, lun3Sensor0, maxSensorsPerLUN
  <2>. QED  BY <1>1, <1>4, <2>1, <2>2, AssignableNumbers
<1>. QED  BY <1>2, <1>3, <1>4

\* A declared number that passes the checks is one the default build could give.
LEMMA UsableIsAssignable ==
    ASSUME NEW n \in Nat, Usable(n)
    PROVE  n \in Assignable
<1>1. LunSize \in Nat /\ LunSize >= 2
  BY SensorAssumption
<1>2. n \div LunSize \in Nat /\ n % LunSize \in 0..(LunSize - 1)
      /\ n = LunSize * (n \div LunSize) + (n % LunSize)
  <2>1. n \div LunSize \in Int
    BY <1>1
  <2>2. n % LunSize \in 0..(LunSize - 1)
    BY <1>1
  <2>3. n = LunSize * (n \div LunSize) + (n % LunSize)
    BY <1>1
  <2>4. n \div LunSize >= 0
    BY <1>1, <2>1, <2>2, <2>3
  <2>. QED  BY <2>1, <2>2, <2>3, <2>4
<1>3. n <= 4 * LunSize - 2 /\ n % LunSize # LunSize - 1 /\ n \div LunSize # 2
  BY <1>1 DEF Usable, lun3Sensor0, maxSensorsPerLUN, reservedSensorNumber
<1> DEFINE q == n \div LunSize
           r == n % LunSize
<1>4. q < 4
  <2> SUFFICES ASSUME q >= 4 PROVE FALSE
    BY <1>2
  <2>1. LunSize * q >= LunSize * 4
    BY <1>1, <1>2
  <2>. QED  BY <1>1, <1>2, <1>3, <2>1
<1>5. q \in {0, 1, 3}
  BY <1>2, <1>3, <1>4
<1>. QED
  BY <1>1, <1>2, <1>3, <1>5, AssignableNumbers

\* What a step of one process leaves alone of another's state.
LEMMA OthersKeep ==
    ASSUME NEW q \in Process, PInv(q), static' = static, sensors' = sensors,
           pending'[q] = pending[q], tree'[q] = tree[q], index'[q] = index[q],
           prev'[q] = prev[q], map'[q] = map[q], rest'[q] = rest[q],
           number'[q] = number[q], pc'[q] = pc[q], gap'[q] = gap[q]
    PROVE  PInv(q)'
BY DEF PInv, TreeCurrent, Placed, Numbers, NextFree, Built, HasMap

LEMMA InitInv == Init => IInv
<1> SUFFICES ASSUME Init PROVE IInv
  OBVIOUS
<1>1. IndexSize \in Nat /\ IndexSize >= 2
  BY SensorAssumption
<1>2. TypeOK
  BY <1>1, SensorAssumption DEF Init, TypeOK
<1>. QED
  BY <1>2 DEF Init, IInv, PInv, TreeCurrent, Placed, Numbers, NextFree, Built, HasMap

--------------------------------------------------------------------------------
\* Sensors come and go: the process has a signal to handle.
LEMMA ChangeStep ==
    ASSUME IInv, SensorChanges
    PROVE  IInv'
<1>1. sensors' \subseteq Sensor
  BY DEF SensorChanges, IInv, TypeOK
<1>2. pending' = [p \in Process |-> pending[p] + 1]
  BY DEF SensorChanges, Matched
<1>3. TypeOK'
  BY <1>1, <1>2 DEF SensorChanges, build, IInv, TypeOK
<1>4. ASSUME NEW p \in Process PROVE PInv(p)'
  <2>1. pending'[p] # 0
    BY <1>2 DEF IInv, TypeOK
  <2>. QED
    BY <2>1 DEF SensorChanges, build, IInv, PInv, TreeCurrent, Placed, Numbers, NextFree,
                Built, HasMap
<1>. QED  BY <1>3, <1>4 DEF IInv

LEMMA SignalStep ==
    ASSUME IInv, NEW p \in Process, HandleSignal(p)
    PROVE  IInv'
<1>1. TypeOK'
  BY DEF HandleSignal, world, build, IInv, TypeOK
<1>2. ASSUME NEW q \in Process, q # p PROVE PInv(q)'
  BY <1>2, OthersKeep DEF HandleSignal, world, build, IInv, TypeOK
<1>3. PInv(p)'
  <2>1. tree'[p] = None /\ gap'[p] = {} /\ pc'[p] = "idle" /\ pc[p] = "idle"
    BY DEF HandleSignal, IInv, TypeOK
  <2>. QED
    BY <2>1 DEF HandleSignal, world, build, IInv, PInv, TreeCurrent, Placed, Numbers,
                NextFree, Built, HasMap
<1>. QED  BY <1>1, <1>2, <1>3 DEF IInv

LEMMA RestartStep ==
    ASSUME IInv, NEW p \in Process, Restart(p)
    PROVE  IInv'
<1>1. TypeOK'
  BY SensorAssumption DEF Restart, filter, IInv, TypeOK
<1>2. ASSUME NEW q \in Process, q # p PROVE PInv(q)'
  BY <1>2, OthersKeep DEF Restart, filter, IInv, TypeOK
<1>3. PInv(p)'
  BY DEF Restart, filter, IInv, TypeOK, PInv, TreeCurrent, Placed, Numbers, NextFree,
         Built, HasMap
<1>. QED  BY <1>1, <1>2, <1>3 DEF IInv

LEMMA QueryFailsStep ==
    ASSUME IInv, NEW p \in Process, QueryFails(p)
    PROVE  IInv'
<1>1. TypeOK'
  BY DEF QueryFails, world, build, filter, IInv, TypeOK
<1>2. ASSUME NEW q \in Process, q # p PROVE PInv(q)'
  BY <1>2, OthersKeep DEF QueryFails, world, build, filter, IInv, TypeOK
<1>3. PInv(p)'
  <2>1. "tree" \in gap'[p]
    BY DEF QueryFails, IInv, TypeOK
  <2>. QED
    BY <2>1 DEF QueryFails, world, build, filter, IInv, PInv, TreeCurrent, Placed, Numbers,
                NextFree, Built, HasMap
<1>. QED  BY <1>1, <1>2, <1>3 DEF IInv

\* The lookup begins: a new tree has a new index, so that its map is built.
LEMMA LookupStep ==
    ASSUME IInv, NEW p \in Process, getSensorNumMap(p)
    PROVE  IInv'
<1>1. /\ tree'[p] \in SUBSET Sensor /\ tree'[p] # None
      /\ tree[p] # None => tree'[p] = tree[p] /\ index'[p] = index[p]
      /\ tree[p] = None => tree'[p] = filterSensors(sensors) /\ index'[p] # index[p]
      /\ index'[p] \in 0..(IndexSize - 1)
  <2>0. getSensorSubtree(p)
    BY DEF getSensorNumMap
  <2>1. CASE tree[p] # None
    BY <2>0, <2>1 DEF getSensorSubtree, IInv, TypeOK
  <2>2. CASE tree[p] = None
    <3>1. tree'[p] = filterSensors(sensors)
      BY <2>0, <2>2 DEF getSensorSubtree, IInv, TypeOK
    <3>2. filterSensors(sensors) \in SUBSET Sensor
      BY DEF filterSensors, IInv, TypeOK
    <3>3. index'[p] = IF index[p] = IndexSize - 1 THEN 0 ELSE index[p] + 1
      BY <2>0, <2>2 DEF getSensorSubtree, IInv, TypeOK
    <3>4. index[p] \in 0..(IndexSize - 1) /\ IndexSize \in Nat /\ IndexSize >= 2
      BY SensorAssumption DEF IInv, TypeOK
    <3>5. index'[p] \in 0..(IndexSize - 1) /\ index'[p] # index[p]
      BY <3>3, <3>4
    <3>6. filterSensors(sensors) # None
      BY <3>2, SensorAssumption
    <3>. QED  BY <2>2, <3>1, <3>2, <3>5, <3>6
  <2>. QED  BY <2>1, <2>2
<1>2. /\ tree' \in [Process -> {None} \cup SUBSET Sensor]
      /\ index' \in [Process -> 0..(IndexSize - 1)]
      /\ \A q \in Process \ {p} : tree'[q] = tree[q] /\ index'[q] = index[q]
  BY <1>1, SensorAssumption
  DEF getSensorNumMap, getSensorSubtree, filterSensors, IInv, TypeOK
<1>3. pc[p] = "idle"
  BY DEF getSensorNumMap, getSensorSubtree
<1>4. CASE index'[p] = prev[p] /\ map[p] # None
  <2>1. UNCHANGED <<world, pending, prev, build, filter, gap>>
        /\ pc' = [pc EXCEPT ![p] = "serve"]
    BY <1>4 DEF getSensorNumMap
  <2>2. TypeOK'
    BY <1>2, <2>1 DEF world, build, filter, IInv, TypeOK
  <2>3. ASSUME NEW q \in Process, q # p PROVE PInv(q)'
    BY <1>2, <2>1, <2>3, OthersKeep DEF world, build, filter, IInv, TypeOK
  <2>4. tree[p] # None /\ tree'[p] = tree[p] /\ index'[p] = index[p]
    BY <1>1, <1>4 DEF IInv, PInv, Placed
  <2>5. PInv(p)'
    <3>1. PInv(p) /\ pc'[p] = "serve"
      BY <2>1 DEF IInv, TypeOK
    <3>. QED
      BY <1>3, <1>4, <2>1, <2>4, <3>1
      DEF world, build, filter, PInv, TreeCurrent, Placed, Numbers, NextFree, Built, HasMap
  <2>. QED  BY <2>2, <2>3, <2>5 DEF IInv
<1>5. CASE index'[p] # prev[p] \/ map[p] = None
  <2>1. /\ UNCHANGED <<world, pending, filter, gap>>
        /\ prev' = [prev EXCEPT ![p] = index'[p]]
        /\ map' = [map EXCEPT ![p] = NoNumbers]
        /\ rest' = [rest EXCEPT ![p] = tree'[p]]
        /\ number' = [number EXCEPT ![p] = 0]
        /\ pc' = [pc EXCEPT ![p] = "build"]
    BY <1>5 DEF getSensorNumMap
  <2>2. TypeOK'
    BY <1>1, <1>2, <2>1 DEF world, filter, IInv, TypeOK
  <2>3. ASSUME NEW q \in Process, q # p PROVE PInv(q)'
    BY <1>2, <2>1, <2>3, OthersKeep DEF world, filter, IInv, TypeOK
  <2>4. /\ prev'[p] = index'[p] /\ map'[p] = NoNumbers /\ rest'[p] = tree'[p]
        /\ number'[p] = 0 /\ pc'[p] = "build"
    BY <2>1 DEF IInv, TypeOK
  <2>5. TreeCurrent(p)'
    BY <1>1, <2>1, <2>4 DEF world, IInv, PInv, TreeCurrent
  <2>6. Placed(p)'
    BY <1>1, <2>4 DEF Placed
  <2>7. Numbers(p)'
    BY <2>4 DEF Numbers, NoNumbers
  <2>8. NextFree(p)'
    <3>1. 0 \in Assignable
      BY AssignableNumbers, SensorAssumption
    <3>. QED  BY <2>4, <3>1 DEF NextFree, NoNumbers, Assignable
  <2>9. Built(p)'
    <3>1. DOMAIN map'[p] = {} /\ tree'[p] \ rest'[p] = {}
      BY <2>4 DEF NoNumbers
    <3>. QED  BY <3>1 DEF Built
  <2>10. PInv(p)'
    BY <2>5, <2>6, <2>7, <2>8, <2>9 DEF PInv
  <2>. QED  BY <2>2, <2>3, <2>10 DEF IInv
<1>. QED  BY <1>4, <1>5 DEF getSensorNumMap

\* The default build: one more sensor in the map, or the last one.
LEMMA NumberStep ==
    ASSUME IInv, NEW p \in Process, NumberSensor(p)
    PROVE  IInv'
<1>1. PICK s \in rest[p] :
          /\ map' = [map EXCEPT ![p] = Insert(@, number[p], s)]
          /\ IF Exhausted(number[p])
               THEN /\ pc' = [pc EXCEPT ![p] = "idle"]
                    /\ gap' = [gap EXCEPT ![p] = @ \cup {"map"}]
                    /\ rest' = [rest EXCEPT ![p] = {}]
                    /\ UNCHANGED number
               ELSE /\ rest' = [rest EXCEPT ![p] = @ \ {s}]
                    /\ number' = [number EXCEPT ![p] = NextNumber(@)]
                    /\ UNCHANGED <<pc, gap>>
  BY DEF NumberSensor
<1>2. UNCHANGED <<world, caches, filter>> /\ pc[p] = "build" /\ ~static
  BY DEF NumberSensor
<1> DEFINE n == number[p]
<1>3. PInv(p) /\ n \in Assignable /\ n \in Nat /\ s \in Sensor
  BY <1>1, <1>2 DEF IInv, TypeOK, PInv, NextFree
<1>4. ~Exhausted(n) => NextNumber(n) \in Assignable /\ NextNumber(n) \in Nat /\ NextNumber(n) > n
  BY <1>3, NextIsAssignable, AssignableNumbers
<1>5. map'[p] = Insert(map[p], n, s) /\ DOMAIN map' = Process
      /\ \A q \in Process \ {p} : map'[q] = map[q]
  BY <1>1 DEF IInv, TypeOK
<1>6. TypeOK'
  BY <1>1, <1>2, <1>3, <1>4, <1>5 DEF world, caches, IInv, TypeOK
<1>7. ASSUME NEW q \in Process, q # p PROVE PInv(q)'
  BY <1>1, <1>2, <1>5, <1>7, OthersKeep DEF world, caches, IInv, TypeOK
<1> DEFINE m == map[p]
<1>8. /\ DOMAIN map'[p] = DOMAIN m \cup {n} /\ map'[p][n] = s
      /\ \A k \in DOMAIN m : k # n => map'[p][k] = m[k]
  BY <1>5 DEF Insert
<1>9. /\ DOMAIN m \subseteq Assignable
      /\ \A k \in DOMAIN m : k < n /\ m[k] \notin rest[p]
      /\ \A k, l \in DOMAIN m : m[k] = m[l] => k = l
  BY <1>2, <1>3 DEF PInv, Numbers, NextFree, HasMap
<1>10. n \notin DOMAIN m /\ s \notin {m[k] : k \in DOMAIN m}
  BY <1>1, <1>3, <1>9
<1>11. Numbers(p)'
  BY <1>2, <1>3, <1>8, <1>9, <1>10 DEF world, Numbers, Assignable
<1>12. {map'[p][k] : k \in DOMAIN map'[p]} = {m[k] : k \in DOMAIN m} \cup {s}
  BY <1>8, <1>10
<1>13. CASE Exhausted(n)
  <2>1. pc'[p] = "idle" /\ "map" \in gap'[p] /\ rest'[p] = {}
    BY <1>1, <1>13 DEF IInv, TypeOK
  <2>2. "tree" \notin gap'[p] => "tree" \notin gap[p]
    BY <1>1, <1>13 DEF IInv, TypeOK
  <2>. QED
    BY <1>2, <1>3, <1>6, <1>7, <1>11, <2>1, <2>2
    DEF world, caches, IInv, PInv, TreeCurrent, Placed, NextFree, Built
<1>14. CASE ~Exhausted(n)
  <2>1. pc'[p] = "build" /\ gap'[p] = gap[p] /\ rest'[p] = rest[p] \ {s}
        /\ number'[p] = NextNumber(n)
    BY <1>1, <1>2, <1>14 DEF IInv, TypeOK
  <2>2. TreeCurrent(p)' /\ Placed(p)'
    BY <1>2, <1>3, <2>1 DEF world, caches, PInv, TreeCurrent, Placed
  <2>3. NextFree(p)'
    <3>1. \A k \in DOMAIN map'[p] : k \in Nat /\ k < number'[p]
      BY <1>3, <1>4, <1>8, <1>9, <1>14, <2>1, AssignableNumbers
    <3>2. \A k \in DOMAIN map'[p] : map'[p][k] \notin rest'[p]
      BY <1>8, <1>9, <1>10, <2>1
    <3>3. number'[p] \in Assignable
      BY <1>4, <1>14, <2>1
    <3>. QED  BY <1>2, <3>1, <3>2, <3>3 DEF world, NextFree, Assignable
  <2>4. Built(p)'
    <3>1. HasMap(p) /\ tree[p] # None /\ s \in tree[p]
      BY <1>1, <1>2, <1>3 DEF HasMap, PInv, Placed
    <3>2. gap[p] = {} => {m[k] : k \in DOMAIN m} = tree[p] \ rest[p]
      BY <1>2, <1>3, <3>1 DEF PInv, Built
    <3>3. tree[p] \ rest'[p] = (tree[p] \ rest[p]) \cup {s}
      BY <2>1, <3>1
    <3>. QED  BY <1>2, <1>12, <2>1, <3>2, <3>3 DEF world, caches, Built
  <2>. QED  BY <1>6, <1>7, <1>11, <2>2, <2>3, <2>4 DEF IInv, PInv
<1>. QED  BY <1>13, <1>14

\* The static build: a sensor whose number is of use and not given, or another.
LEMMA AskStep ==
    ASSUME IInv, NEW p \in Process, AskSensor(p)
    PROVE  IInv'
<1>1. PICK s \in rest[p] :
          /\ rest' = [rest EXCEPT ![p] = @ \ {s}]
          /\ \/ /\ map' = [map EXCEPT ![p] =
                              IF Usable(Declared[s]) /\ Declared[s] \notin DOMAIN @
                                THEN Insert(@, Declared[s], s) ELSE @]
                /\ UNCHANGED gap
             \/ gap' = [gap EXCEPT ![p] = @ \cup {"map"}] /\ UNCHANGED map
  BY DEF AskSensor
<1>2. UNCHANGED <<world, caches, number, filter, pc>> /\ pc[p] = "build" /\ static
  BY DEF AskSensor
<1> DEFINE n == Declared[s]
           m == map[p]
<1>3. PInv(p) /\ s \in Sensor /\ n \in Number \cup {Missing} /\ s \in tree[p]
  BY <1>1, <1>2, SensorAssumption DEF IInv, TypeOK, PInv, Placed
<1>4. DOMAIN map' = Process /\ \A q \in Process \ {p} : map'[q] = map[q]
  BY <1>1 DEF IInv, TypeOK
<1>5. TypeOK'
  BY <1>1, <1>2, <1>3, <1>4 DEF world, caches, IInv, TypeOK
<1>6. ASSUME NEW q \in Process, q # p PROVE PInv(q)'
  BY <1>1, <1>2, <1>4, <1>6, OthersKeep DEF world, caches, IInv, TypeOK
<1>7. rest'[p] = rest[p] \ {s} /\ pc'[p] = "build" /\ static'
      /\ tree'[p] = tree[p] /\ tree[p] \ rest'[p] = (tree[p] \ rest[p]) \cup {s}
  BY <1>1, <1>2, <1>3 DEF world, caches, IInv, TypeOK
<1>8. TreeCurrent(p)' /\ Placed(p)'
  <2>1. "tree" \notin gap'[p] => "tree" \notin gap[p]
    BY <1>1 DEF IInv, TypeOK
  <2>. QED
    BY <1>2, <1>3, <1>7, <2>1 DEF world, caches, PInv, TreeCurrent, Placed
<1>9. /\ DOMAIN m \subseteq Assignable
      /\ \A k \in DOMAIN m : Declared[m[k]] = k /\ m[k] \notin rest[p]
      /\ \A k, l \in DOMAIN m : m[k] = m[l] => k = l
      /\ gap[p] = {} =>
            /\ DOMAIN m = {Declared[t] : t \in {u \in tree[p] \ rest[p] : Usable(Declared[u])}}
            /\ \A k \in DOMAIN m : m[k] \in tree[p] \ rest[p]
  BY <1>2, <1>3 DEF PInv, Numbers, NextFree, Built, HasMap, Placed
<1>10. CASE map'[p] = m /\ gap'[p] # {}
  BY <1>5, <1>6, <1>7, <1>8, <1>9, <1>10
  DEF IInv, PInv, Numbers, NextFree, Built, Assignable
<1>11. CASE /\ Usable(n) /\ n \notin DOMAIN m /\ gap'[p] = gap[p]
            /\ map'[p] = Insert(m, n, s)
  <2>1. /\ DOMAIN map'[p] = DOMAIN m \cup {n} /\ map'[p][n] = s
        /\ \A k \in DOMAIN m : map'[p][k] = m[k]
    BY <1>11 DEF Insert
  <2>2. n \in Assignable
    <3>1. n \in Nat
      BY <1>3, <1>11, SensorAssumption DEF Usable
    <3>. QED  BY <1>11, <3>1, UsableIsAssignable
  <2>3. s \notin {m[k] : k \in DOMAIN m}
    BY <1>1, <1>9
  <2>4. Numbers(p)' /\ NextFree(p)'
    BY <1>7, <1>9, <2>1, <2>2, <2>3 DEF Numbers, NextFree, Assignable
  <2>5. Built(p)'
    BY <1>1, <1>7, <1>9, <1>11, <2>1 DEF Built
  <2>. QED  BY <1>5, <1>6, <1>8, <2>4, <2>5 DEF IInv, PInv
<1>12. CASE /\ ~Usable(n) \/ n \in DOMAIN m
            /\ gap'[p] = gap[p] /\ map'[p] = m
  <2>1. Numbers(p)' /\ NextFree(p)'
    BY <1>7, <1>9, <1>12 DEF Numbers, NextFree, Assignable
  <2>2. Built(p)'
    BY <1>7, <1>9, <1>12 DEF Built
  <2>. QED  BY <1>5, <1>6, <1>8, <2>1, <2>2 DEF IInv, PInv
<1>. QED
  BY <1>1, <1>10, <1>11, <1>12 DEF IInv, TypeOK

LEMMA ServeStep ==
    ASSUME IInv, NEW p \in Process, BuildEnds(p) \/ Return(p)
    PROVE  IInv'
<1>1. /\ UNCHANGED <<world, caches, build, filter, gap>> /\ pc[p] # "idle" /\ rest[p] = {}
      /\ \E to \in {"serve", "idle"} : pc' = [pc EXCEPT ![p] = to]
  BY DEF BuildEnds, Return, IInv, PInv, Placed
<1>2. TypeOK'
  BY <1>1 DEF world, caches, build, filter, IInv, TypeOK
<1>3. ASSUME NEW q \in Process, q # p PROVE PInv(q)'
  BY <1>1, <1>3, OthersKeep DEF world, caches, build, filter, IInv, TypeOK
<1>4. PInv(p)'
  <2>1. pc'[p] # "build"
    BY <1>1 DEF IInv, TypeOK
  <2>. QED
    BY <1>1, <2>1 DEF world, caches, build, IInv, PInv, TreeCurrent, Placed, Numbers,
                      NextFree, Built, HasMap
<1>. QED  BY <1>2, <1>3, <1>4 DEF IInv

LEMMA SetSensorNumStep ==
    ASSUME IInv, SetSensorNum
    PROVE  IInv'
<1>1. /\ UNCHANGED <<world, caches, build, gap>> /\ Configuration \in Process
      /\ pc[Configuration] = "serve" /\ pc' = [pc EXCEPT ![Configuration] = "idle"]
  BY DEF SetSensorNum, Process
<1>2. TypeOK'
  BY <1>1 DEF world, caches, build, IInv, TypeOK
<1>3. ASSUME NEW q \in Process PROVE PInv(q)'
  BY <1>1 DEF world, caches, build, IInv, TypeOK, PInv, TreeCurrent, Placed, Numbers,
              NextFree, Built, HasMap
<1>. QED  BY <1>2, <1>3 DEF IInv

LEMMA StepInv == IInv /\ [Next]_vars => IInv'
<1> SUFFICES ASSUME IInv, [Next]_vars PROVE IInv'
  OBVIOUS
<1>1. CASE UNCHANGED vars
  BY <1>1 DEF vars, world, caches, build, IInv, TypeOK, PInv, TreeCurrent, Placed, Numbers,
              NextFree, Built, HasMap
<1>. QED
  BY <1>1, ChangeStep, SetSensorNumStep, SignalStep, RestartStep, QueryFailsStep, LookupStep,
     NumberStep, AskStep, ServeStep
  DEF Next, Lookup

LEMMA Invariant == Spec => []IInv
BY InitInv, StepInv, PTL DEF Spec

--------------------------------------------------------------------------------
(***************************************************************************)
(* Whatever map a process has, served or half built, gives valid numbers,  *)
(* one to a sensor (the loop and the checks of getSensorNumMap).           *)
(***************************************************************************)
THEOREM NumbersAreValid == Spec => []NumbersValid
<1>1. IInv => NumbersValid
  BY DEF IInv, PInv, Numbers, HasMap, NumbersValid
<1>. QED  BY <1>1, Invariant, PTL

(***************************************************************************)
(* A lookup that nothing has failed for since the last signal is answered  *)
(* from the sensors of now (the two caches and what resets them).          *)
(***************************************************************************)
THEOREM LookupsAreCurrent == Spec => []ServedMapIsCurrent
<1>1. IInv => ServedMapIsCurrent
  <2> SUFFICES ASSUME IInv, NEW p \in Process, pc[p] = "serve", Complete(p)
               PROVE  LET known == filterSensors(sensors)
                      IN  IF static
                            THEN DOMAIN map[p] = {Declared[s] : s \in {t \in known : Usable(Declared[t])}}
                                 /\ Range(map[p]) \subseteq known
                            ELSE Range(map[p]) = known
    BY DEF ServedMapIsCurrent
  <2>1. PInv(p) /\ HasMap(p) /\ tree[p] # None /\ rest[p] = {} /\ gap[p] = {}
    BY DEF IInv, PInv, Placed, HasMap, Complete
  <2>2. tree[p] = filterSensors(sensors)
    BY <2>1 DEF PInv, TreeCurrent, Complete
  <2>3. Range(map[p]) = {map[p][n] : n \in DOMAIN map[p]}
    BY DEF Range
  <2>. QED  BY <2>1, <2>2, <2>3 DEF PInv, Built
<1>. QED  BY <1>1, Invariant, PTL

--------------------------------------------------------------------------------
(***************************************************************************)
(* The same sensors are numbered alike by both processes.  A numbering of  *)
(* a tree starts with its first sensor and goes on with the next; Agrees:  *)
(* a map, also a half-built one, is part of any numbering of its tree.     *)
(* In the static build, the first of the sensors that declare a number is  *)
(* the one that gets it.                                                   *)
(***************************************************************************)
Later(s, S) == {t \in S : s < t}

IsNumbering(m, S) ==
    /\ S # {} => 0 \in DOMAIN m /\ First(m[0], S)
    /\ \A n \in DOMAIN m :
          /\ m[n] \in S
          /\ Later(m[n], S) # {} =>
                NextNumber(n) \in DOMAIN m /\ First(m[NextNumber(n)], Later(m[n], S))
    /\ \A n, k \in DOMAIN m : m[n] = m[k] => n = k

Applies(p) == HasMap(p) /\ tree[p] # None /\ gap[p] = {}

FirstDeclares(p) ==
    static /\ Applies(p) =>
        \A n \in DOMAIN map[p] : \A t \in tree[p] : Declared[t] = n => map[p][n] <= t

Ordered(p) ==
    ~static /\ Applies(p) =>
        /\ DOMAIN map[p] # {} => 0 \in DOMAIN map[p] /\ First(map[p][0], tree[p])
        /\ DOMAIN map[p] = {} => number[p] = 0
        /\ \A n \in DOMAIN map[p] :
              /\ \A t \in rest[p] : map[p][n] < t
              /\ \/ /\ Later(map[p][n], tree[p]) = rest[p]
                    /\ rest[p] # {} => number[p] = NextNumber(n)
                 \/ /\ NextNumber(n) \in DOMAIN map[p]
                    /\ First(map[p][NextNumber(n)], Later(map[p][n], tree[p]))

Agrees(p) ==
    ~static /\ Applies(p) =>
        \A m : IsNumbering(m, tree[p]) =>
            /\ \A n \in DOMAIN map[p] : n \in DOMAIN m /\ map[p][n] = m[n]
            /\ rest[p] # {} => number[p] \in DOMAIN m /\ First(m[number[p]], rest[p])

\* What the row means can be told from the sensors of now alone.
RowMeans ==
    row # None /\ steady =>
        LET known == filterSensors(sensors)
        IN  IF static
              THEN /\ meant \in known /\ Declared[meant] = row /\ Usable(row)
                   /\ \A t \in known : Declared[t] = row => meant <= t
              ELSE \E m : IsNumbering(m, known) /\ row \in DOMAIN m /\ m[row] = meant

Order(p) == FirstDeclares(p) /\ Ordered(p) /\ Agrees(p)

RInv == IInv /\ RowMeans /\ \A p \in Process : Order(p)

LEMMA OrderKept ==
    ASSUME NEW p \in Process, Order(p), static' = static, tree'[p] = tree[p], map'[p] = map[p],
           rest'[p] = rest[p], number'[p] = number[p], gap'[p] = {} => gap[p] = {},
           HasMap(p)' => HasMap(p)
    PROVE  Order(p)'
<1>1. Applies(p)' => Applies(p)
  BY DEF Applies
<1>2. FirstDeclares(p)'
  BY <1>1 DEF Order, FirstDeclares
<1>3. Ordered(p)'
  BY <1>1 DEF Order, Ordered
<1>4. Agrees(p)'
  BY <1>1 DEF Order, Agrees
<1>. QED  BY <1>2, <1>3, <1>4 DEF Order

LEMMA NoOrder ==
    ASSUME NEW p \in Process, ~Applies(p)'
    PROVE  Order(p)'
BY DEF Order, FirstDeclares, Ordered, Agrees

LEMMA RowKept ==
    ASSUME RowMeans, UNCHANGED <<static, sensors, row, meant>>, steady' => steady
    PROVE  RowMeans'
BY DEF RowMeans

LEMMA LookupOrder ==
    ASSUME RInv, NEW p \in Process, getSensorNumMap(p)
    PROVE  Order(p)'
<1>1. CASE /\ index'[p] = prev[p] /\ map[p] # None
           /\ UNCHANGED <<prev, build>>
  <2>1. tree[p] # None
    <3> SUFFICES ASSUME tree[p] = None PROVE FALSE
      OBVIOUS
    <3>1. index'[p] = IF index[p] = IndexSize - 1 THEN 0 ELSE index[p] + 1
      BY DEF getSensorNumMap, getSensorSubtree, RInv, IInv, TypeOK
    <3>2. index[p] \in 0..(IndexSize - 1) /\ IndexSize \in Nat /\ IndexSize >= 2
      BY SensorAssumption DEF RInv, IInv, TypeOK
    <3>3. index[p] = prev[p]
      BY DEF RInv, IInv, PInv, Placed
    <3>. QED  BY <1>1, <3>1, <3>2, <3>3
  <2>2. tree' = tree /\ gap' = gap /\ static' = static /\ HasMap(p)
    BY <1>1, <2>1 DEF getSensorNumMap, getSensorSubtree, world, HasMap
  <2>. QED  BY <1>1, <2>2, OrderKept DEF build, RInv
<1>2. CASE /\ map' = [map EXCEPT ![p] = NoNumbers] /\ rest' = [rest EXCEPT ![p] = tree'[p]]
           /\ number' = [number EXCEPT ![p] = 0]
  <2>1. map'[p] = NoNumbers /\ rest'[p] = tree'[p] /\ number'[p] = 0 /\ DOMAIN NoNumbers = {}
    BY <1>2 DEF NoNumbers, RInv, IInv, TypeOK
  <2>2. FirstDeclares(p)' /\ Ordered(p)'
    BY <2>1 DEF FirstDeclares, Ordered
  <2>3. Agrees(p)'
    BY <2>1 DEF Agrees, IsNumbering
  <2>. QED  BY <2>2, <2>3 DEF Order
<1>. QED  BY <1>1, <1>2 DEF getSensorNumMap

LEMMA NumberOrder ==
    ASSUME RInv, NEW p \in Process, NumberSensor(p)
    PROVE  Order(p)'
<1> DEFINE n == number[p]
           m == map[p]
           T == tree[p]
           R == rest[p]
<1>1. UNCHANGED <<world, caches>> /\ pc[p] = "build" /\ ~static
  BY DEF NumberSensor
<1>2. PICK s \in R :
          /\ First(s, R)
          /\ map' = [map EXCEPT ![p] = Insert(@, n, s)]
          /\ IF Exhausted(n)
               THEN gap' = [gap EXCEPT ![p] = @ \cup {"map"}]
               ELSE /\ rest' = [rest EXCEPT ![p] = @ \ {s}]
                    /\ number' = [number EXCEPT ![p] = NextNumber(@)]
                    /\ UNCHANGED <<pc, gap>>
  BY DEF NumberSensor
<1>3. CASE Exhausted(n) \/ gap[p] # {}
  <2>1. gap'[p] # {}
    BY <1>2, <1>3 DEF RInv, IInv, TypeOK
  <2>. QED  BY <2>1, NoOrder DEF Applies
<1>4. CASE ~Exhausted(n) /\ gap[p] = {}
  <2>1. map'[p] = Insert(m, n, s) /\ rest'[p] = R \ {s} /\ number'[p] = NextNumber(n)
        /\ tree'[p] = T /\ static' = static
    BY <1>1, <1>2, <1>4 DEF RInv, IInv, TypeOK, caches, world
  <2>2. /\ DOMAIN map'[p] = DOMAIN m \cup {n} /\ map'[p][n] = s
        /\ \A k \in DOMAIN m : k # n => map'[p][k] = m[k]
    BY <2>1 DEF Insert
  <2>3. T # None /\ T \subseteq Nat /\ R \subseteq T /\ Applies(p) /\ n \in Nat
    BY <1>1, <1>4, SensorAssumption DEF RInv, IInv, TypeOK, PInv, Placed, Applies, HasMap
  <2>4. {m[k] : k \in DOMAIN m} = T \ R
    BY <1>1, <2>3 DEF RInv, IInv, PInv, Built, Applies
  <2>5. /\ \A k \in DOMAIN m : k < n
        /\ \A k \in DOMAIN m : m[k] \in T /\ m[k] \in Nat
    <3>1. \A k \in DOMAIN m : k < n
      BY <1>1 DEF RInv, IInv, PInv, NextFree
    <3>. QED  BY <2>3, <2>4, <3>1
  <2>6. n \notin DOMAIN m
    BY <2>3, <2>5
  <2>7. Ordered(p) /\ Agrees(p)
    BY DEF RInv, Order
  <2>8. \A k \in DOMAIN m : \A t \in R : m[k] < t
    BY <1>1, <2>3, <2>7 DEF Ordered
  <2>9. Later(s, T) = R \ {s}
    <3>1. ASSUME NEW t \in T, s < t PROVE t \in R \ {s}
      <4>1. s \in Nat /\ t \in Nat
        BY <2>3
      <4>2. t # s
        BY <3>1, <4>1
      <4>3. ASSUME t \notin R PROVE FALSE
        <5>1. PICK k \in DOMAIN m : t = m[k]
          BY <2>4, <4>3
        <5>2. t < s
          BY <2>8, <5>1
        <5>. QED  BY <3>1, <4>1, <5>2
      <4>. QED  BY <4>2, <4>3
    <3>2. ASSUME NEW t \in R, t # s PROVE t \in T /\ s < t
      BY <1>2, <2>3, <3>2 DEF First
    <3>. QED  BY <3>1, <3>2 DEF Later
  <2>10. Ordered(p)'
    <3>1. 0 \in DOMAIN map'[p] /\ First(map'[p][0], T)
      <4>1. CASE DOMAIN m = {}
        <5>1. n = 0 /\ R = T
          BY <1>1, <2>3, <2>4, <2>7, <4>1 DEF Ordered
        <5>. QED  BY <1>2, <2>2, <5>1
      <4>2. CASE DOMAIN m # {}
        BY <1>1, <2>2, <2>3, <2>6, <2>7, <4>2 DEF Ordered
      <4>. QED  BY <4>1, <4>2
    <3>2. ASSUME NEW k \in DOMAIN map'[p]
          PROVE  /\ \A t \in rest'[p] : map'[p][k] < t
                 /\ \/ /\ Later(map'[p][k], T) = rest'[p]
                       /\ rest'[p] # {} => number'[p] = NextNumber(k)
                    \/ /\ NextNumber(k) \in DOMAIN map'[p]
                       /\ First(map'[p][NextNumber(k)], Later(map'[p][k], T))
      <4>1. CASE k = n
        BY <2>1, <2>2, <2>9, <4>1 DEF Later
      <4>2. CASE k \in DOMAIN m /\ k # n
        <5>1. map'[p][k] = m[k] /\ \A t \in rest'[p] : map'[p][k] < t
          BY <2>1, <2>2, <2>8, <4>2
        <5>2. \/ /\ Later(m[k], T) = R
                 /\ R # {} => n = NextNumber(k)
              \/ /\ NextNumber(k) \in DOMAIN m
                 /\ First(m[NextNumber(k)], Later(m[k], T))
          BY <1>1, <2>3, <2>7, <4>2 DEF Ordered
        <5>3. CASE Later(m[k], T) = R /\ n = NextNumber(k)
          BY <1>2, <2>2, <5>1, <5>3
        <5>4. CASE NextNumber(k) \in DOMAIN m /\ First(m[NextNumber(k)], Later(m[k], T))
          BY <2>2, <2>6, <5>1, <5>4
        <5>. QED  BY <1>2, <5>1, <5>2, <5>3, <5>4
      <4>. QED  BY <2>2, <4>1, <4>2
    <3>. QED  BY <2>1, <2>2, <3>1, <3>2 DEF Ordered
  <2>11. ASSUME NEW w, IsNumbering(w, T)
         PROVE  /\ \A k \in DOMAIN map'[p] : k \in DOMAIN w /\ map'[p][k] = w[k]
                /\ rest'[p] # {} => number'[p] \in DOMAIN w /\ First(w[number'[p]], rest'[p])
    <3>1. /\ \A k \in DOMAIN m : k \in DOMAIN w /\ m[k] = w[k]
          /\ n \in DOMAIN w /\ First(w[n], R)
      BY <1>1, <1>2, <2>3, <2>7, <2>11 DEF Agrees
    <3>2. w[n] = s
      BY <1>2, <2>3, <3>1 DEF First
    <3>3. Later(w[n], T) # {} => NextNumber(n) \in DOMAIN w /\ First(w[NextNumber(n)], Later(w[n], T))
      BY <2>11, <3>1 DEF IsNumbering
    <3>. QED  BY <2>1, <2>2, <2>6, <2>9, <3>1, <3>2, <3>3
  <2>12. Agrees(p)'
    BY <2>1, <2>11 DEF Agrees
  <2>13. FirstDeclares(p)'
    BY <1>1, <2>1 DEF FirstDeclares
  <2>. QED  BY <2>10, <2>12, <2>13 DEF Order
<1>. QED  BY <1>3, <1>4

LEMMA AskOrder ==
    ASSUME RInv, NEW p \in Process, AskSensor(p)
    PROVE  Order(p)'
<1> DEFINE m == map[p]
           T == tree[p]
           R == rest[p]
<1>1. UNCHANGED <<world, caches, number, pc>> /\ pc[p] = "build" /\ static
  BY DEF AskSensor
<1>2. PICK s \in R :
          /\ First(s, R) /\ rest' = [rest EXCEPT ![p] = @ \ {s}]
          /\ \/ /\ map' = [map EXCEPT ![p] =
                              IF Usable(Declared[s]) /\ Declared[s] \notin DOMAIN @
                                THEN Insert(@, Declared[s], s) ELSE @]
                /\ UNCHANGED gap
             \/ gap' = [gap EXCEPT ![p] = @ \cup {"map"}] /\ UNCHANGED map
  BY DEF AskSensor
<1>3. CASE gap'[p] # {}
  BY <1>3, NoOrder DEF Applies
<1>4. CASE gap'[p] = {}
  <2> DEFINE d == Declared[s]
  <2>1. gap[p] = {} /\ map'[p] = IF Usable(d) /\ d \notin DOMAIN m THEN Insert(m, d, s) ELSE m
    BY <1>2, <1>4 DEF RInv, IInv, TypeOK
  <2>2. T # None /\ T \subseteq Nat /\ R \subseteq T /\ Applies(p) /\ tree'[p] = T /\ static'
    BY <1>1, <2>1, SensorAssumption
    DEF RInv, IInv, TypeOK, PInv, Placed, Applies, HasMap, caches, world
  <2>3. /\ DOMAIN m = {Declared[t] : t \in {u \in T \ R : Usable(Declared[u])}}
        /\ \A n \in DOMAIN m : \A t \in T : Declared[t] = n => m[n] <= t
    BY <1>1, <2>2 DEF RInv, IInv, PInv, Built, Applies, Order, FirstDeclares
  <2>4. CASE Usable(d) /\ d \notin DOMAIN m
    <3>1. ASSUME NEW t \in T, Declared[t] = d PROVE s <= t
      <4>1. t \in R
        BY <2>3, <2>4, <3>1
      <4>. QED  BY <1>2, <4>1 DEF First
    <3>2. /\ DOMAIN map'[p] = DOMAIN m \cup {d} /\ map'[p][d] = s
          /\ \A k \in DOMAIN m : map'[p][k] = m[k]
      BY <2>1, <2>4 DEF Insert
    <3>. QED  BY <2>2, <2>3, <3>1, <3>2 DEF Order, FirstDeclares, Ordered, Agrees
  <2>5. CASE ~(Usable(d) /\ d \notin DOMAIN m)
    BY <2>1, <2>2, <2>3, <2>5 DEF Order, FirstDeclares, Ordered, Agrees
  <2>. QED  BY <2>4, <2>5
<1>. QED  BY <1>3, <1>4

LEMMA ServedInFull ==
    ASSUME IInv, NEW p \in Process, pc[p] = "serve", Complete(p)
    PROVE  /\ Applies(p) /\ rest[p] = {} /\ tree[p] = filterSensors(sensors)
           /\ filterSensors(sensors) \subseteq Nat
<1>1. gap[p] = {} /\ pending[p] = 0
  BY DEF Complete
<1>2. tree[p] # None /\ rest[p] = {} /\ TreeCurrent(p)
  BY DEF IInv, PInv, Placed
<1>3. Applies(p)
  BY <1>1, <1>2 DEF Applies, HasMap
<1>4. tree[p] = filterSensors(sensors)
  BY <1>1, <1>2 DEF TreeCurrent
<1>5. filterSensors(sensors) \subseteq Nat
  BY SensorAssumption DEF filterSensors, IInv, TypeOK
<1>. QED  BY <1>2, <1>3, <1>4, <1>5

\* A complete map tells what a row written from it means.
LEMMA RowWritten ==
    ASSUME RInv, SetSensorNum
    PROVE  RowMeans'
<1> DEFINE p == Configuration
           m == map[p]
           known == filterSensors(sensors)
<1>1. /\ pc[p] = "serve" /\ row' \in DOMAIN m /\ meant' = m[row'] /\ steady' = Complete(p)
      /\ UNCHANGED world /\ p \in Process
  BY DEF SetSensorNum, Process
<1> SUFFICES ASSUME Complete(p) PROVE RowMeans'
  BY <1>1 DEF RowMeans
<1>2. Applies(p) /\ rest[p] = {} /\ tree[p] = known /\ known \subseteq Nat
  BY <1>1, ServedInFull DEF RInv
<1>3. CASE static
  <2>1. /\ DOMAIN m = {Declared[t] : t \in {u \in known : Usable(Declared[u])}}
        /\ \A n \in DOMAIN m : m[n] \in known /\ Declared[m[n]] = n
        /\ \A n \in DOMAIN m : \A t \in known : Declared[t] = n => m[n] <= t
    BY <1>1, <1>2, <1>3
    DEF RInv, IInv, PInv, Built, Numbers, Applies, Order, FirstDeclares
  <2>. QED  BY <1>1, <1>3, <2>1 DEF RowMeans, world
<1>4. CASE ~static
  <2>1. /\ {m[n] : n \in DOMAIN m} = known
        /\ \A n, k \in DOMAIN m : m[n] = m[k] => n = k
    BY <1>1, <1>2, <1>4 DEF RInv, IInv, PInv, Built, Numbers, Applies
  <2>2. Ordered(p)
    BY <1>1 DEF RInv, Order
  <2>3. IsNumbering(m, known)
    <3>1. known # {} => 0 \in DOMAIN m /\ First(m[0], known)
      BY <1>2, <1>4, <2>1, <2>2 DEF Ordered
    <3>2. ASSUME NEW n \in DOMAIN m, Later(m[n], known) # {}
          PROVE  NextNumber(n) \in DOMAIN m /\ First(m[NextNumber(n)], Later(m[n], known))
      BY <1>2, <1>4, <2>2, <3>2 DEF Ordered
    <3>. QED  BY <2>1, <3>1, <3>2 DEF IsNumbering
  <2>. QED  BY <1>1, <1>4, <2>3 DEF RowMeans, world
<1>. QED  BY <1>3, <1>4

LEMMA RowStep == RInv /\ [Next]_vars => RInv'
<1> SUFFICES ASSUME RInv, [Next]_vars PROVE RInv'
  OBVIOUS
<1> USE DEF RInv
<1>1. IInv'
  BY StepInv
<1>2. CASE SensorChanges \/ UNCHANGED vars
  <2>1. UNCHANGED <<static, tree, map, rest, number, gap, pc>>
    BY <1>2 DEF SensorChanges, vars, world, caches, build
  <2>2. ASSUME NEW q \in Process PROVE Order(q)'
    BY <2>1, OrderKept DEF HasMap
  <2>3. RowMeans'
    BY <1>2, RowKept DEF SensorChanges, RowMeans, vars, world, filter
  <2>. QED  BY <1>1, <2>2, <2>3
<1>3. CASE SetSensorNum
  <2>1. /\ UNCHANGED <<static, tree, map, rest, number, gap>>
        /\ pc[Configuration] = "serve" /\ pc' = [pc EXCEPT ![Configuration] = "idle"]
    BY <1>3 DEF SetSensorNum, world, caches, build
  <2>2. ASSUME NEW q \in Process PROVE Order(q)'
    <3>1. HasMap(q)' => HasMap(q)
      BY <2>1 DEF HasMap, IInv, TypeOK
    <3>. QED  BY <2>1, <3>1, OrderKept
  <2>. QED  BY <1>1, <1>3, <2>2, RowWritten
<1>4. ASSUME NEW p \in Process, HandleSignal(p) \/ Restart(p) \/ Lookup(p) \/ Return(p)
      PROVE  RInv'
  <2>1. RowMeans'
    BY <1>4, RowKept DEF HandleSignal, Restart, Lookup, QueryFails, getSensorNumMap, NumberSensor,
                         AskSensor, BuildEnds, Return, world, filter
  <2>2. ASSUME NEW q \in Process, q # p PROVE Order(q)'
    <3>1. /\ static' = static /\ tree'[q] = tree[q] /\ map'[q] = map[q] /\ rest'[q] = rest[q]
          /\ number'[q] = number[q] /\ gap'[q] = gap[q] /\ pc'[q] = pc[q]
      BY <1>4, <2>2 DEF HandleSignal, Restart, Lookup, QueryFails, getSensorNumMap, getSensorSubtree,
                        NumberSensor, AskSensor, BuildEnds, Return, world, caches, build, IInv, TypeOK
    <3>. QED  BY <3>1, OrderKept DEF HasMap
  <2>3. Order(p)'
    <3>1. CASE HandleSignal(p) \/ Restart(p) \/ QueryFails(p)
      <4>1. ~Applies(p)'
        BY <3>1 DEF HandleSignal, Restart, QueryFails, Applies, HasMap, IInv, TypeOK
      <4>. QED  BY <4>1, NoOrder
    <3>2. CASE BuildEnds(p) \/ Return(p)
      <4>1. UNCHANGED <<static, tree, map, rest, number, gap>> /\ HasMap(p)
        BY <3>2 DEF BuildEnds, Return, world, caches, build, HasMap
      <4>. QED  BY <4>1, OrderKept
    <3>. QED  BY <1>4, <3>1, <3>2, LookupOrder, NumberOrder, AskOrder DEF Lookup
  <2>. QED  BY <1>1, <2>1, <2>2, <2>3
<1>. QED  BY <1>2, <1>3, <1>4 DEF Next

(***************************************************************************)
(* A number that the SensorNum setter accepted names the same sensor in    *)
(* pef-event-filtering's alerts (getPathFromSensorNumber), in both builds. *)
(***************************************************************************)
THEOREM RowsNameTheirSensors == Spec => []RowNamesItsSensor
<1>1. Init => RInv
  BY InitInv DEF Init, RInv, RowMeans, Order, FirstDeclares, Ordered, Agrees, Applies, HasMap
<1>2. RInv => RowNamesItsSensor
  <2> SUFFICES ASSUME RInv, pc[Filtering] = "serve", row # None, steady, Complete(Filtering)
               PROVE  row \in DOMAIN map[Filtering] /\ map[Filtering][row] = meant
    BY DEF RowNamesItsSensor
  <2> DEFINE p == Filtering
             m == map[p]
             known == filterSensors(sensors)
  <2>1. Applies(p) /\ rest[p] = {} /\ tree[p] = known /\ known \subseteq Nat /\ p \in Process
    BY ServedInFull DEF RInv, Process
  <2>2. CASE static
    <3>1. /\ DOMAIN m = {Declared[t] : t \in {u \in known : Usable(Declared[u])}}
          /\ \A n \in DOMAIN m : m[n] \in known /\ Declared[m[n]] = n
          /\ \A n \in DOMAIN m : \A t \in known : Declared[t] = n => m[n] <= t
      BY <2>1, <2>2 DEF RInv, IInv, PInv, Built, Numbers, Applies, Order, FirstDeclares
    <3>2. /\ meant \in known /\ Declared[meant] = row /\ Usable(row)
          /\ \A t \in known : Declared[t] = row => meant <= t
      BY <2>2 DEF RInv, RowMeans
    <3>3. row \in DOMAIN m
      BY <3>1, <3>2
    <3>4. m[row] <= meant /\ meant <= m[row] /\ m[row] \in Nat /\ meant \in Nat
      BY <2>1, <3>1, <3>2, <3>3
    <3>. QED  BY <3>3, <3>4
  <2>3. CASE ~static
    <3>1. PICK w : IsNumbering(w, known) /\ row \in DOMAIN w /\ w[row] = meant
      BY <2>3 DEF RInv, RowMeans
    <3>2. \A n \in DOMAIN m : n \in DOMAIN w /\ m[n] = w[n]
      BY <2>1, <2>3, <3>1 DEF RInv, Order, Agrees
    <3>3. PICK n \in DOMAIN m : m[n] = meant
      BY <2>1, <2>3, <3>1 DEF RInv, IInv, PInv, Built, Applies, IsNumbering
    <3>4. n = row
      BY <3>1, <3>2, <3>3 DEF IsNumbering
    <3>. QED  BY <3>3, <3>4
  <2>. QED  BY <2>2, <2>3
<1>. QED  BY <1>1, <1>2, RowStep, PTL DEF Spec

--------------------------------------------------------------------------------
(***************************************************************************)
(* The default build gives the numbers in turn and leaves none out.  A map *)
(* for which numbers ran out has them all, and stays until a signal resets *)
(* the tree: no lookup builds another in between.                          *)
(***************************************************************************)
Below(n) == {k \in Assignable : k < n}

Filled(p) ==
    ~static =>
        /\ pc[p] = "build" => map[p] \in [Below(number[p]) -> Sensor]
        /\ "map" \in gap[p] =>
              pc[p] # "build" /\ tree[p] # None /\ map[p] \in [Assignable -> Sensor]

FInv == IInv /\ \A p \in Process : Filled(p)

\* Between a number and the next there is none to give.
LEMMA NextLeavesNoneOut ==
    ASSUME NEW n \in Assignable
    PROVE  Below(n) \cup {n} = IF Exhausted(n) THEN Assignable ELSE Below(NextNumber(n))
<1>1. LunSize \in Nat /\ LunSize >= 2 /\ n \in Nat /\ Assignable \subseteq Nat
  BY SensorAssumption, AssignableNumbers
<1>2. CASE Exhausted(n)
  <2>1. n = 4 * LunSize - 2
    BY <1>1, <1>2 DEF Exhausted, lun3Sensor0, maxSensorsPerLUN
  <2>2. \A k \in Assignable : k < n \/ k = n
    BY <1>1, <2>1, AssignableNumbers
  <2>. QED  BY <1>2, <2>2 DEF Below
<1>3. CASE ~Exhausted(n)
  <2> DEFINE next == NextNumber(n)
  <2>1. next \in Assignable /\ next > n
    BY <1>3, NextIsAssignable
  <2>2. \A k \in Assignable : k < next <=> k < n \/ k = n
    <3>1. CASE n + 1 = LunSize - 1
      <4>1. next = LunSize
        BY <1>1, <3>1 DEF NextNumber, maxSensorsPerLUN, lun1Sensor0
      <4>. QED  BY <1>1, <3>1, <4>1, AssignableNumbers
    <3>2. CASE n + 1 # LunSize - 1 /\ n + 1 = LunSize + (LunSize - 1)
      <4>1. next = 3 * LunSize
        BY <3>2 DEF NextNumber, maxSensorsPerLUN, lun1Sensor0, lun3Sensor0
      <4>. QED  BY <1>1, <3>2, <4>1, AssignableNumbers
    <3>3. CASE n + 1 # LunSize - 1 /\ n + 1 # LunSize + (LunSize - 1)
      <4>1. next = n + 1
        BY <3>3 DEF NextNumber, maxSensorsPerLUN, lun1Sensor0
      <4>. QED  BY <1>1, <4>1
    <3>. QED  BY <3>1, <3>2, <3>3
  <2>. QED  BY <1>3, <2>2 DEF Below
<1>. QED  BY <1>2, <1>3

LEMMA ThreeLuns == Cardinality(Assignable) = maxIPMISensors
<1> DEFINE L0 == 0..(LunSize - 2)
           L1 == LunSize..(2 * LunSize - 2)
           L3 == (3 * LunSize)..(4 * LunSize - 2)
           L01 == L0 \cup L1
<1>1. LunSize \in Nat /\ LunSize >= 2
  BY SensorAssumption
<1>2. Assignable = (L0 \cup L1) \cup L3
  BY <1>1, AssignableNumbers
<1>3. /\ IsFiniteSet(L0) /\ Cardinality(L0) = LunSize - 1
      /\ IsFiniteSet(L1) /\ Cardinality(L1) = LunSize - 1
      /\ IsFiniteSet(L3) /\ Cardinality(L3) = LunSize - 1
  <2>1. 0 \in Int /\ LunSize - 2 \in Int /\ 2 * LunSize - 2 \in Int /\ 3 * LunSize \in Int
        /\ 4 * LunSize - 2 \in Int /\ LunSize \in Int
    BY <1>1
  <2>2. IsFiniteSet(L0) /\ Cardinality(L0) = LunSize - 1
    BY <1>1, <2>1, FS_Interval
  <2>3. IsFiniteSet(L1) /\ Cardinality(L1) = LunSize - 1
    BY <1>1, <2>1, FS_Interval
  <2>4. IsFiniteSet(L3) /\ Cardinality(L3) = LunSize - 1
    BY <1>1, <2>1, FS_Interval
  <2>. QED  BY <2>2, <2>3, <2>4
<1>4. L0 \cap L1 = {} /\ (L0 \cup L1) \cap L3 = {}
  BY <1>1
<1>5. Cardinality({}) = 0
  BY FS_EmptySet
<1>6. IsFiniteSet(L0 \cup L1) /\ Cardinality(L0 \cup L1) = 2 * LunSize - 2
  <2> HIDE DEF L0, L1, L3
  <2>. QED  BY <1>1, <1>3, <1>4, <1>5, FS_Union
<1>7. Cardinality(L01 \cup L3) = 3 * LunSize - 3
  <2>1. IsFiniteSet(L01) /\ Cardinality(L01) = 2 * LunSize - 2 /\ L01 \cap L3 = {}
    BY <1>4, <1>6
  <2> HIDE DEF L01, L3
  <2>2. Cardinality(L01 \cup L3) = Cardinality(L01) + Cardinality(L3) - Cardinality(L01 \cap L3)
    BY <1>3, <2>1, FS_Union
  <2>3. Cardinality(L01 \cap L3) = 0
    BY <1>5, <2>1, Zenon
  <2>. QED  BY <1>1, <1>3, <2>1, <2>2, <2>3
<1>. QED  BY <1>1, <1>2, <1>7 DEF maxIPMISensors, maxSensorsPerLUN

\* A map with all the numbers is served as it is.
LEMMA LookupFills ==
    ASSUME FInv, NEW p \in Process, getSensorNumMap(p)
    PROVE  Filled(p)'
<1>1. gap' = gap /\ static' = static
  BY DEF getSensorNumMap, world
<1>2. CASE ~static /\ "map" \in gap[p]
  <2>1. tree[p] # None /\ map[p] \in [Assignable -> Sensor] /\ index[p] = prev[p]
    BY <1>2 DEF FInv, Filled, IInv, PInv, Placed
  <2>2. map[p] # None
    BY <2>1, SensorAssumption
  <2>3. tree' = tree /\ index' = index
    BY <2>1 DEF getSensorNumMap, getSensorSubtree
  <2>4. pc' = [pc EXCEPT ![p] = "serve"] /\ map' = map
    BY <2>1, <2>2, <2>3 DEF getSensorNumMap, build
  <2>5. pc'[p] = "serve"
    BY <2>4 DEF FInv, IInv, TypeOK
  <2>. QED  BY <2>1, <2>3, <2>4, <2>5 DEF Filled
<1>3. CASE ~static /\ "map" \notin gap[p]
  <2> SUFFICES ASSUME pc'[p] = "build" PROVE map'[p] \in [Below(number'[p]) -> Sensor]
    BY <1>1, <1>3 DEF Filled
  <2>1. map' = [map EXCEPT ![p] = NoNumbers] /\ number' = [number EXCEPT ![p] = 0]
    BY DEF getSensorNumMap, FInv, IInv, TypeOK
  <2>2. map'[p] = NoNumbers /\ number'[p] = 0
    BY <2>1 DEF FInv, IInv, TypeOK
  <2>3. Below(0) = {}
    BY AssignableNumbers DEF Below
  <2>. QED  BY <2>2, <2>3 DEF NoNumbers
<1>. QED  BY <1>1, <1>2, <1>3 DEF Filled

LEMMA NumberFills ==
    ASSUME FInv, NEW p \in Process, NumberSensor(p)
    PROVE  Filled(p)'
<1> DEFINE n == number[p]
<1>1. PICK s \in rest[p] :
          /\ map' = [map EXCEPT ![p] = Insert(@, n, s)]
          /\ IF Exhausted(n)
               THEN /\ pc' = [pc EXCEPT ![p] = "idle"]
                    /\ gap' = [gap EXCEPT ![p] = @ \cup {"map"}]
               ELSE /\ number' = [number EXCEPT ![p] = NextNumber(@)]
                    /\ UNCHANGED <<pc, gap>>
  BY DEF NumberSensor
<1>2. tree' = tree /\ static' = static /\ pc[p] = "build" /\ ~static
  BY DEF NumberSensor, world, caches
<1>3. map[p] \in [Below(n) -> Sensor] /\ "map" \notin gap[p] /\ n \in Assignable /\ s \in Sensor
      /\ tree[p] # None
  BY <1>1, <1>2 DEF FInv, Filled, IInv, TypeOK, PInv, NextFree, Placed
<1>4. map'[p] \in [Below(n) \cup {n} -> Sensor]
  <2>1. map'[p] = Insert(map[p], n, s)
    BY <1>1 DEF FInv, IInv, TypeOK
  <2>. QED  BY <1>3, <2>1 DEF Insert
<1>5. CASE Exhausted(n)
  <2>1. pc'[p] = "idle" /\ map'[p] \in [Assignable -> Sensor]
    BY <1>1, <1>3, <1>4, <1>5, NextLeavesNoneOut DEF FInv, IInv, TypeOK
  <2>. QED  BY <1>2, <1>3, <2>1 DEF Filled
<1>6. CASE ~Exhausted(n)
  <2>1. number'[p] = NextNumber(n) /\ gap' = gap
    BY <1>1, <1>6 DEF FInv, IInv, TypeOK
  <2>2. map'[p] \in [Below(number'[p]) -> Sensor]
    BY <1>3, <1>4, <1>6, <2>1, NextLeavesNoneOut
  <2>. QED  BY <1>2, <1>3, <2>1, <2>2 DEF Filled
<1>. QED  BY <1>5, <1>6

LEMMA FillStep == FInv /\ [Next]_vars => FInv'
<1> SUFFICES ASSUME FInv, [Next]_vars PROVE FInv'
  OBVIOUS
<1>1. IInv' /\ IInv
  BY StepInv DEF FInv
<1>2. CASE SensorChanges \/ SetSensorNum \/ UNCHANGED vars
  <2>1. /\ UNCHANGED <<static, tree, map, number, gap>>
        /\ \A q \in Process : pc'[q] = "build" => pc[q] = "build"
    BY <1>1, <1>2 DEF SensorChanges, SetSensorNum, vars, world, caches, build, IInv, TypeOK
  <2>. QED  BY <1>1, <2>1 DEF FInv, Filled
<1>3. ASSUME NEW p \in Process, HandleSignal(p) \/ Restart(p) \/ Lookup(p) \/ Return(p)
      PROVE  FInv'
  <2>1. ASSUME NEW q \in Process, q # p PROVE Filled(q)'
    <3>1. /\ static' = static /\ tree'[q] = tree[q] /\ map'[q] = map[q]
          /\ number'[q] = number[q] /\ gap'[q] = gap[q] /\ pc'[q] = pc[q]
      BY <1>1, <1>3, <2>1 DEF HandleSignal, Restart, Lookup, QueryFails, getSensorNumMap,
                              getSensorSubtree, NumberSensor, AskSensor, BuildEnds, Return, world,
                              caches, build, IInv, TypeOK
    <3>. QED  BY <3>1 DEF FInv, Filled
  <2>2. CASE HandleSignal(p) \/ Restart(p)
    <3>1. gap'[p] = {} /\ pc'[p] = "idle"
      BY <1>1, <2>2 DEF HandleSignal, Restart, IInv, TypeOK
    <3>. QED  BY <1>1, <2>1, <3>1 DEF FInv, Filled
  <2>3. CASE QueryFails(p)
    <3>1. /\ tree[p] = None /\ gap'[p] = gap[p] \cup {"tree"} /\ pc' = pc /\ pc[p] = "idle"
          /\ static' = static
      BY <1>1, <2>3 DEF QueryFails, world, IInv, TypeOK
    <3>2. Filled(p)'
      BY <3>1 DEF FInv, Filled
    <3>. QED  BY <1>1, <2>1, <3>2 DEF FInv
  <2>4. CASE AskSensor(p)
    <3>1. static'
      BY <2>4 DEF AskSensor, world
    <3>. QED  BY <1>1, <2>1, <3>1 DEF FInv, Filled
  <2>5. CASE BuildEnds(p) \/ Return(p)
    <3>1. UNCHANGED <<static, tree, map, gap>> /\ pc'[p] # "build"
      BY <1>1, <2>5 DEF BuildEnds, Return, world, caches, build, IInv, TypeOK
    <3>. QED  BY <1>1, <2>1, <3>1 DEF FInv, Filled
  <2>. QED
    BY <1>1, <1>3, <2>1, <2>2, <2>3, <2>4, <2>5, LookupFills, NumberFills DEF Lookup, FInv
<1>. QED  BY <1>2, <1>3 DEF Next

(***************************************************************************)
(* The exception of the default build is thrown, and its map kept, only    *)
(* when every number of LUN 0, 1 and 3 is given, whatever the size of a    *)
(* LUN and whatever lookups and signals follow.                            *)
(***************************************************************************)
THEOREM NumbersRunOutWhenFull == Spec => []ExhaustedOnlyWhenFull
<1>1. Init => FInv
  BY InitInv DEF Init, FInv, Filled
<1>2. FInv => ExhaustedOnlyWhenFull
  BY ThreeLuns DEF FInv, Filled, ExhaustedOnlyWhenFull
<1>. QED  BY <1>1, <1>2, FillStep, PTL DEF Spec
================================================================================
