-------------------------------- MODULE LanProofs --------------------------------
(***************************************************************************)
(* Theorems about the LAN parameters and their file (LanParams), and about *)
(* the traps (SnmpTrap) and tests (TestDestination) that read it: for any  *)
(* interfaces, destinations and configurations, and any number of Sets,    *)
(* failures and restarts.                                                  *)
(***************************************************************************)
EXTENDS TestDestination, TLAPS, SequenceTheorems

--------------------------------------------------------------------------------
(***************************************************************************)
(* Filling an array up keeps its entries, and filling up twice is filling  *)
(* up once.                                                                *)
(***************************************************************************)
Fills(w, v, n, f) ==
    /\ Len(w) = IF Len(v) < n THEN n ELSE Len(v)
    /\ \A k \in 1..Len(w) : w[k] = IF k <= Len(v) THEN v[k] ELSE f

LEMMA SizedFills ==
    ASSUME NEW S, NEW v \in Seq(S), NEW n \in Nat, NEW f \in S
    PROVE  Sized(v, n, f) \in Seq(S) /\ Fills(Sized(v, n, f), v, n, f)
<1> DEFINE d == IF Len(v) < n THEN n - Len(v) ELSE 0
           t == [k \in 1..d |-> f]
           w == v \o t
<1>1. d \in Nat /\ Len(v) \in Nat /\ Len(v) + d = IF Len(v) < n THEN n ELSE Len(v)
  OBVIOUS
<1>2. t \in Seq(S) /\ Len(t) = d /\ \A k \in 1..d : t[k] = f
  <2> HIDE DEF d
  <2>1. t \in [1..d -> S]
    OBVIOUS
  <2>2. QED
    BY <1>1, <2>1
<1> HIDE DEF t, d
<1>3. w \in Seq(S) /\ Len(w) = Len(v) + d
  BY <1>2
<1>4. ASSUME NEW k \in 1..(Len(v) + d)
      PROVE  w[k] = IF k <= Len(v) THEN v[k] ELSE f
  <2>1. w[k] = IF k <= Len(v) THEN v[k] ELSE t[k - Len(v)]
    BY <1>1, <1>2
  <2>2. k <= Len(v) \/ k - Len(v) \in 1..d
    BY <1>1
  <2>3. QED
    BY <1>2, <2>1, <2>2
<1>5. Sized(v, n, f) = w
  BY DEF Sized, t, d
<1> HIDE DEF w
<1>6. QED
  BY <1>1, <1>3, <1>4, <1>5 DEF Fills

LEMMA SizedAgain ==
    ASSUME NEW S, NEW v \in Seq(S), NEW n \in Nat, NEW m \in 0..n, NEW f \in S
    PROVE  Sized(Sized(v, m, f), n, f) = Sized(v, n, f)
<1> DEFINE w == Sized(v, m, f)
           x == Sized(w, n, f)
           y == Sized(v, n, f)
<1>1. w \in Seq(S) /\ Fills(w, v, m, f)
  BY SizedFills
<1>2. x \in Seq(S) /\ Fills(x, w, n, f)
  <2> HIDE DEF w
  <2>1. QED
    BY <1>1, SizedFills
<1>3. y \in Seq(S) /\ Fills(y, v, n, f)
  BY SizedFills
<1> HIDE DEF w, x, y
<1>4. Len(x) = Len(y) /\ Len(v) \in Nat /\ Len(w) \in Nat
  BY <1>1, <1>2, <1>3 DEF Fills
<1>5. ASSUME NEW k \in 1..Len(x)
      PROVE  x[k] = y[k]
  BY <1>1, <1>2, <1>3, <1>4 DEF Fills
<1>6. x = y
  BY <1>2, <1>3, <1>4, <1>5, SeqEqual
<1>7. QED
  BY <1>6 DEF x, y, w

--------------------------------------------------------------------------------
(***************************************************************************)
(* The inductive invariant.  Shaped: what is stored and exported are       *)
(* configurations; an interface exports its arrays or none.  InProgress:   *)
(* only the Set being handled tells what is exported from what was before. *)
(* UpToDate: what the file is not behind with is in it, as it was written  *)
(* or as it is when filled up; while the file is truncated, in what is     *)
(* about to be written, with the pending Set.  HiddenIsBehind: the file    *)
(* need not hold arrays that are not exported.                             *)
(***************************************************************************)
Shaped ==
    /\ IsFile(file) /\ IsFile(data)
    /\ DOMAIN param = Iface /\ DOMAIN before = Iface
    /\ \A i \in Iface :
          /\ IsConfiguration(param[i]) /\ IsConfiguration(before[i])
          /\ DOMAIN param[i] \in {Parameter, Scalars} /\ DOMAIN before[i] = DOMAIN param[i]
          /\ Count(before[i]) = Count(param[i])

IsPending(i, p) == i = pending.iface /\ p = pending.key

InProgress ==
    /\ pc = "loop" => before = param
    /\ pc # "loop" =>
          /\ pending.iface \in Iface
          /\ pending.key \in Writable /\ pending.key \in DOMAIN param[pending.iface]
          /\ pending.key \in Arrays => pending.value \in Seq(Element)
          /\ \A i \in Iface : \A p \in DOMAIN param[i] :
                param[i][p] = IF IsPending(i, p) THEN pending.value ELSE before[i][p]

Holds(stored, i, p, value) ==
    /\ i \in DOMAIN stored /\ p \in DOMAIN stored[i]
    /\ \/ value = stored[i][p]
       \/ p \in Arrays /\ value = Sized(stored[i][p], Count(param[i]), Fill[p])

UpToDate ==
    /\ pc \in {"loop", "open", "write"}
    /\ pc = "write" => file = Lost
    /\ pc # "write" =>
          \A i \in Iface : \A p \in DOMAIN param[i] :
             <<i, p>> \notin behind => Holds(file, i, p, before[i][p])
    /\ pc = "write" =>
          \A i \in Iface : \A p \in DOMAIN param[i] :
             <<i, p>> \notin behind \/ IsPending(i, p) => Holds(data, i, p, param[i][p])

HiddenIsBehind ==
    \A i \in Iface : DOMAIN param[i] = Scalars => \A p \in Arrays : <<i, p>> \in behind

IInv == Shaped /\ InProgress /\ UpToDate /\ HiddenIsBehind

--------------------------------------------------------------------------------
LEMMA Names ==
    /\ Arrays = {"IPv4", "IPv6", "UserName", "Type", "AddressType", "Timeout", "Retries"}
    /\ Required \subseteq Arrays /\ Arrays \cap Scalars = {} /\ Parameter = Arrays \cup Scalars
    /\ Required \cap Scalars = {} /\ Scalars \subseteq Parameter
    /\ Writable = Arrays \cup {"CommunityString"} /\ Writable \subseteq Parameter
BY DEF Arrays, Fill, Required, Scalars, Parameter, Writable

LEMMA NothingStored == IsFile(Nothing) /\ DOMAIN Nothing = {}
BY DEF IsFile, Nothing

LEMMA ExportedShape ==
    ASSUME NEW cfg, IsConfiguration(cfg)
    PROVE  /\ IsConfiguration(Exported(cfg)) /\ Count(Exported(cfg)) = Count(cfg)
           /\ DOMAIN Exported(cfg) = IF Required \subseteq DOMAIN cfg THEN Parameter ELSE Scalars
<1> USE Names
<1> DEFINE e == Exported(cfg)
           D == IF Required \subseteq DOMAIN cfg THEN Parameter ELSE Scalars
<1>1. /\ DOMAIN e = D
      /\ \A p \in D : e[p] = CASE p = "CommunityString" -> CommunityString(cfg)
                               [] p = "NumberofDestinations" -> Count(cfg)
                               [] OTHER -> Sized(Array(cfg, p), Count(cfg), Fill[p])
  BY DEF Exported
<1>2. "NumberofDestinations" \in D /\ Count(e) = Count(cfg) /\ Count(cfg) \in Nat
  BY <1>1 DEF Scalars, Count, IsConfiguration
<1>3. ASSUME NEW p \in D, p \in Arrays
      PROVE  e[p] \in Seq(Element)
  <2>1. Array(cfg, p) \in Seq(Element) /\ Fill[p] \in Element
    BY <1>3, LanAssumption DEF Array, IsConfiguration
  <2>2. Sized(Array(cfg, p), Count(cfg), Fill[p]) \in Seq(Element)
    BY <2>1, <1>2, SizedFills
  <2>3. e[p] = Sized(Array(cfg, p), Count(cfg), Fill[p])
    BY <1>1, <1>3
  <2>4. QED
    BY <2>2, <2>3
<1> HIDE DEF e
<1>4. QED
  BY <1>1, <1>2, <1>3 DEF IsConfiguration, e

\* What is exported is what the entry has, filled up.
LEMMA ExportedHolds ==
    ASSUME NEW cfg, IsConfiguration(cfg), NEW p \in DOMAIN Exported(cfg), p \in DOMAIN cfg
    PROVE  Exported(cfg)[p] = IF p \in Arrays THEN Sized(cfg[p], Count(cfg), Fill[p]) ELSE cfg[p]
<1> USE Names
<1>1. p \in Parameter
  BY ExportedShape
<1>2. CASE p \in Arrays
  BY <1>2, ExportedShape DEF Exported, Array
<1>3. CASE p = "CommunityString"
  BY <1>3, ExportedShape DEF Exported, CommunityString
<1>4. CASE p = "NumberofDestinations"
  BY <1>4, ExportedShape DEF Exported, Count
<1>5. QED
  BY <1>1, <1>2, <1>3, <1>4 DEF Scalars

--------------------------------------------------------------------------------
(***************************************************************************)
(* Loading, when the daemon starts.                                        *)
(***************************************************************************)
AreOlder(older) == \A i \in Iface : older[i] \in {Legacy[i], Nothing}

Loaded(stored) ==
    /\ \E older : AreOlder(older) /\ param = [i \in Iface |-> Load(i, stored, older)]
    /\ before = param /\ behind = NotHeld(stored, param)
    /\ pc = "loop" /\ pending = Nothing /\ data = Nothing

\* What is exported for an interface comes from one entry; the file's, if it has one.
LEMMA LoadedFrom ==
    ASSUME NEW stored, IsFile(stored), NEW older, AreOlder(older), NEW i \in Iface
    PROVE  \E cfg : /\ IsConfiguration(cfg) /\ Load(i, stored, older) = Exported(cfg)
                    /\ i \in DOMAIN stored => cfg = stored[i]
<1> DEFINE cfg == IF i \in DOMAIN stored THEN stored[i] ELSE older[i]
<1>1. older[i] \in {Legacy[i], Nothing}
  BY DEF AreOlder
<1>2. IsConfiguration(Legacy[i]) /\ IsConfiguration(Nothing)
  BY LanAssumption DEF IsFile, Nothing, IsConfiguration, Count
<1>3. IsConfiguration(cfg) /\ (i \in DOMAIN stored => cfg = stored[i])
  BY <1>1, <1>2 DEF IsFile
<1>4. Load(i, stored, older) = Exported(cfg)
  BY DEF Load
<1> HIDE DEF cfg
<1>5. QED
  BY <1>3, <1>4

LEMMA LoadedInv ==
    (\E stored \in Read(file) : Loaded(stored)) /\ IsFile(file) => IInv
<1> SUFFICES ASSUME NEW stored \in Read(file), Loaded(stored), IsFile(file)
             PROVE  IInv
  OBVIOUS
<1> USE Names DEF Loaded
<1>0. IsFile(stored) /\ (DOMAIN stored # {} => stored = file)
  BY NothingStored DEF Read
<1>1. ASSUME NEW i \in Iface
      PROVE  \E cfg : /\ IsConfiguration(cfg) /\ param[i] = Exported(cfg)
                      /\ i \in DOMAIN stored => cfg = stored[i]
  <2>1. PICK older : AreOlder(older) /\ param = [j \in Iface |-> Load(j, stored, older)]
    OBVIOUS
  <2>2. param[i] = Load(i, stored, older)
    BY <2>1
  <2>3. QED
    BY <1>0, <2>1, <2>2, LoadedFrom
<1>2. Shaped
  <2>1. IsFile(file) /\ IsFile(data) /\ DOMAIN param = Iface /\ before = param
    BY NothingStored
  <2>2. ASSUME NEW i \in Iface
        PROVE  IsConfiguration(param[i]) /\ DOMAIN param[i] \in {Parameter, Scalars}
    <3>1. PICK cfg : IsConfiguration(cfg) /\ param[i] = Exported(cfg)
      BY <1>1
    <3>2. QED
      BY <3>1, ExportedShape
  <2>3. QED
    BY <2>1, <2>2 DEF Shaped
<1>3. InProgress
  BY DEF InProgress
<1>4. ASSUME NEW i \in Iface, NEW p \in DOMAIN param[i], <<i, p>> \notin behind
      PROVE  Holds(file, i, p, before[i][p])
  <2>1. PICK cfg : /\ IsConfiguration(cfg) /\ param[i] = Exported(cfg)
                   /\ i \in DOMAIN stored => cfg = stored[i]
    BY <1>1
  <2>2. p \in Parameter
    BY <1>2 DEF Shaped
  <2>3. i \in DOMAIN stored /\ p \in DOMAIN stored[i] /\ stored = file
    BY <1>0, <2>2, <1>4 DEF NotHeld
  <2>4. Count(param[i]) = Count(cfg)
    BY <2>1, ExportedShape
  <2>5. param[i][p] = IF p \in Arrays THEN Sized(cfg[p], Count(cfg), Fill[p]) ELSE cfg[p]
    BY <2>1, <2>3, ExportedHolds
  <2>6. QED
    BY <2>1, <2>3, <2>4, <2>5 DEF Holds
<1>5. UpToDate
  BY <1>4 DEF UpToDate
<1>6. HiddenIsBehind
  BY DEF HiddenIsBehind, NotHeld
<1>7. QED
  BY <1>2, <1>3, <1>5, <1>6 DEF IInv

LEMMA InitInv == ConfigInit => IInv
<1> SUFFICES ASSUME ConfigInit PROVE IInv
  OBVIOUS
<1>1. AreOlder(Legacy)
  BY DEF AreOlder
<1>2. Loaded(file) /\ IsFile(file) /\ file \in Read(file)
  BY <1>1, LanAssumption DEF ConfigInit, Loaded, Read
<1>3. QED
  BY <1>2, LoadedInv

LEMMA OlderFilesAre ==
    ASSUME NEW older \in OlderFiles
    PROVE  AreOlder(older)
BY DEF OlderFiles, AreOlder

--------------------------------------------------------------------------------
(***************************************************************************)
(* The steps of a Set.                                                     *)
(***************************************************************************)
LEMMA SetParamStep ==
    ASSUME IInv, NEW i \in Iface, NEW w \in Write, SetParam(i, w.key, w.value)
    PROVE  IInv'
<1> USE Names DEF IInv
<1> DEFINE p == w.key
           v == w.value
<1>1. /\ pc = "loop" /\ pc' = "open" /\ before = param
      /\ p \in DOMAIN param[i] /\ param' = [param EXCEPT ![i][p] = v]
      /\ pending' = [iface |-> i, key |-> p, value |-> v]
      /\ UNCHANGED <<file, data, before, behind>>
      /\ p \in Writable /\ (p \in Arrays => v \in Seq(Element))
  BY LanAssumption DEF SetParam, InProgress
<1>2. pending'.iface = i /\ pending'.key = p /\ pending'.value = v
  BY <1>1
<1> HIDE DEF p, v
<1>3. /\ DOMAIN param' = Iface
      /\ \A j \in Iface :
            /\ DOMAIN param'[j] = DOMAIN param[j]
            /\ \A q \in DOMAIN param[j] : param'[j][q] = IF j = i /\ q = p THEN v ELSE param[j][q]
  BY <1>1 DEF Shaped
<1>4. ASSUME NEW j \in Iface
      PROVE  Count(param'[j]) = Count(param[j]) /\ IsConfiguration(param'[j])
  <2>1. "NumberofDestinations" \in DOMAIN param[j]
    BY DEF Shaped, Scalars
  <2>2. Count(param'[j]) = Count(param[j])
    BY <1>1, <1>3, <2>1 DEF Count, Scalars
  <2>3. ASSUME NEW q \in DOMAIN param[j], q \in Arrays
        PROVE  param'[j][q] \in Seq(Element)
    BY <1>1, <1>3, <2>3 DEF Shaped, IsConfiguration
  <2>4. QED
    BY <1>3, <2>2, <2>3 DEF Shaped, IsConfiguration
<1>5. Shaped'
  BY <1>1, <1>3, <1>4 DEF Shaped, IsFile
<1>6. InProgress'
  BY <1>1, <1>2, <1>3 DEF InProgress, IsPending
<1>7. UpToDate'
  <2>1. ASSUME NEW j \in Iface, NEW q \in DOMAIN param'[j], <<j, q>> \notin behind'
        PROVE  Holds(file, j, q, before[j][q])'
    <3>1. Holds(file, j, q, before[j][q])
      BY <1>1, <1>3, <2>1 DEF UpToDate
    <3>2. QED
      BY <1>1, <1>4, <3>1 DEF Holds
  <2>2. QED
    BY <1>1, <2>1 DEF UpToDate
<1>8. HiddenIsBehind'
  BY <1>1, <1>3 DEF HiddenIsBehind
<1>9. QED
  BY <1>5, <1>6, <1>7, <1>8

\* The entry with the value put in.
IsWith(w, cfg, p, v) ==
    /\ IsConfiguration(w) /\ Count(w) = Count(cfg)
    /\ DOMAIN w = DOMAIN cfg \cup {p}
    /\ \A q \in DOMAIN w : w[q] = IF q = p THEN v ELSE cfg[q]

LEMMA WithValue ==
    ASSUME NEW cfg, IsConfiguration(cfg), NEW p \in Writable, NEW v,
           p \in Arrays => v \in Seq(Element)
    PROVE  IsWith(With(cfg, p, v), cfg, p, v)
<1> USE Names
<1> DEFINE w == With(cfg, p, v)
<1>1. /\ DOMAIN w = DOMAIN cfg \cup {p}
      /\ \A q \in DOMAIN cfg \cup {p} : w[q] = IF q = p THEN v ELSE cfg[q]
  BY DEF With
<1> HIDE DEF w
<1>2. p # "NumberofDestinations"
  BY DEF Writable
<1>3. Count(w) = Count(cfg)
  BY <1>1, <1>2 DEF Count
<1>4. IsConfiguration(w)
  <2>1. ASSUME NEW q \in DOMAIN w, q \in Arrays
        PROVE  w[q] \in Seq(Element)
    BY <1>1, <2>1 DEF IsConfiguration
  <2>2. DOMAIN w \subseteq Parameter
    BY <1>1 DEF IsConfiguration
  <2>3. Count(w) \in Nat
    BY <1>3 DEF IsConfiguration
  <2>4. QED
    BY <2>1, <2>2, <2>3 DEF IsConfiguration
<1>5. QED
  BY <1>1, <1>3, <1>4 DEF w, IsWith

LEMMA OpenStep ==
    ASSUME IInv, OpenFile
    PROVE  IInv'
<1> USE Names DEF IInv
<1> DEFINE i == pending.iface
           p == pending.key
<1>1. /\ pc = "open" /\ UNCHANGED param
      /\ i \in Iface /\ p \in Writable /\ p \in DOMAIN param[i]
      /\ p \in Arrays => pending.value \in Seq(Element)
  BY DEF OpenFile, InProgress
<1>2. ASSUME NEW stored \in Read(file),
             data' = Put(stored, pending), behind' = behind \cup NotHeld(stored, param),
             file' = Lost, pc' = "write", UNCHANGED <<pending, before>>
      PROVE  IInv'
  <2> DEFINE old == IF i \in DOMAIN stored THEN stored[i] ELSE Nothing
             new == With(old, p, pending.value)
  <2>0. IsFile(stored) /\ (stored = file \/ DOMAIN stored = {})
    BY NothingStored DEF Read, Shaped
  <2>1. /\ DOMAIN data' = DOMAIN stored \cup {i}
        /\ \A j \in DOMAIN data' : data'[j] = IF j = i THEN new ELSE stored[j]
    BY <1>2 DEF Put
  <2>2. IsConfiguration(old)
    <3>1. IsConfiguration(Nothing)
      BY DEF Nothing, IsConfiguration, Count
    <3>2. QED
      BY <2>0, <3>1 DEF IsFile
  <2> HIDE DEF old
  <2>3. /\ IsConfiguration(new) /\ Count(new) = Count(old)
        /\ DOMAIN new = DOMAIN old \cup {p}
        /\ \A q \in DOMAIN new : new[q] = IF q = p THEN pending.value ELSE old[q]
    <3> DEFINE v == pending.value
    <3>1. p \in Writable /\ (p \in Arrays => v \in Seq(Element))
      BY <1>1
    <3> HIDE DEF p, v
    <3>2. IsWith(With(old, p, v), old, p, v)
      BY <2>2, <3>1, WithValue
    <3>3. IsWith(new, old, p, v)
      BY <3>2 DEF v
    <3> HIDE DEF new
    <3>4. QED
      BY <3>3 DEF v, IsWith
  <2> HIDE DEF new
  <2>4. IsFile(data') /\ IsFile(file')
    BY <1>1, <1>2, <2>0, <2>1, <2>3, NothingStored DEF IsFile, Lost
  <2>5. Shaped'
    BY <1>1, <1>2, <2>4 DEF Shaped, IsFile
  <2>6. InProgress'
    BY <1>1, <1>2 DEF InProgress, IsPending
  <2>7. ASSUME NEW j \in Iface, NEW q \in DOMAIN param[j], <<j, q>> \notin behind' \/ IsPending(j, q)
        PROVE  Holds(data', j, q, param[j][q])
    <3>1. CASE IsPending(j, q)
      <4>1. param[j][q] = pending.value
        BY <1>1, <3>1 DEF InProgress
      <4>2. QED
        BY <3>1, <4>1, <2>1, <2>3 DEF Holds, IsPending
    <3>2. CASE ~IsPending(j, q)
      <4>1. param[j][q] = before[j][q]
        BY <1>1, <3>2 DEF InProgress
      <4>2. Holds(stored, j, q, param[j][q])
        <5>1. <<j, q>> \notin behind /\ <<j, q>> \notin NotHeld(stored, param)
          BY <1>2, <2>7, <3>2
        <5>2. q \in Parameter
          BY DEF Shaped
        <5>3. stored = file
          BY <2>0, <5>1, <5>2 DEF NotHeld
        <5>4. QED
          BY <1>1, <4>1, <5>1, <5>3 DEF UpToDate
      <4>3. CASE j # i
        BY <4>2, <4>3, <2>1 DEF Holds
      <4>4. CASE j = i
        <5>1. q # p /\ j \in DOMAIN stored /\ q \in DOMAIN stored[j]
          BY <3>2, <4>2, <4>4 DEF IsPending, Holds
        <5>2. data'[j] = new /\ q \in DOMAIN new /\ new[q] = stored[j][q]
          BY <4>4, <5>1, <2>1, <2>3 DEF old
        <5>3. QED
          BY <4>2, <4>4, <5>2, <2>1 DEF Holds
      <4>5. QED
        BY <4>3, <4>4
    <3>3. QED
      BY <3>1, <3>2
  <2>8. UpToDate'
    BY <1>1, <1>2, <2>7 DEF UpToDate, IsPending, Holds
  <2>9. HiddenIsBehind'
    BY <1>1, <1>2 DEF HiddenIsBehind
  <2>10. QED
    BY <2>5, <2>6, <2>8, <2>9
<1>3. CASE Done /\ behind' = behind \cup {<<i, p>>} /\ UNCHANGED <<file, data>>
  <2>1. pc' = "loop" /\ before' = param
    BY <1>3 DEF Done
  <2>2. Shaped'
    BY <1>1, <1>3, <2>1 DEF Shaped, IsFile
  <2>3. InProgress'
    BY <1>1, <2>1 DEF InProgress
  <2>4. ASSUME NEW j \in Iface, NEW q \in DOMAIN param[j], <<j, q>> \notin behind'
        PROVE  Holds(file, j, q, param[j][q])
    <3>1. ~IsPending(j, q) /\ <<j, q>> \notin behind
      BY <1>3, <2>4 DEF IsPending
    <3>2. param[j][q] = before[j][q]
      BY <1>1, <3>1 DEF InProgress
    <3>3. QED
      BY <1>1, <3>1, <3>2 DEF UpToDate
  <2>5. UpToDate'
    BY <1>1, <1>3, <2>1, <2>4 DEF UpToDate, Holds
  <2>6. HiddenIsBehind'
    BY <1>1, <1>3 DEF HiddenIsBehind
  <2>7. QED
    BY <2>2, <2>3, <2>5, <2>6
<1>4. QED
  BY <1>2, <1>3 DEF OpenFile

LEMMA WriteStep ==
    ASSUME IInv, WriteFile
    PROVE  IInv'
<1> USE Names DEF IInv
<1> DEFINE i == pending.iface
           p == pending.key
<1>1. /\ pc = "write" /\ UNCHANGED param /\ data' = Nothing
      /\ pc' = "loop" /\ before' = param
      /\ i \in Iface /\ p \in Writable /\ p \in DOMAIN param[i]
  BY DEF WriteFile, Done, InProgress
<1>2. \/ file' = data /\ behind' = behind \ {<<i, p>>}
      \/ file' = Lost /\ behind' = Iface \X Parameter
  BY DEF WriteFile
<1>3. IsFile(file') /\ IsFile(data')
  BY <1>1, <1>2, NothingStored DEF Shaped, Lost
<1>4. Shaped'
  BY <1>1, <1>3 DEF Shaped, IsFile
<1>5. InProgress'
  BY <1>1 DEF InProgress
<1>6. ASSUME NEW j \in Iface, NEW q \in DOMAIN param[j], <<j, q>> \notin behind'
      PROVE  Holds(file', j, q, param[j][q])
  <2>1. q \in Parameter
    BY DEF Shaped
  <2>2. /\ file' = data
        /\ <<j, q>> \notin behind \/ IsPending(j, q)
    BY <1>2, <1>6, <2>1 DEF IsPending
  <2>3. QED
    BY <1>1, <2>2 DEF UpToDate
<1>7. UpToDate'
  BY <1>1, <1>6 DEF UpToDate, Holds
<1>8. HiddenIsBehind'
  <2>1. ASSUME NEW j \in Iface, DOMAIN param[j] = Scalars, NEW q \in Arrays
        PROVE  <<j, q>> \in behind'
    <3>1. <<j, q>> \in behind
      BY <2>1 DEF HiddenIsBehind
    <3>2. <<j, q>> # <<i, p>> /\ <<j, q>> \in Iface \X Parameter
      BY <1>1, <2>1
    <3>3. QED
      BY <1>2, <3>1, <3>2
  <2>2. QED
    BY <1>1, <2>1 DEF HiddenIsBehind
<1>9. QED
  BY <1>4, <1>5, <1>7, <1>8

LEMMA RestartStep ==
    ASSUME IInv, ConfigurationRestarts
    PROVE  IInv'
<1>1. UNCHANGED file
  BY DEF ConfigurationRestarts, RestartsWith
<1>2. IsFile(file)'
  BY <1>1 DEF IInv, Shaped, IsFile
<1>3. (\E stored \in Read(file) : Loaded(stored))'
  <2>1. PICK stored \in Read(file) : RestartsWith(stored)
    BY DEF ConfigurationRestarts
  <2>2. QED
    BY <1>1, <2>1, OlderFilesAre DEF RestartsWith, Loaded, AreOlder, Read, Load, NotHeld
<1>4. QED
  BY <1>2, <1>3, LoadedInv, PTL

LEMMA StutterStep ==
    ASSUME IInv, UNCHANGED config
    PROVE  IInv'
BY DEF config, IInv, Shaped, InProgress, IsPending, UpToDate, Holds, HiddenIsBehind, IsFile

LEMMA Inductive == IInv /\ [ConfigNext]_config => IInv'
<1> SUFFICES ASSUME IInv, [ConfigNext]_config PROVE IInv'
  OBVIOUS
<1>1. CASE UserSetsParam
  BY <1>1, SetParamStep DEF UserSetsParam
<1>2. CASE OpenFile
  BY <1>2, OpenStep
<1>3. CASE WriteFile
  BY <1>3, WriteStep
<1>4. CASE ConfigurationRestarts
  BY <1>4, RestartStep
<1>5. CASE UNCHANGED config
  BY <1>5, StutterStep
<1>6. QED
  BY <1>1, <1>2, <1>3, <1>4, <1>5 DEF ConfigNext

--------------------------------------------------------------------------------
(***************************************************************************)
(* The theorems.                                                           *)
(***************************************************************************)
LEMMA InvariantHolds == ConfigSpec => []IInv
<1>1. QED
  BY InitInv, Inductive, PTL DEF ConfigSpec

LEMMA HeldIsSame ==
    ASSUME IInv, NEW i \in Iface, NEW p \in DOMAIN param[i], NEW stored, IsFile(stored),
           Holds(stored, i, p, param[i][p])
    PROVE  Same(p, Count(param[i]), stored[i][p], param[i][p])
<1> DEFINE n == Count(param[i])
<1>1. CASE p \in Arrays
  <2>1. stored[i][p] \in Seq(Element) /\ Fill[p] \in Element /\ n \in Nat /\ n \in 0..n
    BY <1>1, LanAssumption DEF Holds, IsFile, IsConfiguration, IInv, Shaped
  <2>2. Sized(Sized(stored[i][p], n, Fill[p]), n, Fill[p]) = Sized(stored[i][p], n, Fill[p])
    BY <2>1, SizedAgain
  <2>3. QED
    BY <1>1, <2>2 DEF Holds, Same
<1>2. CASE p \notin Arrays
  BY <1>2 DEF Holds, Same
<1>3. QED
  BY <1>1, <1>2

(***************************************************************************)
(* Between two Sets, updateLanParamConfigValue leaves the file with every  *)
(* parameter of every interface that pef-configuration exports, but for    *)
(* what the file is known to be behind with: what it never got, and what a *)
(* Set or a start that could not read it has passed over.                  *)
(***************************************************************************)
THEOREM FileIsComplete == ConfigSpec => []FileHoldsParameters
<1>1. IInv => FileHoldsParameters
  <2> SUFFICES ASSUME IInv, pc = "loop",
                      NEW i \in Iface, NEW p \in DOMAIN param[i], <<i, p>> \notin behind
               PROVE  Stored(i) /\ p \in DOMAIN file[i] /\ Same(p, Count(param[i]), file[i][p], param[i][p])
    BY DEF FileHoldsParameters
  <2>1. Holds(file, i, p, param[i][p]) /\ IsFile(file)
    BY DEF IInv, UpToDate, InProgress, Shaped
  <2>2. QED
    BY <2>1, HeldIsSame DEF Holds, Stored
<1>2. QED
  BY <1>1, InvariantHolds, PTL

\* What a restart makes of an array that the file holds.
LEMMA ReloadedArray ==
    ASSUME NEW s \in Seq(Element), NEW f \in Element, NEW n \in Nat, NEW m \in Nat,
           NEW b, b = s \/ b = Sized(s, n, f)
    PROVE  Sized(Sized(s, m, f), Larger(n, m), f) = Sized(b, Larger(n, m), f)
<1> DEFINE l == Larger(n, m)
<1>1. l \in Nat /\ m \in 0..l /\ n \in 0..l
  BY DEF Larger
<1> HIDE DEF l
<1>2. Sized(Sized(s, m, f), l, f) = Sized(s, l, f)
  BY <1>1, SizedAgain
<1>3. Sized(Sized(s, n, f), l, f) = Sized(s, l, f)
  BY <1>1, SizedAgain
<1>4. Sized(Sized(s, m, f), l, f) = Sized(b, l, f)
  BY <1>2, <1>3
<1>5. QED
  BY <1>4 DEF l

(***************************************************************************)
(* A restart at any moment, unless the file is truncated then or cannot be *)
(* read, brings back what was configured before the Set in progress, of    *)
(* all that the file is not behind with.                                   *)
(***************************************************************************)
LEMMA RestartUndoes ==
    ASSUME IInv, RestartsWith(file), file # Lost,
           NEW i \in Iface, NEW p \in DOMAIN param'[i], <<i, p>> \notin behind
    PROVE  Same(p, Larger(Count(param[i]), Count(param'[i])), param'[i][p], before[i][p])
<1> USE Names DEF IInv
<1>1. PICK cfg : /\ IsConfiguration(cfg) /\ param'[i] = Exported(cfg)
                 /\ i \in DOMAIN file => cfg = file[i]
  <2>1. PICK older \in OlderFiles : param' = [j \in Iface |-> Load(j, file, older)]
    BY DEF RestartsWith
  <2>2. param'[i] = Load(i, file, older)
    BY <2>1
  <2>3. QED
    BY <2>2, OlderFilesAre, LoadedFrom DEF Shaped
<1>2. p \in DOMAIN param[i]
  <2>1. p \in Parameter
    BY <1>1, ExportedShape
  <2>2. QED
    BY <2>1 DEF HiddenIsBehind, Shaped
<1>3. Holds(file, i, p, before[i][p])
  BY <1>2 DEF UpToDate
<1>4. i \in DOMAIN file /\ cfg = file[i] /\ p \in DOMAIN cfg
  BY <1>1, <1>3 DEF Holds
<1>5. Count(param'[i]) = Count(cfg)
  BY <1>1, ExportedShape
<1>6. param'[i][p] = IF p \in Arrays THEN Sized(cfg[p], Count(cfg), Fill[p]) ELSE cfg[p]
  BY <1>1, <1>4, ExportedHolds
<1>7. CASE p \in Arrays
  <2> DEFINE n == Count(param[i])
             m == Count(cfg)
  <2>1. n \in Nat /\ m \in Nat
    BY <1>1 DEF Shaped, IsConfiguration
  <2>2. cfg[p] \in Seq(Element) /\ Fill[p] \in Element
    BY <1>1, <1>4, <1>7, LanAssumption DEF IsConfiguration
  <2>3. before[i][p] = cfg[p] \/ before[i][p] = Sized(cfg[p], n, Fill[p])
    BY <1>3, <1>4 DEF Holds
  <2> HIDE DEF n, m
  <2>4. Sized(Sized(cfg[p], m, Fill[p]), Larger(n, m), Fill[p]) = Sized(before[i][p], Larger(n, m), Fill[p])
    BY <2>1, <2>2, <2>3, ReloadedArray
  <2>5. QED
    BY <1>5, <1>6, <1>7, <2>4 DEF Same, n, m
<1>8. CASE p \notin Arrays
  BY <1>3, <1>4, <1>6, <1>8 DEF Holds, Same
<1>9. QED
  BY <1>7, <1>8

(***************************************************************************)
(* What pef-configuration exports after a restart is, for each interface,  *)
(* what it exported before the Set that the restart interrupted, or what   *)
(* it was to export after it: of all parameters but those that the file is *)
(* known to be behind with.                                                *)
(***************************************************************************)
THEOREM RestartKeepsSets == ConfigSpec => SetDoneOrUndone
<1>1. ASSUME IInv, RestartsWith(file), file # Lost, NEW i \in Iface
      PROVE  LET n == Larger(Count(param[i]), Count(param'[i]))
                 Kept == {p \in DOMAIN param'[i] : <<i, p>> \notin behind}
             IN  \/ \A p \in Kept : Same(p, n, param'[i][p], param[i][p])
                 \/ \A p \in Kept : Same(p, n, param'[i][p], before[i][p])
  BY <1>1, RestartUndoes
<1>2. ASSUME IInv, [ConfigNext]_config
      PROVE  [RestartsWith(file) /\ file # Lost =>
                \A i \in Iface :
                    LET n == Larger(Count(param[i]), Count(param'[i]))
                        Kept == {p \in DOMAIN param'[i] : <<i, p>> \notin behind}
                    IN  \/ \A p \in Kept : Same(p, n, param'[i][p], param[i][p])
                        \/ \A p \in Kept : Same(p, n, param'[i][p], before[i][p])]_config
  BY <1>1, <1>2
<1>3. QED
  BY <1>2, InvariantHolds, PTL DEF ConfigSpec, SetDoneOrUndone

--------------------------------------------------------------------------------
(***************************************************************************)
(* Traps and tests leave the parameters and their file alone, so that what *)
(* was shown of these holds in the composition too.                        *)
(***************************************************************************)
LEMMA ConfigSteps ==
    ASSUME TestNext \/ UNCHANGED testVars
    PROVE  [ConfigNext]_config
BY DEF TestNext, Next, Configures, SwitchVersion, SendTrap, getSNMPDisableStatus, ReadLanFile, Send,
       SendReturns, Request, dispatchTestDestination, DispatchTrap, DispatchMail, DispatchFails, TestTrap,
       TrapReturned, MailReturned, TestInterrupted, ConfigNext, testVars, vars

LEMMA ConfigInvariant == TestSpec => []IInv
<1>1. TestInit => IInv
  BY InitInv DEF TestInit, Init
<1>2. IInv /\ [TestNext]_testVars => IInv'
  BY ConfigSteps, Inductive
<1>3. QED
  BY <1>1, <1>2, PTL DEF TestSpec

--------------------------------------------------------------------------------
(***************************************************************************)
(* Versions.  What sendTrap has read of the disabled versions was so at    *)
(* some moment since it began.                                             *)
(***************************************************************************)
Permitted ==
    /\ step \in {"idle", "disableStatus", "managers", "send", "sent"}
    /\ step # "idle" => Version \ disabled \subseteq allowed
    /\ step \in {"managers", "send"} => Version \ disableStatus \subseteq allowed
    /\ step = "send" => manager[1] \in Version
    /\ TrapVersionAllowed

LEMMA ManagerVersion ==
    ASSUME NEW cfg, NEW n, NEW m \in getManagers(cfg, n)
    PROVE  m[1] \in Version
BY DEF getManagers

LEMMA PermittedStep ==
    ASSUME Permitted, TestNext \/ UNCHANGED testVars
    PROVE  Permitted'
<1> USE DEF Permitted, TrapVersionAllowed
<1>1. CASE Return
  BY <1>1 DEF Return
<1>2. CASE Configures \/ Request \/ UNCHANGED vars
  BY <1>2 DEF Configures, Request, vars, sender
<1>3. CASE SwitchVersion
  BY <1>3 DEF SwitchVersion, sender
<1>4. CASE SendTrap \/ DispatchTrap
  BY <1>4 DEF SendTrap, DispatchTrap
<1>5. CASE getSNMPDisableStatus
  BY <1>5 DEF getSNMPDisableStatus
<1>6. CASE ReadLanFile
  BY <1>1, <1>6, ManagerVersion DEF ReadLanFile
<1>7. CASE Send
  BY <1>7 DEF Send
<1>8. CASE SendReturns
  BY <1>1, <1>8 DEF SendReturns
<1>9. QED
  BY <1>1, <1>2, <1>3, <1>4, <1>5, <1>6, <1>7, <1>8
  DEF TestNext, Next, dispatchTestDestination, DispatchMail, DispatchFails, TestTrap,
      TrapReturned, MailReturned, TestInterrupted, testVars

(***************************************************************************)
(* sendTrap sends no trap in a version that snmp.conf disabled all the     *)
(* time since it began.                                                    *)
(***************************************************************************)
THEOREM TrapsInAllowedVersions == TestSpec => []TrapVersionAllowed
<1>1. TestInit => Permitted
  BY DEF TestInit, Init, Permitted, TrapVersionAllowed
<1>2. Permitted /\ [TestNext]_testVars => Permitted'
  BY PermittedStep
<1>3. Permitted => TrapVersionAllowed
  BY DEF Permitted
<1>4. QED
  BY <1>1, <1>2, <1>3, PTL DEF TestSpec

--------------------------------------------------------------------------------
(***************************************************************************)
(* What the file says of an interface that it is in step with is what the  *)
(* interface was configured as before the Set in progress.                 *)
(***************************************************************************)
Extends(cfg, old) ==
    /\ CommunityString(cfg) = CommunityString(old)
    /\ \A p \in Arrays : \A n : At(Array(old, p), n) \subseteq At(Array(cfg, p), n)

LEMMA ManagersKept ==
    ASSUME NEW cfg, NEW old, Extends(cfg, old), NEW n
    PROVE  getManagers(old, n) \subseteq getManagers(cfg, n)
<1>1. \A p \in Arrays : At(Array(old, p), n) \subseteq At(Array(cfg, p), n)
  BY DEF Extends
<1>2. {"IPv4", "IPv6", "AddressType", "UserName", "Type"} \subseteq Arrays
  BY Names
<1>3. Peers(old, n) \subseteq Peers(cfg, n)
  <2>1. ASSUME NEW f
        PROVE  LET p == IF f = 1 THEN "IPv4" ELSE "IPv6"
               IN At(Array(old, p), n) \subseteq At(Array(cfg, p), n)
    BY <1>1, <1>2
  <2>2. At(Array(old, "AddressType"), n) \subseteq At(Array(cfg, "AddressType"), n)
    BY <1>1, <1>2
  <2>3. QED
    BY <2>1, <2>2 DEF Peers
<1>4. ASSUME NEW version
      PROVE  Credentials(old, n, version) \subseteq Credentials(cfg, n, version)
  BY <1>1, <1>2 DEF Credentials, Extends
<1>5. At(Array(old, "Type"), n) \subseteq At(Array(cfg, "Type"), n)
  BY <1>1, <1>2
<1>6. QED
  BY <1>3, <1>4, <1>5 DEF getManagers

LEMMA FilledUpExtends ==
    ASSUME NEW v \in Seq(Element), NEW m \in Nat, NEW f \in Element, NEW n
    PROVE  At(v, n) \subseteq At(Sized(v, m, f), n)
<1> DEFINE w == Sized(v, m, f)
<1>1. w \in Seq(Element) /\ Fills(w, v, m, f)
  BY SizedFills
<1> HIDE DEF w
<1>2. Len(v) <= Len(w) /\ \A k \in 1..Len(v) : k \in 1..Len(w) /\ w[k] = v[k]
  BY <1>1 DEF Fills
<1>3. DOMAIN v = 1..Len(v) /\ DOMAIN w = 1..Len(w)
  BY <1>1
<1>4. At(v, n) \subseteq At(w, n)
  BY <1>2, <1>3 DEF At
<1>5. QED
  BY <1>4 DEF w

InStep(i) == behind \cap ({i} \X Writable) = {}

LEMMA InStepExtends ==
    ASSUME IInv, NEW i \in Iface, Stored(i), InStep(i)
    PROVE  Extends(before[i], file[i])
<1> USE Names
<1>1. pc # "write"
  BY NothingStored DEF IInv, UpToDate, Stored, Lost
<1>2. DOMAIN param[i] = Parameter /\ DOMAIN before[i] = Parameter
  <2>1. "Type" \in Arrays /\ <<i, "Type">> \notin behind
    BY DEF Writable, InStep
  <2>2. QED
    BY <2>1 DEF IInv, HiddenIsBehind, Shaped
<1>3. ASSUME NEW p \in Writable
      PROVE  Holds(file, i, p, before[i][p])
  <2>1. <<i, p>> \notin behind /\ p \in DOMAIN param[i]
    BY <1>2 DEF InStep
  <2>2. QED
    BY <1>1, <2>1 DEF IInv, UpToDate
<1>4. CommunityString(before[i]) = CommunityString(file[i])
  <2> DEFINE p == "CommunityString"
  <2>1. Holds(file, i, p, before[i][p]) /\ p \notin Arrays
    BY <1>3 DEF Scalars
  <2>2. QED
    BY <1>2, <2>1 DEF Holds, CommunityString, Scalars
<1>5. ASSUME NEW p \in Arrays, NEW n
      PROVE  At(Array(file[i], p), n) \subseteq At(Array(before[i], p), n)
  <2>1. Holds(file, i, p, before[i][p])
    BY <1>3
  <2>2. /\ p \in DOMAIN file[i] /\ p \in DOMAIN before[i]
        /\ file[i][p] \in Seq(Element) /\ Fill[p] \in Element /\ Count(param[i]) \in Nat
    BY <1>2, <2>1, LanAssumption DEF Holds, IInv, Shaped, IsFile, IsConfiguration
  <2>3. At(file[i][p], n) \subseteq At(Sized(file[i][p], Count(param[i]), Fill[p]), n)
    BY <2>2, FilledUpExtends
  <2>4. At(file[i][p], n) \subseteq At(before[i][p], n)
    BY <2>1, <2>3 DEF Holds
  <2>5. QED
    BY <2>2, <2>4 DEF Array
<1>6. QED
  BY <1>4, <1>5 DEF Extends

--------------------------------------------------------------------------------
(***************************************************************************)
(* sendTrap.  Held: the history covers what its interface is configured    *)
(* as, now and before the Set in progress.  Found: the manager that was    *)
(* read from a file in step is one of the history's.                       *)
(***************************************************************************)
Held ==
    step # "idle" =>
        target.iface \in Iface /\ {param[target.iface], before[target.iface]} \subseteq held

Found ==
    step \in {"send", "sent"} /\ sound =>
        \E cfg \in held : manager \in getManagers(cfg, target.dest)

(***************************************************************************)
(* A test.  No Set is handled meanwhile, so that the interface stays       *)
(* configured as it was when the user asked, and the file as it was.       *)
(***************************************************************************)
Asked ==
    testing # "idle" =>
        /\ pc = "loop" /\ tested.iface \in Iface
        /\ asked.cfg = param[tested.iface] /\ asked.cfg = before[tested.iface]
        /\ tested.dest = asked.sel + 1
        /\ inStep = InStep(tested.iface)

Testing ==
    /\ testing \in {"idle", "dispatch", "trap", "mail"}
    /\ testing = "dispatch" => message = Nothing
    /\ testing = "trap" =>
          /\ step # "idle" => target = tested /\ held = {asked.cfg}
          /\ step \in {"send", "sent"} => sound = inStep
          /\ message # Nothing /\ inStep => message \in getManagers(asked.cfg, asked.sel + 1)
    /\ testing = "mail" =>
          /\ Stored(tested.iface)
          /\ SMTP \in At(Array(file[tested.iface], "Type"), tested.dest)
          /\ SmtpMailID(At(Array(file[tested.iface], "UserName"), tested.dest)) # {}

TInv == IInv /\ Held /\ Found /\ Asked /\ Testing /\ TestedAsAsked

LEMMA BeforeIsAsBefore ==
    ASSUME IInv, ConfigNext, NEW i \in Iface
    PROVE  before'[i] \in {before[i], param[i], param'[i]}
<1>1. CASE UserSetsParam
  BY <1>1 DEF UserSetsParam, SetParam
<1>2. CASE OpenFile \/ WriteFile
  BY <1>2 DEF OpenFile, WriteFile, Done
<1>3. CASE ConfigurationRestarts
  BY <1>3 DEF ConfigurationRestarts, RestartsWith
<1>4. QED
  BY <1>1, <1>2, <1>3 DEF ConfigNext

LEMMA ConfiguresStep ==
    ASSUME TInv, testing = "idle", Configures, UNCHANGED tester
    PROVE  Held' /\ Found' /\ Asked' /\ Testing' /\ TestedAsAsked'
<1>1. /\ ConfigNext /\ UNCHANGED <<step, target, manager, sound>>
      /\ held' = IF step = "idle" THEN held ELSE held \cup {param'[target.iface]}
      /\ UNCHANGED <<testing, tested, message, answer, asked, inStep>>
  BY DEF Configures, sender, tester
<1>2. Held'
  <2> SUFFICES ASSUME step # "idle"
               PROVE  /\ target.iface \in Iface
                      /\ {param'[target.iface], before'[target.iface]} \subseteq held'
    BY <1>1 DEF Held
  <2>1. target.iface \in Iface /\ {param[target.iface], before[target.iface]} \subseteq held
    BY DEF TInv, Held
  <2>2. before'[target.iface] \in {before[target.iface], param[target.iface], param'[target.iface]}
    BY <1>1, <2>1, BeforeIsAsBefore DEF TInv
  <2>3. QED
    BY <1>1, <2>1, <2>2
<1>3. Found'
  BY <1>1 DEF TInv, Found
<1>4. Asked' /\ Testing'
  BY <1>1 DEF Asked, Testing
<1>5. TestedAsAsked'
  BY <1>1 DEF TInv, TestedAsAsked
<1>6. QED
  BY <1>2, <1>3, <1>4, <1>5

\* The steps of sendTrap, in either process.
LEMMA SenderStep ==
    ASSUME TInv, UNCHANGED config,
           getSNMPDisableStatus \/ ReadLanFile \/ Send \/ SendReturns
    PROVE  /\ Held' /\ Found'
           /\ step # "idle"
           /\ step' # "idle" => UNCHANGED <<target, held>>
           /\ step' \in {"send", "sent"} =>
                 IF step = "managers" THEN sound' = InStep(target.iface)
                 ELSE step = "send" /\ UNCHANGED <<sound, manager>>
<1> USE DEF TInv, Held, Found
<1>1. CASE Return /\ step # "idle"
  BY <1>1 DEF Return
<1>2. CASE getSNMPDisableStatus
  BY <1>2 DEF getSNMPDisableStatus, config
<1>3. CASE /\ step = "managers" /\ Stored(target.iface)
           /\ manager' \in getManagers(file[target.iface], target.dest)
           /\ sound' = InStep(target.iface) /\ step' = "send"
           /\ UNCHANGED <<target, held>>
  <2> DEFINE i == target.iface
  <2>1. i \in Iface /\ {param[i], before[i]} \subseteq held
    BY <1>3
  <2>2. Held'
    BY <1>3, <2>1 DEF config
  <2>3. ASSUME InStep(i)
        PROVE  manager' \in getManagers(before[i], target.dest)
    BY <1>3, <2>1, <2>3, InStepExtends, ManagersKept
  <2>4. Found'
    BY <1>3, <2>1, <2>3
  <2>5. QED
    BY <1>3, <2>2, <2>4
<1>4. CASE ReadLanFile
  BY <1>1, <1>3, <1>4 DEF ReadLanFile, InStep
<1>5. CASE Send
  BY <1>5 DEF Send, config
<1>6. CASE SendReturns
  BY <1>1, <1>6 DEF SendReturns
<1>7. QED
  BY <1>2, <1>4, <1>5, <1>6

LEMMA SenderFrame ==
    ASSUME getSNMPDisableStatus \/ ReadLanFile \/ Send \/ SendReturns
    PROVE  UNCHANGED config
BY DEF getSNMPDisableStatus, ReadLanFile, Send, SendReturns

LEMMA RequestStep ==
    ASSUME TInv, Request
    PROVE  Held' /\ Found' /\ Asked' /\ Testing' /\ TestedAsAsked'
<1>1. /\ testing = "idle" /\ step = "idle" /\ pc = "loop"
      /\ UNCHANGED <<config, step, target, manager, sound, held>>
  BY DEF Request
<1>2. UNCHANGED <<param, file, pc, before, behind>>
  BY <1>1 DEF config
<1>3. Held' /\ Found'
  BY <1>1 DEF Held, Found
<1>4. CASE Fails
  BY <1>1, <1>3, <1>4 DEF Fails, Asked, Testing, TestedAsAsked
<1>5. ASSUME NEW i \in Iface, NEW sel \in Selector,
             Entry(sel) \in 1..(maxDestinationSel - 1),
             tested' = [iface |-> i, dest |-> Entry(sel)],
             asked' = [sel |-> sel, cfg |-> param[i]],
             inStep' = InStep(i),
             testing' = "dispatch", answer' = FALSE, message' = Nothing
      PROVE  Asked' /\ Testing' /\ TestedAsAsked'
  <2>1. Entry(sel) = sel + 1
    <3>1. sel \in 0..(ByteSize - 1) /\ ByteSize \in Nat \ {0}
      BY TestAssumption
    <3>2. CASE sel + 1 < ByteSize
      BY <3>1, <3>2 DEF Entry
    <3>3. CASE sel + 1 = ByteSize
      BY <3>1, <3>3, <1>5 DEF Entry
    <3>4. QED
      BY <3>1, <3>2, <3>3
  <2>2. before[i] = param[i]
    BY <1>1 DEF TInv, IInv, InProgress
  <2>3. Asked'
    BY <1>1, <1>2, <1>5, <2>1, <2>2 DEF Asked, InStep
  <2>4. QED
    BY <1>5, <2>3 DEF Testing, TestedAsAsked
<1>6. QED
  BY <1>3, <1>4, <1>5 DEF Request, InStep

LEMMA DispatchTrapStep ==
    ASSUME TInv, DispatchTrap
    PROVE  Held' /\ Found' /\ Asked' /\ Testing' /\ TestedAsAsked'
<1>1. /\ testing = "dispatch" /\ testing' = "trap" /\ step' = "disableStatus" /\ target' = tested
      /\ held' = {asked.cfg} /\ UNCHANGED <<config, manager, sound, tested, message, answer, asked, inStep>>
  BY DEF DispatchTrap
<1>2. UNCHANGED <<param, file, pc, before, behind>>
  BY <1>1 DEF config
<1>3. Asked /\ Testing
  BY DEF TInv
<1>4. Held'
  BY <1>1, <1>2, <1>3 DEF Held, Asked
<1>5. Found'
  BY <1>1 DEF Found
<1>6. Asked'
  BY <1>1, <1>2, <1>3 DEF Asked, InStep
<1>7. Testing'
  BY <1>1, <1>3 DEF Testing
<1>8. QED
  BY <1>1, <1>4, <1>5, <1>6, <1>7 DEF TestedAsAsked

LEMMA DispatchMailStep ==
    ASSUME TInv, DispatchMail
    PROVE  Held' /\ Found' /\ Asked' /\ Testing' /\ TestedAsAsked'
<1>1. /\ testing = "dispatch" /\ testing' = "mail"
      /\ UNCHANGED <<vars, tested, message, answer, asked, inStep>>
      /\ Stored(tested.iface)
      /\ SMTP \in At(Array(file[tested.iface], "Type"), tested.dest)
      /\ SmtpMailID(At(Array(file[tested.iface], "UserName"), tested.dest)) # {}
  BY DEF DispatchMail
<1>2. UNCHANGED <<param, file, pc, before, behind, step, target, manager, sound, held>>
  BY <1>1 DEF vars, config, sender
<1>3. Held' /\ Found'
  BY <1>2 DEF TInv, Held, Found
<1>4. Asked' /\ Testing'
  BY <1>1, <1>2 DEF TInv, Asked, Testing, InStep, Stored
<1>5. QED
  BY <1>1, <1>3, <1>4 DEF TestedAsAsked

LEMMA FailsStep ==
    ASSUME TInv, Fails, UNCHANGED vars
    PROVE  Held' /\ Found' /\ Asked' /\ Testing' /\ TestedAsAsked'
<1>1. UNCHANGED <<param, before, step, target, manager, sound, held>>
  BY DEF vars, config, sender
<1>2. Held' /\ Found'
  BY <1>1 DEF TInv, Held, Found
<1>3. QED
  BY <1>2 DEF Fails, Asked, Testing, TestedAsAsked

LEMMA TestTrapStep ==
    ASSUME TInv, TestTrap
    PROVE  Held' /\ Found' /\ Asked' /\ Testing' /\ TestedAsAsked'
<1>1. /\ testing = "trap" /\ (getSNMPDisableStatus \/ ReadLanFile \/ Send \/ SendReturns)
      /\ UNCHANGED <<testing, tested, answer, asked, inStep>>
      /\ UNCHANGED message \/ (Send /\ message' = manager)
  BY DEF TestTrap, tester
<1>2. UNCHANGED config
  BY <1>1, SenderFrame
<1>3. /\ Held' /\ Found' /\ step # "idle"
      /\ step' # "idle" => UNCHANGED <<target, held>>
      /\ step' \in {"send", "sent"} =>
            IF step = "managers" THEN sound' = InStep(target.iface)
            ELSE step = "send" /\ UNCHANGED <<sound, manager>>
  BY <1>1, <1>2, SenderStep
<1>4. UNCHANGED <<param, file, pc, before, behind>>
  BY <1>2 DEF config
<1>5. Asked'
  BY <1>1, <1>4 DEF TInv, Asked, InStep
<1>6. target = tested /\ held = {asked.cfg} /\ inStep = InStep(tested.iface)
  BY <1>1, <1>3 DEF TInv, Testing, Asked
<1>7. step' \in {"send", "sent"} => sound' = inStep
  BY <1>1, <1>3, <1>6 DEF TInv, Testing
<1>8. ASSUME Send, inStep
      PROVE  manager \in getManagers(asked.cfg, asked.sel + 1)
  <2>1. step = "send" /\ sound
    BY <1>1, <1>8 DEF TInv, Testing, Send
  <2>2. tested.dest = asked.sel + 1
    BY <1>1 DEF TInv, Asked
  <2>3. QED
    BY <1>6, <2>1, <2>2 DEF TInv, Found
<1>9. Testing'
  BY <1>1, <1>3, <1>6, <1>7, <1>8 DEF TInv, Testing
<1>10. QED
  BY <1>1, <1>3, <1>5, <1>9 DEF TestedAsAsked

LEMMA TrapReturnedStep ==
    ASSUME TInv, TrapReturned
    PROVE  Held' /\ Found' /\ Asked' /\ Testing' /\ TestedAsAsked'
<1>1. CASE Fails
  BY <1>1, FailsStep DEF TrapReturned
<1>2. CASE message # Nothing /\ Succeeds /\ UNCHANGED message
  <2>1. testing = "trap" /\ UNCHANGED <<param, before, step, target, manager, sound, held>>
    BY DEF TrapReturned, vars, config, sender
  <2>2. Held' /\ Found'
    BY <2>1 DEF TInv, Held, Found
  <2>3. inStep => message \in getManagers(asked.cfg, asked.sel + 1)
    BY <1>2, <2>1 DEF TInv, Testing
  <2>4. TestedAsAsked'
    BY <1>2, <2>3 DEF Succeeds, TestedAsAsked, Messages
  <2>5. QED
    BY <1>2, <2>2, <2>4 DEF Succeeds, Asked, Testing
<1>3. QED
  BY <1>1, <1>2 DEF TrapReturned

LEMMA MailReturnedStep ==
    ASSUME TInv, MailReturned
    PROVE  Held' /\ Found' /\ Asked' /\ Testing' /\ TestedAsAsked'
<1> DEFINE i == tested.iface
           n == tested.dest
           users == At(Array(file[i], "UserName"), n)
<1>1. CASE Fails
  BY <1>1, FailsStep DEF MailReturned
<1>2. CASE message' \in {SMTP} \X users /\ Succeeds
  <2>1. testing = "mail" /\ UNCHANGED <<param, before, step, target, manager, sound, held>>
    BY DEF MailReturned, vars, config, sender
  <2>2. Held' /\ Found'
    BY <2>1 DEF TInv, Held, Found
  <2>3. ASSUME inStep
        PROVE  message' \in Messages(asked.cfg, asked.sel + 1)
    <3>1. /\ i \in Iface /\ Stored(i) /\ InStep(i) /\ asked.cfg = before[i] /\ n = asked.sel + 1
          /\ SMTP \in At(Array(file[i], "Type"), n) /\ SmtpMailID(users) # {}
      BY <2>1, <2>3 DEF TInv, Asked, Testing
    <3>2. Extends(asked.cfg, file[i])
      BY <3>1, InStepExtends DEF TInv
    <3>3. "Type" \in Arrays /\ "UserName" \in Arrays
      BY Names
    <3>4. /\ SMTP \in At(Array(asked.cfg, "Type"), n)
          /\ users \subseteq At(Array(asked.cfg, "UserName"), n)
      BY <3>1, <3>2, <3>3 DEF Extends
    <3>5. users \subseteq MailUser
      BY <3>1 DEF SmtpMailID, At
    <3>6. QED
      BY <1>2, <3>1, <3>4, <3>5 DEF Messages, SmtpMailID
  <2>4. TestedAsAsked'
    BY <1>2, <2>3 DEF Succeeds, TestedAsAsked
  <2>5. QED
    BY <1>2, <2>2, <2>4 DEF Succeeds, Asked, Testing
<1>3. QED
  BY <1>1, <1>2 DEF MailReturned

LEMMA UntestedStep ==
    ASSUME TInv, testing = "idle", Next, UNCHANGED tester
    PROVE  Held' /\ Found' /\ Asked' /\ Testing' /\ TestedAsAsked'
<1>1. UNCHANGED <<testing, tested, message, answer, asked, inStep>>
  BY DEF tester
<1>2. Asked' /\ Testing' /\ TestedAsAsked'
  BY <1>1 DEF TInv, Asked, Testing, TestedAsAsked
<1>3. CASE Configures
  BY <1>3, ConfiguresStep
<1>4. CASE SwitchVersion
  BY <1>2, <1>4 DEF SwitchVersion, sender, config, TInv, Held, Found
<1>5. CASE SendTrap
  BY <1>2, <1>5 DEF SendTrap, config, Held, Found
<1>6. CASE getSNMPDisableStatus \/ ReadLanFile \/ Send \/ SendReturns
  BY <1>2, <1>6, SenderFrame, SenderStep
<1>7. QED
  BY <1>3, <1>4, <1>5, <1>6 DEF Next

LEMMA TestStep ==
    ASSUME TInv, TestNext \/ UNCHANGED testVars
    PROVE  TInv'
<1>1. IInv'
  BY ConfigSteps, Inductive DEF TInv
<1>2. CASE UNCHANGED <<config, sender, held, tester>>
  <2>1. UNCHANGED <<param, file, pc, before, behind, step, target, manager, sound, held>>
    BY <1>2 DEF config, sender
  <2>2. UNCHANGED <<testing, tested, message, answer, asked, inStep>>
    BY <1>2 DEF tester
  <2>3. Held' /\ Found'
    BY <2>1 DEF TInv, Held, Found
  <2>4. Asked'
    BY <2>1, <2>2 DEF TInv, Asked, InStep
  <2>5. Testing'
    BY <2>1, <2>2 DEF TInv, Testing, Stored
  <2>6. TestedAsAsked'
    BY <2>2 DEF TInv, TestedAsAsked
  <2>7. QED
    BY <1>1, <2>3, <2>4, <2>5, <2>6 DEF TInv
<1>3. CASE testing # "idle" /\ SwitchVersion /\ UNCHANGED tester
  BY <1>2, <1>3 DEF SwitchVersion
<1>4. CASE TestInterrupted
  <2>1. Held' /\ Found' /\ Asked' /\ Testing' /\ TestedAsAsked'
    BY <1>4 DEF TestInterrupted, Return, Fails, Held, Found, Asked, Testing, TestedAsAsked
  <2>2. QED
    BY <1>1, <2>1 DEF TInv
<1>5. CASE DispatchFails
  BY <1>1, <1>5, FailsStep DEF DispatchFails, TInv
<1>6. QED
  BY <1>1, <1>2, <1>3, <1>4, <1>5, UntestedStep, RequestStep, DispatchTrapStep, DispatchMailStep,
     TestTrapStep, TrapReturnedStep, MailReturnedStep
  DEF TestNext, dispatchTestDestination, testVars, vars, TInv

LEMMA TestInvariant == TestSpec => []TInv
<1>1. TestInit => TInv
  BY InitInv DEF TestInit, Init, TInv, Held, Found, Asked, Testing, TestedAsAsked
<1>2. TInv /\ [TestNext]_testVars => TInv'
  BY TestStep
<1>3. QED
  BY <1>1, <1>2, PTL DEF TestSpec

(***************************************************************************)
(* sendTrap reads the file while pef-configuration may be rewriting it,    *)
(* and still sends a trap as one configuration of its interface says: one  *)
(* that pef-configuration held since sendTrap began, or was replacing.     *)
(***************************************************************************)
THEOREM TrapsAreConfigured == TestSpec => []TrapAsConfigured
<1>1. TInv => TrapAsConfigured
  BY DEF TInv, Found, TrapAsConfigured
<1>2. QED
  BY <1>1, TestInvariant, PTL

(***************************************************************************)
(* When TestDestination answers that the test succeeded, what was sent is  *)
(* what the destination asked for was configured as when the user asked.   *)
(***************************************************************************)
THEOREM TestsWhatWasAsked == TestSpec => []TestedAsAsked
<1>1. TInv => TestedAsAsked
  BY DEF TInv
<1>2. QED
  BY <1>1, TestInvariant, PTL
================================================================================
