---------------------------- MODULE RetryConfigProofs ----------------------------
(***************************************************************************)
(* Theorems about the retry settings, for any limits and any number of     *)
(* Sets and restarts.                                                      *)
(***************************************************************************)
EXTENDS RetryConfig, TLAPS

TypeOK ==
    /\ retryEnable \in BOOLEAN
    /\ count \in [Count -> Nat]
    /\ file \in Saved \cup {Lost}
    /\ pc \in {"loop", "open", "write"}
    /\ behind \in BOOLEAN

\* What the file holds was stored as a whole.
FileWasStored == file = Lost \/ Load(file) = stored

IInv == TypeOK /\ WithinLimits /\ FileHoldsSettings /\ FileWasStored

\* Whatever file there is, it is loaded as settings within the limits.
LEMMA LoadWithinLimits ==
    ASSUME NEW f \in Saved \cup {Lost}
    PROVE  /\ Load(f)[1] \in BOOLEAN
           /\ Load(f)[2] \in [Count -> Nat]
           /\ \A c \in Count : Load(f)[2][c] <= Max[c]
<1>1. CASE f = Lost
  BY <1>1, RetryAssumption DEF Load, Default
<1>2. CASE f \in Saved /\ f # Lost
  <2>1. f.retryEnable \in BOOLEAN /\ f.count \in [Count -> Nat \cup {Absent}]
    BY <1>2 DEF Saved
  <2>2. ASSUME NEW c \in Count
        PROVE  LoadCount(f, c) \in Nat /\ LoadCount(f, c) <= Max[c]
    <3>1. Max[c] \in Nat
      BY RetryAssumption
    <3>2. CASE f.count[c] = Absent
      BY <3>1, <3>2 DEF LoadCount
    <3>3. CASE f.count[c] # Absent
      <4>1. f.count[c] \in Nat
        BY <2>1, <3>3
      <4>. QED  BY <3>1, <3>3, <4>1 DEF LoadCount, Clamp
    <3>. QED  BY <3>2, <3>3
  <2>. QED  BY <1>2, <2>1, <2>2 DEF Load
<1>. QED  BY <1>1, <1>2

\* What saveConfig writes is read back as it was.
LEMMA SavedIsLoaded ==
    ASSUME TypeOK, WithinLimits
    PROVE  Contents \in Saved /\ Load(Contents) = settings
<1>1. Contents \in Saved
  BY DEF TypeOK, Contents, Saved
<1>2. Contents # Lost
  BY <1>1, RetryAssumption
<1>3. ASSUME NEW c \in Count PROVE LoadCount(Contents, c) = count[c]
  <2>1. count[c] \in Nat /\ count[c] # Absent /\ count[c] <= Max[c]
    BY RetryAssumption DEF TypeOK, WithinLimits
  <2>. QED  BY <2>1 DEF LoadCount, Contents, Clamp
<1>4. [c \in Count |-> LoadCount(Contents, c)] = count
  BY <1>3 DEF TypeOK
<1>. QED  BY <1>1, <1>2, <1>4 DEF Load, Contents, settings

LEMMA InitInv == Init => IInv
<1> SUFFICES ASSUME Init PROVE IInv
  OBVIOUS
<1>1. file \in Saved \cup {Lost}
  BY RetryAssumption DEF Init
<1>2. Load(file) = settings
  BY DEF Init, Load, Default, settings
<1>. QED
  BY <1>1, <1>2, LoadWithinLimits
  DEF Init, IInv, TypeOK, WithinLimits, FileHoldsSettings, FileWasStored

LEMMA StepInv == IInv /\ [Next]_vars => IInv'
<1> SUFFICES ASSUME IInv, [Next]_vars PROVE IInv'
  OBVIOUS
<1> USE DEF IInv
<1>1. CASE SetRetryEnable
  BY <1>1 DEF SetRetryEnable, Edit, TypeOK, WithinLimits, FileHoldsSettings, FileWasStored
<1>2. CASE SetCount
  <2>1. PICK c \in Count, v \in Value : v <= Max[c] /\ count' = [count EXCEPT ![c] = v]
    BY <1>2 DEF SetCount
  <2>2. v \in Nat /\ count' \in [Count -> Nat] /\ \A k \in Count : count'[k] <= Max[k]
    BY <2>1, RetryAssumption DEF TypeOK, WithinLimits
  <2>. QED
    BY <1>2, <2>2 DEF SetCount, TypeOK, WithinLimits, FileHoldsSettings, FileWasStored
<1>3. CASE OpenFile
  BY <1>3 DEF OpenFile, settings, TypeOK, WithinLimits, FileHoldsSettings, FileWasStored
<1>4. CASE WriteFile
  BY <1>4, SavedIsLoaded
  DEF WriteFile, settings, TypeOK, WithinLimits, FileHoldsSettings, FileWasStored
<1>5. CASE Restart
  <2>1. PICK found \in {file, Lost} :
           /\ retryEnable' = Load(found)[1] /\ count' = Load(found)[2]
           /\ IF found = file THEN stored' = settings' /\ behind' = FALSE
              ELSE behind' = TRUE /\ UNCHANGED stored
    BY <1>5 DEF Restart
  <2>2. UNCHANGED file /\ pc' = "loop" /\ found \in Saved \cup {Lost}
    BY <1>5 DEF Restart, TypeOK
  <2>3. settings' = Load(found)
    BY <2>1 DEF settings, Load, Default
  <2>4. TypeOK' /\ WithinLimits'
    BY <2>1, <2>2, LoadWithinLimits DEF TypeOK, WithinLimits
  <2>5. FileHoldsSettings' /\ FileWasStored'
    <3>1. Load(file)' = Load(file)
      BY <2>2 DEF Load
    <3>. QED
      BY <2>1, <2>2, <2>3, <3>1 DEF FileHoldsSettings, FileWasStored
  <2>. QED  BY <2>4, <2>5
<1>6. CASE UNCHANGED vars
  BY <1>6 DEF vars, settings, TypeOK, WithinLimits, FileHoldsSettings, FileWasStored
<1>. QED
  BY <1>1, <1>2, <1>3, <1>4, <1>5, <1>6 DEF Next, saveConfig

LEMMA Invariant == Spec => []IInv
BY InitInv, StepInv, PTL DEF Spec

(***************************************************************************)
(* The settings are always within their limits, whatever the file held and *)
(* whatever users write (main and the three count setters).                *)
(***************************************************************************)
THEOREM SettingsWithinLimits == Spec => []WithinLimits
<1>1. IInv => WithinLimits
  BY DEF IInv
<1>. QED  BY <1>1, Invariant, PTL

(***************************************************************************)
(* As long as no save failed, nor main's reading of the file, the file     *)
(* read back is the settings in force.                                     *)
(***************************************************************************)
THEOREM FileHoldsAllSettings == Spec => []FileHoldsSettings
<1>1. IInv => FileHoldsSettings
  BY DEF IInv
<1>. QED  BY <1>1, Invariant, PTL

(***************************************************************************)
(* A restart brings back one set of settings or the defaults, never parts  *)
(* of two.                                                                 *)
(***************************************************************************)
THEOREM RestartsAllOrNothing == Spec => RestartIsAllOrNothing
<1>1. IInv /\ [Next]_vars => [Restart => settings' \in {settings, stored, Default}]_vars
  <2> SUFFICES ASSUME IInv, Restart PROVE settings' \in {stored, Default}
    OBVIOUS
  <2>1. PICK found \in {file, Lost} : settings' = Load(found)
    BY DEF Restart, settings, Load, Default
  <2>2. Load(found) \in {stored, Default}
    BY DEF IInv, FileWasStored, Load
  <2>. QED  BY <2>1, <2>2
<1>. QED
  BY <1>1, Invariant, PTL DEF Spec, RestartIsAllOrNothing
================================================================================
