-------------------------- MODULE PostponeTimerProofs --------------------------
(***************************************************************************)
(* What arming, cancelling and arming again cannot break, for any set of   *)
(* countdown values and any number of calls, users' steps and restarts.    *)
(***************************************************************************)
EXTENDS PostponeTimer, TLAPS

--------------------------------------------------------------------------------
(***************************************************************************)
(* The inductive invariant.  Delivered: a call in the inbox, or being      *)
(* handled, was not lost.  BlockedWait: a call that arrived during a       *)
(* countdown and that nothing touched waits for the countdown, or finds    *)
(* PEF disarmed, unless it was lost.                                       *)
(***************************************************************************)
SleepsForSomething == pc = "sleep" => timer # 0

Kept == {n \in Calls : verdict[n] # "lost"}

Delivered ==
    /\ pc = "readArm" => call \in Kept
    /\ \A i \in 1..Len(inbox) : inbox[i].kind = "task" => inbox[i].value \in Kept

BlockedWait ==
    /\ blocked \subseteq Calls
    /\ \A n \in blocked \ touched : 
          \/ verdict[n] = "lost"
          \/ verdict[n] = "pending" /\ pc \in Counting
          \/ ArmPEFPostponeTmr = 0

IInv == TypeOK /\ SleepsForSomething /\ FiniteArmIsTimed
            /\ Delivered /\ BlockedWait /\ DelayedNotSuppressed

FiniteSignal(m) == m.kind = "armed" /\ m.value \in Finite

LEMMA TimedBySignal == Timed <=> pc \in Counting \/ \E i \in 1..Len(inbox) : FiniteSignal(inbox[i])
  BY DEF Timed, FiniteSignal

LEMMA TimedBySignalNext ==
    Timed' <=> pc' \in Counting \/ \E i \in 1..Len(inbox') : FiniteSignal(inbox'[i])
  <1>1. QED
    BY DEF Timed, FiniteSignal

LEMMA AppendKeeps ==
    ASSUME NEW S, NEW s \in Seq(S), NEW m \in S
    PROVE  /\ Append(s, m) \in Seq(S) /\ Len(Append(s, m)) = Len(s) + 1
           /\ Append(s, m)[Len(s) + 1] = m
           /\ \A i \in 1..Len(s) : Append(s, m)[i] = s[i]
  OBVIOUS

LEMMA TailKeeps ==
    ASSUME NEW S, NEW s \in Seq(S), s # <<>>
    PROVE  /\ Tail(s) \in Seq(S) /\ Head(s) \in S /\ Head(s) = s[1]
           /\ \A i \in 1..Len(s) : i = 1 \/ (i - 1 \in 1..Len(Tail(s)) /\ Tail(s)[i - 1] = s[i])
  OBVIOUS

LEMMA Values == /\ Finite \subseteq TmrValue /\ Finite \subseteq 0..253
                /\ 0 \notin Finite /\ 255 \notin Finite /\ Indefinite \notin Finite
                /\ 0 \in TmrValue /\ Indefinite \in 0..254
  BY TimerAssumption DEF TmrValue, Armed, Indefinite

--------------------------------------------------------------------------------
(***************************************************************************)
(* A Set of the timer, by whoever: the value and its signal go together.   *)
(***************************************************************************)
LEMMA SetArmSignals ==
    ASSUME TypeOK, FiniteArmIsTimed, NEW value \in TmrValue, SetArm(value),
           UNCHANGED pc \/ value = 0
    PROVE  /\ ArmPEFPostponeTmr' \in TmrValue /\ inbox' \in Seq(Message)
           /\ unattended' \in BOOLEAN
           /\ FiniteArmIsTimed'
           /\ \A i \in 1..Len(inbox') :
                 (i \in 1..Len(inbox) /\ inbox'[i] = inbox[i]) \/ inbox'[i].kind = "armed"
  <1> DEFINE m == [kind |-> "armed", value |-> value]
  <1>1. m \in Message
    BY DEF Message
  <1>2. CASE value = ArmPEFPostponeTmr
    <2>1. UNCHANGED <<ArmPEFPostponeTmr, inbox, unattended>>
      BY <1>2 DEF SetArm
    <2>2. FiniteArmIsTimed'
      BY <2>1, Values, <1>2 DEF FiniteArmIsTimed, Timed
    <2>3. QED
      BY <2>1, <2>2 DEF TypeOK
  <1>3. CASE value # ArmPEFPostponeTmr /\ phase = "up"
    <2>1. ArmPEFPostponeTmr' = value /\ inbox' = Append(inbox, m) /\ unattended' = FALSE
      BY <1>3 DEF SetArm
    <2>2. /\ Len(inbox') = Len(inbox) + 1 /\ inbox' \in Seq(Message)
          /\ inbox'[Len(inbox) + 1] = m
          /\ \A i \in 1..Len(inbox) : inbox'[i] = inbox[i]
      BY <2>1, <1>1, AppendKeeps DEF TypeOK
    <2>3. value \in Finite => Timed'
      <3>1. Len(inbox) + 1 \in DOMAIN inbox'
        BY <2>2 DEF TypeOK
      <3>2. QED
        BY <2>2, <3>1 DEF Timed
    <2>4. \A i \in 1..Len(inbox') :
             (i \in 1..Len(inbox) /\ inbox'[i] = inbox[i]) \/ inbox'[i].kind = "armed"
      BY <2>2 DEF TypeOK
    <2>5. QED
      BY <2>1, <2>2, <2>3, <2>4 DEF FiniteArmIsTimed
  <1>4. CASE value # ArmPEFPostponeTmr /\ phase # "up"
    <2>1. ArmPEFPostponeTmr' = value /\ inbox' = inbox /\ unattended' = (value \in Finite)
      BY <1>4 DEF SetArm
    <2>2. CASE value \in Finite
      <3>1. unattended' = TRUE
        BY <2>1, <2>2
      <3>2. FiniteArmIsTimed' /\ unattended' \in BOOLEAN
        BY <3>1 DEF FiniteArmIsTimed
      <3>3. QED
        BY <2>1, <3>2 DEF TypeOK
    <2>3. CASE value \notin Finite
      <3>1. unattended' \in BOOLEAN
        BY <2>1
      <3>2. FiniteArmIsTimed'
        BY <2>1, <2>3 DEF FiniteArmIsTimed
      <3>3. QED
        BY <2>1, <3>1, <3>2 DEF TypeOK
    <2>4. QED
      BY <2>2, <2>3
  <1>5. QED
    BY <1>2, <1>3, <1>4

LEMMA UsersKeep ==
    ASSUME IInv, UserSetsArm
    PROVE  IInv'
  <1> USE DEF IInv
  <1>1. PICK value \in TmrValue : SetArm(value)
    BY DEF UserSetsArm
  <1>2. UNCHANGED <<TmrCountdownValue, phase, pc, timer, call, verdict, blocked>>
        /\ touched' = Calls /\ edits' = edits + 1
    BY DEF UserSetsArm, loop
  <1>3. /\ ArmPEFPostponeTmr' \in TmrValue /\ inbox' \in Seq(Message)
        /\ unattended' \in BOOLEAN /\ FiniteArmIsTimed'
        /\ \A i \in 1..Len(inbox') :
              (i \in 1..Len(inbox) /\ inbox'[i] = inbox[i]) \/ inbox'[i].kind = "armed"
    BY <1>1, <1>2, SetArmSignals
  <1>4. Calls \subseteq Nat
    BY DEF TypeOK, Calls
  <1>5. TypeOK'
    BY <1>2, <1>3, <1>4 DEF TypeOK
  <1>6. blocked \subseteq Calls /\ Calls' = Calls
    BY <1>2 DEF BlockedWait, Calls
  <1>7. BlockedWait' /\ DelayedNotSuppressed' /\ SleepsForSomething'
    BY <1>2, <1>6 DEF BlockedWait, DelayedNotSuppressed, SleepsForSomething
  <1>8. Delivered'
    BY <1>2, <1>3, <1>6 DEF Delivered, Kept
  <1>9. QED
    BY <1>3, <1>5, <1>7, <1>8

LEMMA ConfigurationKeeps ==
    ASSUME IInv, ConfigurationRestarts
    PROVE  IInv'
  BY Values DEF IInv, ConfigurationRestarts, TypeOK, SleepsForSomething, FiniteArmIsTimed, BlockedWait,
     DelayedNotSuppressed, Delivered, Kept, loop, history, Calls, Timed

LEMMA CrashKeeps ==
    ASSUME IInv, Crash
    PROVE  IInv'
  <1> USE DEF IInv
  <1>1. /\ UNCHANGED <<ArmPEFPostponeTmr, TmrCountdownValue, blocked, touched>>
        /\ phase' = "down" /\ inbox' = <<>> /\ pc' = "loop" /\ timer' = 0 /\ call' = 0
        /\ edits' = edits + 1
        /\ unattended' = (unattended \/ ArmPEFPostponeTmr \in Finite)
    BY DEF Crash, properties
  <1>2. /\ verdict' \in Seq(Verdict) /\ Len(verdict') = Len(verdict)
        /\ \A n \in Calls : verdict'[n] = IF verdict[n] = "pending" THEN "lost" ELSE verdict[n]
    <2>1. verdict' = [n \in 1..Len(verdict) |-> IF verdict[n] = "pending" THEN "lost" ELSE verdict[n]]
      BY DEF Crash, Calls
    <2>2. Len(verdict) \in Nat /\ \A n \in 1..Len(verdict) : verdict[n] \in Verdict
      BY DEF TypeOK
    <2>3. QED
      BY <2>1, <2>2 DEF Verdict, Calls
  <1>3. TypeOK'
    BY <1>1, <1>2 DEF TypeOK, PC
  <1>4. FiniteArmIsTimed' /\ SleepsForSomething' /\ Delivered'
    <2>1. Len(inbox') = 0
      BY <1>1
    <2>2. Delivered'
      BY <1>1, <2>1 DEF Delivered
    <2>3. QED
      BY <1>1, <2>2 DEF FiniteArmIsTimed, SleepsForSomething
  <1>5. Calls' = Calls
    BY <1>2 DEF Calls
  <1>6. DelayedNotSuppressed'
    BY <1>1, <1>2, <1>5 DEF DelayedNotSuppressed, BlockedWait
  <1>7. BlockedWait'
    BY <1>1, <1>2, <1>5 DEF BlockedWait
  <1>8. QED
    BY <1>3, <1>4, <1>6, <1>7

LEMMA StartKeeps ==
    ASSUME IInv, Start
    PROVE  IInv'
  BY DEF IInv, Start, TypeOK, SleepsForSomething, FiniteArmIsTimed, BlockedWait,
     DelayedNotSuppressed, Delivered, Kept, properties, loop, history, Calls, Timed

LEMMA CallKeeps ==
    ASSUME IInv, Call
    PROVE  IInv'
  <1> USE DEF IInv
  <1> DEFINE n == Len(verdict) + 1
             m == [kind |-> "task", value |-> n]
  <1>1. /\ UNCHANGED <<ArmPEFPostponeTmr, TmrCountdownValue, phase, pc, timer, call, edits,
                       touched, unattended>>
        /\ verdict' = Append(verdict, "pending") /\ inbox' = Append(inbox, m)
        /\ blocked' = IF pc \in Counting THEN blocked \cup {n} ELSE blocked
    BY DEF Call, properties, loop
  <1>2. m \in Message /\ "pending" \in Verdict /\ n \in Nat
    BY DEF Message, Verdict, TypeOK
  <1>3. /\ inbox' \in Seq(Message) /\ Len(inbox') = Len(inbox) + 1
        /\ inbox'[Len(inbox) + 1] = m
        /\ \A i \in 1..Len(inbox) : inbox'[i] = inbox[i]
    BY <1>1, <1>2, AppendKeeps DEF TypeOK
  <1>4. /\ verdict' \in Seq(Verdict) /\ Len(verdict') = n
        /\ verdict'[n] = "pending"
        /\ \A k \in Calls : verdict'[k] = verdict[k]
    BY <1>1, <1>2, AppendKeeps DEF TypeOK, Calls
  <1>5. Calls \subseteq Calls' /\ n \in Calls'
    BY <1>2, <1>4 DEF Calls, TypeOK
  <1>6. TypeOK'
    BY <1>1, <1>2, <1>3, <1>4 DEF TypeOK
  <1>7. Timed => Timed'
    BY <1>1, <1>3, TimedBySignal, TimedBySignalNext DEF TypeOK, FiniteSignal
  <1>8. FiniteArmIsTimed' /\ SleepsForSomething'
    BY <1>1, <1>7 DEF FiniteArmIsTimed, SleepsForSomething
  <1>9. Delivered'
    <2>1. ASSUME NEW i \in 1..Len(inbox'), inbox'[i].kind = "task"
          PROVE  inbox'[i].value \in Kept'
      <3>1. CASE i \in 1..Len(inbox)
        BY <2>1, <3>1, <1>3, <1>4, <1>5 DEF Delivered, Kept
      <3>2. CASE i = Len(inbox) + 1
        BY <3>2, <1>3, <1>4, <1>5 DEF Kept
      <3>3. QED
        BY <3>1, <3>2, <1>3 DEF TypeOK
    <2>2. pc' = "readArm" => call' \in Kept'
      BY <1>1, <1>4, <1>5 DEF Delivered, Kept
    <2>3. QED
      BY <2>1, <2>2 DEF Delivered
  <1>10. BlockedWait'
    BY <1>1, <1>4, <1>5 DEF BlockedWait
  <1>11. DelayedNotSuppressed'
    BY <1>1, <1>4 DEF DelayedNotSuppressed, BlockedWait
  <1>12. QED
    BY <1>6, <1>8, <1>9, <1>10, <1>11

--------------------------------------------------------------------------------
(***************************************************************************)
(* The event loop.                                                         *)
(***************************************************************************)
LEMMA TakeKeeps ==
    ASSUME TypeOK, Delivered, NEW kind, Take(kind), UNCHANGED verdict
    PROVE  /\ inbox' \in Seq(Message) /\ Head(inbox) \in Message /\ Head(inbox).kind = kind
           /\ Timed => FiniteSignal(Head(inbox)) \/ \E i \in 1..Len(inbox') : FiniteSignal(inbox'[i])
           /\ \A i \in 1..Len(inbox') : inbox'[i].kind = "task" => inbox'[i].value \in Kept'
           /\ kind = "task" => Head(inbox).value \in Kept'
  <1>1. inbox \in Seq(Message) /\ inbox # <<>> /\ inbox' = Tail(inbox) /\ pc = "loop"
        /\ Head(inbox).kind = kind
    BY DEF Take, TypeOK
  <1>2. /\ inbox' \in Seq(Message) /\ Head(inbox) \in Message /\ Head(inbox) = inbox[1]
        /\ \A i \in 1..Len(inbox) : i = 1 \/ (i - 1 \in 1..Len(inbox') /\ inbox'[i - 1] = inbox[i])
    BY <1>1, TailKeeps
  <1>3. /\ 1 \in 1..Len(inbox)
        /\ \A i \in 1..Len(inbox') : i + 1 \in 1..Len(inbox) /\ inbox'[i] = inbox[i + 1]
    BY <1>1
  <1>4. Timed => FiniteSignal(Head(inbox)) \/ \E i \in 1..Len(inbox') : FiniteSignal(inbox'[i])
    <2>1. pc \notin Counting
      BY <1>1 DEF Counting
    <2>2. Timed => \E i \in 1..Len(inbox) : FiniteSignal(inbox[i])
      BY <2>1, TimedBySignal
    <2>3. QED
      BY <2>2, <1>2
  <1>5. Kept' = Kept
    BY DEF Kept, Calls
  <1>6. ASSUME NEW i \in 1..Len(inbox'), inbox'[i].kind = "task"
        PROVE  inbox'[i].value \in Kept'
    BY <1>3, <1>5, <1>6 DEF Delivered
  <1>7. kind = "task" => Head(inbox).value \in Kept'
    BY <1>1, <1>2, <1>3, <1>5 DEF Delivered
  <1>8. QED
    BY <1>1, <1>2, <1>4, <1>6, <1>7

LEMMA SignalsKeep ==
    ASSUME IInv, TimerArmed
    PROVE  IInv'
  <1> USE DEF IInv
  <1>1. /\ Take("armed")
        /\ UNCHANGED <<ArmPEFPostponeTmr, TmrCountdownValue, phase, call, edits,
                       verdict, blocked, touched, unattended>>
    BY DEF TimerArmed, properties, history
  <1>2. /\ inbox' \in Seq(Message)
        /\ Timed => FiniteSignal(Head(inbox)) \/ \E i \in 1..Len(inbox') : FiniteSignal(inbox'[i])
        /\ \A i \in 1..Len(inbox') : inbox'[i].kind = "task" => inbox'[i].value \in Kept'
    BY <1>1, TakeKeeps
  <1>3. \/ Head(inbox).value \notin Finite /\ pc' \in {"loop", "indefinite"} /\ timer' = timer
        \/ Head(inbox).value \in Finite /\ pc' = "sleep" /\ timer' = Head(inbox).value
    BY <1>1, Values DEF TimerArmed, Take
  <1>4. pc = "loop" /\ pc' # "readArm"
    BY <1>1, <1>3 DEF Take
  <1>5. TypeOK'
    <2>1. pc' \in PC
      BY <1>3 DEF PC
    <2>2. timer \in 0..253
      BY DEF TypeOK
    <2>3. timer' \in 0..253
      <3>1. CASE timer' = timer
        BY <3>1, <2>2
      <3>2. CASE Head(inbox).value \in Finite /\ timer' = Head(inbox).value
        <4>1. Head(inbox).value \in 0..253
          BY <3>2, Values, Zenon
        <4>2. QED
          BY <3>2, <4>1, Zenon
      <3>3. QED
        BY <1>3, <3>1, <3>2
    <2>4. QED
      BY <1>1, <1>2, <2>1, <2>3 DEF TypeOK
  <1>6. SleepsForSomething'
    BY <1>3, Values DEF SleepsForSomething
  <1>7. Timed => Timed'
    BY <1>2, <1>3, TimedBySignalNext DEF Counting, FiniteSignal
  <1>8. FiniteArmIsTimed'
    BY <1>1, <1>7 DEF FiniteArmIsTimed
  <1>9. Delivered'
    BY <1>2, <1>4 DEF Delivered
  <1>10. BlockedWait' /\ DelayedNotSuppressed'
    BY <1>1, <1>4 DEF BlockedWait, DelayedNotSuppressed, Calls, Counting
  <1>11. QED
    BY <1>5, <1>6, <1>8, <1>9, <1>10

LEMMA TaskKeeps ==
    ASSUME IInv, doPefTask
    PROVE  IInv'
  <1> USE DEF IInv
  <1>1. /\ Take("task") /\ call' = Head(inbox).value /\ pc' = "readArm" /\ pc = "loop"
        /\ UNCHANGED <<ArmPEFPostponeTmr, TmrCountdownValue, phase, timer, edits,
                       verdict, blocked, touched, unattended>>
    BY DEF doPefTask, Take, properties, history
  <1>2. /\ inbox' \in Seq(Message) /\ Head(inbox).kind = "task"
        /\ Timed => FiniteSignal(Head(inbox)) \/ \E i \in 1..Len(inbox') : FiniteSignal(inbox'[i])
        /\ \A i \in 1..Len(inbox') : inbox'[i].kind = "task" => inbox'[i].value \in Kept'
        /\ call' \in Kept'
    BY <1>1, TakeKeeps
  <1>3. call' \in Nat
    BY <1>2 DEF Kept, Calls
  <1>4. TypeOK'
    BY <1>1, <1>2, <1>3 DEF TypeOK, PC
  <1>5. Timed => Timed'
    BY <1>2, TimedBySignalNext DEF FiniteSignal
  <1>6. FiniteArmIsTimed' /\ SleepsForSomething'
    BY <1>1, <1>5 DEF FiniteArmIsTimed, SleepsForSomething
  <1>7. Delivered'
    BY <1>2 DEF Delivered
  <1>8. BlockedWait' /\ DelayedNotSuppressed'
    BY <1>1 DEF BlockedWait, DelayedNotSuppressed, Calls, Counting
  <1>9. QED
    BY <1>4, <1>6, <1>7, <1>8

\* A step of the countdown, or of the notice of an indefinite postponement.
LEMMA CountdownKeeps ==
    ASSUME IInv, SetIndefinite \/ Sleep \/ SetCountdown
    PROVE  IInv'
  <1> USE DEF IInv
  <1>1. UNCHANGED <<ArmPEFPostponeTmr, phase, inbox, call, edits, verdict, blocked, touched, unattended>>
    BY DEF SetIndefinite, Sleep, SetCountdown, properties, history
  <1>2. TmrCountdownValue' \in 0..254 /\ timer' \in 0..253 /\ SleepsForSomething'
    <2>1. CASE SetIndefinite
      BY <2>1, Values DEF SetIndefinite, ShowCountdown, TypeOK, SleepsForSomething
    <2>2. CASE Sleep
      BY <2>2 DEF Sleep, properties, TypeOK, SleepsForSomething
    <2>3. CASE SetCountdown
      BY <2>3 DEF SetCountdown, ShowCountdown, TypeOK, SleepsForSomething
    <2>4. QED
      BY <2>1, <2>2, <2>3
  <1>3. pc' \in PC /\ pc' # "readArm" /\ (pc \in Counting => pc' \in Counting)
    BY DEF SetIndefinite, Sleep, SetCountdown, PC, Counting
  <1>4. TypeOK'
    BY <1>1, <1>2, <1>3 DEF TypeOK
  <1>5. FiniteArmIsTimed'
    BY <1>1, <1>3 DEF FiniteArmIsTimed, Timed
  <1>6. Delivered'
    BY <1>1, <1>3 DEF Delivered, Kept, Calls
  <1>7. BlockedWait' /\ DelayedNotSuppressed'
    BY <1>1, <1>3 DEF BlockedWait, DelayedNotSuppressed, Calls
  <1>8. QED
    BY <1>2, <1>4, <1>5, <1>6, <1>7

LEMMA DisarmKeeps ==
    ASSUME IInv, Disarm
    PROVE  IInv'
  <1> USE DEF IInv
  <1>1. /\ UNCHANGED <<TmrCountdownValue, phase, timer, call, edits, verdict, blocked>>
        /\ pc = "disarm" /\ pc' = "loop"
    BY DEF Disarm
  <1>2. Calls' = Calls /\ Kept' = Kept /\ Calls \subseteq Nat
    BY <1>1 DEF Calls, Kept, TypeOK
  <1>3. CASE SetArm(0) /\ UNCHANGED touched
    <2>1. /\ ArmPEFPostponeTmr' \in TmrValue /\ inbox' \in Seq(Message)
          /\ unattended' \in BOOLEAN /\ FiniteArmIsTimed'
          /\ \A i \in 1..Len(inbox') :
                (i \in 1..Len(inbox) /\ inbox'[i] = inbox[i]) \/ inbox'[i].kind = "armed"
      BY <1>3, Values, SetArmSignals
    <2>2. ArmPEFPostponeTmr' = 0
      BY <1>3 DEF SetArm
    <2>3. TypeOK' /\ SleepsForSomething'
      BY <1>1, <1>3, <2>1 DEF TypeOK, PC, SleepsForSomething
    <2>4. Delivered'
      BY <1>1, <1>2, <2>1 DEF Delivered
    <2>5. BlockedWait' /\ DelayedNotSuppressed'
      BY <1>1, <1>2, <1>3, <2>2 DEF BlockedWait, DelayedNotSuppressed
    <2>6. QED
      BY <2>1, <2>3, <2>4, <2>5
  <1>4. CASE /\ touched' = Calls /\ UNCHANGED <<ArmPEFPostponeTmr, inbox>>
             /\ unattended' = (unattended \/ ArmPEFPostponeTmr \in Finite)
    <2>1. \/ unattended' = TRUE
          \/ unattended' = FALSE /\ ArmPEFPostponeTmr \notin Finite
      BY <1>4, Zenon DEF TypeOK
    <2>2. FiniteArmIsTimed' /\ unattended' \in BOOLEAN
      BY <1>4, <2>1 DEF FiniteArmIsTimed
    <2>3. TypeOK' /\ SleepsForSomething'
      BY <1>1, <1>2, <1>4, <2>2 DEF TypeOK, PC, SleepsForSomething
    <2>4. Delivered'
      BY <1>1, <1>2, <1>4 DEF Delivered
    <2>5. BlockedWait' /\ DelayedNotSuppressed'
      BY <1>1, <1>2, <1>4 DEF BlockedWait, DelayedNotSuppressed
    <2>6. QED
      BY <2>2, <2>3, <2>4, <2>5
  <1>5. QED
    BY <1>3, <1>4 DEF Disarm

LEMMA ReadKeeps ==
    ASSUME IInv, ReadPostponeTmr
    PROVE  IInv'
  <1> USE DEF IInv
  <1>1. /\ UNCHANGED <<ArmPEFPostponeTmr, TmrCountdownValue, phase, inbox, timer, call, edits,
                       blocked, unattended>>
        /\ pc = "readArm" /\ pc' = "loop"
    BY DEF ReadPostponeTmr, properties
  <1>2. call \in Calls /\ verdict[call] # "lost" /\ Calls \subseteq Nat
    BY <1>1 DEF Delivered, Kept, Calls, TypeOK
  <1>3. PICK v \in {"performed", "dropped"} :
          /\ verdict' = [verdict EXCEPT ![call] = v]
          /\ \/ UNCHANGED touched /\ (v = "dropped" => ArmPEFPostponeTmr \in Armed)
             \/ touched' = Calls
    BY <1>1, Values DEF ReadPostponeTmr, Judge
  <1>4. /\ verdict' \in Seq(Verdict) /\ Len(verdict') = Len(verdict) /\ verdict'[call] = v
        /\ \A n \in Calls \ {call} : verdict'[n] = verdict[n]
    <2>1. verdict \in Seq(Verdict) /\ v \in Verdict /\ call \in 1..Len(verdict)
      BY <1>2, <1>3 DEF TypeOK, Verdict, Calls
    <2>2. QED
      BY <1>3, <2>1 DEF Calls
  <1>5. Calls' = Calls /\ Kept \subseteq Kept'
    BY <1>2, <1>3, <1>4 DEF Calls, Kept
  <1>6. TypeOK' /\ SleepsForSomething'
    BY <1>1, <1>2, <1>3, <1>4 DEF TypeOK, PC, SleepsForSomething
  <1>7. FiniteArmIsTimed'
    BY <1>1 DEF FiniteArmIsTimed, Timed, Counting
  <1>8. Delivered'
    BY <1>1, <1>5 DEF Delivered
  <1>9. touched \cap Calls \subseteq touched'
    BY <1>3
  <1>10. call \in blocked \ touched' => ArmPEFPostponeTmr = 0 /\ v = "performed"
    <2>1. 0 \notin Armed
      BY Values DEF Armed, Indefinite
    <2>2. call \in blocked \ touched' => ArmPEFPostponeTmr = 0
      BY <1>1, <1>2, <1>9 DEF BlockedWait, Counting
    <2>3. QED
      BY <1>2, <1>3, <2>1, <2>2
  <1>11. BlockedWait'
    BY <1>1, <1>4, <1>5, <1>9, <1>10 DEF BlockedWait, Counting
  <1>12. DelayedNotSuppressed'
    BY <1>1, <1>4, <1>9, <1>10 DEF DelayedNotSuppressed, BlockedWait
  <1>13. QED
    BY <1>6, <1>7, <1>8, <1>11, <1>12

--------------------------------------------------------------------------------
LEMMA InvariantHoldsAtStart == Init => IInv
  <1> SUFFICES ASSUME Init PROVE IInv
    OBVIOUS
  <1> USE DEF Init
  <1>1. TypeOK
    <2>1. /\ ArmPEFPostponeTmr \in TmrValue /\ TmrCountdownValue \in 0..254
          /\ timer \in 0..253 /\ {call, edits} \subseteq Nat
      BY Values
    <2>2. inbox \in Seq(Message) /\ verdict \in Seq(Verdict)
      OBVIOUS
    <2>3. phase \in {"down", "named", "up"} /\ pc \in PC /\ unattended \in BOOLEAN
      BY DEF PC
    <2>4. QED
      BY <2>1, <2>2, <2>3 DEF TypeOK
  <1>2. SleepsForSomething /\ FiniteArmIsTimed
    BY Values DEF SleepsForSomething, FiniteArmIsTimed
  <1>3. Delivered
    <2>1. Len(inbox) = 0
      OBVIOUS
    <2>2. QED
      BY <2>1 DEF Delivered
  <1>4. BlockedWait /\ DelayedNotSuppressed
    BY DEF BlockedWait, DelayedNotSuppressed
  <1>5. QED
    BY <1>1, <1>2, <1>3, <1>4 DEF IInv

LEMMA InvariantIsInductive == IInv /\ [Next]_vars => IInv'
  <1> SUFFICES ASSUME IInv, [Next]_vars PROVE IInv'
    OBVIOUS
  <1>1. CASE Next
    BY <1>1, UsersKeep, ConfigurationKeeps, CrashKeeps, StartKeeps, CallKeeps, SignalsKeep,
       TaskKeeps, CountdownKeeps, DisarmKeeps, ReadKeeps DEF Next, EventLoop
  <1>2. CASE UNCHANGED vars
    BY <1>2 DEF IInv, vars, properties, loop, history, TypeOK, SleepsForSomething, FiniteArmIsTimed,
       Timed, Delivered, Kept, BlockedWait, DelayedNotSuppressed, Calls
  <1>3. QED
    BY <1>1, <1>2

LEMMA InvariantHolds == Spec => []IInv
  BY InvariantHoldsAtStart, InvariantIsInductive, PTL DEF Spec

(***************************************************************************)
(* The countdown stays a byte that does not wrap below 0, and every other  *)
(* variable in its range.                                                  *)
(***************************************************************************)
THEOREM TypeCorrect == Spec => []TypeOK
  <1>1. IInv => TypeOK
    BY DEF IInv
  <1>2. QED
    BY <1>1, InvariantHolds, PTL

(***************************************************************************)
(* Whatever users do, a finite postponement that was signalled, and whose  *)
(* countdown was not cut short, is being counted down or about to be.      *)
(***************************************************************************)
THEOREM FinitePostponementsAreTimed == Spec => []FiniteArmIsTimed
  <1>1. IInv => FiniteArmIsTimed
    BY DEF IInv
  <1>2. QED
    BY <1>1, InvariantHolds, PTL

(***************************************************************************)
(* A call that arrives during a countdown is delayed, and dropped only if  *)
(* the timer was set by a user, or a Get or Set failed, after it arrived.  *)
(***************************************************************************)
THEOREM CallsAreDelayedNotSuppressed == Spec => []DelayedNotSuppressed
  <1>1. IInv => DelayedNotSuppressed
    BY DEF IInv
  <1>2. QED
    BY <1>1, InvariantHolds, PTL
================================================================================
