------------------------------ MODULE PostponeTimer ------------------------------
(***************************************************************************)
(* Postponing PEF.  A user arms ArmPEFPostponeTmr of pef-configuration; a  *)
(* PropertiesChanged signal takes the value to pef-event-filtering, which  *)
(* counts a finite one down in its event loop (a second of sleep, then a   *)
(* Set of TmrCountdownValue, again and again) and at the end sets the      *)
(* property to 0.  The loop handles nothing meanwhile: what arrives waits. *)
(* A doPefTask call is here its read of ArmPEFPostponeTmr, PEF being       *)
(* enabled.  Either daemon may be restarted by itself, at any step.        *)
(***************************************************************************)
EXTENDS Naturals, Sequences

CONSTANTS
    Finite,         \* values that count down: 0x01 to 0xFD
    MaxCalls,       \* bound: doPefTask calls
    MaxEdits        \* bound: steps of users and of the service manager

Indefinite == 254
Armed == Finite \cup {Indefinite}
TmrValue == Armed \cup {0, 255}

ASSUME TimerAssumption ==
    /\ Finite \subseteq 1..253
    /\ {MaxCalls, MaxEdits} \subseteq Nat

VARIABLES
    \* pef-configuration's two properties
    ArmPEFPostponeTmr, TmrCountdownValue,
    \* pef-event-filtering
    phase,      \* "down"; "named": calls reach it, signals do not; "up"
    inbox,      \* messages delivered, oldest first
    pc,         \* what the event loop is doing
    timer,      \* the countdown
    call,       \* the doPefTask call being handled
    edits,
    \* history
    verdict,    \* call number -> what came of it
    blocked,    \* calls that arrived during a countdown
    touched,    \* calls before the last Set by a user, or failure, since
    unattended  \* the value armed was not signalled, or its countdown cut short

properties == <<ArmPEFPostponeTmr, TmrCountdownValue>>
loop == <<pc, timer, call>>
history == <<verdict, blocked, touched>>
vars == <<properties, phase, inbox, loop, edits, history, unattended>>

Message == [kind : {"armed"}, value : TmrValue] \cup [kind : {"task"}, value : Nat]

PC == {"loop", "indefinite", "sleep", "countdown", "disarm", "readArm"}
Counting == {"sleep", "countdown", "disarm"}
Verdict == {"pending", "performed", "dropped", "lost"}

Calls == 1..Len(verdict)
Judge(n, v) == verdict' = [verdict EXCEPT ![n] = v]

--------------------------------------------------------------------------------
(***************************************************************************)
(* pef-configuration: a Set to another value is signalled, and the signal  *)
(* reaches the daemon once its match is installed.                         *)
(***************************************************************************)
SetArm(value) ==
    /\ ArmPEFPostponeTmr' = value
    /\ IF value = ArmPEFPostponeTmr
         THEN UNCHANGED <<inbox, unattended>>
         ELSE /\ inbox' = IF phase = "up" THEN Append(inbox, [kind |-> "armed", value |-> value])
                                          ELSE inbox
              /\ unattended' = (phase # "up" /\ value \in Finite)

UserSetsArm ==
    /\ edits < MaxEdits /\ edits' = edits + 1
    /\ \E value \in TmrValue : SetArm(value)
    /\ touched' = Calls
    /\ UNCHANGED <<TmrCountdownValue, phase, loop, verdict, blocked>>

\* Both properties are registered anew with 0; initialize(true) signals nothing.
ConfigurationRestarts ==
    /\ edits < MaxEdits /\ edits' = edits + 1
    /\ ArmPEFPostponeTmr' = 0 /\ TmrCountdownValue' = 0
    /\ UNCHANGED <<phase, inbox, loop, history, unattended>>

(***************************************************************************)
(* pef-event-filtering's life: it takes its bus name, then installs its    *)
(* matches, then runs the loop.                                            *)
(***************************************************************************)
Crash ==
    /\ edits < MaxEdits /\ edits' = edits + 1
    /\ phase' = "down" /\ inbox' = <<>>
    /\ pc' = "loop" /\ timer' = 0 /\ call' = 0
    /\ verdict' = [n \in Calls |-> IF verdict[n] = "pending" THEN "lost" ELSE verdict[n]]
    /\ unattended' = (unattended \/ ArmPEFPostponeTmr \in Finite)
    /\ UNCHANGED <<properties, blocked, touched>>

Start ==
    /\ \/ phase = "down" /\ phase' = "named"
       \/ phase = "named" /\ phase' = "up"
    /\ UNCHANGED <<properties, inbox, loop, edits, history, unattended>>

Call ==
    /\ phase # "down" /\ Len(verdict) < MaxCalls
    /\ verdict' = Append(verdict, "pending")
    /\ inbox' = Append(inbox, [kind |-> "task", value |-> Len(verdict) + 1])
    /\ blocked' = IF pc \in Counting THEN blocked \cup {Len(verdict) + 1} ELSE blocked
    /\ UNCHANGED <<properties, phase, loop, edits, touched, unattended>>

--------------------------------------------------------------------------------
(***************************************************************************)
(* The event loop takes the next message.                                  *)
(***************************************************************************)
Take(kind) ==
    /\ phase = "up" /\ pc = "loop"
    /\ inbox # <<>> /\ Head(inbox).kind = kind
    /\ inbox' = Tail(inbox)

\* Mutant: a countdown of one second is taken for none.
MutantTimerArmed ==
    /\ Take("armed")
    /\ LET value == Head(inbox).value
       IN  \/ value \in {0, 1, 255} /\ UNCHANGED <<pc, timer>>
           \/ value = Indefinite /\ pc' = "indefinite" /\ UNCHANGED timer
           \/ value \in Finite \ {1} /\ pc' = "sleep" /\ timer' = value
    /\ UNCHANGED <<properties, phase, call, edits, history, unattended>>

TimerArmed ==
    /\ Take("armed")
    /\ LET value == Head(inbox).value
       IN  \/ value \in {0, 255} /\ UNCHANGED <<pc, timer>>
           \/ value = Indefinite /\ pc' = "indefinite" /\ UNCHANGED timer
           \/ value \in Finite /\ pc' = "sleep" /\ timer' = value
    /\ UNCHANGED <<properties, phase, call, edits, history, unattended>>

doPefTask ==
    /\ Take("task")
    /\ call' = Head(inbox).value
    /\ pc' = "readArm"
    /\ UNCHANGED <<properties, phase, timer, edits, history, unattended>>

\* A Set of TmrCountdownValue whose failure is logged and otherwise ignored.
ShowCountdown(value) == TmrCountdownValue' \in {TmrCountdownValue, value}

SetIndefinite ==
    /\ pc = "indefinite"
    /\ ShowCountdown(Indefinite)
    /\ pc' = "loop"
    /\ UNCHANGED <<ArmPEFPostponeTmr, phase, inbox, timer, call, edits, history, unattended>>

Sleep ==
    /\ pc = "sleep"
    /\ timer' = timer - 1
    /\ pc' = "countdown"
    /\ UNCHANGED <<properties, phase, inbox, call, edits, history, unattended>>

\* Mutants: a failed Set is tried again until it succeeds; one second too many.
MutantRetriesCountdown ==
    /\ pc = "countdown"
    /\ \/ TmrCountdownValue' = timer /\ pc' = (IF timer = 0 THEN "disarm" ELSE "sleep") /\ UNCHANGED timer
       \/ UNCHANGED TmrCountdownValue /\ pc' = "sleep" /\ timer' = timer + 1
    /\ UNCHANGED <<ArmPEFPostponeTmr, phase, inbox, call, edits, history, unattended>>
MutantCountsPastZero ==
    /\ pc = "countdown"
    /\ ShowCountdown(timer)
    /\ pc' \in (IF timer = 0 THEN {"sleep", "disarm"} ELSE {"sleep"})
    /\ UNCHANGED <<ArmPEFPostponeTmr, phase, inbox, timer, call, edits, history, unattended>>

SetCountdown ==
    /\ pc = "countdown"
    /\ ShowCountdown(timer)
    /\ pc' = IF timer = 0 THEN "disarm" ELSE "sleep"
    /\ UNCHANGED <<ArmPEFPostponeTmr, phase, inbox, timer, call, edits, history, unattended>>

\* Mutant: the end of the countdown is shown but does not disarm.
MutantDisarm ==
    /\ pc = "disarm" /\ pc' = "loop"
    /\ UNCHANGED <<properties, phase, inbox, timer, call, edits, history, unattended>>

\* The final Set writes 0 over whatever is armed by now; or it fails.
Disarm ==
    /\ pc = "disarm" /\ pc' = "loop"
    /\ \/ SetArm(0) /\ UNCHANGED touched
       \/ /\ touched' = Calls
          /\ unattended' = (unattended \/ ArmPEFPostponeTmr \in Finite)
          /\ UNCHANGED <<ArmPEFPostponeTmr, inbox>>
    /\ UNCHANGED <<TmrCountdownValue, phase, timer, call, edits, verdict, blocked>>

ReadPostponeTmr ==
    /\ pc = "readArm" /\ pc' = "loop"
    /\ \/ ArmPEFPostponeTmr \in {0, 255} /\ Judge(call, "performed") /\ UNCHANGED touched
       \/ ArmPEFPostponeTmr \in Armed /\ Judge(call, "dropped") /\ UNCHANGED touched
       \/ Judge(call, "dropped") /\ touched' = Calls
    /\ UNCHANGED <<properties, phase, inbox, timer, call, edits, blocked, unattended>>

--------------------------------------------------------------------------------
EventLoop ==
    \/ TimerArmed \/ doPefTask \/ SetIndefinite
    \/ Sleep \/ SetCountdown \/ Disarm \/ ReadPostponeTmr

Init ==
    /\ ArmPEFPostponeTmr = 0 /\ TmrCountdownValue = 0
    /\ phase = "down" /\ inbox = <<>>
    /\ pc = "loop" /\ timer = 0 /\ call = 0
    /\ edits = 0
    /\ verdict = <<>> /\ blocked = {} /\ touched = {} /\ unattended = FALSE

Next == UserSetsArm \/ ConfigurationRestarts \/ Crash \/ Start \/ Call \/ EventLoop

\* The loop runs, a second passes and a synchronous call ends; systemd starts
\* the daemon again whenever it is down.
Fairness == WF_vars(EventLoop) /\ WF_vars(Start)

Spec == Init /\ [][Next]_vars
FairSpec == Spec /\ Fairness

--------------------------------------------------------------------------------
TypeOK ==
    /\ ArmPEFPostponeTmr \in TmrValue /\ TmrCountdownValue \in 0..254
    /\ phase \in {"down", "named", "up"} /\ inbox \in Seq(Message)
    /\ pc \in PC /\ timer \in 0..253 /\ call \in Nat
    /\ edits \in Nat
    /\ verdict \in Seq(Verdict) /\ blocked \subseteq Nat /\ touched \subseteq Nat
    /\ unattended \in BOOLEAN

Timed ==
    \/ pc \in Counting
    \/ \E i \in DOMAIN inbox : inbox[i].kind = "armed" /\ inbox[i].value \in Finite

(***************************************************************************)
(* A finite postponement is never left standing: while one is armed, the   *)
(* countdown runs or the signal that will start one is on its way, however *)
(* users arm, cancel and arm again meanwhile.  Only a restart of           *)
(* pef-event-filtering, or the failure of the Set that ends a countdown,   *)
(* leaves PEF postponed with nobody counting.                              *)
(***************************************************************************)
FiniteArmIsTimed == ArmPEFPostponeTmr \in Finite /\ ~unattended => Timed

(***************************************************************************)
(* A finite postponement delays events and does not suppress them: a call  *)
(* that arrives during a countdown is dropped only if, since it arrived,   *)
(* a user set the timer, or a Set or a Get failed.  The countdown holds    *)
(* the event loop and disarms before the call is looked at.                *)
(***************************************************************************)
DelayedNotSuppressed == \A n \in blocked : verdict[n] = "dropped" => n \in touched

(***************************************************************************)
(* A finite postponement comes to its end.                                 *)
(***************************************************************************)
PostponementEnds == ArmPEFPostponeTmr \in Finite ~> (ArmPEFPostponeTmr \notin Finite \/ unattended)

(***************************************************************************)
(* A call that waits behind countdowns is handled once they are over, or   *)
(* lost with the daemon.                                                   *)
(***************************************************************************)
CallsResolved ==
    \A n \in 1..MaxCalls :
        n \in Calls /\ verdict[n] = "pending" ~> n \in Calls /\ verdict[n] # "pending"
================================================================================
