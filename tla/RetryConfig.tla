------------------------------- MODULE RetryConfig -------------------------------
(***************************************************************************)
(* The retry settings of pef-event-filtering: a flag and three counts,     *)
(* properties of its own object.  main loads them from retryConf.json; the *)
(* setters run in the event loop, each changing one setting and then       *)
(* saving all four: truncate, write.  systemd may restart the daemon at    *)
(* any moment.                                                             *)
(***************************************************************************)
EXTENDS Naturals

CONSTANTS
    Count,          \* retryCount, timeInterval, alertsLimit
    Max,            \* MAX_RETRY, MAX_INTERVAL, MAX_ALERTS_LIMIT
    Value,          \* values that users write
    BootFile,       \* files at the start
    Lost,           \* a file that is missing, or truncated: does not parse
    Absent,         \* a member that a file does not have
    MaxEdits        \* bound: Sets and restarts

\* What a file holds: a count may be missing, or above its limit.
Saved == [retryEnable : BOOLEAN, count : [Count -> Nat \cup {Absent}]]

ASSUME RetryAssumption ==
    /\ Max \in [Count -> Nat]
    /\ Value \subseteq Nat
    /\ BootFile \subseteq Saved \cup {Lost}
    /\ Lost \notin Saved /\ Absent \notin Nat
    /\ MaxEdits \in Nat

VARIABLES
    retryEnable, count,     \* the settings in force
    file,
    pc,         \* "loop"; saveConfig: "open", "write"
    edits,
    \* history
    stored,     \* the settings when they were last loaded or saved
    behind      \* a save has failed since, or the start's read

settings == <<retryEnable, count>>
vars == <<settings, file, pc, edits, stored, behind>>

Default == <<FALSE, [c \in Count |-> 0]>>

\* std::min
Clamp(v, limit) == IF v <= limit THEN v ELSE limit

\* Mutant: what the file holds is taken as it is.
MutantLoadCount(f, c) == IF f.count[c] = Absent THEN 0 ELSE f.count[c]
LoadCount(f, c) == IF f.count[c] = Absent THEN 0 ELSE Clamp(f.count[c], Max[c])

Load(f) == IF f = Lost THEN Default ELSE <<f.retryEnable, [c \in Count |-> LoadCount(f, c)]>>

--------------------------------------------------------------------------------
Edit == edits < MaxEdits /\ edits' = edits + 1

\* A setter: the setting changes, saveConfig comes next.
SetRetryEnable ==
    /\ pc = "loop" /\ Edit
    /\ retryEnable' \in BOOLEAN
    /\ pc' = "open"
    /\ UNCHANGED <<count, file, stored, behind>>

\* Accepted only while retries are enabled, and up to the limit.
SetCount ==
    /\ pc = "loop" /\ Edit
    /\ retryEnable
    /\ \E c \in Count, v \in Value : v <= Max[c] /\ count' = [count EXCEPT ![c] = v]
    /\ pc' = "open"
    /\ UNCHANGED <<retryEnable, file, stored, behind>>

\* Failing to open the file, or to write it, is logged and nothing else.
OpenFile ==
    /\ pc = "open"
    /\ \/ file' = Lost /\ pc' = "write" /\ UNCHANGED behind
       \/ pc' = "loop" /\ behind' = TRUE /\ UNCHANGED file
    /\ UNCHANGED <<settings, edits, stored>>

\* Mutant: the flag is left out.
MutantContents == [retryEnable |-> FALSE, count |-> count]
Contents == [retryEnable |-> retryEnable, count |-> count]

WriteFile ==
    /\ pc = "write" /\ pc' = "loop"
    /\ \/ file' = Contents /\ stored' = settings /\ behind' = FALSE
       \/ behind' = TRUE /\ UNCHANGED <<file, stored>>
    /\ UNCHANGED <<settings, edits>>

saveConfig == OpenFile \/ WriteFile

\* main takes a file that it cannot open, or read, for one that is not there.
Restart ==
    /\ Edit
    /\ \E found \in {file, Lost} :
          /\ retryEnable' = Load(found)[1] /\ count' = Load(found)[2]
          /\ IF found = file THEN stored' = settings' /\ behind' = FALSE
             ELSE behind' = TRUE /\ UNCHANGED stored
    /\ pc' = "loop"
    /\ UNCHANGED file

Init ==
    /\ file \in BootFile
    /\ retryEnable = Load(file)[1] /\ count = Load(file)[2]
    /\ pc = "loop" /\ edits = 0 /\ stored = settings /\ behind = FALSE

Next == SetRetryEnable \/ SetCount \/ saveConfig \/ Restart

Spec == Init /\ [][Next]_vars

--------------------------------------------------------------------------------
(***************************************************************************)
(* The settings in force keep their limits, whatever the file held when    *)
(* the daemon started: each setting has a check in its setter and another, *)
(* which corrects instead of refusing, where main loads it.                *)
(***************************************************************************)
WithinLimits == \A c \in Count : count[c] <= Max[c]

(***************************************************************************)
(* The file stands for the settings in force: read back, it gives them all *)
(* and exactly, unless a save failed since it last did, or the daemon      *)
(* could not read the file when it started.  One successful save makes up  *)
(* for all that failed before.                                             *)
(***************************************************************************)
FileHoldsSettings == pc = "loop" /\ ~behind => Load(file) = settings

(***************************************************************************)
(* A restart never mixes settings of different times.  The daemon comes up *)
(* with the settings in force, or all those that were last stored, or, if  *)
(* the file was lost in the middle of a save or cannot be read, all the    *)
(* defaults.                                                               *)
(***************************************************************************)
RestartIsAllOrNothing ==
    [][Restart => settings' \in {settings, stored, Default}]_vars
================================================================================
