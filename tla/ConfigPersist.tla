------------------------------ MODULE ConfigPersist ------------------------------
(***************************************************************************)
(* How the configuration reaches its file.  pef-configuration reads the    *)
(* file when it starts, exports tables and settings, and keeps what users  *)
(* write in memory only.  pef-event-filtering hears of a write by a        *)
(* signal, and rewrites the file: read, change, truncate, write.           *)
(*                                                                         *)
(* The model follows one column of the event filter table (or of the alert *)
(* policy table, whose monitor does the same with lists of 15), a sequence *)
(* with a value for each row, and one setting of each kind:                *)
(*   PEFControl            for the properties of PEFConfInfo               *)
(*   LanChannel            of a destination selector                       *)
(*   DestinationSelector   of a destination selector, which is loaded from *)
(*                         another member than its monitor writes          *)
(*   SystemGUID            for those without a monitor: the system GUID,   *)
(*                         OEM parameters and alert strings                *)
(* All are in the one file, whichever monitor rewrites it.                 *)
(***************************************************************************)
EXTENDS Integers, Sequences, FiniteSets

CONSTANTS
    Val,            \* values of the column
    NLists,         \* number of lists (4)
    ListSize,       \* rows of a list (10; alert policies 15)
    NRows,          \* rows in the file (40; alert policies 60)
    Vector,         \* vectors that users write, of any length
    Boot,           \* files at the start
    Lost,           \* a file that was truncated: does not parse
    MaxEdits        \* bound: steps of users and of the service manager

Setting == {"PEFControl", "LanChannel", "DestinationSelector", "SystemGUID"}
Monitored == Setting \ {"SystemGUID"}
LoadedFrom(p) == IF p = "DestinationSelector" THEN "DestinationType" ELSE p
Member == {LoadedFrom(p) : p \in Setting}

\* A monitor adds the member it writes if the file has none.
File == [rows : [1..NRows -> Val], member : [Member -> Val] \cup [Member \cup Monitored -> Val]]

ASSUME PersistAssumption ==
    /\ {NLists, ListSize, NRows} \subseteq Nat \ {0}
    /\ MaxEdits \in Nat
    /\ Vector \subseteq Seq(Val)
    /\ Boot \subseteq File /\ Lost \notin File

VARIABLES
    table,      \* pef-configuration's lists: list number -> vector
    setting,    \* and its settings: property -> value
    file,       \* rows and members; or Lost
    up,         \* pef-event-filtering has its matches installed
    signals,    \* PropertiesChanged signals delivered, oldest first
    pc,         \* "loop", or "write": between truncating and writing
    data,       \* what the handler is about to write
    edits,
    \* history
    wanted,     \* the lists as last exported from the file, or set by users
    outOfStep,  \* those that the file need not agree with (see below)
    unsaved,    \* settings whose last write did not reach the file
    shipped     \* the file at the start

exported == <<table, setting>>
history == <<wanted, outOfStep, unsaved, shipped>>
vars == <<exported, file, up, signals, pc, data, edits, history>>

Lists == 1..NLists

\* Row r of the file belongs to one list; the last list takes what is left over.
ListOf(r) == IF (r - 1) \div ListSize + 1 > NLists THEN NLists ELSE (r - 1) \div ListSize + 1
RowsOf(l) == {r \in 1..NRows : ListOf(r) = l}
ListOfFile(rows, l) == [i \in 1..Cardinality(RowsOf(l)) |-> rows[(l - 1) * ListSize + i]]

\* What pef-configuration exports: nothing at all if the file does not parse.
LoadLists(f) ==
    [l \in (IF f = Lost THEN {} ELSE {k \in Lists : RowsOf(k) # {}}) |-> ListOfFile(f.rows, l)]
LoadSettings(f) == [p \in (IF f = Lost THEN {} ELSE Setting) |-> f.member[LoadedFrom(p)]]

\* Mutant: the last value of a vector is not written.
MutantWrittenRows(s) ==
    {r \in 1..NRows : r > (s.list - 1) * ListSize /\ r < (s.list - 1) * ListSize + Len(s.value)}

\* The rows a signal's vector is written to: from the list's first row on,
\* clipped at the end of the table.
WrittenRows(s) ==
    {r \in 1..NRows : r > (s.list - 1) * ListSize /\ r <= (s.list - 1) * ListSize + Len(s.value)}

ValueAt(s, r) == s.value[r - (s.list - 1) * ListSize]

\* Mutant: the other rows are not taken from the file.
MutantWriteRows(rows, s) ==
    [r \in 1..NRows |-> IF r \in WrittenRows(s) THEN ValueAt(s, r) ELSE CHOOSE v \in Val : TRUE]

WriteRows(rows, s) == [r \in 1..NRows |-> IF r \in WrittenRows(s) THEN ValueAt(s, r) ELSE rows[r]]

\* Mutant: the value is put into every member.
MutantWriteMember(members, s) == [m \in DOMAIN members \cup {s.property} |-> s.value]

WriteMember(members, s) ==
    [m \in DOMAIN members \cup {s.property} |-> IF m = s.property THEN s.value ELSE members[m]]

Apply(f, s) ==
    IF "list" \in DOMAIN s THEN [f EXCEPT !.rows = WriteRows(@, s)]
    ELSE [f EXCEPT !.member = WriteMember(@, s)]

TouchedLists(s) ==
    IF "list" \in DOMAIN s THEN {ListOf(r) : r \in WrittenRows(s)} \cup {s.list} ELSE {}
TouchedSettings(s) == IF "property" \in DOMAIN s THEN {s.property} ELSE {}

--------------------------------------------------------------------------------
(***************************************************************************)
(* Users and restarts.                                                     *)
(***************************************************************************)
Edit == edits < MaxEdits /\ edits' = edits + 1
Signal(s) == signals' = IF up THEN Append(signals, s) ELSE signals

SetList(l, value) ==
    LET s == [list |-> l, value |-> value]
        fits == Len(value) = Cardinality(RowsOf(l))
    IN  /\ Edit
        /\ value # table[l]
        /\ table' = [table EXCEPT ![l] = value]
        /\ wanted' = [wanted EXCEPT ![l] = value]
        /\ Signal(s)
        /\ outOfStep' = IF up /\ fits THEN outOfStep \ {l}
                        ELSE IF up THEN outOfStep \cup TouchedLists(s)
                        ELSE outOfStep \cup {l}
        /\ UNCHANGED <<setting, file, up, pc, data, unsaved, shipped>>

UserSetsList == \E l \in DOMAIN table, value \in Vector : SetList(l, value)

\* No setter of its own: any value of the property's type is taken.
UserSetsSetting ==
    /\ Edit
    /\ \E p \in DOMAIN setting, value \in Val :
          /\ value # setting[p]
          /\ setting' = [setting EXCEPT ![p] = value]
          /\ IF p \in Monitored THEN Signal([property |-> p, value |-> value]) ELSE UNCHANGED signals
          /\ unsaved' = IF up THEN unsaved \ {p} ELSE unsaved \cup {p}
    /\ UNCHANGED <<table, file, up, pc, data, wanted, outOfStep, shipped>>

UnhandledLists == UNION {TouchedLists(signals[i]) : i \in DOMAIN signals}
UnhandledSettings == UNION {TouchedSettings(signals[i]) : i \in DOMAIN signals}

(***************************************************************************)
(* pef-configuration starts again.  A file that it cannot open or read, or *)
(* that a monitor has just truncated, does not parse: nothing is exported, *)
(* until the next start, although the file is or will be there.            *)
(***************************************************************************)
RestartsWith(found) ==
    /\ Edit
    /\ table' = LoadLists(found) /\ setting' = LoadSettings(found)
    /\ IF found = Lost THEN UNCHANGED <<wanted, outOfStep>>
       ELSE wanted' = table' /\ outOfStep' = UnhandledLists
    /\ unsaved' = UnhandledSettings
    /\ UNCHANGED <<file, up, signals, pc, data, shipped>>

ConfigurationRestarts == \E found \in {file, Lost} : RestartsWith(found)

EverythingLost == outOfStep' = Lists /\ unsaved' = Setting

\* Signals not yet handled are lost, and the file stays as it is.
FilteringStops ==
    /\ up /\ Edit
    /\ up' = FALSE /\ signals' = <<>> /\ pc' = "loop" /\ data' = Lost
    /\ IF pc = "write" THEN EverythingLost
       ELSE outOfStep' = outOfStep \cup UnhandledLists /\ unsaved' = unsaved \cup UnhandledSettings
    /\ UNCHANGED <<exported, file, wanted, shipped>>

FilteringStarts ==
    /\ ~up /\ up' = TRUE
    /\ UNCHANGED <<exported, file, signals, pc, data, edits, history>>

--------------------------------------------------------------------------------
(***************************************************************************)
(* A monitor: parse, change, truncate; then write.  A file that does not   *)
(* parse makes the change throw, and one that cannot be opened is left as  *)
(* it is: either way the signal is gone.  Whether the write succeeded is   *)
(* not looked at.                                                          *)
(***************************************************************************)
Gone(s) ==
    outOfStep' = outOfStep \cup TouchedLists(s) /\ unsaved' = unsaved \cup TouchedSettings(s)

\* Mutant: the last signal is kept, to be written together with the next.
MutantKeepsLastSignal ==
    /\ pc = "loop" /\ Len(signals) > 1
    /\ signals' = Tail(signals)
    /\ file # Lost
    /\ data' = Apply(file, Head(signals))
    /\ file' = Lost /\ pc' = "write"
    /\ UNCHANGED <<exported, up, edits, history>>

TruncateFile ==
    /\ pc = "loop" /\ signals # <<>>
    /\ signals' = Tail(signals)
    /\ \/ /\ file # Lost
          /\ data' = Apply(file, Head(signals))
          /\ file' = Lost /\ pc' = "write"
          /\ UNCHANGED <<outOfStep, unsaved>>
       \/ Gone(Head(signals)) /\ UNCHANGED <<file, pc, data>>
    /\ UNCHANGED <<exported, up, edits, wanted, shipped>>

WriteFile ==
    /\ pc = "write" /\ pc' = "loop"
    /\ \/ file' = data /\ UNCHANGED <<outOfStep, unsaved>>
       \/ file' = Lost /\ EverythingLost
    /\ data' = Lost
    /\ UNCHANGED <<exported, up, signals, edits, wanted, shipped>>

updateJsonFile == TruncateFile \/ WriteFile

Init ==
    /\ file \in Boot /\ shipped = file
    /\ table = LoadLists(file) /\ setting = LoadSettings(file)
    /\ up = FALSE /\ signals = <<>> /\ pc = "loop" /\ data = Lost
    /\ edits = 0 /\ wanted = table /\ outOfStep = {} /\ unsaved = {}

Next ==
    \/ UserSetsList \/ UserSetsSetting \/ ConfigurationRestarts
    \/ FilteringStops \/ FilteringStarts \/ updateJsonFile

Spec == Init /\ [][Next]_vars

\* The event loop runs, and systemd starts the daemon again.
FairSpec == Spec /\ WF_vars(updateJsonFile) /\ WF_vars(FilteringStarts)

--------------------------------------------------------------------------------
\* The file, and its rows once everything delivered has been handled: each is then
\* as the last of the signals that write it has it, or as it is.
Current == IF pc = "write" THEN data ELSE file

WritersOf(r) == {i \in DOMAIN signals : "list" \in DOMAIN signals[i] /\ r \in WrittenRows(signals[i])}
Last(S) == CHOOSE i \in S : \A j \in S : j <= i
Settled ==
    [r \in 1..NRows |->
        IF WritersOf(r) = {} THEN Current.rows[r] ELSE ValueAt(signals[Last(WritersOf(r))], r)]

(***************************************************************************)
(* The file, unless lost, follows the table: once the signals on their way *)
(* are handled, it holds each list as pef-configuration exports it, except a list *)
(* that is out of step: its last write was not signalled, or its signal    *)
(* was lost with the daemon or a failed write; or its length was not the   *)
(* list's, or the vector of another list ran over its rows; or             *)
(* pef-configuration has read the file again before its signals were       *)
(* handled; or the file was lost, to whichever monitor's write.  The next  *)
(* vector of the right length brings it back in step.                      *)
(***************************************************************************)
FileFollowsTable ==
    Current # Lost => \A l \in DOMAIN table \ outOfStep : ListOfFile(Settled, l) = table[l]

(***************************************************************************)
(* A restart of pef-configuration keeps each setting that has a monitor and *)
(* is loaded from the member its monitor writes, if its last write was      *)
(* handled.  Any other falls back to what the file was shipped with, be it  *)
(* set once or many times: the settings without a monitor, and              *)
(* DestinationSelector, whose monitor writes a member nobody reads.         *)
(***************************************************************************)
RestartKeepsMonitoredSettings ==
    [][RestartsWith(file) /\ file # Lost =>
        \A p \in DOMAIN setting :
            IF p \in Monitored /\ LoadedFrom(p) = p
              THEN p \notin unsaved \cup UnhandledSettings => setting'[p] = setting[p]
              ELSE setting'[p] = shipped.member[LoadedFrom(p)]]_vars

(***************************************************************************)
(* A start of pef-configuration that finds the file brings back each list  *)
(* that is in step as users last set it, also after starts that found      *)
(* nothing, because a monitor had the file truncated or it could not be    *)
(* read, and exported nothing: the monitors finish what was signalled      *)
(* before, each writing its own rows and keeping those of the others.      *)
(***************************************************************************)
RestartKeepsLists ==
    [][RestartsWith(file) /\ file # Lost =>
        \A l \in DOMAIN wanted \ (outOfStep \cup UnhandledLists) : table'[l] = wanted[l]]_vars

(***************************************************************************)
(* A write is made durable: a list that stays in step is in the file in    *)
(* the end.                                                                *)
(***************************************************************************)
WritesReachTheFile ==
    \A l \in Lists :
        l \in DOMAIN table \ outOfStep
            ~> \/ l \notin DOMAIN table \/ l \in outOfStep
               \/ file # Lost /\ ListOfFile(file.rows, l) = table[l]
================================================================================
