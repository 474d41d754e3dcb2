# A TLA+ model of the platform event filter

This directory models the BMC's platform event filter: two daemons that hold
the PEF configuration, decide which of the system's events call for an action,
and carry the actions out (power off, reset, SEL record, SNMP trap, mail).
The modules are written from the C++ sources; `pef_action.cpp` etc. below are
the files of `src/src/` and `src/include/`.

## 1. Inventory

    users, IPMI, web            pef-configuration  --- files in /var/lib
        |  Set property   ---->  (pef_config.cpp)  <-- read at start
        |                             ^   |
        |                         Get |   | PropertiesChanged
        |  doPefTask                  |   v
    event sources  ----------> pef-event-filtering --> the same files
                                (pef_action.cpp)
                                   |
            state manager, mail, SNMP, SEL, mapper (other daemons)

Both daemons are single-threaded: one event loop takes the messages of its bus
connection in order. pef-event-filtering does its work with *synchronous* bus
calls, each of which ends in an answer, an error or a timeout of 25 s, and an
error throws unless the call is inside a `try`. systemd restarts both
(`Restart=always`), and neither keeps anything but files across a restart.

| Component | State | Operations | Hard part |
|---|---|---|---|
| Event filter (`pef_action.cpp` 1383-1428, 1555-1630) | none | match of a table row and an event | bit masks and their special cases |
| Event handler, doPefTask (`pef_action.cpp` 204-1738) | locals of one call; `LastBMCProcessedEventID`; retry settings | read the switches, the tables, the global control; power action; alerts | every read is a separate call that can fail or see a newer configuration; throws in the middle; calls queue up |
| Postpone timer (`pef_action.hpp` 257-335, `pef_config.cpp` 2353-2366) | `ArmPEFPostponeTmr`, `TmrCountdownValue`; the countdown, a local variable | arm, count down, disarm | the countdown blocks the event loop for up to 253 s; restarts; arming again |
| Persistence (`pef_config_update.hpp`) | `pef-alert-manager.json` | one monitor per object rewrites the file on a signal | truncate-then-write; lost signals; lists of a wrong length |
| Configuration daemon (`pef_config.cpp`) | every property of the tables, LAN parameters; `pef-lan-param-config.json` | load at start, validating setters | setters that change the property and then rewrite a file; failing halfway |
| Test of a destination (`pef_config.cpp` 437-865) | none | dispatch by type: trap, mail, or refused | counts from 0 while the rest counts from 1; reads the file, not the properties; three functions read it apart |
| Retry configuration (`pef_action.cpp` 1740-1873) | four settings and their file | setters, load with clamping | refused, clamped and saved in different places |
| SNMP traps (`snmp_notification.cpp`) | none of its own (reads files and properties) | choose managers and version, send | selection by channel and destination, with and without v3 users |
| Sensor numbering (`sdrutils.hpp`) | cached sensor tree, number maps | number, look up, filter | the cache; the limit of three LUNs |
| Key store (`Encryption.cpp`) | key file, IV file | generate, encrypt, decrypt | files that vanish or are half written |

What makes each correct, in short:

- *Filter*: the outcome is the bit test the fields describe, wildcards included.
- *Handler*: whatever it does is backed by the configuration; in table order and
  once; nothing that could be read and stayed put is left out; every caller is
  answered.
- *Timer*: a finite postponement ends, and delays events without losing them.
- *Persistence*: the file follows the properties, and a start brings back what
  was set; no write of one part costs another.
- *Configuration*: a refused value leaves no trace; file and property agree.
- *Retry*: what is in force is within limits, and survives a restart.
- *Tests*: a user told that a test succeeded has tested what was asked for.
- *Traps*: every configured, enabled destination gets one, no other does.
- *Numbering*: one number for one sensor, the same while the sensors are.
- *Keys*: what was encrypted can be decrypted as long as the files are there.

## 2. Plan

In this order; the first ten are done.

1. `EventFilter` (+ `EventFilterProofs`): the match.
2. `PefTask` (+ `TaskQueue`, its abstract specification, and `PefTaskProofs`):
   the handler, built on `EventFilter`. The most important behaviour.
3. `PostponeTimer` (+ `PostponeTimerProofs`).
4. `ConfigPersist` (+ `ConfigPersistProofs`): how tables and settings reach the file.
5. `LanParams`: the setters of an interface's parameters, and their file.
6. `SnmpTrap`, composed with `LanParams`: which manager gets a trap, while the
   file it is read from is rewritten.
7. `RetryConfig` (+ `RetryConfigProofs`): settings, clamping, their file, restart.
8. `TestDestination`, composed with `SnmpTrap`: the dispatch by type (+
   `LanProofs`, for 5, 6 and 8).
9. `SensorMap` (+ `SensorMapProofs`): numbering and cache, the limit of 765.
10. `KeyStore` (+ `KeyStoreProofs`): key and IV files.
11. `PefSystem`: timer, persistence and handler composed over one configuration.

Abstract specifications: `TaskQueue` (what callers of doPefTask see); for
`ConfigPersist`, a durable register with losses; for `KeyStore`, a register
that decrypts or refuses.

Every safety property that a passing run checks is stated by a theorem, for all
values of the constants (section 5). Left are liveness, which the prover cannot
state a rule for, and what `PefSystem` would promise across the processes.

## 3. Modules

### EventFilter

A byte that the code tests bit by bit is the set of its 1 bits, so that `&`,
`|` and `~` are the set operations; a byte that is only compared is a member of
`Code`, with 0xFF (`Wildcard`) and 0x00 (`ZeroCode`) named.
`pefEveDataMatch` has the three nested tests of the function it is named after,
`HeaderMatch`, `OffsetMatch` and `EntryMatches` the conditions of
`eventFilteringProcess`. `DataTestHolds` is the definition they are checked
against: after masking, all bits that Cmp1 selects agree with Cmp2, and, if some
are not selected, at least one of those agrees. `MCEventFilter` drives the
operators through a row and an event that change bit by bit.

### PefTask, TaskQueue, MCPefTask

One variable `pc` names the bus call the handler makes next, and each call is an
action: `Dispatch`, `ReadPEFControl`, `ReadPostponeTmr` (pefTask); `CountLists`,
`ReadList` once for each list, `GetEthMap` (eventFilteringProcess);
`GetPefConfInfo`, `PowerAction`, `GetPowerStatus`, `Reboot`, `CheckAlert`,
`ReadPolicyList`, `ResolveDestination`, `SendSmtpAlert`,
`SetLastBMCProcessedEventID`, `SendSNMPAlert` (performPefAction and what it
calls). Each sees the configuration as it is at that step, or fails as the code
lets it fail: passed over where a `try` surrounds the call, thrown out of the
handler (`Return("aborted")`) where none does. `scan` and `walk` group the
locals. The steps of `Outside` are everyone else: users' Sets, the host's power,
further calls, `retryEnable`, a restart.

A list, a policy object, the parameters of a channel and the global settings are
each read with one `GetAll`, and so in one action; between two such reads
anything may change. The columns of a list can have different lengths after
users' writes: a row that some column is too short for is skipped by the code
just as a disabled row is, and is modelled as one.

Kept as the code has them: destination *n* is valid only if *n* is less than the
number of destinations, so the last one is never used, and destination 0 reads
the element before the first (`TypesAt`: any type); a mail that the retry queue
rejects counts as sent; the result of a trap is not looked at; power
transitions and the read of the host name throw.

The variables `acts`, `seen`, `disturbed`, `outcome` and `accepted` are history:
what the handler did, what the configuration held at some moment since dispatch,
what changed or could not be read since dispatch, how the call ended, and which
events' mail was accepted. No guard reads them.

`TaskQueue` is what callers rely on: calls wait in order, one is taken at a time,
each is answered once, a restart answers all of them with an error. `Promise` in
`PefTask` is the refinement mapping: waiting is the bus's queue, busy is
`pc # "idle"`.

### PostponeTimer

The two properties of pef-configuration, and the event loop of
pef-event-filtering as a program counter: a signal of a finite value starts
`Sleep`/`SetCountdown` rounds and a final `Disarm`, which sets the property to 0
whatever it holds by then. Messages wait in `inbox` meanwhile. The daemon's
start has two steps (`phase`): calls reach it once it has its name, signals only
once its matches are installed. A Set that fails or times out is taken as done
at once or never; an effect that comes late is not modelled.

Three things that the code does and the model shows, which nobody may want: an
arming during a countdown, 0xFE included, is overwritten with 0 at its end
(`FiniteArmIsTimed` does not object, as nothing is armed then; which of the two
should win is not documented, and no property judges it); a
restart of pef-event-filtering during a countdown leaves the timer armed with
nobody counting (`unattended`), so that PEF stays postponed until somebody sets
the property; and cancelling 0xFE leaves `TmrCountdownValue` at 0xFE.

### ConfigPersist

What pef-configuration made of its file when it started and users write since:
`table`, the lists of one column, and `setting`, one property for each way that
a property reaches the file, or does not (below). `file` is a value for each row
and a member for each setting, or `Lost`, if it does not parse. A write is
signalled to pef-event-filtering if that is up; `TruncateFile` is a monitor's
parse, change and `open(trunc)`, `WriteFile` the write that follows;
`FilteringStops` may come in between. The setters check values and never
lengths, so a vector is any length: `Apply` writes from the list's first row on
and is clipped only at the end of the table. A monitor adds the member of its
own name if the file has none (`File`). `Settled` says what the rows become once
the signals on their way are handled: each as the last signal that writes it has
it, or as it is. The model stands for the event
filter monitor (lists of 10) and the alert policy monitor (lists of 15), which
differ only in names; `PEFControl` stands for the properties of PEFConfInfo, and
`LanChannel` for those of a destination selector. Two settings do not come
back after a restart: `SystemGUID` stands for those that no monitor watches, and
`DestinationSelector` is loaded from the member `DestinationType`, while its
monitor writes one of its own name, which nobody reads.

`outOfStep` and `unsaved` are history: the lists and settings whose last write
cannot be expected in the file, with the reasons at `FileFollowsTable`; and
`shipped` is the file at the start. A file that is lost stays lost: no monitor
starts on one that does not parse, and so every later write is in memory only.

pef-configuration may start while a monitor has the file truncated, or fail to
read it: `RestartsWith(Lost)` exports nothing, until the next start. The monitors
go on with the signals that were sent before, and what users had set must still
be there when a later start finds the file. `wanted` is the history that says
so: the lists as last read from the file or set by users, whatever is exported
now. `RestartKeepsLists` compares it with what a start exports, and a monitor
that did not keep the other lists' rows would break it. A Set of the value that
a property already has is left out: if it is signalled at all, the monitor
writes what the file has or should have, so that it only repairs.

### LanParams

`param` is the properties of each interface's object, `file` the one JSON file
that holds all of them; what is configured for an interface is a function whose
domain is the parameters that are there, since a file may lack any. `Load` is
the constructor: the entry of the file, else the interface's older file of its
own (`Legacy`), arrays filled up to NumberofDestinations. `SetParam` is a setter
up to the change of the property; `updateLanParamConfigValue` follows as
`OpenFile` (read, put the value in, truncate) and `WriteFile`. A restart may
come before, between or after. Every read of a file may fail although the file is
intact (`Read`): a Set then goes on from an empty object and saves its own value
alone, which wipes every other parameter of every interface; a start takes
every interface from its older file, or, where that one cannot be read either
(`OlderFiles`), from the defaults. Checks that ask another daemon use fixed sets of
users and communities; a Set that such a check refuses, for any reason, leaves
no trace and is no step.

`behind` is history: the parameters that the file need not hold, because they
were never stored, or what was read did not have them (`NotHeld`: at a start,
and at a Set whose read failed, which has just wiped them), or because the file
could not be opened or written, none of which the code reports. A Set takes its
own parameter out of it. `FileHoldsParameters` is thus what a bad read costs,
and what it does not: nothing comes back by itself, the next Set of each
parameter brings back that one, and a Set that reads the file disturbs no other.
`before` is `param` without the Set in progress.

The model shows that the first Set of an interface with an older file makes an
entry with this one parameter; after a restart the entry hides the older file,
and as it lacks the other arrays none is exported. NumberofDestinations is
written by no Set at all: even when Sets have brought all else into such an
entry, the number is 0 after a restart, and arrays that are too short stay so.
`SetDoneOrUndone` therefore asks nothing of a parameter in `behind`. It compares
arrays as they are when filled up to the larger of the two numbers of
destinations, since a start may find a number other than that in force, after
one that could not read it. Also, a user name is checked
against the type the destination has then; setting the type later does not
check the name again.

### SnmpTrap, TestDestination

`sendTrap` runs in pef-event-filtering and reads the LAN file itself:
`getSNMPDisableStatus`, `ReadLanFile` (with `getManagers`), `Send`. Its steps
interleave with all of `LanParams` and with switches of the SNMP versions, so
the file may be found truncated (no trap), or be older than the properties.
(`snmp_notification.cpp:307` says that the file belongs to the same service; the
traps of events are sent by the other one.) A manager is a version, a peer and a
credential; `Peers` and `Credentials` pass over a zero address, an empty
community and an empty user as the code does. Destination *n* is the
*n*-th entry here, bounded by the length of each array, and 0 is none. `held`, `allowed`
and `sound` are history: what was configured, which versions were allowed, and
whether the file was in step, since the call began.

`TestDestination` is what a user's test does, in pef-configuration: `Request`
counts the selector up in a byte and checks it, `DispatchTrap`, `DispatchMail`
and `DispatchFails` find the entry's type in the file, and a trap then goes
through the steps of `SnmpTrap`, which read the file once more. It blocks the
event loop, so of `LanParams` only a restart can come in between; the switches
of the SNMP versions can at any point. A test and an event's trap are sent by
different processes that both only read what they share, so that the model has
one of the two at a time. The user's channel stands for its interface; what a
test of entry *n* + 1 reads is `At`, without the off-by-one of the event
handler, which counts destinations from 1 and checks them otherwise.
The method `TestSNMP` (`pef_config.cpp` 2370-2380) is `sendTrap` with a channel
and destination that the user names, in pef-configuration: what it does is what
`SendTrap` does in those behaviours of `SnmpTrap` in which no Set comes in
between, and it has no action of its own.

### RetryConfig

The four settings of pef-event-filtering's own object and `retryConf.json`. A
setter refuses (the counts: while retries are disabled, and above their limit),
changes the setting, and saves all four: `OpenFile` truncates, `WriteFile`
writes; either may fail, which is logged and no more. The read at a start may
fail too, and leaves the defaults in force and the file as it is. `Load` is main's, which
takes a missing count for 0 and clamps one that is too large, with all defaults
for a file that does not parse. The file is written only by the program, so
counts below 0, which the code would clamp too late, are not among `BootFile`.
`stored` and `behind` are history.

### SensorMap

Both daemons number the sensors with the same code and caches of their own, and
share only the numbers in filter rows: pef-configuration accepts a number of
its map, and pef-event-filtering names a sensor by its own. `tree` and `map`
are the caches, `index` and `prev` the counter that tells a new tree from an old
one, with `IndexSize` values. `getSensorNumMap` fetches the tree if there is
none and starts a build if it is new; `NumberSensor` (by the order of paths) or
`AskSensor` (each declares its number) is one round of the build's loop, and
between two rounds sensors may come and go, whose signals the process handles
only when it is back in its event loop (`HandleSignal`). A query that fails
leaves an empty tree in the cache. When the last number is given the build
throws, and what it filled is served from then on. `gap` is history: what is
missing in a process's caches, and why `ServedMapIsCurrent` says less of it;
`meant` and `steady` say what a row named when it was written.

Taken as they are: `None`, a cache not filled, is no tree and no map, as a null
pointer is none; the mapper knows of a change when the signal comes; a failing
connection to the bus is no step; sensors' names are not bounded by what a list
of them can hold. `Pmt` are the sensors that only the filtered service has.

### KeyStore

The two files, each `Absent`, `Unusable` (empty, or cut), or made by the call of
that number. `encryptString` is one step for each file it touches: look for
both; if one is missing, or cannot be opened although it is there, open and so
truncate both, generate, write the key, write the IV, unchecked; then read both
back and encrypt. `decryptString` looks for both, reads both and decrypts, a
step each, in another process. `EncryptorCrashes` and `FileRemoved` come at any
step. A wrong key or IV mostly leaves a padding that is refused and sometimes
garbage, so `DecryptFinal` may return either, and may refuse even with the right
ones. `given`, `lost` and `blind` are history. There is one encrypting process:
nothing under `src/` calls `encryptString`, and the daemons only decrypt
(`snmp_notification.cpp:255`).

The model shows that a crash while the files are made leaves a pair that every
later call refuses and none repairs (`CompleteFilesKept`), until one of them is
removed from outside.

## 4. Runs

| Run | Question | Bounds |
|---|---|---|
| `filter` | Is `pefEveDataMatch` its definition, and do masked bits not matter? | 3 bits |
| `filter_zero_type` | Is SensorType 0x00 a wildcard, as the setter's comment says? No. | 3 bits |
| `task` | Is what one call does authorised, ordered, complete? | 2 filter lists of 1 row, 2 policies, 2 channels, 1 call, 1 outside step |
| `task_queue` | Is every call answered once, as `TaskQueue` promises? | 1 row, 1 policy, 2 calls, 1 outside step |
| `postpone` | Do finite postponements end, and delay only? | countdowns of 1 and 2 s, 2 calls, 4 outside steps |
| `persist` | Does the file follow the properties, and does a restart keep them, after one that found no file too? | lists of 2 and 3 rows, 5 vectors, 4 settings, 4 outside steps |
| `lan` | Does the LAN file hold what was set, what does a bad read cost it, and is a Set interrupted by a restart done or undone? | 2 interfaces, 8 written values, 4 Sets or restarts |
| `trap` | Does a trap follow one configuration, and an allowed version, and a test what was asked for? | 1 trap or test, destinations 1 and 2, selectors 0 to 3 in a byte of 4 values, 3 Sets or restarts, 1 version switch |
| `retry` | Are the retry settings within their limits, and the file's? | limits 1 and 2, 4 files at the start, 5 Sets or restarts |
| `sensors` | Is a served map current, valid, and the same in both daemons? | 7 sensors, LUNs of 3 numbers (6 to give), an index of 2 values, 2 changes or restarts |
| `sensors_full` | Does the map throw only beyond the maximum? No. | as `sensors` |
| `keys` | Can what was encrypted be decrypted? | 3 encryptions, 2 losses |

Why the bounds are enough for the question:

- *filter*: the code treats all bits alike except that Cmp1 = 0xFF, Cmp2 = 0x00
  and Cmp2 = 0xFF are special, and 3 bits have values that are none of these
  with bits on both sides of each mask. The theorems cover any width.
- *task*: two rows and two policies make both loops go on, skip and end; the
  bootstrap configurations and the one outside step at every point give a
  stale read of each kind. The outside steps write every value of `MCEntry`,
  `MCPolicyEntry`, `MCLanEntry` and the four timer values, so that rows that
  match, do not match and are disabled replace each other. Every read can fail
  without using up the bound. The theorems have no bounds.
- *task_queue*: a second call is enough to overtake, be lost with a restart, or
  be starved by the first.
- *postpone*: four outside steps are arm, arm again, restart, cancel in any
  order; a countdown of 2 has a middle.
- *persist*: a vector for each of: too short, fitting either list, running over
  the next list, running over the end of the table. Four steps are a write, one
  that spills, a restart and a write that repairs; or a write, two restarts,
  of which the first finds the file truncated or unreadable, and a write after.

- *lan*: two interfaces show that a Set leaves the other's entry alone; one of
  them may have an entry, only an older file, or nothing. The values are right,
  too short and refused, for arrays and the community string. Four steps are two
  Sets on different interfaces, a restart, and a Set after it. A file that
  cannot be read, opened or written costs no step, nor does an older one that
  cannot be read.
- *trap*: type and address of a destination are two Sets, and a third (or a
  restart) separates property and file; one switch turns a version off or on at
  any point of the call. A second trap would start from the same states. Both
  interfaces are stored at the start, and there are no older files: where what
  is exported comes from makes no difference to who reads the file, and `lan`
  has those cases. For
  tests, selectors 0 and 1 are the two entries, 2 is one beyond, and 3 wraps
  around to 0, as 255 does; a type of 3 (mail) is among the written values.
- *retry*: the files at the start are none, one within the limits, one above
  them and one without a count; five steps are three Sets that each fail to be
  saved or not, a restart that may not find the file, and a Set after it.
- *sensors*: LUNs of 3 numbers make 6 to give; with 5 sensors at the start, one
  more uses them up. An index of 2 values wraps around with the second tree. The
  declared numbers are two alike, and one each that is free, in LUN 2, reserved,
  and beyond LUN 3. Two changes are a sensor that comes or goes in one process's
  build and one that does in the other's lookup.
- *keys*: three calls are one that makes the files, one that finds them, and one
  that makes them again; two losses are a crash and a removal.

`MaxEdits` bounds outside steps and `MaxCalls` calls; a model whose bounds are
used up stops, and so the runs of the daemons do not check for deadlock
(`CHECK_DEADLOCK FALSE`): an idle daemon waits for messages.

**Fairness.** `PefTask` has weak fairness of the handler: it is one thread that
is never blocked for good, every call it makes ends. `PostponeTimer` and
`ConfigPersist` have the same for the event loop, and for the start of the
daemon, which systemd tries again for ever. The other modules state
safety only and assume none. Nothing is assumed of users, of the
host, of failures (they may or may not come) or of further calls.

**What disagrees.** `filter_zero_type`: `pef_config.cpp:1408` accepts SensorType
0x00 and 0xFF with the comment "wildcard: match any sensor type", but the filter
treats only 0xFF as one. Since events of type 0x00 are refused first, a row with
SensorType 0x00 matches nothing. `sensors_full`: `sdrutils.hpp:514-515` throws
"Maximum number of IPMI sensors exceeded", and line 55 says that the maximum is
255 for each of three LUNs; but the test at line 512 comes after the number has
been counted up, and so throws when the last of the 765 sensors is numbered and
none is left over.

## 5. Proofs

TLAPS proves for all values of the constants (tables of any size, any number of
calls and outside steps), from the modules' named assumptions only. Those say
that sizes are positive, that the sets users write from are made of well-formed
values, and that the special values differ from the others.

- **EventFilterProofs.** `DataMatchCorrect`: the nested tests are the definition,
  for bytes of any width, by cases on what each test decides. `DataMatchMasks`:
  bits outside the AND mask do not matter. `OpenRowMatches`: a row with every
  field open matches every event but those of type 0x00. `BlockedBitIgnored`: a
  bit of event data 1 that neither the AND mask nor the offset mask lets through
  decides about no row. `TypeCorrect`, `MatchMeetsDefinition` and
  `BlockedBitsNeverDecide` are the properties of `MCEventFilter`, which the
  module extends, for bytes of any width and any number of changes.
- **PefTaskProofs.** `TypeCorrect`, `ActsAreAuthorised`, `AlertsFollowThePolicies`,
  `CallsAreAccountedFor`, `RebootsAHostSeenOn`, `ActsAreInTableOrder`,
  `LastProcessedIsAccepted`, `UndisturbedRowsAreActedOn`,
  `HandlerImplementsTaskQueue`. `EveryActAuthorised` is not
  inductive: it says what was done, and nothing about what the handler's locals
  hold when it is about to do more. `IInv` adds that. `Placed`: where the
  handler is, its row and policy are in `matched` and `selected`. `Current`:
  what is configured now is in the history. `Backed`: what is in the locals came
  from the history and matched the event. `Allowed`: at the steps that act, the
  action is permitted by the snapshot. The history only grows (`Grows`), so an
  act once backed stays backed (`ActsStayJustified`), and a new act follows from
  `Backed` and `Allowed` (`ActAuthorised`, `NewActsJustified`).
  `CallsAccountedFor` needs `TypeOK` beside itself; for the reboot, `HostKnown`
  says that a host being asked for, or about to be rebooted, was seen on. For the
  order, `InOrder` adds to the property that every act so far is `Passed`: it
  comes before whatever the handler is about to do. For the recorded id,
  `Recorded` says that at the step that writes it the event's mail was accepted.
  `HandlerImplementsTaskQueue` takes `TaskQueue` without its fairness: each step
  of the handler maps to a step of it or to a stutter, and `CallsAccountedFor`
  tells that a call taken up was not answered before.
  Completeness, `UndisturbedRowsAreActedOn`, says of a call that ended what it
  must have done, and so needs what the handler has done by each step (`DInv`):
  `Steady`, what the history has of a thing that nobody changed since dispatch
  is that thing as it is now; `Informed`, so are the handler's locals;
  `TakenDown`, the lists read so far left no undisturbed row that matches, and
  no undisturbed policy of the group, out; `Behind`, the rows and policies
  before the current one are done (`RowDone`, `PolicyDone`). The history and
  `disturbed` only grow, so that what is done stays done (`Advances`,
  `StaysDone`), whichever step comes next; what is then left to each action is
  the one piece it adds. One lemma for each group
  of actions, one step for each action.
- **PostponeTimerProofs.** `TypeCorrect`, `FinitePostponementsAreTimed`,
  `CallsAreDelayedNotSuppressed`. The second is inductive once the types are
  known: each step that takes a finite signal from the queue starts to count,
  and each that stops counting disarms or is a reason for `unattended`. The
  third is not; `BlockedWait` says where a blocked call can be: as long as
  nobody touched the timer, it is lost, or pending behind a countdown, or the
  timer is at 0. It needs that what is queued or handled was not lost
  (`Delivered`). No proof uses the bounds, which are guards that can only
  remove behaviours.
- **RetryConfigProofs.** `SettingsWithinLimits`, `FileHoldsAllSettings`,
  `RestartsAllOrNothing`. What has to be added is that the file, unless lost, was
  stored as a whole (`FileWasStored`; a start that cannot read it changes
  neither it nor what was stored), and, of the operators, that anything a
  file holds loads within the limits (`LoadWithinLimits`) and that what is saved
  loads as it was (`SavedIsLoaded`).
- **ConfigPersistProofs.** `FileFollows`, `RestartKeepsSettings`,
  `RestartExportsLists`. Of the first, `ListsSettle` is inductive beside `Typed`;
  it is about the lists that are `wanted`, and `Typed` has that what is exported
  is that or nothing. It also gives the third: with no signal on its way to a
  list, its rows settle on what they are (`Unwritten`), which is what a start
  reads. The second needs the same of each setting whose monitor writes the member it
  is loaded from (`SettingsSettle`), and that the members of the others are
  those the file was shipped with (`OthersShipped`). The argument is about two
  things. `Queued` and `Taken` say what a row settles on when a signal is added
  behind the others and when the first one is handled: the equations of applying
  them one after another, which hold row by row and need no induction over the
  queue. `RowsOfList` is the geometry: a list's rows follow each other from the
  row that the monitor counts as its first, so that a vector of the list's
  length writes these and no others (`Fits`), and any other vector touches what
  `TouchedLists` says. That the last of several positions exists is
  `LeastNumber`, by well-founded induction.
- **LanProofs**, for `LanParams`, `SnmpTrap` and `TestDestination`.
  `FileIsComplete`, `RestartKeepsSets`: what the file has
  depends on how many destinations an interface has and on whether a write was
  cut short, so the invariant says first what every file and property is shaped
  like (`Shaped`, `InProgress`), then that what is not `behind` is the same on
  both sides, or is filled up to it (`UpToDate`), in the file, or, while that is
  truncated, in what is about to be written; and that the file may lack the
  arrays that are not exported (`HiddenIsBehind`). For any file that a read
  yields and any of the older ones, what is loaded is well-formed and agrees
  with the file in all but `NotHeld` (`Loaded`, `LoadedFrom`), so that a Set or
  a start whose read failed keeps the invariant by what it adds to `behind`. The
  file and a property may differ in the number of destinations, and so the
  second compares arrays filled up to the larger (`ReloadedArray`): restarting
  before the file was truncated undoes the Set (`RestartUndoes`).
  `TrapsInAllowedVersions`: the
  version in the handler's hand was enabled since it began (`Permitted`).
  `TrapsAreConfigured`: the history covers what the interface is configured as
  (`Held`), and a manager read from a file in step is one of the history's
  (`Found`); filling up a shorter list only extends it. `TestsWhatWasAsked`
  needs both, and what the user asked with (`Asked`, `Testing`).
- **SensorMapProofs.** `NumbersAreValid`, `LookupsAreCurrent`,
  `RowsNameTheirSensors` and `NumbersRunOutWhenFull`, for both builds, by an invariant of each process that the other's steps leave alone
  (`OthersKeep`). `TreeCurrent`: the cached tree is that of now, or a signal
  waits. `Placed`: the index is counted and taken over in one lookup, so outside
  of one the two are equal. `NextFree`: the next number is of use, and beyond
  all that are given. `Built`: the map has the sensors visited so far.
  For the third, `RowMeans` gives a row's number its meaning in any numbering of
  the sensors of now, and `Order` says that a process's map, half-built too, is
  part of every numbering of its tree (`Ordered`, `Agrees`), or, in the static
  build, gives a number to its first declarer (`FirstDeclares`). The
  arithmetic of LUNs is in `NextIsAssignable` and `UsableIsAssignable`. For the fourth, `Filled`: the map
  being built has every number below the next, and one given up on has them all.
  `NextLeavesNoneOut` says that counting up passes over no number that may be
  given, and `ThreeLuns` that those are `maxIPMISensors`.
- **KeyStoreProofs.** `WhatIsGivenIsReadable`, `DecryptionNeverGarbles`,
  `FilesAreKept`. The first two need to know what a call has in hand: `NothingAtStake`, a call that makes files
  has no ciphertext to lose; `ReadHolds` and `DecryptorHolds`, what was read is
  in the files, or was lost, in the encryptor and the decryptor. The third needs
  `OneMissing`: a call that goes on to make the files, and could open what was
  there, found one of them missing.

Only model-checked: the fairness of the refinement `ImplementsTaskQueue`, and
all liveness (`EveryCallAnswered`, `PostponementEnds`, `CallsResolved`,
`WritesReachTheFile`): the prover has no rule for fairness or ENABLED.

## 6. Not modelled

- Wording, encoding and transport of mails, traps and SEL records; the services
  behind the bus calls, which answer or fail.
- `LastBMCProcessedEventID` as users write it and as pef-configuration loads it
  from its file: `lastProcessed` is the id that the handler last recorded, and
  `LastProcessedWasAccepted` is about that one.
- The limit checks of the tables' setters, which refuse a value without a trace
  (`pef_config.cpp` 1281-1800): in `ConfigPersist` a refused Set is no step, and
  `Val` and `Vector` are values that are accepted.
- The branch for a sensor of a host's critical stop (`sdrutils.hpp:742`), and the
  lists of sensor names of `pef_config.cpp` 51-140, which cut a number to a byte.
- The composing of a trap's PDU and the SNMP library's session, which succeed or
  fail; the users and communities that setters look up change in no model.
- The lookups of `sdrutils.hpp` from line 764 on, which nothing calls.
- Loss of written data in the page cache when power fails.
- The cipher itself: `KeyStore` takes it that one key and IV undo what they did.
- The shipped `pef_configurations/pef-alert-manager.json` has no `Version`,
  `ActionSupported` or `MaxEventTblEntry` under `PEFConfInfo`, which
  `pef_config.cpp` 967-976 read with an operator that requires them; the models
  start with a file that has every key.
