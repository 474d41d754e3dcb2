------------------------------ MODULE TestDestination ------------------------------
(***************************************************************************)
(* TestDestination (pef_config.cpp): a user asks pef-configuration to send *)
(* a test to one alert destination, and is told whether it was sent.  The  *)
(* request runs in the event loop, so that no Set is handled meanwhile; it *)
(* reads the file, not the properties, to find out what the destination    *)
(* is, and then sends a mail, or calls sendTrap, which reads the file once *)
(* more.                                                                   *)
(*                                                                         *)
(* Here sendTrap runs in this process.  A test and an event's trap, which  *)
(* another process sends, only read what they share: the model has one of  *)
(* the two at a time, and MaxTraps bounds both.                            *)
(***************************************************************************)
EXTENDS SnmpTrap

CONSTANTS
    Selector,           \* selectors that users ask for
    ByteSize,           \* values of a selector (256)
    maxDestinationSel   \* 15

SMTP == 3               \* destinationTypeSMTP

ASSUME TestAssumption ==
    /\ ByteSize \in Nat \ {0} /\ Selector \subseteq 0..(ByteSize - 1)
    /\ maxDestinationSel \in 1..(ByteSize - 1)

VARIABLES
    testing,    \* "idle", "dispatch", "trap", "mail"
    tested,     \* interface of the channel, and number of the entry, from 1
    message,    \* what was sent
    answer,     \* what the user was told
    \* history, of the last test
    asked,      \* the selector, and what the interface was configured as
    inStep      \* the file was in step with it

tester == <<testing, tested, message, answer, asked, inStep>>
testVars == <<vars, tester>>

\* What a test that failed had found is not kept.
Succeeds == testing' = "idle" /\ answer' = TRUE /\ UNCHANGED <<tested, asked, inStep>>
Fails ==
    /\ testing' = "idle" /\ answer' = FALSE
    /\ tested' = Nothing /\ message' = Nothing /\ asked' = Nothing /\ inStep' = FALSE

\* Mutant: the selector is taken for the number of the entry.
MutantEntry(sel) == sel

\* destinationSel++
Entry(sel) == (sel + 1) % ByteSize

\* The channel stands for its interface.  One that is none, or a channel map that
\* cannot be read, is refused as a selector that is out of range.
Request ==
    /\ testing = "idle" /\ step = "idle" /\ pc = "loop" /\ traps < MaxTraps
    /\ traps' = traps + 1
    /\ \/ /\ \E i \in Iface, sel \in Selector :
                /\ Entry(sel) \in 1..(maxDestinationSel - 1)
                /\ tested' = [iface |-> i, dest |-> Entry(sel)]
                /\ asked' = [sel |-> sel, cfg |-> param[i]]
                /\ inStep' = (behind \cap ({i} \X Writable) = {})
          /\ testing' = "dispatch" /\ answer' = FALSE /\ message' = Nothing
       \/ Fails
    /\ UNCHANGED <<config, disabled, switches, step, target, disableStatus, manager, sound, held, allowed>>

\* The users that have a mail address.
SmtpMailID(users) == users \cap MailUser

DispatchTrap ==
    /\ testing = "dispatch" /\ Stored(tested.iface)
    /\ At(Array(file[tested.iface], "Type"), tested.dest) \cap Version # {}
    /\ testing' = "trap" /\ step' = "disableStatus" /\ target' = tested
    /\ held' = {asked.cfg} /\ allowed' = Version \ disabled
    /\ UNCHANGED <<config, disabled, switches, disableStatus, manager, traps, sound>>
    /\ UNCHANGED <<tested, message, answer, asked, inStep>>

DispatchMail ==
    /\ testing = "dispatch" /\ Stored(tested.iface)
    /\ SMTP \in At(Array(file[tested.iface], "Type"), tested.dest)
    /\ SmtpMailID(At(Array(file[tested.iface], "UserName"), tested.dest)) # {}
    /\ testing' = "mail"
    /\ UNCHANGED <<vars, tested, message, answer, asked, inStep>>

\* No entry, another type, no user, no mail address; or a call that failed.
DispatchFails ==
    /\ testing = "dispatch" /\ Fails
    /\ UNCHANGED vars

\* sendTrap returns whether the trap was sent.
TestTrap ==
    /\ testing = "trap"
    /\ \/ /\ getSNMPDisableStatus \/ ReadLanFile \/ SendReturns
          /\ UNCHANGED tester
       \/ /\ Send /\ message' = manager
          /\ UNCHANGED <<testing, tested, answer, asked, inStep>>

TrapReturned ==
    /\ testing = "trap" /\ step = "idle"
    /\ \/ message # Nothing /\ Succeeds /\ UNCHANGED message
       \/ message = Nothing /\ Fails
    /\ UNCHANGED vars

\* The user of the mail is the one that was read with the type.
MailReturned ==
    /\ testing = "mail"
    /\ \/ message' \in {SMTP} \X At(Array(file[tested.iface], "UserName"), tested.dest) /\ Succeeds
       \/ Fails
    /\ UNCHANGED vars

\* The request dies with the daemon.
TestInterrupted ==
    /\ testing # "idle" /\ ConfigurationRestarts /\ Return /\ Fails
    /\ UNCHANGED <<disabled, switches, traps>>

dispatchTestDestination ==
    DispatchTrap \/ DispatchMail \/ DispatchFails \/ TestTrap \/ TrapReturned \/ MailReturned

TestInit ==
    /\ Init
    /\ testing = "idle" /\ tested = Nothing /\ message = Nothing /\ answer = FALSE
    /\ asked = Nothing /\ inStep = FALSE

TestNext ==
    \/ testing = "idle" /\ Next /\ UNCHANGED tester
    \/ testing # "idle" /\ SwitchVersion /\ UNCHANGED tester
    \/ Request \/ dispatchTestDestination \/ TestInterrupted

TestSpec == TestInit /\ [][TestNext]_testVars

--------------------------------------------------------------------------------
\* What a test of the n-th entry may send: one trap, or one mail.
Messages(cfg, n) ==
    getManagers(cfg, n) \cup
    (At(Array(cfg, "Type"), n) \cap {SMTP}) \X SmtpMailID(At(Array(cfg, "UserName"), n))

(***************************************************************************)
(* A user who is told that the test succeeded has tested the destination   *)
(* asked for, counted from 0: a trap or a mail went to it as it was         *)
(* configured when the user asked, although type, address and user are      *)
(* read from the file one after another, by different functions, and the    *)
(* last two not at all from what the setters hold.                          *)
(***************************************************************************)
TestedAsAsked ==
    testing = "idle" /\ answer /\ inStep => message \in Messages(asked.cfg, asked.sel + 1)
================================================================================
