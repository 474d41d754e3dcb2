-------------------------------- MODULE LanParams --------------------------------
(***************************************************************************)
(* The LAN parameters of pef-configuration: for each Ethernet interface, a *)
(* community string and arrays that give each alert destination its type,  *)
(* address and user.  A Set is checked, changes the property, and rewrites *)
(* the one file that holds all interfaces: read, put the value in,         *)
(* truncate, write.  What is configured for an interface is a function     *)
(* from the parameters that are there to their values.                     *)
(***************************************************************************)
EXTENDS Naturals, Sequences, FiniteSets

CONSTANTS
    Iface,                      \* interfaces of channel_config.json
    Address, NoAddress,         \* well-formed addresses; the all-zero one
    User, NoUser,               \* users that exist; the empty name
    SnmpUser, MailUser,         \* those with SNMP access, with a mail address
    Community, NoCommunity,     \* community strings that SNMP knows; the empty one
    Element,                    \* what arrays consist of, well-formed or not
    Write,                      \* what users write: parameter and value
    Legacy,                     \* interface -> what its own, older file holds
    Boot,                       \* files that the system may start with
    MaxEdits                    \* bound: Sets and restarts

Fill ==
    [IPv4 |-> NoAddress, IPv6 |-> NoAddress, UserName |-> NoUser,
     Type |-> 0, AddressType |-> 1, Timeout |-> 0, Retries |-> 0]
Arrays == DOMAIN Fill
Required == Arrays \ {"AddressType"}
Scalars == {"CommunityString", "NumberofDestinations"}
Parameter == Arrays \cup Scalars
Writable == Parameter \ {"NumberofDestinations"}

Nothing == [p \in {} |-> 0]
Lost == Nothing     \* a file that is empty, missing or does not parse has no entries

Count(cfg) == IF "NumberofDestinations" \in DOMAIN cfg THEN cfg["NumberofDestinations"] ELSE 0

IsConfiguration(cfg) ==
    /\ DOMAIN cfg \subseteq Parameter /\ Count(cfg) \in Nat
    /\ \A p \in DOMAIN cfg \cap Arrays : cfg[p] \in Seq(Element)
IsFile(stored) == DOMAIN stored \subseteq Iface /\ \A i \in DOMAIN stored : IsConfiguration(stored[i])

ASSUME LanAssumption ==
    /\ NoAddress \in Address
    /\ SnmpUser \cup MailUser \subseteq User /\ NoUser \notin User
    /\ NoCommunity \notin Community
    /\ \A p \in Arrays : Fill[p] \in Element
    /\ \A w \in Write : w.key \in Writable /\ (w.key \in Arrays => w.value \in Seq(Element))
    /\ DOMAIN Legacy = Iface /\ IsFile(Legacy)
    /\ \A stored \in Boot : IsFile(stored)
    /\ MaxEdits \in Nat

VARIABLES
    param,      \* interface -> the properties exported
    file,       \* interface -> what is stored
    pc,         \* "loop"; "open", "write": in updateLanParamConfigValue
    pending,    \* the Set being handled
    data,       \* what is about to be written
    edits,
    \* history
    before,     \* param without the Set being handled
    behind      \* <<interface, parameter>> the file need not hold

config == <<param, file, pc, pending, data, edits, before, behind>>

--------------------------------------------------------------------------------
(***************************************************************************)
(* Loading.  An interface the file has an entry for is taken from there,   *)
(* any other from its older file.  Without all of the arrays none is       *)
(* exported; the others are filled up to NumberofDestinations.             *)
(***************************************************************************)
Sized(value, count, fill) ==
    value \o [k \in 1..(IF Len(value) < count THEN count - Len(value) ELSE 0) |-> fill]

CommunityString(cfg) == IF "CommunityString" \in DOMAIN cfg THEN cfg["CommunityString"] ELSE NoCommunity
Array(cfg, p) == IF p \in DOMAIN cfg THEN cfg[p] ELSE <<>>

Exported(cfg) ==
    [p \in (IF Required \subseteq DOMAIN cfg THEN Parameter ELSE Scalars) |->
        CASE p = "CommunityString" -> CommunityString(cfg)
          [] p = "NumberofDestinations" -> Count(cfg)
          [] OTHER -> Sized(Array(cfg, p), Count(cfg), Fill[p])]

\* A read finds what is stored; or nothing, if an intact file cannot be opened or read.
Read(stored) == {stored, Nothing}
OlderFiles == {[i \in Iface |-> IF i \in S THEN Legacy[i] ELSE Nothing] : S \in SUBSET Iface}

Stored(i) == i \in DOMAIN file

\* Mutant: the older file is preferred where there is one.
MutantLoad(i, stored, older) ==
    Exported(IF older[i] # Nothing THEN older[i] ELSE IF i \in DOMAIN stored THEN stored[i] ELSE Nothing)

Load(i, stored, older) == Exported(IF i \in DOMAIN stored THEN stored[i] ELSE older[i])

\* What was read does not have the parameter, or too few arrays to export it.
NotHeld(stored, exported) ==
    {ip \in Iface \X Parameter :
        ~(ip[1] \in DOMAIN stored /\ ip[2] \in DOMAIN stored[ip[1]] \cap DOMAIN exported[ip[1]])}

--------------------------------------------------------------------------------
(***************************************************************************)
(* The setters' checks.  A user name is checked against the type of the    *)
(* same destination, as that is now.  Each check that asks another daemon  *)
(* may also fail, and the Set is then refused without a trace.             *)
(***************************************************************************)
TypeOf(i, k) == IF k <= Len(param[i]["Type"]) THEN param[i]["Type"][k] ELSE 0

UserFits(name, type) ==
    name # NoUser =>
        /\ name \in User
        /\ type = 2 => name \in SnmpUser
        /\ type = 3 => name \in MailUser

Accepts(i, p, value) ==
    CASE p = "CommunityString" -> value \in Community \cup {NoCommunity}
      [] p \in {"IPv4", "IPv6"} -> \A k \in DOMAIN value : value[k] \in Address
      [] p = "UserName" -> \A k \in DOMAIN value : UserFits(value[k], TypeOf(i, k))
      [] p = "Type" -> \A k \in DOMAIN value : value[k] \in {0, 1, 2, 3, 6, 7}
      [] p = "AddressType" -> \A k \in DOMAIN value : value[k] \in {1, 2}
      [] p = "Retries" -> \A k \in DOMAIN value : value[k] <= 7
      [] OTHER -> TRUE

SetParam(i, p, value) ==
    /\ pc = "loop" /\ edits < MaxEdits
    /\ p \in DOMAIN param[i] /\ Accepts(i, p, value)
    /\ param' = [param EXCEPT ![i][p] = value]
    /\ pending' = [iface |-> i, key |-> p, value |-> value]
    /\ pc' = "open" /\ edits' = edits + 1
    /\ UNCHANGED <<file, data, before, behind>>

UserSetsParam == \E i \in Iface, w \in Write : SetParam(i, w.key, w.value)

With(cfg, p, value) == [q \in DOMAIN cfg \cup {p} |-> IF q = p THEN value ELSE cfg[q]]

\* Mutants: the interface's entry is replaced; the value is put into every entry.
MutantReplaces(stored, s) ==
    [i \in DOMAIN stored \cup {s.iface} |->
        IF i = s.iface THEN With(Nothing, s.key, s.value) ELSE stored[i]]
MutantEverywhere(stored, s) ==
    [i \in DOMAIN stored \cup {s.iface} |->
        With(IF i \in DOMAIN stored THEN stored[i] ELSE Nothing, s.key, s.value)]

\* updateLanParamConfigValue: the value is put into the interface's entry.
Put(stored, s) ==
    [i \in DOMAIN stored \cup {s.iface} |->
        IF i # s.iface THEN stored[i]
        ELSE With(IF i \in DOMAIN stored THEN stored[i] ELSE Nothing, s.key, s.value)]

Done == pc' = "loop" /\ pending' = Nothing /\ before' = param

(***************************************************************************)
(* A file that does not parse, and an intact one that cannot be opened or  *)
(* read, is taken for an empty one, and so replaced by this value alone:   *)
(* all else that it had is gone.  One that cannot be opened for writing    *)
(* keeps what it has, although the property has changed.                   *)
(***************************************************************************)
OpenFile ==
    /\ pc = "open"
    /\ \/ /\ \E stored \in Read(file) :
                /\ data' = Put(stored, pending)
                /\ behind' = behind \cup NotHeld(stored, param)
          /\ file' = Lost /\ pc' = "write"
          /\ UNCHANGED <<pending, before>>
       \/ /\ Done
          /\ behind' = behind \cup {<<pending.iface, pending.key>>}
          /\ UNCHANGED <<file, data>>
    /\ UNCHANGED <<param, edits>>

\* The stream's state is not looked at: a write that fails is not noticed.
WriteFile ==
    /\ pc = "write" /\ Done
    /\ \/ file' = data /\ behind' = behind \ {<<pending.iface, pending.key>>}
       \/ file' = Lost /\ behind' = Iface \X Parameter
    /\ data' = Nothing
    /\ UNCHANGED <<param, edits>>

RestartsWith(stored) ==
    /\ edits < MaxEdits /\ edits' = edits + 1
    /\ \E older \in OlderFiles : param' = [i \in Iface |-> Load(i, stored, older)]
    /\ before' = param' /\ behind' = NotHeld(stored, param')
    /\ pc' = "loop" /\ pending' = Nothing /\ data' = Nothing
    /\ UNCHANGED file

ConfigurationRestarts == \E stored \in Read(file) : RestartsWith(stored)

ConfigInit ==
    /\ file \in Boot
    /\ param = [i \in Iface |-> Load(i, file, Legacy)]
    /\ before = param /\ behind = NotHeld(file, param)
    /\ pc = "loop" /\ pending = Nothing /\ data = Nothing
    /\ edits = 0

ConfigNext == UserSetsParam \/ OpenFile \/ WriteFile \/ ConfigurationRestarts

ConfigSpec == ConfigInit /\ [][ConfigNext]_config

--------------------------------------------------------------------------------
\* Arrays are the same if they are when filled up to n destinations.
Same(p, n, v, w) ==
    IF p \in Arrays THEN Sized(v, n, Fill[p]) = Sized(w, n, Fill[p]) ELSE v = w

Larger(m, n) == IF m >= n THEN m ELSE n

(***************************************************************************)
(* Between two Sets the file holds every parameter that is exported, for   *)
(* every interface, but for those it is behind with: never stored (an      *)
(* older file or a default), not read by the start or by a Set (which then *)
(* wipes them), refused by the file system, or gone when the file was      *)
(* lost.  A Set that reads the file disturbs no other parameter; any Set   *)
(* brings its own up to date, so that what one bad read wiped comes back   *)
(* with the next Set of each parameter.                                    *)
(***************************************************************************)
FileHoldsParameters ==
    pc = "loop" =>
        \A i \in Iface : \A p \in DOMAIN param[i] :
            <<i, p>> \notin behind =>
                Stored(i) /\ p \in DOMAIN file[i] /\ Same(p, Count(param[i]), file[i][p], param[i][p])

(***************************************************************************)
(* A restart in the middle of a Set that reads the file leaves the Set     *)
(* done or undone, unless it comes between truncating and writing, which   *)
(* loses the file: of what an interface then exports, all that the file is *)
(* not behind with is as it was after the Set, or all as it was before.    *)
(* This includes an entry that a failed read has wiped and Sets have       *)
(* brought back in part, and one that an earlier start could not read.     *)
(***************************************************************************)
SetDoneOrUndone ==
    [][RestartsWith(file) /\ file # Lost =>
        \A i \in Iface :
            LET n == Larger(Count(param[i]), Count(param'[i]))
                Kept == {p \in DOMAIN param'[i] : <<i, p>> \notin behind}
            IN  \/ \A p \in Kept : Same(p, n, param'[i][p], param[i][p])
                \/ \A p \in Kept : Same(p, n, param'[i][p], before[i][p])]_config
================================================================================
