--------------------------- MODULE ConfigPersistProofs ---------------------------
(***************************************************************************)
(* ConfigPersist: the file follows the table, and a restart of the daemon  *)
(* that exports it keeps the lists, and the settings with a working        *)
(* monitor; for tables and lists of any size, vectors of any length, and   *)
(* any number of signals on their way.                                     *)
(***************************************************************************)
EXTENDS ConfigPersist, TLAPS, FiniteSetTheorems, SequenceTheorems, WellFoundedInduction

--------------------------------------------------------------------------------
(***************************************************************************)
(* Rows and lists.  The rows of a list follow each other, from the row     *)
(* that the monitor counts as its first.                                   *)
(***************************************************************************)
Start(l) == (l - 1) * ListSize
Size(l) == Cardinality(RowsOf(l))

LEMMA Division ==
    ASSUME NEW a \in Nat, NEW b \in Nat \ {0}
    PROVE  /\ a \div b \in Nat
           /\ (a \div b) * b <= a /\ a < (a \div b) * b + b
  OBVIOUS

LEMMA Product ==
    ASSUME NEW b \in Nat \ {0}, NEW x \in Nat, NEW y \in Nat
    PROVE  /\ x * b \in Nat /\ (x + 1) * b = x * b + b
           /\ x <= y => x * b <= y * b
<1>1. x <= y => x * b <= y * b
  <2>1. \A n \in Nat : (x + n) * b = x * b + n * b /\ n * b >= 0
    OBVIOUS
  <2>2. x <= y => y = x + (y - x) /\ y - x \in Nat
    OBVIOUS
  <2>3. x * b \in Int /\ (y - x) * b \in Int
    OBVIOUS
  <2>4. QED
    BY <2>1, <2>2, <2>3
<1>2. QED
  BY <1>1

LEMMA Quotient ==
    ASSUME NEW a \in Nat, NEW b \in Nat \ {0}, NEW q \in Nat
    PROVE  /\ a \div b < q <=> a < q * b
           /\ a \div b >= q <=> a >= q * b
<1> DEFINE d == a \div b
<1>1. d \in Nat /\ d * b <= a /\ a < d * b + b
  BY Division
<1> HIDE DEF d
<1>2. d + 1 <= q => (d + 1) * b <= q * b
  BY <1>1, d + 1 \in Nat, Product
<1>3. q <= d => q * b <= d * b
  BY <1>1, Product
<1>4. (d + 1) * b = d * b + b
  BY <1>1, Product
<1>5. q * b \in Nat /\ d * b \in Nat
  BY <1>1, Product
<1>6. d < q <=> a < q * b
  BY <1>1, <1>2, <1>3, <1>4, <1>5
<1>7. d >= q <=> a >= q * b
  BY <1>1, <1>2, <1>3, <1>4, <1>5
<1>8. QED
  BY <1>6, <1>7 DEF d

LEMMA RowsFollow ==
    ASSUME NEW l \in Lists, NEW r \in 1..NRows
    PROVE  r \in RowsOf(l) <=> /\ r > Start(l)
                               /\ l < NLists => r <= Start(l) + ListSize
<1> DEFINE q == (r - 1) \div ListSize
<1>1. ListSize \in Nat \ {0} /\ NLists \in Nat \ {0} /\ NRows \in Nat \ {0} /\ l \in Nat /\ l >= 1
  BY PersistAssumption DEF Lists
<1>2. r - 1 \in Nat
  OBVIOUS
<1>3. q \in Nat
  BY <1>1, <1>2, Division
<1>4. q < l <=> r - 1 < l * ListSize
  BY <1>1, <1>2, Quotient
<1>5. q >= l - 1 <=> r - 1 >= (l - 1) * ListSize
  BY <1>1, <1>2, l - 1 \in Nat, Quotient
<1>6. l * ListSize = Start(l) + ListSize /\ Start(l) \in Nat
  BY <1>1 DEF Start
<1>7. r \in RowsOf(l) <=> l = IF q + 1 > NLists THEN NLists ELSE q + 1
  BY DEF RowsOf, ListOf
<1> HIDE DEF q
<1>8. l <= NLists
  BY DEF Lists
<1>9. r \in RowsOf(l) <=> q >= l - 1 /\ (l < NLists => q < l)
  BY <1>1, <1>3, <1>7, <1>8
<1>10. QED
  BY <1>1, <1>4, <1>5, <1>6, <1>9 DEF Start

LEMMA RowsOfList ==
    ASSUME NEW l \in Lists
    PROVE  /\ Size(l) \in Nat /\ Start(l) \in Nat
           /\ \A i \in 1..Size(l) : Start(l) + i \in RowsOf(l)
           /\ \A r \in RowsOf(l) : r - Start(l) \in 1..Size(l)
<1> DEFINE first == Start(l) + 1
           end == IF l < NLists /\ Start(l) + ListSize <= NRows THEN Start(l) + ListSize ELSE NRows
<1>1. ListSize \in Nat \ {0} /\ NRows \in Nat \ {0} /\ l \in Nat /\ NLists \in Nat
  BY PersistAssumption DEF Lists
<1>2. Start(l) \in Nat
  BY <1>1 DEF Start, Lists
<1>3. first \in Int /\ end \in Int
  BY <1>1, <1>2
<1>4. RowsOf(l) = first..end
  <2>1. ASSUME NEW r \in 1..NRows
        PROVE  r \in RowsOf(l) <=> r \in first..end
    BY <1>1, <1>2, RowsFollow
  <2>2. RowsOf(l) \subseteq 1..NRows /\ first..end \subseteq 1..NRows
    BY <1>1, <1>2 DEF RowsOf
  <2>3. QED
    BY <2>1, <2>2
<1> HIDE DEF first, end
<1>5. Size(l) = IF first > end THEN 0 ELSE end - first + 1
  BY <1>3, <1>4, FS_Interval DEF Size
<1>6. QED
  BY <1>2, <1>3, <1>4, <1>5 DEF first

--------------------------------------------------------------------------------
(***************************************************************************)
(* The last of a set of positions.  That there is one is an induction, in  *)
(* the form that a set of numbers has a least element.                     *)
(***************************************************************************)
LEMMA LeastNumber ==
    ASSUME NEW T \in SUBSET Nat, T # {}
    PROVE  \E x \in T : \A y \in T : x <= y
<1> DEFINE R == {xy \in Nat \X Nat : xy[1] < xy[2]}
<1>1. IsWellFoundedOn(R, Nat)
  BY NatLessThanWellFounded DEF OpToRel
<1>2. \A x, y \in Nat : <<x, y>> \in R <=> x < y
  OBVIOUS
<1> HIDE DEF R
<1>3. \E x \in T : \A y \in T : ~ (<<y, x>> \in R)
  BY <1>1, WFMin
<1>4. PICK x \in T : \A y \in T : ~ (<<y, x>> \in R)
  BY <1>3
<1>5. ASSUME NEW y \in T
      PROVE  x <= y
  <2>1. x \in Nat /\ y \in Nat
    OBVIOUS
  <2>2. <<y, x>> \notin R
    BY <1>4
  <2>3. ~(y < x)
    BY <1>2, <2>1, <2>2, Zenon
  <2>4. QED
    BY <2>1, <2>3
<1>6. QED
  BY <1>5

LEMMA LastOf ==
    ASSUME NEW n \in Nat, NEW S \in SUBSET (1..n), S # {}
    PROVE  Last(S) \in S /\ \A j \in S : j <= Last(S)
<1> DEFINE T == {n - i : i \in S}
<1>1. T \in SUBSET Nat /\ T # {}
  <2>1. \A i \in S : n - i \in Nat
    OBVIOUS
  <2>2. QED
    BY <2>1
<1>2. PICK x \in T : \A y \in T : x <= y
  BY <1>1, LeastNumber
<1>3. PICK i \in S : x = n - i
  BY <1>2
<1>4. \A j \in S : j <= i
  BY <1>2, <1>3
<1>5. \E k \in S : \A j \in S : j <= k
  BY <1>4
<1>6. QED
  BY <1>5 DEF Last

LEMMA LastIs ==
    ASSUME NEW S \in SUBSET Nat, NEW i \in S, \A j \in S : j <= i
    PROVE  Last(S) = i
<1>1. \A k \in S : (\A j \in S : j <= k) => k = i
  OBVIOUS
<1>2. QED
  BY <1>1 DEF Last

LEMMA LastShifted ==
    ASSUME NEW n \in Nat, NEW S \in SUBSET (1..n), NEW T \in SUBSET (1..n),
           T # {}, \A i \in T : i + 1 \in S, \A i \in S : i = 1 \/ i - 1 \in T
    PROVE  S # {} /\ Last(S) = Last(T) + 1
<1>1. Last(T) \in T /\ \A j \in T : j <= Last(T)
  BY LastOf
<1>2. \A j \in S : j <= Last(T) + 1
  <2> TAKE j \in S
  <2>1. j \in 1..n /\ Last(T) \in 1..n
    BY <1>1
  <2>2. CASE j = 1
    BY <2>1, <2>2
  <2>3. CASE j - 1 \in T
    BY <1>1, <2>1, <2>3
  <2>4. QED
    BY <2>2, <2>3
<1>3. S \in SUBSET Nat
  OBVIOUS
<1>4. Last(T) + 1 \in S
  BY <1>1
<1>5. Last(S) = Last(T) + 1
  BY <1>2, <1>3, <1>4, LastIs
<1>6. QED
  BY <1>4, <1>5

--------------------------------------------------------------------------------
(***************************************************************************)
(* The inductive invariant.  Typed: what the variables hold; while a       *)
(* handler writes, the file is truncated.  ListsSettle: the file settles   *)
(* on the lists that users want, exported or not.  SettingsSettle: so it   *)
(* does on the settings whose monitor writes the member they are loaded    *)
(* from.  OthersShipped: no monitor writes the members that the other      *)
(* settings are loaded from.                                               *)
(***************************************************************************)
Signals == [list : Lists, value : Seq(Val)] \cup [property : Monitored, value : Val]

Typed ==
    /\ DOMAIN wanted \subseteq {l \in Lists : RowsOf(l) # {}}
    /\ DOMAIN table = {} \/ table = wanted
    /\ DOMAIN setting \in {{}, Setting}
    /\ {file, data} \subseteq File \cup {Lost} /\ shipped \in File
    /\ pc \in {"loop", "write"} /\ (pc = "write" => file = Lost)
    /\ signals \in Seq(Signals)

ListsSettle ==
    Current # Lost =>
        \A l \in DOMAIN wanted \ outOfStep : ListOfFile(Settled, l) = wanted[l]

Written == {p \in Monitored : LoadedFrom(p) = p}

MemberWriters(p) ==
    {i \in DOMAIN signals : "property" \in DOMAIN signals[i] /\ signals[i].property = p}

SettledMember(p) ==
    IF MemberWriters(p) = {} THEN Current.member[p] ELSE signals[Last(MemberWriters(p))].value

SettingsSettle ==
    Current # Lost =>
        \A p \in (DOMAIN setting \cap Written) \ unsaved : SettledMember(p) = setting[p]

OthersShipped ==
    Current # Lost =>
        \A p \in Setting \ Written : Current.member[LoadedFrom(p)] = shipped.member[LoadedFrom(p)]

IInv == Typed /\ ListsSettle /\ SettingsSettle /\ OthersShipped

LEMMA Names ==
    /\ Written = {"PEFControl", "LanChannel"}
    /\ Written \subseteq Member /\ Written \subseteq Setting
    /\ \A p \in Setting : LoadedFrom(p) \in Member
    /\ \A p \in Setting \ Written : LoadedFrom(p) \notin Monitored
  BY DEF Written, Monitored, Setting, LoadedFrom, Member

LEMMA SignalKinds ==
    ASSUME NEW s \in Signals
    PROVE  \/ /\ "list" \in DOMAIN s /\ "property" \notin DOMAIN s
              /\ s.list \in Lists /\ s.value \in Seq(Val)
           \/ /\ "list" \notin DOMAIN s /\ "property" \in DOMAIN s
              /\ s.property \in Monitored /\ s.value \in Val
  BY DEF Signals

LEMMA Applied ==
    ASSUME NEW f \in File, NEW s \in Signals
    PROVE  /\ Apply(f, s) \in File
           /\ \A r \in 1..NRows :
                 Apply(f, s).rows[r] = IF "list" \in DOMAIN s /\ r \in WrittenRows(s)
                                         THEN ValueAt(s, r) ELSE f.rows[r]
           /\ \A m \in Member :
                 Apply(f, s).member[m] = IF "property" \in DOMAIN s /\ s.property = m
                                           THEN s.value ELSE f.member[m]
<1>1. f = [rows |-> f.rows, member |-> f.member]
      /\ f.rows \in [1..NRows -> Val]
      /\ f.member \in [Member -> Val] \cup [Member \cup Monitored -> Val]
  BY DEF File
<1>2. CASE "list" \in DOMAIN s
  <2>1. s.list \in Lists /\ s.value \in Seq(Val) /\ "property" \notin DOMAIN s
    BY <1>2, SignalKinds
  <2>2. Start(s.list) \in Nat
    BY <2>1, RowsOfList
  <2>3. ASSUME NEW r \in WrittenRows(s)
        PROVE  r - Start(s.list) \in 1..Len(s.value) /\ ValueAt(s, r) \in Val
    BY <2>1, <2>2 DEF WrittenRows, ValueAt, Start
  <2>4. WriteRows(f.rows, s) \in [1..NRows -> Val]
    BY <1>1, <2>3 DEF WriteRows
  <2>5. Apply(f, s) = [rows |-> WriteRows(f.rows, s), member |-> f.member]
    BY <1>1, <1>2 DEF Apply
  <2>6. QED
    BY <1>1, <1>2, <2>1, <2>4, <2>5 DEF File, WriteRows
<1>3. CASE "list" \notin DOMAIN s
  <2>1. s.property \in Monitored /\ s.value \in Val /\ "property" \in DOMAIN s
    BY <1>3, SignalKinds
  <2>2. Apply(f, s) = [rows |-> f.rows, member |-> WriteMember(f.member, s)]
    BY <1>1, <1>3 DEF Apply
  <2> DEFINE w == WriteMember(f.member, s)
  <2>3. \A m \in Member : w[m] = IF s.property = m THEN s.value ELSE f.member[m]
    BY <1>1 DEF WriteMember
  <2>4. w \in [Member -> Val] \cup [Member \cup Monitored -> Val]
    <3>1. CASE f.member \in [Member -> Val] /\ s.property \in Member
      BY <2>1, <3>1 DEF WriteMember
    <3>2. CASE f.member \in [Member -> Val] /\ s.property \notin Member
      <4>1. Member \cup {s.property} = Member \cup Monitored
        BY <2>1, <3>2 DEF Member, Monitored, Setting, LoadedFrom
      <4>2. QED
        BY <2>1, <3>2, <4>1 DEF WriteMember
    <3>3. CASE f.member \in [Member \cup Monitored -> Val]
      BY <2>1, <3>3 DEF WriteMember
    <3>4. QED
      BY <1>1, <3>1, <3>2, <3>3
  <2>5. QED
    BY <1>1, <1>3, <2>1, <2>2, <2>3, <2>4 DEF File
<1>4. QED
  BY <1>2, <1>3

--------------------------------------------------------------------------------
(***************************************************************************)
(* What a row settles on, when a signal is queued and when one is taken    *)
(* from the queue and handled: these are the equations of a fold of Apply. *)
(***************************************************************************)
Writes(s, r) == "list" \in DOMAIN s /\ r \in WrittenRows(s)
WritesMember(s, m) == "property" \in DOMAIN s /\ s.property = m

LEMMA SettlesOn ==
    ASSUME NEW r \in 1..NRows
    PROVE  Settled[r] = IF WritersOf(r) = {} THEN Current.rows[r]
                        ELSE ValueAt(signals[Last(WritersOf(r))], r)
  BY DEF Settled

LEMMA SettlesOnNext ==
    ASSUME NEW r \in 1..NRows
    PROVE  Settled'[r] = IF WritersOf(r)' = {} THEN Current'.rows[r]
                         ELSE ValueAt(signals'[Last(WritersOf(r)')], r)
  BY DEF Settled, WritersOf, ValueAt, Last

LEMMA LastQueued ==
    ASSUME NEW n \in Nat, NEW W \in SUBSET (1..n)
    PROVE  Last(W \cup {n + 1}) = n + 1
<1> DEFINE S == W \cup {n + 1}
<1>1. S \in SUBSET Nat
  OBVIOUS
<1>2. n + 1 \in S /\ \A j \in S : j <= n + 1
  OBVIOUS
<1> HIDE DEF S
<1>3. Last(S) = n + 1
  BY <1>1, <1>2, LastIs
<1>4. QED
  BY <1>3 DEF S

LEMMA Queued ==
    ASSUME signals \in Seq(Signals), NEW s \in Signals,
           signals' = Append(signals, s), Current' = Current
    PROVE  /\ \A r \in 1..NRows :
                 Settled'[r] = IF Writes(s, r) THEN ValueAt(s, r) ELSE Settled[r]
           /\ \A m : SettledMember(m)' = IF WritesMember(s, m) THEN s.value ELSE SettledMember(m)
<1> DEFINE n == Len(signals)
<1>1. /\ n \in Nat /\ DOMAIN signals = 1..n /\ DOMAIN signals' = 1..(n + 1)
      /\ signals'[n + 1] = s /\ \A i \in 1..n : signals'[i] = signals[i]
  OBVIOUS
<1>2. ASSUME NEW r \in 1..NRows
      PROVE  Settled'[r] = IF Writes(s, r) THEN ValueAt(s, r) ELSE Settled[r]
  <2>1. WritersOf(r) \in SUBSET (1..n)
    BY <1>1 DEF WritersOf
  <2>2. WritersOf(r)' = IF Writes(s, r) THEN WritersOf(r) \cup {n + 1} ELSE WritersOf(r)
    BY <1>1 DEF WritersOf, Writes, WrittenRows
  <2>3. CASE Writes(s, r)
    <3>1. Last(WritersOf(r)') = n + 1 /\ WritersOf(r)' # {}
      BY <1>1, <2>1, <2>2, <2>3, LastQueued
    <3>2. QED
      BY <1>1, <2>3, <3>1, SettlesOnNext
  <2>4. CASE ~Writes(s, r) /\ WritersOf(r) = {}
    BY <2>2, <2>4, SettlesOn, SettlesOnNext
  <2>5. CASE ~Writes(s, r) /\ WritersOf(r) # {}
    <3>1. Last(WritersOf(r)) \in 1..n
      BY <1>1, <2>1, <2>5, LastOf
    <3>2. QED
      BY <1>1, <2>2, <2>5, <3>1, SettlesOn, SettlesOnNext
  <2>6. QED
    BY <2>3, <2>4, <2>5
<1>3. ASSUME NEW m
      PROVE  SettledMember(m)' = IF WritesMember(s, m) THEN s.value ELSE SettledMember(m)
  <2>1. MemberWriters(m) \in SUBSET (1..n)
    BY <1>1 DEF MemberWriters
  <2>2. MemberWriters(m)' = IF WritesMember(s, m) THEN MemberWriters(m) \cup {n + 1} ELSE MemberWriters(m)
    BY <1>1 DEF MemberWriters, WritesMember
  <2>3. CASE WritesMember(s, m)
    <3>1. Last(MemberWriters(m)') = n + 1 /\ MemberWriters(m)' # {}
      BY <1>1, <2>1, <2>2, <2>3, LastQueued
    <3>2. SettledMember(m)' = signals'[n + 1].value
      BY <3>1 DEF SettledMember, Last
    <3>3. QED
      BY <1>1, <2>3, <3>2
  <2>4. CASE ~WritesMember(s, m) /\ MemberWriters(m) = {}
    BY <2>2, <2>4 DEF SettledMember
  <2>5. CASE ~WritesMember(s, m) /\ MemberWriters(m) # {}
    <3>1. Last(MemberWriters(m)) \in 1..n
      BY <1>1, <2>1, <2>5, LastOf
    <3>2. Last(MemberWriters(m)') = Last(MemberWriters(m))
      BY <2>2, <2>5
    <3>3. QED
      BY <1>1, <2>2, <2>5, <3>1, <3>2 DEF SettledMember, Last
  <2>6. QED
    BY <2>3, <2>4, <2>5
<1>4. QED
  BY <1>2, <1>3

LEMMA Taken ==
    ASSUME signals \in Seq(Signals), signals # <<>>, signals' = Tail(signals)
    PROVE  /\ \A r \in 1..NRows :
                 Current'.rows[r] = (IF Writes(Head(signals), r) THEN ValueAt(Head(signals), r)
                                     ELSE Current.rows[r])
                   => Settled'[r] = Settled[r]
           /\ \A m : Current'.member[m] = (IF WritesMember(Head(signals), m) THEN Head(signals).value
                                           ELSE Current.member[m])
                       => SettledMember(m)' = SettledMember(m)
<1> DEFINE n == Len(signals)
<1>1. /\ n \in Nat \ {0} /\ DOMAIN signals = 1..n /\ DOMAIN signals' = 1..(n - 1)
      /\ Head(signals) = signals[1] /\ \A i \in 1..(n - 1) : signals'[i] = signals[i + 1]
  OBVIOUS
<1> HIDE DEF n
<1>2. ASSUME NEW r \in 1..NRows,
             Current'.rows[r] = (IF Writes(Head(signals), r) THEN ValueAt(Head(signals), r)
                                 ELSE Current.rows[r])
      PROVE  Settled'[r] = Settled[r]
  <2> DEFINE S == WritersOf(r)
             T == WritersOf(r)'
  <2>1. S = {i \in 1..n : Writes(signals[i], r)} /\ T = {i \in 1..(n - 1) : Writes(signals[i + 1], r)}
    BY <1>1 DEF WritersOf, Writes, WrittenRows
  <2>2. S \in SUBSET (1..n) /\ T \in SUBSET (1..n) /\ T \in SUBSET (1..(n - 1))
    BY <1>1, <2>1
  <2>3. (\A i \in T : i + 1 \in S) /\ (\A i \in S : i = 1 \/ i - 1 \in T)
    BY <1>1, <2>1
  <2>4. CASE T # {}
    <3>1. S # {} /\ Last(S) = Last(T) + 1
      BY <1>1, <2>2, <2>3, <2>4, LastShifted
    <3>2. Last(T) \in T
      BY <1>1, <2>2, <2>4, LastOf
    <3>3. signals'[Last(T)] = signals[Last(S)]
      BY <1>1, <2>2, <3>1, <3>2
    <3>4. QED
      BY <2>4, <3>1, <3>3, SettlesOn, SettlesOnNext
  <2>5. CASE T = {} /\ Writes(Head(signals), r)
    <3>1. S = {1}
      BY <1>1, <2>1, <2>3, <2>5
    <3>2. Last(S) = 1
      BY <3>1, LastIs
    <3>3. Settled[r] = ValueAt(signals[1], r)
      BY <3>1, <3>2, SettlesOn
    <3>4. Settled'[r] = Current'.rows[r]
      BY <2>5, SettlesOnNext
    <3>5. QED
      BY <1>1, <1>2, <2>5, <3>3, <3>4
  <2>6. CASE T = {} /\ ~Writes(Head(signals), r)
    <3>1. S = {}
      BY <1>1, <2>1, <2>3, <2>6
    <3>2. QED
      BY <1>2, <2>6, <3>1, SettlesOn, SettlesOnNext
  <2>7. QED
    BY <2>4, <2>5, <2>6
<1>3. ASSUME NEW m,
             Current'.member[m] = (IF WritesMember(Head(signals), m) THEN Head(signals).value
                                   ELSE Current.member[m])
      PROVE  SettledMember(m)' = SettledMember(m)
  <2> DEFINE S == MemberWriters(m)
             T == MemberWriters(m)'
  <2>1. /\ S = {i \in 1..n : WritesMember(signals[i], m)}
        /\ T = {i \in 1..(n - 1) : WritesMember(signals[i + 1], m)}
    BY <1>1 DEF MemberWriters, WritesMember
  <2>2. S \in SUBSET (1..n) /\ T \in SUBSET (1..n) /\ T \in SUBSET (1..(n - 1))
    BY <1>1, <2>1
  <2>3. (\A i \in T : i + 1 \in S) /\ (\A i \in S : i = 1 \/ i - 1 \in T)
    BY <1>1, <2>1
  <2>4. SettledMember(m)' = IF T = {} THEN Current'.member[m] ELSE signals'[Last(T)].value
    BY DEF SettledMember, Last
  <2>5. SettledMember(m) = IF S = {} THEN Current.member[m] ELSE signals[Last(S)].value
    BY DEF SettledMember
  <2>6. CASE T # {}
    <3>1. S # {} /\ Last(S) = Last(T) + 1
      BY <1>1, <2>2, <2>3, <2>6, LastShifted
    <3>2. Last(T) \in T
      BY <1>1, <2>2, <2>6, LastOf
    <3>3. signals'[Last(T)] = signals[Last(S)]
      BY <1>1, <2>2, <3>1, <3>2
    <3>4. QED
      BY <2>4, <2>5, <2>6, <3>1, <3>3
  <2>7. CASE T = {} /\ WritesMember(Head(signals), m)
    <3>1. S = {1}
      BY <1>1, <2>1, <2>3, <2>7
    <3>2. Last(S) = 1
      BY <3>1, LastIs
    <3>3. QED
      BY <1>1, <1>3, <2>4, <2>5, <2>7, <3>1, <3>2
  <2>8. CASE T = {} /\ ~WritesMember(Head(signals), m)
    <3>1. S = {}
      BY <1>1, <2>1, <2>3, <2>8
    <3>2. QED
      BY <1>3, <2>4, <2>5, <2>8, <3>1
  <2>9. QED
    BY <2>6, <2>7, <2>8
<1>4. QED
  BY <1>2, <1>3

--------------------------------------------------------------------------------
(***************************************************************************)
(* A list or a setting that settles as it did, or that is exported as it   *)
(* was loaded.                                                             *)
(***************************************************************************)
LEMMA ListAs ==
    ASSUME NEW l \in Lists, NEW rows, NEW others,
           \A r \in RowsOf(l) : rows[r] = others[r]
    PROVE  ListOfFile(rows, l) = ListOfFile(others, l)
  BY RowsOfList DEF ListOfFile, Size, Start

LEMMA ListIs ==
    ASSUME NEW l \in Lists, NEW rows, NEW v \in Seq(Val), Len(v) = Size(l),
           \A r \in RowsOf(l) : rows[r] = v[r - Start(l)]
    PROVE  ListOfFile(rows, l) = v
<1>1. \A i \in 1..Size(l) : rows[Start(l) + i] = v[i]
  BY RowsOfList
<1>2. v = [i \in 1..Size(l) |-> v[i]]
  OBVIOUS
<1>3. QED
  BY <1>1, <1>2 DEF ListOfFile, Size, Start

LEMMA Fits ==
    ASSUME NEW s \in Signals, "list" \in DOMAIN s, Len(s.value) = Size(s.list),
           NEW r \in 1..NRows
    PROVE  /\ Writes(s, r) <=> r \in RowsOf(s.list)
           /\ Writes(s, r) => ValueAt(s, r) = s.value[r - Start(s.list)]
<1>1. s.list \in Lists /\ s.value \in Seq(Val)
  BY SignalKinds
<1>2. Size(s.list) \in Nat /\ Start(s.list) \in Nat
  BY <1>1, RowsOfList
<1>3. r \in RowsOf(s.list) <=> r - Start(s.list) \in 1..Size(s.list)
  <2>1. r \in RowsOf(s.list) => r - Start(s.list) \in 1..Size(s.list)
    BY <1>1, RowsOfList
  <2>2. r - Start(s.list) \in 1..Size(s.list) => Start(s.list) + (r - Start(s.list)) \in RowsOf(s.list)
    BY <1>1, RowsOfList
  <2>3. Start(s.list) + (r - Start(s.list)) = r
    BY <1>2
  <2>4. QED
    BY <2>1, <2>2, <2>3
<1>4. QED
  BY <1>2, <1>3 DEF Writes, WrittenRows, ValueAt, Start

LEMMA OneList ==
    ASSUME NEW r \in 1..NRows, NEW l \in Lists, NEW k \in Lists,
           r \in RowsOf(l), r \in RowsOf(k)
    PROVE  l = k
  BY DEF RowsOf

LEMMA WritesTouch ==
    ASSUME NEW s \in Signals, NEW l \in Lists, l \notin TouchedLists(s),
           NEW r \in RowsOf(l)
    PROVE  r \in 1..NRows /\ ~Writes(s, r)
  BY DEF TouchedLists, Writes, RowsOf

LEMMA FileIsTyped ==
    ASSUME Typed, Current # Lost
    PROVE  Current \in File
  BY DEF Typed, Current

LEMMA Unwritten ==
    ASSUME Typed
    PROVE  /\ \A l \in Lists \ UnhandledLists : \A r \in RowsOf(l) :
                 r \in 1..NRows /\ Settled[r] = Current.rows[r]
           /\ \A p \in Setting \ UnhandledSettings : SettledMember(p) = Current.member[p]
<1>1. signals \in Seq(Signals) /\ \A i \in DOMAIN signals : signals[i] \in Signals
  BY DEF Typed
<1>2. ASSUME NEW l \in Lists \ UnhandledLists, NEW r \in RowsOf(l)
      PROVE  r \in 1..NRows /\ Settled[r] = Current.rows[r]
  <2>1. r \in 1..NRows
    BY DEF RowsOf
  <2>2. \A i \in DOMAIN signals : ~Writes(signals[i], r)
    <3> TAKE i \in DOMAIN signals
    <3>1. l \notin TouchedLists(signals[i])
      BY DEF UnhandledLists
    <3>2. QED
      BY <1>1, <3>1, WritesTouch
  <2>3. WritersOf(r) = {}
    BY <2>2 DEF WritersOf, Writes
  <2>4. QED
    BY <2>1, <2>3, SettlesOn
<1>3. ASSUME NEW p \in Setting \ UnhandledSettings
      PROVE  SettledMember(p) = Current.member[p]
  <2>1. MemberWriters(p) = {}
    BY DEF MemberWriters, UnhandledSettings, TouchedSettings
  <2>2. QED
    BY <2>1 DEF SettledMember
<1>4. QED
  BY <1>2, <1>3

--------------------------------------------------------------------------------
(***************************************************************************)
(* One lemma for each action.                                              *)
(***************************************************************************)
LEMMA NothingQueued ==
    ASSUME UNCHANGED signals, Current' = Current
    PROVE  Settled' = Settled /\ \A m : SettledMember(m)' = SettledMember(m)
  BY DEF Settled, WritersOf, SettledMember, MemberWriters, Last

LEMMA SetListKeeps ==
    ASSUME IInv, UserSetsList
    PROVE  IInv'
<1>1. PICK l \in DOMAIN table, value \in Vector : SetList(l, value)
  BY DEF UserSetsList
<1> DEFINE s == [list |-> l, value |-> value]
<1>2. l \in Lists /\ value \in Seq(Val) /\ s \in Signals
  BY PersistAssumption DEF IInv, Typed, Signals
<1>3. /\ table' = [table EXCEPT ![l] = value] /\ wanted' = [wanted EXCEPT ![l] = value]
      /\ table = wanted
      /\ UNCHANGED <<setting, file, up, pc, data, unsaved, shipped>>
      /\ signals' = IF up THEN Append(signals, s) ELSE signals
      /\ outOfStep' = IF up /\ Len(value) = Size(l) THEN outOfStep \ {l}
                      ELSE IF up THEN outOfStep \cup TouchedLists(s) ELSE outOfStep \cup {l}
  BY <1>1 DEF SetList, Signal, Size, IInv, Typed
<1>4. Current' = Current /\ (Current # Lost)' = (Current # Lost)
  BY <1>3 DEF Current
<1>5. signals \in Seq(Signals)
  BY DEF IInv, Typed
<1>6. Typed'
  BY <1>2, <1>3 DEF IInv, Typed
<1> HIDE DEF s
<1>7. "list" \in DOMAIN s /\ "property" \notin DOMAIN s /\ s.list = l /\ s.value = value
  BY DEF s
<1>8. ListsSettle'
  <2>1. SUFFICES ASSUME Current # Lost, NEW k \in DOMAIN wanted, k \notin outOfStep'
                 PROVE  ListOfFile(Settled', k) = wanted'[k]
    BY <1>3, <1>4 DEF ListsSettle
  <2>2. k \in Lists
    BY DEF IInv, Typed
  <2>3. k # l /\ k \notin outOfStep => ListOfFile(Settled, k) = wanted'[k]
    BY <1>3, <2>1 DEF IInv, ListsSettle
  <2>4. CASE ~up
    BY <1>3, <1>4, <2>1, <2>3, <2>4, NothingQueued
  <2>5. CASE up /\ Len(value) = Size(l)
    <3>1. \A r \in 1..NRows : /\ Writes(s, r) <=> r \in RowsOf(l)
                              /\ Writes(s, r) => ValueAt(s, r) = value[r - Start(l)]
      BY <1>2, <1>7, <2>5, Fits
    <3>2. \A r \in 1..NRows : Settled'[r] = IF Writes(s, r) THEN ValueAt(s, r) ELSE Settled[r]
      BY <1>2, <1>3, <1>4, <1>5, <2>5, Queued
    <3>3. \A r \in RowsOf(k) : r \in 1..NRows
      BY DEF RowsOf
    <3>4. CASE k = l
      <4>1. \A r \in RowsOf(l) : Settled'[r] = value[r - Start(l)]
        BY <3>1, <3>2, <3>3, <3>4
      <4>2. ListOfFile(Settled', l) = value
        BY <1>2, <2>5, <4>1, ListIs
      <4>3. QED
        BY <1>3, <3>4, <4>2
    <3>5. CASE k # l
      <4>1. \A r \in RowsOf(k) : Settled'[r] = Settled[r]
        BY <1>2, <2>2, <3>1, <3>2, <3>3, <3>5, OneList
      <4>2. ListOfFile(Settled', k) = ListOfFile(Settled, k)
        BY <2>2, <4>1, ListAs
      <4>3. QED
        BY <1>3, <2>1, <2>3, <2>5, <3>5, <4>2
    <3>6. QED
      BY <3>4, <3>5
  <2>6. CASE up /\ Len(value) # Size(l)
    <3>1. k \notin outOfStep /\ k \notin TouchedLists(s)
      BY <1>3, <2>1, <2>6
    <3>2. k # l
      BY <1>7, <3>1 DEF TouchedLists
    <3>3. \A r \in RowsOf(k) : Settled'[r] = Settled[r]
      <4>1. \A r \in 1..NRows : Settled'[r] = IF Writes(s, r) THEN ValueAt(s, r) ELSE Settled[r]
        BY <1>2, <1>3, <1>4, <1>5, <2>6, Queued
      <4>2. QED
        BY <1>2, <2>2, <3>1, <4>1, WritesTouch
    <3>4. ListOfFile(Settled', k) = ListOfFile(Settled, k)
      BY <2>2, <3>3, ListAs
    <3>5. QED
      BY <2>3, <3>1, <3>2, <3>4
  <2>7. QED
    BY <2>4, <2>5, <2>6
<1>9. SettingsSettle'
  <2>1. \A m : SettledMember(m)' = SettledMember(m)
    <3>1. CASE up
      BY <1>2, <1>3, <1>4, <1>5, <1>7, <3>1, Queued DEF WritesMember
    <3>2. CASE ~up
      BY <1>3, <1>4, <3>2, NothingQueued
    <3>3. QED
      BY <3>1, <3>2
  <2>2. QED
    BY <1>3, <1>4, <2>1 DEF IInv, SettingsSettle
<1>10. OthersShipped'
  BY <1>3, <1>4 DEF IInv, OthersShipped
<1>11. QED
  BY <1>6, <1>8, <1>9, <1>10 DEF IInv

LEMMA SetSettingKeeps ==
    ASSUME IInv, UserSetsSetting
    PROVE  IInv'
<1>1. PICK p \in DOMAIN setting, value \in Val :
          /\ setting' = [setting EXCEPT ![p] = value]
          /\ IF p \in Monitored THEN Signal([property |-> p, value |-> value]) ELSE UNCHANGED signals
          /\ unsaved' = IF up THEN unsaved \ {p} ELSE unsaved \cup {p}
  BY DEF UserSetsSetting
<1> DEFINE s == [property |-> p, value |-> value]
<1>2. UNCHANGED <<table, file, up, pc, data, wanted, outOfStep, shipped>>
  BY DEF UserSetsSetting
<1>3. Current' = Current /\ signals \in Seq(Signals)
  BY <1>2 DEF Current, IInv, Typed
<1>4. p \in Monitored => s \in Signals
  BY DEF Signals
<1>5. "list" \notin DOMAIN s /\ "property" \in DOMAIN s /\ s.property = p /\ s.value = value
  OBVIOUS
<1>6. \/ p \in Monitored /\ up /\ s \in Signals /\ signals' = Append(signals, s)
      \/ (p \notin Monitored \/ ~up) /\ UNCHANGED signals
  BY <1>1, <1>4 DEF Signal
<1> HIDE DEF s
<1>7. Typed'
  BY <1>1, <1>2, <1>6 DEF IInv, Typed
<1>8. \A r \in 1..NRows : Settled'[r] = Settled[r]
  BY <1>3, <1>5, <1>6, Queued, NothingQueued DEF Writes
<1>9. ListsSettle'
  <2>1. \A l \in Lists : ListOfFile(Settled', l) = ListOfFile(Settled, l)
    <3> TAKE l \in Lists
    <3>1. \A r \in RowsOf(l) : r \in 1..NRows
      BY DEF RowsOf
    <3>2. QED
      BY <1>8, <3>1, ListAs
  <2>2. QED
    BY <1>2, <1>3, <2>1 DEF IInv, Typed, ListsSettle
<1>10. SettingsSettle'
  <2>1. SUFFICES ASSUME Current # Lost, NEW q \in DOMAIN setting, q \in Written, q \notin unsaved'
                 PROVE  SettledMember(q)' = setting'[q]
    BY <1>1, <1>3 DEF SettingsSettle
  <2>2. CASE q # p
    <3>1. SettledMember(q)' = SettledMember(q)
      BY <1>3, <1>5, <1>6, <2>2, Queued, NothingQueued DEF WritesMember
    <3>2. QED
      BY <1>1, <2>1, <2>2, <3>1 DEF IInv, SettingsSettle
  <2>3. CASE q = p
    <3>1. up /\ p \in Monitored
      BY <1>1, <2>1, <2>3 DEF Written
    <3>2. SettledMember(q)' = value
      BY <1>3, <1>5, <1>6, <2>3, <3>1, Queued DEF WritesMember
    <3>3. QED
      BY <1>1, <2>3, <3>2
  <2>4. QED
    BY <2>2, <2>3
<1>11. OthersShipped'
  BY <1>2, <1>3 DEF IInv, OthersShipped
<1>12. QED
  BY <1>7, <1>9, <1>10, <1>11 DEF IInv

LEMMA RestartKeeps ==
    ASSUME IInv, ConfigurationRestarts
    PROVE  IInv'
<1>1. PICK found \in {file, Lost} : RestartsWith(found)
  BY DEF ConfigurationRestarts
<1>2. /\ table' = LoadLists(found) /\ setting' = LoadSettings(found)
      /\ unsaved' = UnhandledSettings
      /\ UNCHANGED <<file, up, signals, pc, data, shipped>>
  BY <1>1 DEF RestartsWith
<1>3. \/ found = Lost /\ UNCHANGED <<wanted, outOfStep>>
      \/ found # Lost /\ found = file /\ wanted' = table' /\ outOfStep' = UnhandledLists
  BY <1>1 DEF RestartsWith
<1>4. Current' = Current /\ (file = Lost \/ Current = file)
  BY <1>2 DEF Current, IInv, Typed
<1>5. Settled' = Settled /\ \A m : SettledMember(m)' = SettledMember(m)
  BY <1>2, <1>4, NothingQueued
<1>6. Typed'
  BY <1>2, <1>3 DEF IInv, Typed, LoadLists, LoadSettings
<1>7. ListsSettle'
  <2>1. CASE found = Lost
    BY <1>3, <1>4, <1>5, <2>1 DEF IInv, ListsSettle
  <2>2. CASE found # Lost
    <3>1. SUFFICES ASSUME NEW l \in DOMAIN table', l \notin UnhandledLists
                   PROVE  ListOfFile(Settled', l) = table'[l]
      BY <1>3, <2>2 DEF ListsSettle
    <3>2. file # Lost /\ l \in Lists /\ table'[l] = ListOfFile(file.rows, l)
      BY <1>2, <1>3, <2>2 DEF LoadLists
    <3>3. \A r \in RowsOf(l) : Settled[r] = file.rows[r]
      BY <1>4, <3>1, <3>2, Unwritten DEF IInv
    <3>4. QED
      BY <1>5, <3>2, <3>3, ListAs
  <2>3. QED
    BY <2>1, <2>2
<1>8. SettingsSettle'
  <2>1. SUFFICES ASSUME Current # Lost, NEW p \in DOMAIN setting', p \in Written, p \notin UnhandledSettings
                 PROVE  SettledMember(p)' = setting'[p]
    BY <1>2, <1>4 DEF SettingsSettle
  <2>2. file # Lost /\ p \in Setting /\ setting'[p] = file.member[p]
    BY <1>2, <1>3, <2>1 DEF LoadSettings, Written
  <2>3. QED
    BY <1>4, <1>5, <2>1, <2>2, Unwritten DEF IInv
<1>9. OthersShipped'
  BY <1>2, <1>4 DEF IInv, OthersShipped
<1>10. QED
  BY <1>6, <1>7, <1>8, <1>9 DEF IInv

LEMMA StopKeeps ==
    ASSUME IInv, FilteringStops
    PROVE  IInv'
<1>1. /\ UNCHANGED <<exported, file, wanted, shipped>>
      /\ signals' = <<>> /\ pc' = "loop" /\ data' = Lost
      /\ IF pc = "write" THEN EverythingLost
         ELSE outOfStep' = outOfStep \cup UnhandledLists /\ unsaved' = unsaved \cup UnhandledSettings
  BY DEF FilteringStops
<1>2. Typed'
  BY <1>1 DEF IInv, Typed, exported
<1>3. CASE pc = "write"
  <2>1. Current' = Lost
    BY <1>1, <1>3 DEF Current, IInv, Typed
  <2>2. QED
    BY <1>2, <2>1 DEF IInv, ListsSettle, SettingsSettle, OthersShipped
<1>4. CASE pc # "write"
  <2>1. Current' = Current
    BY <1>1, <1>4 DEF Current
  <2>2. ASSUME NEW r \in 1..NRows
        PROVE  Settled'[r] = Current.rows[r]
    <3>1. WritersOf(r)' = {}
      BY <1>1 DEF WritersOf
    <3>2. QED
      BY <2>1, <3>1, SettlesOnNext
  <2>3. ASSUME NEW m
        PROVE  SettledMember(m)' = Current.member[m]
    <3>1. MemberWriters(m)' = {}
      BY <1>1 DEF MemberWriters
    <3>2. QED
      BY <2>1, <3>1 DEF SettledMember
  <2>4. ListsSettle'
    <3>1. SUFFICES ASSUME Current # Lost, NEW l \in DOMAIN wanted, l \notin outOfStep, l \notin UnhandledLists
                   PROVE  ListOfFile(Settled', l) = wanted[l]
      BY <1>1, <1>4, <2>1 DEF ListsSettle
    <3>2. l \in Lists /\ ListOfFile(Settled, l) = wanted[l]
      BY <3>1 DEF IInv, Typed, ListsSettle
    <3>3. \A r \in RowsOf(l) : Settled'[r] = Settled[r]
      BY <2>2, <3>1, <3>2, Unwritten DEF IInv
    <3>4. QED
      BY <3>2, <3>3, ListAs
  <2>5. SettingsSettle'
    <3>1. SUFFICES ASSUME Current # Lost, NEW p \in DOMAIN setting, p \in Written,
                          p \notin unsaved, p \notin UnhandledSettings
                   PROVE  SettledMember(p)' = setting[p]
      BY <1>1, <1>4, <2>1 DEF SettingsSettle, exported
    <3>2. SettledMember(p) = setting[p] /\ p \in Setting
      BY <3>1 DEF IInv, SettingsSettle, Written, Monitored
    <3>3. QED
      BY <2>3, <3>1, <3>2, Unwritten DEF IInv
  <2>6. OthersShipped'
    BY <1>1, <2>1 DEF IInv, OthersShipped
  <2>7. QED
    BY <1>2, <2>4, <2>5, <2>6 DEF IInv
<1>5. QED
  BY <1>3, <1>4

LEMMA TruncateKeeps ==
    ASSUME IInv, TruncateFile
    PROVE  IInv'
<1> DEFINE h == Head(signals)
<1>1. /\ pc = "loop" /\ signals # <<>> /\ signals' = Tail(signals)
      /\ UNCHANGED <<exported, wanted, shipped>> /\ signals \in Seq(Signals) /\ Current = file
  BY DEF TruncateFile, IInv, Typed, Current
<1>2. h \in Signals /\ signals' \in Seq(Signals)
  BY <1>1
<1> HIDE DEF h
<1>3. CASE file # Lost /\ data' = Apply(file, h) /\ file' = Lost /\ pc' = "write" /\ UNCHANGED <<outOfStep, unsaved>>
  <2>1. file \in File
    BY <1>3 DEF IInv, Typed
  <2>2. data' \in File /\ Current' = data' /\ Current # Lost
    BY <1>1, <1>2, <1>3, <2>1, Applied DEF Current
  <2>3. Typed'
    BY <1>1, <1>2, <1>3, <2>2 DEF IInv, Typed, exported
  <2>4. \A r \in 1..NRows : Settled'[r] = Settled[r]
    BY <1>1, <1>2, <1>3, <2>1, <2>2, Applied, Taken DEF Writes, h
  <2>5. \A m \in Member : SettledMember(m)' = SettledMember(m)
    BY <1>1, <1>2, <1>3, <2>1, <2>2, Applied, Taken DEF WritesMember, h
  <2>6. ListsSettle'
    <3>1. ASSUME NEW l \in Lists
          PROVE  ListOfFile(Settled', l) = ListOfFile(Settled, l)
      <4>1. \A r \in RowsOf(l) : r \in 1..NRows
        BY DEF RowsOf
      <4>2. QED
        BY <2>4, <4>1, ListAs
    <3>2. QED
      BY <1>1, <1>3, <2>2, <3>1 DEF IInv, Typed, ListsSettle, exported
  <2>7. SettingsSettle'
    BY <1>1, <1>3, <2>2, <2>5, Names DEF IInv, SettingsSettle, exported
  <2>8. OthersShipped'
    <3>1. ASSUME NEW p \in Setting \ Written
          PROVE  data'.member[LoadedFrom(p)] = file.member[LoadedFrom(p)]
      <4>1. LoadedFrom(p) \in Member /\ LoadedFrom(p) \notin Monitored
        BY Names
      <4>2. ~("property" \in DOMAIN h /\ h.property = LoadedFrom(p))
        BY <1>2, <4>1, SignalKinds
      <4>3. QED
        BY <1>2, <1>3, <2>1, <4>1, <4>2, Applied
    <3>2. QED
      BY <1>1, <2>2, <3>1 DEF IInv, OthersShipped
  <2>9. QED
    BY <2>3, <2>6, <2>7, <2>8 DEF IInv
<1>4. CASE Gone(h) /\ UNCHANGED <<file, pc, data>>
  <2>1. /\ outOfStep' = outOfStep \cup TouchedLists(h) /\ unsaved' = unsaved \cup TouchedSettings(h)
        /\ Current' = Current
    BY <1>4 DEF Gone, Current
  <2>2. Typed'
    BY <1>1, <1>2, <1>4 DEF IInv, Typed, exported
  <2>3. ListsSettle'
    <3>1. SUFFICES ASSUME Current # Lost, NEW l \in DOMAIN wanted, l \notin outOfStep, l \notin TouchedLists(h)
                   PROVE  ListOfFile(Settled', l) = wanted[l]
      BY <1>1, <2>1 DEF ListsSettle
    <3>2. l \in Lists /\ ListOfFile(Settled, l) = wanted[l]
      BY <3>1 DEF IInv, Typed, ListsSettle
    <3>3. \A r \in RowsOf(l) : r \in 1..NRows /\ ~Writes(h, r)
      BY <1>2, <3>1, <3>2, WritesTouch
    <3>4. \A r \in RowsOf(l) : Settled'[r] = Settled[r]
      BY <1>1, <2>1, <3>3, Taken DEF h
    <3>5. QED
      BY <3>2, <3>4, ListAs
  <2>4. SettingsSettle'
    <3>1. SUFFICES ASSUME Current # Lost, NEW p \in DOMAIN setting, p \in Written,
                          p \notin unsaved, p \notin TouchedSettings(h)
                   PROVE  SettledMember(p)' = setting[p]
      BY <1>1, <2>1 DEF SettingsSettle, exported
    <3>2. ~WritesMember(h, p)
      BY <3>1 DEF WritesMember, TouchedSettings
    <3>3. SettledMember(p)' = SettledMember(p)
      BY <1>1, <2>1, <3>2, Taken DEF h
    <3>4. QED
      BY <3>1, <3>3 DEF IInv, SettingsSettle
  <2>5. OthersShipped'
    BY <1>1, <2>1 DEF IInv, OthersShipped
  <2>6. QED
    BY <2>2, <2>3, <2>4, <2>5 DEF IInv
<1>5. QED
  BY <1>3, <1>4 DEF TruncateFile, h

LEMMA WriteKeeps ==
    ASSUME IInv, WriteFile
    PROVE  IInv'
<1>1. /\ pc = "write" /\ pc' = "loop" /\ data' = Lost
      /\ \/ file' = data /\ UNCHANGED <<outOfStep, unsaved>>
         \/ file' = Lost /\ EverythingLost
      /\ UNCHANGED <<exported, signals, wanted, shipped>>
  BY DEF WriteFile
<1>2. Typed'
  BY <1>1 DEF IInv, Typed, exported
<1>3. CASE file' = Lost
  <2>1. Current' = Lost
    BY <1>1, <1>3 DEF Current
  <2>2. QED
    BY <1>2, <2>1 DEF IInv, ListsSettle, SettingsSettle, OthersShipped
<1>4. CASE file' = data /\ UNCHANGED <<outOfStep, unsaved>>
  <2>1. Current' = Current
    BY <1>1, <1>4 DEF Current
  <2>2. Settled' = Settled /\ \A m : SettledMember(m)' = SettledMember(m)
    BY <1>1, <2>1, NothingQueued
  <2>3. QED
    BY <1>1, <1>2, <1>4, <2>1, <2>2 DEF IInv, ListsSettle, SettingsSettle, OthersShipped, exported
<1>5. QED
  BY <1>1, <1>3, <1>4

LEMMA QuietKeeps ==
    ASSUME IInv, FilteringStarts \/ UNCHANGED vars
    PROVE  IInv'
<1>1. UNCHANGED <<table, setting, file, signals, pc, data, wanted, outOfStep, unsaved, shipped>>
  BY DEF FilteringStarts, vars, exported, history
<1>2. Current' = Current
  BY <1>1 DEF Current
<1>3. Settled' = Settled /\ \A m : SettledMember(m)' = SettledMember(m)
  BY <1>1, <1>2, NothingQueued
<1>4. QED
  BY <1>1, <1>2, <1>3 DEF IInv, Typed, ListsSettle, SettingsSettle, OthersShipped

LEMMA InitSettles ==
    ASSUME Init
    PROVE  IInv
<1>1. /\ file \in File /\ shipped = file /\ Current = file /\ signals = <<>>
      /\ table = LoadLists(file) /\ setting = LoadSettings(file) /\ file # Lost /\ wanted = table
  BY PersistAssumption DEF Init, Current
<1>2. Typed
  BY <1>1 DEF Init, Typed, LoadLists, LoadSettings
<1>3. UnhandledLists = {} /\ UnhandledSettings = {}
  BY <1>1 DEF UnhandledLists, UnhandledSettings
<1>4. ListsSettle
  <2>1. SUFFICES ASSUME NEW l \in DOMAIN table
                 PROVE  ListOfFile(Settled, l) = table[l]
    BY <1>1 DEF ListsSettle
  <2>2. l \in Lists /\ table[l] = ListOfFile(file.rows, l)
    BY <1>1 DEF LoadLists
  <2>3. \A r \in RowsOf(l) : Settled[r] = file.rows[r]
    BY <1>1, <1>2, <1>3, <2>2, Unwritten
  <2>4. QED
    BY <2>2, <2>3, ListAs
<1>5. SettingsSettle
  <2>1. \A p \in Written : setting[p] = file.member[p]
    BY <1>1, Names DEF LoadSettings, Written
  <2>2. QED
    BY <1>1, <1>2, <1>3, <2>1, Unwritten, Names DEF SettingsSettle
<1>6. OthersShipped
  BY <1>1 DEF OthersShipped
<1>7. QED
  BY <1>2, <1>4, <1>5, <1>6 DEF IInv

LEMMA Invariance == Spec => []IInv
<1>1. Init => IInv
  BY InitSettles
<1>2. IInv /\ [Next]_vars => IInv'
  BY SetListKeeps, SetSettingKeeps, RestartKeeps, StopKeeps, TruncateKeeps, WriteKeeps, QuietKeeps
     DEF Next, updateJsonFile
<1>3. QED
  BY <1>1, <1>2, PTL DEF Spec

--------------------------------------------------------------------------------
(***************************************************************************)
(* The file follows the table: updateJsonFile, vector by vector, brings    *)
(* each list to what pef-configuration exports, unless the list is out of  *)
(* step for one of the reasons that FileFollowsTable names.                *)
(***************************************************************************)
THEOREM FileFollows == Spec => []FileFollowsTable
<1>1. IInv => FileFollowsTable
  BY DEF IInv, Typed, ListsSettle, FileFollowsTable
<1>2. QED
  BY <1>1, Invariance, PTL

(***************************************************************************)
(* A restart of pef-configuration exports again the settings whose last    *)
(* write a monitor handled, and the others as the file was shipped.        *)
(***************************************************************************)
THEOREM RestartKeepsSettings == Spec => RestartKeepsMonitoredSettings
<1> DEFINE Kept ==
        RestartsWith(file) /\ file # Lost =>
            \A p \in DOMAIN setting :
                IF p \in Monitored /\ LoadedFrom(p) = p
                  THEN p \notin unsaved \cup UnhandledSettings => setting'[p] = setting[p]
                  ELSE setting'[p] = shipped.member[LoadedFrom(p)]
<1>1. IInv /\ [Next]_vars => [Kept]_vars
  <2>1. SUFFICES ASSUME IInv, RestartsWith(file), file # Lost, NEW p \in DOMAIN setting
                 PROVE  IF p \in Written
                          THEN p \notin unsaved \cup UnhandledSettings => setting'[p] = setting[p]
                          ELSE setting'[p] = shipped.member[LoadedFrom(p)]
    BY DEF Written
  <2>2. p \in Setting /\ Current = file
    BY <2>1 DEF IInv, Typed, Current
  <2>3. setting'[p] = file.member[LoadedFrom(p)]
    BY <2>1, <2>2 DEF RestartsWith, LoadSettings
  <2>4. CASE p \in Written /\ p \notin unsaved \cup UnhandledSettings
    <3>1. SettledMember(p) = file.member[p]
      BY <2>1, <2>2, <2>4, Unwritten DEF IInv
    <3>2. SettledMember(p) = setting[p]
      BY <2>1, <2>2, <2>4 DEF IInv, SettingsSettle
    <3>3. QED
      BY <2>3, <2>4, <3>1, <3>2 DEF Written
  <2>5. CASE p \notin Written
    BY <2>1, <2>2, <2>3, <2>5 DEF IInv, OthersShipped
  <2>6. QED
    BY <2>4, <2>5
<1>2. QED
  BY <1>1, Invariance, PTL DEF Spec, RestartKeepsMonitoredSettings

(***************************************************************************)
(* A start of pef-configuration exports the lists in step as users last    *)
(* set them, however many starts before it found the file truncated, or    *)
(* could not read it, and exported nothing.                                *)
(***************************************************************************)
THEOREM RestartExportsLists == Spec => RestartKeepsLists
<1> DEFINE Kept ==
        RestartsWith(file) /\ file # Lost =>
            \A l \in DOMAIN wanted \ (outOfStep \cup UnhandledLists) : table'[l] = wanted[l]
<1>1. IInv /\ [Next]_vars => [Kept]_vars
  <2>1. SUFFICES ASSUME IInv, RestartsWith(file), file # Lost,
                        NEW l \in DOMAIN wanted, l \notin outOfStep, l \notin UnhandledLists
                 PROVE  table'[l] = wanted[l]
    OBVIOUS
  <2>2. l \in Lists /\ RowsOf(l) # {} /\ Current = file
    BY <2>1 DEF IInv, Typed, Current
  <2>3. table'[l] = ListOfFile(file.rows, l)
    BY <2>1, <2>2 DEF RestartsWith, LoadLists
  <2>4. ListOfFile(Settled, l) = wanted[l]
    BY <2>1, <2>2 DEF IInv, ListsSettle
  <2>5. \A r \in RowsOf(l) : Settled[r] = file.rows[r]
    BY <2>1, <2>2, Unwritten DEF IInv
  <2>6. ListOfFile(Settled, l) = ListOfFile(file.rows, l)
    BY <2>2, <2>5, ListAs
  <2>7. QED
    BY <2>3, <2>4, <2>6
<1>2. QED
  BY <1>1, Invariance, PTL DEF Spec, RestartKeepsLists
================================================================================
