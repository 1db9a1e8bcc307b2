---------------------------- MODULE TableSyncProofs ----------------------------
(***************************************************************************)
(* Proofs about TableSync: the merge of CMP and SYNC is right whenever     *)
(* both scans are in the order of the primary key and are not cut short,   *)
(* SYNC and LOAD are all or nothing, and a SYNC leaves only what the       *)
(* database does not keep of a record.                                     *)
(***************************************************************************)
EXTENDS TableSync, Integers, WellFoundedInduction, TLAPS

\* A non-empty set of naturals has a least element.
LEMMA LeastExists ==
    ASSUME NEW S, S \subseteq Nat, S # {}
    PROVE  \E m \in S : \A j \in S : m <= j
<1>1. PICK m \in S : \A j \in S : ~ (<<j, m>> \in OpToRel(<, Nat))
  BY NatLessThanWellFounded, WFMin, Zenon
<1>2. \A j \in S : <<j, m>> \in OpToRel(<, Nat) <=> j < m
  BY DEF OpToRel
<1>3. \A j \in S : ~ (j < m)
  BY <1>1, <1>2, Zenon
<1> QED  BY <1>3

Merging == {"CMP", "SYNC", "CMPISAM"}

\* The keys still to be dealt with, of each file.
BdPending == bdLeft \cup (IF bd = None THEN {} ELSE {bd[1]})
IsPending == isLeft \cup (IF is = None THEN {} ELSE {is[1]})

\* No error was taken for the end of a file.
IsOk == is = None => isLeft = {}
BdOk == bd = None => bdLeft = {}

\* What AllOrNothing wants of the table; the keys reccmp finds different.
Target == [k \in Keys |-> Right(k)]
Different == {k \in Keys : Differ(before[k], isam[k])}

Contents == [Keys -> Seq(Nat)]

\* Both scans are in the order of the primary key.
InOrder == \A j, k \in Keys : j < k => order.bd[j] < order.bd[k] /\ order.isam[j] < order.isam[k]

TypeInv ==
    /\ table \in Contents /\ saved \in Contents /\ isam \in Contents
    /\ snap \in Contents /\ before \in Contents
    /\ order \in Orders /\ tp \in {"s", "n"} /\ aborted \in BOOLEAN
    /\ remembered # None => remembered[1] \in Keys
    /\ bd # None => bd[1] \in Keys
    /\ bdLeft \subseteq Rows(snap) /\ isLeft \subseteq Rows(isam)
    /\ is # None => is[1] \in Rows(isam) \ isLeft /\ is[2] = isam[is[1]]
    /\ log \subseteq {"+", "-", "<>"} \X Keys
    /\ command \in Merging \cup {"idle", "exited", "LOAD"}

\* What the commands leave alone while they run.
CommandInv ==
    /\ command \in {"SYNC", "LOAD"} => saved = base /\ command = last
    /\ command = "idle" /\ last \in {"SYNC", "LOAD"} => ~aborted
    /\ command \in Merging => command = last
    /\ command = "LOAD" => bd = None /\ bdLeft = {}
    /\ last \in Merging => snap = before
    /\ last \in {"SYNC", "LOAD"} => store = "B"

\* No row has a key that is all NUL.
LowInv == store = "B" => NoLow(table) /\ NoLow(saved)

\* The cursor is a scan of the table the command found.
CursorInv ==
    last \in Merging /\ ~astray /\ bd # None =>
        bd[1] \in Rows(snap) \ bdLeft /\ bd[2] = snap[bd[1]]

\* In a merge the record read is before those that are not, a key both files
\* have is dealt with in both or in neither, and the log says what was.
MergeInv ==
    last \in Merging /\ Straight /\ IsOk /\ BdOk =>
        /\ bd # None => \A j \in bdLeft : bd[1] < j
        /\ is # None => \A j \in isLeft : is[1] < j
        /\ \A k \in Rows(before) \cap Rows(isam) : k \in BdPending <=> k \in IsPending
        /\ \A k \in Keys :
            /\ <<"+", k>> \in log <=> k \in (Rows(before) \ Rows(isam)) \ BdPending
            /\ <<"-", k>> \in log <=> k \in (Rows(isam) \ Rows(before)) \ IsPending
            /\ <<"<>", k>> \in log
               <=> k \in (Rows(isam) \cap Rows(before) \cap Different) \ IsPending

\* SYNC: rows dealt with are as they should be, the others as they were.  A
\* cursor that was cut short belongs to a transaction that failed.
SyncInv ==
    command = "SYNC" =>
        /\ ~BdOk => aborted
        /\ Straight /\ IsOk /\ ~aborted =>
               \A k \in Keys : table[k] = IF k \in BdPending \cup IsPending THEN before[k] ELSE Target[k]

\* LOAD: the records read are there, and nothing else.
LoadInv ==
    command = "LOAD" /\ ~aborted =>
        \A k \in Keys : table[k] = IF k \in IsPending THEN None ELSE Target[k]

Inv == TypeInv /\ CommandInv /\ LowInv /\ CursorInv /\ MergeInv /\ SyncInv /\ LoadInv /\ AllOrNothing

--------------------------------------------------------------------------------
(* The bytes of a column                                                   *)

\* There is a first NUL, or none.
LEMMA LengthOf ==
    ASSUME NEW v \in Seq(Nat)
    PROVE  /\ Length(v) \in 0 .. Len(v)
           /\ \A i \in 1 .. Length(v) : v[i] # NUL
           /\ Length(v) < Len(v) => v[Length(v) + 1] = NUL
<1> DEFINE S == {i \in 1 .. Len(v) : v[i] = NUL}
<1>1. Len(v) \in Nat
  OBVIOUS
<1>2. \E n \in 0 .. Len(v) : (\A i \in 1 .. n : v[i] # NUL) /\ (n < Len(v) => v[n + 1] = NUL)
  <2>1. CASE S = {}
    <3>1. \A i \in 1 .. Len(v) : v[i] # NUL
      BY <2>1
    <3>2. Len(v) \in 0 .. Len(v) /\ ~ (Len(v) < Len(v))
      BY <1>1
    <3> QED  BY <3>1, <3>2
  <2>2. CASE S # {}
    <3>0. S \subseteq Nat
      BY <1>1
    <3>1. PICK m \in S : \A j \in S : m <= j
      BY <2>2, <3>0, LeastExists
    <3>2. m \in 1 .. Len(v) /\ m - 1 \in 0 .. Len(v) /\ (m - 1) + 1 = m /\ v[m] = NUL
      BY <1>1
    <3>3. ASSUME NEW i \in 1 .. (m - 1) PROVE v[i] # NUL
      <4>1. i \in 1 .. Len(v) /\ ~ (m <= i)
        BY <1>1, <3>2
      <4> QED  BY <3>1, <4>1
    <3>4. v[(m - 1) + 1] = NUL
      BY <3>2
    <3> QED  BY <3>2, <3>3, <3>4
  <2> QED  BY <2>1, <2>2
<1> QED  BY <1>2 DEF Length

\* A minus sign has a digit after it.
LEMMA SentType ==
    ASSUME NEW v \in Seq(Nat)
    PROVE  Sent(v) \in Seq(Nat) /\ Len(Sent(v)) = Len(v)
<1>1. CASE ~Negative(v)
  BY <1>1 DEF Sent
<1>2. CASE Negative(v) /\ Len(v) = 1
  BY <1>2 DEF Sent, ZERO
<1>3. CASE Negative(v) /\ Len(v) # 1
  <2>1. Len(v) \in Nat /\ Len(v) # 0 /\ DOMAIN v = 1 .. Len(v) /\ v[Len(v)] \in Nat /\ v[Len(v)] >= Sign
    BY <1>3 DEF Negative, None
  <2>2. v[Len(v)] - Sign \in Nat /\ Minus \in Nat
    BY <2>1 DEF Sign, Minus
  <2>3. Sent(v) = [i \in 1 .. Len(v) |->
                      IF i = Len(v) THEN v[i] - Sign ELSE IF i = 1 THEN Minus ELSE v[i]]
    BY <1>3, <2>1 DEF Sent
  <2>4. Sent(v) \in [1 .. Len(v) -> Nat]
    <3>1. \A i \in 1 .. Len(v) :
              (IF i = Len(v) THEN v[i] - Sign ELSE IF i = 1 THEN Minus ELSE v[i]) \in Nat
      <4>1. \A i \in 1 .. Len(v) : v[i] \in Nat
        OBVIOUS
      <4> QED  BY <2>2, <4>1, Zenon
    <3> QED  BY <2>3, <3>1
  <2> QED  BY <2>1, <2>4
<1> QED  BY <1>1, <1>2, <1>3

\* A digit of the number is a digit.
LEMMA DigitType ==
    ASSUME NEW v \in Seq(Nat), NEW i \in DOMAIN v
    PROVE  Digit(v, i) \in Digits
BY DEF Digit, Digits, ZERO

\* What is stored is as long as what was written.
LEMMA StoredType ==
    ASSUME NEW v \in Seq(Nat)
    PROVE  Stored(v) \in Seq(Nat) /\ (v # None => Stored(v) # None)
<1> DEFINE minus == Negative(v) /\ \E i \in DOMAIN v : Digit(v, i) # ZERO
<1>1. Len(v) \in Nat /\ DOMAIN v = 1 .. Len(v) /\ \A i \in 1 .. Len(v) : v[i] \in Nat
  OBVIOUS
<1>2. \A i \in 1 .. Len(v) : Digit(v, i) \in Nat /\ Digit(v, i) + Sign \in Nat
  <2>1. \A d \in Digits : d \in Nat /\ d + Sign \in Nat
    BY DEF Digits, Sign
  <2> QED  BY <1>1, <2>1, DigitType
<1>3. SP \in Nat
  BY DEF SP
<1>4. Stored(v) = [i \in 1 .. Len(v) |->
            IF tp = "s" THEN (IF i <= Length(v) THEN v[i] ELSE SP)
            ELSE IF minus /\ i = Len(v) THEN Digit(v, i) + Sign ELSE Digit(v, i)]
  BY <1>1 DEF Stored
<1> HIDE DEF minus
<1>5. Stored(v) \in [1 .. Len(v) -> Nat]
  BY <1>1, <1>2, <1>3, <1>4
<1>6. Stored(v) \in Seq(Nat) /\ Len(Stored(v)) = Len(v)
  BY <1>1, <1>5
<1>7. v # None => Len(v) # 0
  BY DEF None
<1>8. Stored(v) = None => Len(Stored(v)) = 0
  BY DEF None
<1> QED  BY <1>6, <1>7, <1>8

\* A string: no byte but spaces after a NUL.
LEMMA StoredString ==
    ASSUME NEW v \in Seq(Nat), tp = "s", ~Broken(v)
    PROVE  Stored(v) = Compared(v)
<1> DEFINE n == Length(v)
<1>1. /\ n \in 0 .. Len(v) /\ Len(v) \in Nat /\ DOMAIN v = 1 .. Len(v)
      /\ \A i \in 1 .. n : v[i] # NUL
      /\ n < Len(v) => v[n + 1] = NUL
  BY LengthOf
<1>2. Stored(v) = [i \in DOMAIN v |-> IF i <= n THEN v[i] ELSE SP]
  BY DEF Stored
<1>3. Compared(v) = [i \in DOMAIN v |-> IF v[i] = NUL THEN SP ELSE v[i]]
  BY DEF Compared
<1> HIDE DEF n
<1>4. ASSUME NEW i \in DOMAIN v, i <= n PROVE v[i] # NUL
  BY <1>1, <1>4
<1>5. ASSUME NEW i \in DOMAIN v, ~ (i <= n) PROVE v[i] \in {NUL, SP}
  <2>1. n < Len(v) /\ n + 1 \in DOMAIN v /\ v[n + 1] = NUL
    BY <1>1, <1>5
  <2>2. CASE i = n + 1
    BY <2>1, <2>2
  <2>3. CASE i # n + 1
    <3>1. n + 1 < i
      BY <1>1, <1>5, <2>3
    <3> QED  BY <2>1, <3>1 DEF Broken
  <2> QED  BY <2>2, <2>3
<1>6. \A i \in DOMAIN v : (IF i <= n THEN v[i] ELSE SP) = (IF v[i] = NUL THEN SP ELSE v[i])
  BY <1>4, <1>5
<1> QED  BY <1>2, <1>3, <1>6

\* A number without a minus sign: digits and spaces, or nothing but zeros.
LEMMA StoredPositive ==
    ASSUME NEW v \in Seq(Nat), tp = "n", ~Negative(v), ~Broken(v)
    PROVE  Stored(v) = Compared(v)
<1> DEFINE n == Length(v)
           d == Len(v) - n
<1>1. /\ n \in 0 .. Len(v) /\ Len(v) \in Nat /\ DOMAIN v = 1 .. Len(v)
      /\ \A i \in 1 .. n : v[i] # NUL
      /\ n < Len(v) => v[n + 1] = NUL
  BY LengthOf
<1>2. Sent(v) = v
  BY DEF Sent
<1>3. Stored(v) = [i \in DOMAIN v |-> IF i <= d \/ v[i - d] \notin Digits THEN ZERO ELSE v[i - d]]
  BY <1>2 DEF Stored, Digit
<1>4. Compared(v) = [i \in DOMAIN v |-> IF v[i] \in {NUL, SP} THEN ZERO ELSE v[i]]
  BY DEF Compared
<1>5. \A i \in DOMAIN v : v[i] \in Digits \cup {NUL, SP}
  BY DEF Broken
<1>6. NUL \notin Digits /\ SP \notin Digits /\ ZERO \in Digits
  BY DEF NUL, SP, ZERO, Digits
<1> HIDE DEF n
<1>7. CASE n = Len(v)
  <2>1. \A i \in DOMAIN v : v[i] # NUL /\ ~ (i <= d) /\ i - d = i
    BY <1>1, <1>7
  <2>2. \A i \in DOMAIN v : (IF i <= d \/ v[i - d] \notin Digits THEN ZERO ELSE v[i - d])
                            = IF v[i] \in {NUL, SP} THEN ZERO ELSE v[i]
    BY <1>5, <1>6, <2>1
  <2> QED  BY <1>3, <1>4, <2>2
<1>8. CASE n # Len(v)
  <2>1. n + 1 \in DOMAIN v /\ v[n + 1] = NUL
    <3>1. n \in Nat /\ n < Len(v) /\ n + 1 \in 1 .. Len(v)
      <4>1. n \in 0 .. Len(v) /\ Len(v) \in Nat /\ n # Len(v)
        BY <1>1, <1>8
      <4> QED  BY <4>1
    <3> QED  BY <1>1, <3>1
  <2>2. \A i \in DOMAIN v : v[i] \in {NUL, SP, ZERO}
    BY <2>1 DEF Broken
  <2>3. \A i \in DOMAIN v : ~ (i <= d) => i - d \in 1 .. n /\ i - d \in DOMAIN v
    BY <1>1
  <2>4. \A i \in DOMAIN v : ~ (i <= d) => v[i - d] \in {SP, ZERO}
    BY <1>1, <2>2, <2>3
  <2>5. \A i \in DOMAIN v : (IF i <= d \/ v[i - d] \notin Digits THEN ZERO ELSE v[i - d]) = ZERO
    BY <2>4, <1>6
  <2> QED  BY <1>3, <1>4, <2>2, <2>5
<1> QED  BY <1>7, <1>8

\* A negative number: the minus sign stands where there was no digit but a zero.
LEMMA StoredNegative ==
    ASSUME NEW v \in Seq(Nat), Negative(v), ~Broken(v)
    PROVE  Stored(v) = Compared(v)
<1> DEFINE n == Len(v)
           s == Sent(v)
           minus == \E i \in DOMAIN v : Digit(v, i) # ZERO
<1>1. tp = "n" /\ n \in Nat /\ n # 0 /\ DOMAIN v = 1 .. n /\ v[n] \in Nat /\ v[n] >= 64
  BY DEF Negative, None, Sign
<1>0. n = Len(v) /\ s = Sent(v)
  OBVIOUS
<1> HIDE DEF n, s
<1>2. v[1] \in {NUL, SP, ZERO} /\ n # 1
  <2>1. v[1] \in {NUL, SP, ZERO}
    BY DEF Broken
  <2>2. v[1] < 64
    BY <2>1 DEF NUL, SP, ZERO
  <2> QED  BY <1>1, <2>1, <2>2
<1>3. v[n] - Sign \in Digits
  <2>1. n \in DOMAIN v /\ v[n] \notin Digits \cup {NUL, SP}
    BY <1>1 DEF Digits, NUL, SP
  <2> QED  BY <1>0, <1>1, <2>1 DEF Broken
<1>4. \A i \in 2 .. (n - 1) : v[i] \in Digits \cup {SP}
  <2> SUFFICES ASSUME NEW i \in 2 .. (n - 1) PROVE v[i] \in Digits \cup {SP}
    OBVIOUS
  <2>1. i \in DOMAIN v /\ i # n /\ i # 1 /\ n \in DOMAIN v /\ v[n] \notin {NUL, SP, ZERO}
    <3>1. i \in 1 .. n /\ i # n /\ i # 1 /\ n \in 1 .. n
      BY <1>1
    <3>2. v[n] \notin {NUL, SP, ZERO}
      BY <1>1 DEF NUL, SP, ZERO
    <3> QED  BY <1>1, <3>1, <3>2
  <2>2. v[i] \in Digits \cup {NUL, SP}
    BY <1>0, <1>1, <2>1 DEF Broken
  <2>3. v[i] # NUL
    BY <1>0, <1>1, <2>1 DEF Broken
  <2> QED  BY <2>2, <2>3
<1>5. s = [i \in 1 .. n |-> IF i = n THEN v[n] - Sign ELSE IF i = 1 THEN Minus ELSE v[i]]
  BY <1>0, <1>1, <1>2 DEF Sent
<1>13. \A i \in 1 .. n : i # 1 /\ i # n => i \in 2 .. (n - 1)
  BY <1>1
<1>6. \A i \in 1 .. n : s[i] # NUL
  <2>1. NUL \notin Digits /\ NUL # Minus /\ NUL # SP
    BY DEF NUL, Minus, Digits, SP
  <2>2. \A i \in 2 .. (n - 1) : v[i] # NUL
    BY <1>4, <2>1
  <2> QED  BY <1>3, <1>5, <1>13, <2>1, <2>2
<1>7. Length(s) = n
  <2>1. s \in Seq(Nat) /\ Len(s) = n
    BY <1>0, SentType
  <2>2. Length(s) \in 0 .. n /\ (Length(s) < n => s[Length(s) + 1] = NUL)
    BY <2>1, LengthOf
  <2>3. Length(s) < n => Length(s) + 1 \in 1 .. n
    BY <1>1, <2>2
  <2> QED  BY <1>1, <1>6, <2>2, <2>3
<1>8. \A i \in 1 .. n : Digit(v, i) = IF s[i] \notin Digits THEN ZERO ELSE s[i]
  <2>1. \A i \in 1 .. n : ~ (i <= n - n) /\ i - (n - n) = i
    BY <1>1
  <2> QED  BY <1>0, <1>7, <2>1 DEF Digit
<1>9. minus
  <2>1. CASE v[n] # ZERO + Sign
    <3>1. n \in DOMAIN v /\ Digit(v, n) = v[n] - Sign
      <4>1. n \in 1 .. n
        BY <1>1
      <4> QED  BY <1>1, <1>3, <1>5, <1>8, <4>1
    <3>2. v[n] - Sign # ZERO
      BY <1>1, <2>1 DEF ZERO, Sign
    <3> QED  BY <3>1, <3>2
  <2>2. CASE v[n] = ZERO + Sign
    <3>1. PICK i \in 2 .. (n - 1) : v[i] \notin {SP, ZERO}
      BY <1>0, <2>2 DEF Broken
    <3>2. i \in DOMAIN v /\ i # 1 /\ i # n /\ s[i] = v[i] /\ v[i] \in Digits
      <4>1. i \in 1 .. n /\ i # 1 /\ i # n
        BY <1>1
      <4>2. s[i] = v[i]
        BY <1>5, <4>1
      <4>3. v[i] \in Digits
        BY <1>4, <3>1
      <4> QED  BY <1>1, <4>1, <4>2, <4>3
    <3>3. Digit(v, i) = v[i]
      BY <1>1, <1>8, <3>2
    <3> QED  BY <3>1, <3>2, <3>3
  <2> QED  BY <2>1, <2>2
<1>10. Stored(v) = [i \in 1 .. n |-> IF i = n THEN Digit(v, i) + Sign ELSE Digit(v, i)]
  <2>1. \E i \in DOMAIN v : Digit(v, i) # ZERO
    BY <1>9
  <2> QED  BY <1>0, <1>1, <2>1 DEF Stored
<1>11. Compared(v) = [i \in 1 .. n |-> IF v[i] \in {NUL, SP} THEN ZERO ELSE v[i]]
  BY <1>1 DEF Compared
<1> HIDE DEF minus
<1>12. ASSUME NEW i \in 1 .. n
       PROVE  (IF i = n THEN Digit(v, i) + Sign ELSE Digit(v, i)) = IF v[i] \in {NUL, SP} THEN ZERO ELSE v[i]
  <2>1. CASE i = n
    <3>1. Digit(v, i) = v[n] - Sign
      BY <1>1, <1>3, <1>5, <1>8, <2>1
    <3> QED  BY <1>1, <2>1, <3>1 DEF NUL, SP, Sign
  <2>2. CASE i = 1
    <3>1. Minus \notin Digits /\ i # n
      BY <1>2, <2>2 DEF Minus, Digits
    <3>2. Digit(v, i) = ZERO
      BY <1>5, <1>8, <2>2, <3>1
    <3> QED  BY <1>2, <2>2, <3>1, <3>2
  <2>3. CASE i # n /\ i # 1
    <3>1. i \in 2 .. (n - 1) /\ s[i] = v[i]
      BY <1>5, <1>13, <2>3
    <3>2. v[i] \in Digits \cup {SP} /\ NUL \notin Digits /\ SP \notin Digits
      BY <1>4, <3>1 DEF Digits, SP, NUL
    <3>3. v[i] # NUL
      BY <3>2 DEF NUL, SP
    <3> QED  BY <1>8, <2>3, <3>1, <3>2, <3>3
  <2> QED  BY <2>1, <2>2, <2>3
<1> QED  BY <1>10, <1>11, <1>12

\* reccmp and op_write agree on a record whose bytes nothing moves or hides.
LEMMA StoredCompared ==
    ASSUME NEW v \in Seq(Nat), tp \in {"s", "n"}, ~Broken(v)
    PROVE  Stored(v) = Compared(v)
BY StoredString, StoredPositive, StoredNegative

--------------------------------------------------------------------------------
(* The scans                                                               *)

\* There is a first key in any order.
LEMMA FirstOfIn ==
    ASSUME NEW S \in SUBSET Keys, S # {}, NEW rank \in [Keys -> Nat]
    PROVE  FirstOf(S, rank) \in S /\ \A j \in S : rank[FirstOf(S, rank)] <= rank[j]
<1> DEFINE T == {rank[j] : j \in S}
<1>1. T \subseteq Nat /\ T # {}
  OBVIOUS
<1>2. PICK m \in T : \A u \in T : m <= u
  BY <1>1, LeastExists
<1>3. PICK k \in S : rank[k] = m
  BY <1>2
<1>4. \A j \in S : rank[k] <= rank[j]
  BY <1>2, <1>3
<1> QED  BY <1>4 DEF FirstOf

\* When the order is that of the keys, the first is the least.
LEMMA FirstOfLeast ==
    ASSUME NEW S \in SUBSET Keys, S # {}, NEW rank \in [Keys -> Nat],
           \A j, k \in Keys : j < k => rank[j] < rank[k]
    PROVE  \A j \in S \ {FirstOf(S, rank)} : FirstOf(S, rank) < j
<1> DEFINE k == FirstOf(S, rank)
<1>1. k \in S /\ \A j \in S : rank[k] <= rank[j]
  BY FirstOfIn
<1> HIDE DEF k
<1> SUFFICES ASSUME NEW j \in S, j # k PROVE k < j
  BY DEF k
<1>2. j \in Keys /\ k \in Keys /\ j \in Nat /\ k \in Nat /\ rank[j] \in Nat /\ rank[k] \in Nat
  BY <1>1, KeysAssumption
<1>3. ~ (j < k)
  BY <1>1, <1>2
<1> QED  BY <1>2, <1>3

\* The orders of the scans.
LEMMA Ranks ==
    ASSUME order \in Orders
    PROVE  order.bd \in [Keys -> Nat] /\ order.isam \in [Keys -> Nat] /\ order.ref \in [Keys -> Nat]
BY OrdersAssumption

\* READ NEXT of the first file: what is pending is what was left.
LEMMA NextBdResult ==
    ASSUME order \in Orders, NEW rows \in Contents, NEW left \in SUBSET Rows(rows),
           NEW failed \in BOOLEAN, NextBd(rows, left, failed)
    PROVE  /\ BdPending' = left /\ bdLeft' \subseteq left
           /\ bd' # None => bd'[1] \in left \ bdLeft' /\ bd'[2] = rows[bd'[1]]
           /\ bd' = None => bdLeft' = left /\ (failed \/ left = {} \/ store = "I")
           /\ InOrder /\ bd' # None => \A j \in bdLeft' : bd'[1] < j
<1>1. left \subseteq Keys /\ order.bd \in [Keys -> Nat]
  BY Ranks DEF Rows
<1>2. CASE ~failed /\ left # {} /\ bd' # None
  <2> DEFINE k == FirstOf(left, order.bd)
  <2>1. bd' = <<k, rows[k]>> /\ bdLeft' = left \ {k} /\ k \in left
    BY <1>1, <1>2, FirstOfIn DEF NextBd
  <2>2. InOrder => \A j \in left \ {k} : k < j
    BY <1>1, <1>2, FirstOfLeast DEF InOrder
  <2> HIDE DEF k
  <2>3. bd'[1] = k /\ bd'[2] = rows[k]
    BY <2>1
  <2> QED  BY <1>2, <2>1, <2>2, <2>3 DEF BdPending
<1>3. CASE bd' = None
  <2>1. bdLeft' = left /\ (failed \/ left = {} \/ store = "I")
    BY <1>3 DEF NextBd, None
  <2> QED  BY <1>3, <2>1 DEF BdPending
<1>4. bd' # None => ~failed /\ left # {}
  BY DEF NextBd
<1> QED  BY <1>2, <1>3, <1>4

\* READ NEXT of the ISAM file.
LEMMA NextIsamResult ==
    ASSUME order \in Orders, NEW left \in SUBSET Rows(isam), NextIsam(left), UNCHANGED isam
    PROVE  /\ IsPending' = left /\ isLeft' \subseteq left
           /\ is' # None => is'[1] \in left \ isLeft' /\ is'[2] = isam[is'[1]]
           /\ is' = None => isLeft' = left
           /\ InOrder /\ is' # None => \A j \in isLeft' : is'[1] < j
<1>1. left \subseteq Keys /\ order.isam \in [Keys -> Nat]
  BY Ranks DEF Rows
<1>2. CASE left # {} /\ is' # None
  <2> DEFINE k == FirstOf(left, order.isam)
  <2>1. is' = <<k, isam[k]>> /\ isLeft' = left \ {k} /\ k \in left
    BY <1>1, <1>2, FirstOfIn DEF NextIsam
  <2>2. InOrder => \A j \in left \ {k} : k < j
    BY <1>1, <1>2, FirstOfLeast DEF InOrder
  <2> HIDE DEF k
  <2>3. is'[1] = k /\ is'[2] = isam[k]
    BY <2>1
  <2> QED  BY <1>2, <2>1, <2>2, <2>3 DEF IsPending
<1>3. CASE is' = None
  <2>1. isLeft' = left
    BY <1>3 DEF NextIsam, None
  <2> QED  BY <1>3, <2>1 DEF IsPending
<1>4. is' # None => left # {}
  BY DEF NextIsam
<1> QED  BY <1>2, <1>3, <1>4

--------------------------------------------------------------------------------
(* The updates                                                             *)

\* op_write: unless the statement fails, a record that was not there is.
LEMMA WriteResult ==
    ASSUME TypeInv, NEW r, NEW k \in Keys, NEW v \in Seq(Nat), r[1] = k, r[2] = v, op_write(r)
    PROVE  /\ table' \in Contents /\ aborted' \in BOOLEAN /\ (aborted => aborted')
           /\ ~aborted' /\ table[k] = None => table' = [table EXCEPT ![k] = Stored(v)]
           /\ NoLow(table) /\ k # LowKey => NoLow(table)'
<1>1. Stored(v) \in Seq(Nat)
  BY StoredType
<1>2. table' = table \/ table' = [table EXCEPT ![k] = Stored(v)]
  BY DEF op_write, Does, Fails
<1>3. NoLow(table) /\ k # LowKey => NoLow(table)'
  BY <1>2 DEF NoLow, TypeInv, Contents
<1> QED  BY <1>1, <1>3 DEF op_write, Does, Fails, TypeInv, Contents

\* op_rewrite: a record that was there is replaced.
LEMMA RewriteResult ==
    ASSUME TypeInv, NEW r, NEW k \in Keys, NEW v \in Seq(Nat), r[1] = k, r[2] = v, op_rewrite(r)
    PROVE  /\ table' \in Contents /\ aborted' \in BOOLEAN /\ (aborted => aborted')
           /\ ~aborted' /\ table[k] # None => table' = [table EXCEPT ![k] = Stored(v)]
           /\ NoLow(table) /\ k # LowKey => NoLow(table)'
<1>1. Stored(v) \in Seq(Nat)
  BY StoredType
<1>2. table' = table \/ table' = [table EXCEPT ![k] = Stored(v)]
  BY DEF op_rewrite, Does, Fails
<1>3. NoLow(table) /\ k # LowKey => NoLow(table)'
  BY <1>2 DEF NoLow, TypeInv, Contents
<1> QED  BY <1>1, <1>3 DEF op_rewrite, Does, Fails, TypeInv, Contents

\* op_delete: when the key of reference tells records apart, that one is deleted.
LEMMA DeleteResult ==
    ASSUME TypeInv, NEW r, NEW k \in Keys, r[1] = k, op_delete(r)
    PROVE  /\ table' \in Contents /\ aborted' \in BOOLEAN /\ (aborted => aborted')
           /\ ~aborted' /\ Straight /\ table[k] # None /\ k # LowKey
              => table' = [table EXCEPT ![k] = None]
           /\ NoLow(table) => NoLow(table)'
<1> DEFINE found == {j \in Rows(table) : ~aborted /\ order.ref[j] = order.ref[k]}
<1>1. \/ \E j \in found : Does([table EXCEPT ![j] = None])
      \/ found # {} /\ Fails
      \/ found = {} /\ UNCHANGED <<table, aborted>>
  BY DEF op_delete
<1>2. None \in Seq(Nat) /\ Rows(table) \subseteq Keys /\ (found # {} => ~aborted)
  BY DEF None, Rows
<1>3. table' \in Contents /\ aborted' \in BOOLEAN /\ (aborted => aborted')
  BY <1>1, <1>2 DEF Does, Fails, TypeInv, Contents
<1>4. ASSUME ~aborted', Straight, table[k] # None, k # LowKey
      PROVE  table' = [table EXCEPT ![k] = None]
  <2>1. \A j \in found : j = k
    BY <1>2, <1>4 DEF Straight
  <2>2. k \in found
    BY <1>3, <1>4 DEF Rows
  <2> QED  BY <1>1, <1>4, <2>1, <2>2 DEF Does, Fails
<1>5. NoLow(table) => NoLow(table)'
  <2>1. table' = table \/ \E j \in Keys : table' = [table EXCEPT ![j] = None]
    BY <1>1, <1>2 DEF Does, Fails
  <2> QED  BY <2>1 DEF NoLow, TypeInv, Contents
<1> QED  BY <1>3, <1>4, <1>5

--------------------------------------------------------------------------------
(* The invariant                                                           *)

\* What the table is to be depends on the file and on what the command found.
LEMMA TargetKept ==
    ASSUME UNCHANGED <<isam, tp, store, last, before>>
    PROVE  Target' = Target /\ Different' = Different
BY DEF Target, Right, Rows, Different, Differ, Stored, Digit, Sent, Negative, Compared, Length

\* The orders are those of the command.
LEMMA StraightKept ==
    ASSUME UNCHANGED <<order, astray>>
    PROVE  (Straight' <=> Straight) /\ (InOrder' <=> InOrder)
BY DEF Straight, Weak, InOrder

\* The merge is right in order of the primary key only.
LEMMA StraightOrder == Straight => InOrder /\ ~astray /\ ~Weak
BY DEF Straight, InOrder

\* A sequence of some elements is a sequence of more.
LEMMA SeqGrows ==
    ASSUME NEW S, NEW T, S \subseteq T
    PROVE  Seq(S) \subseteq Seq(T)
<1> SUFFICES ASSUME NEW v \in Seq(S) PROVE v \in Seq(T)
  OBVIOUS
<1>1. Len(v) \in Nat /\ v = [i \in 1 .. Len(v) |-> v[i]] /\ \A i \in 1 .. Len(v) : v[i] \in S
  OBVIOUS
<1>2. \A i \in 1 .. Len(v) : v[i] \in T
  BY <1>1
<1> QED  BY <1>1, <1>2

\* Before the first command.
LEMMA SyncInit == Init => Inv
<1> SUFFICES ASSUME Init PROVE Inv
  OBVIOUS
<1>1. table \in Contents /\ isam \in Contents /\ saved \in Contents
  <2>1. Tables[tp] \cup Files[tp] \cup Earlier[tp] \subseteq [Keys -> Seq(Bytes(tp))]
    BY ContentsAssumption DEF Init
  <2>2. Bytes(tp) \subseteq Nat
    BY DEF Bytes
  <2>3. [Keys -> Seq(Bytes(tp))] \subseteq Contents
    BY <2>2, SeqGrows DEF Contents
  <2> QED  BY <2>1, <2>3 DEF Init
<1>2. remembered # None => remembered[1] \in Keys
  BY DEF Init, Rows
<1>3. TypeInv
  BY <1>1, <1>2, TypesAssumption DEF Init, TypeInv
<1>4. LowInv
  BY DEF Init, LowInv
<1> QED  BY <1>3, <1>4 DEF Init, Inv, CommandInv, CursorInv, MergeInv, SyncInv, LoadInv, AllOrNothing, Merging

\* What a turn of the loop leaves alone.
LEMMA TurnFacts ==
    ASSUME Inv, NEW side, Turn(side)
    PROVE  /\ UNCHANGED <<saved, isam, tp, store, order, remembered, command, snap, last, before, base, astray>>
           /\ command \in Merging /\ last = command /\ snap = before
           /\ (Straight' <=> Straight) /\ Target' = Target /\ Different' = Different
           /\ AllOrNothing' /\ LoadInv'
<1>1. UNCHANGED <<saved, isam, tp, store, order, remembered, command, snap, last, before, base, astray>>
  BY DEF Turn, fixed, history
<1>2. command \in Merging
  BY DEF Turn, Comparing, Merging
<1>3. last = command /\ snap = before
  BY <1>2 DEF Inv, CommandInv
<1>4. AllOrNothing' /\ LoadInv'
  BY <1>1, <1>2 DEF Merging, AllOrNothing, Rest, LoadInv
<1> QED  BY <1>1, <1>2, <1>3, <1>4, StraightKept, TargetKept

\* A turn leaves the facts about the commands alone.
LEMMA TurnCommands ==
    ASSUME Inv, UNCHANGED <<saved, command, last, store, snap, before, base>>, command \in Merging,
           command # "SYNC" => UNCHANGED <<table, aborted>>
    PROVE  CommandInv'
BY DEF Inv, CommandInv, Merging

\* A turn with equal keys.
LEMMA EqualStep ==
    ASSUME Inv, Equal
    PROVE  Inv'
<1> DEFINE k == is[1]
<1>1. bd # None /\ is # None /\ bd[1] = k /\ Turn("=")
  BY DEF Equal, Turn, Side
<1>2. /\ UNCHANGED <<saved, isam, tp, store, order, remembered, command, snap, last, before, base, astray>>
      /\ command \in Merging /\ last = command /\ snap = before
      /\ (Straight' <=> Straight) /\ Target' = Target /\ Different' = Different
      /\ AllOrNothing' /\ LoadInv'
  BY <1>1, TurnFacts
<1>3. TypeInv /\ k \in Rows(isam) \ isLeft /\ is[2] = isam[k]
  BY <1>1 DEF Inv, TypeInv
<1>4. k \in Keys /\ isam[k] \in Seq(Nat) /\ isam[k] # None
  BY <1>3 DEF Rows, TypeInv, Contents
<1> HIDE DEF k
<1>5. /\ table' \in Contents /\ aborted' \in BOOLEAN /\ (aborted => aborted')
      /\ command # "SYNC" => UNCHANGED <<table, aborted>>
      /\ ~Differ(bd[2], is[2]) => UNCHANGED table
      /\ command = "SYNC" /\ Differ(bd[2], is[2]) /\ ~aborted' /\ table[k] # None
         => table' = [table EXCEPT ![k] = Stored(isam[k])]
      /\ NoLow(table) /\ k # LowKey => NoLow(table)'
  <2>1. CASE Differ(bd[2], is[2]) /\ command = "SYNC"
    <3>1. op_rewrite(is)
      BY <2>1 DEF Equal, Update
    <3> QED  BY <1>3, <1>4, <2>1, <3>1, RewriteResult DEF k
  <2>2. CASE ~ (Differ(bd[2], is[2]) /\ command = "SYNC")
    <3>1. UNCHANGED <<table, aborted>>
      BY <2>2 DEF Equal, Update
    <3> QED  BY <1>3, <2>2, <3>1 DEF TypeInv, NoLow
  <2> QED  BY <2>1, <2>2
<1>6. /\ BdPending' = bdLeft /\ bdLeft' \subseteq bdLeft
      /\ bd' # None => bd'[1] \in bdLeft \ bdLeft' /\ bd'[2] = snap[bd'[1]]
      /\ bd' = None => bdLeft' = bdLeft /\ (aborted' \/ bdLeft = {} \/ store = "I")
      /\ InOrder /\ bd' # None => \A j \in bdLeft' : bd'[1] < j
  <2>1. NextBd(snap, bdLeft, aborted') /\ bdLeft \in SUBSET Rows(snap) /\ order \in Orders /\ snap \in Contents
    BY <1>3 DEF Equal, TypeInv
  <2> QED  BY <1>5, <2>1, NextBdResult
<1>7. /\ IsPending' = isLeft /\ isLeft' \subseteq isLeft
      /\ is' # None => is'[1] \in isLeft \ isLeft' /\ is'[2] = isam[is'[1]]
      /\ is' = None => isLeft' = isLeft
      /\ InOrder /\ is' # None => \A j \in isLeft' : is'[1] < j
  <2>1. NextIsam(isLeft) /\ isLeft \in SUBSET Rows(isam) /\ order \in Orders /\ isam' = isam
    BY <1>2, <1>3 DEF Equal, TypeInv
  <2> QED  BY <2>1, NextIsamResult
<1>8. log' = IF Differ(bd[2], is[2]) THEN log \cup {<<"<>", k>>} ELSE log
  BY <1>1 DEF Equal
<1>9. BdPending = bdLeft \cup {k} /\ IsPending = isLeft \cup {k}
  BY <1>1 DEF BdPending, IsPending, k
<1>10. TypeInv'
  <2>1. Rows(isam)' = Rows(isam) /\ Rows(snap)' = Rows(snap) /\ Rows(isam) \subseteq Keys /\ Rows(snap) \subseteq Keys
    BY <1>2 DEF Rows
  <2>2. log' \subseteq {"+", "-", "<>"} \X Keys
    BY <1>3, <1>4, <1>8 DEF TypeInv
  <2> QED  BY <1>2, <1>3, <1>5, <1>6, <1>7, <2>1, <2>2 DEF TypeInv, Contents
<1>11. CommandInv'
  BY <1>2, <1>5, TurnCommands
<1>12. CursorInv'
  <2>1. Rows(snap)' = Rows(snap) /\ bdLeft \subseteq Rows(snap)
    BY <1>2, <1>3 DEF Rows, TypeInv
  <2> QED  BY <1>2, <1>6, <2>1 DEF CursorInv
<1>13. ASSUME Straight
       PROVE  /\ k \in Rows(before) /\ k \notin bdLeft /\ k \notin isLeft
              /\ Differ(bd[2], is[2]) <=> k \in Different
              /\ InOrder
  <2>1. k \in Rows(snap) \ bdLeft /\ bd[2] = snap[k]
    BY <1>1, <1>2, <1>13, StraightOrder DEF Inv, CursorInv
  <2> QED  BY <1>2, <1>3, <1>4, <1>13, <2>1, StraightOrder DEF Different
<1>14. MergeInv'
  <2> SUFFICES ASSUME Straight, IsOk', BdOk'
               PROVE  /\ bd' # None => \A j \in bdLeft' : bd'[1] < j
                      /\ is' # None => \A j \in isLeft' : is'[1] < j
                      /\ \A j \in Rows(before) \cap Rows(isam) : j \in bdLeft <=> j \in isLeft
                      /\ \A j \in Keys :
                          /\ <<"+", j>> \in log' <=> j \in (Rows(before) \ Rows(isam)) \ bdLeft
                          /\ <<"-", j>> \in log' <=> j \in (Rows(isam) \ Rows(before)) \ isLeft
                          /\ <<"<>", j>> \in log'
                             <=> j \in (Rows(isam) \cap Rows(before) \cap Different) \ isLeft
    <3>1. Rows(isam)' = Rows(isam) /\ Rows(before)' = Rows(before)
      BY <1>2 DEF Rows
    <3> QED  BY <1>2, <1>6, <1>7, <3>1 DEF MergeInv
  <2>1. /\ \A j \in Rows(before) \cap Rows(isam) : j \in BdPending <=> j \in IsPending
        /\ \A j \in Keys :
            /\ <<"+", j>> \in log <=> j \in (Rows(before) \ Rows(isam)) \ BdPending
            /\ <<"-", j>> \in log <=> j \in (Rows(isam) \ Rows(before)) \ IsPending
            /\ <<"<>", j>> \in log <=> j \in (Rows(isam) \cap Rows(before) \cap Different) \ IsPending
    BY <1>1, <1>2 DEF Inv, MergeInv, IsOk, BdOk
  <2>2. \A j \in Keys : /\ <<"+", j>> \in log' <=> <<"+", j>> \in log
                        /\ <<"-", j>> \in log' <=> <<"-", j>> \in log
                        /\ <<"<>", j>> \in log' <=> <<"<>", j>> \in log \/ (j = k /\ k \in Different)
    BY <1>8, <1>13
  <2> QED  BY <1>3, <1>6, <1>7, <1>9, <1>13, <2>1, <2>2
<1>15. SyncInv'
  <2> SUFFICES ASSUME command = "SYNC"
               PROVE  /\ ~BdOk' => aborted'
                      /\ Straight /\ ~aborted' =>
                            \A j \in Keys : table'[j] = IF j \in bdLeft \cup isLeft THEN before[j] ELSE Target[j]
    BY <1>2, <1>6, <1>7 DEF SyncInv
  <2>1. ~BdOk' => aborted'
    <3>1. store = "B"
      BY <1>2 DEF Inv, CommandInv
    <3> QED  BY <1>6, <3>1 DEF BdOk
  <2>2. ASSUME Straight, ~aborted'
        PROVE  \A j \in Keys : table'[j] = IF j \in bdLeft \cup isLeft THEN before[j] ELSE Target[j]
    <3>1. \A j \in Keys : table[j] = IF j \in BdPending \cup IsPending THEN before[j] ELSE Target[j]
      BY <1>1, <1>5, <2>2 DEF Inv, SyncInv, IsOk
    <3>2. table[k] = before[k] /\ before[k] # None
      BY <1>4, <1>9, <1>13, <2>2, <3>1 DEF Rows
    <3>3. Target[k] = IF k \in Different THEN Stored(isam[k]) ELSE before[k]
      BY <1>2, <1>3, <1>4, <3>2 DEF Target, Right, Different
    <3>4. \A j \in Keys : table'[j] = IF j = k THEN Target[k] ELSE table[j]
      BY <1>3, <1>4, <1>5, <1>13, <2>2, <3>2, <3>3 DEF TypeInv, Contents
    <3> QED  BY <1>9, <1>13, <2>2, <3>1, <3>4
  <2> QED  BY <2>1, <2>2
<1>16. LowInv'
  BY <1>2, <1>3, <1>5 DEF Inv, LowInv, NoLow, Rows
<1> QED  BY <1>2, <1>10, <1>11, <1>12, <1>14, <1>15, <1>16 DEF Inv

\* A turn for a record that only the ISAM file has.
LEMMA OnlyIsamStep ==
    ASSUME Inv, OnlyIsam
    PROVE  Inv'
<1> DEFINE k == is[1]
<1>1. is # None /\ (bd = None \/ (bd[1] > k /\ bd # None)) /\ Turn("-") /\ UNCHANGED <<bd, bdLeft>>
  BY DEF OnlyIsam, Turn, Side
<1>2. /\ UNCHANGED <<saved, isam, tp, store, order, remembered, command, snap, last, before, base, astray>>
      /\ command \in Merging /\ last = command /\ snap = before
      /\ (Straight' <=> Straight) /\ Target' = Target /\ Different' = Different
      /\ AllOrNothing' /\ LoadInv'
  BY <1>1, TurnFacts
<1>3. TypeInv /\ k \in Rows(isam) \ isLeft /\ is[2] = isam[k]
  BY <1>1 DEF Inv, TypeInv
<1>4. k \in Keys /\ isam[k] \in Seq(Nat) /\ isam[k] # None
  BY <1>3 DEF Rows, TypeInv, Contents
<1> HIDE DEF k
<1>5. /\ table' \in Contents /\ aborted' \in BOOLEAN /\ (aborted => aborted')
      /\ command # "SYNC" => UNCHANGED <<table, aborted>>
      /\ command = "SYNC" /\ ~aborted' /\ table[k] = None => table' = [table EXCEPT ![k] = Stored(isam[k])]
      /\ NoLow(table) /\ k # LowKey => NoLow(table)'
  <2>1. CASE command = "SYNC"
    <3>1. op_write(is)
      BY <2>1 DEF OnlyIsam, Update
    <3> QED  BY <1>3, <1>4, <2>1, <3>1, WriteResult DEF k
  <2>2. CASE command # "SYNC"
    <3>1. UNCHANGED <<table, aborted>>
      BY <2>2 DEF OnlyIsam, Update
    <3> QED  BY <1>3, <2>2, <3>1 DEF TypeInv, NoLow
  <2> QED  BY <2>1, <2>2
<1>6. BdPending' = BdPending /\ (BdOk' <=> BdOk) /\ IsOk
  BY <1>1 DEF BdPending, BdOk, IsOk
<1>7. /\ IsPending' = isLeft /\ isLeft' \subseteq isLeft
      /\ is' # None => is'[1] \in isLeft \ isLeft' /\ is'[2] = isam[is'[1]]
      /\ is' = None => isLeft' = isLeft
      /\ InOrder /\ is' # None => \A j \in isLeft' : is'[1] < j
  <2>1. NextIsam(isLeft) /\ isLeft \in SUBSET Rows(isam) /\ order \in Orders /\ isam' = isam
    BY <1>2, <1>3 DEF OnlyIsam, TypeInv
  <2> QED  BY <2>1, NextIsamResult
<1>8. log' = log \cup {<<"-", k>>} /\ IsPending = isLeft \cup {k}
  BY <1>1 DEF OnlyIsam, IsPending, k
<1>9. TypeInv'
  <2>1. Rows(isam)' = Rows(isam) /\ Rows(snap)' = Rows(snap)
    BY <1>2 DEF Rows
  <2>2. log' \subseteq {"+", "-", "<>"} \X Keys
    BY <1>3, <1>4, <1>8 DEF TypeInv
  <2> QED  BY <1>1, <1>2, <1>3, <1>5, <1>7, <2>1, <2>2 DEF TypeInv, Contents
<1>10. CommandInv'
  BY <1>2, <1>5, TurnCommands
<1>11. CursorInv'
  <2>1. Rows(snap)' = Rows(snap)
    BY <1>2 DEF Rows
  <2> QED  BY <1>1, <1>2, <2>1 DEF Inv, CursorInv
<1>12. ASSUME Straight, BdOk
       PROVE  /\ k \notin BdPending /\ k \notin Rows(before)
              /\ bd # None => \A j \in bdLeft : bd[1] < j
              /\ \A j \in Rows(before) \cap Rows(isam) : j \in BdPending <=> j \in IsPending
              /\ \A j \in Keys :
                  /\ <<"+", j>> \in log <=> j \in (Rows(before) \ Rows(isam)) \ BdPending
                  /\ <<"-", j>> \in log <=> j \in (Rows(isam) \ Rows(before)) \ IsPending
                  /\ <<"<>", j>> \in log
                     <=> j \in (Rows(isam) \cap Rows(before) \cap Different) \ IsPending
  <2>1. /\ bd # None => \A j \in bdLeft : bd[1] < j
        /\ \A j \in Rows(before) \cap Rows(isam) : j \in BdPending <=> j \in IsPending
        /\ \A j \in Keys :
            /\ <<"+", j>> \in log <=> j \in (Rows(before) \ Rows(isam)) \ BdPending
            /\ <<"-", j>> \in log <=> j \in (Rows(isam) \ Rows(before)) \ IsPending
            /\ <<"<>", j>> \in log <=> j \in (Rows(isam) \cap Rows(before) \cap Different) \ IsPending
    BY <1>2, <1>6, <1>12 DEF Inv, MergeInv
  <2>2. k \notin BdPending
    <3>1. CASE bd = None
      BY <1>12, <3>1 DEF BdOk, BdPending
    <3>2. CASE bd # None
      <4>1. bd[1] \in Nat /\ k \in Nat /\ bd[1] > k /\ bdLeft \subseteq Nat
        BY <1>1, <1>3, <1>4, <3>2, KeysAssumption DEF TypeInv, Rows
      <4>2. k # bd[1] /\ k \notin bdLeft
        BY <2>1, <3>2, <4>1
      <4> QED  BY <3>2, <4>2 DEF BdPending
    <3> QED  BY <3>1, <3>2
  <2>3. k \notin Rows(before)
    BY <1>3, <1>8, <2>1, <2>2
  <2> QED  BY <2>1, <2>2, <2>3
<1>13. MergeInv'
  <2> SUFFICES ASSUME Straight, IsOk', BdOk
               PROVE  /\ bd # None => \A j \in bdLeft : bd[1] < j
                      /\ is' # None => \A j \in isLeft' : is'[1] < j
                      /\ \A j \in Rows(before) \cap Rows(isam) : j \in BdPending <=> j \in isLeft
                      /\ \A j \in Keys :
                          /\ <<"+", j>> \in log' <=> j \in (Rows(before) \ Rows(isam)) \ BdPending
                          /\ <<"-", j>> \in log' <=> j \in (Rows(isam) \ Rows(before)) \ isLeft
                          /\ <<"<>", j>> \in log'
                             <=> j \in (Rows(isam) \cap Rows(before) \cap Different) \ isLeft
    <3>1. Rows(isam)' = Rows(isam) /\ Rows(before)' = Rows(before)
      BY <1>2 DEF Rows
    <3> QED  BY <1>1, <1>2, <1>6, <1>7, <3>1 DEF MergeInv
  <2>2. \A j \in Keys : /\ <<"+", j>> \in log' <=> <<"+", j>> \in log
                        /\ <<"-", j>> \in log' <=> <<"-", j>> \in log \/ j = k
                        /\ <<"<>", j>> \in log' <=> <<"<>", j>> \in log
    BY <1>8
  <2> QED  BY <1>3, <1>7, <1>8, <1>12, <2>2, StraightOrder
<1>14. SyncInv'
  <2> SUFFICES ASSUME command = "SYNC"
               PROVE  /\ ~BdOk => aborted'
                      /\ Straight /\ ~aborted' =>
                            \A j \in Keys : table'[j] = IF j \in BdPending \cup isLeft THEN before[j] ELSE Target[j]
    BY <1>2, <1>6, <1>7 DEF SyncInv
  <2>1. ~BdOk => aborted /\ aborted'
    BY <1>5 DEF Inv, SyncInv
  <2>2. ASSUME Straight, ~aborted'
        PROVE  \A j \in Keys : table'[j] = IF j \in BdPending \cup isLeft THEN before[j] ELSE Target[j]
    <3>1. \A j \in Keys : table[j] = IF j \in BdPending \cup IsPending THEN before[j] ELSE Target[j]
      BY <1>5, <1>6, <2>2 DEF Inv, SyncInv
    <3>2. k \notin BdPending /\ before[k] = None /\ table[k] = None
      BY <1>3, <1>4, <1>8, <1>12, <2>1, <2>2, <3>1 DEF Rows
    <3>3. Target[k] = Stored(isam[k])
      BY <1>3, <1>4, <3>2 DEF Target, Right
    <3>4. \A j \in Keys : table'[j] = IF j = k THEN Target[k] ELSE table[j]
      BY <1>3, <1>4, <1>5, <2>2, <3>2, <3>3 DEF TypeInv, Contents
    <3> QED  BY <1>3, <1>8, <3>1, <3>2, <3>4
  <2> QED  BY <2>1, <2>2
<1>15. LowInv'
  BY <1>2, <1>3, <1>5 DEF Inv, LowInv, NoLow, Rows
<1> QED  BY <1>2, <1>9, <1>10, <1>11, <1>13, <1>14, <1>15 DEF Inv

\* A turn for a row that only the table has.
LEMMA OnlyBdStep ==
    ASSUME Inv, OnlyBd
    PROVE  /\ Inv'
           /\ Straight /\ IsOk => isam[bd[1]] = None
<1> DEFINE k == bd[1]
<1>1. bd # None /\ (is = None \/ (is[1] > k /\ is # None)) /\ Turn("+") /\ UNCHANGED <<is, isLeft>>
  <2>1. bd # None /\ (is = None \/ (is # None /\ bd[1] # is[1] /\ ~ (bd[1] > is[1])))
    BY DEF OnlyBd, Turn, Side
  <2>2. is # None => bd[1] \in Nat /\ is[1] \in Nat
    BY <2>1, KeysAssumption DEF Inv, TypeInv, Rows
  <2> QED  BY <2>1, <2>2 DEF OnlyBd
<1>2. /\ UNCHANGED <<saved, isam, tp, store, order, remembered, command, snap, last, before, base, astray>>
      /\ command \in Merging /\ last = command /\ snap = before
      /\ (Straight' <=> Straight) /\ Target' = Target /\ Different' = Different
      /\ AllOrNothing' /\ LoadInv'
  BY <1>1, TurnFacts
<1>3. TypeInv /\ k \in Keys
  BY <1>1 DEF Inv, TypeInv
<1> HIDE DEF k
<1>5. /\ table' \in Contents /\ aborted' \in BOOLEAN /\ (aborted => aborted')
      /\ command # "SYNC" => UNCHANGED <<table, aborted>>
      /\ command = "SYNC" /\ ~aborted' /\ Straight /\ table[k] # None /\ k # LowKey
         => table' = [table EXCEPT ![k] = None]
      /\ NoLow(table) => NoLow(table)'
  <2>1. CASE command = "SYNC"
    <3>1. op_delete(bd)
      BY <2>1 DEF OnlyBd, Update
    <3> QED  BY <1>3, <2>1, <3>1, DeleteResult DEF k
  <2>2. CASE command # "SYNC"
    <3>1. UNCHANGED <<table, aborted>>
      BY <2>2 DEF OnlyBd, Update
    <3> QED  BY <1>3, <2>2, <3>1 DEF TypeInv, NoLow
  <2> QED  BY <2>1, <2>2
<1>6. /\ BdPending' = bdLeft /\ bdLeft' \subseteq bdLeft
      /\ bd' # None => bd'[1] \in bdLeft \ bdLeft' /\ bd'[2] = snap[bd'[1]]
      /\ bd' = None => bdLeft' = bdLeft /\ (aborted' \/ bdLeft = {} \/ store = "I")
      /\ InOrder /\ bd' # None => \A j \in bdLeft' : bd'[1] < j
  <2>1. NextBd(snap, bdLeft, aborted') /\ bdLeft \in SUBSET Rows(snap) /\ order \in Orders /\ snap \in Contents
    BY <1>3 DEF OnlyBd, TypeInv
  <2> QED  BY <1>5, <2>1, NextBdResult
<1>7. IsPending' = IsPending /\ (IsOk' <=> IsOk) /\ BdOk
  BY <1>1, <1>2 DEF IsPending, BdOk, IsOk
<1>8. log' = log \cup {<<"+", k>>} /\ BdPending = bdLeft \cup {k}
  BY <1>1 DEF OnlyBd, BdPending, k
<1>9. TypeInv'
  <2>1. Rows(isam)' = Rows(isam) /\ Rows(snap)' = Rows(snap) /\ Rows(snap) \subseteq Keys
    BY <1>2 DEF Rows
  <2>2. log' \subseteq {"+", "-", "<>"} \X Keys
    BY <1>3, <1>8 DEF TypeInv
  <2> QED  BY <1>1, <1>2, <1>3, <1>5, <1>6, <2>1, <2>2 DEF TypeInv, Contents
<1>10. CommandInv'
  BY <1>2, <1>5, TurnCommands
<1>11. CursorInv'
  <2>1. Rows(snap)' = Rows(snap) /\ bdLeft \subseteq Rows(snap)
    BY <1>2, <1>3 DEF Rows, TypeInv
  <2> QED  BY <1>2, <1>6, <2>1 DEF CursorInv
<1>12. ASSUME Straight, IsOk
       PROVE  /\ k \in Rows(before) /\ k \notin bdLeft /\ k \notin IsPending /\ k \notin Rows(isam)
              /\ is # None => \A j \in isLeft : is[1] < j
              /\ \A j \in Rows(before) \cap Rows(isam) : j \in BdPending <=> j \in IsPending
              /\ \A j \in Keys :
                  /\ <<"+", j>> \in log <=> j \in (Rows(before) \ Rows(isam)) \ BdPending
                  /\ <<"-", j>> \in log <=> j \in (Rows(isam) \ Rows(before)) \ IsPending
                  /\ <<"<>", j>> \in log
                     <=> j \in (Rows(isam) \cap Rows(before) \cap Different) \ IsPending
  <2>1. /\ is # None => \A j \in isLeft : is[1] < j
        /\ \A j \in Rows(before) \cap Rows(isam) : j \in BdPending <=> j \in IsPending
        /\ \A j \in Keys :
            /\ <<"+", j>> \in log <=> j \in (Rows(before) \ Rows(isam)) \ BdPending
            /\ <<"-", j>> \in log <=> j \in (Rows(isam) \ Rows(before)) \ IsPending
            /\ <<"<>", j>> \in log <=> j \in (Rows(isam) \cap Rows(before) \cap Different) \ IsPending
    BY <1>2, <1>7, <1>12 DEF Inv, MergeInv
  <2>2. k \notin IsPending
    <3>1. CASE is = None
      BY <1>12, <3>1 DEF IsOk, IsPending
    <3>2. CASE is # None
      <4>1. is[1] \in Nat /\ k \in Nat /\ is[1] > k /\ isLeft \subseteq Nat
        BY <1>1, <1>3, <3>2, KeysAssumption DEF TypeInv, Rows
      <4>2. k # is[1] /\ k \notin isLeft
        BY <2>1, <3>2, <4>1
      <4> QED  BY <3>2, <4>2 DEF IsPending
    <3> QED  BY <3>1, <3>2
  <2>3. k \in Rows(before) \ bdLeft
    BY <1>1, <1>2, <1>12, StraightOrder DEF Inv, CursorInv, k
  <2>4. k \notin Rows(isam)
    BY <1>8, <2>1, <2>2, <2>3
  <2> QED  BY <2>1, <2>2, <2>3, <2>4
<1>13. MergeInv'
  <2> SUFFICES ASSUME Straight, IsOk, BdOk'
               PROVE  /\ bd' # None => \A j \in bdLeft' : bd'[1] < j
                      /\ is # None => \A j \in isLeft : is[1] < j
                      /\ \A j \in Rows(before) \cap Rows(isam) : j \in bdLeft <=> j \in IsPending
                      /\ \A j \in Keys :
                          /\ <<"+", j>> \in log' <=> j \in (Rows(before) \ Rows(isam)) \ bdLeft
                          /\ <<"-", j>> \in log' <=> j \in (Rows(isam) \ Rows(before)) \ IsPending
                          /\ <<"<>", j>> \in log'
                             <=> j \in (Rows(isam) \cap Rows(before) \cap Different) \ IsPending
    <3>1. Rows(isam)' = Rows(isam) /\ Rows(before)' = Rows(before)
      BY <1>2 DEF Rows
    <3> QED  BY <1>1, <1>2, <1>6, <1>7, <3>1 DEF MergeInv
  <2>2. \A j \in Keys : /\ <<"+", j>> \in log' <=> <<"+", j>> \in log \/ j = k
                        /\ <<"-", j>> \in log' <=> <<"-", j>> \in log
                        /\ <<"<>", j>> \in log' <=> <<"<>", j>> \in log
    BY <1>8
  <2> QED  BY <1>3, <1>6, <1>8, <1>12, <2>2, StraightOrder
<1>14. SyncInv'
  <2> SUFFICES ASSUME command = "SYNC"
               PROVE  /\ ~BdOk' => aborted'
                      /\ Straight /\ IsOk /\ ~aborted' =>
                            \A j \in Keys : table'[j] = IF j \in bdLeft \cup IsPending THEN before[j] ELSE Target[j]
    BY <1>2, <1>6, <1>7 DEF SyncInv
  <2>1. ~BdOk' => aborted'
    <3>1. store = "B"
      BY <1>2 DEF Inv, CommandInv
    <3> QED  BY <1>6, <3>1 DEF BdOk
  <2>2. ASSUME Straight, IsOk, ~aborted'
        PROVE  \A j \in Keys : table'[j] = IF j \in bdLeft \cup IsPending THEN before[j] ELSE Target[j]
    <3>1. \A j \in Keys : table[j] = IF j \in BdPending \cup IsPending THEN before[j] ELSE Target[j]
      BY <1>5, <2>2 DEF Inv, SyncInv
    <3>2. k \notin bdLeft \cup IsPending /\ table[k] # None /\ k \notin Rows(isam) /\ k # LowKey
      BY <1>3, <1>8, <1>12, <2>2, <3>1 DEF Rows
    <3>3. Target[k] = None
      BY <1>3, <3>2 DEF Target, Right
    <3>4. \A j \in Keys : table'[j] = IF j = k THEN Target[k] ELSE table[j]
      BY <1>3, <1>5, <2>2, <3>2, <3>3 DEF TypeInv, Contents
    <3> QED  BY <1>3, <1>8, <3>1, <3>2, <3>4
  <2> QED  BY <2>1, <2>2
<1>15. Straight /\ IsOk => isam[k] = None
  BY <1>3, <1>12 DEF Rows
<1>16. LowInv'
  BY <1>2, <1>5 DEF Inv, LowInv, NoLow
<1> QED  BY <1>2, <1>9, <1>10, <1>11, <1>13, <1>14, <1>15, <1>16 DEF Inv, k

\* A record loaded.
LEMMA LoadStep ==
    ASSUME Inv, LoadWrite
    PROVE  Inv'
<1> DEFINE k == is[1]
<1>1. /\ command = "LOAD" /\ is # None /\ op_write(is) /\ NextIsam(isLeft)
      /\ UNCHANGED <<saved, isam, tp, store, order, remembered, command, snap, bd, bdLeft, log,
                     last, before, base, astray, undone>>
  BY DEF LoadWrite, fixed, history
<1>2. TypeInv /\ k \in Rows(isam) \ isLeft /\ is[2] = isam[k]
  BY <1>1 DEF Inv, TypeInv
<1>3. k \in Keys /\ isam[k] \in Seq(Nat) /\ isam[k] # None
  BY <1>2 DEF Rows, TypeInv, Contents
<1>4. Target' = Target /\ Rows(isam)' = Rows(isam) /\ Rows(snap)' = Rows(snap)
  BY <1>1, TargetKept DEF Rows
<1>5. IsPending = isLeft \cup {k}
  BY <1>1 DEF IsPending
<1> HIDE DEF k
<1>6. /\ table' \in Contents /\ aborted' \in BOOLEAN /\ (aborted => aborted')
      /\ ~aborted' /\ table[k] = None => table' = [table EXCEPT ![k] = Stored(isam[k])]
      /\ NoLow(table) /\ k # LowKey => NoLow(table)'
  BY <1>1, <1>2, <1>3, WriteResult DEF k
<1>7. /\ IsPending' = isLeft /\ isLeft' \subseteq isLeft
      /\ is' # None => is'[1] \in isLeft \ isLeft' /\ is'[2] = isam[is'[1]]
  <2>1. isLeft \in SUBSET Rows(isam) /\ order \in Orders /\ isam' = isam
    BY <1>1, <1>2 DEF TypeInv
  <2> QED  BY <1>1, <2>1, NextIsamResult
<1>8. TypeInv'
  BY <1>1, <1>2, <1>4, <1>6, <1>7 DEF TypeInv, Contents
<1>9. last = "LOAD" /\ CommandInv'
  BY <1>1 DEF Inv, CommandInv, Merging
<1>10. CursorInv' /\ MergeInv' /\ SyncInv' /\ AllOrNothing'
  BY <1>1, <1>9 DEF CursorInv, MergeInv, SyncInv, AllOrNothing, Rest, Merging
<1>11. LoadInv'
  <2> SUFFICES ASSUME ~aborted'
               PROVE  \A j \in Keys : table'[j] = IF j \in isLeft THEN None ELSE Target[j]
    BY <1>4, <1>7 DEF LoadInv
  <2>1. \A j \in Keys : table[j] = IF j \in IsPending THEN None ELSE Target[j]
    BY <1>1, <1>6 DEF Inv, LoadInv
  <2>2. Target[k] = Stored(isam[k])
    BY <1>2, <1>3, <1>9 DEF Target, Right
  <2>3. \A j \in Keys : table'[j] = IF j = k THEN Target[k] ELSE table[j]
    BY <1>2, <1>3, <1>5, <1>6, <2>1, <2>2 DEF TypeInv, Contents
  <2> QED  BY <1>2, <1>5, <2>1, <2>3
<1>12. LowInv'
  BY <1>1, <1>2, <1>6 DEF Inv, LowInv, NoLow, Rows
<1> QED  BY <1>8, <1>9, <1>10, <1>11, <1>12 DEF Inv

\* What the end of a command leaves of the merge.
LEMMA ScansKept ==
    ASSUME Inv, UNCHANGED <<isam, tp, store, order, snap, bdLeft, isLeft, bd, is, log, last, before, base, astray>>
    PROVE  /\ CursorInv' /\ MergeInv'
           /\ Target' = Target /\ (Straight' <=> Straight) /\ (IsamRead' <=> IsamRead)
<1>1. Target' = Target /\ Different' = Different /\ (Straight' <=> Straight)
  BY TargetKept, StraightKept
<1>2. /\ Rows(isam)' = Rows(isam) /\ Rows(snap)' = Rows(snap) /\ Rows(before)' = Rows(before)
      /\ BdPending' = BdPending /\ IsPending' = IsPending
      /\ (IsOk' <=> IsOk) /\ (BdOk' <=> BdOk) /\ (IsamRead' <=> IsamRead)
  BY DEF Rows, BdPending, IsPending, IsOk, BdOk, IsamRead
<1>3. CursorInv'
  BY <1>2 DEF Inv, CursorInv
<1>4. MergeInv'
  BY <1>1, <1>2 DEF Inv, MergeInv
<1> QED  BY <1>1, <1>2, <1>3, <1>4

\* The process ends: what is committed is what was, or what a record refused by
\* the validator left unfinished.
LEMMA ExitStep ==
    ASSUME Inv, command \in {"SYNC", "LOAD"} \/ last \notin {"SYNC", "LOAD"}, NEW c \in {saved, table}, Exit(c), c = saved \/ is # None
    PROVE  Inv'
<1>1. /\ command' = "exited" /\ undone' = (c = saved) /\ saved' = c /\ table' = c /\ aborted' = FALSE
      /\ UNCHANGED <<isam, tp, store, order, remembered, snap, bdLeft, isLeft, bd, is, log, last, before, base, astray>>
  BY DEF Exit, fixed, scanVars, history
<1>2. CursorInv' /\ MergeInv' /\ (IsamRead' <=> IsamRead)
  BY <1>1, ScansKept
<1>3. TypeInv'
  <2>1. Rows(isam)' = Rows(isam) /\ Rows(snap)' = Rows(snap)
    BY <1>1 DEF Rows
  <2> QED  BY <1>1, <2>1 DEF Inv, TypeInv, Contents
<1>4. CommandInv' /\ SyncInv' /\ LoadInv'
  BY <1>1 DEF Inv, CommandInv, SyncInv, LoadInv, Merging
<1>5. AllOrNothing'
  <2>1. CASE c = saved
    <3>1. last \in {"SYNC", "LOAD"} => saved = base
      BY DEF Inv, CommandInv
    <3> QED  BY <1>1, <2>1, <3>1 DEF AllOrNothing
  <2>2. CASE c # saved
    <3>1. is # None
      BY <2>2
    <3> QED  BY <1>1, <2>2, <3>1 DEF AllOrNothing, IsamRead
  <2> QED  BY <2>1, <2>2
<1>6. LowInv'
  BY <1>1 DEF Inv, LowInv, NoLow
<1> QED  BY <1>2, <1>3, <1>4, <1>5, <1>6 DEF Inv

\* The end of a command that could not go on.
LEMMA EndsStep ==
    ASSUME Inv, Unprepared \/ Fatal
    PROVE  Inv'
<1>1. CASE Unprepared
  <2>1. Exit(saved) /\ command \in {"SYNC", "LOAD"}
    BY <1>1 DEF Unprepared
  <2> QED  BY <2>1, ExitStep
<1>2. CASE Fatal
  <2>1. (Exit(saved) \/ Exit(table)) /\ command \in {"SYNC", "LOAD"} /\ is # None
    BY <1>2 DEF Fatal, ExitFatal
  <2> QED  BY <2>1, ExitStep
<1> QED  BY <1>1, <1>2

\* Nothing is pending at the end of a command that saw no error.
LEMMA Settled ==
    ASSUME Inv, command \in {"SYNC", "LOAD"}, ~aborted, bd = None, IsamRead,
           command = "SYNC" => Straight
    PROVE  table = Target
<1>1. IsPending = {} /\ IsOk
  BY DEF IsamRead, IsPending, IsOk
<1>2. CASE command = "SYNC"
  <2>1. BdPending = {}
    BY <1>2 DEF Inv, SyncInv, BdOk, BdPending
  <2>2. \A k \in Keys : table[k] = Target[k]
    BY <1>1, <1>2, <2>1 DEF Inv, SyncInv
  <2> QED  BY <2>2 DEF Inv, TypeInv, Contents, Target
<1>3. CASE command = "LOAD"
  <2>1. \A k \in Keys : table[k] = Target[k]
    BY <1>1, <1>3 DEF Inv, LoadInv
  <2> QED  BY <2>1 DEF Inv, TypeInv, Contents, Target
<1> QED  BY <1>2, <1>3

\* The end of a command.
LEMMA DoneStep ==
    ASSUME Inv, Done
    PROVE  Inv'
<1>1. /\ command \in Merging \cup {"LOAD"} /\ bd = None /\ is = None /\ command' = "idle"
      /\ UNCHANGED <<isam, tp, store, order, remembered, snap, bdLeft, isLeft, bd, is, log, last, before, base, astray>>
  BY DEF Done, Comparing, Merging, fixed, scanVars, history
<1>2. CursorInv' /\ MergeInv' /\ Target' = Target /\ (Straight' <=> Straight) /\ (IsamRead' <=> IsamRead)
  BY <1>1, ScansKept
<1>3. /\ table' \in {table, saved} /\ saved' \in {table, saved} /\ aborted' \in BOOLEAN
      /\ command \in {"SYNC", "LOAD"} => /\ saved' = (IF aborted THEN saved ELSE table)
                                         /\ undone' = aborted /\ ~aborted'
  <2>1. CASE command \in {"SYNC", "LOAD"}
    BY <2>1 DEF Done, commit, Inv, TypeInv
  <2>2. CASE command \in {"CMP", "CMPISAM"}
    BY <2>2 DEF Done, Inv, TypeInv, CommandInv
  <2> QED  BY <1>1, <2>1, <2>2 DEF Merging
<1>4. TypeInv'
  <2>1. Rows(isam)' = Rows(isam) /\ Rows(snap)' = Rows(snap)
    BY <1>1 DEF Rows
  <2> QED  BY <1>1, <1>3, <2>1 DEF Inv, TypeInv, Contents
<1>5. CommandInv' /\ SyncInv' /\ LoadInv' /\ LowInv'
  BY <1>1, <1>3 DEF Inv, CommandInv, SyncInv, LoadInv, Merging, LowInv, NoLow
<1>6. AllOrNothing'
  <2> SUFFICES ASSUME last \in {"SYNC", "LOAD"}
               PROVE  \/ undone' /\ saved' = base
                      \/ ~undone' /\ saved' = Target
                      \/ ~undone' /\ (~IsamRead \/ (last = "SYNC" /\ ~Straight))
    BY <1>1, <1>2 DEF AllOrNothing, Target
  <2>1. command = last /\ saved = base
    BY <1>1 DEF Inv, CommandInv, Merging
  <2>2. aborted \in BOOLEAN
    BY DEF Inv, TypeInv
  <2>3. CASE aborted
    BY <1>3, <2>1, <2>3
  <2>4. CASE ~aborted
    <3>1. IsamRead /\ (last = "SYNC" => Straight) => table = Target
      BY <1>1, <2>1, <2>4, Settled
    <3> QED  BY <1>3, <2>1, <2>4, <3>1
  <2> QED  BY <2>2, <2>3, <2>4
<1> QED  BY <1>2, <1>4, <1>5, <1>6 DEF Inv

\* CMP, SYNC and CMPISAM begin.
LEMMA CompareStep ==
    ASSUME Inv, NEW c \in Merging, cmp_table(c)
    PROVE  Inv'
<1>1. /\ command = "idle" /\ command' = c /\ last' = c /\ before' = table /\ base' = saved /\ snap' = table
      /\ log' = {} /\ remembered' = None /\ (c = "SYNC" => store = "B")
      /\ UNCHANGED <<table, saved, aborted, isam, tp, store, order>>
      /\ astray' <=> remembered # None
  BY DEF cmp_table, Begin, dbVars, fixed, Merging
<1>2. TypeInv /\ (aborted => Weak) /\ LowInv /\ LowInv'
  BY <1>1 DEF cmp_table, Inv, LowInv, NoLow
<1>3. Rows(table)' = Rows(table) /\ Rows(isam)' = Rows(isam) /\ Rows(snap)' = Rows(table)
      /\ Rows(before)' = Rows(table) /\ Rows(table) \subseteq Keys /\ Rows(isam) \subseteq Keys
  BY <1>1 DEF Rows
<1>4. /\ IsPending' = Rows(isam) /\ isLeft' \subseteq Rows(isam)
      /\ is' # None => is'[1] \in Rows(isam) \ isLeft' /\ is'[2] = isam[is'[1]]
      /\ InOrder /\ is' # None => \A j \in isLeft' : is'[1] < j
  <2>1. NextIsam(Rows(isam)) /\ order \in Orders /\ isam' = isam
    BY <1>1, <1>2 DEF cmp_table, TypeInv
  <2> QED  BY <2>1, NextIsamResult
<1>5. CASE remembered # None
  <2>1. bd' = remembered /\ bdLeft' = Rows(table) /\ bd'[1] \in Keys /\ astray'
    BY <1>1, <1>2, <1>5 DEF cmp_table, TypeInv
  <2>2. TypeInv'
    BY <1>1, <1>2, <1>3, <1>4, <2>1 DEF TypeInv, Contents, Merging
  <2>3. CommandInv' /\ LoadInv' /\ AllOrNothing'
    BY <1>1, <1>2 DEF CommandInv, LoadInv, AllOrNothing, Rest, Merging
  <2>4. CursorInv' /\ MergeInv' /\ SyncInv'
    BY <1>5, <2>1 DEF CursorInv, MergeInv, SyncInv, Straight, BdOk
  <2> QED  BY <1>2, <2>2, <2>3, <2>4 DEF Inv
<1>6. CASE remembered = None
  <2> DEFINE left == IF store = "B" THEN Rows(table) \cap order.seen ELSE Rows(table)
  <2>1. /\ NextBd(table, left, aborted) /\ order \in Orders /\ table \in Contents /\ ~astray'
        /\ left \in SUBSET Rows(table) /\ aborted \in BOOLEAN
    BY <1>1, <1>2, <1>6 DEF cmp_table, TypeInv
  <2>9. Straight' => left = Rows(table) /\ ~aborted
    <3>1. Straight' => order.seen = Keys /\ ~Weak
      BY <1>1 DEF Straight, Weak
    <3> QED  BY <1>2, <1>3, <3>1
  <2> HIDE DEF left
  <2>2. /\ BdPending' = left /\ bdLeft' \subseteq left
        /\ bd' # None => bd'[1] \in left \ bdLeft' /\ bd'[2] = table[bd'[1]]
        /\ bd' = None => bdLeft' = left /\ (aborted \/ left = {} \/ store = "I")
        /\ InOrder /\ bd' # None => \A j \in bdLeft' : bd'[1] < j
    BY <2>1, NextBdResult
  <2>3. TypeInv'
    BY <1>1, <1>2, <1>3, <1>4, <2>1, <2>2 DEF TypeInv, Contents, Merging
  <2>4. CommandInv' /\ LoadInv' /\ AllOrNothing'
    BY <1>1, <1>2 DEF CommandInv, LoadInv, AllOrNothing, Rest, Merging
  <2>5. CursorInv'
    BY <1>1, <1>3, <2>1, <2>2 DEF CursorInv
  <2>6. Straight' => InOrder
    BY <1>1 DEF Straight, InOrder
  <2>7. MergeInv'
    BY <1>1, <1>3, <1>4, <2>2, <2>6, <2>9 DEF MergeInv
  <2>8. SyncInv'
    <3> SUFFICES ASSUME c = "SYNC"
                 PROVE  /\ ~BdOk' => aborted'
                        /\ Straight' => \A k \in Keys :
                              table'[k] = IF k \in BdPending' \cup IsPending' THEN before'[k] ELSE Target'[k]
      BY <1>1 DEF SyncInv
    <3>1. ~BdOk' => aborted'
      BY <1>1, <2>2 DEF BdOk
    <3>2. ASSUME Straight', NEW k \in Keys, k \notin BdPending' \cup IsPending'
          PROVE  table'[k] = Target'[k]
      <4>1. k \notin Rows(table) /\ k \notin Rows(isam)'
        BY <1>1, <1>3, <1>4, <2>2, <2>9, <3>2
      <4>2. table[k] = None
        BY <1>1, <1>2, <3>2, <4>1 DEF Rows, LowInv, NoLow
      <4> QED  BY <1>1, <4>1, <4>2 DEF Target, Right
    <3> QED  BY <1>1, <3>1, <3>2
  <2> QED  BY <1>2, <2>3, <2>4, <2>5, <2>7, <2>8 DEF Inv
<1> QED  BY <1>5, <1>6

\* LOAD begins.
LEMMA LoadBegins ==
    ASSUME Inv, load_table
    PROVE  Inv'
<1>1. /\ command = "idle" /\ command' = "LOAD" /\ last' = "LOAD" /\ before' = table /\ base' = saved /\ store = "B"
      /\ bd' = None /\ bdLeft' = {} /\ (Does(Blank) \/ Fails) /\ NextIsam(Rows(isam))
      /\ UNCHANGED <<saved, isam, tp, store, order, remembered, snap, log>>
  BY DEF load_table, Begin, fixed
<1>2. TypeInv
  BY DEF Inv
<1>3. Blank \in Contents /\ \A k \in Keys : Blank[k] = None
  BY DEF Blank, Contents, None
<1>4. table' \in Contents /\ aborted' \in BOOLEAN /\ (~aborted' => table' = Blank) /\ LowInv'
  BY <1>1, <1>2, <1>3 DEF Does, Fails, TypeInv, Inv, LowInv, NoLow
<1>5. /\ IsPending' = Rows(isam) /\ isLeft' \subseteq Rows(isam)
      /\ is' # None => is'[1] \in Rows(isam) \ isLeft' /\ is'[2] = isam[is'[1]]
  <2>1. order \in Orders /\ isam' = isam
    BY <1>1, <1>2 DEF TypeInv
  <2> QED  BY <1>1, <2>1, NextIsamResult
<1>6. TypeInv'
  <2>1. Rows(isam)' = Rows(isam) /\ Rows(snap)' = Rows(snap)
    BY <1>1 DEF Rows
  <2> QED  BY <1>1, <1>2, <1>4, <1>5, <2>1 DEF TypeInv, Contents
<1>7. CommandInv' /\ CursorInv' /\ MergeInv' /\ SyncInv' /\ AllOrNothing'
  BY <1>1, <1>2 DEF CommandInv, CursorInv, MergeInv, SyncInv, AllOrNothing, Rest, Merging
<1>8. LoadInv'
  <2> SUFFICES ASSUME ~aborted', NEW k \in Keys, k \notin IsPending'
               PROVE  Target'[k] = None
    BY <1>3, <1>4 DEF LoadInv
  <2>1. k \notin Rows(isam)'
    BY <1>1, <1>5 DEF Rows
  <2> QED  BY <2>1 DEF Target, Right
<1> QED  BY <1>4, <1>6, <1>7, <1>8 DEF Inv

\* COPY: commits or rolls back what the program had not committed.
LEMMA CopyStep ==
    ASSUME Inv, copy_table
    PROVE  Inv'
<1>1. /\ command = "idle" /\ command' = "idle" /\ last' = "COPY"
      /\ saved' \in {table, saved} /\ table' = saved' /\ aborted' = FALSE /\ before' = table
      /\ UNCHANGED <<isam, tp, store, order, remembered, snap, bdLeft, isLeft, bd, is, log>>
  BY DEF copy_table, Begin, fixed, scanVars
<1>2. TypeInv'
  <2>1. Rows(isam)' = Rows(isam) /\ Rows(snap)' = Rows(snap)
    BY <1>1 DEF Rows
  <2> QED  BY <1>1, <2>1 DEF Inv, TypeInv, Contents
<1>3. CommandInv' /\ CursorInv' /\ MergeInv' /\ SyncInv' /\ LoadInv' /\ AllOrNothing'
  BY <1>1 DEF Inv, CommandInv, CursorInv, MergeInv, SyncInv, LoadInv, AllOrNothing, Merging
<1>4. LowInv'
  BY <1>1 DEF Inv, LowInv, NoLow
<1> QED  BY <1>2, <1>3, <1>4 DEF Inv

\* Nothing that the invariant is about changes.
LEMMA NothingStep ==
    ASSUME Inv,
           UNCHANGED <<table, saved, aborted, isam, tp, store, order, remembered, snap, bdLeft, isLeft,
                       bd, is, log, last, before, base, astray, command, undone>>
    PROVE  Inv'
<1>1. CursorInv' /\ MergeInv' /\ Target' = Target /\ (Straight' <=> Straight) /\ (IsamRead' <=> IsamRead)
  BY ScansKept
<1>2. /\ Rows(isam)' = Rows(isam) /\ Rows(snap)' = Rows(snap)
      /\ BdPending' = BdPending /\ IsPending' = IsPending
      /\ (IsOk' <=> IsOk) /\ (BdOk' <=> BdOk)
  BY DEF Rows, BdPending, IsPending, IsOk, BdOk
<1>3. TypeInv'
  BY <1>2 DEF Inv, TypeInv, Contents
<1>4. CommandInv' /\ SyncInv' /\ LoadInv' /\ LowInv'
  BY <1>1, <1>2 DEF Inv, CommandInv, SyncInv, LoadInv, Merging, LowInv, NoLow
<1>5. AllOrNothing'
  BY <1>1 DEF Inv, AllOrNothing, Rest, Target
<1> QED  BY <1>1, <1>3, <1>4, <1>5 DEF Inv

\* Every step keeps the invariant.
LEMMA SyncStep == Inv /\ [Next]_vars => Inv'
<1> SUFFICES ASSUME Inv, [Next]_vars PROVE Inv'
  OBVIOUS
<1>1. ASSUME NEW c \in {"CMP", "SYNC", "CMPISAM"}, cmp_table(c) PROVE Inv'
  BY <1>1, CompareStep DEF Merging
<1>2. CASE load_table
  BY <1>2, LoadBegins
<1>3. CASE copy_table
  BY <1>3, CopyStep
<1>4. CASE Returns
  BY <1>4, NothingStep DEF Returns, dbVars, fixed, scanVars
<1>12. CASE LoadElsewhere
  <2>1. store = "I" /\ last \notin {"SYNC", "LOAD"}
    BY <1>12 DEF LoadElsewhere, Inv, CommandInv
  <2>2. CASE Exit(saved)
    BY <2>1, <2>2, ExitStep
  <2>3. CASE ~Exit(saved)
    <3>1. UNCHANGED <<table, saved, aborted, isam, tp, store, order, remembered, snap, bdLeft, isLeft,
                      bd, is, log, last, before, base, astray, command, undone>>
      BY <1>12, <2>3 DEF LoadElsewhere, fixed, scanVars
    <3> QED  BY <3>1, NothingStep
  <2> QED  BY <2>2, <2>3
<1>13. CASE DeclareExit
  <2>1. Exit(saved) /\ last \notin {"SYNC", "LOAD"}
    BY <1>13 DEF DeclareExit, Inv, CommandInv
  <2> QED  BY <2>1, ExitStep
<1>5. CASE Equal
  BY <1>5, EqualStep
<1>6. CASE OnlyIsam
  BY <1>6, OnlyIsamStep
<1>7. CASE OnlyBd
  BY <1>7, OnlyBdStep
<1>8. CASE LoadWrite
  BY <1>8, LoadStep
<1>9. CASE Unprepared \/ Fatal
  BY <1>9, EndsStep
<1>10. CASE Done
  BY <1>10, DoneStep
<1>11. CASE UNCHANGED vars
  BY <1>11, NothingStep DEF vars, dbVars, fixed, scanVars, history
<1> QED  BY <1>1, <1>2, <1>3, <1>4, <1>5, <1>6, <1>7, <1>8, <1>9, <1>10, <1>11, <1>12, <1>13 DEF Next, Loop

\* The invariant holds throughout.
LEMMA SyncInvariant == Spec => []Inv
BY SyncInit, SyncStep, PTL DEF Spec

--------------------------------------------------------------------------------
(* Theorems                                                                *)

\* cmp_table.c, cmp_isam.c: when both files were read to the end in the order
\* of the primary key the log names exactly the records that differ, whatever
\* the tables, the records and the orders of the scans.
THEOREM LogRightCorrect == Spec => []LogRight
<1>1. Inv => LogRight
  <2> SUFFICES ASSUME Inv, last \in Merging, Straight, IsamRead, BdRead
               PROVE  log = {<<"+", k>> : k \in Rows(before) \ Rows(isam)}
                            \cup {<<"-", k>> : k \in Rows(isam) \ Rows(before)}
                            \cup {<<"<>", k>> : k \in {j \in Rows(isam) \cap Rows(before) :
                                                          Differ(before[j], isam[j])}}
    BY DEF LogRight, Merging
  <2> DEFINE Diff == {j \in Rows(isam) \cap Rows(before) : Differ(before[j], isam[j])}
  <2>1. IsOk /\ BdOk /\ IsPending = {} /\ BdPending = {}
    BY DEF IsamRead, BdRead, IsOk, BdOk, IsPending, BdPending
  <2>2. Rows(before) \subseteq Keys /\ Rows(isam) \subseteq Keys /\ Diff = Rows(isam) \cap Rows(before) \cap Different
    BY DEF Rows, Different
  <2> HIDE DEF Diff
  <2>3. \A k \in Keys : /\ <<"+", k>> \in log <=> k \in Rows(before) \ Rows(isam)
                        /\ <<"-", k>> \in log <=> k \in Rows(isam) \ Rows(before)
                        /\ <<"<>", k>> \in log <=> k \in Diff
    BY <2>1, <2>2 DEF Inv, MergeInv
  <2>4. log \subseteq {"+", "-", "<>"} \X Keys
    BY DEF Inv, TypeInv
  <2>5. Diff \subseteq Keys
    BY <2>2
  <2>6. log = {<<"+", k>> : k \in Rows(before) \ Rows(isam)}
              \cup {<<"-", k>> : k \in Rows(isam) \ Rows(before)} \cup {<<"<>", k>> : k \in Diff}
    <3> DEFINE R == {<<"+", k>> : k \in Rows(before) \ Rows(isam)}
                    \cup {<<"-", k>> : k \in Rows(isam) \ Rows(before)} \cup {<<"<>", k>> : k \in Diff}
    <3>1. R \subseteq {"+", "-", "<>"} \X Keys
      BY <2>2, <2>5
    <3>2. ASSUME NEW a \in {"+", "-", "<>"}, NEW k \in Keys PROVE <<a, k>> \in log <=> <<a, k>> \in R
      <4>1. CASE a = "+"
        BY <2>3, <4>1
      <4>2. CASE a = "-"
        BY <2>3, <4>2
      <4>3. CASE a = "<>"
        BY <2>3, <4>3
      <4> QED  BY <4>1, <4>2, <4>3
    <3> HIDE DEF R
    <3>3. log = R
      BY <2>4, <3>1, <3>2
    <3> QED  BY <3>3 DEF R
  <2> QED  BY <2>6 DEF Diff
<1> QED  BY <1>1, SyncInvariant, PTL

\* command.c: a SYNC or a LOAD that is over has committed the whole of the ISAM
\* file, or what is committed is what was before it, whatever the program had
\* not committed then; unless the ISAM file was not read to its end or the scans
\* of SYNC are not in the order of the primary key.
THEOREM AllOrNothingCorrect == Spec => []AllOrNothing
<1>1. Inv => AllOrNothing
  BY DEF Inv
<1> QED  BY <1>1, SyncInvariant, PTL

\* reccmp, op_write, op_rewrite and pq2cob agree: a SYNC that went well leaves
\* a difference only in a record with bytes that the database does not keep.
THEOREM SyncSettlesCorrect == Spec => []SyncSettles
<1>1. Inv => SyncSettles
  <2> SUFFICES ASSUME Inv, command = "idle", last \in {"SYNC", "LOAD"}, ~undone, Straight, IsamRead,
                      NEW k \in Rows(isam)
               PROVE  saved[k] # None /\ (Differ(saved[k], isam[k]) => Broken(isam[k]))
    BY DEF SyncSettles
  <2>1. k \in Keys /\ isam[k] # None /\ isam[k] \in Seq(Nat) /\ tp \in {"s", "n"}
    BY DEF Inv, TypeInv, Contents, Rows
  <2>2. saved[k] = Right(k)
    <3>1. saved = [j \in Keys |-> Right(j)]
      BY DEF Inv, AllOrNothing, Rest
    <3> QED  BY <2>1, <3>1
  <2>3. store = "B"
    BY DEF Inv, CommandInv
  <2>4. Stored(isam[k]) # None /\ (Differ(Stored(isam[k]), isam[k]) => Broken(isam[k]))
    <3>1. ~Broken(isam[k]) => Stored(isam[k]) = Compared(isam[k])
      BY <2>1, StoredCompared
    <3>2. Stored(isam[k]) # None
      BY <2>1, StoredType
    <3> QED  BY <2>3, <3>1, <3>2 DEF Differ
  <2> QED  BY <2>1, <2>2, <2>4 DEF Right
<1> QED  BY <1>1, SyncInvariant, PTL

\* cmp_table.c, "o registro existe apenas no arquivo 1(banco)": in order, SYNC
\* deletes no row whose key the ISAM file has, unless it was not read to its end.
THEOREM OnlyInDatabaseCorrect == Spec => OnlyInDatabase
<1>1. Inv /\ [Next]_vars => [OnlyBd /\ command = "SYNC" /\ Straight
                             => isam[bd[1]] = None \/ (is = None /\ isLeft # {})]_vars
  BY OnlyBdStep DEF IsOk
<1> QED  BY <1>1, SyncInvariant, PTL DEF Spec, OnlyInDatabase

================================================================================
