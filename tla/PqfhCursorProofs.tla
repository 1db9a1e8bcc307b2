---------------------------- MODULE PqfhCursorProofs ---------------------------
(***************************************************************************)
(* Proofs about PqfhCursor, for any keys, groups and calls: the process    *)
(* ends only after a failure or over a key that is no number, READ returns *)
(* every record of the scan in its order, and 10 only at its end or under  *)
(* the flag of another file.  The last two are about programs that READ    *)
(* after a START before they do anything else with this file, and whose    *)
(* STARTs are >, >=, < and <=: a START = leaves a cursor without the rest  *)
(* of the file, which a START > at the same key would then go on with.     *)
(***************************************************************************)
EXTENDS PqfhCursor, Integers, WellFoundedInduction, TLAPS

\* A non-empty set of naturals has a least element.
LEMMA LeastExists ==
    ASSUME NEW S, S \subseteq Nat, S # {}
    PROVE  \E m \in S : \A j \in S : m <= j
<1>1. PICK m \in S : \A j \in S : ~ (<<j, m>> \in OpToRel(<, Nat))
  BY NatLessThanWellFounded, WFMin, Zenon
<1>2. \A j \in S : <<j, m>> \in OpToRel(<, Nat) <=> j < m
  BY DEF OpToRel
<1>3. \A j \in S : ~ (j < m)
  BY <1>1, <1>2, Zenon
<1> QED  BY <1>3

\* A bounded one has a greatest element.
LEMMA GreatestExists ==
    ASSUME NEW S, S \subseteq Nat, S # {}, NEW b \in Nat, \A j \in S : j <= b
    PROVE  \E m \in S : \A j \in S : m >= j
<1> DEFINE T == {b - j : j \in S}
<1>1. ASSUME NEW j \in S  PROVE j \in Nat /\ b - j \in Nat
  BY <1>1
<1>2. T \subseteq Nat /\ T # {}
  BY <1>1
<1>3. PICK t \in T : \A u \in T : t <= u
  BY <1>2, LeastExists
<1>4. PICK m \in S : t = b - m
  BY <1>3
<1>5. ASSUME NEW j \in S  PROVE m >= j
  <2>1. b - m <= b - j
    BY <1>3, <1>4
  <2> QED  BY <1>1, <2>1
<1> QED  BY <1>5

--------------------------------------------------------------------------------
(* The inductive invariants.                                               *)

\* What can make START give up has been noticed.
FailInv ==
    /\ exited => spoiled \/ badkey
    /\ aborted => spoiled
    /\ cursor /\ ~live => spoiled

\* The row START found is in one place at a time, and restart goes with the
\* direction of the scan.
PendInv ==
    /\ weak \in BOOLEAN /\ table \subseteq Keys /\ saved \subseteq Keys
    /\ dir \in {"0", "n", "p"} /\ restart \in {"0", "n", "p"}
    /\ checked => restart \in {"0", dir}
    /\ first \in BOOLEAN /\ own_eof \in BOOLEAN /\ checked \in BOOLEAN /\ intact \in BOOLEAN
    /\ first => restart = "0"
    /\ own_eof => ~first /\ restart = "0"

\* The row READ has read last in the direction of the scan.
Buf == IF dir = "p" THEN buf_prev ELSE buf_next
KeyOf == IF dir = "p" THEN key_prev ELSE key_next

\* What READ must still return is what START has fetched, or a shortcut has
\* remembered, and then the rest of the cursor.
WantInv ==
    checked =>
        /\ dir # "0"
        /\ own_eof => want = {}
        /\ ~own_eof => desc = Down0
        /\ first => want # {} /\ rec = NextOf(want, Down0) /\ todo = want \ {rec}
        /\ restart # "0" => want # {} /\ Buf = NextOf(want, Down0) /\ todo = want \ {Buf}
        /\ ~own_eof /\ ~first /\ restart = "0" => todo = want

\* The rows of S that come after b.
Beyond(S, b, down) == {j \in S : IF down THEN j < b ELSE j > b}

\* The cursor is at b in the rows of S.
At(S, b) == b \in S /\ todo = Beyond(S, b, dir = "p")

\* The remembered row is the one the cursor stands at, in the table without
\* the rows it cannot see, and stays so when the transaction is rolled back.
IntactInv ==
    intact =>
        /\ dir # "0" /\ desc = Down0
        /\ ~weak /\ live /\ KeyOf =>
              /\ At(table \ inserted, Buf)
              /\ held => At(saved \ inserted, Buf)

ScanInv == PendInv /\ WantInv /\ IntactInv
--------------------------------------------------------------------------------
(* The process ends only after a failure, or over a bad key.               *)

USE DEF FailInv

\* Nothing has failed before the first call.
LEMMA FailInit == Init => FailInv
BY DEF Init

\* A step that ends the process finds the transaction failed, or the cursor
\* taken away by a rollback.
LEMMA FailStep == ASSUME FailInv, [Next]_vars PROVE FailInv'
<1> USE DEF dbVars, curVars, tabVars, scanVars
<1>1. ASSUME NEW o \in Ops[weak], NEW k \in Keys, op_start(o, k)  PROVE FailInv'
  <2>1. CASE StartShortcut(o, k)
    BY <2>1, Zenon DEF StartShortcut
  <2>2. CASE StartWeak(o, k)
    BY <2>2, Zenon DEF StartWeak
  <2>3. CASE StartExit(o, k)
    BY <2>3, Zenon DEF StartExit, LooksUp, CanDeclare, Exit
  <2>4. CASE StartDeclare(o, k)
    BY <2>4, Zenon DEF StartDeclare
  <2> QED  BY <1>1, <2>1, <2>2, <2>3, <2>4 DEF op_start
<1>2. ASSUME NEW d \in {"n", "p"}, op_next_prev(d)  PROVE FailInv'
  <2>1. CASE ReadEnd(d)
    BY <2>1, Zenon DEF ReadEnd, Turn
  <2>2. CASE ReadFirst(d) \/ ReadEof(d) \/ ReadRestart(d) \/ ReadFetch(d)
    <3>1. UNCHANGED <<exited, spoiled, badkey, aborted, cursor, live>>
      BY <2>2 DEF ReadFirst, ReadEof, ReadRestart, ReadFetch, Turn
    <3> QED  BY <3>1, Zenon
  <2> QED  BY <1>2, <2>1, <2>2 DEF op_next_prev
<1>3. ASSUME NEW k \in Touched, op_read_random(k) \/ op_write(k) \/ op_rewrite(k) \/ op_delete(k)
      PROVE  FailInv'
  <2>1. UNCHANGED <<exited, spoiled, badkey, aborted, cursor, live>>
    BY <1>3 DEF op_read_random, op_write, op_rewrite, op_delete
  <2> QED  BY <2>1, Zenon
<1>4. ASSUME NEW rollback \in BOOLEAN, EndTransaction(rollback)  PROVE FailInv'
  BY <1>4, Zenon DEF EndTransaction
<1>5. CASE CallExit \/ OtherFails \/ OtherStart
  <2>1. CASE OtherStart
    BY <2>1, Zenon DEF OtherStart
  <2> QED  BY <1>5, <2>1, Zenon DEF CallExit, OtherFails, Exit
<1>6. ASSUME NEW o \in Ops[weak], StartBad(o)  PROVE FailInv'
  <2>1. CASE Exit /\ badkey' = TRUE
    BY <2>1, Zenon DEF Exit
  <2>2. CASE spoiled' = TRUE
    BY <2>2, Zenon
  <2> QED  BY <1>6, <2>1, <2>2, Zenon DEF StartBad, SelectFails
<1>7. CASE CallBad
  <2>1. CASE Exit /\ badkey' = TRUE
    BY <2>1, Zenon DEF Exit
  <2>2. CASE spoiled' = TRUE
    BY <2>2, Zenon
  <2> QED  BY <1>7, <2>1, <2>2, Zenon DEF CallBad, SelectFails
<1>8. CASE UNCHANGED vars
  BY <1>8, Zenon DEF vars
<1> QED  BY <1>1, <1>2, <1>3, <1>4, <1>5, <1>6, <1>7, <1>8 DEF Next

\* In any sequence of calls, with other files in the same transaction, the
\* process ends only after a statement has failed or a transaction was rolled
\* back, or over a key that is no number.
THEOREM SurvivesCorrect == Spec => []StartSurvives
<1>1. FailInv => StartSurvives
  BY DEF StartSurvives
<1> QED  BY <1>1, FailInit, FailStep, PTL DEF Spec

--------------------------------------------------------------------------------
(* The next row of a set of keys.                                          *)

\* The last of S in the direction.
LastIn(S, down, m) == m \in S /\ \A j \in S : IF down THEN m >= j ELSE m <= j

\* There is one upwards, and downwards below a bound.
LEMMA NextOfExists ==
    ASSUME NEW S, S \subseteq Nat, S # {}, NEW down \in BOOLEAN,
           down => \E b \in Nat : \A j \in S : j <= b
    PROVE  LastIn(S, down, NextOf(S, down))
<1>1. \E m \in S : \A j \in S : IF down THEN m >= j ELSE m <= j
  <2>1. CASE down
    BY <2>1, GreatestExists
  <2>2. CASE ~down
    BY <2>2, LeastExists
  <2> QED  BY <2>1, <2>2
<1> QED  BY <1>1 DEF NextOf, LastIn

\* There is no other.
LEMMA NextOfIs ==
    ASSUME NEW S, S \subseteq Nat, NEW down \in BOOLEAN, NEW m, LastIn(S, down, m)
    PROVE  NextOf(S, down) = m
<1>1. LastIn(S, down, NextOf(S, down))
  BY DEF NextOf, LastIn
<1>2. NextOf(S, down) \in Nat /\ m \in Nat /\ m \in S /\ NextOf(S, down) \in S
  BY <1>1 DEF LastIn
<1>3. NextOf(S, down) <= m /\ m <= NextOf(S, down)
  <2>1. CASE down
    BY <1>1, <1>2, <2>1 DEF LastIn
  <2>2. CASE ~down
    BY <1>1, <1>2, <2>2 DEF LastIn
  <2> QED  BY <2>1, <2>2
<1> QED  BY <1>2, <1>3

\* What Beyond and LastIn say, in either direction.
LEMMA InBeyond ==
    ASSUME NEW S, NEW b
    PROVE  /\ Beyond(S, b, FALSE) \subseteq S
           /\ \A j \in S : j \in Beyond(S, b, FALSE) <=> j > b
           /\ Beyond(S, b, TRUE) \subseteq S
           /\ \A j \in S : j \in Beyond(S, b, TRUE) <=> j < b
BY DEF Beyond

\* The same of the last row.
LEMMA IsLast ==
    ASSUME NEW S, NEW m
    PROVE  /\ LastIn(S, FALSE, m) <=> m \in S /\ \A j \in S : m <= j
           /\ LastIn(S, TRUE, m) <=> m \in S /\ \A j \in S : m >= j
BY DEF LastIn

\* The two orders of naturals.
LEMMA Strictly ==
    ASSUME NEW a \in Nat, NEW b \in Nat
    PROVE  (a > b <=> b <= a /\ a # b) /\ (a < b <=> b >= a /\ a # b)
OBVIOUS

\* Two subsets with the same elements.
LEMMA SameRows ==
    ASSUME NEW S, NEW A, NEW B, A \subseteq S, B \subseteq S, \A j \in S : j \in A <=> j \in B
    PROVE  A = B
OBVIOUS

\* The first row at or after a bound leaves the rows after it.
LEMMA FirstUp ==
    ASSUME NEW S \in SUBSET Nat, NEW T, T # {}, T \subseteq S,
           \A i \in T, j \in S : j > i => j \in T,
           NEW row, row = NextOf(T, FALSE)
    PROVE  row \in S /\ T \ {row} = Beyond(S, row, FALSE)
<1>1. LastIn(T, FALSE, row)
  BY NextOfExists
<1>2. row \in T /\ row \in S /\ \A j \in T : row <= j
  BY <1>1, IsLast
<1>3. ASSUME NEW j \in S  PROVE j \in T \ {row} <=> j > row
  <2>1. j \in Nat /\ row \in Nat /\ (j > row => j \in T)
    BY <1>2
  <2>2. j \in T => row <= j
    BY <1>2
  <2>3. j > row <=> row <= j /\ j # row
    BY <2>1, Strictly, Zenon
  <2> QED  BY <2>1, <2>2, <2>3, Zenon
<1>4. T \ {row} \subseteq S
  OBVIOUS
<1>5. Beyond(S, row, FALSE) \subseteq S /\ \A j \in S : j \in Beyond(S, row, FALSE) <=> j > row
  BY InBeyond
<1>6. T \ {row} = Beyond(S, row, FALSE)
  BY <1>3, <1>4, <1>5, SameRows
<1> QED  BY <1>2, <1>6

\* The same downwards, below a bound.
LEMMA FirstDown ==
    ASSUME NEW S \in SUBSET Nat, NEW T, T # {}, T \subseteq S,
           \A i \in T, j \in S : j < i => j \in T,
           NEW b \in Nat, \A j \in T : j <= b,
           NEW row, row = NextOf(T, TRUE)
    PROVE  row \in S /\ T \ {row} = Beyond(S, row, TRUE)
<1>1. LastIn(T, TRUE, row)
  BY NextOfExists
<1>2. row \in T /\ row \in S /\ \A j \in T : row >= j
  BY <1>1, IsLast
<1>3. ASSUME NEW j \in S  PROVE j \in T \ {row} <=> j < row
  <2>1. j \in Nat /\ row \in Nat /\ (j < row => j \in T)
    BY <1>2
  <2>2. j \in T => row >= j
    BY <1>2
  <2>3. j < row <=> row >= j /\ j # row
    BY <2>1, Strictly, Zenon
  <2> QED  BY <2>1, <2>2, <2>3, Zenon
<1>4. T \ {row} \subseteq S
  OBVIOUS
<1>5. Beyond(S, row, TRUE) \subseteq S /\ \A j \in S : j \in Beyond(S, row, TRUE) <=> j < row
  BY InBeyond
<1>6. T \ {row} = Beyond(S, row, TRUE)
  BY <1>3, <1>4, <1>5, SameRows
<1> QED  BY <1>2, <1>6

\* The next row after b leaves the rows after that row.
LEMMA BeyondNext ==
    ASSUME NEW S \in SUBSET Nat, NEW b \in S, NEW down \in BOOLEAN, Beyond(S, b, down) # {},
           NEW row, row = NextOf(Beyond(S, b, down), down)
    PROVE  row \in S /\ Beyond(S, b, down) \ {row} = Beyond(S, row, down)
<1>1. CASE down = TRUE
  <2> DEFINE T == Beyond(S, b, TRUE)
  <2>1. T \subseteq S /\ \A j \in S : j \in T <=> j < b
    BY InBeyond
  <2>2. T # {} /\ row = NextOf(T, TRUE)
    BY <1>1
  <2> HIDE DEF T
  <2>3. (\A i \in T, j \in S : j < i => j \in T) /\ \A j \in T : j <= b
    BY <2>1
  <2>4. row \in S /\ T \ {row} = Beyond(S, row, TRUE)
    BY <2>1, <2>2, <2>3, FirstDown
  <2> QED  BY <1>1, <2>4 DEF T
<1>2. CASE down = FALSE
  <2> DEFINE T == Beyond(S, b, FALSE)
  <2>1. T \subseteq S /\ \A j \in S : j \in T <=> j > b
    BY InBeyond
  <2>2. T # {} /\ row = NextOf(T, FALSE)
    BY <1>2
  <2> HIDE DEF T
  <2>3. \A i \in T, j \in S : j > i => j \in T
    BY <2>1
  <2>4. row \in S /\ T \ {row} = Beyond(S, row, FALSE)
    BY <2>1, <2>2, <2>3, FirstUp
  <2> QED  BY <1>2, <2>4 DEF T
<1> QED  BY <1>1, <1>2

Relations == {">", ">=", "<", "<="}

\* The rows of a START, in a table that is not weak.
LEMMA RowsOf ==
    ASSUME ~weak, NEW S, NEW k
    PROVE  /\ \A o : getwhere(S, o, k) \subseteq S
           /\ \A j \in S : j \in getwhere(S, ">", k) <=> j > k
           /\ \A j \in S : j \in getwhere(S, ">=", k) <=> j >= k
           /\ \A j \in S : j \in getwhere(S, "<", k) <=> j < k
           /\ \A j \in S : j \in getwhere(S, "<=", k) <=> j <= k
BY DEF getwhere

\* The order of a START.
LEMMA Orders ==
    /\ Backward(">") = FALSE /\ Backward(">=") = FALSE
    /\ Backward("<") = TRUE /\ Backward("<=") = TRUE
BY DEF Backward

\* The first row of a START, in a table that is not weak, leaves the rows after it.
LEMMA FirstOfRows ==
    ASSUME ~weak, NEW S \in SUBSET Nat, NEW k \in Nat, NEW o \in Relations,
           getwhere(S, o, k) # {},
           NEW row, row = NextOf(getwhere(S, o, k), Backward(o))
    PROVE  row \in S /\ getwhere(S, o, k) \ {row} = Beyond(S, row, Backward(o))
<1> DEFINE T == getwhere(S, o, k)
<1>0. T # {} /\ row = NextOf(T, Backward(o)) /\ o \in {">", ">=", "<", "<="} /\ T \subseteq S
  BY RowsOf DEF Relations
<1>1. ASSUME NEW bot \in Nat, \A j \in S : j \in T <=> j >= bot, Backward(o) = FALSE
      PROVE  row \in S /\ T \ {row} = Beyond(S, row, Backward(o))
  <2> HIDE DEF T
  <2>1. \A i \in T, j \in S : j > i => j \in T
    BY <1>0, <1>1
  <2> QED  BY <1>0, <1>1, <2>1, FirstUp
<1>2. ASSUME NEW top \in Int, \A j \in S : j \in T <=> j <= top, Backward(o) = TRUE
      PROVE  row \in S /\ T \ {row} = Beyond(S, row, Backward(o))
  <2> HIDE DEF T
  <2>1. PICK i \in T : i \in S
    BY <1>0
  <2>2. top \in Nat
    BY <1>2, <2>1
  <2>3. (\A h \in T, j \in S : j < h => j \in T) /\ \A j \in T : j <= top
    BY <1>0, <1>2
  <2> QED  BY <1>0, <1>2, <2>2, <2>3, FirstDown
<1> SUFFICES row \in S /\ T \ {row} = Beyond(S, row, Backward(o))
  OBVIOUS
<1>3. CASE o = ">"
  <2>1. k + 1 \in Nat /\ Backward(o) = FALSE /\ \A j \in S : j > k <=> j >= k + 1
    BY <1>3, Orders
  <2>2. \A j \in S : j \in T <=> j > k
    BY <1>3, RowsOf
  <2> HIDE DEF T
  <2> QED  BY <1>1, <2>1, <2>2
<1>4. CASE o = ">="
  <2>1. k \in Nat /\ Backward(o) = FALSE /\ \A j \in S : j >= k <=> j >= k
    BY <1>4, Orders
  <2>2. \A j \in S : j \in T <=> j >= k
    BY <1>4, RowsOf
  <2> HIDE DEF T
  <2> QED  BY <1>1, <2>1, <2>2
<1>5. CASE o = "<"
  <2>1. k - 1 \in Int /\ Backward(o) = TRUE /\ \A j \in S : j < k <=> j <= k - 1
    BY <1>5, Orders
  <2>2. \A j \in S : j \in T <=> j < k
    BY <1>5, RowsOf
  <2> HIDE DEF T
  <2> QED  BY <1>2, <2>1, <2>2
<1>6. CASE o = "<="
  <2>1. k \in Int /\ Backward(o) = TRUE /\ \A j \in S : j <= k <=> j <= k
    BY <1>6, Orders
  <2>2. \A j \in S : j \in T <=> j <= k
    BY <1>6, RowsOf
  <2> HIDE DEF T
  <2> QED  BY <1>2, <2>1, <2>2
<1> QED  BY <1>0, <1>3, <1>4, <1>5, <1>6

\* A START at the row b of S: > and < select the rows after it, >= and <= also
\* the row, which comes first.
LEMMA RowsAtRow ==
    ASSUME ~weak, NEW S \in SUBSET Nat, NEW b \in S, NEW o \in Relations
    PROVE  /\ o \in {">", "<"} => getwhere(S, o, b) = Beyond(S, b, Backward(o))
           /\ o \in {">=", "<="} => /\ b \in getwhere(S, o, b)
                                    /\ NextOf(getwhere(S, o, b), Backward(o)) = b
                                    /\ getwhere(S, o, b) \ {b} = Beyond(S, b, Backward(o))
<1>1. CASE o = ">"
  <2>1. getwhere(S, ">", b) \subseteq S /\ \A j \in S : j \in getwhere(S, ">", b) <=> j > b
    BY RowsOf
  <2>2. Beyond(S, b, FALSE) \subseteq S /\ \A j \in S : j \in Beyond(S, b, FALSE) <=> j > b
    BY InBeyond
  <2>3. getwhere(S, ">", b) = Beyond(S, b, FALSE)
    BY <2>1, <2>2, SameRows
  <2> QED  BY <1>1, <2>3, Orders
<1>2. CASE o = "<"
  <2>1. getwhere(S, "<", b) \subseteq S /\ \A j \in S : j \in getwhere(S, "<", b) <=> j < b
    BY RowsOf
  <2>2. Beyond(S, b, TRUE) \subseteq S /\ \A j \in S : j \in Beyond(S, b, TRUE) <=> j < b
    BY InBeyond
  <2>3. getwhere(S, "<", b) = Beyond(S, b, TRUE)
    BY <2>1, <2>2, SameRows
  <2> QED  BY <1>2, <2>3, Orders
<1>3. CASE o = ">="
  <2> DEFINE T == getwhere(S, ">=", b)
  <2>1. T \subseteq S /\ \A j \in S : j \in T <=> j >= b
    BY RowsOf
  <2> HIDE DEF T
  <2>2. T \subseteq Nat /\ b \in T /\ \A j \in T : b <= j
    BY <2>1
  <2>3. NextOf(T, FALSE) = b
    BY <2>2, IsLast, NextOfIs
  <2>4. ASSUME NEW j \in S  PROVE j \in T \ {b} <=> j > b
    <3>1. j \in Nat /\ b \in Nat /\ (j \in T <=> j >= b)
      BY <2>1
    <3> QED  BY <3>1
  <2>6. Beyond(S, b, FALSE) \subseteq S /\ \A j \in S : j \in Beyond(S, b, FALSE) <=> j > b
    BY InBeyond
  <2>7. T \ {b} \subseteq S
    BY <2>1
  <2>5. T \ {b} = Beyond(S, b, FALSE)
    BY <2>4, <2>6, <2>7, SameRows
  <2> QED  BY <1>3, <2>2, <2>3, <2>5, Orders DEF T
<1>4. CASE o = "<="
  <2> DEFINE T == getwhere(S, "<=", b)
  <2>1. T \subseteq S /\ \A j \in S : j \in T <=> j <= b
    BY RowsOf
  <2> HIDE DEF T
  <2>2. T \subseteq Nat /\ b \in T /\ \A j \in T : b >= j
    BY <2>1
  <2>3. NextOf(T, TRUE) = b
    BY <2>2, IsLast, NextOfIs
  <2>4. ASSUME NEW j \in S  PROVE j \in T \ {b} <=> j < b
    <3>1. j \in Nat /\ b \in Nat /\ (j \in T <=> j <= b)
      BY <2>1
    <3> QED  BY <3>1
  <2>6. Beyond(S, b, TRUE) \subseteq S /\ \A j \in S : j \in Beyond(S, b, TRUE) <=> j < b
    BY InBeyond
  <2>7. T \ {b} \subseteq S
    BY <2>1
  <2>5. T \ {b} = Beyond(S, b, TRUE)
    BY <2>4, <2>6, <2>7, SameRows
  <2> QED  BY <1>4, <2>2, <2>3, <2>5, Orders DEF T
<1> QED  BY <1>1, <1>2, <1>3, <1>4 DEF Relations

--------------------------------------------------------------------------------
(* READ returns the records of the scan.                                   *)

\* The program READs the row of a START before it calls anything else.
Patient == Hasty = FALSE

\* START = is for weak tables only.
NoEqual == "=" \notin Ops[FALSE]

\* No cursor and no START before the first call.
LEMMA ScanInit == Init => ScanInv
<1> SUFFICES ASSUME Init PROVE ScanInv
  OBVIOUS
<1>1. PendInv
  BY DEF Init, PendInv
<1>2. WantInv /\ IntactInv
  BY DEF Init, WantInv, IntactInv
<1> QED  BY <1>1, <1>2 DEF ScanInv

\* A relation START uses on a table that is not weak.
LEMMA StartRelation ==
    ASSUME NoEqual, weak \in BOOLEAN, NEW o \in Ops[weak]
    PROVE  /\ ~weak => o \in Relations
           /\ Dir(o) \in {"n", "p"} /\ Dir(o) # "0"
           /\ (Dir(o) = "p") = Backward(o)
           /\ o = ">=" => Dir(o) = "n"
           /\ o = "<=" => Dir(o) = "p"
<1>1. o \in {">", ">=", "<", "<=", "="}
  BY OpsAssumption
<1>2. ~weak => o # "="
  BY DEF NoEqual
<1> QED  BY <1>1, <1>2 DEF Dir, Backward, Relations

\* A START comes when the row of the one before has been read.
LEMMA StartingFresh ==
    ASSUME Patient, PendInv, NEW o, Starting(o)
    PROVE  first = FALSE /\ restart = "0"
BY DEF Patient, PendInv, Starting, Pending

\* So do the calls by key.
LEMMA CallingFresh ==
    ASSUME Patient, PendInv, Calling
    PROVE  first = FALSE /\ restart = "0"
BY DEF Patient, PendInv, Calling, Pending

\* Nothing the invariant is about changes; another file may set eof_start.
LEMMA OtherScan ==
    ASSUME ScanInv,
           UNCHANGED <<weak, table, saved, live, held, todo, desc, first, restart, key_next,
                       key_prev, buf_next, buf_prev, rec, scanVars, inserted>>
    PROVE  ScanInv'
<1> USE DEF ScanInv, scanVars
<1>1. PendInv'
  BY DEF PendInv
<1>2. UNCHANGED <<Buf, KeyOf, Down0>>
  BY DEF Buf, KeyOf, Down0
<1>3. WantInv' /\ IntactInv'
  BY <1>2 DEF WantInv, IntactInv, At
<1> QED  BY <1>1, <1>3

\* The shortcut finds the cursor at the row of the START.
LEMMA ShortcutScan ==
    ASSUME Patient, NoEqual, ScanInv, NEW o \in Ops[weak], NEW k \in Keys, StartShortcut(o, k)
    PROVE  ScanInv'
<1> USE DEF ScanInv
<1>1. first = FALSE /\ restart = "0" /\ weak \in BOOLEAN /\ table \subseteq Keys
  BY StartingFresh DEF StartShortcut, PendInv
<1>2. /\ ~weak => o \in Relations
      /\ Dir(o) \in {"n", "p"} /\ Dir(o) # "0"
      /\ (Dir(o) = "p") = Backward(o)
      /\ o = ">=" => Dir(o) = "n"
      /\ o = "<=" => Dir(o) = "p"
  BY <1>1, StartRelation
<1>3. /\ UNCHANGED <<weak, table, saved, live, held, todo, desc, first, key_next, key_prev,
                     buf_next, buf_prev, inserted>>
      /\ restart' = Restart(o) /\ own_eof' = FALSE /\ dir' = Dir(o)
      /\ want' = getwhere(table \ inserted, o, k)
      /\ intact' = (intact /\ dir = Dir(o))
      /\ checked' = (intact' /\ live /\ o # "=" /\ ~weak)
      /\ Shortcut(o, k)
  BY DEF StartShortcut, dbVars, curVars, EofStart
<1>4. PendInv'
  BY <1>1, <1>2, <1>3 DEF PendInv, Restart
<1>5. ASSUME intact'  PROVE intact /\ UNCHANGED <<Buf, KeyOf, Down0>> /\ dir' = dir
  BY <1>3, <1>5 DEF Buf, KeyOf, Down0
<1>6. IntactInv'
  <2> SUFFICES ASSUME intact' PROVE IntactInv'
    BY DEF IntactInv
  <2> QED  BY <1>3, <1>5 DEF IntactInv, At
<1>7. WantInv'
  <2> SUFFICES ASSUME checked' PROVE WantInv'
    BY DEF WantInv
  <2>1. intact' /\ live /\ o # "=" /\ ~weak
    BY <1>3
  <2>2. KeyOf /\ Buf = k /\ dir = Dir(o) /\ desc = Down0
    BY <1>2, <1>3, <1>5, <2>1 DEF Shortcut, KeyOf, Buf, IntactInv
  <2>3. k \in table \ inserted /\ todo = Beyond(table \ inserted, k, Backward(o))
    BY <1>2, <1>5, <2>1, <2>2 DEF IntactInv, At
  <2>4. Down0 = Backward(o)
    BY <1>2, <2>1, <2>2 DEF Down0
  <2>5. table \ inserted \in SUBSET Nat /\ o \in Relations
    BY <1>1, <1>2, <2>1, KeysAssumption
  <2>6. /\ o \in {">", "<"} => want' = todo
        /\ o \in {">=", "<="} => want' # {} /\ NextOf(want', Down0) = k /\ todo = want' \ {k}
    BY <1>3, <2>1, <2>3, <2>4, <2>5, RowsAtRow
  <2>7. dir' # "0" /\ own_eof' = FALSE /\ first' = FALSE /\ desc' = Down0' /\ Buf' = k
        /\ todo' = todo /\ Down0' = Down0
    BY <1>1, <1>2, <1>3, <1>5, <2>1, <2>2
  <2>8. CASE o \in {">", "<"}
    <3>1. restart' = "0"
      BY <1>1, <1>3, <2>8 DEF Restart
    <3> QED  BY <2>6, <2>7, <2>8, <3>1 DEF WantInv
  <2>9. CASE o \in {">=", "<="}
    <3>1. restart' # "0"
      BY <1>3, <2>9 DEF Restart
    <3> QED  BY <2>6, <2>7, <2>9, <3>1 DEF WantInv
  <2> QED  BY <2>5, <2>8, <2>9 DEF Relations
<1> QED  BY <1>4, <1>6, <1>7

\* START of a weak table finds nothing: no READ returns a row.
LEMMA WeakScan ==
    ASSUME Patient, NoEqual, ScanInv, NEW o \in Ops[weak], NEW k \in Keys, StartWeak(o, k)
    PROVE  ScanInv'
<1> USE DEF ScanInv
<1>1. first = FALSE /\ restart = "0" /\ Dir(o) \in {"n", "p"}
  BY StartingFresh, StartRelation DEF StartWeak, PendInv
<1>2. /\ UNCHANGED <<weak, table, saved, first, restart>>
      /\ own_eof' = TRUE /\ dir' = Dir(o) /\ want' = {} /\ checked' = TRUE /\ intact' = FALSE
  BY DEF StartWeak, dbVars
<1>3. PendInv'
  BY <1>1, <1>2 DEF PendInv
<1>4. WantInv' /\ IntactInv'
  BY <1>1, <1>2 DEF WantInv, IntactInv
<1> QED  BY <1>3, <1>4

\* A START with a bad key that does not end the process fails the same way.
LEMMA BadScan ==
    ASSUME Patient, NoEqual, ScanInv, NEW o \in Ops[weak], StartBad(o)
    PROVE  ScanInv'
<1> USE DEF ScanInv
<1>1. first = FALSE /\ restart = "0" /\ Dir(o) \in {"n", "p"}
  BY StartingFresh, StartRelation DEF StartBad, PendInv
<1>2. CASE Exit
  BY <1>2, OtherScan DEF Exit, dbVars, curVars, tabVars
<1>3. CASE ~Exit
  <2>1. /\ UNCHANGED <<weak, table, saved, first, restart>>
        /\ own_eof' = TRUE /\ dir' = Dir(o) /\ want' = {} /\ checked' = TRUE /\ intact' = FALSE
    BY <1>3 DEF StartBad
  <2>2. PendInv'
    BY <1>1, <2>1 DEF PendInv
  <2>3. WantInv' /\ IntactInv'
    BY <1>1, <2>1 DEF WantInv, IntactInv
  <2> QED  BY <2>2, <2>3
<1> QED  BY <1>2, <1>3

\* A new cursor: its first row is fetched, the rest is to be read.
LEMMA DeclareScan ==
    ASSUME Patient, NoEqual, ScanInv, NEW o \in Ops[weak], NEW k \in Keys, StartDeclare(o, k)
    PROVE  ScanInv'
<1> USE DEF ScanInv
<1> DEFINE rows == getwhere(table, o, k)
           row  == NextOf(rows, Down(o))
<1>1. first = FALSE /\ restart = "0" /\ weak \in BOOLEAN /\ table \subseteq Keys
  BY StartingFresh DEF StartDeclare, PendInv
<1>2. /\ ~weak => o \in Relations
      /\ Dir(o) \in {"n", "p"} /\ Dir(o) # "0"
      /\ (Dir(o) = "p") = Backward(o)
  BY <1>1, StartRelation
<1>3. /\ UNCHANGED <<weak, table, saved>>
      /\ live' = TRUE /\ held' = FALSE /\ desc' = Down(o) /\ restart' = "0" /\ own_eof' = FALSE
      /\ dir' = Dir(o) /\ want' = rows /\ checked' = TRUE /\ inserted' = {}
  BY DEF StartDeclare, dbVars, EofStart
<1>4. CASE rows = {}
  <2>1. todo' = {} /\ first' = FALSE /\ intact' = FALSE
    BY <1>1, <1>2, <1>4 DEF StartDeclare, FirstRow
  <2>2. PendInv'
    BY <1>1, <1>2, <1>3, <2>1 DEF PendInv
  <2>3. Down0' = desc'
    BY <1>2, <1>3 DEF Down0, Down
  <2>4. WantInv' /\ IntactInv'
    BY <1>2, <1>3, <1>4, <2>1, <2>3 DEF WantInv, IntactInv
  <2> QED  BY <2>2, <2>4
<1>5. CASE rows # {}
  <2>1. /\ rec' = row /\ todo' = rows \ {row} /\ first' = TRUE /\ intact' = TRUE
        /\ buf_next' = IF Dir(o) = "n" THEN row ELSE buf_next
        /\ buf_prev' = IF Dir(o) = "p" THEN row ELSE buf_prev
    BY <1>1, <1>2, <1>5 DEF StartDeclare, FirstRow
  <2>2. Down0' = desc' /\ Down0' = Down(o) /\ Buf' = row
    BY <1>2, <1>3, <2>1 DEF Down0, Down, Buf
  <2>3. PendInv'
    BY <1>1, <1>2, <1>3, <2>1 DEF PendInv
  <2>4. WantInv'
    BY <1>2, <1>3, <1>5, <2>1, <2>2 DEF WantInv
  <2>5. ASSUME ~weak  PROVE row \in table /\ rows \ {row} = Beyond(table, row, Backward(o))
    <3>1. table \in SUBSET Nat /\ k \in Nat /\ o \in Relations
      BY <1>1, <1>2, <2>5, KeysAssumption
    <3>2. row = NextOf(rows, Backward(o))
      BY <2>5 DEF Down, Backward
    <3> QED  BY <1>5, <2>5, <3>1, <3>2, FirstOfRows
  <2>6. ~weak => At(table \ inserted, Buf)'
    BY <1>2, <1>3, <2>1, <2>2, <2>5 DEF At
  <2>7. IntactInv'
    BY <1>2, <1>3, <2>1, <2>2, <2>6 DEF IntactInv
  <2> QED  BY <2>3, <2>4, <2>7
<1> QED  BY <1>4, <1>5

\* A READ that leaves the cursor and the remembered row alone.
LEMMA TurnIntact ==
    ASSUME IntactInv, NEW d \in {"n", "p"}, Turn(d),
           UNCHANGED <<weak, table, saved, live, held, todo, desc, key_next, key_prev,
                       buf_next, buf_prev, inserted>>
    PROVE  IntactInv'
<1> SUFFICES ASSUME intact' PROVE IntactInv'
  BY DEF IntactInv
<1>1. intact /\ dir' = dir
  BY DEF Turn
<1> QED  BY <1>1 DEF IntactInv, At, Buf, KeyOf, Down0

\* What a READ in the direction of the START leaves to be read.
LEMMA ReadScan ==
    ASSUME Patient, ScanInv, NEW d \in {"n", "p"}, op_next_prev(d)
    PROVE  ScanInv'
<1> USE DEF ScanInv, dbVars, curVars, tabVars
<1>0. Turn(d) /\ UNCHANGED <<weak, table, saved, own_eof>>
      /\ dir' \in {"0", "n", "p"} /\ checked' \in BOOLEAN /\ intact' \in BOOLEAN
  BY DEF op_next_prev, ReadFirst, ReadEof, ReadRestart, ReadFetch, ReadEnd, Turn, PendInv
<1>1. checked' => checked /\ d = dir /\ dir' = dir /\ Down0' = Down0
  BY <1>0 DEF Turn, Down0
<1>2. CASE ReadFirst(d)
  <2>1. /\ first /\ first' = FALSE /\ restart = "0" /\ ~own_eof /\ want' = want \ {rec}
        /\ UNCHANGED <<live, held, todo, desc, restart, key_next, key_prev, buf_next, buf_prev, inserted>>
    BY <1>2 DEF ReadFirst, PendInv
  <2>2. PendInv'
    BY <1>0, <2>1 DEF PendInv
  <2>3. WantInv'
    BY <1>0, <1>1, <2>1 DEF WantInv
  <2> QED  BY <1>0, <2>1, <2>2, <2>3, TurnIntact
<1>3. CASE ReadEof(d)
  <2>1. /\ first = FALSE
        /\ UNCHANGED <<live, held, todo, desc, first, restart, key_next, key_prev, buf_next,
                       buf_prev, rec, want, inserted>>
    BY <1>3 DEF ReadEof, PendInv
  <2>2. PendInv'
    BY <1>0, <1>1, <2>1 DEF PendInv
  <2>3. WantInv'
    BY <1>0, <1>1, <2>1 DEF WantInv, Buf
  <2> QED  BY <1>0, <2>1, <2>2, <2>3, TurnIntact
<1>4. CASE ReadRestart(d)
  <2>1. /\ restart = d /\ ~own_eof /\ first = FALSE /\ restart' = "0"
        /\ want' = want \ {IF d = "n" THEN buf_next ELSE buf_prev}
        /\ UNCHANGED <<live, held, todo, desc, first, key_next, key_prev, buf_next, buf_prev, inserted>>
    BY <1>4 DEF ReadRestart, PendInv
  <2>2. PendInv'
    BY <1>0, <2>1 DEF PendInv
  <2>3. WantInv'
    BY <1>0, <1>1, <2>1 DEF WantInv, Buf
  <2> QED  BY <1>0, <2>1, <2>2, <2>3, TurnIntact
<1>5. CASE ReadEnd(d)
  <2>1. /\ restart # d /\ first = FALSE /\ restart' = "0"
        /\ UNCHANGED <<live, held, todo, desc, first, key_next, key_prev, buf_next, buf_prev, want, inserted>>
    BY <1>5 DEF ReadEnd, PendInv
  <2>2. PendInv'
    BY <1>0, <2>1 DEF PendInv
  <2>3. WantInv'
    BY <1>0, <1>1, <2>1 DEF WantInv, PendInv
  <2> QED  BY <1>0, <2>1, <2>2, <2>3, TurnIntact
<1>6. CASE ReadFetch(d)
  <2> DEFINE row == NextOf(todo, desc)
  <2>1. /\ restart # d /\ first = FALSE /\ restart' = "0" /\ todo # {} /\ live
        /\ todo' = todo \ {row} /\ want' = want \ {row}
        /\ buf_next' = IF d = "n" THEN row ELSE buf_next
        /\ buf_prev' = IF d = "p" THEN row ELSE buf_prev
        /\ UNCHANGED <<live, held, desc, first, key_next, key_prev, inserted>>
    BY <1>6 DEF ReadFetch, PendInv
  <2>2. PendInv'
    BY <1>0, <2>1 DEF PendInv
  <2>3. WantInv'
    BY <1>0, <1>1, <2>1 DEF WantInv, PendInv
  <2>4. IntactInv'
    <3> SUFFICES ASSUME intact' PROVE IntactInv'
      BY DEF IntactInv
    <3>1. intact /\ d = dir /\ dir' = dir /\ dir # "0" /\ desc = Down0 /\ Down0' = Down0
      BY <1>0 DEF Turn, IntactInv, Down0
    <3>2. Buf' = row /\ KeyOf' = KeyOf
      BY <2>1, <3>1 DEF Buf, KeyOf
    <3>3. ASSUME NEW S \in SUBSET Nat, At(S, Buf), ~weak
          PROVE  row \in S /\ todo' = Beyond(S, row, dir = "p")
      <4> DEFINE down == dir = "p"
      <4>1. row = NextOf(Beyond(S, Buf, down), down) /\ Beyond(S, Buf, down) # {}
        BY <2>1, <3>1, <3>3 DEF At, Down0
      <4>2. down \in BOOLEAN /\ Buf \in S
        BY <3>3 DEF At
      <4> HIDE DEF row, down
      <4>3. row \in S /\ Beyond(S, Buf, down) \ {row} = Beyond(S, row, down)
        BY <4>1, <4>2, BeyondNext
      <4> QED  BY <2>1, <3>3, <4>3, Zenon DEF At, down
    <3>4. table \ inserted \in SUBSET Nat /\ saved \ inserted \in SUBSET Nat
      BY KeysAssumption DEF PendInv
    <3>5. ASSUME ~weak, KeyOf
          PROVE  /\ row \in table \ inserted /\ todo' = Beyond(table \ inserted, row, dir = "p")
                 /\ held => row \in saved \ inserted /\ todo' = Beyond(saved \ inserted, row, dir = "p")
      <4>1. At(table \ inserted, Buf) /\ (held => At(saved \ inserted, Buf))
        BY <2>1, <3>1, <3>5 DEF IntactInv
      <4> QED  BY <3>3, <3>4, <3>5, <4>1
    <3> QED  BY <1>0, <2>1, <3>1, <3>2, <3>5 DEF IntactInv, At
  <2> QED  BY <2>2, <2>3, <2>4
<1> QED  BY <1>2, <1>3, <1>4, <1>5, <1>6 DEF op_next_prev

\* A call by key comes between a READ and a START: the program has the row.
\* A new row is one the cursor cannot see; after REWRITE and DELETE there is
\* no remembered row.
LEMMA CallScan ==
    ASSUME Patient, ScanInv, NEW k \in Touched,
           op_read_random(k) \/ op_write(k) \/ op_rewrite(k) \/ op_delete(k)
    PROVE  ScanInv'
<1> USE DEF ScanInv, dbVars, curVars, tabVars, scanVars
<1>1. /\ first = FALSE /\ restart = "0" /\ restart' = "0" /\ k \in Keys
      /\ UNCHANGED <<weak, saved, live, held, todo, desc, first, buf_next, buf_prev, own_eof,
                     dir, want, checked, intact>>
  <2>1. Calling
    BY DEF op_read_random, op_write, op_rewrite, op_delete
  <2>2. first = FALSE /\ restart = "0"
    BY <2>1, CallingFresh
  <2> QED  BY <2>2, KeysAssumption DEF op_read_random, op_write, op_rewrite, op_delete, Forget
<1>2. table' \subseteq Keys
  BY <1>1 DEF op_read_random, op_write, op_rewrite, op_delete, PendInv
<1>3. PendInv'
  BY <1>1, <1>2 DEF PendInv
<1>4. WantInv'
  <2>1. UNCHANGED <<Buf, Down0>>
    BY <1>1 DEF Buf, Down0
  <2> QED  BY <1>1, <2>1 DEF WantInv
<1>5. CASE key_next' = FALSE /\ key_prev' = FALSE
  <2>1. ~KeyOf'
    BY <1>5 DEF KeyOf
  <2> QED  BY <1>1, <1>3, <1>4, <2>1 DEF IntactInv, Down0
<1>6. CASE UNCHANGED <<key_next, key_prev, table, inserted>>
  <2>1. IntactInv'
    BY <1>1, <1>6 DEF IntactInv, At, Buf, KeyOf, Down0
  <2> QED  BY <1>3, <1>4, <2>1
<1>7. CASE /\ Found(k, Prepare("full")) = {}
           /\ table' = table \cup {k} /\ inserted' = inserted \cup {k}
           /\ UNCHANGED <<key_next, key_prev>>
  <2>1. k \notin table
    BY <1>7 DEF Found
  <2>2. table' \ inserted' = table \ inserted
    BY <1>7, <2>1
  <2>3. ASSUME At(table \ inserted, Buf), At(saved \ inserted, Buf)
        PROVE  Buf \in saved \ inserted' /\ todo = Beyond(saved \ inserted', Buf, dir = "p")
    <3>1. Buf # k /\ k \notin todo
      BY <2>1, <2>3 DEF At, Beyond
    <3>2. saved \ inserted' = (saved \ inserted) \ {k}
      BY <1>7
    <3>3. Beyond((saved \ inserted) \ {k}, Buf, dir = "p")
            = Beyond(saved \ inserted, Buf, dir = "p") \ {k}
      BY DEF Beyond
    <3> QED  BY <2>3, <3>1, <3>2, <3>3 DEF At
  <2>4. UNCHANGED <<Buf, KeyOf, Down0>>
    BY <1>1, <1>7 DEF Buf, KeyOf, Down0
  <2>5. IntactInv'
    BY <1>1, <2>2, <2>3, <2>4 DEF IntactInv, At
  <2> QED  BY <1>3, <1>4, <2>5
<1> QED  BY <1>5, <1>6, <1>7 DEF op_read_random, op_write, op_rewrite, op_delete, Forget, Sees

\* A call by key with a bad key: at most the remembered row is forgotten.
LEMMA BadCallScan ==
    ASSUME Patient, ScanInv, CallBad
    PROVE  ScanInv'
<1> USE DEF ScanInv
<1>1. CASE Exit
  BY <1>1, OtherScan DEF Exit, dbVars, curVars, tabVars
<1>2. CASE ~Exit
  <2>1. first = FALSE /\ restart = "0"
    BY CallingFresh DEF CallBad
  <2>2. /\ UNCHANGED <<weak, table, saved, live, held, todo, desc, first, buf_next, buf_prev,
                       scanVars, inserted>>
        /\ \/ restart' = "0" /\ key_next' = FALSE /\ key_prev' = FALSE
           \/ UNCHANGED <<restart, key_next, key_prev>>
    BY <1>2 DEF CallBad, Forget, curVars
  <2>3. PendInv'
    BY <2>1, <2>2 DEF PendInv, scanVars
  <2>4. UNCHANGED <<Buf, Down0>> /\ (KeyOf' => KeyOf)
    BY <2>2 DEF Buf, Down0, KeyOf, scanVars
  <2>5. WantInv'
    BY <2>1, <2>2, <2>4 DEF WantInv, scanVars
  <2>6. IntactInv'
    BY <2>2, <2>4 DEF IntactInv, At, scanVars
  <2> QED  BY <2>3, <2>5, <2>6
<1> QED  BY <1>1, <1>2

\* The end of a transaction: a rollback takes the table and the cursor back to
\* the last commit together.
LEMMA EndScan ==
    ASSUME ScanInv, NEW rollback \in BOOLEAN, EndTransaction(rollback)
    PROVE  ScanInv'
<1> USE DEF ScanInv, tabVars, scanVars
<1>1. UNCHANGED <<weak, todo, desc, first, restart, own_eof, key_next, key_prev, buf_next,
                  buf_prev, rec, dir, want, checked, intact, inserted>>
  BY DEF EndTransaction
<1>2. \/ table' = saved /\ saved' = saved /\ live' = (live /\ held) /\ held' = held
      \/ table' = table /\ saved' = table /\ live' = live /\ held' = live
  BY DEF EndTransaction
<1>3. PendInv'
  BY <1>1, <1>2 DEF PendInv
<1>4. UNCHANGED <<Buf, KeyOf, Down0>>
  BY <1>1 DEF Buf, KeyOf, Down0
<1>5. WantInv'
  BY <1>1, <1>4 DEF WantInv
<1>6. IntactInv'
  <2> SUFFICES ASSUME intact PROVE IntactInv'
    BY <1>1 DEF IntactInv
  <2>1. CASE table' = saved /\ saved' = saved /\ live' = (live /\ held) /\ held' = held
    BY <1>1, <1>4, <2>1 DEF IntactInv, At
  <2>2. CASE table' = table /\ saved' = table /\ live' = live /\ held' = live
    BY <1>1, <1>4, <2>2 DEF IntactInv, At
  <2> QED  BY <1>2, <2>1, <2>2
<1> QED  BY <1>3, <1>5, <1>6

\* Every step keeps the cursor where the scan is.
LEMMA ScanStep == ASSUME Patient, NoEqual, ScanInv, [Next]_vars PROVE ScanInv'
<1>1. ASSUME NEW o \in Ops[weak], NEW k \in Keys, op_start(o, k)  PROVE ScanInv'
  <2>1. CASE StartExit(o, k)
    BY <2>1, OtherScan DEF StartExit, Exit, dbVars, curVars, tabVars
  <2> QED  BY <1>1, <2>1, ShortcutScan, WeakScan, DeclareScan DEF op_start
<1>2. CASE CallExit \/ OtherFails \/ OtherStart
  BY <1>2, OtherScan DEF CallExit, OtherFails, OtherStart, Exit, dbVars, curVars, tabVars
<1>3. CASE UNCHANGED vars
  BY <1>3, OtherScan DEF vars, dbVars, curVars, tabVars
<1> QED  BY <1>1, <1>2, <1>3, BadScan, ReadScan, CallScan, BadCallScan, EndScan DEF Next

\* READ after READ, whatever is written, committed and rolled back between
\* them, a program that reads the row of a START before it calls anything else
\* gets the records of the scan in order, none left out and none twice; after
\* a START that found nothing only a START of another file can make it read.
THEOREM ScanCorrect == ASSUME Patient, NoEqual PROVE Spec => ScanRight
<1>1. ScanInv /\ [Next]_vars
        => [checked' /\ status' = "00" /\ Reads => InScan \/ (own_eof /\ ~eof_start)]_vars
  <2> SUFFICES ASSUME ScanInv, NEW d \in {"n", "p"}, op_next_prev(d), status' = "00", checked'
               PROVE  InScan \/ (own_eof /\ ~eof_start)
    BY DEF Reads
  <2>1. PendInv /\ WantInv
    BY DEF ScanInv
  <2>2. checked /\ d = dir
    BY DEF op_next_prev, ReadFirst, ReadEof, ReadRestart, ReadFetch, ReadEnd, Turn
  <2>3. CASE ReadFirst(d)
    BY <2>1, <2>2, <2>3 DEF ReadFirst, WantInv, InScan
  <2>4. CASE ReadRestart(d)
    <3>1. rec' = Buf /\ restart # "0"
      BY <2>2, <2>4 DEF ReadRestart, Buf
    <3> QED  BY <2>1, <2>2, <3>1 DEF WantInv, InScan
  <2>5. CASE ReadFetch(d)
    <3>1. ~eof_start /\ ~first /\ restart = "0" /\ todo # {} /\ rec' = NextOf(todo, desc)
      BY <2>1, <2>2, <2>5 DEF ReadFetch, PendInv
    <3> QED  BY <2>1, <2>2, <3>1 DEF WantInv, InScan
  <2>6. CASE ReadEof(d) \/ ReadEnd(d)
    BY <2>6 DEF ReadEof, ReadEnd
  <2> QED  BY <2>3, <2>4, <2>5, <2>6 DEF op_next_prev
<1> QED  BY <1>1, ScanInit, ScanStep, PTL DEF Spec, ScanRight

\* And 10 only at the end of the scan, when the transaction has failed or the
\* cursor is gone, or while the flag set by another file's START stands.
THEOREM EofCorrect == ASSUME Patient, NoEqual PROVE Spec => EofHonest
<1>1. ScanInv /\ [Next]_vars
        => [checked' /\ status' = "10" /\ Reads
             => want = {} \/ aborted \/ ~live \/ (eof_start /\ ~own_eof)]_vars
  <2> SUFFICES ASSUME ScanInv, NEW d \in {"n", "p"}, op_next_prev(d), status' = "10", checked'
               PROVE  want = {} \/ aborted \/ ~live \/ (eof_start /\ ~own_eof)
    BY DEF Reads
  <2>1. PendInv /\ WantInv
    BY DEF ScanInv
  <2>2. checked /\ d = dir
    BY DEF op_next_prev, ReadFirst, ReadEof, ReadRestart, ReadFetch, ReadEnd, Turn
  <2>3. CASE ReadEof(d)
    BY <2>1, <2>2, <2>3 DEF ReadEof, WantInv
  <2>4. CASE ReadEnd(d)
    <3>1. ~first /\ restart = "0" /\ (~live \/ aborted \/ todo = {})
      BY <2>1, <2>2, <2>4 DEF ReadEnd, PendInv
    <3> QED  BY <2>1, <2>2, <3>1 DEF WantInv
  <2>5. CASE ReadFirst(d) \/ ReadRestart(d) \/ ReadFetch(d)
    BY <2>5 DEF ReadFirst, ReadRestart, ReadFetch
  <2> QED  BY <2>3, <2>4, <2>5 DEF op_next_prev
<1> QED  BY <1>1, ScanInit, ScanStep, PTL DEF Spec, EofHonest
================================================================================
