----------------------------- MODULE ChangelogProofs ---------------------------
(***************************************************************************)
(* Proofs about Changelog, for any tables, keys, writers and bounds: the   *)
(* changes of a key reach the ISAM file for the first time in their order, *)
(* and the file converges to the table when the fcd and the columns that   *)
(* sync_execute pairs are those of one table (else a row is read with the  *)
(* columns of another, see the run changelog_tables).                      *)
(*                                                                         *)
(* A pass that is lost is repeated on a file that has its changes already, *)
(* so what the file holds is not a function of the marks.  The invariant   *)
(* says what it can be: the value of the last row that is marked, or the   *)
(* value of some row that is still to come.  It leaves out the keys that   *)
(* were changed without a row.                                             *)
(***************************************************************************)
EXTENDS Changelog, Integers, WellFoundedInduction, TLAPS

\* A non-empty set of naturals has a least element.
LEMMA LeastExists ==
    ASSUME NEW S, S \subseteq Nat, S # {}
    PROVE  \E m \in S : \A j \in S : m <= j
<1>1. PICK m \in S : \A j \in S : ~ (<<j, m>> \in OpToRel(<, Nat))
  BY NatLessThanWellFounded, WFMin, Zenon
<1>2. \A j \in S : <<j, m>> \in OpToRel(<, Nat) <=> j < m
  BY DEF OpToRel
<1>3. \A j \in S : ~ (j < m)
  BY <1>1, <1>2, Zenon
<1> QED  BY <1>3

\* A bounded one has a greatest element.
LEMMA GreatestExists ==
    ASSUME NEW S, S \subseteq Nat, S # {}, NEW b \in Nat, \A j \in S : j <= b
    PROVE  \E m \in S : \A j \in S : m >= j
<1> DEFINE T == {b - j : j \in S}
<1>1. ASSUME NEW j \in S  PROVE j \in Nat /\ b - j \in Nat
  BY <1>1
<1>2. T \subseteq Nat /\ T # {}
  BY <1>1
<1>3. PICK t \in T : \A u \in T : t <= u
  BY <1>2, LeastExists
<1>4. PICK m \in S : t = b - m
  BY <1>3
<1>5. ASSUME NEW j \in S  PROVE m >= j
  <2>1. b - m <= b - j
    BY <1>3, <1>4
  <2> QED  BY <1>1, <2>1
<1> QED  BY <1>5

--------------------------------------------------------------------------------
(* The inductive invariant.                                                *)

Done == {i \in Ids : status[i] \in {"SUCCESS", "ERROR"}}
Committed == Done \cup Pending
Used == {i \in Ids : status[i] # "unused"}
AllOpen == {i \in Ids : status[i] = "open"}
Marks == {i \in Ids : mark[i] # "none"}

Row == [tab : Tables \cup {""}, action : Actions \cup {""}, key : Keys \cup {""},
        val : Nat \cup {""}, pipe : BOOLEAN, by : Writers \cup {Nobody, ""}]

\* The types that the proofs need.
TypeInv ==
    /\ table \in [Tables -> [Keys -> Nat]] /\ isam \in [Tables -> [Keys -> Nat]]
    /\ seq \in 0 .. MaxId
    /\ log \in [Ids -> Row]
    /\ status \in [Ids -> {"unused", "open", "PENDING", "SUCCESS", "ERROR"}]
    /\ spc \in {"sleep", "fetch", "failed"} /\ todo \subseteq Ids
    /\ mark \in [Ids -> {"none", "SUCCESS", "ERROR"}]
    /\ applied \subseteq Ids
    /\ emptied \in [Writers -> [Tables -> [Keys -> Nat]]]

\* Rows of one record, in the log lg.
Same(lg, i, j) == lg[i].tab = lg[j].tab /\ lg[i].key = lg[j].key
RowsOf(lg, S, t, k) == {i \in S : lg[i].tab = t /\ lg[i].key = k}

\* Those of S come before those of T.
Before(lg, S, T) == \A i \in S, j \in T : Same(lg, i, j) => i < j

\* v is what the last row of S has made of a record, if there is one.
ValueOf(lg, S, v) ==
    IF S = {} THEN v = NoRec ELSE \E m \in S : v = lg[m].val /\ \A j \in S : j <= m

\* An insert is the first row of its record or follows a delete.
Chain(lg, U) ==
    \A i \in U :
        /\ (\A j \in U : Same(lg, i, j) => i <= j) => lg[i].action = "insert"
        /\ \A j \in U :
              Same(lg, i, j) /\ j < i /\ (\A h \in U : Same(lg, i, h) => h <= j \/ i <= h)
                  => (lg[i].action = "insert" <=> lg[j].val = NoRec)

\* Rows are of records; those of one record are in the order done, PENDING,
\* open, and the open ones are of one writer.
OrderInv ==
    /\ \A i \in Used : /\ i <= seq /\ log[i].tab \in Tables /\ log[i].key \in Keys
                       /\ log[i].val \in Nat
    /\ \A i \in AllOpen : log[i].by \in Writers
    /\ \A i, j \in AllOpen : Same(log, i, j) => log[i].by = log[j].by
    /\ Before(log, Committed, AllOpen) /\ Before(log, Done, Pending)

\* The rows of the keys that have a row for every change.
Logged == {i \in Used : <<log[i].tab, log[i].key>> \notin unlogged}

ChainInv == Chain(log, Logged)

\* The table has what the last committed row says, and no session has emptied it.
TableInv ==
    \A t \in Tables, k \in Keys : <<t, k>> \notin unlogged =>
        /\ ValueOf(log, RowsOf(log, Committed, t, k), table[t][k])
        /\ \A w \in Writers : emptied[w][t][k] = 0

\* Rows are tried in the order of a record's ids.
AppliedInv ==
    /\ applied \subseteq Committed /\ Done \subseteq applied
    /\ \A i \in applied : log[i].tab = Paired.fcd
    /\ \A i \in applied, j \in Used : Same(log, i, j) /\ j < i => j \in applied

\* During a pass: the marked rows come before those still to be fetched, and
\* of a record's PENDING rows none is left out.
PassInv ==
    spc = "fetch" =>
        /\ todo \subseteq Pending /\ Marks \subseteq Pending /\ Marks \subseteq applied
        /\ \A m \in Marks : log[m].tab = Paired.tab
        /\ \A m \in Marks, i \in todo : m < i
        /\ \A i \in todo, j \in Committed :
              Same(log, i, j) /\ j < i /\ log[i].tab = Paired.fcd => j \in todo \cup applied
        /\ Paired.fcd = Paired.tab =>
              \A i \in todo \cup Marks, j \in Pending :
                  Same(log, i, j) /\ j < i /\ log[i].tab = Paired.fcd => j \in todo \cup Marks

\* The rows that are marked, also those the pass has not committed, and the
\* rows to come.
Behind == Done \cup (IF spc = "fetch" THEN Marks ELSE {})
Ahead == Pending \ Behind

\* What the ISAM file can have.
IsamInv ==
    Paired.fcd = Paired.tab =>
        /\ \A k \in Keys :
              \/ <<Paired.fcd, k>> \in astray \cup unlogged
              \/ \E i \in RowsOf(log, Ahead, Paired.fcd, k) : isam[Paired.fcd][k] = log[i].val
              \/ ValueOf(log, RowsOf(log, Behind, Paired.fcd, k), isam[Paired.fcd][k])
        /\ \A t \in Tables \ {Paired.fcd}, k \in Keys : isam[t][k] = NoRec

LogInv == TypeInv /\ OrderInv /\ ChainInv /\ TableInv
SyncInv == AppliedInv /\ PassInv

Inv == LogInv /\ SyncInv /\ IsamInv

--------------------------------------------------------------------------------
(* Sets of rows.                                                           *)

\* Ids are numbers.
LEMMA IdsNat == Ids \subseteq Nat /\ (\A i \in Ids : i \in Nat) /\ Ids \in SUBSET Nat
BY DEF Ids

\* The last of some ids, which CHOOSE takes.
LEMMA LastIs ==
    ASSUME NEW S \in SUBSET Ids, S # {}
    PROVE  Last(S) \in S /\ \A j \in S : j <= Last(S)
<1>1. S \subseteq Nat /\ MaxId \in Nat /\ \A j \in S : j <= MaxId
  BY BoundsAssumption DEF Ids
<1>2. \E m \in S : \A j \in S : m >= j
  BY <1>1, GreatestExists
<1>3. \E m \in S : \A j \in S : j <= m
  BY <1>1, <1>2
<1> QED  BY <1>3 DEF Last

\* The first one.
LEMMA FirstIs ==
    ASSUME todo \subseteq Ids, todo # {}
    PROVE  NextRow \in todo /\ \A j \in todo : NextRow <= j
<1>1. todo \subseteq Nat
  BY DEF Ids
<1>2. \E m \in todo : \A j \in todo : m <= j
  BY <1>1, LeastExists
<1> QED  BY <1>2 DEF NextRow

\* The rows of a record, in the log.
LEMMA OfKeyIs ==
    ASSUME NEW S, NEW t, NEW k
    PROVE  OfKey(S, t, k) = RowsOf(log, S, t, k)
BY DEF OfKey, RowsOf

\* The value of some rows is that of the last one.
LEMMA ValueIs ==
    ASSUME NEW S \in SUBSET Ids, S # {}, NEW v, ValueOf(log, S, v)
    PROVE  v = log[Last(S)].val
<1>1. PICK m \in S : v = log[m].val /\ \A j \in S : j <= m
  BY DEF ValueOf
<1>2. Last(S) \in S /\ \A j \in S : j <= Last(S)
  BY LastIs
<1>3. m \in Nat /\ Last(S) \in Nat
  BY <1>2, IdsNat
<1>4. m = Last(S)
  BY <1>1, <1>2, <1>3
<1> QED  BY <1>1, <1>4

\* The logs f and g have the same rows in S, but for who wrote them.
Agree(f, g, S) ==
    \A i \in S : /\ g[i].tab = f[i].tab /\ g[i].key = f[i].key
                /\ g[i].action = f[i].action /\ g[i].val = f[i].val

\* Then they have the same records and values there.
LEMMA AgreeSame ==
    ASSUME NEW f, NEW g, NEW S, Agree(f, g, S)
    PROVE  /\ \A i, j \in S : Same(g, i, j) <=> Same(f, i, j)
           /\ \A T \in SUBSET S : \A t, k : RowsOf(g, T, t, k) = RowsOf(f, T, t, k)
           /\ \A T \in SUBSET S : \A v : ValueOf(f, T, v) => ValueOf(g, T, v)
           /\ \A A, B \in SUBSET S : Before(f, A, B) => Before(g, A, B)
<1>1. \A i, j \in S : Same(g, i, j) <=> Same(f, i, j)
  BY DEF Agree, Same
<1>2. \A T \in SUBSET S : \A t, k : RowsOf(g, T, t, k) = RowsOf(f, T, t, k)
  BY DEF Agree, RowsOf
<1>3. ASSUME NEW T \in SUBSET S, NEW v, ValueOf(f, T, v)  PROVE ValueOf(g, T, v)
  BY <1>3 DEF Agree, ValueOf
<1>4. ASSUME NEW A \in SUBSET S, NEW B \in SUBSET S, Before(f, A, B)  PROVE Before(g, A, B)
  BY <1>1, <1>4 DEF Before
<1> QED  BY <1>1, <1>2, <1>3, <1>4

\* A chain without its last rows is a chain.
LEMMA ChainCut ==
    ASSUME NEW U \in SUBSET Nat, NEW V \in SUBSET U, NEW f, NEW g, Agree(f, g, V),
           Before(f, V, U \ V), Chain(f, U)
    PROVE  Chain(g, V)
<1>1. \A i, j \in V : Same(g, i, j) <=> Same(f, i, j)
  BY AgreeSame
<1>2. ASSUME NEW i \in V, NEW j \in U, Same(f, i, j)  PROVE j \in V \/ i <= j
  <2>1. j \in V \/ i < j
    BY <1>2 DEF Before
  <2>2. i \in Nat /\ j \in Nat
    OBVIOUS
  <2> QED  BY <2>1, <2>2
<1>3. ASSUME NEW i \in V, \A j \in V : Same(g, i, j) => i <= j  PROVE g[i].action = "insert"
  <2>1. \A j \in U : Same(f, i, j) => i <= j
    BY <1>1, <1>2, <1>3
  <2> QED  BY <2>1 DEF Chain, Agree
<1>4. ASSUME NEW i \in V, NEW j \in V, Same(g, i, j), j < i,
             \A h \in V : Same(g, i, h) => h <= j \/ i <= h
      PROVE  g[i].action = "insert" <=> g[j].val = NoRec
  <2>1. \A h \in U : Same(f, i, h) => h <= j \/ i <= h
    BY <1>1, <1>2, <1>4
  <2>2. Same(f, i, j)
    BY <1>1, <1>4
  <2>3. f[i].action = "insert" <=> f[j].val = NoRec
    BY <1>4, <2>1, <2>2 DEF Chain
  <2> QED  BY <2>3 DEF Agree
<1> QED  BY <1>3, <1>4 DEF Chain

\* A chain with one more row at its end.
LEMMA ChainAdd ==
    ASSUME NEW U \in SUBSET Nat, NEW n \in Nat, \A i \in U : i < n, NEW f, NEW g, Agree(f, g, U),
           NEW v, ValueOf(f, RowsOf(f, U, g[n].tab, g[n].key), v),
           g[n].action = "insert" <=> v = NoRec, Chain(f, U)
    PROVE  Chain(g, U \cup {n})
<1> DEFINE R == RowsOf(f, U, g[n].tab, g[n].key)
           W == U \cup {n}
<1>1. \A i, j \in U : Same(g, i, j) <=> Same(f, i, j)
  BY AgreeSame
<1>2. R \subseteq U /\ \A j \in U : Same(g, n, j) <=> j \in R
  BY DEF RowsOf, Same, Agree
<1>3. ASSUME \A j \in W : Same(g, n, j) => n <= j  PROVE g[n].action = "insert"
  <2>1. ASSUME NEW j \in R  PROVE FALSE
    <3>1. j \in U /\ Same(g, n, j)
      BY <1>2
    <3>2. n <= j /\ j < n /\ j \in Nat
      BY <1>3, <3>1
    <3> QED  BY <3>2
  <2>2. R = {}
    BY <2>1
  <2> QED  BY <2>2 DEF ValueOf
<1>4. ASSUME NEW i \in U, \A j \in W : Same(g, i, j) => i <= j  PROVE g[i].action = "insert"
  <2>1. \A j \in U : Same(f, i, j) => i <= j
    BY <1>1, <1>4
  <2> QED  BY <2>1 DEF Chain, Agree
<1>5. ASSUME NEW j \in U, Same(g, n, j), \A h \in W : Same(g, n, h) => h <= j \/ n <= h
      PROVE  g[n].action = "insert" <=> g[j].val = NoRec
  <2>1. j \in R
    BY <1>2, <1>5
  <2>2. PICK m \in R : v = f[m].val /\ \A h \in R : h <= m
    BY <2>1 DEF ValueOf
  <2>3. m \in U /\ Same(g, n, m)
    BY <1>2
  <2>4. m <= j \/ n <= m
    BY <1>5, <2>3
  <2>5. m <= j /\ j <= m /\ m \in Nat /\ j \in Nat
    BY <2>1, <2>2, <2>3, <2>4
  <2>6. m = j
    BY <2>5
  <2> QED  BY <2>2, <2>6 DEF Agree
<1>6. ASSUME NEW i \in U, NEW j \in U, Same(g, i, j), j < i,
             \A h \in W : Same(g, i, h) => h <= j \/ i <= h
      PROVE  g[i].action = "insert" <=> g[j].val = NoRec
  <2>1. \A h \in U : Same(f, i, h) => h <= j \/ i <= h
    BY <1>1, <1>6
  <2>2. Same(f, i, j)
    BY <1>1, <1>6
  <2>3. f[i].action = "insert" <=> f[j].val = NoRec
    BY <1>6, <2>1, <2>2 DEF Chain
  <2> QED  BY <2>3 DEF Agree
<1>7. \A i \in U : ~ (n < i) /\ ~ (n < n)
  OBVIOUS
<1> QED  BY <1>3, <1>4, <1>5, <1>6, <1>7 DEF Chain

\* The sets of rows by their status.
LEMMA StatusSets ==
    /\ Done \subseteq Ids /\ Pending \subseteq Ids /\ AllOpen \subseteq Ids /\ Used \subseteq Ids
    /\ Marks \subseteq Ids /\ Committed \subseteq Ids
    /\ TypeInv => Used = Committed \cup AllOpen
    /\ Committed \subseteq Used /\ Committed \cap AllOpen = {} /\ Done \cap Pending = {}
BY DEF TypeInv, Done, Pending, AllOpen, Used, Marks, Committed

\* No rows at first.
LEMMA ChangelogInit == Init => Inv
<1> SUFFICES ASSUME Init PROVE Inv
  OBVIOUS
<1>0. NoRow \in Row /\ 0 \in 0 .. MaxId /\ NoRec \in Nat
  BY BoundsAssumption DEF Row, NoRow, NoRec
<1>1. TypeInv
  BY <1>0 DEF Init, TypeInv, NoMarks, NoneEmptied
<1>2. Done = {} /\ Pending = {} /\ Used = {} /\ AllOpen = {} /\ Committed = {}
  BY DEF Init, Done, Pending, Used, AllOpen, Committed
<1>3. OrderInv /\ ChainInv
  BY <1>2 DEF OrderInv, ChainInv, Chain, Before, Logged
<1>4. \A S, t, k : S = {} => RowsOf(log, S, t, k) = {}
  BY DEF RowsOf
<1>5. \A t \in Tables, k \in Keys : table[t][k] = NoRec /\ isam[t][k] = NoRec
  BY DEF Init
<1>6. TableInv
  <2>1. \A w \in Writers, t \in Tables, k \in Keys : emptied[w][t][k] = 0
    BY DEF Init, NoneEmptied
  <2> QED  BY <1>2, <1>4, <1>5, <2>1 DEF TableInv, ValueOf
<1>7. SyncInv
  BY <1>2 DEF Init, SyncInv, AppliedInv, PassInv
<1>8. Paired.fcd \in Tables
  BY AddedAssumption DEF Paired
<1>9. Behind = {}
  BY <1>2 DEF Behind, Init
<1>10. IsamInv
  BY <1>4, <1>5, <1>8, <1>9 DEF IsamInv, ValueOf
<1> QED  BY <1>1, <1>3, <1>6, <1>7, <1>10 DEF Inv, LogInv

--------------------------------------------------------------------------------
(* The writers.                                                            *)

\* What a writer may do under a pass: add and drop rows after the committed
\* ones, and commit some.
LEMMA WritersKeep ==
    ASSUME TypeInv, OrderInv, SyncInv, IsamInv,
           Done' = Done, Pending \subseteq Pending', Agree(log, log', Committed),
           Before(log', Committed, Used' \ Committed), Committed' \subseteq Used',
           unlogged \subseteq unlogged', UNCHANGED <<isam, spc, todo, mark, applied, astray>>
    PROVE  SyncInv' /\ IsamInv'
<1> USE DEF SyncInv
<1>1. /\ \A i, j \in Committed : Same(log', i, j) <=> Same(log, i, j)
      /\ \A T \in SUBSET Committed : \A t, k : RowsOf(log', T, t, k) = RowsOf(log, T, t, k)
      /\ \A T \in SUBSET Committed : \A v : ValueOf(log, T, v) => ValueOf(log', T, v)
  BY AgreeSame
<1>2. /\ Committed \subseteq Ids /\ Committed \subseteq Used /\ Pending \subseteq Committed
      /\ Done \subseteq Committed /\ Committed \subseteq Committed' /\ Done \cap Pending = {}
  BY StatusSets DEF Committed
<1>3. ASSUME NEW i \in Committed, NEW j \in Used', Same(log', i, j), j < i  PROVE j \in Committed
  <2>1. j \in Committed \/ i < j
    BY <1>3 DEF Before
  <2>2. i \in Nat /\ j \in Nat
    BY <1>2, <1>3, IdsNat DEF Used
  <2> QED  BY <1>3, <2>1, <2>2
<1>4. applied \subseteq Committed
  BY DEF AppliedInv
<1>5. AppliedInv'
  <2>1. \A i \in applied : log'[i].tab = Paired.fcd
    BY <1>4 DEF AppliedInv, Agree
  <2>2. ASSUME NEW i \in applied, NEW j \in Used', Same(log', i, j), j < i  PROVE j \in applied
    <3>1. j \in Committed /\ i \in Committed
      BY <1>3, <1>4, <2>2
    <3> QED  BY <1>1, <1>2, <2>2, <3>1 DEF AppliedInv
  <2> QED  BY <1>2, <1>4, <2>1, <2>2 DEF AppliedInv, Paired
<1>6. PassInv'
  <2> SUFFICES ASSUME spc = "fetch" PROVE PassInv'
    BY DEF PassInv
  <2>1. Marks' = Marks
    BY DEF Marks
  <2>2. todo \subseteq Committed /\ Marks \subseteq Committed
    BY <1>2 DEF PassInv
  <2>3. \A m \in Marks : log'[m].tab = Paired.tab
    BY <2>2 DEF PassInv, Agree
  <2>4. ASSUME NEW i \in todo, NEW j \in Committed', Same(log', i, j), j < i, log'[i].tab = Paired.fcd
        PROVE  j \in todo \cup applied
    <3>1. j \in Committed /\ i \in Committed /\ log'[i].tab = log[i].tab
      BY <1>3, <2>2, <2>4 DEF Agree
    <3> QED  BY <1>1, <2>4, <3>1 DEF PassInv
  <2>5. ASSUME Paired.fcd = Paired.tab, NEW i \in todo \cup Marks, NEW j \in Pending',
               Same(log', i, j), j < i, log'[i].tab = Paired.fcd
        PROVE  j \in todo \cup Marks
    <3>1. j \in Committed /\ i \in Committed /\ log'[i].tab = log[i].tab
      BY <1>3, <2>2, <2>5 DEF Agree, Committed
    <3>2. j \in Pending
      BY <2>5, <3>1 DEF Committed, Done, Pending
    <3> QED  BY <1>1, <2>5, <3>1, <3>2 DEF PassInv
  <2>6. todo \subseteq Pending' /\ Marks \subseteq Pending' /\ Marks \subseteq applied
        /\ \A m \in Marks, i \in todo : m < i
    BY DEF PassInv
  <2> QED  BY <2>1, <2>3, <2>4, <2>5, <2>6 DEF PassInv, Paired
<1>7. IsamInv'
  <2> SUFFICES ASSUME Paired.fcd = Paired.tab PROVE IsamInv'
    BY DEF IsamInv, Paired
  <2>1. Behind' = Behind /\ Ahead \subseteq Ahead' /\ Behind \subseteq Committed /\ Ahead \subseteq Committed
    BY <1>2 DEF Behind, Ahead, Marks, PassInv
  <2>2. ASSUME NEW k \in Keys, <<Paired.fcd, k>> \notin astray \cup unlogged'
        PROVE  \/ \E i \in RowsOf(log', Ahead', Paired.fcd, k) : isam[Paired.fcd][k] = log'[i].val
               \/ ValueOf(log', RowsOf(log', Behind, Paired.fcd, k), isam[Paired.fcd][k])
    <3>1. CASE \E i \in RowsOf(log, Ahead, Paired.fcd, k) : isam[Paired.fcd][k] = log[i].val
      BY <2>1, <3>1 DEF RowsOf, Agree
    <3>2. CASE ValueOf(log, RowsOf(log, Behind, Paired.fcd, k), isam[Paired.fcd][k])
      <4>1. RowsOf(log', Behind, Paired.fcd, k) = RowsOf(log, Behind, Paired.fcd, k)
            /\ RowsOf(log, Behind, Paired.fcd, k) \in SUBSET Committed
        BY <1>1, <2>1 DEF RowsOf
      <4> QED  BY <1>1, <3>2, <4>1
    <3> QED  BY <2>2, <3>1, <3>2 DEF IsamInv
  <2> QED  BY <2>1, <2>2 DEF IsamInv, Paired
<1> QED  BY <1>5, <1>6, <1>7

\* A session sees values.
LEMMA AfterNat ==
    ASSUME TypeInv, OrderInv, NEW w \in Writers, NEW t \in Tables, NEW k \in Keys
    PROVE  After(w, t, k) \in Nat
<1> DEFINE S == {i \in OfKey(Open(w), t, k) : i > emptied[w][t][k]}
<1>1. S \in SUBSET Ids /\ S \subseteq Used
  BY DEF OfKey, Open, Used
<1>2. S # {} => log[Last(S)].val \in Nat
  BY <1>1, LastIs DEF OrderInv
<1>3. table[t][k] \in Nat /\ NoRec \in Nat
  BY DEF TypeInv, NoRec
<1> QED  BY <1>2, <1>3 DEF After

\* What a transaction sees of a record is the value of the last row that is
\* committed or its own.
LEMMA ValueAfter ==
    ASSUME TypeInv, OrderInv, TableInv, NEW w \in Writers, NEW t \in Tables, NEW k \in Keys,
           <<t, k>> \notin unlogged
    PROVE  ValueOf(log, RowsOf(log, Committed \cup Open(w), t, k), After(w, t, k))
<1> DEFINE O == RowsOf(log, Open(w), t, k)
           C == RowsOf(log, Committed, t, k)
           U == RowsOf(log, Committed \cup Open(w), t, k)
<1>1. Open(w) \subseteq AllOpen /\ OfKey(Open(w), t, k) = O
  BY DEF OfKey, RowsOf, Open, AllOpen
<1>2. U = C \cup O /\ U \in SUBSET Ids /\ O \in SUBSET Ids /\ C \in SUBSET Ids /\ O \subseteq Used
  BY <1>1, StatusSets DEF RowsOf
<1>3. \A i \in C, j \in O : i < j
  BY <1>1 DEF RowsOf, OrderInv, Same, Before
<1>0. After(w, t, k) = IF O # {} THEN log[Last(O)].val ELSE table[t][k]
  <2>1. emptied[w][t][k] = 0
    BY DEF TableInv
  <2>2. \A i \in O : i > 0
    BY <1>2 DEF Ids
  <2>3. {i \in O : i > emptied[w][t][k]} = O
    BY <2>1, <2>2
  <2> HIDE DEF O
  <2> QED  BY <1>1, <2>1, <2>3 DEF After
<1>4. CASE O = {}
  BY <1>0, <1>1, <1>2, <1>4 DEF TableInv, TypeInv
<1>5. CASE O # {}
  <2>1. Last(O) \in O /\ (\A j \in O : j <= Last(O)) /\ After(w, t, k) = log[Last(O)].val
    BY <1>0, <1>2, <1>5, LastIs
  <2> HIDE DEF O, C, U
  <2>2. ASSUME NEW j \in C  PROVE j <= Last(O)
    <3>1. j \in Nat /\ Last(O) \in Nat
      BY <1>2, <2>1, IdsNat
    <3>2. j < Last(O)
      BY <1>3, <2>1
    <3> QED  BY <3>1, <3>2
  <2>3. \A j \in U : j <= Last(O)
    BY <1>2, <2>1, <2>2
  <2>4. Last(O) \in U /\ U # {} /\ log[Last(O)].val \in Nat
    BY <1>2, <2>1 DEF OrderInv
  <2>5. ValueOf(log, U, log[Last(O)].val)
    BY <2>3, <2>4 DEF ValueOf
  <2> QED  BY <2>1, <2>5 DEF U
<1> QED  BY <1>4, <1>5

\* Of a record that is not locked, that is the last row of all.
LEMMA SeesLast ==
    ASSUME TypeInv, OrderInv, TableInv, NEW w \in Writers, NEW t \in Tables, NEW k \in Keys,
           ~Locked(w, t, k)
    PROVE  /\ \A i \in RowsOf(log, AllOpen, t, k) : log[i].by = w
           /\ <<t, k>> \notin unlogged =>
                  ValueOf(log, RowsOf(log, Used, t, k), After(w, t, k))
<1>1. ASSUME NEW i \in RowsOf(log, AllOpen, t, k)  PROVE log[i].by = w
  <2>1. i \in AllOpen /\ log[i].tab = t /\ log[i].key = k /\ log[i].by \in Writers
    BY <1>1 DEF OrderInv, RowsOf
  <2>2. i \in OfKey(Open(log[i].by), t, k)
    BY <2>1 DEF OfKey, Open, AllOpen
  <2> QED  BY <2>1, <2>2 DEF Locked
<1>2. RowsOf(log, Open(w), t, k) = RowsOf(log, AllOpen, t, k)
  BY <1>1 DEF RowsOf, Open, AllOpen
<1>3. RowsOf(log, Used, t, k) = RowsOf(log, Committed \cup Open(w), t, k)
  BY <1>2, StatusSets DEF RowsOf
<1> QED  BY <1>1, <1>3, ValueAfter

\* A row at the end of those of its record, which follows them or is of a record
\* that has changes without a row.
LEMMA TriggerKeeps ==
    ASSUME Inv, NEW w \in Writers, NEW a \in Actions, NEW t \in Tables, NEW k \in Keys,
           NEW p \in BOOLEAN, seq < MaxId, ~Locked(w, t, k), Trigger(w, a, t, k, p),
           UNCHANGED <<table, isam, spc, todo, mark, applied, astray>>,
           unlogged \subseteq unlogged', emptied' \in [Writers -> [Tables -> [Keys -> Nat]]],
           \A u \in Writers, x \in Tables, h \in Keys :
               <<x, h>> \notin unlogged' => emptied'[u][x][h] = emptied[u][x][h],
           <<t, k>> \in unlogged' \/ ((a = "insert") = (After(w, t, k) = NoRec))
    PROVE  Inv'
<1> USE DEF Inv, LogInv
<1> DEFINE n == seq + 1
           v == IF a = "delete" THEN NoRec ELSE n
           last == After(w, t, k)
<1>1. /\ seq' = n
      /\ log' = [log EXCEPT ![n] =
                    [tab |-> t, action |-> a, key |-> k, pipe |-> p, by |-> w, val |-> v]]
      /\ status' = [status EXCEPT ![n] = "open"]
  BY DEF Trigger
<1>2. n \in Ids /\ n \in Nat /\ seq' \in 0 .. MaxId /\ v \in Nat /\ MaxId \in Nat
  BY <1>1, BoundsAssumption DEF TypeInv, Ids, NoRec
<1>3. \A i \in Used : i < n /\ i # n /\ i \in Ids
  <2>1. \A i \in Used : i <= seq /\ i \in Nat /\ i \in Ids
    BY IdsNat, StatusSets DEF OrderInv
  <2>2. seq \in Nat
    BY DEF TypeInv
  <2> QED  BY <2>1, <2>2
<1> HIDE DEF n, v, last
<1>4. /\ log'[n].tab = t /\ log'[n].key = k /\ log'[n].action = a /\ log'[n].val = v /\ log'[n].by = w
      /\ \A i \in Ids : i # n => log'[i] = log[i] /\ status'[i] = status[i]
      /\ status'[n] = "open"
  BY <1>1, <1>2 DEF TypeInv
<1>5. TypeInv'
  <2>1. [tab |-> t, action |-> a, key |-> k, pipe |-> p, by |-> w, val |-> v] \in Row
    BY <1>2 DEF Row
  <2>2. log' \in [Ids -> Row]
    BY <1>1, <1>2, <2>1 DEF TypeInv
  <2> QED  BY <1>1, <1>2, <2>2 DEF TypeInv
<1>6. status[n] = "unused"
  BY <1>2, <1>3 DEF Used
<1>7. /\ Done' = Done /\ Pending' = Pending /\ AllOpen' = AllOpen \cup {n} /\ Used' = Used \cup {n}
      /\ Committed' = Committed
  <2>1. Done' = Done /\ Pending' = Pending
    BY <1>2, <1>4, <1>6 DEF Done, Pending
  <2>2. AllOpen' = AllOpen \cup {n} /\ Used' = Used \cup {n}
    BY <1>2, <1>4, <1>6 DEF AllOpen, Used
  <2> QED  BY <2>1, <2>2 DEF Committed
<1>8. \A i \in Used : log'[i] = log[i]
  BY <1>3, <1>4
<1>9. /\ \A i \in RowsOf(log, AllOpen, t, k) : log[i].by = w
      /\ <<t, k>> \notin unlogged => ValueOf(log, RowsOf(log, Used, t, k), last)
  BY <1>1, SeesLast DEF last
<1>10. /\ Committed \subseteq Used /\ AllOpen \subseteq Used /\ Done \subseteq Used /\ Pending \subseteq Used
       /\ Used = Committed \cup AllOpen /\ Committed \cap AllOpen = {}
  BY StatusSets DEF Committed
<1>11. /\ Agree(log, log', Used)
       /\ \A i, j \in Used : Same(log', i, j) <=> Same(log, i, j)
       /\ \A T \in SUBSET Used : \A u, h : RowsOf(log', T, u, h) = RowsOf(log, T, u, h)
       /\ \A T \in SUBSET Used : \A x : ValueOf(log, T, x) => ValueOf(log', T, x)
       /\ \A A, B \in SUBSET Used : Before(log, A, B) => Before(log', A, B)
  <2>1. Agree(log, log', Used)
    BY <1>8 DEF Agree
  <2> QED  BY <2>1, AgreeSame
<1>12. Before(log', Committed, AllOpen \cup {n})
  <2>1. Before(log', Committed, AllOpen)
    BY <1>10, <1>11 DEF OrderInv
  <2> QED  BY <1>3, <1>10, <2>1 DEF Before
<1>13. OrderInv'
  <2>1. ASSUME NEW i \in Used'
        PROVE  i <= seq' /\ log'[i].tab \in Tables /\ log'[i].key \in Keys /\ log'[i].val \in Nat
    <3>1. CASE i = n
      BY <1>1, <1>2, <1>4, <3>1
    <3>2. CASE i \in Used
      <4>0. i \in Nat /\ i < n
        BY <1>3, <3>2, IdsNat
      <4>1. i <= n
        BY <1>2, <4>0
      <4> QED  BY <1>1, <1>8, <3>2, <4>1 DEF OrderInv
    <3> QED  BY <1>7, <2>1, <3>1, <3>2
  <2>2. \A i \in AllOpen' : log'[i].by \in Writers
    BY <1>4, <1>7, <1>8, <1>10 DEF OrderInv
  <2>3. \A h \in AllOpen : Same(log', n, h) \/ Same(log', h, n) => log'[h].by = w
    BY <1>4, <1>8, <1>9, <1>10 DEF RowsOf, Same
  <2>4. ASSUME NEW i \in AllOpen', NEW j \in AllOpen', Same(log', i, j)  PROVE log'[i].by = log'[j].by
    <3>1. CASE i = n \/ j = n
      BY <1>4, <1>7, <2>3, <2>4, <3>1
    <3>2. CASE i \in AllOpen /\ j \in AllOpen
      BY <1>8, <1>10, <1>11, <2>4, <3>2 DEF OrderInv
    <3> QED  BY <1>7, <2>4, <3>1, <3>2
  <2>5. Before(log', Committed', AllOpen') /\ Before(log', Done', Pending')
    BY <1>7, <1>10, <1>11, <1>12 DEF OrderInv
  <2> QED  BY <2>1, <2>2, <2>4, <2>5 DEF OrderInv
<1>14. ChainInv'
  <2> DEFINE V == {i \in Logged : <<log[i].tab, log[i].key>> \notin unlogged'}
  <2>1. Logged \in SUBSET Nat /\ V \in SUBSET Logged /\ V \subseteq Used /\ Agree(log, log', V)
        /\ \A i \in V : i < n
    BY <1>3, <1>11, IdsNat DEF Logged, Agree
  <2>2. Before(log, V, Logged \ V)
    BY DEF Before, Same
  <2>3. Chain(log', V)
    BY <2>1, <2>2, ChainCut DEF ChainInv
  <2>4. CASE <<t, k>> \in unlogged'
    <3>1. Logged' = V
      BY <1>4, <1>7, <1>8, <2>4 DEF Logged
    <3> QED  BY <2>3, <3>1 DEF ChainInv
  <2>5. CASE <<t, k>> \notin unlogged'
    <3>1. Logged' = V \cup {n}
      BY <1>4, <1>7, <1>8, <2>5 DEF Logged
    <3>2. log'[n].action = "insert" <=> last = NoRec
      BY <1>4, <2>5 DEF last
    <3>3. RowsOf(log', V, t, k) = RowsOf(log, Used, t, k)
      BY <1>8, <2>5 DEF RowsOf, Logged
    <3>4. ValueOf(log', RowsOf(log', V, t, k), last)
      <4>1. RowsOf(log, Used, t, k) \in SUBSET Used
        BY DEF RowsOf
      <4> QED  BY <1>9, <1>11, <2>5, <3>3, <4>1
    <3>5. ValueOf(log', RowsOf(log', V, log'[n].tab, log'[n].key), last) /\ Agree(log', log', V)
      BY <1>4, <3>4 DEF Agree
    <3>6. V \in SUBSET Nat
      BY <2>1
    <3> HIDE DEF V
    <3>7. Chain(log', V \cup {n})
      BY <1>2, <2>1, <2>3, <3>2, <3>5, <3>6, ChainAdd
    <3> QED  BY <3>1, <3>7 DEF ChainInv
  <2> QED  BY <2>4, <2>5
<1>15. TableInv'
  <2>1. ASSUME NEW u \in Tables, NEW h \in Keys, <<u, h>> \notin unlogged'
        PROVE  /\ ValueOf(log', RowsOf(log', Committed, u, h), table[u][h])
               /\ \A x \in Writers : emptied'[x][u][h] = 0
    <3>0. Committed \in SUBSET Used /\ RowsOf(log, Committed, u, h) \in SUBSET Used
      BY <1>10 DEF RowsOf
    <3>1. RowsOf(log', Committed, u, h) = RowsOf(log, Committed, u, h)
      BY <1>11, <3>0
    <3>2. ValueOf(log, RowsOf(log, Committed, u, h), table[u][h])
          /\ \A x \in Writers : emptied[x][u][h] = 0
      BY <2>1 DEF TableInv
    <3>3. ValueOf(log', RowsOf(log, Committed, u, h), table[u][h])
      BY <1>11, <3>0, <3>2
    <3> QED  BY <2>1, <3>1, <3>2, <3>3
  <2> QED  BY <1>7, <2>1 DEF TableInv
<1>16. SyncInv' /\ IsamInv'
  <2>1. Used' \ Committed = AllOpen \cup {n}
    BY <1>3, <1>7, <1>10
  <2>2. Agree(log, log', Committed)
    BY <1>10, <1>11 DEF Agree
  <2> QED  BY <1>1, <1>7, <1>10, <1>12, <2>1, <2>2, WritersKeep
<1> QED  BY <1>5, <1>13, <1>14, <1>15, <1>16

\* INSERT, UPDATE and DELETE.
LEMMA ChangeKeeps ==
    ASSUME Inv, NEW w \in Writers, NEW a \in Actions, NEW t \in Tables, NEW k \in Keys,
           NEW p \in BOOLEAN, Change(w, a, t, k, p)
    PROVE  Inv'
<1>1. /\ seq < MaxId /\ ~Locked(w, t, k) /\ (a = "insert") = (After(w, t, k) = NoRec)
      /\ Trigger(w, a, t, k, p)
      /\ UNCHANGED <<table, emptied, unlogged, isam, spc, todo, mark, applied, astray>>
  BY DEF Change, syncVars
<1>2. emptied \in [Writers -> [Tables -> [Keys -> Nat]]]
  BY DEF Inv, LogInv, TypeInv
<1> QED  BY <1>1, <1>2, TriggerKeeps

\* UPDATE of the primary key: neither key is covered from now on.
LEMMA RekeyKeeps ==
    ASSUME Inv, NEW w \in Writers, NEW t \in Tables, NEW k \in Keys, NEW new \in Keys,
           NEW p \in BOOLEAN, Rekey(w, t, k, new, p)
    PROVE  Inv'
<1>1. /\ seq < MaxId /\ ~Locked(w, t, new) /\ Trigger(w, "update", t, new, p)
      /\ emptied' = [emptied EXCEPT ![w][t][k] = seq]
      /\ unlogged' = unlogged \cup {<<t, k>>, <<t, new>>}
      /\ UNCHANGED <<table, isam, spc, todo, mark, applied, astray>>
  BY DEF Rekey, syncVars
<1>2. emptied \in [Writers -> [Tables -> [Keys -> Nat]]] /\ seq \in Nat
  BY DEF Inv, LogInv, TypeInv
<1>3. emptied' \in [Writers -> [Tables -> [Keys -> Nat]]]
  BY <1>1, <1>2
<1>4. \A u \in Writers, x \in Tables, h \in Keys :
          <<x, h>> \notin unlogged' => emptied'[u][x][h] = emptied[u][x][h]
  BY <1>1, <1>2
<1>5. PICK a \in Actions : a = "update"
  BY DEF Actions
<1>6. /\ UNCHANGED <<table, isam, spc, todo, mark, applied, astray>> /\ unlogged \subseteq unlogged'
      /\ seq < MaxId /\ ~Locked(w, t, new) /\ Trigger(w, a, t, new, p)
      /\ (<<t, new>> \in unlogged' \/ ((a = "insert") = (After(w, t, new) = NoRec)))
  BY <1>1, <1>5
<1> QED  BY <1>3, <1>4, <1>6, TriggerKeeps

\* TRUNCATE: no row, and the keys that were there are not covered from now on.
LEMMA TruncateKeeps ==
    ASSUME Inv, NEW w \in Writers, NEW t \in Tables, Truncate(w, t)
    PROVE  Inv'
<1> USE DEF Inv, LogInv
<1> DEFINE there == {k \in Keys : After(w, t, k) # NoRec}
<1>1. /\ emptied' = [emptied EXCEPT ![w][t] =
              [k \in Keys |-> IF k \in there THEN seq ELSE emptied[w][t][k]]]
      /\ unlogged' = unlogged \cup ({t} \X there)
      /\ UNCHANGED <<table, seq, log, status, isam, spc, todo, mark, applied, astray>>
  BY DEF Truncate, syncVars
<1> HIDE DEF there
<1>2. UNCHANGED <<Done, Pending, AllOpen, Used, Committed>>
  BY <1>1 DEF Done, Pending, AllOpen, Used, Committed
<1>3. TypeInv'
  <2>1. seq \in Nat
    BY DEF TypeInv
  <2>2. emptied' \in [Writers -> [Tables -> [Keys -> Nat]]]
    BY <1>1, <2>1 DEF TypeInv
  <2> QED  BY <1>1, <2>2 DEF TypeInv
<1>4. OrderInv'
  BY <1>1, <1>2 DEF OrderInv
<1>5. ChainInv'
  <2>1. Logged' = {i \in Logged : <<log[i].tab, log[i].key>> \notin unlogged'}
    BY <1>1, <1>2 DEF Logged
  <2>2. Logged \in SUBSET Nat /\ Logged' \in SUBSET Logged /\ Agree(log, log, Logged')
    BY <2>1, StatusSets, IdsNat DEF Logged, Agree
  <2>3. Before(log, Logged', Logged \ Logged')
    BY <2>1 DEF Before, Same
  <2>4. Chain(log, Logged')
    BY <2>2, <2>3, ChainCut DEF ChainInv
  <2> QED  BY <1>1, <2>4 DEF ChainInv
<1>6. TableInv'
  <2>1. ASSUME NEW x \in Tables, NEW h \in Keys, <<x, h>> \notin unlogged', NEW u \in Writers
        PROVE  emptied'[u][x][h] = emptied[u][x][h] /\ <<x, h>> \notin unlogged
    BY <1>1, <2>1 DEF TypeInv
  <2> QED  BY <1>1, <1>2, <2>1 DEF TableInv
<1>7. SyncInv' /\ IsamInv'
  <2>1. Used' \ Committed = AllOpen /\ Committed' \subseteq Used'
    BY <1>2, StatusSets
  <2>2. Agree(log, log', Committed) /\ Before(log', Committed, Used' \ Committed)
    BY <1>1, <2>1 DEF Agree, OrderInv
  <2> QED  BY <1>1, <1>2, <2>1, <2>2, WritersKeep
<1> QED  BY <1>3, <1>4, <1>5, <1>6, <1>7

\* The rows of a writer and the others.
LEMMA OpenOf ==
    ASSUME TypeInv, OrderInv, NEW w \in Writers
    PROVE  /\ Open(w) \subseteq AllOpen /\ Open(w) \cap Committed = {} /\ Open(w) \subseteq Ids
           /\ Before(log, Committed, Open(w))
           /\ \A i \in AllOpen \ Open(w), j \in Open(w) : ~Same(log, i, j) /\ ~Same(log, j, i)
<1>1. Open(w) \subseteq AllOpen /\ Open(w) \cap Committed = {} /\ Open(w) \subseteq Ids
  BY StatusSets DEF Open, AllOpen
<1>2. Before(log, Committed, Open(w))
  BY <1>1 DEF Before, OrderInv
<1>3. ASSUME NEW i \in AllOpen \ Open(w), NEW j \in Open(w)  PROVE log[i].by # log[j].by
  BY <1>3 DEF Open, AllOpen
<1> QED  BY <1>1, <1>2, <1>3 DEF OrderInv

\* COMMIT: the rows of the transaction join those of their records, at the end.
LEMMA CommitKeeps == ASSUME Inv, NEW w \in Writers, Commit(w) PROVE Inv'
<1> USE DEF Inv, LogInv
<1> DEFINE O == Open(w)
<1>1. /\ status' = [i \in Ids |-> IF i \in O THEN "PENDING" ELSE status[i]]
      /\ log' = [i \in Ids |-> IF i \in O THEN [log[i] EXCEPT !.by = Nobody] ELSE log[i]]
      /\ table' = [t \in Tables |-> [k \in Keys |-> After(w, t, k)]]
      /\ emptied' = [emptied EXCEPT ![w] = NoneEmptied]
      /\ UNCHANGED <<seq, unlogged, isam, spc, todo, mark, applied, astray>>
  BY DEF Commit, Ends, syncVars
<1>2. /\ O \subseteq AllOpen /\ O \cap Committed = {} /\ O \subseteq Ids
      /\ Before(log, Committed, O)
      /\ \A i \in AllOpen \ O, j \in O : ~Same(log, i, j) /\ ~Same(log, j, i)
  BY OpenOf
<1>3. \A t \in Tables, k \in Keys :
          /\ <<t, k>> \notin unlogged => ValueOf(log, RowsOf(log, Committed \cup O, t, k), After(w, t, k))
          /\ After(w, t, k) \in Nat
  BY ValueAfter, AfterNat
<1> HIDE DEF O
<1>4. \A i \in Ids : /\ log[i] \in Row /\ log'[i] \in Row
                     /\ i \notin O => log'[i] = log[i] /\ status'[i] = status[i]
                     /\ i \in O => status'[i] = "PENDING" /\ status[i] = "open"
                     /\ log'[i].tab = log[i].tab /\ log'[i].key = log[i].key
                     /\ log'[i].action = log[i].action /\ log'[i].val = log[i].val
  <2>1. \A i \in Ids : log[i] \in Row
    BY DEF TypeInv
  <2>2. \A r \in Row : LET q == [r EXCEPT !.by = Nobody]
                       IN  q \in Row /\ q.tab = r.tab /\ q.key = r.key /\ q.action = r.action /\ q.val = r.val
    BY DEF Row
  <2> QED  BY <1>1, <1>2, <2>1, <2>2 DEF AllOpen
<1>5. TypeInv'
  <2>1. log' \in [Ids -> Row]
    BY <1>1, <1>4
  <2>2. status' \in [Ids -> {"unused", "open", "PENDING", "SUCCESS", "ERROR"}]
    BY <1>1 DEF TypeInv
  <2>3. table' \in [Tables -> [Keys -> Nat]]
    BY <1>1, <1>3
  <2>4. emptied' \in [Writers -> [Tables -> [Keys -> Nat]]]
    BY <1>1 DEF TypeInv, NoneEmptied
  <2> QED  BY <1>1, <2>1, <2>2, <2>3, <2>4 DEF TypeInv
<1>6. /\ Done' = Done /\ Pending' = Pending \cup O /\ AllOpen' = AllOpen \ O /\ Used' = Used
      /\ Committed' = Committed \cup O
  <2>1. Done' = Done /\ Pending' = Pending \cup O
    BY <1>2, <1>4 DEF Done, Pending
  <2>2. AllOpen' = AllOpen \ O /\ Used' = Used
    BY <1>2, <1>4 DEF AllOpen, Used
  <2> QED  BY <2>1, <2>2 DEF Committed
<1>7. /\ Committed \subseteq Used /\ AllOpen \subseteq Used /\ Done \subseteq Committed /\ Pending \subseteq Committed
      /\ Used = Committed \cup AllOpen /\ Committed \cap AllOpen = {} /\ Used \subseteq Ids
  BY StatusSets DEF Committed
<1>8. /\ Agree(log, log', Used)
      /\ \A i, j \in Used : Same(log', i, j) <=> Same(log, i, j)
      /\ \A T \in SUBSET Used : \A u, h : RowsOf(log', T, u, h) = RowsOf(log, T, u, h)
      /\ \A T \in SUBSET Used : \A x : ValueOf(log, T, x) => ValueOf(log', T, x)
      /\ \A A, B \in SUBSET Used : Before(log, A, B) => Before(log', A, B)
  <2>1. Agree(log, log', Used)
    BY <1>4, <1>7 DEF Agree
  <2> QED  BY <2>1, AgreeSame
<1>9. OrderInv'
  <2>1. \A i \in Used' : i <= seq' /\ log'[i].tab \in Tables /\ log'[i].key \in Keys /\ log'[i].val \in Nat
    BY <1>1, <1>4, <1>6, <1>7 DEF OrderInv
  <2>2. \A i \in AllOpen' : log'[i].by \in Writers
    BY <1>4, <1>6, <1>7 DEF OrderInv
  <2>3. \A i, j \in AllOpen' : Same(log', i, j) => log'[i].by = log'[j].by
    BY <1>4, <1>6, <1>7, <1>8 DEF OrderInv
  <2>4. Before(log, Committed \cup O, AllOpen \ O)
    BY <1>2 DEF OrderInv, Before
  <2>5. Before(log, Done, Pending \cup O)
    BY <1>2, <1>7 DEF OrderInv, Before
  <2>6. Before(log', Committed', AllOpen') /\ Before(log', Done', Pending')
    BY <1>2, <1>6, <1>7, <1>8, <2>4, <2>5
  <2> QED  BY <2>1, <2>2, <2>3, <2>6 DEF OrderInv
<1>10. ChainInv'
  <2>0. Logged' = Logged /\ Logged \subseteq Used /\ Agree(log, log', Logged)
    BY <1>1, <1>4, <1>6, <1>7, <1>8 DEF Logged, Agree
  <2>1. Logged \in SUBSET Nat /\ Before(log, Logged, Logged \ Logged) /\ Chain(log, Logged)
    BY <1>7, <2>0, IdsNat DEF ChainInv, Before
  <2>2. Chain(log', Logged)
    BY <2>0, <2>1, ChainCut
  <2> QED  BY <2>0, <2>2 DEF ChainInv
<1>11. TableInv'
  <2>0. \A u \in Tables, h \in Keys, x \in Writers : emptied[x][u][h] = 0 => emptied'[x][u][h] = 0
    BY <1>1 DEF TypeInv, NoneEmptied
  <2>1. ASSUME NEW u \in Tables, NEW h \in Keys, <<u, h>> \notin unlogged
        PROVE  ValueOf(log', RowsOf(log', Committed \cup O, u, h), table'[u][h])
    <3>1. RowsOf(log', Committed \cup O, u, h) = RowsOf(log, Committed \cup O, u, h)
          /\ RowsOf(log, Committed \cup O, u, h) \in SUBSET Used
      BY <1>2, <1>7, <1>8 DEF RowsOf
    <3>2. table'[u][h] = After(w, u, h)
      BY <1>1
    <3> QED  BY <1>3, <1>8, <2>1, <3>1, <3>2
  <2> QED  BY <1>1, <1>6, <2>0, <2>1 DEF TableInv
<1>12. SyncInv' /\ IsamInv'
  <2>1. Before(log', Committed, Used' \ Committed)
    <3>1. Used' \ Committed = AllOpen
      BY <1>6, <1>7
    <3> QED  BY <1>7, <1>8, <3>1 DEF OrderInv
  <2>2. Agree(log, log', Committed) /\ Committed' \subseteq Used'
    BY <1>2, <1>6, <1>7, <1>8 DEF Agree
  <2> QED  BY <1>1, <1>6, <2>1, <2>2, WritersKeep
<1> QED  BY <1>5, <1>9, <1>10, <1>11, <1>12

\* ROLLBACK: a record loses all of its open rows or none.
LEMMA RollbackKeeps == ASSUME Inv, NEW w \in Writers, Rollback(w) PROVE Inv'
<1> USE DEF Inv, LogInv
<1> DEFINE O == Open(w)
<1>1. /\ status' = [i \in Ids |-> IF i \in O THEN "unused" ELSE status[i]]
      /\ log' = [i \in Ids |-> IF i \in O THEN NoRow ELSE log[i]]
      /\ emptied' = [emptied EXCEPT ![w] = NoneEmptied]
      /\ UNCHANGED <<table, seq, unlogged, isam, spc, todo, mark, applied, astray>>
  BY DEF Rollback, Ends, syncVars
<1>2. /\ O \subseteq AllOpen /\ O \cap Committed = {} /\ O \subseteq Ids
      /\ Before(log, Committed, O)
      /\ \A i \in AllOpen \ O, j \in O : ~Same(log, i, j) /\ ~Same(log, j, i)
  BY OpenOf
<1> HIDE DEF O
<1>3. \A i \in Ids : /\ i \notin O => log'[i] = log[i] /\ status'[i] = status[i]
                     /\ i \in O => status'[i] = "unused" /\ status[i] = "open"
  BY <1>1, <1>2 DEF AllOpen
<1>4. TypeInv'
  <2>1. NoRow \in Row
    BY DEF NoRow, Row
  <2>2. log' \in [Ids -> Row]
    BY <1>1, <2>1 DEF TypeInv
  <2>3. status' \in [Ids -> {"unused", "open", "PENDING", "SUCCESS", "ERROR"}]
    BY <1>1 DEF TypeInv
  <2>4. emptied' \in [Writers -> [Tables -> [Keys -> Nat]]]
    BY <1>1 DEF TypeInv, NoneEmptied
  <2> QED  BY <1>1, <2>2, <2>3, <2>4 DEF TypeInv
<1>5. /\ Done' = Done /\ Pending' = Pending /\ AllOpen' = AllOpen \ O /\ Used' = Used \ O
      /\ Committed' = Committed
  <2>1. Done' = Done /\ Pending' = Pending
    BY <1>2, <1>3 DEF Done, Pending
  <2>2. AllOpen' = AllOpen \ O /\ Used' = Used \ O
    BY <1>2, <1>3 DEF AllOpen, Used
  <2> QED  BY <2>1, <2>2 DEF Committed
<1>6. /\ Committed \subseteq Used /\ AllOpen \subseteq Used /\ Done \subseteq Committed /\ Pending \subseteq Committed
      /\ Used = Committed \cup AllOpen /\ Committed \cap AllOpen = {} /\ Used \subseteq Ids
  BY StatusSets DEF Committed
<1> DEFINE V == Used \ O
<1>7. V = Committed \cup (AllOpen \ O) /\ V \subseteq Used /\ Committed \subseteq V /\ Used \ V = O
  BY <1>2, <1>6
<1> HIDE DEF V
<1>8. /\ Agree(log, log', V)
      /\ \A i, j \in V : Same(log', i, j) <=> Same(log, i, j)
      /\ \A T \in SUBSET V : \A u, h : RowsOf(log', T, u, h) = RowsOf(log, T, u, h)
      /\ \A T \in SUBSET V : \A x : ValueOf(log, T, x) => ValueOf(log', T, x)
      /\ \A A, B \in SUBSET V : Before(log, A, B) => Before(log', A, B)
  <2>1. Agree(log, log', V)
    BY <1>3, <1>6 DEF Agree, V
  <2> QED  BY <2>1, AgreeSame
<1>9. OrderInv'
  <2>1. \A i \in Used' : i <= seq' /\ log'[i].tab \in Tables /\ log'[i].key \in Keys /\ log'[i].val \in Nat
    BY <1>1, <1>3, <1>5, <1>6 DEF OrderInv
  <2>2. \A i \in AllOpen' : log'[i].by \in Writers
    BY <1>3, <1>5, <1>6 DEF OrderInv
  <2>3. \A i, j \in AllOpen' : Same(log', i, j) => log'[i].by = log'[j].by
    BY <1>3, <1>5, <1>6, <1>7, <1>8 DEF OrderInv
  <2>4. Before(log, Committed, AllOpen \ O)
    BY DEF OrderInv, Before
  <2>5. Before(log', Committed', AllOpen') /\ Before(log', Done', Pending')
    BY <1>5, <1>6, <1>7, <1>8, <2>4 DEF OrderInv
  <2> QED  BY <2>1, <2>2, <2>3, <2>5 DEF OrderInv
<1>10. ChainInv'
  <2> DEFINE W == Logged \cap V
  <2>0. Logged' = W /\ W \subseteq V /\ Agree(log, log', W)
    BY <1>1, <1>3, <1>5, <1>6, <1>8 DEF Logged, Agree, V
  <2>1. Before(log, W, Logged \ W)
    <3>1. Logged \ W \subseteq O /\ Before(log, V, O)
      BY <1>2, <1>7 DEF Before, Logged
    <3> QED  BY <3>1 DEF Before
  <2>2. Logged \in SUBSET Nat /\ W \in SUBSET Logged /\ Chain(log, Logged)
    BY <1>6, IdsNat DEF ChainInv, Logged
  <2>3. Chain(log', W)
    BY <2>0, <2>1, <2>2, ChainCut
  <2> QED  BY <2>0, <2>3 DEF ChainInv
<1>11. TableInv'
  <2>0. \A u \in Tables, h \in Keys, x \in Writers : emptied[x][u][h] = 0 => emptied'[x][u][h] = 0
    BY <1>1 DEF TypeInv, NoneEmptied
  <2>1. ASSUME NEW u \in Tables, NEW h \in Keys, <<u, h>> \notin unlogged
        PROVE  ValueOf(log', RowsOf(log', Committed, u, h), table[u][h])
    <3>1. RowsOf(log', Committed, u, h) = RowsOf(log, Committed, u, h)
          /\ RowsOf(log, Committed, u, h) \in SUBSET V
      BY <1>7, <1>8 DEF RowsOf
    <3> QED  BY <1>8, <2>1, <3>1 DEF TableInv
  <2> QED  BY <1>1, <1>5, <2>0, <2>1 DEF TableInv
<1>12. SyncInv' /\ IsamInv'
  <2>1. Before(log', Committed, Used' \ Committed)
    <3>1. Used' \ Committed = AllOpen \ O
      BY <1>2, <1>5, <1>6
    <3>2. Before(log, Committed, AllOpen \ O)
      BY DEF OrderInv, Before
    <3> QED  BY <1>7, <1>8, <3>1, <3>2
  <2>2. Agree(log, log', Committed) /\ Committed' \subseteq Used'
    BY <1>5, <1>7, <1>8 DEF Agree, V
  <2> QED  BY <1>1, <1>5, <2>1, <2>2, WritersKeep
<1> QED  BY <1>4, <1>9, <1>10, <1>11, <1>12

--------------------------------------------------------------------------------
(* sync_execute.                                                           *)

\* What the ISAM file can have, by the rows that are behind and ahead.
CanHave(A, B, k, v) ==
    \/ \E i \in RowsOf(log, A, Paired.fcd, k) : v = log[i].val
    \/ ValueOf(log, RowsOf(log, B, Paired.fcd, k), v)

\* The invariant of the file, with the rows named.
LEMMA IsamIs ==
    IsamInv <=> (Paired.fcd = Paired.tab =>
        /\ \A k \in Keys : \/ <<Paired.fcd, k>> \in astray \cup unlogged
                           \/ CanHave(Ahead, Behind, k, isam[Paired.fcd][k])
        /\ \A t \in Tables \ {Paired.fcd}, k \in Keys : isam[t][k] = NoRec)
BY DEF IsamInv, CanHave

\* A pass that is lost: its marks are, and its rows come again.
LEMMA LosePass ==
    ASSUME SyncInv, spc = "fetch", NEW k, NEW v, CanHave(Ahead, Behind, k, v)
    PROVE  CanHave(Pending, Done, k, v)
<1> DEFINE B == RowsOf(log, Behind, Paired.fcd, k)
           D == RowsOf(log, Done, Paired.fcd, k)
<1>1. Ahead \subseteq Pending /\ Behind = Done \cup Marks /\ Marks \subseteq Pending
  BY DEF Ahead, Behind, SyncInv, PassInv
<1>2. D \subseteq B
  BY <1>1 DEF RowsOf
<1>3. CASE \E i \in RowsOf(log, Ahead, Paired.fcd, k) : v = log[i].val
  BY <1>1, <1>3 DEF CanHave, RowsOf
<1>4. CASE ValueOf(log, B, v) /\ B = {}
  BY <1>2, <1>4 DEF CanHave, ValueOf
<1>5. CASE ValueOf(log, B, v) /\ B # {}
  <2>1. PICK m \in B : v = log[m].val /\ \A j \in B : j <= m
    BY <1>5 DEF ValueOf
  <2>2. CASE m \in D
    BY <1>2, <2>1, <2>2 DEF CanHave, ValueOf
  <2>3. CASE m \notin D
    <3>1. m \in RowsOf(log, Pending, Paired.fcd, k)
      BY <1>1, <2>3 DEF RowsOf
    <3> QED  BY <2>1, <3>1 DEF CanHave
  <2> QED  BY <2>2, <2>3
<1> QED  BY <1>3, <1>4, <1>5 DEF CanHave

\* A step of sync_execute that leaves the log alone.
LEMMA LogKeeps ==
    ASSUME LogInv, UNCHANGED <<table, seq, log, emptied, unlogged, status>>
    PROVE  /\ OrderInv' /\ ChainInv' /\ TableInv'
           /\ UNCHANGED <<Done, Pending, AllOpen, Used, Committed>>
<1>1. UNCHANGED <<Done, Pending, AllOpen, Used, Committed>>
  BY DEF Done, Pending, AllOpen, Used, Committed
<1>2. Logged' = Logged
  BY <1>1 DEF Logged
<1> QED  BY <1>1, <1>2 DEF LogInv, OrderInv, ChainInv, TableInv

\* declare cursor_columns.
LEMMA BeginKeeps == ASSUME Inv, SyncBegin PROVE Inv'
<1> USE DEF Inv, LogInv
<1>1. /\ spc = "sleep" /\ spc' = "fetch" /\ todo' = Pending /\ mark' = NoMarks
      /\ UNCHANGED <<table, seq, log, emptied, unlogged, status, isam, applied, astray>>
  BY DEF SyncBegin, dbVars, Cursor
<1>2. OrderInv' /\ ChainInv' /\ TableInv' /\ UNCHANGED <<Done, Pending, AllOpen, Used, Committed>>
  BY <1>1, LogKeeps
<1>3. TypeInv'
  BY <1>1, StatusSets DEF TypeInv, NoMarks
<1>4. Marks' = {}
  BY <1>1 DEF Marks, NoMarks
<1>5. SyncInv'
  <2>1. AppliedInv'
    BY <1>1, <1>2 DEF SyncInv, AppliedInv, Paired
  <2>2. PassInv'
    BY <1>1, <1>2, <1>4 DEF SyncInv, AppliedInv, PassInv, Committed
  <2> QED  BY <2>1, <2>2 DEF SyncInv
<1>6. Behind' = Behind /\ Ahead' = Ahead
  BY <1>1, <1>2, <1>4 DEF Behind, Ahead
<1>7. IsamInv'
  BY <1>1, <1>6 DEF IsamInv, Paired
<1> QED  BY <1>2, <1>3, <1>5, <1>7

\* "TABLE NOT FOUND".
LEMMA SkipKeeps == ASSUME Inv, SyncSkip PROVE Inv'
<1> USE DEF Inv, LogInv
<1>1. /\ spc = "fetch" /\ todo # {} /\ log[NextRow].tab # Paired.fcd /\ todo' = todo \ {NextRow}
      /\ UNCHANGED <<table, seq, log, emptied, unlogged, status, isam, spc, mark, applied, astray>>
  BY DEF SyncSkip, dbVars
<1>2. OrderInv' /\ ChainInv' /\ TableInv' /\ UNCHANGED <<Done, Pending, AllOpen, Used, Committed>>
  BY <1>1, LogKeeps
<1>3. TypeInv'
  BY <1>1 DEF TypeInv
<1>4. Marks' = Marks
  BY <1>1 DEF Marks
<1>5. SyncInv'
  <2>1. AppliedInv'
    BY <1>1, <1>2 DEF SyncInv, AppliedInv, Paired
  <2>2. PassInv'
    BY <1>1, <1>2, <1>4 DEF SyncInv, PassInv, Same, Paired
  <2> QED  BY <2>1, <2>2 DEF SyncInv
<1>6. Behind' = Behind /\ Ahead' = Ahead
  BY <1>1, <1>2, <1>4 DEF Behind, Ahead
<1>7. IsamInv'
  BY <1>1, <1>6 DEF IsamInv, Paired
<1> QED  BY <1>2, <1>3, <1>5, <1>7

\* The process ends in a pass.
LEMMA CrashKeeps == ASSUME Inv, SyncCrash PROVE Inv'
<1> USE DEF Inv, LogInv
<1>1. /\ spc # "sleep" /\ spc' = "sleep" /\ todo' = {} /\ mark' = NoMarks
      /\ UNCHANGED <<table, seq, log, emptied, unlogged, status, isam, applied, astray>>
  BY DEF SyncCrash, dbVars
<1>2. OrderInv' /\ ChainInv' /\ TableInv' /\ UNCHANGED <<Done, Pending, AllOpen, Used, Committed>>
  BY <1>1, LogKeeps
<1>3. TypeInv'
  BY <1>1 DEF TypeInv, NoMarks
<1>4. SyncInv'
  BY <1>1, <1>2 DEF SyncInv, AppliedInv, PassInv, Paired
<1>5. Behind' = Done /\ Ahead' = Pending
  BY <1>1, <1>2, StatusSets DEF Behind, Ahead
<1>6. spc # "fetch" => Behind = Done /\ Ahead = Pending
  BY StatusSets DEF Behind, Ahead
<1>7. \A k, v : CanHave(Ahead, Behind, k, v) => CanHave(Pending, Done, k, v)
  BY <1>6, LosePass
<1>8. IsamInv'
  <2> SUFFICES ASSUME Paired.fcd = Paired.tab PROVE IsamInv'
    BY DEF IsamInv, Paired
  <2>1. \A k \in Keys : \/ <<Paired.fcd, k>> \in astray \cup unlogged
                        \/ CanHave(Pending, Done, k, isam[Paired.fcd][k])
    BY <1>7, IsamIs
  <2>2. \A t \in Tables \ {Paired.fcd}, k \in Keys : isam[t][k] = NoRec
    BY IsamIs
  <2> QED  BY <1>1, <1>5, <2>1, <2>2 DEF IsamInv, CanHave, Paired
<1> QED  BY <1>2, <1>3, <1>4, <1>8

\* The end of a pass: the marked rows of a record are its first ones.
LEMMA EndKeeps == ASSUME Inv, SyncEnd PROVE Inv'
<1> USE DEF Inv, LogInv
<1>1. /\ (spc = "fetch" /\ todo = {}) \/ spc = "failed"
      /\ spc' = "sleep" /\ todo' = {} /\ mark' = NoMarks
      /\ status' = [i \in Ids |-> IF spc = "fetch" /\ mark[i] # "none" THEN mark[i] ELSE status[i]]
      /\ UNCHANGED <<table, seq, log, emptied, unlogged, isam, applied, astray>>
  BY DEF SyncEnd, dbVars
<1>2. TypeInv'
  BY <1>1 DEF TypeInv, NoMarks
<1>3. CASE spc = "failed"
  <2>1. status' = status
    BY <1>1, <1>3 DEF TypeInv
  <2>2. OrderInv' /\ ChainInv' /\ TableInv' /\ UNCHANGED <<Done, Pending, AllOpen, Used, Committed>>
    BY <1>1, <2>1, LogKeeps
  <2>3. SyncInv'
    BY <1>1, <2>2 DEF SyncInv, AppliedInv, PassInv, Paired
  <2>4. Behind' = Behind /\ Ahead' = Ahead
    BY <1>1, <1>3, <2>2 DEF Behind, Ahead
  <2>5. IsamInv'
    BY <1>1, <2>4 DEF IsamInv, Paired
  <2> QED  BY <1>2, <2>2, <2>3, <2>5
<1>4. CASE spc = "fetch"
  <2>1. Marks \subseteq Pending /\ Marks \subseteq applied /\ todo = {}
    BY <1>1, <1>4 DEF SyncInv, PassInv
  <2>2. /\ Done' = Done \cup Marks /\ Pending' = Pending \ Marks
        /\ UNCHANGED <<AllOpen, Used, Committed>>
    <3>1. \A i \in Ids : /\ i \in Marks => status'[i] \in {"SUCCESS", "ERROR"} /\ status[i] = "PENDING"
                         /\ i \notin Marks => status'[i] = status[i]
      BY <1>1, <1>4, <2>1 DEF Marks, TypeInv, Pending
    <3>2. Done' = Done \cup Marks /\ Pending' = Pending \ Marks
      BY <3>1, StatusSets DEF Done, Pending
    <3>3. UNCHANGED <<AllOpen, Used>>
      BY <3>1 DEF AllOpen, Used
    <3> QED  BY <2>1, <3>2, <3>3 DEF Committed
  <2>3. ASSUME NEW m \in Marks, NEW j \in Pending \ Marks, Same(log, m, j)  PROVE m < j
    <3>1. log[m].tab = Paired.fcd /\ Paired.fcd = Paired.tab
      BY <1>4, <2>1 DEF SyncInv, AppliedInv, PassInv
    <3>2. ~ (j < m)
      BY <1>4, <2>1, <2>3, <3>1 DEF SyncInv, PassInv
    <3>3. m \in Nat /\ j \in Nat /\ m # j
      BY StatusSets, IdsNat
    <3> QED  BY <3>2, <3>3
  <2>4. Before(log, Done \cup Marks, Pending \ Marks)
    BY <2>3 DEF OrderInv, Before
  <2>5. OrderInv' /\ ChainInv' /\ TableInv'
    BY <1>1, <2>2, <2>4 DEF OrderInv, ChainInv, TableInv, Logged
  <2>6. SyncInv'
    BY <1>1, <2>1, <2>2 DEF SyncInv, AppliedInv, PassInv, Paired
  <2>7. Behind' = Behind /\ Ahead' = Ahead
    BY <1>1, <1>4, <2>2 DEF Behind, Ahead
  <2>8. IsamInv'
    BY <1>1, <2>7 DEF IsamInv, Paired
  <2> QED  BY <1>2, <2>5, <2>6, <2>8
<1> QED  BY <1>1, <1>3, <1>4

\* The row a pass takes: the rows of its record before it have been tried.
LEMMA RowInOrder ==
    ASSUME LogInv, SyncInv, spc = "fetch", todo # {}, log[NextRow].tab = Paired.fcd
    PROVE  /\ NextRow \in todo /\ NextRow \in Pending /\ NextRow \in Ids
           /\ \A j \in todo : NextRow <= j
           /\ \A j \in Used : Same(log, NextRow, j) /\ j < NextRow => j \in applied
<1> USE DEF LogInv, SyncInv
<1>1. NextRow \in todo /\ \A j \in todo : NextRow <= j
  BY FirstIs DEF TypeInv
<1>2. NextRow \in Pending /\ NextRow \in Ids /\ NextRow \in Committed
  BY <1>1, StatusSets DEF PassInv, Committed
<1>3. ASSUME NEW j \in Used, Same(log, NextRow, j), j < NextRow  PROVE j \in applied
  <2>1. j \in Nat /\ NextRow \in Nat
    BY <1>2, StatusSets, IdsNat
  <2>2. j \notin todo
    BY <1>1, <1>3, <2>1
  <2>3. j \notin AllOpen
    <3> SUFFICES ASSUME j \in AllOpen PROVE FALSE
      OBVIOUS
    <3>1. NextRow < j
      BY <1>2, <1>3 DEF OrderInv, Before
    <3> QED  BY <1>3, <2>1, <3>1
  <2>4. j \in Committed
    BY <1>3, <2>3, StatusSets
  <2> QED  BY <1>1, <1>3, <2>2, <2>4 DEF PassInv
<1> QED  BY <1>1, <1>2, <1>3

\* It is the first of the rows of its record that are ahead, and what is
\* behind it decides whether it is an insert.
LEMMA RowChain ==
    ASSUME LogInv, SyncInv, spc = "fetch", todo # {}, log[NextRow].tab = Paired.fcd,
           Paired.fcd = Paired.tab, NEW k, k = log[NextRow].key
    PROVE  /\ NextRow \in Ahead
           /\ \A j \in RowsOf(log, Behind, Paired.fcd, k) : j < NextRow
           /\ \A v : ValueOf(log, RowsOf(log, Behind, Paired.fcd, k), v)
                        /\ <<Paired.fcd, k>> \notin unlogged
                        => (log[NextRow].action = "insert" <=> v = NoRec)
<1> USE DEF LogInv, SyncInv
<1> DEFINE i == NextRow
           B == RowsOf(log, Behind, Paired.fcd, k)
<1>1. i \in todo /\ i \in Pending /\ i \in Ids /\ i \in Nat /\ i \in Used /\ \A j \in todo : i <= j
  BY RowInOrder, StatusSets, IdsNat DEF Committed
<1>2. /\ Behind = Done \cup Marks /\ Behind \subseteq Ids
      /\ Behind \subseteq Used
  BY StatusSets DEF Behind, Committed, PassInv
<1>3. \A m \in Marks : m < i
  BY <1>1 DEF PassInv
<1>4. i \in Ahead
  <2>1. i \notin Marks
    BY <1>1, <1>3
  <2> QED  BY <1>1, <1>2, <2>1, StatusSets DEF Ahead
<1>5. B \subseteq Behind /\ \A j \in B : Same(log, i, j) /\ Same(log, j, i)
  BY DEF RowsOf, Same
<1>6. \A j \in B : j < i
  BY <1>1, <1>2, <1>3, <1>5 DEF OrderInv, Before
<1> HIDE DEF i
<1>7. ASSUME NEW j \in Used, Same(log, i, j)  PROVE j \in B \/ i <= j
  <2>1. CASE j \in Behind
    BY <1>7, <2>1 DEF RowsOf, Same, i
  <2>2. CASE j \in AllOpen
    <3>1. i < j /\ j \in Nat
      BY <1>1, <1>7, <2>2, StatusSets, IdsNat DEF OrderInv, Before, Committed
    <3> QED  BY <1>1, <3>1
  <2>3. CASE j \in Pending /\ j \notin Behind
    <3>1. j \in Nat
      BY <2>3, StatusSets, IdsNat
    <3>2. j < i => j \in todo
      BY <1>1, <1>2, <1>7, <2>3 DEF PassInv, i
    <3> QED  BY <1>1, <3>1, <3>2
  <2> QED  BY <1>2, <1>7, <2>1, <2>2, <2>3, StatusSets DEF Committed
<1>8. ASSUME NEW v, ValueOf(log, B, v), <<Paired.fcd, k>> \notin unlogged
      PROVE  log[i].action = "insert" <=> v = NoRec
  <2>0. i \in Logged /\ \A j \in Used : Same(log, i, j) => j \in Logged
    BY <1>1, <1>8 DEF Logged, Same, i
  <2>4. Logged \subseteq Used
    BY DEF Logged
  <2>1. CASE B = {}
    <3>1. \A j \in Used : Same(log, i, j) => i <= j
      BY <1>7, <2>1
    <3>2. log[i].action = "insert"
      BY <2>0, <2>4, <3>1 DEF ChainInv, Chain
    <3> QED  BY <1>8, <2>1, <3>2 DEF ValueOf
  <2>2. CASE B # {}
    <3>1. PICK m \in B : v = log[m].val /\ \A j \in B : j <= m
      BY <1>8, <2>2 DEF ValueOf
    <3>2. m \in Used /\ Same(log, i, m) /\ m < i
      BY <1>2, <1>5, <1>6 DEF i
    <3>3. \A h \in Used : Same(log, i, h) => h <= m \/ i <= h
      BY <1>7, <3>1
    <3> QED  BY <2>0, <2>4, <3>1, <3>2, <3>3 DEF ChainInv, Chain
  <2> QED  BY <2>1, <2>2
<1> QED  BY <1>4, <1>6, <1>8 DEF i

\* A row is repeated in the ISAM file and marked.
LEMMA RowKeeps == ASSUME Inv, SyncRow PROVE Inv'
<1> USE DEF Inv, LogInv
<1> DEFINE i == NextRow
           f == Paired.fcd
<1>1. /\ spc = "fetch" /\ todo # {} /\ log[i].tab = f
      /\ todo' = todo \ {i} /\ applied' = applied \cup {i}
      /\ UNCHANGED <<table, seq, log, emptied, unlogged, status>>
  BY DEF SyncRow, dbVars
<1>0. PICK r \in Decode(Paired.tab, log[i]) : \E st \in ExtStatus(log[i].action, isam[f][r[1]]) :
          /\ isam' = IF st = "00" THEN [isam EXCEPT ![f][r[1]] = r[2]] ELSE isam
          /\ mark' = IF Fits(st) THEN Marked(i, NewStatus(st)) ELSE mark
          /\ spc' = IF Fits(st) THEN "fetch" ELSE "failed"
          /\ astray' = Astray(log[i], f, r[1], st)
  BY DEF SyncRow
<1>2. PICK st \in ExtStatus(log[i].action, isam[f][r[1]]) :
          /\ isam' = IF st = "00" THEN [isam EXCEPT ![f][r[1]] = r[2]] ELSE isam
          /\ mark' = IF Fits(st) THEN Marked(i, NewStatus(st)) ELSE mark
          /\ spc' = IF Fits(st) THEN "fetch" ELSE "failed"
          /\ astray' = Astray(log[i], f, r[1], st)
  BY <1>0
<1>3. /\ i \in todo /\ i \in Pending /\ i \in Ids /\ \A j \in todo : i <= j
      /\ \A j \in Used : Same(log, i, j) /\ j < i => j \in applied
  BY <1>1, RowInOrder
<1>4. OrderInv' /\ ChainInv' /\ TableInv' /\ UNCHANGED <<Done, Pending, AllOpen, Used, Committed>>
  BY <1>1, LogKeeps
<1>5. i \in Used /\ i \in Committed /\ i \in Nat /\ f \in Tables /\ log[i].key \in Keys /\ log[i].val \in Nat
  BY <1>1, <1>3, StatusSets, IdsNat DEF Committed, OrderInv
<1>6. r[1] \in Keys /\ r[2] \in Nat /\ (f = Paired.tab /\ ~log[i].pipe => r[1] = log[i].key /\ r[2] = log[i].val)
  <2>1. CASE Paired.tab = log[i].tab /\ ~log[i].pipe
    <3>1. r = <<log[i].key, log[i].val>>
      BY <1>2, <2>1 DEF Decode
    <3> QED  BY <1>5, <3>1
  <2>2. CASE ~ (Paired.tab = log[i].tab /\ ~log[i].pipe)
    <3>1. r \in Keys \X (IF log[i].action = "delete" THEN {NoRec} ELSE Ids)
      BY <1>2, <2>2 DEF Decode
    <3>2. \A x \in (IF log[i].action = "delete" THEN {NoRec} ELSE Ids) : x \in Nat
      BY IdsNat DEF NoRec
    <3>3. r[1] \in Keys /\ r[2] \in (IF log[i].action = "delete" THEN {NoRec} ELSE Ids)
      BY <3>1
    <3>4. r[2] \in Nat
      BY <3>2, <3>3
    <3> QED  BY <1>1, <2>2, <3>3, <3>4
  <2> QED  BY <2>1, <2>2
<1> HIDE DEF i, f
<1>7. TypeInv'
  <2>1. isam' \in [Tables -> [Keys -> Nat]]
    BY <1>2, <1>5, <1>6 DEF TypeInv
  <2>2. mark' \in [Ids -> {"none", "SUCCESS", "ERROR"}]
    BY <1>2, <1>3 DEF TypeInv, Marked, NewStatus
  <2>3. spc' \in {"sleep", "fetch", "failed"}
    BY <1>2
  <2> QED  BY <1>1, <1>3, <2>1, <2>2, <2>3 DEF TypeInv
<1>8. AppliedInv'
  <2>1. applied' \subseteq Committed /\ Done \subseteq applied'
    BY <1>1, <1>5 DEF SyncInv, AppliedInv
  <2>2. \A j \in applied' : log[j].tab = f
    BY <1>1 DEF SyncInv, AppliedInv, f
  <2>3. \A h \in applied', j \in Used : Same(log, h, j) /\ j < h => j \in applied'
    BY <1>1, <1>3 DEF SyncInv, AppliedInv
  <2> QED  BY <1>1, <1>4, <2>1, <2>2, <2>3 DEF AppliedInv, Paired, f
<1>9. ASSUME Fits(st)  PROVE Marks' = Marks \cup (IF f = Paired.tab THEN {i} ELSE {})
  <2>1. CASE f = Paired.tab
    <3>1. mark' = [mark EXCEPT ![i] = NewStatus(st)] /\ NewStatus(st) # "none"
      BY <1>1, <1>2, <1>9, <2>1 DEF Marked, NewStatus
    <3> QED  BY <1>3, <2>1, <3>1 DEF Marks, TypeInv
  <2>2. CASE f # Paired.tab
    <3>1. mark' = mark
      BY <1>1, <1>2, <1>9, <2>2 DEF Marked
    <3> QED  BY <2>2, <3>1 DEF Marks
  <2> QED  BY <2>1, <2>2
<1>10. PassInv'
  <2> SUFFICES ASSUME spc' = "fetch" PROVE PassInv'
    BY DEF PassInv
  <2>1. Fits(st)
    BY <1>2
  <2>2. Marks' = Marks \cup (IF f = Paired.tab THEN {i} ELSE {})
    BY <1>9, <2>1
  <2>3. todo' \subseteq Pending /\ Marks' \subseteq Pending /\ Marks' \subseteq applied'
    BY <1>1, <1>3, <2>2 DEF SyncInv, PassInv
  <2>4. \A m \in Marks' : log[m].tab = Paired.tab
    BY <1>1, <2>2 DEF SyncInv, PassInv
  <2>5. ASSUME NEW m \in Marks', NEW j \in todo'  PROVE m < j
    <3>1. j \in todo /\ j # i /\ i <= j /\ j \in Nat
      BY <1>1, <1>3, <2>5, IdsNat DEF TypeInv
    <3>2. i < j
      BY <1>5, <3>1
    <3> QED  BY <1>1, <2>2, <3>1, <3>2 DEF SyncInv, PassInv
  <2>6. \A h \in todo', j \in Committed :
            Same(log, h, j) /\ j < h /\ log[h].tab = f => j \in todo' \cup applied'
    BY <1>1 DEF SyncInv, PassInv, f
  <2>7. f = Paired.tab =>
            \A h \in todo' \cup Marks', j \in Pending :
                Same(log, h, j) /\ j < h /\ log[h].tab = f => j \in todo' \cup Marks'
    <3> SUFFICES ASSUME f = Paired.tab
                 PROVE  \A h \in todo' \cup Marks', j \in Pending :
                          Same(log, h, j) /\ j < h /\ log[h].tab = f => j \in todo' \cup Marks'
      OBVIOUS
    <3>1. todo' \cup Marks' = todo \cup Marks
      BY <1>1, <1>3, <2>2
    <3> QED  BY <1>1, <3>1 DEF SyncInv, PassInv, f
  <2> QED  BY <1>1, <1>4, <2>3, <2>4, <2>5, <2>6, <2>7 DEF PassInv, Paired, f
<1>11. IsamInv'
  <2> SUFFICES ASSUME f = Paired.tab PROVE IsamInv'
    BY DEF IsamInv, Paired, f
  <2> DEFINE k == log[i].key
             A == RowsOf(log, Ahead, f, k)
             B == RowsOf(log, Behind, f, k)
             cur == isam[f][k]
  <2>1. r[1] \in Keys /\ k \in Keys /\ (~log[i].pipe => r[1] = k /\ r[2] = log[i].val)
    BY <1>5, <1>6
  <2>2. /\ i \in Ahead /\ (\A j \in B : j < i)
        /\ \A v : ValueOf(log, B, v) /\ <<f, k>> \notin unlogged
                     => (log[i].action = "insert" <=> v = NoRec)
    BY <1>1, RowChain DEF f, i
  <2>3. /\ st = "00" => isam'[f][r[1]] = r[2]
        /\ \A t \in Tables, h \in Keys : t # f \/ h # r[1] \/ st # "00" => isam'[t][h] = isam[t][h]
    BY <1>2, <1>5, <2>1 DEF TypeInv
  <2>4. \A h \in Keys : /\ h # k /\ (h # r[1] \/ st # "00") =>
                              (<<f, h>> \in astray' <=> <<f, h>> \in astray)
                        /\ Failed(st) \/ log[i].pipe => <<f, k>> \in astray'
                        /\ log[i].pipe /\ st = "00" => <<f, r[1]>> \in astray'
                        /\ ~log[i].pipe /\ st \in {"22", "23"} =>
                              (<<f, k>> \in astray' <=> <<f, k>> \in astray)
    BY <1>2, <2>1 DEF Failed, Astray
  <2>5. st \in {"00", "22", "23", "9xx", "9xxx"}
        /\ (st \in {"22", "23"} /\ ~log[i].pipe => ~ (log[i].action = "insert" <=> cur = NoRec))
    BY <1>2, <2>1 DEF ExtStatus
  <2>6. \A t \in Tables \ {f}, h \in Keys : isam'[t][h] = NoRec
    BY <2>3 DEF IsamInv, f
  <2>7. ASSUME NEW h \in Keys, h # k, <<f, h>> \notin astray' \cup unlogged
        PROVE  CanHave(Ahead, Behind, h, isam'[f][h])
    <3>1. h # r[1] \/ st # "00"
      BY <2>1, <2>4, <2>7
    <3>2. isam'[f][h] = isam[f][h] /\ <<f, h>> \notin astray \cup unlogged
      BY <1>5, <2>3, <2>4, <2>7, <3>1
    <3> QED  BY <3>2, IsamIs DEF f
  <2>8. CASE ~Fits(st)
    <3>1. Failed(st) /\ spc' = "failed"
      BY <1>2, <2>8 DEF Fits, Failed
    <3>2. Behind' = Done /\ Ahead' = Pending
      BY <1>4, <3>1, StatusSets DEF Behind, Ahead
    <3>3. \A h \in Keys : <<f, h>> \in astray' \cup unlogged \/ CanHave(Pending, Done, h, isam'[f][h])
      BY <1>1, <2>4, <2>7, <3>1, LosePass
    <3> QED  BY <1>1, <2>6, <3>2, <3>3 DEF IsamInv, CanHave, Paired, f
  <2>9. CASE Fits(st)
    <3>1. Behind' = Behind \cup {i} /\ Ahead' = Ahead \ {i}
      BY <1>1, <1>2, <1>4, <1>9, <2>9 DEF Behind, Ahead
    <3>2. ASSUME NEW h \in Keys, h # k, <<f, h>> \notin astray' \cup unlogged
          PROVE  CanHave(Ahead', Behind', h, isam'[f][h])
      <4>1. RowsOf(log, Behind', f, h) = RowsOf(log, Behind, f, h)
            /\ RowsOf(log, Ahead', f, h) = RowsOf(log, Ahead, f, h)
        BY <3>1, <3>2 DEF RowsOf
      <4> QED  BY <2>7, <3>2, <4>1 DEF CanHave, f
    <3>3. /\ RowsOf(log, Behind', f, k) = B \cup {i}
          /\ RowsOf(log, Ahead', f, k) = A \ {i}
      BY <1>1, <3>1 DEF RowsOf
    <3>4. ValueOf(log, B \cup {i}, log[i].val)
      <4>1. \A j \in B \cup {i} : j <= i
        <5>1. \A j \in B : j \in Nat
          BY StatusSets, IdsNat DEF RowsOf, Behind
        <5> QED  BY <1>5, <2>2, <5>1
      <4> QED  BY <4>1 DEF ValueOf
    <3>5. ASSUME <<f, k>> \notin astray' \cup unlogged  PROVE CanHave(Ahead', Behind', k, isam'[f][k])
      <4>0. ~log[i].pipe /\ ~Failed(st)
        BY <2>1, <2>4, <3>5
      <4>1. CASE st = "00"
        BY <2>1, <2>3, <3>3, <3>4, <4>0, <4>1 DEF CanHave, f
      <4>2. CASE st \in {"22", "23"}
        <5>0. isam'[f][k] = cur /\ <<f, k>> \notin astray \cup unlogged
          BY <1>5, <2>1, <2>3, <2>4, <3>5, <4>0, <4>2
        <5>1. CanHave(Ahead, Behind, k, cur)
          BY <2>1, <5>0, IsamIs DEF f
        <5>2. ~ValueOf(log, B, cur)
          BY <2>2, <2>5, <3>5, <4>0, <4>2
        <5>3. PICK j \in A : cur = log[j].val
          BY <5>1, <5>2 DEF CanHave, f
        <5>4. CASE j = i
          BY <3>3, <3>4, <5>0, <5>3, <5>4 DEF CanHave, f
        <5>5. CASE j # i
          BY <3>3, <5>0, <5>3, <5>5 DEF CanHave, f
        <5> QED  BY <5>4, <5>5
      <4> QED  BY <2>5, <4>0, <4>1, <4>2 DEF Failed
    <3>6. \A h \in Keys : <<f, h>> \in astray' \cup unlogged \/ CanHave(Ahead', Behind', h, isam'[f][h])
      BY <3>2, <3>5
    <3> QED  BY <1>1, <2>6, <3>6 DEF IsamInv, CanHave, Paired, f
  <2> QED  BY <2>8, <2>9
<1> QED  BY <1>4, <1>7, <1>8, <1>10, <1>11 DEF SyncInv

\* Every step keeps the invariant.
LEMMA ChangelogStep == ASSUME Inv, [Next]_vars PROVE Inv'
<1>0. ASSUME NEW r \in Written, NEW p \in Pipes  PROVE r[1] \in Tables /\ r[2] \in Keys /\ p \in BOOLEAN
  BY WrittenAssumption, PipesAssumption
<1>1. ASSUME NEW w \in Writers, NEW a \in Actions, NEW r \in Written, NEW p \in Pipes,
             Change(w, a, r[1], r[2], p)
      PROVE  Inv'
  BY <1>0, <1>1, ChangeKeeps
<1>5. ASSUME NEW w \in Writers, NEW r \in Written, NEW p \in Pipes, NEW k \in Keys,
             Rekey(w, r[1], k, r[2], p)
      PROVE  Inv'
  BY <1>0, <1>5, RekeyKeeps
<1>2. CASE Write
  BY <1>1, <1>2, <1>5, TruncateKeeps, CommitKeeps, RollbackKeeps DEF Write
<1>3. CASE sync_execute \/ SyncCrash
  BY <1>3, BeginKeeps, SkipKeeps, RowKeeps, EndKeeps, CrashKeeps DEF sync_execute
<1>4. CASE UNCHANGED vars
  <2>1. UNCHANGED <<table, seq, log, emptied, unlogged, status, isam, spc, todo, mark, applied, astray>>
    BY <1>4 DEF vars, dbVars, syncVars
  <2>2. OrderInv' /\ ChainInv' /\ TableInv' /\ UNCHANGED <<Done, Pending, AllOpen, Used, Committed>>
    BY <2>1, LogKeeps DEF Inv
  <2>3. UNCHANGED <<Marks, Behind, Ahead>>
    BY <2>1, <2>2 DEF Marks, Behind, Ahead
  <2>4. TypeInv'
    BY <2>1 DEF Inv, LogInv, TypeInv
  <2>5. SyncInv'
    BY <2>1, <2>2, <2>3 DEF Inv, SyncInv, AppliedInv, PassInv, Paired
  <2>6. IsamInv'
    BY <2>1, <2>3 DEF Inv, IsamInv, Paired
  <2> QED  BY <2>2, <2>4, <2>5, <2>6 DEF Inv, LogInv
<1> QED  BY <1>2, <1>3, <1>4 DEF Next

\* The fcd and the columns of sync_execute are of one table, as with one table
\* added.
OneTable == Paired.fcd = Paired.tab

\* However the transactions interleave with the passes, and however often a
\* pass is lost with its marks and repeated on a file that has its changes: a
\* key without PENDING rows is the same in the ISAM file and in the table, unless
\* its last change failed in EXTFH or was garbled by a "|", or it was changed by a
\* TRUNCATE or an UPDATE of the primary key.
THEOREM ConvergesCorrect == ASSUME OneTable PROVE Spec => []Converges
<1>1. ASSUME Inv  PROVE Converges
  <2> USE <1>1 DEF Inv, LogInv
  <2> SUFFICES ASSUME NEW x \in DOMAIN Added, NEW t, t = Added[x], NEW k \in Keys
               PROVE  LET P == OfKey(Pending, t, k)
                      IN  IF <<t, k>> \in unlogged THEN TRUE
                          ELSE IF P # {} THEN table[t][k] = log[Last(P)].val
                          ELSE isam[t][k] = table[t][k] \/ <<t, k>> \in astray
    BY DEF Converges
  <2> SUFFICES ASSUME <<t, k>> \notin unlogged
               PROVE  LET P == OfKey(Pending, t, k)
                      IN  IF P # {} THEN table[t][k] = log[Last(P)].val
                          ELSE isam[t][k] = table[t][k] \/ <<t, k>> \in astray
    OBVIOUS
  <2> DEFINE P == RowsOf(log, Pending, t, k)
             D == RowsOf(log, Done, t, k)
             C == RowsOf(log, Committed, t, k)
  <2>1. t \in Tables /\ OfKey(Pending, t, k) = P
    BY AddedAssumption DEF OfKey, RowsOf
  <2>2. C = D \cup P /\ C \in SUBSET Ids /\ P \in SUBSET Ids /\ ValueOf(log, C, table[t][k])
    BY <2>1, StatusSets DEF RowsOf, Committed, TableInv
  <2>3. CASE P # {}
    <3>1. Last(P) \in P /\ \A j \in P : j <= Last(P)
      BY <2>2, <2>3, LastIs
    <3>2. \A j \in D : j < Last(P)
      BY <3>1 DEF OrderInv, Before, Same, RowsOf
    <3> HIDE DEF P, D, C
    <3>3. Last(C) = Last(P)
      <4>1. Last(C) \in C /\ \A j \in C : j <= Last(C)
        BY <2>2, <2>3, LastIs
      <4>2. Last(C) \in Nat /\ Last(P) \in Nat /\ Last(P) \in C
        BY <2>2, <3>1, <4>1, IdsNat
      <4>3. Last(P) <= Last(C)
        BY <4>1, <4>2
      <4>4. Last(C) \in P => Last(C) <= Last(P)
        BY <3>1
      <4>5. Last(C) \in D => Last(C) < Last(P)
        BY <3>2
      <4> QED  BY <2>2, <4>1, <4>2, <4>3, <4>4, <4>5
    <3>4. table[t][k] = log[Last(C)].val
      BY <2>2, <2>3, ValueIs
    <3> QED  BY <2>1, <2>3, <3>3, <3>4
  <2>4. CASE P = {}
    <3>1. C = D
      BY <2>2, <2>4
    <3>2. CASE t # Paired.fcd
      <4>1. D = {}
        BY <3>2 DEF SyncInv, AppliedInv, RowsOf
      <4>2. table[t][k] = NoRec
        BY <2>2, <3>1, <4>1 DEF ValueOf
      <4>3. isam[t][k] = NoRec
        BY <2>1, <3>2 DEF IsamInv, OneTable
      <4> QED  BY <2>1, <2>4, <4>2, <4>3
    <3>3. CASE t = Paired.fcd /\ <<t, k>> \notin astray
      <4>1. Ahead \subseteq Pending /\ (Behind \subseteq Committed) /\ Done \subseteq Behind
        BY DEF Ahead, Behind, SyncInv, PassInv, Committed
      <4>2. RowsOf(log, Ahead, t, k) = {} /\ RowsOf(log, Behind, t, k) = D
        BY <2>4, <3>1, <4>1 DEF RowsOf
      <4>3. ValueOf(log, D, isam[t][k])
        BY <3>3, <4>2 DEF IsamInv, OneTable
      <4>4. isam[t][k] = table[t][k]
        <5>1. CASE D = {}
          BY <2>2, <3>1, <4>3, <5>1 DEF ValueOf
        <5>2. CASE D # {}
          BY <2>2, <3>1, <4>3, <5>2, ValueIs
        <5> QED  BY <5>1, <5>2
      <4> QED  BY <2>1, <2>4, <4>4
    <3> QED  BY <2>1, <2>4, <3>2, <3>3
  <2> QED  BY <2>3, <2>4
<1> QED  BY <1>1, ChangelogInit, ChangelogStep, PTL DEF Spec

\* The changes of a key are tried for the first time in the order they were
\* made, whatever tables are added and whatever fails.
THEOREM FirstInOrderCorrect == Spec => FirstInOrder
<1>1. ASSUME Inv, Next
      PROVE  \A i \in applied' \ applied :
                \A j \in OfKey(Ids, log[i].tab, log[i].key) :
                    /\ j < i /\ status[j] # "unused" => j \in applied
                    /\ j > i => j \notin applied
  <2>1. CASE ~SyncRow
    <3>1. CASE Write
      <4>1. \A w, a, t, k, p : Change(w, a, t, k, p) => applied' = applied
        BY DEF Change
      <4>2. \A w, t, k, h, p : Rekey(w, t, k, h, p) => applied' = applied
        BY DEF Rekey
      <4>3. \A w, t : Truncate(w, t) => applied' = applied
        BY DEF Truncate
      <4>4. \A w : Commit(w) \/ Rollback(w) => applied' = applied
        BY DEF Commit, Rollback, Ends
      <4> QED  BY <3>1, <4>1, <4>2, <4>3, <4>4 DEF Write
    <3>2. CASE SyncBegin \/ SyncSkip \/ SyncEnd \/ SyncCrash
      BY <3>2 DEF SyncBegin, SyncSkip, SyncEnd, SyncCrash
    <3> QED  BY <1>1, <2>1, <3>1, <3>2 DEF Next, sync_execute
  <2>2. CASE SyncRow
    <3> SUFFICES ASSUME NEW i \in applied' \ applied, NEW j \in OfKey(Ids, log[i].tab, log[i].key)
                 PROVE  /\ j < i /\ status[j] # "unused" => j \in applied
                        /\ j > i => j \notin applied
      OBVIOUS
    <3>1. /\ spc = "fetch" /\ todo # {} /\ log[NextRow].tab = Paired.fcd /\ i = NextRow
      BY <2>2 DEF SyncRow
    <3>2. i \in Pending /\ i \in Ids /\ \A h \in Used : Same(log, i, h) /\ h < i => h \in applied
      BY <1>1, <3>1, RowInOrder DEF Inv
    <3>3. j \in Ids /\ Same(log, i, j) /\ Same(log, j, i) /\ i \in Used
      BY <3>2, StatusSets DEF OfKey, Same, Committed
    <3>4. j < i /\ status[j] # "unused" => j \in applied
      BY <3>2, <3>3 DEF Used
    <3>5. j > i => j \notin applied
      <4> SUFFICES ASSUME j > i, j \in applied PROVE FALSE
        OBVIOUS
      <4>1. i < j
        BY <3>2, <3>3, IdsNat
      <4>2. i \in applied
        BY <1>1, <3>3, <4>1 DEF Inv, SyncInv, AppliedInv
      <4> QED  BY <4>2
    <3> QED  BY <3>4, <3>5
  <2> QED  BY <2>1, <2>2
<1>2. Inv /\ [Next]_vars =>
         [\A i \in applied' \ applied :
             \A j \in OfKey(Ids, log[i].tab, log[i].key) :
                 /\ j < i /\ status[j] # "unused" => j \in applied
                 /\ j > i => j \notin applied]_vars
  BY <1>1
<1> QED  BY <1>2, ChangelogInit, ChangelogStep, PTL DEF Spec, FirstInOrder

\* No mark is waiting for the COMMIT of a pass.
Unmarked == mark = NoMarks

\* With the fcd of one table and the columns of another, as sync.cbl has them
\* with two tables added, the UPDATE of changelog names the wrong table: no row
\* is ever marked and what is PENDING stays so, though sync_execute repeats the
\* changes of the last table in every pass.
THEOREM StaysPending == ASSUME ~OneTable PROVE Spec => [][Pending \subseteq Pending']_vars
<1>1. Init => Unmarked
  BY DEF Init, Unmarked
<1>2. ASSUME Unmarked, [Next]_vars  PROVE Unmarked'
  <2> SUFFICES mark' = NoMarks
    BY DEF Unmarked, NoMarks
  <2> USE <1>2 DEF Unmarked
  <2>1. CASE Write
    <3>1. \A w, a, t, k, b : Change(w, a, t, k, b) => mark' = mark
      BY DEF Change, syncVars
    <3>2. \A w, t, k, h, b : Rekey(w, t, k, h, b) => mark' = mark
      BY DEF Rekey, syncVars
    <3>3. \A w, t : Truncate(w, t) => mark' = mark
      BY DEF Truncate, syncVars
    <3>4. \A w : Commit(w) \/ Rollback(w) => mark' = mark
      BY DEF Commit, Rollback, Ends, syncVars
    <3> QED  BY <1>2, <2>1, <3>1, <3>2, <3>3, <3>4 DEF Write
  <2>2. CASE SyncRow
    BY <1>2, <2>2 DEF SyncRow, Marked, OneTable
  <2>3. CASE SyncBegin \/ SyncSkip \/ SyncEnd \/ SyncCrash \/ UNCHANGED vars
    BY <1>2, <2>3 DEF SyncBegin, SyncSkip, SyncEnd, SyncCrash, vars, syncVars
  <2> QED  BY <1>2, <2>1, <2>2, <2>3 DEF Next, sync_execute
<1>3. ASSUME Inv, Unmarked, [Next]_vars  PROVE Pending \subseteq Pending'
  <2> SUFFICES ASSUME NEW i \in Ids, status[i] = "PENDING"  PROVE status'[i] = "PENDING"
    BY DEF Pending
  <2>1. status \in [Ids -> {"unused", "open", "PENDING", "SUCCESS", "ERROR"}] /\ seq \in Nat /\ i \in Nat
    BY <1>3, IdsNat DEF Inv, LogInv, TypeInv
  <2>2. i # seq + 1
    BY <1>3, <2>1 DEF Inv, LogInv, OrderInv, Used
  <2>3. \A w, a, t, k, b : Trigger(w, a, t, k, b) => status'[i] = "PENDING"
    BY <2>1, <2>2 DEF Trigger
  <2>4. \A w, s : Ends(w, s) => status'[i] = "PENDING"
    BY DEF Ends, Open
  <2>5. CASE Write
    <3>1. \A w, a, t, k, b : Change(w, a, t, k, b) => status'[i] = "PENDING"
      BY <2>3 DEF Change
    <3>2. \A w, t, k, h, b : Rekey(w, t, k, h, b) => status'[i] = "PENDING"
      BY <2>3 DEF Rekey
    <3>3. \A w, t : Truncate(w, t) => status'[i] = "PENDING"
      BY DEF Truncate
    <3>4. \A w : Commit(w) \/ Rollback(w) => status'[i] = "PENDING"
      BY <2>4 DEF Commit, Rollback
    <3> QED  BY <2>5, <3>1, <3>2, <3>3, <3>4 DEF Write
  <2>6. CASE SyncEnd
    BY <1>3, <2>6 DEF SyncEnd, Unmarked, NoMarks
  <2>7. CASE SyncRow \/ SyncBegin \/ SyncSkip \/ SyncCrash \/ UNCHANGED vars
    BY <2>7 DEF SyncRow, SyncBegin, SyncSkip, SyncCrash, vars
  <2> QED  BY <1>3, <2>5, <2>6, <2>7 DEF Next, sync_execute
<1>4. Inv /\ Unmarked /\ [Next]_vars => [Pending \subseteq Pending']_vars
  BY <1>3
<1> QED  BY <1>1, <1>2, <1>4, ChangelogInit, ChangelogStep, PTL DEF Spec
================================================================================
