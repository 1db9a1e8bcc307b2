----------------------------- MODULE PqfhKeysProofs ----------------------------
(***************************************************************************)
(* Proofs about PqfhKeys, for every layout of columns and keys that its    *)
(* assumptions allow: the WHERE that getwhere builds selects the records   *)
(* whose key bytes are in the relation asked for, its ORDER BY is the      *)
(* order of those bytes, and REWRITE stores the record area.  What the     *)
(* recursive functions of the model compute (widths of columns,            *)
(* concatenations, nested comparisons) is shown by the least argument at   *)
(* which they would fail.                                                  *)
(***************************************************************************)
EXTENDS PqfhKeys, Integers, WellFoundedInduction, TLAPS

\* A non-empty set of naturals has a least element.  What a recursive function
\* computes is shown with it: the least argument at which it fails does not exist.
LEMMA LeastExists ==
    ASSUME NEW S, S \subseteq Nat, S # {}
    PROVE  \E m \in S : \A j \in S : m <= j
<1>1. PICK m \in S : \A j \in S : ~ (<<j, m>> \in OpToRel(<, Nat))
  BY NatLessThanWellFounded, WFMin, Zenon
<1>2. \A j \in S : <<j, m>> \in OpToRel(<, Nat) <=> j < m
  BY DEF OpToRel
<1>3. \A j \in S : ~ (j < m)
  BY <1>1, <1>2, Zenon
<1> QED  BY <1>3

--------------------------------------------------------------------------------
(* Widths                                                                  *)

\* e gives the ends of consecutive pieces of the given lengths.
Ends(e, lens, n) ==
    /\ e \in [0..n -> Nat] /\ e[0] = 0
    /\ \A i \in 1..n : e[i] = e[i - 1] + lens[i]

\* The defining equation of upTo in Width.
UpTo(lens, w) == w = [i \in 0..Len(lens) |-> IF i = 0 THEN 0 ELSE w[i - 1] + lens[i]]

\* There are such ends, whatever the lengths.
LEMMA EndsExist ==
    ASSUME NEW n \in Nat, NEW lens \in [1..n -> Nat]
    PROVE  \E e : Ends(e, lens, n)
<1> DEFINE Bad == {m \in 0..n : ~ \E e : Ends(e, lens, m)}
<1>1. SUFFICES Bad = {}
  <2>1. n \in 0..n
    OBVIOUS
  <2> QED  BY <1>1, <2>1
<1>2. SUFFICES ASSUME Bad # {}  PROVE FALSE
  OBVIOUS
<1>3. PICK m \in Bad : \A j \in Bad : m <= j
  <2>1. Bad \subseteq Nat
    OBVIOUS
  <2> QED  BY <1>2, <2>1, LeastExists
<1>4. m # 0
  <2>1. Ends([i \in 0..0 |-> 0], lens, 0)
    BY DEF Ends
  <2> QED  BY <2>1
<1>5. m - 1 \in 0..n /\ m - 1 \notin Bad
  BY <1>3, <1>4
<1>6. PICK f : Ends(f, lens, m - 1)
  BY <1>5
<1> DEFINE e == [i \in 0..m |-> IF i = m THEN f[m - 1] + lens[m] ELSE f[i]]
<1>7. Ends(e, lens, m)
  <2>1. m \in 1..n /\ lens[m] \in Nat /\ f[m - 1] \in Nat
    BY <1>4, <1>6 DEF Ends
  <2>2. e \in [0..m -> Nat] /\ e[0] = 0
    BY <1>6, <2>1 DEF Ends
  <2>3. \A i \in 1..m : e[i] = e[i - 1] + lens[i]
    BY <1>6, <2>1 DEF Ends
  <2> QED  BY <2>2, <2>3 DEF Ends
<1> QED  BY <1>7

\* Width computes them.
LEMMA WidthEnds ==
    ASSUME NEW n \in Nat, NEW lens \in [1..n -> Nat]
    PROVE  Ends([i \in 0..n |-> Width(lens, i)], lens, n)
<1>0. Len(lens) = n
  OBVIOUS
<1>1. PICK e : Ends(e, lens, n)
  BY EndsExist
<1>2. UpTo(lens, e)
  BY <1>0, <1>1 DEF UpTo, Ends
<1> DEFINE g == CHOOSE g : UpTo(lens, g)
<1>3. UpTo(lens, g)
  BY <1>2
<1>4. \A i : Width(lens, i) = g[i]
  BY DEF Width, UpTo
<1> HIDE DEF g
<1>5. g[0] = 0 /\ \A i \in 1..n : g[i] = g[i - 1] + lens[i]
  BY <1>0, <1>3 DEF UpTo
<1> DEFINE Bad == {i \in 0..n : g[i] \notin Nat}
<1>6. Bad = {}
  <2>1. SUFFICES ASSUME Bad # {}  PROVE FALSE
    OBVIOUS
  <2>2. PICK m \in Bad : \A j \in Bad : m <= j
    <3>1. Bad \subseteq Nat
      OBVIOUS
    <3> QED  BY <2>1, <3>1, LeastExists
  <2>3. m \in 1..n /\ m - 1 \in 0..n /\ m - 1 \notin Bad
    BY <2>2, <1>5
  <2>4. g[m - 1] \in Nat /\ lens[m] \in Nat /\ g[m] = g[m - 1] + lens[m]
    BY <2>3, <1>5
  <2> QED  BY <2>4
<1> DEFINE w == [i \in 0..n |-> Width(lens, i)]
<1>7. \A i \in 0..n : w[i] = g[i] /\ w[i] \in Nat
  BY <1>4, <1>6
<1>8. w \in [0..n -> Nat] /\ w[0] = 0
  BY <1>5, <1>7
<1>9. \A i \in 1..n : w[i] = w[i - 1] + lens[i]
  <2> SUFFICES ASSUME NEW i \in 1..n  PROVE w[i] = w[i - 1] + lens[i]
    OBVIOUS
  <2>1. i \in 0..n /\ i - 1 \in 0..n
    OBVIOUS
  <2> QED  BY <1>5, <1>7, <2>1
<1> QED  BY <1>8, <1>9 DEF Ends

\* Ends are determined by the lengths.
LEMMA EndsUnique ==
    ASSUME NEW n \in Nat, NEW lens, NEW e, NEW f, Ends(e, lens, n), Ends(f, lens, n)
    PROVE  e = f
<1> DEFINE Bad == {i \in 0..n : e[i] # f[i]}
<1>1. SUFFICES Bad = {}
  <2>1. ASSUME Bad = {}  PROVE \A i \in 0..n : e[i] = f[i]
    BY <2>1
  <2>2. e \in [0..n -> Nat] /\ f \in [0..n -> Nat]
    BY DEF Ends
  <2> QED  BY <2>1, <2>2
<1>2. SUFFICES ASSUME Bad # {}  PROVE FALSE
  OBVIOUS
<1>3. PICK m \in Bad : \A j \in Bad : m <= j
  <2>1. Bad \subseteq Nat
    OBVIOUS
  <2> QED  BY <1>2, <2>1, LeastExists
<1>4. m \in 1..n /\ m - 1 \in 0..n /\ m - 1 \notin Bad
  BY <1>3 DEF Ends
<1>5. e[m] = e[m - 1] + lens[m] /\ f[m] = f[m - 1] + lens[m]
  BY <1>4 DEF Ends
<1> QED  BY <1>4, <1>5

\* Pieces that are not empty end one after the other.
LEMMA EndsGrow ==
    ASSUME NEW n \in Nat, NEW lens \in [1..n -> Nat \ {0}], NEW e, Ends(e, lens, n)
    PROVE  \A i, j \in 0..n : i < j => e[i] + lens[i + 1] <= e[j] /\ e[i] < e[j]
<1> SUFFICES ASSUME NEW i \in 0..n, NEW k \in 0..n, i < k
             PROVE  e[i] + lens[i + 1] <= e[k] /\ e[i] < e[k]
  OBVIOUS
<1> DEFINE Bad == {j \in 0..n : i < j /\ ~ (e[i] + lens[i + 1] <= e[j])}
<1>0. \A j \in 0..n : e[j] \in Nat
  BY DEF Ends
<1>1. Bad = {}
  <2>1. SUFFICES ASSUME Bad # {}  PROVE FALSE
    OBVIOUS
  <2>2. PICK m \in Bad : \A j \in Bad : m <= j
    <3>1. Bad \subseteq Nat
      OBVIOUS
    <3> QED  BY <2>1, <3>1, LeastExists
  <2>3. m \in 1..n /\ e[m] = e[m - 1] + lens[m] /\ lens[m] \in Nat /\ e[m - 1] \in Nat
    BY <2>2, <1>0 DEF Ends
  <2>4. m # i + 1
    <3>1. SUFFICES ASSUME m = i + 1  PROVE FALSE
      OBVIOUS
    <3>2. m - 1 = i
      BY <3>1
    <3> QED  BY <2>2, <2>3, <3>1, <3>2
  <2>5. m - 1 \in 0..n /\ i < m - 1 /\ m - 1 \notin Bad
    BY <2>2, <2>3, <2>4
  <2>6. lens[i + 1] \in Nat
    BY <2>5
  <2> QED  BY <2>2, <2>3, <2>5, <2>6, <1>0
<1>2. lens[i + 1] \in Nat \ {0}
  OBVIOUS
<1>3. e[i] + lens[i + 1] <= e[k]
  BY <1>1
<1> QED  BY <1>0, <1>2, <1>3

Covered(e, lens, n) ==
    \A b \in 1..e[n] : \E i \in 1..n : \E j \in 1..lens[i] : b = e[i - 1] + j

\* Every byte lies in a piece.
LEMMA Locate ==
    ASSUME NEW n \in Nat, NEW lens \in [1..n -> Nat \ {0}], NEW e, Ends(e, lens, n)
    PROVE  Covered(e, lens, n)
<1> SUFFICES ASSUME NEW b \in 1..e[n]
             PROVE  \E i \in 1..n : \E j \in 1..lens[i] : b = e[i - 1] + j
  BY DEF Covered
<1>0. \A j \in 0..n : e[j] \in Nat
  BY DEF Ends
<1> DEFINE S == {i \in 0..n : b <= e[i]}
<1>1. PICK i \in S : \A j \in S : i <= j
  <2>1. S \subseteq Nat /\ S # {}
    BY <1>0
  <2> QED  BY <2>1, LeastExists
<1>2. i \in 1..n /\ i - 1 \in 0..n /\ i - 1 \notin S /\ e[i] = e[i - 1] + lens[i]
  BY <1>0, <1>1 DEF Ends
<1>3. b - e[i - 1] \in 1..lens[i]
  BY <1>0, <1>1, <1>2
<1>4. b = e[i - 1] + (b - e[i - 1])
  BY <1>0, <1>2
<1> QED  BY <1>2, <1>3, <1>4

--------------------------------------------------------------------------------
(* The order of bytes, and the order of the columns they make              *)

\* Two strings of the same length are equal, or one is less than the other.
LEMMA LessTotal ==
    ASSUME NEW n \in Nat, NEW v \in [1..n -> Nat], NEW w \in [1..n -> Nat]
    PROVE  v = w \/ Less(v, w) \/ Less(w, v)
<1> SUFFICES ASSUME v # w  PROVE Less(v, w) \/ Less(w, v)
  OBVIOUS
<1> DEFINE D == {i \in 1..n : v[i] # w[i]}
<1>1. D \subseteq Nat /\ D # {}
  <2>1. ASSUME \A i \in 1..n : v[i] = w[i]  PROVE v = w
    BY <2>1
  <2>2. PICK i \in 1..n : v[i] # w[i]
    BY <2>1
  <2>3. i \in D
    BY <2>2
  <2>4. D # {}
    BY <2>3
  <2>5. D \subseteq Nat
    OBVIOUS
  <2> QED  BY <2>4, <2>5
<1>2. PICK i \in D : \A j \in D : i <= j
  BY <1>1, LeastExists
<1>3. \A j \in 1..(i - 1) : v[j] = w[j] /\ w[j] = v[j]
  BY <1>2
<1>4. i \in DOMAIN v /\ i \in DOMAIN w /\ (v[i] < w[i] \/ w[i] < v[i])
  BY <1>2
<1> QED  BY <1>3, <1>4 DEF Less

\* And only one of the three.
LEMMA LessStrict ==
    ASSUME NEW n \in Nat, NEW v \in [1..n -> Nat], NEW w \in [1..n -> Nat], Less(v, w)
    PROVE  v # w /\ ~ Less(w, v)
<1>1. PICK i \in 1..n : v[i] < w[i] /\ \A j \in 1..(i - 1) : v[j] = w[j]
  BY DEF Less
<1>2. ASSUME Less(w, v)  PROVE FALSE
  <2>1. PICK k \in 1..n : w[k] < v[k] /\ \A j \in 1..(k - 1) : w[j] = v[j]
    BY <1>2 DEF Less
  <2>2. v[i] \in Nat /\ w[i] \in Nat /\ v[k] \in Nat /\ w[k] \in Nat
    OBVIOUS
  <2>3. ~ (i < k) /\ ~ (k < i)
    BY <1>1, <2>1, <2>2
  <2> QED  BY <1>1, <2>1, <2>2, <2>3
<1>3. v # w
  BY <1>1
<1> QED  BY <1>2, <1>3

\* Piece i of a string.
Piece(V, e, lens, i) == [j \in 1..lens[i] |-> V[e[i - 1] + j]]

PiecewiseEqual(V, W, e, lens, n) ==
    \A m \in 0..n : (\A k \in 1..m : Piece(V, e, lens, k) = Piece(W, e, lens, k))
                       <=> \A b \in 1..e[m] : V[b] = W[b]

\* The pieces up to m agree when the bytes up to their end do.
LEMMA PiecesAgree ==
    ASSUME NEW n \in Nat, NEW lens \in [1..n -> Nat \ {0}], NEW e, Ends(e, lens, n),
           NEW V, NEW W
    PROVE  PiecewiseEqual(V, W, e, lens, n)
<1> SUFFICES ASSUME NEW m \in 0..n
             PROVE  (\A i \in 1..m : Piece(V, e, lens, i) = Piece(W, e, lens, i))
                      <=> \A b \in 1..e[m] : V[b] = W[b]
  BY DEF PiecewiseEqual
<1>0. \A i \in 0..n : e[i] \in Nat
  BY DEF Ends
<1>g. \A i, j \in 0..n : i < j => e[i] + lens[i + 1] <= e[j] /\ e[i] < e[j]
  BY EndsGrow
<1>l. \A b \in 1..e[n] : \E i \in 1..n : \E j \in 1..lens[i] : b = e[i - 1] + j
  <2>1. Covered(e, lens, n)
    BY Locate
  <2> QED  BY <2>1 DEF Covered
<1>1. ASSUME \A i \in 1..m : Piece(V, e, lens, i) = Piece(W, e, lens, i), NEW b \in 1..e[m]
      PROVE  V[b] = W[b]
  <2>1. e[m] <= e[n]
    BY <1>0, <1>g
  <2>2. b \in 1..e[n]
    BY <1>0, <2>1
  <2>3. PICK i \in 1..n : \E j \in 1..lens[i] : b = e[i - 1] + j
    BY <2>2, <1>l
  <2>4. PICK j \in 1..lens[i] : b = e[i - 1] + j
    BY <2>3
  <2>5. i <= m
    <3>1. SUFFICES ASSUME m < i  PROVE FALSE
      OBVIOUS
    <3>2. i - 1 \in 0..n /\ (m = i - 1 \/ m < i - 1)
      BY <3>1
    <3>3. e[m] <= e[i - 1]
      BY <1>0, <3>2, <1>g
    <3> QED  BY <1>0, <2>4, <3>2, <3>3
  <2>6. Piece(V, e, lens, i) = Piece(W, e, lens, i)
    BY <1>1, <2>5
  <2>7. Piece(V, e, lens, i)[j] = V[b] /\ Piece(W, e, lens, i)[j] = W[b]
    BY <2>4 DEF Piece
  <2> QED  BY <2>6, <2>7
<1>2. ASSUME \A b \in 1..e[m] : V[b] = W[b], NEW i \in 1..m
      PROVE  Piece(V, e, lens, i) = Piece(W, e, lens, i)
  <2>1. i \in 1..n /\ i \in 0..n /\ i - 1 \in 0..n /\ e[i] = e[i - 1] + lens[i] /\ lens[i] \in Nat
    BY DEF Ends
  <2>2. e[i] <= e[m]
    BY <1>0, <2>1, <1>g
  <2>3. \A j \in 1..lens[i] : e[i - 1] + j \in 1..e[m]
    BY <1>0, <2>1, <2>2
  <2>4. \A j \in 1..lens[i] : V[e[i - 1] + j] = W[e[i - 1] + j]
    BY <1>2, <2>3
  <2> QED  BY <2>4 DEF Piece
<1> QED  BY <1>1, <1>2

\* A string is less than another when its pieces are, the first ones first.
LEMMA LexPieces ==
    ASSUME NEW n \in Nat, NEW lens \in [1..n -> Nat \ {0}], NEW e, Ends(e, lens, n),
           NEW V, NEW W, DOMAIN V = 1..e[n]
    PROVE  Less(V, W) <=>
             \E i \in 1..n : /\ Less(Piece(V, e, lens, i), Piece(W, e, lens, i))
                             /\ \A j \in 1..(i - 1) : Piece(V, e, lens, j) = Piece(W, e, lens, j)
<1>0. \A i \in 0..n : e[i] \in Nat
  BY DEF Ends
<1>g. \A i, j \in 0..n : i < j => e[i] + lens[i + 1] <= e[j] /\ e[i] < e[j]
  BY EndsGrow
<1>l. \A b \in 1..e[n] : \E i \in 1..n : \E j \in 1..lens[i] : b = e[i - 1] + j
  <2>1. Covered(e, lens, n)
    BY Locate
  <2> QED  BY <2>1 DEF Covered
<1>a. \A m \in 0..n : (\A k \in 1..m : Piece(V, e, lens, k) = Piece(W, e, lens, k))
                         <=> \A b \in 1..e[m] : V[b] = W[b]
  <2>1. PiecewiseEqual(V, W, e, lens, n)
    BY PiecesAgree
  <2> QED  BY <2>1 DEF PiecewiseEqual
<1>1. ASSUME Less(V, W)
      PROVE  \E i \in 1..n : /\ Less(Piece(V, e, lens, i), Piece(W, e, lens, i))
                             /\ \A j \in 1..(i - 1) : Piece(V, e, lens, j) = Piece(W, e, lens, j)
  <2>1. PICK b \in 1..e[n] : V[b] < W[b] /\ \A j \in 1..(b - 1) : V[j] = W[j]
    BY <1>1 DEF Less
  <2>2. PICK i \in 1..n : \E j \in 1..lens[i] : b = e[i - 1] + j
    BY <1>l
  <2>3. PICK j \in 1..lens[i] : b = e[i - 1] + j
    BY <2>2
  <2>4. i - 1 \in 0..n /\ e[i - 1] \in Nat /\ lens[i] \in Nat
    BY <1>0
  <2>5. \A k \in 1..e[i - 1] : V[k] = W[k]
    BY <2>1, <2>3, <2>4
  <2>6. \A k \in 1..(i - 1) : Piece(V, e, lens, k) = Piece(W, e, lens, k)
    BY <2>4, <2>5, <1>a
  <2>7. Less(Piece(V, e, lens, i), Piece(W, e, lens, i))
    <3>1. \A k \in 1..(j - 1) : e[i - 1] + k \in 1..(b - 1) /\ k \in 1..lens[i]
      BY <2>3, <2>4
    <3>2. \A k \in 1..(j - 1) : Piece(V, e, lens, i)[k] = Piece(W, e, lens, i)[k]
      BY <2>1, <3>1 DEF Piece
    <3>3. j \in DOMAIN Piece(V, e, lens, i) /\ Piece(V, e, lens, i)[j] < Piece(W, e, lens, i)[j]
      BY <2>1, <2>3 DEF Piece
    <3> QED  BY <3>2, <3>3 DEF Less
  <2> QED  BY <2>6, <2>7
<1>2. ASSUME NEW i \in 1..n, Less(Piece(V, e, lens, i), Piece(W, e, lens, i)),
             \A j \in 1..(i - 1) : Piece(V, e, lens, j) = Piece(W, e, lens, j)
      PROVE  Less(V, W)
  <2>0. DOMAIN Piece(V, e, lens, i) = 1..lens[i]
    BY DEF Piece
  <2>1. PICK j \in 1..lens[i] : /\ Piece(V, e, lens, i)[j] < Piece(W, e, lens, i)[j]
                                /\ \A k \in 1..(j - 1) : Piece(V, e, lens, i)[k] = Piece(W, e, lens, i)[k]
    BY <1>2, <2>0 DEF Less
  <2>2. i \in 0..n /\ i - 1 \in 0..n /\ e[i - 1] \in Nat /\ lens[i] \in Nat /\ e[i] = e[i - 1] + lens[i]
    BY <1>0 DEF Ends
  <2>3. \A k \in 1..e[i - 1] : V[k] = W[k]
    BY <1>2, <2>2, <1>a
  <2> DEFINE b == e[i - 1] + j
  <2>4. b \in DOMAIN V
    <3>1. e[i] <= e[n]
      BY <1>0, <2>2, <1>g
    <3> QED  BY <1>0, <2>2, <3>1
  <2>5. V[b] < W[b]
    BY <2>1 DEF Piece
  <2>6. ASSUME NEW k \in 1..(b - 1)  PROVE V[k] = W[k]
    <3>1. CASE k <= e[i - 1]
      BY <2>2, <2>3, <3>1
    <3>2. CASE k > e[i - 1]
      <4>1. k - e[i - 1] \in 1..(j - 1) /\ k - e[i - 1] \in 1..lens[i] /\ e[i - 1] + (k - e[i - 1]) = k
        BY <2>2, <3>2
      <4>2. Piece(V, e, lens, i)[k - e[i - 1]] = Piece(W, e, lens, i)[k - e[i - 1]]
        BY <2>1, <4>1
      <4> QED  BY <4>1, <4>2 DEF Piece
    <3> QED  BY <2>2, <3>1, <3>2
  <2> QED  BY <2>4, <2>5, <2>6 DEF Less
<1> QED  BY <1>1, <1>2

--------------------------------------------------------------------------------
(* FlattenSeq                                                              *)

\* f[i] is the concatenation of the first i sequences of ss.
Flat(ss, f, n) ==
    /\ DOMAIN f = 1..n /\ f[1] = ss[1]
    /\ \A i \in 2..n : f[i] = f[i - 1] \o ss[i]

\* The defining equation of flatten in FlattenSeq.
Flatten(ss, f, n) == f = [i \in 1..n |-> IF i = 1 THEN ss[i] ELSE f[i - 1] \o ss[i]]

\* The concatenations of the first sequences exist.
LEMMA FlatExists ==
    ASSUME NEW n \in Nat \ {0}, NEW ss
    PROVE  \E f : Flatten(ss, f, n)
<1> DEFINE Bad == {m \in 1..n : ~ \E f : Flatten(ss, f, m)}
<1>1. SUFFICES ASSUME Bad # {}  PROVE FALSE
  <2>1. n \in 1..n
    OBVIOUS
  <2> QED  BY <2>1
<1>2. Bad \subseteq Nat
  OBVIOUS
<1>3. PICK m \in Bad : \A j \in Bad : m <= j
  BY <1>1, <1>2, LeastExists
<1>4. m # 1
  <2>1. Flatten(ss, [i \in 1..1 |-> ss[i]], 1)
    BY DEF Flatten
  <2> QED  BY <2>1
<1>5. m - 1 \in 1..n /\ m - 1 \notin Bad
  BY <1>3, <1>4
<1>6. PICK g : Flatten(ss, g, m - 1)
  BY <1>5
<1> DEFINE f == [i \in 1..m |-> IF i = m THEN g[m - 1] \o ss[m] ELSE g[i]]
<1>7. ASSUME NEW i \in 1..m  PROVE f[i] = IF i = 1 THEN ss[i] ELSE f[i - 1] \o ss[i]
  <2>1. CASE i = m
    <3>1. m - 1 \in 1..m /\ m - 1 # m
      BY <1>4, <1>5
    <3>2. f[m - 1] = g[m - 1]
      BY <3>1
    <3> QED  BY <1>4, <2>1, <3>2
  <2>2. CASE i # m
    <3>1. i \in 1..(m - 1) /\ f[i] = g[i]
      BY <2>2
    <3>2. g[i] = IF i = 1 THEN ss[i] ELSE g[i - 1] \o ss[i]
      BY <1>6, <3>1 DEF Flatten
    <3>3. i # 1 => f[i - 1] = g[i - 1]
      BY <2>2
    <3> QED  BY <3>1, <3>2, <3>3
  <2> QED  BY <2>1, <2>2
<1>8. Flatten(ss, f, m)
  BY <1>7 DEF Flatten
<1> QED  BY <1>8

\* FlattenSeq is the concatenation of them all.
LEMMA FlattenIs ==
    ASSUME NEW n \in Nat \ {0}, NEW ss, DOMAIN ss = 1..n, Len(ss) = n
    PROVE  \E f : Flat(ss, f, n) /\ FlattenSeq(ss) = f[n]
<1>1. \E f : Flatten(ss, f, n)
  BY FlatExists
<1> DEFINE g == CHOOSE g : Flatten(ss, g, n)
<1>2. Flatten(ss, g, n)
  BY <1>1
<1>3. FlattenSeq(ss) = g[n]
  BY DEF FlattenSeq, Flatten
<1> HIDE DEF g
<1>4. Flat(ss, g, n)
  <2>1. DOMAIN g = 1..n
    BY <1>2 DEF Flatten
  <2>2. \A i \in 1..n : g[i] = IF i = 1 THEN ss[i] ELSE g[i - 1] \o ss[i]
    BY <1>2 DEF Flatten
  <2>3. g[1] = ss[1]
    BY <2>2
  <2>4. \A i \in 2..n : g[i] = g[i - 1] \o ss[i]
    <3> SUFFICES ASSUME NEW i \in 2..n  PROVE g[i] = g[i - 1] \o ss[i]
      OBVIOUS
    <3>1. i \in 1..n /\ i # 1
      OBVIOUS
    <3> QED  BY <2>2, <3>1
  <2> QED  BY <2>1, <2>3, <2>4 DEF Flat
<1> QED  BY <1>3, <1>4

--------------------------------------------------------------------------------
(* The columns of a table and of its keys                                  *)

\* The elements of a sequence over S are in S.
LEMMA ElementOf ==
    ASSUME NEW S, NEW s \in Seq(S)
    PROVE  \A i \in DOMAIN s : s[i] \in S
OBVIOUS

ColumnType == [offset : Nat, len : Nat \ {0}, num : BOOLEAN, dec : BOOLEAN]

\* C is n columns, each starting where the one before it ends.
Adjacent(C, n) ==
    /\ C \in [1..n -> ColumnType] /\ C[1].offset = 0
    /\ \A i \in 2..n : C[i].offset = C[i - 1].offset + C[i - 1].len

End(C, i) == C[i].offset + C[i].len

\* Columns f to u have the bytes of component p.
Spans(C, p, f, u) == f <= u /\ C[f].offset = p.offset /\ End(C, u) = p.offset + p.len

\* The n columns of a table contain the components of its keys.
TableShape(L, C, n) ==
    /\ Adjacent(C, n)
    /\ \A k \in DOMAIN L.keys : \A q \in DOMAIN L.keys[k] :
           \E f, u \in 1..n : Spans(C, L.keys[k][q], f, u)

\* table_info gets such columns: col.offset is the sum of the lengths before it.
LEMMA ColumnsShape ==
    ASSUME NEW L \in Layouts
    PROVE  \E n \in Nat \ {0} : TableShape(L, Columns(L), n)
<1>0. Sized(L) /\ Aligned(L)
  BY LayoutsAssumption
<1> DEFINE N == Len(L.cols)
           lens == [j \in DOMAIN L.cols |-> L.cols[j].len]
           e == [i \in 0..N |-> Width(lens, i)]
<1>1. /\ N \in Nat /\ DOMAIN L.cols = 1..N /\ L.reclen \in Nat
      /\ \A i \in 1..N : L.cols[i].len \in Nat \ {0} /\ L.cols[i].num \in BOOLEAN /\ L.cols[i].dec \in BOOLEAN
  <2>1. L.cols \in Seq([len : Nat \ {0}, num : BOOLEAN, dec : BOOLEAN]) /\ L.reclen \in Nat
    BY <1>0 DEF Sized
  <2>2. N \in Nat /\ DOMAIN L.cols = 1..N
    BY <2>1
  <2>3. \A i \in 1..N : L.cols[i] \in [len : Nat \ {0}, num : BOOLEAN, dec : BOOLEAN]
    <3> DEFINE S == [len : Nat \ {0}, num : BOOLEAN, dec : BOOLEAN]
    <3>1. L.cols \in Seq(S)
      BY <2>1
    <3> HIDE DEF S
    <3>2. \A i \in DOMAIN L.cols : L.cols[i] \in S
      BY <3>1, ElementOf
    <3> QED  BY <2>2, <3>2 DEF S
  <2> QED  BY <2>1, <2>2, <2>3
<1>2. lens \in [1..N -> Nat \ {0}] /\ lens \in [1..N -> Nat]
  BY <1>1
<1>3. \A i : Starts(L, i) = Width(lens, i - 1)
  BY DEF Starts
<1>z. \A i \in 1..N : lens[i] = L.cols[i].len
  BY <1>1
<1> HIDE DEF lens, N
<1>4. Ends(e, lens, N)
  BY <1>1, <1>2, WidthEnds
<1>5. \A i, j \in 0..N : i < j => e[i] + lens[i + 1] <= e[j] /\ e[i] < e[j]
  BY <1>1, <1>2, <1>4, EndsGrow
<1>6. \A i \in 1..(N + 1) : Starts(L, i) = e[i - 1]
  BY <1>1, <1>3
<1> HIDE DEF e
<1>7. e[0] = 0 /\ \A i \in 0..N : e[i] \in Nat
  BY <1>1, <1>4 DEF Ends
<1>8. \A i \in 1..N : e[i] = e[i - 1] + L.cols[i].len
  BY <1>1, <1>4, <1>z DEF Ends
\* the columns inside the record
<1> DEFINE T == {j \in 1..(N + 1) : j = N + 1 \/ e[j - 1] >= L.reclen}
<1>9. PICK t \in T : \A j \in T : t <= j
  <2>1. T \subseteq Nat /\ N + 1 \in T
    BY <1>1
  <2>2. T # {}
    BY <2>1
  <2> HIDE DEF T
  <2> QED  BY <2>1, <2>2, LeastExists
<1> DEFINE n == t - 1
<1>10. n \in 0..N
  BY <1>1, <1>9
<1>11. \A j \in 1..N : Starts(L, j) < L.reclen <=> j \in 1..n
  <2> SUFFICES ASSUME NEW j \in 1..N  PROVE Starts(L, j) < L.reclen <=> j \in 1..n
    OBVIOUS
  <2>1. j \in 1..(N + 1) /\ j - 1 \in 0..N /\ Starts(L, j) = e[j - 1] /\ e[j - 1] \in Nat /\ j # N + 1
    BY <1>1, <1>6, <1>7
  <2>2. CASE j <= n
    <3>1. j \notin T
      BY <1>1, <1>9, <2>2
    <3>2. ~ (e[j - 1] >= L.reclen)
      BY <2>1, <3>1
    <3> QED  BY <1>1, <1>10, <2>1, <2>2, <3>2
  <2>3. CASE j > n
    <3>1. t \in 1..(N + 1) /\ t - 1 \in 0..N /\ t # N + 1 /\ e[t - 1] >= L.reclen
      BY <1>1, <1>9, <2>3
    <3>2. e[t - 1] <= e[j - 1]
      BY <1>1, <1>5, <1>7, <2>1, <2>3, <3>1
    <3> QED  BY <1>1, <1>7, <1>10, <2>1, <2>3, <3>1, <3>2
  <2> QED  BY <1>10, <2>2, <2>3
<1> DEFINE C == Columns(L)
<1> HIDE DEF T, n
<1>12. C = [i \in 1..n |-> [offset |-> Starts(L, i), len |-> L.cols[i].len,
                             num |-> L.cols[i].num, dec |-> L.cols[i].dec]]
  <2>1. {j \in DOMAIN L.cols : Starts(L, j) < L.reclen} = 1..n
    BY <1>1, <1>10, <1>11
  <2> QED  BY <2>1 DEF Columns
<1> HIDE DEF C
<1>13. \A i \in 1..n : i \in 1..N /\ i - 1 \in 0..N /\ C[i].offset = e[i - 1] /\ C[i].len = L.cols[i].len /\ End(C, i) = e[i]
  <2> SUFFICES ASSUME NEW i \in 1..n
               PROVE  i \in 1..N /\ i - 1 \in 0..N /\ C[i].offset = e[i - 1] /\ C[i].len = L.cols[i].len /\ End(C, i) = e[i]
    OBVIOUS
  <2>1. i \in 1..N /\ i \in 1..(N + 1) /\ i - 1 \in 0..N
    BY <1>1, <1>10
  <2>2. C[i].offset = e[i - 1] /\ C[i].len = L.cols[i].len
    BY <1>6, <1>12, <2>1
  <2> QED  BY <1>8, <2>1, <2>2 DEF End
<1>14. \A k \in DOMAIN L.keys : \A q \in DOMAIN L.keys[k] :
          \E f, u \in 1..n : Spans(C, L.keys[k][q], f, u)
  <2> SUFFICES ASSUME NEW k \in DOMAIN L.keys, NEW q \in DOMAIN L.keys[k]
               PROVE  \E f, u \in 1..n : Spans(C, L.keys[k][q], f, u)
    OBVIOUS
  <2> DEFINE p == L.keys[k][q]
  <2>1. p.offset \in Nat /\ p.len \in Nat \ {0} /\ p \in Range(L.keys[k])
    <3>1. L.keys \in Seq(Seq([offset : Nat, len : Nat \ {0}]) \ {<<>>})
      BY <1>0 DEF Sized
    <3>2. L.keys[k] \in Seq([offset : Nat, len : Nat \ {0}])
      BY <3>1
    <3>3. p \in [offset : Nat, len : Nat \ {0}]
      <4> DEFINE S == [offset : Nat, len : Nat \ {0}]
      <4>1. L.keys[k] \in Seq(S)
        BY <3>2
      <4> HIDE DEF S
      <4>2. p \in S
        BY <4>1, ElementOf
      <4> QED  BY <4>2 DEF S
    <3> QED  BY <3>3 DEF Range
  <2>2. p.offset + p.len <= L.reclen
    BY <1>0, <2>1 DEF Aligned
  <2>3. PICK f \in DOMAIN L.cols, u \in DOMAIN L.cols :
           Starts(L, f) = p.offset /\ Starts(L, u + 1) = p.offset + p.len
    BY <1>0, <2>1 DEF Aligned
  <2> HIDE DEF p
  <2>4. f \in 1..N /\ u \in 1..N /\ u + 1 \in 1..(N + 1) /\ f - 1 \in 0..N /\ u - 1 \in 0..N /\ u \in 0..N
    BY <1>1
  <2>5. e[f - 1] = p.offset /\ e[u] = p.offset + p.len
    <3>1. (u + 1) - 1 = u
      BY <2>4
    <3>2. Starts(L, f) = e[f - 1] /\ Starts(L, u + 1) = e[(u + 1) - 1]
      BY <1>6, <1>1, <2>4
    <3> QED  BY <2>3, <3>1, <3>2
  <2>6. e[u - 1] < e[u]
    BY <1>5, <2>4
  <2>7. f \in 1..n /\ u \in 1..n
    <3>1. Starts(L, f) < L.reclen
      BY <1>1, <2>1, <2>2, <2>3
    <3>2. Starts(L, u) = e[u - 1]
      BY <1>6, <1>1, <2>4
    <3>3. Starts(L, u) < L.reclen
      BY <1>1, <1>7, <2>1, <2>2, <2>4, <2>5, <2>6, <3>2
    <3> QED  BY <1>11, <2>4, <3>1, <3>3
  <2>8. f <= u
    <3>1. SUFFICES ASSUME u < f  PROVE FALSE
      BY <2>4
    <3>2. u = f - 1 \/ u < f - 1
      BY <2>4, <3>1
    <3>3. e[u] <= e[f - 1]
      BY <1>5, <1>7, <2>4, <3>2
    <3> QED  BY <2>1, <2>5, <3>3
  <2>9. Spans(C, p, f, u)
    BY <1>13, <2>5, <2>7, <2>8 DEF Spans
  <2> QED  BY <2>7, <2>9 DEF p
<1>15. n \in Nat \ {0}
  <2>1. 1 \in DOMAIN L.keys /\ 1 \in DOMAIN L.keys[1]
    BY <1>0 DEF Sized
  <2>2. \E f \in 1..n : TRUE
    BY <1>14, <2>1
  <2> QED  BY <1>1, <1>10, <2>2
<1>16. Adjacent(C, n)
  <2>1. \A i \in 1..n : C[i] \in ColumnType
    BY <1>1, <1>6, <1>7, <1>12, <1>13 DEF ColumnType
  <2>2. C \in [1..n -> ColumnType]
    BY <1>12, <2>1
  <2>3. C[1].offset = 0
    BY <1>7, <1>13, <1>15
  <2>4. ASSUME NEW i \in 2..n  PROVE C[i].offset = C[i - 1].offset + C[i - 1].len
    <3>1. i \in 1..n /\ i - 1 \in 1..n
      BY <1>15
    <3> QED  BY <1>13, <3>1 DEF End
  <2> QED  BY <2>2, <2>3, <2>4 DEF Adjacent
<1> QED  BY <1>14, <1>15, <1>16 DEF TableShape, C

\* A column ends before a later one starts.
Ordered(C, n) == \A i, j \in 1..n : i < j => End(C, i) <= C[j].offset

\* The fields of a column are numbers.
LEMMA ColumnTypes ==
    ASSUME NEW n, NEW C, Adjacent(C, n), NEW i \in 1..n
    PROVE  /\ C[i] \in ColumnType /\ C[i].offset \in Nat /\ C[i].len \in Nat /\ C[i].len > 0
           /\ End(C, i) \in Nat /\ C[i].offset < End(C, i) /\ C[i].dec \in BOOLEAN
<1>1. C[i] \in ColumnType
  BY DEF Adjacent
<1>2. C[i].offset \in Nat /\ C[i].len \in Nat /\ C[i].len > 0 /\ C[i].dec \in BOOLEAN
  BY <1>1 DEF ColumnType
<1> QED  BY <1>1, <1>2 DEF End

\* Adjacent columns are in the order of their offsets.
LEMMA ColumnsGrow ==
    ASSUME NEW n \in Nat, NEW C, Adjacent(C, n)
    PROVE  Ordered(C, n)
<1> SUFFICES ASSUME NEW i \in 1..n, NEW k \in 1..n, i < k  PROVE End(C, i) <= C[k].offset
  BY DEF Ordered
<1>1. \A j \in 1..n : C[j].offset \in Nat /\ End(C, j) \in Nat /\ C[j].offset < End(C, j)
  BY ColumnTypes
<1>2. \A j \in 2..n : C[j].offset = End(C, j - 1)
  BY DEF Adjacent, End
<1> DEFINE Bad == {j \in 1..n : i < j /\ ~ (End(C, i) <= C[j].offset)}
<1>3. Bad = {}
  <2>1. SUFFICES ASSUME Bad # {}  PROVE FALSE
    OBVIOUS
  <2>2. Bad \subseteq Nat
    OBVIOUS
  <2>3. PICK m \in Bad : \A j \in Bad : m <= j
    BY <2>1, <2>2, LeastExists
  <2>4. m \in 2..n /\ m - 1 \in 1..n /\ C[m].offset = End(C, m - 1)
    BY <1>2, <2>3
  <2>5. CASE m - 1 = i
    BY <1>1, <2>3, <2>4, <2>5
  <2>6. CASE m - 1 # i
    <3>1. i < m - 1 /\ m - 1 \notin Bad
      BY <2>3, <2>4, <2>6
    <3>2. End(C, i) <= C[m - 1].offset
      BY <2>4, <3>1
    <3> QED  BY <1>1, <2>3, <2>4, <3>2
  <2> QED  BY <2>5, <2>6
<1> QED  BY <1>3

\* getkeys takes the columns that have the component's bytes.
LEMMA ComponentIs ==
    ASSUME NEW n \in Nat, NEW C, Adjacent(C, n), NEW p,
           NEW f \in 1..n, NEW u \in 1..n, Spans(C, p, f, u)
    PROVE  Component(C, p) = [i \in 1..(u - f + 1) |-> f + i - 1]
<1>0. Len(C) = n /\ DOMAIN C = 1..n
  BY DEF Adjacent
<1>1. \A j \in 1..n : C[j].offset \in Nat /\ End(C, j) \in Nat /\ C[j].offset < End(C, j)
  BY ColumnTypes
<1>2. Ordered(C, n)
  BY ColumnsGrow
<1>3. \A i \in 1..n : C[i].offset = p.offset => i = f
  <2> SUFFICES ASSUME NEW i \in 1..n, C[i].offset = C[f].offset, i # f  PROVE FALSE
    BY DEF Spans
  <2>1. i < f => End(C, i) <= C[f].offset
    BY <1>2 DEF Ordered
  <2>2. f < i => End(C, f) <= C[i].offset
    BY <1>2 DEF Ordered
  <2> QED  BY <1>1, <2>1, <2>2
<1> DEFINE from == CHOOSE i \in DOMAIN C : C[i].offset = p.offset
           Upto(i) == /\ C[i].offset + C[i].len >= p.offset + p.len
                      /\ \A j \in f..(i - 1) : C[j].offset + C[j].len < p.offset + p.len
           upto == CHOOSE i \in f..Len(C) : Upto(i)
<1>4. from = f
  BY <1>0, <1>3 DEF Spans
<1>5. End(C, u) = p.offset + p.len /\ f <= u
  BY DEF Spans
<1>6. Upto(u)
  <2>1. \A j \in f..(u - 1) : End(C, j) < End(C, u)
    <3> SUFFICES ASSUME NEW j \in f..(u - 1)  PROVE End(C, j) < End(C, u)
      OBVIOUS
    <3>1. j \in 1..n /\ j < u
      OBVIOUS
    <3>2. End(C, j) <= C[u].offset
      BY <1>2, <3>1 DEF Ordered
    <3> QED  BY <1>1, <3>1, <3>2
  <2> QED  BY <1>1, <1>5, <2>1 DEF End
<1>7. \A i \in f..n : Upto(i) => i = u
  <2> SUFFICES ASSUME NEW i \in f..n, Upto(i), i # u  PROVE FALSE
    OBVIOUS
  <2>1. i \in 1..n
    OBVIOUS
  <2>2. CASE i < u
    <3>1. End(C, i) <= C[u].offset
      BY <1>2, <2>1, <2>2 DEF Ordered
    <3> QED  BY <1>1, <1>5, <2>1, <3>1 DEF End
  <2>3. CASE u < i
    <3>1. u \in f..(i - 1)
      BY <1>5, <2>1, <2>3
    <3> QED  BY <1>1, <1>5, <3>1 DEF End
  <2> QED  BY <2>2, <2>3
<1>8. upto = u
  <2>1. u \in f..Len(C)
    BY <1>0, <1>5
  <2> HIDE DEF Upto
  <2> QED  BY <1>0, <1>6, <1>7, <2>1
<1>9. Component(C, p) = [i \in 1..(upto - from + 1) |-> from + i - 1]
  BY <1>4 DEF Component
<1> QED  BY <1>4, <1>8, <1>9

\* The offsets and the lengths of the columns C.
Offsets(C, n) == [i \in 1..n |-> C[i].offset]
Lengths(C, n) == [i \in 1..n |-> C[i].len]

Contiguous(o, d, n) == \A i \in 2..n : o[i] = o[i - 1] + d[i - 1]

\* The string B is made of the bytes that the columns K have in record r, in their
\* order; e has the ends of the columns in B.
Tiled(K, B, o, d, r, l, e) ==
    /\ Ends(e, [i \in 1..l |-> d[K[i]]], l) /\ B \in [1..e[l] -> Nat]
    /\ \A i \in 1..l : \A j \in 1..d[K[i]] : B[e[i - 1] + j] = r[o[K[i]] + j]

Tiles(K, B, o, d, n, r) ==
    \E l \in Nat \ {0} : K \in [1..l -> 1..n] /\ \E e : Tiled(K, B, o, d, r, l, e)

\* The bytes of record r from a + 1 to a + m.
IsPiece(B, r, a, m) == B \in [1..m -> Nat] /\ \A x \in 1..m : B[x] = r[a + x]

\* A piece of a record.
LEMMA SubSeqIs ==
    ASSUME NEW R \in Nat, NEW r \in [1..R -> Nat], NEW a \in Nat, NEW m \in Nat, a + m <= R
    PROVE  IsPiece(SubSeq(r, a + 1, a + m), r, a, m)
<1>1. SubSeq(r, a + 1, a + m) = [x \in 1..m |-> r[a + x]]
  <2>1. \A x \in 1..m : x + (a + 1) - 1 = a + x
    OBVIOUS
  <2>2. 1 + (a + m) - (a + 1) = m
    OBVIOUS
  <2> QED  BY <2>1, <2>2
<1>2. \A x \in 1..m : a + x \in 1..R
  OBVIOUS
<1> QED  BY <1>1, <1>2 DEF IsPiece

\* The columns f to u of a component end one after the other in it.
LEMMA ComponentEnds ==
    ASSUME NEW n \in Nat, NEW o \in [1..n -> Nat], NEW d \in [1..n -> Nat \ {0}],
           Contiguous(o, d, n),
           NEW f \in 1..n, NEW u \in 1..n, f <= u
    PROVE  \E e : /\ Ends(e, [i \in 1..(u - f + 1) |-> d[f + i - 1]], u - f + 1)
                  /\ \A i \in 0..(u - f) : e[i] = o[f + i] - o[f]
<1> DEFINE l == u - f + 1
           lens == [i \in 1..l |-> d[f + i - 1]]
<1>1. l \in Nat /\ lens \in [1..l -> Nat \ {0}]
  OBVIOUS
<1>2. PICK e : Ends(e, lens, l)
  BY <1>1, EndsExist
<1>z. \A i \in 1..l : lens[i] = d[f + i - 1]
  OBVIOUS
<1> HIDE DEF lens
<1> DEFINE Bad == {i \in 0..(u - f) : e[i] # o[f + i] - o[f]}
<1>3. Bad = {}
  <2>1. SUFFICES ASSUME Bad # {}  PROVE FALSE
    OBVIOUS
  <2>2. Bad \subseteq Nat
    OBVIOUS
  <2>3. PICK m \in Bad : \A j \in Bad : m <= j
    BY <2>1, <2>2, LeastExists
  <2>4. m # 0
    BY <1>2, <2>3 DEF Ends
  <2>5. m \in 1..l /\ m - 1 \in 0..(u - f) /\ m - 1 \notin Bad
    BY <2>3, <2>4
  <2>6. e[m - 1] = o[f + m - 1] - o[f]
    BY <2>5
  <2>7. e[m] = e[m - 1] + d[f + m - 1]
    BY <1>2, <1>z, <2>5 DEF Ends
  <2>8. f + m \in 2..n /\ f + m - 1 \in 1..n /\ o[f + m] = o[f + m - 1] + d[f + m - 1]
    BY <2>3, <2>5 DEF Contiguous
  <2> QED  BY <2>3, <2>6, <2>7, <2>8
<1>4. \A i \in 0..(u - f) : e[i] = o[f + i] - o[f]
  BY <1>3
<1> QED  BY <1>2, <1>4 DEF lens

\* The bytes of a component are those of its columns.
LEMMA TilesComponent ==
    ASSUME NEW n \in Nat, NEW o \in [1..n -> Nat], NEW d \in [1..n -> Nat \ {0}],
           Contiguous(o, d, n),
           NEW f \in 1..n, NEW u \in 1..n, f <= u,
           NEW m \in Nat, o[u] + d[u] = o[f] + m,
           NEW B, NEW r, IsPiece(B, r, o[f], m)
    PROVE  Tiles([i \in 1..(u - f + 1) |-> f + i - 1], B, o, d, n, r)
<1> DEFINE l == u - f + 1
           K == [i \in 1..l |-> f + i - 1]
           lens == [i \in 1..l |-> d[f + i - 1]]
<1>1. PICK e : Ends(e, lens, l) /\ \A i \in 0..(u - f) : e[i] = o[f + i] - o[f]
  BY ComponentEnds
<1>2. l \in Nat \ {0} /\ K \in [1..l -> 1..n]
  OBVIOUS
<1>3. lens = [i \in 1..l |-> d[K[i]]]
  OBVIOUS
<1>4. \A i \in 1..l : i - 1 \in 0..(u - f) /\ f + (i - 1) = K[i] /\ K[i] \in 1..n /\ f + i - 1 = K[i]
  OBVIOUS
<1>5. \A i \in 1..l : e[i - 1] = o[K[i]] - o[f]
  BY <1>1, <1>4
<1>6. \A i \in 0..l : e[i] \in Nat
  BY <1>1 DEF Ends
<1>7. \A i \in 1..l : e[i] = e[i - 1] + d[K[i]]
  BY <1>1, <1>3 DEF Ends
<1>8. lens \in [1..l -> Nat \ {0}]
  BY <1>2, <1>3
<1>g. \A i, j \in 0..l : i < j => e[i] + lens[i + 1] <= e[j] /\ e[i] < e[j]
  BY <1>1, <1>2, <1>8, EndsGrow
<1>9. l \in 1..l /\ K[l] = u /\ l \in 0..l
  OBVIOUS
<1> HIDE DEF l, K, lens
<1>10. e[l] = m
  <2>1. e[l] = e[l - 1] + d[u] /\ e[l - 1] = o[u] - o[f]
    BY <1>5, <1>7, <1>9
  <2> DEFINE a == o[u]
             b == d[u]
             z == o[f]
  <2>2. a \in Nat /\ b \in Nat /\ z \in Nat /\ e[l] = (a - z) + b /\ a + b = z + m
    BY <2>1
  <2> HIDE DEF a, b, z
  <2> QED  BY <2>2
<1>11. \A i \in 1..l : e[i] <= m
  <2> SUFFICES ASSUME NEW i \in 1..l  PROVE e[i] <= e[l]
    BY <1>10
  <2>1. i \in 0..l /\ l \in 0..l /\ (i = l \/ i < l)
    BY <1>2
  <2> DEFINE a == e[i]
             b == e[l]
  <2>2. a \in Nat /\ b \in Nat /\ (i < l => a < b) /\ (i = l => a = b)
    BY <1>6, <1>g, <2>1
  <2> HIDE DEF a, b
  <2>3. a <= b
    BY <2>1, <2>2
  <2> QED  BY <2>3 DEF a, b
<1>12. ASSUME NEW i \in 1..l, NEW j \in 1..d[K[i]]
       PROVE  B[e[i - 1] + j] = r[o[K[i]] + j]
  <2>1. K[i] \in 1..n /\ d[K[i]] \in Nat /\ o[K[i]] \in Nat /\ o[f] \in Nat
    BY <1>4
  <2>2. i \in 0..l /\ i - 1 \in 0..l
    BY <1>2
  <2>3. e[i - 1] \in Nat /\ e[i - 1] + d[K[i]] <= m
    BY <1>6, <1>7, <1>11, <2>1, <2>2
  <2> DEFINE a == e[i - 1]
             b == o[K[i]]
             w == d[K[i]]
             z == o[f]
  <2>4. a \in Nat /\ b \in Nat /\ z \in Nat /\ w \in Nat /\ a + w <= m /\ a = b - z /\ j \in 1..w
    BY <1>5, <2>1, <2>3
  <2> HIDE DEF a, b, w, z
  <2>5. a + j \in 1..m /\ z + (a + j) = b + j
    BY <2>4
  <2>6. IsPiece(B, r, z, m)
    BY DEF z
  <2>7. B[a + j] = r[b + j]
    BY <2>5, <2>6 DEF IsPiece
  <2> QED  BY <2>7 DEF a, b
<1>13. B \in [1..e[l] -> Nat]
  BY <1>10 DEF IsPiece
<1>14. Tiled(K, B, o, d, r, l, e)
  BY <1>1, <1>3, <1>12, <1>13 DEF Tiled
<1> QED  BY <1>2, <1>14 DEF Tiles, K, l

\* A sequence is a function on the numbers up to its length.
LEMMA SeqIsFunction ==
    ASSUME NEW S, NEW s \in Seq(S)
    PROVE  Len(s) \in Nat /\ s \in [1..Len(s) -> S]
OBVIOUS

\* The concatenation of two strings.
IsConcat(s, v, w, m, k, S) ==
    /\ s \in [1..(m + k) -> S]
    /\ \A x \in 1..m : s[x] = v[x]
    /\ \A x \in 1..k : s[m + x] = w[x]

\* What \o computes.
LEMMA ConcatIs ==
    ASSUME NEW S, NEW m \in Nat, NEW k \in Nat, NEW v \in [1..m -> S], NEW w \in [1..k -> S]
    PROVE  IsConcat(v \o w, v, w, m, k, S)
<1>1. v \in Seq(S) /\ w \in Seq(S) /\ Len(v) = m /\ Len(w) = k
  OBVIOUS
<1>2. v \o w \in Seq(S) /\ Len(v \o w) = m + k
  BY <1>1
<1>4. \A x \in 1..m : (v \o w)[x] = v[x]
  BY <1>1
<1>5. \A x \in 1..k : (v \o w)[m + x] = w[x]
  <2> SUFFICES ASSUME NEW x \in 1..k  PROVE (v \o w)[m + x] = w[x]
    OBVIOUS
  <2>1. m + x \in 1..(m + k) /\ ~ (m + x <= m) /\ (m + x) - m = x
    OBVIOUS
  <2> QED  BY <1>1, <2>1
<1>6. v \o w \in [1..(m + k) -> S]
  <2> DEFINE s == v \o w
  <2>1. s \in Seq(S) /\ Len(s) = m + k
    BY <1>2
  <2> HIDE DEF s
  <2>2. s \in [1..(m + k) -> S]
    BY <2>1, SeqIsFunction
  <2> QED  BY <2>2 DEF s
<1> QED  BY <1>4, <1>5, <1>6 DEF IsConcat

\* The ends of two lists of pieces, the second put after the first.
JoinEnds(e, g, l, k) == [i \in 0..(l + k) |-> IF i <= l THEN e[i] ELSE e[l] + g[i - l]]

\* They are the ends of the pieces of both.
LEMMA ConcatEnds ==
    ASSUME NEW l \in Nat, NEW k \in Nat, NEW a \in [1..l -> Nat], NEW b \in [1..k -> Nat],
           NEW s, NEW e, NEW g,
           Ends(e, a, l), Ends(g, b, k),
           \A x \in 1..l : s[x] = a[x], \A x \in 1..k : s[l + x] = b[x]
    PROVE  Ends(JoinEnds(e, g, l, k), s, l + k)
<1> DEFINE h == [i \in 0..(l + k) |-> IF i <= l THEN e[i] ELSE e[l] + g[i - l]]
<1>1. \A i \in 0..l : e[i] \in Nat
  BY DEF Ends
<1>2. \A i \in 0..k : g[i] \in Nat
  BY DEF Ends
<1>3. \A i \in 0..(l + k) : h[i] \in Nat
  <2> SUFFICES ASSUME NEW i \in 0..(l + k)  PROVE h[i] \in Nat
    OBVIOUS
  <2>1. CASE i <= l
    BY <1>1, <2>1
  <2>2. CASE ~ (i <= l)
    <3>1. i - l \in 0..k /\ l \in 0..l
      BY <2>2
    <3> QED  BY <1>1, <1>2, <2>2, <3>1
  <2> QED  BY <2>1, <2>2
<1>4. h[0] = 0
  BY DEF Ends
<1>5. ASSUME NEW i \in 1..(l + k)  PROVE h[i] = h[i - 1] + s[i]
  <2>1. CASE i <= l
    <3>1. i \in 1..l /\ h[i] = e[i] /\ h[i - 1] = e[i - 1]
      BY <2>1
    <3>2. e[i] = e[i - 1] + a[i]
      BY <3>1 DEF Ends
    <3> QED  BY <3>1, <3>2
  <2>2. CASE i = l + 1
    <3>1. h[i] = e[l] + g[1] /\ h[i - 1] = e[l] /\ 1 \in 1..k
      BY <2>2
    <3>2. g[1] = g[0] + b[1] /\ g[0] = 0
      BY <3>1 DEF Ends
    <3>3. g[1] = b[1]
      <4>1. b[1] \in Nat
        BY <3>1
      <4>2. 1 - 1 = 0 /\ g[1] = g[1 - 1] + b[1]
        BY <3>1 DEF Ends
      <4> QED  BY <3>2, <4>1
    <3> QED  BY <2>2, <3>1, <3>3
  <2>3. CASE i > l + 1
    <3>1. i - l \in 1..k /\ (i - 1) - l = (i - l) - 1 /\ l + (i - l) = i /\ ~ (i <= l) /\ ~ (i - 1 <= l)
      BY <2>3
    <3>2. h[i] = e[l] + g[i - l] /\ h[i - 1] = e[l] + g[(i - l) - 1]
      BY <2>3, <3>1
    <3>3. g[i - l] = g[(i - l) - 1] + b[i - l]
      BY <3>1 DEF Ends
    <3>4. s[i] = b[i - l]
      BY <3>1
    <3>5. e[l] \in Nat /\ g[(i - l) - 1] \in Nat /\ b[i - l] \in Nat
      BY <1>1, <1>2, <3>1
    <3> QED  BY <3>2, <3>3, <3>4, <3>5
  <2> QED  BY <2>1, <2>2, <2>3
<1> HIDE DEF h
<1> QED
  <2>1. h \in [0..(l + k) -> Nat]
    BY <1>3 DEF h
  <2>2. Ends(h, s, l + k)
    BY <1>4, <1>5, <2>1 DEF Ends
  <2> QED  BY <2>2 DEF h, JoinEnds

\* The bytes of a piece are bytes of the whole.
LEMMA PieceInside ==
    ASSUME NEW n \in Nat, NEW lens \in [1..n -> Nat \ {0}], NEW e, Ends(e, lens, n),
           NEW i \in 1..n, NEW j \in 1..lens[i]
    PROVE  e[i - 1] \in Nat /\ e[i - 1] + j \in 1..e[n] /\ e[n] \in Nat
<1>1. \A x \in 0..n : e[x] \in Nat
  BY DEF Ends
<1>2. e[i] = e[i - 1] + lens[i]
  BY DEF Ends
<1>3. i \in 0..n /\ n \in 0..n /\ i - 1 \in 0..n /\ lens[i] \in Nat /\ (i = n \/ i < n)
  OBVIOUS
<1>4. e[i] <= e[n]
  <2>1. \A x, y \in 0..n : x < y => e[x] + lens[x + 1] <= e[y] /\ e[x] < e[y]
    BY EndsGrow
  <2>2. i < n => e[i] < e[n]
    BY <1>3, <2>1
  <2>3. e[i] \in Nat /\ e[n] \in Nat
    BY <1>1, <1>3
  <2> QED  BY <1>3, <2>2, <2>3
<1>5. e[i - 1] \in Nat /\ e[n] \in Nat
  BY <1>1, <1>3
<1> DEFINE a == e[i - 1]
           b == e[n]
           w == lens[i]
<1>6. a \in Nat /\ b \in Nat /\ w \in Nat /\ a + w <= b /\ j \in 1..w
  BY <1>2, <1>3, <1>4, <1>5
<1> HIDE DEF a, b, w
<1>7. a + j \in 1..b
  BY <1>6
<1> QED  BY <1>5, <1>7 DEF a, b

\* What two lists of columns have is put together as the columns are.
LEMMA TilesConcat ==
    ASSUME NEW n \in Nat, NEW o, NEW d \in [1..n -> Nat \ {0}], NEW r,
           NEW K1, NEW K2, NEW B1, NEW B2,
           Tiles(K1, B1, o, d, n, r), Tiles(K2, B2, o, d, n, r)
    PROVE  Tiles(K1 \o K2, B1 \o B2, o, d, n, r)
<1>1. PICK l \in Nat \ {0} : K1 \in [1..l -> 1..n] /\ \E e : Tiled(K1, B1, o, d, r, l, e)
  BY DEF Tiles
<1>2. PICK e : Tiled(K1, B1, o, d, r, l, e)
  BY <1>1
<1>3. PICK k \in Nat \ {0} : K2 \in [1..k -> 1..n] /\ \E e2 : Tiled(K2, B2, o, d, r, k, e2)
  BY DEF Tiles
<1>4. PICK g : Tiled(K2, B2, o, d, r, k, g)
  BY <1>3
<1> DEFINE K == K1 \o K2
           B == B1 \o B2
           a == [i \in 1..l |-> d[K1[i]]]
           b == [i \in 1..k |-> d[K2[i]]]
           s == [i \in 1..(l + k) |-> d[K[i]]]
           h == [i \in 0..(l + k) |-> IF i <= l THEN e[i] ELSE e[l] + g[i - l]]
<1>5. Ends(e, a, l) /\ Ends(g, b, k) /\ B1 \in [1..e[l] -> Nat] /\ B2 \in [1..g[k] -> Nat]
  BY <1>2, <1>4 DEF Tiled
<1>6. a \in [1..l -> Nat \ {0}] /\ b \in [1..k -> Nat \ {0}]
  BY <1>1, <1>3
<1>z. (\A i \in 1..l : a[i] = d[K1[i]]) /\ (\A i \in 1..k : b[i] = d[K2[i]])
  OBVIOUS
<1> HIDE DEF a, b
<1>7. e[l] \in Nat /\ g[k] \in Nat
  <2>1. e \in [0..l -> Nat] /\ g \in [0..k -> Nat]
    BY <1>5 DEF Ends
  <2> QED  BY <2>1
<1>8. IsConcat(K, K1, K2, l, k, 1..n)
  BY <1>1, <1>3, ConcatIs
<1>9. IsConcat(B, B1, B2, e[l], g[k], Nat)
  BY <1>5, <1>7, ConcatIs
<1> HIDE DEF K, B
<1>10. K \in [1..(l + k) -> 1..n]
  BY <1>8 DEF IsConcat
<1>11. \A x \in 1..l : x \in 1..(l + k) /\ K[x] = K1[x] /\ s[x] = a[x]
  BY <1>8, <1>z DEF IsConcat
<1>12. \A x \in 1..k : l + x \in 1..(l + k) /\ K[l + x] = K2[x] /\ s[l + x] = b[x]
  BY <1>8, <1>z DEF IsConcat
<1>13. Ends(h, s, l + k)
  <2> HIDE DEF s
  <2>1. a \in [1..l -> Nat] /\ b \in [1..k -> Nat]
    BY <1>6
  <2>2. (\A x \in 1..l : s[x] = a[x]) /\ (\A x \in 1..k : s[l + x] = b[x])
    BY <1>11, <1>12
  <2>3. l \in Nat /\ k \in Nat
    OBVIOUS
  <2>4. Ends(JoinEnds(e, g, l, k), s, l + k)
    <3> HIDE DEF h
    <3> QED  BY <1>5, <2>1, <2>2, <2>3, ConcatEnds
  <2> QED  BY <2>4 DEF JoinEnds
<1>14. h[l + k] = e[l] + g[k]
  <2>1. ~ (l + k <= l) /\ (l + k) - l = k /\ l + k \in 0..(l + k)
    OBVIOUS
  <2> QED  BY <2>1
<1>15. \A i \in 1..l : h[i - 1] = e[i - 1]
  OBVIOUS
<1>16. \A x \in 1..k : h[(l + x) - 1] = e[l] + g[x - 1]
  <2> SUFFICES ASSUME NEW x \in 1..k  PROVE h[(l + x) - 1] = e[l] + g[x - 1]
    OBVIOUS
  <2>1. CASE x = 1
    <3>1. h[(l + x) - 1] = e[l] /\ g[x - 1] = 0
      BY <1>5, <2>1 DEF Ends
    <3> QED  BY <1>7, <3>1
  <2>2. CASE x > 1
    <3>1. ~ ((l + x) - 1 <= l) /\ ((l + x) - 1) - l = x - 1 /\ (l + x) - 1 \in 0..(l + k)
      BY <2>2
    <3> QED  BY <3>1
  <2> QED  BY <2>1, <2>2
<1> HIDE DEF h, s
<1>17. ASSUME NEW i \in 1..l, NEW j \in 1..d[K[i]]
       PROVE  B[h[i - 1] + j] = r[o[K[i]] + j]
  <2>1. K[i] = K1[i] /\ a[i] = d[K1[i]] /\ h[i - 1] = e[i - 1]
    BY <1>11, <1>15, <1>z
  <2>2. j \in 1..a[i]
    BY <2>1
  <2>3. e[i - 1] + j \in 1..e[l]
    BY <1>5, <1>6, <2>2, PieceInside
  <2>4. B[e[i - 1] + j] = B1[e[i - 1] + j]
    BY <1>9, <2>3 DEF IsConcat
  <2>5. B1[e[i - 1] + j] = r[o[K1[i]] + j]
    BY <1>2, <2>1 DEF Tiled
  <2> QED  BY <2>1, <2>4, <2>5
<1>18. ASSUME NEW x \in 1..k, NEW j \in 1..d[K[l + x]]
       PROVE  B[h[(l + x) - 1] + j] = r[o[K[l + x]] + j]
  <2>1. K[l + x] = K2[x] /\ b[x] = d[K2[x]] /\ h[(l + x) - 1] = e[l] + g[x - 1]
    BY <1>12, <1>16, <1>z
  <2>2. j \in 1..b[x] /\ b[x] \in Nat
    BY <1>6, <2>1
  <2>3. g[x - 1] \in Nat /\ g[x - 1] + j \in 1..g[k]
    BY <1>5, <1>6, <2>2, PieceInside
  <2>4. B[e[l] + (g[x - 1] + j)] = B2[g[x - 1] + j]
    BY <1>9, <2>3 DEF IsConcat
  <2>5. B2[g[x - 1] + j] = r[o[K2[x]] + j]
    BY <1>4, <2>1 DEF Tiled
  <2>6. (e[l] + g[x - 1]) + j = e[l] + (g[x - 1] + j)
    BY <1>7, <2>2, <2>3
  <2> QED  BY <2>1, <2>4, <2>5, <2>6
<1>19. ASSUME NEW i \in 1..(l + k), NEW j \in 1..d[K[i]]
       PROVE  B[h[i - 1] + j] = r[o[K[i]] + j]
  <2>1. CASE i <= l
    <3>1. i \in 1..l
      BY <2>1
    <3> QED  BY <1>17, <3>1
  <2>2. CASE i > l
    <3>1. i - l \in 1..k /\ l + (i - l) = i
      BY <2>2
    <3> QED  BY <1>18, <3>1
  <2> QED  BY <2>1, <2>2
<1>20. Tiled(K, B, o, d, r, l + k, h)
  <2>1. B \in [1..h[l + k] -> Nat]
    BY <1>9, <1>14 DEF IsConcat
  <2> QED  BY <1>13, <1>19, <2>1 DEF Tiled, s
<1>21. l + k \in Nat \ {0}
  OBVIOUS
<1> QED  BY <1>10, <1>20, <1>21 DEF Tiles, K, B

\* The bytes of key k of a record of layout L: KeyBytes.
BytesOf(L, k, r) ==
    FlattenSeq([p \in DOMAIN L.keys[k] |->
        SubSeq(r, L.keys[k][p].offset + 1, L.keys[k][p].offset + L.keys[k][p].len)])

\* Offsets and lengths of the columns of a table, as functions.
LEMMA OffsetsLengths ==
    ASSUME NEW n \in Nat, NEW C, Adjacent(C, n)
    PROVE  /\ Offsets(C, n) \in [1..n -> Nat] /\ Lengths(C, n) \in [1..n -> Nat \ {0}]
           /\ Contiguous(Offsets(C, n), Lengths(C, n), n)
<1>1. \A i \in 1..n : C[i].offset \in Nat /\ C[i].len \in Nat /\ C[i].len > 0
  BY ColumnTypes
<1>2. \A i \in 2..n : i \in 1..n /\ i - 1 \in 1..n
  OBVIOUS
<1>3. Contiguous(Offsets(C, n), Lengths(C, n), n)
  BY <1>2 DEF Contiguous, Adjacent, Offsets, Lengths
<1> QED  BY <1>1, <1>3 DEF Offsets, Lengths

\* The components of the keys of a layout are numbers; every key has one.
LEMMA KeyTypes ==
    ASSUME NEW L \in Layouts, NEW k \in DOMAIN L.keys
    PROVE  /\ Len(L.keys[k]) \in Nat \ {0} /\ DOMAIN L.keys[k] = 1..Len(L.keys[k])
           /\ \A p \in DOMAIN L.keys[k] : L.keys[k][p].offset \in Nat /\ L.keys[k][p].len \in Nat
<1>1. L.keys \in Seq(Seq([offset : Nat, len : Nat \ {0}]) \ {<<>>})
  BY LayoutsAssumption DEF Sized
<1> DEFINE S == [offset : Nat, len : Nat \ {0}]
           T == Seq(S) \ {<<>>}
<1>2. L.keys \in Seq(T)
  BY <1>1
<1> HIDE DEF T
<1>3. L.keys[k] \in T
  BY <1>2, ElementOf
<1> HIDE DEF S
<1>4. L.keys[k] \in Seq(S) /\ L.keys[k] # <<>>
  BY <1>3 DEF T
<1>5. Len(L.keys[k]) \in Nat \ {0} /\ DOMAIN L.keys[k] = 1..Len(L.keys[k])
  BY <1>4
<1>6. \A p \in DOMAIN L.keys[k] : L.keys[k][p] \in S
  BY <1>4, ElementOf
<1>7. \A p \in DOMAIN L.keys[k] : L.keys[k][p].offset \in Nat /\ L.keys[k][p].len \in Nat
  BY <1>6 DEF S
<1> QED  BY <1>5, <1>7

\* A key of a record is made of the bytes of the columns getkeys finds for it.
LEMMA KeyTiles ==
    ASSUME NEW L \in Layouts, NEW n \in Nat, NEW C, TableShape(L, C, n), NEW k \in DOMAIN L.keys,
           NEW R \in Nat, NEW r \in [1..R -> Nat], End(C, n) <= R
    PROVE  Tiles(getkeys(C, L)[k], BytesOf(L, k, r), Offsets(C, n), Lengths(C, n), n, r)
<1> DEFINE m == Len(L.keys[k])
           o == Offsets(C, n)
           d == Lengths(C, n)
           ks == [p \in DOMAIN L.keys[k] |-> Component(C, L.keys[k][p])]
           bs == [p \in DOMAIN L.keys[k] |->
                     SubSeq(r, L.keys[k][p].offset + 1, L.keys[k][p].offset + L.keys[k][p].len)]
<1>1. Adjacent(C, n)
  BY DEF TableShape
<1>2. o \in [1..n -> Nat] /\ d \in [1..n -> Nat \ {0}] /\ Contiguous(o, d, n)
  BY <1>1, OffsetsLengths
<1>3. m \in Nat \ {0} /\ DOMAIN L.keys[k] = 1..m
  BY KeyTypes
<1>4. ASSUME NEW q \in 1..m  PROVE Tiles(ks[q], bs[q], o, d, n, r)
  <2> DEFINE p == L.keys[k][q]
  <2>1. p.offset \in Nat /\ p.len \in Nat
    BY <1>3, KeyTypes
  <2>2. PICK f \in 1..n, u \in 1..n : Spans(C, p, f, u)
    BY <1>3 DEF TableShape
  <2>3. ks[q] = [i \in 1..(u - f + 1) |-> f + i - 1]
    <3>1. ks[q] = Component(C, p)
      BY <1>3
    <3> HIDE DEF ks, p
    <3>2. Component(C, p) = [i \in 1..(u - f + 1) |-> f + i - 1]
      BY <1>1, <2>2, ComponentIs
    <3> QED  BY <3>1, <3>2
  <2>4. bs[q] = SubSeq(r, p.offset + 1, p.offset + p.len)
    BY <1>3
  <2> HIDE DEF ks, bs, p
  <2>5. f <= u /\ o[f] = p.offset /\ o[u] + d[u] = p.offset + p.len
    BY <2>2 DEF Spans, End, Offsets, Lengths
  <2>6. End(C, u) <= R
    <3>1. Ordered(C, n)
      BY <1>1, ColumnsGrow
    <3>2. u < n => End(C, u) <= C[n].offset
      BY <3>1 DEF Ordered
    <3>3. n \in 1..n
      OBVIOUS
    <3>4. C[n].offset \in Nat /\ End(C, n) \in Nat /\ C[n].offset < End(C, n) /\ End(C, u) \in Nat
      BY <1>1, <3>3, ColumnTypes
    <3>5. u = n \/ u < n
      OBVIOUS
    <3> QED  BY <3>2, <3>4, <3>5
  <2>7. p.offset + p.len <= R
    BY <2>2, <2>6 DEF Spans
  <2>8. IsPiece(bs[q], r, o[f], p.len)
    BY <2>1, <2>4, <2>5, <2>7, SubSeqIs
  <2> HIDE DEF o, d
  <2>9. o[u] + d[u] = o[f] + p.len
    BY <2>5
  <2> DEFINE w == p.len
             b == bs[q]
  <2> HIDE DEF w, b
  <2>10. w \in Nat /\ f <= u /\ o[u] + d[u] = o[f] + w /\ IsPiece(b, r, o[f], w)
    BY <2>1, <2>5, <2>8, <2>9 DEF w, b
  <2>11. Tiles([i \in 1..(u - f + 1) |-> f + i - 1], b, o, d, n, r)
    BY <1>2, <2>10, TilesComponent
  <2> QED  BY <2>3, <2>11 DEF b
<1>5. Len(ks) = m /\ DOMAIN ks = 1..m /\ Len(bs) = m /\ DOMAIN bs = 1..m
  BY <1>3
<1>6. getkeys(C, L)[k] = FlattenSeq(ks) /\ BytesOf(L, k, r) = FlattenSeq(bs)
  BY DEF getkeys, BytesOf
<1> HIDE DEF ks, bs, m, o, d
<1>7. PICK fK : Flat(ks, fK, m) /\ FlattenSeq(ks) = fK[m]
  BY <1>3, <1>5, FlattenIs
<1>8. PICK fB : Flat(bs, fB, m) /\ FlattenSeq(bs) = fB[m]
  BY <1>3, <1>5, FlattenIs
<1> DEFINE Bad == {q \in 1..m : ~ Tiles(fK[q], fB[q], o, d, n, r)}
<1>9. Bad = {}
  <2>1. SUFFICES ASSUME Bad # {}  PROVE FALSE
    OBVIOUS
  <2>2. Bad \subseteq Nat
    OBVIOUS
  <2>3. PICK q \in Bad : \A j \in Bad : q <= j
    BY <2>1, <2>2, LeastExists
  <2>4. CASE q = 1
    <3>1. fK[q] = ks[q] /\ fB[q] = bs[q]
      BY <1>7, <1>8, <2>4 DEF Flat
    <3> QED  BY <1>4, <2>3, <3>1
  <2>5. CASE q # 1
    <3>1. q \in 2..m /\ q - 1 \in 1..m /\ q - 1 \notin Bad
      BY <1>3, <2>3, <2>5
    <3>2. Tiles(fK[q - 1], fB[q - 1], o, d, n, r)
      BY <3>1
    <3>3. fK[q] = fK[q - 1] \o ks[q] /\ fB[q] = fB[q - 1] \o bs[q]
      BY <1>7, <1>8, <3>1 DEF Flat
    <3>4. Tiles(ks[q], bs[q], o, d, n, r)
      BY <1>4, <2>3
    <3>5. Tiles(fK[q - 1] \o ks[q], fB[q - 1] \o bs[q], o, d, n, r)
      BY <1>2, <3>2, <3>4, TilesConcat
    <3>6. Tiles(fK[q], fB[q], o, d, n, r)
      BY <3>3, <3>5
    <3> QED  BY <2>3, <3>6
  <2> QED  BY <2>4, <2>5
<1>10. Tiles(fK[m], fB[m], o, d, n, r)
  BY <1>3, <1>9
<1> QED  BY <1>6, <1>7, <1>8, <1>10 DEF o, d

--------------------------------------------------------------------------------
(* The inductive invariant                                                 *)

Relations == {">", ">=", "<", "<=", "="}

TypeInv ==
    /\ pc \in {"closed", "open", "where", "declared", "updated", "crashed", "exited"}
    /\ layout \in Layouts /\ weak \in BOOLEAN /\ partial_key \in Nat
    /\ ~ (weak /\ partial_key > 0)

\* What table_info made of the layout stays as it is.
OpenInv ==
    pc # "closed" =>
        columns = Columns(layout) /\ keys = getkeys(columns, layout) /\ pk = PkOf(keys, layout)

KeyCols == keys[keyid]

\* A START was asked for, with columns to compare.
Asked ==
    /\ asked \in Relations
    /\ op = (IF weak \/ partial_key > 0 THEN "=" ELSE asked)
    /\ partial_key <= Len(KeyCols) /\ (weak => Len(KeyCols) > 1)

\* The i-th comparison of the WHERE whose last is the n-th.
Comparison(i, n) ==
    [col |-> KeyCols[i],
     op  |-> IF i = n THEN op ELSE Strict(op),
     how |-> IF i = n THEN "last" ELSE IF op = "=" THEN "and" ELSE "or"]

\* The number of columns in the ORDER BY of a START, and the i-th of them.
OrderLen == IF partial_key \in 1..(Len(KeyCols) - 1) THEN Len(KeyCols) - 1 ELSE Len(KeyCols)

OrderCol(i) ==
    [col  |-> KeyCols[IF i <= LastComp \/ partial_key = 0 THEN i ELSE i + 1],
     desc |-> i <= LastComp /\ Strict(op) = "<"]

\* adiciona_comp has done the columns before c.
WhereInv ==
    pc = "where" =>
        /\ Asked /\ c \in 1..LastComp
        /\ where = [i \in 1..(c - 1) |-> Comparison(i, LastComp)]
        /\ order = [i \in 1..(c - 1) |-> OrderCol(i)]

DeclaredInv ==
    pc = "declared" /\ asked \notin {"lookup", "leading"} =>
        /\ Asked
        /\ where = [i \in 1..LastComp |-> Comparison(i, LastComp)]
        /\ order = [i \in 1..OrderLen |-> OrderCol(i)]

\* The columns of a lookup: all, or all but the last.
LookupCols == IF asked = "leading" THEN Len(KeyCols) - 1 ELSE Len(KeyCols)

LookupInv ==
    pc = "declared" /\ asked \in {"lookup", "leading"} =>
        /\ op = "=" /\ (asked = "leading" => weak /\ Len(KeyCols) > 1)
        /\ where = [i \in 1..LookupCols |-> Comparison(i, LookupCols)]

RecordInv == pc \in {"where", "declared"} => record \in Records /\ keyid \in DOMAIN keys

\* The row of a REWRITE, before and after.
RewriteInv ==
    pc \in {"updated", "exited"} =>
        /\ record \in SignedRows /\ row[1] \in SignedRows /\ SameKey(row[1], record, 1)
        /\ pc = "updated" =>
               row[2] = IF row[1] # record /\ Matches(record) THEN Updated(row[1], record) ELSE row[1]
        /\ pc = "exited" => row[1] # record /\ DOMAIN columns \subseteq pk

IInv ==
    /\ TypeInv /\ OpenInv /\ RecordInv /\ WhereInv
    /\ DeclaredInv /\ LookupInv /\ RewriteInv

--------------------------------------------------------------------------------
(* It is inductive                                                         *)

\* Every key of a table has columns, and they are columns of the table.
KeysShape(ks, n) ==
    \A k \in DOMAIN ks : Len(ks[k]) \in Nat \ {0} /\ ks[k] \in [1..Len(ks[k]) -> 1..n]

\* getkeys finds at least one column for every key.
LEMMA GetkeysShape ==
    ASSUME NEW L \in Layouts, NEW n \in Nat \ {0}, NEW C, TableShape(L, C, n)
    PROVE  /\ KeysShape(getkeys(C, L), n)
           /\ DOMAIN getkeys(C, L) = DOMAIN L.keys /\ 1 \in DOMAIN L.keys
<1>1. DOMAIN getkeys(C, L) = DOMAIN L.keys
  BY DEF getkeys
<1>2. 1 \in DOMAIN L.keys
  BY LayoutsAssumption DEF Sized
<1>3. ASSUME NEW k \in DOMAIN L.keys
      PROVE  Len(getkeys(C, L)[k]) \in Nat \ {0} /\ getkeys(C, L)[k] \in [1..Len(getkeys(C, L)[k]) -> 1..n]
  <2> DEFINE R == End(C, n)
             r == [b \in 1..R |-> 0]
             K == getkeys(C, L)[k]
  <2>1. R \in Nat
    BY ColumnTypes DEF TableShape
  <2>2. r \in [1..R -> Nat] /\ End(C, n) <= R
    BY <2>1
  <2> HIDE DEF r
  <2>3. n \in Nat
    OBVIOUS
  <2>4. Tiles(K, BytesOf(L, k, r), Offsets(C, n), Lengths(C, n), n, r)
    <3> HIDE DEF R
    <3> QED  BY <2>1, <2>2, <2>3, KeyTiles
  <2> HIDE DEF K
  <2>5. PICK l \in Nat \ {0} : K \in [1..l -> 1..n]
    BY <2>4 DEF Tiles
  <2>6. Len(K) = l
    BY <2>5
  <2> QED  BY <2>5, <2>6 DEF K
<1> QED  BY <1>1, <1>2, <1>3 DEF KeysShape

\* The columns and the keys of an open table.
LEMMA OpenShape ==
    ASSUME TypeInv, OpenInv, pc # "closed"
    PROVE  /\ \E n \in Nat \ {0} : TableShape(layout, columns, n) /\ KeysShape(keys, n)
           /\ DOMAIN keys = DOMAIN layout.keys /\ 1 \in DOMAIN keys
<1>1. layout \in Layouts
  BY DEF TypeInv
<1>2. columns = Columns(layout) /\ keys = getkeys(columns, layout)
  BY DEF OpenInv
<1>3. PICK n \in Nat \ {0} : TableShape(layout, columns, n)
  BY <1>1, <1>2, ColumnsShape
<1>4. KeysShape(keys, n) /\ DOMAIN keys = DOMAIN layout.keys /\ 1 \in DOMAIN keys
  BY <1>1, <1>2, <1>3, GetkeysShape
<1> QED  BY <1>3, <1>4

\* An element put at the end of a sequence.
LEMMA AppendIs ==
    ASSUME NEW n \in Nat, NEW g
    PROVE  Append([i \in 1..n |-> g[i]], g[n + 1]) = [i \in 1..(n + 1) |-> g[i]]
<1> DEFINE S == {g[i] : i \in 1..(n + 1)}
           h == [i \in 1..n |-> g[i]]
           x == g[n + 1]
<1>1. h \in [1..n -> S] /\ x \in S
  OBVIOUS
<1>2. h \in Seq(S) /\ Len(h) = n
  BY <1>1
<1>3. \A i \in 1..n : h[i] = g[i]
  OBVIOUS
<1> HIDE DEF S, h
<1>4. Append(h, x) \in Seq(S) /\ Len(Append(h, x)) = n + 1
  BY <1>1, <1>2
<1>5. \A i \in 1..(n + 1) : Append(h, x)[i] = g[i]
  BY <1>2, <1>3
<1> DEFINE s == Append(h, x)
<1> HIDE DEF s
<1>6. s \in [1..(n + 1) -> S]
  BY <1>4, SeqIsFunction DEF s
<1>7. s = [i \in 1..(n + 1) |-> g[i]]
  BY <1>5, <1>6 DEF s
<1> QED  BY <1>7 DEF s, h

\* A sequence put after another.
LEMMA JoinIs ==
    ASSUME NEW n \in Nat, NEW k \in Nat, NEW g
    PROVE  [i \in 1..n |-> g[i]] \o [i \in 1..k |-> g[n + i]] = [i \in 1..(n + k) |-> g[i]]
<1> DEFINE S == {g[i] : i \in 1..(n + k)}
           v == [i \in 1..n |-> g[i]]
           w == [i \in 1..k |-> g[n + i]]
<1>1. v \in [1..n -> S] /\ w \in [1..k -> S]
  OBVIOUS
<1>2. (\A i \in 1..n : v[i] = g[i]) /\ (\A i \in 1..k : w[i] = g[n + i])
  OBVIOUS
<1> HIDE DEF S, v, w
<1> DEFINE s == v \o w
<1>3. IsConcat(s, v, w, n, k, S)
  BY <1>1, ConcatIs
<1> HIDE DEF s
<1>4. \A i \in 1..(n + k) : s[i] = g[i]
  <2> SUFFICES ASSUME NEW i \in 1..(n + k)  PROVE s[i] = g[i]
    OBVIOUS
  <2>1. CASE i <= n
    BY <1>2, <1>3, <2>1 DEF IsConcat
  <2>2. CASE i > n
    <3>1. i - n \in 1..k /\ n + (i - n) = i
      BY <2>2
    <3>2. s[n + (i - n)] = w[i - n] /\ w[i - n] = g[n + (i - n)]
      BY <1>2, <1>3, <3>1 DEF IsConcat
    <3> QED  BY <3>1, <3>2
  <2> QED  BY <2>1, <2>2
<1>5. s = [i \in 1..(n + k) |-> g[i]]
  BY <1>3, <1>4 DEF IsConcat
<1> QED  BY <1>5 DEF s, v, w

\* The empty sequence.
LEMMA EmptyIs ==
    ASSUME NEW g
    PROVE  <<>> = [i \in 1..0 |-> g[i]]
<1>1. \A x : x \notin 1..0
  OBVIOUS
<1> QED  BY <1>1

\* It holds when nothing is open.
LEMMA InitIInv == Init => IInv
<1> SUFFICES ASSUME Init  PROVE IInv
  OBVIOUS
<1>1. TypeInv
  BY PartialsAssumption DEF Init, TypeInv
<1>2. OpenInv /\ RecordInv /\ WhereInv /\ DeclaredInv /\ LookupInv /\ RewriteInv
  BY DEF Init, OpenInv, RecordInv, WhereInv, DeclaredInv, LookupInv, RewriteInv
<1> QED  BY <1>1, <1>2 DEF IInv

\* table_info.
LEMMA StepTableInfo == IInv /\ table_info => IInv'
<1> SUFFICES ASSUME IInv, table_info  PROVE IInv'
  OBVIOUS
<1>1. TypeInv'
  BY DEF IInv, TypeInv, table_info
<1>2. OpenInv'
  BY DEF OpenInv, table_info
<1>3. (RecordInv /\ WhereInv /\ DeclaredInv /\ LookupInv /\ RewriteInv)'
  BY DEF table_info, RecordInv, WhereInv, DeclaredInv, LookupInv, RewriteInv
<1> QED  BY <1>1, <1>2, <1>3 DEF IInv

\* The return to the program.
LEMMA StepReturn == IInv /\ Return => IInv'
<1> SUFFICES ASSUME IInv, Return  PROVE IInv'
  OBVIOUS
<1>1. TypeInv'
  BY DEF IInv, TypeInv, Return, openVars
<1>2. OpenInv'
  BY DEF IInv, OpenInv, Return, openVars
<1>3. (RecordInv /\ WhereInv /\ DeclaredInv /\ LookupInv /\ RewriteInv)'
  BY DEF Return, RecordInv, WhereInv, DeclaredInv, LookupInv, RewriteInv
<1> QED  BY <1>1, <1>2, <1>3 DEF IInv

\* The records of an open table do not change.
LEMMA RecordsSame ==
    ASSUME columns' = columns
    PROVE  RecordLen' = RecordLen /\ Rows' = Rows /\ Records' = Records
BY DEF RecordLen, Rows, Records

\* getwhere, before its first column.
LEMMA StepGetwhere ==
    ASSUME IInv, NEW k \in DOMAIN keys, NEW r \in Records, NEW o \in Relations, getwhere(k, o, r)
    PROVE  IInv'
<1>0. pc = "open" /\ pc' = "where"
  BY DEF getwhere
<1>1. TypeInv'
  BY DEF IInv, TypeInv, getwhere, openVars
<1>2. OpenInv'
  BY DEF IInv, OpenInv, getwhere, openVars
<1>3. RecordInv'
  <2>1. Records' = Records
    BY RecordsSame DEF getwhere, openVars
  <2>2. record' = r /\ keyid' = k /\ keys' = keys
    BY DEF getwhere, openVars
  <2> QED  BY <2>1, <2>2 DEF RecordInv
<1>4. WhereInv'
  <2>0. /\ keyid' = k /\ keys' = keys /\ asked' = o /\ partial_key' = partial_key /\ weak' = weak
        /\ op' = (IF weak \/ partial_key > 0 THEN "=" ELSE o)
        /\ c' = 1 /\ where' = <<>> /\ order' = <<>>
        /\ partial_key <= Len(keys[k]) /\ (weak => Len(keys[k]) > 1)
    BY DEF getwhere, openVars
  <2>1. KeyCols' = keys[k]
    BY <2>0 DEF KeyCols
  <2>2. Asked'
    BY <2>0, <2>1 DEF Asked
  <2>3. PICK n \in Nat \ {0} : KeysShape(keys, n)
    BY <1>0, OpenShape DEF IInv
  <2>4. Len(keys[k]) \in Nat \ {0}
    BY <2>3 DEF KeysShape
  <2>5. LastComp' = IF partial_key > 0 THEN partial_key ELSE IF weak THEN Len(keys[k]) - 1 ELSE Len(keys[k])
    BY <2>0 DEF LastComp
  <2>6. LastComp' \in Nat \ {0}
    <3>1. partial_key \in Nat
      BY DEF IInv, TypeInv
    <3>2. CASE partial_key > 0
      BY <2>5, <3>1, <3>2
    <3>3. CASE ~ (partial_key > 0) /\ weak
      <4>1. LastComp' = Len(keys[k]) - 1 /\ Len(keys[k]) > 1
        BY <2>0, <2>5, <3>3
      <4> DEFINE m == Len(keys[k])
      <4>2. m \in Nat /\ m > 1 /\ LastComp' = m - 1
        BY <2>4, <4>1
      <4> HIDE DEF m
      <4>3. m - 1 \in Nat \ {0}
        BY <4>2
      <4> QED  BY <4>2, <4>3
    <3>4. CASE ~ (partial_key > 0) /\ ~ weak
      BY <2>4, <2>5, <3>4
    <3> QED  BY <3>2, <3>3, <3>4
  <2>7. c' \in 1..LastComp' /\ c' - 1 = 0
    BY <2>0, <2>6
  <2>8. where' = [i \in 1..(c' - 1) |-> Comparison(i, LastComp)']
    <3> DEFINE g == [i \in 1..0 |-> Comparison(i, LastComp)']
    <3>1. <<>> = [i \in 1..0 |-> g[i]]
      <4> HIDE DEF g
      <4> QED  BY EmptyIs
    <3>2. [i \in 1..0 |-> g[i]] = [i \in 1..0 |-> Comparison(i, LastComp)']
      OBVIOUS
    <3> QED  BY <2>0, <2>7, <3>1, <3>2
  <2>9. order' = [i \in 1..(c' - 1) |-> OrderCol(i)']
    <3> DEFINE g == [i \in 1..0 |-> OrderCol(i)']
    <3>1. <<>> = [i \in 1..0 |-> g[i]]
      <4> HIDE DEF g
      <4> QED  BY EmptyIs
    <3>2. [i \in 1..0 |-> g[i]] = [i \in 1..0 |-> OrderCol(i)']
      OBVIOUS
    <3> QED  BY <2>0, <2>7, <3>1, <3>2
  <2> QED  BY <2>2, <2>7, <2>8, <2>9 DEF WhereInv
<1>5. (DeclaredInv /\ LookupInv /\ RewriteInv)'
  BY <1>0 DEF DeclaredInv, LookupInv, RewriteInv
<1> QED  BY <1>1, <1>2, <1>3, <1>4, <1>5 DEF IInv

\* A lookup declares its WHERE at once.
LEMMA StepPrepared ==
    ASSUME IInv, NEW k \in DOMAIN keys, NEW r \in Records, NEW leading \in BOOLEAN,
           getwhere_prepared(k, r, leading)
    PROVE  IInv'
<1>0. pc = "open" /\ pc' = "declared"
  BY DEF getwhere_prepared
<1>1. TypeInv'
  BY DEF IInv, TypeInv, getwhere_prepared, openVars
<1>2. OpenInv'
  BY DEF IInv, OpenInv, getwhere_prepared, openVars
<1>3. RecordInv'
  <2>1. Records' = Records
    BY RecordsSame DEF getwhere_prepared, openVars
  <2>2. record' = r /\ keyid' = k /\ keys' = keys
    BY DEF getwhere_prepared, openVars
  <2> QED  BY <2>1, <2>2 DEF RecordInv
<1> DEFINE last == IF leading THEN Len(keys[k]) - 1 ELSE Len(keys[k])
<1>4. /\ keyid' = k /\ keys' = keys /\ weak' = weak /\ op' = "="
      /\ asked' = IF leading THEN "leading" ELSE "lookup"
      /\ leading => weak /\ Len(keys[k]) > 1
      /\ where' = [i \in 1..last |-> [col |-> keys[k][i], op |-> "=",
                                      how |-> IF i = last THEN "last" ELSE "and"]]
  BY DEF getwhere_prepared, openVars
<1>5. LookupInv'
  <2>1. KeyCols' = keys[k] /\ LookupCols' = last
    BY <1>4 DEF KeyCols, LookupCols
  <2>2. \A i : Comparison(i, LookupCols)' = [col |-> keys[k][i], op |-> "=",
                                             how |-> IF i = last THEN "last" ELSE "and"]
    BY <1>4, <2>1 DEF Comparison, Strict
  <2>3. where' = [i \in 1..LookupCols' |-> Comparison(i, LookupCols)']
    <3> HIDE DEF last
    <3> QED  BY <1>4, <2>1, <2>2
  <2>4. asked' = "leading" => weak' /\ Len(KeyCols') > 1
    BY <1>4, <2>1
  <2> QED  BY <1>4, <2>3, <2>4 DEF LookupInv
<1>6. (DeclaredInv /\ WhereInv /\ RewriteInv)'
  BY <1>0, <1>4 DEF DeclaredInv, WhereInv, RewriteInv
<1> QED  BY <1>1, <1>2, <1>3, <1>5, <1>6 DEF IInv

\* The records a REWRITE may be given do not change either.
LEMMA SignedRowsSame ==
    ASSUME columns' = columns, keys' = keys, pk' = pk
    PROVE  SignedRows' = SignedRows
BY RecordsSame DEF SignedRows, LastByte

\* Nor does what a REWRITE makes of them.
LEMMA UpdatedSame ==
    ASSUME columns' = columns, pk' = pk, row[1]' = row[1], record' = record
    PROVE  Updated(row[1], record)' = Updated(row[1], record)
<1>1. RecordLen' = RecordLen
  BY RecordsSame
<1>2. Negative(record)' = Negative(record)
  BY DEF Negative, LastByte
<1>3. Overlaid(record)' = Overlaid(record)
  BY <1>2 DEF Overlaid, FirstByte
<1>4. Unsigned(record)' = Unsigned(record)
  BY <1>2 DEF Unsigned, FirstByte, LastByte
<1>5. Converted(record)' = Converted(record)
  BY <1>1, <1>3, <1>4 DEF Converted
<1>6. \A b : Marked(b)' = Marked(b)
  BY DEF Marked
<1> QED  BY <1>1, <1>5, <1>6 DEF Updated

\* A REWRITE.
LEMMA StepRewrite ==
    ASSUME IInv, NEW old \in SignedRows, NEW r \in SignedRows, op_rewrite(old, r)
    PROVE  IInv'
<1>0. pc = "open" /\ pc' = "updated"
  BY DEF op_rewrite
<1>1. TypeInv'
  BY DEF IInv, TypeInv, op_rewrite, openVars
<1>2. OpenInv'
  BY DEF IInv, OpenInv, op_rewrite, openVars
<1>3. (RecordInv /\ WhereInv /\ DeclaredInv /\ LookupInv)'
  BY <1>0 DEF RecordInv, WhereInv, DeclaredInv, LookupInv
<1>4. RewriteInv'
  <2>1. columns' = columns /\ keys' = keys /\ pk' = pk /\ record' = r /\ SameKey(old, r, 1)
    BY DEF op_rewrite, openVars
  <2>2. row' = <<old, IF old # r /\ Matches(r) THEN Updated(old, r) ELSE old>>
    BY DEF op_rewrite
  <2>3. SignedRows' = SignedRows /\ RecordLen' = RecordLen
    BY <2>1, RecordsSame, SignedRowsSame
  <2>4. row'[1] = old /\ row'[2] = IF old # r /\ Matches(r) THEN Updated(old, r) ELSE old
    BY <2>2
  <2>5. SameKey(row[1], record, 1)' = SameKey(old, r, 1) /\ Matches(record)' = Matches(r)
    BY <2>1, <2>4 DEF SameKey, Matches
  <2>6. Updated(row[1], record)' = Updated(old, r)
    <3>1. Negative(record)' = Negative(r)
      BY <2>1 DEF Negative, LastByte
    <3>2. Overlaid(record)' = Overlaid(r) /\ Unsigned(record)' = Unsigned(r)
      BY <2>1, <3>1 DEF Overlaid, Unsigned, FirstByte, LastByte
    <3>3. Converted(record)' = Converted(r)
      BY <2>1, <2>3, <3>2 DEF Converted
    <3>4. \A b : Marked(b)' = Marked(b)
      BY <2>1 DEF Marked
    <3> QED  BY <2>3, <2>4, <3>3, <3>4 DEF Updated
  <2> QED  BY <1>0, <2>1, <2>3, <2>4, <2>5, <2>6 DEF RewriteInv
<1> QED  BY <1>1, <1>2, <1>3, <1>4 DEF IInv

\* A REWRITE that has no column to set.
LEMMA StepNoColumn ==
    ASSUME IInv, NEW old \in SignedRows, NEW r \in SignedRows, NoColumnToSet(old, r)
    PROVE  IInv'
<1>0. pc = "open" /\ pc' = "exited"
  BY DEF NoColumnToSet
<1>1. TypeInv'
  BY DEF IInv, TypeInv, NoColumnToSet, openVars
<1>2. OpenInv'
  BY DEF IInv, OpenInv, NoColumnToSet, openVars
<1>3. (RecordInv /\ WhereInv /\ DeclaredInv /\ LookupInv)'
  BY <1>0 DEF RecordInv, WhereInv, DeclaredInv, LookupInv
<1>4. RewriteInv'
  <2>1. /\ columns' = columns /\ keys' = keys /\ pk' = pk /\ record' = r /\ SameKey(old, r, 1)
        /\ row'[1] = old /\ old # r /\ DOMAIN columns \subseteq pk
    BY DEF NoColumnToSet, openVars
  <2>2. SignedRows' = SignedRows
    BY <2>1, SignedRowsSame
  <2>3. SameKey(row[1], record, 1)' = SameKey(old, r, 1)
    BY <2>1 DEF SameKey
  <2> QED  BY <1>0, <2>1, <2>2, <2>3 DEF RewriteInv
<1> QED  BY <1>1, <1>2, <1>3, <1>4 DEF IInv

\* An apostrophe in the key.
LEMMA StepEscape == IInv /\ escape => IInv'
<1> SUFFICES ASSUME IInv, escape  PROVE IInv'
  OBVIOUS
<1>1. TypeInv'
  BY DEF IInv, TypeInv, escape, openVars
<1>2. OpenInv'
  BY DEF IInv, OpenInv, escape, openVars
<1>3. (RecordInv /\ WhereInv /\ DeclaredInv /\ LookupInv /\ RewriteInv)'
  BY DEF escape, RecordInv, WhereInv, DeclaredInv, LookupInv, RewriteInv
<1> QED  BY <1>1, <1>2, <1>3 DEF IInv

\* The number of columns compared by a START.
LEMMA LastCompBounds ==
    ASSUME TypeInv, Asked, Len(KeyCols) \in Nat \ {0}
    PROVE  /\ LastComp \in 1..Len(KeyCols)
           /\ partial_key > 0 => LastComp = partial_key
           /\ partial_key = 0 /\ weak => LastComp = Len(KeyCols) - 1
           /\ partial_key = 0 /\ ~ weak => LastComp = Len(KeyCols)
           /\ partial_key \in Nat
<1> DEFINE m == Len(KeyCols)
<1>1. /\ m \in Nat \ {0} /\ partial_key \in Nat /\ partial_key <= m /\ (weak => m > 1)
      /\ weak \in BOOLEAN
      /\ LastComp = IF partial_key > 0 THEN partial_key ELSE IF weak THEN m - 1 ELSE m
  BY DEF TypeInv, Asked, LastComp, KeyCols
<1> HIDE DEF m
<1>2. CASE partial_key > 0
  BY <1>1, <1>2 DEF m
<1>3. CASE partial_key = 0 /\ weak
  BY <1>1, <1>3 DEF m
<1>4. CASE partial_key = 0 /\ ~ weak
  BY <1>1, <1>4 DEF m
<1>5. partial_key > 0 \/ partial_key = 0
  BY <1>1
<1> QED  BY <1>1, <1>2, <1>3, <1>4, <1>5

\* What adiciona_comp adds to the ORDER BY after the last column compared.
LEMMA RestIs ==
    ASSUME TypeInv, Asked, Len(KeyCols) \in Nat \ {0}, c = LastComp
    PROVE  /\ OrderLen - LastComp \in Nat
           /\ Rest = [i \in 1..(OrderLen - LastComp) |-> OrderCol(LastComp + i).col]
           /\ \A i \in 1..(OrderLen - LastComp) : OrderCol(LastComp + i).desc = FALSE
<1> DEFINE K == KeyCols
           m == Len(K)
           t == LastComp
<1>1. /\ t \in 1..m /\ m \in Nat \ {0} /\ partial_key \in Nat
      /\ partial_key > 0 => t = partial_key
      /\ partial_key = 0 /\ weak => t = m - 1
      /\ partial_key = 0 /\ ~ weak => t = m
  BY LastCompBounds
<1>2. OrderLen = IF partial_key \in 1..(m - 1) THEN m - 1 ELSE m
  BY DEF OrderLen
<1>3. /\ \A i : OrderCol(t + i).col = K[IF t + i <= t \/ partial_key = 0 THEN t + i ELSE t + i + 1]
      /\ \A i : OrderCol(t + i).desc = (t + i <= t /\ Strict(op) = "<")
  BY DEF OrderCol
<1>4. Rest = IF partial_key > 0 THEN SubSeq(K, partial_key + 2, m)
             ELSE IF weak THEN <<K[t + 1]>> ELSE <<>>
  BY DEF Rest, KeyCols
<1> DEFINE w == weak
           q == OrderLen
<1> HIDE DEF K, m, t, w, q
<1>5. q - t \in Nat
  BY <1>1, <1>2 DEF w, q
<1>6. \A i \in 1..(q - t) : ~ (t + i <= t)
  BY <1>1, <1>5
<1>7. \A i \in 1..(q - t) : OrderCol(t + i).desc = FALSE
  <2> SUFFICES ASSUME NEW i \in 1..(q - t)  PROVE OrderCol(t + i).desc = FALSE
    OBVIOUS
  <2>1. OrderCol(t + i).desc = (t + i <= t /\ Strict(op) = "<")
    BY <1>3
  <2> QED  BY <1>6, <2>1
<1>8. \A i \in 1..(q - t) : OrderCol(t + i).col = K[IF partial_key = 0 THEN t + i ELSE t + i + 1]
  <2> SUFFICES ASSUME NEW i \in 1..(q - t)
               PROVE  OrderCol(t + i).col = K[IF partial_key = 0 THEN t + i ELSE t + i + 1]
    OBVIOUS
  <2>1. OrderCol(t + i).col = K[IF t + i <= t \/ partial_key = 0 THEN t + i ELSE t + i + 1]
    BY <1>3
  <2> QED  BY <1>6, <2>1
<1>9. Rest = [i \in 1..(q - t) |-> K[IF partial_key = 0 THEN t + i ELSE t + i + 1]]
  <2>1. CASE partial_key > 0
    <3>1. Rest = SubSeq(K, t + 2, m) /\ t = partial_key
      BY <1>1, <1>4, <2>1
    <3>2. SubSeq(K, t + 2, m) = [i \in 1..(1 + m - (t + 2)) |-> K[i + (t + 2) - 1]]
      BY <1>1
    <3>3. 1..(1 + m - (t + 2)) = 1..(q - t)
      <4>1. CASE partial_key <= m - 1
        <5>1. q = m - 1
          BY <1>1, <1>2, <2>1, <4>1 DEF q
        <5> QED  BY <1>1, <5>1
      <4>2. CASE ~ (partial_key <= m - 1)
        <5>1. q = m /\ t = m
          BY <1>1, <1>2, <2>1, <4>2 DEF q
        <5> QED  BY <1>1, <5>1
      <4> QED  BY <4>1, <4>2
    <3>4. \A i \in 1..(q - t) : i + (t + 2) - 1 = t + i + 1 /\ partial_key # 0
      BY <1>1, <1>5, <2>1
    <3> QED  BY <3>1, <3>2, <3>3, <3>4
  <2>2. CASE partial_key = 0 /\ weak
    <3>1. q = m /\ t = m - 1 /\ Rest = <<K[t + 1]>>
      BY <1>1, <1>2, <1>4, <2>2 DEF q
    <3>2. q - t = 1
      BY <1>1, <3>1
    <3>3. <<K[t + 1]>> = [i \in 1..1 |-> K[t + i]]
      OBVIOUS
    <3> QED  BY <2>2, <3>1, <3>2, <3>3
  <2>3. CASE partial_key = 0 /\ ~ weak
    <3>1. q = m /\ t = m /\ Rest = <<>>
      BY <1>1, <1>2, <1>4, <2>3 DEF q
    <3>2. q - t = 0
      BY <1>1, <3>1
    <3>3. <<>> = [i \in 1..0 |-> K[t + i]]
      OBVIOUS
    <3> QED  BY <2>3, <3>1, <3>2, <3>3
  <2> QED  BY <1>1, <2>1, <2>2, <2>3
<1>10. Rest = [i \in 1..(q - t) |-> OrderCol(t + i).col]
  BY <1>8, <1>9
<1> QED  BY <1>5, <1>7, <1>10 DEF q, t

\* One comparison more, and at the last one the rest of the ORDER BY.
LEMMA StepComp == IInv /\ adiciona_comp => IInv'
<1> SUFFICES ASSUME IInv, adiciona_comp  PROVE IInv'
  OBVIOUS
<1>0. /\ pc = "where" /\ pc' = IF c = LastComp THEN "declared" ELSE "where"
      /\ keys' = keys /\ keyid' = keyid /\ op' = op /\ asked' = asked /\ c' = c + 1
      /\ partial_key' = partial_key /\ weak' = weak /\ columns' = columns /\ record' = record
  BY DEF adiciona_comp, openVars
<1>1. TypeInv'
  BY DEF IInv, TypeInv, adiciona_comp, openVars
<1>2. OpenInv'
  BY DEF IInv, OpenInv, adiciona_comp, openVars
<1>3. RecordInv'
  <2>1. Records' = Records
    BY <1>0, RecordsSame
  <2> QED  BY <1>0, <2>1 DEF IInv, RecordInv
<1>4. TypeInv /\ Asked /\ c \in 1..LastComp
  BY <1>0 DEF IInv, WhereInv
<1>5. /\ where = [i \in 1..(c - 1) |-> Comparison(i, LastComp)]
      /\ order = [i \in 1..(c - 1) |-> OrderCol(i)]
  BY <1>0 DEF IInv, WhereInv
<1>6. Len(KeyCols) \in Nat \ {0}
  <2>1. PICK n \in Nat \ {0} : KeysShape(keys, n)
    BY <1>0, OpenShape DEF IInv
  <2> QED  BY <1>0, <2>1 DEF KeysShape, KeyCols, IInv, RecordInv
<1>7. LastComp \in 1..Len(KeyCols)
  BY <1>4, <1>6, LastCompBounds
<1>8. KeyCols' = KeyCols /\ LastComp' = LastComp /\ OrderLen' = OrderLen
  BY <1>0 DEF KeyCols, LastComp, OrderLen
<1>9. \A i : Comparison(i, LastComp)' = Comparison(i, LastComp) /\ OrderCol(i)' = OrderCol(i)
  BY <1>0, <1>8 DEF Comparison, OrderCol
<1>10. Asked'
  BY <1>0, <1>4, <1>8 DEF Asked
<1> DEFINE t == LastComp
           W == [i \in 1..(Len(KeyCols) + 1) |-> Comparison(i, t)]
           O == [i \in 1..(Len(KeyCols) + 1) |-> OrderCol(i)]
           z == c
           m == Len(KeyCols)
<1>11. z \in 1..t /\ t \in 1..m /\ m \in Nat \ {0}
  BY <1>4, <1>6, <1>7
<1>12. where' = Append(where, W[z])
  <2>1. W[z] = Comparison(c, LastComp)
    <3> HIDE DEF t
    <3>1. z \in 1..(m + 1)
      BY <1>11
    <3> QED  BY <3>1 DEF t
  <2> HIDE DEF W
  <2> QED  BY <2>1 DEF adiciona_comp, Comparison, CompOp, KeyCols
<1>13. O[z] = [col |-> KeyCols[c], desc |-> Desc]
  <2>1. z \in 1..(m + 1) /\ z <= t
    <3> HIDE DEF t, z, m
    <3> QED  BY <1>11
  <2>2. O[z] = OrderCol(c)
    BY <2>1
  <2> HIDE DEF O
  <2> QED  BY <2>1, <2>2 DEF OrderCol, Desc
<1> DEFINE extra == IF c = LastComp THEN [i \in DOMAIN Rest |-> [col |-> Rest[i], desc |-> FALSE]]
                    ELSE <<>>
<1>14. order' = order \o <<O[z]>> \o extra
  <2> HIDE DEF O
  <2> QED  BY <1>13 DEF adiciona_comp, KeyCols
<1>15. /\ \A i \in 1..(m + 1) : W[i] = Comparison(i, t)
       /\ \A i \in 1..(m + 1) : O[i] = OrderCol(i)
  OBVIOUS
<1> HIDE DEF W, O, extra
<1>16. where = [i \in 1..(z - 1) |-> W[i]] /\ order = [i \in 1..(z - 1) |-> O[i]]
  <2> HIDE DEF t, m, z
  <2>1. \A i \in 1..(z - 1) : i \in 1..(m + 1)
    BY <1>11
  <2> QED  BY <1>5, <1>15, <2>1 DEF z, t
<1>17. where' = [i \in 1..z |-> W[i]]
  <2> HIDE DEF t, m, z
  <2>1. z - 1 \in Nat /\ z - 1 + 1 = z
    BY <1>11
  <2>2. Append([i \in 1..(z - 1) |-> W[i]], W[z - 1 + 1]) = [i \in 1..(z - 1 + 1) |-> W[i]]
    BY <2>1, AppendIs
  <2> QED  BY <1>12, <1>16, <2>1, <2>2
<1>18. order \o <<O[z]>> = [i \in 1..z |-> O[i]]
  <2> HIDE DEF t, m, z
  <2> DEFINE y == z - 1
  <2>1. y \in Nat /\ y + 1 = z
    BY <1>11
  <2>2. order = [i \in 1..y |-> O[i]]
    BY <1>16
  <2> HIDE DEF y
  <2>3. [i \in 1..y |-> O[i]] \o [i \in 1..1 |-> O[y + i]] = [i \in 1..(y + 1) |-> O[i]]
    BY <2>1, JoinIs
  <2>4. [i \in 1..1 |-> O[y + i]] = <<O[y + 1]>>
    OBVIOUS
  <2> QED  BY <2>1, <2>2, <2>3, <2>4
<1>19. where' = [i \in 1..z |-> Comparison(i, t)]
  <2> HIDE DEF t, m, z
  <2>1. \A i \in 1..z : i \in 1..(m + 1)
    BY <1>11
  <2> QED  BY <1>15, <1>17, <2>1
<1>20. CASE c # LastComp
  <2>1. pc' = "where"
    BY <1>0, <1>20
  <2>2. c' \in 1..LastComp' /\ c' - 1 = z
    <3>1. z \in 1..t /\ z # t /\ t \in Nat
      <4>1. z # t
        BY <1>20
      <4> HIDE DEF z, t, m
      <4> QED  BY <1>11, <4>1
    <3> HIDE DEF z, t
    <3>2. z + 1 \in 1..t /\ z + 1 - 1 = z
      BY <3>1
    <3>3. c' = z + 1 /\ LastComp' = t
      BY <1>0, <1>8 DEF z, t
    <3>4. c' \in 1..LastComp'
      BY <3>2, <3>3
    <3>5. c' - 1 = z
      BY <3>1, <3>3
    <3> QED  BY <3>4, <3>5
  <2>3. order' = [i \in 1..z |-> OrderCol(i)]
    <3>1. order' = [i \in 1..z |-> O[i]] \o <<>>
      BY <1>14, <1>18, <1>20 DEF extra
    <3>2. [i \in 1..z |-> O[i]] \o <<>> = [i \in 1..z |-> O[i]]
      <4> HIDE DEF t, m, z
      <4>1. z \in Nat /\ 0 \in Nat /\ z + 0 = z
        BY <1>11
      <4>2. [i \in 1..z |-> O[i]] \o [i \in 1..0 |-> O[z + i]] = [i \in 1..(z + 0) |-> O[i]]
        BY <4>1, JoinIs
      <4>3. [i \in 1..0 |-> O[z + i]] = <<>>
        OBVIOUS
      <4> QED  BY <4>1, <4>2, <4>3
    <3> HIDE DEF t, m, z
    <3>3. \A i \in 1..z : i \in 1..(m + 1)
      BY <1>11
    <3> QED  BY <1>15, <3>1, <3>2, <3>3
  <2>4. where' = [i \in 1..(c' - 1) |-> Comparison(i, LastComp)']
    BY <1>9, <1>19, <2>2
  <2>5. order' = [i \in 1..(c' - 1) |-> OrderCol(i)']
    BY <1>9, <2>2, <2>3
  <2>6. WhereInv'
    BY <1>10, <2>2, <2>4, <2>5 DEF WhereInv
  <2>7. (DeclaredInv /\ LookupInv /\ RewriteInv)'
    BY <2>1 DEF DeclaredInv, LookupInv, RewriteInv
  <2> QED  BY <1>1, <1>2, <1>3, <2>6, <2>7 DEF IInv
<1>21. CASE c = LastComp
  <2>1. pc' = "declared" /\ asked' \in Relations
    BY <1>0, <1>10, <1>21 DEF Asked
  <2> DEFINE q == OrderLen
  <2>2. /\ q - t \in Nat
        /\ Rest = [i \in 1..(q - t) |-> OrderCol(t + i).col]
        /\ \A i \in 1..(q - t) : OrderCol(t + i).desc = FALSE
    BY <1>4, <1>6, <1>21, RestIs
  <2>3. z = t /\ q \in 1..m
    <3>1. OrderLen = IF partial_key \in 1..(m - 1) THEN m - 1 ELSE m
      BY DEF OrderLen
    <3>2. z = t
      BY <1>21
    <3> HIDE DEF z, t, m
    <3> QED  BY <1>11, <3>1, <3>2
  <2>4. extra = [i \in 1..(q - t) |-> OrderCol(t + i)]
    <3>1. extra = [i \in 1..(q - t) |-> [col |-> OrderCol(t + i).col, desc |-> FALSE]]
      <4> HIDE DEF q, t
      <4> QED  BY <1>21, <2>2 DEF extra, t
    <3>2. \A i : OrderCol(t + i) = [col |-> OrderCol(t + i).col, desc |-> OrderCol(t + i).desc]
      BY DEF OrderCol
    <3> HIDE DEF q, t
    <3> QED  BY <2>2, <3>1, <3>2
  <2>5. order' = [i \in 1..t |-> O[i]] \o [i \in 1..(q - t) |-> O[t + i]]
    <3>1. [i \in 1..(q - t) |-> OrderCol(t + i)] = [i \in 1..(q - t) |-> O[t + i]]
      <4> HIDE DEF q, t, m, z
      <4>1. \A i \in 1..(q - t) : t + i \in 1..(m + 1)
        BY <1>11, <2>2, <2>3
      <4> QED  BY <1>15, <4>1
    <3> HIDE DEF q, t, m, z
    <3> QED  BY <1>14, <1>18, <2>3, <2>4, <3>1
  <2>6. order' = [i \in 1..q |-> O[i]]
    <3> HIDE DEF q, t, m, z
    <3>1. t \in Nat /\ q - t \in Nat /\ t + (q - t) = q
      BY <1>11, <2>2, <2>3
    <3>2. [i \in 1..t |-> O[i]] \o [i \in 1..(q - t) |-> O[t + i]] = [i \in 1..(t + (q - t)) |-> O[i]]
      BY <3>1, JoinIs
    <3> QED  BY <2>5, <3>1, <3>2
  <2>7. order' = [i \in 1..q |-> OrderCol(i)]
    <3> HIDE DEF q, t, m, z
    <3>1. \A i \in 1..q : i \in 1..(m + 1)
      BY <1>11, <2>3
    <3> QED  BY <1>15, <2>6, <3>1
  <2>8. where' = [i \in 1..LastComp' |-> Comparison(i, LastComp)']
    BY <1>8, <1>9, <1>19, <2>3
  <2>9. order' = [i \in 1..OrderLen' |-> OrderCol(i)']
    BY <1>8, <1>9, <2>7
  <2>10. DeclaredInv'
    BY <1>10, <2>8, <2>9 DEF DeclaredInv
  <2>11. (WhereInv /\ LookupInv /\ RewriteInv)'
    BY <2>1 DEF WhereInv, LookupInv, RewriteInv, Relations
  <2> QED  BY <1>1, <1>2, <1>3, <2>10, <2>11 DEF IInv
<1> QED  BY <1>20, <1>21

\* IInv is an invariant: the WHERE and the ORDER BY of getwhere at every column it
\* has done, the WHERE of a lookup, and the row of a REWRITE, are as it says, for
\* every layout.
THEOREM Invariant == Spec => []IInv
<1>1. ASSUME IInv, [Next]_vars  PROVE IInv'
  <2>1. CASE table_info
    BY <1>1, <2>1, StepTableInfo
  <2>2. ASSUME NEW k \in DOMAIN keys, NEW r \in Records, NEW o \in {">", ">=", "<", "<=", "="},
               getwhere(k, o, r)
        PROVE  IInv'
    BY <1>1, <2>2, StepGetwhere DEF Relations
  <2>3. ASSUME NEW k \in DOMAIN keys, NEW r \in Records, NEW leading \in BOOLEAN,
               getwhere_prepared(k, r, leading)
        PROVE  IInv'
    BY <1>1, <2>3, StepPrepared
  <2>4. ASSUME NEW old \in SignedRows, NEW r \in SignedRows, op_rewrite(old, r)  PROVE IInv'
    BY <1>1, <2>4, StepRewrite
  <2>8. ASSUME NEW old \in SignedRows, NEW r \in SignedRows, NoColumnToSet(old, r)  PROVE IInv'
    BY <1>1, <2>8, StepNoColumn
  <2>9. CASE escape
    BY <1>1, <2>9, StepEscape
  <2>5. CASE adiciona_comp
    BY <1>1, <2>5, StepComp
  <2>6. CASE Return
    BY <1>1, <2>6, StepReturn
  <2>7. CASE UNCHANGED vars
    <3>1. /\ pc' = pc /\ layout' = layout /\ partial_key' = partial_key /\ weak' = weak
          /\ columns' = columns /\ keys' = keys /\ pk' = pk /\ record' = record /\ keyid' = keyid
          /\ asked' = asked /\ op' = op /\ c' = c /\ where' = where /\ order' = order /\ row' = row
      BY <2>7 DEF vars, openVars, sqlVars
    <3>2. TypeInv' /\ OpenInv'
      BY <1>1, <3>1 DEF IInv, TypeInv, OpenInv
    <3>3. Records' = Records /\ Rows' = Rows /\ RecordLen' = RecordLen
      BY <3>1, RecordsSame
    <3>4. RecordInv'
      BY <1>1, <3>1, <3>3 DEF IInv, RecordInv
    <3>5. KeyCols' = KeyCols /\ LastComp' = LastComp /\ OrderLen' = OrderLen /\ LookupCols' = LookupCols
      BY <3>1 DEF KeyCols, LastComp, OrderLen, LookupCols
    <3>6. /\ \A i, n : Comparison(i, n)' = Comparison(i, n)
          /\ \A i : OrderCol(i)' = OrderCol(i)
          /\ Asked' = Asked
      BY <3>1, <3>5 DEF Comparison, OrderCol, Asked
    <3>7. WhereInv' /\ DeclaredInv' /\ LookupInv'
      BY <1>1, <3>1, <3>5, <3>6 DEF IInv, WhereInv, DeclaredInv, LookupInv
    <3>8. RewriteInv'
      <4>1. Updated(row[1], record)' = Updated(row[1], record)
        BY <3>1, UpdatedSame
      <4>2. SignedRows' = SignedRows
        BY <3>1, SignedRowsSame
      <4> QED  BY <1>1, <3>1, <4>1, <4>2 DEF IInv, RewriteInv, SameKey, Matches
    <3> QED  BY <3>2, <3>4, <3>7, <3>8 DEF IInv
  <2> QED  BY <1>1, <2>1, <2>2, <2>3, <2>4, <2>5, <2>6, <2>7, <2>8, <2>9 DEF Next
<1> QED  BY InitIInv, <1>1, PTL DEF Spec

--------------------------------------------------------------------------------
(* REWRITE                                                                 *)

\* The record is as long as the columns of the table.
LEMMA RecordLenIs ==
    ASSUME NEW n \in Nat \ {0}, Adjacent(columns, n)
    PROVE  RecordLen = End(columns, n) /\ RecordLen \in Nat
<1>1. DOMAIN columns = 1..n /\ Len(columns) = n
  BY DEF Adjacent
<1>2. RecordLen = columns[n].offset + columns[n].len
  BY <1>1 DEF RecordLen, Last
<1>3. End(columns, n) \in Nat
  BY ColumnTypes
<1> QED  BY <1>2, <1>3 DEF End

\* The columns lie in the record.
LEMMA ColumnInside ==
    ASSUME NEW n \in Nat \ {0}, NEW C, Adjacent(C, n), NEW i \in 1..n
    PROVE  End(C, i) <= End(C, n)
<1>1. Ordered(C, n)
  BY ColumnsGrow
<1>2. i < n => End(C, i) <= C[n].offset
  BY <1>1 DEF Ordered
<1>3. n \in 1..n
  OBVIOUS
<1>4. C[n].offset \in Nat /\ End(C, n) \in Nat /\ C[n].offset < End(C, n) /\ End(C, i) \in Nat
  BY <1>3, ColumnTypes
<1>5. i = n \/ i < n
  OBVIOUS
<1> QED  BY <1>2, <1>4, <1>5

\* The bytes of a column.
LEMMA SliceIs ==
    ASSUME NEW n \in Nat \ {0}, NEW C, Adjacent(C, n), NEW i \in 1..n,
           NEW R \in Nat, NEW r \in [1..R -> Nat], End(C, n) <= R
    PROVE  IsPiece(Slice(r, C[i]), r, C[i].offset, C[i].len)
<1>1. C[i].offset \in Nat /\ C[i].len \in Nat /\ End(C, i) \in Nat
  BY ColumnTypes
<1>2. End(C, i) <= End(C, n) /\ End(C, n) \in Nat
  BY ColumnInside, ColumnTypes
<1>3. C[i].offset + C[i].len <= R
  BY <1>1, <1>2 DEF End
<1>4. Slice(r, C[i]) = SubSeq(r, C[i].offset + 1, C[i].offset + C[i].len)
  BY DEF Slice
<1> DEFINE a == C[i].offset
           m == C[i].len
<1> HIDE DEF a, m
<1>5. a \in Nat /\ m \in Nat /\ a + m <= R
  BY <1>1, <1>3 DEF a, m
<1>6. IsPiece(SubSeq(r, a + 1, a + m), r, a, m)
  BY <1>5, SubSeqIs
<1> QED  BY <1>4, <1>6 DEF a, m

\* Every byte of the record belongs to a column.
LEMMA InColumn ==
    ASSUME NEW n \in Nat \ {0}, NEW C, Adjacent(C, n), NEW b \in 1..End(C, n)
    PROVE  \E i \in 1..n : C[i].offset < b /\ b <= End(C, i)
<1>1. \A j \in 1..n : C[j].offset \in Nat /\ End(C, j) \in Nat /\ C[j].offset < End(C, j)
  BY ColumnTypes
<1>2. C[1].offset = 0 /\ \A j \in 2..n : C[j].offset = End(C, j - 1)
  BY DEF Adjacent, End
<1> DEFINE S == {i \in 1..n : b <= End(C, i)}
<1>3. S \subseteq Nat /\ S # {}
  <2>1. n \in 1..n
    OBVIOUS
  <2>2. n \in S
    BY <1>1, <2>1
  <2> QED  BY <2>2
<1>4. PICK i \in S : \A j \in S : i <= j
  BY <1>3, LeastExists
<1>5. CASE i = 1
  BY <1>1, <1>2, <1>4, <1>5
<1>6. CASE i # 1
  <2>1. i \in 2..n /\ i - 1 \in 1..n /\ i - 1 \notin S
    BY <1>4, <1>6
  <2>2. C[i].offset = End(C, i - 1) /\ ~ (b <= End(C, i - 1))
    BY <1>2, <2>1
  <2> QED  BY <1>1, <1>4, <2>1, <2>2
<1> QED  BY <1>5, <1>6

\* The columns f to u, which have the bytes of component p, are K.
IsRun(K, C, p, f, u) == Spans(C, p, f, u) /\ K = [i \in 1..(u - f + 1) |-> f + i - 1]

\* The columns of a key of one component follow one another.
LEMMA OneComponent ==
    ASSUME NEW L \in Layouts, NEW n \in Nat, NEW C, TableShape(L, C, n), NEW k \in DOMAIN L.keys,
           Len(L.keys[k]) = 1
    PROVE  \E f, u \in 1..n : IsRun(getkeys(C, L)[k], C, L.keys[k][1], f, u)
<1>1. DOMAIN L.keys[k] = 1..1
  BY KeyTypes
<1>2. PICK f \in 1..n, u \in 1..n : Spans(C, L.keys[k][1], f, u)
  BY <1>1 DEF TableShape
<1> DEFINE p == L.keys[k][1]
           ks == [q \in DOMAIN L.keys[k] |-> Component(C, L.keys[k][q])]
<1>3. Component(C, p) = [i \in 1..(u - f + 1) |-> f + i - 1]
  <2> HIDE DEF p
  <2>1. Adjacent(C, n)
    BY DEF TableShape
  <2> QED  BY <1>2, <2>1, ComponentIs DEF p
<1>4. getkeys(C, L)[k] = FlattenSeq(ks)
  BY DEF getkeys
<1>5. DOMAIN ks = 1..1 /\ Len(ks) = 1 /\ ks[1] = Component(C, p)
  BY <1>1
<1> HIDE DEF ks, p
<1>6. PICK g : Flat(ks, g, 1) /\ FlattenSeq(ks) = g[1]
  <2>1. 1 \in Nat \ {0}
    OBVIOUS
  <2> QED  BY <1>5, <2>1, FlattenIs
<1>7. FlattenSeq(ks) = ks[1]
  BY <1>6 DEF Flat
<1>8. getkeys(C, L)[k] = [i \in 1..(u - f + 1) |-> f + i - 1]
  BY <1>3, <1>4, <1>5, <1>7
<1> QED  BY <1>2, <1>8 DEF IsRun

\* The first key column of a key of one component starts at its offset, the
\* columns before it are those before the key.
Marks(f, u) ==
    /\ f <= u /\ columns[f].offset = layout.keys[1][1].offset
    /\ End(columns, u) = layout.keys[1][1].offset + layout.keys[1][1].len
    /\ pk = 1..u /\ f..u \subseteq Range(keys[1])

\* What getkeys marks pk for a key of one component.
LEMMA MarksOne ==
    ASSUME TypeInv, OpenInv, pc # "closed", NEW n \in Nat \ {0}, TableShape(layout, columns, n),
           Len(layout.keys[1]) = 1
    PROVE  \E f, u \in 1..n : Marks(f, u)
<1>1. layout \in Layouts /\ 1 \in DOMAIN layout.keys /\ keys = getkeys(columns, layout)
  BY OpenShape DEF TypeInv, OpenInv
<1>2. PICK f \in 1..n, u \in 1..n :
            IsRun(getkeys(columns, layout)[1], columns, layout.keys[1][1], f, u)
  <2>1. n \in Nat
    OBVIOUS
  <2> QED  BY <1>1, <2>1, OneComponent
<1>3. keys[1] = [i \in 1..(u - f + 1) |-> f + i - 1]
  BY <1>1, <1>2 DEF IsRun
<1>4. /\ f <= u /\ columns[f].offset = layout.keys[1][1].offset
      /\ End(columns, u) = layout.keys[1][1].offset + layout.keys[1][1].len
  BY <1>2 DEF IsRun, Spans
<1> DEFINE K == keys[1]
           v == u - f + 1
<1>5. v \in Nat \ {0} /\ v \in 1..v /\ f + v - 1 = u
  BY <1>4
<1>6. Len(K) = v /\ DOMAIN K = 1..v /\ \A i \in 1..v : K[i] = f + i - 1
  BY <1>3, <1>5
<1> HIDE DEF K, v
<1>7. Last(K) = u
  BY <1>5, <1>6 DEF Last
<1>8. pk = 1..u
  BY <1>7 DEF OpenInv, PkOf, K
<1>9. ASSUME NEW i \in f..u  PROVE i \in Range(K)
  <2>1. i - f + 1 \in 1..v /\ f + (i - f + 1) - 1 = i
    BY <1>4 DEF v
  <2>2. K[i - f + 1] = i
    BY <1>6, <2>1
  <2> QED  BY <1>6, <2>1, <2>2 DEF Range
<1> QED  BY <1>4, <1>8, <1>9 DEF Marks, K

\* Two records with the same primary key agree in the bytes of its columns.
LEMMA KeyBytesAgree ==
    ASSUME NEW n \in Nat \ {0}, TableShape(layout, columns, n), KeysShape(keys, n), 1 \in DOMAIN keys,
           NEW old \in SignedRows, NEW r \in SignedRows, SameKey(old, r, 1),
           NEW i \in Range(keys[1]), NEW b \in Nat, b - columns[i].offset \in 1..columns[i].len
    PROVE  old[b] = r[b]
<1>1. Adjacent(columns, n) /\ RecordLen = End(columns, n) /\ RecordLen \in Nat
  BY RecordLenIs DEF TableShape
<1> DEFINE R == RecordLen
<1>2. r \in [1..R -> Nat] /\ old \in [1..R -> Nat]
  <2> DEFINE S == Bytes \cup {x + Sign : x \in Bytes}
  <2>1. S \subseteq Nat
    <3>1. Bytes \subseteq Nat
      BY BytesAssumption
    <3>2. \A x \in Bytes : x + Sign \in Nat
      BY <3>1, SignAssumption
    <3> QED  BY <3>1, <3>2, Zenon
  <2>2. r \in [1..R -> S] /\ old \in [1..R -> S]
    BY DEF SignedRows
  <2> HIDE DEF S, R
  <2> QED  BY <2>1, <2>2
<1>3. keys[1] \in [1..Len(keys[1]) -> 1..n]
  BY DEF KeysShape
<1>4. i \in 1..n
  BY <1>3 DEF Range
<1>5. Slice(old, columns[i]) = Slice(r, columns[i])
  BY DEF SameKey
<1> DEFINE a == columns[i].offset
           m == columns[i].len
           s == Slice(old, columns[i])
           t == Slice(r, columns[i])
<1>6. IsPiece(s, old, a, m) /\ IsPiece(t, r, a, m)
  <2> HIDE DEF R
  <2>1. End(columns, n) <= R
    BY <1>1 DEF R
  <2> QED  BY <1>1, <1>2, <1>4, <2>1, SliceIs DEF R
<1>7. a \in Nat /\ b \in Nat /\ b - a \in 1..m
  BY <1>1, <1>4, ColumnTypes
<1>8. s = t
  BY <1>5
<1> HIDE DEF a, m, s, t
<1>9. s[b - a] = old[a + (b - a)] /\ t[b - a] = r[a + (b - a)]
  BY <1>6, <1>7 DEF IsPiece
<1>10. a + (b - a) = b
  BY <1>7
<1> QED  BY <1>8, <1>9, <1>10

\* The bytes of the columns, as an interval.
LEMMA InInterval ==
    ASSUME NEW n \in Nat \ {0}, Adjacent(columns, n), NEW i \in 1..n, NEW b \in Nat
    PROVE  b - columns[i].offset \in 1..columns[i].len <=> columns[i].offset < b /\ b <= End(columns, i)
<1> DEFINE a == columns[i].offset
           m == columns[i].len
<1>1. a \in Nat /\ m \in Nat /\ End(columns, i) = a + m
  BY ColumnTypes DEF End
<1> HIDE DEF a, m
<1>2. b - a \in 1..m <=> a < b /\ b <= a + m
  BY <1>1
<1> QED  BY <1>1, <1>2 DEF a, m

\* Only a field before a key that reaches to the end of the record can change when
\* every column is marked pk.
LEMMA ExitIsForced ==
    ASSUME IInv, pc = "exited"
    PROVE  /\ \E b \in BeforeKey : row[1][b] # record[b]
           /\ layout.keys[1][1].offset + layout.keys[1][1].len = RecordLen
<1>1. TypeInv /\ OpenInv /\ pc # "closed"
  BY DEF IInv
<1>2. PICK n \in Nat \ {0} : TableShape(layout, columns, n) /\ KeysShape(keys, n)
  BY <1>1, OpenShape
<1>3. Adjacent(columns, n) /\ 1 \in DOMAIN keys
  BY <1>1, <1>2, OpenShape DEF TableShape
<1>4. RecordLen = End(columns, n) /\ RecordLen \in Nat
  BY <1>3, RecordLenIs
<1>5. /\ record \in SignedRows /\ row[1] \in SignedRows /\ SameKey(row[1], record, 1)
      /\ row[1] # record /\ DOMAIN columns \subseteq pk
  BY DEF IInv, RewriteInv
<1> DEFINE old == row[1]
<1>6. PICK b \in 1..RecordLen : old[b] # record[b]
  <2>1. DOMAIN old = 1..RecordLen /\ DOMAIN record = 1..RecordLen
        /\ old = [x \in DOMAIN old |-> old[x]] /\ record = [x \in DOMAIN record |-> record[x]]
    BY <1>5 DEF SignedRows
  <2> QED  BY <1>5, <2>1
<1>7. b \in Nat /\ b >= 1
  BY <1>4
<1>8. PICK i \in 1..n : columns[i].offset < b /\ b <= End(columns, i)
  BY <1>3, <1>4, InColumn
<1>9. b - columns[i].offset \in 1..columns[i].len
  BY <1>3, <1>7, <1>8, InInterval
<1> HIDE DEF old
<1>10. i \notin Range(keys[1])
  <2>1. SUFFICES ASSUME i \in Range(keys[1])  PROVE old[b] = record[b]
    BY <1>6
  <2> QED  BY <1>2, <1>3, <1>5, <1>7, <1>9, <2>1, KeyBytesAgree DEF old
<1>11. DOMAIN columns = 1..n
  BY <1>3 DEF Adjacent
<1>12. Len(layout.keys[1]) = 1
  <2>1. SUFFICES ASSUME Len(layout.keys[1]) # 1  PROVE FALSE
    OBVIOUS
  <2>2. pk = Range(keys[1])
    BY <1>1, <2>1 DEF OpenInv, PkOf
  <2> QED  BY <1>5, <1>8, <1>10, <1>11, <2>2
<1>13. PICK f \in 1..n, u \in 1..n : Marks(f, u)
  BY <1>1, <1>2, <1>12, MarksOne
<1>14. u = n
  <2>1. n \in 1..n /\ 1..n \subseteq 1..u
    BY <1>5, <1>11, <1>13 DEF Marks
  <2> QED  BY <2>1
<1>15. layout.keys[1][1].offset + layout.keys[1][1].len = RecordLen
  BY <1>4, <1>13, <1>14 DEF Marks
<1>16. b \in BeforeKey
  <2>1. BeforeKey = 1..columns[f].offset /\ f..u \subseteq Range(keys[1])
    BY <1>12, <1>13 DEF BeforeKey, Marks
  <2>2. i < f
    BY <1>10, <1>14, <2>1
  <2>3. End(columns, i) <= columns[f].offset /\ columns[f].offset \in Nat /\ End(columns, i) \in Nat
    BY <1>3, <2>2, ColumnsGrow, ColumnTypes DEF Ordered
  <2> QED  BY <1>7, <1>8, <2>1, <2>3
<1> QED  BY <1>6, <1>15, <1>16 DEF old

\* RewriteWhole follows from the invariant.
LEMMA RewriteIsWhole == IInv => RewriteWhole
<1> SUFFICES ASSUME IInv, pc = "updated", \A i \in Range(keys[1]) : ~ columns[i].dec,
                    NEW b \in 1..RecordLen, b \notin Overlaid(record) \cup Unsigned(record)
             PROVE  row[2][b] = IF b \in BeforeKey THEN row[1][b] ELSE record[b]
  BY ExitIsForced DEF RewriteWhole
<1>1. TypeInv /\ OpenInv /\ pc # "closed"
  BY DEF IInv
<1>2. PICK n \in Nat \ {0} : TableShape(layout, columns, n) /\ KeysShape(keys, n)
  BY <1>1, OpenShape
<1>3. Adjacent(columns, n) /\ 1 \in DOMAIN keys
  BY <1>1, <1>2, OpenShape DEF TableShape
<1>4. RecordLen = End(columns, n) /\ RecordLen \in Nat
  BY <1>3, RecordLenIs
<1>5. /\ record \in SignedRows /\ row[1] \in SignedRows /\ SameKey(row[1], record, 1)
      /\ row[2] = IF row[1] # record /\ Matches(record) THEN Updated(row[1], record) ELSE row[1]
  BY DEF IInv, RewriteInv
<1>6. Matches(record)
  BY DEF Matches
<1> DEFINE old == row[1]
<1>7. row[2][b] = IF Marked(b) THEN old[b] ELSE record[b]
  <2>1. CASE old = record
    BY <1>5, <2>1
  <2>2. CASE old # record
    BY <1>5, <1>6, <2>2 DEF Updated, Converted
  <2> QED  BY <2>1, <2>2
<1> DEFINE In(i) == b - columns[i].offset \in 1..columns[i].len
<1>9. \A i \in 1..n : columns[i].offset \in Nat /\ columns[i].len \in Nat /\ End(columns, i) \in Nat
  BY <1>3, ColumnTypes
<1>10. \A i \in 1..n : In(i) <=> columns[i].offset < b /\ b <= End(columns, i)
  BY <1>3, <1>4, InInterval
<1>11. Range(keys[1]) \subseteq 1..n
  <2>1. 1 \in DOMAIN keys
    BY <1>1, OpenShape
  <2>2. keys[1] \in [1..Len(keys[1]) -> 1..n]
    BY <1>2, <2>1 DEF KeysShape
  <2> QED  BY <2>2 DEF Range
<1>12. \A i \in Range(keys[1]) : In(i) => old[b] = record[b]
  BY <1>2, <1>3, <1>4, <1>5, KeyBytesAgree
<1> HIDE DEF In
<1>13. row[2][b] = IF \E i \in pk : In(i) THEN old[b] ELSE record[b]
  BY <1>7 DEF In, Marked
<1>14. CASE Len(layout.keys[1]) = 1
  <2>1. PICK f \in 1..n, u \in 1..n : Marks(f, u)
    BY <1>1, <1>2, <1>14, MarksOne
  <2>2. BeforeKey = 1..columns[f].offset /\ pk = 1..u /\ f <= u /\ f..u \subseteq Range(keys[1])
    BY <1>14, <2>1 DEF BeforeKey, Marks
  <2>3. Ordered(columns, n)
    BY <1>3, ColumnsGrow
  <2>4. b \in Nat /\ b >= 1 /\ columns[f].offset \in Nat
    BY <1>4, <1>9
  <2>5. CASE b \in BeforeKey
    <3>1. b <= columns[f].offset
      BY <2>2, <2>4, <2>5
    <3>2. PICK i \in 1..n : columns[i].offset < b /\ b <= End(columns, i)
      BY <1>3, <1>4, InColumn
    <3>3. i < f
      <4>1. f < i => End(columns, f) <= columns[i].offset
        BY <2>3 DEF Ordered
      <4>2. columns[f].offset < End(columns, f) /\ End(columns, f) \in Nat /\ columns[i].offset \in Nat
        BY <1>3, ColumnTypes
      <4>3. i # f
        BY <2>4, <3>1, <3>2
      <4> QED  BY <2>4, <3>1, <3>2, <4>1, <4>2, <4>3
    <3>4. i \in pk /\ In(i)
      BY <1>10, <2>2, <3>2, <3>3
    <3> QED  BY <1>13, <2>5, <3>4
  <2>6. CASE b \notin BeforeKey
    <3>1. columns[f].offset < b
      BY <2>2, <2>4, <2>6
    <3>2. ASSUME NEW i \in pk, In(i)  PROVE old[b] = record[b]
      <4>1. i \in 1..n /\ i <= u
        BY <2>2
      <4>2. b <= End(columns, i) /\ End(columns, i) \in Nat
        BY <1>9, <1>10, <3>2, <4>1
      <4>3. i < f => End(columns, i) <= columns[f].offset
        BY <2>3, <4>1 DEF Ordered
      <4>4. ~ (i < f)
        BY <2>4, <3>1, <4>2, <4>3
      <4>5. i \in Range(keys[1])
        BY <2>2, <4>1, <4>4
      <4> QED  BY <1>12, <3>2, <4>5
    <3> QED  BY <1>13, <2>6, <3>2
  <2> QED  BY <2>5, <2>6
<1>15. CASE Len(layout.keys[1]) # 1
  <2>1. pk = Range(keys[1]) /\ BeforeKey = {}
    BY <1>1, <1>15 DEF OpenInv, PkOf, BeforeKey
  <2> QED  BY <1>12, <1>13, <2>1
<1> QED  BY <1>14, <1>15

\* After a REWRITE the row is the record area, except the fields before a primary
\* key of one component and the first digit of negative numbers, whatever the
\* layout; the process exits only where all of the columns are marked pk although a
\* field before the key changed.
THEOREM RewriteWholeAlways == Spec => []RewriteWhole
BY Invariant, RewriteIsWhole, PTL

--------------------------------------------------------------------------------
(* What a WHERE selects                                                    *)

\* v comes first, in the direction of relation o.
Dir(o, v, w) == IF o \in {"<", "<="} THEN Less(v, w) ELSE Less(w, v)

\* The relations that include equality.
Refl(o) == o \in {"<=", ">=", "="}

\* The columns i to j of two records agree.
Same(v, w, i, j) == \A k \in i..j : v[k] = w[k]

\* The first of the columns i to t in which they differ is in relation o.
First(o, v, w, i, t) == \E j \in i..t : Dir(o, v[j], w[j]) /\ Same(v, w, i, j - 1)

\* What the WHERE says about the columns i to t.
Meaning(o, v, w, i, t) ==
    IF o = "=" THEN Same(v, w, i, t) ELSE First(o, v, w, i, t) \/ (Refl(o) /\ Same(v, w, i, t))

\* A comparison of values of one column: strict, or equal.
LEMMA RelIs ==
    ASSUME NEW m \in Nat, NEW v \in [1..m -> Nat], NEW w \in [1..m -> Nat], NEW o \in Relations
    PROVE  /\ Rel(v, o, w, Less) <=> IF o = "=" THEN v = w ELSE Dir(o, v, w) \/ (Refl(o) /\ v = w)
           /\ Rel(v, Strict(o), w, Less) <=> IF o = "=" THEN v = w ELSE Dir(o, v, w)
<1>1. v = w \/ Less(v, w) \/ Less(w, v)
  BY LessTotal
<1>2. Less(v, w) => v # w /\ ~ Less(w, v)
  BY LessStrict
<1>3. Less(w, v) => v # w /\ ~ Less(v, w)
  BY LessStrict
<1>4. o = ">" \/ o = ">=" \/ o = "<" \/ o = "<=" \/ o = "="
  BY DEF Relations
<1>5. CASE o = ">"
  BY <1>5 DEF Rel, Strict, Dir, Refl
<1>6. CASE o = ">="
  BY <1>1, <1>2, <1>3, <1>6 DEF Rel, Strict, Dir, Refl
<1>7. CASE o = "<"
  BY <1>7 DEF Rel, Strict, Dir, Refl
<1>8. CASE o = "<="
  BY <1>1, <1>2, <1>3, <1>8 DEF Rel, Strict, Dir, Refl
<1>9. CASE o = "="
  BY <1>9 DEF Rel, Strict
<1> QED  BY <1>4, <1>5, <1>6, <1>7, <1>8, <1>9

\* The last column.
LEMMA MeaningLast ==
    ASSUME NEW t \in Nat, NEW v, NEW w, NEW o
    PROVE  Meaning(o, v, w, t, t) <=>
             IF o = "=" THEN v[t] = w[t] ELSE Dir(o, v[t], w[t]) \/ (Refl(o) /\ v[t] = w[t])
<1>1. Same(v, w, t, t) <=> v[t] = w[t]
  BY DEF Same
<1>2. Same(v, w, t, t - 1)
  BY DEF Same
<1>3. First(o, v, w, t, t) <=> Dir(o, v[t], w[t])
  <2>1. t..t = {t}
    OBVIOUS
  <2> QED  BY <1>2, <2>1 DEF First
<1> QED  BY <1>1, <1>3 DEF Meaning

\* A column before the last.
LEMMA MeaningStep ==
    ASSUME NEW t \in Nat, NEW i \in Nat, i < t, NEW v, NEW w, NEW o
    PROVE  Meaning(o, v, w, i, t) <=>
             IF o = "=" THEN v[i] = w[i] /\ Meaning(o, v, w, i + 1, t)
             ELSE Dir(o, v[i], w[i]) \/ (v[i] = w[i] /\ Meaning(o, v, w, i + 1, t))
<1>1. \A j \in i..t : j # i => (Same(v, w, i, j - 1) <=> v[i] = w[i] /\ Same(v, w, i + 1, j - 1))
  <2> SUFFICES ASSUME NEW j \in i..t, j # i
               PROVE  Same(v, w, i, j - 1) <=> v[i] = w[i] /\ Same(v, w, i + 1, j - 1)
    OBVIOUS
  <2>1. \A k \in i..(j - 1) : k = i \/ k \in (i + 1)..(j - 1)
    OBVIOUS
  <2>2. i \in i..(j - 1) /\ \A k \in (i + 1)..(j - 1) : k \in i..(j - 1)
    OBVIOUS
  <2> QED  BY <2>1, <2>2 DEF Same
<1>2. Same(v, w, i, t) <=> v[i] = w[i] /\ Same(v, w, i + 1, t)
  <2>1. \A k \in i..t : k = i \/ k \in (i + 1)..t
    OBVIOUS
  <2>2. i \in i..t /\ \A k \in (i + 1)..t : k \in i..t
    OBVIOUS
  <2> QED  BY <2>1, <2>2 DEF Same
<1>3. Same(v, w, i, i - 1)
  BY DEF Same
<1>4. First(o, v, w, i, t) <=> Dir(o, v[i], w[i]) \/ (v[i] = w[i] /\ First(o, v, w, i + 1, t))
  <2>1. \A k \in i..t : k = i \/ k \in (i + 1)..t
    OBVIOUS
  <2>2. i \in i..t /\ \A k \in (i + 1)..t : k \in i..t /\ k # i
    OBVIOUS
  <2>3. ASSUME First(o, v, w, i, t)
        PROVE  Dir(o, v[i], w[i]) \/ (v[i] = w[i] /\ First(o, v, w, i + 1, t))
    <3>1. PICK j \in i..t : Dir(o, v[j], w[j]) /\ Same(v, w, i, j - 1)
      BY <2>3 DEF First
    <3>2. CASE j = i
      BY <3>1, <3>2
    <3>3. CASE j # i
      BY <1>1, <2>1, <3>1, <3>3 DEF First
    <3> QED  BY <3>2, <3>3
  <2>4. ASSUME Dir(o, v[i], w[i])  PROVE First(o, v, w, i, t)
    BY <1>3, <2>2, <2>4 DEF First
  <2>5. ASSUME v[i] = w[i], First(o, v, w, i + 1, t)  PROVE First(o, v, w, i, t)
    <3>1. PICK j \in (i + 1)..t : Dir(o, v[j], w[j]) /\ Same(v, w, i + 1, j - 1)
      BY <2>5 DEF First
    <3> QED  BY <1>1, <2>2, <2>5, <3>1 DEF First
  <2> QED  BY <2>3, <2>4, <2>5
<1> QED  BY <1>2, <1>4 DEF Meaning

\* The i-th column of the key in record r, and its value in the SQL text.
Col(r, i) == Slice(r, columns[KeyCols[i]])
Arg(i) == Value(record, columns[KeyCols[i]])

\* The defining equation of sat in Sat.
SatFun(r, s) == s = [i \in DOMAIN where |-> Holds(r, where[i], s[i + 1])]

\* The i-th term of the WHERE, whose last is the t-th.
Term(r, i, t, next) ==
    IF i = t THEN Rel(Col(r, i), op, Arg(i), Less)
    ELSE IF op = "=" THEN Rel(Col(r, i), Strict(op), Arg(i), Less) /\ next
    ELSE Rel(Col(r, i), Strict(op), Arg(i), Less) \/ (Col(r, i) = Arg(i) /\ next)

\* sat, term by term.
LEMMA SatTerms ==
    ASSUME NEW t \in Nat \ {0}, where = [i \in 1..t |-> Comparison(i, t)], NEW r, NEW s
    PROVE  SatFun(r, s) <=> s = [i \in 1..t |-> Term(r, i, t, s[i + 1])]
<1>1. DOMAIN where = 1..t
  OBVIOUS
<1>2. ASSUME NEW i \in 1..t
      PROVE  /\ where[i].col = KeyCols[i]
             /\ where[i].op = IF i = t THEN op ELSE Strict(op)
             /\ where[i].how = IF i = t THEN "last" ELSE IF op = "=" THEN "and" ELSE "or"
  <2>1. where[i] = Comparison(i, t)
    OBVIOUS
  <2> QED  BY <2>1 DEF Comparison
<1> DEFINE F(i) == Holds(r, where[i], s[i + 1])
<1>3. ASSUME NEW i \in 1..t  PROVE F(i) = Term(r, i, t, s[i + 1])
  <2> DEFINE h == where[i].how
             p == where[i].op
             v == Slice(r, columns[where[i].col])
             w == Value(record, columns[where[i].col])
  <2>1. F(i) = CASE h = "last" -> Rel(v, p, w, Less)
                 [] h = "and"  -> Rel(v, p, w, Less) /\ s[i + 1]
                 [] h = "or"   -> Rel(v, p, w, Less) \/ (v = w /\ s[i + 1])
    BY DEF Holds
  <2>2. v = Col(r, i) /\ w = Arg(i)
    BY <1>2 DEF Col, Arg
  <2>3. /\ p = IF i = t THEN op ELSE Strict(op)
        /\ h = IF i = t THEN "last" ELSE IF op = "=" THEN "and" ELSE "or"
    BY <1>2
  <2> HIDE DEF F, h, p, v, w
  <2>4. CASE i = t
    <3>1. h = "last" /\ p = op
      BY <2>3, <2>4
    <3>2. F(i) = Rel(v, p, w, Less)
      BY <2>1, <3>1
    <3> QED  BY <2>2, <2>4, <3>1, <3>2 DEF Term
  <2>5. CASE i # t /\ op = "="
    <3>1. h = "and" /\ p = Strict(op)
      BY <2>3, <2>5
    <3>2. F(i) = (Rel(v, p, w, Less) /\ s[i + 1])
      BY <2>1, <3>1
    <3> QED  BY <2>2, <2>5, <3>1, <3>2 DEF Term
  <2>6. CASE i # t /\ op # "="
    <3>1. h = "or" /\ p = Strict(op)
      BY <2>3, <2>6
    <3>2. F(i) = (Rel(v, p, w, Less) \/ (v = w /\ s[i + 1]))
      BY <2>1, <3>1
    <3> QED  BY <2>2, <2>6, <3>1, <3>2 DEF Term
  <2> QED  BY <2>4, <2>5, <2>6
<1>4. SatFun(r, s) <=> s = [i \in 1..t |-> F(i)]
  BY <1>1 DEF SatFun
<1> HIDE DEF F
<1>5. [i \in 1..t |-> F(i)] = [i \in 1..t |-> Term(r, i, t, s[i + 1])]
  BY <1>3
<1> QED  BY <1>4, <1>5

\* The columns of a record and those of the SQL text, as strings of the same length.
Comparable(r, t) == \A i \in 1..t : \E m \in Nat : Col(r, i) \in [1..m -> Nat] /\ Arg(i) \in [1..m -> Nat]

\* The WHERE means what it should: by induction from the last term to the first.
LEMMA SatIs ==
    ASSUME NEW t \in Nat \ {0}, where = [i \in 1..t |-> Comparison(i, t)], op \in Relations,
           NEW r, Comparable(r, t)
    PROVE  Sat(r) <=> Meaning(op, [i \in 1..t |-> Col(r, i)], [i \in 1..t |-> Arg(i)], 1, t)
<1> DEFINE v == [i \in 1..t |-> Col(r, i)]
           w == [i \in 1..t |-> Arg(i)]
           M(i) == Meaning(op, v, w, i, t)
<1>1. \A i \in 1..t : v[i] = Col(r, i) /\ w[i] = Arg(i)
  OBVIOUS
<1>2. \A i \in 1..t :
          /\ Rel(v[i], op, w[i], Less) <=>
               IF op = "=" THEN v[i] = w[i] ELSE Dir(op, v[i], w[i]) \/ (Refl(op) /\ v[i] = w[i])
          /\ Rel(v[i], Strict(op), w[i], Less) <=>
               IF op = "=" THEN v[i] = w[i] ELSE Dir(op, v[i], w[i])
  <2> SUFFICES ASSUME NEW i \in 1..t
               PROVE  /\ Rel(v[i], op, w[i], Less) <=>
                           IF op = "=" THEN v[i] = w[i]
                           ELSE Dir(op, v[i], w[i]) \/ (Refl(op) /\ v[i] = w[i])
                      /\ Rel(v[i], Strict(op), w[i], Less) <=>
                           IF op = "=" THEN v[i] = w[i] ELSE Dir(op, v[i], w[i])
    OBVIOUS
  <2>1. PICK m \in Nat : v[i] \in [1..m -> Nat] /\ w[i] \in [1..m -> Nat]
    BY <1>1 DEF Comparable
  <2> HIDE DEF v, w
  <2> DEFINE a == v[i]
             b == w[i]
  <2> HIDE DEF a, b
  <2>2. a \in [1..m -> Nat] /\ b \in [1..m -> Nat]
    BY <2>1 DEF a, b
  <2>3. /\ Rel(a, op, b, Less) <=> IF op = "=" THEN a = b ELSE Dir(op, a, b) \/ (Refl(op) /\ a = b)
        /\ Rel(a, Strict(op), b, Less) <=> IF op = "=" THEN a = b ELSE Dir(op, a, b)
    BY <2>2, RelIs
  <2> QED  BY <2>3 DEF a, b
<1>3. ASSUME NEW i \in 1..t, NEW next, i # t => (next <=> M(i + 1))
      PROVE  Term(r, i, t, next) <=> M(i)
  <2>1. CASE i = t
    <3>1. M(t) <=> IF op = "=" THEN v[t] = w[t] ELSE Dir(op, v[t], w[t]) \/ (Refl(op) /\ v[t] = w[t])
      <4> HIDE DEF v, w
      <4> QED  BY MeaningLast
    <3>2. Term(r, i, t, next) <=> Rel(v[t], op, w[t], Less)
      BY <1>1, <2>1 DEF Term
    <3> HIDE DEF v, w, M
    <3> QED  BY <1>2, <2>1, <3>1, <3>2
  <2>2. CASE i # t
    <3>1. M(i) <=> IF op = "=" THEN v[i] = w[i] /\ M(i + 1)
                   ELSE Dir(op, v[i], w[i]) \/ (v[i] = w[i] /\ M(i + 1))
      <4> HIDE DEF v, w
      <4>1. i \in Nat /\ t \in Nat /\ i < t
        BY <2>2
      <4> QED  BY <4>1, MeaningStep
    <3>2. Term(r, i, t, next) <=>
             IF op = "=" THEN Rel(v[i], Strict(op), w[i], Less) /\ next
             ELSE Rel(v[i], Strict(op), w[i], Less) \/ (v[i] = w[i] /\ next)
      BY <1>1, <2>2 DEF Term
    <3> HIDE DEF v, w, M
    <3> QED  BY <1>2, <1>3, <2>2, <3>1, <3>2
  <2> QED  BY <2>1, <2>2
<1> DEFINE g == [i \in 1..t |-> M(i)]
<1>4. \A i \in 1..t : i # t => i + 1 \in 1..t
  OBVIOUS
<1> HIDE DEF M, v, w
<1>5. \A i \in 1..t : g[i] <=> M(i)
  OBVIOUS
<1>6. \A i, next : Term(r, i, t, next) \in BOOLEAN
  <2>1. \A a, b : Rel(a, op, b, Less) \in BOOLEAN
    <3>1. op = ">" \/ op = ">=" \/ op = "<" \/ op = "<=" \/ op = "="
      BY DEF Relations
    <3> SUFFICES ASSUME NEW a, NEW b  PROVE Rel(a, op, b, Less) \in BOOLEAN
      OBVIOUS
    <3>2. CASE op = ">"
      BY <3>2 DEF Rel, Less
    <3>3. CASE op = ">="
      BY <3>3 DEF Rel, Less
    <3>4. CASE op = "<"
      BY <3>4 DEF Rel, Less
    <3>5. CASE op = "<="
      BY <3>5 DEF Rel, Less
    <3>6. CASE op = "="
      BY <3>6 DEF Rel, Less
    <3> QED  BY <3>1, <3>2, <3>3, <3>4, <3>5, <3>6
  <2> QED  BY <2>1 DEF Term
<1>7. g = [i \in 1..t |-> Term(r, i, t, g[i + 1])]
  <2>1. ASSUME NEW i \in 1..t  PROVE Term(r, i, t, g[i + 1]) <=> M(i)
    BY <1>3, <1>4, <1>5
  <2>2. \A i \in 1..t : M(i) \in BOOLEAN
    BY DEF M, Meaning, Same
  <2>3. \A i \in 1..t : M(i) = Term(r, i, t, g[i + 1])
    BY <1>6, <2>1, <2>2
  <2> QED  BY <2>3
<1>8. SatFun(r, g)
  BY <1>7, SatTerms
<1> DEFINE s == CHOOSE s : SatFun(r, s)
<1>9. SatFun(r, s)
  BY <1>8
<1>10. Sat(r) = s[1]
  BY DEF Sat, SatFun
<1> HIDE DEF s, g
<1>11. s = [i \in 1..t |-> Term(r, i, t, s[i + 1])]
  BY <1>9, SatTerms
<1> DEFINE Bad == {k \in 0..(t - 1) : ~ (s[t - k] <=> M(t - k))}
<1>12. Bad = {}
  <2>1. SUFFICES ASSUME Bad # {}  PROVE FALSE
    OBVIOUS
  <2>2. Bad \subseteq Nat
    OBVIOUS
  <2>3. PICK k \in Bad : \A j \in Bad : k <= j
    BY <2>1, <2>2, LeastExists
  <2> DEFINE i == t - k
  <2>4. i \in 1..t /\ k \in 0..(t - 1) /\ ~ (s[i] <=> M(i))
    BY <2>3
  <2>5. i # t => (s[i + 1] <=> M(i + 1))
    <3>1. SUFFICES ASSUME i # t  PROVE s[i + 1] <=> M(i + 1)
      OBVIOUS
    <3>2. k - 1 \in 0..(t - 1) /\ t - (k - 1) = i + 1 /\ ~ (k <= k - 1)
      BY <2>4, <3>1
    <3>3. k - 1 \notin Bad
      BY <2>3, <3>2
    <3> QED  BY <3>2, <3>3
  <2> HIDE DEF i
  <2>6. s[i] <=> Term(r, i, t, s[i + 1])
    BY <1>6, <1>11, <2>4
  <2>7. Term(r, i, t, s[i + 1]) <=> M(i)
    BY <1>3, <2>4, <2>5
  <2> QED  BY <2>4, <2>6, <2>7
<1>13. s[1] <=> M(1)
  <2>1. t - 1 \in 0..(t - 1) /\ t - (t - 1) = 1
    OBVIOUS
  <2> QED  BY <1>12, <2>1
<1>14. Sat(r) <=> M(1)
  BY <1>10, <1>13
<1> QED  BY <1>14 DEF M, v, w

--------------------------------------------------------------------------------
(* The key of a START as the columns of a record                           *)

\* The lengths of the columns of the key, and where they end in its bytes.
KeyLens == [i \in 1..Len(KeyCols) |-> columns[KeyCols[i]].len]
KeyEnds == [i \in 0..Len(KeyCols) |-> KeyLen(i)]

KeyCut ==
    /\ Len(KeyCols) \in Nat \ {0} /\ KeyLens \in [1..Len(KeyCols) -> Nat \ {0}]
    /\ Ends(KeyEnds, KeyLens, Len(KeyCols))

\* The columns cut the bytes of the key into pieces that are not empty.
LEMMA KeyShape ==
    ASSUME TypeInv, OpenInv, pc # "closed", keyid \in DOMAIN keys
    PROVE  KeyCut
<1>1. PICK n \in Nat \ {0} : TableShape(layout, columns, n) /\ KeysShape(keys, n)
  BY OpenShape
<1> DEFINE l == Len(KeyCols)
<1>2. l \in Nat \ {0} /\ KeyCols \in [1..l -> 1..n]
  BY <1>1 DEF KeysShape, KeyCols
<1>3. \A i \in 1..n : columns[i].len \in Nat /\ columns[i].len > 0
  BY <1>1, ColumnTypes DEF TableShape
<1>4. KeyLens \in [1..l -> Nat \ {0}]
  <2>1. \A i \in 1..l : columns[KeyCols[i]].len \in Nat \ {0}
    BY <1>2, <1>3
  <2> HIDE DEF l
  <2> QED  BY <2>1 DEF KeyLens, l
<1>5. \A i : KeyLen(i) = Width(KeyLens, i)
  BY <1>2 DEF KeyLen, KeyLens, KeyCols
<1>6. KeyEnds = [i \in 0..l |-> Width(KeyLens, i)]
  BY <1>5 DEF KeyEnds
<1> DEFINE d == KeyLens
<1> HIDE DEF l, d
<1>7. l \in Nat /\ d \in [1..l -> Nat]
  BY <1>2, <1>4 DEF d
<1>8. Ends([i \in 0..l |-> Width(d, i)], d, l)
  BY <1>7, WidthEnds
<1> QED  BY <1>2, <1>4, <1>6, <1>8 DEF KeyCut, l, d

\* The bytes of the key are those of its columns, one after the other.
Viewed(r) ==
    /\ KeyBytes(r) \in [1..KeyEnds[Len(KeyCols)] -> Nat]
    /\ \A i \in 1..Len(KeyCols) : /\ Col(r, i) \in [1..KeyLens[i] -> Nat]
                                  /\ Piece(KeyBytes(r), KeyEnds, KeyLens, i) = Col(r, i)

\* The key as COBOL has it and the columns of SQL are the same bytes.
LEMMA KeyView ==
    ASSUME TypeInv, OpenInv, pc # "closed", keyid \in DOMAIN keys, NEW r \in [1..RecordLen -> Nat]
    PROVE  Viewed(r)
<1>1. PICK n \in Nat \ {0} : TableShape(layout, columns, n) /\ KeysShape(keys, n)
  BY OpenShape
<1>2. layout \in Layouts /\ keyid \in DOMAIN layout.keys /\ keys = getkeys(columns, layout)
  BY OpenShape DEF TypeInv, OpenInv
<1>3. Adjacent(columns, n)
  BY <1>1 DEF TableShape
<1>4. RecordLen \in Nat /\ End(columns, n) <= RecordLen
  BY <1>3, RecordLenIs
<1> DEFINE K == KeyCols
           l == Len(K)
           B == KeyBytes(r)
           o == Offsets(columns, n)
           d == Lengths(columns, n)
           x == KeyLens
           e == KeyEnds
           R == RecordLen
<1>5. B = BytesOf(layout, keyid, r) /\ K = getkeys(columns, layout)[keyid]
  BY <1>2 DEF KeyBytes, BytesOf, KeyCols
<1>6. Tiles(K, B, o, d, n, r)
  <2> HIDE DEF K, B, o, d, R
  <2>1. n \in Nat /\ R \in Nat /\ r \in [1..R -> Nat] /\ End(columns, n) <= R
    BY <1>4 DEF R
  <2>2. Tiles(getkeys(columns, layout)[keyid], BytesOf(layout, keyid, r), Offsets(columns, n),
              Lengths(columns, n), n, r)
    BY <1>1, <1>2, <2>1, KeyTiles
  <2> QED  BY <1>5, <2>2 DEF o, d
<1>7. KeyCut
  BY KeyShape
<1>8. l \in Nat \ {0} /\ x \in [1..l -> Nat \ {0}] /\ Ends(e, x, l)
  BY <1>7 DEF KeyCut
<1>9. PICK m \in Nat \ {0} : K \in [1..m -> 1..n] /\ \E f : Tiled(K, B, o, d, r, m, f)
  BY <1>6 DEF Tiles
<1>10. PICK f : Tiled(K, B, o, d, r, m, f)
  BY <1>9
<1>11. l = m
  BY <1>9
<1>12. \A i \in 1..l : K[i] \in 1..n /\ d[K[i]] = x[i] /\ o[K[i]] = columns[K[i]].offset
  BY <1>9, <1>11 DEF Offsets, Lengths, KeyLens
<1>13. x = [i \in 1..l |-> columns[K[i]].len]
  BY DEF KeyLens
<1> HIDE DEF K, l, B, o, d, x, e
<1>14. [i \in 1..m |-> d[K[i]]] = x
  BY <1>8, <1>11, <1>12
<1>15. Ends(f, x, l)
  BY <1>10, <1>11, <1>14 DEF Tiled
<1>16. f = e
  <2>1. l \in Nat
    BY <1>8
  <2> QED  BY <1>8, <1>15, <2>1, EndsUnique
<1>17. B \in [1..e[l] -> Nat]
  BY <1>10, <1>11, <1>16 DEF Tiled
<1>18. ASSUME NEW i \in 1..l
       PROVE  Col(r, i) \in [1..x[i] -> Nat] /\ Piece(B, e, x, i) = Col(r, i)
  <2> DEFINE q == K[i]
             a == columns[q].offset
             z == columns[q].len
             s == Slice(r, columns[q])
  <2>1. q \in 1..n /\ x[i] = z /\ Col(r, i) = s
    BY <1>12, <1>13 DEF Col, K
  <2>2. IsPiece(s, r, a, z)
    <3> HIDE DEF q
    <3>1. r \in [1..R -> Nat] /\ R \in Nat /\ End(columns, n) <= R
      BY <1>4
    <3> HIDE DEF R
    <3> QED  BY <1>3, <2>1, <3>1, SliceIs
  <2>3. \A j \in 1..x[i] : B[e[i - 1] + j] = r[a + j]
    <3>1. i \in 1..m /\ d[K[i]] = x[i] /\ o[K[i]] = a
      BY <1>11, <1>12
    <3> HIDE DEF a, q
    <3> QED  BY <1>10, <1>16, <3>1 DEF Tiled
  <2> HIDE DEF a, z, s, q
  <2>4. s \in [1..z -> Nat] /\ \A j \in 1..z : s[j] = r[a + j]
    BY <2>2 DEF IsPiece
  <2>5. s = [j \in 1..z |-> B[e[i - 1] + j]]
    BY <2>1, <2>3, <2>4
  <2> QED  BY <2>1, <2>4, <2>5 DEF Piece
<1> QED  BY <1>17, <1>18 DEF Viewed, B, x, e, l, K

\* The bytes of the record area, and of the same with the lowest values.
LEMMA RecordTypes ==
    ASSUME record \in Records
    PROVE  record \in [1..RecordLen -> Nat] /\ Lowest \in [1..RecordLen -> Nat]
<1>1. record \in [1..RecordLen -> Nat]
  <2>1. record \in [1..RecordLen -> Bytes \cup {0, Quote}]
    BY DEF Records
  <2>2. Bytes \cup {0, Quote} \subseteq Nat
    BY BytesAssumption, QuoteAssumption
  <2> QED  BY <2>1, <2>2
<1> QED  BY <1>1 DEF Lowest

\* A field of the record area has the lowest value in the SQL text when it is
\* low-values: Value of the field is the field of Lowest.
LEMMA ArgIs ==
    ASSUME TypeInv, OpenInv, pc # "closed", keyid \in DOMAIN keys, record \in Records,
           NEW i \in 1..Len(KeyCols)
    PROVE  Arg(i) = Col(Lowest, i)
<1>1. PICK n \in Nat \ {0} : TableShape(layout, columns, n) /\ KeysShape(keys, n)
  BY OpenShape
<1>2. Adjacent(columns, n)
  BY <1>1 DEF TableShape
<1>3. RecordLen \in Nat /\ End(columns, n) <= RecordLen
  BY <1>2, RecordLenIs
<1> DEFINE q == KeyCols[i]
           a == columns[q].offset
           z == columns[q].len
           f == Slice(record, columns[q])
           g == Slice(Lowest, columns[q])
           R == RecordLen
           low == Lowest
<1>4. q \in 1..n
  BY <1>1 DEF KeysShape, KeyCols
<1>5. DOMAIN columns = 1..n
  BY <1>2 DEF Adjacent
<1>6. a \in Nat /\ z \in Nat /\ z > 0 /\ End(columns, q) = a + z /\ End(columns, q) <= End(columns, n)
      /\ End(columns, n) \in Nat
  <2> HIDE DEF q
  <2> QED  BY <1>2, <1>4, ColumnTypes, ColumnInside DEF End
<1>7. record \in [1..R -> Nat] /\ low \in [1..R -> Nat]
  BY RecordTypes
<1>8. IsPiece(f, record, a, z) /\ IsPiece(g, low, a, z)
  <2>1. R \in Nat /\ End(columns, n) <= R
    BY <1>3
  <2> HIDE DEF R, low, q
  <2> QED  BY <1>2, <1>4, <1>7, <2>1, SliceIs DEF low
<1>9. f \in [1..z -> Bytes] \/ f = [j \in 1..z |-> 0] \/ f = [j \in 1..z |-> Quote]
  BY <1>4, <1>5 DEF Records, Fields
<1>10. Arg(i) = IF f[1] = 0 THEN [j \in 1..z |-> 1] ELSE f
  BY DEF Arg, Value
<1>11. \A j \in 1..R : low[j] = IF record[j] = 0 THEN 1 ELSE record[j]
  BY <1>7 DEF Lowest
<1>12. Col(low, i) = g
  BY DEF Col
<1>13. a + z <= R /\ R \in Nat
  <2> HIDE DEF a, z
  <2> QED  BY <1>3, <1>6
<1> HIDE DEF q, a, z, f, g, R, low
<1>14. \A j \in 1..z : a + j \in 1..R
  BY <1>6, <1>13
<1>15. f \in [1..z -> Nat] /\ \A j \in 1..z : f[j] = record[a + j]
  BY <1>8 DEF IsPiece
<1>16. g \in [1..z -> Nat] /\ \A j \in 1..z : g[j] = low[a + j]
  BY <1>8 DEF IsPiece
<1>17. \A j \in 1..z : g[j] = IF f[j] = 0 THEN 1 ELSE f[j]
  BY <1>11, <1>14, <1>15, <1>16
<1>18. 1 \in 1..z
  BY <1>6
<1>19. CASE f[1] = 0
  <2>1. f \notin [1..z -> Bytes] /\ f # [j \in 1..z |-> Quote]
    BY <1>18, <1>19, BytesAssumption, QuoteAssumption
  <2>2. f = [j \in 1..z |-> 0]
    BY <1>9, <2>1
  <2>3. \A j \in 1..z : g[j] = 1
    BY <1>17, <2>2
  <2>4. g = [j \in 1..z |-> 1]
    BY <1>16, <2>3
  <2> QED  BY <1>10, <1>12, <1>19, <2>4 DEF low
<1>20. CASE f[1] # 0
  <2>1. f \in [1..z -> Bytes] \/ f = [j \in 1..z |-> Quote]
    BY <1>9, <1>18, <1>20
  <2>2. \A j \in 1..z : f[j] # 0
    BY <2>1, BytesAssumption, QuoteAssumption
  <2>3. \A j \in 1..z : g[j] = f[j]
    BY <1>17, <2>2
  <2>4. f = [j \in 1..z |-> f[j]] /\ g = [j \in 1..z |-> g[j]]
    BY <1>15, <1>16
  <2>5. g = f
    BY <2>3, <2>4
  <2> QED  BY <1>10, <1>12, <1>20, <2>5 DEF low
<1> QED  BY <1>19, <1>20

AgreeUpTo(f, g, m) == \A b \in 1..m : f[b] = g[b]

\* Strings of the same length are equal when their bytes are.
LEMMA Extensional ==
    ASSUME NEW m, NEW f \in [1..m -> Nat], NEW g \in [1..m -> Nat]
    PROVE  f = g <=> AgreeUpTo(f, g, m)
<1>1. f = [b \in 1..m |-> f[b]] /\ g = [b \in 1..m |-> g[b]]
  OBVIOUS
<1>2. ASSUME AgreeUpTo(f, g, m)  PROVE f = g
  BY <1>1, <1>2 DEF AgreeUpTo
<1> QED  BY <1>2 DEF AgreeUpTo

\* The first t columns of the key in record r.
Cols(r, t) == [i \in 1..t |-> Col(r, i)]

\* Two records agree in the first columns when they agree in the first bytes.
LEMMA SameBytes ==
    ASSUME KeyCut, NEW r, NEW s, Viewed(r), Viewed(s), NEW t \in 1..Len(KeyCols)
    PROVE  /\ Same(Cols(r, t), Cols(s, t), 1, t) <=>
                \A b \in 1..KeyEnds[t] : KeyBytes(r)[b] = KeyBytes(s)[b]
           /\ Same(Cols(r, t), Cols(s, t), 1, t) <=>
                SubSeq(KeyBytes(r), 1, KeyEnds[t]) = SubSeq(KeyBytes(s), 1, KeyEnds[t])
<1> DEFINE l == Len(KeyCols)
           x == KeyLens
           e == KeyEnds
           V == KeyBytes(r)
           W == KeyBytes(s)
<1>1. l \in Nat /\ t \in 1..l /\ x \in [1..l -> Nat \ {0}] /\ Ends(e, x, l)
  BY DEF KeyCut
<1>2. V \in [1..e[l] -> Nat] /\ W \in [1..e[l] -> Nat]
  BY DEF Viewed
<1>3. \A i \in 1..l : Piece(V, e, x, i) = Col(r, i) /\ Piece(W, e, x, i) = Col(s, i)
  BY DEF Viewed
<1> HIDE DEF l, x, e, V, W
<1>4. PiecewiseEqual(V, W, e, x, l)
  BY <1>1, PiecesAgree
<1>5. (\A k \in 1..t : Piece(V, e, x, k) = Piece(W, e, x, k)) <=> \A b \in 1..e[t] : V[b] = W[b]
  <2>1. t \in 0..l
    BY <1>1
  <2> QED  BY <1>4, <2>1 DEF PiecewiseEqual
<1>6. \A k \in 1..t : k \in 1..l
  BY <1>1
<1>7. Same(Cols(r, t), Cols(s, t), 1, t) <=> \A k \in 1..t : Piece(V, e, x, k) = Piece(W, e, x, k)
  <2>1. Same(Cols(r, t), Cols(s, t), 1, t) <=> \A k \in 1..t : Col(r, k) = Col(s, k)
    BY DEF Same, Cols
  <2> QED  BY <1>3, <1>6, <2>1
<1>8. e[t] \in Nat /\ e[l] \in Nat /\ e[t] <= e[l]
  <2>1. \A i, j \in 0..l : i < j => e[i] + x[i + 1] <= e[j] /\ e[i] < e[j]
    BY <1>1, EndsGrow
  <2>2. t \in 0..l /\ l \in 0..l /\ (t = l \/ t < l)
    BY <1>1
  <2>3. e[t] \in Nat /\ e[l] \in Nat
    BY <1>1, <2>2 DEF Ends
  <2> QED  BY <2>1, <2>2, <2>3
<1> DEFINE a == e[t]
           h == e[l]
<1> HIDE DEF a, h
<1>9. a \in Nat /\ h \in Nat /\ a <= h /\ V \in [1..h -> Nat] /\ W \in [1..h -> Nat]
  BY <1>2, <1>8 DEF a, h
<1>10. IsPiece(SubSeq(V, 0 + 1, 0 + a), V, 0, a) /\ IsPiece(SubSeq(W, 0 + 1, 0 + a), W, 0, a)
  <2>1. 0 \in Nat /\ 0 + a <= h
    BY <1>9
  <2> QED  BY <1>9, <2>1, SubSeqIs
<1>11. 0 + 1 = 1 /\ 0 + a = a /\ \A b \in 1..a : 0 + b = b
  BY <1>9
<1> DEFINE P == SubSeq(V, 1, a)
           Q == SubSeq(W, 1, a)
<1>12. IsPiece(P, V, 0, a) /\ IsPiece(Q, W, 0, a)
  BY <1>10, <1>11
<1> HIDE DEF P, Q
<1>13. P \in [1..a -> Nat] /\ Q \in [1..a -> Nat] /\ \A b \in 1..a : P[b] = V[b] /\ Q[b] = W[b]
  BY <1>11, <1>12 DEF IsPiece
<1>14. P = Q <=> \A b \in 1..a : V[b] = W[b]
  <2>1. P \in [1..a -> Nat] /\ Q \in [1..a -> Nat]
    BY <1>13
  <2>2. P = Q <=> AgreeUpTo(P, Q, a)
    BY <2>1, Extensional
  <2> QED  BY <1>13, <2>2 DEF AgreeUpTo
<1> QED  BY <1>5, <1>7, <1>14 DEF P, Q, a, e, V, W

\* The order of the bytes of the key is that of its columns, the first ones first.
LEMMA WholeBytes ==
    ASSUME KeyCut, NEW r, NEW s, Viewed(r), Viewed(s), NEW o
    PROVE  LET l == Len(KeyCols) IN
           /\ Same(Cols(r, l), Cols(s, l), 1, l) <=> KeyBytes(r) = KeyBytes(s)
           /\ First(o, Cols(r, l), Cols(s, l), 1, l) <=> Dir(o, KeyBytes(r), KeyBytes(s))
<1> DEFINE l == Len(KeyCols)
           x == KeyLens
           e == KeyEnds
           V == KeyBytes(r)
           W == KeyBytes(s)
           v == Cols(r, l)
           w == Cols(s, l)
<1>1. l \in Nat \ {0} /\ x \in [1..l -> Nat \ {0}] /\ Ends(e, x, l)
  BY DEF KeyCut
<1>2. V \in [1..e[l] -> Nat] /\ W \in [1..e[l] -> Nat]
  BY DEF Viewed
<1>3. \A i \in 1..l : Piece(V, e, x, i) = v[i] /\ Piece(W, e, x, i) = w[i]
  <2>1. \A i \in 1..l : v[i] = Col(r, i) /\ w[i] = Col(s, i)
    BY DEF Cols
  <2> HIDE DEF v, w
  <2> QED  BY <2>1 DEF Viewed
<1>4. Same(v, w, 1, l) <=> \A b \in 1..e[l] : V[b] = W[b]
  <2>1. l \in 1..l
    <3> HIDE DEF l
    <3> QED  BY <1>1
  <2> QED  BY <2>1, SameBytes
<1> HIDE DEF l, x, e, V, W, v, w
<1>5. Same(v, w, 1, l) <=> V = W
  <2>1. V = W <=> AgreeUpTo(V, W, e[l])
    BY <1>2, Extensional
  <2> QED  BY <1>4, <2>1 DEF AgreeUpTo
<1>6. l \in Nat
  BY <1>1
<1>7. \A j \in 1..l : \A k \in 1..(j - 1) : k \in 1..l
  BY <1>6
<1>8. Less(V, W) <=> \E i \in 1..l : Less(v[i], w[i]) /\ Same(v, w, 1, i - 1)
  <2>1. Less(V, W) <=>
          \E i \in 1..l : /\ Less(Piece(V, e, x, i), Piece(W, e, x, i))
                          /\ \A j \in 1..(i - 1) : Piece(V, e, x, j) = Piece(W, e, x, j)
    <3>1. DOMAIN V = 1..e[l]
      BY <1>2
    <3> QED  BY <1>1, <1>6, <3>1, LexPieces
  <2>2. \A i \in 1..l : (\A j \in 1..(i - 1) : Piece(V, e, x, j) = Piece(W, e, x, j))
                           <=> Same(v, w, 1, i - 1)
    BY <1>3, <1>7 DEF Same
  <2> QED  BY <1>3, <2>1, <2>2
<1>9. Less(W, V) <=> \E i \in 1..l : Less(w[i], v[i]) /\ Same(v, w, 1, i - 1)
  <2>1. Less(W, V) <=>
          \E i \in 1..l : /\ Less(Piece(W, e, x, i), Piece(V, e, x, i))
                          /\ \A j \in 1..(i - 1) : Piece(W, e, x, j) = Piece(V, e, x, j)
    <3>1. DOMAIN W = 1..e[l]
      BY <1>2
    <3> QED  BY <1>1, <1>6, <3>1, LexPieces
  <2>2. \A i \in 1..l : (\A j \in 1..(i - 1) : Piece(W, e, x, j) = Piece(V, e, x, j))
                           <=> Same(v, w, 1, i - 1)
    BY <1>3, <1>7 DEF Same
  <2> QED  BY <1>3, <2>1, <2>2
<1>10. First(o, v, w, 1, l) <=> Dir(o, V, W)
  BY <1>8, <1>9 DEF First, Dir
<1> QED  BY <1>5, <1>10 DEF l, v, w, V, W

--------------------------------------------------------------------------------
(* START selects the right records                                         *)

\* A WHERE of t columns is declared: by equality, unless it is of all the columns
\* for the relation that was asked for.
Declared(t) ==
    /\ t \in 1..Len(KeyCols) /\ where = [i \in 1..t |-> Comparison(i, t)]
    /\ op \in Relations /\ Leading = KeyEnds[t]
    /\ t # Len(KeyCols) \/ asked \in {"lookup", "leading"} \/ partial_key > 0 => op = "="
    /\ t = Len(KeyCols) /\ asked \notin {"lookup", "leading"} /\ ~ (partial_key > 0) => op = asked

\* The WHERE of every START and lookup is one of these.
LEMMA DeclaredIs ==
    ASSUME IInv, pc = "declared"
    PROVE  \E t \in 1..Len(KeyCols) : Declared(t)
<1> DEFINE l == Len(KeyCols)
           h == Len(KeyBytes(record))
<1>1. TypeInv /\ OpenInv /\ pc # "closed" /\ keyid \in DOMAIN keys /\ record \in Records
  BY DEF IInv, RecordInv
<1>2. l \in Nat \ {0} /\ Ends(KeyEnds, KeyLens, l)
  BY <1>1, KeyShape DEF KeyCut
<1>3. KeyBytes(record) \in [1..KeyEnds[l] -> Nat]
  BY <1>1, RecordTypes, KeyView DEF Viewed
<1>4. h = KeyEnds[l]
  <2>1. KeyEnds[l] \in Nat
    BY <1>2 DEF Ends
  <2> QED  BY <1>3, <2>1
<1>5. \A i \in 0..l : KeyEnds[i] = KeyLen(i)
  BY DEF KeyEnds
<1>6. Leading = IF partial_key > 0 /\ asked # "lookup" THEN KeyLen(partial_key)
                ELSE IF weak /\ asked # "lookup" THEN KeyLen(l - 1) ELSE h
  BY DEF Leading, KeyCols
<1>7. weak \in BOOLEAN /\ partial_key \in Nat /\ ~ (weak /\ partial_key > 0)
  BY <1>1 DEF TypeInv
<1>8. CASE asked = "lookup"
  <2>1. op = "=" /\ where = [i \in 1..l |-> Comparison(i, l)]
    BY <1>8 DEF IInv, LookupInv, LookupCols
  <2>2. Leading = KeyEnds[l]
    BY <1>4, <1>6, <1>8
  <2>3. l \in 1..l
    <3> HIDE DEF l
    <3> QED  BY <1>2
  <2>4. Declared(l)
    BY <1>8, <2>1, <2>2, <2>3 DEF Declared, Relations
  <2> QED  BY <2>3, <2>4
<1>9. CASE asked = "leading"
  <2>1. op = "=" /\ where = [i \in 1..(l - 1) |-> Comparison(i, l - 1)] /\ weak /\ l > 1
    BY <1>9 DEF IInv, LookupInv, LookupCols
  <2>2. l - 1 \in 1..l /\ l - 1 \in 0..l
    <3> HIDE DEF l
    <3> QED  BY <1>2, <2>1
  <2>3. Leading = KeyEnds[l - 1]
    <3>1. Leading = KeyLen(l - 1)
      BY <1>6, <1>7, <1>9, <2>1
    <3> QED  BY <1>5, <2>2, <3>1
  <2>4. Declared(l - 1)
    BY <1>9, <2>1, <2>2, <2>3 DEF Declared, Relations
  <2> QED  BY <2>2, <2>4
<1>10. CASE asked \notin {"lookup", "leading"}
  <2> DEFINE t == LastComp
  <2>1. Asked /\ where = [i \in 1..t |-> Comparison(i, t)]
    BY <1>10 DEF IInv, DeclaredInv
  <2>2. /\ t \in 1..l
        /\ partial_key > 0 => t = partial_key
        /\ partial_key = 0 /\ weak => t = l - 1
        /\ partial_key = 0 /\ ~ weak => t = l
    BY <1>1, <1>2, <2>1, LastCompBounds
  <2>3. asked \in Relations /\ op = (IF weak \/ partial_key > 0 THEN "=" ELSE asked)
    BY <2>1 DEF Asked
  <2>4. op \in Relations
    BY <2>3 DEF Relations
  <2>5. t \in 0..l
    <3> HIDE DEF l, t
    <3> QED  BY <1>2, <2>2
  <2>6. partial_key > 0 \/ partial_key = 0
    BY <1>7
  <2>7. Leading = KeyEnds[t]
    <3>1. partial_key > 0 => Leading = KeyLen(t)
      BY <1>6, <1>10, <2>2
    <3>2. partial_key = 0 /\ weak => Leading = KeyLen(t)
      BY <1>6, <1>10, <2>2
    <3>3. partial_key = 0 /\ ~ weak => Leading = KeyEnds[t]
      BY <1>4, <1>6, <1>10, <2>2
    <3> QED  BY <1>5, <1>7, <2>5, <2>6, <3>1, <3>2, <3>3
  <2>8. t # l \/ asked \in {"lookup", "leading"} \/ partial_key > 0 => op = "="
    <3> HIDE DEF l, t
    <3> QED  BY <1>7, <1>10, <2>2, <2>3, <2>6
  <2>9. t = l /\ ~ (partial_key > 0) => op = asked
    <3>1. l - 1 # l
      <4> HIDE DEF l
      <4> QED  BY <1>2
    <3> HIDE DEF l, t
    <3> QED  BY <1>7, <2>2, <2>3, <2>6, <3>1
  <2>10. Declared(t)
    BY <2>1, <2>2, <2>4, <2>7, <2>8, <2>9 DEF Declared
  <2> QED  BY <2>2, <2>10
<1> QED  BY <1>8, <1>9, <1>10

\* What a declared WHERE selects.
LEMMA SatMeans ==
    ASSUME IInv, pc = "declared", NEW t \in 1..Len(KeyCols), Declared(t), NEW r \in Rows
    PROVE  /\ KeyCut /\ Viewed(r) /\ Viewed(Lowest)
           /\ Sat(r) <=> Meaning(op, Cols(r, t), Cols(Lowest, t), 1, t)
<1>1. TypeInv /\ OpenInv /\ pc # "closed" /\ keyid \in DOMAIN keys /\ record \in Records
  BY DEF IInv, RecordInv
<1>2. KeyCut
  BY <1>1, KeyShape
<1>3. r \in [1..RecordLen -> Nat] /\ Lowest \in [1..RecordLen -> Nat]
  <2>1. r \in [1..RecordLen -> Bytes] /\ Bytes \subseteq Nat
    BY BytesAssumption DEF Rows
  <2>2. Lowest \in [1..RecordLen -> Nat]
    BY <1>1, RecordTypes
  <2>3. r \in [1..RecordLen -> Nat]
    BY <2>1
  <2> QED  BY <2>2, <2>3
<1>4. Viewed(r) /\ Viewed(Lowest)
  BY <1>1, <1>3, KeyView
<1> DEFINE l == Len(KeyCols)
<1>5. l \in Nat \ {0} /\ t \in 1..l /\ KeyLens \in [1..l -> Nat \ {0}]
  BY <1>2 DEF KeyCut
<1>6. t \in Nat \ {0} /\ \A i \in 1..t : i \in 1..l
  <2> HIDE DEF l
  <2> QED  BY <1>5
<1>7. \A i \in 1..t : Arg(i) = Col(Lowest, i)
  BY <1>1, <1>6, ArgIs
<1>8. Comparable(r, t)
  <2> SUFFICES ASSUME NEW i \in 1..t
               PROVE  \E m \in Nat : Col(r, i) \in [1..m -> Nat] /\ Arg(i) \in [1..m -> Nat]
    BY DEF Comparable
  <2>1. i \in 1..l /\ Arg(i) = Col(Lowest, i)
    BY <1>6, <1>7
  <2>2. Col(r, i) \in [1..KeyLens[i] -> Nat] /\ Col(Lowest, i) \in [1..KeyLens[i] -> Nat]
    BY <1>4, <2>1 DEF Viewed
  <2>3. KeyLens[i] \in Nat
    BY <1>5, <2>1
  <2> QED  BY <2>1, <2>2, <2>3
<1>9. where = [i \in 1..t |-> Comparison(i, t)] /\ op \in Relations
  BY DEF Declared
<1>10. Sat(r) <=> Meaning(op, [i \in 1..t |-> Col(r, i)], [i \in 1..t |-> Arg(i)], 1, t)
  BY <1>6, <1>8, <1>9, SatIs
<1>11. [i \in 1..t |-> Col(r, i)] = Cols(r, t) /\ [i \in 1..t |-> Arg(i)] = Cols(Lowest, t)
  BY <1>7 DEF Cols
<1> QED  BY <1>2, <1>4, <1>10, <1>11

\* SelectsRight follows from the invariant.
LEMMA SelectsAreRight == IInv => SelectsRight
<1> SUFFICES ASSUME IInv, pc = "declared", NEW r \in Rows
             PROVE  Sat(r) <=> IF \/ Leading < Len(KeyBytes(r)) \/ asked \in {"lookup", "leading"}
                                  \/ partial_key > 0
                               THEN SubSeq(KeyBytes(r), 1, Leading) = SubSeq(KeyBytes(Lowest), 1, Leading)
                               ELSE Rel(KeyBytes(r), asked, KeyBytes(Lowest), Less)
  BY DEF SelectsRight
<1>1. PICK t \in 1..Len(KeyCols) : Declared(t)
  BY DeclaredIs
<1> DEFINE l == Len(KeyCols)
           V == KeyBytes(r)
           W == KeyBytes(Lowest)
           v == Cols(r, t)
           w == Cols(Lowest, t)
<1>2. KeyCut /\ Viewed(r) /\ Viewed(Lowest) /\ (Sat(r) <=> Meaning(op, v, w, 1, t))
  BY <1>1, SatMeans
<1>3. Same(v, w, 1, t) <=> SubSeq(V, 1, KeyEnds[t]) = SubSeq(W, 1, KeyEnds[t])
  BY <1>2, SameBytes
<1>4. l \in Nat \ {0} /\ KeyLens \in [1..l -> Nat \ {0}] /\ Ends(KeyEnds, KeyLens, l)
  BY <1>2 DEF KeyCut
<1>5. V \in [1..KeyEnds[l] -> Nat] /\ W \in [1..KeyEnds[l] -> Nat]
  BY <1>2 DEF Viewed
<1> DEFINE e == KeyEnds
           x == KeyLens
<1>6. e[l] \in Nat /\ e[t] \in Nat /\ (t < l => e[t] < e[l]) /\ (t = l \/ t < l)
  <2> HIDE DEF l, e, x
  <2>1. l \in Nat /\ t \in 1..l
    BY <1>4 DEF l
  <2>2. \A i, j \in 0..l : i < j => e[i] + x[i + 1] <= e[j] /\ e[i] < e[j]
    BY <1>4, <2>1, EndsGrow DEF e, x
  <2>3. t \in 0..l /\ l \in 0..l /\ (t = l \/ t < l)
    BY <2>1
  <2>4. e[t] \in Nat /\ e[l] \in Nat
    BY <1>4, <2>3 DEF Ends, e, x
  <2> QED  BY <2>2, <2>3, <2>4
<1>7. Len(V) = e[l]
  <2> HIDE DEF V, l, e
  <2> QED  BY <1>5, <1>6 DEF e
<1>8. Leading = e[t]
  BY <1>1 DEF Declared
<1>9. Leading < Len(V) <=> t # l
  <2> HIDE DEF V, l, e
  <2> QED  BY <1>6, <1>7, <1>8
<1>10. CASE t # l \/ asked \in {"lookup", "leading"} \/ partial_key > 0
  <2>1. op = "="
    BY <1>1, <1>10 DEF Declared
  <2>2. Sat(r) <=> Same(v, w, 1, t)
    BY <1>2, <2>1 DEF Meaning
  <2> HIDE DEF l, V, W, v, w, e
  <2>3. Sat(r) <=> SubSeq(V, 1, Leading) = SubSeq(W, 1, Leading)
    BY <1>3, <1>8, <2>2 DEF e
  <2> QED  BY <1>9, <1>10, <2>3 DEF V, W
<1>11. CASE ~ (t # l \/ asked \in {"lookup", "leading"} \/ partial_key > 0)
  <2>1. op = asked /\ op \in Relations /\ t = l
    BY <1>1, <1>11 DEF Declared
  <2>2. /\ Same(v, w, 1, t) <=> V = W
        /\ First(op, v, w, 1, t) <=> Dir(op, V, W)
    BY <1>2, <2>1, WholeBytes
  <2> DEFINE m == e[l]
  <2> HIDE DEF V, W, v, w, e, l
  <2>3. Sat(r) <=> IF op = "=" THEN V = W ELSE Dir(op, V, W) \/ (Refl(op) /\ V = W)
    BY <1>2, <2>2 DEF Meaning
  <2>4. m \in Nat /\ V \in [1..m -> Nat] /\ W \in [1..m -> Nat]
    BY <1>5, <1>6 DEF e
  <2> HIDE DEF m
  <2>5. Rel(V, op, W, Less) <=> IF op = "=" THEN V = W ELSE Dir(op, V, W) \/ (Refl(op) /\ V = W)
    BY <2>1, <2>4, RelIs
  <2>6. Sat(r) <=> Rel(V, asked, W, Less)
    BY <2>1, <2>3, <2>5
  <2> QED  BY <1>9, <1>11, <2>6 DEF V, W
<1> QED  BY <1>10, <1>11

\* Whatever the columns and the components of the key, a START selects the records
\* whose key bytes are in the relation asked for, a lookup those with the same key,
\* a partial or weak one those with its leading columns: the nested comparisons of
\* adiciona_comp are the lexicographic order of COBOL.
THEOREM SelectsRightAlways == Spec => []SelectsRight
BY Invariant, SelectsAreRight, PTL

--------------------------------------------------------------------------------
(* READ NEXT gets them in the right order                                  *)

\* The column of the key that is the i-th of the ORDER BY.
Pos(i) == IF i <= LastComp \/ partial_key = 0 THEN i ELSE i + 1

\* Column j is the first in which two records differ, and it is less in r.
Differ(r, s, j) ==
    /\ j \in 1..Len(KeyCols) /\ Less(Col(r, j), Col(s, j))
    /\ \A k \in 1..(j - 1) : Col(r, k) = Col(s, k)

\* A key is less when the first column that differs is.
LEMMA FirstDiffers ==
    ASSUME KeyCut, NEW r, NEW s, Viewed(r), Viewed(s), Less(KeyBytes(r), KeyBytes(s))
    PROVE  \E j \in 1..Len(KeyCols) : Differ(r, s, j)
<1> DEFINE l == Len(KeyCols)
           v == Cols(r, l)
           w == Cols(s, l)
<1>1. First("<", v, w, 1, l) <=> Dir("<", KeyBytes(r), KeyBytes(s))
  BY WholeBytes
<1>2. Dir("<", KeyBytes(r), KeyBytes(s))
  BY DEF Dir
<1>3. l \in Nat
  BY DEF KeyCut
<1>4. \A i \in 1..l : v[i] = Col(r, i) /\ w[i] = Col(s, i)
  BY DEF Cols
<1> HIDE DEF v, w
<1>5. PICK j \in 1..l : Dir("<", v[j], w[j]) /\ Same(v, w, 1, j - 1)
  BY <1>1, <1>2 DEF First
<1>6. Less(v[j], w[j])
  BY <1>5 DEF Dir
<1>7. \A k \in 1..(j - 1) : k \in 1..l /\ v[k] = w[k]
  <2> HIDE DEF l
  <2> QED  BY <1>3, <1>5 DEF Same
<1>8. Differ(r, s, j)
  BY <1>4, <1>5, <1>6, <1>7 DEF Differ
<1> QED  BY <1>8

\* Two records found by equality of their first t columns agree in them.
LEMMA SelectedAgree ==
    ASSUME IInv, pc = "declared", NEW t \in 1..Len(KeyCols), Declared(t), op = "=",
           NEW r \in Rows, NEW s \in Rows, Sat(r), Sat(s), NEW k \in 1..t
    PROVE  Col(r, k) = Col(s, k)
<1>1. Meaning(op, Cols(r, t), Cols(Lowest, t), 1, t) /\ Meaning(op, Cols(s, t), Cols(Lowest, t), 1, t)
  BY SatMeans
<1>2. Same(Cols(r, t), Cols(Lowest, t), 1, t) /\ Same(Cols(s, t), Cols(Lowest, t), 1, t)
  BY <1>1 DEF Meaning
<1>3. Cols(r, t)[k] = Cols(Lowest, t)[k] /\ Cols(s, t)[k] = Cols(Lowest, t)[k]
  BY <1>2 DEF Same
<1> QED  BY <1>3 DEF Cols

\* Where the first column that differs is in the ORDER BY.
Found(i, j) ==
    /\ i \in 1..OrderLen /\ Pos(i) = j
    /\ \A k \in 1..(i - 1) : Pos(k) \in 1..(j - 1)

\* It is there, unless it is the one after a partial key.
LEMMA DifferFound ==
    ASSUME IInv, pc = "declared", asked \notin {"lookup", "leading"},
           NEW r \in Rows, NEW s \in Rows, Sat(r), Sat(s), ~ LeftOut(r, s),
           NEW j \in 1..Len(KeyCols), Differ(r, s, j)
    PROVE  \E i \in 1..OrderLen : Found(i, j)
<1> DEFINE l == Len(KeyCols)
           t == LastComp
           p == partial_key
           q == OrderLen
<1>1. TypeInv /\ OpenInv /\ pc # "closed" /\ keyid \in DOMAIN keys /\ record \in Records
  BY DEF IInv, RecordInv
<1>2. KeyCut
  BY <1>1, KeyShape
<1>3. l \in Nat \ {0} /\ KeyLens \in [1..l -> Nat \ {0}]
  BY <1>2 DEF KeyCut
<1>4. Asked /\ where = [i \in 1..t |-> Comparison(i, t)]
  BY DEF IInv, DeclaredInv
<1>5. t \in 1..l /\ p \in Nat /\ (p > 0 => t = p)
  BY <1>1, <1>3, <1>4, LastCompBounds
<1>6. q = IF p \in 1..(l - 1) THEN l - 1 ELSE l
  BY DEF OrderLen
<1>7. \A i : Pos(i) = IF i <= t \/ p = 0 THEN i ELSE i + 1
  BY DEF Pos
<1>8. CASE p = 0
  <2> HIDE DEF l, t, p, q
  <2>1. \A i : Pos(i) = i
    BY <1>7, <1>8
  <2>2. q = l /\ j \in 1..l
    BY <1>3, <1>6, <1>8 DEF l
  <2>3. Found(j, j)
    BY <2>1, <2>2 DEF Found, q
  <2> QED  BY <2>2, <2>3 DEF q
<1>9. CASE p > 0
  <2>1. op = "="
    BY <1>4, <1>9 DEF Asked
  <2>2. PICK u \in 1..l : Declared(u)
    BY DeclaredIs
  <2>3. Less(Col(r, j), Col(s, j))
    BY DEF Differ
  <2>4. Col(r, j) # Col(s, j)
    <3>1. r \in [1..RecordLen -> Nat] /\ s \in [1..RecordLen -> Nat]
      <4>1. r \in [1..RecordLen -> Bytes] /\ s \in [1..RecordLen -> Bytes] /\ Bytes \subseteq Nat
        BY BytesAssumption DEF Rows
      <4> QED  BY <4>1
    <3>2. Viewed(r) /\ Viewed(s)
      BY <1>1, <3>1, KeyView
    <3> DEFINE m == KeyLens[j]
               a == Col(r, j)
               b == Col(s, j)
    <3>3. a \in [1..m -> Nat] /\ b \in [1..m -> Nat]
      BY <3>2 DEF Viewed
    <3>4. m \in Nat
      BY <1>3
    <3> HIDE DEF m, a, b
    <3>5. Less(a, b)
      BY <2>3 DEF a, b
    <3>6. a # b
      BY <3>3, <3>4, <3>5, LessStrict
    <3> QED  BY <3>6 DEF a, b
  <2>5. u = t
    <3>1. u \in 1..l /\ DOMAIN where = 1..u
      BY <2>2 DEF Declared
    <3>2. DOMAIN where = 1..t
      BY <1>4
    <3> HIDE DEF l, t
    <3>3. u \in Nat /\ t \in Nat /\ u \in 1..u /\ t \in 1..t
      BY <1>3, <1>5, <3>1
    <3>4. u \in 1..t /\ t \in 1..u
      BY <3>1, <3>2, <3>3
    <3> QED  BY <3>3, <3>4
  <2>6. ~ (j \in 1..t)
    BY <2>1, <2>2, <2>4, <2>5, SelectedAgree
  <2>7. j # p + 1
    <3>1. SUFFICES ASSUME j = p + 1  PROVE FALSE
      OBVIOUS
    <3>2. p \in 1..(l - 1)
      <4>1. j \in 1..l
        OBVIOUS
      <4> HIDE DEF l, p
      <4> QED  BY <1>3, <1>5, <1>9, <3>1, <4>1
    <3>3. LeftOut(r, s)
      BY <2>4, <3>1, <3>2 DEF LeftOut, Col, KeyCols
    <3> QED  BY <3>3
  <2>8. j \in 1..l
    OBVIOUS
  <2> DEFINE i == j - 1
  <2> HIDE DEF l, t, p, q
  <2>9. t = p /\ t \in Nat /\ j \in Nat /\ j >= t + 2 /\ p \in 1..(l - 1)
    BY <1>3, <1>5, <1>9, <2>6, <2>7, <2>8
  <2>10. q = l - 1 /\ i \in 1..q /\ ~ (i <= t) /\ p # 0
    BY <1>3, <1>6, <1>9, <2>8, <2>9
  <2>11. Pos(i) = j
    BY <1>7, <2>8, <2>9, <2>10
  <2>12. \A k \in 1..(i - 1) : Pos(k) \in 1..(j - 1)
    <3> SUFFICES ASSUME NEW k \in 1..(i - 1)  PROVE Pos(k) \in 1..(j - 1)
      OBVIOUS
    <3>1. k \in 1..(j - 1) /\ k + 1 \in 1..(j - 1)
      BY <2>9
    <3>2. Pos(k) = IF k <= t \/ p = 0 THEN k ELSE k + 1
      BY <1>7
    <3> QED  BY <3>1, <3>2
  <2>13. Found(i, j)
    BY <2>10, <2>11, <2>12 DEF Found, q
  <2> QED  BY <2>10, <2>13 DEF q
<1> QED  BY <1>5, <1>8, <1>9

\* OrderRight follows from the invariant.
LEMMA OrderIsRight == IInv => OrderRight
<1> SUFFICES ASSUME IInv, pc = "declared", asked \notin {"lookup", "leading"},
                    NEW r \in Rows, NEW s \in Rows, Sat(r), Sat(s),
                    Less(KeyBytes(r), KeyBytes(s)), ~ LeftOut(r, s)
             PROVE  IF Strict(op) = "<" THEN Before(s, r) ELSE Before(r, s)
  BY DEF OrderRight
<1>1. TypeInv /\ OpenInv /\ pc # "closed" /\ keyid \in DOMAIN keys /\ record \in Records
  BY DEF IInv, RecordInv
<1>2. KeyCut
  BY <1>1, KeyShape
<1>3. r \in [1..RecordLen -> Nat] /\ s \in [1..RecordLen -> Nat]
  <2>1. r \in [1..RecordLen -> Bytes] /\ s \in [1..RecordLen -> Bytes] /\ Bytes \subseteq Nat
    BY BytesAssumption DEF Rows
  <2> QED  BY <2>1
<1>4. Viewed(r) /\ Viewed(s)
  BY <1>1, <1>3, KeyView
<1>5. PICK j \in 1..Len(KeyCols) : Differ(r, s, j)
  BY <1>2, <1>4, FirstDiffers
<1>6. PICK i \in 1..OrderLen : Found(i, j)
  BY <1>5, DifferFound
<1>7. Asked /\ order = [k \in 1..OrderLen |-> OrderCol(k)]
  BY DEF IInv, DeclaredInv
<1>8. \A k : OrderCol(k).col = KeyCols[Pos(k)] /\ OrderCol(k).desc = (k <= LastComp /\ Strict(op) = "<")
  BY DEF OrderCol, Pos
<1> DEFINE q == OrderLen
<1>9. /\ DOMAIN order = 1..q /\ i \in 1..q
      /\ \A k \in 1..q : order[k].col = KeyCols[Pos(k)]
      /\ \A k \in 1..q : order[k].desc = (k <= LastComp /\ Strict(op) = "<")
  BY <1>7, <1>8
<1>10. /\ Less(Col(r, j), Col(s, j)) /\ Pos(i) = j
       /\ \A k \in 1..(i - 1) : Pos(k) \in 1..(j - 1)
       /\ \A k \in 1..(j - 1) : Col(r, k) = Col(s, k)
  BY <1>5, <1>6 DEF Differ, Found
<1>11. q \in Nat
  <2> DEFINE l == Len(KeyCols)
             p == partial_key
  <2>1. l \in Nat \ {0} /\ p \in Nat /\ q = IF p \in 1..(l - 1) THEN l - 1 ELSE l
    BY <1>1, <1>2 DEF KeyCut, TypeInv, OrderLen
  <2> HIDE DEF l, p, q
  <2> QED  BY <2>1
<1> DEFINE S(x, k) == Slice(x, columns[order[k].col])
<1>12. \A x, k : k \in 1..q => S(x, k) = Col(x, Pos(k))
  <2> HIDE DEF q
  <2> QED  BY <1>9 DEF Col
<1> HIDE DEF S, q
<1>13. \A k \in 1..(i - 1) : k \in 1..q
  BY <1>9, <1>11
<1>14. S(r, i) = Col(r, j) /\ S(s, i) = Col(s, j) /\ \A k \in 1..(i - 1) : S(r, k) = S(s, k)
  BY <1>9, <1>10, <1>12, <1>13
<1>15. CASE Strict(op) = "<"
  <2>1. op # "=" /\ ~ weak /\ ~ (partial_key > 0)
    BY <1>7, <1>15 DEF Strict, Asked
  <2>2. i <= LastComp
    <3> DEFINE l == Len(KeyCols)
               p == partial_key
               t == LastComp
    <3>1. l \in Nat \ {0}
      BY <1>2 DEF KeyCut
    <3>2. p \in Nat /\ (p = 0 => t = l)
      BY <1>1, <1>7, <2>1, <3>1, LastCompBounds
    <3>3. q = IF p \in 1..(l - 1) THEN l - 1 ELSE l
      BY DEF OrderLen, q
    <3>4. ~ (p > 0)
      BY <2>1
    <3> HIDE DEF l, p, t
    <3>5. i <= t
      BY <1>9, <3>1, <3>2, <3>3, <3>4
    <3> QED  BY <3>5 DEF t
  <2>3. order[i].desc
    BY <1>9, <1>15, <2>2
  <2>4. Less(S(r, i), S(s, i)) /\ \A k \in 1..(i - 1) : S(s, k) = S(r, k)
    BY <1>10, <1>14
  <2>5. Before(s, r)
    BY <1>9, <2>3, <2>4 DEF Before, S
  <2> QED  BY <1>15, <2>5
<1>16. CASE Strict(op) # "<"
  <2>1. ~ order[i].desc
    BY <1>9, <1>16
  <2>2. Less(S(r, i), S(s, i)) /\ \A k \in 1..(i - 1) : S(r, k) = S(s, k)
    BY <1>10, <1>14
  <2>3. Before(r, s)
    BY <1>9, <2>1, <2>2 DEF Before, S
  <2> QED  BY <1>16, <2>3
<1> QED  BY <1>15, <1>16

\* READ NEXT gets the records a START selected in the order of their keys' bytes,
\* after START < or <= READ PREVIOUS in the reverse order, whatever the columns of
\* the key; records that differ in the column after a partial key are excepted.
THEOREM OrderRightAlways == Spec => []OrderRight
BY Invariant, OrderIsRight, PTL
================================================================================
