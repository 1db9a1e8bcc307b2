-------------------------------- MODULE PqfhKeys -------------------------------
(***************************************************************************)
(* From the key definition block of the fcd to SQL (kdb.c, meta.c): which  *)
(* columns a key has (getkeys), the WHERE and ORDER BY of a START, built   *)
(* one column per call of adiciona_comp, the lookup by key, and the UPDATE *)
(* of a REWRITE, which leaves the columns marked pk alone.                 *)
(*                                                                         *)
(* COBOL knows a key as the bytes of its components in the record, and     *)
(* orders records by them; that is the reference.  A record is a sequence  *)
(* of bytes; 0 is NUL, 1 the lowest character of a stored value ("0" or    *)
(* space).  Stored values have the full width of their column, so SQL      *)
(* orders them as their bytes; keys have no sign.  The last digit of a     *)
(* negative number has the bit Sign; numbers have digits only.             *)
(***************************************************************************)
EXTENDS Naturals, Sequences, SequencesExt

CONSTANTS
    Layouts,    \* [cols: Seq([len, num, dec]), keys: Seq(Seq([offset, len])), reclen]
    Bytes,      \* the characters of stored values
    Quote,      \* the apostrophe
    Sign,       \* the bit 0x40 of a negative number's last digit
    Partials    \* the arguments of set_partial, 0: none

\* The number of bytes of the first n of the given lengths.
Width(lens, n) ==
    LET upTo[i \in 0..Len(lens)] == IF i = 0 THEN 0 ELSE upTo[i - 1] + lens[i]
    IN  upTo[n]

\* Where column i starts.
Starts(L, i) == Width([j \in DOMAIN L.cols |-> L.cols[j].len], i - 1)

\* No column is empty; there is a primary key, and every key has a component.
Sized(L) ==
    /\ L.cols \in Seq([len : Nat \ {0}, num : BOOLEAN, dec : BOOLEAN]) /\ L.reclen \in Nat
    /\ L.keys \in Seq(Seq([offset : Nat, len : Nat \ {0}]) \ {<<>>}) /\ L.keys # <<>>

\* The components of the keys lie in the record, they start and end where
\* columns do.
Aligned(L) ==
    \A k \in DOMAIN L.keys : \A p \in Range(L.keys[k]) :
        /\ p.offset + p.len <= L.reclen
        /\ \E i, j \in DOMAIN L.cols :
               Starts(L, i) = p.offset /\ Starts(L, j + 1) = p.offset + p.len

ASSUME BytesAssumption == Bytes \subseteq Nat \ {0} /\ 1 \in Bytes
ASSUME QuoteAssumption == Quote \in Nat \ {0}
ASSUME SignAssumption == Sign \in Nat /\ \A b \in Bytes : b < Sign
ASSUME LayoutsAssumption == \A L \in Layouts : Sized(L) /\ Aligned(L)
ASSUME PartialsAssumption == Partials \subseteq Nat /\ 0 \in Partials

VARIABLES
    pc,
    layout,                     \* what the program and the dictionary say
    partial_key, weak,          \* tab->partial_key; the table is a WEAK: one
    columns, keys, pk,          \* tab->columns, tab->keys, the columns marked pk
    record, keyid, asked,       \* the record area, key and relation of a START
    op, c, where, order,        \* adiciona_comp
    row                         \* the row of a REWRITE, before and after

openVars == <<layout, partial_key, weak, columns, keys, pk>>
sqlVars  == <<record, keyid, asked, op, c, where, order>>
vars == <<pc, openVars, sqlVars, row>>

Idle ==
    /\ record = <<>> /\ keyid = 1 /\ asked = "none" /\ op = "none" /\ c = 1
    /\ where = <<>> /\ order = <<>>

\* With both set_partial and WEAK: adiciona_comp reads past key.columns; so it
\* does when a weak key has one column, or set_partial asks for too many.
Init ==
    /\ pc = "closed"
    /\ layout \in Layouts
    /\ partial_key \in Partials /\ weak \in BOOLEAN /\ ~ (weak /\ partial_key > 0)
    /\ columns = <<>> /\ keys = <<>> /\ pk = {}
    /\ Idle
    /\ row = <<>>

--------------------------------------------------------------------------------
(* table_info and getkeys                                                  *)

\* The columns of the dictionary that begin inside the record.
Columns(L) ==
    [i \in {j \in DOMAIN L.cols : Starts(L, j) < L.reclen} |->
        [offset |-> Starts(L, i), len |-> L.cols[i].len,
         num |-> L.cols[i].num, dec |-> L.cols[i].dec]]

\* The columns of a component: from the one at its offset until len is used up.
Component(cols, p) ==
    LET from == CHOOSE i \in DOMAIN cols : cols[i].offset = p.offset
        upto == CHOOSE i \in from..Len(cols) :
                    /\ cols[i].offset + cols[i].len >= p.offset + p.len
                    /\ \A j \in from..(i - 1) :
                           cols[j].offset + cols[j].len < p.offset + p.len
    IN  [i \in 1..(upto - from + 1) |-> from + i - 1]

getkeys(cols, L) ==
    [k \in DOMAIN L.keys |->
        FlattenSeq([p \in DOMAIN L.keys[k] |-> Component(cols, L.keys[k][p])])]

\* Mutant: the test k == 0 is missing, the columns of every key are marked.
PkOf_AllKeys(ks, L) ==
    UNION {Range(ks[k]) : k \in DOMAIN ks}

\* The columns of the first key; with one component also those before it.
PkOf(ks, L) ==
    IF Len(L.keys[1]) = 1 THEN 1..Last(ks[1]) ELSE Range(ks[1])

table_info ==
    /\ pc = "closed"
    /\ columns' = Columns(layout)
    /\ keys' = getkeys(columns', layout)
    /\ pk' = PkOf(keys', layout)
    /\ pc' = "open"
    /\ UNCHANGED <<layout, partial_key, weak, sqlVars, row>>

--------------------------------------------------------------------------------
(* getwhere, adiciona_comp                                                 *)

Slice(r, col) == SubSeq(r, col.offset + 1, col.offset + col.len)

\* A field of the record area: a stored value, low-values, or a text with an
\* apostrophe.
Fields(col) ==
    [1..col.len -> Bytes] \cup {[i \in 1..col.len |-> 0]}
    \cup (IF col.num THEN {} ELSE {[i \in 1..col.len |-> Quote]})

\* The value the SQL text has for a field: low-values are the lowest value.
Value(r, col) ==
    LET f == Slice(r, col) IN IF f[1] = 0 THEN [i \in 1..col.len |-> 1] ELSE f

RecordLen == LET col == Last(columns) IN col.offset + col.len

Rows == [1..RecordLen -> Bytes]

Records ==
    {r \in [1..RecordLen -> Bytes \cup {0, Quote}] :
        \A i \in DOMAIN columns : Slice(r, columns[i]) \in Fields(columns[i])}

Strict(o) == CASE o \in {">", ">="} -> ">" [] o \in {"<", "<="} -> "<" [] OTHER -> "="

\* force_partial (table intori, key 1) is a partial_key of 2 too.
getwhere(k, o, r) ==
    /\ pc = "open"
    /\ partial_key <= Len(keys[k]) /\ (weak => Len(keys[k]) > 1)
    /\ record' = r /\ keyid' = k /\ asked' = o
    /\ op' = IF weak \/ partial_key > 0 THEN "=" ELSE o
    /\ c' = 1 /\ where' = <<>> /\ order' = <<>>
    /\ pc' = "where"
    /\ UNCHANGED <<openVars, row>>

\* last, counting from 1.
LastComp ==
    IF partial_key > 0 THEN partial_key
    ELSE IF weak THEN Len(keys[keyid]) - 1 ELSE Len(keys[keyid])

\* Mutant: the whole relation in every comparison.
CompOp_Whole == op

\* op[0] before the last column, op at the last.
CompOp == IF c = LastComp THEN op ELSE Strict(op)

\* Mutant: desc for the last column only.
Desc_Last == c = LastComp /\ Strict(op) = "<"
Desc == Strict(op) = "<"

\* The columns ORDER BY has after the last one compared: partial_key, the index
\* of the next column, is passed over.
Rest ==
    LET key == keys[keyid] IN
    IF partial_key > 0 THEN SubSeq(key, partial_key + 2, Len(key))
    ELSE IF weak THEN <<key[c + 1]>> ELSE <<>>

\* escape is given an apostrophe.
Quoted ==
    LET col == columns[keys[keyid][c]]
    IN  ~ col.num /\ Quote \in Range(Slice(record, col))

\* Its loop ends only when p is NULL: it copies past the field and past BUF, until
\* the process is killed.
escape ==
    /\ pc = "where" /\ c \in DOMAIN keys[keyid] /\ Quoted
    /\ pc' = "crashed"
    /\ UNCHANGED <<openVars, sqlVars, row>>

adiciona_comp ==
    /\ pc = "where" /\ c \in DOMAIN keys[keyid] /\ ~Quoted
    /\ LET col  == keys[keyid][c]
           comp == [col |-> col, op |-> CompOp,
                    how |-> IF c = LastComp THEN "last" ELSE IF op = "=" THEN "and" ELSE "or"]
       IN  /\ where' = Append(where, comp)
           /\ order' = order \o <<[col |-> col, desc |-> Desc]>>
                             \o (IF c = LastComp
                                 THEN [i \in DOMAIN Rest |-> [col |-> Rest[i], desc |-> FALSE]]
                                 ELSE <<>>)
    /\ c' = c + 1
    /\ pc' = IF c = LastComp THEN "declared" ELSE "where"
    /\ UNCHANGED <<openVars, record, keyid, asked, op, row>>

\* The lookup of READ, WRITE, REWRITE and DELETE, and of START of a weak table.
getwhere_prepared(k, r, leading) ==
    /\ pc = "open" /\ (leading => weak /\ Len(keys[k]) > 1)
    /\ record' = r /\ keyid' = k /\ op' = "="
    /\ asked' = IF leading THEN "leading" ELSE "lookup"
    /\ LET last == IF leading THEN Len(keys[k]) - 1 ELSE Len(keys[k])
       IN  where' = [i \in 1..last |-> [col |-> keys[k][i], op |-> "=",
                                        how |-> IF i = last THEN "last" ELSE "and"]]
    /\ order' = <<>> /\ c' = 1
    /\ pc' = "declared"
    /\ UNCHANGED <<openVars, row>>

\* The call returns; what it left is dropped, the next START closes the cursor.
Return ==
    /\ pc \in {"declared", "updated"}
    /\ pc' = "open"
    /\ record' = <<>> /\ keyid' = 1 /\ asked' = "none" /\ op' = "none" /\ c' = 1
    /\ where' = <<>> /\ order' = <<>> /\ row' = <<>>
    /\ UNCHANGED openVars

--------------------------------------------------------------------------------
(* op_rewrite                                                              *)

SameKey(r, s, k) == \A i \in Range(keys[k]) : Slice(r, columns[i]) = Slice(s, columns[i])

\* The WHERE of the UPDATE is given key fields with decimals without their point:
\* a number ten or more times larger, the key of another row or of none.
Matches(r) ==
    \A i \in Range(keys[1]) : columns[i].dec => \A b \in Range(Slice(r, columns[i])) : b = 1

FirstByte(i) == columns[i].offset + 1
LastByte(i)  == columns[i].offset + columns[i].len

\* Numbers outside the keys may have a sign.
SignedRows ==
    {r \in [1..RecordLen -> Bytes \cup {b + Sign : b \in Bytes}] :
        \A b \in 1..RecordLen : r[b] > Sign =>
            \E i \in DOMAIN columns :
                /\ columns[i].num /\ b = LastByte(i)
                /\ i \notin pk /\ \A k \in DOMAIN keys : i \notin Range(keys[k])}

Negative(r) == {i \in DOMAIN columns : columns[i].num /\ r[LastByte(i)] > Sign}

\* The minus sign takes the place of the first digit, with one digit a zero does.
Overlaid(r) == {FirstByte(i) : i \in Negative(r)}

\* The database has no negative zero.
Unsigned(r) ==
    {LastByte(i) : i \in
        {j \in Negative(r) :
            /\ \A b \in (FirstByte(j) + 1)..(LastByte(j) - 1) : r[b] = 1
            /\ columns[j].len > 1 => r[LastByte(j)] = Sign + 1}}

\* The record the values of the UPDATE are read back as.
Converted(r) ==
    [b \in 1..RecordLen |-> IF b \in Overlaid(r) \cup Unsigned(r) THEN 1 ELSE r[b]]

\* Byte b of a record is in a column marked pk.
Marked(b) == \E i \in pk : b - columns[i].offset \in 1..columns[i].len

\* The row after the UPDATE: the columns marked pk are not set.
Updated(old, r) ==
    [b \in 1..RecordLen |-> IF Marked(b) THEN old[b] ELSE Converted(r)[b]]

\* REWRITE of record r over the row old of the same key: status 00, whether or not
\* a row was updated.  An unchanged record is not written.
op_rewrite(old, r) ==
    /\ pc = "open" /\ SameKey(old, r, 1)
    /\ old = r \/ ~ (DOMAIN columns \subseteq pk)
    /\ row' = <<old, IF old # r /\ Matches(r) THEN Updated(old, r) ELSE old>>
    /\ record' = r
    /\ pc' = "updated"
    /\ UNCHANGED <<openVars, keyid, asked, op, c, where, order>>

\* With every column marked pk the UPDATE has no SET: PQprepare fails, exit(-1).
NoColumnToSet(old, r) ==
    /\ pc = "open" /\ SameKey(old, r, 1)
    /\ old # r /\ DOMAIN columns \subseteq pk
    /\ row' = <<old, old>> /\ record' = r
    /\ pc' = "exited"
    /\ UNCHANGED <<openVars, keyid, asked, op, c, where, order>>

Next ==
    \/ table_info
    \/ /\ pc = "open"
       /\ \/ \E k \in DOMAIN keys, r \in Records :
                \/ \E o \in {">", ">=", "<", "<=", "="} : getwhere(k, o, r)
                \/ \E leading \in BOOLEAN : getwhere_prepared(k, r, leading)
          \/ \E old, r \in SignedRows : op_rewrite(old, r) \/ NoColumnToSet(old, r)
    \/ escape
    \/ adiciona_comp
    \/ Return

Spec == Init /\ [][Next]_vars

--------------------------------------------------------------------------------
(* Properties                                                              *)

\* What the database makes of the WHERE: "a > x or ( a = x and ( rest ) )".
Rel(v, o, w, Less(_, _)) ==
    CASE o = ">" -> Less(w, v) [] o = "<" -> Less(v, w) [] o = "=" -> v = w
      [] o = ">=" -> ~Less(v, w) [] o = "<=" -> ~Less(w, v)

Less(v, w) == \E i \in DOMAIN v : v[i] < w[i] /\ \A j \in 1..(i - 1) : v[j] = w[j]

\* A comparison, with what the comparisons after it say.
Holds(r, t, rest) ==
    LET v == Slice(r, columns[t.col])
        w == Value(record, columns[t.col])
    IN  CASE t.how = "last" -> Rel(v, t.op, w, Less)
          [] t.how = "and"  -> Rel(v, t.op, w, Less) /\ rest
          [] t.how = "or"   -> Rel(v, t.op, w, Less) \/ (v = w /\ rest)

Sat(r) ==
    LET sat[i \in DOMAIN where] == Holds(r, where[i], sat[i + 1]) IN sat[1]

\* ORDER BY: r comes before s.
Before(r, s) ==
    \E i \in DOMAIN order :
        LET v(x) == Slice(x, columns[order[i].col])
            agree == \A j \in 1..(i - 1) :
                        Slice(r, columns[order[j].col]) = Slice(s, columns[order[j].col])
        IN  agree /\ (IF order[i].desc THEN Less(v(s), v(r)) ELSE Less(v(r), v(s)))

\* The key of a record as COBOL has it: the bytes of its components.
KeyBytes(r) ==
    FlattenSeq([p \in DOMAIN layout.keys[keyid] |->
        LET comp == layout.keys[keyid][p] IN SubSeq(r, comp.offset + 1, comp.offset + comp.len)])

\* The record area with low-values as the lowest value, see Value.
Lowest == [b \in DOMAIN record |-> IF record[b] = 0 THEN 1 ELSE record[b]]

KeyLen(n) == Width([i \in DOMAIN keys[keyid] |-> columns[keys[keyid][i]].len], n)

\* The leading columns a partial or weak START, or lookup, is by.
Leading ==
    IF partial_key > 0 /\ asked # "lookup" THEN KeyLen(partial_key)
    ELSE IF weak /\ asked # "lookup" THEN KeyLen(Len(keys[keyid]) - 1)
    ELSE Len(KeyBytes(record))

\* A START selects the records whose key, as a string of bytes over all of its
\* components, is in the given relation to the key in the record area; with a
\* partial key or a weak table those that have its leading columns; a lookup the
\* records with the same key.  Low-values in a field count as the lowest value:
\* unlike EXTFH, START > low-values passes over a record of lowest key.
SelectsRight ==
    pc = "declared" =>
        \A r \in Rows :
            LET n == Leading
                lead(x) == SubSeq(KeyBytes(x), 1, n)
            IN  Sat(r) <=> IF n < Len(KeyBytes(r)) \/ asked \in {"lookup", "leading"}
                                  \/ partial_key > 0
                           THEN lead(r) = lead(Lowest)
                           ELSE Rel(KeyBytes(r), asked, KeyBytes(Lowest), Less)

\* Two records first differ in the column that Rest leaves out.
LeftOut(r, s) ==
    /\ partial_key \in 1..(Len(keys[keyid]) - 1)
    /\ LET col == columns[keys[keyid][partial_key + 1]] IN Slice(r, col) # Slice(s, col)

\* READ NEXT gets the selected records in the order of their keys' bytes, READ
\* PREVIOUS after START < or <= in the reverse order; of a partial or weak key
\* always in ascending order.  The column after a partial key is not in the
\* ORDER BY: records that differ in it come in any order.
OrderRight ==
    pc = "declared" /\ asked \notin {"lookup", "leading"} =>
        \A r, s \in {x \in Rows : Sat(x)} :
            Less(KeyBytes(r), KeyBytes(s)) /\ ~LeftOut(r, s)
                => IF Strict(op) = "<" THEN Before(s, r) ELSE Before(r, s)

\* The bytes before a primary key of one component.
BeforeKey == IF Len(layout.keys[1]) = 1 THEN 1..layout.keys[1][1].offset ELSE {}

\* After a REWRITE the row is the record area, with three exceptions: the fields
\* before a primary key of one component keep their old values, because getkeys
\* marks them pk; a negative number loses its first digit, and its sign when that
\* leaves zero; and when a field of the primary key has decimals nothing is updated.
\* It ends the process only when such a key reaches to the end of the record and a
\* field before it was to change.
RewriteWhole ==
    /\ pc = "updated" =>
        \/ \A b \in 1..RecordLen :
               \/ row[2][b] = IF b \in BeforeKey THEN row[1][b] ELSE record[b]
               \/ b \in Overlaid(record) \cup Unsigned(record)
        \/ \E i \in Range(keys[1]) : columns[i].dec
    /\ pc = "exited" =>
        /\ \E b \in BeforeKey : row[1][b] # record[b]
        /\ layout.keys[1][1].offset + layout.keys[1][1].len = RecordLen
================================================================================
