------------------------------- MODULE TableSync -------------------------------
(***************************************************************************)
(* The commands CMP, SYNC, LOAD, COPY: and CMPISAM, which a program writes *)
(* to the file "pqfh": cmp_table.c, load_table.c, copy_table.c, cmp_isam.c *)
(* and their calls in command.c.  CMP and SYNC merge a cursor on the table *)
(* with the records of the ISAM file of the same name; SYNC also brings    *)
(* the table up to date, LOAD fills it again, CMPISAM compares two ISAM    *)
(* files.  One call of op_write, op_rewrite or op_delete is one step with  *)
(* the READs after it, for any of them can fail.                           *)
(*                                                                         *)
(* A record is its key and one other column, a few bytes of a string or a  *)
(* number, whose last byte has the sign.  What the database keeps of them  *)
(* and what reccmp makes of them are not always the same.  The file that   *)
(* is compared is the last one opened; the program may have updates of its *)
(* own in the open transaction, which may have failed.                     *)
(***************************************************************************)
EXTENDS Naturals, Sequences

CONSTANTS
    Keys,           \* the keys, in the order of memcmp
    Types,          \* the types of the column: "s" string, "n" number
    Tables, Files,  \* for each type, the rows and the records to begin with
    Earlier,        \* and the rows that may be committed where they are not
    Orders,         \* the order of each scan, what op_delete looks up by, and the
                    \* keys that op_start shows (those of one owner in a weak table)
    Bad,            \* keys the ISAM file may have that are not a number
    Stores,         \* "B": the file is a table, "I": an ISAM file
    Faults,         \* whether EXTFH may fail
    Started,        \* whether the program may have left a START without its READ
    MaxCommands     \* bound on the number of commands

None == <<>>
NUL == 0
SP  == 32
ZERO == 48
Digits == 48 .. 57
Sign == 64          \* 0x40 in the last byte of a negative number
Minus == 45
LowKey == 0         \* the key that is all NUL
ASSUME KeysAssumption == Keys \subseteq Nat /\ Bad \subseteq Keys
ASSUME TypesAssumption == Types \subseteq {"s", "n"}

\* A column is a sequence of bytes below 0x80, in a number no '+', '-' or '.'; no
\* bytes where there is no record.  An order gives every key its place.
Bytes(t) == IF t = "n" THEN 0 .. 127 \ {43, 45, 46} ELSE 0 .. 127
ASSUME ContentsAssumption ==
    \A t \in Types : Tables[t] \cup Files[t] \cup Earlier[t] \subseteq [Keys -> Seq(Bytes(t))]
ASSUME OrdersAssumption ==
    \A o \in Orders :
        o.seen \subseteq Keys /\ \A rank \in {o.bd, o.isam, o.ref} : rank \in [Keys -> Nat]

VARIABLES
    table, saved,   \* the rows in the open transaction; committed
    dest,           \* the table COPY: makes: its rows, <<>> if there is none
    other,          \* the table opened before: "none", it has "rows", it is "empty"
    aborted,        \* the open transaction has failed
    isam,           \* the records of the ISAM file
    tp,             \* col->tp of the column
    store,          \* "B": the file is a table; "I": "table" is an ISAM file too
    order,          \* the key of reference of the last call, the collation
    remembered,     \* <<>>, or tab->rec_next when tab->restart = 'n'
    prepared,       \* the statements prepared so far, by the program's calls too
    command,        \* the command that runs, "idle" or "exited"
    snap, bdLeft, isLeft,  \* the rows of the cursor; the keys still to be read
    bd, is,         \* the records just read; <<>> when the status is not 00
    log,            \* what <table>_cmp.log says
    commands,       \* the number of commands given
    last, before,   \* history: the command, the table it found
    base,           \* history: what was committed then
    astray,         \* history: it found a remembered row
    undone          \* history: its work was rolled back

dbVars   == <<table, saved, dest, other, aborted>>
fixed    == <<isam, tp, store, order>>
scanVars == <<snap, bdLeft, isLeft, bd, is, log>>
history  == <<commands, last, before, base, astray>>
vars == <<dbVars, fixed, remembered, prepared, command, scanVars, history, undone>>

\* What a scan of a file can show.  START > low values passes by the record whose
\* key is all NUL; the database has no such row.
Rows(f) == {k \in Keys \ {LowKey} : f[k] # None}
NoLow(f) == LowKey \in Keys => f[LowKey] = None
Blank == [k \in Keys |-> None]

\* is_weak: the cursor has the rows of one owner, that of low values, only.
Weak == order.seen # Keys

Init ==
    /\ tp \in Types
    /\ store \in Stores
    /\ table \in Tables[tp] /\ saved \in {table} \cup Earlier[tp] /\ aborted \in BOOLEAN
    /\ IF store = "B" THEN NoLow(table) /\ NoLow(saved) ELSE saved = table /\ ~aborted
    /\ dest = Blank /\ other \in (IF store = "B" THEN {"none"} ELSE {"none", "rows"})
    /\ isam \in Files[tp]
    /\ order \in Orders
    /\ remembered \in {None} \cup
           (IF Started /\ store = "B" /\ ~Weak THEN {<<k, table[k]>> : k \in Rows(table)} ELSE {})
    /\ prepared \in {{}, {"read", "insert"}}
    /\ command = "idle" /\ commands = 0
    /\ snap = table /\ bdLeft = {} /\ isLeft = {} /\ bd = None /\ is = None /\ log = {}
    /\ last = "none" /\ before = table /\ base = saved
    /\ astray = FALSE /\ undone = FALSE

--------------------------------------------------------------------------------
(* What becomes of the bytes of the column.                                *)

\* Mutant: reccmp compares the record of the ISAM file as it is.
Compared_Raw(v) == v

\* reccmp: what stands for a NUL (and, in a number, for a space) of the record.
Compared(v) ==
    LET fill == IF tp = "s" THEN SP ELSE ZERO
    IN  [i \in DOMAIN v |-> IF v[i] = NUL \/ (tp = "n" /\ v[i] = SP) THEN fill ELSE v[i]]

\* The number of bytes before the first NUL: libpq takes no more of a text value.
Length(v) == CHOOSE n \in 0 .. Len(v) :
                 (\A i \in 1 .. n : v[i] # NUL) /\ (n < Len(v) => v[n + 1] = NUL)

Negative(v) == tp = "n" /\ v # None /\ v[Len(v)] >= Sign

\* What op_write and op_rewrite send: the minus sign of a number takes the place
\* of its first digit, a number of one digit becomes a zero.
Sent(v) ==
    IF ~Negative(v) THEN v
    ELSE IF Len(v) = 1 THEN <<ZERO>>
    ELSE [v EXCEPT ![1] = Minus, ![Len(v)] = @ - Sign]

\* A minus sign and nothing else is no number: the statement fails.
Refused(v) == Negative(v) /\ Len(v) > 1 /\ Length(Sent(v)) = 1

\* The digits of a number as pq2cob has them, zeros before them; valida_numero
\* has made zeros of what is no digit.
Digit(v, i) ==
    LET d == Len(v) - Length(Sent(v))
    IN  IF i <= d \/ Sent(v)[i - d] \notin Digits THEN ZERO ELSE Sent(v)[i - d]

\* What pq2cob reads back: a string with spaces after it, a number with its sign;
\* there is no negative zero.
Stored(v) ==
    IF tp = "s" THEN [i \in DOMAIN v |-> IF i <= Length(v) THEN v[i] ELSE SP]
    ELSE LET minus == Negative(v) /\ \E i \in DOMAIN v : Digit(v, i) # ZERO
         IN  [i \in DOMAIN v |-> IF minus /\ i = Len(v) THEN Digit(v, i) + Sign ELSE Digit(v, i)]

\* CMPISAM compares the bytes of both.
Differ(v, w) == IF store = "B" THEN v # Compared(w) ELSE v # w

--------------------------------------------------------------------------------
(* The scans.                                                              *)

FirstOf(S, rank) == CHOOSE k \in S : \A j \in S : rank[k] <= rank[j]

\* op_next_prev: the next row of the cursor.  A FETCH that fails is taken for
\* the end, as is an error of EXTFH when the first file is an ISAM file.
NextBd(rows, left, failed) ==
    \/ /\ ~failed /\ left # {}
       /\ LET k == FirstOf(left, order.bd)
          IN  bd' = <<k, rows[k]>> /\ bdLeft' = left \ {k}
    \/ /\ failed \/ left = {} \/ (Faults /\ store = "I")
       /\ bd' = None /\ bdLeft' = left

\* Mutant: the record is read again and again.
NextIsam_Again(left) ==
    IF left = {} THEN is' = None /\ isLeft' = {}
    ELSE LET k == FirstOf(left, order.isam) IN is' = <<k, isam[k]>> /\ isLeft' = left

\* READ NEXT of the ISAM file; an error, logged by errorisam, is taken for its end.
NextIsam(left) ==
    \/ /\ left # {}
       /\ LET k == FirstOf(left, order.isam)
          IN  is' = <<k, isam[k]>> /\ isLeft' = left \ {k}
    \/ /\ left = {} \/ Faults
       /\ is' = None /\ isLeft' = left

--------------------------------------------------------------------------------
(* The updates of the table.                                               *)

\* Nothing is prepared in a failed transaction: exit(-1).
Prepares(s) == aborted => s \subseteq prepared

Fails == aborted' = TRUE /\ UNCHANGED table
Does(newTable) == aborted' = FALSE /\ table' = newTable

\* op_write: a record that exists is left alone (22).
op_write(r) ==
    LET there == ~aborted /\ table[r[1]] # None
    IN  /\ prepared' = prepared \cup (IF there THEN {"read"} ELSE {"read", "insert"})
        /\ \/ there /\ UNCHANGED <<table, aborted>>
           \/ ~there /\ ~aborted /\ ~Refused(r[2]) /\ Does([table EXCEPT ![r[1]] = Stored(r[2])])
           \/ ~there /\ Fails

\* op_rewrite: 23 when the record is not found, whatever the reason.
op_rewrite(r) ==
    LET there == ~aborted /\ table[r[1]] # None
    IN  /\ prepared' = prepared \cup (IF there THEN {"read", "update"} ELSE {"read"})
        /\ \/ there /\ ~Refused(r[2]) /\ Does([table EXCEPT ![r[1]] = Stored(r[2])])
           \/ there /\ Fails
           \/ ~there /\ UNCHANGED <<table, aborted>>

\* The statement of op_read_random for the key of reference.
ReadRef == IF order.alt THEN "readref" ELSE "read"

\* op_delete: the row that the key of reference finds.
op_delete(r) ==
    LET read  == ReadRef
        found == {k \in Rows(table) : ~aborted /\ order.ref[k] = order.ref[r[1]]}
    IN  /\ prepared' = prepared \cup (IF found # {} THEN {read, "delete"} ELSE {read})
        /\ \/ \E k \in found : Does([table EXCEPT ![k] = None])
           \/ found # {} /\ Fails
           \/ found = {} /\ UNCHANGED <<table, aborted>>

\* exit(-1): the server rolls back what is not committed.
Exit(committed) ==
    /\ command' = "exited" /\ undone' = (committed = saved)
    /\ saved' = committed /\ table' = committed /\ aborted' = FALSE
    /\ UNCHANGED <<dest, other, fixed, remembered, prepared, scanVars, history>>

\* The validator ends the process for a key that is not a number; the commit
\* thread may see "fatal" first and commit.
ExitFatal == Exit(saved) \/ (~aborted /\ Exit(table))

--------------------------------------------------------------------------------
(* cmp_table, and cmp_isam, whose loop is the same without the updates     *)

Begin(c) ==
    /\ command = "idle" /\ commands < MaxCommands
    /\ last' = c
    /\ commands' = commands + 1
    /\ before' = table /\ base' = saved
    /\ astray' = (remembered # None)

\* OPEN INPUT and START of the ISAM file; op_start of the table, whose own
\* READ NEXT takes a remembered row for the first one; READ NEXT of both.  In a
\* failed transaction op_start goes on only where the lookup in a weak table fails.
cmp_table(c) ==
    /\ c \in (IF store = "B" THEN {"CMP", "SYNC"} ELSE {"CMPISAM"})
    /\ aborted => Weak
    /\ Begin(c)
    /\ command' = c /\ undone' = FALSE
    /\ log' = {} /\ snap' = table
    /\ IF remembered # None THEN bd' = remembered /\ bdLeft' = Rows(table)
       ELSE NextBd(table, IF store = "B" THEN Rows(table) \cap order.seen ELSE Rows(table), aborted)
    /\ remembered' = None
    /\ NextIsam(Rows(isam))
    /\ UNCHANGED <<dbVars, fixed, prepared>>

\* DECLARE, or the PREPARE for the weak table, in a failed transaction: exit(-1).
DeclareExit ==
    /\ command = "idle" /\ commands < MaxCommands
    /\ store = "B" /\ aborted /\ Exit(saved)

\* No file was opened yet, or <table>_cmp.log cannot be written.
Returns ==
    /\ command = "idle" /\ commands < MaxCommands
    /\ commands' = commands + 1
    /\ UNCHANGED <<dbVars, fixed, remembered, prepared, command, scanVars, last, before, base,
                   astray, undone>>

Comparing == command \in {"CMP", "SYNC", "CMPISAM"}

\* Mutant: the record with the larger key is taken for the one that is alone.
Side_Swapped ==
    IF bd = None THEN "-" ELSE IF is = None THEN "+"
    ELSE IF bd[1] = is[1] THEN "=" ELSE IF bd[1] > is[1] THEN "+" ELSE "-"

\* Which record this turn of the loop is about: keys are compared by memcmp.
Side ==
    IF bd = None THEN "-" ELSE IF is = None THEN "+"
    ELSE IF bd[1] = is[1] THEN "=" ELSE IF bd[1] > is[1] THEN "-" ELSE "+"

Turn(side) ==
    /\ Comparing /\ (bd # None \/ is # None) /\ Side = side
    /\ UNCHANGED <<saved, dest, other, fixed, remembered, command, snap, history, undone>>

\* Only SYNC touches the table.
Update(statements, op) ==
    IF command = "SYNC" THEN Prepares(statements) /\ op ELSE UNCHANGED <<table, aborted, prepared>>

\* "chaves iguais - compara registros"
Equal ==
    /\ Turn("=")
    /\ IF Differ(bd[2], is[2])
       THEN /\ log' = log \cup {<<"<>", bd[1]>>}
            /\ Update({"read"}, op_rewrite(is))
       ELSE UNCHANGED <<log, table, aborted, prepared>>
    /\ NextBd(snap, bdLeft, aborted')
    /\ NextIsam(isLeft)

\* "o registro existe apenas no arquivo 2(isam)"
OnlyIsam ==
    /\ Turn("-") /\ ~ (command = "SYNC" /\ is[1] \in Bad)
    /\ log' = log \cup {<<"-", is[1]>>}
    /\ Update({"read", "insert"}, op_write(is))
    /\ NextIsam(isLeft)
    /\ UNCHANGED <<bd, bdLeft>>

\* "o registro existe apenas no arquivo 1(banco)"
OnlyBd ==
    /\ Turn("+")
    /\ log' = log \cup {<<"+", bd[1]>>}
    /\ Update({ReadRef}, op_delete(bd))
    /\ NextBd(snap, bdLeft, aborted')
    /\ UNCHANGED <<is, isLeft>>

\* A statement that has to be prepared first.
Unprepared ==
    \/ command = "SYNC" /\ bd # None /\ Side = "+" /\ ~Prepares({ReadRef}) /\ Exit(saved)
    \/ command = "SYNC" /\ is # None /\ Side = "-" /\ ~Prepares({"read", "insert"}) /\ Exit(saved)
    \/ command = "LOAD" /\ is # None /\ ~Prepares({"read", "insert"}) /\ Exit(saved)

Fatal ==
    /\ is # None /\ is[1] \in Bad
    /\ command = "LOAD" \/ (command = "SYNC" /\ Side = "-")
    /\ ExitFatal

--------------------------------------------------------------------------------
(* load_table, copy_table, and the end of the commands                     *)

\* TRUNCATE may fail; OPEN, START and READ NEXT of the ISAM file.
load_table ==
    /\ store = "B" /\ Begin("LOAD")
    /\ command' = "LOAD" /\ undone' = FALSE
    /\ (~aborted /\ Does(Blank)) \/ Fails
    /\ NextIsam(Rows(isam))
    /\ bd' = None /\ bdLeft' = {}
    /\ UNCHANGED <<saved, dest, other, fixed, remembered, prepared, snap, log>>

\* Nobody asks whether the last file opened is a table: the TRUNCATE is that of
\* the table opened before.  op_write takes what is in the fcd for a table_t, so
\* the command ends, and commits, only if no record is read.
LoadElsewhere ==
    /\ store = "I" /\ command = "idle" /\ commands < MaxCommands
    /\ \/ Exit(saved)
       \/ /\ other # "none" /\ (Rows(table) = {} \/ Faults)
          /\ other' = "empty" /\ commands' = commands + 1
          /\ UNCHANGED <<table, saved, dest, aborted, fixed, remembered, prepared, command, scanVars,
                         last, before, base, astray, undone>>

LoadWrite ==
    /\ command = "LOAD" /\ is # None /\ is[1] \notin Bad
    /\ Prepares({"read", "insert"}) /\ op_write(is)
    /\ NextIsam(isLeft)
    /\ UNCHANGED <<saved, dest, other, fixed, remembered, command, snap, bd, bdLeft, log, history,
                   undone>>

\* Mutant: the work of a command that failed is kept.
commit_Partly == saved' = table /\ UNCHANGED table /\ aborted' = FALSE

\* COMMIT of a failed transaction is a ROLLBACK; then BEGIN.
commit ==
    LET end == IF aborted THEN saved ELSE table
    IN  saved' = end /\ table' = end /\ aborted' = FALSE

\* CMP and CMPISAM do not commit.
Done ==
    /\ Comparing \/ command = "LOAD"
    /\ bd = None /\ is = None
    /\ command' = "idle"
    /\ IF command \in {"SYNC", "LOAD"}
       THEN commit /\ undone' = aborted
       ELSE UNCHANGED <<table, saved, aborted, undone>>
    /\ UNCHANGED <<dest, other, fixed, remembered, prepared, scanVars, history>>

\* DROP and CREATE are one transaction, with what the program has not committed:
\* one that fails undoes all of it; but the command returns, and commits, when
\* there is no source.
copy_table ==
    /\ store = "B" /\ Begin("COPY")
    /\ \/ ~aborted /\ dest' \in {table, None} /\ saved' = table /\ undone' = FALSE
       \/ dest' = dest /\ saved' = saved /\ undone' = TRUE
    /\ table' = saved' /\ aborted' = FALSE
    /\ UNCHANGED <<other, fixed, remembered, prepared, command, scanVars>>

Loop == Equal \/ OnlyIsam \/ OnlyBd \/ LoadWrite \/ Unprepared \/ Fatal \/ Done

Next ==
    \/ \E c \in {"CMP", "SYNC", "CMPISAM"} : cmp_table(c)
    \/ load_table \/ LoadElsewhere \/ copy_table \/ DeclareExit \/ Returns
    \/ Loop

Spec == Init /\ [][Next]_vars /\ WF_vars(Loop)

--------------------------------------------------------------------------------
(* Properties                                                              *)

Rest == command \in {"idle", "exited"}

\* Both scans are in the order of the primary key, op_start had no row remembered
\* and shows the whole table: the merge can work.
Straight ==
    /\ ~astray /\ ~Weak
    /\ \A j, k \in Keys : j < k => order.bd[j] < order.bd[k] /\ order.isam[j] < order.isam[k]
    /\ \A j, k \in Keys : order.ref[j] = order.ref[k] => j = k

\* The ISAM file was read to its end, and so was the first file.
IsamRead == is = None /\ isLeft = {}
BdRead == bd = None /\ bdLeft = {}

\* cmp_table.c, cmp_isam.c: when both were read to the end in the order of the
\* primary key, the log names exactly the records that are in one store only
\* and those whose contents differ, but for a record whose key is all NUL.
LogRight ==
    command = "idle" /\ last \in {"CMP", "CMPISAM", "SYNC"} /\ Straight /\ IsamRead /\ BdRead
    => log = {<<"+", k>> : k \in Rows(before) \ Rows(isam)}
             \cup {<<"-", k>> : k \in Rows(isam) \ Rows(before)}
             \cup {<<"<>", k>> : k \in {j \in Rows(isam) \cap Rows(before) :
                                           Differ(before[j], isam[j])}}

\* What the table is to be: the contents of the ISAM file as the database keeps
\* them, and the old row where reccmp finds no difference.
Right(k) ==
    IF k \notin Rows(isam) THEN None
    ELSE IF last = "SYNC" /\ before[k] # None /\ ~Differ(before[k], isam[k]) THEN before[k]
    ELSE Stored(isam[k])

\* SYNC and LOAD are all or nothing: once the command is over the committed
\* table is that of the ISAM file, or, when a statement failed, the one that was
\* committed before, without the updates the program had not committed; provided
\* the ISAM file was read to its end, no key of it was refused by the validator
\* and, for SYNC, the merge was in the order of the primary key.
AllOrNothing ==
    Rest /\ last \in {"SYNC", "LOAD"} =>
        \/ undone /\ saved = base
        \/ ~undone /\ command = "idle" /\ saved = [k \in Keys |-> Right(k)]
        \/ ~undone /\ (~IsamRead \/ (last = "SYNC" /\ ~Straight))

\* Bytes that op_write loses or moves because of a NUL, that are no digits, or
\* that are under the minus sign; the sign of zero.
Broken(v) ==
    \/ tp = "s" /\ \E i, j \in DOMAIN v : v[i] = NUL /\ v[j] \notin {NUL, SP} /\ i < j
    \/ tp = "n" /\ \E i \in DOMAIN v :
           /\ v[i] \notin Digits \cup {NUL, SP}
           /\ Negative(v) /\ i = Len(v) => v[i] - Sign \notin Digits
    \/ tp = "n" /\ \E i, j \in DOMAIN v :
           v[i] = NUL /\ v[j] \notin {NUL, SP, ZERO} /\ ~ (Negative(v) /\ i = 1)
    \/ Negative(v) /\ v[1] \notin {NUL, SP, ZERO}
    \/ Negative(v) /\ v[Len(v)] = ZERO + Sign /\ \A i \in 2 .. (Len(v) - 1) : v[i] \in {SP, ZERO}

\* A SYNC that went well leaves nothing for the next CMP to find, except the
\* records with bytes the database does not keep: reccmp and what op_write,
\* op_rewrite and pq2cob do to a column agree on all others, also on negative
\* numbers whose first digit is a zero.
SyncSettles ==
    command = "idle" /\ last \in {"SYNC", "LOAD"} /\ ~undone /\ Straight /\ IsamRead
    => \A k \in Rows(isam) :
           saved[k] # None /\ (Differ(saved[k], isam[k]) => Broken(isam[k]))

\* Every command comes to an end, whatever fails on the way.
CommandEnds == command \notin {"idle", "exited"} ~> command \in {"idle", "exited"}

\* cmp_table.c, "o registro existe apenas no arquivo 1(banco)": when the scans
\* are in order SYNC deletes a row only if the ISAM file does not have its key,
\* or if an error of EXTFH was taken for the end of that file.
OnlyInDatabase ==
    [][OnlyBd /\ command = "SYNC" /\ Straight
        => isam[bd[1]] = None \/ (is = None /\ isLeft # {})]_vars
================================================================================
