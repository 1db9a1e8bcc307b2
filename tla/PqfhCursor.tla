------------------------------- MODULE PqfhCursor ------------------------------
(***************************************************************************)
(* START, READ NEXT and READ PREVIOUS of one open file in mode B (the same *)
(* code in mode A): op_start.c and op_next_prev.c.  START declares a       *)
(* cursor WITH HOLD and fetches its first row; READ only fetches.  A START *)
(* at the key of the last row read takes a shortcut: the cursor stays, and *)
(* the next READ returns the remembered row (restart).  A "weak" table is  *)
(* always read by the leading part of its key (its group).                 *)
(*                                                                         *)
(* The updates and the ends of transactions are here for what they do to   *)
(* the cursor: a cursor declared in a transaction that is rolled back is   *)
(* gone, and a statement that fails makes the others fail.  Other open     *)
(* files share the transaction and the flag eof_start, which is one global *)
(* of the library.  A key stands for its record; one key of reference.     *)
(***************************************************************************)
EXTENDS Naturals, FiniteSets

CONSTANTS
    Keys,           \* key values
    Group,          \* the leading part of each key
    Touched,        \* the keys of the calls that are by key
    Ops,            \* the relations of START the program uses, of a weak table or not
    Hasty           \* the program STARTs again, or reads by key, before it READs

ASSUME KeysAssumption == Keys \subseteq Nat \ {0} /\ Touched \subseteq Keys
ASSUME OpsAssumption  == Ops \in [BOOLEAN -> SUBSET {">", ">=", "<", "<=", "="}]
ASSUME HastyAssumption == Hasty \in BOOLEAN

VARIABLES
    exited,
    weak,           \* the table is in the list of WEAK: tables
    table, saved,   \* the rows in the open transaction; committed
    aborted,        \* the open transaction has failed
    cursor,         \* tab->cursor: one has been declared
    live, held,     \* the server has it; it survives a rollback
    todo, desc,     \* its rows not yet fetched, and their order
    first, restart, key_next, key_prev, buf_next, buf_prev,
    eof_start,      \* the global of op_start.c, shared by all files
    prepared,       \* the statement of op_read_random: no, full, partial key
    rec, status,
    dir,            \* history: direction of the last START
    want, checked,  \* history: what READ must still return; see ScanRight
    intact,         \* history: the remembered row is the last one fetched
    inserted,       \* history: keys written since the cursor was declared
    own_eof,        \* history: what eof_start would be if each file had its own
    spoiled,        \* history: a statement failed, a transaction was rolled back
    badkey          \* history: the process ended over a key that is no number

dbVars  == <<table, saved, aborted>>
curVars == <<cursor, live, held, todo, desc>>
tabVars == <<first, restart, key_next, key_prev, buf_next, buf_prev, eof_start>>
scanVars == <<dir, want, checked, intact, own_eof>>
vars == <<exited, weak, dbVars, curVars, tabVars, prepared, rec, status,
          scanVars, inserted, spoiled, badkey>>

Init ==
    /\ exited = FALSE /\ weak \in {w \in BOOLEAN : Ops[w] # {}}
    /\ table \in SUBSET Keys /\ saved = table /\ aborted = FALSE
    /\ cursor = FALSE /\ live = FALSE /\ held = FALSE /\ todo = {} /\ desc = FALSE
    /\ first = FALSE /\ restart = "0" /\ eof_start = FALSE
    /\ key_next = FALSE /\ key_prev = FALSE /\ buf_next = 0 /\ buf_prev = 0
    /\ prepared = "no"
    /\ rec = 0 /\ status = "00"
    /\ dir = "0" /\ want = {} /\ checked = FALSE /\ intact = FALSE
    /\ own_eof = FALSE /\ inserted = {} /\ spoiled = FALSE /\ badkey = FALSE

--------------------------------------------------------------------------------
\* The next key of S in the given order.
NextOf(S, down) ==
    CHOOSE k \in S : \A j \in S : IF down THEN k >= j ELSE k <= j

\* getwhere: the rows a cursor of START o at key k is declared for.
getwhere(S, o, k) ==
    {j \in S : IF weak THEN Group[j] = Group[k]
               ELSE CASE o = ">" -> j > k [] o = ">=" -> j >= k [] o = "<" -> j < k
                      [] o = "<=" -> j <= k [] o = "=" -> j = k}

Backward(o) == o \in {"<", "<="}
Dir(o) == IF Backward(o) THEN "p" ELSE "n"

\* A weak cursor is in ascending order whatever the relation.
Down(o) == Backward(o) /\ ~weak

\* The statement of op_read_random is prepared once, by the first who needs it.
Prepare(how) == IF prepared = "no" THEN how ELSE prepared

\* exit(-1): a statement that cannot be prepared, a cursor that cannot be declared.
Exit ==
    /\ exited' = TRUE
    /\ UNCHANGED <<weak, dbVars, curVars, tabVars, prepared, rec, status,
                   scanVars, inserted, spoiled>>

\* The SELECT of op_read_random fails on a parameter that is no number.
SelectFails(how) ==
    /\ prepared' = Prepare(how)
    /\ rec' = 0
    /\ aborted' = TRUE /\ spoiled' = TRUE

--------------------------------------------------------------------------------
(* op_start                                                                *)

\* A row that START found and no READ has taken yet.
Pending == first \/ restart # "0"

Starting(o) == o \in Ops[weak] /\ ~exited /\ (Pending => Hasty)

\* "se ja foi feito um read next com a mesma chave nao executa novamente"
Shortcut(o, k) ==
    IF Backward(o) THEN key_prev /\ k = buf_prev ELSE key_next /\ k = buf_next

Restart(o) == CASE o = ">=" -> "n" [] o = "<=" -> "p" [] OTHER -> restart

\* Mutant: START does not clear the flag.
EofStart_Kept == eof_start

EofStart == FALSE

StartShortcut(o, k) ==
    /\ Starting(o) /\ Shortcut(o, k)
    /\ restart' = Restart(o)
    /\ eof_start' = EofStart
    /\ rec' = k /\ status' = "00"
    /\ dir' = Dir(o)
    /\ want' = getwhere(table \ inserted, o, k)
    /\ own_eof' = eof_start'
    /\ intact' = (intact /\ dir = Dir(o))
    /\ checked' = (intact' /\ live /\ o # "=" /\ ~weak)
    /\ UNCHANGED <<exited, weak, dbVars, curVars, first, key_next, key_prev,
                   buf_next, buf_prev, prepared, inserted, spoiled, badkey>>

\* op_read_random with the statement prepared first, by either kind of key.
Found(k, how) ==
    {j \in table : IF how = "partial" THEN Group[j] = Group[k] ELSE j = k}

\* A weak table is looked up first: nothing there, or the SELECT fails.
StartWeak(o, k) ==
    /\ Starting(o) /\ ~Shortcut(o, k) /\ weak
    /\ ~ (aborted /\ prepared = "no")
    /\ Found(k, Prepare("partial")) = {} \/ aborted
    /\ prepared' = Prepare("partial")
    /\ eof_start' = TRUE
    /\ rec' = k /\ status' = "23"
    /\ dir' = Dir(o) /\ want' = {}
    /\ own_eof' = eof_start'
    /\ checked' = TRUE /\ intact' = FALSE
    /\ UNCHANGED <<exited, weak, dbVars, curVars, first, restart, key_next, key_prev,
                   buf_next, buf_prev, inserted, spoiled, badkey>>

\* The SELECT of a weak table found a row; any other table goes on at once.
LooksUp(k) == weak => ~aborted /\ Found(k, Prepare("partial")) # {}

\* Mutant: close_cursor is not called, the name is still in use.
CanDeclare_NotClosed == ~aborted /\ ~cursor

\* close_cursor fails on a cursor that a rollback took away; after any failure
\* DECLARE fails too.
CanDeclare == ~aborted /\ (cursor => live)

StartExit(o, k) ==
    /\ Starting(o) /\ ~Shortcut(o, k)
    /\ \/ LooksUp(k) /\ ~CanDeclare
       \/ weak /\ aborted /\ prepared = "no"
    /\ Exit
    /\ UNCHANGED badkey

\* The record area has something else than digits in a numeric column of the
\* key.  getwhere puts the bytes into the DECLARE as they are, which the
\* server refuses.  A weak table is looked up first: valida_comando ends the
\* process, or, if its log cannot be opened, lets the SELECT fail.
StartBad(o) ==
    /\ Starting(o)
    /\ \/ Exit /\ badkey' = TRUE
       \/ /\ weak /\ ~ (aborted /\ prepared = "no")
          /\ SelectFails("partial")
          /\ eof_start' = TRUE /\ own_eof' = TRUE
          /\ status' = "23"
          /\ dir' = Dir(o) /\ want' = {}
          /\ checked' = TRUE /\ intact' = FALSE
          /\ UNCHANGED <<exited, weak, table, saved, curVars, first, restart, key_next,
                         key_prev, buf_next, buf_prev, inserted, badkey>>

\* The internal op_next_prev of START: a pending restart is taken for the row.
FirstRow(o, k) ==
    LET d    == Dir(o)
        rows == getwhere(table, o, k)
        row  == NextOf(rows, Down(o))
    IN  IF restart = d
        THEN /\ rec' = IF d = "n" THEN buf_next ELSE buf_prev
             /\ todo' = rows
             /\ status' = "00" /\ first' = TRUE /\ intact' = FALSE
             /\ UNCHANGED <<buf_next, buf_prev>>
        ELSE IF rows = {}
        THEN /\ rec' = k /\ todo' = {}
             /\ status' = "23" /\ first' = FALSE /\ intact' = FALSE
             /\ UNCHANGED <<buf_next, buf_prev>>
        ELSE /\ rec' = row /\ todo' = rows \ {row}
             /\ status' = "00" /\ first' = TRUE /\ intact' = TRUE
             /\ buf_next' = IF d = "n" THEN row ELSE buf_next
             /\ buf_prev' = IF d = "p" THEN row ELSE buf_prev

StartDeclare(o, k) ==
    /\ Starting(o) /\ ~Shortcut(o, k)
    /\ LooksUp(k) /\ CanDeclare
    /\ prepared' = IF weak THEN Prepare("partial") ELSE prepared
    /\ cursor' = TRUE /\ live' = TRUE /\ held' = FALSE /\ desc' = Down(o)
    /\ FirstRow(o, k)
    /\ restart' = "0"
    /\ eof_start' = EofStart
    /\ key_next' = (key_next \/ Dir(o) = "n")
    /\ key_prev' = (key_prev \/ Dir(o) = "p")
    /\ dir' = Dir(o)
    /\ want' = getwhere(table, o, k) /\ checked' = TRUE
    /\ own_eof' = eof_start'
    /\ inserted' = {}
    /\ UNCHANGED <<exited, weak, dbVars, spoiled, badkey>>

op_start(o, k) ==
    StartShortcut(o, k) \/ StartWeak(o, k) \/ StartExit(o, k) \/ StartDeclare(o, k)

--------------------------------------------------------------------------------
(* op_next_prev                                                            *)

\* A READ the other way leaves the scan that START began.
Turn(d) ==
    /\ dir' = IF d = dir THEN dir ELSE "0"
    /\ checked' = (checked /\ d = dir)
    /\ intact' = (intact /\ d = dir)
    /\ UNCHANGED <<own_eof, badkey>>

\* The row START fetched is still in the record area.
ReadFirst(d) ==
    /\ ~exited /\ first
    /\ first' = FALSE
    /\ status' = "00"
    /\ want' = want \ {rec}
    /\ Turn(d)
    /\ UNCHANGED <<exited, weak, dbVars, curVars, restart, key_next, key_prev, buf_next,
                   buf_prev, eof_start, prepared, rec, inserted, spoiled>>

ReadEof(d) ==
    /\ ~exited /\ ~first /\ eof_start
    /\ status' = "10"
    /\ Turn(d)
    /\ UNCHANGED <<exited, weak, dbVars, curVars, tabVars, prepared, rec, want,
                   inserted, spoiled>>

ReadRestart(d) ==
    /\ ~exited /\ ~first /\ ~eof_start /\ restart = d
    /\ rec' = IF d = "n" THEN buf_next ELSE buf_prev
    /\ restart' = "0"
    /\ status' = "00"
    /\ want' = want \ {rec'}
    /\ Turn(d)
    /\ UNCHANGED <<exited, weak, dbVars, curVars, first, key_next, key_prev, buf_next,
                   buf_prev, eof_start, prepared, inserted, spoiled, badkey>>

\* "fetch next in cursor", whatever the direction.
ReadFetch(d) ==
    /\ ~exited /\ ~first /\ ~eof_start /\ restart # d
    /\ live /\ ~aborted /\ todo # {}
    /\ LET row == NextOf(todo, desc)
       IN  /\ rec' = row /\ todo' = todo \ {row}
           /\ buf_next' = IF d = "n" THEN row ELSE buf_next
           /\ buf_prev' = IF d = "p" THEN row ELSE buf_prev
           /\ want' = want \ {row}
    /\ restart' = "0"
    /\ status' = "00"
    /\ Turn(d)
    /\ UNCHANGED <<exited, weak, dbVars, cursor, live, held, desc, first, key_next, key_prev,
                   eof_start, prepared, inserted, spoiled, badkey>>

\* No row, or no cursor: 10.  FETCH from a cursor that is not there fails.
ReadEnd(d) ==
    /\ ~exited /\ ~first /\ ~eof_start /\ restart # d
    /\ ~live \/ aborted \/ todo = {}
    /\ restart' = "0"
    /\ aborted' = (aborted \/ ~live)
    /\ spoiled' = (spoiled \/ ~live)
    /\ status' = "10"
    /\ Turn(d)
    /\ UNCHANGED <<exited, weak, table, saved, curVars, first, key_next, key_prev, buf_next,
                   buf_prev, eof_start, prepared, rec, want, inserted>>

op_next_prev(d) ==
    ReadFirst(d) \/ ReadEof(d) \/ ReadRestart(d) \/ ReadFetch(d) \/ ReadEnd(d)

--------------------------------------------------------------------------------
(* The calls by key, for what they do to the cursor's fields.              *)

Calling == ~exited /\ (Pending => Hasty) /\ ~ (aborted /\ prepared = "no")

\* A statement that is not prepared yet cannot be in a failed transaction.
CallExit == ~exited /\ aborted /\ Exit /\ UNCHANGED badkey

Sees(k) == IF aborted THEN {} ELSE Found(k, Prepare("full"))

op_read_random(k) ==
    /\ Calling
    /\ prepared' = Prepare("full")
    /\ IF Sees(k) = {} THEN rec' = k /\ status' = "23" ELSE rec' \in Sees(k) /\ status' = "00"
    /\ UNCHANGED <<exited, weak, dbVars, curVars, tabVars, scanVars, inserted, spoiled, badkey>>

\* The cursor's fields are left alone: the cursor does not see the new row.
op_write(k) ==
    /\ Calling
    /\ prepared' = Prepare("full")
    /\ \/ /\ Sees(k) # {}
          /\ rec' \in Sees(k) /\ status' = "22"
          /\ UNCHANGED <<table, inserted>>
       \/ /\ Sees(k) = {} /\ ~aborted
          /\ table' = table \cup {k} /\ inserted' = inserted \cup {k}
          /\ rec' = k /\ status' = "00"
       \/ /\ aborted
          /\ rec' = k /\ status' = "99"
          /\ UNCHANGED <<table, inserted>>
    /\ UNCHANGED <<exited, weak, saved, aborted, curVars, tabVars, scanVars, spoiled, badkey>>

\* Mutant: the behaviour before 2.7.4, the fields are left alone.
Forget_Not == UNCHANGED <<restart, key_next, key_prev>>

\* "zerar o restart no rewrite e no delete ... tambem o key_next e key_prev"
Forget == restart' = "0" /\ key_next' = FALSE /\ key_prev' = FALSE

op_rewrite(k) ==
    /\ Calling
    /\ prepared' = Prepare("full")
    /\ Forget
    /\ rec' = k /\ status' = IF Sees(k) = {} THEN "23" ELSE "00"
    /\ UNCHANGED <<exited, weak, dbVars, curVars, first, buf_next, buf_prev, eof_start,
                   scanVars, inserted, spoiled, badkey>>

op_delete(k) ==
    /\ Calling
    /\ prepared' = Prepare("full")
    /\ Forget
    /\ IF Sees(k) = {} THEN rec' = k /\ status' = "23" /\ UNCHANGED table
       ELSE rec' \in Sees(k) /\ status' = "00" /\ table' = table \ {rec'}
    /\ UNCHANGED <<exited, weak, saved, aborted, curVars, first, buf_next, buf_prev, eof_start,
                   scanVars, inserted, spoiled, badkey>>

\* A call by key whose key is no number: valida_comando, as in StartBad.
CallBad ==
    /\ Calling
    /\ \/ Exit /\ badkey' = TRUE
       \/ /\ SelectFails("full")
          /\ \/ status' = "23" /\ Forget
             \/ status' \in {"23", "99"} /\ UNCHANGED <<restart, key_next, key_prev>>
          /\ UNCHANGED <<exited, weak, table, saved, curVars, first, buf_next, buf_prev,
                         eof_start, scanVars, inserted, badkey>>

--------------------------------------------------------------------------------
(* The other files.                                                        *)

\* op_start of another file clears the flag, or sets it when that file is weak
\* and nothing is found.
OtherStart ==
    /\ ~exited
    /\ eof_start' \in BOOLEAN
    /\ UNCHANGED <<exited, weak, dbVars, curVars, first, restart, key_next, key_prev, buf_next,
                   buf_prev, prepared, rec, status, scanVars, inserted, spoiled, badkey>>

--------------------------------------------------------------------------------
(* The transaction.                                                        *)

EndTransaction(rollback) ==
    /\ ~exited
    /\ IF rollback \/ aborted
       THEN /\ table' = saved /\ live' = (live /\ held)
            /\ spoiled' = TRUE
            /\ UNCHANGED <<saved, held>>
       ELSE /\ saved' = table /\ held' = live
            /\ UNCHANGED <<table, live, spoiled>>
    /\ aborted' = FALSE
    /\ UNCHANGED <<exited, weak, cursor, todo, desc, tabVars, prepared, rec, status,
                   scanVars, inserted, badkey>>

\* A statement of another file fails.
OtherFails ==
    /\ ~exited
    /\ aborted' = TRUE /\ spoiled' = TRUE
    /\ UNCHANGED <<exited, weak, table, saved, curVars, tabVars, prepared, rec, status,
                   scanVars, inserted, badkey>>

Next ==
    \/ \E o \in Ops[weak], k \in Keys : op_start(o, k)
    \/ \E d \in {"n", "p"} : op_next_prev(d)
    \/ \E k \in Touched : op_read_random(k) \/ op_write(k) \/ op_rewrite(k) \/ op_delete(k)
    \/ \E rollback \in BOOLEAN : EndTransaction(rollback)
    \/ \E o \in Ops[weak] : StartBad(o)
    \/ CallExit \/ CallBad \/ OtherStart \/ OtherFails

Spec == Init /\ [][Next]_vars

--------------------------------------------------------------------------------
(* Properties                                                              *)

Down0 == dir = "p" /\ ~weak

\* The record a READ returned is the next one of the scan START began.
InScan == want # {} /\ rec' = NextOf(want, Down0)

Reads == \E d \in {"n", "p"} : op_next_prev(d)

\* After a START every READ in its direction returns the next record, in
\* order, none left out and none twice, of those that were in the table at the
\* START.  A START that takes the shortcut is held to it when the remembered
\* row is the last one fetched from the present cursor, and misses the rows
\* written since that was declared.  After a START that found nothing a READ
\* returns a record only if the START of another file cleared eof_start.
ScanRight ==
    [][checked' /\ status' = "00" /\ Reads => InScan \/ (own_eof /\ ~eof_start)]_vars

\* READ reports the end of the file only there, or when the transaction has
\* failed or a rollback took the cursor, or while the flag that the START of
\* another, weak, file set stands: with a flag of its own (own_eof) no file
\* would be told that it is at its end when it is not.
EofHonest ==
    [][checked' /\ status' = "10" /\ Reads
        => want = {} \/ aborted \/ ~live \/ (eof_start /\ ~own_eof)]_vars

\* The process ends in a START or a call by key only after a statement failed
\* or a rollback, or when the key of the call is no number.
StartSurvives == exited => spoiled \/ badkey

\* The comment in op_start, "se ja foi feito um read next com a mesma chave nao
\* executa novamente": the shortcut is only a matter of performance, the READs
\* after it are those after an executed START.
ShortcutRight ==
    [][Reads /\ dir' # "0" /\ ~spoiled /\ eof_start = own_eof
        => IF status' = "00" THEN InScan ELSE want = {}]_vars
================================================================================
