-------------------------------- MODULE PqfhDual -------------------------------
(***************************************************************************)
(* READ, WRITE, REWRITE and DELETE of one open file in pqfh.c.  In mode A  *)
(* every update is executed by EXTFH on the ISAM file first and then in    *)
(* the database; if the database refuses it, the ISAM file is put back.    *)
(* In mode W the database follows EXTFH and its errors are not shown.  In  *)
(* mode B there is only the database.  Reads use the database (A, B) or    *)
(* EXTFH (W).                                                              *)
(*                                                                         *)
(* A call takes two steps, EXTFH's and the database's, because the mutex   *)
(* is taken in between: thread_commit may end the transaction there, and   *)
(* the process may end.  A failed SQL statement makes the next COMMIT roll *)
(* the whole batch back while the ISAM file keeps it.                      *)
(***************************************************************************)
EXTENDS Naturals

CONSTANTS
    Keys, Vals,     \* primary keys; the rest of a record
    NoVal,          \* "no record"
    Norm,           \* what valida_numero and pq2cob make of the rest of a record
    Alt,            \* its alternate key (duplicates allowed)
    KeyIds,         \* the keys of reference the program uses: 0, or 0 and 1
    DeleteBy        \* "read": DELETE of the record just read; "key": of any key

ASSUME NoValAssumption == NoVal \notin Vals
ASSUME NormAssumption ==
    /\ Norm \in [Vals -> Vals]
    /\ \A v \in Vals : Norm[Norm[v]] = Norm[v] /\ Alt[Norm[v]] = Alt[v]
ASSUME KeyIdsAssumption == KeyIds \subseteq {0, 1}

Record == [k : Keys, v : Vals]
Store  == [Keys -> Vals \cup {NoVal}]

VARIABLES
    mode,           \* A, B or W
    pc,             \* idle; db: before the database's part of a call; exited
    op, arg,        \* the call and the record it was given
    rec,            \* the program's record area
    fresh,          \* it holds the record of the last READ
    key_id,         \* fcd->key_id
    undo,           \* the previous record, saved in mode A
    status,
    isam, isam0,    \* the ISAM file; when the call began
    db, saved,      \* the table in the open transaction; committed
    aborted,        \* the open transaction has failed
    tainted         \* history: keys whose update one store has and the other lost

callVars == <<op, arg, undo>>
fcdVars  == <<rec, fresh, key_id, status>>
isamVars == <<isam, isam0>>
dbVars   == <<db, saved, aborted>>
vars == <<mode, pc, callVars, fcdVars, isamVars, dbVars, tainted>>

NoRec == [k |-> NoVal, v |-> NoVal]

Init ==
    /\ mode \in {"A", "B", "W"}
    /\ pc = "idle" /\ op = "none" /\ arg = NoRec /\ undo = NoRec
    /\ rec = NoRec /\ fresh = FALSE /\ key_id = 0 /\ status = "00"
    /\ isam = [k \in Keys |-> NoVal] /\ isam0 = isam
    /\ db = isam /\ saved = isam /\ aborted = FALSE
    /\ tainted = {}

\* The records a READ with key of reference id may return for record area r.
Rows(s, id, r) ==
    {x \in Record : s[x.k] = x.v /\ IF id = 0 THEN x.k = r.k ELSE Alt[x.v] = Alt[r.v]}

Put(s, r)    == [s EXCEPT ![r.k] = r.v]
Remove(s, r) == [s EXCEPT ![r.k] = NoVal]

--------------------------------------------------------------------------------
(* EXTFH: updates go by the primary key; any call may fail with 9A.        *)

ExtStatus(o, r) ==
    CASE o = "write"               -> IF isam[r.k] # NoVal THEN "22" ELSE "00"
      [] o \in {"rewrite", "delete"} -> IF isam[r.k] = NoVal THEN "23" ELSE "00"

ExtApply(s, o, r) == IF o = "delete" THEN Remove(s, r) ELSE Put(s, r)

EXTFH(o, r, st) ==
    /\ st \in {ExtStatus(o, r), "9A"}
    /\ isam' = IF st = "00" THEN ExtApply(isam, o, r) ELSE isam

--------------------------------------------------------------------------------
(* READ: op_read_random in modes A and B, EXTFH in mode W.                 *)

\* Not found, or the SELECT failed: 23.
ReadDb(r, id) ==
    /\ pc = "idle" /\ mode # "W"
    /\ key_id' = id
    /\ \/ /\ ~aborted
          /\ \E x \in Rows(db, id, r) : rec' = x
          /\ status' = "00" /\ fresh' = TRUE
          /\ UNCHANGED aborted
       \/ /\ Rows(db, id, r) = {} \/ aborted
          /\ rec' = r /\ status' = "23" /\ fresh' = FALSE
          /\ UNCHANGED aborted
       \/ /\ rec' = r /\ status' = "23" /\ fresh' = FALSE
          /\ aborted' = TRUE
    /\ UNCHANGED <<mode, pc, callVars, isamVars, db, saved, tainted>>

ReadIsam(r, id) ==
    /\ pc = "idle" /\ mode = "W"
    /\ key_id' = id
    /\ \/ /\ \E x \in Rows(isam, id, r) : rec' = x
          /\ status' = "00" /\ fresh' = TRUE
       \/ /\ Rows(isam, id, r) = {}
          /\ rec' = r /\ status' = "23" /\ fresh' = FALSE
    /\ UNCHANGED <<mode, pc, callVars, isamVars, dbVars, tainted>>

--------------------------------------------------------------------------------
(* The first step of an update: EXTFH.                                     *)

\* The program fills the record area; a DELETE may take it as READ left it.
Given(o, r) ==
    /\ pc = "idle"
    /\ o = "delete" /\ DeleteBy = "read" => fresh /\ r = rec

Go(o, r) ==
    /\ pc' = "db" /\ op' = o /\ arg' = r /\ rec' = r
    /\ fresh' = FALSE

Return(r, st) ==
    /\ status' = st /\ rec' = r
    /\ fresh' = FALSE
    /\ UNCHANGED <<pc, op, arg>>

UpdateB(o, r) ==
    /\ Given(o, r) /\ mode = "B"
    /\ Go(o, r)
    /\ UNCHANGED <<mode, undo, key_id, status, isamVars, dbVars, tainted>>

\* Mode W: "memcmp(fcd->status, ST_OK, 1)" ends the call.
UpdateW(o, r) ==
    /\ Given(o, r) /\ mode = "W"
    /\ \E st \in {ExtStatus(o, r), "9A"} :
          /\ EXTFH(o, r, st)
          /\ IF st = "00" THEN Go(o, r) /\ status' = st ELSE Return(r, st)
    /\ isam0' = isam
    /\ UNCHANGED <<mode, undo, key_id, dbVars, tainted>>

\* Mutant: READ RANDOM is not called.
SavePrevious_NoRead(o, r) == undo' = r

\* Mode A: READ RANDOM through EXTFH with the current key of reference.
SavePrevious(o, r) ==
    IF o = "write" THEN UNCHANGED undo ELSE undo' \in Rows(isam, key_id, r)

\* Mode A: the previous record is not there or not readable, or EXTFH refuses
\* the update: the database is not called.
UpdateA(o, r) ==
    /\ Given(o, r) /\ mode = "A"
    /\ \/ /\ o # "write"
          /\ \/ Rows(isam, key_id, r) = {} /\ Return(r, "23")
             \/ Return(r, "9A")
          /\ UNCHANGED <<isamVars, undo>>
       \/ /\ o = "write" \/ Rows(isam, key_id, r) # {}
          /\ \E st \in {ExtStatus(o, r), "9A"} :
                /\ EXTFH(o, r, st)
                /\ IF st = "00" THEN SavePrevious(o, r) /\ Go(o, r) /\ status' = st
                   ELSE Return(r, st) /\ UNCHANGED undo
          /\ isam0' = isam
    /\ UNCHANGED <<mode, key_id, dbVars, tainted>>

Update(o, r) == UpdateA(o, r) \/ UpdateB(o, r) \/ UpdateW(o, r)

--------------------------------------------------------------------------------
(* The second step: op_write, op_rewrite, op_delete.                       *)

\* What they leave: status, record area, table, transaction.
Outcome(st, r, d, ab) == [status |-> st, rec |-> r, db |-> d, aborted |-> ab]

Stored(r) == [r EXCEPT !.v = Norm[r.v]]

\* A row with the key: 22, and the row is in the record area.  The SELECT or
\* the INSERT failed: 99.
op_write(r) ==
    {Outcome("99", r, db, TRUE)} \cup
    (IF aborted THEN {}
     ELSE IF Rows(db, 0, r) # {} THEN {Outcome("22", x, db, FALSE) : x \in Rows(db, 0, r)}
     ELSE {Outcome("00", r, Put(db, Stored(r)), FALSE)})

\* Mutant: "registro nao encontrado" is not looked at.
op_rewrite_NotChecked(r) ==
    {Outcome("23", r, db, TRUE)} \cup
    (IF aborted THEN {}
     ELSE IF Rows(db, 0, r) = {} THEN {Outcome("00", r, db, FALSE)}
     ELSE {Outcome("00", r, Put(db, Stored(r)), FALSE)})

\* No row, or the SELECT or the UPDATE failed: 23.  A row equal to the
\* record is not updated.
op_rewrite(r) ==
    {Outcome("23", r, db, TRUE)} \cup
    (IF aborted THEN {}
     ELSE IF Rows(db, 0, r) = {} THEN {Outcome("23", r, db, FALSE)}
     ELSE {Outcome("00", r, Put(db, Stored(r)), FALSE)})

\* The row is looked up by the current key of reference and read into the
\* record area; its primary key is what is deleted.
op_delete(r) ==
    {Outcome("23", r, db, TRUE)} \cup
    (IF aborted THEN {}
     ELSE IF Rows(db, key_id, r) = {} THEN {Outcome("23", r, db, FALSE)}
     ELSE UNION {{Outcome("23", x, db, TRUE), Outcome("00", x, Remove(db, x), FALSE)} :
                    x \in Rows(db, key_id, r)})

DbOp(r) ==
    CASE op = "write"   -> op_write(r)
      [] op = "rewrite" -> op_rewrite(r)
      [] op = "delete"  -> op_delete(r)

\* Mutant: a refused DELETE is not written back.
UndoStore_NoDelete(r) ==
    CASE op = "write" -> Remove(isam, r)
      [] op = "rewrite" -> Put(isam, undo)
      [] op = "delete" -> isam

\* The ISAM file after "desfaz": a WRITE is deleted, a REWRITE gets the
\* saved record, a DELETE is written again from the record area.
UndoStore(r) ==
    CASE op = "write"   -> Remove(isam, r)
      [] op = "rewrite" -> Put(isam, undo)
      [] op = "delete"  -> IF isam[r.k] = NoVal THEN Put(isam, r) ELSE isam

\* EXTFH may refuse; its status is thrown away.
Desfaz(r) ==
    \/ isam' = UndoStore(r) /\ UNCHANGED tainted
    \/ isam' = isam /\ tainted' = tainted \cup {arg.k}

Finish ==
    /\ pc = "db"
    /\ \E x \in DbOp(rec) :
          /\ rec' = x.rec /\ db' = x.db /\ aborted' = x.aborted
          /\ status' = IF mode = "W" THEN status ELSE x.status
          /\ IF mode = "A" /\ x.status # "00" THEN Desfaz(x.rec)
             ELSE UNCHANGED <<isam, tainted>>
    /\ isam0' = isam'
    /\ pc' = "idle" /\ op' = "none" /\ arg' = NoRec /\ undo' = NoRec
    /\ UNCHANGED <<mode, fresh, key_id, saved>>

--------------------------------------------------------------------------------
(* The transaction and the process.                                        *)

LostKeys == {k \in Keys : db[k] # saved[k]}

\* COMMIT; BEGIN by thread_commit or by the program, never inside Finish.
Commit ==
    /\ pc # "exited"
    /\ IF aborted THEN db' = saved /\ tainted' = tainted \cup LostKeys /\ UNCHANGED saved
       ELSE saved' = db /\ UNCHANGED <<db, tainted>>
    /\ aborted' = FALSE
    /\ UNCHANGED <<mode, pc, callVars, fcdVars, isamVars>>

\* exit(-1), a signal: the server rolls back; ISAM keeps what EXTFH did.
Exit ==
    /\ pc # "exited"
    /\ db' = saved /\ aborted' = FALSE
    /\ tainted' = tainted \cup LostKeys \cup (IF pc = "db" THEN {arg.k} ELSE {})
    /\ pc' = "exited" /\ op' = "none" /\ arg' = NoRec /\ undo' = NoRec
    /\ isam0' = isam
    /\ UNCHANGED <<mode, fcdVars, isam, saved>>

\* The program is started again and opens the file.
Restart ==
    /\ pc = "exited"
    /\ pc' = "idle"
    /\ rec' = NoRec /\ fresh' = FALSE /\ key_id' = 0 /\ status' = "00"
    /\ UNCHANGED <<mode, callVars, isamVars, dbVars, tainted>>

Next ==
    \/ \E r \in Record, id \in KeyIds : ReadDb(r, id) \/ ReadIsam(r, id)
    \/ \E r \in Record, o \in {"write", "rewrite", "delete"} : Update(o, r)
    \/ Finish \/ Commit \/ Exit \/ Restart

Spec == Init /\ [][Next]_vars

--------------------------------------------------------------------------------
(* Properties                                                              *)

NormVal(v) == IF v = NoVal THEN NoVal ELSE Norm[v]

\* The database has of key k what the ISAM file has, up to valida_numero.
SameAt(k) == db[k] = NormVal(isam[k])

\* Mode A: the two stores differ only at keys whose update the database lost
\* in a rolled-back batch or an exit, or whose undo EXTFH refused, and at the
\* key of the call in progress; every other refused update has been undone.
Divergence ==
    mode = "A"
        => \A k \in Keys : SameAt(k) \/ k \in tainted \/ (pc = "db" /\ k = arg.k)

Returns == pc = "db" /\ pc' = "idle"

\* Status 00 means done: in each store the mode writes, exactly the record
\* the program gave is changed.
OkApplied ==
    [][Returns /\ status' = "00"
        => /\ mode # "B" => isam' = ExtApply(isam0, op, arg)
           /\ mode # "W" => db' = ExtApply(db, op, Stored(arg))]_vars

\* Mode A: a call refused by the database leaves the ISAM file as it was (a
\* DELETE up to valida_numero), unless the key had diverged or EXTFH refused.
\* For DELETE it needs a record area that holds the record just read: that is
\* what the undo writes, not the previous record.
Undone ==
    [][Returns /\ mode = "A" /\ status' # "00" /\ arg.k \notin tainted'
        => /\ op # "delete" => isam' = isam0
           /\ op = "delete" => \A k \in Keys : NormVal(isam'[k]) = NormVal(isam0[k])]_vars

\* The comment in op_delete, "verifica se o registro existe": the row that is
\* looked up, and then deleted, is the record the program gave.
DeleteTarget ==
    [][Returns /\ mode # "W" /\ op = "delete" /\ status' = "00"
        => db' = Remove(db, arg)]_vars
================================================================================
