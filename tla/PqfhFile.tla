-------------------------------- MODULE PqfhFile -------------------------------
(***************************************************************************)
(* OPEN, CLOSE and DELETE FILE of one COBOL file (one fcd_t) in pqfh.c.    *)
(* The file lives in two stores: the ISAM file behind EXTFH and a          *)
(* PostgreSQL table.  The mode says which are used:                        *)
(*   I  only ISAM          B  only the database                            *)
(*   A  both               W  ISAM, the database written along             *)
(* and the flag fcd->isam = 'S' takes a table that is not converted back   *)
(* to ISAM alone.  An open file owns a table_t on the heap (fcd->file_id). *)
(* Metadata may be cached between OPENs (CACHE_START, CACHE_STOP).         *)
(*                                                                         *)
(* One call of pqfh() is one step: the mutex is held to its end.           *)
(***************************************************************************)
EXTENDS Naturals

CONSTANT Modes      \* the modes of .pqfh and of the command MODE: in use

ASSUME ModesAssumption == Modes \subseteq {"A", "B", "W", "I"}

OpenModes == {"input", "output", "io", "extend"}
Statuses  == {"00", "35", "41", "42", "99", "9A"}

VARIABLES
    env,                \* the mode in the file .pqfh
    convertida,         \* pg01a01 says the table is converted
    derived,            \* the table's name is not its dictionary's name
    table_mode,         \* the mode the command MODE: asked for, "0" if none
    fmode, isam, open_mode, status,  \* the fields of the fcd
    tab,                \* the table_t that fcd->file_id points to
    usecache, cached,   \* the metadata cache and its entry for the table
    exists,             \* the table is in the database
    rows, saved,        \* the table has rows: in the open transaction, committed
    aborted,            \* the open transaction has failed
    gone,               \* history: the table is not there, and was once
    handle, isam_rows,  \* EXTFH has the file open; the ISAM file has records
    op,                 \* history: the last statement
    ext                 \* history: open mode and status as EXTFH left them

confVars == <<env, convertida, derived>>
fcdVars  == <<fmode, isam, open_mode, status>>
metaVars == <<usecache, cached>>
dbVars   == <<exists, rows, saved, aborted, gone>>
isamVars == <<handle, isam_rows>>
vars == <<confVars, table_mode, fcdVars, tab, metaVars, dbVars, isamVars, op, ext>>

Init ==
    /\ env \in Modes
    /\ convertida \in BOOLEAN /\ derived \in BOOLEAN
    /\ table_mode = "0"
    /\ fmode = "0" /\ isam = "0" /\ open_mode = "closed" /\ status = "00"
    /\ tab = "none"
    /\ usecache = FALSE /\ cached = "none"
    /\ exists \in BOOLEAN
    /\ rows \in {FALSE, exists} /\ saved = rows /\ aborted = FALSE /\ gone = FALSE
    /\ handle = FALSE /\ isam_rows = rows
    /\ op = "none" /\ ext = [open_mode |-> "closed", status |-> "00"]

--------------------------------------------------------------------------------
(* EXTFH, the vendor's file handler: the outcomes of a call, given the     *)
(* fcd's open mode.                                                        *)

ExtState(om, st, h, r) ==
    [open_mode |-> om, status |-> st, handle |-> h, rows |-> r]

\* OPEN of an open file is refused; otherwise it succeeds or fails (35, 9A).
ExtOpen(om, how) ==
    IF om # "closed" THEN {ExtState(om, "41", handle, isam_rows)}
    ELSE {ExtState(how, "00", TRUE, isam_rows /\ how # "output")}
         \cup {ExtState(om, st, handle, isam_rows) : st \in {"35", "9A"}}

ExtClose(om) ==
    IF om = "closed" THEN ExtState(om, "42", handle, isam_rows)
    ELSE ExtState("closed", "00", FALSE, isam_rows)

ExtDelete(om) ==
    IF om # "closed" THEN {ExtState(om, "41", handle, isam_rows)}
    ELSE {ExtState(om, "00", handle, FALSE), ExtState(om, "9A", handle, isam_rows)}

\* What the program sees of the call, and what the ISAM file becomes.
Isam(x) ==
    /\ handle' = x.handle /\ isam_rows' = x.rows
    /\ ext' = [open_mode |-> x.open_mode, status |-> x.status]

NoIsam == UNCHANGED <<handle, isam_rows, ext>>

--------------------------------------------------------------------------------
(* table_info, truncate_table, create_table                                *)

\* "found", "absent" (no columns, or the catalogue query failed) or "isam".
table_info ==
    IF ~convertida THEN "isam"
    ELSE IF usecache /\ cached # "none" THEN cached
    ELSE IF exists /\ ~aborted THEN "found"
    ELSE "absent"

\* cache_put: what table_info leaves in the cache; not after a failed query,
\* not for a table that is not converted.
cache_put(c, ex, ab) ==
    IF ~usecache \/ ~convertida \/ c # "none" \/ ab THEN c
    ELSE IF ex THEN "found" ELSE "absent"

\* The database after a call: [exists, rows, saved, aborted].
Db(ex, r, s, ab) == [exists |-> ex, rows |-> r, saved |-> s, aborted |-> ab]
Here == Db(exists, rows, saved, aborted)
Failed == [Here EXCEPT !.aborted = TRUE]

truncate_table ==
    {Failed} \cup (IF exists /\ ~aborted THEN {[Here EXCEPT !.rows = FALSE]} ELSE {})

\* What op_open returns: the fcd's open mode, status and isam flag, the
\* table_t, the cache entry and the database.
OpenResult(om, st, is, t, c, d) ==
    [open_mode |-> om, status |-> st, isam |-> is, tab |-> t, cached |-> c, db |-> d]

\* Mutant: the error of CREATE TABLE is not looked at.
create_table_Unchecked ==
    LET done == Db(TRUE, FALSE, FALSE, FALSE)
    IN  {OpenResult("input", "00", "0", "live", cache_put("none", TRUE, FALSE), done),
         OpenResult("input", "00", "0", "live", "none", Failed)}

\* CREATE TABLE fails: 35, nothing opened.  An index fails: COMMIT rolls the
\* table back, and the OPEN succeeds all the same.  The cache entry goes, and
\* table_info runs again.  The recorded open mode is 0, input.
create_table ==
    LET done   == Db(TRUE, FALSE, FALSE, FALSE)
        undone == Db(exists, saved, saved, FALSE)
    IN  {OpenResult("closed", "35", "0", "live", "none", Failed)}
        \cup (IF exists \/ aborted THEN {}
              ELSE {OpenResult("input", "00", "0", "live", cache_put("none", TRUE, FALSE), done),
                    OpenResult("input", "00", "0", "live", cache_put("none", FALSE, FALSE), undone)})

\* op_open on a closed fcd.
op_open(how) ==
    LET c == cache_put(cached, exists, aborted)
    IN  CASE table_info = "isam" ->
               {OpenResult("closed", "35", "S", "freed", c, Here)}
          [] table_info = "found" ->
               {OpenResult(how, "00", "0", "live", c, d) :
                    d \in IF how = "output" THEN truncate_table ELSE {Here}}
          [] table_info = "absent" /\ how # "input" /\ derived -> create_table
          [] OTHER -> {OpenResult("closed", "35", "0", "live", c, Here)}

Database(d) ==
    /\ exists' = d.exists /\ rows' = d.rows /\ saved' = d.saved /\ aborted' = d.aborted
    /\ gone' = (~d.exists /\ (exists \/ gone))

--------------------------------------------------------------------------------
(* OPEN                                                                    *)

\* Mutant: the byte of the fcd is used even if it is not a mode.
Effective_Raw(fm) == fm

Effective(fm) == IF fm # "0" THEN fm ELSE env

\* Mutants (the behaviour before 3.5.5): OPEN of an open file resets the fields.
OpenModeOf_Always == table_mode
OpenIsamOf_Always == "0"

\* Only a closed file takes the mode asked for by MODE: and forgets 'S'.
OpenModeOf == IF open_mode = "closed" THEN table_mode ELSE fmode
OpenIsamOf == IF open_mode = "closed" THEN "0" ELSE isam

\* The part of the call that every OPEN shares.
OpenCall ==
    /\ fmode' = OpenModeOf
    /\ table_mode' = "0"
    /\ op' = "open"
    /\ UNCHANGED <<confVars, usecache>>

\* The ISAM path: mode I, or a file that is open with isam = 'S'.
OpenExtfh(how) ==
    /\ \/ Effective(OpenModeOf) = "I"
       \/ OpenIsamOf = "S" /\ Effective(OpenModeOf) # "W"
    /\ OpenCall
    /\ \E x \in ExtOpen(open_mode, how) :
          open_mode' = x.open_mode /\ status' = x.status /\ Isam(x)
    /\ isam' = OpenIsamOf
    /\ UNCHANGED <<tab, cached, dbVars>>

\* Mutant: the fcd keeps what op_open put there.
ShowIsam_Forgotten(x, r) == open_mode' = r.open_mode /\ status' = r.status

\* Mode W: open_mode and st, saved after EXTFH, are put back after op_open.
ShowIsam(x, r) == open_mode' = x.open_mode /\ status' = x.status

\* Mode W: EXTFH first; after its error the flag saved for OPEN I-O is put
\* back.  Only OPEN I-O opens the database too; the program sees the open
\* mode and the status of EXTFH.
OpenW(how) ==
    /\ Effective(OpenModeOf) = "W"
    /\ OpenCall
    /\ \E x \in ExtOpen(open_mode, how) :
          /\ Isam(x)
          /\ \/ /\ x.status # "00" \/ how # "io"
                /\ open_mode' = x.open_mode /\ status' = x.status
                /\ isam' = IF x.status = "00" THEN "S" ELSE OpenIsamOf
                /\ UNCHANGED <<tab, cached, dbVars>>
             \/ /\ x.status = "00" /\ how = "io"
                /\ \E r \in op_open(how) :
                      /\ ShowIsam(x, r)
                      /\ isam' = r.isam /\ tab' = r.tab /\ cached' = r.cached
                      /\ Database(r.db)

\* Modes A and B on a file that is open: op_open answers 41.
OpenAgain(how) ==
    /\ Effective(OpenModeOf) \in {"A", "B"} /\ OpenIsamOf # "S"
    /\ open_mode # "closed"
    /\ OpenCall
    /\ status' = "41"
    /\ NoIsam
    /\ UNCHANGED <<isam, open_mode, tab, cached, dbVars>>

\* Mode A after a successful op_open: EXTFH opens too.  After its error
\* op_close is called, finds open_mode 128 and does nothing.
OpenBoth(r, how) ==
    \E x \in ExtOpen("closed", how) :
        open_mode' = x.open_mode /\ status' = x.status /\ Isam(x)

\* Modes A and B on a closed file.
OpenDb(how) ==
    /\ Effective(OpenModeOf) \in {"A", "B"}
    /\ open_mode = "closed"
    /\ OpenCall
    /\ \E r \in op_open(how) :
          /\ isam' = r.isam /\ tab' = r.tab /\ cached' = r.cached /\ Database(r.db)
          /\ \/ /\ r.isam = "S"
                /\ \E x \in ExtOpen("closed", how) :
                      open_mode' = x.open_mode /\ status' = x.status /\ Isam(x)
             \/ /\ r.isam # "S"
                /\ Effective(OpenModeOf) = "B" \/ r.status # "00"
                /\ open_mode' = r.open_mode /\ status' = r.status /\ NoIsam
             \/ /\ r.isam # "S" /\ Effective(OpenModeOf) = "A" /\ r.status = "00"
                /\ OpenBoth(r, how)

Open(how) == OpenExtfh(how) \/ OpenW(how) \/ OpenAgain(how) \/ OpenDb(how)

--------------------------------------------------------------------------------
(* CLOSE and DELETE FILE                                                   *)

mode == Effective(fmode)

Call(o) ==
    /\ op' = o
    /\ table_mode' = "0"
    /\ UNCHANGED <<confVars, fmode, usecache>>

CloseExtfh ==
    /\ mode = "I" \/ isam = "S"
    /\ Call("close")
    /\ LET x == ExtClose(open_mode)
       IN  open_mode' = x.open_mode /\ status' = x.status /\ Isam(x)
    /\ UNCHANGED <<isam, tab, cached, dbVars>>

\* EXTFH, and if it succeeded op_close with open_mode forced to 2.
CloseW ==
    /\ mode = "W" /\ isam # "S"
    /\ Call("close")
    /\ LET x == ExtClose(open_mode)
       IN  /\ open_mode' = x.open_mode /\ status' = x.status /\ Isam(x)
           /\ tab' = IF x.status = "00" THEN "freed" ELSE tab
    /\ UNCHANGED <<isam, cached, dbVars>>

\* Mutant: mode A does not restore open_mode before it calls EXTFH.
CloseDb_NotRestored ==
    /\ mode \in {"A", "B"} /\ isam # "S"
    /\ Call("close")
    /\ tab' = IF open_mode = "closed" THEN tab ELSE "freed"
    /\ open_mode' = "closed"
    /\ IF mode = "A" THEN LET x == ExtClose("closed") IN status' = x.status /\ Isam(x)
       ELSE status' = (IF open_mode = "closed" THEN "42" ELSE "00") /\ NoIsam
    /\ UNCHANGED <<isam, cached, dbVars>>

\* op_close, then in mode A EXTFH with the open mode of before.
CloseDb ==
    /\ mode \in {"A", "B"} /\ isam # "S"
    /\ Call("close")
    /\ tab' = IF open_mode = "closed" THEN tab ELSE "freed"
    /\ open_mode' = "closed"
    /\ IF mode = "A" THEN LET x == ExtClose(open_mode) IN status' = x.status /\ Isam(x)
       ELSE status' = (IF open_mode = "closed" THEN "42" ELSE "00") /\ NoIsam
    /\ UNCHANGED <<isam, cached, dbVars>>

Close == CloseExtfh \/ CloseW \/ CloseDb

\* Mutant: the test of open_mode is dropped.
op_delete_file_Unguarded(om) ==
    /\ status' = "00"
    /\ Database(Db(FALSE, FALSE, FALSE, FALSE))
    /\ UNCHANGED <<isam, cached>>

\* op_delete_file: 99 on an open file or when DROP TABLE fails; the drop is
\* committed at once; the cache entry stays.  table_info may set isam.
op_delete_file(om) ==
    IF om # "closed" THEN
        /\ status' = "99"
        /\ UNCHANGED <<isam, cached, dbVars>>
    ELSE
        /\ isam' = IF convertida THEN isam ELSE "S"
        /\ cached' = cache_put(cached, exists, aborted)
        /\ \/ table_info # "found" /\ status' = "00" /\ UNCHANGED dbVars
           \/ table_info = "found" /\ status' = "99" /\ Database(Failed)
           \/ /\ table_info = "found" /\ exists /\ ~aborted
              /\ status' = "00" /\ Database(Db(FALSE, FALSE, FALSE, FALSE))

\* Modes A and B delete in the database alone.
DeleteDb ==
    /\ mode \in {"A", "B"} /\ isam # "S"
    /\ Call("delete")
    /\ op_delete_file(open_mode)
    /\ NoIsam
    /\ UNCHANGED <<open_mode, tab>>

DeleteExtfh ==
    /\ mode = "I" \/ isam = "S"
    /\ Call("delete")
    /\ \E x \in ExtDelete(open_mode) : status' = x.status /\ Isam(x)
    /\ UNCHANGED <<isam, open_mode, tab, cached, dbVars>>

\* Mode W: EXTFH, and after its success the database, whose status is returned.
DeleteW ==
    /\ mode = "W" /\ isam # "S"
    /\ Call("delete")
    /\ \E x \in ExtDelete(open_mode) :
          /\ Isam(x)
          /\ IF x.status = "00" THEN op_delete_file(open_mode)
             ELSE status' = x.status /\ UNCHANGED <<isam, cached, dbVars>>
    /\ UNCHANGED <<open_mode, tab>>

DeleteFile == DeleteDb \/ DeleteExtfh \/ DeleteW

--------------------------------------------------------------------------------
(* Commands written to the file "pqfh", other calls, the transaction.      *)

CommandMode(m) ==
    /\ table_mode' = m
    /\ UNCHANGED <<confVars, fcdVars, tab, metaVars, dbVars, isamVars, op, ext>>

\* CACHE_START and CACHE_STOP; the entries stay.
CommandCache ==
    /\ usecache' = ~usecache
    /\ table_mode' = "0"
    /\ UNCHANGED <<confVars, fcdVars, tab, cached, dbVars, isamVars, op, ext>>

\* Any call for another file: it forgets MODE:, and may fail in the database.
OtherCall ==
    /\ table_mode' = "0"
    /\ aborted' \in {aborted, TRUE}
    /\ UNCHANGED <<confVars, fcdVars, tab, metaVars, exists, gone, rows, saved, isamVars, op, ext>>

\* A record is written (see PqfhDual): the database takes part in every mode
\* but I, EXTFH in every mode but B.  EXTFH refuses a file that is open for
\* input; op_write looks only for a closed one.
Write ==
    /\ open_mode # "closed"
    /\ LET db == mode # "I" /\ isam # "S"
           fh == mode # "B" \/ isam = "S"
       IN  /\ fh => open_mode # "input"
           /\ db => exists /\ ~aborted
           /\ rows' = (rows \/ db)
           /\ isam_rows' = (isam_rows \/ fh)
    /\ table_mode' = "0"
    /\ UNCHANGED <<confVars, fcdVars, tab, metaVars, exists, gone, saved, aborted, handle, op, ext>>

\* COMMIT; BEGIN by anyone: a failed transaction is rolled back.
EndTransaction ==
    /\ rows' = IF aborted THEN saved ELSE rows
    /\ saved' = rows'
    /\ aborted' = FALSE
    /\ UNCHANGED <<confVars, table_mode, fcdVars, tab, metaVars, exists, gone, isamVars, op, ext>>

Next ==
    \/ \E how \in OpenModes : Open(how)
    \/ Close \/ DeleteFile
    \/ \E m \in Modes : CommandMode(m)
    \/ CommandCache \/ OtherCall \/ Write \/ EndTransaction

Spec == Init /\ [][Next]_vars

--------------------------------------------------------------------------------
(* Properties                                                              *)

FcdOK ==
    /\ env \in Modes /\ table_mode \in Modes \cup {"0"} /\ fmode \in Modes \cup {"0"}
    /\ mode \in Modes
    /\ isam \in {"0", "S"}
    /\ open_mode \in OpenModes \cup {"closed"} /\ status \in Statuses
    /\ tab \in {"none", "live", "freed"}
    /\ cached \in {"none", "absent", "found"}

StoresOK ==
    /\ convertida \in BOOLEAN /\ derived \in BOOLEAN /\ usecache \in BOOLEAN
    /\ exists \in BOOLEAN /\ rows \in BOOLEAN /\ saved \in BOOLEAN /\ aborted \in BOOLEAN
    /\ gone \in BOOLEAN
    /\ handle \in BOOLEAN /\ isam_rows \in BOOLEAN

\* The values of the fcd, the cache and the two stores; every call has a mode.
TypeOK == FcdOK /\ StoresOK

\* A call that reaches the database code with an open fcd dereferences
\* fcd->file_id: it points to a table_t that has not been freed, whatever
\* OPENs, CLOSEs, MODE: commands and failures came before.
NoDangling ==
    open_mode # "closed" /\ isam # "S" /\ mode # "I" => tab = "live"

\* EXTFH has the file open exactly when the program has, in the modes that
\* use ISAM: no handle is left open, none is used closed.
HandleFollows ==
    handle <=> open_mode # "closed" /\ (mode # "B" \/ isam = "S")

\* Mode W: OPEN and CLOSE show the program what EXTFH alone would show.
WTransparent ==
    mode = "W" /\ op \in {"open", "close"}
        => open_mode = ext.open_mode /\ status = ext.status

\* From OPEN to CLOSE a file stays in the mode and on the path (isam) it was
\* opened with, although MODE: and refused OPENs come in between.
ModeStable ==
    [][open_mode # "closed" /\ open_mode' # "closed"
        => fmode' = fmode /\ isam' = isam]_vars

\* An OPEN in mode A or B that succeeds without the table in the database
\* either believed an entry of the cache for a table that has been dropped
\* (DELETE FILE leaves the entry), or comes from a create_table whose COMMIT
\* rolled the new table back: then the table was derived and not there, the
\* transaction was and is sound, nothing else of it was lost, and the cache
\* does not say "found", so that the next OPEN tries again.
OpenTruthful ==
    [][open_mode = "closed" /\ open_mode' # "closed"
       /\ Effective(fmode') \in {"A", "B"} /\ isam' # "S" /\ ~exists'
        => \/ usecache /\ cached = "found" /\ gone
           \/ /\ derived /\ ~exists /\ ~aborted /\ ~aborted'
              /\ rows' = saved /\ saved' = saved
              /\ cached' # "found"]_vars

Abstract == INSTANCE CobolFile WITH Closed <- "closed"

\* In every mode OPEN, CLOSE and DELETE FILE obey the COBOL rules.
RefinesFile == Abstract!CFSpec
================================================================================
