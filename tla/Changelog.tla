-------------------------------- MODULE Changelog ------------------------------
(***************************************************************************)
(* The change log (src/changelog): a trigger writes one row for every      *)
(* change of a table, in the transaction of the change; sync_execute reads *)
(* the PENDING rows in the order of their ids, repeats each change in the  *)
(* ISAM file of the table through EXTFH and marks the row, all marks of a  *)
(* pass in one transaction.  The ISAM file is not part of it: a pass whose *)
(* transaction is lost is repeated on a file that already has its changes. *)
(*                                                                         *)
(* Ids are drawn when the row is written and become visible at COMMIT, so  *)
(* passes do not see them in order; the row locks of the table do order    *)
(* the ids of one key.  A record is a key and the rest of it, which is the *)
(* id of the change that made it, so that no two are alike; pipe tells     *)
(* whether a "|" is in it, the character that separates the columns of a   *)
(* row.  The trigger is one for each row: it does not see a TRUNCATE, and  *)
(* of an UPDATE of the primary key sync_execute repeats the new key only.  *)
(***************************************************************************)
EXTENDS Naturals, Sequences, FiniteSets

CONSTANTS
    Tables,         \* the tables that have a trigger
    Added,          \* the sequence of sync_add_table calls
    Keys,           \* primary keys
    Written,        \* the records that are changed, by table and key
    Writers,        \* the sessions that change the tables
    Pipes,          \* whether the texts written may have a "|"
    MaxId,          \* bound: ids drawn from changelog_id_seq
    MaxFaults       \* bound: ends of the process and failures of EXTFH

ASSUME AddedAssumption == Added \in Seq(Tables) /\ Added # <<>>
ASSUME WrittenAssumption == Written \subseteq Tables \X Keys
ASSUME PipesAssumption == Pipes \subseteq BOOLEAN
ASSUME BoundsAssumption == MaxId \in Nat /\ MaxFaults \in Nat

Ids == 1 .. MaxId
Actions == {"insert", "update", "delete"}
NoRec == 0

VARIABLES
    table,          \* committed content of the tables
    seq,            \* changelog_id_seq
    log,            \* rows of changelog, also uncommitted ones
    emptied,        \* per session and key: seq when the record went without a row
    status,         \* of each id: unused, open, PENDING, SUCCESS, ERROR
    isam,           \* content of the ISAM files
    spc,            \* sync_execute: asleep, between two rows, transaction failed
    todo,           \* the rows of cursor_columns not yet fetched
    mark,           \* status set by the pass, not committed
    faults,
    applied,        \* history: ids that some pass has tried to apply
    astray,         \* history: keys whose last change failed in EXTFH or was garbled
    unlogged        \* history: keys that were changed without a row, COMMIT or not

dbVars   == <<table, seq, log, emptied, unlogged>>
syncVars == <<spc, todo, mark>>
vars == <<dbVars, status, isam, syncVars, faults, applied, astray>>

NoRow == [tab |-> "", action |-> "", key |-> "", val |-> "", pipe |-> FALSE, by |-> ""]
Nobody == "committed"
NoMarks == [i \in Ids |-> "none"]
NoneEmptied == [t \in Tables |-> [k \in Keys |-> 0]]

Init ==
    /\ table = [t \in Tables |-> [k \in Keys |-> NoRec]] /\ isam = table
    /\ seq = 0
    /\ log = [i \in Ids |-> NoRow] /\ status = [i \in Ids |-> "unused"]
    /\ spc = "sleep" /\ todo = {} /\ mark = NoMarks
    /\ emptied = [w \in Writers |-> NoneEmptied] /\ unlogged = {}
    /\ faults = 0 /\ applied = {} /\ astray = {}

--------------------------------------------------------------------------------
(* The sessions that write the tables                                      *)

Open(w) == {i \in Ids : status[i] = "open" /\ log[i].by = w}

Last(S) == CHOOSE i \in S : \A j \in S : j <= i

OfKey(S, t, k) == {i \in S : log[i].tab = t /\ log[i].key = k}

\* What the transaction of a session has made of a record.
After(w, t, k) ==
    LET S == {i \in OfKey(Open(w), t, k) : i > emptied[w][t][k]}
    IN  IF S # {} THEN log[Last(S)].val
        ELSE IF emptied[w][t][k] > 0 THEN NoRec ELSE table[t][k]

\* A row another transaction has changed is locked until its end.
Locked(w, t, k) ==
    \E u \in Writers \ {w} : OfKey(Open(u), t, k) # {} \/ emptied[u][t][k] > 0

\* changelog_function: one row, in the transaction of the change.
Trigger(w, a, t, k, p) ==
    /\ seq' = seq + 1
    /\ log' = [log EXCEPT ![seq + 1] =
           [tab |-> t, action |-> a, key |-> k, pipe |-> p, by |-> w,
            val |-> IF a = "delete" THEN NoRec ELSE seq + 1]]
    /\ status' = [status EXCEPT ![seq + 1] = "open"]

\* An INSERT, UPDATE or DELETE that succeeds; a DELETE logs what was stored.
Change(w, a, t, k, p) ==
    /\ seq < MaxId /\ ~Locked(w, t, k)
    /\ (a = "insert") = (After(w, t, k) = NoRec)
    /\ a = "delete" => p = log[After(w, t, k)].pipe
    /\ Trigger(w, a, t, k, p)
    /\ UNCHANGED <<table, emptied, unlogged, isam, syncVars, faults, applied, astray>>

\* An UPDATE of the primary key: one row, with action update and the new key.
Rekey(w, t, k, new, p) ==
    /\ seq < MaxId /\ ~Locked(w, t, k) /\ ~Locked(w, t, new)
    /\ After(w, t, k) # NoRec /\ After(w, t, new) = NoRec
    /\ Trigger(w, "update", t, new, p)
    /\ emptied' = [emptied EXCEPT ![w][t][k] = seq]
    /\ unlogged' = unlogged \cup {<<t, k>>, <<t, new>>}
    /\ UNCHANGED <<table, isam, syncVars, faults, applied, astray>>

\* truncate_table, load_table: no row.  The keys that were there stay locked.
Truncate(w, t) ==
    LET there == {k \in Keys : After(w, t, k) # NoRec}
    IN  /\ there # {} /\ \A k \in Keys : ~Locked(w, t, k)
        /\ emptied' = [emptied EXCEPT ![w][t] =
               [k \in Keys |-> IF k \in there THEN seq ELSE emptied[w][t][k]]]
        /\ unlogged' = unlogged \cup ({t} \X there)
        /\ UNCHANGED <<table, seq, log, status, isam, syncVars, faults, applied, astray>>

Ends(w, st) ==
    /\ Open(w) # {} \/ emptied[w] # NoneEmptied
    /\ status' = [i \in Ids |-> IF i \in Open(w) THEN st ELSE status[i]]
    /\ emptied' = [emptied EXCEPT ![w] = NoneEmptied]
    /\ UNCHANGED <<seq, unlogged, isam, syncVars, faults, applied, astray>>

Commit(w) ==
    /\ Ends(w, "PENDING")
    /\ log' = [i \in Ids |-> IF i \in Open(w) THEN [log[i] EXCEPT !.by = Nobody] ELSE log[i]]
    /\ table' = [t \in Tables |-> [k \in Keys |-> After(w, t, k)]]

\* By the session, or because it ended.
Rollback(w) ==
    /\ Ends(w, "unused")
    /\ log' = [i \in Ids |-> IF i \in Open(w) THEN NoRow ELSE log[i]]
    /\ UNCHANGED table

--------------------------------------------------------------------------------
(* sync_execute                                                            *)

Pending == {i \in Ids : status[i] = "PENDING"}

\* declare cursor_columns: what is PENDING now; later commits do not show.
Cursor == Pending

SyncBegin ==
    /\ spc = "sleep"
    /\ spc' = "fetch" /\ todo' = Cursor /\ mark' = NoMarks
    /\ UNCHANGED <<dbVars, status, isam, faults, applied, astray>>

\* Mutant: no "order by id".
Next_Any == CHOOSE i \in todo : \A j \in todo : i >= j

\* fetch next, in the order of the ids.
NextRow == CHOOSE i \in todo : \A j \in todo : i <= j

\* list2_append returns the new item, so sync_fcds and sync_tables are at the
\* end of their lists; only sync_tables is taken back to the first item.  The
\* loop makes one turn, with the last fcd and the first table.
Paired == [fcd |-> Added[Len(Added)], tab |-> Added[1]]

\* The record put together from the data of a row with the columns of a table:
\* with those of another table, or with a "|" in a column, which moves the ones
\* after it, it may be any record.
Decode(tab, row) ==
    IF tab = row.tab /\ ~row.pipe THEN {<<row.key, row.val>>}
    ELSE Keys \X (IF row.action = "delete" THEN {NoRec} ELSE Ids)

\* WRITE finds the key, REWRITE and DELETE do not, or another failure: its
\* code has two digits or three.
ExtStatus(a, cur) ==
    (IF (a = "insert") = (cur = NoRec) THEN {"00"}
     ELSE IF a = "insert" THEN {"22"} ELSE {"23"})
        \cup (IF faults < MaxFaults THEN {"9xx", "9xxx"} ELSE {})

NewStatus(st) == IF st = "00" THEN "SUCCESS" ELSE "ERROR"

\* "ERROR_9_" and three digits do not fit in char(10).
Fits(st) == st # "9xxx"

\* "TABLE NOT FOUND": the row stays PENDING.
SyncSkip ==
    /\ spc = "fetch" /\ todo # {}
    /\ log[NextRow].tab # Paired.fcd
    /\ todo' = todo \ {NextRow}
    /\ UNCHANGED <<dbVars, status, isam, spc, mark, faults, applied, astray>>

\* Mutant: the id of the next row.
Marked_Next(i, st) == IF i < MaxId THEN [mark EXCEPT ![i + 1] = st] ELSE mark

\* Mutant: the name is compared with its path.
Marked_Path(i, st) == mark

\* update changelog ... where table_name = tab->name and id = id
Marked(i, st) ==
    IF log[i].tab = Paired.tab THEN [mark EXCEPT ![i] = st] ELSE mark

Failed(st) == st \in {"9xx", "9xxx"}

\* The keys that lack a change, or have one that is not theirs.
Astray(row, f, k, st) ==
    IF row.pipe THEN astray \cup {<<f, row.key>>} \cup (IF st = "00" THEN {<<f, k>>} ELSE {})
    ELSE IF Failed(st) THEN astray \cup {<<f, k>>}
    ELSE IF st = "00" THEN astray \ {<<f, k>>} ELSE astray

SyncRow ==
    /\ spc = "fetch" /\ todo # {}
    /\ LET i == NextRow  row == log[i]  f == Paired.fcd
       IN  /\ row.tab = f
           /\ \E r \in Decode(Paired.tab, row) : \E st \in ExtStatus(row.action, isam[f][r[1]]) :
                 /\ isam' = IF st = "00" THEN [isam EXCEPT ![f][r[1]] = r[2]] ELSE isam
                 /\ mark' = IF Fits(st) THEN Marked(i, NewStatus(st)) ELSE mark
                 /\ spc' = IF Fits(st) THEN "fetch" ELSE "failed"
                 /\ faults' = IF Failed(st) THEN faults + 1 ELSE faults
                 /\ astray' = Astray(row, f, r[1], st)
           /\ todo' = todo \ {i}
           /\ applied' = applied \cup {i}
    /\ UNCHANGED <<dbVars, status>>

\* CLOSE and COMMIT, which is a rollback after a failed UPDATE; sleep(5).
SyncEnd ==
    /\ \/ spc = "fetch" /\ todo = {}
       \/ spc = "failed"
    /\ spc' = "sleep" /\ todo' = {} /\ mark' = NoMarks
    /\ status' = [i \in Ids |-> IF spc = "fetch" /\ mark[i] # "none" THEN mark[i] ELSE status[i]]
    /\ UNCHANGED <<dbVars, isam, faults, applied, astray>>

\* The process ends and is started again.
SyncCrash ==
    /\ faults < MaxFaults /\ spc # "sleep"
    /\ spc' = "sleep" /\ todo' = {} /\ mark' = NoMarks /\ faults' = faults + 1
    /\ UNCHANGED <<dbVars, status, isam, applied, astray>>

sync_execute == SyncBegin \/ SyncSkip \/ SyncRow \/ SyncEnd

Write == \E w \in Writers :
    \/ \E r \in Written, p \in Pipes :
           \/ \E a \in Actions : Change(w, a, r[1], r[2], p)
           \/ \E k \in Keys \ {r[2]} : Rekey(w, r[1], k, r[2], p)
    \/ \E t \in Tables : Truncate(w, t)
    \/ Commit(w) \/ Rollback(w)

Next == Write \/ sync_execute \/ SyncCrash

Spec == Init /\ [][Next]_vars

\* The loop of sync_execute goes on; nobody need write.
FairSpec == Spec /\ WF_vars(sync_execute)

--------------------------------------------------------------------------------
(* Properties                                                              *)

\* A key without PENDING rows is the same in the ISAM file and in the table,
\* however many passes were lost with their marks and repeated, and whatever
\* order the transactions committed in; the last PENDING row of any other key
\* leads to what is in the table.  Not covered are a key whose last change failed
\* in EXTFH, a key touched by a row with a "|" in its data, until a later change
\* of it arrives, and a key that a TRUNCATE or an UPDATE of the primary key has
\* changed.
Converges ==
    \A t \in {Added[j] : j \in DOMAIN Added}, k \in Keys :
        LET P == OfKey(Pending, t, k)
        IN  IF <<t, k>> \in unlogged THEN TRUE
            ELSE IF P # {} THEN table[t][k] = log[Last(P)].val
            ELSE isam[t][k] = table[t][k] \/ <<t, k>> \in astray

\* A change reaches the ISAM file for the first time after the changes of the
\* same key that came before it and before those that came after it, although
\* sync_execute sees the ids of different transactions out of order.
FirstInOrder ==
    [][\A i \in applied' \ applied :
          \A j \in OfKey(Ids, log[i].tab, log[i].key) :
              /\ j < i /\ status[j] # "unused" => j \in applied
              /\ j > i => j \notin applied]_vars

\* "Fica em loop sincronizando as tabelas": a change of the added table does not
\* stay PENDING.  Only where one table is added: when the first and the last are
\* different ones every change stays PENDING (ChangelogProofs, StaysPending).
Drained ==
    \A i \in Ids :
        (status[i] = "PENDING" /\ Paired.fcd = log[i].tab /\ Paired.tab = log[i].tab)
            ~> status[i] # "PENDING"
================================================================================
