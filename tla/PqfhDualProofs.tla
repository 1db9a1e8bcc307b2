----------------------------- MODULE PqfhDualProofs ----------------------------
(***************************************************************************)
(* Proofs about PqfhDual, for any keys, values and conversion of numbers:  *)
(* status 00 means done, a refused update is undone, and in mode A the two *)
(* stores differ only at keys whose loss is accounted for.  They are about *)
(* programs that read by the primary key; the last two also need a program *)
(* that deletes only the record it has just read.  Without the first,      *)
(* op_delete may delete another row (DeleteTarget), without the second the *)
(* undo of DELETE writes what happens to be in the record area.            *)
(***************************************************************************)
EXTENDS PqfhDual, TLAPS

Updates == {"write", "rewrite", "delete"}
Value == Vals \cup {NoVal}

--------------------------------------------------------------------------------
(* The inductive invariant.                                                *)

\* The values of the variables the other parts speak of.
DualTypes ==
    /\ isam \in Store /\ isam0 \in Store /\ db \in Store /\ saved \in Store
    /\ tainted \subseteq Keys
    /\ fresh => rec \in Record
    /\ pc = "db" => op \in Updates /\ arg \in Record /\ rec = arg /\ ~fresh

\* What EXTFH has done for the call in progress, and isam0 without one.
CallInv ==
    /\ pc # "db" => isam0 = isam
    /\ pc = "db" /\ mode # "B" => isam = ExtApply(isam0, op, arg)
    /\ pc = "db" /\ mode = "A" =>
          /\ (op = "write") = (isam0[arg.k] = NoVal)
          /\ op = "rewrite" => undo = [k |-> arg.k, v |-> isam0[arg.k]]

\* The program reads by the primary key.
KeyInv == key_id = 0

\* Mode A: the table has what the ISAM file had before the call in progress,
\* and the record that was read, to be deleted perhaps, is the row of its key.
AgreeInv ==
    mode = "A" =>
        /\ \A k \in Keys : db[k] = NormVal(isam0[k]) \/ k \in tainted
        /\ fresh => db[rec.k] = rec.v \/ rec.k \in tainted
        /\ pc = "db" /\ op = "delete" => db[arg.k] = arg.v \/ arg.k \in tainted

DInv == DualTypes /\ CallInv /\ KeyInv

--------------------------------------------------------------------------------
(* The operators of the model.                                             *)

\* A lookup by the primary key finds the row of that key and no other.
LEMMA RowsByKey ==
    ASSUME NEW s \in Store, NEW r \in Record, NEW x \in Rows(s, 0, r)
    PROVE  x \in Record /\ x.k = r.k /\ x.v = s[r.k] /\ s[r.k] \in Vals
BY DEF Rows, Record

\* It finds nothing exactly when there is no row of that key.
LEMMA NoRowsByKey ==
    ASSUME NEW s \in Store, NEW r \in Record
    PROVE  Rows(s, 0, r) = {} <=> s[r.k] = NoVal
<1>1. ASSUME s[r.k] # NoVal  PROVE [k |-> r.k, v |-> s[r.k]] \in Rows(s, 0, r)
  BY <1>1 DEF Rows, Record, Store
<1>2. ASSUME NEW x \in Rows(s, 0, r)  PROVE s[r.k] # NoVal
  BY <1>2, RowsByKey, NoValAssumption
<1> QED  BY <1>1, <1>2

\* What the database keeps of a record has the same key.
LEMMA StoredRecord ==
    ASSUME NEW r \in Record
    PROVE  Stored(r) \in Record /\ Stored(r).k = r.k /\ Stored(r).v = Norm[r.v]
BY NormAssumption DEF Stored, Record

\* An update changes one record and leaves a store.
LEMMA ApplyResult ==
    ASSUME NEW s \in Store, NEW r \in Record, NEW o \in Updates
    PROVE  /\ ExtApply(s, o, r) \in Store
           /\ ExtApply(s, o, r)[r.k] = IF o = "delete" THEN NoVal ELSE r.v
           /\ \A k \in Keys \ {r.k} : ExtApply(s, o, r)[k] = s[k]
BY DEF ExtApply, Put, Remove, Store, Record, Updates

\* A value that was stored once is stored again as it is.
LEMMA NormTwice ==
    ASSUME NEW v \in Value
    PROVE  NormVal(v) \in Value /\ NormVal(NormVal(v)) = NormVal(v)
BY NormAssumption, NoValAssumption DEF NormVal, Value

\* What an update of the table does, when the lookups are by the primary key:
\* it succeeds and changes exactly the row of the record given, or it leaves
\* the table alone, with a record of the same key in the record area.
LEMMA DbOpResult ==
    ASSUME NEW r \in Record, db \in Store, key_id = 0, op \in Updates, NEW x \in DbOp(r)
    PROVE  /\ x.status = "00" => x.db = ExtApply(db, op, Stored(r))
           /\ x.status # "00" => x.db = db
           /\ x.rec = r \/ (x.rec \in Record /\ x.rec.k = r.k /\ x.rec.v = db[r.k])
           /\ x.rec \in Record /\ x.rec.k = r.k
<1>1. CASE op = "write"
  <2>1. x \in op_write(r)
    BY <1>1 DEF DbOp
  <2>2. \/ x = Outcome("99", r, db, TRUE)
        \/ \E y \in Rows(db, 0, r) : x = Outcome("22", y, db, FALSE)
        \/ x = Outcome("00", r, Put(db, Stored(r)), FALSE)
    BY <2>1 DEF op_write
  <2> QED  BY <1>1, <2>2, RowsByKey DEF Outcome, ExtApply
<1>2. CASE op = "rewrite"
  <2>1. x \in op_rewrite(r)
    BY <1>2 DEF DbOp
  <2>2. \/ \E ab \in BOOLEAN : x = Outcome("23", r, db, ab)
        \/ x = Outcome("00", r, Put(db, Stored(r)), FALSE)
    BY <2>1 DEF op_rewrite
  <2> QED  BY <1>2, <2>2 DEF Outcome, ExtApply
<1>3. CASE op = "delete"
  <2>1. x \in op_delete(r)
    BY <1>3 DEF DbOp
  <2>2. \/ \E ab \in BOOLEAN : x = Outcome("23", r, db, ab)
        \/ \E y \in Rows(db, 0, r) : \/ x = Outcome("23", y, db, TRUE)
                                     \/ x = Outcome("00", y, Remove(db, y), FALSE)
    BY <2>1 DEF op_delete
  <2>3. ASSUME NEW y \in Rows(db, 0, r)
        PROVE  y \in Record /\ y.k = r.k /\ y.v = db[r.k] /\ Remove(db, y) = Remove(db, Stored(r))
    BY <2>3, RowsByKey, StoredRecord DEF Remove
  <2> QED  BY <1>3, <2>2, <2>3 DEF Outcome, ExtApply
<1> QED  BY <1>1, <1>2, <1>3 DEF Updates

--------------------------------------------------------------------------------
(* The invariant is kept, one lemma for each kind of step.                 *)

USE DEF DInv, KeyInv

\* Before the first call.
LEMMA DualInit == Init => DInv /\ AgreeInv
BY NoValAssumption DEF Init, DualTypes, CallInv, AgreeInv, Store, NormVal

ReadStep(id) == \E r \in Record : ReadDb(r, id) \/ ReadIsam(r, id)

\* READ leaves the stores alone and gets a row of the table in mode A.
LEMMA ReadKeeps ==
    ASSUME DInv, ReadStep(0)
    PROVE  DInv' /\ (AgreeInv => AgreeInv')
<1>1. PICK r \in Record : ReadDb(r, 0) \/ ReadIsam(r, 0)
  BY DEF ReadStep
<1>2. UNCHANGED <<mode, pc, callVars, isamVars, db, saved, tainted>> /\ key_id' = 0 /\ pc = "idle"
  BY <1>1 DEF ReadDb, ReadIsam, dbVars
<1>3. fresh' => rec' \in Record /\ (mode = "A" => rec'.v = db[rec'.k])
  BY <1>1 DEF ReadDb, ReadIsam, Rows
<1> QED  BY <1>2, <1>3 DEF DualTypes, CallInv, AgreeInv, callVars, isamVars

\* The call goes on to the database, or returns with a status.
LEMMA UpdateCases ==
    ASSUME DInv, NEW r \in Record, NEW o \in Updates, Update(o, r)
    PROVE  /\ pc = "idle" /\ UNCHANGED <<mode, key_id, db, saved, tainted>> /\ ~fresh'
           /\ \/ UNCHANGED <<pc, op, arg>> /\ isam' = isam /\ isam0' = isam
              \/ /\ pc' = "db" /\ op' = o /\ arg' = r /\ rec' = r
                 /\ mode = "B" => isam' = isam /\ isam0' = isam
                 /\ mode # "B" => isam' = ExtApply(isam, o, r) /\ isam0' = isam
                 /\ mode = "A" => (o = "write") = (isam[r.k] = NoVal)
                 /\ mode = "A" /\ o = "rewrite" => undo' = [k |-> r.k, v |-> isam[r.k]]
<1> USE DEF Given, Go, Return, isamVars, dbVars, CallInv
<1>1. ASSUME NEW st \in {ExtStatus(o, r), "9A"}, st = "00"
      PROVE  (o = "write") = (isam[r.k] = NoVal)
  <2>1. CASE o = "write"
    BY <1>1, <2>1 DEF ExtStatus
  <2>2. CASE o \in {"rewrite", "delete"}
    BY <1>1, <2>2 DEF ExtStatus
  <2> QED  BY <2>1, <2>2 DEF Updates
<1>2. CASE UpdateB(o, r)
  BY <1>2 DEF UpdateB
<1>3. CASE UpdateW(o, r)
  BY <1>3 DEF UpdateW, EXTFH
<1>4. CASE UpdateA(o, r)
  <2>0. mode = "A" /\ pc = "idle" /\ UNCHANGED <<mode, key_id, db, saved, tainted>>
    BY <1>4 DEF UpdateA
  <2>1. CASE /\ \/ Rows(isam, key_id, r) = {} /\ Return(r, "23")
                \/ Return(r, "9A")
             /\ UNCHANGED <<isamVars, undo>>
    BY <2>0, <2>1
  <2>2. ASSUME NEW st \in {ExtStatus(o, r), "9A"}, EXTFH(o, r, st), isam0' = isam,
               IF st = "00" THEN SavePrevious(o, r) /\ Go(o, r) /\ status' = st
               ELSE Return(r, st) /\ UNCHANGED undo
        PROVE  /\ ~fresh'
               /\ \/ UNCHANGED <<pc, op, arg>> /\ isam' = isam
                  \/ /\ pc' = "db" /\ op' = o /\ arg' = r /\ rec' = r
                     /\ isam' = ExtApply(isam, o, r)
                     /\ (o = "write") = (isam[r.k] = NoVal)
                     /\ o = "rewrite" => undo' = [k |-> r.k, v |-> isam[r.k]]
    <3>1. CASE st = "00"
      <4>1. ASSUME o = "rewrite"  PROVE undo' = [k |-> r.k, v |-> isam[r.k]]
        <5>1. undo' \in Rows(isam, 0, r)
          BY <2>2, <3>1, <4>1 DEF SavePrevious
        <5>2. undo' \in Record /\ undo'.k = r.k /\ undo'.v = isam[r.k]
          BY <5>1, RowsByKey DEF DualTypes
        <5> QED  BY <5>2 DEF Record
      <4> QED  BY <1>1, <2>2, <3>1, <4>1 DEF EXTFH
    <3>2. CASE st # "00"
      BY <2>2, <3>2 DEF EXTFH
    <3> QED  BY <3>1, <3>2
  <2> QED  BY <1>4, <2>0, <2>1, <2>2 DEF UpdateA
<1> QED  BY <1>2, <1>3, <1>4 DEF Update

\* The half of EXTFH: the table is left alone, isam0 keeps what the file had.
LEMMA UpdateKeeps ==
    ASSUME DInv, NEW r \in Record, NEW o \in Updates, Update(o, r)
    PROVE  DInv' /\ (DeleteBy = "read" /\ AgreeInv => AgreeInv')
<1>1. DInv'
  <2>0. ExtApply(isam, o, r) \in Store
    BY ApplyResult DEF DualTypes
  <2>1. DualTypes'
    BY <2>0, UpdateCases DEF DualTypes
  <2>2. CallInv'
    BY UpdateCases DEF CallInv, DualTypes
  <2> QED  BY <2>1, <2>2, UpdateCases
<1>2. ASSUME DeleteBy = "read", o = "delete"  PROVE fresh /\ r = rec
  BY <1>2 DEF Update, UpdateA, UpdateB, UpdateW, Given
<1>3. isam0' = isam0
  BY UpdateCases DEF CallInv
<1>4. ASSUME DeleteBy = "read", AgreeInv  PROVE AgreeInv'
  BY <1>2, <1>3, <1>4, UpdateCases DEF AgreeInv, CallInv
<1> QED  BY <1>1, <1>4

\* The second step: 00 and the update is done in both stores, or the table is
\* left alone and, in mode A, EXTFH puts its file back or refuses to.
LEMMA FinishCases ==
    ASSUME DInv, Finish
    PROVE  \E x \in DbOp(arg) :
              /\ rec' = x.rec /\ db' = x.db
              /\ mode # "W" => status' = x.status
              /\ x.status = "00" => db' = ExtApply(db, op, Stored(arg))
              /\ x.status # "00" => db' = db
              /\ x.rec = arg \/ x.rec.v = db[arg.k]
              /\ x.rec \in Record /\ x.rec.k = arg.k
              /\ IF mode = "A" /\ x.status # "00" THEN Desfaz(x.rec)
                 ELSE UNCHANGED <<isam, tainted>>
<1>1. PICK x \in DbOp(rec) :
          /\ rec' = x.rec /\ db' = x.db /\ aborted' = x.aborted
          /\ status' = IF mode = "W" THEN status ELSE x.status
          /\ IF mode = "A" /\ x.status # "00" THEN Desfaz(x.rec)
             ELSE UNCHANGED <<isam, tainted>>
  BY DEF Finish
<1>2. rec = arg /\ arg \in Record /\ op \in Updates /\ db \in Store
  BY DEF Finish, DualTypes
<1>3. /\ x.status = "00" => x.db = ExtApply(db, op, Stored(arg))
      /\ x.status # "00" => x.db = db
      /\ x.rec = arg \/ (x.rec \in Record /\ x.rec.k = arg.k /\ x.rec.v = db[arg.k])
      /\ x.rec \in Record /\ x.rec.k = arg.k
  BY <1>1, <1>2, DbOpResult
<1> QED  BY <1>1, <1>2, <1>3

\* Mode A: what "desfaz" makes of the ISAM file is what it was before the call,
\* but for a DELETE, which writes the record area.
LEMMA UndoResult ==
    ASSUME DInv, pc = "db", mode = "A", NEW r \in Record, r.k = arg.k
    PROVE  /\ UndoStore(r) \in Store
           /\ op # "delete" => UndoStore(r) = isam0
           /\ op = "delete" => UndoStore(r) = [isam0 EXCEPT ![arg.k] = r.v]
<1>1. /\ isam0 \in Store /\ arg \in Record /\ op \in Updates /\ isam = ExtApply(isam0, op, arg)
      /\ (op = "write") = (isam0[arg.k] = NoVal)
      /\ op = "rewrite" => undo = [k |-> arg.k, v |-> isam0[arg.k]]
  BY DEF DualTypes, CallInv
<1>2. CASE op = "write"
  <2>1. UndoStore(r) = Remove(Put(isam0, arg), r)
    BY <1>1, <1>2 DEF UndoStore, ExtApply
  <2> QED  BY <1>1, <1>2, <2>1 DEF Remove, Put, Store, Record
<1>3. CASE op = "rewrite"
  <2>1. UndoStore(r) = Put(Put(isam0, arg), undo)
    BY <1>1, <1>3 DEF UndoStore, ExtApply
  <2> QED  BY <1>1, <1>3, <2>1 DEF Put, Store, Record
<1>4. CASE op = "delete"
  <2>1. UndoStore(r) = IF isam[r.k] = NoVal THEN Put(isam, r) ELSE isam
    BY <1>4 DEF UndoStore
  <2>2. isam = Remove(isam0, arg)
    BY <1>1, <1>4 DEF ExtApply
  <2> QED  BY <1>1, <1>4, <2>1, <2>2 DEF Put, Remove, Store, Record
<1> QED  BY <1>1, <1>2, <1>3, <1>4 DEF Updates

\* Mode A: the undo of a refused update leaves the ISAM file as it was, a
\* DELETE up to valida_numero, or the key is marked as lost.
LEMMA UndoneResult ==
    ASSUME DInv, AgreeInv, pc = "db", mode = "A",
           NEW r \in Record, r.k = arg.k, r = arg \/ r.v = db[arg.k], Desfaz(r)
    PROVE  /\ isam' \in Store /\ tainted' \subseteq Keys /\ tainted \subseteq tainted'
           /\ \A k \in Keys : k # arg.k => isam'[k] = isam0[k]
           /\ arg.k \notin tainted' =>
                 /\ op # "delete" => isam' = isam0
                 /\ NormVal(isam'[arg.k]) = NormVal(isam0[arg.k])
<1>0. arg \in Record /\ op \in Updates /\ isam0 \in Store /\ isam \in Store /\ db \in Store
  BY DEF DualTypes
<1>1. CASE isam' = isam /\ tainted' = tainted \cup {arg.k}
  BY <1>0, <1>1, ApplyResult DEF DualTypes, CallInv, Record
<1>2. CASE isam' = UndoStore(r) /\ tainted' = tainted
  <2>1. CASE op # "delete"
    BY <1>0, <1>2, <2>1, UndoResult DEF DualTypes
  <2>2. CASE op = "delete"
    <3>1. isam' \in Store /\ isam' = [isam0 EXCEPT ![arg.k] = r.v]
      BY <1>2, <2>2, UndoResult
    <3>2. ASSUME arg.k \notin tainted  PROVE NormVal(r.v) = NormVal(isam0[arg.k])
      <4>1. db[arg.k] = NormVal(isam0[arg.k]) /\ db[arg.k] = arg.v
        BY <1>0, <2>2, <3>2 DEF AgreeInv, Record
      <4>2. r.v = NormVal(isam0[arg.k])
        BY <4>1
      <4> QED  BY <1>0, <4>2, NormTwice DEF Store, Record, Value
    <3> QED  BY <1>0, <1>2, <2>2, <3>1, <3>2 DEF DualTypes, Store, Record
  <2> QED  BY <2>1, <2>2
<1> QED  BY <1>1, <1>2 DEF Desfaz

\* The half of the database leaves the types and ends the call.
LEMMA FinishTypes == ASSUME DInv, Finish PROVE DInv'
<1>1. PICK x \in DbOp(arg) :
          /\ rec' = x.rec /\ db' = x.db
          /\ mode # "W" => status' = x.status
          /\ x.status = "00" => db' = ExtApply(db, op, Stored(arg))
          /\ x.status # "00" => db' = db
          /\ x.rec = arg \/ x.rec.v = db[arg.k]
          /\ x.rec \in Record /\ x.rec.k = arg.k
          /\ IF mode = "A" /\ x.status # "00" THEN Desfaz(x.rec)
             ELSE UNCHANGED <<isam, tainted>>
  BY FinishCases
<1>2. /\ pc = "db" /\ pc' = "idle" /\ isam0' = isam' /\ ~fresh /\ fresh' = fresh
      /\ key_id' = key_id /\ saved' = saved /\ arg \in Record /\ op \in Updates
  BY DEF Finish, DualTypes
<1>3. db' \in Store
  BY <1>1, <1>2, StoredRecord, ApplyResult DEF DualTypes
<1>4. isam' \in Store /\ tainted' \subseteq Keys
  <2>1. CASE mode = "A" /\ x.status # "00"
    BY <1>1, <1>2, <2>1, UndoResult DEF Desfaz, DualTypes, Record
  <2>2. CASE ~ (mode = "A" /\ x.status # "00")
    BY <1>1, <2>2 DEF DualTypes
  <2> QED  BY <2>1, <2>2
<1> QED  BY <1>2, <1>3, <1>4 DEF DualTypes, CallInv

\* It does in the table what EXTFH did, or has the file undone, or taints the key.
LEMMA FinishAgrees == ASSUME DInv, AgreeInv, Finish PROVE AgreeInv'
<1>1. PICK x \in DbOp(arg) :
          /\ rec' = x.rec /\ db' = x.db
          /\ mode # "W" => status' = x.status
          /\ x.status = "00" => db' = ExtApply(db, op, Stored(arg))
          /\ x.status # "00" => db' = db
          /\ x.rec = arg \/ x.rec.v = db[arg.k]
          /\ x.rec \in Record /\ x.rec.k = arg.k
          /\ IF mode = "A" /\ x.status # "00" THEN Desfaz(x.rec)
             ELSE UNCHANGED <<isam, tainted>>
  BY FinishCases
<1>2. /\ pc = "db" /\ pc' = "idle" /\ isam0' = isam' /\ ~fresh /\ fresh' = fresh
      /\ mode' = mode /\ arg \in Record /\ op \in Updates /\ isam0 \in Store /\ db \in Store
  BY DEF Finish, DualTypes
<1>3. SUFFICES ASSUME mode = "A", NEW k \in Keys
               PROVE  db'[k] = NormVal(isam'[k]) \/ k \in tainted'
  BY <1>2 DEF AgreeInv
<1>4. db[k] = NormVal(isam0[k]) \/ k \in tainted
  BY <1>3 DEF AgreeInv
<1>5. CASE x.status = "00"
  <2>1. isam' = ExtApply(isam0, op, arg) /\ tainted' = tainted
    BY <1>1, <1>2, <1>3, <1>5 DEF CallInv
  <2>2. Stored(arg) \in Record /\ Stored(arg).k = arg.k /\ Stored(arg).v = Norm[arg.v]
    BY <1>2, StoredRecord
  <2>3. /\ db'[arg.k] = IF op = "delete" THEN NoVal ELSE Norm[arg.v]
        /\ k # arg.k => db'[k] = db[k]
    BY <1>1, <1>2, <1>5, <2>2, ApplyResult
  <2>4. /\ isam'[arg.k] = IF op = "delete" THEN NoVal ELSE arg.v
        /\ k # arg.k => isam'[k] = isam0[k]
    BY <1>2, <2>1, ApplyResult
  <2>5. arg.v \in Vals
    BY <1>2 DEF Record
  <2> QED  BY <1>4, <2>1, <2>3, <2>4, <2>5, NoValAssumption DEF NormVal
<1>6. CASE x.status # "00"
  <2>1. /\ tainted \subseteq tainted'
        /\ k # arg.k => isam'[k] = isam0[k]
        /\ arg.k \notin tainted' => NormVal(isam'[arg.k]) = NormVal(isam0[arg.k])
    BY <1>1, <1>2, <1>3, <1>6, UndoneResult
  <2> QED  BY <1>1, <1>4, <1>6, <2>1
<1> QED  BY <1>5, <1>6

\* COMMIT, also of a failed transaction, between or inside calls.
LEMMA CommitKeeps ==
    ASSUME DInv, Commit
    PROVE  DInv' /\ (AgreeInv => AgreeInv')
<1>1. /\ UNCHANGED <<mode, pc, op, arg, undo, rec, fresh, key_id, isam, isam0>>
      /\ db' \in Store /\ saved' \in Store
      /\ tainted \subseteq tainted' /\ tainted' \subseteq Keys
      /\ \A k \in Keys : db'[k] = db[k] \/ k \in tainted'
  BY DEF Commit, LostKeys, DualTypes, callVars, fcdVars, isamVars
<1> QED  BY <1>1 DEF DualTypes, CallInv, AgreeInv, Record

\* The end of the process, with a call in progress or not, and its restart.
LEMMA ExitKeeps ==
    ASSUME DInv, Exit
    PROVE  DInv' /\ (AgreeInv => AgreeInv')
<1>1. /\ UNCHANGED <<mode, rec, fresh, key_id, isam, saved>>
      /\ pc' = "exited" /\ isam0' = isam
      /\ db' = saved /\ tainted \subseteq tainted' /\ tainted' \subseteq Keys
      /\ \A k \in Keys : db'[k] = db[k] \/ k \in tainted'
      /\ pc = "db" => arg.k \in tainted'
  BY DEF Exit, LostKeys, DualTypes, fcdVars, Record
<1>2. \A k \in Keys : mode = "A" => isam[k] = isam0[k] \/ k \in tainted'
  <2>1. CASE pc = "db"
    BY <1>1, <2>1, ApplyResult DEF DualTypes, CallInv
  <2>2. CASE pc # "db"
    BY <2>2 DEF CallInv
  <2> QED  BY <2>1, <2>2
<1>3. DInv'
  BY <1>1 DEF DualTypes, CallInv
<1>4. ASSUME AgreeInv  PROVE AgreeInv'
  <2>1. ASSUME mode = "A", NEW k \in Keys  PROVE db'[k] = NormVal(isam0'[k]) \/ k \in tainted'
    BY <1>1, <1>2, <1>4, <2>1 DEF AgreeInv
  <2>2. ASSUME mode = "A", fresh  PROVE db'[rec.k] = rec.v \/ rec.k \in tainted'
    BY <1>1, <1>4, <2>2 DEF AgreeInv, DualTypes, Record
  <2> QED  BY <1>1, <2>1, <2>2 DEF AgreeInv
<1> QED  BY <1>3, <1>4

\* A restart begins with the committed table.
LEMMA RestartKeeps ==
    ASSUME DInv, Restart
    PROVE  DInv' /\ (AgreeInv => AgreeInv')
BY DEF Restart, DualTypes, CallInv, AgreeInv, callVars, isamVars, dbVars

\* No step, no change.
LEMMA StutterKeeps ==
    ASSUME DInv, UNCHANGED vars
    PROVE  DInv' /\ (AgreeInv => AgreeInv')
BY DEF vars, DualTypes, CallInv, AgreeInv, callVars, fcdVars, isamVars, dbVars

--------------------------------------------------------------------------------
(* The theorems.                                                           *)

\* The program reads by the primary key only.
ByPrimaryKey == KeyIds = {0}

\* The program deletes only the record it has just read.
DeletesWhatItRead == DeleteBy = "read"

\* Every step keeps the types and the call in progress.
LEMMA DualStep == ASSUME ByPrimaryKey, DInv, [Next]_vars PROVE DInv'
<1>1. CASE \E r \in Record, id \in KeyIds : ReadDb(r, id) \/ ReadIsam(r, id)
  BY <1>1, ReadKeeps DEF ByPrimaryKey, ReadStep
<1>2. CASE \E r \in Record, o \in Updates : Update(o, r)
  BY <1>2, UpdateKeeps
<1> QED  BY <1>1, <1>2, FinishTypes, CommitKeeps, ExitKeeps, RestartKeeps, StutterKeeps
         DEF Next, Updates

\* Every step keeps the agreement of the stores.
LEMMA AgreeStep ==
    ASSUME ByPrimaryKey, DeletesWhatItRead, DInv, AgreeInv, [Next]_vars
    PROVE  AgreeInv'
<1>1. CASE \E r \in Record, id \in KeyIds : ReadDb(r, id) \/ ReadIsam(r, id)
  BY <1>1, ReadKeeps DEF ByPrimaryKey, ReadStep
<1>2. CASE \E r \in Record, o \in Updates : Update(o, r)
  BY <1>2, UpdateKeeps DEF DeletesWhatItRead
<1> QED  BY <1>1, <1>2, FinishAgrees, CommitKeeps, ExitKeeps, RestartKeeps, StutterKeeps
         DEF Next, Updates

\* Both hold throughout: the call in progress,
LEMMA DualInvariant == ASSUME ByPrimaryKey PROVE Spec => []DInv
<1>1. Init => DInv
  BY DualInit
<1>2. DInv /\ [Next]_vars => DInv'
  BY DualStep
<1> QED  BY <1>1, <1>2, PTL DEF Spec

\* and the agreement.
LEMMA AgreeInvariant ==
    ASSUME ByPrimaryKey, DeletesWhatItRead PROVE Spec => [](DInv /\ AgreeInv)
<1>1. Init => DInv /\ AgreeInv
  BY DualInit
<1>2. DInv /\ AgreeInv /\ [Next]_vars => (DInv /\ AgreeInv)'
  BY DualStep, AgreeStep
<1> QED  BY <1>1, <1>2, PTL DEF Spec

\* Mode A: after any commits, rolled-back batches, refused updates and exits
\* the ISAM file and the table differ only at keys whose loss is accounted for.
THEOREM DivergenceCorrect ==
    ASSUME ByPrimaryKey, DeletesWhatItRead PROVE Spec => []Divergence
<1>1. DInv /\ AgreeInv => Divergence
  <2> SUFFICES ASSUME DInv, AgreeInv, mode = "A", NEW k \in Keys
               PROVE  SameAt(k) \/ k \in tainted \/ (pc = "db" /\ k = arg.k)
    BY DEF Divergence
  <2>1. isam[k] = isam0[k] \/ (pc = "db" /\ k = arg.k)
    BY ApplyResult DEF DualTypes, CallInv
  <2> QED  BY <2>1 DEF AgreeInv, SameAt
<1> QED  BY <1>1, AgreeInvariant, PTL

\* A call that returns 00 has changed exactly the record the program gave, in
\* each store its mode writes.
THEOREM OkAppliedCorrect == ASSUME ByPrimaryKey PROVE Spec => OkApplied
<1>1. DInv /\ [Next]_vars =>
        [Returns /\ status' = "00"
            => /\ mode # "B" => isam' = ExtApply(isam0, op, arg)
               /\ mode # "W" => db' = ExtApply(db, op, Stored(arg))]_vars
  <2> SUFFICES ASSUME DInv, Next, Returns, status' = "00"
               PROVE  /\ mode # "B" => isam' = ExtApply(isam0, op, arg)
                      /\ mode # "W" => db' = ExtApply(db, op, Stored(arg))
    OBVIOUS
  <2>1. Finish
    BY DEF Next, Returns, ReadDb, ReadIsam, Update, UpdateA, UpdateB, UpdateW, Given, Commit,
           Exit, Restart
  <2>2. mode # "W" => db' = ExtApply(db, op, Stored(arg))
    BY <2>1, FinishCases
  <2>3. mode # "B" => isam' = isam
    BY <2>1, FinishCases
  <2> QED  BY <2>2, <2>3 DEF CallInv, Returns
<1> QED  BY <1>1, DualInvariant, PTL DEF Spec, OkApplied

\* Mode A: a call the database refuses leaves the ISAM file as it was before
\* the call, a DELETE up to valida_numero, unless the key is accounted for.
THEOREM UndoneCorrect ==
    ASSUME ByPrimaryKey, DeletesWhatItRead PROVE Spec => Undone
<1>1. DInv /\ AgreeInv /\ [Next]_vars =>
        [Returns /\ mode = "A" /\ status' # "00" /\ arg.k \notin tainted'
            => /\ op # "delete" => isam' = isam0
               /\ op = "delete" => \A k \in Keys : NormVal(isam'[k]) = NormVal(isam0[k])]_vars
  <2> SUFFICES ASSUME DInv, AgreeInv, Next, Returns, mode = "A", status' # "00",
                      arg.k \notin tainted'
               PROVE  /\ op # "delete" => isam' = isam0
                      /\ op = "delete" => \A k \in Keys : NormVal(isam'[k]) = NormVal(isam0[k])
    OBVIOUS
  <2>1. Finish
    BY DEF Next, Returns, ReadDb, ReadIsam, Update, UpdateA, UpdateB, UpdateW, Given, Commit,
           Exit, Restart
  <2>2. PICK x \in DbOp(arg) :
            /\ x.rec \in Record /\ x.rec.k = arg.k /\ (x.rec = arg \/ x.rec.v = db[arg.k])
            /\ Desfaz(x.rec)
    BY <2>1, FinishCases
  <2> QED  BY <2>2, UndoneResult DEF Returns
<1> QED  BY <1>1, AgreeInvariant, PTL DEF Spec, Undone

================================================================================
