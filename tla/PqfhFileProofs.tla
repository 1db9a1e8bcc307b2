----------------------------- MODULE PqfhFileProofs ----------------------------
(* Proofs about PqfhFile for every set of modes.                           *)
EXTENDS PqfhFile, TLAPS

AllModes == OpenModes \cup {"closed"}

\* What an OPEN of EXTFH leaves in the fcd (the cases of ExtOpen).
LEMMA ExtOpenResult ==
    ASSUME NEW om \in AllModes, NEW how \in OpenModes, NEW x \in ExtOpen(om, how)
    PROVE  /\ x.open_mode \in AllModes /\ x.status \in Statuses
           /\ om # "closed" => x.open_mode = om /\ x.status = "41"
           /\ om = "closed" /\ x.status = "00" => x.open_mode = how
           /\ om = "closed" /\ x.status # "00" => x.open_mode = "closed"
<1>1. CASE om # "closed"
  BY <1>1 DEF ExtOpen, ExtState, AllModes, OpenModes, Statuses
<1>2. CASE om = "closed"
  BY <1>2 DEF ExtOpen, ExtState, AllModes, OpenModes, Statuses
<1> QED  BY <1>1, <1>2

\* The handle of EXTFH after an OPEN, which only a successful one changes.
LEMMA ExtOpenHandle ==
    ASSUME NEW om \in AllModes, NEW how \in OpenModes, NEW x \in ExtOpen(om, how),
           handle \in BOOLEAN, isam_rows \in BOOLEAN
    PROVE  /\ x.handle \in BOOLEAN /\ x.rows \in BOOLEAN
           /\ om # "closed" => x.handle = handle
           /\ om = "closed" /\ x.status = "00" => x.handle = TRUE
           /\ om = "closed" /\ x.status # "00" => x.handle = handle
<1>1. CASE om # "closed"
  <2>1. x.handle = handle /\ x.rows = isam_rows
    BY <1>1 DEF ExtOpen, ExtState
  <2> QED  BY <1>1, <2>1, Zenon
<1>2. CASE om = "closed" /\ x = ExtState(how, "00", TRUE, isam_rows /\ how # "output")
  <2>1. x.handle = TRUE /\ x.status = "00" /\ x.rows = (isam_rows /\ how # "output")
    BY <1>2 DEF ExtState
  <2> QED  BY <1>2, <2>1, Zenon
<1>3. CASE om = "closed" /\ \E st \in {"35", "9A"} : x = ExtState(om, st, handle, isam_rows)
  <2>1. x.handle = handle /\ x.rows = isam_rows /\ x.status # "00"
    BY <1>3 DEF ExtState
  <2> QED  BY <1>3, <2>1, Zenon
<1> QED  BY <1>1, <1>2, <1>3 DEF ExtOpen

\* What op_open leaves in the fcd: it succeeds with the file open or fails
\* with it closed, and isam = 'S' goes with a freed table_t.
LEMMA OpOpenResult ==
    ASSUME NEW how \in OpenModes, FcdOK, NEW r \in op_open(how)
    PROVE  /\ r.open_mode \in AllModes /\ r.status \in {"00", "35"}
           /\ r.status = "00" <=> r.open_mode # "closed"
           /\ (r.isam = "S" /\ r.tab = "freed") \/ (r.isam = "0" /\ r.tab = "live")
           /\ r.cached \in {"none", "absent", "found"}
<1>0. cache_put(cached, exists, aborted) \in {"none", "absent", "found"}
  BY DEF cache_put, FcdOK
<1>1. CASE table_info = "isam"
  BY <1>0, <1>1 DEF op_open, OpenResult, AllModes
<1>2. CASE table_info = "found"
  BY <1>0, <1>2 DEF op_open, OpenResult, AllModes, OpenModes
<1>3. CASE table_info = "absent" /\ how # "input" /\ derived
  <2>1. op_open(how) = create_table
    BY <1>3 DEF op_open
  <2>2. /\ cache_put("none", TRUE, FALSE) \in {"none", "absent", "found"}
        /\ cache_put("none", FALSE, FALSE) \in {"none", "absent", "found"}
    BY DEF cache_put
  <2>3. \/ \E d : r = OpenResult("closed", "35", "0", "live", "none", d)
        \/ \E c \in {"none", "absent", "found"} : \E d :
               r = OpenResult("input", "00", "0", "live", c, d)
    BY <2>1, <2>2, Zenon DEF create_table
  <2> QED  BY <2>3 DEF OpenResult, AllModes, OpenModes
<1>4. CASE table_info = "absent" /\ ~ (how # "input" /\ derived)
  BY <1>0, <1>4 DEF op_open, OpenResult, AllModes
<1> QED  BY <1>1, <1>2, <1>3, <1>4 DEF table_info, FcdOK

DbSet == [exists : BOOLEAN, rows : BOOLEAN, saved : BOOLEAN, aborted : BOOLEAN]

\* What create_table, truncate_table and op_open leave in the database.
LEMMA OpOpenDb ==
    ASSUME NEW how \in OpenModes, FcdOK, StoresOK, NEW r \in op_open(how)
    PROVE  r.db \in DbSet
<1>1. Here \in DbSet /\ Failed \in DbSet /\ [Here EXCEPT !.rows = FALSE] \in DbSet
  BY DEF Here, Failed, Db, DbSet, StoresOK
<1>2. Db(TRUE, FALSE, FALSE, FALSE) \in DbSet /\ Db(exists, saved, saved, FALSE) \in DbSet
  BY DEF Db, DbSet, StoresOK
<1>3. \E om, st, is, t, c : \E d \in DbSet : r = OpenResult(om, st, is, t, c, d)
  <2>1. CASE table_info = "isam"
    <3>1. \E c : r = OpenResult("closed", "35", "S", "freed", c, Here)
      BY <2>1 DEF op_open
    <3> QED  BY <3>1, <1>1
  <2>2. CASE table_info = "found"
    <3>1. \E c, d : /\ r = OpenResult(how, "00", "0", "live", c, d)
                    /\ d = Here \/ d \in truncate_table
      BY <2>2 DEF op_open
    <3>2. \A d \in truncate_table : d \in DbSet
      BY <1>1 DEF truncate_table
    <3> QED  BY <3>1, <3>2, <1>1
  <2>3. CASE table_info = "absent" /\ how # "input" /\ derived
    <3>1. r \in create_table
      BY <2>3 DEF op_open
    <3> QED  BY <3>1, <1>1, <1>2, Zenon DEF create_table
  <2>4. CASE table_info = "absent" /\ ~ (how # "input" /\ derived)
    <3>1. \E c : r = OpenResult("closed", "35", "0", "live", c, Here)
      BY <2>4 DEF op_open
    <3> QED  BY <3>1, <1>1
  <2> QED  BY <2>1, <2>2, <2>3, <2>4 DEF table_info, FcdOK
<1> QED  BY <1>3 DEF OpenResult

--------------------------------------------------------------------------------
(* The inductive invariant is the conjunction of the invariants and of     *)
(* what an entry of the cache says of the table.                           *)

Safe == NoDangling /\ HandleFollows /\ WTransparent

\* The cache has "found" only a table that is there, or was.
CacheSeen == cached = "found" /\ ~exists => gone

FInv == TypeOK /\ Safe /\ CacheSeen

USE DEF FInv, TypeOK, Safe

\* An OPEN of EXTFH whose outcome goes to the fcd: the handle follows it.
LEMMA OpenHandle ==
    ASSUME FInv, NEW how \in OpenModes, NEW x \in ExtOpen(open_mode, how),
           open_mode' = x.open_mode, Isam(x)
    PROVE  /\ open_mode # "closed" => handle' = handle /\ open_mode' = open_mode
           /\ open_mode = "closed" => (handle' <=> open_mode' # "closed")
<1>1. open_mode \in AllModes
  BY DEF FcdOK, AllModes
<1>2. handle' = x.handle
  BY DEF Isam
<1>3. CASE open_mode # "closed"
  BY <1>1, <1>2, <1>3, ExtOpenResult, ExtOpenHandle DEF StoresOK
<1>4. CASE open_mode = "closed"
  <2>1. x.status = "00" <=> open_mode' # "closed"
    BY <1>1, <1>4, ExtOpenResult DEF OpenModes
  <2>2. /\ x.status = "00" => x.handle = TRUE
        /\ x.status # "00" => x.handle = handle
    BY <1>1, <1>4, ExtOpenHandle DEF StoresOK
  <2>3. ~handle
    BY <1>4, Zenon DEF HandleFollows
  <2> QED  BY <1>2, <1>4, <2>1, <2>2, <2>3, Zenon
<1> QED  BY <1>3, <1>4

\* The mode of a call that finds the file open is the one it was opened with.
LEMMA OpenKeepsMode ==
    ASSUME FInv, OpenCall, open_mode # "closed"
    PROVE  mode' = mode /\ OpenIsamOf = isam
BY DEF OpenCall, OpenModeOf, OpenIsamOf, mode, Effective, confVars

\* The fields of the fcd that every OPEN sets.
LEMMA OpenFields ==
    ASSUME FInv, OpenCall
    PROVE  /\ env' \in Modes /\ table_mode' \in Modes \cup {"0"}
           /\ fmode' \in Modes \cup {"0"} /\ mode' \in Modes
           /\ mode' = Effective(OpenModeOf) /\ op' = "open" /\ OpenIsamOf \in {"0", "S"}
BY DEF OpenCall, OpenModeOf, OpenIsamOf, mode, Effective, confVars, FcdOK

\* OPEN in mode I, or of a file that is open in ISAM alone.
LEMMA OpenExtfhSafe ==
    ASSUME FInv, NEW how \in OpenModes, OpenExtfh(how)
    PROVE  FcdOK' /\ Safe'
<1>0. OpenCall /\ isam' = OpenIsamOf /\ tab' = tab /\ cached' = cached
  BY DEF OpenExtfh
<1>1. PICK x \in ExtOpen(open_mode, how) :
          open_mode' = x.open_mode /\ status' = x.status /\ Isam(x)
  BY DEF OpenExtfh
<1>2. mode' = "I" \/ isam' = "S"
  BY <1>0, OpenFields DEF OpenExtfh
<1>3. FcdOK'
  BY <1>0, <1>1, ExtOpenResult, OpenFields DEF FcdOK, AllModes
<1>4. NoDangling'
  BY <1>2 DEF NoDangling
<1>5. HandleFollows'
  <2>1. open_mode # "closed" => mode' = mode /\ isam' = isam
    BY <1>0, OpenKeepsMode
  <2>2. /\ open_mode # "closed" => handle' = handle /\ open_mode' = open_mode
        /\ open_mode = "closed" => (handle' <=> open_mode' # "closed")
    BY <1>1, OpenHandle
  <2>3. mode' # "B" \/ isam' = "S"
    BY <1>2
  <2>4. CASE open_mode # "closed"
    <3>1. handle
      BY <1>2, <2>1, <2>4 DEF HandleFollows
    <3>2. handle' /\ open_mode' # "closed"
      BY <2>2, <2>4, <3>1
    <3> QED  BY <2>3, <3>2, Zenon DEF HandleFollows
  <2>5. CASE open_mode = "closed"
    BY <2>2, <2>3, <2>5, Zenon DEF HandleFollows
  <2> QED  BY <2>4, <2>5
<1>6. WTransparent'
  BY <1>1 DEF WTransparent, Isam
<1> QED  BY <1>3, <1>4, <1>5, <1>6

\* OPEN in mode W.
LEMMA OpenWSafe ==
    ASSUME FInv, NEW how \in OpenModes, OpenW(how)
    PROVE  FcdOK' /\ Safe'
<1>0. OpenCall /\ mode' = "W"
  BY OpenFields DEF OpenW
<1>1. PICK x \in ExtOpen(open_mode, how) :
          /\ Isam(x)
          /\ \/ /\ x.status # "00" \/ how # "io"
                /\ open_mode' = x.open_mode /\ status' = x.status
                /\ isam' = IF x.status = "00" THEN "S" ELSE OpenIsamOf
                /\ UNCHANGED <<tab, cached, dbVars>>
             \/ /\ x.status = "00" /\ how = "io"
                /\ \E r \in op_open(how) :
                      /\ ShowIsam(x, r)
                      /\ isam' = r.isam /\ tab' = r.tab /\ cached' = r.cached
                      /\ Database(r.db)
  BY DEF OpenW
<1>2. open_mode' = x.open_mode /\ status' = x.status
  BY <1>1 DEF ShowIsam
<1>3. \/ isam' \in {"0", "S"} /\ tab' = tab /\ cached' = cached
      \/ \E r \in op_open(how) : isam' = r.isam /\ tab' = r.tab /\ cached' = r.cached
  BY <1>0, <1>1, OpenFields
<1>4. open_mode \in AllModes
  BY DEF FcdOK, AllModes
<1>5. open_mode # "closed" => x.status = "41" /\ open_mode' = open_mode
  BY <1>2, <1>4, ExtOpenResult
<1>6. open_mode = "closed" /\ x.status # "00" => open_mode' = "closed"
  BY <1>2, <1>4, ExtOpenResult
<1>7. FcdOK'
  <2>1. isam' \in {"0", "S"} /\ tab' \in {"none", "live", "freed"} /\ cached' \in {"none", "absent", "found"}
    BY <1>3, OpOpenResult DEF FcdOK
  <2> QED  BY <1>0, <1>2, <1>4, <2>1, ExtOpenResult, OpenFields DEF FcdOK, AllModes
<1>8. NoDangling'
  <2>1. CASE open_mode # "closed"
    BY <1>0, <1>1, <1>5, <2>1, OpenKeepsMode DEF NoDangling
  <2>2. CASE open_mode = "closed" /\ x.status # "00"
    BY <1>6, <2>2 DEF NoDangling
  <2>3. CASE open_mode = "closed" /\ x.status = "00"
    BY <1>1, <2>3, OpOpenResult DEF NoDangling
  <2> QED  BY <2>1, <2>2, <2>3
<1>9. HandleFollows'
  <2>1. mode' # "B" /\ (open_mode # "closed" => mode # "B")
    BY <1>0, OpenKeepsMode
  <2>2. /\ open_mode # "closed" => handle' = handle /\ open_mode' = open_mode
        /\ open_mode = "closed" => (handle' <=> open_mode' # "closed")
    BY <1>1, <1>2, OpenHandle
  <2>3. CASE open_mode # "closed"
    <3>1. handle
      BY <2>1, <2>3 DEF HandleFollows
    <3>2. handle' /\ open_mode' # "closed"
      BY <2>2, <2>3, <3>1
    <3> QED  BY <2>1, <3>2, Zenon DEF HandleFollows
  <2>4. CASE open_mode = "closed"
    BY <2>1, <2>2, <2>4, Zenon DEF HandleFollows
  <2> QED  BY <2>3, <2>4
<1>10. WTransparent'
  BY <1>1, <1>2 DEF WTransparent, Isam
<1> QED  BY <1>7, <1>8, <1>9, <1>10

\* OPEN in modes A and B of a file that is open.
LEMMA OpenAgainSafe ==
    ASSUME FInv, NEW how \in OpenModes, OpenAgain(how)
    PROVE  FcdOK' /\ Safe'
<1>0. /\ OpenCall /\ open_mode # "closed" /\ status' = "41"
      /\ open_mode' = open_mode /\ isam' = isam /\ tab' = tab /\ cached' = cached
      /\ handle' = handle
  BY DEF OpenAgain, NoIsam
<1>1. mode' = mode /\ mode # "W"
  BY <1>0, OpenKeepsMode, OpenFields DEF OpenAgain
<1>2. FcdOK'
  BY <1>0, OpenFields DEF FcdOK, Statuses
<1>3. NoDangling'
  BY <1>0, <1>1 DEF NoDangling
<1>4. HandleFollows'
  BY <1>0, <1>1, Zenon DEF HandleFollows
<1>5. WTransparent'
  BY <1>1 DEF WTransparent
<1> QED  BY <1>2, <1>3, <1>4, <1>5

\* OPEN in modes A and B of a closed file.
LEMMA OpenDbSafe ==
    ASSUME FInv, NEW how \in OpenModes, OpenDb(how)
    PROVE  FcdOK' /\ Safe'
<1>0. OpenCall /\ open_mode = "closed" /\ mode' \in {"A", "B"}
  BY OpenFields DEF OpenDb
<1>1. PICK r \in op_open(how) :
          /\ isam' = r.isam /\ tab' = r.tab /\ cached' = r.cached
          /\ \/ /\ r.isam = "S"
                /\ \E x \in ExtOpen("closed", how) :
                      open_mode' = x.open_mode /\ status' = x.status /\ Isam(x)
             \/ /\ r.isam # "S"
                /\ mode' = "B" \/ r.status # "00"
                /\ open_mode' = r.open_mode /\ status' = r.status /\ handle' = handle
             \/ /\ r.isam # "S" /\ mode' = "A"
                /\ \E x \in ExtOpen("closed", how) :
                      open_mode' = x.open_mode /\ status' = x.status /\ Isam(x)
  BY <1>0, OpenFields DEF OpenDb, OpenBoth, NoIsam
<1>2. FcdOK'
  <2>1. open_mode' \in AllModes /\ status' \in Statuses
    BY <1>1, ExtOpenResult, OpOpenResult DEF AllModes, Statuses
  <2> QED  BY <1>0, <1>1, <2>1, OpenFields, OpOpenResult DEF FcdOK, AllModes
<1>3. NoDangling'
  BY <1>1, OpOpenResult DEF NoDangling
<1>4. HandleFollows'
  <2>1. CASE \E x \in ExtOpen("closed", how) : open_mode' = x.open_mode /\ Isam(x)
    <3>1. handle' <=> open_mode' # "closed"
      BY <1>0, <2>1, OpenHandle
    <3>2. CASE r.isam = "S" \/ mode' = "A"
      BY <1>1, <3>1, <3>2, Zenon DEF HandleFollows
    <3>3. CASE r.isam # "S" /\ mode' = "B"
      <4>1. handle' = handle
        BY <1>1, <3>3
      <4>2. ~handle
        BY <1>0, Zenon DEF HandleFollows
      <4> QED  BY <1>1, <3>3, <4>1, <4>2, Zenon DEF HandleFollows
    <3> QED  BY <1>0, <3>2, <3>3
  <2>2. CASE /\ r.isam # "S" /\ (mode' = "B" \/ r.status # "00")
             /\ open_mode' = r.open_mode /\ handle' = handle
    <3>1. ~handle
      BY <1>0, Zenon DEF HandleFollows
    <3>2. (mode' = "B" /\ isam' # "S") \/ open_mode' = "closed"
      BY <1>1, <2>2, OpOpenResult
    <3>3. handle' = handle
      BY <2>2
    <3> QED  BY <3>1, <3>2, <3>3, Zenon DEF HandleFollows
  <2> QED  BY <1>1, <2>1, <2>2
<1>5. WTransparent'
  BY <1>0 DEF WTransparent
<1> QED  BY <1>2, <1>3, <1>4, <1>5

\* The fields that CLOSE and DELETE FILE leave alone.
LEMMA CallFields ==
    ASSUME FInv, NEW o, Call(o)
    PROVE  /\ env' \in Modes /\ table_mode' \in Modes \cup {"0"}
           /\ fmode' \in Modes \cup {"0"} /\ mode' = mode /\ mode \in Modes /\ op' = o
BY DEF Call, confVars, mode, Effective, FcdOK

\* A CLOSE of EXTFH leaves no handle.
LEMMA CloseHandle ==
    ASSUME FInv, handle' = ExtClose(open_mode).handle
    PROVE  ~handle'
<1>1. CASE open_mode # "closed"
  BY <1>1 DEF ExtClose, ExtState
<1>2. CASE open_mode = "closed"
  <2>1. ~handle
    BY <1>2, Zenon DEF HandleFollows
  <2>2. ExtClose(open_mode).handle = handle
    BY <1>2 DEF ExtClose, ExtState
  <2> QED  BY <2>1, <2>2
<1> QED  BY <1>1, <1>2

\* CLOSE of a file that EXTFH has open alone or not at all.
LEMMA CloseExtfhSafe ==
    ASSUME FInv, CloseExtfh
    PROVE  FcdOK' /\ Safe'
<1> DEFINE x == ExtClose(open_mode)
<1>0. /\ Call("close") /\ isam' = isam /\ tab' = tab /\ cached' = cached
      /\ open_mode' = x.open_mode /\ status' = x.status /\ Isam(x)
  BY DEF CloseExtfh
<1>1. open_mode' = "closed" /\ status' \in {"00", "42"}
  BY <1>0 DEF ExtClose, ExtState
<1>2. FcdOK'
  BY <1>0, <1>1, CallFields DEF FcdOK, Statuses
<1>3. NoDangling'
  BY <1>1 DEF NoDangling
<1>4. ~handle'
  BY <1>0, CloseHandle DEF Isam
<1>5. HandleFollows'
  BY <1>1, <1>4, Zenon DEF HandleFollows
<1>6. WTransparent'
  BY <1>0 DEF WTransparent, Isam
<1> QED  BY <1>2, <1>3, <1>5, <1>6

\* CLOSE in mode W.
LEMMA CloseWSafe ==
    ASSUME FInv, CloseW
    PROVE  FcdOK' /\ Safe'
<1> DEFINE x == ExtClose(open_mode)
<1>0. /\ Call("close") /\ isam' = isam /\ tab' \in {tab, "freed"} /\ cached' = cached
      /\ open_mode' = x.open_mode /\ status' = x.status /\ Isam(x)
  BY DEF CloseW
<1>1. open_mode' = "closed" /\ status' \in {"00", "42"}
  BY <1>0 DEF ExtClose, ExtState
<1>2. FcdOK'
  BY <1>0, <1>1, CallFields DEF FcdOK, Statuses
<1>3. NoDangling'
  BY <1>1 DEF NoDangling
<1>4. ~handle'
  BY <1>0, CloseHandle DEF Isam
<1>5. HandleFollows'
  BY <1>1, <1>4, Zenon DEF HandleFollows
<1>6. WTransparent'
  BY <1>0 DEF WTransparent, Isam
<1> QED  BY <1>2, <1>3, <1>5, <1>6

\* CLOSE in modes A and B.
LEMMA CloseDbSafe ==
    ASSUME FInv, CloseDb
    PROVE  FcdOK' /\ Safe'
<1> DEFINE x == ExtClose(open_mode)
<1>0. /\ Call("close") /\ isam' = isam /\ tab' \in {tab, "freed"} /\ cached' = cached
      /\ open_mode' = "closed" /\ mode \in {"A", "B"} /\ isam # "S"
  BY DEF CloseDb
<1>1. \/ mode = "A" /\ status' = x.status /\ handle' = x.handle
      \/ mode = "B" /\ status' \in {"00", "42"} /\ handle' = handle
  BY DEF CloseDb, Isam, NoIsam
<1>2. x.status \in {"00", "42"}
  BY DEF ExtClose, ExtState
<1>3. FcdOK'
  BY <1>0, <1>1, <1>2, CallFields DEF FcdOK, Statuses
<1>4. NoDangling'
  BY <1>0 DEF NoDangling
<1>5. ~handle'
  <2>1. CASE mode = "A"
    BY <1>1, <2>1, CloseHandle
  <2>2. CASE mode = "B"
    <3>1. ~handle
      BY <1>0, <2>2, Zenon DEF HandleFollows
    <3> QED  BY <1>1, <2>2, <3>1
  <2> QED  BY <1>0, <2>1, <2>2
<1>6. HandleFollows'
  BY <1>0, <1>5, Zenon DEF HandleFollows
<1>7. WTransparent'
  BY <1>0, CallFields DEF WTransparent
<1> QED  BY <1>3, <1>4, <1>6, <1>7

\* DELETE FILE changes neither the handle nor, of an open file, the path.
LEMMA DeleteSafe ==
    ASSUME FInv, DeleteFile
    PROVE  FcdOK' /\ Safe'
<1>0. Call("delete") /\ open_mode' = open_mode /\ tab' = tab
  BY DEF DeleteFile, DeleteDb, DeleteExtfh, DeleteW
<1>1. handle' = handle
  <2>1. \A x \in ExtDelete(open_mode) : x.handle = handle
    BY DEF ExtDelete, ExtState
  <2> QED  BY <2>1 DEF DeleteFile, DeleteDb, DeleteExtfh, DeleteW, Isam, NoIsam
<1>2. \A x \in ExtDelete(open_mode) :
         /\ x.status \in Statuses
         /\ open_mode # "closed" => x.status # "00"
  BY DEF ExtDelete, ExtState, Statuses
<1>3. op_delete_file(open_mode)
        => /\ status' \in {"00", "99"} /\ isam' \in {isam, "S"}
           /\ cached' \in {cached, "absent", "found"}
           /\ open_mode # "closed" => isam' = isam
  BY DEF op_delete_file, cache_put
<1>4. /\ status' \in Statuses /\ isam' \in {isam, "S"}
      /\ cached' \in {cached, "absent", "found"}
      /\ open_mode # "closed" => isam' = isam
  BY <1>2, <1>3 DEF DeleteFile, DeleteDb, DeleteExtfh, DeleteW, Statuses
<1>5. mode' = mode /\ op' = "delete"
  BY <1>0, CallFields
<1>6. FcdOK'
  BY <1>0, <1>4, CallFields DEF FcdOK
<1>7. NoDangling'
  BY <1>0, <1>4, <1>5 DEF NoDangling
<1>8. HandleFollows'
  <2>1. CASE open_mode # "closed"
    BY <1>0, <1>1, <1>4, <1>5, <2>1, Zenon DEF HandleFollows
  <2>2. CASE open_mode = "closed"
    BY <1>0, <1>1, <2>2, Zenon DEF HandleFollows
  <2> QED  BY <2>1, <2>2
<1>9. WTransparent'
  BY <1>5 DEF WTransparent
<1> QED  BY <1>6, <1>7, <1>8, <1>9

OtherStep ==
    \/ \E m \in Modes : CommandMode(m)
    \/ CommandCache \/ OtherCall \/ Write \/ EndTransaction

\* The other steps leave the fcd, the table_t and the handle alone.
LEMMA OtherSafe ==
    ASSUME FInv, OtherStep
    PROVE  FcdOK' /\ Safe'
<1>1. /\ env' = env /\ table_mode' \in Modes \cup {table_mode, "0"} /\ fmode' = fmode
      /\ isam' = isam /\ open_mode' = open_mode /\ status' = status /\ tab' = tab
      /\ cached' = cached /\ handle' = handle /\ op' = op /\ ext' = ext
  BY DEF OtherStep, CommandMode, CommandCache, OtherCall, Write, EndTransaction,
         confVars, fcdVars, metaVars, isamVars
<1>2. mode' = mode
  BY <1>1 DEF mode, Effective
<1>3. FcdOK'
  BY <1>1, <1>2 DEF FcdOK
<1>4. NoDangling'
  BY <1>1, <1>2 DEF NoDangling
<1>5. HandleFollows'
  BY <1>1, <1>2, Zenon DEF HandleFollows
<1>6. WTransparent'
  BY <1>1, <1>2 DEF WTransparent
<1> QED  BY <1>3, <1>4, <1>5, <1>6

--------------------------------------------------------------------------------
(* The Boolean part of the type invariant.                                 *)

ConfOK == convertida \in BOOLEAN /\ derived \in BOOLEAN /\ usecache \in BOOLEAN
DbOK   ==
    /\ exists \in BOOLEAN /\ rows \in BOOLEAN /\ saved \in BOOLEAN /\ aborted \in BOOLEAN
    /\ gone \in BOOLEAN
IsamOK == handle \in BOOLEAN /\ isam_rows \in BOOLEAN

\* A result that is stored in the database's variables keeps their type.
LEMMA DatabaseOK ==
    ASSUME NEW d \in DbSet, Database(d)
    PROVE  DbOK'
<1>1. d.exists \in BOOLEAN /\ d.rows \in BOOLEAN /\ d.saved \in BOOLEAN /\ d.aborted \in BOOLEAN
  BY DEF DbSet
<1>2. /\ exists' = d.exists /\ rows' = d.rows /\ saved' = d.saved /\ aborted' = d.aborted
      /\ gone' \in BOOLEAN
  BY Zenon DEF Database
<1> QED  BY <1>1, <1>2, Zenon DEF DbOK

\* The results of DELETE FILE have the types of the database's variables.
LEMMA DropOK ==
    ASSUME FInv, NEW om, op_delete_file(om)
    PROVE  DbOK'
<1>1. DbOK
  BY Zenon DEF StoresOK, DbOK
<1>2. Failed \in DbSet /\ Db(FALSE, FALSE, FALSE, FALSE) \in DbSet
  BY DEF Here, Failed, Db, DbSet, StoresOK
<1>3. \/ UNCHANGED dbVars
      \/ Database(Failed)
      \/ Database(Db(FALSE, FALSE, FALSE, FALSE))
  BY Zenon DEF op_delete_file
<1>4. CASE UNCHANGED dbVars
  BY <1>1, <1>4, Zenon DEF DbOK, dbVars
<1> QED  BY <1>2, <1>3, <1>4, DatabaseOK

\* Every call leaves Booleans in the stores.
LEMMA StoresStep ==
    ASSUME FInv, Next
    PROVE  StoresOK'
<1>0. ConfOK /\ DbOK /\ IsamOK
  BY Zenon DEF StoresOK, ConfOK, DbOK, IsamOK
<1>1. ConfOK'
  <2>1. convertida' = convertida /\ derived' = derived /\ (usecache' = usecache \/ usecache' = ~usecache)
    BY DEF Next, Open, OpenExtfh, OpenW, OpenAgain, OpenDb, OpenCall, Close, CloseExtfh, CloseW,
           CloseDb, DeleteFile, DeleteDb, DeleteExtfh, DeleteW, Call, CommandMode, CommandCache,
           OtherCall, Write, EndTransaction, confVars, metaVars
  <2> QED  BY <1>0, <2>1, Zenon DEF ConfOK
<1>2. DbOK'
  <2>1. ASSUME NEW how \in OpenModes, Open(how)  PROVE DbOK'
    <3>1. UNCHANGED dbVars \/ \E r \in op_open(how) : Database(r.db)
      BY <2>1, Zenon DEF Open, OpenExtfh, OpenW, OpenAgain, OpenDb, dbVars
    <3>2. CASE UNCHANGED dbVars
      BY <1>0, <3>2, Zenon DEF DbOK, dbVars
    <3> QED  BY <3>1, <3>2, OpOpenDb, DatabaseOK
  <2>2. ASSUME Close \/ (\E m \in Modes : CommandMode(m)) \/ CommandCache  PROVE DbOK'
    <3>1. UNCHANGED dbVars
      BY <2>2 DEF Close, CloseExtfh, CloseW, CloseDb, CommandMode, CommandCache, dbVars
    <3> QED  BY <1>0, <3>1, Zenon DEF DbOK, dbVars
  <2>3. ASSUME DeleteFile  PROVE DbOK'
    <3>1. UNCHANGED dbVars \/ op_delete_file(open_mode)
      BY <2>3, Zenon DEF DeleteFile, DeleteDb, DeleteExtfh, DeleteW, dbVars
    <3>2. CASE UNCHANGED dbVars
      BY <1>0, <3>2, Zenon DEF DbOK, dbVars
    <3> QED  BY <3>1, <3>2, DropOK
  <2>4. ASSUME OtherCall \/ Write \/ EndTransaction  PROVE DbOK'
    <3>1. CASE OtherCall
      BY <1>0, <3>1, Zenon DEF DbOK, OtherCall
    <3>2. CASE Write
      BY <1>0, <3>2, Zenon DEF DbOK, Write
    <3>3. CASE EndTransaction
      BY <1>0, <3>3, Zenon DEF DbOK, EndTransaction
    <3> QED  BY <2>4, <3>1, <3>2, <3>3
  <2> QED  BY <2>1, <2>2, <2>3, <2>4 DEF Next
<1>3. IsamOK'
  <2>0. open_mode \in AllModes
    BY DEF FcdOK, AllModes
  <2>1. ASSUME NEW how \in OpenModes, Open(how)  PROVE IsamOK'
    <3>1. \/ NoIsam
          \/ \E x \in ExtOpen(open_mode, how) : Isam(x)
          \/ \E x \in ExtOpen("closed", how) : Isam(x)
      BY <2>1, Zenon DEF Open, OpenExtfh, OpenW, OpenAgain, OpenDb, OpenBoth
    <3>2. CASE NoIsam
      BY <1>0, <3>2, Zenon DEF IsamOK, NoIsam
    <3>3. ASSUME NEW om \in AllModes, NEW x \in ExtOpen(om, how), Isam(x)  PROVE IsamOK'
      <4>1. x.handle \in BOOLEAN /\ x.rows \in BOOLEAN
        BY <3>3, ExtOpenHandle DEF StoresOK
      <4> QED  BY <3>3, <4>1, Zenon DEF IsamOK, Isam
    <3> QED  BY <2>0, <3>1, <3>2, <3>3 DEF AllModes
  <2>2. ASSUME Close  PROVE IsamOK'
    <3>1. NoIsam \/ Isam(ExtClose(open_mode))
      BY <2>2, Zenon DEF Close, CloseExtfh, CloseW, CloseDb
    <3>2. CASE NoIsam
      BY <1>0, <3>2, Zenon DEF IsamOK, NoIsam
    <3>3. CASE Isam(ExtClose(open_mode))
      <4>1. /\ ExtClose(open_mode).handle = handle \/ ExtClose(open_mode).handle = FALSE
            /\ ExtClose(open_mode).rows = isam_rows
        BY DEF ExtClose, ExtState
      <4> QED  BY <1>0, <3>3, <4>1, Zenon DEF IsamOK, Isam
    <3> QED  BY <3>1, <3>2, <3>3
  <2>3. ASSUME DeleteFile  PROVE IsamOK'
    <3>1. NoIsam \/ \E x \in ExtDelete(open_mode) : Isam(x)
      BY <2>3, Zenon DEF DeleteFile, DeleteDb, DeleteExtfh, DeleteW
    <3>2. CASE NoIsam
      BY <1>0, <3>2, Zenon DEF IsamOK, NoIsam
    <3>3. ASSUME NEW x \in ExtDelete(open_mode), Isam(x)  PROVE IsamOK'
      <4>1. x.handle = handle /\ (x.rows = isam_rows \/ x.rows = FALSE)
        BY <3>3 DEF ExtDelete, ExtState
      <4> QED  BY <1>0, <3>3, <4>1, Zenon DEF IsamOK, Isam
    <3> QED  BY <3>1, <3>2, <3>3
  <2>4. ASSUME OtherStep  PROVE IsamOK'
    <3>1. CASE Write
      BY <1>0, <3>1, Zenon DEF IsamOK, Write
    <3>2. CASE ~Write
      <4>1. handle' = handle /\ isam_rows' = isam_rows
        BY <2>4, <3>2 DEF OtherStep, CommandMode, CommandCache, OtherCall, EndTransaction, isamVars
      <4> QED  BY <1>0, <4>1, Zenon DEF IsamOK
    <3> QED  BY <3>1, <3>2
  <2> QED  BY <2>1, <2>2, <2>3, <2>4 DEF Next, OtherStep
<1> QED  BY <1>1, <1>2, <1>3, Zenon DEF StoresOK, ConfOK, DbOK, IsamOK

--------------------------------------------------------------------------------
(* The cache.                                                              *)

\* cache_put says "found" only of a table that is there.
LEMMA CachePutFound ==
    ASSUME NEW c, NEW ex, NEW ab, cache_put(c, ex, ab) = "found"
    PROVE  c = "found" \/ ex
BY DEF cache_put

\* op_open leaves "found" in the cache for a table that is there, or was.
LEMMA OpOpenCache ==
    ASSUME FInv, NEW how \in OpenModes, NEW r \in op_open(how), r.cached = "found"
    PROVE  r.db.exists \/ exists \/ gone
<1>1. CASE r.cached = cache_put(cached, exists, aborted)
  <2>1. cached = "found" \/ exists
    BY <1>1, CachePutFound
  <2> QED  BY <2>1, Zenon DEF CacheSeen
<1>2. CASE r \in create_table
  <2>1. cache_put("none", FALSE, FALSE) # "found" /\ "none" # "found"
    BY DEF cache_put
  <2>2. \/ \E d : r = OpenResult("closed", "35", "0", "live", "none", d)
        \/ \E c : r = OpenResult("input", "00", "0", "live", c, Db(TRUE, FALSE, FALSE, FALSE))
        \/ \E d : r = OpenResult("input", "00", "0", "live", cache_put("none", FALSE, FALSE), d)
    BY <1>2, Zenon DEF create_table
  <2>3. \/ r.cached = "none" \/ r.cached = cache_put("none", FALSE, FALSE)
        \/ r.db = Db(TRUE, FALSE, FALSE, FALSE)
    <3>1. ASSUME NEW d, r = OpenResult("closed", "35", "0", "live", "none", d)
          PROVE  r.cached = "none"
      BY <3>1 DEF OpenResult
    <3>2. ASSUME NEW c, r = OpenResult("input", "00", "0", "live", c, Db(TRUE, FALSE, FALSE, FALSE))
          PROVE  r.db = Db(TRUE, FALSE, FALSE, FALSE)
      BY <3>2 DEF OpenResult
    <3>3. ASSUME NEW d, r = OpenResult("input", "00", "0", "live", cache_put("none", FALSE, FALSE), d)
          PROVE  r.cached = cache_put("none", FALSE, FALSE)
      BY <3>3 DEF OpenResult
    <3> QED  BY <2>2, <3>1, <3>2, <3>3, Zenon
  <2>4. Db(TRUE, FALSE, FALSE, FALSE).exists
    BY DEF Db
  <2> QED  BY <2>1, <2>3, <2>4, Zenon
<1>3. r.cached = cache_put(cached, exists, aborted) \/ r \in create_table
  BY DEF op_open, OpenResult
<1> QED  BY <1>1, <1>2, <1>3

\* Every call keeps what the cache says of the table.
LEMMA CacheStep ==
    ASSUME FInv, Next
    PROVE  CacheSeen'
<1>1. CASE cached' = cached /\ exists' = exists /\ gone' = gone
  BY <1>1, Zenon DEF CacheSeen
<1>2. CASE op_delete_file(open_mode)
  <2>1. /\ cached' = cached \/ cached' = cache_put(cached, exists, aborted)
        /\ \/ exists' = exists /\ gone' = gone
           \/ \E d : exists' = d.exists /\ gone' = (~d.exists /\ (exists \/ gone))
    BY <1>2, Zenon DEF op_delete_file, Database, dbVars
  <2>2. cached' = "found" => exists \/ gone
    <3>1. cached' = "found" => cached = "found" \/ exists
      BY <2>1, CachePutFound
    <3> QED  BY <3>1, Zenon DEF CacheSeen
  <2>3. CASE exists' = exists /\ gone' = gone
    BY <2>2, <2>3, Zenon DEF CacheSeen
  <2>4. CASE \E d : exists' = d.exists /\ gone' = (~d.exists /\ (exists \/ gone))
    <3>1. PICK d : exists' = d.exists /\ gone' = (~d.exists /\ (exists \/ gone))
      BY <2>4
    <3> QED  BY <2>2, <3>1, Zenon DEF CacheSeen
  <2> QED  BY <2>1, <2>3, <2>4
<1>3. ASSUME NEW how \in OpenModes, NEW r \in op_open(how), cached' = r.cached, Database(r.db)
      PROVE  CacheSeen'
  <2>1. cached' = "found" => r.db.exists \/ exists \/ gone
    BY <1>3, OpOpenCache
  <2>2. exists' = r.db.exists /\ gone' = (~r.db.exists /\ (exists \/ gone))
    BY <1>3, Zenon DEF Database
  <2> QED  BY <2>1, <2>2, Zenon DEF CacheSeen
<1>4. \/ cached' = cached /\ UNCHANGED dbVars
      \/ op_delete_file(open_mode)
      \/ \E how \in OpenModes : \E r \in op_open(how) : cached' = r.cached /\ Database(r.db)
      \/ cached' = cached /\ exists' = exists /\ gone' = gone
  <2>1. ASSUME NEW how \in OpenModes, Open(how)
        PROVE  \/ cached' = cached /\ UNCHANGED dbVars
               \/ \E r \in op_open(how) : cached' = r.cached /\ Database(r.db)
    <3>1. CASE OpenExtfh(how)
      BY <3>1, Zenon DEF OpenExtfh, dbVars
    <3>2. CASE OpenW(how)
      BY <3>2, Zenon DEF OpenW, dbVars
    <3>3. CASE OpenAgain(how)
      BY <3>3, Zenon DEF OpenAgain, dbVars
    <3>4. CASE OpenDb(how)
      BY <3>4, Zenon DEF OpenDb
    <3> QED  BY <2>1, <3>1, <3>2, <3>3, <3>4 DEF Open
  <2>2. ASSUME Close  PROVE cached' = cached /\ UNCHANGED dbVars
    BY <2>2 DEF Close, CloseExtfh, CloseW, CloseDb, dbVars
  <2>3. ASSUME DeleteFile  PROVE (cached' = cached /\ UNCHANGED dbVars) \/ op_delete_file(open_mode)
    BY <2>3, Zenon DEF DeleteFile, DeleteDb, DeleteExtfh, DeleteW, dbVars
  <2>4. ASSUME OtherStep  PROVE cached' = cached /\ exists' = exists /\ gone' = gone
    BY <2>4 DEF OtherStep, CommandMode, CommandCache, OtherCall, Write, EndTransaction,
                metaVars, dbVars
  <2> QED  BY <2>1, <2>2, <2>3, <2>4, Zenon DEF Next, OtherStep
<1>5. UNCHANGED dbVars => exists' = exists /\ gone' = gone
  BY DEF dbVars
<1> QED  BY <1>1, <1>2, <1>3, <1>4, <1>5

--------------------------------------------------------------------------------
(* The theorems.                                                           *)

\* The state before the first call, with the fcd closed and nothing cached.
LEMMA FileInit == Init => FInv
<1> SUFFICES ASSUME Init PROVE FInv
  OBVIOUS
<1>1. FcdOK
  BY DEF Init, FcdOK, mode, Effective, OpenModes, Statuses
<1>2. StoresOK
  BY Zenon DEF Init, StoresOK
<1>3. NoDangling /\ WTransparent
  BY DEF Init, NoDangling, WTransparent
<1>4. HandleFollows
  BY Zenon DEF Init, HandleFollows
<1>5. CacheSeen
  BY DEF Init, CacheSeen
<1> QED  BY <1>1, <1>2, <1>3, <1>4, <1>5

\* Every call of pqfh() keeps the invariant.
LEMMA FileStep == FInv /\ [Next]_vars => FInv'
<1> SUFFICES ASSUME FInv, [Next]_vars PROVE FInv'
  OBVIOUS
<1>1. CASE Next
  <2>1. FcdOK' /\ Safe'
    BY <1>1, OpenExtfhSafe, OpenWSafe, OpenAgainSafe, OpenDbSafe, CloseExtfhSafe, CloseWSafe,
       CloseDbSafe, DeleteSafe, OtherSafe DEF Next, Open, Close, OtherStep
  <2>2. StoresOK'
    BY <1>1, StoresStep
  <2>3. CacheSeen'
    BY <1>1, CacheStep
  <2> QED  BY <2>1, <2>2, <2>3
<1>2. CASE UNCHANGED vars
  <2>1. mode' = mode
    BY <1>2 DEF vars, confVars, fcdVars, mode, Effective
  <2>2. FcdOK'
    BY <1>2, <2>1 DEF vars, confVars, fcdVars, metaVars, FcdOK
  <2>3. StoresOK'
    BY <1>2, Zenon DEF vars, confVars, metaVars, dbVars, isamVars, StoresOK
  <2>4. NoDangling' /\ WTransparent'
    BY <1>2, <2>1 DEF vars, fcdVars, NoDangling, WTransparent
  <2>5. HandleFollows'
    BY <1>2, <2>1, Zenon DEF vars, fcdVars, isamVars, HandleFollows
  <2>6. CacheSeen'
    BY <1>2, Zenon DEF vars, metaVars, dbVars, CacheSeen
  <2> QED  BY <2>2, <2>3, <2>4, <2>5, <2>6
<1> QED  BY <1>1, <1>2

\* The inductive invariant holds of every call sequence in any set of modes.
THEOREM FileInvariant == Spec => []FInv
BY FileInit, FileStep, PTL DEF Spec

\* The fcd, the cache and the stores keep their types, and every call has a mode.
THEOREM FileTypeCorrect == Spec => []TypeOK
BY FileInvariant, PTL

\* No call that reaches the database code finds a freed or missing table_t.
THEOREM NoDanglingCorrect == Spec => []NoDangling
BY FileInvariant, PTL

\* EXTFH has the file open exactly when the program has, in the modes with ISAM.
THEOREM HandleCorrect == Spec => []HandleFollows
BY FileInvariant, PTL

\* In mode W the program sees of OPEN and CLOSE what EXTFH alone would show.
THEOREM TransparentCorrect == Spec => []WTransparent
BY FileInvariant, PTL

\* A file that is open and stays open keeps its mode and its path.
LEMMA ModeStep ==
    ASSUME FInv, Next, open_mode # "closed", open_mode' # "closed"
    PROVE  fmode' = fmode /\ isam' = isam
<1>1. ASSUME NEW how \in OpenModes, Open(how)  PROVE fmode' = fmode /\ isam' = isam
  <2>1. OpenCall
    BY <1>1 DEF Open, OpenExtfh, OpenW, OpenAgain, OpenDb
  <2>2. fmode' = fmode /\ OpenIsamOf = isam
    BY <2>1 DEF OpenCall, OpenModeOf, OpenIsamOf
  <2>3. open_mode \in AllModes
    BY DEF FcdOK, AllModes
  <2>4. \A x \in ExtOpen(open_mode, how) : x.status = "41"
    BY <2>3, ExtOpenResult
  <2>5. isam' = OpenIsamOf \/ isam' = isam
    BY <1>1, <2>4 DEF Open, OpenExtfh, OpenW, OpenAgain, OpenDb
  <2> QED  BY <2>2, <2>5
<1>2. ASSUME Close  PROVE FALSE
  BY <1>2 DEF Close, CloseExtfh, CloseW, CloseDb, ExtClose, ExtState
<1>3. ASSUME DeleteFile  PROVE fmode' = fmode /\ isam' = isam
  BY <1>3 DEF DeleteFile, DeleteDb, DeleteExtfh, DeleteW, Call, op_delete_file, ExtDelete, ExtState
<1>4. ASSUME OtherStep  PROVE fmode' = fmode /\ isam' = isam
  BY <1>4 DEF OtherStep, CommandMode, CommandCache, OtherCall, Write, EndTransaction, fcdVars
<1> QED  BY <1>1, <1>2, <1>3, <1>4 DEF Next, OtherStep

\* From OPEN to CLOSE a file stays in the mode and on the path it was opened
\* with, whatever MODE: commands and refused OPENs come in between.
THEOREM ModeCorrect == Spec => ModeStable
<1>1. FInv /\ [Next]_vars
        => [open_mode # "closed" /\ open_mode' # "closed" => fmode' = fmode /\ isam' = isam]_vars
  BY ModeStep
<1> QED  BY <1>1, FileInvariant, PTL DEF Spec, ModeStable

\* A successful op_open: the table is there, or was believed to be, or was
\* created and rolled back with nothing else.
LEMMA OpOpenTruthful ==
    ASSUME FInv, NEW how \in OpenModes, NEW r \in op_open(how), r.status = "00", ~r.db.exists
    PROVE  \/ usecache /\ cached = "found" /\ gone
           \/ /\ derived /\ ~exists /\ ~aborted /\ ~r.db.aborted
              /\ r.db.rows = saved /\ r.db.saved = saved
              /\ r.cached # "found"
<1>1. CASE table_info = "found"
  <2>1. \E c, d : r = OpenResult(how, "00", "0", "live", c, d) /\ (d = Here \/ d \in truncate_table)
    BY <1>1 DEF op_open
  <2>2. PICK d : r.db = d /\ (d = Here \/ d \in truncate_table)
    BY <2>1 DEF OpenResult
  <2>3. d.exists = exists
    BY <2>2 DEF truncate_table, Failed, Here, Db
  <2>4. (usecache /\ cached = "found") \/ exists
    BY <1>1, Zenon DEF table_info
  <2> QED  BY <2>2, <2>3, <2>4, Zenon DEF CacheSeen
<1>2. CASE table_info = "absent" /\ how # "input" /\ derived
  <2>1. r \in create_table
    BY <1>2 DEF op_open
  <2>2. \/ \E d : r = OpenResult("closed", "35", "0", "live", "none", d)
        \/ \E c : r = OpenResult("input", "00", "0", "live", c, Db(TRUE, FALSE, FALSE, FALSE))
        \/ /\ ~(exists \/ aborted)
           /\ r = OpenResult("input", "00", "0", "live", cache_put("none", FALSE, FALSE),
                             Db(exists, saved, saved, FALSE))
    BY <2>1, Zenon DEF create_table
  <2>3. \A d : OpenResult("closed", "35", "0", "live", "none", d).status # "00"
    BY DEF OpenResult
  <2>4. \A c : OpenResult("input", "00", "0", "live", c, Db(TRUE, FALSE, FALSE, FALSE)).db.exists
    BY DEF OpenResult, Db
  <2>5. /\ ~exists /\ ~aborted
        /\ r = OpenResult("input", "00", "0", "live", cache_put("none", FALSE, FALSE),
                          Db(exists, saved, saved, FALSE))
    BY <2>2, <2>3, <2>4, Zenon
  <2>6. /\ r.cached = cache_put("none", FALSE, FALSE)
        /\ r.db.aborted = FALSE /\ r.db.rows = saved /\ r.db.saved = saved
    BY <2>5 DEF OpenResult, Db
  <2>7. cache_put("none", FALSE, FALSE) # "found"
    BY DEF cache_put
  <2> QED  BY <1>2, <2>5, <2>6, <2>7, Zenon
<1>3. CASE table_info = "isam" \/ (table_info = "absent" /\ ~ (how # "input" /\ derived))
  <2>1. \E om, is, t, c : r = OpenResult(om, "35", is, t, c, Here)
    BY <1>3 DEF op_open
  <2>2. r.status = "35"
    BY <2>1 DEF OpenResult
  <2> QED  BY <2>2
<1> QED  BY <1>1, <1>2, <1>3 DEF table_info, FcdOK

\* Only OPEN opens a file, and in modes A and B by op_open.
LEMMA TruthfulStep ==
    ASSUME FInv, Next, open_mode = "closed", open_mode' # "closed",
           Effective(fmode') \in {"A", "B"}, isam' # "S", ~exists'
    PROVE  \/ usecache /\ cached = "found" /\ gone
           \/ /\ derived /\ ~exists /\ ~aborted /\ ~aborted'
              /\ rows' = saved /\ saved' = saved
              /\ cached' # "found"
<1>1. PICK how \in OpenModes : Open(how)
  <2>1. ~Close
    BY DEF Close, CloseExtfh, CloseW, CloseDb, ExtClose, ExtState
  <2>2. ~DeleteFile
    BY DEF DeleteFile, DeleteDb, DeleteExtfh, DeleteW
  <2>3. ~ ((\E m \in Modes : CommandMode(m)) \/ CommandCache \/ OtherCall \/ Write \/ EndTransaction)
    BY DEF CommandMode, CommandCache, OtherCall, Write, EndTransaction, fcdVars
  <2> QED  BY <2>1, <2>2, <2>3 DEF Next
<1>2. OpenCall /\ OpenIsamOf = "0"
  BY <1>1 DEF Open, OpenExtfh, OpenW, OpenAgain, OpenDb, OpenIsamOf
<1>3. Effective(OpenModeOf) \in {"A", "B"}
  BY <1>2 DEF OpenCall
<1>4. OpenDb(how)
  BY <1>1, <1>2, <1>3 DEF Open, OpenExtfh, OpenW, OpenAgain
<1>5. PICK r \in op_open(how) :
          /\ isam' = r.isam /\ cached' = r.cached /\ Database(r.db)
          /\ r.isam # "S" => r.status = "00" \/ open_mode' = r.open_mode
  BY <1>4 DEF OpenDb
<1>6. r.status = "00"
  BY <1>5, OpOpenResult
<1>7. exists' = r.db.exists /\ aborted' = r.db.aborted /\ rows' = r.db.rows /\ saved' = r.db.saved
  BY <1>5, Zenon DEF Database
<1>8. ~r.db.exists
  BY <1>7
<1> QED  BY <1>5, <1>6, <1>7, <1>8, OpOpenTruthful, Zenon

\* An OPEN in mode A or B that succeeds finds the table in the database, but
\* for two cases: the cache has a table that was dropped, or create_table's
\* COMMIT rolled back the new table and nothing else.
THEOREM TruthfulCorrect == Spec => OpenTruthful
<1>1. FInv /\ [Next]_vars
        => [open_mode = "closed" /\ open_mode' # "closed"
            /\ Effective(fmode') \in {"A", "B"} /\ isam' # "S" /\ ~exists'
             => \/ usecache /\ cached = "found" /\ gone
                \/ /\ derived /\ ~exists /\ ~aborted /\ ~aborted'
                   /\ rows' = saved /\ saved' = saved
                   /\ cached' # "found"]_vars
  BY TruthfulStep
<1> QED  BY <1>1, FileInvariant, PTL DEF Spec, OpenTruthful

\* A call of pqfh() is a step of CobolFile or does not concern the program's
\* view of the file.
LEMMA RefinementStep ==
    ASSUME FInv, FInv', [Next]_vars
    PROVE  [Abstract!CFNext]_(Abstract!cfVars)
<1>0. open_mode \in AllModes /\ status' \in Statuses /\ open_mode' \in AllModes
  BY DEF FcdOK, AllModes
<1>1. ASSUME NEW how \in OpenModes, Open(how)  PROVE Abstract!OpenDone \/ Abstract!OpenRefused
  <2>1. op' = "open"
    BY <1>1 DEF Open, OpenExtfh, OpenW, OpenAgain, OpenDb, OpenCall
  <2>2. \/ open_mode # "closed" /\ open_mode' = open_mode /\ status' = "41"
        \/ open_mode = "closed" /\ (status' = "00" <=> open_mode' # "closed")
    <3>1. ASSUME NEW x \in ExtOpen(open_mode, how), open_mode' = x.open_mode, status' = x.status
          PROVE  \/ open_mode # "closed" /\ open_mode' = open_mode /\ status' = "41"
                 \/ open_mode = "closed" /\ (status' = "00" <=> open_mode' # "closed")
      BY <1>0, <3>1, ExtOpenResult DEF OpenModes
    <3>2. CASE OpenExtfh(how)
      BY <3>1, <3>2 DEF OpenExtfh
    <3>3. CASE OpenW(how)
      BY <3>1, <3>3 DEF OpenW, ShowIsam
    <3>4. CASE OpenAgain(how)
      BY <3>4 DEF OpenAgain
    <3>5. CASE OpenDb(how)
      BY <3>1, <3>5, OpOpenResult DEF OpenDb, OpenBoth
    <3> QED  BY <1>1, <3>2, <3>3, <3>4, <3>5 DEF Open
  <2> QED  BY <1>0, <2>1, <2>2
        DEF Abstract!OpenDone, Abstract!OpenRefused, Abstract!IsOpen, AllModes, Statuses
<1>2. ASSUME Close  PROVE Abstract!CloseDone \/ Abstract!CloseRefused
  <2>1. op' = "close" /\ open_mode' = "closed"
    BY <1>2 DEF Close, CloseExtfh, CloseW, CloseDb, Call, ExtClose, ExtState
  <2>2. status' = IF open_mode = "closed" THEN "42" ELSE "00"
    BY <1>2 DEF Close, CloseExtfh, CloseW, CloseDb, ExtClose, ExtState
  <2> QED  BY <2>1, <2>2 DEF Abstract!CloseDone, Abstract!CloseRefused, Abstract!IsOpen
<1>3. ASSUME DeleteFile  PROVE Abstract!Delete
  <2>1. op' = "delete" /\ open_mode' = open_mode
    BY <1>3 DEF DeleteFile, DeleteDb, DeleteExtfh, DeleteW, Call
  <2>2. open_mode # "closed" => status' # "00"
    BY <1>3 DEF DeleteFile, DeleteDb, DeleteExtfh, DeleteW, op_delete_file, ExtDelete, ExtState
  <2> QED  BY <1>0, <2>1, <2>2 DEF Abstract!Delete, Abstract!IsOpen
<1>4. ASSUME OtherStep \/ UNCHANGED vars  PROVE UNCHANGED Abstract!cfVars
  BY <1>4 DEF OtherStep, CommandMode, CommandCache, OtherCall, Write, EndTransaction, fcdVars,
              vars, Abstract!cfVars
<1> QED  BY <1>1, <1>2, <1>3, <1>4 DEF Next, OtherStep, Abstract!CFNext

\* OPEN, CLOSE and DELETE FILE of pqfh() implement the COBOL rules of CobolFile
\* in every mode, with any failures of EXTFH and of the database.
THEOREM FileRefinement == Spec => RefinesFile
<1>1. Init => Abstract!CFInit
  BY DEF Init, Abstract!CFInit
<1> QED  BY <1>1, RefinementStep, FileInvariant, PTL DEF Spec, RefinesFile, Abstract!CFSpec
================================================================================
