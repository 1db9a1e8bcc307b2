--------------------------------- MODULE MemFile -------------------------------
(***************************************************************************)
(* Files in memory, modes M and F: memfh_cbl.c and memfh.c over the index  *)
(* of MemIndex.  A header stays in hdrs after CLOSE in mode M and is freed *)
(* in mode F.  Index 0 is kept by every WRITE; index 1, by an alternate    *)
(* key, is built by the first START that uses it and not kept afterwards.  *)
(* Searches and scans of an index share one path, also those of two fcds   *)
(* that have the file open.  A record is its primary key and its alternate *)
(* key; fcd->record holds the record of a key.                             *)
(***************************************************************************)
EXTENDS MemIndex, FiniteSets

CONSTANTS
    Fcds,           \* the files the program has declared
    Keys, Alts,     \* primary and alternate keys: positive numbers
    MaxHdrs,        \* size of hdrs (128)
    Scenarios       \* names of the files, mode, first component of each primary
                    \* key, whether the record begins with the primary key, and
                    \* bounds of a behaviour: the fcds, keys, headers used

ASSUME KeysAssumption == Keys \subseteq Nat \ {0} /\ Alts \subseteq Nat \ {0}

VARIABLES
    sc,             \* the scenario
    exited,
    hdrs,           \* the table of headers, by slot: a header's number or 0
    heap,           \* headers in the order of their allocation; freed or not
    open, fileId,   \* open_mode and file_id of each fcd
    start,          \* the global: START has put the first record into the area
    pend,           \* history: the file of the last START
    area,           \* the record area: a primary key, or 0 for low values
    status,
    want            \* history: what READ NEXT still owes the program; see ScanRight

vars == <<sc, exited, hdrs, heap, open, fileId, start, pend, area, status, want>>

Slots == 1 .. MaxHdrs
Nowhere == <<>>
NoIndex == [page |-> <<>>, root |-> 0]
NoScan == [on |-> FALSE, i |-> 0, keys |-> {}]

\* memfh_open
NewHdr(name) ==
    [name |-> name, freed |-> FALSE, alt |-> [k \in Keys |-> 0], built |-> [k \in Keys |-> 0],
     idx |-> <<NewIndex, NoIndex>>, path |-> <<Nowhere, Nowhere>>]

Init ==
    /\ sc \in Scenarios /\ exited = FALSE
    /\ hdrs = [s \in Slots |-> 0] /\ heap = <<>>
    /\ open = [f \in Fcds |-> 128] /\ fileId = [f \in Fcds |-> 0]
    /\ start = FALSE /\ pend \in Fcds /\ area = [f \in Fcds |-> 0]
    /\ status = "00" /\ want = [f \in Fcds |-> NoScan]

--------------------------------------------------------------------------------
(* OPEN and CLOSE                                                          *)

Least(S) == CHOOSE s \in S : \A r \in S : s <= r

Named(f) == {s \in Slots : hdrs[s] # 0 /\ heap[hdrs[s]].name = sc.name[f]}

\* OPEN INPUT and I-O take the first header of that name.
OpenOld(f, mode) ==
    /\ ~exited /\ Named(f) # {}
    /\ open' = [open EXCEPT ![f] = mode]
    /\ fileId' = [fileId EXCEPT ![f] = hdrs[Least(Named(f))]]
    /\ status' = "00" /\ want' = [want EXCEPT ![f] = NoScan]
    /\ UNCHANGED <<sc, exited, hdrs, heap, start, pend, area>>

OpenMissing(f) ==
    /\ ~exited /\ Named(f) = {}
    /\ status' = "35"
    /\ UNCHANGED <<sc, exited, hdrs, heap, open, fileId, start, pend, area, want>>

\* memfh_cbl_open_output: a new header in the first free slot, if there is one.
OpenNew(f) ==
    /\ ~exited /\ Len(heap) < sc.hdrs
    /\ heap' = Append(heap, NewHdr(sc.name[f]))
    /\ LET vacant == {s \in Slots : hdrs[s] = 0}
       IN  hdrs' = IF vacant = {} THEN hdrs
                   ELSE [hdrs EXCEPT ![Least(vacant)] = Len(heap) + 1]
    /\ open' = [open EXCEPT ![f] = 2]
    /\ fileId' = [fileId EXCEPT ![f] = Len(heap) + 1]
    /\ status' = "00" /\ want' = [want EXCEPT ![f] = NoScan]
    /\ UNCHANGED <<sc, exited, start, pend, area>>

memfh_cbl_open_input(f)  == OpenOld(f, 0) \/ OpenMissing(f)
memfh_cbl_open_io(f)     == OpenOld(f, 1) \/ (Named(f) = {} /\ OpenNew(f))
memfh_cbl_open_output(f) == OpenNew(f)

\* The slots of the header an fcd has open.
Held(f) == {s \in Slots : hdrs[s] = fileId[f]}

\* Mutant: the mode is not looked at.
CloseKeeping_Frees(f) ==
    /\ open[f] # 128 /\ sc.mode = "M" /\ Held(f) # {}
    /\ open' = [open EXCEPT ![f] = 128] /\ status' = "00"
    /\ hdrs' = [hdrs EXCEPT ![Least(Held(f))] = 0]
    /\ heap' = [heap EXCEPT ![fileId[f]].freed = TRUE]

CloseKeeping(f) ==
    /\ open[f] # 128 /\ sc.mode = "M"
    /\ open' = [open EXCEPT ![f] = 128] /\ status' = "00"
    /\ UNCHANGED <<hdrs, heap>>

CloseFreeing(f) ==
    /\ open[f] # 128 /\ sc.mode = "F" /\ Held(f) # {}
    /\ open' = [open EXCEPT ![f] = 128] /\ status' = "00"
    /\ hdrs' = [hdrs EXCEPT ![Least(Held(f))] = 0]
    /\ heap' = [heap EXCEPT ![fileId[f]].freed = TRUE]

CloseRefused(f) ==
    /\ open[f] = 128 \/ (sc.mode = "F" /\ Held(f) = {})
    /\ status' = "42"
    /\ UNCHANGED <<hdrs, heap, open>>

memfh_cbl_close(f) ==
    /\ ~exited
    /\ CloseKeeping(f) \/ CloseFreeing(f) \/ CloseRefused(f)
    /\ want' = [want EXCEPT ![f] = NoScan]
    /\ UNCHANGED <<sc, exited, fileId, start, pend, area>>

--------------------------------------------------------------------------------
(* Records                                                                 *)

Hdr(f) == heap[fileId[f]]

\* The key of a record in an index: the alternate key is followed by the first
\* component of the primary key.
KeyOf(i, k, a) == IF i = 1 THEN k ELSE a * 100 + sc.first[k]

Written(h) == {k \in Keys : h.alt[k] # 0}

\* One more record of the scan by primary key is put into the index: exit(-1)
\* if the key is there.
CreateStep(h, s) ==
    LET k   == Record(h.idx[1], s.path)
        key == KeyOf(2, k, h.alt[k])
        at  == memfh_idx_search(s.idx, key)
        n   == memfh_idx_next(h.idx[1], s.path)
    IN  IF s.end # "more" THEN s
        ELSE IF ~Fits(at) THEN [s EXCEPT !.end = "overrun"]
        ELSE IF Hits(s.idx, at, key) THEN [s EXCEPT !.end = "exit"]
        ELSE [idx |-> memfh_idx_write(s.idx, key, k), path |-> n.path,
              end |-> IF ~Fits(n.path) THEN "overrun" ELSE IF n.ok THEN "more" ELSE "done"]

\* memfh_idx_create: the scan by primary key leaves its path behind.
Created(h) ==
    LET from == [idx |-> NewIndex, end |-> "more", path |-> memfh_idx_first(h.idx[1])]
        last == FoldLeft(LAMBDA s, k : CreateStep(h, s), from, [j \in 1 .. Cardinality(Keys) |-> j])
    IN  IF Written(h) = {} THEN [hdr |-> [h EXCEPT !.idx[2] = NewIndex], end |-> "done"]
        ELSE [hdr |-> [h EXCEPT !.idx[2] = last.idx, !.path[1] = last.path, !.built = h.alt],
              end |-> last.end]

\* The index is built on demand.
Fresh(h, i) == IF i = 2 /\ h.idx[2] = NoIndex THEN Created(h) ELSE [hdr |-> h, end |-> "done"]

Put(f, h) == heap' = [heap EXCEPT ![fileId[f]] = h]

\* An operation of an open file on memory it may use.
Ready(f) == ~exited /\ open[f] # 128 /\ ~Hdr(f).freed

Starting(f) == start /\ pend = f

\* WRITE, READ and REWRITE of record k move the path of the primary index, and
\* replace the record that START has left in the area.
Goes(f, g, k) ==
    \/ fileId[g] # fileId[f]
    \/ want[g].i = 2 /\ (g = f => ~Starting(f))
    \/ g = f /\ k = area[f]

Scans(f, k) == [g \in Fcds |-> IF Goes(f, g, k) THEN want[g] ELSE NoScan]

memfh_cbl_write(f, k, a) ==
    /\ Ready(f) /\ Held(f) # {}
    /\ k \notin Written(Hdr(f))
    /\ LET t == Hdr(f).idx[1]
       IN  /\ Fits(memfh_idx_search(t, k))
           /\ Put(f, [Hdr(f) EXCEPT !.alt[k] = a, !.idx[1] = memfh_idx_write(t, k, k),
                                    !.path[1] = memfh_idx_search(t, k)])
    /\ area' = [area EXCEPT ![f] = k] /\ status' = "00" /\ want' = Scans(f, k)
    /\ UNCHANGED <<sc, exited, hdrs, open, fileId, start, pend>>

\* The table was full when the file was opened, or another fcd freed it.
WriteRefused(f) ==
    /\ ~exited /\ open[f] # 128 /\ Held(f) = {}
    /\ status' = "48"
    /\ UNCHANGED <<sc, exited, hdrs, heap, open, fileId, start, pend, area, want>>

\* A key that exists: exit(-1).
WriteExit(f, k) ==
    /\ Ready(f) /\ Held(f) # {} /\ k \in Written(Hdr(f))
    /\ exited' = TRUE
    /\ UNCHANGED <<sc, hdrs, heap, open, fileId, start, pend, area, status, want>>

\* REWRITE compares as many bytes as the key has from the start of the record,
\* the alternate key if the record does not begin with the primary key.
SameStart(h, k, a) == sc.front \/ a = h.alt[k]

\* "erro update": exit(-1).
UpdateExit(f, k, a) ==
    /\ Ready(f) /\ k \in Written(Hdr(f)) /\ ~SameStart(Hdr(f), k, a)
    /\ exited' = TRUE
    /\ UNCHANGED <<sc, hdrs, heap, open, fileId, start, pend, area, status, want>>

\* memfh_read, for READ and for REWRITE (update), which stores in place.
memfh_read(f, k, a, update) ==
    /\ Ready(f)
    /\ LET t    == Hdr(f).idx[1]
           path == memfh_idx_search(t, k)
           hit  == Hits(t, path, k)
       IN  /\ Fits(path) /\ (hit /\ update => SameStart(Hdr(f), k, a))
           /\ Put(f, [Hdr(f) EXCEPT !.path[1] = path,
                                    !.alt[k] = IF hit /\ update THEN a ELSE @])
           /\ status' = IF hit THEN "00" ELSE "23"
    /\ area' = [area EXCEPT ![f] = k]
    /\ want' = Scans(f, k)
    /\ UNCHANGED <<sc, exited, hdrs, open, fileId, start, pend>>

\* The records an index is meant to have.
Indexed(h, i) == {k \in Keys : (IF i = 1 THEN h.alt[k] ELSE h.built[k]) # 0}

\* START >=.  The record that is copied is the first one of the leaf, not the
\* one at the position that was found.
memfh_cbl_start(f, i, k, a) ==
    /\ Ready(f)
    /\ Fresh(Hdr(f), i).end = "done"
    /\ LET h    == Fresh(Hdr(f), i).hdr
           t    == h.idx[i]
           path == memfh_idx_search(t, KeyOf(i, k, a))
           hit  == Within(t, path)
           leaf == t.page[Top(path).page]
       IN  /\ Fits(path)
           /\ Put(f, [h EXCEPT !.path[i] = path])
           /\ status' = IF hit THEN "00" ELSE "10"
           /\ start' = (start \/ hit)
           /\ area' = [area EXCEPT ![f] = IF hit THEN leaf.ptrs[1] ELSE k]
           /\ want' = [g \in Fcds |->
                 IF g = f THEN [on |-> k = 0 /\ ~start,
                                i |-> i, keys |-> Indexed(h, i)]
                 ELSE IF Starting(g) \/ fileId[g] = fileId[f] THEN NoScan ELSE want[g]]
    /\ pend' = f
    /\ UNCHANGED <<sc, exited, hdrs, open, fileId>>

\* Two records with the same alternate key and the same first component of the
\* primary key: exit(-1) of memfh_idx_write.
CreateExit(f) ==
    /\ Ready(f) /\ Fresh(Hdr(f), 2).end = "exit"
    /\ exited' = TRUE
    /\ UNCHANGED <<sc, hdrs, heap, open, fileId, start, pend, area, status, want>>

\* The first READ NEXT after a START, of whichever file.
NextAfterStart(f) ==
    /\ Ready(f) /\ start
    /\ start' = FALSE /\ status' = "00"
    /\ want' = IF pend = f THEN [want EXCEPT ![f].keys = @ \ {area[f]}]
               ELSE [want EXCEPT ![f] = NoScan, ![pend] = NoScan]
    /\ UNCHANGED <<sc, exited, hdrs, heap, open, fileId, pend, area>>

memfh_cbl_next(f, i) ==
    /\ Ready(f) /\ ~start
    /\ Hdr(f).idx[i] # NoIndex /\ Hdr(f).path[i] # <<>>
    /\ LET t == Hdr(f).idx[i]
           n == memfh_idx_next(t, Hdr(f).path[i])
       IN  /\ Fits(n.path)
           /\ Put(f, [Hdr(f) EXCEPT !.path[i] = n.path])
           /\ status' = IF n.ok THEN "00" ELSE "10"
           /\ area' = IF n.ok THEN [area EXCEPT ![f] = Record(t, n.path)] ELSE area
           /\ want' = [g \in Fcds |->
                 IF g = f /\ want[f].on /\ want[f].i = i /\ n.ok
                 THEN [want[f] EXCEPT !.keys = @ \ {Record(t, n.path)}]
                 ELSE IF g = f \/ (fileId[g] = fileId[f] /\ want[g].i = i) THEN NoScan
                 ELSE want[g]]
    /\ UNCHANGED <<sc, exited, hdrs, open, fileId, start, pend>>

\* The paths that the calls on a file need.
Needed(f) ==
    LET h == Hdr(f)
    IN  {memfh_idx_search(h.idx[1], k) : k \in sc.keys}
            \cup {memfh_idx_next(h.idx[i], h.path[i]).path :
                      i \in {j \in sc.idx : ~start /\ h.path[j] # <<>>}}

\* A call on a header that was freed, READ NEXT with a path that was never set
\* or in an index without keys (keylen was never set), or a path that does not
\* fit: the behaviour is undefined.
Undefined(f) ==
    /\ ~exited /\ open[f] # 128
    /\ IF Hdr(f).freed THEN TRUE
       ELSE \/ ~start /\ \E i \in {1, 2} : Hdr(f).path[i] = <<>> \/ Indexed(Hdr(f), i) = {}
            \/ \E path \in Needed(f) : ~Fits(path)
            \/ 2 \in sc.idx /\ Fresh(Hdr(f), 2).end = "overrun"
    /\ exited' = TRUE /\ status' = "undefined"
    /\ UNCHANGED <<sc, hdrs, heap, open, fileId, start, pend, area, want>>

\* A call on a file that is not open.
Refused(f) ==
    /\ ~exited /\ open[f] = 128
    /\ status' \in {"47", "48"}
    /\ UNCHANGED <<sc, exited, hdrs, heap, open, fileId, start, pend, area, want>>

memfh_cbl(f) ==
    \/ memfh_cbl_open_input(f) \/ memfh_cbl_open_io(f) \/ memfh_cbl_open_output(f)
    \/ memfh_cbl_close(f) \/ WriteRefused(f) \/ Refused(f) \/ Undefined(f)
    \/ NextAfterStart(f) \/ (2 \in sc.idx /\ CreateExit(f))
    \/ \E k \in sc.keys, a \in sc.alts :
          WriteExit(f, k) \/ memfh_cbl_write(f, k, a) \/ memfh_read(f, k, a, TRUE) \/ UpdateExit(f, k, a)
    \/ \E k \in sc.keys : memfh_read(f, k, 0, FALSE)
    \/ \E i \in sc.idx :
          \/ memfh_cbl_next(f, i) \/ memfh_cbl_start(f, i, 0, 0)
          \/ \E k \in sc.from, a \in sc.alts : memfh_cbl_start(f, i, k, a)

Next == \E f \in sc.fcds : memfh_cbl(f)

Spec == Init /\ [][Next]_vars

--------------------------------------------------------------------------------
(* Properties                                                              *)

\* Every record is found by its key and no other, and from any record the
\* scan goes to the one with the next key, or ends: whatever pages were split,
\* in whatever order the records came, although the half of a split branch has
\* two ways in and the scan never climbs above the branch it came from.
IndexRight ==
    \A h \in DOMAIN heap : LET t == heap[h].idx[1]  W == Written(heap[h]) IN
        \A k \in Keys :
            LET path == memfh_idx_search(t, k)  n == memfh_idx_next(t, path)
                after == {j \in W : j > k}
            IN  /\ Hits(t, path, k) = (k \in W)
                /\ k \in W => /\ Record(t, path) = k
                              /\ n.ok = (after # {})
                              /\ n.ok => Record(t, n.path) = Least(after)

\* A program that STARTs at low values and READs NEXT gets every record of the
\* index once, in order, then 10, with READs and REWRITEs of the record it is
\* at in between, and never 10 before that, whatever it does with other files.
\* Another START before the first READ NEXT ends the promise, because one flag
\* serves all files; so does a READ NEXT of another fcd that has the same file
\* open, because the header has one path for both, and a path that overruns.
ScanRight ==
    [][\A f \in Fcds, i \in {1, 2} :
          /\ want[f].on /\ want[f].i = i
          /\ memfh_cbl_next(f, i) \/ (NextAfterStart(f) /\ pend = f)
          => IF status' = "00"
             THEN /\ area'[f] \in want[f].keys
                  /\ \A k \in want[f].keys :
                        KeyOf(i, area'[f], Hdr(f).built[area'[f]]) <= KeyOf(i, k, Hdr(f).built[k])
             ELSE want[f].keys = {}]_vars

\* The header of an open file was freed only if another fcd with the same name
\* has closed it in mode F.
NoDangling ==
    \A f \in Fcds : open[f] # 128 /\ Hdr(f).freed =>
        sc.mode = "F" /\ \E g \in Fcds \ {f} : sc.name[g] = sc.name[f]
================================================================================
