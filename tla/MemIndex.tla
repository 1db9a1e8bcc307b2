-------------------------------- MODULE MemIndex -------------------------------
(***************************************************************************)
(* The index of a memory file, memfh_idx.c: a B+ tree of pages.  A leaf    *)
(* has keys and pointers to records.  A branch has n keys and n pointers   *)
(* to the pages below each of them, and in "next" the page for all greater *)
(* keys.  When a branch is split its first half gets the second half as    *)
(* "next": it is then reached both from the parent and from its sibling.   *)
(*                                                                         *)
(* Pages are numbered in the order of their allocation.  A path is the     *)
(* sequence of pages from the root with a position in each, hdr->path and  *)
(* hdr->pos up to hdr->depth; positions count from 1.  A scan that goes on *)
(* from a branch to its sibling adds a level to the path and never takes   *)
(* it off, and nothing looks at the size of the path.                      *)
(***************************************************************************)
EXTENDS Naturals, Sequences, SequencesExt

CONSTANTS
    MaxItems,       \* MEMFH_MAX_ITEMS: a page with as many is split
    MaxDepth        \* MEMFH_MAX_DEPTH: the levels a path has room for

ASSUME MaxItemsAssumption == MaxItems \in Nat /\ MaxItems >= 3
ASSUME MaxDepthAssumption == MaxDepth \in Nat /\ MaxDepth >= 1

NewPage(tp) == [tp |-> tp, keys |-> <<>>, ptrs |-> <<>>, next |-> 0]

\* An index is its pages and the number of the root.
NewIndex == [page |-> <<NewPage("leaf")>>, root |-> 1]

At(p, i) == [page |-> p, pos |-> i]

\* hdr->path[k] and hdr->pos[k] end there; what is next is that of index k + 1.
Fits(path) == Len(path) <= MaxDepth

N(pg) == Len(pg.keys)
Leaf(pg) == pg.tp = "leaf"

\* The page below position i of a branch.
Below(pg, i) == IF i > N(pg) THEN pg.next ELSE pg.ptrs[i]

--------------------------------------------------------------------------------
\* The first pages on the way down.
Leftmost(t, p) ==
    LET down[q \in DOMAIN t.page] ==
            <<At(q, 1)>> \o IF Leaf(t.page[q]) THEN <<>> ELSE down[t.page[q].ptrs[1]]
    IN  down[p]

memfh_idx_first(t) == Leftmost(t, t.root)

\* The first key of the page that is greater; in a leaf, or equal.
SearchPos(pg, key) ==
    LET stop == {i \in DOMAIN pg.keys : key < pg.keys[i] \/ (Leaf(pg) /\ key = pg.keys[i])}
    IN  IF stop = {} THEN N(pg) + 1 ELSE CHOOSE i \in stop : \A j \in stop : i <= j

\* memfh_idx_search: the path to where the key is, or would be.
memfh_idx_search(t, key) ==
    LET down[q \in DOMAIN t.page] ==
            LET pg == t.page[q]  i == SearchPos(pg, key)
            IN  <<At(q, i)>> \o IF Leaf(pg) THEN <<>> ELSE down[Below(pg, i)]
    IN  down[t.root]

Top(path) == path[Len(path)]

\* What the search returns: 0, less than 0, greater than 0.
Within(t, path) == Top(path).pos <= N(t.page[Top(path).page])
Hits(t, path, key) == Within(t, path) /\ t.page[Top(path).page].keys[Top(path).pos] = key

\* The record a position of the leaf points to.
Record(t, path) == t.page[Top(path).page].ptrs[Top(path).pos]

\* Mutant: the last page of a branch is not visited.
Onward_NoNext(t, up) ==
    LET b == Top(up)  pg == t.page[b.page]
    IN  IF b.pos < N(pg)
        THEN [ok |-> TRUE,
              path |-> Append(Front(up), At(b.page, b.pos + 1)) \o Leftmost(t, Below(pg, b.pos + 1))]
        ELSE [ok |-> FALSE, path |-> up]

\* The next page of the branch a leaf was reached from.  After its last page
\* the scan is over, whatever is above; the branch stays the end of the path.
Onward(t, up) ==
    LET b == Top(up)  pg == t.page[b.page]
    IN  IF b.pos <= N(pg)
        THEN [ok |-> TRUE,
              path |-> Append(Front(up), At(b.page, b.pos + 1)) \o Leftmost(t, Below(pg, b.pos + 1))]
        ELSE [ok |-> FALSE, path |-> up]

memfh_idx_next(t, path) ==
    LET top == Top(path)
    IN  IF top.pos < N(t.page[top.page])
        THEN [ok |-> TRUE, path |-> Append(Front(path), At(top.page, top.pos + 1))]
        ELSE IF Len(path) = 1 THEN [ok |-> FALSE, path |-> path]
        ELSE Onward(t, Front(path))

--------------------------------------------------------------------------------
\* The halves of a page that is full.
Half1(s) == SubSeq(s, 1, Len(s) \div 2)
Half2(s) == SubSeq(s, Len(s) \div 2 + 1, Len(s))

\* Mutant: the first half keeps the last page as its own.
Link_Kept(pg, new) == pg.next

\* A branch that was split goes on at its second half.
Link(pg, new) == IF Leaf(pg) THEN 0 ELSE new

Room(pg) == N(pg) < MaxItems

\* A page is stored, or split: the new page is the last one, or 0.
Store(t, p, pg) ==
    LET new == Len(t.page) + 1
    IN  IF Room(pg)
        THEN [idx |-> [t EXCEPT !.page[p] = pg], first |-> p, second |-> 0]
        ELSE [idx |-> [t EXCEPT !.page =
                  Append([@ EXCEPT ![p] = [pg EXCEPT !.keys = Half1(@), !.ptrs = Half1(@),
                                                     !.next = Link(pg, new)]],
                         [pg EXCEPT !.keys = Half2(@), !.ptrs = Half2(@)])],
              first |-> p, second |-> new]

\* The two halves take the place of the page that was split.
Separate(pg, i, key, p1, p2) ==
    IF i > N(pg)
    THEN [pg EXCEPT !.keys = Append(@, key), !.ptrs = Append(@, p1), !.next = p2]
    ELSE [pg EXCEPT !.keys = InsertAt(@, i, key),
                    !.ptrs = [InsertAt(@, i, p1) EXCEPT ![i + 1] = p2]]

\* memfh_idx_insert_parent, for the result of the level below.
InsertParent(s, at) ==
    IF s.second = 0 THEN s
    ELSE LET pg  == s.idx.page[at.page]
             i   == IF pg.next = s.first THEN N(pg) + 1
                    ELSE CHOOSE j \in DOMAIN pg.ptrs : pg.ptrs[j] = s.first
         IN  Store(s.idx, at.page,
                   Separate(pg, i, s.idx.page[s.second].keys[1], s.first, s.second))

\* A new root above the two halves of the old one.
NewRoot(s) ==
    IF s.second = 0 THEN s.idx
    ELSE [page |-> Append(s.idx.page,
                       [tp |-> "branch", keys |-> <<s.idx.page[s.second].keys[1]>>,
                        ptrs |-> <<s.first>>, next |-> s.second]),
          root |-> Len(s.idx.page) + 1]

\* memfh_idx_write, of a key that the index does not have.
memfh_idx_write(t, key, rec) ==
    LET path == memfh_idx_search(t, key)
        top  == Top(path)
        leaf == [t.page[top.page] EXCEPT !.keys = InsertAt(@, top.pos, key),
                                         !.ptrs = InsertAt(@, top.pos, rec)]
    IN  NewRoot(FoldRight(LAMBDA at, s : InsertParent(s, at), Front(path),
                          Store(t, top.page, leaf)))
================================================================================
