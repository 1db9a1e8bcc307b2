------------------------------- MODULE MCMemFile -------------------------------
(* TLC instance of MemFile: one file that grows to three levels of pages,     *)
(* and small files that two fcds have open at the same time.                  *)
EXTENDS MemFile

Same  == [f \in Fcds |-> "a"]
Other == [f \in Fcds |-> IF f = 1 THEN "a" ELSE "b"]

Whole == [k \in {0} \cup Keys |-> k]
Pairs == [k \in {0} \cup Keys |-> (k + 1) \div 2]

Scenario(names, modes, fcds, max, keys, alts, idx, from) ==
    [name : names, mode : modes, fcds : {fcds}, hdrs : {max}, keys : {keys},
     alts : {alts}, idx : {idx}, from : {from}, first : {Whole}, front : {TRUE}]

Grow  == Scenario({Same}, {"M"}, {1}, 1, Keys, {1}, {}, {})
Scanned == Scenario({Same}, {"M"}, {1}, 1, 1 .. 6, {1}, {1}, {})
ByAlt == Scenario({Same}, {"M"}, {1}, 1, 1 .. 3, {1, 2}, {2}, {2})
Split == {[s EXCEPT !.first = Pairs, !.front = FALSE] : s \in ByAlt}
Shared == Scenario({Same, Other}, {"M", "F"}, {1, 2}, 2, {1}, {1}, {1}, {})
Turns == Scenario({Same}, {"M"}, {1, 2}, 1, {1, 2}, {1}, {1, 2}, {})
Full  == Scenario({Same}, {"F"}, {1}, 3, {1}, {1}, {}, {})
All == Grow \cup Scanned \cup ByAlt \cup Split \cup Shared \cup Turns \cup Full
================================================================================
