--------------------------------- MODULE MCDual --------------------------------
(* TLC instances of PqfhDual: records with a clean and a bad numeric field *)
(* (bad is stored as v1), and records that share an alternate key.         *)
EXTENDS PqfhDual

CONSTANTS k1, k2, v1, v2, bad, none

Clean == [v \in {v1, v2, bad} |-> IF v = bad THEN v1 ELSE v]
NoAlt == [v \in {v1, v2, bad} |-> none]
================================================================================
