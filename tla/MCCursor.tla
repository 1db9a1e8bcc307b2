-------------------------------- MODULE MCCursor -------------------------------
(* TLC instances of PqfhCursor: two keys in the first group, one in the    *)
(* second; the relations and the program's habits are in the cfg.          *)
EXTENDS PqfhCursor

SomeRelations == [w \in BOOLEAN |-> IF w THEN {"<"} ELSE {">=", "<"}]
OnlyGreaterEqual == [w \in BOOLEAN |-> IF w THEN {} ELSE {">="}]

Pairs == [k \in Keys |-> (k + 1) \div 2]
================================================================================
