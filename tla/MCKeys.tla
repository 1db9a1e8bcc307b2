--------------------------------- MODULE MCKeys --------------------------------
(* TLC instance of PqfhKeys: records of four bytes, keys of one component  *)
(* (one or several columns, at the start of the record, inside and at its  *)
(* end) and of split ones, fields with decimals and signs, a dictionary    *)
(* longer than the record.                                                 *)
EXTENDS PqfhKeys

col(n) == [len |-> n, num |-> FALSE, dec |-> FALSE]
num(n) == [len |-> n, num |-> TRUE, dec |-> FALSE]
comp(o, n) == [offset |-> o, len |-> n]

Plain   == [cols |-> <<col(1), col(1), col(1), col(1)>>, reclen |-> 4,
            keys |-> << <<comp(0, 3)>>, <<comp(2, 2), comp(0, 1)>> >>]
Inside  == [cols |-> <<col(1), col(2), col(1), col(1)>>, reclen |-> 4,
            keys |-> << <<comp(1, 3)>>, <<comp(0, 1), comp(3, 1)>> >>]
Split   == [cols |-> <<col(1), col(1), col(2)>>, reclen |-> 4,
            keys |-> << <<comp(2, 2), comp(0, 1)>>, <<comp(1, 3)>> >>]
Decimal == [cols |-> <<col(1), [len |-> 2, num |-> TRUE, dec |-> TRUE], col(1)>>, reclen |-> 4,
            keys |-> << <<comp(0, 3)>>, <<comp(3, 1)>> >>]
AtEnd   == [cols |-> <<col(1), col(3)>>, reclen |-> 4, keys |-> << <<comp(1, 3)>> >>]
Signed  == [cols |-> <<num(1), num(2), num(1)>>, reclen |-> 4, keys |-> << <<comp(0, 1)>> >>]
Long    == [cols |-> <<num(1), num(3)>>, reclen |-> 4, keys |-> << <<comp(0, 1)>> >>]

Seven == {Plain, Inside, Split, Decimal, AtEnd, Signed, Long}
================================================================================
