------------------------------ MODULE MCTableSync ------------------------------
(* TableSync with two bytes of data: strings with NULs and spaces, numbers too. *)
EXTENDS TableSync

Both == {"s", "n"}
X == 65
Nine == 57

\* Rows as pq2cob gives them; records as a COBOL program may leave them.
RowValues == [s |-> <<{<<X, X>>, <<X, SP>>}, {<<X, X>>}>>,
              n |-> <<{<<ZERO, Nine>>, <<ZERO, Nine + Sign>>}, {<<ZERO, Nine>>}>>]
RecordValues == [s |-> <<{<<X, X>>, <<X, NUL>>, <<NUL, X>>}, {<<X, X>>, <<X, NUL>>}>>,
                 n |-> <<{<<SP, Nine>>, <<NUL, Nine + Sign>>, <<Nine, Nine + Sign>>},
                         {<<SP, Nine>>, <<Nine, NUL>>}>>]
Filled(t) == [s |-> <<X, X>>, n |-> <<ZERO, Nine>>][t]

Contents(t, values, bad) ==
    {[k \in Keys |-> CASE k = LowKey -> low [] k = 1 -> one [] k = 2 -> two [] OTHER -> three] :
        low \in {None, Filled(t)}, one \in {None} \cup values[1], two \in {None} \cup values[2],
        three \in {None} \cup bad}

SomeTables == [t \in Types |-> Contents(t, RowValues[t], {})]
Emptied == [t \in Types |-> {Blank}]
SomeFiles == [t \in Types |-> Contents(t, RecordValues[t], {Filled(t)})]

Same == [k \in Keys |-> k]

\* The primary key; a database whose collation is not the order of the bytes;
\* an alternate key of reference, two records with the same value of it.
Primary == [bd |-> Same, isam |-> Same, ref |-> Same, alt |-> FALSE,
            seen |-> Keys]
Swapped == [Same EXCEPT ![1] = 2, ![2] = 1]
Collation == [Primary EXCEPT !.bd = Swapped]
Alternate == [bd |-> Swapped, isam |-> Swapped, ref |-> [Same EXCEPT ![2] = 1], alt |-> TRUE,
              seen |-> Keys]
Weakly == [Primary EXCEPT !.seen = {2}]

SomeOrders == {Primary, Collation, Alternate, Weakly}
================================================================================
