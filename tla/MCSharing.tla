------------------------------- MODULE MCSharing -------------------------------
(* Sharing with three terminals that come and go, or one and two supports. *)
EXTENDS Sharing

\* Session numbers: terminals come while others leave.
Numbers == [clients |-> Clients, supports |-> {}, draws |-> 0]

\* The accepting thread serves a support when a terminal comes.
Busy == [clients |-> {"c1", "c2"}, supports |-> {"s1"}, draws |-> 0]

\* Output before, while and after a support connects, and another after it.
Mirrored == [clients |-> {"c1"}, supports |-> Supports, draws |-> 2]

\* On a screen of two lines and two columns: the first line and the last column.
Some == {[y1 |-> 1, y2 |-> 1, x1 |-> 0, x2 |-> 1], [y1 |-> 1, y2 |-> 2, x1 |-> 1, x2 |-> 1]}

Three == {Numbers, Busy, Mirrored}
================================================================================
