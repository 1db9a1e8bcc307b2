------------------------------ MODULE MCChangelog ------------------------------
(* A TLC instance of Changelog: sync.cbl with one of two tables added, and *)
(* two records of that one.                                                *)
EXTENDS Changelog

CONSTANTS t1, t2, w1, w2

One == <<t1>>
Three == {<<t1, 1>>, <<t1, 2>>, <<t2, 1>>}
================================================================================
