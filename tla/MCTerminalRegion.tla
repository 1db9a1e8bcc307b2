---------------------------- MODULE MCTerminalRegion ----------------------------
(***************************************************************************)
(* A screen of two lines and three columns: wide enough for a region that  *)
(* grows to both sides of the cursor, and for a line above the region.     *)
(***************************************************************************)
EXTENDS TerminalRegion
=============================================================================
