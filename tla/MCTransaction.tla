----------------------------- MODULE MCTransaction -----------------------------
(* TLC instance of PqfhTransaction; the bound is in the cfg.               *)
EXTENDS PqfhTransaction
================================================================================
