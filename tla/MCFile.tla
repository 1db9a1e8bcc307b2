--------------------------------- MODULE MCFile --------------------------------
(* TLC instance of PqfhFile; the modes are in the cfg.                     *)
EXTENDS PqfhFile
================================================================================
