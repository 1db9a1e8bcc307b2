------------------------------- MODULE CobolFile -------------------------------
(***************************************************************************)
(* What a COBOL program may rely on when it opens, closes and deletes an   *)
(* indexed file: OPEN and CLOSE alternate, a refused statement changes     *)
(* nothing, and the file status tells which of the two happened.           *)
(***************************************************************************)

CONSTANTS Closed, OpenModes, Statuses

VARIABLES op, open_mode, status

cfVars == <<op, open_mode, status>>

IsOpen == open_mode # Closed

CFInit == op = "none" /\ open_mode = Closed /\ status = "00"

OpenDone == op' = "open" /\ ~IsOpen /\ open_mode' \in OpenModes /\ status' = "00"

\* OPEN of an open file is status 41; any other error leaves the file closed.
OpenRefused ==
    /\ op' = "open"
    /\ status' \in Statuses \ {"00"}
    /\ IsOpen => status' = "41"
    /\ UNCHANGED open_mode

CloseDone == op' = "close" /\ IsOpen /\ open_mode' = Closed /\ status' = "00"

CloseRefused == op' = "close" /\ ~IsOpen /\ status' = "42" /\ UNCHANGED open_mode

\* DELETE FILE never succeeds on an open file.
Delete ==
    /\ op' = "delete"
    /\ status' \in Statuses
    /\ IsOpen => status' # "00"
    /\ UNCHANGED open_mode

CFNext == OpenDone \/ OpenRefused \/ CloseDone \/ CloseRefused \/ Delete

CFSpec == CFInit /\ [][CFNext]_cfVars
================================================================================
