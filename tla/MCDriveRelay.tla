---------------------------- MODULE MCDriveRelay ----------------------------
(* The relay alone: two executions of the script and two submissions.      *)
EXTENDS DriveRelay

CONSTANTS x1, x2, s1, s2

MCExecutions == {x1, x2}
MCSubmissions == {s1, s2}
=============================================================================
