----------------------------- MODULE MCMonitor -----------------------------
(* Constants of Monitor for TLC. *)
EXTENDS Monitor

CONSTANTS o1, o2, b1

(* One reading that is only a value, and the disk's. *)
TwoTasks == <<"CPU", Disk>>
=============================================================================
