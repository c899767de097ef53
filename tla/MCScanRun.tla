------------------------------ MODULE MCScanRun ------------------------------
(* Instances of ScanRun for TLC. *)
EXTENDS ScanRun, TLC

CONSTANTS g1, g2, g3

ThreeWorkers == {g1, g2, g3}

=============================================================================
