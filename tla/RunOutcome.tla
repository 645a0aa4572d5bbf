----------------------------- MODULE RunOutcome -----------------------------
(***************************************************************************)
(* What the control plane, the broker and the runner together promise      *)
(* gp-api about one run: the row moves once, to one terminal status, and   *)
(* COMPLETED means that the immutable artifact of the run is in S3.        *)
(***************************************************************************)

VARIABLES
  row,       \* status of the ExperimentRun
  archived   \* the archive <experiment>/<run>/artifact.json exists

vars == <<row, archived>>

Terminal == {"COMPLETED", "FAILED"}

Init == row = "QUEUED" /\ archived = FALSE

Start == row = "QUEUED" /\ row' = "RUNNING" /\ UNCHANGED archived

Archive == archived = FALSE /\ archived' = TRUE /\ UNCHANGED row

Complete == row \notin Terminal /\ archived /\ row' = "COMPLETED" /\ UNCHANGED archived

Fail == row \notin Terminal /\ row' = "FAILED" /\ UNCHANGED archived

Next == Start \/ Archive \/ Complete \/ Fail

Spec == Init /\ [][Next]_vars
=============================================================================
