-------------------------------- MODULE MCRuns --------------------------------
(***************************************************************************)
(* An instance of a run for TLC: how it ends (RunLifecycle), and what it   *)
(* reads (ManifestPinning).  The two share nothing here, so each behaviour *)
(* is one of theirs while the other rests.                                 *)
(***************************************************************************)
EXTENDS RunLifecycle, ManifestPinning, TLC

VARIABLE part   \* "ends" or "reads"

(* The request slots are interchangeable.                                  *)
SlotSymmetry == Permutations(Slot)

RunsInit ==
  /\ part \in {"ends", "reads"}
  /\ Init /\ PinningInit
  /\ part # "ends" => body = [clean |-> TRUE, exempt |-> FALSE, qa |-> {}]

RunsNext ==
  /\ UNCHANGED part
  /\ IF part = "ends" THEN Next ELSE UNCHANGED vars
  /\ IF part = "reads" THEN PinningNext ELSE UNCHANGED pinningVars

RunsSpec == RunsInit /\ [][RunsNext]_<<part, vars, pinningVars>>
=============================================================================
