-------------------------- MODULE MCManifestPinning --------------------------
(***************************************************************************)
(* Instances of ManifestPinning for TLC.                                   *)
(***************************************************************************)
EXTENDS ManifestPinning
=============================================================================
