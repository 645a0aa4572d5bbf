---------------------------- MODULE MCRunLifecycle ----------------------------
(***************************************************************************)
(* Instances of RunLifecycle for TLC.                                      *)
(***************************************************************************)
EXTENDS RunLifecycle

(* One clean artifact without an exemption, with all QA fields.            *)
OneBody ==
  /\ Init
  /\ body = [clean |-> TRUE, exempt |-> FALSE, qa |-> Evidence \cup {"verdict"}]

OneBodySpec == OneBody /\ [][Next]_vars /\ Fairness
=============================================================================
