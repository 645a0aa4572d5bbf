-------------------------- MODULE MCDispatchIngest --------------------------
(***************************************************************************)
(* Instances of DispatchIngest for TLC.                                    *)
(***************************************************************************)
EXTENDS DispatchIngest

(* One of the two dispatches is good, ahead of the other or behind it.     *)
OneValidInit ==
  Init /\ \E b \in Body : body \in {<<b, "valid">>, <<"valid", b>>}

OneValidSpec == OneValidInit /\ [][Next]_vars /\ Fairness
=============================================================================
