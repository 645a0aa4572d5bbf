------------------------------- MODULE MCBroker -------------------------------
(***************************************************************************)
(* An instance for TLC of the two ends of the queue: the reports that the  *)
(* broker makes, with any client, and the order in which the scheduler     *)
(* starts runs.  They share nothing here, so each behaviour is one of      *)
(* theirs while the other rests.                                           *)
(***************************************************************************)
EXTENDS BrokerReports, MCScheduler, TLC

VARIABLE part   \* "reports" or "order"

(* The request slots are interchangeable.                                  *)
SlotSymmetry == Permutations(Slot)

(* Publishes with all QA fields, or with an oversized verdict.             *)
FewBodies ==
  /\ BrokerInit /\ QueueInit
  /\ body.qa \in {Evidence, Evidence \cup {"verdict"}}

BothInit ==
  /\ part \in {"reports", "order"}
  /\ FewBodies /\ Init
  /\ part = "order" => body = [clean |-> TRUE, exempt |-> FALSE, qa |-> Evidence]

BothNext ==
  /\ UNCHANGED part
  /\ IF part = "reports" THEN BrokerNext ELSE UNCHANGED <<brokerVars, queueVars>>
  /\ IF part = "order" THEN QuietNext ELSE UNCHANGED vars

BothSpec == BothInit /\ [][BothNext]_<<part, brokerVars, queueVars, vars>>
=============================================================================
