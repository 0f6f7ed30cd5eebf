------------------------- MODULE MCConcurrentRunner -------------------------
(* Values of the constants of ConcurrentRunner for TLC.                    *)
EXTENDS ConcurrentRunner

CONSTANTS m1, m2, r1, r2

\* One model with the runner that is registered and the one that replaces it.
OneModel == [r \in Runners |-> m1]

\* Two models.
TwoModels == [r \in Runners |-> IF r = r1 THEN m1 ELSE m2]

\* The faults of a model; the coordinator does not misuse its methods.
OwnFaults == AllFaults \ {"misuse"}

\* Slow answers only.
TimeoutsOnly == {"timeout"}
=============================================================================
