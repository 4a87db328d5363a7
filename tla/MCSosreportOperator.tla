------------------------ MODULE MCSosreportOperator ------------------------
(***************************************************************************)
(* Instances of SosreportOperator and its refinement for TLC.              *)
(***************************************************************************)
EXTENDS SosreportRefinement, SosreportProgress, TLC

CONSTANTS n1, n2, u1, u2, a, b

(* Every Sosreport selects and tolerates all nodes.                        *)
AllNodes == [u \in UIDs |-> Nodes]

(* Nodes match the selector of u1 only.                                    *)
SomeSelected == [u \in UIDs |-> IF u = u1 THEN Nodes ELSE {}]

NodeSymmetry == Permutations(Nodes)

-----------------------------------------------------------------------------
(* Bounds on the faults of a run.                                          *)
Once(kinds) == [k \in FaultKinds |-> IF k \in kinds THEN 1 ELSE 0]

NoFaults      == Once({})
AllFaults     == Once(FaultKinds \ {"delete", "deleteJob", "churn"})
StableFaults  == Once({"fail", "touch", "deleteJob", "configure", "churn"})
LossFaults    == Once({"crash", "fail", "listFail", "listJobsFail"})
OneDelete     == Once({"delete"})
OneCrash      == Once({"crash"})
OneFail       == Once({"fail"})
OneTouch      == Once({"touch"})
OneListFail   == Once({"listFail"})

(* No more than two faults in a behaviour, of whatever kinds.              *)
TwoFaults == Cardinality({k \in FaultKinds : budget[k] # MaxFaults[k]}) =< 2
=============================================================================
