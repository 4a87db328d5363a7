---------------------------- MODULE NodeSelection ----------------------------
(***************************************************************************)
(* tolerates of controllers/sosreport_controller.go: which nodes a         *)
(* Sosreport is collected from, and what the Kubernetes scheduler, which   *)
(* is not code of the repository, asks of a pod before it puts it there.   *)
(***************************************************************************)
EXTENDS Integers, Sequences

(* A taint has a key, a value and an effect.  A toleration also has an     *)
(* operator ("Exists" or "Equal"), and an empty key or effect stands for   *)
(* all of them.                                                            *)
ToleratesTaint(toleration, taint) ==
    /\ toleration.effect \in {"", taint.effect}
    /\ toleration.key    \in {"", taint.key}
    /\ toleration.operator = "Exists" \/ toleration.value = taint.value

(* The inner loop: it is left by break at the first toleration that        *)
(* matches, and returns false when the last one does not match either.     *)
AnyTolerates(tolerations, taint) ==
    LET loop[ti \in 1 .. Len(tolerations)] ==
            \/ ToleratesTaint(tolerations[ti], taint)
            \/ ti # Len(tolerations) /\ loop[ti + 1]
    IN  loop[1]

(* Defects: the inner loop never returns false; the outer loop returns at  *)
(* the first taint that is tolerated.                                      *)
tolerates_NoLastCheck(tolerations, taints) ==
    \A i \in 1 .. Len(taints) : Len(tolerations) # 0

tolerates_FirstTaint(tolerations, taints) ==
    \/ Len(taints) = 0
    \/ \E i \in 1 .. Len(taints) :
          Len(tolerations) # 0 /\ AnyTolerates(tolerations, taints[i])

tolerates(tolerations, taints) ==
    \A i \in 1 .. Len(taints) :
        Len(tolerations) # 0 /\ AnyTolerates(tolerations, taints[i])

-----------------------------------------------------------------------------
(* The scheduler only prefers nodes without taints of this effect.         *)
Schedulable(tolerations, taints) ==
    \A i \in 1 .. Len(taints) :
        \/ taints[i].effect = "PreferNoSchedule"
        \/ \E k \in 1 .. Len(tolerations) :
              ToleratesTaint(tolerations[k], taints[i])

=============================================================================
