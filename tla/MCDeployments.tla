---------------------------- MODULE MCDeployments ----------------------------
(* Two callers and two targets: behaviours in which requests overlap stay   *)
(* with one target and one fault, one request after another uses both.      *)
EXTENDS Deployments, FiniteSets, TLC

Created == {t \in Targets : target[t] # "absent"}

MCNext ==
    /\ Next /\ Watch
    /\ overlapped' => Cardinality(Created') <= 1 /\ faults' <= 1

MCSpec == Init /\ [][MCNext]_allvars

Symmetry == Permutations(Deps) \cup Permutations(Callers) \cup Permutations(Targets)

(* Once requests have overlapped, states that differ only in what the       *)
(* events have said or will say are one: no guard and no property of such   *)
(* states reads it.                                                         *)
Unheard ==
    <<overlapped, target, dep, promoter, faults,
      IF overlapped
      THEN [c \in Callers |-> <<call[c].pc, call[c].dep, call[c].target, call[c].to, call[c].sup>>]
      ELSE <<call, told>>>>
=============================================================================
