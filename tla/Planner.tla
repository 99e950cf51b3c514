------------------------------- MODULE Planner -------------------------------
(***************************************************************************)
(* plan_targets of src/aquant/planner/core.py: the effective targets of a  *)
(* session are the targets of the session before, overridden by what the   *)
(* signal says now; a symbol the signal leaves out keeps its target, a     *)
(* weight of zero is a decision like any other.                            *)
(*                                                                         *)
(* Weights are percents of equity; the code adds them up exactly.          *)
(***************************************************************************)
EXTENDS Integers, FiniteSets, FiniteSetsExt

CONSTANTS MaxSingle, MaxGross, MinCash    \* PlannerLimits

ASSUME LimitsAssumption ==
    /\ MaxSingle \in 1 .. 100
    /\ MaxGross \in 1 .. 100
    /\ MinCash \in 0 .. 99

\* A plan is [asOf, targets]; NoPlan stands for NoPreviousState.
NoPlan == [asOf |-> 0, targets |-> [s \in {} |-> 0]]

Gross(targets) == SumFunction(targets)

\* _validated_targets with the hard gross ceiling.
Weighable(targets) ==
    /\ \A s \in DOMAIN targets : targets[s] \in 0 .. 100
    /\ Gross(targets) <= 100

MergeNonzero(prior, current) ==            \* mutation: zero taken for silence
    [s \in DOMAIN prior \cup DOMAIN current |->
        IF s \in DOMAIN current /\ (current[s] # 0 \/ s \notin DOMAIN prior)
        THEN current[s] ELSE prior[s]]
Merge(prior, current) ==
    [s \in DOMAIN prior \cup DOMAIN current |->
        IF s \in DOMAIN current THEN current[s] ELSE prior[s]]

\* _validate_effective_state
WithinLimits(targets) ==
    /\ Weighable(targets)
    /\ \A s \in DOMAIN targets : targets[s] <= MaxSingle
    /\ Gross(targets) <= MaxGross
    /\ Gross(targets) + MinCash <= 100

\* The output's own weights are validated one by one, their sum only in the merge.
PlanRefused(asOf, output, previous, eligible) ==
    \/ \E s \in DOMAIN output : output[s] \notin 0 .. 100
    \/ previous # NoPlan /\ previous.asOf >= asOf
    \/ ~(DOMAIN output \cup DOMAIN previous.targets \subseteq eligible)
    \/ ~WithinLimits(Merge(previous.targets, output))

PlanTargets(asOf, output, previous) ==
    [asOf |-> asOf, targets |-> Merge(previous.targets, output)]

=============================================================================
