---------------------------- MODULE PlannerClient ----------------------------
(***************************************************************************)
(* A chain of plans: each session a signal decides about some, all or none *)
(* of the symbols, and the plan it gets is the next session's previous     *)
(* state.  A refused call raises PlannerError and leaves the chain as it   *)
(* was.                                                                    *)
(***************************************************************************)
EXTENDS Planner, Sequences

CONSTANTS
    Eligible,        \* the symbols that may be planned
    Named,           \* Eligible and a symbol outside it
    Weights,         \* percents a signal may ask for
    Sessions         \* as_of dates

ASSUME ClientAssumption ==
    /\ Eligible # {} /\ Eligible \subseteq Named
    /\ Sessions \subseteq Nat \ {0}

VARIABLES plan, reply,
          decisions       \* the outputs accepted since the last reset

vars == <<plan, reply, decisions>>

Outputs == UNION {[names -> Weights] : names \in SUBSET Named}

Init == plan = NoPlan /\ reply = "planned" /\ decisions = <<>>

\* The caller passes its plan on, or says there is no previous state.
Decide(asOf, output, previous) ==
    \/ /\ PlanRefused(asOf, output, previous, Eligible)
       /\ reply' = "refused"
       /\ UNCHANGED <<plan, decisions>>
    \/ /\ ~PlanRefused(asOf, output, previous, Eligible)
       /\ plan' = PlanTargets(asOf, output, previous)
       /\ decisions' = IF previous = NoPlan THEN <<output>> ELSE Append(decisions, output)
       /\ reply' = "planned"

Next == \E asOf \in Sessions, output \in Outputs, previous \in {plan, NoPlan} :
            Decide(asOf, output, previous)

Spec == Init /\ [][Next]_vars

-----------------------------------------------------------------------------
(* Properties *)

\* However many sessions say nothing about a symbol, its target is what the
\* last decision on it since the last reset asked for, an explicit zero
\* included; and whatever was decided when, the targets in force respect every
\* limit together, decisions of different sessions added up.
DecisionsOn(s) == {i \in DOMAIN decisions : s \in DOMAIN decisions[i]}
TargetIsLatestDecision ==
    \A s \in Named :
        /\ s \in DOMAIN plan.targets <=> DecisionsOn(s) # {}
        /\ DecisionsOn(s) # {} => plan.targets[s] = decisions[Max(DecisionsOn(s))][s]
PlanWithinLimits ==
    plan # NoPlan =>
        /\ DOMAIN plan.targets \subseteq Eligible
        /\ \A s \in DOMAIN plan.targets : plan.targets[s] \in 0 .. MaxSingle
        /\ Gross(plan.targets) <= MaxGross
        /\ Gross(plan.targets) + MinCash <= 100
PlansFollowDecisions ==
    /\ reply \in {"planned", "refused"} /\ plan.asOf \in Sessions \cup {0}
    /\ TargetIsLatestDecision /\ PlanWithinLimits

=============================================================================
