----------------------------- MODULE MC_DfuBoot -----------------------------
(* Applications for DfuBoot: either fits beside the smaller one, and the    *)
(* larger one does not fit beside itself.                                   *)
EXTENDS DfuBoot

CONSTANTS small, large

MCImages == {small, large}

MCKind == [i \in MCImages |-> "APP"]

MCSdSize == [i \in MCImages |-> 0]

MCPages == [i \in MCImages |-> IF i = small THEN 2 ELSE 4]

AllStages == Stages

=============================================================================
