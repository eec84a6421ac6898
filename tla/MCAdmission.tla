---- MODULE MCAdmission ----
EXTENDS AdmissionController

\* MaintainAt with the stages of Expire bound one by one: TLC then evaluates
\* each of them once when it decides whether the action is enabled.
MaintainInStages ==
  \E overdue \in {ExpireOverdue(ctl)} : \E pruned \in {PruneTerminal(overdue)} :
    \E drained \in {ApplyPending(pruned)} : ctl' = Promote(drained)

\* The worker's 100 ms interval runs MaintainAt for ever, and time passes.
FairSpec == Spec /\ WF_ctl(Tick) /\ WF_ctl(MaintainInStages)
====
