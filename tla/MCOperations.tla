---------------------------- MODULE MCOperations ----------------------------
(* Instances of the parts that operators, founders and their agents consult   *)
(* and command.  They share no state, so a behaviour is about one of them     *)
(* (`part`) and the others stay as they start.                                *)
EXTENDS PatternLearner, DeployGate, TenantRepair, Loom, FounderAsks, ReadTools, TLC

VARIABLE part

\* Every factor good and bad, and in between where its test has a middle.
MCValue ==
    [ci |-> {"passed", "unavailable", "failed"}, audit |-> {"ok"},
     tenants |-> {"ok", "two critical"}, synthetic |-> {"ok", "below 80%"},
     lastDeploy |-> {"ok"}, daemon |-> {"ok", "over 5 errors", "stale", "down"},
     risk |-> {"up to 0.4", "up to 0.7", "above 0.7"}, incidents |-> {0, 2, 3},
     chains |-> {0, 3}, failures |-> {0, 3}, offHours |-> BOOLEAN, buried |-> BOOLEAN]

CONSTANTS n1, n2, n3

MCLabelOf == n1 :> "RepoFile" @@ n2 :> "MissionTask" @@ n3 :> "TenantSnapshot"

SomeFact == CHOOSE f \in Fact : TRUE

PartInit ==
    /\ part \in {"patterns", "deploys", "repairs", "loom", "asks", "reads"}
    /\ LearnerInit /\ RepairInit /\ DeployInit /\ LoomInit /\ AsksInit /\ ReadInit
    /\ part # "deploys" => fact = SomeFact

PartNext ==
    /\ UNCHANGED part
    /\ \/ /\ part = "patterns" /\ LearnerNext
          /\ UNCHANGED <<deployVars, repairVars, loomVars, askVars, readVars>>
       \/ /\ part = "deploys" /\ DeployNext
          /\ UNCHANGED <<learnerVars, repairVars, loomVars, askVars, readVars>>
       \/ /\ part = "repairs" /\ RepairNext
          /\ UNCHANGED <<learnerVars, deployVars, loomVars, askVars, readVars>>
       \/ /\ part = "loom" /\ LoomNext
          /\ UNCHANGED <<learnerVars, deployVars, repairVars, askVars, readVars>>
       \/ /\ part = "asks" /\ AsksNext
          /\ UNCHANGED <<learnerVars, deployVars, repairVars, loomVars, readVars>>
       \/ /\ part = "reads" /\ ReadNext
          /\ UNCHANGED <<learnerVars, deployVars, repairVars, loomVars, askVars>>

PartSpec ==
    PartInit /\ [][PartNext]_<<part, learnerVars, deployVars, repairVars, loomVars, askVars, readVars>>

\* What is interchangeable in one part is so in all.
Symmetry == Permutations(Capability) \union Permutations(Writer)
=============================================================================
