------------------------------ MODULE MCOutlook ------------------------------
(* Instances of the parts through which the server looks at its tenants, acts  *)
(* on them and tells operators.  They share no state, so a behaviour is about  *)
(* one of them (`part`) and the others stay as they start.                     *)
EXTENDS TenantWatch, ForgewingApi, TenantOps, SyntheticTests, AlertDispatch,
        FindingsTracker, EchoTurns, Research, FixProposals, Holograph

VARIABLE part

SomeLabel == [r \in Resource |-> "LambdaFunction"]
SomeMeasure == [s \in Signal |-> [good |-> 2, fair |-> 1, comparison |-> "gte", implemented |-> TRUE]]

SomeWorld == [api |-> "up", graph |-> TRUE, cloud |-> TRUE, facts |-> {}]

OutlookInit ==
    /\ part \in {"watch", "api", "ops", "tests", "alerts", "findings",
                "echo", "research", "forge", "holograph"}
    /\ WatchInit /\ ApiInit /\ OpsInit /\ TestInit /\ AlertInit /\ FindingsInit
    /\ EchoInit /\ ResearchInit /\ ForgeInit /\ HolographInit
    /\ part # "tests" => world = SomeWorld

OutlookNext ==
    /\ UNCHANGED part
    /\ \/ /\ part = "watch" /\ WatchNext
          /\ UNCHANGED <<apiVars, opsVars, testVars, alertVars, findingVars, echoVars,
                         researchVars, forgeVars, holographVars>>
       \/ /\ part = "api" /\ ApiNext
          /\ UNCHANGED <<watchVars, opsVars, testVars, alertVars, findingVars, echoVars,
                         researchVars, forgeVars, holographVars>>
       \/ /\ part = "ops" /\ OpsNext
          /\ UNCHANGED <<watchVars, apiVars, testVars, alertVars, findingVars, echoVars,
                         researchVars, forgeVars, holographVars>>
       \/ /\ part = "tests" /\ TestNext
          /\ UNCHANGED <<watchVars, apiVars, opsVars, alertVars, findingVars, echoVars,
                         researchVars, forgeVars, holographVars>>
       \/ /\ part = "alerts" /\ AlertNext
          /\ UNCHANGED <<watchVars, apiVars, opsVars, testVars, findingVars, echoVars,
                         researchVars, forgeVars, holographVars>>
       \/ /\ part = "findings" /\ FindingsNext
          /\ UNCHANGED <<watchVars, apiVars, opsVars, testVars, alertVars, echoVars,
                         researchVars, forgeVars, holographVars>>
       \/ /\ part = "echo" /\ EchoNext
          /\ UNCHANGED <<watchVars, apiVars, opsVars, testVars, alertVars, findingVars,
                         researchVars, forgeVars, holographVars>>
       \/ /\ part = "research" /\ ResearchNext
          /\ UNCHANGED <<watchVars, apiVars, opsVars, testVars, alertVars, findingVars,
                         echoVars, forgeVars, holographVars>>
       \/ /\ part = "forge" /\ ForgeNext
          /\ UNCHANGED <<watchVars, apiVars, opsVars, testVars, alertVars, findingVars,
                         echoVars, researchVars, holographVars>>
       \/ /\ part = "holograph" /\ HolographNext
          /\ UNCHANGED <<watchVars, apiVars, opsVars, testVars, alertVars, findingVars,
                         echoVars, researchVars, forgeVars>>

OutlookSpec ==
    OutlookInit /\ [][OutlookNext]_<<part, watchVars, apiVars, opsVars, testVars, alertVars,
                                     findingVars, echoVars, researchVars, forgeVars, holographVars>>
-----------------------------------------------------------------------------
\* No tenant that stands still goes unseen by everything that looks at tenants, and
\* what the banners say of it is set right by the next poll that reads everything.
TenantsAreSeen == NoStallUnseen /\ BannersSettle

\* What operators were told is what stands: the alerts sent, the findings reported
\* and the features reported green.
OperatorsKnow == StandingIsTold /\ ReaderIsRight /\ GreenIsEarned
=============================================================================
