-------------------------------- MODULE Estate --------------------------------
(***************************************************************************)
(* The parts around the spine, none of which shares state with another:    *)
(* the known-issues table, the local store, the readers of the spine's     *)
(* tables, the intake, the fraud pipeline, and the drills of the cloud and *)
(* of the Kubernetes estates.  A behaviour is about one of them; the       *)
(* others stay in their initial states.                                    *)
(***************************************************************************)
EXTENDS KnownIssues, JsonStore, SpineReads, Intake, FraudPipeline, ChaosFaults, EstateDrills

Parts == {"known", "file", "reads", "intake", "fraud", "chaos", "drills"}

VARIABLE part       \* the part a behaviour is about

allVars == <<part, knownVars, fileVars, readVars, intakeVars, fraudVars, chaosVars, drillVars>>

\* Of a part that is not at work one of the initial states is enough.
Still(who, Bounds, bounds) == part # who => bounds = CHOOSE b \in Bounds : TRUE

EstateInit ==
    /\ part \in Parts
    /\ KnownInit /\ Still("known", KnownLimits, limits)
    /\ FileInit
    /\ SpineReadsInit /\ Still("reads", ReadLimits, reads)
    /\ IntakeInit /\ (part # "intake" => InGroup(CHOOSE G \in Groups : TRUE))
    /\ FraudInit /\ Still("fraud", Budgets, budget)
    /\ ChaosInit /\ Still("chaos", ChaosLimits, chances)
    /\ DrillsInit /\ Still("drills", DrillLimits, allowed)

At(p) == part = p /\ UNCHANGED part

EstateNext ==
    \/ At("known") /\ KnownNext
       /\ UNCHANGED <<fileVars, readVars, intakeVars, fraudVars, chaosVars, drillVars>>
    \/ At("file") /\ FileNext
       /\ UNCHANGED <<knownVars, readVars, intakeVars, fraudVars, chaosVars, drillVars>>
    \/ At("reads") /\ SpineReadsNext
       /\ UNCHANGED <<knownVars, fileVars, intakeVars, fraudVars, chaosVars, drillVars>>
    \/ At("intake") /\ IntakeNext
       /\ UNCHANGED <<knownVars, fileVars, readVars, fraudVars, chaosVars, drillVars>>
    \/ At("fraud") /\ FraudNext
       /\ UNCHANGED <<knownVars, fileVars, readVars, intakeVars, chaosVars, drillVars>>
    \/ At("chaos") /\ ChaosNext
       /\ UNCHANGED <<knownVars, fileVars, readVars, intakeVars, fraudVars, drillVars>>
    \/ At("drills") /\ DrillsNext
       /\ UNCHANGED <<knownVars, fileVars, readVars, intakeVars, fraudVars, chaosVars>>

\* Each part's fairness, for the part at work.
EstateFairness ==
    /\ WF_fraudVars(part = "fraud" /\ Sync)
    /\ WF_fraudVars(part = "fraud" /\ TtlPasses)
    /\ WF_fraudVars(part = "fraud" /\ TenSeconds)
    /\ WF_fraudVars(part = "fraud" /\ TickerStep)
    /\ WF_fraudVars(part = "fraud" /\ LoopStep)
    /\ \A t \in Txns : WF_chaosVars(part = "chaos" /\ LedgerRun(t))
    /\ \A r \in Runs : WF_drillVars(part = "drills" /\ RunStep(r))
    /\ WF_drillVars(part = "drills" /\ Reconcile)

EstateSpec == EstateInit /\ [][EstateNext]_allVars /\ EstateFairness

\* Every variable of the part at work has its type.
EstateTypeOK ==
    /\ part \in Parts
    /\ part = "known" => KnownTypeOK
    /\ part = "reads" => SpineReadsTypeOK
    /\ part = "intake" => IntakeTypeOK
    /\ part = "fraud" => FraudTypeOK
    /\ part = "chaos" => ChaosTypeOK
    /\ part = "drills" => DrillsTypeOK
===============================================================================
