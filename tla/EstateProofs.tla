---------------------------- MODULE EstateProofs -----------------------------
(***************************************************************************)
(* Proofs about the parts together (Estate). Every behaviour of the estate *)
(* is, seen through the variables of one part, a behaviour of that part:   *)
(* at its own step the part moves, at any other it stutters. So what is    *)
(* proved of each part alone holds in the whole, which is the              *)
(* specification that is model-checked. Fairness is not used.              *)
(***************************************************************************)
EXTENDS Estate, TablesProofs, FaultsProofs

\* A step of the estate is a step of one part, which leaves the others alone.
LEMMA OnePartMoves ==
    ASSUME [EstateNext]_allVars
    PROVE  /\ [KnownNext]_knownVars
           /\ [FileNext]_fileVars
           /\ [SpineReadsNext]_readVars
           /\ [IntakeNext]_intakeVars
           /\ [FraudNext]_fraudVars
           /\ [ChaosNext]_chaosVars
           /\ [DrillsNext]_drillVars
  <1>1. CASE KnownNext /\ UNCHANGED <<fileVars, readVars, intakeVars, fraudVars, chaosVars, drillVars>>
    BY <1>1
  <1>2. CASE FileNext /\ UNCHANGED <<knownVars, readVars, intakeVars, fraudVars, chaosVars, drillVars>>
    BY <1>2
  <1>3. CASE SpineReadsNext /\ UNCHANGED <<knownVars, fileVars, intakeVars, fraudVars, chaosVars, drillVars>>
    BY <1>3
  <1>4. CASE IntakeNext /\ UNCHANGED <<knownVars, fileVars, readVars, fraudVars, chaosVars, drillVars>>
    BY <1>4
  <1>5. CASE FraudNext /\ UNCHANGED <<knownVars, fileVars, readVars, intakeVars, chaosVars, drillVars>>
    BY <1>5
  <1>6. CASE ChaosNext /\ UNCHANGED <<knownVars, fileVars, readVars, intakeVars, fraudVars, drillVars>>
    BY <1>6
  <1>7. CASE DrillsNext /\ UNCHANGED <<knownVars, fileVars, readVars, intakeVars, fraudVars, chaosVars>>
    BY <1>7
  <1>8. CASE UNCHANGED allVars
    BY <1>8 DEF allVars
  <1> QED
    BY <1>1, <1>2, <1>3, <1>4, <1>5, <1>6, <1>7, <1>8 DEF EstateNext

\* Each part starts in one of its initial states.
LEMMA AllPartsStart ==
    ASSUME EstateInit
    PROVE  /\ KnownInit
           /\ FileInit
           /\ SpineReadsInit
           /\ IntakeInit
           /\ FraudInit
           /\ ChaosInit
           /\ DrillsInit
  BY DEF EstateInit

\* The estate implements its parts: every behaviour of the whole is one of each of
\* them, but for what is fair.
THEOREM EstateRunsItsParts ==
    EstateSpec =>
        /\ KnownSpec /\ FileSpec /\ SpineReadsSpec /\ IntakeSpec
        /\ FraudInit /\ [][FraudNext]_fraudVars
        /\ ChaosInit /\ [][ChaosNext]_chaosVars
        /\ DrillsInit /\ [][DrillsNext]_drillVars
  BY AllPartsStart, OnePartMoves, PTL
  DEF EstateSpec, KnownSpec, FileSpec, SpineReadsSpec, IntakeSpec

\* A behaviour stays about the part it began with.
LEMMA PartStays == EstateSpec => [](part \in Parts)
  <1>1. EstateInit => part \in Parts BY DEF EstateInit
  <1>2. part \in Parts /\ [EstateNext]_allVars => (part \in Parts)'
    BY DEF EstateNext, At, allVars
  <1> QED BY <1>1, <1>2, PTL DEF EstateSpec

\* Every variable of every part keeps its type, of the part at work and of the
\* parts that rest.
THEOREM EstateTypeSafety == EstateSpec => []EstateTypeOK
  <1>1. (part \in Parts) /\ KnownTypeOK /\ SpineReadsTypeOK /\ IntakeTypeOK
           /\ FraudTypeOK /\ ChaosTypeOK /\ DrillsTypeOK => EstateTypeOK
    BY DEF EstateTypeOK
  <1> QED
    BY <1>1, PartStays, EstateRunsItsParts, KnownTypeSafety, ReadsTypeSafety,
       IntakeTypeSafety, FraudSafety, ChaosSafety, DrillsSafety, PTL

\* What the parts promise holds in the estate: nothing that was taught, stored,
\* read, answered, committed or undone is lost on the way.
THEOREM EstateKeepsItsPromises ==
    EstateSpec =>
        /\ [](LatestTeachingStays /\ ImportRestores /\ ExportHoldsWhatStayed)
        /\ TeachingCollapses
        /\ []StoreSurvivesKill
        /\ [](ListMissesNothing /\ ReportsAddUp)
        /\ [](AnswersAreTrue /\ SecondOnlyUnseen /\ ScrubTellsSlips)
        /\ []CommittedIsAccounted
        /\ [](NotificationsStop /\ ProbeLeavesNothing)
        /\ [](CleanWhenOver /\ PassesAreApart)
  BY EstateRunsItsParts, TeachingIsNeverLost, BackupIsRestored, ScanMissesNothing,
     AloneTeachingCollapses, StoreIsNeverHalfWritten, ListsMissNothing,
     ReportsAlwaysAddUp, AnswersTellTheTruth, SecondsAreUnseen, ScrubTellsCardsApart,
     FraudSafety, ChaosSafety, DrillsSafety, PTL
===============================================================================
