SPECIFICATION RecordsSpec
CONSTANTS
  world = world
  otherWorld = otherWorld
  episode = episode
  Facts <- ThreeFacts
  Identity <- IdentityOf
  Needs <- NeedsOf
  Threads = {t1, t2}
  AppendFaults <- AnyFault
  MaxLines = 3
  Torn = Torn
  Corrupt = Corrupt
  NoFact = NoFact
  None = None
  Universe <- SmallUniverse
  Requests = {"r1"}
  AssetArtifacts = {"a1", "a2"}
  AssetBoots = 2
  Fallback = "fallback"
  Proposals <- SomeProposals
  Workers = {w1, w2}
  Humans = {h1}
  MaxCalls = 3
  Episodes = {"e1", "e2"}
  Clients = {"c1", "c2"}
  QueueSize = 2
  MaxSubscribers = 1
  MaxPerEpisode = 1
  MaxEvents = 5
  Baseline = baseline
  Comparison <- ThreeArtifacts
  Configs <- FourConfigs
  WorldNumbers = {1}
  Sources <- ThreeSources
  Lessons <- TwoLessons
  Plan <- ReviewedPlan
  EvidenceIds <- SomeIds
  EvidenceBoots = 2
SYMMETRY AlikeSymmetry
INVARIANTS
  MemoryTruthful ViewsAgree AnswersStand StreamsAccountForLoss AdmittedEvidenceStands
  CutOffAdmissionResumes 
PROPERTIES FactLedger HeldOutIsInert
\* The calls, facts and events of the instances are used up.
CHECK_DEADLOCK FALSE
