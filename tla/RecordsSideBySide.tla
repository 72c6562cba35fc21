------------------------- MODULE RecordsSideBySide --------------------------
(***************************************************************************)
(* Graph memory and the components that keep records or answer from them   *)
(* and share no state with another, in one specification: the subject,     *)
(* chosen at the start, takes the steps of its own specification while the *)
(* others are off, their variables None (those of GraphMemory, which this  *)
(* module extends, in its Init).                                           *)
(***************************************************************************)
EXTENDS GraphMemory, Integers, FiniteSets

\* The constants of the components, as their modules declare them.
CONSTANTS None, Universe, Requests, AssetArtifacts, AssetBoots, Fallback, Proposals,
          Workers, Humans, MaxCalls, Episodes, Clients, QueueSize, MaxSubscribers,
          MaxPerEpisode, MaxEvents, Configs, Comparison, WorldNumbers, Baseline, Sources,
          Lessons, Plan, EvidenceIds, EvidenceBoots

VARIABLE subject
VARIABLE facts
VARIABLES assetFiles, configured, assetServer, assetBoots, calls, work, answers
VARIABLES streamServer, durable, published, worker, client, hubClosed
VARIABLES evidenceStore, evidenceServer, evidenceBoots, tried, closedSources,
          handedOver, approvedLessons, reviewClient, references, bundle, numericDecision, lineage

assetsVars == <<assetFiles, configured, assetServer, assetBoots, calls, work, answers>>
streamsVars == <<streamServer, durable, published, worker, client, hubClosed>>
evidenceVars == <<evidenceStore, evidenceServer, evidenceBoots, tried, closedSources,
                  handedOver, approvedLessons, reviewClient, references, bundle,
                  numericDecision, lineage>>

Views == INSTANCE GraphViews
Assets == INSTANCE AssetPipeline WITH files <- assetFiles, server <- assetServer,
    boots <- assetBoots, MaxBoots <- AssetBoots, Artifacts <- AssetArtifacts
Streams == INSTANCE EventStreaming WITH server <- streamServer
Workflow == INSTANCE WorkflowEvidence WITH store <- evidenceStore,
    server <- evidenceServer, boots <- evidenceBoots, closed <- closedSources,
    approved <- approvedLessons, client <- reviewClient, decision <- numericDecision,
    MaxBoots <- EvidenceBoots, Worlds <- WorldNumbers

\* No file is absent or torn and whole.
ASSUME AssetAssumption ==
  /\ Torn # None
  /\ {Torn, None} \cap Assets!Bundles = {}
  /\ {Torn, None} \cap [by : Humans, verdict : {"approve", "reject"}, at : Nat] = {}

\* A fact is immutable: another content under its identity is refused
\* (LocalGraphMemoryCache._record).  The answers order lessons by their names.
ASSUME ViewAssumption ==
  /\ \A f, g \in Universe : f.kind = g.kind /\ f.id = g.id => f = g
  /\ \A f \in Universe : f.kind = "lesson" => f.id \in Nat

\* A subscriber's queue has room (LiveTelemetryHub.__init__).
ASSUME StreamAssumption == QueueSize \in Nat \ {0}

\* A configuration names an artifact and a time, the plan one of the candidates and
\* not the baseline, which is deterministic: verified comparisons measured the same
\* of it.  No row is the absence of one.
ASSUME EvidenceAssumption ==
  /\ Configs \subseteq [artifact : Workflow!Artifacts, time : Int]
  /\ Plan.candidate \in Workflow!Candidates /\ Baseline \notin Workflow!Candidates
  /\ \A a, b \in Workflow!Artifacts :
       Workflow!Verified(a) /\ Workflow!Verified(b) => Comparison[a].rates = Comparison[b].rates
  /\ WorldNumbers \subseteq Int /\ IsFiniteSet(WorldNumbers) /\ EvidenceBoots \in Nat
  /\ None \notin Int \cup Configs \cup Workflow!Artifacts /\ None # "refused"

-----------------------------------------------------------------------------
Subjects == {"graph", "views", "assets", "streams", "evidence"}

\* A component starts when it is the subject and is off otherwise.
ViewsInit ==
  IF subject = "views" THEN Views!Init
  ELSE facts = None
AssetsInit ==
  IF subject = "assets" THEN Assets!Init
  ELSE /\ assetFiles = None /\ configured = None /\ assetServer = None
       /\ assetBoots = None /\ calls = None /\ work = None /\ answers = None
StreamsInit ==
  IF subject = "streams" THEN Streams!Init
  ELSE /\ streamServer = None /\ durable = None /\ published = None /\ worker = None
       /\ client = None /\ hubClosed = None
WorkflowInit ==
  IF subject = "evidence" THEN Workflow!Init
  ELSE /\ evidenceStore = None /\ evidenceServer = None /\ evidenceBoots = None
       /\ tried = None /\ closedSources = None /\ handedOver = None
       /\ approvedLessons = None
       /\ reviewClient = None /\ references = None /\ bundle = None
       /\ numericDecision = None /\ lineage = None

RecordsInit ==
  /\ subject \in Subjects
  /\ Init
  /\ ViewsInit
  /\ AssetsInit
  /\ StreamsInit
  /\ WorkflowInit

\* What is off stays off.
GraphStep ==
  /\ subject = "graph" /\ Next
  /\ UNCHANGED <<subject, facts, assetsVars, streamsVars, evidenceVars>>
ViewsStep ==
  /\ subject = "views" /\ Views!Next
  /\ UNCHANGED <<subject, vars, assetsVars, streamsVars, evidenceVars>>
AssetsStep ==
  /\ subject = "assets" /\ Assets!Next
  /\ UNCHANGED <<subject, vars, facts, streamsVars, evidenceVars>>
StreamsStep ==
  /\ subject = "streams" /\ Streams!Next
  /\ UNCHANGED <<subject, vars, facts, assetsVars, evidenceVars>>
WorkflowStep ==
  /\ subject = "evidence" /\ Workflow!Next
  /\ UNCHANGED <<subject, vars, facts, assetsVars, streamsVars>>

RecordsNext ==
  \/ GraphStep
  \/ ViewsStep
  \/ AssetsStep
  \/ StreamsStep
  \/ WorkflowStep
recordsVars == <<subject, vars, facts, assetsVars, streamsVars, evidenceVars>>
RecordsSpec == RecordsInit /\ [][RecordsNext]_recordsVars

-----------------------------------------------------------------------------
\* The components' properties, of the subject.
ViewsAgree == subject = "views" => Views!ViewsAgree
AnswersStand == subject = "assets" => Assets!AnswersStand
StreamsAccountForLoss == subject = "streams" => Streams!StreamsAccountForLoss
AdmittedEvidenceStands == subject = "evidence" => (Workflow!TypeOK /\ Workflow!AdmittedEvidenceStands)
CutOffAdmissionResumes == subject = "evidence" => Workflow!CutOffAdmissionResumes
RefusedOnlyByNews == subject = "evidence" => Workflow!RefusedOnlyByNews
HeldOutIsInert == [][subject = "views" => Views!HeldOutStep]_facts

=============================================================================
