-------------------------- MODULE WorkflowEvidence --------------------------
(***************************************************************************)
(* Where the facts a policy is promoted on come from.                      *)
(*                                                                         *)
(* At startup the backend may admit one measured held-out comparison       *)
(* (backend/evaluation_import.py): a row for the artifact, the baseline's  *)
(* and the candidate's checkpoint, and per result an episode, its          *)
(* transitions and the result, each in a transaction of its own.  The      *)
(* process may die between any two and be started again with the same or   *)
(* another configuration.                                                  *)
(*                                                                         *)
(* While it serves, worker threads close source episodes and humans        *)
(* approve lessons.  A client asks for the workflow's evidence, reviews    *)
(* the workflow with it, and the review admits it only if it equals the    *)
(* facts reproduced now (backend/evidence_admission.py), again in several  *)
(* transactions; the pipeline's callbacks then write the policy's lineage  *)
(* and its comparison into graph memory (backend/rocketride_callback.py).  *)
(***************************************************************************)
EXTENDS Integers, FiniteSets, FiniteSetsExt, Sequences

CONSTANTS Configs,       \* what MM_HELDOUT_* may say: [artifact, time]
          Comparison,    \* [artifact -> [candidate, promotable, passed, rates, faults]]
          Worlds,        \* held-out worlds, each run by both policies
          Baseline,      \* the deterministic direct-goal policy
          Sources,       \* source episodes of the baseline: [episode -> failure categories]
          Lessons,       \* [lesson -> [episode, category, obstacle]], an integer each, each
                         \* learned from the correction of a failure of its own
          Plan,          \* the reviewed plan: [episode, candidate, action]
          EvidenceIds,   \* evidence ids a client gives the three parts: [kind -> id]
          MaxBoots,      \* bound on startups
          None

VARIABLES store,         \* the coordinator's rows about held-out evaluation
          server,        \* "down", "serving", or the admission under way
          boots,         \* startups so far
          tried,         \* history: configurations a startup has begun to admit
          closed,        \* source episodes closed, in order
          handedOver,    \* those whose graph handoff is complete
          approved,      \* lessons approved into graph memory
          client,        \* the client's evidence and its review request
          references,    \* provider evidence: [id -> content, and (history) the facts of
                         \* the review that recorded it]
          bundle,        \* the workflow's admitted evidence
          decision,      \* the numeric decision: None, "recorded" or "refused"
          lineage        \* graph memory's edges about the candidate

vars == <<store, server, boots, tried, closed, handedOver, approved, client, references, bundle,
          decision, lineage>>

Artifacts == DOMAIN Comparison
Candidates == {Comparison[a].candidate : a \in Artifacts}
Policies == Candidates \cup {Baseline}
Times == {c.time : c \in Configs}
Roles == {"baseline", "candidate"}

\* Episode ids name the candidate's checkpoint, the role and the world, so
\* two artifacts of one candidate share them.
Runs == Candidates \X Roles \X Worlds
RunsOf(a) == {r \in Runs : r[1] = Comparison[a].candidate}
Passed(a, r) == <<r[2], r[3]>> \in Comparison[a].passed
States == {"absent", "created", "running", "succeeded", "failed"}
Kinds == {"world", "curriculum", "evaluation"}

-----------------------------------------------------------------------------
(* The admission of a held-out comparison.                                 *)

\* What is verified of an artifact before anything is written: its canonical
\* hash, its fields, the frozen bundle, the shape of its results, the frozen
\* pairs, each canonical outcome, the baseline's and the checkpoint's
\* identity and the recomputed decision.
Checks == {"hash", "fields", "bundle", "results", "pairs", "outcomes", "baseline", "checkpoint",
           "decision"}
FrozenPairs(a) == "pairs" \notin Comparison[a].faults
Verified(a) == FrozenPairs(a) /\ Comparison[a].faults \cap Checks = {}

Rows == [artifacts : [Artifacts -> Times \cup {None}],
         checkpoints : [Policies -> Configs \cup {None}],
         episodes : [Runs -> [state : States, at : Times \cup {None}]],
         results : [Runs -> Artifacts \cup {None}],
         alias : BOOLEAN]

\* Results in the artifact's order: the baseline's, then the candidate's.
Order(a) ==
  LET rank == [r \in RunsOf(a) |-> IF r[2] = "baseline" THEN 0 ELSE Cardinality(Worlds)]
      Before(r, s) == rank[r] < rank[s] \/ (rank[r] = rank[s] /\ r[3] < s[3])
  IN  [i \in 1..Cardinality(RunsOf(a)) |->
         CHOOSE r \in RunsOf(a) : Cardinality({s \in RunsOf(a) : Before(s, r)}) = i - 1]

\* A transaction: the rows it leaves, and whether it raised.
Done(rows) == [rows |-> rows, raised |-> FALSE]
Raises(rows) == [rows |-> rows, raised |-> TRUE]

\* record_held_out_evaluation_artifact: the time is part of the content.
RecordArtifact(rows, c) ==
  IF rows.artifacts[c.artifact] \notin {None, c.time} THEN Raises(rows)
  ELSE Done([rows EXCEPT !.artifacts[c.artifact] = c.time])

\* _register_or_verify_checkpoint: the first comparison binds the baseline.
RegisterBaseline(rows, c) ==
  IF rows.checkpoints[Baseline] # None THEN Done(rows)
  ELSE Done([rows EXCEPT !.checkpoints[Baseline] = c])

\* register_evaluated_checkpoint: a candidate is bound once, to one artifact
\* and time.
RegisterCandidate(rows, c) ==
  LET p == Comparison[c.artifact].candidate
  IN  IF rows.checkpoints[p] \notin {None, c} THEN Raises(rows)
      ELSE Done([rows EXCEPT !.checkpoints[p] = c])

RegisterRun(rows, c, r) ==
  IF rows.episodes[r].state = "absent"
  THEN Done([rows EXCEPT !.episodes[r] = [state |-> "created", at |-> c.time]])
  ELSE IF rows.episodes[r].at # c.time THEN Raises(rows) ELSE Done(rows)

StartRun(rows, c, r) ==
  Done(IF rows.episodes[r].state = "created"
       THEN [rows EXCEPT !.episodes[r].state = "running"] ELSE rows)

\* Mutant: a run that has already ended is not accepted.
EndRunOnce(rows, c, r) ==
  IF rows.episodes[r].state = "running"
  THEN Done([rows EXCEPT !.episodes[r].state = IF Passed(c.artifact, r) THEN "succeeded" ELSE "failed"])
  ELSE Raises(rows)
EndRun(rows, c, r) ==
  LET terminal == IF Passed(c.artifact, r) THEN "succeeded" ELSE "failed"
  IN  IF rows.episodes[r].state = "running"
      THEN Done([rows EXCEPT !.episodes[r].state = terminal])
      ELSE IF rows.episodes[r].state = terminal THEN Done(rows) ELSE Raises(rows)

RecordResult(rows, c, r) ==
  LET expected == IF Passed(c.artifact, r) THEN "succeeded" ELSE "failed"
  IN  IF \/ rows.artifacts[c.artifact] = None
         \/ rows.episodes[r].state # expected
         \/ rows.results[r] \notin {None, c.artifact}
      THEN Raises(rows)
      ELSE Done([rows EXCEPT !.results[r] = c.artifact])

InitializeAlias(rows) == Done([rows EXCEPT !.alias = TRUE])

\* admit_held_out_evaluation: its transactions in order, by number.
Last(c) == 3 + 4 * Cardinality(RunsOf(c.artifact))
Transaction(rows, c, n) ==
  CASE n = 0 -> RecordArtifact(rows, c)
    [] n = 1 -> RegisterBaseline(rows, c)
    [] n = 2 -> RegisterCandidate(rows, c)
    [] n = Last(c) -> InitializeAlias(rows)
    [] OTHER ->
       LET r == Order(c.artifact)[1 + (n - 3) \div 4]
       IN  CASE (n - 3) % 4 = 0 -> RegisterRun(rows, c, r)
             [] (n - 3) % 4 = 1 -> StartRun(rows, c, r)
             [] (n - 3) % 4 = 2 -> EndRun(rows, c, r)
             [] OTHER -> RecordResult(rows, c, r)

-----------------------------------------------------------------------------
(* Reproducing the evidence of the plan.                                   *)

EpisodesOf(done) == {done[i] : i \in DOMAIN done}
ClosedSet == EpisodesOf(closed)

\* Failure categories of at least two closed source episodes.
EpisodesWith(done, category) == {e \in EpisodesOf(done) : category \in Sources[e]}
Recurring(done) ==
  {k \in UNION {Sources[e] : e \in EpisodesOf(done)} : Cardinality(EpisodesWith(done, k)) >= 2}

\* query_curriculum answers one lesson per group: the least id of those with
\* the same failure, obstacle and training.
Group(l) == <<Lessons[l].category, Lessons[l].obstacle, l \in lineage.trained>>
Curriculum(known, categories) ==
  {l \in known : /\ Lessons[l].category \in categories
                 /\ \A m \in known : Group(m) = Group(l) => l <= m}

\* The recurring failures of the episodes done, each with its episodes, the
\* approved corrections of its failures (named by their lessons) and the
\* lessons the query answers.  An approval is on record and its lesson in graph
\* memory in one step here; CorrectionReview takes the two apart.
CurriculumEvidence(done, known) ==
  [k \in Recurring(done) |->
     [episodes |-> EpisodesWith(done, k),
      corrections |-> {l \in known : Lessons[l].category = k
                                       /\ Lessons[l].episode \in EpisodesWith(done, k)},
      lessons |-> {l \in Curriculum(known, Recurring(done)) : Lessons[l].category = k}]]

\* Mutant: the results behind the comparison are not asked for.
CompleteOnRecord(p) ==
  /\ store.checkpoints[p] # None /\ store.checkpoints[Baseline] # None
  /\ store.artifacts[store.checkpoints[p].artifact] # None
\* _evaluation_evidence: every result of the one artifact the candidate is
\* bound to, stored and finished, and the planned action is the gate's.
Complete(p) ==
  /\ store.checkpoints[p] # None /\ store.checkpoints[Baseline] # None
  /\ LET a == store.checkpoints[p].artifact
     IN  /\ store.artifacts[a] # None
         /\ Cardinality({r \in Runs : store.results[r] = a}) = 2 * Cardinality(Worlds)
         /\ \A r \in RunsOf(a) : store.results[r] = a
                                 /\ store.episodes[r].state \in {"succeeded", "failed"}
GateAction(a) == IF Comparison[a].promotable THEN "promote" ELSE "roll_back"
EvaluationReproducible ==
  Complete(Plan.candidate)
    /\ Plan.action = GateAction(store.checkpoints[Plan.candidate].artifact)

\* EvidenceAdmitter.reproduce, and whether it raises.
Reproducible ==
  /\ Plan.episode \in ClosedSet \cap handedOver
  /\ Recurring(closed) # {} /\ EvaluationReproducible
Reproduced(ids) ==
  [ids |-> ids, world |-> Plan.episode, curriculum |-> CurriculumEvidence(closed, approved),
   evaluation |-> store.checkpoints[Plan.candidate].artifact]

Part(b, kind) ==
  CASE kind = "world" -> b.world
    [] kind = "curriculum" -> b.curriculum
    [] OTHER -> b.evaluation
\* Mutant: every part is observed at the last closure.
ReferenceNow(b, kind, at) == [kind |-> kind, part |-> Part(b, kind), at |-> at]
\* What record_provider_evidence stores of a part: its kind, its digest and
\* the time it was observed, which for the curriculum is the last closure's
\* and is read after the comparison.
Reference(b, kind, at) ==
  [kind |-> kind, part |-> Part(b, kind),
   at |-> CASE kind = "world" -> CHOOSE i \in DOMAIN closed : closed[i] = b.world
            [] kind = "curriculum" -> at
            [] OTHER -> Max({store.checkpoints[Plan.candidate].time,
                             store.checkpoints[Baseline].time})]
Conflicts(kept, ref) == kept.kind # ref.kind \/ kept.part # ref.part \/ kept.at # ref.at

\* validate_evidence_plan_binding.
Bound(b) ==
  /\ b.world = Plan.episode
  /\ Comparison[b.evaluation].candidate = Plan.candidate
  /\ GateAction(b.evaluation) = Plan.action

\* admitted_promotion_evidence: the paired artifact behind the candidate's
\* checkpoint, with every result stored as the artifact has it.
PromotionEvidence(b) ==
  LET a == store.checkpoints[Plan.candidate].artifact
  IN  /\ store.artifacts[a] # None /\ b.evaluation = a
      /\ \A r \in RunsOf(a) : store.results[r] = a

\* _validate_numeric_decision_evidence: the store checks the decision against
\* the bundle again, and each checkpoint's own metrics against the evidence;
\* the baseline's are those of the comparison that registered it.
ValidDecision(b) ==
  /\ Bound(b)
  /\ store.checkpoints[Plan.candidate].artifact = b.evaluation
  /\ Comparison[store.checkpoints[Baseline].artifact].rates = Comparison[b.evaluation].rates

LessonsIn(b) == UNION {b.curriculum[k].lessons : k \in DOMAIN b.curriculum}

-----------------------------------------------------------------------------
\* What the curriculum is reproduced from.
FactsNow == [closed |-> closed, approved |-> approved]
NoFacts == [closed |-> <<>>, approved |-> {}]
\* The client's request; facts is history: those of its review.
Idle == [stage |-> "idle", bundle |-> None, observed |-> 0, next |-> 0, facts |-> NoFacts]

TypeOK ==
  /\ store \in Rows
  /\ server \in [state : {"down", "serving"}]
                  \cup [state : {"refused"}, because : {"settings", "artifact", "rows"}]
                  \cup [state : {"admitting"}, config : Configs, next : Nat]
  /\ boots \in 0..MaxBoots /\ tried \subseteq Configs
  /\ handedOver \subseteq ClosedSet /\ ClosedSet \subseteq DOMAIN Sources
  /\ approved \subseteq DOMAIN Lessons
  /\ client.stage \in {"idle", "holding", "matched", "recording", "refused"}
  /\ DOMAIN references \subseteq {ids[k] : ids \in EvidenceIds, k \in Kinds}
  /\ decision \in {None, "recorded", "refused"}
  /\ lineage.trained \subseteq DOMAIN Lessons

Init ==
  /\ store = [artifacts |-> [a \in Artifacts |-> None],
              checkpoints |-> [p \in Policies |-> None],
              episodes |-> [r \in Runs |-> [state |-> "absent", at |-> None]],
              results |-> [r \in Runs |-> None], alias |-> FALSE]
  /\ server = [state |-> "down"] /\ boots = 0 /\ tried = {}
  /\ closed = <<>> /\ handedOver = {} /\ approved = {}
  /\ client = Idle /\ references = <<>> /\ bundle = None /\ decision = None
  /\ lineage = [trained |-> {}, evaluated |-> FALSE, outperformed |-> FALSE]

\* Startup with a held-out configuration, with none, or with a part of one,
\* which fails closed; an artifact is verified before anything is written.
Start ==
  /\ server.state \in {"down", "refused"} /\ boots < MaxBoots
  /\ boots' = boots + 1
  /\ \/ \E c \in Configs :
          IF Verified(c.artifact)
          THEN /\ server' = [state |-> "admitting", config |-> c, next |-> 0]
               /\ tried' = tried \cup {c}
          ELSE server' = [state |-> "refused", because |-> "artifact"] /\ tried' = tried
     \/ server' = [state |-> "refused", because |-> "settings"] /\ tried' = tried
     \/ server' = [state |-> "serving"] /\ tried' = tried
  /\ UNCHANGED <<store, closed, handedOver, approved, client, references, bundle, decision, lineage>>

\* The next transaction of the admission; the last one, or none raised, and
\* the process serves; a refusal ends it.
Admit ==
  /\ server.state = "admitting"
  /\ LET tx == Transaction(store, server.config, server.next)
     IN  /\ store' = tx.rows
         /\ server' = IF tx.raised THEN [state |-> "refused", because |-> "rows"]
                      ELSE IF server.next = Last(server.config) THEN [state |-> "serving"]
                      ELSE [server EXCEPT !.next = @ + 1]
  /\ UNCHANGED <<boots, tried, closed, handedOver, approved, client, references, bundle, decision, lineage>>

\* The process dies; a request in progress is lost, the client's evidence is not.
Crash ==
  /\ server.state \in {"admitting", "serving"}
  /\ server' = [state |-> "down"]
  /\ client' = IF client.stage \in {"matched", "recording"}
               THEN [Idle EXCEPT !.stage = "holding", !.bundle = client.bundle] ELSE client
  /\ UNCHANGED <<store, boots, tried, closed, handedOver, approved, references, bundle, decision, lineage>>

Serving == server.state = "serving"

\* A live worker closes a source episode of the evaluated baseline.
CloseSource ==
  /\ Serving /\ store.checkpoints[Baseline] # None
  /\ \E e \in DOMAIN Sources \ ClosedSet : closed' = Append(closed, e)
  /\ UNCHANGED <<store, server, boots, tried, handedOver, approved, client, references, bundle, decision, lineage>>

\* ... and then writes it into graph memory; what is cut off or fails there,
\* startup and the reconciliation with the providers try again.  Whether it is
\* there is asked of the planned episode only.
HandOver ==
  /\ Serving
  /\ \E e \in (ClosedSet \cap {Plan.episode}) \ handedOver : handedOver' = handedOver \cup {e}
  /\ UNCHANGED <<store, server, boots, tried, closed, approved, client, references, bundle, decision, lineage>>

\* A human approves a correction; its lesson enters graph memory.
ApproveLesson ==
  /\ Serving
  /\ \E l \in DOMAIN Lessons \ approved :
       Lessons[l].episode \in ClosedSet /\ approved' = approved \cup {l}
  /\ UNCHANGED <<store, server, boots, tried, closed, handedOver, client, references, bundle, decision, lineage>>

\* The client takes the evidence reproduced for it, under ids it chooses.
Reproduce ==
  /\ Serving /\ bundle = None
  /\ client.stage \in {"idle", "holding", "refused"} /\ Reproducible
  /\ \E ids \in EvidenceIds : client' = [Idle EXCEPT !.stage = "holding", !.bundle = Reproduced(ids)]
  /\ UNCHANGED <<store, server, boots, tried, closed, handedOver, approved, references, bundle, decision, lineage>>

\* review_workflow: admit compares the submitted bundle with the facts of now.
Review ==
  /\ Serving /\ client.stage = "holding" /\ bundle = None
  /\ client' = IF Reproducible /\ client.bundle = Reproduced(client.bundle.ids)
                       /\ Bound(client.bundle)
               THEN [client EXCEPT !.stage = "matched", !.facts = FactsNow] ELSE Idle
  /\ UNCHANGED <<store, server, boots, tried, closed, handedOver, approved, references, bundle, decision, lineage>>

\* ... then reads the observation times, which worker threads may have moved.
Observe ==
  /\ client.stage = "matched"
  /\ client' = [client EXCEPT !.stage = "recording", !.observed = Len(closed), !.next = 1]
  /\ UNCHANGED <<store, server, boots, tried, closed, handedOver, approved, references, bundle, decision, lineage>>

\* ... and records the three references, each immutable under its id.
KindAt(n) == <<"world", "curriculum", "evaluation">>[n]
RecordReference ==
  /\ client.stage = "recording" /\ client.next <= 3
  /\ LET kind == KindAt(client.next)
         id == client.bundle.ids[kind]
         ref == Reference(client.bundle, kind, client.observed)
     IN  IF id \in DOMAIN references
         THEN /\ client' = IF Conflicts(references[id].content, ref)
                           THEN [client EXCEPT !.stage = "refused"]
                           ELSE [client EXCEPT !.next = @ + 1]
              /\ UNCHANGED references
         ELSE /\ references' = [i \in DOMAIN references \cup {id} |->
                                  IF i = id THEN [content |-> ref, facts |-> client.facts]
                                  ELSE references[i]]
              /\ client' = [client EXCEPT !.next = @ + 1]
  /\ UNCHANGED <<store, server, boots, tried, closed, handedOver, approved, bundle, decision, lineage>>

\* record_workflow_guild_evidence: the bundle, with its references checked.
RecordBundle ==
  /\ client.stage = "recording" /\ client.next = 4 /\ Bound(client.bundle)
  /\ \A kind \in Kinds :
       LET id == client.bundle.ids[kind]
       IN  /\ id \in DOMAIN references /\ references[id].content.kind = kind
           /\ references[id].content.part = Part(client.bundle, kind)
  /\ bundle' = client.bundle
  /\ client' = Idle
  /\ UNCHANGED <<store, server, boots, tried, closed, handedOver, approved, references, decision, lineage>>

\* The review ends with the numeric decision, recomputed from the admitted
\* artifact and checked once more by the store in its transaction.
RecordDecision ==
  /\ Serving /\ bundle # None /\ decision = None
  /\ decision' = IF PromotionEvidence(bundle) /\ ValidDecision(bundle) THEN "recorded" ELSE "refused"
  /\ store' = [store EXCEPT !.alias = TRUE]
  /\ UNCHANGED <<server, boots, tried, closed, handedOver, approved, client, references, bundle, lineage>>

\* The training callback links the admitted lessons the curriculum query
\* answers now (record_policy_lineage).
TrainCandidate ==
  /\ Serving /\ bundle # None /\ ~lineage.evaluated
  /\ lineage' = [lineage EXCEPT !.trained =
                   @ \cup (LessonsIn(bundle)
                            \cap Curriculum(approved, {Lessons[l].category : l \in DOMAIN Lessons}))]
  /\ UNCHANGED <<store, server, boots, tried, closed, handedOver, approved, client, references, bundle, decision>>

\* The evaluation callback checks both checkpoints against the bundle and
\* writes the comparison, and the outperformance if the action is to promote.
EvaluateCandidate ==
  /\ Serving /\ bundle # None /\ ~lineage.evaluated
  /\ store.checkpoints[Baseline] # None
  /\ store.checkpoints[Plan.candidate].artifact = bundle.evaluation
  /\ lineage' = [lineage EXCEPT !.evaluated = TRUE, !.outperformed = (Plan.action = "promote")]
  /\ UNCHANGED <<store, server, boots, tried, closed, handedOver, approved, client, references, bundle, decision>>

Next ==
  \/ Start \/ Admit \/ Crash
  \/ CloseSource \/ HandOver \/ ApproveLesson
  \/ Reproduce \/ Review \/ Observe \/ RecordReference \/ RecordBundle \/ RecordDecision
  \/ TrainCandidate \/ EvaluateCandidate

Spec == Init /\ [][Next]_vars

-----------------------------------------------------------------------------
\* Admitted evidence stays backed: whatever startups admit or are cut off
\* later, the candidate's one artifact has every result stored, each equal to
\* what the artifact says, and the planned action is its gate's, so the
\* numeric decision, whenever it is recomputed, is never refused
\* (backend/policy_decisions.py:46).
EvidenceStaysBacked ==
  bundle # None =>
    LET a == bundle.evaluation
    IN  /\ decision # "refused"
        /\ store.checkpoints[Plan.candidate].artifact = a
        /\ Plan.action = GateAction(a)
        /\ \A r \in RunsOf(a) :
             /\ store.results[r] = a
             /\ store.episodes[r].state = IF Passed(a, r) THEN "succeeded" ELSE "failed"

\* An admission cut off at any transaction never blocks itself: startup is
\* refused only after another configuration of the same artifact or of the
\* same candidate was tried, and what fails a check leaves no row behind
\* (backend/evaluation_import.py:79).
CutOffAdmissionResumes ==
  /\ \A a \in Artifacts : store.artifacts[a] # None => Verified(a)
  /\ server = [state |-> "refused", because |-> "rows"] =>
    \E c \in tried, d \in tried :
      /\ c # d
      /\ Comparison[c.artifact].candidate = Comparison[d.artifact].candidate

\* A source episode was closed since the facts were read, or a correction of a
\* failure that recurs was approved.
NewsSince(facts) ==
  \/ facts.closed # closed
  \/ \E l \in approved \ facts.approved : Lessons[l].category \in Recurring(closed)

\* A review sent again, after a crash or a lost answer, is refused its reference
\* only because the client has given the id to another kind of evidence, or
\* because a source episode was closed or a correction of a recurring failure
\* approved since the review that recorded it; evidence whose facts did not
\* change is always admitted again (coordinator/store.py:1367).
RefusedOnlyByNews ==
  client.stage = "refused" =>
    LET kind == KindAt(client.next)
        kept == references[client.bundle.ids[kind]]
    IN  \/ kept.content.kind # kind
        \/ kind = "curriculum" /\ NewsSince(kept.facts)

\* Graph memory's account of the policy is the admitted one: it links only
\* approved lessons of the admitted evidence, and says that the candidate
\* outperforms the baseline only when the measured gate promotes it
\* (backend/rocketride_callback.py:450).
LineageTruthful ==
  /\ lineage.trained # {} => bundle # None /\ lineage.trained \subseteq LessonsIn(bundle) \cap approved
  /\ lineage.outperformed => Comparison[store.checkpoints[Plan.candidate].artifact].promotable

\* What the review admitted stays true of the stored rows, and graph memory
\* tells of the policy what was admitted (backend/evidence_admission.py:79,
\* backend/rocketride_callback.py:450).
AdmittedEvidenceStands == EvidenceStaysBacked /\ LineageTruthful
=============================================================================
