----------------------------- MODULE GraphViews -----------------------------
(***************************************************************************)
(* What graph memory answers from its facts: the curriculum query of the    *)
(* local cache (graph_memory/cache.py), the same query as FalkorDB evaluates*)
(* it (the Cypher text of graph_memory/falkordb.py), and the operational    *)
(* projection the API shows.  Facts are recorded one at a time, each after  *)
(* the facts it refers to.                                                  *)
(*                                                                         *)
(* Abstracted: a fact has only the attributes the answers depend on, a      *)
(* lesson's signature, kind and summary are one value, and the limit of a   *)
(* query is not reached.  Policy comparisons are left out: the query does    *)
(* not read them and the projection shows them as it shows policies.        *)
(***************************************************************************)
EXTENDS Naturals, FiniteSets, FiniteSetsExt

CONSTANTS Universe,  \* the facts that may be recorded
          None       \* no obstacle, no trained policy

VARIABLE facts

OfKind(kind) == {f \in facts : f.kind = kind}
Get(kind, id) == CHOOSE f \in facts : f.kind = kind /\ f.id = id
Has(kind, id) == \E f \in facts : f.kind = kind /\ f.id = id

\* Mutant: an episode's split is taken on trust.
SplitTrusted(f) == TRUE
SplitAgrees(f) == Get("world", f.world).split = f.split

\* _validate_references
References(f) ==
  CASE f.kind = "obstacle" -> Has("world", f.world)
    [] f.kind = "episode" ->
         /\ Has("world", f.world) /\ SplitAgrees(f)
         /\ Has("policy", f.policy)
    [] f.kind = "failure" ->
         /\ Has("episode", f.episode)
         /\ f.obstacle # None =>
              /\ Has("obstacle", f.obstacle)
              /\ Get("obstacle", f.obstacle).world = Get("episode", f.episode).world
    [] f.kind = "correction" -> Has("failure", f.failure)
    [] f.kind = "lesson" -> Has("correction", f.correction)
    [] f.kind = "training" -> Has("lesson", f.lesson) /\ Has("policy", f.policy)
    [] OTHER -> TRUE

Init == facts = {}

Record(f) ==
  /\ f \notin facts
  /\ References(f)
  /\ facts' = facts \cup {f}

Next == \E f \in Universe : Record(f)

Spec == Init /\ [][Next]_facts

-----------------------------------------------------------------------------
CategoriesOf(kind) == {f.category : f \in {g \in Universe : g.kind = kind}}
PolicyIds == {f.id : f \in {g \in Universe : g.kind = "policy"}}
Queries == [failures : SUBSET CategoriesOf("failure"),
            obstacles : SUBSET CategoriesOf("obstacle"),
            exclude : SUBSET PolicyIds]
Unfiltered == [failures |-> {}, obstacles |-> {}, exclude |-> {}]

\* The traversal from a lesson back to the episode it was learned from.
Failure(l) == Get("failure", Get("correction", l.correction).failure)
Episode(l) == Get("episode", Failure(l).episode)
Obstacle(l) ==
  IF Failure(l).obstacle = None THEN None
  ELSE Get("obstacle", Failure(l).obstacle).category
Trained(l) == {t.policy : t \in {u \in OfKind("training") : u.lesson = l.id}}

\* Mutants: the split, or the approval, is not asked for.
EligibleAnySplit(l) == Get("correction", l.correction).approved
EligibleUnapproved(l) == Episode(l).split = "training"
Eligible(l) ==
  /\ Get("correction", l.correction).approved
  /\ Episode(l).split = "training"

Wanted(l, q) ==
  /\ q.failures # {} => Failure(l).category \in q.failures
  /\ q.obstacles # {} => Obstacle(l) \in q.obstacles

Curriculum == {l \in OfKind("lesson") : Eligible(l)}

\* A row is a lesson with one of the policies trained with it.
LocalRows(q) ==
  {row \in Curriculum \X (PolicyIds \cup {None}) :
     /\ Wanted(row[1], q)
     /\ IF Trained(row[1]) = {} THEN row[2] = None ELSE row[2] \in Trained(row[1]) \ q.exclude}

\* OPTIONAL MATCH (lesson)-[:TRAINED_INTO]->(trained_policy) WHERE ...: the whole
\* WHERE belongs to the optional pattern and filters its matches, not the rows.
Matched(l, q) == IF Wanted(l, q) THEN Trained(l) \ q.exclude ELSE {}
\* Mutant: MATCH instead of OPTIONAL MATCH.
RemoteRowsMatched(q) ==
  {row \in Curriculum \X PolicyIds : row[2] \in Matched(row[1], q)}
RemoteRows(q) ==
  {row \in Curriculum \X (PolicyIds \cup {None}) :
     IF Matched(row[1], q) = {} THEN row[2] = None ELSE row[2] \in Matched(row[1], q)}

\* Rows are grouped by signature, categories and trained policy.
Key(row) == <<row[1].signature, Failure(row[1]).category, Obstacle(row[1]), row[2]>>
Group(rows, row) == {r[1] : r \in {s \in rows : Key(s) = Key(row)}}
Answer(rows) ==
  {[lesson |-> Min({l.id : l \in Group(rows, row)}),
    sources |-> {Episode(l).id : l \in Group(rows, row)},
    trained |-> row[2]] : row \in rows}

LocalCurriculum(q) == Answer(LocalRows(q))
RemoteCurriculum(q) == Answer(RemoteRows(q))

-----------------------------------------------------------------------------
\* operational_events
TrainingWorlds == {w.id : w \in {x \in OfKind("world") : x.split = "training"}}
ShownEpisodes == {e.id : e \in {x \in OfKind("episode") :
                    x.split = "training" /\ x.world \in TrainingWorlds}}
ShownFailures == {f.id : f \in {x \in OfKind("failure") : x.episode \in ShownEpisodes}}
ShownCorrections ==
  {c.id : c \in {x \in OfKind("correction") : x.failure \in ShownFailures}}

\* Mutant: a lesson is shown whatever it was learned from.
ShownLessonAlways(f) == f.kind = "lesson"
ShownLesson(f) == f.kind = "lesson" /\ f.correction \in ShownCorrections

Operational ==
  {f \in facts :
     \/ f.kind = "world" /\ f.id \in TrainingWorlds
     \/ f.kind = "obstacle" /\ f.world \in TrainingWorlds
     \/ f.kind = "episode" /\ f.id \in ShownEpisodes
     \/ f.kind = "failure" /\ f.id \in ShownFailures
     \/ f.kind = "correction" /\ f.id \in ShownCorrections
     \/ ShownLesson(f)
     \/ f.kind = "policy"}

-----------------------------------------------------------------------------
\* Whichever store answers, and whatever is asked, a curriculum comes from
\* approved corrections of training episodes only.
TrainingOnly ==
  \A q \in Queries : \A a \in LocalCurriculum(q) \cup RemoteCurriculum(q) :
    /\ \A e \in a.sources : Get("episode", e).split = "training"
    /\ Get("correction", Get("lesson", a.lesson).correction).approved

\* Asked without filters, as training lineage does, FalkorDB and the local cache
\* answer the same, so an outage does not change which lessons are linked.
StoresAgree == LocalCurriculum(Unfiltered) = RemoteCurriculum(Unfiltered)

\* The operational projection shows no held-out world and nothing learned in one,
\* and everything a shown fact refers to is shown with it.
ShownIds(kind) == {f.id : f \in {g \in Operational : g.kind = kind}}
ProjectionClosed ==
  /\ \A f \in Operational : f.kind \in {"world", "episode"} => f.split = "training"
  /\ \A f \in Operational :
       CASE f.kind = "obstacle" -> f.world \in ShownIds("world")
         [] f.kind = "episode" ->
              f.world \in ShownIds("world") /\ f.policy \in ShownIds("policy")
         [] f.kind = "failure" ->
              /\ f.episode \in ShownIds("episode")
              /\ f.obstacle # None => f.obstacle \in ShownIds("obstacle")
         [] f.kind = "correction" -> f.failure \in ShownIds("failure")
         [] f.kind = "lesson" -> f.correction \in ShownIds("correction")
         [] OTHER -> TRUE

\* Recording held-out experience, at any moment, changes no curriculum answer.
HeldOutWorlds == {w.id : w \in {x \in Universe : x.kind = "world" /\ x.split = "held_out"}}
HeldOutEpisodes == {e.id : e \in {x \in Universe : x.kind = "episode" /\ x.world \in HeldOutWorlds}}
HeldOutFailures == {f.id : f \in {x \in Universe : x.kind = "failure" /\ x.episode \in HeldOutEpisodes}}
HeldOutCorrections ==
  {c.id : c \in {x \in Universe : x.kind = "correction" /\ x.failure \in HeldOutFailures}}
IsHeldOut(f) ==
  \/ f.kind = "world" /\ f.id \in HeldOutWorlds
  \/ f.kind = "episode" /\ f.id \in HeldOutEpisodes
  \/ f.kind = "failure" /\ f.id \in HeldOutFailures
  \/ f.kind = "correction" /\ f.id \in HeldOutCorrections
  \/ f.kind = "lesson" /\ f.correction \in HeldOutCorrections
HeldOutStep ==
  (\A f \in facts' \ facts : IsHeldOut(f)) =>
    \A q \in Queries : /\ LocalCurriculum(q)' = LocalCurriculum(q)
                       /\ RemoteCurriculum(q)' = RemoteCurriculum(q)
HeldOutIsInert == [][HeldOutStep]_facts

\* What clients, and the next training, are shown of the facts.
ViewsAgree == TrainingOnly /\ StoresAgree /\ ProjectionClosed
=============================================================================
