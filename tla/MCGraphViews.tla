---------------------------- MODULE MCGraphViews ----------------------------
(* Finite instance of GraphViews: two training episodes with one recurring    *)
(* failure, one of them near an obstacle, a held-out episode with the same    *)
(* failure, one mislabelled as training, an unapproved correction, and a      *)
(* policy trained with a lesson.                                              *)
EXTENDS GraphViews

World(id, split) == [kind |-> "world", id |-> id, split |-> split]
Policy(id) == [kind |-> "policy", id |-> id]
EpisodeIn(id, world, split) ==
  [kind |-> "episode", id |-> id, world |-> world, split |-> split, policy |-> 1]
FailureIn(id, episode, category, obstacle) ==
  [kind |-> "failure", id |-> id, episode |-> episode, category |-> category,
   obstacle |-> obstacle]
CorrectionOf(id, failure, approved) ==
  [kind |-> "correction", id |-> id, failure |-> failure, approved |-> approved]
LessonOf(id, correction) ==
  [kind |-> "lesson", id |-> id, correction |-> correction, signature |-> "slower"]
Training(id, lesson, policy) ==
  [kind |-> "training", id |-> id, lesson |-> lesson, policy |-> policy]

SmallUniverse ==
  {World(1, "training"), World(2, "held_out"), Policy(1),
   [kind |-> "obstacle", id |-> 1, world |-> 1, category |-> "box"],
   EpisodeIn(1, 1, "training"), EpisodeIn(2, 1, "training"),
   EpisodeIn(3, 2, "held_out"), EpisodeIn(4, 2, "training"),
   FailureIn(1, 1, "fall", None), FailureIn(2, 2, "fall", None),
   FailureIn(3, 3, "fall", None), FailureIn(4, 4, "fall", None),
   FailureIn(5, 2, "contact", 1),
   CorrectionOf(1, 1, TRUE), CorrectionOf(2, 2, TRUE), CorrectionOf(3, 3, TRUE),
   CorrectionOf(4, 4, TRUE), CorrectionOf(5, 5, TRUE), CorrectionOf(6, 5, FALSE),
   LessonOf(1, 1), LessonOf(2, 2), LessonOf(3, 3), LessonOf(4, 4), LessonOf(5, 5),
   LessonOf(6, 6),
   Training(1, 1, 1)}
=============================================================================
