---------------------------- MODULE MCSideBySide ----------------------------
(* Small instances of the components of SideBySide.                        *)
EXTENDS SideBySide, TLC

\* What a training child may leave: all of it, another job's policy, no
\* checkpoint, or nothing in time.
AllLeft == [code |-> "zero", both |-> TRUE, policy |-> "j1", checkpoint |-> TRUE,
            dataset |-> TRUE, metrics |-> TRUE]
SomeOutputs == {AllLeft, [AllLeft EXCEPT !.policy = "j2"], [AllLeft EXCEPT !.checkpoint = FALSE],
                [AllLeft EXCEPT !.code = "timeout", !.both = FALSE]}

\* Walking, too close to an obstacle, at the door, there in each wrong way, a
\* fall, and contacts with one or two obstacles. Measures are their distance
\* from the criterion's threshold.
Walking == [distance |-> 1, speed |-> 1, facing |-> -1, fallen |-> FALSE, contacts |-> {},
            clearance |-> 1, tilt |-> -1, slipped |-> FALSE]
AtDoor == [Walking EXCEPT !.distance = 0, !.speed = 0]
SomeSituations ==
  {Walking, [Walking EXCEPT !.distance = -1], AtDoor, [AtDoor EXCEPT !.facing = 1],
   [AtDoor EXCEPT !.facing = None], [AtDoor EXCEPT !.clearance = 0],
   [Walking EXCEPT !.fallen = TRUE, !.distance = 0],
   [Walking EXCEPT !.contacts = {"a"}, !.clearance = -1],
   [AtDoor EXCEPT !.contacts = {"a", "b"}], [AtDoor EXCEPT !.tilt = 0],
   [Walking EXCEPT !.slipped = TRUE], [AtDoor EXCEPT !.clearance = -1]}

SomeForwards == {-3, 0, 5}
SomeTurnings == {-2, 0, 4}

\* Reviewed trust roots: sound, without an improvement, with a seed of
\* training's, with another policy's run, with a verdict that is not the
\* measured one, and with successes that were not measured.
TwoSeeds == <<7, 8>>
SuccessesOf == [c1 |-> {1, 2}, c2 |-> {1}, direct |-> {1}]
CheckpointOf(policy) == [policy |-> policy, dataset |-> "d1"]
LOCAL HeldOutData ==
  INSTANCE HeldOutAccess WITH files <- trustedFiles, Missing <- None, Roots <- {}, Trained <- {}
Sound == HeldOutData!Evidence(CheckpointOf("c1"))
Poor == [Sound EXCEPT !.candidate = [i \in 1..2 |->
                        [Sound.candidate[i] EXCEPT !.measured = FALSE, !.success = FALSE]]]
RootOf(measured) ==
  [lock |-> [evidence |-> measured, checkpoint |-> CheckpointOf("c1"), dataset |-> "d1",
             training |-> [dataset |-> "d1", policy |-> "c1"], round1 |-> "r1",
             policy |-> "c1", count |-> 2, robot |-> Robot, eligible |-> measured.eligible],
   evidence |-> measured, checkpoint |-> CheckpointOf("c1"), dataset |-> "d1",
   training |-> [dataset |-> "d1", policy |-> "c1"], round1 |-> "r1",
   bundle |-> [id |-> "w1", sound |-> TRUE]]
ReviewedRoots ==
  {RootOf(e) : e \in
     {Sound, Poor,
      [Sound EXCEPT !.candidate[2].seed = 5, !.seeds[2] = 5, !.baseline[2].seed = 5],
      [Sound EXCEPT !.candidate[2].policy = "c2"],
      [Poor EXCEPT !.preview = FALSE, !.eligible = FALSE],
      [Poor EXCEPT !.candidate[1].success = TRUE, !.candidate[2].success = TRUE]}}
Trainings ==
  {{<<"checkpoint", CheckpointOf(c)>>, <<"training", [dataset |-> "d1", policy |-> c]>>} :
     c \in {"c1", "c2"}}

TwoRoots == <<"coordinator", "graph">>

\* Every controller passes, those of the second checkpoints drift or measure
\* nothing finite, or only the last one passes.
SomeOutcomes ==
  LET made == (1..2) \X {1, 2}
  IN  {[c \in made |-> {}],
       [c \in made |-> IF c[2] = 2 THEN {"drifts"} ELSE {}],
       [c \in made |-> IF c[2] = 2 THEN {"not finite"} ELSE {}],
       [c \in made |-> IF c = <<2, 2>> THEN {} ELSE {"drifts", "not finite"}]}

\* Diagonals of the room, and objects about its middle, one of them a wall.
Corners == {<< <<2, 2>>, <<10, 6>> >>, << <<2, 6>>, <<10, 2>> >>}
SomeFootprints == {<<0, 1>>, <<1, 1>>, <<0, 2>>}
Middle == {5, 6} \X {2, 3, 4, 6}

=============================================================================
