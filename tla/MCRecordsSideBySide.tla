------------------------- MODULE MCRecordsSideBySide -------------------------
(* Small instances of the components of RecordsSideBySide; those of        *)
(* GraphMemory are MCGraphMemory's.                                        *)
EXTENDS RecordsSideBySide, MCGraphMemory

LOCAL ViewsData == INSTANCE MCGraphViews WITH Universe <- {}
SmallUniverse == ViewsData!SmallUniverse

\* Threads of the graph memory and callers of the assets are alike.
AlikeSymmetry == ThreadSymmetry \cup Permutations(Workers)

ConvexHull == [origin |-> "agent", uncertain |-> FALSE, convex |-> TRUE, prior |-> None,
               geometry |-> "a2"]
SomeProposals == {ConvexHull}

\* Two artifacts of the planned candidate, two evaluation times of one, and an
\* artifact that fails a check; one held-out world per policy, three source
\* episodes with a recurring failure and two lessons of one group.
Artifact(promotable, passed, faults) ==
  [candidate |-> "c1", promotable |-> promotable, passed |-> passed, rates |-> "r", faults |-> faults]
ThreeArtifacts == [a1 |-> Artifact(TRUE, {<<"candidate", 1>>}, {}),
                   a2 |-> Artifact(FALSE, {<<"baseline", 1>>}, {}),
                   a3 |-> Artifact(TRUE, {}, {"outcomes"})]
FourConfigs == {[artifact |-> "a1", time |-> 1], [artifact |-> "a1", time |-> 2],
                [artifact |-> "a2", time |-> 1], [artifact |-> "a3", time |-> 1]}
ThreeSources == [e1 |-> {"collision"}, e2 |-> {"collision"}, e3 |-> {"fall"}]
TwoLessons == [l \in {1, 2} |-> [episode |-> IF l = 1 THEN "e1" ELSE "e2",
                                 category |-> "collision", obstacle |-> "chair"]]
\* Ids of its own for each part, and again with a new id for the evaluation, whose
\* first one is given to the curriculum: new there, or a clash.
Ids(w, k, e) == [world |-> w, curriculum |-> k, evaluation |-> e]
SomeIds == {Ids("i1", "i2", "i3"), Ids("i1", "i3", "i4")}
ReviewedPlan == [episode |-> "e1", candidate |-> "c1", action |-> "promote"]

=============================================================================
