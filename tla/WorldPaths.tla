----------------------------- MODULE WorldPaths -----------------------------
(* How a training world is generated, gated and given its teacher's path:     *)
(* worlds/generation/generator.py draws objects and places them,              *)
(* validation.py refuses a candidate with any issue, and pathfinding.py       *)
(* searches the grid with A*, one heap pop per step here.                     *)
(*                                                                            *)
(* Lengths are integers, in halves of a grid cell, so that a cell's centre    *)
(* has odd coordinates. The seeded generator's draws are choices; drawn       *)
(* categories and physical parameters lie in their ranges by construction.    *)
EXTENDS Integers, FiniteSets, Sequences, FiniteSetsExt

CONSTANTS
  Columns, Rows,     \* cells of the room
  Margin,            \* robot radius and clearance: the walls', the obstacles'
  Gap,               \* half of object_separation_m
  Boundary,          \* object_boundary_clearance_m
  Nearest,           \* minimum_start_goal_distance_m
  Anchors,           \* pairs of a start and a destination
  Footprints,        \* half extents of the objects that may be drawn
  Places,            \* points they may be drawn at
  ObjectCounts,      \* sizes a candidate may have
  MaxCandidates,     \* candidates per seed (100 in the code)
  None

VARIABLES
  phase,      \* of generate_training_world and what it calls
  anchor,     \* the start and the destination of the candidate
  wanted,     \* its object count
  placed,     \* its objects
  candidates, \* candidates drawn so far
  issues,     \* codes of the issues validation has found
  frontier,   \* the search's heap
  best_cost, came_from,
  path        \* cells of the path, None while there is none

worldVars == <<phase, anchor, wanted, placed, candidates, issues, frontier,
               best_cost, came_from, path>>

-----------------------------------------------------------------------------
Width == 2 * Columns
Depth == 2 * Rows
Cells == (0 .. Columns - 1) \X (0 .. Rows - 1)
PointOf(cell) == <<2 * cell[1] + 1, 2 * cell[2] + 1>>
CellOf(point) == <<point[1] \div 2, point[2] \div 2>>

\* An object: a centre and half extents, which its yaw may have swapped.
Objects == [at : Places, half : Footprints \cup {<<f[2], f[1]>> : f \in Footprints}]

\* Axis-aligned bounds, inflated; containment and overlap include the edges.
Low(o, axis, inflation) == o.at[axis] - o.half[axis] - inflation
High(o, axis, inflation) == o.at[axis] + o.half[axis] + inflation
Covers(o, inflation, point) ==
  \A axis \in {1, 2} : point[axis] \in Low(o, axis, inflation) .. High(o, axis, inflation)
Overlaps(o, p, inflation) ==
  \A axis \in {1, 2} : /\ High(o, axis, inflation) >= Low(p, axis, inflation)
                       /\ High(p, axis, inflation) >= Low(o, axis, inflation)
InsideRoom(o) ==
  /\ Low(o, 1, 0) >= Boundary /\ High(o, 1, 0) <= Width - Boundary
  /\ Low(o, 2, 0) >= Boundary /\ High(o, 2, 0) <= Depth - Boundary
InsideNavigation(point) ==
  /\ point[1] \in Margin .. Width - Margin
  /\ point[2] \in Margin .. Depth - Margin

\* Mutant: obstacles without the robot's radius and clearance.
TraversableByAPoint(cell) ==
  /\ cell \in Cells
  /\ InsideNavigation(PointOf(cell))
  /\ \A o \in placed : ~Covers(o, 0, PointOf(cell))
Traversable(cell) ==
  /\ cell \in Cells
  /\ InsideNavigation(PointOf(cell))
  /\ \A o \in placed : ~Covers(o, Margin, PointOf(cell))
Neighbours(cell) ==
  {<<cell[1] + 1, cell[2]>>, <<cell[1], cell[2] + 1>>,
   <<cell[1] - 1, cell[2]>>, <<cell[1], cell[2] - 1>>}
Manhattan(c, d) == Max({c[1] - d[1], d[1] - c[1]}) + Max({c[2] - d[2], d[2] - c[2]})

Start == CellOf(anchor[1])
Destination == CellOf(anchor[2])

-----------------------------------------------------------------------------
\* No candidate drawn yet.
Blank == /\ placed = {} /\ issues = {} /\ frontier = {}
         /\ best_cost = << >> /\ came_from = << >> /\ path = None

Init == /\ phase = "placing" /\ candidates = 1
        /\ anchor \in Anchors /\ wanted \in ObjectCounts
        /\ Blank

CanPlace(o) ==
  /\ \A end \in {1, 2} : ~Covers(o, Margin, anchor[end])
  /\ \A p \in placed : ~Overlaps(o, p, Gap)

\* The draw keeps the object's larger half extent from the room's walls.
Drawn(o) ==
  LET half == Max({o.half[1], o.half[2]}) + Boundary
  IN  o.at[1] \in half .. Width - half /\ o.at[2] \in half .. Depth - half

\* _generate_candidate: an object drawn where it can be placed. A draw that
\* cannot is drawn again.
Place ==
  /\ phase = "placing" /\ Cardinality(placed) < wanted
  /\ \E o \in Objects : Drawn(o) /\ CanPlace(o) /\ placed' = placed \cup {o}
  /\ UNCHANGED <<phase, anchor, wanted, candidates, issues, frontier,
                 best_cost, came_from, path>>

\* The next candidate of the seed, or the end of its hundred.
NextCandidate ==
  \/ /\ candidates < MaxCandidates
     /\ phase' = "placing" /\ candidates' = candidates + 1
     /\ anchor' \in Anchors /\ wanted' \in ObjectCounts
     /\ placed' = {} /\ issues' = {} /\ frontier' = {}
     /\ best_cost' = << >> /\ came_from' = << >> /\ path' = None
  \/ /\ candidates = MaxCandidates
     /\ phase' = "raised"
     /\ UNCHANGED <<anchor, wanted, placed, candidates, issues, frontier,
                    best_cost, came_from, path>>

\* Two hundred draws of one object found no place for it.
GiveUp == phase = "placing" /\ Cardinality(placed) < wanted /\ NextCandidate

SquareOf(n) == n * n
EndIssues(label, point) ==
  (IF InsideNavigation(point) THEN {} ELSE {label \o "_out_of_bounds"})
  \cup (IF \E o \in placed : Covers(o, Margin, point) THEN {label \o "_obstructed"} ELSE {})
IssuesFound ==
  (IF \A o \in placed : InsideRoom(o) THEN {} ELSE {"object_out_of_bounds"})
  \cup (IF \E o, p \in placed : o # p /\ Overlaps(o, p, Gap) THEN {"objects_overlap"} ELSE {})
  \cup EndIssues("start", anchor[1]) \cup EndIssues("destination", anchor[2])
  \cup (IF SquareOf(anchor[1][1] - anchor[2][1]) + SquareOf(anchor[1][2] - anchor[2][2])
             < SquareOf(Nearest)
        THEN {"start_destination_too_close"} ELSE {})

\* validate_training_world up to its search, which finds no path at once when
\* an end of it cannot be traversed.
Validate ==
  /\ phase = "placing" /\ Cardinality(placed) = wanted
  /\ issues' = IssuesFound
  /\ IF Traversable(Start) /\ Traversable(Destination)
     THEN /\ phase' = "searching"
          /\ frontier' = {<<Manhattan(Start, Destination), 0, Start>>}
          /\ best_cost' = [c \in {Start} |-> 0]
          /\ came_from' = [c \in {Start} |-> None]
     ELSE phase' = "searched" /\ UNCHANGED <<frontier, best_cost, came_from>>
  /\ UNCHANGED <<anchor, wanted, placed, candidates, path>>

\* The heap's order: priority, cost, then the cell's coordinates.
Precedes(a, b) ==
  LET key(e) == <<e[1], e[2], e[3][1], e[3][2]>>
  IN  \E i \in 1..4 : key(a)[i] < key(b)[i] /\ \A j \in 1 .. i - 1 : key(a)[j] = key(b)[j]
Least == CHOOSE a \in frontier : \A b \in frontier \ {a} : Precedes(a, b)

\* A neighbour is worth visiting at a cost below its best so far.
Improves(cell, cost) == cell \notin DOMAIN best_cost \/ cost < best_cost[cell]

\* One turn of the search's loop. An entry that a cheaper one of its cell has
\* overtaken is dropped.
Better(entry) ==
  IF entry[2] # best_cost[entry[3]] THEN {}
  ELSE {n \in Neighbours(entry[3]) : Traversable(n) /\ Improves(n, entry[2] + 1)}
Expand ==
  /\ phase = "searching" /\ frontier # {} /\ Least[3] # Destination
  /\ LET cell == Least[3]
         cost == Least[2] + 1
         better == Better(Least)
     IN  /\ best_cost' = [n \in better \cup DOMAIN best_cost |->
                            IF n \in better THEN cost ELSE best_cost[n]]
         /\ came_from' = [n \in better \cup DOMAIN came_from |->
                            IF n \in better THEN cell ELSE came_from[n]]
         /\ frontier' = (frontier \ {Least})
              \cup {<<cost + Manhattan(n, Destination), cost, n>> : n \in better}
  /\ UNCHANGED <<phase, anchor, wanted, placed, candidates, issues, path>>

\* The cells from the start to a cell, by came_from.
Chain[cell \in DOMAIN came_from] ==
  IF came_from[cell] = None THEN <<cell>> ELSE Append(Chain[came_from[cell]], cell)

\* The destination is popped, or the heap is empty. The path is kept as its
\* cells: the start and the destination the code puts at the ends of their
\* centres lie in the first and the last, and the legs to them stay there.
EndSearch ==
  /\ phase = "searching"
  /\ frontier # {} => Least[3] = Destination
  /\ phase' = "searched"
  /\ path' = IF Destination \in DOMAIN came_from THEN Chain[Destination] ELSE None
  /\ UNCHANGED <<anchor, wanted, placed, candidates, issues, frontier, best_cost,
                 came_from>>

\* The gate: any issue refuses the candidate, as does a missing path.
Accept ==
  /\ phase = "searched" /\ issues = {} /\ path # None
  /\ phase' = "accepted"
  /\ UNCHANGED <<anchor, wanted, placed, candidates, issues, frontier, best_cost,
                 came_from, path>>
Refuse == phase = "searched" /\ (issues # {} \/ path = None) /\ NextCandidate

Next == Place \/ GiveUp \/ Validate \/ Expand \/ EndSearch \/ Accept \/ Refuse

Spec == Init /\ [][Next]_worldVars

-----------------------------------------------------------------------------
\* The cells at most n moves beyond those given.
Onwards(cells) == cells \cup {c \in UNION {Neighbours(d) : d \in cells} : Traversable(c)}
Within[n \in 0 .. Cardinality(Cells)] ==
  IF n = 0 THEN {Start} ELSE Onwards(Within[n - 1])
Reachable == Traversable(Start) /\ Traversable(Destination)
             /\ Destination \in Within[Cardinality(Cells)]

\* A point of the straight move between two neighbouring cells' centres.
Between(c, d) == {<<PointOf(c)[1] + i * (d[1] - c[1]), PointOf(c)[2] + i * (d[2] - c[2])>> : i \in 0..2}

\* A world leaves generation only with every object in the room and apart from
\* the others, and with a teacher's path that a robot of the modelled radius can
\* walk with its clearance, in moves between neighbouring cells' centres, as short
\* as any (breadth-first search is the reference; the legs inside the first and
\* the last cell, from the start and to the destination, may come closer, since
\* the code looks at their ends only); a candidate is refused for want of a
\* path only when there is none. The gate and the generator check the same world
\* twice, in different terms.
PathsEarned ==
  /\ phase = "searched" => (path = None <=> ~Reachable)
  /\ path # None =>
       /\ path[1] = Start /\ path[Len(path)] = Destination
       /\ Len(path) > 1 => Destination \notin Within[Len(path) - 2]
       /\ \A i \in 1 .. Len(path) - 1 :
            /\ path[i + 1] \in Neighbours(path[i])
            /\ \A point \in Between(path[i], path[i + 1]), o \in placed :
                 ~Covers(o, Margin, point)
  /\ phase = "accepted" =>
       /\ path # None
       /\ \A o \in placed : InsideRoom(o) /\ \A p \in placed \ {o} : ~Overlaps(o, p, Gap)
       /\ \A o \in placed, end \in {1, 2} : ~Covers(o, Margin, anchor[end])
=============================================================================
