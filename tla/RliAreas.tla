------------------------------ MODULE RliAreas ------------------------------
(***************************************************************************)
(* The sample areas of r.li.daemon: parseSetup reads a sampling frame and   *)
(* the size of an area, disposeAreas either lists the areas or prepares the *)
(* generator g, and next (list.c) generates them one call at a time.  Areas *)
(* whose corners are written in the setup file are not disposed at run time *)
(* and are left out.                                                        *)
(***************************************************************************)
EXTENDS Integers, FiniteSets

CONSTANTS FrameSides,    \* rows and columns a sampling frame may have
          AreaSides,     \* rows and columns a sample area may have
          Offsets,       \* where the sampling frame may start
          Garbage,       \* what unset memory may hold
          Dispositions,  \* the dispositions to consider
          MaskChoices,   \* may the area be masked?
          Dists,         \* distances of SYSTEMATICNONCONTIGUOUS
          Units,         \* numbers of areas of RANDOMNONOVERLAPPING
          Strata         \* numbers of strata of STRATIFIEDRANDOM

ASSUME RliAreasAssumption ==
    /\ FrameSides \subseteq Nat \ {0} /\ AreaSides \subseteq Nat \ {0}
    /\ Offsets \subseteq Nat /\ Garbage \subseteq Int
    /\ MaskChoices \subseteq BOOLEAN
    /\ Dists \subseteq Nat /\ Units \subseteq Nat /\ Strata \subseteq Nat \ {0}

VARIABLES pc,      \* "dispose", "random", "strata", "generate", or how it ended
          kind,    \* the disposition
          frame,   \* the sampling frame of the setup file
          g,       \* the generator, its fields that are set once
          x, y,    \* g->x, g->y: where the next area goes
          count,   \* g->count, or i while disposeAreas fills the list
          param,   \* units, or strata by rows and by columns
          areas,   \* the areas listed or generated so far
          zeros    \* how often the daemon was told that there is no more area

vars == <<pc, kind, frame, g, x, y, count, param, areas, zeros>>

Generators == {"MOVINGWINDOW", "SYSTEMATICCONTIGUOUS", "SYSTEMATICNONCONTIGUOUS"}
Frames == [x : Offsets, y : Offsets, rows : FrameSides, cols : FrameSides]
Params == [units : Units, rows : Strata, cols : Strata]
Generator == [sf_x : Int, sf_y : Int, rows : Int, cols : Int, rl : AreaSides,
              cl : AreaSides, dist : Nat, add_row : Nat, add_col : Nat, masked : BOOLEAN]
Area == [aid : Int, x : Int, y : Int]

(* parseSetup, for an area without corners.  The origin of the frame is     *)
(* never stored in g when the area is masked.                               *)
Init ==
    /\ pc = "dispose"
    /\ kind \in Dispositions
    /\ frame \in Frames
    /\ \E m \in MaskChoices, r, c \in AreaSides, u, v \in Garbage :
         g = [sf_x |-> IF m THEN u ELSE frame.x, sf_y |-> IF m THEN v ELSE frame.y,
              rows |-> frame.rows, cols |-> frame.cols, rl |-> r, cl |-> c,
              dist |-> 0, add_row |-> 0, add_col |-> 0, masked |-> m]
    /\ x = frame.x /\ y = frame.y
    /\ count = 1
    /\ param \in Params
    /\ areas = {}
    /\ zeros = 0

-----------------------------------------------------------------------------
(* A mistake: the generator of a moving window runs over the whole frame.   *)
MovingWindowWholeFrame ==
    /\ pc = "dispose" /\ kind = "MOVINGWINDOW"
    /\ g' = [g EXCEPT !.dist = 0, !.add_row = 1, !.add_col = 1]
    /\ count' = 0
    /\ pc' = "generate"
    /\ UNCHANGED <<kind, frame, x, y, param, areas, zeros>>

(* disposeAreas: the generator of a moving window runs over the positions   *)
(* of its corner, not over the frame.                                       *)
MovingWindow ==
    /\ pc = "dispose" /\ kind = "MOVINGWINDOW"
    /\ g' = [g EXCEPT !.dist = 0, !.add_row = 1, !.add_col = 1,
                      !.rows = frame.rows - g.rl + 1, !.cols = frame.cols - g.cl + 1]
    /\ count' = 0
    /\ pc' = "generate"
    /\ UNCHANGED <<kind, frame, x, y, param, areas, zeros>>

(* A mistake: contiguous areas are as close as windows. *)
ContiguousByOne ==
    /\ pc = "dispose" /\ kind = "SYSTEMATICCONTIGUOUS"
    /\ g' = [g EXCEPT !.dist = 0, !.add_row = 1, !.add_col = 1]
    /\ pc' = "generate"
    /\ UNCHANGED <<kind, frame, x, y, count, param, areas, zeros>>

Contiguous ==
    /\ pc = "dispose" /\ kind = "SYSTEMATICCONTIGUOUS"
    /\ g' = [g EXCEPT !.dist = 0, !.add_row = g.rl, !.add_col = g.cl]
    /\ pc' = "generate"
    /\ UNCHANGED <<kind, frame, x, y, count, param, areas, zeros>>

NonContiguous(dist) ==
    /\ pc = "dispose" /\ kind = "SYSTEMATICNONCONTIGUOUS"
    /\ g' = [g EXCEPT !.dist = dist, !.add_row = g.rl + dist, !.add_col = g.cl + dist]
    /\ x' = g.sf_x + dist
    /\ y' = g.sf_y + dist
    /\ pc' = "generate"
    /\ UNCHANGED <<kind, frame, count, param, areas, zeros>>

(* How many areas fit in the frame, and in one row of it.                   *)
PerRow   == g.cols \div g.cl
MaxUnits == (g.rows \div g.rl) * PerRow

RandomStarts ==
    /\ pc = "dispose" /\ kind = "RANDOMNONOVERLAPPING"
    /\ pc' = IF param.units > MaxUnits THEN "fatal" ELSE "random"
    /\ count' = 0
    /\ UNCHANGED <<kind, frame, g, x, y, param, areas, zeros>>

AreaAt(position) == [aid |-> count + 1,
                     x |-> g.sf_x + (position % PerRow) * g.cl,
                     y |-> g.sf_y + (position \div PerRow) * g.rl]

(* A position drawn again is drawn anew: only its place matters here.       *)
PlaceUnit(position) ==
    /\ pc = "random" /\ count < param.units
    /\ \A a \in areas : a.x # AreaAt(position).x \/ a.y # AreaAt(position).y
    /\ areas' = areas \cup {AreaAt(position)}
    /\ count' = count + 1
    /\ UNCHANGED <<pc, kind, frame, g, x, y, param, zeros>>

StratumRows == g.rows \div param.rows
StratumCols == g.cols \div param.cols

StrataStart ==
    /\ pc = "dispose" /\ kind = "STRATIFIEDRANDOM"
    /\ pc' = IF StratumRows < g.rl \/ StratumCols < g.cl THEN "fatal" ELSE "strata"
    /\ count' = 0
    /\ UNCHANGED <<kind, frame, g, x, y, param, areas, zeros>>

(* random() % 0 ends the process. *)
StratumFull ==
    /\ pc = "strata" /\ count < param.rows * param.cols
    /\ StratumCols = g.cl \/ StratumRows = g.rl
    /\ pc' = "killed"
    /\ UNCHANGED <<kind, frame, g, x, y, count, param, areas, zeros>>

PlaceInStratum(dx, dy) ==
    /\ pc = "strata" /\ count < param.rows * param.cols
    /\ dx < StratumCols - g.cl /\ dy < StratumRows - g.rl
    /\ areas' = areas \cup
         {[aid |-> count,
           x |-> g.sf_x + (count % param.cols) * StratumCols + dx,
           y |-> g.sf_y + (count \div param.cols) * StratumRows + dy]}
    /\ count' = count + 1
    /\ UNCHANGED <<pc, kind, frame, g, x, y, param, zeros>>

Listed ==
    /\ \/ pc = "random" /\ count = param.units
       \/ pc = "strata" /\ count = param.rows * param.cols
    /\ pc' = "listed"
    /\ zeros' = 1
    /\ UNCHANGED <<kind, frame, g, x, y, count, param, areas>>

-----------------------------------------------------------------------------
(* next: the area must not be larger than what the generator runs over ...  *)
Fits == g.cl <= g.cols /\ g.rl <= g.rows

(* A mistake: the last column of a row is left out. *)
RowSpentEarly == g.cols - x + g.sf_x <= g.add_col

(* ... a row without room for one more area is left for the next one ...    *)
RowSpent == g.cols - x + g.sf_x < g.add_col
NextX == IF RowSpent THEN g.sf_x + g.dist ELSE x
NextY == IF RowSpent THEN y + g.add_row ELSE y

(* ... and there must be room below; the test is stricter with a mask.      *)
RoomBelow == IF g.masked THEN g.rows - NextY + g.sf_y > g.add_row
                         ELSE g.rows - NextY + g.sf_y >= g.add_row

(* A mistake: the generator counts before it answers. *)
GenerateCountingFirst ==
    /\ pc = "generate" /\ zeros < 2 /\ Fits /\ RoomBelow
    /\ areas' = areas \cup {[aid |-> count + 1, x |-> NextX, y |-> NextY]}
    /\ count' = count + 1
    /\ x' = NextX + g.add_col
    /\ y' = NextY
    /\ UNCHANGED <<pc, kind, frame, g, param, zeros>>

Generate ==
    /\ pc = "generate" /\ zeros < 2 /\ Fits /\ RoomBelow
    /\ areas' = areas \cup {[aid |-> count, x |-> NextX, y |-> NextY]}
    /\ count' = count + 1
    /\ x' = NextX + g.add_col
    /\ y' = NextY
    /\ UNCHANGED <<pc, kind, frame, g, param, zeros>>

(* A mistake: a call that fails starts over. *)
NoMoreAndRestart ==
    /\ pc = "generate" /\ (~Fits \/ ~RoomBelow)
    /\ zeros < 2
    /\ zeros' = zeros + 1
    /\ x' = g.sf_x + g.dist
    /\ y' = g.sf_y + g.dist
    /\ UNCHANGED <<pc, kind, frame, g, count, param, areas>>

(* next returns 0.  The daemon may call it once more: when its first job    *)
(* scheduling met the end of the areas, the body asks again.                *)
NoMore ==
    /\ pc = "generate" /\ (~Fits \/ ~RoomBelow)
    /\ zeros < 2
    /\ zeros' = zeros + 1
    /\ IF Fits THEN x' = NextX /\ y' = NextY ELSE UNCHANGED <<x, y>>
    /\ UNCHANGED <<pc, kind, frame, g, count, param, areas>>

Next ==
    \/ MovingWindow
    \/ Contiguous
    \/ \E d \in Dists : NonContiguous(d)
    \/ RandomStarts
    \/ \E p \in 0 .. MaxUnits - 1 : PlaceUnit(p)
    \/ StrataStart
    \/ StratumFull
    \/ \E dx \in 0 .. StratumCols, dy \in 0 .. StratumRows : PlaceInStratum(dx, dy)
    \/ Listed
    \/ Generate
    \/ NoMore

Spec == Init /\ [][Next]_vars
FairSpec == Spec /\ WF_vars(Next)

-----------------------------------------------------------------------------
(* Every area lies in the sampling frame (r.li.setup calls it the frame     *)
(* that contains all the areas to analyze).                                 *)
InFrame(a) ==
    /\ frame.x <= a.x /\ a.x + g.cl <= frame.x + frame.cols
    /\ frame.y <= a.y /\ a.y + g.rl <= frame.y + frame.rows
AllAreasInFrame == \A a \in areas : InFrame(a)

(* The same for a frame with room for one area and the distance before it.  *)
AreasInFrame == g.dist + g.cl <= frame.cols => AllAreasInFrame

(* The areas of every disposition but the moving window do not intersect.   *)
Apart(a, b) ==
    \/ a.x + g.cl <= b.x \/ b.x + g.cl <= a.x
    \/ a.y + g.rl <= b.y \/ b.y + g.rl <= a.y
AreasApart ==
    kind # "MOVINGWINDOW" => \A a, b \in areas : a = b \/ Apart(a, b)

(* A moving window's number is its place in the random access file, which   *)
(* write_raster reads back row by row, g->cols cells each.                  *)
AidIsPlace ==
    (kind = "MOVINGWINDOW" /\ pc = "generate") =>
        \A a \in areas :
            /\ a.x - g.sf_x \in 0 .. g.cols - 1
            /\ a.y - g.sf_y \in 0 .. g.rows - 1
            /\ a.aid = (a.y - g.sf_y) * g.cols + (a.x - g.sf_x)

(* The places a window of the setup file can take, and those of areas side  *)
(* by side.                                                                 *)
WindowPlaces == (frame.x .. frame.x + frame.cols - g.cl)
                \X (frame.y .. frame.y + frame.rows - g.rl)
TilePlaces == {frame.x + c * g.cl : c \in 0 .. frame.cols \div g.cl - 1}
              \X {frame.y + r * g.rl : r \in 0 .. frame.rows \div g.rl - 1}
Taken == {<<a.x, a.y>> : a \in areas}

(* The moving window is moved over all the raster, whatever its size.       *)
WindowMovesOverAll == (zeros > 0 /\ kind = "MOVINGWINDOW") => Taken = WindowPlaces

(* Once next has returned 0 it never generates an area again: the daemon    *)
(* calls it again after its first job scheduling.                           *)
EndIsFinal == [][zeros > 0 => areas' = areas]_vars

(* Disposing and generating areas comes to an end. *)
Terminates == <>(zeros > 0 \/ pc \in {"fatal", "killed"})

(* The daemon meets the end of the areas, and meets it for good. *)
EndsForGood == Terminates /\ EndIsFinal

(* One area in every stratum, inside it (a number of strata that is too     *)
(* large is refused before).                                                *)
InStratum(a, r, c) ==
    /\ a.x - frame.x \in c * StratumCols .. (c + 1) * StratumCols - g.cl
    /\ a.y - frame.y \in r * StratumRows .. (r + 1) * StratumRows - g.rl
Sampled ==
    \A r \in 0 .. param.rows - 1, c \in 0 .. param.cols - 1 :
        \E a \in areas : InStratum(a, r, c)

(* When there is no more area, none is missing: every place of the frame    *)
(* was generated (the moving window as long as it is no larger than the     *)
(* places it can take), and every stratum has its area.                     *)
NoAreaMissing ==
    /\ zeros > 0 =>
          /\ (kind = "MOVINGWINDOW" /\ Fits) => Taken = WindowPlaces
          /\ kind = "SYSTEMATICCONTIGUOUS" => Taken = TilePlaces
    /\ (kind = "STRATIFIEDRANDOM" /\ pc = "listed") => Sampled
=============================================================================
