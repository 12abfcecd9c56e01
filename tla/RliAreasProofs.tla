--------------------------- MODULE RliAreasProofs ---------------------------
(***************************************************************************)
(* The generator of sample areas, for frames and areas of any size and any  *)
(* origin: an area that is not masked lies in the sampling frame, the       *)
(* number of a moving window is its place in the output, areas do not       *)
(* intersect, and none is missing in the end.                               *)
(***************************************************************************)
EXTENDS RliAreas, TLAPS

Unmasked == TRUE \notin MaskChoices

(* The generator as parseSetup leaves it, and as disposeAreas completes it. *)
Undisposed ==
    pc = "dispose" =>
        /\ areas = {} /\ x = g.sf_x /\ y = g.sf_y
        /\ g.rows = frame.rows /\ g.cols = frame.cols /\ g.dist = 0
Disposed ==
    pc = "generate" =>
        \/ /\ kind = "MOVINGWINDOW" /\ g.dist = 0 /\ g.add_row = 1 /\ g.add_col = 1
           /\ g.rows = frame.rows - g.rl + 1 /\ g.cols = frame.cols - g.cl + 1
        \/ /\ kind # "MOVINGWINDOW"
           /\ g.add_row = g.rl + g.dist /\ g.add_col = g.cl + g.dist
           /\ g.rows = frame.rows /\ g.cols = frame.cols
Place ==
    /\ g \in Generator /\ frame \in Frames
    /\ pc \in {"dispose", "generate"} /\ kind \in Generators
    /\ x \in Int /\ y \in Int /\ count \in Int
    /\ g.masked = FALSE /\ g.sf_x = frame.x /\ g.sf_y = frame.y
    /\ g.sf_x <= x /\ g.sf_y <= y
    /\ areas \subseteq Area

(* The next number is the place where the moving window stands.             *)
Layout ==
    (pc = "generate" /\ kind = "MOVINGWINDOW" /\ Fits) =>
        /\ x <= g.sf_x + g.cols
        /\ count = (y - g.sf_y) * g.cols + (x - g.sf_x)

AreasInv == Place /\ Undisposed /\ Disposed /\ Layout /\ AidIsPlace /\ AreasInFrame

LEMMA AreasInit == ASSUME Unmasked, kind \in Generators, RliAreasAssumption, Init PROVE AreasInv
<1>1. PICK m \in MaskChoices, r \in AreaSides, c \in AreaSides, u \in Garbage, v \in Garbage :
        g = [sf_x |-> IF m THEN u ELSE frame.x, sf_y |-> IF m THEN v ELSE frame.y,
             rows |-> frame.rows, cols |-> frame.cols, rl |-> r, cl |-> c,
             dist |-> 0, add_row |-> 0, add_col |-> 0, masked |-> m]
  BY DEF Init
<1>2. m = FALSE
  BY DEF Unmasked, RliAreasAssumption
<1>3. frame \in Frames /\ frame.x \in Int /\ frame.y \in Int /\ frame.rows \in Int /\ frame.cols \in Int
  <2>1. frame \in Frames
    BY DEF Init
  <2>2. frame.x \in Offsets /\ frame.y \in Offsets /\ frame.rows \in FrameSides /\ frame.cols \in FrameSides
    BY <2>1 DEF Frames
  <2>3. Offsets \subseteq Int /\ FrameSides \subseteq Int
    BY DEF RliAreasAssumption
  <2> QED
    BY <2>1, <2>2, <2>3
<1>4. g \in Generator
  BY <1>1, <1>2, <1>3 DEF Generator
<1>5. Place
  BY <1>1, <1>2, <1>3, <1>4 DEF Place, Init
<1> QED
  BY <1>1, <1>2, <1>3, <1>5 DEF AreasInv, Undisposed, Disposed, Layout, AidIsPlace, AreasInFrame,
     AllAreasInFrame, Init

(* Disposing: nothing is generated yet. *)
LEMMA AreasDispose ==
  ASSUME AreasInv, RliAreasAssumption,
         MovingWindow \/ Contiguous \/ \E d \in Dists : NonContiguous(d)
  PROVE  AreasInv'
<1> USE DEF AreasInv, Place
<1>0. /\ g \in Generator /\ g.rl \in Nat /\ g.cl \in Nat /\ g.rows \in Int /\ g.cols \in Int
      /\ g.sf_x \in Int /\ g.sf_y \in Int /\ frame.rows \in Nat /\ frame.cols \in Nat
  BY DEF Generator, Frames, RliAreasAssumption
<1>1. CASE MovingWindow
  <2>a. g' = [sf_x |-> g.sf_x, sf_y |-> g.sf_y, rows |-> frame.rows - g.rl + 1, cols |-> frame.cols - g.cl + 1,
             rl |-> g.rl, cl |-> g.cl, dist |-> 0, add_row |-> 1, add_col |-> 1,
             masked |-> g.masked]
    BY <1>0, <1>1 DEF MovingWindow, Generator
  <2>b. g.rl \in AreaSides /\ g.cl \in AreaSides /\ g.masked \in BOOLEAN
    BY <1>0 DEF Generator
  <2>1. g' \in Generator
    BY <1>0, <2>a, <2>b DEF Generator
  <2>2. Place'
    BY <1>0, <1>1, <2>1 DEF MovingWindow, Generator
  <2> QED
    BY <1>0, <1>1, <2>2 DEF MovingWindow, Undisposed, Disposed, Layout, AidIsPlace, AreasInFrame,
       AllAreasInFrame, Generator, Fits
<1>2. CASE Contiguous
  <2>a. g' = [sf_x |-> g.sf_x, sf_y |-> g.sf_y, rows |-> g.rows, cols |-> g.cols,
             rl |-> g.rl, cl |-> g.cl, dist |-> 0, add_row |-> g.rl, add_col |-> g.cl,
             masked |-> g.masked]
    BY <1>0, <1>2 DEF Contiguous, Generator
  <2>b. g.rl \in AreaSides /\ g.cl \in AreaSides /\ g.masked \in BOOLEAN
    BY <1>0 DEF Generator
  <2>1. g' \in Generator
    BY <1>0, <2>a, <2>b DEF Generator
  <2>2. Place'
    BY <1>0, <1>2, <2>1 DEF Contiguous, Generator
  <2> QED
    BY <1>0, <1>2, <2>2 DEF Contiguous, Undisposed, Disposed, Layout, AidIsPlace, AreasInFrame,
       AllAreasInFrame, Generator
<1>3. ASSUME NEW d \in Dists, NonContiguous(d) PROVE AreasInv'
  <2>0. d \in Nat
    BY DEF RliAreasAssumption
  <2>a. g' = [sf_x |-> g.sf_x, sf_y |-> g.sf_y, rows |-> g.rows, cols |-> g.cols,
             rl |-> g.rl, cl |-> g.cl, dist |-> d, add_row |-> g.rl + d, add_col |-> g.cl + d,
             masked |-> g.masked]
    BY <1>0, <1>3, <2>0 DEF NonContiguous, Generator
  <2>b. g.rl \in AreaSides /\ g.cl \in AreaSides /\ g.masked \in BOOLEAN
    BY <1>0 DEF Generator
  <2>1. g' \in Generator
    BY <1>0, <2>0, <2>a, <2>b DEF Generator
  <2>2. Place'
    <3>1. x' = g.sf_x + d /\ y' = g.sf_y + d /\ pc' = "generate"
      BY <1>3 DEF NonContiguous
    <3>2. x' \in Int /\ y' \in Int /\ g.sf_x <= x' /\ g.sf_y <= y'
      BY <1>0, <2>0, <3>1
    <3>3. g'.sf_x = g.sf_x /\ g'.sf_y = g.sf_y /\ g'.masked = g.masked
      BY <2>a
    <3> QED
      BY <1>0, <1>3, <2>1, <3>1, <3>2, <3>3 DEF NonContiguous
  <2> QED
    BY <1>0, <1>3, <2>0, <2>2 DEF NonContiguous, Undisposed, Disposed, Layout, AidIsPlace,
       AreasInFrame, AllAreasInFrame, Generator
<1> QED
  BY <1>1, <1>2, <1>3

(* One row of windows further is one row of cells further. *)
LEMMA NextRow ==
  ASSUME NEW r \in Int, NEW c \in Int
  PROVE  (r + 1) * c = r * c + c
OBVIOUS

(* Where a call of next stands after leaving a full row: in the frame, and  *)
(* still at the place that its number says.                                 *)
LEMMA NextPlace ==
  ASSUME AreasInv, RliAreasAssumption, pc = "generate", Fits
  PROVE  /\ NextX \in Int /\ NextY \in Int
         /\ g.sf_x <= NextX /\ g.sf_y <= NextY
         /\ kind = "MOVINGWINDOW" =>
              /\ NextX <= g.sf_x + g.cols - 1
              /\ count = (NextY - g.sf_y) * g.cols + (NextX - g.sf_x)
<1> USE DEF AreasInv, Place
<1>0. /\ g.rl \in Nat /\ g.cl \in Nat \ {0} /\ g.rows \in Int /\ g.cols \in Int /\ g.dist \in Nat
      /\ g.sf_x \in Int /\ g.sf_y \in Int /\ g.add_row \in Nat /\ g.add_col \in Nat
  BY DEF Generator, RliAreasAssumption
<1>1. /\ NextX \in Int /\ NextY \in Int /\ g.sf_x <= NextX /\ g.sf_y <= NextY
  BY <1>0 DEF NextX, NextY
<1>2. ASSUME kind = "MOVINGWINDOW"
      PROVE  /\ NextX <= g.sf_x + g.cols - 1
             /\ count = (NextY - g.sf_y) * g.cols + (NextX - g.sf_x)
  <2>1. /\ g.dist = 0 /\ g.add_row = 1 /\ g.add_col = 1 /\ g.cols >= 1
        /\ x <= g.sf_x + g.cols
        /\ count = (y - g.sf_y) * g.cols + (x - g.sf_x)
    <3>1. g.dist = 0 /\ g.add_row = 1 /\ g.add_col = 1
      BY <1>2 DEF Disposed
    <3>2. x <= g.sf_x + g.cols /\ count = (y - g.sf_y) * g.cols + (x - g.sf_x)
      BY <1>2 DEF Layout
    <3>3. g.cols >= 1
      BY <1>0 DEF Fits
    <3> QED
      BY <3>1, <3>2, <3>3
  <2>2. CASE RowSpent
    <3>1. x = g.sf_x + g.cols /\ NextX = g.sf_x /\ NextY = y + 1
      BY <1>0, <2>1, <2>2 DEF RowSpent, NextX, NextY
    <3>2. (y - g.sf_y + 1) * g.cols = (y - g.sf_y) * g.cols + g.cols
      BY <1>0, NextRow
    <3>3. NextY - g.sf_y = y - g.sf_y + 1
      BY <1>0, <3>1
    <3>4. (NextY - g.sf_y) * g.cols = (y - g.sf_y) * g.cols + g.cols
      BY <3>2, <3>3
    <3>5. (y - g.sf_y) * g.cols \in Int
      BY <1>0
    <3> QED
      BY <1>0, <2>1, <3>1, <3>4, <3>5
  <2>3. CASE ~RowSpent
    BY <1>0, <2>1, <2>3 DEF RowSpent, NextX, NextY
  <2> QED
    BY <2>2, <2>3
<1> QED
  BY <1>1, <1>2

LEMMA AreasNoMore == ASSUME AreasInv, RliAreasAssumption, NoMore PROVE AreasInv'
<1>1. CASE Fits
  <2>1. /\ NextX \in Int /\ NextY \in Int
        /\ g.sf_x <= NextX /\ g.sf_y <= NextY
        /\ kind = "MOVINGWINDOW" =>
             /\ NextX <= g.sf_x + g.cols - 1
             /\ count = (NextY - g.sf_y) * g.cols + (NextX - g.sf_x)
    BY <1>1, NextPlace DEF NoMore
  <2>2. x' = NextX /\ y' = NextY
    BY <1>1 DEF NoMore
  <2>3. g.cols \in Int /\ g.sf_x \in Int
    BY DEF AreasInv, Place, Generator
  <2> QED
    BY <1>1, <2>1, <2>2, <2>3 DEF NoMore, AreasInv, Place, Undisposed, Disposed, Layout, AidIsPlace,
       AreasInFrame, AllAreasInFrame, InFrame, Fits
<1>2. CASE ~Fits
  BY <1>2 DEF NoMore, AreasInv, Place, Undisposed, Disposed, Layout, AidIsPlace,
     AreasInFrame, AllAreasInFrame, InFrame, Fits
<1> QED
  BY <1>1, <1>2

LEMMA AreasGenerate == ASSUME AreasInv, RliAreasAssumption, Generate PROVE AreasInv'
<1> DEFINE a == [aid |-> count, x |-> NextX, y |-> NextY]
<1>0. /\ g.rl \in Nat /\ g.cl \in Nat \ {0} /\ g.rows \in Int /\ g.cols \in Int /\ g.dist \in Nat
      /\ g.sf_x \in Int /\ g.sf_y \in Int /\ g.add_row \in Nat /\ g.add_col \in Nat
      /\ frame.x = g.sf_x /\ frame.y = g.sf_y /\ g.masked = FALSE
      /\ frame.rows \in Nat /\ frame.cols \in Nat
  BY DEF AreasInv, Place, Generator, Frames, RliAreasAssumption
<1>1. /\ NextX \in Int /\ NextY \in Int
      /\ g.sf_x <= NextX /\ g.sf_y <= NextY
      /\ kind = "MOVINGWINDOW" =>
           /\ NextX <= g.sf_x + g.cols - 1
           /\ count = (NextY - g.sf_y) * g.cols + (NextX - g.sf_x)
  BY NextPlace DEF Generate
<1>2. /\ pc = "generate" /\ pc' = pc /\ g' = g /\ frame' = frame /\ kind' = kind
      /\ areas' = areas \cup {a} /\ count' = count + 1
      /\ x' = NextX + g.add_col /\ y' = NextY
  BY DEF Generate
<1>3. g.rows - NextY + g.sf_y >= g.add_row
  BY <1>0 DEF Generate, RoomBelow
<1>4. Place'
  <2>1. a \in Area
    BY <1>1 DEF Area, AreasInv, Place
  <2> QED
    BY <1>0, <1>1, <1>2, <2>1 DEF AreasInv, Place
<1>5. Undisposed' /\ Disposed'
  BY <1>2 DEF AreasInv, Undisposed, Disposed
<1>6. Layout'
  <2> SUFFICES ASSUME kind = "MOVINGWINDOW"
               PROVE  /\ x' <= g.sf_x + g.cols
                      /\ count' = (y' - g.sf_y) * g.cols + (x' - g.sf_x)
    BY <1>2 DEF Layout, Fits
  <2>1. g.add_col = 1
    BY <1>2 DEF AreasInv, Disposed
  <2>2. (NextY - g.sf_y) * g.cols \in Int
    BY <1>0, <1>1
  <2> QED
    BY <1>0, <1>1, <1>2, <2>1, <2>2
<1>7. AidIsPlace'
  <2> SUFFICES ASSUME kind = "MOVINGWINDOW"
               PROVE  /\ a.x - g.sf_x \in 0 .. g.cols - 1
                      /\ a.y - g.sf_y \in 0 .. g.rows - 1
                      /\ a.aid = (a.y - g.sf_y) * g.cols + (a.x - g.sf_x)
    BY <1>2 DEF AreasInv, AidIsPlace
  <2>1. g.add_row = 1
    BY <1>2 DEF AreasInv, Disposed
  <2> QED
    BY <1>0, <1>1, <1>3, <2>1
<1>8. AreasInFrame'
  <2> SUFFICES ASSUME g.dist + g.cl <= frame.cols
               PROVE  InFrame(a)
    BY <1>2 DEF AreasInv, AreasInFrame, AllAreasInFrame, InFrame
  <2>1. CASE kind = "MOVINGWINDOW"
    <3>1. /\ g.rows = frame.rows - g.rl + 1 /\ g.cols = frame.cols - g.cl + 1
          /\ g.add_row = 1
      BY <1>2, <2>1 DEF AreasInv, Disposed
    <3> QED
      BY <1>0, <1>1, <1>3, <2>1, <3>1 DEF InFrame
  <2>2. CASE kind # "MOVINGWINDOW"
    <3>1. /\ g.rows = frame.rows /\ g.cols = frame.cols
          /\ g.add_row = g.rl + g.dist /\ g.add_col = g.cl + g.dist
      BY <1>2, <2>2 DEF AreasInv, Disposed
    <3>2. CASE RowSpent
      <4>1. NextX = g.sf_x + g.dist
        BY <3>2 DEF NextX
      <4> QED
        BY <1>0, <1>1, <1>3, <3>1, <4>1 DEF InFrame
    <3>3. CASE ~RowSpent
      <4>1. NextX = x /\ x \in Int /\ g.cols - x + g.sf_x >= g.add_col
        BY <1>0, <3>3 DEF NextX, RowSpent, AreasInv, Place
      <4> QED
        BY <1>0, <1>1, <1>3, <3>1, <4>1 DEF InFrame
    <3> QED
      BY <3>2, <3>3
  <2> QED
    BY <2>1, <2>2
<1> QED
  BY <1>4, <1>5, <1>6, <1>7, <1>8 DEF AreasInv

(* The other actions need a disposition that is not a generator's.          *)
LEMMA AreasStep == ASSUME AreasInv, RliAreasAssumption, [Next]_vars PROVE AreasInv'
<1>1. CASE UNCHANGED vars
  BY <1>1 DEF vars, AreasInv, Place, Undisposed, Disposed, Layout, AidIsPlace, AreasInFrame,
     AllAreasInFrame, InFrame, Fits
<1>2. CASE MovingWindow \/ Contiguous \/ \E d \in Dists : NonContiguous(d)
  BY <1>2, AreasDispose
<1>3. CASE Generate
  BY <1>3, AreasGenerate
<1>4. CASE NoMore
  BY <1>4, AreasNoMore
<1>5. ~RandomStarts /\ ~StrataStart
  BY DEF RandomStarts, StrataStart, AreasInv, Place, Generators
<1>6. pc # "random" /\ pc # "strata"
  BY DEF AreasInv, Place
<1>7. ~StratumFull /\ ~Listed
  BY <1>6 DEF StratumFull, Listed
<1>8. ASSUME NEW p \in 0 .. MaxUnits - 1 PROVE ~PlaceUnit(p)
  BY <1>6 DEF PlaceUnit
<1>9. ASSUME NEW dx \in 0 .. StratumCols, NEW dy \in 0 .. StratumRows PROVE ~PlaceInStratum(dx, dy)
  BY <1>6 DEF PlaceInStratum
<1> QED
  BY <1>1, <1>2, <1>3, <1>4, <1>5, <1>7, <1>8, <1>9 DEF Next

(* Nothing changes the disposition.                                         *)
LEMMA KindStays == ASSUME [Next]_vars PROVE kind' = kind
BY DEF Next, vars, MovingWindow, Contiguous, NonContiguous, RandomStarts, PlaceUnit, StrataStart,
   StratumFull, PlaceInStratum, Listed, Generate, NoMore

(* list.c:86-135, daemon.c:699-748: whatever the frame and the window, the  *)
(* result of a moving window goes to the cell of the output over which the  *)
(* window stood.                                                            *)
THEOREM RliWindowLayout == ASSUME Unmasked PROVE Spec => []AidIsPlace
<1>1. ASSUME Init PROVE kind \in Generators => AreasInv
  BY <1>1, AreasInit, RliAreasAssumption
<1>2. ASSUME kind \in Generators => AreasInv, [Next]_vars PROVE (kind \in Generators => AreasInv)'
  BY <1>2, KindStays, AreasStep, RliAreasAssumption
<1>3. (kind \in Generators => AreasInv) => AidIsPlace
  BY DEF AreasInv, AidIsPlace, Generators
<1> QED
  BY <1>1, <1>2, <1>3, PTL DEF Spec

-----------------------------------------------------------------------------
(* What keeps areas apart: those of a generator are all behind the place    *)
(* where it stands, those drawn at random are on a grid, those of strata    *)
(* each in a stratum of an earlier number.                                  *)
Behind(a) == a.y + g.add_row <= y \/ (a.y = y /\ a.x + g.add_col <= x)
OnGrid(a) == \E c, r \in Nat : a.x = g.sf_x + c * g.cl /\ a.y = g.sf_y + r * g.rl
OfStratum(a, k) ==
    \E dx, dy \in Nat :
        /\ dx + g.cl <= StratumCols /\ dy + g.rl <= StratumRows
        /\ a.x = g.sf_x + (k % param.cols) * StratumCols + dx
        /\ a.y = g.sf_y + (k \div param.cols) * StratumRows + dy
Measured ==
    /\ g.rl \in Nat \ {0} /\ g.cl \in Nat \ {0} /\ g.add_row \in Int /\ g.add_col \in Int
    /\ g.sf_x \in Int /\ g.sf_y \in Int /\ g.dist \in Int /\ x \in Int /\ y \in Int /\ count \in Nat
    /\ \A a \in areas : a.x \in Int /\ a.y \in Int
    /\ param.rows \in Nat \ {0} /\ param.cols \in Nat \ {0}
    /\ kind # "MOVINGWINDOW" => g.rows \in Nat /\ g.cols \in Nat
ApartInv ==
    /\ Measured /\ AreasApart
    /\ pc = "dispose" => areas = {}
    /\ pc = "generate" /\ kind # "MOVINGWINDOW" =>
          g.add_row >= g.rl /\ g.add_col >= g.cl /\ \A a \in areas : Behind(a)
    /\ pc \in {"random", "strata"} => kind # "MOVINGWINDOW"
    /\ pc = "random" => \A a \in areas : OnGrid(a)
    /\ pc = "strata" => \A a \in areas : \E k \in 0 .. count - 1 : OfStratum(a, k)

(* One cell of a grid ends where the next begins, or before.                *)
LEMMA CellsApart ==
  ASSUME NEW c \in Nat, NEW d \in Nat, c < d, NEW s \in Nat, NEW w \in Nat,
         NEW e \in Nat, NEW f \in Nat, e + w <= s
  PROVE  c * s + e + w <= d * s + f
<1>1. PICK n \in Nat : d = c + 1 + n
  <2>1. d - c - 1 \in Nat /\ d = c + 1 + (d - c - 1)
    OBVIOUS
  <2> QED
    BY <2>1
<1>2. d * s = c * s + s + n * s
  BY <1>1, SMT
<1>3. c * s \in Nat /\ n * s \in Nat
  BY <1>1, SMT
<1> QED
  BY <1>2, <1>3

(* Division with remainder.                                                 *)
LEMMA Remainder ==
  ASSUME NEW a \in Nat, NEW b \in Nat \ {0}
  PROVE  /\ a \div b \in Nat /\ a % b \in Nat /\ a % b < b /\ a = (a \div b) * b + (a % b)
BY SMT

(* A generator that stands at a place, or at the start of the row below,    *)
(* has everything behind it still.                                          *)
LEMMA BehindNext ==
  ASSUME Measured, g.add_row >= g.rl, NEW a \in areas, Behind(a)
  PROVE  /\ NextX \in Int /\ NextY \in Int
         /\ a.y + g.add_row <= NextY \/ (a.y = NextY /\ a.x + g.add_col <= NextX)
<1>1. CASE RowSpent
  BY <1>1 DEF Measured, Behind, NextX, NextY
<1>2. CASE ~RowSpent
  BY <1>2 DEF Measured, Behind, NextX, NextY
<1> QED
  BY <1>1, <1>2

LEMMA ApartInit == ASSUME Init, RliAreasAssumption PROVE ApartInv
<1>1. PICK m \in MaskChoices, r \in AreaSides, c \in AreaSides, u \in Garbage, v \in Garbage :
        g = [sf_x |-> IF m THEN u ELSE frame.x, sf_y |-> IF m THEN v ELSE frame.y,
             rows |-> frame.rows, cols |-> frame.cols, rl |-> r, cl |-> c,
             dist |-> 0, add_row |-> 0, add_col |-> 0, masked |-> m]
  BY DEF Init
<1>2. /\ frame.x \in Nat /\ frame.y \in Nat /\ frame.rows \in Nat /\ frame.cols \in Nat
      /\ r \in Nat \ {0} /\ c \in Nat \ {0} /\ u \in Int /\ v \in Int
      /\ param.rows \in Nat \ {0} /\ param.cols \in Nat \ {0}
  BY DEF Init, Frames, Params, RliAreasAssumption
<1>3. Measured
  BY <1>1, <1>2 DEF Init, Measured
<1> QED
  BY <1>3 DEF Init, ApartInv, AreasApart

(* Nothing is disposed yet when the disposition is chosen.                  *)
LEMMA ApartDispose ==
  ASSUME ApartInv, RliAreasAssumption,
         MovingWindow \/ Contiguous \/ (\E d \in Dists : NonContiguous(d)) \/ RandomStarts \/ StrataStart
  PROVE  ApartInv'
<1>1. areas = {} /\ areas' = {} /\ Measured
  BY DEF ApartInv, MovingWindow, Contiguous, NonContiguous, RandomStarts, StrataStart
<1>2. /\ g.rl \in Nat \ {0} /\ g.cl \in Nat \ {0} /\ g.sf_x \in Int /\ g.sf_y \in Int
  BY <1>1 DEF Measured
<1>3. CASE MovingWindow
  <2>1. kind' = "MOVINGWINDOW" /\ pc' = "generate" /\ count' = 0
        /\ g'.rl = g.rl /\ g'.cl = g.cl /\ g'.sf_x = g.sf_x /\ g'.sf_y = g.sf_y
        /\ g'.add_row \in Int /\ g'.add_col \in Int /\ g'.dist \in Int
    BY <1>3 DEF MovingWindow
  <2> QED
    BY <1>1, <1>3, <2>1 DEF MovingWindow, ApartInv, AreasApart, Measured
<1>4. CASE Contiguous
  <2>1. pc' = "generate" /\ UNCHANGED <<kind, x, y, count, param>>
        /\ g'.rl = g.rl /\ g'.cl = g.cl /\ g'.sf_x = g.sf_x /\ g'.sf_y = g.sf_y
        /\ g'.rows = g.rows /\ g'.cols = g.cols
        /\ g'.add_row = g.rl /\ g'.add_col = g.cl /\ g'.dist = 0
    BY <1>4 DEF Contiguous
  <2>2. Measured'
    BY <1>1, <2>1 DEF Measured
  <2> QED
    BY <1>1, <1>2, <2>1, <2>2 DEF ApartInv, AreasApart
<1>5. ASSUME NEW d \in Dists, NonContiguous(d) PROVE ApartInv'
  <2>1. d \in Nat
    BY DEF RliAreasAssumption
  <2>2. /\ pc' = "generate" /\ UNCHANGED <<kind, count, param>>
        /\ x' = g.sf_x + d /\ y' = g.sf_y + d
        /\ g' = [g EXCEPT !.dist = d, !.add_row = g.rl + d, !.add_col = g.cl + d]
    BY <1>5 DEF NonContiguous
  <2>g. /\ g'.rl = g.rl /\ g'.cl = g.cl /\ g'.sf_x = g.sf_x /\ g'.sf_y = g.sf_y
        /\ g'.rows = g.rows /\ g'.cols = g.cols
        /\ g'.add_row = g.rl + d /\ g'.add_col = g.cl + d /\ g'.dist = d
    BY <2>2
  <2>3. g'.add_row \in Int /\ g'.add_col \in Int /\ g'.add_row >= g'.rl /\ g'.add_col >= g'.cl
    BY <1>2, <2>1, <2>g
  <2>4. Measured'
    BY <1>1, <1>2, <2>1, <2>2, <2>g, <2>3 DEF Measured
  <2> QED
    BY <1>1, <1>2, <2>2, <2>g, <2>3, <2>4 DEF ApartInv, AreasApart
<1>6. CASE RandomStarts \/ StrataStart
  BY <1>1, <1>6 DEF RandomStarts, StrataStart, ApartInv, AreasApart, Measured
<1> QED
  BY <1>3, <1>4, <1>5, <1>6

LEMMA ApartNoMore == ASSUME ApartInv, NoMore PROVE ApartInv'
<1>1. /\ UNCHANGED <<pc, kind, g, count, param, areas>> /\ pc = "generate"
      /\ (x' = x /\ y' = y) \/ (x' = NextX /\ y' = NextY)
  BY DEF NoMore
<1>2. x' \in Int /\ y' \in Int
  BY <1>1 DEF ApartInv, Measured, NextX, NextY
<1>3. Measured'
  BY <1>1, <1>2 DEF ApartInv, Measured
<1>4. ASSUME kind # "MOVINGWINDOW", NEW a \in areas PROVE Behind(a)'
  <2>1. Behind(a) /\ (a.y + g.add_row <= NextY \/ (a.y = NextY /\ a.x + g.add_col <= NextX))
    BY <1>1, <1>4, BehindNext DEF ApartInv
  <2> QED
    BY <1>1, <1>4, <2>1, BehindNext DEF Behind, ApartInv
<1> QED
  BY <1>1, <1>3, <1>4 DEF ApartInv, AreasApart, Apart

(* The next area is beside or below all that are behind it.                 *)
LEMMA ApartGenerate == ASSUME ApartInv, Generate PROVE ApartInv'
<1> DEFINE n == [aid |-> count, x |-> NextX, y |-> NextY]
<1>1. /\ UNCHANGED <<pc, kind, g, param>> /\ pc = "generate"
      /\ areas' = areas \cup {n} /\ count' = count + 1
      /\ x' = NextX + g.add_col /\ y' = NextY
  BY DEF Generate
<1>2. NextX \in Int /\ NextY \in Int /\ x' \in Int /\ y' \in Int
  BY <1>1 DEF ApartInv, Measured, NextX, NextY
<1>3. Measured'
  BY <1>1, <1>2 DEF ApartInv, Measured
<1>4. CASE kind = "MOVINGWINDOW"
  BY <1>1, <1>3, <1>4 DEF ApartInv, AreasApart
<1>5. CASE kind # "MOVINGWINDOW"
  <2>1. /\ g.add_row >= g.rl /\ g.add_col >= g.cl /\ g.add_row \in Int /\ g.add_col \in Int
        /\ g.rl \in Nat \ {0} /\ g.cl \in Nat \ {0} /\ \A a \in areas : a.x \in Int /\ a.y \in Int
    BY <1>1, <1>5 DEF ApartInv, Measured
  <2>2. ASSUME NEW a \in areas
        PROVE  a.y + g.add_row <= NextY \/ (a.y = NextY /\ a.x + g.add_col <= NextX)
    BY <1>1, <1>5, <2>1, <2>2, BehindNext DEF ApartInv
  <2>3. \A a \in areas : Apart(a, n) /\ Apart(n, a)
    BY <1>2, <2>1, <2>2 DEF Apart
  <2>4. AreasApart'
    BY <1>1, <2>3 DEF ApartInv, AreasApart, Apart
  <2>5. ASSUME NEW a \in areas' PROVE Behind(a)'
    <3>1. CASE a \in areas
      BY <1>1, <1>2, <2>1, <2>2, <3>1 DEF Behind
    <3>2. CASE a = n
      BY <1>1, <1>2, <2>1, <3>2 DEF Behind
    <3> QED
      BY <1>1, <3>1, <3>2
  <2> QED
    BY <1>1, <1>3, <1>5, <2>1, <2>4, <2>5 DEF ApartInv
<1> QED
  BY <1>4, <1>5

(* A position drawn at random is a cell of a grid that none has taken.      *)
LEMMA ApartPlaceUnit ==
  ASSUME ApartInv, NEW p \in 0 .. MaxUnits - 1, PlaceUnit(p)
  PROVE  ApartInv'
<1> DEFINE n == AreaAt(p)
<1>1. /\ UNCHANGED <<pc, kind, g, param, x, y>> /\ pc = "random" /\ kind # "MOVINGWINDOW"
      /\ \A a \in areas : a.x # n.x \/ a.y # n.y
      /\ areas' = areas \cup {n} /\ count' = count + 1
  BY DEF PlaceUnit, ApartInv
<1>2. /\ g.cl \in Nat \ {0} /\ g.rl \in Nat \ {0} /\ g.rows \in Nat /\ g.cols \in Nat
      /\ g.sf_x \in Int /\ g.sf_y \in Int /\ count \in Nat
  BY <1>1 DEF ApartInv, Measured
<1>3. p \in Nat /\ PerRow \in Nat \ {0}
  <2>1. PerRow \in Nat /\ g.rows \div g.rl \in Nat
    BY <1>2, Remainder DEF PerRow
  <2>2. PerRow = 0 => MaxUnits = 0
    BY <2>1 DEF MaxUnits
  <2>3. MaxUnits \in Nat
    BY <2>1 DEF MaxUnits
  <2> QED
    BY <2>1, <2>2, <2>3
<1>4. PICK c \in Nat, r \in Nat : n.x = g.sf_x + c * g.cl /\ n.y = g.sf_y + r * g.rl
  BY <1>3, Remainder DEF AreaAt
<1>5. n.x \in Int /\ n.y \in Int
  BY <1>2, <1>4
<1>6. ASSUME NEW a \in areas PROVE Apart(a, n) /\ Apart(n, a)
  <2>1. PICK d \in Nat, q \in Nat : a.x = g.sf_x + d * g.cl /\ a.y = g.sf_y + q * g.rl
    BY <1>1 DEF ApartInv, OnGrid
  <2>2. c # d \/ r # q
    BY <1>1, <1>4, <2>1
  <2>3. /\ c * g.cl \in Nat /\ d * g.cl \in Nat /\ r * g.rl \in Nat /\ q * g.rl \in Nat
    BY <1>2
  <2>4. /\ c < d => c * g.cl + 0 + g.cl <= d * g.cl + 0
        /\ d < c => d * g.cl + 0 + g.cl <= c * g.cl + 0
        /\ r < q => r * g.rl + 0 + g.rl <= q * g.rl + 0
        /\ q < r => q * g.rl + 0 + g.rl <= r * g.rl + 0
    <3>1. g.cl \in Nat /\ g.rl \in Nat /\ 0 + g.cl <= g.cl /\ 0 + g.rl <= g.rl
      BY <1>2
    <3> QED
      BY <3>1, CellsApart
  <2>5. c < d \/ d < c \/ r < q \/ q < r
    BY <2>2
  <2> QED
    BY <1>2, <1>4, <2>1, <2>3, <2>4, <2>5 DEF Apart
<1>7. Measured'
  BY <1>1, <1>5 DEF ApartInv, Measured
<1>8. AreasApart'
  BY <1>1, <1>6 DEF ApartInv, AreasApart, Apart
<1>9. ASSUME NEW a \in areas' PROVE OnGrid(a)'
  <2>1. CASE a \in areas
    BY <1>1, <2>1 DEF ApartInv, OnGrid
  <2>2. CASE a = n
    BY <1>1, <1>4, <2>2 DEF OnGrid
  <2> QED
    BY <1>1, <2>1, <2>2
<1> QED
  BY <1>1, <1>7, <1>8, <1>9 DEF ApartInv

(* An area lies in the stratum of its number, and strata do not intersect.  *)
LEMMA ApartPlaceInStratum ==
  ASSUME ApartInv, NEW u \in 0 .. StratumCols, NEW v \in 0 .. StratumRows, PlaceInStratum(u, v)
  PROVE  ApartInv'
<1> DEFINE SC == StratumCols
           SR == StratumRows
           n == [aid |-> count,
                 x |-> g.sf_x + (count % param.cols) * SC + u,
                 y |-> g.sf_y + (count \div param.cols) * SR + v]
<1>1. /\ UNCHANGED <<pc, kind, g, param, x, y>> /\ pc = "strata" /\ kind # "MOVINGWINDOW"
      /\ u < SC - g.cl /\ v < SR - g.rl
      /\ areas' = areas \cup {n} /\ count' = count + 1
  BY DEF PlaceInStratum, ApartInv
<1>2. /\ g.cl \in Nat \ {0} /\ g.rl \in Nat \ {0} /\ g.rows \in Nat /\ g.cols \in Nat
      /\ g.sf_x \in Int /\ g.sf_y \in Int /\ count \in Nat
      /\ param.rows \in Nat \ {0} /\ param.cols \in Nat \ {0}
  BY <1>1 DEF ApartInv, Measured
<1>3. SC \in Nat /\ SR \in Nat
  BY <1>2, Remainder DEF StratumCols, StratumRows
<1>4. u \in Nat /\ v \in Nat /\ u + g.cl <= SC /\ v + g.rl <= SR
  BY <1>1, <1>2, <1>3
<1>5. OfStratum(n, count)
  BY <1>4 DEF OfStratum
<1> HIDE DEF SC, SR, n
<1>6. ASSUME NEW a \in areas PROVE Apart(a, n) /\ Apart(n, a)
  <2>1. PICK k \in 0 .. count - 1 : OfStratum(a, k)
    BY <1>1 DEF ApartInv
  <2>2. PICK dx \in Nat, dy \in Nat :
          /\ dx + g.cl <= SC /\ dy + g.rl <= SR
          /\ a.x = g.sf_x + (k % param.cols) * SC + dx
          /\ a.y = g.sf_y + (k \div param.cols) * SR + dy
    BY <2>1 DEF OfStratum, SC, SR
  <2> DEFINE c == count % param.cols
             r == count \div param.cols
             d == k % param.cols
             q == k \div param.cols
  <2>3. /\ c \in Nat /\ r \in Nat /\ d \in Nat /\ q \in Nat
        /\ count = r * param.cols + c /\ k = q * param.cols + d
    <3>1. k \in Nat
      BY <1>2
    <3> QED
      BY <1>2, <3>1, Remainder
  <2>4. n.x = g.sf_x + c * SC + u /\ n.y = g.sf_y + r * SR + v
    BY DEF n, SC, SR
  <2>5. a.x = g.sf_x + d * SC + dx /\ a.y = g.sf_y + q * SR + dy
    BY <2>2
  <2> HIDE DEF c, r, d, q
  <2>6. c # d \/ r # q
    BY <1>2, <2>3
  <2>7. /\ c < d => c * SC + u + g.cl <= d * SC + dx
        /\ d < c => d * SC + dx + g.cl <= c * SC + u
        /\ r < q => r * SR + v + g.rl <= q * SR + dy
        /\ q < r => q * SR + dy + g.rl <= r * SR + v
    BY <1>2, <1>3, <1>4, <2>2, <2>3, CellsApart
  <2>8. c * SC \in Nat /\ d * SC \in Nat /\ r * SR \in Nat /\ q * SR \in Nat
    BY <1>3, <2>3
  <2>9. c < d \/ d < c \/ r < q \/ q < r
    BY <2>3, <2>6
  <2> QED
    BY <1>2, <1>4, <2>2, <2>4, <2>5, <2>7, <2>8, <2>9 DEF Apart
<1>7. n.x \in Int /\ n.y \in Int
  <2>1. (count % param.cols) * SC \in Int /\ (count \div param.cols) * SR \in Int
    BY <1>2, <1>3, Remainder
  <2> QED
    BY <1>2, <1>4, <2>1 DEF n, SC, SR
<1>8. Measured'
  BY <1>1, <1>7 DEF ApartInv, Measured
<1>9. AreasApart'
  BY <1>1, <1>6 DEF ApartInv, AreasApart, Apart
<1>10. ASSUME NEW a \in areas' PROVE \E k \in 0 .. count' - 1 : OfStratum(a, k)'
  <2>1. ASSUME NEW k, OfStratum(a, k) PROVE OfStratum(a, k)'
    BY <1>1, <2>1 DEF OfStratum, StratumCols, StratumRows
  <2>2. CASE a \in areas
    <3>1. PICK k \in 0 .. count - 1 : OfStratum(a, k)
      BY <1>1, <2>2 DEF ApartInv
    <3>2. k \in 0 .. count' - 1
      BY <1>1, <1>2
    <3> QED
      BY <2>1, <3>1, <3>2
  <2>3. CASE a = n
    <3>1. count \in 0 .. count' - 1
      BY <1>1, <1>2
    <3> QED
      BY <1>5, <2>1, <2>3, <3>1
  <2> QED
    BY <1>1, <2>2, <2>3
<1> QED
  BY <1>1, <1>8, <1>9, <1>10 DEF ApartInv

(* Every step keeps the areas apart.                                         *)
LEMMA ApartStep == ASSUME ApartInv, [Next]_vars PROVE ApartInv'
<1>1. CASE UNCHANGED vars
  <2>1. UNCHANGED <<pc, kind, g, x, y, count, param, areas>>
    BY <1>1 DEF vars
  <2>2. Measured' /\ AreasApart'
    BY <2>1 DEF ApartInv, Measured, AreasApart, Apart
  <2>3. ASSUME NEW a, NEW k
        PROVE  (Behind(a)' <=> Behind(a)) /\ (OnGrid(a)' <=> OnGrid(a)) /\ (OfStratum(a, k)' <=> OfStratum(a, k))
    BY <2>1 DEF Behind, OnGrid, OfStratum, StratumCols, StratumRows
  <2> QED
    BY <2>1, <2>2, <2>3 DEF ApartInv
<1>2. CASE MovingWindow \/ Contiguous \/ (\E d \in Dists : NonContiguous(d)) \/ RandomStarts \/ StrataStart
  BY <1>2, ApartDispose, RliAreasAssumption
<1>3. CASE StratumFull \/ Listed
  BY <1>3 DEF StratumFull, Listed, ApartInv, Measured, AreasApart, Apart
<1>4. CASE Generate
  BY <1>4, ApartGenerate
<1>5. CASE NoMore
  BY <1>5, ApartNoMore
<1>6. ASSUME NEW p \in 0 .. MaxUnits - 1, PlaceUnit(p) PROVE ApartInv'
  BY <1>6, ApartPlaceUnit
<1>7. ASSUME NEW u \in 0 .. StratumCols, NEW v \in 0 .. StratumRows, PlaceInStratum(u, v) PROVE ApartInv'
  BY <1>7, ApartPlaceInStratum
<1> QED
  BY <1>1, <1>2, <1>3, <1>4, <1>5, <1>6, <1>7 DEF Next

(***************************************************************************)
(* The areas of every disposition but the moving window do not intersect,   *)
(* masked or not: for frames, areas, distances and strata of any size, and  *)
(* whatever is drawn at random.                                             *)
(***************************************************************************)
THEOREM RliAreasApart == Spec => []AreasApart
<1>1. ASSUME Init PROVE ApartInv
  BY <1>1, ApartInit, RliAreasAssumption
<1>2. ASSUME ApartInv, [Next]_vars PROVE ApartInv'
  BY <1>2, ApartStep
<1>3. ApartInv => AreasApart
  BY DEF ApartInv
<1> QED
  BY <1>1, <1>2, <1>3, PTL DEF Spec
-----------------------------------------------------------------------------
(* What is missing of the areas: nothing behind the place where a generator *)
(* of windows or tiles stands, the c-th place of the r-th row, and no       *)
(* stratum of an earlier number.                                            *)
Across == g.cols \div g.add_col
Down == g.rows \div g.add_row
Spot(i, j) == <<g.sf_x + i * g.add_col, g.sf_y + j * g.add_row>>
Passed(s, c, r) ==
    \E i \in 0 .. Across - 1, j \in Nat : (j < r \/ (j = r /\ i < c)) /\ s = Spot(i, j)
Stands(px, py, c, r) ==
    /\ c \in 0 .. Across /\ r \in 0 .. Down /\ (r = Down => c = 0)
    /\ <<px, py>> = Spot(c, r)
    /\ \A s : s \in Taken <=> Passed(s, c, r)

SideBySide == kind \in {"MOVINGWINDOW", "SYSTEMATICCONTIGUOUS"}
Fitted ==
    SideBySide /\ pc = "generate" =>
        /\ Fits => \E c, r \in Nat : Stands(x, y, c, r) /\ (zeros > 0 => r = Down)
        /\ ~Fits => areas = {}
Framed ==
    /\ frame.rows \in Nat /\ frame.cols \in Nat
    /\ g.masked = FALSE /\ g.sf_x = frame.x /\ g.sf_y = frame.y
    /\ SideBySide => g.dist = 0 /\ (pc \in {"dispose", "generate"})
    /\ pc = "generate" => kind \in Generators
    /\ pc \in {"random", "strata"} => g.rows = frame.rows /\ g.cols = frame.cols
    /\ pc = "dispose" => zeros = 0
    /\ pc = "random" => kind = "RANDOMNONOVERLAPPING"
    /\ pc = "strata" \/ (pc = "listed" /\ kind = "STRATIFIEDRANDOM") => count \in 0 .. param.rows * param.cols
StrataFilled ==
    pc \in {"strata", "listed"} /\ kind = "STRATIFIEDRANDOM" =>
        /\ \A k \in 0 .. count - 1 : \E a \in areas : OfStratum(a, k)
        /\ pc = "listed" => count = param.rows * param.cols
MissingInv == ApartInv /\ Undisposed /\ Disposed /\ Framed /\ Fitted /\ StrataFilled

(* There is room for one more in n iff fewer than n \div w are before it.   *)
LEMMA RoomFor ==
  ASSUME NEW n \in Nat, NEW w \in Nat \ {0}, NEW c \in Nat
  PROVE  n - c * w >= w <=> c < n \div w
<1> DEFINE q == n \div w
           m == n % w
<1>1. q \in Nat /\ m \in Nat /\ m < w /\ n = q * w + m
  BY Remainder
<1> HIDE DEF q, m
<1>2. c * w \in Nat /\ q * w \in Nat
  BY <1>1, SMT
<1>3. c < q => c * w + 0 + w <= q * w + 0
  BY <1>1, CellsApart
<1>4. q < c => q * w + 0 + w <= c * w + 0
  BY <1>1, CellsApart
<1> QED
  BY <1>1, <1>2, <1>3, <1>4 DEF q

(* What a generator of windows or tiles measures.                           *)
LEMMA Sides ==
  ASSUME MissingInv, SideBySide, pc = "generate", Fits
  PROVE  /\ g.cols \in Nat /\ g.rows \in Nat /\ g.add_col \in Nat \ {0} /\ g.add_row \in Nat \ {0}
         /\ g.add_col <= g.cols /\ g.add_row <= g.rows /\ g.dist = 0 /\ ~g.masked
         /\ g.sf_x \in Int /\ g.sf_y \in Int /\ Across \in Nat \ {0} /\ Down \in Nat \ {0}
<1>1. /\ g.rl \in Nat \ {0} /\ g.cl \in Nat \ {0} /\ g.sf_x \in Int /\ g.sf_y \in Int
      /\ g.cl <= g.cols /\ g.rl <= g.rows /\ g.dist = 0 /\ ~g.masked
  BY DEF MissingInv, ApartInv, Measured, Framed, Fits
<1>2. /\ g.cols \in Nat /\ g.rows \in Nat /\ g.add_col \in Nat \ {0} /\ g.add_row \in Nat \ {0}
      /\ g.add_col <= g.cl /\ g.add_row <= g.rl
  BY <1>1 DEF MissingInv, Disposed, Framed
<1>3. g.cols - 0 * g.add_col >= g.add_col /\ g.rows - 0 * g.add_row >= g.add_row
  BY <1>1, <1>2
<1>4. 0 < Across /\ 0 < Down
  BY <1>2, <1>3, RoomFor DEF Across, Down
<1>5. Across \in Nat /\ Down \in Nat
  BY <1>2, Remainder DEF Across, Down
<1> QED
  BY <1>1, <1>2, <1>4, <1>5

(* A full row is left for the next one, and what is behind stays.           *)
LEMMA NextStands ==
  ASSUME MissingInv, SideBySide, pc = "generate", Fits,
         NEW c \in Nat, NEW r \in Nat, Stands(x, y, c, r)
  PROVE  \E d \in Nat, q \in Nat :
             /\ Stands(NextX, NextY, d, q) /\ d < Across
             /\ RoomBelow <=> q < Down
             /\ r = Down => q = Down
<1>1. /\ g.cols \in Nat /\ g.rows \in Nat /\ g.add_col \in Nat \ {0} /\ g.add_row \in Nat \ {0}
      /\ g.dist = 0 /\ ~g.masked
      /\ g.sf_x \in Int /\ g.sf_y \in Int /\ Across \in Nat \ {0} /\ Down \in Nat \ {0}
  BY Sides
<1>2. /\ c \in 0 .. Across /\ r \in 0 .. Down /\ (r = Down => c = 0)
      /\ x = g.sf_x + c * g.add_col /\ y = g.sf_y + r * g.add_row
      /\ \A s : s \in Taken <=> Passed(s, c, r)
  BY DEF Stands, Spot
<1>3. RowSpent <=> c = Across
  <2>1. c * g.add_col \in Nat
    BY <1>1, SMT
  <2>2. g.cols - x + g.sf_x = g.cols - c * g.add_col
    BY <1>1, <1>2, <2>1
  <2>3. g.cols - c * g.add_col >= g.add_col <=> c < Across
    BY <1>1, RoomFor DEF Across
  <2> QED
    BY <1>1, <1>2, <2>1, <2>2, <2>3 DEF RowSpent
<1>4. ASSUME NEW q \in 0 .. Down, NextY = g.sf_y + q * g.add_row PROVE RoomBelow <=> q < Down
  <2>1. q * g.add_row \in Nat
    BY <1>1, SMT
  <2>2. g.rows - NextY + g.sf_y = g.rows - q * g.add_row
    BY <1>1, <1>4, <2>1
  <2>3. g.rows - q * g.add_row >= g.add_row <=> q < Down
    BY <1>1, RoomFor DEF Down
  <2> QED
    BY <1>1, <2>2, <2>3 DEF RoomBelow
<1>5. CASE c < Across
  <2>1. NextX = x /\ NextY = y
    BY <1>2, <1>3, <1>5 DEF NextX, NextY
  <2>2. Stands(NextX, NextY, c, r)
    BY <2>1
  <2> QED
    BY <1>2, <1>4, <1>5, <2>1, <2>2
<1>6. CASE c = Across
  <2>1. r < Down /\ r + 1 \in 0 .. Down
    BY <1>1, <1>2, <1>6
  <2>2. NextX = g.sf_x + 0 * g.add_col /\ NextY = g.sf_y + (r + 1) * g.add_row
    <3>1. NextX = g.sf_x /\ NextY = g.sf_y + r * g.add_row + g.add_row
      BY <1>1, <1>2, <1>3, <1>6 DEF NextX, NextY
    <3>2. (r + 1) * g.add_row = r * g.add_row + g.add_row
      <4>1. r \in Int /\ g.add_row \in Int
        BY <1>1
      <4> QED
        BY <4>1, NextRow
    <3>3. r * g.add_row \in Nat
      BY <1>1, SMT
    <3> QED
      BY <1>1, <3>1, <3>2, <3>3
  <2>3. \A s : Passed(s, c, r) <=> Passed(s, 0, r + 1)
    BY <1>6 DEF Passed
  <2>4. Stands(NextX, NextY, 0, r + 1)
    BY <1>1, <1>2, <2>1, <2>2, <2>3 DEF Stands, Spot
  <2> QED
    BY <1>1, <1>4, <2>1, <2>2, <2>4
<1> QED
  BY <1>1, <1>2, <1>5, <1>6

(* One more area has been passed.                                           *)
LEMMA OneMore ==
  ASSUME NEW c \in Nat, NEW r \in Nat, NEW s, c < Across, Across \in Nat
  PROVE  Passed(s, c + 1, r) <=> Passed(s, c, r) \/ s = Spot(c, r)
<1>1. ASSUME Passed(s, c + 1, r) PROVE Passed(s, c, r) \/ s = Spot(c, r)
  <2>1. PICK i \in 0 .. Across - 1, j \in Nat : (j < r \/ (j = r /\ i < c + 1)) /\ s = Spot(i, j)
    BY <1>1 DEF Passed
  <2>2. j < r \/ (j = r /\ i < c) \/ (j = r /\ i = c)
    BY <2>1
  <2> QED
    BY <2>1, <2>2 DEF Passed
<1>2. ASSUME Passed(s, c, r) PROVE Passed(s, c + 1, r)
  <2>1. PICK i \in 0 .. Across - 1, j \in Nat : (j < r \/ (j = r /\ i < c)) /\ s = Spot(i, j)
    BY <1>2 DEF Passed
  <2>2. j < r \/ (j = r /\ i < c + 1)
    BY <2>1
  <2> QED
    BY <2>1, <2>2 DEF Passed
<1>3. s = Spot(c, r) => Passed(s, c + 1, r)
  <2>1. c \in 0 .. Across - 1 /\ c < c + 1
    OBVIOUS
  <2> QED
    BY <2>1 DEF Passed
<1> QED
  BY <1>1, <1>2, <1>3

LEMMA FittedGenerate == ASSUME MissingInv, Generate PROVE Fitted'
<1>1. /\ UNCHANGED <<pc, kind, g, frame, zeros>> /\ pc = "generate" /\ Fits /\ RoomBelow
      /\ areas' = areas \cup {[aid |-> count, x |-> NextX, y |-> NextY]}
      /\ x' = NextX + g.add_col /\ y' = NextY
  BY DEF Generate
<1> SUFFICES ASSUME SideBySide
             PROVE  \E c, r \in Nat : Stands(x, y, c, r)' /\ (zeros' > 0 => r = Down')
  BY <1>1 DEF Fitted, SideBySide, Fits
<1>2. PICK c0 \in Nat, r0 \in Nat : Stands(x, y, c0, r0) /\ (zeros > 0 => r0 = Down)
  BY <1>1 DEF MissingInv, Fitted
<1>3. PICK c \in Nat, r \in Nat :
          /\ Stands(NextX, NextY, c, r) /\ c < Across
          /\ RoomBelow <=> r < Down
          /\ r0 = Down => r = Down
  BY <1>1, <1>2, NextStands
<1>4. /\ g.add_col \in Nat \ {0} /\ g.sf_x \in Int /\ g.sf_y \in Int
      /\ Across \in Nat /\ Down \in Nat
  BY <1>1, Sides
<1>5. r < Down /\ ~(zeros > 0)
  BY <1>1, <1>2, <1>3, <1>4
<1>6. Across' = Across /\ Down' = Down /\ \A i, j : Spot(i, j)' = Spot(i, j)
  BY <1>1 DEF Across, Down, Spot
<1>7. Taken' = Taken \cup {<<NextX, NextY>>}
  <2>1. [aid |-> count, x |-> NextX, y |-> NextY].x = NextX /\ [aid |-> count, x |-> NextX, y |-> NextY].y = NextY
    OBVIOUS
  <2> QED
    BY <1>1, <2>1 DEF Taken
<1>8. <<x', y'>> = Spot(c + 1, r)
  <2>1. (c + 1) * g.add_col = c * g.add_col + g.add_col
    <3>1. c \in Int /\ g.add_col \in Int
      BY <1>4
    <3> QED
      BY <3>1, NextRow
  <2>2. c * g.add_col \in Nat
    BY <1>4, SMT
  <2>3. NextX = g.sf_x + c * g.add_col /\ NextY = g.sf_y + r * g.add_row
    BY <1>3 DEF Stands, Spot
  <2>4. x' = g.sf_x + (c + 1) * g.add_col /\ y' = g.sf_y + r * g.add_row
    BY <1>1, <1>4, <2>1, <2>2, <2>3
  <2> QED
    BY <2>4 DEF Spot
<1>9. ASSUME NEW s PROVE s \in Taken' <=> Passed(s, c + 1, r)'
  <2>1. Passed(s, c + 1, r)' <=> Passed(s, c + 1, r)
    BY <1>6 DEF Passed
  <2>2. s \in Taken <=> Passed(s, c, r)
    BY <1>3 DEF Stands
  <2>3. <<NextX, NextY>> = Spot(c, r)
    BY <1>3 DEF Stands
  <2>4. Passed(s, c + 1, r) <=> Passed(s, c, r) \/ s = Spot(c, r)
    BY <1>3, <1>4, OneMore
  <2> QED
    BY <1>7, <2>1, <2>2, <2>3, <2>4
<1>10. c + 1 \in 0 .. Across /\ r \in 0 .. Down /\ r # Down /\ c + 1 \in Nat
  BY <1>3, <1>4, <1>5
<1>11. Stands(x, y, c + 1, r)'
  BY <1>6, <1>8, <1>9, <1>10 DEF Stands
<1> QED
  BY <1>1, <1>5, <1>10, <1>11

LEMMA FittedNoMore == ASSUME MissingInv, NoMore PROVE Fitted'
<1>1. /\ UNCHANGED <<pc, kind, g, frame, areas>> /\ pc = "generate" /\ (~Fits \/ ~RoomBelow)
      /\ Fits => x' = NextX /\ y' = NextY
  BY DEF NoMore
<1>2. Across' = Across /\ Down' = Down /\ Taken' = Taken /\ \A i, j : Spot(i, j)' = Spot(i, j)
  BY <1>1 DEF Across, Down, Spot, Taken
<1>3. ASSUME SideBySide, Fits PROVE \E c, r \in Nat : Stands(x, y, c, r)' /\ (zeros' > 0 => r = Down')
  <2>1. PICK c0 \in Nat, r0 \in Nat : Stands(x, y, c0, r0)
    BY <1>1, <1>3 DEF MissingInv, Fitted
  <2>2. PICK c \in Nat, r \in Nat : Stands(NextX, NextY, c, r) /\ (RoomBelow <=> r < Down)
    BY <1>1, <1>3, <2>1, NextStands
  <2>3. r = Down
    <3>1. Down \in Nat
      BY <1>1, <1>3, Sides
    <3>2. r \in 0 .. Down /\ ~(r < Down)
      BY <1>1, <1>3, <2>2 DEF Stands
    <3> QED
      BY <3>1, <3>2
  <2>4. \A s : Passed(s, c, r)' <=> Passed(s, c, r)
    BY <1>2 DEF Passed
  <2>5. Stands(x, y, c, r)'
    BY <1>1, <1>2, <1>3, <2>2, <2>4 DEF Stands
  <2> QED
    BY <1>2, <2>3, <2>5
<1> QED
  BY <1>1, <1>3 DEF MissingInv, Fitted, SideBySide, Fits

(* Disposing: the generator stands at the first place, and nothing is       *)
(* behind it.                                                               *)
LEMMA FittedDispose ==
  ASSUME MissingInv, MovingWindow \/ Contiguous \/ (\E d \in Dists : NonContiguous(d)),
         (ApartInv /\ Disposed /\ Framed /\ Undisposed)'
  PROVE  Fitted'
<1>1. /\ pc = "dispose" /\ areas = {} /\ areas' = {} /\ zeros' = 0 /\ zeros = 0
      /\ pc' = "generate" /\ kind' = kind /\ frame' = frame
  BY DEF MissingInv, ApartInv, Framed, MovingWindow, Contiguous, NonContiguous
<1> SUFFICES ASSUME SideBySide', Fits' PROVE Stands(x, y, 0, 0)'
  BY <1>1 DEF Fitted
<1>2. x' = x /\ y' = y /\ x = g.sf_x /\ y = g.sf_y /\ g'.sf_x = g.sf_x /\ g'.sf_y = g.sf_y
  BY <1>1 DEF MissingInv, Undisposed, Framed, SideBySide, MovingWindow, Contiguous, NonContiguous
<1>3. /\ g'.add_col \in Nat \ {0} /\ g'.add_row \in Nat \ {0} /\ g'.cols \in Nat /\ g'.rows \in Nat
      /\ g'.sf_x \in Int /\ g'.sf_y \in Int /\ g'.add_col <= g'.cols /\ g'.add_row <= g'.rows
  <2>1. /\ g'.rl \in Nat \ {0} /\ g'.cl \in Nat \ {0} /\ g'.sf_x \in Int /\ g'.sf_y \in Int
        /\ g'.cl <= g'.cols /\ g'.rl <= g'.rows /\ g'.dist = 0
    BY DEF ApartInv, Measured, Framed, Fits
  <2>2. /\ g'.add_col \in Nat \ {0} /\ g'.add_row \in Nat \ {0} /\ g'.cols \in Nat /\ g'.rows \in Nat
        /\ g'.add_col <= g'.cl /\ g'.add_row <= g'.rl
    BY <1>1, <2>1 DEF Disposed, Framed
  <2> QED
    BY <2>1, <2>2
<1>4. Across' \in Nat \ {0} /\ Down' \in Nat \ {0}
  <2>1. g'.cols - 0 * g'.add_col >= g'.add_col /\ g'.rows - 0 * g'.add_row >= g'.add_row
    BY <1>3
  <2>2. 0 < g'.cols \div g'.add_col /\ 0 < g'.rows \div g'.add_row
    BY <1>3, <2>1, RoomFor
  <2>3. g'.cols \div g'.add_col \in Nat /\ g'.rows \div g'.add_row \in Nat
    BY <1>3, Remainder
  <2> QED
    BY <2>2, <2>3 DEF Across, Down
<1>5. <<x', y'>> = Spot(0, 0)'
  BY <1>2, <1>3 DEF Spot
<1>6. \A s : s \notin Taken' /\ ~Passed(s, 0, 0)'
  BY <1>1 DEF Taken, Passed
<1> QED
  BY <1>4, <1>5, <1>6 DEF Stands

(* An area is put in the stratum of the next number.                        *)
LEMMA StrataPlace ==
  ASSUME MissingInv, NEW u \in 0 .. StratumCols, NEW v \in 0 .. StratumRows, PlaceInStratum(u, v)
  PROVE  StrataFilled'
<1> DEFINE n == [aid |-> count,
                 x |-> g.sf_x + (count % param.cols) * StratumCols + u,
                 y |-> g.sf_y + (count \div param.cols) * StratumRows + v]
<1>1. /\ UNCHANGED <<pc, kind, g, param>> /\ pc = "strata"
      /\ u < StratumCols - g.cl /\ v < StratumRows - g.rl
      /\ areas' = areas \cup {n} /\ count' = count + 1
  BY DEF PlaceInStratum
<1>2. /\ g.cl \in Nat \ {0} /\ g.rl \in Nat \ {0} /\ g.rows \in Nat /\ g.cols \in Nat /\ count \in Nat
      /\ param.rows \in Nat \ {0} /\ param.cols \in Nat \ {0}
  BY <1>1 DEF MissingInv, ApartInv, Measured
<1>3. StratumCols \in Nat /\ StratumRows \in Nat
  BY <1>2, Remainder DEF StratumCols, StratumRows
<1>4. u \in Nat /\ v \in Nat /\ u + g.cl <= StratumCols /\ v + g.rl <= StratumRows
  BY <1>1, <1>2, <1>3
<1>5. OfStratum(n, count)
  BY <1>4 DEF OfStratum
<1> HIDE DEF n
<1>6. ASSUME NEW a, NEW k, OfStratum(a, k) PROVE OfStratum(a, k)'
  BY <1>1, <1>6 DEF OfStratum, StratumCols, StratumRows
<1>7. ASSUME NEW k \in 0 .. count' - 1, kind = "STRATIFIEDRANDOM" PROVE \E a \in areas' : OfStratum(a, k)'
  <2>1. CASE k = count
    BY <1>1, <1>5, <1>6, <2>1
  <2>2. CASE k # count
    <3>1. k \in 0 .. count - 1
      BY <1>1, <1>2, <2>2
    <3>2. PICK a \in areas : OfStratum(a, k)
      BY <1>1, <1>7, <3>1 DEF MissingInv, StrataFilled
    <3> QED
      BY <1>1, <1>6, <3>2
  <2> QED
    BY <2>1, <2>2
<1> QED
  BY <1>1, <1>7 DEF StrataFilled

LEMMA MissingInit == ASSUME Init, Unmasked, RliAreasAssumption PROVE MissingInv
<1>1. PICK m \in MaskChoices, r \in AreaSides, c \in AreaSides, u \in Garbage, v \in Garbage :
        g = [sf_x |-> IF m THEN u ELSE frame.x, sf_y |-> IF m THEN v ELSE frame.y,
             rows |-> frame.rows, cols |-> frame.cols, rl |-> r, cl |-> c,
             dist |-> 0, add_row |-> 0, add_col |-> 0, masked |-> m]
  BY DEF Init
<1>2. m = FALSE
  BY DEF Unmasked, RliAreasAssumption
<1>3. frame.rows \in Nat /\ frame.cols \in Nat
  BY DEF Init, Frames, RliAreasAssumption
<1> QED
  BY <1>1, <1>2, <1>3, ApartInit DEF Init, MissingInv, Undisposed, Disposed, Framed, Fitted, StrataFilled

(* A disposition is chosen.                                                 *)
LEMMA MissingDispose ==
  ASSUME MissingInv, RliAreasAssumption, ApartInv',
         MovingWindow \/ Contiguous \/ (\E d \in Dists : NonContiguous(d)) \/ RandomStarts \/ StrataStart
  PROVE  MissingInv'
<1>1. /\ pc = "dispose" /\ zeros = 0 /\ areas = {} /\ areas' = {} /\ UNCHANGED <<kind, frame, param, zeros>>
      /\ g.masked = FALSE /\ g.sf_x = frame.x /\ g.sf_y = frame.y
      /\ frame.rows \in Nat /\ frame.cols \in Nat /\ g.rows = frame.rows /\ g.cols = frame.cols /\ g.dist = 0
      /\ g.rl \in Nat \ {0} /\ g.cl \in Nat \ {0} /\ param.rows \in Nat \ {0} /\ param.cols \in Nat \ {0}
  BY DEF MissingInv, ApartInv, Measured, Framed, Undisposed, MovingWindow, Contiguous, NonContiguous,
     RandomStarts, StrataStart
<1>2. CASE MovingWindow \/ Contiguous \/ \E d \in Dists : NonContiguous(d)
  <2>1. pc' = "generate" /\ kind' # "STRATIFIEDRANDOM" /\ kind' \in Generators
    BY <1>1, <1>2 DEF MovingWindow, Contiguous, NonContiguous, Generators
  <2>2. /\ g'.masked = FALSE /\ g'.sf_x = frame.x /\ g'.sf_y = frame.y
        /\ SideBySide => g'.dist = 0
        /\ Disposed'
    <3>1. CASE MovingWindow
      BY <1>1, <3>1 DEF MovingWindow, Disposed
    <3>2. CASE Contiguous
      BY <1>1, <3>2 DEF Contiguous, Disposed
    <3>3. ASSUME NEW d \in Dists, NonContiguous(d)
          PROVE  /\ g'.masked = FALSE /\ g'.sf_x = frame.x /\ g'.sf_y = frame.y
                 /\ ~SideBySide /\ Disposed'
      <4>1. /\ g'.masked = FALSE /\ g'.sf_x = frame.x /\ g'.sf_y = frame.y
            /\ kind = "SYSTEMATICNONCONTIGUOUS" /\ kind' = kind
            /\ g'.dist = d /\ g'.add_row = g.rl + d /\ g'.add_col = g.cl + d
            /\ g'.rl = g.rl /\ g'.cl = g.cl /\ g'.rows = g.rows /\ g'.cols = g.cols
        <5>1. /\ kind = "SYSTEMATICNONCONTIGUOUS"
              /\ g' = [g EXCEPT !.dist = d, !.add_row = g.rl + d, !.add_col = g.cl + d]
          BY <3>3 DEF NonContiguous
        <5>2. /\ g'.masked = g.masked /\ g'.sf_x = g.sf_x /\ g'.sf_y = g.sf_y
              /\ g'.dist = d /\ g'.add_row = g.rl + d /\ g'.add_col = g.cl + d
              /\ g'.rl = g.rl /\ g'.cl = g.cl /\ g'.rows = g.rows /\ g'.cols = g.cols
          BY <5>1
        <5> QED
          BY <1>1, <5>1, <5>2
      <4> QED
        BY <1>1, <4>1 DEF Disposed, SideBySide
    <3> QED
      BY <1>2, <3>1, <3>2, <3>3
  <2>3. Framed' /\ Undisposed' /\ StrataFilled'
    BY <1>1, <2>1, <2>2 DEF Framed, SideBySide, Undisposed, StrataFilled
  <2> QED
    BY <1>2, <2>2, <2>3, FittedDispose DEF MissingInv
<1>3. CASE RandomStarts \/ StrataStart
  <2>1. /\ pc' \in {"fatal", "random", "strata"} /\ kind \in {"RANDOMNONOVERLAPPING", "STRATIFIEDRANDOM"}
        /\ count' = 0 /\ g' = g /\ (pc' = "strata" => kind = "STRATIFIEDRANDOM")
        /\ (pc' = "random" => kind = "RANDOMNONOVERLAPPING")
    BY <1>3 DEF RandomStarts, StrataStart
  <2>2. 0 \in 0 .. param.rows * param.cols
    <3>1. param.rows * param.cols \in Nat
      BY <1>1, SMT
    <3> QED
      BY <3>1
  <2> QED
    BY <1>1, <2>1, <2>2 DEF MissingInv, Framed, Fitted, SideBySide, Undisposed, Disposed, StrataFilled
<1> QED
  BY <1>2, <1>3

(* The other steps of disposeAreas, and the calls of next.                  *)
LEMMA MissingStep ==
  ASSUME MissingInv, RliAreasAssumption, ApartInv', [Next]_vars PROVE MissingInv'
<1>1. CASE UNCHANGED vars
  <2>1. UNCHANGED <<pc, kind, frame, g, x, y, count, param, areas, zeros>>
    BY <1>1 DEF vars
  <2>2. /\ Across' = Across /\ Down' = Down /\ \A i, j : Spot(i, j)' = Spot(i, j)
        /\ Taken' = Taken /\ \A a, k : OfStratum(a, k)' <=> OfStratum(a, k)
    BY <2>1 DEF Across, Down, Spot, Taken, OfStratum, StratumCols, StratumRows
  <2>3. \A c, r : Stands(x, y, c, r)' <=> Stands(x, y, c, r)
    <3>1. \A s, c, r : Passed(s, c, r)' <=> Passed(s, c, r)
      BY <2>2 DEF Passed
    <3> QED
      BY <2>1, <2>2, <3>1 DEF Stands
  <2>4. Fitted'
    BY <2>1, <2>2, <2>3 DEF MissingInv, Fitted, SideBySide, Fits
  <2>5. StrataFilled'
    BY <2>1, <2>2 DEF MissingInv, StrataFilled
  <2> QED
    BY <2>1, <2>4, <2>5 DEF MissingInv, Undisposed, Disposed, Framed, SideBySide
<1>2. CASE MovingWindow \/ Contiguous \/ (\E d \in Dists : NonContiguous(d)) \/ RandomStarts \/ StrataStart
  BY <1>2, MissingDispose
<1>3. CASE Generate \/ NoMore
  <2>1. UNCHANGED <<pc, kind, frame, g, param>> /\ pc = "generate"
    BY <1>3 DEF Generate, NoMore
  <2>2. Fitted'
    BY <1>3, FittedGenerate, FittedNoMore
  <2> QED
    BY <2>1, <2>2 DEF MissingInv, Undisposed, Disposed, Framed, SideBySide, StrataFilled
<1>4. ASSUME NEW p \in 0 .. MaxUnits - 1, PlaceUnit(p) PROVE MissingInv'
  <2>1. UNCHANGED <<pc, kind, frame, g, param, zeros>> /\ pc = "random"
    BY <1>4 DEF PlaceUnit
  <2> QED
    BY <2>1 DEF MissingInv, Undisposed, Disposed, Framed, SideBySide, Fitted, StrataFilled
<1>5. ASSUME NEW u \in 0 .. StratumCols, NEW v \in 0 .. StratumRows, PlaceInStratum(u, v) PROVE MissingInv'
  <2>1. UNCHANGED <<pc, kind, frame, g, param, zeros>> /\ pc = "strata" /\ count < param.rows * param.cols
        /\ count' = count + 1
    BY <1>5 DEF PlaceInStratum
  <2>2. count + 1 \in 0 .. param.rows * param.cols
    <3>1. param.rows * param.cols \in Int
      <4>1. param.rows \in Int /\ param.cols \in Int
        BY DEF MissingInv, ApartInv, Measured
      <4> QED
        BY <4>1
    <3>2. count \in Nat
      BY DEF MissingInv, ApartInv, Measured
    <3> QED
      BY <2>1, <3>1, <3>2
  <2>3. StrataFilled'
    BY <1>5, StrataPlace
  <2> QED
    BY <2>1, <2>2, <2>3 DEF MissingInv, Undisposed, Disposed, Framed, SideBySide, Fitted
<1>6. CASE StratumFull
  BY <1>6 DEF StratumFull, MissingInv, Undisposed, Disposed, Framed, SideBySide, Fitted, StrataFilled
<1>7. CASE Listed
  <2>1. /\ UNCHANGED <<kind, frame, g, x, y, count, param, areas>> /\ pc' = "listed"
        /\ \/ pc = "random" /\ count = param.units
           \/ pc = "strata" /\ count = param.rows * param.cols
    BY <1>7 DEF Listed
  <2>2. \A a, k : OfStratum(a, k)' <=> OfStratum(a, k)
    BY <2>1 DEF OfStratum, StratumCols, StratumRows
  <2>3. pc = "random" => kind # "STRATIFIEDRANDOM"
    BY DEF MissingInv, Framed
  <2>4. StrataFilled' /\ Framed'
    BY <2>1, <2>2, <2>3 DEF MissingInv, StrataFilled, Framed, SideBySide
  <2> QED
    BY <2>1, <2>4 DEF MissingInv, Undisposed, Disposed, Fitted, SideBySide
<1> QED
  BY <1>1, <1>2, <1>3, <1>4, <1>5, <1>6, <1>7 DEF Next

LEMMA MissingNext == ASSUME MissingInv, [Next]_vars PROVE MissingInv'
<1>1. ApartInv'
  BY ApartStep DEF MissingInv
<1> QED
  BY <1>1, MissingStep, RliAreasAssumption

(* At the end a generator of windows or tiles has passed every place.       *)
LEMMA AllTaken ==
  ASSUME MissingInv, SideBySide, pc = "generate", Fits, zeros > 0, NEW s
  PROVE  s \in Taken <=> \E i \in 0 .. Across - 1, j \in 0 .. Down - 1 : s = Spot(i, j)
<1>1. Down \in Nat /\ Across \in Nat
  BY Sides
<1>2. PICK c \in Nat, r \in Nat : Stands(x, y, c, r) /\ r = Down
  BY DEF MissingInv, Fitted
<1>3. s \in Taken <=> Passed(s, 0, Down)
  BY <1>2 DEF Stands
<1>4. \A i, j \in Nat : (j < Down \/ (j = Down /\ i < 0)) <=> j \in 0 .. Down - 1
  BY <1>1
<1>5. 0 .. Across - 1 \subseteq Nat /\ 0 .. Down - 1 \subseteq Nat
  BY <1>1
<1> QED
  BY <1>3, <1>4, <1>5 DEF Passed

LEMMA WindowsTaken ==
  ASSUME MissingInv, pc = "generate", kind = "MOVINGWINDOW", Fits, zeros > 0
  PROVE  Taken = WindowPlaces
<1>1. /\ SideBySide /\ g.add_col = 1 /\ g.add_row = 1
      /\ g.rows = frame.rows - g.rl + 1 /\ g.cols = frame.cols - g.cl + 1
      /\ g.sf_x = frame.x /\ g.sf_y = frame.y
  BY DEF MissingInv, Disposed, Framed, SideBySide
<1>2. /\ g.cols \in Nat /\ g.rows \in Nat /\ g.sf_x \in Int /\ g.sf_y \in Int
      /\ g.rl \in Nat /\ g.cl \in Nat
  BY <1>1, Sides DEF MissingInv, ApartInv, Measured
<1>3. Across = g.cols /\ Down = g.rows
  BY <1>1, <1>2, SMT DEF Across, Down
<1>4. /\ \A i \in Int : g.sf_x + i * 1 = g.sf_x + i /\ g.sf_y + i * 1 = g.sf_y + i
      /\ g.sf_x + g.cols - 1 = frame.x + frame.cols - g.cl
      /\ g.sf_y + g.rows - 1 = frame.y + frame.rows - g.rl
  BY <1>1, <1>2 DEF MissingInv, Framed
<1>5. ASSUME NEW s
      PROVE  s \in WindowPlaces <=> \E i \in 0 .. Across - 1, j \in 0 .. Down - 1 : s = Spot(i, j)
  <2>1. ASSUME NEW i \in 0 .. Across - 1, NEW j \in 0 .. Down - 1, s = Spot(i, j) PROVE s \in WindowPlaces
    BY <1>1, <1>2, <1>3, <1>4, <2>1 DEF Spot, WindowPlaces
  <2>2. ASSUME s \in WindowPlaces PROVE \E i \in 0 .. Across - 1, j \in 0 .. Down - 1 : s = Spot(i, j)
    <3>1. PICK u \in g.sf_x .. g.sf_x + g.cols - 1, v \in g.sf_y .. g.sf_y + g.rows - 1 : s = <<u, v>>
      BY <1>1, <1>4, <2>2 DEF WindowPlaces
    <3>2. /\ u - g.sf_x \in 0 .. Across - 1 /\ v - g.sf_y \in 0 .. Down - 1
          /\ u = g.sf_x + (u - g.sf_x) /\ v = g.sf_y + (v - g.sf_y)
      BY <1>2, <1>3
    <3>3. s = Spot(u - g.sf_x, v - g.sf_y)
      BY <1>1, <1>4, <3>1, <3>2 DEF Spot
    <3> QED
      BY <3>2, <3>3
  <2> QED
    BY <2>1, <2>2
<1> QED
  BY <1>1, <1>5, AllTaken

LEMMA TilesTaken ==
  ASSUME MissingInv, pc = "generate", kind = "SYSTEMATICCONTIGUOUS", zeros > 0
  PROVE  Taken = TilePlaces
<1>1. /\ SideBySide /\ g.dist = 0 /\ g.add_col = g.cl + 0 /\ g.add_row = g.rl + 0
      /\ g.rows = frame.rows /\ g.cols = frame.cols
      /\ g.sf_x = frame.x /\ g.sf_y = frame.y
  BY DEF MissingInv, Disposed, Framed, SideBySide
<1>2. /\ g.cols \in Nat /\ g.rows \in Nat /\ g.rl \in Nat \ {0} /\ g.cl \in Nat \ {0}
      /\ g.add_col = g.cl /\ g.add_row = g.rl
  BY <1>1 DEF MissingInv, ApartInv, Measured, Framed
<1>3. /\ TilePlaces = {g.sf_x + i * g.cl : i \in 0 .. Across - 1} \X {g.sf_y + j * g.rl : j \in 0 .. Down - 1}
      /\ Across \in Nat /\ Down \in Nat
  <2>1. Across = frame.cols \div g.cl /\ Down = frame.rows \div g.rl
    BY <1>1, <1>2 DEF Across, Down
  <2>2. Across \in Nat /\ Down \in Nat
    BY <1>1, <1>2, <2>1, Remainder
  <2> QED
    BY <1>1, <2>1, <2>2 DEF TilePlaces
<1>4. CASE Fits
  <2>1. ASSUME NEW s
        PROVE  s \in TilePlaces <=> \E i \in 0 .. Across - 1, j \in 0 .. Down - 1 : s = Spot(i, j)
    BY <1>2, <1>3 DEF Spot
  <2> QED
    BY <1>1, <1>4, <2>1, AllTaken
<1>5. CASE ~Fits
  <2>1. Taken = {}
    BY <1>1, <1>5 DEF MissingInv, Fitted, Taken
  <2>2. Across = 0 \/ Down = 0
    <3>1. ~(g.cols - 0 * g.cl >= g.cl) \/ ~(g.rows - 0 * g.rl >= g.rl)
      BY <1>2, <1>5 DEF Fits
    <3>2. ~(0 < g.cols \div g.cl) \/ ~(0 < g.rows \div g.rl)
      BY <1>2, <3>1, RoomFor
    <3> QED
      BY <1>2, <1>3, <3>2 DEF Across, Down
  <2>3. TilePlaces = {}
    <3>1. 0 .. 0 - 1 = {}
      OBVIOUS
    <3> QED
      BY <1>3, <2>2, <3>1
  <2> QED
    BY <2>1, <2>3
<1> QED
  BY <1>4, <1>5

(* Every stratum has a number, and the area of that number.                 *)
LEMMA StrataSampled ==
  ASSUME MissingInv, kind = "STRATIFIEDRANDOM", pc = "listed"
  PROVE  Sampled
<1>1. /\ param.rows \in Nat \ {0} /\ param.cols \in Nat \ {0} /\ g.sf_x = frame.x /\ g.sf_y = frame.y
      /\ g.rows \in Nat /\ g.cols \in Nat /\ g.sf_x \in Int /\ g.sf_y \in Int
      /\ g.rl \in Nat /\ g.cl \in Nat
  BY DEF MissingInv, ApartInv, Measured, Framed
<1>2. StratumCols \in Nat /\ StratumRows \in Nat
  BY <1>1, Remainder DEF StratumCols, StratumRows
<1> SUFFICES ASSUME NEW r \in 0 .. param.rows - 1, NEW c \in 0 .. param.cols - 1
             PROVE  \E a \in areas : InStratum(a, r, c)
  BY DEF Sampled
<1> DEFINE k == r * param.cols + c
<1>3. r \in Nat /\ c \in Nat /\ r * param.cols \in Nat /\ c < param.cols /\ r + 1 <= param.rows
  BY <1>1, SMT
<1>4. k \in 0 .. count - 1
  <2>1. k + 1 <= param.rows * param.cols
    <3>1. r * param.cols + 0 + param.cols <= param.rows * param.cols + 0
      BY <1>1, <1>3, CellsApart
    <3> QED
      BY <1>1, <1>3, <3>1
  <2>2. count = param.rows * param.cols
    BY DEF MissingInv, StrataFilled
  <2>3. count \in Nat
    BY DEF MissingInv, ApartInv, Measured
  <2> QED
    BY <1>3, <2>1, <2>2, <2>3
<1>5. k % param.cols = c /\ k \div param.cols = r
  <2>0. k \in Nat /\ k = r * param.cols + c
    BY <1>1, <1>3
  <2> HIDE DEF k
  <2> DEFINE q == k \div param.cols
             m == k % param.cols
  <2>1. q \in Nat /\ m \in Nat /\ m < param.cols /\ r * param.cols + c = q * param.cols + m
    BY <1>1, <2>0, Remainder
  <2> HIDE DEF q, m
  <2>2. /\ r < q => r * param.cols + 0 + param.cols <= q * param.cols + 0
        /\ q < r => q * param.cols + 0 + param.cols <= r * param.cols + 0
    BY <1>1, <1>3, <2>1, CellsApart
  <2>3. r * param.cols \in Nat /\ q * param.cols \in Nat
    BY <1>1, <1>3, <2>1, SMT
  <2>4. r = q
    BY <1>1, <1>3, <2>1, <2>2, <2>3
  <2> QED
    BY <1>1, <1>3, <2>1, <2>3, <2>4 DEF q, m
<1>6. PICK a \in areas : OfStratum(a, k)
  BY <1>4 DEF MissingInv, StrataFilled
<1> HIDE DEF k
<1>7. PICK dx \in Nat, dy \in Nat :
        /\ dx + g.cl <= StratumCols /\ dy + g.rl <= StratumRows
        /\ a.x = g.sf_x + c * StratumCols + dx
        /\ a.y = g.sf_y + r * StratumRows + dy
  BY <1>5, <1>6 DEF OfStratum
<1>8. /\ (c + 1) * StratumCols = c * StratumCols + StratumCols
      /\ (r + 1) * StratumRows = r * StratumRows + StratumRows
  <2>1. c \in Int /\ r \in Int /\ StratumCols \in Int /\ StratumRows \in Int
    BY <1>2, <1>3
  <2> QED
    BY <2>1, NextRow
<1>9. c * StratumCols \in Nat /\ r * StratumRows \in Nat
  BY <1>2, <1>3, SMT
<1>10. InStratum(a, r, c)
  BY <1>1, <1>2, <1>7, <1>8, <1>9 DEF InStratum
<1> QED
  BY <1>10

(* daemon.c:504-630, list.c:86-135: when next has returned 0, a moving      *)
(* window has stood on every place of the frame (as long as it is no larger *)
(* than the places it can take), contiguous areas fill every place side by  *)
(* side, and when the list is complete every stratum has its area: for      *)
(* frames, areas and strata of any size that are not masked.                *)
THEOREM RliNoAreaMissing == ASSUME Unmasked PROVE Spec => []NoAreaMissing
<1>1. ASSUME Init PROVE MissingInv
  BY <1>1, MissingInit, RliAreasAssumption
<1>2. ASSUME MissingInv, [Next]_vars PROVE MissingInv'
  BY <1>2, MissingNext
<1>3. MissingInv => NoAreaMissing
  <2> SUFFICES ASSUME MissingInv PROVE NoAreaMissing
    OBVIOUS
  <2>1. zeros > 0 /\ SideBySide => pc = "generate"
    <3>1. ~(0 > 0)
      OBVIOUS
    <3> QED
      BY <3>1 DEF MissingInv, Framed
  <2> QED
    BY <2>1, WindowsTaken, TilesTaken, StrataSampled DEF NoAreaMissing, SideBySide
<1> QED
  BY <1>1, <1>2, <1>3, PTL DEF Spec

-----------------------------------------------------------------------------
(* An area that is drawn, from a grid or from its stratum, lies in the      *)
(* frame.                                                                   *)
LEMMA UnitInFrame ==
  ASSUME MissingInv, NEW p \in 0 .. MaxUnits - 1, PlaceUnit(p)
  PROVE  InFrame(AreaAt(p))
<1> DEFINE n == AreaAt(p)
           c == p % PerRow
           r == p \div PerRow
           down == g.rows \div g.rl
<1>1. /\ g.cl \in Nat \ {0} /\ g.rl \in Nat \ {0} /\ g.rows \in Nat /\ g.cols \in Nat
      /\ g.sf_x \in Int /\ g.sf_y \in Int /\ g.sf_x = frame.x /\ g.sf_y = frame.y
      /\ g.rows = frame.rows /\ g.cols = frame.cols
  BY DEF PlaceUnit, MissingInv, ApartInv, Measured, Framed
<1>2. PerRow \in Nat /\ down \in Nat /\ MaxUnits = down * PerRow
  BY <1>1, Remainder DEF PerRow, MaxUnits
<1>3. p \in Nat /\ p < down * PerRow /\ PerRow \in Nat \ {0}
  <2>1. down * PerRow \in Nat
    BY <1>2
  <2>2. PerRow = 0 => down * PerRow = 0
    BY <1>2
  <2>3. p \in Nat /\ p < down * PerRow
    BY <1>2, <2>1
  <2> QED
    BY <1>2, <2>2, <2>3
<1>4. c \in Nat /\ r \in Nat /\ c < PerRow /\ p = r * PerRow + c
  BY <1>3, Remainder
<1>5. n.x = g.sf_x + c * g.cl /\ n.y = g.sf_y + r * g.rl
  BY DEF AreaAt
<1> HIDE DEF n, c, r, down
<1>6. r < down
  <2>1. down < r => down * PerRow + 0 + PerRow <= r * PerRow + 0
    BY <1>2, <1>3, <1>4, CellsApart
  <2>2. r * PerRow \in Nat /\ down * PerRow \in Nat
    BY <1>2, <1>4, SMT
  <2> QED
    BY <1>2, <1>3, <1>4, <2>1, <2>2
<1>7. g.cols - c * g.cl >= g.cl /\ g.rows - r * g.rl >= g.rl
  BY <1>1, <1>4, <1>6, RoomFor DEF PerRow, down
<1>8. c * g.cl \in Nat /\ r * g.rl \in Nat
  BY <1>1, <1>4, SMT
<1> QED
  BY <1>1, <1>5, <1>7, <1>8 DEF InFrame, n

LEMMA StratumInFrame ==
  ASSUME MissingInv, NEW k \in Nat, NEW a, OfStratum(a, k), pc = "strata",
         k < param.rows * param.cols
  PROVE  InFrame(a)
<1> DEFINE c == k % param.cols
           r == k \div param.cols
<1>1. /\ g.cl \in Nat \ {0} /\ g.rl \in Nat \ {0} /\ g.rows \in Nat /\ g.cols \in Nat
      /\ g.sf_x \in Int /\ g.sf_y \in Int /\ g.sf_x = frame.x /\ g.sf_y = frame.y
      /\ g.rows = frame.rows /\ g.cols = frame.cols
      /\ param.rows \in Nat \ {0} /\ param.cols \in Nat \ {0}
  BY DEF MissingInv, ApartInv, Measured, Framed
<1>2. PICK dx \in Nat, dy \in Nat :
        /\ dx + g.cl <= StratumCols /\ dy + g.rl <= StratumRows
        /\ a.x = g.sf_x + c * StratumCols + dx /\ a.y = g.sf_y + r * StratumRows + dy
  BY DEF OfStratum
<1>3. c \in Nat /\ r \in Nat /\ c < param.cols /\ k = r * param.cols + c
  BY <1>1, Remainder
<1> HIDE DEF c, r
<1>4. r < param.rows
  <2>1. param.rows < r => param.rows * param.cols + 0 + param.cols <= r * param.cols + 0
    BY <1>1, <1>3, CellsApart
  <2>2. r * param.cols \in Nat /\ param.rows * param.cols \in Nat
    BY <1>1, <1>3, SMT
  <2> QED
    BY <1>1, <1>3, <2>1, <2>2
<1>5. /\ StratumCols \in Nat /\ StratumRows \in Nat
      /\ param.cols * StratumCols <= g.cols /\ param.rows * StratumRows <= g.rows
  <2>1. /\ StratumCols \in Nat /\ g.cols % param.cols \in Nat
        /\ g.cols = StratumCols * param.cols + (g.cols % param.cols)
    BY <1>1, Remainder DEF StratumCols
  <2>2. /\ StratumRows \in Nat /\ g.rows % param.rows \in Nat
        /\ g.rows = StratumRows * param.rows + (g.rows % param.rows)
    BY <1>1, Remainder DEF StratumRows
  <2>3. /\ StratumCols * param.cols = param.cols * StratumCols /\ param.cols * StratumCols \in Nat
        /\ StratumRows * param.rows = param.rows * StratumRows /\ param.rows * StratumRows \in Nat
    BY <1>1, <2>1, <2>2, SMT
  <2> QED
    BY <1>1, <2>1, <2>2, <2>3
<1>6. /\ c * StratumCols + dx + g.cl <= param.cols * StratumCols + 0
      /\ r * StratumRows + dy + g.rl <= param.rows * StratumRows + 0
  BY <1>1, <1>2, <1>3, <1>4, <1>5, CellsApart
<1>7. c * StratumCols \in Nat /\ r * StratumRows \in Nat
  BY <1>3, <1>5, SMT
<1> QED
  BY <1>1, <1>2, <1>5, <1>6, <1>7 DEF InFrame

DrawnInv == MissingInv /\ (kind \notin Generators => AllAreasInFrame)

LEMMA DrawnStep == ASSUME DrawnInv, [Next]_vars PROVE DrawnInv'
<1>1. MissingInv' /\ kind' = kind
  BY MissingNext, KindStays DEF DrawnInv
<1> SUFFICES ASSUME kind \notin Generators PROVE AllAreasInFrame'
  BY <1>1 DEF DrawnInv
<1>2. pc # "generate" /\ AllAreasInFrame
  BY DEF DrawnInv, MissingInv, Framed
<1>3. CASE UNCHANGED <<frame, g, areas>>
  BY <1>2, <1>3 DEF AllAreasInFrame, InFrame
<1>4. ASSUME NEW p \in 0 .. MaxUnits - 1, PlaceUnit(p) PROVE AllAreasInFrame'
  <2>1. InFrame(AreaAt(p))
    BY <1>4, UnitInFrame DEF DrawnInv
  <2>2. UNCHANGED <<frame, g>> /\ areas' = areas \cup {AreaAt(p)}
    BY <1>4 DEF PlaceUnit
  <2> QED
    BY <1>2, <2>1, <2>2 DEF AllAreasInFrame, InFrame
<1>5. ASSUME NEW u \in 0 .. StratumCols, NEW v \in 0 .. StratumRows, PlaceInStratum(u, v)
      PROVE  AllAreasInFrame'
  <2> DEFINE n == [aid |-> count,
                   x |-> g.sf_x + (count % param.cols) * StratumCols + u,
                   y |-> g.sf_y + (count \div param.cols) * StratumRows + v]
  <2>1. UNCHANGED <<frame, g>> /\ areas' = areas \cup {n} /\ pc = "strata" /\ count < param.rows * param.cols
        /\ u < StratumCols - g.cl /\ v < StratumRows - g.rl
    BY <1>5 DEF PlaceInStratum
  <2>2. OfStratum(n, count)
    <3>1. /\ g.cl \in Nat /\ g.rl \in Nat /\ g.rows \in Nat /\ g.cols \in Nat
          /\ param.rows \in Nat \ {0} /\ param.cols \in Nat \ {0}
      BY <2>1 DEF DrawnInv, MissingInv, ApartInv, Measured
    <3>2. StratumCols \in Nat /\ StratumRows \in Nat
      BY <3>1, Remainder DEF StratumCols, StratumRows
    <3>3. u \in Nat /\ v \in Nat /\ u + g.cl <= StratumCols /\ v + g.rl <= StratumRows
      BY <2>1, <3>1, <3>2
    <3> QED
      BY <3>3 DEF OfStratum
  <2> HIDE DEF n
  <2>3. InFrame(n)
    <3>1. count \in Nat
      BY DEF DrawnInv, MissingInv, ApartInv, Measured
    <3> QED
      BY <2>1, <2>2, <3>1, StratumInFrame DEF DrawnInv
  <2> QED
    BY <1>2, <2>1, <2>3 DEF AllAreasInFrame, InFrame
<1>6. CASE MovingWindow \/ Contiguous \/ (\E d \in Dists : NonContiguous(d))
  BY <1>6 DEF MovingWindow, Contiguous, NonContiguous, Generators
<1>7. CASE UNCHANGED vars \/ RandomStarts \/ StrataStart \/ StratumFull \/ Listed
  BY <1>3, <1>7 DEF vars, RandomStarts, StrataStart, StratumFull, Listed
<1>8. ~Generate /\ ~NoMore
  BY <1>2 DEF Generate, NoMore
<1> QED
  BY <1>4, <1>5, <1>6, <1>7, <1>8 DEF Next

(* daemon.c:504-630, list.c:97-112: every area that is generated, or drawn  *)
(* at random from the places of the frame or from its stratum, lies in the  *)
(* sampling frame, where that has room for the distance and one area.       *)
THEOREM RliAreasInFrame == ASSUME Unmasked PROVE Spec => []AreasInFrame
<1>1. ASSUME Init PROVE (kind \in Generators => AreasInv) /\ DrawnInv
  <2>1. areas = {}
    BY <1>1 DEF Init
  <2> QED
    BY <1>1, <2>1, AreasInit, MissingInit, RliAreasAssumption DEF DrawnInv, AllAreasInFrame
<1>2. ASSUME kind \in Generators => AreasInv, DrawnInv, [Next]_vars
      PROVE  ((kind \in Generators => AreasInv) /\ DrawnInv)'
  BY <1>2, KindStays, AreasStep, DrawnStep, RliAreasAssumption
<1>3. (kind \in Generators => AreasInv) /\ DrawnInv => AreasInFrame
  BY DEF AreasInv, DrawnInv, AreasInFrame
<1> QED
  BY <1>1, <1>2, <1>3, PTL DEF Spec
=============================================================================
