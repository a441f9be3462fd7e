--------------------------- MODULE BranchAndBound ---------------------------
(***************************************************************************)
(* The global search of make_bbs_relocalization_attempts.py: the scan is   *)
(* matched against a pyramid of ever coarser occupancy grids, best node    *)
(* first, and a node whose bound cannot beat the worst candidate kept is   *)
(* never opened.                                                           *)
(*                                                                         *)
(* A rotated scan is, per yaw, the cells its points fall in relative to    *)
(* the cell of the sensor: with a factor that is a power of two,           *)
(* floor((0.5 + rx) / factor) is the floor of that cell divided by factor. *)
(* A score is the number of points that hit.                               *)
(*                                                                         *)
(* An operator that stands just before another and extends its name is its *)
(* mutated form, listed in PROJECT.json; no other definition uses it.      *)
(***************************************************************************)
EXTENDS Integers, Sequences, FiniteSets, SequencesExt, Ordered

CONSTANTS
    Unset,
    Width, Height,     \* cells of the matching grid
    Depth,             \* pyramid_depth
    Yaws,              \* _yaw_samples, by index
    MaxCandidates,     \* max_candidates
    Radii              \* nms_radius_cells

VARIABLES
    grid,      \* the occupied cells
    scan,      \* the offsets of the scan's points, per yaw
    taken,     \* history: the cell and the yaw the scan was taken at; Unset
               \* if it saw what the map does not have
    upper_bound_pyramid, \* per level, the blocks a point may hit
    radius,    \* nms_radius_cells of this search
    heap,      \* the open nodes
    sequence,  \* the number the next node gets
    best,      \* the candidates kept, best first
    found      \* the search has returned

searchVars == <<grid, scan, taken, upper_bound_pyramid, radius, heap, sequence, best, found>>

Step(l) == 2 ^ l
Near(a, b, r) == /\ a[1] - b[1] \in -r .. r
                 /\ a[2] - b[2] \in -r .. r

-----------------------------------------------------------------------------
(* The pyramid. *)

Blocks(l) == (0 .. (Width - 1) \div Step(l)) \X (0 .. (Height - 1) \div Step(l))

BlockOf(cell, l) == <<cell[1] \div Step(l), cell[2] \div Step(l)>>

(* A block is occupied if a cell of it is. *)
Pooled(l) == {BlockOf(c, l) : c \in grid}

(* The level whose grid is one block, or the deepest asked for. *)
StartLevel == CHOOSE l \in 0 .. Depth :
                  /\ l = Depth \/ Cardinality(Blocks(l)) = 1
                  /\ \A k \in 0 .. l - 1 : Cardinality(Blocks(k)) > 1

(* Dilated by a block, never past the border of its level. *)
Dilate(blocks, l) == {b \in Blocks(l) : \E c \in blocks : Near(b, c, 1)}

UpperBound(l) == IF l = 0 THEN grid ELSE Dilate(Pooled(l), l)

(* The points that hit with the sensor in cell <<tx, ty>>; a point that falls *)
(* outside the level's grid misses.                                           *)
Hits(l, cell, yaw) ==
    Cardinality({p \in DOMAIN scan[yaw] :
        LET o == BlockOf(scan[yaw][p], l)
            b == BlockOf(cell, l)
        IN  <<o[1] + b[1], o[2] + b[2]>> \in upper_bound_pyramid[l]})

-----------------------------------------------------------------------------
(* The queue: highest bound first, then the node pushed first. *)

Node(l, cell, yaw, seq) ==
    [level |-> l, cell |-> cell, yaw |-> yaw, seq |-> seq, bound |-> Hits(l, cell, yaw)]

TopBoundLowest == Min({n.bound : n \in heap})

TopBound == Max({n.bound : n \in heap})
First == LET bound == TopBound
             top   == {n \in heap : n.bound = bound}
         IN  CHOOSE n \in top : \A m \in top : n.seq <= m.seq

(* Row-major order of the cells pushed together. *)
RowMajor(c, d) == c[2] < d[2] \/ (c[2] = d[2] /\ c[1] < d[1])
Place(cells, c) == Cardinality({d \in cells : RowMajor(d, c)})

TopCells == {<<b[1] * Step(StartLevel), b[2] * Step(StartLevel)>> : b \in Blocks(StartLevel)}

Seed == {Node(StartLevel, c, y, y * Cardinality(TopCells) + Place(TopCells, c)) :
            c \in TopCells, y \in Yaws}

-----------------------------------------------------------------------------
(* The candidates kept. *)

Full == Len(best) >= MaxCandidates
Kth == best[Len(best)].score

(* _candidate_sort_key *)
Before(a, b) ==
    \/ a.score > b.score
    \/ a.score = b.score /\ a.yaw < b.yaw
    \/ a.score = b.score /\ a.yaw = b.yaw /\ RowMajor(a.cell, b.cell)

(* Without suppression every leaf is kept; with it only the first candidate *)
(* of the list that is near is looked at, and replaced by a better leaf.    *)
NearOnes(c) == {i \in DOMAIN best : radius > 0 /\ Near(best[i].cell, c.cell, radius)}

Merged(c) ==
    IF NearOnes(c) = {} THEN Append(best, c)
    ELSE LET i == CHOOSE j \in NearOnes(c) : \A k \in NearOnes(c) : j <= k
         IN  IF c.score > best[i].score THEN [best EXCEPT ![i] = c] ELSE best

Kept(seq) == LET sorted == Sorted(seq, Before)
             IN  SubSeq(sorted, 1, IF Len(sorted) > MaxCandidates THEN MaxCandidates ELSE Len(sorted))

-----------------------------------------------------------------------------
(* An empty scan returns before anything is searched. *)
SearchInit(tasks) ==
    /\ \E t \in tasks : grid = t.grid /\ scan = t.scan /\ taken = t.taken
    /\ upper_bound_pyramid = [l \in 0 .. StartLevel |-> UpperBound(l)]
    /\ radius \in Radii
    /\ LET empty == \A y \in Yaws : scan[y] = <<>>
       IN  /\ heap = (IF empty THEN {} ELSE Seed)
           /\ sequence = IF empty THEN 0 ELSE Cardinality(Seed)
    /\ best = <<>>
    /\ found = FALSE

(* The heap is empty, or its front cannot beat the worst candidate kept. *)
Return ==
    /\ ~found
    /\ heap = {} \/ (Full /\ TopBound <= Kth)
    /\ found' = TRUE
    /\ heap' = {}
    /\ UNCHANGED <<grid, scan, taken, upper_bound_pyramid, radius, sequence, best>>

Open == ~found /\ heap # {} /\ ~(Full /\ TopBound <= Kth)

(* A node of level 0 is a pose: its bound is its score. *)
Leaf ==
    /\ Open
    /\ LET n == First
           c == [cell |-> n.cell, yaw |-> n.yaw, score |-> Hits(0, n.cell, n.yaw)]
       IN  n.level = 0 /\ best' = Kept(Merged(c)) /\ heap' = heap \ {n}
    /\ UNCHANGED <<grid, scan, taken, upper_bound_pyramid, radius, sequence, found>>

Quarters(n) == LET half == Step(n.level - 1)
               IN  {c \in {<<n.cell[1] + dx, n.cell[2] + dy>> : dx, dy \in {0, half}} :
                       c[1] < Width /\ c[2] < Height}

Hopeless(n) == Full /\ n.bound < Kth

Expand ==
    /\ Open
    /\ LET n      == First
           l      == n.level - 1
           pushed == {c \in Quarters(n) : ~Hopeless(Node(l, c, n.yaw, 0))}
       IN  /\ n.level > 0
           /\ heap' = (heap \ {n}) \cup {Node(l, c, n.yaw, sequence + Place(pushed, c)) : c \in pushed}
           /\ sequence' = sequence + Cardinality(pushed)
    /\ UNCHANGED <<grid, scan, taken, upper_bound_pyramid, radius, best, found>>

SearchNext == Return \/ Leaf \/ Expand

-----------------------------------------------------------------------------
(* What the search promises. *)

Poses == ((0 .. Width - 1) \X (0 .. Height - 1)) \X Yaws
Exact(p) == Hits(0, p[1], p[2])

Under(n) == {p \in Poses : p[2] = n.yaw /\ BlockOf(p[1], n.level) = BlockOf(n.cell, n.level)}

SearchTypeOK ==
    /\ \A n \in heap : /\ n.level \in 0 .. StartLevel
                       /\ n.cell[1] \in 0 .. Width - 1 /\ n.cell[1] % Step(n.level) = 0
                       /\ n.cell[2] \in 0 .. Height - 1 /\ n.cell[2] % Step(n.level) = 0
                       /\ n.yaw \in Yaws /\ n.seq < sequence
    /\ \A m, n \in heap : m.seq = n.seq => m = n
    /\ Len(best) <= MaxCandidates
    /\ found \in BOOLEAN

(* The bound of an open node is at least the score of every pose below it. *)
(* test_pyramid_upper_bound_is_admissible; without it the search is greedy. *)
Admissible == \A n \in heap : \A p \in Under(n) : Exact(p) <= n.bound

(* A pose needs no more attention: kept, suppressed by a neighbour that is  *)
(* as good, or no better than the worst of a full list.                      *)
Accounted(p) ==
    \/ Full /\ Exact(p) <= Kth
    \/ \E i \in DOMAIN best :
          /\ best[i].score >= Exact(p)
          /\ \/ best[i].cell = p[1] /\ best[i].yaw = p[2]
             \/ radius > 0 /\ Near(best[i].cell, p[1], radius)

(* The search that stops early returns what the exhaustive search would:    *)
(* no pose it left out is better than what it kept.                          *)
Exhaustive == found => \A p \in Poses : scan[p[2]] = <<>> \/ Accounted(p)

(* A scan of what the map knows hits with every point where it was taken,    *)
(* wherever in its cell the sensor stood, and what the search finds is as    *)
(* good: writer and reader of the map, preparation and search agree.         *)
TruePoseFound ==
    found /\ taken # Unset /\ scan[taken[2]] # <<>> =>
        Exact(taken) = Len(scan[taken[2]]) /\ best[1].score = Exact(taken)

=============================================================================
