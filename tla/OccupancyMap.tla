---------------------------- MODULE OccupancyMap ----------------------------
(***************************************************************************)
(* What the global search matches with what: the occupancy map made of a   *)
(* point cloud (generate_occupancy_map_from_pcd.py), the image it is kept  *)
(* in, how make_bbs_relocalization_attempts.py reads it back, and what     *)
(* that script makes of a scan.                                            *)
(*                                                                         *)
(* Lengths are integers. A cloud is a set of points, a scan the sequence   *)
(* the sensor sent; a yaw is 0 or, as _yaw_samples has it for two samples, *)
(* half a turn.                                                            *)
(*                                                                         *)
(* An operator that stands just before another and extends its name is its *)
(* mutated form, listed in PROJECT.json; no other definition uses it.      *)
(***************************************************************************)
EXTENDS Integers, Sequences, FiniteSetsExt, SequencesExt

CONSTANTS
    Resolution, ObstacleHeight, MinPoints, InflateRadius, \* options of the generator
    Padding, RoutePadding, GroundBand,
    ZMin, ZMax, MinRange, VoxelSize, MaxScanPoints,       \* of the scan's preparation
    MatchingCell                                          \* resolution_m of the search

Point(x, y, z) == [x |-> x, y |-> y, z |-> z]
CeilDiv(a, b) == -((-a) \div b)
Clip(a, top) == Min({a, top})

-----------------------------------------------------------------------------
(* The generator.                                                          *)

Padded(ps, pad) ==
    LET xs == {p.x : p \in ps}
        ys == {p.y : p \in ps}
    IN [xMin |-> Min(xs) - pad, xMax |-> Max(xs) + pad, yMin |-> Min(ys) - pad, yMax |-> Max(ys) + pad]

\* A region: its mode, the positions of the reference, the bounds given by hand.
determine_bounds(region, cloud) ==
    CASE region.mode = "reference_csv" -> Padded(region.route, RoutePadding)
      [] region.mode = "manual_bounds" -> region.bounds
      [] region.mode = "full_map" -> Padded(cloud, Padding)

Cropped(cloud, b) == {p \in cloud : p.x \in b.xMin .. b.xMax /\ p.y \in b.yMin .. b.yMax}

Columns(b) == CeilDiv(b.xMax - b.xMin, Resolution)
Rows(b) == CeilDiv(b.yMax - b.yMin, Resolution)
Cells(b) == (0 .. Columns(b) - 1) \X (0 .. Rows(b) - 1)

\* A point on the upper bound belongs to the last cell.
CellOf(p, b) == <<Clip((p.x - b.xMin) \div Resolution, Columns(b) - 1),
                  Clip((p.y - b.yMin) \div Resolution, Rows(b) - 1)>>

build_observation_grids(cloud, b) == [c \in Cells(b) |-> {p \in cloud : CellOf(p, b) = c}]

Many(ps) == Cardinality(ps) >= MinPoints
Spread(ps) == Max({p.z : p \in ps}) - Min({p.z : p \in ps})

\* Without a route a cell is an obstacle if its points are far apart in height.
Obstacles(grids) == {c \in DOMAIN grids : Many(grids[c]) /\ Spread(grids[c]) >= ObstacleHeight}
Observed(grids) == {c \in DOMAIN grids : Many(grids[c])}

\* With one the heights are measured from the route's.
Low(ps, ground) == {p \in ps : p.z <= ground + GroundBand}
High(ps, ground) == {p \in ps : p.z >= ground + ObstacleHeight}
GroundObserved(grids, ground) == {c \in DOMAIN grids : Many(Low(grids[c], ground))}
RouteObstacles(grids, ground) == {c \in GroundObserved(grids, ground) : Many(High(grids[c], ground))}
RouteFree(grids, ground) == {c \in GroundObserved(grids, ground) : High(grids[c], ground) = {}}

inflate_mask(mask, b) ==
    LET r == CeilDiv(InflateRadius, Resolution)
        Disc == {d \in (-r .. r) \X (-r .. r) : d[1] * d[1] + d[2] * d[2] <= r * r}
    IN mask \union {c \in Cells(b) : \E d \in Disc : <<c[1] + d[1], c[2] + d[2]>> \in mask}

Unknown == 205
Free == 254
Occupied == 0

Flipped(c, rows) == <<c[1], rows - 1 - c[2]>>

\* The image, by column and row from the top.
Image(cloud, region) ==
    LET b        == determine_bounds(region, cloud)
        grids    == build_observation_grids(Cropped(cloud, b), b)
        onRoute  == region.mode = "reference_csv"
        occupied == inflate_mask(IF onRoute THEN RouteObstacles(grids, region.ground) ELSE Obstacles(grids), b)
        free     == IF onRoute THEN RouteFree(grids, region.ground) ELSE Observed(grids)
        Pixel(c) == CASE c \in occupied -> Occupied
                      [] c \in free \ occupied -> Free
                      [] OTHER -> Unknown
    IN [rows |-> Rows(b), pixels |-> [c \in Cells(b) |-> Pixel(Flipped(c, Rows(b)))]]

-----------------------------------------------------------------------------
(* The reader. A pixel is as occupied as it is dark; write_map leaves      *)
(* occupied_thresh at 0.65, so that the unknown is no obstacle.            *)

Dark(pixel) == 100 * (255 - pixel) >= 65 * 255

load_occupancy_map(image) ==
    {Flipped(c, image.rows) : c \in {d \in DOMAIN image.pixels : Dark(image.pixels[d])}}

-----------------------------------------------------------------------------
(* The scan.                                                               *)

Square(n) == n * n
Useful(p) == p.z \in ZMin .. ZMax /\ Square(p.x) + Square(p.y) >= Square(MinRange)

\* One point, the first, of every voxel, in the order they came.
VoxelOf(p) == <<p.x \div VoxelSize, p.y \div VoxelSize>>
voxel_downsample_2d(ps) ==
    LET First == {i \in DOMAIN ps : \A j \in 1 .. i - 1 : VoxelOf(ps[j]) # VoxelOf(ps[i])}
    IN [k \in 1 .. Cardinality(First) |-> ps[CHOOSE i \in First : Cardinality(First \cap (1 .. i)) = k]]

\* So many of them at equal distances, the first and the last among them.
Thinned(ps) ==
    IF MaxScanPoints = 0 \/ Len(ps) <= MaxScanPoints THEN ps
    ELSE [k \in 1 .. MaxScanPoints |->
             ps[1 + IF MaxScanPoints = 1 THEN 0 ELSE ((k - 1) * (Len(ps) - 1)) \div (MaxScanPoints - 1)]]

prepare_scan_xy(ps) == Thinned(voxel_downsample_2d(SelectSeq(ps, Useful)))

Turned(p, yaw) == IF yaw = 0 THEN p ELSE [p EXCEPT !.x = -@, !.y = -@]

OffsetFine(p) == <<(Resolution + 2 * p.x) \div (2 * Resolution), (Resolution + 2 * p.y) \div (2 * Resolution)>>

\* floor(0.5 + r / resolution_m): the cell a point falls in, from the sensor's.
Offset(p) == <<(MatchingCell + 2 * p.x) \div (2 * MatchingCell), (MatchingCell + 2 * p.y) \div (2 * MatchingCell)>>

\* branch_and_bound_candidates: the scan's cells at every yaw.
Offsets(ps, yaws) ==
    LET prepared == prepare_scan_xy(ps)
    IN [yaw \in yaws |-> [i \in DOMAIN prepared |-> Offset(Turned(prepared[i], yaw))]]
=============================================================================
