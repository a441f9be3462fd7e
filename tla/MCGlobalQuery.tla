---------------------------- MODULE MCGlobalQuery ----------------------------
(* The search on maps that are cropped around a route, as the README and     *)
(* nav2_navigation.launch.py make them: what stands at the edge of the crop  *)
(* stands at the border of the map.                                          *)
EXTENDS GlobalQuery

Charts == INSTANCE OccupancyMap WITH
    Resolution <- 2, ObstacleHeight <- 2, MinPoints <- 2, InflateRadius <- 1,
    Padding <- 16, RoutePadding <- 8, GroundBand <- 1,
    ZMin <- 0, ZMax <- 5, MinRange <- 2, VoxelSize <- 2, MaxScanPoints <- 2, MatchingCell <- 4

(* A route of 8 by 4 units, in quarters of a matching cell, and pillars at   *)
(* the edges of the crop.                                                    *)
Route == [mode |-> "reference_csv", route |-> {Charts!Point(8, 8, 0), Charts!Point(16, 12, 0)}, ground |-> 0]
Pillars == {<<1, 9>>, <<12, 0>>, <<13, 10>>}
Survey(pillars) == {Charts!Point(at[1], at[2], z) : at \in pillars, z \in {0, 1, 3, 4}}

Returns(seen, from) ==
    [i \in 1 .. Cardinality(seen) |->
        LET at == SetToSeq(seen)[i] IN Charts!Point(at[1] - from[1], at[2] - from[2], 2)]

SomeCharts == {[pillars |-> pillars, map |-> Charts!load_occupancy_map(Charts!Image(Survey(pillars), Route))] :
                  pillars \in SUBSET Pillars \ {{}}}

SomeTasks == {[map   |-> chart.map,
               scan  |-> Charts!Offsets(Returns(chart.pillars, from), Yaws),
               taken |-> <<<<from[1] \div 4, from[2] \div 4>>, 0>>] :
                 chart \in SomeCharts, from \in {<<10, 9>>, <<5, 5>>}}

SomeConfigs == {c \in [first : BOOLEAN, move : BOOLEAN, final : BOOLEAN] : c.move = c.final /\ (c.final => c.first)}
=============================================================================
