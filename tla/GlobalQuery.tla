----------------------------- MODULE GlobalQuery -----------------------------
(***************************************************************************)
(* A query of the global localization node (global_localization_node.py    *)
(* and global_localization_query.py): the search of BranchAndBound over    *)
(* the matching grid, then, when the engine has a scorer, one registration *)
(* per candidate and a ranking by its fitness, and, when it has a final    *)
(* scorer, a second pass over the first few of that ranking. The node      *)
(* spins in one thread, so the latest cloud cannot change under a query.   *)
(*                                                                         *)
(* An operator that stands just before another and extends its name is its *)
(* mutated form, listed in PROJECT.json; no other definition uses it.      *)
(***************************************************************************)
EXTENDS BranchAndBound

CONSTANTS
    Tasks,          \* maps the engine may load, and scans: [map, scan, taken]
    Factor,         \* matching_resolution_m over the map's resolution
    DilateCells,    \* dilate_cells
    MinScore,       \* min_bbs_score, in hits
    ScoreGate,      \* registration_score_gate
    Fitness,        \* fitness of a registration that converged
    RefineCount,    \* final_refinement_candidate_count
    Configs         \* [first, move, final : BOOLEAN]

VARIABLES
    config,    \* the engine's scorers, and registration_refine_candidates
    cloud,     \* a cloud has been received
    stage,     \* where handle_query is
    waiting,   \* candidates the current pass has yet to register
    ranked,    \* candidates the current pass has registered
    reply      \* the candidates of the response, best first

queryVars == <<config, cloud, stage, waiting, ranked, reply>>
vars == <<searchVars, queryVars>>

Infinite == -1     \* did not converge: no finite fitness
Outcomes == Fitness \cup {Infinite}

(* GlobalLocalizationEngine.__init__: coarsened, then dilated in the map. *)
MatchingGrid(occupied) == {b \in Blocks(0) : \E c \in occupied :
    Near(b, <<c[1] \div Factor, c[2] \div Factor>>, DilateCells)}

-----------------------------------------------------------------------------
(* Ranking: g2_candidate_registration_rank_policy.py. Scores are in units   *)
(* of 1 / ScoreGate.                                                        *)

SupervisorScore(f) == IF f = Infinite \/ f > ScoreGate THEN 0 ELSE ScoreGate - f

FitterThan(f, g) == f # Infinite /\ (g = Infinite \/ f < g)

RanksBefore(a, b) ==
    \/ FitterThan(a.fitness, b.fitness)
    \/ a.fitness = b.fitness /\ a.hits > b.hits

(* Ties keep the order they came in. *)
Ranking(seq) == Sorted(seq, RanksBefore)

(* The pose is the registration's only when it converged and may move it. *)
Registered(c, f, pass, moves) ==
    [c EXCEPT !.fitness = f, !.pass = pass, !.score = SupervisorScore(f),
              !.pose = IF moves /\ f # Infinite THEN pass ELSE @]

-----------------------------------------------------------------------------
Init ==
    /\ SearchInit({[grid |-> MatchingGrid(t.map), scan |-> t.scan, taken |-> t.taken] : t \in Tasks})
    /\ config \in Configs
    /\ cloud = FALSE
    /\ stage = "idle"
    /\ waiting = <<>> /\ ranked = <<>> /\ reply = <<>>

(* cloud_received: only while no query runs. *)
CloudReceived ==
    /\ stage = "idle" /\ ~cloud
    /\ cloud' = TRUE
    /\ UNCHANGED <<searchVars, config, stage, waiting, ranked, reply>>

HandleQuery ==
    /\ stage = "idle"
    /\ stage' = IF cloud THEN "search" ELSE "refused"
    /\ UNCHANGED <<searchVars, config, cloud, waiting, ranked, reply>>

Search ==
    /\ stage = "search"
    /\ SearchNext
    /\ UNCHANGED queryVars

(* The candidates the search found that score enough, as it ordered them. *)
Candidates == [i \in DOMAIN best |->
    [cell |-> best[i].cell, yaw |-> best[i].yaw, hits |-> best[i].score, score |-> best[i].score,
     fitness |-> Infinite, pass |-> "search", pose |-> "search"]]
Enough(c) == c.hits >= MinScore

Answer(cs) == stage' = "answered" /\ reply' = cs /\ waiting' = <<>> /\ ranked' = <<>>

(* Without a scorer the search's own ranking is the answer. *)
Searched ==
    /\ stage = "search" /\ found
    /\ LET cs == Picked(Candidates, Enough)
       IN  IF config.first THEN /\ stage' = "first" /\ waiting' = cs
                                /\ UNCHANGED <<ranked, reply>>
                           ELSE Answer(cs)
    /\ UNCHANGED <<searchVars, config, cloud>>

(* _score_with_registration, _refine_with_final_registration: one candidate. *)
Register(pass, moves) ==
    /\ stage = pass /\ waiting # <<>>
    /\ \E f \in Outcomes : ranked' = Append(ranked, Registered(Head(waiting), f, pass, moves))
    /\ waiting' = Tail(waiting)
    /\ UNCHANGED <<searchVars, config, cloud, stage, reply>>

ScoreCandidate == Register("first", config.move)
RefineCandidate == Register("final", TRUE)

FirstRankedMixed ==
    /\ stage = "first" /\ waiting = <<>>
    /\ LET cs   == Ranking(ranked)
           most == IF Len(cs) > RefineCount THEN RefineCount ELSE Len(cs)
       IN  IF config.final
           THEN /\ stage' = "final" /\ UNCHANGED reply
                /\ waiting' = SubSeq(cs, 1, most)
                /\ ranked' = SubSeq(cs, most + 1, Len(cs))
           ELSE Answer(cs)
    /\ UNCHANGED <<searchVars, config, cloud>>

(* The first pass is ranked; only the front of it is registered again. *)
FirstRanked ==
    /\ stage = "first" /\ waiting = <<>>
    /\ LET cs == Ranking(ranked)
       IN  IF config.final
           THEN /\ stage' = "final" /\ ranked' = <<>> /\ UNCHANGED reply
                /\ waiting' = SubSeq(cs, 1, IF Len(cs) > RefineCount THEN RefineCount ELSE Len(cs))
           ELSE Answer(cs)
    /\ UNCHANGED <<searchVars, config, cloud>>

FinalRanked ==
    /\ stage = "final" /\ waiting = <<>>
    /\ Answer(Ranking(ranked))
    /\ UNCHANGED <<searchVars, config, cloud>>

Next ==
    \/ CloudReceived \/ HandleQuery \/ Search \/ Searched
    \/ ScoreCandidate \/ FirstRanked \/ RefineCandidate \/ FinalRanked

(* A query in progress is a function running: it goes on. *)
Spec == Init /\ [][Next]_vars /\ WF_vars(stage # "idle" /\ Next)

-----------------------------------------------------------------------------
TypeOK ==
    /\ SearchTypeOK
    /\ stage \in {"idle", "refused", "search", "first", "final", "answered"}
    /\ \A cs \in {waiting, ranked, reply} : \A i \in DOMAIN cs :
          cs[i].fitness \in Outcomes /\ cs[i].score \in Nat

(* Scores of different voxelizations are never mixed: every candidate of a  *)
(* reply was scored by the same pass, the last one the engine has.           *)
OneVoxelization == \A i \in DOMAIN reply :
    reply[i].pass = IF ~config.first THEN "search" ELSE IF config.final THEN "final" ELSE "first"
=============================================================================
