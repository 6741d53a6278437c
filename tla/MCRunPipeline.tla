--------------------------- MODULE MCRunPipeline ---------------------------
(* Instances of RunPipeline for TLC. *)
EXTENDS RunPipeline, SequencesExt

CONSTANTS w1, w2, c1

TwoWorkers == {w1, w2}

NoActs  == {}
AllActs == {"cancel", "retry"}

OneIndustry   == {"derm"}
TwoIndustries == {"derm", "franchise"}

(* The smallest graph with the shape of the registry STAGES (packages/pipeline/
   src/stages/index.ts): a step, and a stage that waits for two. *)
JoinOrder == <<"collect", "search_analyze", "score">>
JoinDeps  == [s \in ToSet(JoinOrder) |->
                CASE s = "collect" -> {}
                  [] s = "search_analyze" -> {"collect"}
                  [] s = "score" -> {"collect", "search_analyze"}]
=============================================================================
