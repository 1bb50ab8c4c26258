----------------------- MODULE MCRecommendationHistory -----------------------
(* Instances of RecommendationHistory for TLC.                             *)
EXTENDS RecommendationHistory, TLC

SingleActions == {<<"SCHEDULE">>, <<"SCALE_DOWN">>}
\* A schedule together with a new size.
TwoActions    == {<<"SCHEDULE", "SCALE_DOWN">>}

SimpleSetting    == [overlap |-> FALSE, lists |-> SingleActions]
TwoActionSetting == [overlap |-> FALSE, lists |-> TwoActions]
AnySetting       == [overlap |-> TRUE,  lists |-> SingleActions \cup TwoActions]

BothSettings == {SimpleSetting, AnySetting}
TwoAtOnce    == {TwoActionSetting}

Symmetry == Permutations(Jobs) \cup Permutations(Users) \cup Permutations(Ids)
=============================================================================
