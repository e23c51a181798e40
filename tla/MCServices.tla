----------------------------- MODULE MCServices -----------------------------
(***************************************************************************)
(* Services on small instances: the inputs of the services that keep no    *)
(* state are those of MCInputs, and there is one item with an answer and   *)
(* two requests to settle it.                                              *)
(***************************************************************************)
EXTENDS Services, TLC

MI == INSTANCE MCInputs

\* The values of the sets of inputs.
SomeRecommendations == MI!RecommendationSamples
SomePlanRequests == MI!PlanSamples
SomeSignedPlaces == MI!SignedSamples
SomeReviews == MI!ReviewSamples
SomeRevisions == MI!RevisionSamples
SomeDrafts == MI!DraftSamples

OneDayEach == {[date |-> 1, budget |-> 1], [date |-> 2, budget |-> 2]}

SomePlans == {{1}, {2}, {1, 2}}

ByMember == [k \in Answers |-> "member"]

Symmetry == Permutations(Thread) \cup Permutations(Child) \cup Permutations(Run)
=============================================================================
