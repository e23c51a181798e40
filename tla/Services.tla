------------------------------ MODULE Services ------------------------------
(***************************************************************************)
(* The services around the planning core, side by side.                    *)
(*                                                                         *)
(* No two of these modules share a variable, so interleaving them would    *)
(* multiply their states and add no behaviour: a behaviour of this module  *)
(* is a behaviour of one of them, the one that "scene" names.  A service   *)
(* that keeps no state is evaluated on one input of a set of inputs.       *)
(***************************************************************************)
EXTENDS PlanRequests, Recommendation

\* ParentTrips and SiblingPlaces
CONSTANTS Day, Child, Budgets, ChildTrip, Seat, RedeemKey, Account, Thread,
          MaxMembers, MaxSync, MaxTime, Places, Plans
VARIABLES days, sync, seats, sessions, childTrip, request, seen, parentTime
VARIABLES linked, v1, v2, checked

\* TripInputs
CONSTANTS Trip, Bodies, Care
VARIABLES flow, confirmed, care, snapshot, rejected, revision, handing

\* FactSets
CONSTANTS Run, Fetch, Place, MaxTerms, MinPlaces, MaxRevision
VARIABLES agreed, ready, holder, runs, fetches, factSets

\* Resolutions
CONSTANTS Items, Participants, Answers, Author, Approvals, Owners, NoOwner,
          MaxDraftRevision, MaxVersion
VARIABLES draft, items, session, leased, record, advanced, audits, handler, process

\* What the services that keep no state are asked, and what one answers.
CONSTANTS RecommendationInputs, PlanInputs, SignedInputs, ReviewInputs, RevisionInputs,
          DraftInputs
VARIABLES input, result

VARIABLE scene

PT == INSTANCE ParentTrips
SP == INSTANCE SiblingPlaces
TI == INSTANCE TripInputs
FS == INSTANCE FactSets
RN == INSTANCE Resolutions WITH MaxRevision <- MaxDraftRevision

\* Amounts of money are numbers; a child may have been agreed without one.
ASSUME AmountsAreNumbers ==
    /\ Budgets \subseteq Nat
    /\ ChildTrip \subseteq [date : Day, budget : Nat \cup {None}]

ASSUME BoundsAreNumbers ==
    /\ MaxSync \in Nat \ {0} /\ MaxRevision \in Nat \ {0}
    /\ MaxTime \in Nat /\ MaxTerms \in Nat

ASSUME PlansVisitPlaces == Plans \subseteq SUBSET Places

\* What is stored is never taken for what is missing.
ASSUME NoneIsNoRow ==
    /\ None \notin [key : RedeemKey, expires : Nat]
    /\ None \notin {"LEGACY_SINGLE", "COLLABORATION_V2"}
    /\ None \notin [of : Approvals, step : {"applying", "patching", "advancing", "auditing",
                                            "finishing"}]

\* Every answer has an author, a request is no answer, and the first start of
\* the server has a process id.
ASSUME SettlementsAreNamed ==
    /\ Answers \cap Approvals = {}
    /\ Author \in [Answers -> Participants]
    /\ 1 \in Owners /\ NoOwner \notin Owners

\* The provider's records, the trips and the rankings have the types of their models.
ASSUME RecommendationsAreTyped ==
    \A i \in RecommendationInputs :
        IsTrip(i.trip) /\ AreFound(i.found, i.trip) /\ IsRanking(i.ranking)

\* The requests to plan have the types of their models, those that the route
\* builder makes of the orders included.
ASSUME RequestsAreTyped ==
    /\ \A r \in PlanInputs : IsRequest(r)
    /\ \A i \in SignedInputs : \A order \in OrdersAsked(i.ids, i.proposal) :
          i.routed[order] # None => IsBuilt(i.routed[order])

\* A review is of a candidate that the planner accepted.
ASSUME ReviewsAreOfPlans ==
    \A i \in ReviewInputs :
        /\ IsRequest(i.candidate.request)
        /\ Generate(i.candidate.request) = Accepted(i.candidate)
        /\ AreAnswers(i.answers)

RX == INSTANCE Relaxations

\* A draft that is stored has kept its contract.
ASSUME DraftsAreValid == \A u \in DraftInputs : RX!IsDraft(u) /\ RX!Valid(u)

parentVars == <<days, sync, seats, sessions, childTrip, request, seen, parentTime>>
placeVars == <<linked, v1, v2, checked>>
inputVars == <<flow, confirmed, care, snapshot, rejected, revision, handing>>
factVars == <<agreed, ready, holder, runs, fetches, factSets>>
resolutionVars == <<draft, items, session, leased, record, advanced, audits, handler, process>>
callVars == <<input, result>>

vars == <<scene, parentVars, placeVars, inputVars, factVars, resolutionVars, callVars>>

-----------------------------------------------------------------------------
(* The services that keep no state.                                        *)

Pure == {"recommendation", "plan", "signed places", "review", "revision", "draft"}

Inputs(s) ==
    CASE s = "recommendation" -> RecommendationInputs
      [] s = "plan" -> PlanInputs
      [] s = "signed places" -> SignedInputs
      [] s = "review" -> ReviewInputs
      [] s = "revision" -> RevisionInputs
      [] s = "draft" -> DraftInputs

Called(s, i) ==
    CASE s = "recommendation" -> Recommend(i.found, i.ranking, i.trip)
      [] s = "plan" -> Generate(i)
      [] s = "signed places" -> RecommendSigned(i.facts, i.ids, i.proposal, i.routed)
      [] s = "review" -> ConfirmReview(i.candidate, i.answers)
      [] s = "revision" ->
             LET trip == PlanningTrip(i.revision, i.city)
             IN  PlanRevision(i.revision, trip, IF i.confirmed THEN trip ELSE None)
      [] s = "draft" -> RX!Relaxed(i)

Call ==
    /\ input # None /\ result = None
    /\ result' = Called(scene, input)
    /\ UNCHANGED <<input, parentVars, placeVars, inputVars, factVars, resolutionVars>>

Answered(s) == scene = s /\ result # None

-----------------------------------------------------------------------------
Stateful == {"parent trip", "places of siblings", "trip inputs", "fact sets", "resolutions"}

Init ==
    /\ PT!Init /\ SP!Init /\ TI!Init /\ FS!Init /\ RN!Init
    /\ scene \in Stateful \cup Pure
    /\ input \in IF scene \in Pure THEN Inputs(scene) ELSE {None}
    /\ result = None
    \* what a scene does not use starts in one state
    /\ scene # "trip inputs" => \A t \in Trip : confirmed[t] = None
    /\ scene # "parent trip" => \A c \in Child : childTrip[c].date = 1
    /\ scene # "resolutions" => items = {}

Next ==
    /\ UNCHANGED scene
    /\ \/ /\ scene = "parent trip" /\ PT!Next
          /\ UNCHANGED <<placeVars, inputVars, factVars, resolutionVars, callVars>>
       \/ /\ scene = "places of siblings" /\ SP!Next
          /\ UNCHANGED <<parentVars, inputVars, factVars, resolutionVars, callVars>>
       \/ /\ scene = "trip inputs" /\ TI!Next
          /\ UNCHANGED <<parentVars, placeVars, factVars, resolutionVars, callVars>>
       \/ /\ scene = "fact sets" /\ FS!Next
          /\ UNCHANGED <<parentVars, placeVars, inputVars, resolutionVars, callVars>>
       \/ /\ scene = "resolutions" /\ RN!Next
          /\ UNCHANGED <<parentVars, placeVars, inputVars, factVars, callVars>>
       \/ Call

Spec == Init /\ [][Next]_vars

-----------------------------------------------------------------------------
\* The columns of every table keep their types.
TypeOK == PT!TypeOK /\ SP!TypeOK /\ TI!TypeOK /\ FS!TypeOK

\* The properties of the components, stated and explained in their modules.
SameVersionSameView == PT!SameVersionSameView
LinksAreFinal == PT!LinksAreFinal
DriftComesFromARace == PT!DriftComesFromARace
SharingComesFromLinking == SP!SharingComesFromLinking
OneFlowPerTrip == TI!OneFlowPerTrip
AnsweredFactsAreServable == FS!AnsweredFactsAreServable
ResolvedIsAudited == RN!ResolvedIsAudited

\* The same of the services that keep no state, for the input of the call.
SignedFactsHaveAPlan ==
    Answered("recommendation") => CanBePlanned(input.found, input.trip, result)

HardLimitsHold ==
    Answered("recommendation") => KeepsHardLimits(input.found, input.trip, result)

RankingIsAHint ==
    Answered("recommendation") => TakesTheRankingAsAHint(input.found, input.trip, result)

AcceptedPlanSuitsEveryone ==
    /\ Answered("plan") /\ result.code = "OK" => SuitsEveryone(result.value)
    /\ Answered("signed places") /\ result.code = "OK" =>
          RecommendedSuits(input.facts, result.value.plan)

ConfirmedReviewIsComplete ==
    Answered("review") => ReviewIsComplete(input.candidate, input.answers, result)

RelaxationsSettle == Answered("draft") => RX!RelaxationsSettle(input, result)

OfferedRelaxationsApply == Answered("draft") => RX!OfferedRelaxationsApply(result)

GroupCanPlan == Answered("revision") => CanPlan(input.revision)
=============================================================================
