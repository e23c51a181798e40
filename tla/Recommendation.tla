--------------------------- MODULE Recommendation ---------------------------
(***************************************************************************)
(* How a day plan is picked from the places that the map provider has      *)
(* found: TrustedRecommendationService of                                  *)
(* app/application/recommendation_service.py.                              *)
(*                                                                         *)
(* A place has an identity that stands for its name and provider ID, the   *)
(* facts its filters look at, and a position on a line.  A name is judged  *)
(* only by what it is close to: place.match[l] is 0 if the label l is its  *)
(* name, larger the less it resembles it, and NoMatch if neither contains  *)
(* the other.  A wish is an interest: it is in place.words if the place's  *)
(* text has the very word, in place.wishes if it has a term of the wish.   *)
(***************************************************************************)
EXTENDS Outcomes

CONSTANTS DiningLabels    \* the labels that themselves name a restaurant

NoMatch == 9
Unpriced == 1000          \* sorts after every price
TooFar == 1000            \* farther than any place
MaxCandidates == 8
MinCandidates == 6
MaxVisits == 3
MaxAvoided == 24

First(n, s) == SubSeq(s, 1, Min({n, Len(s)}))

-----------------------------------------------------------------------------
(* The trip.                                                               *)

MealHours == [LUNCH |-> <<12, 13>>, DINNER |-> <<18, 19>>]

\* The trip of an agreed revision.  A member without a limit has the shared one.
CanonicalTrip(revision) ==
    LET shared == revision.shared
        missing == None \in {shared.start, shared.end, shared.total}
                       \/ \E m \in ToSet(revision.members) : None \in {m.account, m.care}
    IN  IF missing THEN Refused("COLLABORATION_CANONICAL_TRIP_INCOMPLETE")
        ELSE Accepted([start |-> shared.start, end |-> shared.end, total |-> shared.total,
                       members |-> [i \in DOMAIN revision.members |->
                          LET m == revision.members[i]
                          IN  [must |-> m.must, avoid |-> m.avoid, wishes |-> m.wishes,
                               cap |-> IF m.cap = None THEN shared.total ELSE m.cap]]])

\* The meals that lie wholly within the day.
MealKinds(trip) ==
    LET meal(k) == IF trip.start <= MealHours[k][1] /\ MealHours[k][2] <= trip.end
                   THEN <<k>> ELSE <<>>
    IN  meal("LUNCH") \o meal("DINNER")

Meals(trip) == Len(MealKinds(trip))

\* What the members ask for, each label once.
Labels(lists) == Distinct(FlattenSeq(lists))

MustVisit(trip) == Labels([i \in DOMAIN trip.members |-> trip.members[i].must])
Avoided(trip) == Labels([i \in DOMAIN trip.members |-> trip.members[i].avoid])

\* Mutant: what a member can afford does not count.
TripBudget(trip) == trip.total

BudgetOf(trip) == Min({trip.total} \cup {m.cap : m \in ToSet(trip.members)})

-----------------------------------------------------------------------------
(* The places.                                                             *)

IsLodging(p) == "LODGING" \in p.terms
IsDining(p) == "DINING" \in p.terms /\ ~IsLodging(p)
IsNonVisit(p) == p.terms \cap {"LODGING", "SERVICE"} # {}

Matches(p, l) == p.match[l] # NoMatch
IsNamed(p, l) == p.match[l] = 0

\* A restaurant is no answer to a sight whose name it resembles.
Serves(p, l) == Matches(p, l) /\ (IsDining(p) => IsNamed(p, l) \/ l \in DiningLabels)

ServesAny(p, labels) == \E l \in ToSet(labels) : Serves(p, l)

Closeness(p, labels) ==
    Min({NoMatch} \cup {p.match[l] : l \in {k \in ToSet(labels) : Serves(p, k)}})

\* How often the words that the members wish for occur.
Words(p, trip) ==
    FoldLeft(+, 0, [i \in DOMAIN trip.members |->
                       Cardinality(trip.members[i].wishes \cap p.words)])

Price(p) == IF p.price = None THEN Unpriced ELSE p.price

Distance(p, q) == IF p.at < q.at THEN q.at - p.at ELSE p.at - q.at

\* The distance to the nearest of some places.
Nearest(p, anchors) == Min({Distance(p, a) : a \in anchors} \cup {TooFar})

-----------------------------------------------------------------------------
(* Which places are signed.                                                *)

\* Of what the members avoid the filter looks at the first labels.
Admissible(p, trip) ==
    LET named == \E l \in ToSet(MustVisit(trip)) : IsNamed(p, l)
    IN  /\ p.inCity
        /\ p.source \in {"ONLINE", "VERIFIED_CACHE"}
        /\ \A l \in ToSet(First(MaxAvoided, Avoided(trip))) : ~Matches(p, l)
        /\ ~IsLodging(p)
        /\ Meals(trip) = 0 /\ IsDining(p) => named
        /\ IsNonVisit(p) => named
        /\ p.price # None => p.price <= BudgetOf(trip)

\* The order in which the admissible places are considered.
FilterKey(p, trip) ==
    <<IF ServesAny(p, MustVisit(trip)) THEN 0 ELSE 1, Closeness(p, MustVisit(trip)),
      -Words(p, trip), IF p.source = "ONLINE" THEN 0 ELSE 1, Price(p), p.id>>

\* The first admissible record of each place.
Kept(found, trip) ==
    LET kept == {i \in DOMAIN found :
                    /\ Admissible(found[i], trip)
                    /\ \A j \in 1..(i - 1) :
                          found[j].id = found[i].id => ~Admissible(found[j], trip)}
    IN  {found[i] : i \in kept}

Ordered(found, trip) ==
    Sorted(Kept(found, trip), [p \in Kept(found, trip) |-> FilterKey(p, trip)])

DiningOf(places) == {p \in places : IsDining(p)}
VisitsOf(places) == {p \in places : ~IsDining(p)}

Visits(s) == Only(s, VisitsOf(ToSet(s)))

\* What the restaurants should be near to: the places that must be visited.
Anchors(s, trip) ==
    LET asked == {p \in VisitsOf(ToSet(s)) : ServesAny(p, MustVisit(trip))}
    IN  IF asked # {} THEN asked ELSE ToSet(First(MaxVisits, Visits(s)))

\* The restaurants, the nearest first.
Dining(s, trip) ==
    LET dining == DiningOf(ToSet(s))
    IN  Sorted(dining, [p \in dining |->
                           <<Nearest(p, Anchors(s, trip))>> \o FilterKey(p, trip)])

\* The places that answer a label.
Answering(l, places) == {p \in places : Serves(p, l)}

\* The place that answers a label best.
BestFor(l, s) ==
    LET answers == Answering(l, ToSet(s))
    IN  Sorted(answers, [p \in answers |-> <<p.match[l], p.id>>])[1]

\* Mutant: the places that are left fill the set before the restaurants do.
ReserveInOrder(s, trip) ==
    LET must == MustVisit(trip)
    IN  First(MaxCandidates, Distinct([i \in DOMAIN must |-> BestFor(must[i], s)] \o s))

\* The places to sign: the best answer to each label, the restaurants and the
\* visits that a plan needs, and what else there is.
Reserve(s, trip) ==
    LET must == MustVisit(trip)
    IN  First(MaxCandidates,
              Distinct([i \in DOMAIN must |-> BestFor(must[i], s)]
                           \o First(Meals(trip), Dining(s, trip))
                           \o First(MaxVisits, Visits(s)) \o s))

\* The labels that no place answers.
Missing(s, trip) == {l \in ToSet(MustVisit(trip)) : Answering(l, ToSet(s)) = {}}

Signed(found, s, missing, trip) ==
    IF Len(MustVisit(trip)) > MaxVisits THEN Refused("TOO_MANY_HARD_MUST_VISIT_PLACES")
    ELSE IF \E l \in missing, p \in ToSet(found) : Matches(p, l) /\ IsLodging(p)
         THEN Refused("LODGING_NOT_ALLOWED_IN_DAY_PLAN")
    ELSE IF missing # {} THEN Refused("HARD_MUST_VISIT_FACT_MISSING")
    ELSE IF Cardinality(DiningOf(ToSet(s))) < Meals(trip)
         THEN Refused("INSUFFICIENT_TRUSTED_DINING_CANDIDATES")
    ELSE LET reserved == Reserve(s, trip)
         IN  IF Cardinality(VisitsOf(ToSet(s))) < MaxVisits \/ Len(reserved) < MinCandidates
             THEN Refused("INSUFFICIENT_TRUSTED_PROVIDER_CANDIDATES")
             ELSE Accepted(reserved)

SignedOf(found, s, trip) == Signed(found, s, Missing(s, trip), trip)

PreFilter(found, trip) == SignedOf(found, Ordered(found, trip), trip)

-----------------------------------------------------------------------------
(* What is offered to the model, and what it answers.                      *)

CandidateKey(p, trip) ==
    <<IF ServesAny(p, MustVisit(trip)) THEN 0 ELSE 1, Closeness(p, MustVisit(trip)),
      -Words(p, trip), Price(p), p.id>>

IssueCandidates(signed, trip) ==
    LET offered == {p \in ToSet(signed) :
                       /\ \A l \in ToSet(Avoided(trip)) : ~IsNamed(p, l)
                       /\ ~IsLodging(p)
                       /\ IsNonVisit(p) => \E l \in ToSet(MustVisit(trip)) : IsNamed(p, l)}
    IN  First(MaxCandidates, Sorted(offered, [p \in offered |-> CandidateKey(p, trip)]))

\* A ranking counts only if it names candidates, and none twice.
Rank(candidates, ranking) ==
    LET byId(i) == CHOOSE p \in ToSet(candidates) : p.id = i
    IN  IF /\ ranking # None
           /\ Len(Distinct(ranking)) = Len(ranking)
           /\ ToSet(ranking) \subseteq {p.id : p \in ToSet(candidates)}
        THEN [i \in DOMAIN ranking |-> byId(ranking[i])]
        ELSE candidates

-----------------------------------------------------------------------------
(* The plan.                                                               *)

\* The first candidate that answers each label.
RequiredCandidates(candidates, trip) ==
    LET must == MustVisit(trip)
        first(l) == Only(candidates, Answering(l, ToSet(candidates)))[1]
    IN  Distinct([i \in DOMAIN must |-> first(must[i])])

\* Mutant: the ranking alone says which places may be taken.
OnlyRanked(candidates, ranked, trip) ==
    Distinct(ranked \o RequiredCandidates(candidates, trip))

\* With a meal to be planned, every candidate may be taken.
Takeable(candidates, ranked, trip) ==
    Distinct(ranked \o (IF Meals(trip) > 0 THEN candidates ELSE <<>>)
                    \o RequiredCandidates(candidates, trip))

Score(m, tasks) ==
    LET unmet == Cardinality(m.wishes \ UNION {p.wishes : p \in tasks})
        missing == \E l \in ToSet(m.must) : \A p \in tasks : ~Serves(p, l)
        base == Max({0, 100 - 20 * unmet})
    IN  IF missing THEN Max({0, base - 60}) ELSE base

Scores(trip, tasks) == [i \in DOMAIN trip.members |-> Score(trip.members[i], tasks)]

\* How far each meal is from the visit before it.
MealDistance(s, trip) ==
    CASE MealKinds(trip) = <<"LUNCH", "DINNER">> /\ Len(s) >= 5 ->
             Distance(s[3], s[2]) + Distance(s[5], s[4])
      [] MealKinds(trip) = <<"LUNCH">> /\ Len(s) >= 4 -> Distance(s[3], s[2])
      [] MealKinds(trip) = <<"DINNER">> /\ Len(s) >= 4 -> Distance(s[4], s[3])
      [] OTHER -> 0

WalkLength(s) == FoldLeft(+, 0, [i \in 1..(Len(s) - 1) |-> Distance(s[i], s[i + 1])])

\* The visits with the meals where they belong.
Interleaved(visits, meals, trip) ==
    CASE MealKinds(trip) = <<"LUNCH", "DINNER">> ->
             <<visits[1], visits[2], meals[1], visits[3], meals[2]>>
      [] MealKinds(trip) = <<"LUNCH">> -> <<visits[1], visits[2], meals[1], visits[3]>>
      [] OTHER -> visits \o meals

Ids(s) == [i \in DOMAIN s |-> s[i].id]

\* The order with the shortest ways to the meals, and then the shortest at all.
OrderForMeals(tasks, trip) ==
    LET orders == {Interleaved(v, d, trip) :
                      v \in SetToSeqs(VisitsOf(tasks)), d \in SetToSeqs(DiningOf(tasks))}
        key(s) == <<MealDistance(s, trip), WalkLength(s)>> \o Ids(s)
        least == Least({key(s) : s \in orders})
    IN  CHOOSE s \in orders : key(s) = least

\* The ways from the restaurants to the visits, when no meal is planned.
MealProximity(tasks, trip) ==
    IF Meals(trip) > 0 THEN MealDistance(OrderForMeals(tasks, trip), trip)
    ELSE MapThenSumSet(LAMBDA p : Nearest(p, VisitsOf(tasks)), DiningOf(tasks))

\* The lowest score first, then the sum, the ways, the cost, the identities.
FairnessKey(tasks, trip) ==
    LET scores == Scores(trip, tasks)
        cost == MapThenSumSet(LAMBDA p : IF p.price = None THEN 0 ELSE p.price, tasks)
    IN  <<-Min(ToSet(scores)), -FoldLeft(+, 0, scores), MealProximity(tasks, trip), cost>>
            \o Ascending({p.id : p \in tasks})

\* The sets of tasks that visit what must be visited and eat what must be eaten.
PossibleSets(from, candidates, trip) ==
    {s \in kSubset(Min({MaxVisits + Meals(trip), Len(from)}), ToSet(from)) :
        /\ ToSet(RequiredCandidates(candidates, trip)) \subseteq s
        /\ Meals(trip) > 0 => Cardinality(DiningOf(s)) = Meals(trip)}

\* The set of tasks with the least key.
Fairest(key) ==
    LET least == Least({key[s] : s \in DOMAIN key})
    IN  CHOOSE s \in DOMAIN key : key[s] = least

InOrder(tasks, from, trip) ==
    IF Meals(trip) > 0 THEN OrderForMeals(tasks, trip)
    ELSE Only(from, tasks)

ChooseFrom(from, candidates, trip) ==
    LET sets == PossibleSets(from, candidates, trip)
    IN  IF Missing(candidates, trip) # {} THEN Refused("HARD_MUST_VISIT_FACT_MISSING")
        ELSE IF Cardinality(DiningOf(ToSet(from))) < Meals(trip)
             THEN Refused("INSUFFICIENT_TRUSTED_DINING_CANDIDATES")
        ELSE IF sets = {} THEN Refused("NO_HARD_CONSTRAINT_PLAN")
        ELSE Accepted(InOrder(Fairest([s \in sets |-> FairnessKey(s, trip)]), from, trip))

ChooseSinglePlan(candidates, ranked, trip) ==
    ChooseFrom(Takeable(candidates, ranked, trip), candidates, trip)

\* The plan of signed places, if they could be signed.
PlanOf(signed, ranking, trip) ==
    LET candidates == IssueCandidates(signed.value, trip)
    IN  IF signed.code # "OK" THEN signed
        ELSE ChooseSinglePlan(candidates, Rank(candidates, ranking), trip)

\* The whole of GET /api/v2/trips/{trip_id}/recommendations.
Recommend(found, ranking, trip) == PlanOf(PreFilter(found, trip), ranking, trip)

-----------------------------------------------------------------------------
(* The types of what a recommendation is made of.                          *)

IsTraveller(m) ==
    /\ m.must \in Seq(ToSet(m.must)) /\ m.avoid \in Seq(ToSet(m.avoid))
    /\ IsFiniteSet(m.wishes) /\ m.cap \in Int

IsTrip(trip) ==
    /\ trip.total \in Int
    /\ trip.members \in Seq(ToSet(trip.members)) /\ trip.members # <<>>
    /\ \A m \in ToSet(trip.members) : IsTraveller(m)

\* How close its name is to a label matters for what the members ask for.
IsPlace(p, trip) ==
    /\ p.id \in Int /\ p.at \in Int /\ p.price \in Int \cup {None}
    /\ \A m \in ToSet(trip.members) : \A l \in ToSet(m.must) : p.match[l] \in Int

AreFound(found, trip) ==
    found \in Seq(ToSet(found)) /\ \A p \in ToSet(found) : IsPlace(p, trip)

IsRanking(ranking) == ranking # None => ranking \in Seq(Int)

-----------------------------------------------------------------------------
(* What a recommendation promises.                                         *)

(***************************************************************************)
(* Facts that were signed can be planned with: the reservation of the      *)
(* restaurants and the visits (pre_filter_provider_places) leaves a plan   *)
(* to choose (choose_single_plan), unless the members ask for more         *)
(* restaurants than the day has meals, and as long as the filter has       *)
(* looked at all that they avoid.                                          *)
(***************************************************************************)
CanBePlanned(found, trip, plan) ==
    LET signed == PreFilter(found, trip)
        asked == RequiredCandidates(IssueCandidates(signed.value, trip), trip)
    IN  signed.code = "OK" /\ Len(Avoided(trip)) <= MaxAvoided =>
            \/ plan.code = "OK"
            \/ Meals(trip) > 0 /\ Cardinality(DiningOf(ToSet(asked))) > Meals(trip)

(***************************************************************************)
(* Whatever the model ranks, the plan keeps every member's hard limits:    *)
(* it visits what each asked for, nothing that one of them avoids or       *)
(* cannot afford, no place to sleep, and it eats once for each meal.  That *)
(* is so as long as the filter looks at all that they avoid.               *)
(***************************************************************************)
KeepsHardLimits(found, trip, plan) ==
    plan.code = "OK" /\ Len(Avoided(trip)) <= MaxAvoided =>
        /\ \A p \in ToSet(plan.value), m \in ToSet(trip.members) :
              /\ p \in ToSet(found) /\ p.inCity /\ ~IsLodging(p)
              /\ p.price # None => p.price <= m.cap /\ p.price <= trip.total
              /\ \A l \in ToSet(m.avoid) : ~Matches(p, l)
        /\ \A m \in ToSet(trip.members) : \A l \in ToSet(m.must) :
              \E p \in ToSet(plan.value) : Serves(p, l)
        /\ Meals(trip) > 0 => Len(Only(plan.value, DiningOf(ToSet(plan.value)))) = Meals(trip)
        /\ Len(Distinct(plan.value)) = Len(plan.value)

(***************************************************************************)
(* "The model's bounded proposal is a ranking hint" (choose_single_plan):  *)
(* on a day with a meal the plan does not depend on it, and neither on the *)
(* order in which the provider lists the places.                           *)
(***************************************************************************)
TakesTheRankingAsAHint(found, trip, plan) ==
    LET once == Len(Distinct(Ids(found))) = Len(found)
        listings == {found} \cup IF once THEN {Reverse(found)} ELSE {}
    IN  Meals(trip) > 0 => \A other \in listings : Recommend(other, None, trip) = plan
=============================================================================
