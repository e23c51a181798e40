------------------------------ MODULE Planner ------------------------------
(***************************************************************************)
(* How a day plan is checked and chosen: the request contract of           *)
(* services/planning/models.py, DeterministicCandidatePlanner of           *)
(* planner.py, DeterministicFairRecommendationService of services/fairness *)
(* and the choice among signed places in recommendation_service.py.        *)
(*                                                                         *)
(* A request has the trip, the two endpoints and the tasks with what the   *)
(* provider knows of their places and of the routes to them.  A price is   *)
(* None when it is unknown.  Places are points, texts are compared after   *)
(* they were normalised, and times are in minutes, to which the code       *)
(* rounds the seconds of a route up.                                       *)
(***************************************************************************)
EXTENDS CareRules

Facilities == {"ELEVATOR", "RAMP", "NURSING_ROOM", "ACCESSIBLE_ENTRANCE"}

-----------------------------------------------------------------------------
(* The request.                                                            *)

\* The numbers of a request, as its types have them.
IsProfile(care) ==
    /\ \A limit \in {care.segment, care.daily, care.transfers, care.rest} :
          limit \in Nat \cup {None}
    /\ care.nap \in (Nat \X Nat) \cup {None}

IsMember(m) ==
    /\ m.care # None => IsProfile(m.care)
    /\ m.cap \in Nat
    /\ IsFiniteSet(DOMAIN m.wishes) /\ \A w \in DOMAIN m.wishes : m.wishes[w] \in Nat

IsTask(t) ==
    /\ DOMAIN t = {"from", "to", "ends", "city", "elapsed", "words", "restBefore",
                   "restOnArrival", "place", "route"}
    /\ DOMAIN t.place = {"at", "name", "city", "price", "source"}
    /\ DOMAIN t.route = {"mode", "origin", "dest", "minutes", "meters", "walking", "transfers",
                         "price", "source", "facilities"}
    /\ {t.from, t.to, t.elapsed, t.route.minutes, t.route.meters} \subseteq Nat
    /\ {t.place.price, t.route.price, t.route.walking, t.route.transfers} \subseteq Nat \cup {None}
    /\ t.route.facilities \in Seq(ToSet(t.route.facilities))

IsRequest(r) ==
    /\ DOMAIN r = {"trip", "confirmed", "start", "end", "tasks"}
    /\ DOMAIN r.start = {"text", "city", "at", "source"} /\ DOMAIN r.end = DOMAIN r.start
    /\ {r.trip.start, r.trip.end, r.trip.total, r.trip.day} \subseteq Nat
    /\ r.trip.members \in Seq(ToSet(r.trip.members)) /\ \A m \in ToSet(r.trip.members) : IsMember(m)
    /\ r.tasks \in Seq(ToSet(r.tasks)) /\ \A t \in ToSet(r.tasks) : IsTask(t)

\* The rests before and after a route leave time for it.
RestsFit(t, previous) ==
    LET leaveBy == (IF t.restOnArrival = None THEN t.from ELSE t.restOnArrival[1])
                       - t.route.minutes
    IN  /\ t.restOnArrival # None => t.restOnArrival[2] = t.from /\ leaveBy >= previous
        /\ t.restBefore # None => previous <= t.restBefore[1] /\ t.restBefore[2] <= leaveBy

\* When the task before task i ends.
PreviousEnd(r, i) == IF i = 1 THEN r.trip.start ELSE r.tasks[i - 1].to

ValidRequest(r) ==
    /\ Len(r.trip.members) \in 1..20
    /\ r.trip.start < r.trip.end
    /\ r.trip.day <= r.trip.total
    /\ Len(r.tasks) \in 3..6
    /\ \A i \in DOMAIN r.tasks :
          LET t == r.tasks[i]
          IN  /\ r.trip.start <= t.from /\ t.from < t.to /\ t.to <= r.trip.end
              /\ PreviousEnd(r, i) <= t.from
              /\ RestsFit(t, PreviousEnd(r, i))

\* The code of the first check that does not hold.
FirstFailure(checks) ==
    LET failed == SelectSeq(checks, LAMBDA c : ~c[1])
    IN  IF failed = <<>> THEN "OK" ELSE failed[1][2]

Origin(r, i) == IF i = 1 THEN r.start.at ELSE r.tasks[i - 1].place.at

TaskChecks(r, i) ==
    LET t == r.tasks[i]
    IN  <<<<t.city = r.trip.city /\ t.place.city = r.trip.city, "CROSS_CITY_FACT">>,
          <<t.route.dest = t.place.at /\ t.ends = t.place.name, "FACT_LINK_MISMATCH">>,
          <<t.route.origin = Origin(r, i), "ROUTE_CHAIN_INVALID">>,
          <<t.route.minutes <= t.from - PreviousEnd(r, i), "ROUTE_SCHEDULE_INVALID">>>>

\* Whether the facts belong to the trip and to each other.
SameCityFacts(r) ==
    FirstFailure(
        <<<<r.start.city = r.trip.city, "CROSS_CITY_FACT">>,
          <<r.start.text = r.trip.startText, "FACT_LINK_MISMATCH">>,
          <<r.end.city = r.trip.city, "CROSS_CITY_FACT">>,
          <<r.end.text = r.trip.endText, "FACT_LINK_MISMATCH">>>>
        \o FlattenSeq([i \in DOMAIN r.tasks |-> TaskChecks(r, i)])
        \o <<<<r.tasks[Len(r.tasks)].route.dest = r.end.at, "RETURN_ENDPOINT_MISMATCH">>>>)

-----------------------------------------------------------------------------
(* The candidate plan.                                                     *)

Adapted(r) == [i \in DOMAIN r.tasks |-> RiskSegment(r.tasks[i].route, r.tasks[i].elapsed)]

Known(price) == IF price = None THEN 0 ELSE price

KnownTotal(r) ==
    FoldLeft(+, 0, [i \in DOMAIN r.tasks |->
                       Known(r.tasks[i].place.price) + Known(r.tasks[i].route.price)])

BudgetLimit(trip) == Min({trip.total, trip.day} \cup {m.cap : m \in ToSet(trip.members)})

\* Whether anybody needs to know about the facilities on the way.
NeedsFacilities(trip) ==
    \E m \in ToSet(trip.members) :
        m.care # None /\ (m.care.type = "PARENT_CHILD" \/ m.care.stairs)

\* Where a route tells of a facility.
Evidence(route, f) == {k \in DOMAIN route.facilities : route.facilities[k].type = f}

ToldTwice(route, f) == Cardinality(Evidence(route, f)) > 1

\* A facility is known if the route says one thing of it, from a known source.
FacilityUnknown(route, f) ==
    \/ Cardinality(Evidence(route, f)) # 1
    \/ \E k \in Evidence(route, f) :
          \/ route.facilities[k].status = "NEEDS_CONFIRMATION"
          \/ route.facilities[k].source = "UNKNOWN"

\* What a warning may be about: a price, a source or a facility of a task, or
\* the source of an endpoint.
Facts(r) ==
    [code : {"UNKNOWN_PRICE", "UNKNOWN_SOURCE"}, of : DOMAIN r.tasks, fact : {"place", "route"}]
    \cup [code : {"UNKNOWN_FACILITY"}, of : DOMAIN r.tasks, fact : Facilities]
    \cup [code : {"UNKNOWN_SOURCE"}, of : {0}, fact : {"start", "end"}]

IsUnknown(w, r) ==
    LET of == IF w.of = 0 THEN r ELSE r.tasks[w.of]
    IN  CASE w.code = "UNKNOWN_PRICE" -> of[w.fact].price = None
          [] w.code = "UNKNOWN_SOURCE" -> of[w.fact].source = "UNKNOWN"
          [] w.code = "UNKNOWN_FACILITY" ->
                 NeedsFacilities(r.trip) /\ FacilityUnknown(of.route, w.fact)

\* The results of the HARD rules; what is known of a facility is SOFT.
HardResults(r) ==
    LET limits == GroupConstraints(r.trip.members)
        adapted == Adapted(r)
        segments == [i \in DOMAIN adapted |-> adapted[i].value]
    IN  Range(RouteResults(segments, limits)) \cup Range(DayResults(r.tasks, r.trip, limits))
            \cup {PassIf(KnownTotal(r) <= BudgetLimit(r.trip))}

\* The candidate plan of a request, identified by the request itself, of which
\* the code takes a digest.
Candidate(r) ==
    LET warnings == {w \in Facts(r) : IsUnknown(w, r)}
    IN  [request |-> r,
         warnings |-> warnings,
         cost |-> IF \E w \in warnings : w.code = "UNKNOWN_PRICE" THEN None ELSE KnownTotal(r),
         status |-> IF warnings = {} THEN "PASS" ELSE "NEEDS_CONFIRMATION"]

Generate(r) ==
    IF ~ValidRequest(r) THEN Refused("CANDIDATE_PLAN_INPUT_INVALID")
    ELSE IF r.confirmed # GroupConstraints(r.trip.members)
         THEN Refused("CONFIRMED_CONSTRAINTS_MISMATCH")
    ELSE IF SameCityFacts(r) # "OK" THEN Refused(SameCityFacts(r))
    ELSE IF \E s \in ToSet(Adapted(r)) : s.code # "OK" THEN Refused("ROUTE_RISK_INPUT_INVALID")
    ELSE IF HardResults(r) # {"PASS"} THEN Refused("CANDIDATE_PLAN_REJECTED")
    ELSE Accepted(Candidate(r))

\* A plan is proposed only if nothing of it is left to be confirmed, and only
\* if it is what the planner makes of the request.
ProposedAs(candidate, expected, r) ==
    IF expected.code # "OK" THEN expected
    ELSE IF candidate # expected.value THEN Refused("CANDIDATE_REQUEST_MISMATCH")
    ELSE IF candidate.status # "PASS" THEN Refused("CANDIDATE_CONFIRMATION_REQUIRED")
    ELSE Accepted([trip |-> r.trip, cost |-> candidate.cost,
                   tasks |-> [i \in DOMAIN r.tasks |-> r.tasks[i].place.at]])

Proposed(candidate, r) == ProposedAs(candidate, Generate(r), r)

-----------------------------------------------------------------------------
(* The fairest of several candidates.                                      *)

PlanWords(plan) == UNION {t.words : t \in ToSet(plan.request.tasks)}

\* A plan that costs a member too much, or that has or lacks a place which the
\* member cannot do with or without.
HardRejected(trip, plan) ==
    \E m \in ToSet(trip.members) :
        \/ plan.cost # None /\ plan.cost > m.cap
        \/ ~(m.must \subseteq PlanWords(plan))
        \/ m.avoid \cap PlanWords(plan) # {}

\* What a member thinks of a plan: each wish that it does not meet costs four
\* times its weight.
Satisfaction(m, plan) ==
    LET unmet == {w \in DOMAIN m.wishes : w \notin PlanWords(plan)}
    IN  Max({0, 100 - 4 * MapThenSumSet(LAMBDA w : m.wishes[w], unmet)})

\* The candidates' identities come last; their order stands for that of the
\* digests.
FairKey(trip, c) ==
    LET scores == [i \in DOMAIN trip.members |-> Satisfaction(trip.members[i], c.plan)]
    IN  <<-Min(ToSet(scores)), -FoldLeft(+, 0, scores),
          IF c.plan.cost = None THEN 1 ELSE 0, IF c.plan.cost = None THEN 0 ELSE c.plan.cost,
          c.detour, c.id>>

SelectUnique(trip, candidates) ==
    LET fair == {c \in candidates : ~HardRejected(trip, c.plan)}
    IN  IF fair = {} THEN Refused("NO_FAIR_CANDIDATE")
        ELSE Accepted(CHOOSE c \in fair :
                         FairKey(trip, c) = Least({FairKey(trip, d) : d \in fair}))

-----------------------------------------------------------------------------
(* The recommendation from a signed set of places.                         *)

MaxOrders == 12

\* The first orders of two or three places, at equal distances in the list.
DeterministicOrders(ids) ==
    LET n == Len(ids)
        order(size, offset, first) ==
            [k \in 1..size |-> ids[((first - 1 + (k - 1) * offset) % n) + 1]]
        all == FlattenSeq([size \in 1..2 |-> FlattenSeq([offset \in 1..(n - 1) |->
                  [first \in 1..n |-> order(size + 1, offset, first)]])])
        distinct == SelectSeq(all, LAMBDA s : IsInjective(s))
    IN  SubSeq(FoldLeft(LAMBDA seen, s : IF Contains(seen, s) THEN seen ELSE Append(seen, s),
                        <<>>, distinct),
               1, MaxOrders)

\* The orders for which the route builder is asked.
OrdersAsked(ids, proposal) == ToSet(DeterministicOrders(ids)) \cup ({proposal} \ {None})

\* What the route builder makes of an order, if it makes anything.
IsBuilt(built) == built.detour \in Nat /\ IsRequest(built.request)

\* The route builder must keep the order, the trip, the endpoints and the
\* constraints, and may add no place that was not signed.
IsFaithful(facts, order, built) ==
    /\ built.order = order
    /\ built.request.trip = facts.trip /\ built.request.confirmed = facts.confirmed
    /\ built.request.start = facts.start /\ built.request.end = facts.end
    /\ LET visited == {t.place.at : t \in ToSet(built.request.tasks)}
       IN  ToSet(order) \subseteq visited /\ visited \subseteq facts.places

\* The candidates that the orders lead to, each from the first order that
\* leads to it; routed[order] is the route builder's answer or None.
BuiltCandidates(facts, orders, routed) ==
    LET faithful == {i \in DOMAIN orders :
                        /\ routed[orders[i]] # None
                        /\ IsFaithful(facts, orders[i], routed[orders[i]])}
        generated == [i \in faithful |-> Generate(routed[orders[i]].request)]
        first == {i \in faithful :
                     /\ generated[i].code = "OK"
                     /\ \A j \in faithful : generated[j] = generated[i] => i <= j}
    IN  {[plan |-> generated[i].value, detour |-> routed[orders[i]].detour,
          order |-> orders[i], id |-> i] : i \in first}

FairestBuilt(facts, orders, routed) ==
    SelectUnique(facts.trip, BuiltCandidates(facts, orders, routed))

Chosen(ofModel, enumerated) ==
    IF ofModel.code = "OK" THEN ofModel
    ELSE IF enumerated.code = "OK" THEN enumerated
    ELSE Refused("NO_RECOMMENDATION")

\* The places that the model proposes, in its order, or else the fairest of
\* the enumerated orders.
RecommendSigned(facts, ids, proposal, routed) ==
    Chosen(FairestBuilt(facts, IF proposal = None THEN <<>> ELSE <<proposal>>, routed),
           FairestBuilt(facts, DeterministicOrders(ids), routed))

-----------------------------------------------------------------------------
(* What an accepted plan promises.                                         *)

OnFoot(route) ==
    CASE route.mode = "TRANSIT" -> route.walking
      [] route.mode = "WALKING" -> route.meters
      [] OTHER -> 0

\* Whether the tasks of a request are within the limits of one profile.
SuitsProfile(r, care) ==
    LET tasks == ToSet(r.tasks)
        last == r.tasks[Len(r.tasks)]
        within(limit, n) == limit # None => n <= limit
    IN  /\ \A t \in tasks :
              /\ within(care.segment, OnFoot(t.route))
              /\ t.route.mode = "TRANSIT" => within(care.transfers, t.route.transfers)
              /\ within(care.rest, t.elapsed)
              /\ care.stairs => t.route.mode \notin {"WALKING", "TRANSIT"}
              /\ care.nap # None => t.to <= care.nap[1] \/ care.nap[2] <= t.from
        /\ within(care.daily,
                  FoldLeft(+, 0, [i \in DOMAIN r.tasks |-> OnFoot(r.tasks[i].route)]))
        /\ care.type = "PARENT_CHILD" => last.ends = r.trip.endText /\ last.to <= r.trip.end

(***************************************************************************)
(* A plan that the planner accepts suits every single member: it is within *)
(* the limits of each profile, though only the merged constraints of the   *)
(* group were checked (merge_group_constraints, evaluate_route_risk), and  *)
(* what is known of its cost is within what each can afford.               *)
(***************************************************************************)
SuitsEveryone(plan) ==
    \A m \in ToSet(plan.request.trip.members) :
        /\ m.care # None => SuitsProfile(plan.request, m.care)
        /\ KnownTotal(plan.request) <= m.cap

(***************************************************************************)
(* The plan that is recommended from signed places, whoever proposed it,   *)
(* suits everyone, and has all that a member must see, nothing that one    *)
(* wants to avoid and no place that was not signed.                        *)
(***************************************************************************)
RecommendedSuits(facts, plan) ==
    /\ SuitsEveryone(plan)
    /\ {t.place.at : t \in ToSet(plan.request.tasks)} \subseteq facts.places
    /\ \A m \in ToSet(facts.trip.members) :
          m.must \subseteq PlanWords(plan) /\ m.avoid \cap PlanWords(plan) = {}
=============================================================================
