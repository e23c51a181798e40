---------------------------- MODULE PlanRequests ----------------------------
(***************************************************************************)
(* What stands between a request and the planner: the review in which the  *)
(* user answers for what is unknown (planning_boundary_service.py,         *)
(* _review_items and _apply_confirmations), and the comparison of a        *)
(* request with the agreed revision (_revision_planning_projection,        *)
(* _request_planning_projection).                                          *)
(***************************************************************************)
EXTENDS Planner

-----------------------------------------------------------------------------
(* The review.                                                             *)

\* Answers, as their types have them.
AreAnswers(answers) ==
    \A w \in DOMAIN answers :
        answers[w].amount \in Nat \cup {None} /\ answers[w].facility \in {"PASS", "FAIL", None}

\* An answer has one value, of the type that its item asks for.
IsAnswer(item, a) ==
    /\ (a.amount # None) = (item.code = "UNKNOWN_PRICE")
    /\ (a.facility # None) = (item.code = "UNKNOWN_FACILITY")
    /\ IF item.code = "UNKNOWN_SOURCE" THEN a.source = TRUE ELSE a.source = None

Asked(answers, code, of, fact) == [code |-> code, of |-> of, fact |-> fact] \in DOMAIN answers

AnswerTo(answers, code, of, fact) == answers[[code |-> code, of |-> of, fact |-> fact]]

\* Mutant: every price that is confirmed is taken for the price of the place.
ConfirmedAsPlace(what, answers, i, fact) ==
    [what EXCEPT
       !.price = IF Asked(answers, "UNKNOWN_PRICE", i, "place")
                 THEN AnswerTo(answers, "UNKNOWN_PRICE", i, "place").amount ELSE @,
       !.source = IF Asked(answers, "UNKNOWN_SOURCE", i, fact) THEN "USER_CONFIRMED" ELSE @]

\* A place or a route (what) of task i with the answers that are about it.
Confirmed(what, answers, i, fact) ==
    [what EXCEPT
       !.price = IF Asked(answers, "UNKNOWN_PRICE", i, fact)
                 THEN AnswerTo(answers, "UNKNOWN_PRICE", i, fact).amount ELSE @,
       !.source = IF Asked(answers, "UNKNOWN_SOURCE", i, fact) THEN "USER_CONFIRMED" ELSE @]

\* The evidence for the facilities of a route: what was there is overwritten,
\* what was missing is added.
ConfirmedFacilities(route, answers, i) ==
    LET asked == {f \in Facilities : Asked(answers, "UNKNOWN_FACILITY", i, f)}
        evidence(f) == [type |-> f, source |-> "USER_CONFIRMED",
                        status |-> AnswerTo(answers, "UNKNOWN_FACILITY", i, f).facility]
        missing == {f \in asked : Evidence(route, f) = {}}
    IN  [k \in DOMAIN route.facilities |->
            LET e == route.facilities[k] IN IF e.type \in asked THEN evidence(e.type) ELSE e]
        \o SetToSeq({evidence(f) : f \in missing})

ConfirmedTask(t, answers, i) ==
    [t EXCEPT !.place = Confirmed(@, answers, i, "place"),
              !.route = [Confirmed(@, answers, i, "route") EXCEPT
                            !.facilities = ConfirmedFacilities(t.route, answers, i)]]

ApplyConfirmations(r, answers) ==
    LET source(fact) ==
            IF Asked(answers, "UNKNOWN_SOURCE", 0, fact) THEN "USER_CONFIRMED" ELSE r[fact].source
    IN  [r EXCEPT
           !.start.source = source("start"),
           !.end.source = source("end"),
           !.tasks = [i \in DOMAIN r.tasks |-> ConfirmedTask(r.tasks[i], answers, i)]]

\* Evidence that the route has twice cannot be overwritten.
AmbiguousItems(r, items) ==
    {w \in items : w.code = "UNKNOWN_FACILITY" /\ ToldTwice(r.tasks[w.of].route, w.fact)}

\* The plan that comes of a review of the candidate, if every item is answered.
ConfirmReview(candidate, answers) ==
    LET r == candidate.request
        items == candidate.warnings
        confirmed == ApplyConfirmations(r, answers)
    IN  IF DOMAIN answers # items THEN Refused("PLANNING_REVIEW_INCOMPLETE")
        ELSE IF \E w \in items : ~IsAnswer(w, answers[w])
             THEN Refused("PLANNING_REVIEW_VALUE_INVALID")
        ELSE IF AmbiguousItems(r, items) # {} THEN Refused("PLANNING_REVIEW_REFERENCE_INVALID")
        ELSE LET plan == Generate(confirmed)
             IN  IF plan.code # "OK" THEN plan ELSE Proposed(plan.value, confirmed)

-----------------------------------------------------------------------------
(* The comparison with the agreed revision.                                *)

\* Python sorts the keys member-1 to member-20 as texts.
KeyText(n) == IF n < 10 THEN <<n, -1>> ELSE <<n \div 10, n % 10>>

SortedKeys(revision) ==
    Sorted(ToSet(revision.members), [m \in ToSet(revision.members) |-> KeyText(m.key)])

\* The members that the draft numbers have a participant each, in that order
\* (_binding_issues); what is wrong there no relaxation settles.
WellBound(revision) ==
    LET sorted == SortedKeys(revision)
    IN  \A i \in DOMAIN sorted : sorted[i].key = i

\* A member as the comparison sees it; without a nickname it is numbered.
Projection(m, key, index, cap) ==
    [key |-> key, id |-> m.id, cap |-> cap, must |-> m.must, avoid |-> m.avoid,
     wishes |-> m.wishes, care |-> m.care,
     nickname |-> IF m.nickname = None THEN index ELSE m.nickname]

RevisionProjection(revision) ==
    LET sorted == SortedKeys(revision)
    IN  [i \in DOMAIN sorted |->
            LET m == sorted[i]
            IN  Projection(m, m.key, i, IF m.cap = None THEN revision.shared.total ELSE m.cap)]

RequestProjection(trip) ==
    [i \in DOMAIN trip.members |-> Projection(trip.members[i], i, i, trip.members[i].cap)]

\* The trip that the server makes of the revision for its organizer, in the
\* city that the provider found.
PlanningTrip(revision, city) ==
    [shared |-> [revision.shared EXCEPT !.city = city],
     members |-> [i \in DOMAIN revision.members |->
        LET m == revision.members[i]
        IN  [m EXCEPT !.nickname = IF @ = None THEN i ELSE @,
                      !.cap = IF @ = None THEN revision.shared.total ELSE @]]]

Mismatches(revision, trip) ==
    {f \in DOMAIN revision.shared : revision.shared[f] # trip.shared[f]}
    \cup IF RevisionProjection(revision) = RequestProjection(trip) THEN {} ELSE {"participants"}

\* The provider may name the city otherwise, if this is the confirmed trip.
RequireMatchesRevision(revision, trip, confirmedTrip) ==
    IF \/ Mismatches(revision, trip) \ {"city"} # {}
       \/ Mismatches(revision, trip) # {} /\ trip # confirmedTrip
    THEN Refused("COLLABORATION_PLAN_SNAPSHOT_MISMATCH")
    ELSE Accepted(trip)

\* A planning request for a draft that everyone has confirmed.
PlanRevision(revision, trip, confirmedTrip) ==
    IF ~WellBound(revision) THEN Refused("COLLABORATION_NOT_READY")
    ELSE RequireMatchesRevision(revision, trip, confirmedTrip)

-----------------------------------------------------------------------------
(* What the review and the comparison promise.                             *)

(***************************************************************************)
(* Once every item of a review is answered there is a plan of which        *)
(* nothing is unknown, and it costs what was known and what was answered   *)
(* together (_confirm_review_ready): unless that is more than the budget,  *)
(* or a route tells of one facility twice.                                 *)
(***************************************************************************)
ReviewIsComplete(candidate, answers, result) ==
    LET r == candidate.request
        items == candidate.warnings
        priced == {w \in items : w.code = "UNKNOWN_PRICE"}
        total == KnownTotal(r) + FoldFunction(+, 0, [w \in priced |-> answers[w].amount])
        twice == \E t \in ToSet(r.tasks), f \in Facilities : ToldTwice(t.route, f)
    IN  DOMAIN answers = items /\ (\A w \in items : IsAnswer(w, answers[w])) =>
            \/ result.code = "OK" /\ result.value.cost = total
            \/ result.code = "CANDIDATE_PLAN_REJECTED" /\ total > BudgetLimit(r.trip)
            \/ result.code = "PLANNING_REVIEW_REFERENCE_INVALID" /\ twice

(***************************************************************************)
(* "At most 20 people cooperate" (MAX_PARTICIPANT_COUNT of                 *)
(* app/domain/collaboration.py): once everyone has confirmed a draft of    *)
(* which nothing is missing or in conflict, the trip that the server       *)
(* itself makes of it can be planned.                                      *)
(***************************************************************************)
CanPlan(revision) ==
    LET trip == PlanningTrip(revision, revision.shared.city)
    IN  PlanRevision(revision, trip, trip).code = "OK"
=============================================================================
