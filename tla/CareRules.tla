----------------------------- MODULE CareRules -----------------------------
(***************************************************************************)
(* What the members' care profiles ask of a day: the compiler of           *)
(* services/assistance_constraints, the merge of                           *)
(* services/planning/group_constraints.py, the route rules of              *)
(* services/route_risk and the day rules of the planner.                   *)
(*                                                                         *)
(* A profile has None for a limit that it does not set.  A set of          *)
(* constraints is a function from the names of the constrained fields to   *)
(* their values: operator, scope and hardness are fixed by the field, and  *)
(* every compiled constraint is HARD.  Times are in minutes.               *)
(***************************************************************************)
EXTENDS Outcomes

-----------------------------------------------------------------------------
(* The constraints.                                                        *)

Limits == {"segment", "daily", "transfers", "rest", "nap"}
RouteFields == {"stairs", "segment", "daily", "transfers", "rest"}

Compile(profile) ==
    LET set == {f \in Limits : profile[f] # None}
        home == IF profile.type = "PARENT_CHILD" THEN {"return"} ELSE {}
        steps == IF profile.stairs THEN {"stairs"} ELSE {}
    IN  [f \in set \cup home \cup steps |-> IF f \in set THEN profile[f] ELSE TRUE]

\* Mutant: the first limit that is found stands for all.
MergedAsFirst(f, values) == CHOOSE v \in values : TRUE

\* What several members ask of one field: the lowest limit, the longest nap.
\* The other fields have one value, so the merge never has a conflict to report.
Merged(f, values) ==
    IF Cardinality(values) = 1 THEN CHOOSE v \in values : TRUE
    ELSE IF f = "nap" THEN <<Min({v[1] : v \in values}), Max({v[2] : v \in values})>>
    ELSE Min(values)

GroupConstraints(members) ==
    LET compiled == {Compile(m.care) : m \in {n \in ToSet(members) : n.care # None}}
    IN  [f \in UNION {DOMAIN c : c \in compiled} |->
            Merged(f, {c[f] : c \in {d \in compiled : f \in DOMAIN d}})]

-----------------------------------------------------------------------------
(* The route.                                                              *)

\* What a route tells the rules: a walk, to a stop or all the way, may have
\* stairs, which the provider does not say.
RiskSegment(route, elapsed) ==
    LET byFoot == route.mode \in {"WALKING", "TRANSIT"}
        transit == route.mode = "TRANSIT"
    IN  IF \/ transit /\ None \in {route.walking, route.transfers}
           \/ elapsed < route.minutes
        THEN Refused("ROUTE_RISK_INPUT_INVALID")
        ELSE Accepted([walk |-> IF transit THEN route.walking
                                ELSE IF byFoot THEN route.meters ELSE 0,
                       transfers |-> IF transit THEN route.transfers ELSE 0,
                       elapsed |-> elapsed,
                       stairs |-> IF byFoot THEN "UNKNOWN" ELSE "LEVEL"])

PassIf(holds) == IF holds THEN "PASS" ELSE "FAIL"

\* The walk of the whole day, wherever it passes the limit.
DailyWalk(segments) == FoldLeft(+, 0, [i \in DOMAIN segments |-> segments[i].walk])

\* The result of each rule on the segments of a route, which are walked in order.
RouteResults(segments, limits) ==
    LET all == ToSet(segments)
    IN  [f \in DOMAIN limits \cap RouteFields |->
            CASE f = "stairs" ->
                     IF \E s \in all : s.stairs = "UNKNOWN" THEN "NEEDS_CONFIRMATION" ELSE "PASS"
              [] f = "segment" -> PassIf(\A s \in all : s.walk <= limits[f])
              [] f = "daily" -> PassIf(DailyWalk(segments) <= limits[f])
              [] f = "transfers" -> PassIf(\A s \in all : s.transfers <= limits[f])
              [] f = "rest" -> PassIf(\A s \in all : s.elapsed <= limits[f])]

-----------------------------------------------------------------------------
(* The day.                                                                *)

NapResult(tasks, nap) ==
    PassIf(~ \E t \in ToSet(tasks) : t.from < nap[2] /\ t.to > nap[1])

ReturnResult(tasks, trip) ==
    LET final == tasks[Len(tasks)]
    IN  PassIf(final.ends = trip.endText /\ final.to <= trip.end)

DayResults(tasks, trip, limits) ==
    [f \in DOMAIN limits \ RouteFields |->
        IF f = "nap" THEN NapResult(tasks, limits[f]) ELSE ReturnResult(tasks, trip)]
=============================================================================
