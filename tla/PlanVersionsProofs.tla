------------------------- MODULE PlanVersionsProofs -------------------------
(***************************************************************************)
(* Facts about the transactions of the plan store, for the modules that    *)
(* compose them: what the transition tables allow, and that every          *)
(* transaction keeps the types of the columns.                             *)
(***************************************************************************)
EXTENDS PlanVersions, TLAPS

(* A plan becomes CURRENT or REJECTED from PROPOSED only, SUPERSEDED from  *)
(* CURRENT only (PLAN_VERSION_TRANSITIONS).                                *)
LEMMA PlanMoves ==
    ASSUME NEW p \in Plan
    PROVE  /\ PlanMayBecome(p, "CURRENT") => status[p] = "PROPOSED"
           /\ PlanMayBecome(p, "REJECTED") => status[p] = "PROPOSED"
           /\ PlanMayBecome(p, "SUPERSEDED") => status[p] = "CURRENT"
  BY DEF PlanMayBecome, PlanTransitions

(* A trip is confirmed from PLAN_REVIEW only, and starts to execute from   *)
(* CONFIRMED or REPLAN_REVIEW only (TRIP_TRANSITIONS).                     *)
LEMMA TripMoves ==
    ASSUME NEW t \in Trip
    PROVE  /\ TripMayBecome(t, "CONFIRMED") => tripStatus[t] = "PLAN_REVIEW"
           /\ TripMayBecome(t, "EXECUTING") => tripStatus[t] \in {"CONFIRMED", "REPLAN_REVIEW"}
  BY DEF TripMayBecome, TripTransitions

-----------------------------------------------------------------------------
(* Type correctness.                                                       *)

(* A fresh row has the types of its columns.                               *)
LEMMA InsertTypes ==
    ASSUME PlanTypeOK, NEW t \in Trip, NEW p \in Plan, NEW v \in {1, 2},
           NEW b \in Plan \cup {None}, NEW d \in Itinerary, InsertProposed(t, p, v, b, d)
    PROVE  /\ status' \in [Plan -> PlanStatus \cup {"NONE"}]
           /\ owner' \in [Plan -> Trip \cup {None}]
           /\ version' \in [Plan -> 0..2]
           /\ parent' \in [Plan -> Plan \cup {None}]
           /\ tasks' \in [Plan -> Itinerary \cup {<<>>}]
<1>1. "PROPOSED" \in PlanStatus /\ v \in 0..2
  BY DEF PlanStatus
<1> QED
  BY <1>1 DEF InsertProposed, PlanTypeOK

(* The statement UPDATE trips SET trip_status writes a trip status.        *)
LEMMA UpdateTripType ==
    ASSUME PlanTypeOK, NEW t \in Trip, NEW from, NEW to \in TripStatus, UpdateTrip(t, from, to)
    PROVE  tripStatus' \in [Trip -> TripStatus \cup {"NONE"}]
  BY DEF PlanTypeOK, UpdateTrip

LEMMA RegisterTypes ==
    ASSUME PlanTypeOK, NEW t \in Trip, NEW p \in Plan, NEW d \in Itinerary,
           RegisterV1(t, p, d) \/ \E b \in Plan : RegisterV2(t, p, b, d)
    PROVE  PlanTypeOK'
<1>1. "PLAN_REVIEW" \in TripStatus /\ "REPLAN_REVIEW" \in TripStatus
  BY DEF TripStatus
<1>2. /\ status' \in [Plan -> PlanStatus \cup {"NONE"}]
      /\ owner' \in [Plan -> Trip \cup {None}]
      /\ version' \in [Plan -> 0..2]
      /\ parent' \in [Plan -> Plan \cup {None}]
      /\ tasks' \in [Plan -> Itinerary \cup {<<>>}]
  BY InsertTypes DEF RegisterV1, RegisterV2
<1>3. tripStatus' \in [Trip -> TripStatus \cup {"NONE"}]
  <2>1. CASE RegisterV1(t, p, d)
    BY <1>1, <2>1 DEF RegisterV1, PlanTypeOK
  <2>2. CASE \E b \in Plan : RegisterV2(t, p, b, d)
    BY <1>1, <2>2, UpdateTripType DEF RegisterV2
  <2> QED  BY <2>1, <2>2
<1>4. reported' \in [Trip -> TripStatus \cup {"NONE"}]
  BY DEF RegisterV1, RegisterV2, PlanTypeOK
<1> QED  BY <1>2, <1>3, <1>4 DEF PlanTypeOK

LEMMA DecisionTypes ==
    ASSUME PlanTypeOK, NEW t \in Trip, NEW p \in Plan, Decision(t, p) \/ StartExecution(t)
    PROVE  PlanTypeOK'
<1>1. {"CONFIRMED", "EXECUTING"} \subseteq TripStatus
      /\ {"CURRENT", "REJECTED", "SUPERSEDED"} \subseteq PlanStatus
  BY DEF TripStatus, PlanStatus
<1>2. CASE Confirm(t, p)
  BY <1>1, <1>2, UpdateTripType DEF Confirm, PlanTypeOK, UnchangedRows
<1>3. CASE ConfirmReplay(t, p) \/ AcceptReplay(t, p) \/ RejectReplay(t, p)
  BY <1>1, <1>3 DEF ConfirmReplay, AcceptReplay, RejectReplay, PlanTypeOK, UnchangedRows
<1>4. CASE AcceptV2(t, p)
  BY <1>1, <1>4, UpdateTripType DEF AcceptV2, Promote, PlanTypeOK, UnchangedRows
<1>5. CASE RejectV2(t, p)
  BY <1>1, <1>5, UpdateTripType DEF RejectV2, PlanTypeOK, UnchangedRows
<1>6. CASE StartExecution(t)
  BY <1>1, <1>6, UpdateTripType DEF StartExecution, PlanTypeOK, UnchangedRows
<1> QED  BY <1>2, <1>3, <1>4, <1>5, <1>6 DEF Decision
=============================================================================
