---------------------------- MODULE PlanVersions ----------------------------
(***************************************************************************)
(* The immutable PlanVersion store of app/infrastructure/plan_store.py     *)
(* with the transition tables of app/domain/plan_guard.py.  Every method   *)
(* of the repository is one BEGIN IMMEDIATE transaction, hence one action. *)
(* A refused call rolls back and changes nothing, so only the calls that   *)
(* succeed are steps, the idempotent replays included.                     *)
(***************************************************************************)
EXTENDS Naturals, Sequences, FiniteSets

CONSTANTS Trip,       \* tripId values
          Plan,       \* planId values
          Itinerary,  \* the task lists (PlanDay.tasks) a plan can carry
          None        \* SQL NULL / no such row

ASSUME NoneIsFresh == None \notin Trip \cup Plan

VARIABLES
    tripStatus,  \* trips.trip_status, "NONE" when the trip has no row
    status,      \* plan_versions.status, "NONE" when the plan has no row
    owner,       \* plan_versions.trip_id
    version,     \* plan_versions.version
    parent,      \* parentId in plan_versions.snapshot_json
    tasks,       \* days[0].tasks in plan_versions.snapshot_json
    reported     \* the trip status the last transition call answered with

planVars == <<tripStatus, status, owner, version, parent, tasks, reported>>

TripStatus == {"DRAFT", "CONSTRAINT_CONFIRMED", "PLANNING", "PLAN_REVIEW",
               "CONFIRMED", "EXECUTING", "REPLAN_REVIEW", "COMPLETED"}

PlanStatus == {"PROPOSED", "CURRENT", "REJECTED", "SUPERSEDED"}

TripTransitions ==
    {<<"DRAFT", "CONSTRAINT_CONFIRMED">>,
     <<"CONSTRAINT_CONFIRMED", "DRAFT">>, <<"CONSTRAINT_CONFIRMED", "PLANNING">>,
     <<"PLANNING", "DRAFT">>, <<"PLANNING", "PLAN_REVIEW">>,
     <<"PLAN_REVIEW", "DRAFT">>, <<"PLAN_REVIEW", "CONFIRMED">>,
     <<"CONFIRMED", "EXECUTING">>,
     <<"EXECUTING", "REPLAN_REVIEW">>, <<"EXECUTING", "COMPLETED">>,
     <<"REPLAN_REVIEW", "EXECUTING">>}

PlanTransitions ==
    {<<"PROPOSED", "CURRENT">>, <<"PROPOSED", "REJECTED">>, <<"CURRENT", "SUPERSEDED">>}

-----------------------------------------------------------------------------
HasTrip(t) == tripStatus[t] # "NONE"

HasPlan(p) == status[p] # "NONE"

PlansOf(t, s) == {p \in Plan : owner[p] = t /\ status[p] = s}

VersionTaken(t, v) == \E p \in Plan : HasPlan(p) /\ owner[p] = t /\ version[p] = v

\* Mutant: the guard accepts any target.
TripMayBecomeAnything(t, target) == HasTrip(t)

\* require_trip_transition and require_plan_transition.
TripMayBecome(t, target) == HasTrip(t) /\ <<tripStatus[t], target>> \in TripTransitions

PlanMayBecome(p, target) == HasPlan(p) /\ <<status[p], target>> \in PlanTransitions

\* Mutant: an UPDATE that lost its WHERE trip_status = from.
UpdateTripAnyway(t, from, to) == tripStatus' = [tripStatus EXCEPT ![t] = to]

\* UPDATE trips SET trip_status = to WHERE trip_id = t AND trip_status = from.
UpdateTrip(t, from, to) ==
    tripStatus' = [tripStatus EXCEPT ![t] = IF @ = from THEN to ELSE @]

\* Mutants: no UNIQUE (trip_id, version); the trip stored as the parent; no
\* parent stored.
InsertAnyVersion(t, p, v, b, d) ==
    /\ ~HasPlan(p)
    /\ status'  = [status EXCEPT ![p] = "PROPOSED"]
    /\ owner'   = [owner EXCEPT ![p] = t]
    /\ version' = [version EXCEPT ![p] = v]
    /\ parent'  = [parent EXCEPT ![p] = b]
    /\ tasks'   = [tasks EXCEPT ![p] = d]

InsertUnderTrip(t, p, v, b, d) ==
    InsertAnyVersion(t, p, v, t, d) /\ ~VersionTaken(t, v)

InsertOrphan(t, p, v, b, d) ==
    InsertAnyVersion(t, p, v, None, d) /\ ~VersionTaken(t, v)

\* The row of a fresh plan; the INSERT fails on UNIQUE (trip_id, version).
InsertProposed(t, p, v, b, d) ==
    /\ ~HasPlan(p)
    /\ ~VersionTaken(t, v)
    /\ status'  = [status EXCEPT ![p] = "PROPOSED"]
    /\ owner'   = [owner EXCEPT ![p] = t]
    /\ version' = [version EXCEPT ![p] = v]
    /\ parent'  = [parent EXCEPT ![p] = b]
    /\ tasks'   = [tasks EXCEPT ![p] = d]

UnchangedRows == UNCHANGED <<owner, version, parent, tasks>>

-----------------------------------------------------------------------------
\* The snapshot comparisons of register_proposed are left out: a second V1 of
\* a trip is refused by UNIQUE (trip_id, version) whatever its snapshot, and a
\* V2 is built from the snapshot of the CURRENT plan.

RegisterV1(t, p, d) ==
    /\ tripStatus[t] \in {"NONE", "PLAN_REVIEW"}
    /\ PlansOf(t, "CURRENT") = {}
    /\ InsertProposed(t, p, 1, None, d)
    /\ tripStatus' = [tripStatus EXCEPT ![t] = "PLAN_REVIEW"]
    /\ reported' = [reported EXCEPT ![t] = "NONE"]

RegisterV2(t, p, b, d) ==
    /\ tripStatus[t] = "EXECUTING"
    /\ HasPlan(b) /\ owner[b] = t /\ status[b] = "CURRENT"
    /\ InsertProposed(t, p, 2, b, d)
    /\ UpdateTrip(t, "EXECUTING", "REPLAN_REVIEW")
    /\ reported' = [reported EXCEPT ![t] = "NONE"]

Confirm(t, p) ==
    /\ HasPlan(p) /\ owner[p] = t /\ version[p] = 1
    /\ PlanMayBecome(p, "CURRENT")
    /\ TripMayBecome(t, "CONFIRMED")
    /\ PlansOf(t, "CURRENT") = {}
    /\ status' = [status EXCEPT ![p] = "CURRENT"]
    /\ UpdateTrip(t, "PLAN_REVIEW", "CONFIRMED")
    /\ reported' = [reported EXCEPT ![t] = "CONFIRMED"]
    /\ UnchangedRows

ConfirmReplay(t, p) ==
    /\ HasPlan(p) /\ owner[p] = t /\ version[p] = 1
    /\ status[p] = "CURRENT"
    /\ reported' = [reported EXCEPT ![t] = tripStatus[t]]
    /\ UNCHANGED <<tripStatus, status>> /\ UnchangedRows

\* The table lets REPLAN_REVIEW become EXECUTING, while the UPDATE is limited to
\* CONFIRMED: start_execution then answers EXECUTING and writes nothing.
StartExecution(t) ==
    /\ PlansOf(t, "CURRENT") # {}
    /\ tripStatus[t] = "EXECUTING" \/ TripMayBecome(t, "EXECUTING")
    /\ UpdateTrip(t, "CONFIRMED", "EXECUTING")
    /\ reported' = [reported EXCEPT ![t] = "EXECUTING"]
    /\ UNCHANGED status /\ UnchangedRows

\* Mutants: only one of the two UPDATEs of accept_v2 is executed.
PromoteOnly(p) == status' = [status EXCEPT ![p] = "CURRENT"]

RetireOnly(p) == status' = [status EXCEPT ![parent[p]] = "SUPERSEDED"]

\* The two UPDATEs of plan_versions in accept_v2.
Promote(p) ==
    status' = [status EXCEPT ![parent[p]] = "SUPERSEDED", ![p] = "CURRENT"]

IsV2Of(t, p) == HasPlan(p) /\ owner[p] = t /\ version[p] = 2

AcceptV2(t, p) ==
    /\ IsV2Of(t, p)
    /\ PlanMayBecome(p, "CURRENT")
    /\ PlanMayBecome(parent[p], "SUPERSEDED")
    /\ TripMayBecome(t, "EXECUTING")
    /\ Promote(p)
    /\ UpdateTrip(t, "REPLAN_REVIEW", "EXECUTING")
    /\ reported' = [reported EXCEPT ![t] = "EXECUTING"]
    /\ UnchangedRows

AcceptReplay(t, p) ==
    /\ IsV2Of(t, p) /\ status[p] = "CURRENT"
    /\ status[parent[p]] = "SUPERSEDED"
    /\ tripStatus[t] = "EXECUTING"
    /\ reported' = [reported EXCEPT ![t] = "EXECUTING"]
    /\ UNCHANGED <<tripStatus, status>> /\ UnchangedRows

RejectV2(t, p) ==
    /\ IsV2Of(t, p)
    /\ PlanMayBecome(p, "REJECTED")
    /\ TripMayBecome(t, "EXECUTING")
    /\ status[parent[p]] = "CURRENT"
    /\ status' = [status EXCEPT ![p] = "REJECTED"]
    /\ UpdateTrip(t, "REPLAN_REVIEW", "EXECUTING")
    /\ reported' = [reported EXCEPT ![t] = "EXECUTING"]
    /\ UnchangedRows

RejectReplay(t, p) ==
    /\ IsV2Of(t, p) /\ status[p] = "REJECTED"
    /\ status[parent[p]] = "CURRENT"
    /\ tripStatus[t] = "EXECUTING"
    /\ reported' = [reported EXCEPT ![t] = "EXECUTING"]
    /\ UNCHANGED <<tripStatus, status>> /\ UnchangedRows

-----------------------------------------------------------------------------
PlanInit ==
    /\ tripStatus = [t \in Trip |-> "NONE"]
    /\ status     = [p \in Plan |-> "NONE"]
    /\ owner      = [p \in Plan |-> None]
    /\ version    = [p \in Plan |-> 0]
    /\ parent     = [p \in Plan |-> None]
    /\ tasks      = [p \in Plan |-> <<>>]
    /\ reported   = [t \in Trip |-> "NONE"]

\* A decision on a plan that exists, whatever the trip of the request path.
Decision(t, p) ==
    \/ Confirm(t, p) \/ ConfirmReplay(t, p)
    \/ AcceptV2(t, p) \/ AcceptReplay(t, p)
    \/ RejectV2(t, p) \/ RejectReplay(t, p)

PlanTypeOK ==
    /\ tripStatus \in [Trip -> TripStatus \cup {"NONE"}]
    /\ status \in [Plan -> PlanStatus \cup {"NONE"}]
    /\ owner \in [Plan -> Trip \cup {None}]
    /\ version \in [Plan -> 0..2]
    /\ parent \in [Plan -> Plan \cup {None}]
    /\ tasks \in [Plan -> Itinerary \cup {<<>>}]
    /\ reported \in [Trip -> TripStatus \cup {"NONE"}]
=============================================================================
